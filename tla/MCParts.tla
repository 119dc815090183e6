------------------------------ MODULE MCParts ------------------------------
(***************************************************************************)
(* Instances of the smaller modules for TLC, side by side in one run, and  *)
(* one of Cow that MCCow has not.  A behaviour is one of one part, which   *)
(* part names.  The parts share the variables v1, v2, ..., and those that  *)
(* a part does not have stay 0; RWLock and Console have variables of their *)
(* own.                                                                    *)
(***************************************************************************)
EXTENDS RWLock, Sequences, TLC

CONSTANTS Actor, \* processes or instructions
          Site, \* CPUs, blocks or inodes
          Way,
          Pick(_) \* which pages kalloc may return: one, they are interchangeable

VARIABLES part, v1, v2, v3, v4, v5, v6, v7, v8, v9,
          v10, v11, v12, v13, v14, v15, v16, v17, v18

P == INSTANCE Pipe WITH
  Proc <- Thread, Byte <- {0}, PIPESIZE <- 2, WORD <- 4, MaxN <- 3, MaxCalls <- 3,
  Killable <- {},
  data <- v1, nread <- v2, nwrite <- v3, readopen <- v4, writeopen <- v5, lock <- v6,
  freed <- v7, holders <- v8, pc <- v9, op <- v10, n <- v11, i <- v12, buf <- v13,
  dying <- v14, calls <- v15, ptlock <- v16, chan <- v17, killed <- v18

VARIABLES input, r, w, e, reader, want, got, dead
C == INSTANCE Console WITH
  Proc <- {1, 2}, INPUT_BUF <- 2, WORD <- 4, Plain <- {"a"}, MaxN <- 2,
  buf <- input, pc <- reader, killed <- dead

S == INSTANCE Shell WITH
  Pid <- 1 .. 3, SLOTS <- 2,
  table <- v1, any <- v2, sigint <- v3, todo <- v4, await <- v5, own <- v6,
  strangers <- v7, pc <- v8, hit <- v9

L == INSTANCE Spinlock WITH
  Cpu <- Site, Thread <- Actor, SpinLock <- {"l"},
  state <- v1, proc <- v2, iflag <- v3, ncli <- v4, intena <- v5, locked <- v6,
  todo <- v7, panicked <- v8

B == INSTANCE Blocks WITH
  Proc <- Actor, Inode <- Site, SIZE <- 5, BSIZE <- 2, NDIRECT <- 1, NINDIRECT <- 3,
  MAXOPBLOCKS <- 6, Lengths <- {7, 8},
  used <- v1, ptr <- v2, addrs <- v3, size <- v4, dinode <- v5, lock <- v6, job <- v7,
  logged <- v8, panicked <- v9

M == INSTANCE Malloc WITH
  HEADER <- 2, Request <- {1, 3, 6}, MORE <- 4, LIMIT <- 14,
  ptr <- v1, size <- v2, freep <- v3, brk <- v4, live <- v5, gaps <- v6

X == INSTANCE Sh WITH
  Word <- {"w"}, MAXARGS <- 3, MaxTokens <- 5, cmd <- v1, proc <- v2

H == INSTANCE ChampCache WITH
  Instr <- Actor, Block <- Site, Ways <- {Way},
  RQ_SIZE <- 2, WQ_SIZE <- 1, PQ_SIZE <- 1, MSHR_SIZE <- 2, TAGS <- 1,
  MaxWrites <- 1, MaxQueued <- 3,
  rq <- v1, wq <- v2, pq <- v3, internal <- v4, tags <- v5, mshr <- v6, writes <- v7,
  block <- v8, owed <- v9, waiting <- v10, lost <- v11

\* Instructions: of arithmetic, of memory, and branches that are mispredicted.
Instruction(reads, writes, loads, stores, branch) ==
  [reads |-> reads, writes |-> writes, loads |-> loads, stores |-> stores, branch |-> branch]
Instructions ==
  {Instruction({"r", "s"}, {"s"}, {}, {}, "no"), Instruction({}, {"r"}, {"x"}, {}, "no"),
   Instruction({"s"}, {}, {}, {"x"}, "no"), Instruction({}, {}, {"x"}, {"x"}, "no"),
   Instruction({"r"}, {}, {}, {}, "execute"), Instruction({}, {}, {}, {}, "decode")}

O == INSTANCE Cpu WITH
  Reg <- {"r", "s"}, Addr <- {"x"}, N <- 3, Kind <- Instructions,
  BUFFER_SIZE <- 1, ROB_SIZE <- 3, LQ_SIZE <- 2, SQ_SIZE <- 1,
  trace <- v1, stopped <- v2, ifetch <- v3, decode <- v4, dispatch <- v5, rob <- v6,
  producers <- v7, lq <- v8, sq <- v9, owed <- v10

D == INSTANCE Dram WITH
  Block <- {<<1, 0, 0>>, <<1, 1, 0>>, <<2, 0, 0>>}, Bank <- {1, 2},
  RQ_SIZE <- 2, WQ_SIZE <- 2, tACT <- 1, tCAS <- 1, TURN_AROUND <- 1, RETURN_TIME <- 2,
  MaxQueued <- 1,
  rq <- v1, wq <- v2, ch <- v3, warmup <- v4, owed <- v5

W == INSTANCE Ptw WITH
  CPU <- 1, OtherCPU <- {2}, Vpage <- {0, 2}, OtherVpage <- {0}, LEVELS <- 2, RADIX <- 2,
  PARTS <- 2, WAYS <- 1, MAX_READ <- 1, MAX_FILL <- 1, LL_SIZE <- 2, MaxOwed <- 2,
  vm <- v1, rq <- v2, pscl <- v3, mshr <- v4, finished <- v5, completed <- v6,
  asked <- v7, owed <- v8

N == INSTANCE Notakto WITH BOARDS <- 1, marked <- v1

\* Games of two players; and of player p alone, with others who do not mind.
Alone(p, strategies, cells, values) ==
  [strategies : {strategies},
   data : {[j \in 1 .. cells * Len(strategies) |->
              IF (j - 1) % Len(strategies) = p THEN f[(j - 1) \div Len(strategies)] ELSE 0] :
           f \in [0 .. cells - 1 -> values]}]
Games ==
  [strategies : {<<2, 2>>}, data : [1 .. 8 -> {0, 1}]]
    \cup Alone(0, <<3, 2>>, 6, {0, 1}) \cup Alone(1, <<2, 2, 2>>, 8, {0, 1})

G == INSTANCE NormalForm WITH Game <- Games, game <- v1

Z == INSTANCE Csma WITH
  Node <- 1 .. 3, Messages <- <<<<2, 3>>, <<0>>, <<>>>>, WINDOW <- 2,
  initQ <- v1, sendQ <- v2, pc <- v3, tx <- v4, ear <- v5, heard <- v6, back <- v7,
  printed <- v8, mistaken <- v9

\* Three processes that fork and share one page, whose contents are of no matter.
LowestFree(free) == {pg \in free : \A other \in free : pg <= other}
K == INSTANCE Cow WITH
  NPROC <- 3, Page <- 1 .. 16, NVa <- 1, NPTE <- 1, NTLB <- 1, NKPDE <- 1, Val <- {},
  Calls <- {"fork"}, Pick <- Pick,
  freelist <- v1, rc <- v2, ref <- v3, perm <- v4, data <- v5, state <- v6, parent <- v7,
  sz <- v8, side <- v9, ptlock <- v10, pc <- v11, tgt <- v12, cur <- v13, lo <- v14,
  hi <- v15, ret <- v16, tlb <- v17, panicked <- v18

\* The link is not followed further than to the first mistake, after which its
\* property says nothing.
Unmistaken == v9 = FALSE

typed == <<input, r, w, e, reader, want, got, dead>>

\* The shared variables after the first k: after<k>, and
\* that they are 0: Zero<k>.
after11 == <<v12, v13, v14, v15, v16, v17, v18>>
after10 == <<v11, after11>>
after9  == <<v10, after10>>
after8  == <<v9, after9>>
after6  == <<v7, v8, after8>>
after5  == <<v6, after6>>
after2  == <<v3, v4, v5, after5>>
after1  == <<v2, after2>>
vs      == <<v1, after1>>
Zero11 == v12 = 0 /\ v13 = 0 /\ v14 = 0 /\ v15 = 0 /\ v16 = 0 /\ v17 = 0 /\ v18 = 0
Zero10 == v11 = 0 /\ Zero11
Zero9  == v10 = 0 /\ Zero10
Zero8  == v9 = 0 /\ Zero9
Zero6  == v7 = 0 /\ v8 = 0 /\ Zero8
Zero5  == v6 = 0 /\ Zero6
Zero2  == v3 = 0 /\ v4 = 0 /\ v5 = 0 /\ Zero5
Zero1  == v2 = 0 /\ Zero2
Zero0  == v1 = 0 /\ Zero1
LockOff == pref = 0 /\ mutex = 0 /\ numRead = 0 /\ numWrit = 0 /\ reg = 0 /\ pc = 0

PartsInit ==
  /\ C!Init
  /\ \/ part = "rwlock"   /\ Init    /\ Zero0
     \/ part = "console"  /\ LockOff /\ Zero0
     \/ part = "pipe"     /\ LockOff /\ P!Init
     \/ part = "shell"    /\ LockOff /\ S!Init /\ Zero9
     \/ part = "spinlock" /\ LockOff /\ L!Init /\ Zero8
     \/ part = "blocks"   /\ LockOff /\ B!Init /\ Zero9
     \/ part = "malloc"   /\ LockOff /\ M!Init /\ Zero6
     \/ part = "sh"       /\ LockOff /\ X!Init /\ Zero2
     \/ part = "cache"    /\ LockOff /\ H!Init /\ Zero11
     \/ part = "cpu"      /\ LockOff /\ O!Init /\ Zero10
     \/ part = "dram"     /\ LockOff /\ D!Init /\ Zero5
     \/ part = "ptw"      /\ LockOff /\ W!Init /\ Zero8
     \/ part = "notakto"  /\ LockOff /\ N!Init /\ Zero1
     \/ part = "normal"   /\ LockOff /\ G!Init /\ Zero1
     \/ part = "csma"     /\ LockOff /\ Z!Init /\ Zero9
     \/ part = "memory"   /\ LockOff /\ K!Init

PartsNext ==
  /\ UNCHANGED part
  /\ \/ part = "rwlock"  /\ Next   /\ UNCHANGED <<vs, typed>>
     \/ part = "console" /\ C!Next /\ UNCHANGED <<vs, vars>>
     \/ /\ UNCHANGED <<vars, typed>>
        /\ \/ part = "pipe"     /\ P!Next
           \/ part = "shell"    /\ S!Next /\ UNCHANGED after9
           \/ part = "spinlock" /\ L!Next /\ UNCHANGED after8
           \/ part = "blocks"   /\ B!Next /\ UNCHANGED after9
           \/ part = "malloc"   /\ M!Next /\ UNCHANGED after6
           \/ part = "sh"       /\ X!Next /\ UNCHANGED after2
           \/ part = "cache"    /\ H!Next /\ UNCHANGED after11
           \/ part = "cpu"      /\ O!Next /\ UNCHANGED after10
           \/ part = "dram"     /\ D!Next /\ UNCHANGED after5
           \/ part = "ptw"      /\ W!Next /\ UNCHANGED after8
           \/ part = "notakto"  /\ N!Move /\ UNCHANGED after1
           \/ part = "csma"     /\ Unmistaken /\ Z!Next /\ UNCHANGED after9
           \/ part = "memory"   /\ K!Next

PartsSpec == PartsInit /\ [][PartsNext]_<<part, vars, vs, typed>>

\* No part tells its processes, CPUs, blocks, inodes or instructions apart.
Alike == Permutations(Actor) \cup Permutations(Site)

-----------------------------------------------------------------------------
(* The properties of the parts, as they are stated there.                  *)

\* The reader-writer locks of the lab keep others out.
LockExclusion == part = "rwlock" => Exclusion

\* A page that three page tables share is counted for each of them and can be
\* written by none: while forks and page faults of all three are half way, the
\* count goes down by one for each that copies the page (vm.c:405-447), and
\* only the last may write to it.
ThreeShareSafely == part = "memory" => K!RefCounted /\ K!WritableIsExclusive

\* console.c, with kills, and pipe.c, without (Killable): nobody sleeps over what
\* has already come.
NoWakeupLost == C!ReadersAwake /\ (part = "pipe" => P!NoLostWakeup)

\* console.c: lines are read as they are typed.
ImplementsTty == C!ImplementsTty

\* my_shell.c: exit kills nobody else's processes.
KillsOwnOnly == part = "shell" => S!KillsOwnOnly

\* spinlock.c and sched: interrupts are enabled again where they should be.
InterruptsRestored == part = "spinlock" => L!InterruptsRestored

\* No memory has two owners, and none that is freed is still used: the disk
\* blocks of fs.c, the heap of umalloc.c, the page of pipe.c, and the frames
\* that vmem.cc deals out.
NothingSharedByMistake ==
  /\ part = "blocks" => B!BlocksApart
  /\ part = "malloc" => M!HeapIsPartitioned
  /\ part = "pipe"   => P!FreedIsUnused
  /\ part = "ptw"    => W!PagesApart

\* file.c: a write is cut into transactions that fit into the log.
TransactionFits == part = "blocks" => B!TransactionFits

\* sh.c: what is run, with which descriptors, is what the line says.
RunsAsParsed == part = "sh" => X!RunsAsParsed

\* ooo_cpu.cc: a result is used by the instructions that come after it.
ProgramOrderKept == part = "cpu" => O!ProgramOrderKept

\* cache.cc, dram_controller.cc and ptw.cc: every request is answered once.
\* main.py: what is acknowledged has been received.
AnswersMatchRequests ==
  /\ part = "cache" => H!EveryLoadIsAnswered
  /\ part = "dram"  => D!EveryReadIsAnswered
  /\ part = "ptw"   => W!EveryWalkIsAnswered
  /\ part = "csma"  => Z!AnsweredMeansReceived

\* ooo_cpu.cc and dram_controller.cc: nothing in the pipeline or in a bank
\* waits for an event that cannot come.
NothingIsStuck ==
  /\ part = "cpu"  => O!NeverStuck
  /\ part = "dram" => D!EveryBankHasItsRequest

\* q2.py: the two searches find who wins.  q1.py: the equilibria are what the
\* words say.
GamesAreSolved ==
  /\ part = "notakto" => N!SearchesAgree
  /\ part = "normal"  => G!EquilibriaAreRight
=============================================================================
