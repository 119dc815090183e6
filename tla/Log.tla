-------------------------------- MODULE Log --------------------------------
(***************************************************************************)
(* The write-ahead log of xv6 (log.c): system calls that bracket their     *)
(* writes by begin_op and end_op, the group commit that the last of them   *)
(* performs, and the recovery that the first process runs after a crash.   *)
(*                                                                         *)
(* One step is one critical section of log.lock, or one block written to   *)
(* disk (a block is one sector, which the disk writes whole or not at      *)
(* all), or the use of one buffer between bread and brelse.  A crash may   *)
(* come between any two steps, also during recovery.                       *)
(*                                                                         *)
(* The buffer cache appears as the log relies on it: a block that carries  *)
(* B_DIRTY stays cached; any other block may have been recycled since, and *)
(* is then read from the disk again.                                       *)
(***************************************************************************)
EXTENDS Integers, Sequences, FiniteSets

CONSTANTS Proc,         \* processes
          Block,        \* home blocks of the file system
          Value,        \* what a block may hold
          LOGSIZE,      \* param.h: what begin_op reserves against
          MAXOPBLOCKS,  \* param.h: what it reserves for one operation
          NLOG,         \* sb.nlog: blocks of the on-disk log, with its header
          OpBlocks,     \* bound: distinct blocks that one operation writes
          OpWrites,     \* bound: calls of log_write in one operation
          None

ASSUME LogAssumption ==
  /\ LOGSIZE \in Nat /\ MAXOPBLOCKS \in 1 .. LOGSIZE
  /\ NLOG \in Nat \ {0}
  /\ OpBlocks \in 0 .. MAXOPBLOCKS /\ OpWrites \in Nat
  /\ IsFiniteSet(Proc) /\ IsFiniteSet(Block)
  /\ None \notin Proc /\ None \notin Block

VARIABLES
  home,         \* home[b]: block b at its place on the disk
  logb,         \* logb[i]: the block of the on-disk log after its header, 1 ..
  hdr,          \* the on-disk log header: the blocks of a committed group
  lh,           \* log.lh: the blocks of the group under way
  outstanding,  \* log.outstanding
  committing,   \* log.committing
  cache,        \* cache[b]: b's data in the buffer cache
  dirty,        \* the blocks whose buffer carries B_DIRTY between log steps
  holder,       \* holder[b]: the operation that has b's buffer locked
  pc,           \* pc[p]: where p is in its system call
  cur,          \* cur[p]: the block whose buffer p holds
  wrote,        \* wrote[p]: the blocks that p's operation has logged
  left,         \* left[p]: calls of log_write that p's operation may still make
  tail,         \* the index of the loops of write_log and install_trans
  machine       \* "up", a stage of recovery, or "panic"

disk == <<home, logb, hdr>>
mem  == <<lh, outstanding, committing, cache, dirty, holder>>
ctl  == <<pc, cur, wrote, left, tail, machine>>
vars == <<disk, mem, ctl>>

LogIndex == 1 .. LOGSIZE

RangeOf(s) == {s[i] : i \in 1 .. Len(s)}

Init ==
  /\ home \in [Block -> Value]
  /\ \E v \in Value : logb = [i \in LogIndex |-> v]
  /\ hdr = <<>> /\ lh = <<>>
  /\ outstanding = 0 /\ committing = FALSE
  /\ cache = home /\ dirty = {}
  /\ holder = [b \in Block |-> None]
  /\ pc = [p \in Proc |-> "idle"]
  /\ cur = [p \in Proc |-> None]
  /\ wrote = [p \in Proc |-> {}]
  /\ left = [p \in Proc |-> 0]
  /\ tail = 1 /\ machine = "up"

At(p, l) == machine = "up" /\ pc[p] = l
Goto(p, l) == pc' = [pc EXCEPT ![p] = l]

\* wakeup(&log): whoever sleeps in begin_op goes back to its loop.
Wake(pcs) == [q \in Proc |-> IF pcs[q] = "sleep" THEN "begin" ELSE pcs[q]]

\* What bread finds: a dirty block is still cached, another one may have
\* been recycled and is read from the disk.
Bread(b) == IF b \in dirty THEN {cache[b]} ELSE {cache[b], home[b]}

-----------------------------------------------------------------------------
(* System calls.                                                           *)

Syscall(p) ==
  /\ At(p, "idle")
  /\ Goto(p, "begin")
  /\ UNCHANGED <<disk, mem, cur, wrote, left, tail, machine>>

\* The operation might exhaust the log.
NoRoom == Len(lh) + (outstanding + 1) * MAXOPBLOCKS > LOGSIZE
MustWait == committing \/ NoRoom

BeginSleep(p) ==
  /\ At(p, "begin")
  /\ MustWait
  /\ Goto(p, "sleep")
  /\ UNCHANGED <<disk, mem, cur, wrote, left, tail, machine>>

BeginOp(p) ==
  /\ At(p, "begin")
  /\ ~MustWait
  /\ outstanding' = outstanding + 1
  /\ wrote' = [wrote EXCEPT ![p] = {}]
  /\ left' = [left EXCEPT ![p] = OpWrites]
  /\ Goto(p, "op")
  /\ UNCHANGED <<disk, lh, committing, cache, dirty, holder, cur, tail, machine>>

\* bread: the buffer is locked, from the cache or read again.
OpBread(p) ==
  /\ At(p, "op")
  /\ left[p] > 0
  /\ \E b \in Block :
       /\ holder[b] = None
       /\ Cardinality(wrote[p] \cup {b}) <= OpBlocks
       /\ \E v \in Bread(b) : cache' = [cache EXCEPT ![b] = v]
       /\ holder' = [holder EXCEPT ![b] = p]
       /\ cur' = [cur EXCEPT ![p] = b]
  /\ left' = [left EXCEPT ![p] = @ - 1]
  /\ Goto(p, "have")
  /\ UNCHANGED <<disk, lh, outstanding, committing, dirty, wrote, tail, machine>>

\* The operation changes b->data and calls log_write.
Modify(p) ==
  /\ At(p, "have")
  /\ \E v \in Value : cache' = [cache EXCEPT ![cur[p]] = v]
  /\ Goto(p, "log_write")
  /\ UNCHANGED <<disk, lh, outstanding, committing, dirty, holder, cur, wrote, left,
                 tail, machine>>

\* The two panics of log_write, which look at log without its lock.
TooBig == Len(lh) >= LOGSIZE \/ Len(lh) >= NLOG - 1
OutsideOfTrans == outstanding < 1

LogWriteCheck(p) ==
  /\ At(p, "log_write")
  /\ IF TooBig \/ OutsideOfTrans
     THEN machine' = "panic" /\ UNCHANGED pc
     ELSE Goto(p, "log_lock") /\ UNCHANGED machine
  /\ UNCHANGED <<disk, mem, cur, wrote, left, tail>>

\* A variant: the buffer is not pinned.
Pin_Forgotten(b) == dirty

\* A block that the group has already is not logged twice; either way the
\* buffer is pinned.
Absorb(s, b) == IF b \in RangeOf(s) THEN s ELSE Append(s, b)
Pin(b) == dirty \cup {b}

LogWrite(p) ==
  /\ At(p, "log_lock")
  /\ lh' = Absorb(lh, cur[p])
  /\ dirty' = Pin(cur[p])
  /\ wrote' = [wrote EXCEPT ![p] = @ \cup {cur[p]}]
  /\ Goto(p, "brelse")
  /\ UNCHANGED <<disk, outstanding, committing, cache, holder, cur, left, tail, machine>>

\* After log_write, or after a read.
Brelse(p) ==
  /\ At(p, "brelse") \/ At(p, "have")
  /\ holder' = [holder EXCEPT ![cur[p]] = None]
  /\ cur' = [cur EXCEPT ![p] = None]
  /\ Goto(p, "op")
  /\ UNCHANGED <<disk, lh, outstanding, committing, cache, dirty, wrote, left, tail,
                 machine>>

\* The last operation under way commits; another one wakes those that wait
\* for room.  (No operation may end while a commit is under way.)
EndOp(p) ==
  /\ At(p, "op")
  /\ outstanding' = outstanding - 1
  /\ wrote' = [wrote EXCEPT ![p] = {}]
  /\ left' = [left EXCEPT ![p] = 0]
  /\ IF committing
     THEN machine' = "panic" /\ UNCHANGED <<committing, pc>>
     ELSE /\ UNCHANGED machine
          /\ IF outstanding = 1
             THEN committing' = TRUE /\ Goto(p, "commit")
             ELSE committing' = committing /\ pc' = Wake([pc EXCEPT ![p] = "idle"])
  /\ UNCHANGED <<disk, lh, cache, dirty, holder, cur, tail>>

-----------------------------------------------------------------------------
(* The commit, by the process whose end_op was the last.                   *)

\* A variant: the loop index is not incremented.
Loop_NoIncrement(p, inLoop, after) ==
  /\ tail' = IF tail < Len(lh) THEN tail ELSE 1
  /\ Goto(p, IF tail < Len(lh) THEN inLoop ELSE after)

\* To the next block of the loop, or past it.
Loop(p, inLoop, after) ==
  IF tail < Len(lh)
  THEN tail' = tail + 1 /\ Goto(p, inLoop)
  ELSE tail' = 1 /\ Goto(p, after)

\* A variant: the header is written before the blocks of the group.
Commit_HeadFirst(p) ==
  /\ At(p, "commit")
  /\ hdr' = lh
  /\ Goto(p, IF lh = <<>> THEN "done" ELSE "write_log")
  /\ UNCHANGED <<home, logb, mem, cur, wrote, left, tail, machine>>

Commit(p) ==
  /\ At(p, "commit")
  /\ Goto(p, IF lh = <<>> THEN "done" ELSE "write_log")
  /\ UNCHANGED <<disk, mem, cur, wrote, left, tail, machine>>

WriteLog(p) ==
  /\ At(p, "write_log")
  /\ LET b == lh[tail] IN
       /\ holder[b] = None
       /\ \E v \in Bread(b) :
            /\ cache' = [cache EXCEPT ![b] = v]
            /\ logb' = [logb EXCEPT ![tail] = v]
  /\ Loop(p, "write_log", "write_head")
  /\ UNCHANGED <<home, hdr, lh, outstanding, committing, dirty, holder, cur, wrote,
                 left, machine>>

\* The real commit.
WriteHead(p) ==
  /\ At(p, "write_head")
  /\ hdr' = lh
  /\ Goto(p, "install_trans")
  /\ UNCHANGED <<home, logb, mem, cur, wrote, left, tail, machine>>

\* A variant: the home block is not written (bwrite is left out).
Install_NoBwrite ==
  LET b == lh[tail] IN
    /\ holder[b] = None
    /\ cache' = [cache EXCEPT ![b] = logb[tail]]
    /\ dirty' = dirty \ {b}
    /\ UNCHANGED home

\* One block of install_trans: the buffer of the home block gets the logged
\* data, is written, and loses B_DIRTY.
Install ==
  LET b == lh[tail] IN
    /\ holder[b] = None
    /\ home' = [home EXCEPT ![b] = logb[tail]]
    /\ cache' = [cache EXCEPT ![b] = logb[tail]]
    /\ dirty' = dirty \ {b}

InstallTrans(p) ==
  /\ At(p, "install_trans")
  /\ Install
  /\ Loop(p, "install_trans", "erase")
  /\ UNCHANGED <<logb, hdr, lh, outstanding, committing, holder, cur, wrote, left,
                 machine>>

\* log.lh.n = 0; write_head().
Clear == lh' = <<>> /\ hdr' = <<>>

Erase(p) ==
  /\ At(p, "erase")
  /\ Clear
  /\ Goto(p, "done")
  /\ UNCHANGED <<home, logb, outstanding, committing, cache, dirty, holder, cur, wrote,
                 left, tail, machine>>

\* A variant: nobody is woken.
CommitDone_NoWakeup(p) ==
  /\ At(p, "done")
  /\ committing' = FALSE
  /\ Goto(p, "idle")
  /\ UNCHANGED <<disk, lh, outstanding, cache, dirty, holder, cur, wrote, left, tail,
                 machine>>
CommitDone(p) ==
  /\ At(p, "done")
  /\ committing' = FALSE
  /\ pc' = Wake([pc EXCEPT ![p] = "idle"])
  /\ UNCHANGED <<disk, lh, outstanding, cache, dirty, holder, cur, wrote, left, tail,
                 machine>>

-----------------------------------------------------------------------------
(* Crash and recovery.                                                     *)

\* Memory is lost; what the caches held will be read from the disk again.
Crash ==
  /\ machine' = "read_head"
  /\ lh' = <<>> /\ outstanding' = 0 /\ committing' = FALSE
  /\ cache' = home /\ dirty' = {}
  /\ holder' = [b \in Block |-> None]
  /\ pc' = [p \in Proc |-> "idle"]
  /\ cur' = [p \in Proc |-> None]
  /\ wrote' = [p \in Proc |-> {}]
  /\ left' = [p \in Proc |-> 0]
  /\ tail' = 1
  /\ UNCHANGED disk

ReadHead ==
  /\ machine = "read_head"
  /\ lh' = hdr
  /\ machine' = IF hdr = <<>> THEN "clear" ELSE "install"
  /\ UNCHANGED <<disk, outstanding, committing, cache, dirty, holder, pc, cur, wrote,
                 left, tail>>

RecoverInstall ==
  /\ machine = "install"
  /\ Install
  /\ IF tail < Len(lh)
     THEN tail' = tail + 1 /\ UNCHANGED machine
     ELSE tail' = 1 /\ machine' = "clear"
  /\ UNCHANGED <<logb, hdr, lh, outstanding, committing, holder, pc, cur, wrote, left>>

RecoverClear ==
  /\ machine = "clear"
  /\ Clear
  /\ machine' = "up"
  /\ UNCHANGED <<home, logb, outstanding, committing, cache, dirty, holder, pc, cur,
                 wrote, left, tail>>

-----------------------------------------------------------------------------
Operation(p) ==
  \/ Syscall(p) \/ BeginSleep(p) \/ BeginOp(p)
  \/ OpBread(p) \/ Modify(p) \/ LogWriteCheck(p)
  \/ LogWrite(p) \/ Brelse(p) \/ EndOp(p)

Committer(p) ==
  \/ Commit(p) \/ WriteLog(p) \/ WriteHead(p) \/ InstallTrans(p)
  \/ Erase(p) \/ CommitDone(p)

Recovery == ReadHead \/ RecoverInstall \/ RecoverClear

Next == Crash \/ Recovery \/ \E p \in Proc : Operation(p) \/ Committer(p)

Spec == Init /\ [][Next]_vars

\* Every process that can go on goes on, except that it need not make system
\* calls, and recovery goes on until the next crash, if one comes.
FairSpec ==
  /\ Spec
  /\ WF_vars(Recovery)
  /\ \A p \in Proc : WF_vars(pc[p] # "idle" /\ (Operation(p) \/ Committer(p)))

-----------------------------------------------------------------------------
(* Properties.                                                             *)

HoldingPcs == {"have", "log_write", "log_lock", "brelse"}
CommitPcs  == {"commit", "write_log", "write_head", "install_trans", "erase", "done"}
Pcs == {"idle", "begin", "sleep", "op"} \cup HoldingPcs \cup CommitPcs

InOp(p)       == pc[p] = "op" \/ pc[p] \in HoldingPcs
Committing(p) == pc[p] \in CommitPcs

\* Every variable has its type, and the headers list distinct blocks.
BlockList(s) ==
  /\ s \in Seq(Block) /\ Len(s) <= LOGSIZE
  /\ \A i, j \in 1 .. Len(s) : s[i] = s[j] => i = j

TypeOK ==
  /\ home \in [Block -> Value] /\ cache \in [Block -> Value]
  /\ logb \in [LogIndex -> Value]
  /\ BlockList(hdr) /\ BlockList(lh)
  /\ outstanding \in Nat /\ committing \in BOOLEAN
  /\ dirty \subseteq Block /\ holder \in [Block -> Proc \cup {None}]
  /\ pc \in [Proc -> Pcs]
  /\ cur \in [Proc -> Block \cup {None}]
  /\ wrote \in [Proc -> SUBSET Block] /\ left \in [Proc -> Nat]
  /\ tail \in Nat \ {0}
  /\ machine \in {"up", "panic", "read_head", "install", "clear"}

\* What a system call would read after a crash now, once the log has been
\* recovered: the committed group of the log over the home blocks.
Recovered ==
  [b \in Block |->
     IF b \in RangeOf(hdr)
     THEN logb[CHOOSE i \in 1 .. Len(hdr) : hdr[i] = b]
     ELSE home[b]]

Seen   == IF machine = "up" THEN cache ELSE Recovered
Active == IF machine = "up" THEN {p \in Proc : InOp(p)} ELSE {}

Disk == INSTANCE AtomicDisk WITH
  seen <- Seen, stable <- Recovered, active <- Active

\* Whatever the crashes, also crashes during recovery, the file system sees
\* a disk that commits all the writes of a group of system calls in one step
\* or none, and only when no system call is half done.
ImplementsAtomicDisk == Disk!Spec

\* end_op's promise (log.c:143-144): when no operation is under way and none
\* commits, every write is at home on the disk and the log is empty.
QuietMeansDurable ==
  machine = "up" /\ outstanding = 0 /\ ~committing =>
    home = cache /\ hdr = <<>> /\ lh = <<>> /\ dirty = {}

\* A process that sleeps in begin_op will be woken: an operation is still
\* under way, or a commit is.
SleepersHaveAWaker ==
  \A p \in Proc : pc[p] = "sleep" /\ machine = "up" =>
    \E q \in Proc : InOp(q) \/ Committing(q)

\* No operation is under way while another process commits, and only one
\* process commits: the buffers cannot change under the commit.
CommitAlone ==
  machine = "up" =>
    \A p, q \in Proc : Committing(p) /\ p # q => ~InOp(q) /\ ~Committing(q)

\* A buffer that the log still needs is pinned: a block of the group whose
\* home is not written yet is never recycled.
LoggedIsPinned ==
  machine = "up" =>
    \A b \in Block : cache[b] # home[b] /\ holder[b] = None => b \in dirty

\* What begin_op reserves suffices (log.c:132): while no operation writes more
\* than MAXOPBLOCKS blocks, log_write does not panic, for want of room or for
\* want of an operation (log.c:218-221), nor does end_op (log.c:151).  With
\* LOGSIZE and NLOG as in param.h and mkfs.c, the same multiple of MAXOPBLOCKS,
\* this does not hold: one block of the log on the disk is its header, which
\* begin_op forgets.
ReservationSuffices == machine # "panic"

\* Every process that waits in begin_op is woken, or the machine crashes.
SleepersWake == \A p \in Proc : pc[p] = "sleep" ~> pc[p] # "sleep"

\* Every commit ends, by itself or with a crash.
CommitsEnd == committing ~> ~committing
=============================================================================
