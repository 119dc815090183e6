-------------------------------- MODULE Pipe --------------------------------
(***************************************************************************)
(* A pipe of xv6 (pipe.c) between processes that share its two ends: read, *)
(* write, close, fork, exit and kill.  One step is what a process does     *)
(* between two points at which another one can interfere: the locks are    *)
(* explicit, p->lock because it is held over several steps, and            *)
(* ptable.lock because sleep must take it before it releases p->lock.      *)
(***************************************************************************)
EXTENDS Integers, Sequences, Sleep

CONSTANTS Byte,
          PIPESIZE,   \* bytes of the buffer
          WORD,       \* 2^32: the counters nread and nwrite wrap around
          MaxN,       \* bound: bytes of one read or write
          MaxCalls,   \* bound: system calls in a behaviour
          Killable    \* the processes that others may kill

ASSUME PipeAssumption ==
  /\ None \notin Proc \cup {"nread", "nwrite"}
  /\ PIPESIZE \in Nat \ {0} /\ WORD \in Nat
  /\ WORD > PIPESIZE /\ WORD % PIPESIZE = 0
  /\ MaxN \in Nat /\ MaxCalls \in Nat
  /\ Killable \subseteq Proc

VARIABLES
  data, nread, nwrite,   \* the fields of struct pipe
  readopen, writeopen,
  lock,                  \* who holds p->lock, or None
  freed,                 \* pipeclose has given the page back
  holders,               \* holders[e]: the processes with end e of the pipe open
  pc,                    \* where a process is; "gone" when there is none
  op,                    \* op[p]: the call p is in
  n, i,                  \* n[p], i[p]: its argument and its loop index
  buf,                   \* buf[p]: what p's read has copied
  dying,                 \* the processes in exit
  calls                  \* the system calls made so far

pipe == <<data, nread, nwrite, readopen, writeopen, freed>>
loc  == <<op, n, i, buf>>
vars == <<pipe, lock, holders, pc, loc, dying, calls, sleepVars>>

Ends == {"read", "write"}

\* The channel that an end sleeps on, and the one that it wakes.
Own(e)   == IF e = "read" THEN "nread" ELSE "nwrite"
Other(e) == IF e = "read" THEN "nwrite" ELSE "nread"

Init ==
  /\ SleepInit
  /\ \E b \in Byte : data = [k \in 0 .. PIPESIZE - 1 |-> b]
  /\ nread = 0 /\ nwrite = 0
  /\ readopen = TRUE /\ writeopen = TRUE
  /\ lock = None /\ freed = FALSE
  /\ \E p \in Proc :
       /\ holders = [e \in Ends |-> {p}]
       /\ pc = [q \in Proc |-> IF q = p THEN "user" ELSE "gone"]
  /\ op = [p \in Proc |-> "read"]
  /\ n = [p \in Proc |-> 0] /\ i = [p \in Proc |-> 0]
  /\ buf = [p \in Proc |-> <<>>]
  /\ dying = {} /\ calls = 0

At(p, l) == pc[p] = l
Goto(p, l) == pc' = [pc EXCEPT ![p] = l]

\* A process in user mode makes a system call, unless it has been killed.
MayCall(p) == At(p, "user") /\ p \notin killed \cup dying /\ calls < MaxCalls

-----------------------------------------------------------------------------
(* read and write.                                                         *)

Call(p, e) ==
  /\ MayCall(p)
  /\ p \in holders[e]
  /\ op' = [op EXCEPT ![p] = e]
  /\ \E k \in 0 .. MaxN : n' = [n EXCEPT ![p] = k]
  /\ i' = [i EXCEPT ![p] = 0]
  /\ buf' = [buf EXCEPT ![p] = <<>>]
  /\ calls' = calls + 1
  /\ Goto(p, "lock")
  /\ UNCHANGED <<pipe, lock, holders, dying, sleepVars>>

Acquire(p) ==
  /\ At(p, "lock")
  /\ lock = None
  /\ lock' = p
  /\ Goto(p, "test")
  /\ UNCHANGED <<pipe, holders, loc, dying, calls, sleepVars>>

\* release(&p->lock); return -1.
ReturnError(p) ==
  /\ lock' = None
  /\ Goto(p, "user")
  /\ UNCHANGED <<pipe, loc>>

Empty == nread = nwrite

Full == nwrite = (nread + PIPESIZE) % WORD

\* while(p->nread == p->nwrite && p->writeopen)
ReadTest(p) ==
  /\ At(p, "test") /\ op[p] = "read"
  /\ IF Empty /\ writeopen
     THEN IF p \in killed
          THEN ReturnError(p)
          ELSE Goto(p, "sleep") /\ UNCHANGED <<pipe, lock, loc>>
     ELSE Goto(p, "copy") /\ UNCHANGED <<pipe, lock, loc>>
  /\ UNCHANGED <<holders, dying, calls, sleepVars>>

\* A variant: what is read is not checked against what was written.
ReadCopy_Overrun(p) ==
  /\ At(p, "copy")
  /\ IF i[p] < n[p]
     THEN /\ buf' = [buf EXCEPT ![p] = Append(@, data[nread % PIPESIZE])]
          /\ nread' = (nread + 1) % WORD
          /\ i' = [i EXCEPT ![p] = @ + 1]
          /\ UNCHANGED pc
     ELSE Goto(p, "wake") /\ UNCHANGED <<buf, nread, i>>
  /\ UNCHANGED <<data, nwrite, readopen, writeopen, freed, lock, holders, op, n, dying,
                 calls, sleepVars>>

ReadCopy(p) ==
  /\ At(p, "copy")
  /\ IF i[p] < n[p] /\ ~Empty
     THEN /\ buf' = [buf EXCEPT ![p] = Append(@, data[nread % PIPESIZE])]
          /\ nread' = (nread + 1) % WORD
          /\ i' = [i EXCEPT ![p] = @ + 1]
          /\ UNCHANGED pc
     ELSE Goto(p, "wake") /\ UNCHANGED <<buf, nread, i>>
  /\ UNCHANGED <<data, nwrite, readopen, writeopen, freed, lock, holders, op, n, dying,
                 calls, sleepVars>>

\* A full buffer: give up, or wake the readers and sleep.
WriteFull(p) ==
  /\ At(p, "test") /\ op[p] = "write"
  /\ i[p] < n[p] /\ Full
  /\ IF ~readopen \/ p \in killed
     THEN ReturnError(p)
     ELSE Goto(p, "wake_reader") /\ UNCHANGED <<pipe, lock, loc>>
  /\ UNCHANGED <<holders, dying, calls, sleepVars>>

WritePut(p) ==
  /\ At(p, "test") /\ op[p] = "write"
  /\ i[p] < n[p] /\ ~Full
  /\ \E b \in Byte : data' = [data EXCEPT ![nwrite % PIPESIZE] = b]
  /\ nwrite' = (nwrite + 1) % WORD
  /\ i' = [i EXCEPT ![p] = @ + 1]
  /\ UNCHANGED <<nread, readopen, writeopen, freed, lock, holders, pc, op, n, buf,
                 dying, calls, sleepVars>>

WriteEnough(p) ==
  /\ At(p, "test") /\ op[p] = "write"
  /\ i[p] = n[p]
  /\ Goto(p, "wake")
  /\ UNCHANGED <<pipe, lock, holders, loc, dying, calls, sleepVars>>

WakeReader(p) ==
  /\ At(p, "wake_reader")
  /\ Wakeup("nread")
  /\ Goto(p, "sleep")
  /\ UNCHANGED <<pipe, lock, holders, loc, dying, calls>>

\* A variant of sleep: the lock is released before ptable.lock is taken.
SleepHandoff_ReleaseFirst(p) ==
  /\ \/ /\ At(p, "sleep")
        /\ lock = p
        /\ lock' = None
        /\ UNCHANGED <<pc, sleepVars>>
     \/ /\ At(p, "sleep")
        /\ lock # p
        /\ TakePtlock(p)
        /\ Goto(p, "sched")
        /\ UNCHANGED lock
  /\ UNCHANGED <<pipe, holders, loc, dying, calls>>

\* sleep(chan, &p->lock): ptable.lock is taken, then p->lock released.
SleepHandoff(p) ==
  /\ At(p, "sleep")
  /\ TakePtlock(p)
  /\ lock' = None
  /\ Goto(p, "sched")
  /\ UNCHANGED <<pipe, holders, loc, dying, calls>>

SleepSched(p) ==
  /\ At(p, "sched")
  /\ FallAsleep(p, Own(op[p]))
  /\ Goto(p, "asleep")
  /\ UNCHANGED <<pipe, lock, holders, loc, dying, calls>>

\* Woken, p takes p->lock again and goes back to its loop.
Resume(p) ==
  /\ At(p, "asleep") /\ ~Asleep(p)
  /\ lock = None
  /\ lock' = p
  /\ Goto(p, "test")
  /\ UNCHANGED <<pipe, holders, loc, dying, calls, sleepVars>>

\* The last wakeup of a read or write, and release(&p->lock).
Finish(p) ==
  /\ At(p, "wake")
  /\ Wakeup(Other(op[p]))
  /\ lock' = None
  /\ Goto(p, "user")
  /\ UNCHANGED <<pipe, holders, loc, dying, calls>>

-----------------------------------------------------------------------------
(* fork, close, exit and kill.                                             *)

\* fork: the child shares the parent's open files.
Fork(p) ==
  /\ MayCall(p)
  /\ \E c \in Proc :
       /\ At(c, "gone")
       /\ Goto(c, "user")
       /\ holders' = [e \in Ends |-> IF p \in holders[e] THEN holders[e] \cup {c}
                                                         ELSE holders[e]]
  /\ calls' = calls + 1
  /\ UNCHANGED <<pipe, lock, loc, dying, sleepVars>>

\* fileclose: the last reference to an end closes it.  A process closes
\* its files also in exit.
Close(p, e) ==
  /\ At(p, "user")
  /\ p \in holders[e]
  /\ \/ p \in dying /\ UNCHANGED calls
     \/ MayCall(p) /\ calls' = calls + 1
  /\ holders' = [holders EXCEPT ![e] = @ \ {p}]
  /\ op' = [op EXCEPT ![p] = e]
  /\ IF holders[e] = {p} THEN Goto(p, "close") ELSE UNCHANGED pc
  /\ UNCHANGED <<pipe, lock, n, i, buf, dying, sleepVars>>

\* Variants: closing an end wakes nobody; the pipe is freed when one end is
\* closed.
PipeClose_NoWakeup(p) ==
  /\ At(p, "close")
  /\ lock = None
  /\ readopen'  = (readopen  /\ op[p] # "read")
  /\ writeopen' = (writeopen /\ op[p] # "write")
  /\ Goto(p, IF readopen' \/ writeopen' THEN "user" ELSE "free")
  /\ UNCHANGED <<data, nread, nwrite, freed, lock, holders, loc, dying, calls, sleepVars>>

\* pipeclose, up to the release of p->lock.
PipeClose(p) ==
  /\ At(p, "close")
  /\ lock = None
  /\ readopen'  = (readopen  /\ op[p] # "read")
  /\ writeopen' = (writeopen /\ op[p] # "write")
  /\ Wakeup(Other(op[p]))
  /\ Goto(p, IF readopen' \/ writeopen' THEN "user" ELSE "free")
  /\ UNCHANGED <<data, nread, nwrite, freed, lock, holders, loc, dying, calls>>

Free(p) ==
  /\ At(p, "free")
  /\ freed' = TRUE
  /\ Goto(p, "user")
  /\ UNCHANGED <<data, nread, nwrite, readopen, writeopen, lock, holders, loc, dying,
                 calls, sleepVars>>

\* exit, by itself or because p was killed; p closes its files next.
Exit(p) ==
  /\ At(p, "user") /\ p \notin dying
  /\ dying' = dying \cup {p}
  /\ UNCHANGED <<pipe, lock, holders, pc, loc, calls, sleepVars>>

\* A zombie without files; its parent reaps it.
Gone(p) ==
  /\ At(p, "user") /\ p \in dying
  /\ \A e \in Ends : p \notin holders[e]
  /\ ptlock = None
  /\ dying' = dying \ {p}
  /\ killed' = killed \ {p}
  /\ Goto(p, "gone")
  /\ UNCHANGED <<pipe, lock, holders, loc, calls, ptlock, chan>>

\* Some process makes the system call kill with p's pid.
KillProc(p) ==
  /\ \E q \in Proc : MayCall(q)
  /\ ~At(p, "gone") /\ p \in Killable
  /\ Kill(p)
  /\ calls' = calls + 1
  /\ UNCHANGED <<pipe, lock, holders, pc, loc, dying>>

-----------------------------------------------------------------------------
Kernel(p) ==
  \/ Acquire(p) \/ ReadTest(p) \/ ReadCopy(p)
  \/ WriteFull(p) \/ WritePut(p) \/ WriteEnough(p) \/ WakeReader(p)
  \/ SleepHandoff(p) \/ SleepSched(p) \/ Resume(p) \/ Finish(p)
  \/ PipeClose(p) \/ Free(p)

User(p) ==
  \/ Fork(p) \/ Exit(p) \/ Gone(p) \/ KillProc(p)
  \/ \E e \in Ends : Call(p, e) \/ Close(p, e)

Next == \E p \in Proc : Kernel(p) \/ User(p)

Spec == Init /\ [][Next]_vars

\* A kernel thread that can go on does so, and a process that exits or was
\* killed goes through with it.  User code need not do anything.
FairSpec ==
  /\ Spec
  /\ \A p \in Proc : WF_vars(Kernel(p))
  /\ \A p \in Proc :
       WF_vars(p \in killed \cup dying /\ (Exit(p) \/ Gone(p) \/ \E e \in Ends : Close(p, e)))

-----------------------------------------------------------------------------
(* Properties.                                                             *)

Pcs == {"gone", "user", "lock", "test", "copy", "wake_reader", "sleep", "sched",
        "asleep", "wake", "close", "free"}
LockedPcs == {"test", "copy", "wake_reader", "sleep", "wake"}

\* Every variable has its type; the buffer never holds more than PIPESIZE
\* bytes, also when the counters have wrapped around.
TypeOK ==
  /\ data \in [0 .. PIPESIZE - 1 -> Byte]
  /\ nread \in 0 .. WORD - 1 /\ nwrite \in 0 .. WORD - 1
  /\ (nwrite - nread) % WORD <= PIPESIZE
  /\ readopen \in BOOLEAN /\ writeopen \in BOOLEAN /\ freed \in BOOLEAN
  /\ lock \in Proc \cup {None} /\ ptlock \in Proc \cup {None}
  /\ holders \in [Ends -> SUBSET Proc]
  /\ pc \in [Proc -> Pcs] /\ op \in [Proc -> Ends]
  /\ n \in [Proc -> 0 .. MaxN] /\ i \in [Proc -> 0 .. MaxN]
  /\ buf \in [Proc -> Seq(Byte)] /\ \A p \in Proc : Len(buf[p]) <= MaxN
  /\ chan \in [Proc -> {"nread", "nwrite", None}]
  /\ dying \subseteq Proc /\ killed \subseteq Proc /\ calls \in 0 .. MaxCalls

\* Nobody holds or waits for the pipe's lock, or sleeps on it, when its page
\* is given back, and nobody comes later.
FreedIsUnused ==
  freed => /\ \A e \in Ends : holders[e] = {}
           /\ \A p \in Proc : pc[p] \in {"gone", "user"}

InCall(p, e) == op[p] = e /\ pc[p] \notin {"gone", "user", "close", "free"}

\* p will wake those that sleep on channel c before it releases the lock,
\* or is about to close the end whose closing wakes them.
WillWake(p, c) ==
  \/ op[p] = "read"  /\ c = "nwrite" /\ pc[p] \in {"copy", "wake"}
  \/ op[p] = "write" /\ c = "nread"  /\ pc[p] \in {"test", "wake_reader", "wake"}

\* No wakeup is lost: whoever sleeps while there is something for it to do
\* is about to be woken by a process inside the pipe.
ReadersAwaited ==
  \A p \in Proc :
    chan[p] = "nread" /\ (~Empty \/ ~writeopen) => \E q \in Proc : WillWake(q, "nread")
WritersAwaited ==
  \A p \in Proc :
    chan[p] = "nwrite" /\ (~Full \/ ~readopen) => \E q \in Proc : WillWake(q, "nwrite")
NoLostWakeup == ReadersAwaited /\ WritersAwaited

\* The bytes in the buffer, oldest first.
Buffered ==
  [k \in 1 .. (nwrite - nread) % WORD |-> data[(nread + k - 1) % PIPESIZE]]

Fifo == INSTANCE ByteQueue WITH
  N <- PIPESIZE,
  q <- Buffered,
  got <- [p \in Proc |-> IF InCall(p, "read") THEN buf[p] ELSE <<>>],
  eof <- {p \in Proc : pc[p] = "wake" /\ op[p] = "read" /\ n[p] > 0 /\ i[p] = 0},
  open <- writeopen

\* The pipe is a bounded queue: bytes come out once and in order, whoever
\* reads and writes, and a read returns 0 only at the end of the file.
ImplementsByteQueue == Fifo!Spec

\* Once the other end is closed, every read and every write ends, also one
\* that sleeps.
CallsEnd ==
  \A p \in Proc :
    /\ InCall(p, "read")  /\ ~writeopen ~> ~InCall(p, "read")
    /\ InCall(p, "write") /\ ~readopen  ~> ~InCall(p, "write")
=============================================================================
