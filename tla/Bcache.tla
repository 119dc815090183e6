------------------------------- MODULE Bcache -------------------------------
(***************************************************************************)
(* The buffer cache and the disk driver of xv6 (bio.c, ide.c), with the    *)
(* sleep lock of each buffer (sleeplock.c).                                *)
(*                                                                         *)
(* One step is one critical section of bcache.lock, of a sleep lock's      *)
(* spin lock or of idelock, with the code up to the next one.  sleep is    *)
(* one step with the test before it: it takes ptable.lock before it gives  *)
(* up the lock of the condition (modules Pipe and Proc look inside).  The  *)
(* disk works beside the processes and interrupts when it is done; its     *)
(* transfers do not fail.                                                  *)
(***************************************************************************)
EXTENDS Integers, Sequences, FiniteSets, SequencesExt

CONSTANTS Proc,      \* processes
          Buf,       \* bcache.buf[]: NBUF buffers
          Block,     \* blocks of the disk
          Value,     \* what a block may hold
          MaxPinned, \* buffers that log_write keeps in the cache at a time
          None

ASSUME BcacheAssumption ==
  /\ IsFiniteSet(Proc) /\ IsFiniteSet(Buf) /\ Value # {} /\ MaxPinned \in Nat
  /\ None \notin Proc \cup Buf \cup Block
  /\ None \notin {"lock", "io"} \X Buf
  /\ None \notin [write : BOOLEAN, block : Block, data : Value, done : BOOLEAN]

VARIABLES
  blockno,  \* blockno[b]: the block whose buffer b is, None at first
  refcnt,   \* refcnt[b]
  valid,    \* the buffers with B_VALID
  dirty,    \* the buffers with B_DIRTY
  data,     \* data[b]: b->data
  lru,      \* the list from bcache.head.next, most recently used first
  lock,     \* lock[b]: the process that has b->lock
  queue,    \* idequeue and what it links to
  disk,     \* disk[k]: block k on the disk
  cmd,      \* what the disk was told to do, or None
  pc,       \* pc[p]: where p is: "out" of the cache, in bread, bwrite or brelse,
            \* or between them with a buffer, "have"
  buf,      \* buf[p]: its buffer there
  chan,     \* chan[p]: what p sleeps on, or None
  panicked  \* bget found no buffer

cache == <<blockno, refcnt, lru>>
drive == <<queue, cmd>>
vars  == <<cache, valid, dirty, data, lock, drive, disk, pc, buf, chan, panicked>>

Init ==
  /\ blockno = [b \in Buf |-> None] /\ refcnt = [b \in Buf |-> 0]
  /\ valid = {} /\ dirty = {} /\ data \in [Buf -> {CHOOSE v \in Value : TRUE}]
  /\ lru = SetToSeq(Buf)
  /\ lock = [b \in Buf |-> None]
  /\ queue = <<>> /\ cmd = None
  /\ disk \in [Block -> Value]
  /\ pc = [p \in Proc |-> "out"] /\ buf = [p \in Proc |-> None]
  /\ chan = [p \in Proc |-> None] /\ panicked = FALSE

At(p, l) == pc[p] = l /\ chan[p] = None /\ ~panicked
Goto(p, l) == pc' = [pc EXCEPT ![p] = l]
Wakeup(c) == chan' = [q \in Proc |-> IF chan[q] = c THEN None ELSE chan[q]]

-----------------------------------------------------------------------------
(* bread: bget, then the disk unless the buffer is valid.                  *)

Cached(k) == {b \in Buf : blockno[b] = k}

BgetHit(p, k) ==
  /\ At(p, "out")
  /\ \E b \in Cached(k) :
       /\ refcnt' = [refcnt EXCEPT ![b] = @ + 1]
       /\ buf' = [buf EXCEPT ![p] = b]
  /\ Goto(p, "lock")
  /\ UNCHANGED <<blockno, lru, valid, dirty, data, lock, drive, disk, chan, panicked>>

\* A variant: a buffer with B_DIRTY is recycled.
Unused_Dirty == {b \in Buf : refcnt[b] = 0}
Unused == {b \in Buf : refcnt[b] = 0 /\ b \notin dirty}

\* The least recently used of them becomes k's buffer; without one, panic.
BgetMiss(p, k) ==
  /\ At(p, "out") /\ Cached(k) = {}
  /\ IF Unused = {}
     THEN panicked' = TRUE /\ UNCHANGED <<cache, valid, dirty, pc, buf>>
     ELSE \E i \in DOMAIN lru :
            /\ lru[i] \in Unused /\ \A j \in DOMAIN lru : j > i => lru[j] \notin Unused
            /\ LET b == lru[i] IN
               /\ blockno' = [blockno EXCEPT ![b] = k]
               /\ valid' = valid \ {b} /\ dirty' = dirty \ {b}
               /\ refcnt' = [refcnt EXCEPT ![b] = 1]
               /\ buf' = [buf EXCEPT ![p] = b]
            /\ Goto(p, "lock")
            /\ UNCHANGED <<lru, panicked>>
  /\ UNCHANGED <<data, lock, drive, disk, chan>>

\* acquiresleep, and the test of B_VALID, which only the lock's holder and
\* its own request change.
AcquireSleep(p) ==
  /\ At(p, "lock")
  /\ LET b == buf[p] IN
     IF lock[b] # None
     THEN chan' = [chan EXCEPT ![p] = <<"lock", b>>] /\ UNCHANGED <<lock, pc>>
     ELSE /\ lock' = [lock EXCEPT ![b] = p]
          /\ Goto(p, IF b \in valid THEN "have" ELSE "iderw")
          /\ UNCHANGED chan
  /\ UNCHANGED <<cache, valid, dirty, data, drive, disk, buf, panicked>>

-----------------------------------------------------------------------------
(* What a caller does with its buffer.                                     *)

\* bwrite of changed or unchanged data; the request itself is in Iderw.
Bwrite(p, v) ==
  /\ At(p, "have")
  /\ data' = [data EXCEPT ![buf[p]] = v]
  /\ dirty' = dirty \cup {buf[p]}
  /\ Goto(p, "iderw")
  /\ UNCHANGED <<cache, valid, lock, drive, disk, buf, chan, panicked>>

\* log_write: the buffer stays in the cache until a later bwrite.
LogWrite(p, v) ==
  /\ At(p, "have")
  /\ Cardinality(dirty \cup {buf[p]}) <= MaxPinned
  /\ data' = [data EXCEPT ![buf[p]] = v]
  /\ dirty' = dirty \cup {buf[p]}
  /\ UNCHANGED <<cache, valid, lock, drive, disk, pc, buf, chan, panicked>>

\* A variant: releasesleep forgets those that wait for the lock.
ReleaseSleep_NoWakeup(p) ==
  /\ At(p, "have")
  /\ lock' = [lock EXCEPT ![buf[p]] = None]
  /\ Goto(p, "brelse")
  /\ UNCHANGED <<cache, valid, dirty, data, drive, disk, buf, chan, panicked>>

\* brelse: releasesleep first.
ReleaseSleep(p) ==
  /\ At(p, "have")
  /\ lock' = [lock EXCEPT ![buf[p]] = None]
  /\ Wakeup(<<"lock", buf[p]>>)
  /\ Goto(p, "brelse")
  /\ UNCHANGED <<cache, valid, dirty, data, drive, disk, buf, panicked>>

\* A variant: a buffer that waits for its data to reach the disk, dirty, is
\* not given back.
Brelse_KeepDirty(p) ==
  /\ At(p, "brelse")
  /\ LET b == buf[p] IN
     refcnt' = [refcnt EXCEPT ![b] = IF b \in dirty THEN @ ELSE @ - 1]
  /\ buf' = [buf EXCEPT ![p] = None]
  /\ Goto(p, "out")
  /\ UNCHANGED <<blockno, lru, valid, dirty, data, lock, drive, disk, chan, panicked>>

\* Then, under bcache.lock, the count; an unused buffer moves to the front.
Brelse(p) ==
  /\ At(p, "brelse")
  /\ LET b == buf[p] IN
     /\ refcnt' = [refcnt EXCEPT ![b] = @ - 1]
     /\ lru' = IF refcnt[b] = 1 THEN <<b>> \o SelectSeq(lru, LAMBDA c : c # b) ELSE lru
  /\ buf' = [buf EXCEPT ![p] = None]
  /\ Goto(p, "out")
  /\ UNCHANGED <<blockno, valid, dirty, data, lock, drive, disk, chan, panicked>>

-----------------------------------------------------------------------------
(* The driver and the disk.                                                *)

\* idestart: the command, and with a write the data, go to the disk.
Idestart(b) ==
  [write |-> b \in dirty, block |-> blockno[b], data |-> data[b], done |-> FALSE]

\* iderw: append the request, start the disk if it is idle, and sleep: the
\* request cannot have finished under idelock.
Iderw(p) ==
  /\ At(p, "iderw")
  /\ queue' = Append(queue, buf[p])
  /\ cmd' = IF queue = <<>> THEN Idestart(buf[p]) ELSE cmd
  /\ chan' = [chan EXCEPT ![p] = <<"io", buf[p]>>]
  /\ Goto(p, "wait")
  /\ UNCHANGED <<cache, valid, dirty, data, lock, disk, buf, panicked>>

\* The loop of iderw, after a wakeup.
IderwWait(p) ==
  /\ At(p, "wait")
  /\ IF buf[p] \in valid \ dirty
     THEN Goto(p, "have") /\ UNCHANGED chan
     ELSE chan' = [chan EXCEPT ![p] = <<"io", buf[p]>>] /\ UNCHANGED pc
  /\ UNCHANGED <<cache, valid, dirty, data, lock, drive, disk, buf, panicked>>

\* The disk carries out its command, and interrupts.
DiskDone ==
  /\ cmd # None /\ ~cmd.done /\ ~panicked
  /\ disk' = IF cmd.write THEN [disk EXCEPT ![cmd.block] = cmd.data] ELSE disk
  /\ cmd' = [cmd EXCEPT !.data = disk'[cmd.block], !.done = TRUE]
  /\ UNCHANGED <<cache, valid, dirty, data, lock, queue, pc, buf, chan, panicked>>

\* ideintr: the first request is done; wake its process, start the next.
Ideintr ==
  /\ cmd # None /\ cmd.done /\ queue # <<>> /\ ~panicked
  /\ LET b == Head(queue) IN
     /\ data' = IF b \in dirty THEN data ELSE [data EXCEPT ![b] = cmd.data]
     /\ valid' = valid \cup {b} /\ dirty' = dirty \ {b}
     /\ Wakeup(<<"io", b>>)
  /\ queue' = Tail(queue)
  /\ cmd' = IF Tail(queue) = <<>> THEN None ELSE Idestart(Head(Tail(queue)))
  /\ UNCHANGED <<cache, lock, disk, pc, buf, panicked>>

\* kill wakes a sleeper for no reason that the cache knows of.
Kill(p) ==
  /\ chan[p] # None /\ ~panicked
  /\ chan' = [chan EXCEPT ![p] = None]
  /\ UNCHANGED <<cache, valid, dirty, data, lock, drive, disk, pc, buf, panicked>>

-----------------------------------------------------------------------------
Kernel(p) == AcquireSleep(p) \/ Iderw(p) \/ IderwWait(p) \/ Brelse(p)

Caller(p) ==
  \/ \E k \in Block : BgetHit(p, k) \/ BgetMiss(p, k)
  \/ \E v \in Value : Bwrite(p, v) \/ LogWrite(p, v)
  \/ ReleaseSleep(p)

Next == DiskDone \/ Ideintr
        \/ \E p \in Proc : Kernel(p) \/ Caller(p) \/ Kill(p)

Spec == Init /\ [][Next]_vars

-----------------------------------------------------------------------------
(* Properties.                                                             *)

\* The processes between bget and the end of brelse of b.
Users(b) == {p \in Proc : buf[p] = b}

\* A buffer's count is the number of processes that still come back to it,
\* so that none is recycled under a process and none is lost; a request in
\* the queue belongs to the process that has the buffer locked.
\* bio.c:63-94, 127-142.
CountedWhileUsed ==
  \A b \in Buf :
    /\ refcnt[b] = Cardinality(Users(b))
    /\ lock[b] # None => lock[b] \in Users(b)
    /\ \A i \in DOMAIN queue :
         queue[i] = b => /\ lock[b] # None /\ pc[lock[b]] = "wait" /\ buf[lock[b]] = b
                         /\ \A j \in DOMAIN queue : queue[j] = b => i = j

\* Nobody sleeps in vain: for a lock that is free, or for a request that is
\* not in the queue; and the disk works on the first request of the queue.
NobodySleepsInVain ==
  /\ \A p \in Proc, b \in Buf :
       /\ chan[p] = <<"lock", b>> => lock[b] # None
       /\ chan[p] = <<"io", b>>   => \E i \in DOMAIN queue : queue[i] = b
  /\ queue = <<>> <=> cmd = None
  /\ queue # <<>> => /\ cmd.block = blockno[Head(queue)]
                     /\ cmd.write <=> Head(queue) \in dirty

\* The buffer that speaks for block k, if one does.
Speaks(k) == Cached(k) \cap valid

Store == INSTANCE BlockStore WITH
  store <- [k \in Block |-> IF Speaks(k) = {} THEN disk[k]
                            ELSE data[CHOOSE b \in Speaks(k) : TRUE]],
  owner <- [k \in Block |-> IF Speaks(k) = {} THEN None
                            ELSE lock[CHOOSE b \in Speaks(k) : TRUE]]

\* Whatever is cached, recycled, queued or in flight, the callers see one
\* copy of every block, in one process's hands at a time.
ImplementsBlockStore == Store!Spec
=============================================================================
