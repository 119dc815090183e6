---------------------------- MODULE BcacheProofs ----------------------------
(***************************************************************************)
(* Proofs about Bcache, for every number of processes, buffers and blocks: *)
(* the inductive invariant, and from it that a buffer's count is right,    *)
(* that nobody sleeps in vain, and that the cache implements BlockStore.   *)
(* Only that bget finds a buffer depends on how many there are.            *)
(***************************************************************************)
EXTENDS Bcache, FiniteSetTheorems, TLAPS

-----------------------------------------------------------------------------
(* The inductive invariant.                                                *)

Command == [write : BOOLEAN, block : Block, data : Value, done : BOOLEAN]
Holding == {"have", "iderw", "wait"}

TypeOK ==
  /\ blockno \in [Buf -> Block \cup {None}]
  /\ refcnt \in [Buf -> Int]
  /\ valid \subseteq Buf /\ dirty \subseteq valid
  /\ data \in [Buf -> Value]
  /\ lock \in [Buf -> Proc \cup {None}]
  /\ queue \in Seq(Buf)
  /\ disk \in [Block -> Value]
  /\ cmd \in Command \cup {None}
  /\ pc \in [Proc -> {"out", "lock", "brelse"} \cup Holding]
  /\ buf \in [Proc -> Buf \cup {None}]
  /\ chan \in [Proc -> ({"lock", "io"} \X Buf) \cup {None}]
  /\ panicked \in BOOLEAN

\* A process has a buffer from bget to brelse; the buffer has a block and,
\* between acquiresleep and releasesleep, the process as its lock's holder.
Handed ==
  /\ \A p \in Proc : buf[p] = None <=> pc[p] = "out"
  /\ \A p \in Proc : buf[p] # None => blockno[buf[p]] \in Block
  /\ \A p \in Proc : pc[p] \in Holding => lock[buf[p]] = p
  /\ \A b \in Buf : lock[b] # None => pc[lock[b]] \in Holding /\ buf[lock[b]] = b
  /\ \A p \in Proc : pc[p] = "have" => buf[p] \in valid

\* refcnt counts the processes that have the buffer.
Counted == \A b \in Buf : refcnt[b] = Cardinality(Users(b))

\* No block is in two buffers, and a clean buffer is as its block is.
OneBuffer ==
  /\ \A b, c \in Buf : blockno[b] = blockno[c] /\ blockno[b] # None => b = c
  /\ \A b \in valid : blockno[b] \in Block
Clean == \A b \in valid : b \notin dirty => data[b] = disk[blockno[b]]

\* b waits for the disk, or is being given to it.
Queued(b) == \E i \in DOMAIN queue : queue[i] = b

\* A request has something to do, and its process waits for it.
Requests ==
  /\ \A i, j \in DOMAIN queue : queue[i] = queue[j] => i = j
  /\ \A i \in DOMAIN queue : /\ lock[queue[i]] # None /\ pc[lock[queue[i]]] = "wait"
                             /\ queue[i] \in valid => queue[i] \in dirty
  /\ \A p \in Proc : pc[p] = "iderw" => (buf[p] \in valid => buf[p] \in dirty)
  /\ \A p \in Proc : pc[p] = "wait" => Queued(buf[p]) \/ buf[p] \in valid \ dirty

\* The disk works on the first request, and what it has done is on it.
Driven ==
  /\ cmd = None <=> queue = <<>>
  /\ queue # <<>> =>
       /\ cmd.block = blockno[queue[1]]
       /\ cmd.write <=> queue[1] \in dirty
       /\ cmd.write => cmd.data = data[queue[1]]
       /\ cmd.done => cmd.data = disk[cmd.block]

\* A sleeper is at the place of its channel, and what it waits for is so.
Sleepers ==
  \A p \in Proc : chan[p] # None =>
    \/ pc[p] = "lock" /\ chan[p] = <<"lock", buf[p]>> /\ lock[buf[p]] # None
    \/ pc[p] = "wait" /\ chan[p] = <<"io", buf[p]>> /\ Queued(buf[p])

\* The dirty buffers that are not on their way to the disk are the log's.
Moving == {b \in Buf : \E p \in Proc : buf[p] = b /\ pc[p] \in {"iderw", "wait"}}
Pinned == Cardinality(dirty \ Moving) <= MaxPinned

IInv ==
  TypeOK /\ Handed /\ Counted /\ OneBuffer /\ Clean /\ Requests /\ Driven /\ Sleepers /\ Pinned

-----------------------------------------------------------------------------
(* Facts the proofs keep needing.                                          *)

\* The buffer of a process that is in the cache, and its lock.
LEMMA OfHolder ==
  ASSUME TypeOK, Handed, NEW p \in Proc, pc[p] # "out"
  PROVE  /\ buf[p] \in Buf /\ buf[p] # None /\ blockno[buf[p]] \in Block
         /\ pc[p] \in Holding => lock[buf[p]] = p
BY BcacheAssumption DEF TypeOK, Handed

\* Two processes that hold locks hold different ones.
LEMMA OwnBuffer ==
  ASSUME TypeOK, Handed, NEW p \in Proc, NEW q \in Proc, p # q,
         pc[p] \in Holding, pc[q] \in Holding
  PROVE  buf[p] # buf[q]
BY BcacheAssumption DEF TypeOK, Handed, Holding

LEMMA UsersFinite ==
  ASSUME NEW b PROVE IsFiniteSet(Users(b)) /\ Cardinality(Users(b)) \in Nat
<1>1. Users(b) \subseteq Proc  BY DEF Users
<1> QED  BY <1>1, FS_Subset, FS_CardinalityType, BcacheAssumption

\* A process that takes b up, or puts it down, changes b's users by one.
LEMMA MoreUsers ==
  ASSUME TypeOK, Counted, NEW p \in Proc, buf[p] = None, NEW b \in Buf,
         buf' = [buf EXCEPT ![p] = b], refcnt' = [refcnt EXCEPT ![b] = @ + 1]
  PROVE  Counted'
<1>1. Users(b)' = Users(b) \cup {p} /\ p \notin Users(b)
  BY BcacheAssumption DEF Users, TypeOK
<1>2. \A c \in Buf : c # b => Users(c)' = Users(c)
  BY BcacheAssumption DEF Users, TypeOK
<1>3. Cardinality(Users(b)') = Cardinality(Users(b)) + 1
  BY <1>1, UsersFinite, FS_AddElement
<1> QED  BY <1>2, <1>3 DEF Counted, TypeOK

LEMMA FewerUsers ==
  ASSUME TypeOK, Counted, NEW p \in Proc, NEW b \in Buf, buf[p] = b,
         buf' = [buf EXCEPT ![p] = None], refcnt' = [refcnt EXCEPT ![b] = @ - 1]
  PROVE  Counted'
<1>1. Users(b)' = Users(b) \ {p} /\ p \in Users(b)
  BY BcacheAssumption DEF Users, TypeOK
<1>2. \A c \in Buf : c # b => Users(c)' = Users(c)
  BY BcacheAssumption DEF Users, TypeOK
<1>3. Cardinality(Users(b)') = Cardinality(Users(b)) - 1
  BY <1>1, UsersFinite, FS_RemoveElement
<1> QED  BY <1>2, <1>3 DEF Counted, TypeOK

LEMMA SameUsers ==
  ASSUME Counted, UNCHANGED <<buf, refcnt>> PROVE Counted'
BY DEF Counted, Users

\* A buffer that nobody counts is nobody's.
LEMMA UnusedFree ==
  ASSUME TypeOK, Handed, Counted, NEW b \in Buf, refcnt[b] = 0
  PROVE  lock[b] = None /\ Users(b) = {}
<1>1. Users(b) = {}  BY UsersFinite, FS_EmptySet DEF Counted
<1> QED  BY <1>1 DEF Users, Handed, TypeOK

LEMMA FewerPinned ==
  ASSUME TypeOK, Pinned, dirty' \ Moving' \subseteq dirty \ Moving PROVE Pinned'
<1>1. IsFiniteSet(dirty \ Moving)
  BY FS_Subset, BcacheAssumption DEF TypeOK
<1>2. /\ IsFiniteSet(dirty' \ Moving')
      /\ Cardinality(dirty' \ Moving') <= Cardinality(dirty \ Moving)
  BY <1>1, FS_Subset
<1>3. Cardinality(dirty \ Moving) \in Nat /\ Cardinality(dirty' \ Moving') \in Nat
  BY <1>1, <1>2, FS_CardinalityType
<1> QED  BY <1>2, <1>3, BcacheAssumption DEF Pinned

-----------------------------------------------------------------------------
(* The invariant holds at first, and every step keeps it.                  *)

LEMMA InitIInv == Init => IInv
<1> SUFFICES ASSUME Init PROVE IInv  OBVIOUS
<1> USE BcacheAssumption
<1>1. TypeOK
  <2>1. (CHOOSE v \in Value : TRUE) \in Value  OBVIOUS
  <2>2. data \in [Buf -> Value]  BY <2>1 DEF Init
  <2>3. <<>> \in Seq(Buf)  OBVIOUS
  <2>4. /\ blockno \in [Buf -> Block \cup {None}] /\ refcnt \in [Buf -> Int]
        /\ lock \in [Buf -> Proc \cup {None}]
    BY DEF Init
  <2>5. /\ pc \in [Proc -> {"out", "lock", "brelse"} \cup Holding]
        /\ buf \in [Proc -> Buf \cup {None}]
        /\ chan \in [Proc -> ({"lock", "io"} \X Buf) \cup {None}]
    BY DEF Init
  <2> QED  BY <2>2, <2>3, <2>4, <2>5 DEF Init, TypeOK
<1>2. Handed /\ OneBuffer /\ Clean /\ Sleepers  
  BY DEF Init, Handed, OneBuffer, Clean, Sleepers, Holding
<1>3. Requests /\ Driven  BY DEF Init, Requests, Driven
<1>4. Counted
  <2>1. \A b \in Buf : Users(b) = {}  BY DEF Init, Users
  <2> QED  BY <2>1, FS_EmptySet DEF Init, Counted
<1>5. Pinned
  <2>1. dirty \ Moving = {}  BY DEF Init
  <2> QED  BY <2>1, FS_EmptySet DEF Pinned
<1> QED  BY <1>1, <1>2, <1>3, <1>4, <1>5 DEF IInv

LEMMA KeepBgetHit ==
  ASSUME IInv, NEW p \in Proc, NEW k \in Block, BgetHit(p, k) PROVE IInv'
<1> USE BcacheAssumption
<1>0. /\ TypeOK /\ Handed /\ Counted /\ OneBuffer /\ Clean
      /\ Requests /\ Driven /\ Sleepers /\ Pinned
  BY DEF IInv
<1>1. PICK b \in Buf :
        /\ blockno[b] = k /\ refcnt' = [refcnt EXCEPT ![b] = @ + 1]
        /\ buf' = [buf EXCEPT ![p] = b] /\ pc' = [pc EXCEPT ![p] = "lock"]
        /\ pc[p] = "out" /\ chan[p] = None
        /\ UNCHANGED <<blockno, lru, valid, dirty, data, lock, queue, cmd, disk, chan, panicked>>
  BY DEF BgetHit, At, Goto, Cached, drive
<1>2. buf[p] = None  BY <1>0, <1>1 DEF Handed
<1>3. TypeOK'  BY <1>0, <1>1 DEF TypeOK
<1>4. Handed'  BY <1>0, <1>1, <1>2 DEF Handed, TypeOK, Holding
<1>5. Counted'  BY <1>0, <1>1, <1>2, MoreUsers
<1>6. OneBuffer' /\ Clean'  BY <1>0, <1>1 DEF OneBuffer, Clean
<1>7. Requests'  BY <1>0, <1>1 DEF Requests, Queued, TypeOK
<1>8. Driven' BY <1>0, <1>1 DEF Driven
<1>9. Sleepers'  BY <1>0, <1>1 DEF Sleepers, Queued, TypeOK
<1>10. Pinned'
  <2>1. Moving' = Moving  BY <1>0, <1>1, <1>2 DEF Moving, TypeOK
  <2> QED  BY <1>0, <1>1, <2>1 DEF Pinned
<1> QED  BY <1>3, <1>4, <1>5, <1>6, <1>7, <1>8, <1>9, <1>10 DEF IInv

LEMMA KeepBgetMiss ==
  ASSUME IInv, NEW p \in Proc, NEW k \in Block, BgetMiss(p, k) PROVE IInv'
<1> USE BcacheAssumption
<1>0. /\ TypeOK /\ Handed /\ Counted /\ OneBuffer /\ Clean
      /\ Requests /\ Driven /\ Sleepers /\ Pinned
  BY DEF IInv
<1>1. CASE UNCHANGED <<cache, valid, dirty, pc, buf>> /\ panicked' = TRUE
  <2>1. UNCHANGED <<blockno, refcnt, lru, valid, dirty, data, lock, queue, cmd, disk, pc, buf, chan>>
    BY <1>1 DEF BgetMiss, cache, drive
  <2>2. TypeOK' /\ Handed' /\ OneBuffer' /\ Clean'
    BY <1>0, <1>1, <2>1 DEF TypeOK, Handed, OneBuffer, Clean
  <2>3. Requests' /\ Driven' /\ Sleepers'
    BY <1>0, <2>1 DEF Requests, Driven, Sleepers, Queued
  <2>4. Counted' /\ Pinned'
    BY <1>0, <2>1, SameUsers DEF Pinned, Moving
  <2> QED  BY <2>2, <2>3, <2>4 DEF IInv
<1>2. ASSUME NEW b \in Unused,
        /\ blockno' = [blockno EXCEPT ![b] = k]
        /\ valid' = valid \ {b} /\ dirty' = dirty \ {b}
        /\ refcnt' = [refcnt EXCEPT ![b] = 1]
        /\ buf' = [buf EXCEPT ![p] = b] /\ Goto(p, "lock")
        /\ UNCHANGED <<lru, panicked>>
      PROVE IInv'
  <2>1. /\ pc[p] = "out" /\ chan[p] = None /\ Cached(k) = {}
        /\ pc' = [pc EXCEPT ![p] = "lock"]
        /\ UNCHANGED <<data, lock, queue, cmd, disk, chan>>
    BY <1>2 DEF BgetMiss, At, Goto, drive
  <2>2. b \in Buf /\ refcnt[b] = 0 /\ b \notin dirty  BY DEF Unused
  <2>3. buf[p] = None  BY <1>0, <2>1 DEF Handed
  <2>4. lock[b] = None /\ \A q \in Proc : buf[q] # b
    BY <1>0, <2>2, UnusedFree DEF Users
  <2>5. ~Queued(b)  BY <1>0, <2>4 DEF Requests, Queued
  <2>6. TypeOK'  BY <1>0, <1>2, <2>1, <2>2 DEF TypeOK
  <2>7. Handed'
    BY <1>0, <1>2, <2>1, <2>2, <2>3, <2>4 DEF Handed, TypeOK, Holding
  <2>8. Counted'
    <3>1. refcnt' = [refcnt EXCEPT ![b] = @ + 1]  BY <1>0, <1>2, <2>2 DEF TypeOK
    <3> QED  BY <1>0, <1>2, <2>2, <2>3, <3>1, MoreUsers
  <2>9. OneBuffer'  BY <1>0, <1>2, <2>1, <2>2 DEF OneBuffer, Cached, TypeOK
  <2>10. Clean'  BY <1>0, <1>2, <2>1, <2>2 DEF Clean, TypeOK
  <2>11. Requests'
    <3>1. \A q \in Proc : pc[q] \in Holding => buf[q] # b  BY <2>4
    <3> QED  BY <1>0, <1>2, <2>1, <2>2, <2>3, <2>4, <2>5, <3>1
             DEF Requests, Queued, TypeOK, Holding, Handed
  <2>12. Driven'
    <3>1. queue # <<>> => 1 \in DOMAIN queue /\ queue[1] \in Buf  BY <1>0 DEF TypeOK
    <3> QED  BY <1>0, <1>2, <2>1, <2>2, <2>5, <3>1 DEF Driven, Queued, TypeOK
  <2>13. Sleepers'
    BY <1>0, <1>2, <2>1, <2>2, <2>3, <2>4 DEF Sleepers, Queued, TypeOK
  <2>14. Pinned'
    <3>1. Moving \subseteq Moving'
      BY <1>0, <1>2, <2>1, <2>3 DEF Moving, TypeOK
    <3> QED  BY <1>0, <1>2, <3>1, FewerPinned
  <2> QED  BY <2>6, <2>7, <2>8, <2>9, <2>10, <2>11, <2>12, <2>13, <2>14 DEF IInv
<1> QED
  <2>1. CASE Unused = {}  BY <1>1, <2>1 DEF BgetMiss
  <2>2. CASE Unused # {}
    <3>1. PICK i \in DOMAIN lru :
            /\ lru[i] \in Unused
            /\ blockno' = [blockno EXCEPT ![lru[i]] = k]
            /\ valid' = valid \ {lru[i]} /\ dirty' = dirty \ {lru[i]}
            /\ refcnt' = [refcnt EXCEPT ![lru[i]] = 1]
            /\ buf' = [buf EXCEPT ![p] = lru[i]] /\ Goto(p, "lock")
            /\ UNCHANGED <<lru, panicked>>
      BY <2>2 DEF BgetMiss
    <3> QED  BY <1>2, <3>1
  <2> QED  BY <2>1, <2>2

LEMMA KeepAcquireSleep ==
  ASSUME IInv, NEW p \in Proc, AcquireSleep(p) PROVE IInv'
<1> USE BcacheAssumption
<1>0. /\ TypeOK /\ Handed /\ Counted /\ OneBuffer /\ Clean
      /\ Requests /\ Driven /\ Sleepers /\ Pinned
  BY DEF IInv
<1>1. /\ pc[p] = "lock" /\ chan[p] = None
      /\ UNCHANGED <<blockno, refcnt, lru, valid, dirty, data, queue, cmd, disk, buf, panicked>>
  BY DEF AcquireSleep, At, cache, drive
<1>2. buf[p] \in Buf /\ buf[p] # None /\ blockno[buf[p]] \in Block  BY <1>0, <1>1, OfHolder
<1>3. OneBuffer' /\ Clean' /\ Driven' /\ Counted'
  BY <1>0, <1>1, SameUsers DEF OneBuffer, Clean, Driven
<1>4. CASE lock[buf[p]] # None
  <2>1. chan' = [chan EXCEPT ![p] = <<"lock", buf[p]>>] /\ UNCHANGED <<lock, pc>>
    BY <1>4 DEF AcquireSleep
  <2>2. TypeOK'  BY <1>0, <1>1, <1>2, <2>1 DEF TypeOK
  <2>3. Handed' /\ Requests'  BY <1>0, <1>1, <2>1 DEF Handed, Requests, Queued
  <2>4. Sleepers'  BY <1>0, <1>1, <1>4, <2>1 DEF Sleepers, Queued, TypeOK
  <2>5. Pinned'  BY <1>0, <1>1, <2>1 DEF Pinned, Moving
  <2> QED  BY <1>3, <2>2, <2>3, <2>4, <2>5 DEF IInv
<1>5. CASE lock[buf[p]] = None
  <2> DEFINE to == IF buf[p] \in valid THEN "have" ELSE "iderw"
  <2>1. lock' = [lock EXCEPT ![buf[p]] = p] /\ pc' = [pc EXCEPT ![p] = to] /\ UNCHANGED chan
    BY <1>5 DEF AcquireSleep, Goto
  <2>2. to \in {"have", "iderw"} /\ (to = "have" => buf[p] \in valid) /\ (to = "iderw" => buf[p] \notin valid)
    OBVIOUS
  <2> HIDE DEF to
  <2>3. TypeOK'  BY <1>0, <1>1, <1>2, <2>1, <2>2 DEF TypeOK, Holding
  <2>4. \A q \in Proc : buf[q] = buf[p] /\ q # p => pc[q] \notin Holding
    BY <1>0, <1>2, <1>5 DEF Handed
  <2>5. Handed'
    BY <1>0, <1>1, <1>2, <1>5, <2>1, <2>2, <2>4 DEF Handed, TypeOK, Holding
  <2>6. Requests'
    BY <1>0, <1>1, <1>2, <1>5, <2>1, <2>2 DEF Requests, Queued, TypeOK
  <2>7. Sleepers'
    BY <1>0, <1>1, <1>2, <1>5, <2>1, <2>2 DEF Sleepers, Queued, TypeOK
  <2>8. Pinned'
    <3>1. Moving \subseteq Moving'
      BY <1>0, <1>1, <2>1 DEF Moving, TypeOK
    <3> QED  BY <1>0, <1>1, <3>1, FewerPinned
  <2> QED  BY <1>3, <2>3, <2>5, <2>6, <2>7, <2>8 DEF IInv
<1> QED  BY <1>4, <1>5

\* bwrite and log_write change the data of a buffer whose lock the caller has.
LEMMA KeepBwrite ==
  ASSUME IInv, NEW p \in Proc, NEW v \in Value, Bwrite(p, v) PROVE IInv'
<1> USE BcacheAssumption
<1>0. /\ TypeOK /\ Handed /\ Counted /\ OneBuffer /\ Clean
      /\ Requests /\ Driven /\ Sleepers /\ Pinned
  BY DEF IInv
<1>1. /\ pc[p] = "have" /\ chan[p] = None
      /\ data' = [data EXCEPT ![buf[p]] = v] /\ dirty' = dirty \cup {buf[p]}
      /\ pc' = [pc EXCEPT ![p] = "iderw"]
      /\ UNCHANGED <<blockno, refcnt, lru, valid, lock, queue, cmd, disk, buf, chan, panicked>>
  BY DEF Bwrite, At, Goto, cache, drive
<1>2. buf[p] \in valid /\ buf[p] # None /\ lock[buf[p]] = p
  BY <1>0, <1>1, OfHolder DEF Handed, Holding
<1>3. TypeOK'  BY <1>0, <1>1, <1>2 DEF TypeOK, Holding
<1>4. Handed'  BY <1>0, <1>1, <1>2 DEF Handed, TypeOK, Holding
<1>5. Counted' /\ OneBuffer'  BY <1>0, <1>1, SameUsers DEF OneBuffer
<1>6. Clean'  BY <1>0, <1>1, <1>2 DEF Clean, TypeOK
<1>7. ~Queued(buf[p])  BY <1>0, <1>1, <1>2 DEF Requests, Queued
<1>8. Requests'
  BY <1>0, <1>1, <1>2, <1>7, OwnBuffer DEF Requests, Queued, TypeOK, Holding
<1>9. Driven'
  <2>1. queue # <<>> => 1 \in DOMAIN queue /\ queue[1] \in Buf  BY <1>0 DEF TypeOK
  <2> QED  BY <1>0, <1>1, <1>7, <2>1 DEF Driven, Queued, TypeOK
<1>10. Sleepers'  BY <1>0, <1>1 DEF Sleepers, Queued, TypeOK
<1>11. Pinned'
  <2>1. Moving \cup {buf[p]} \subseteq Moving'
    BY <1>0, <1>1, <1>2 DEF Moving, TypeOK
  <2> QED  BY <1>0, <1>1, <2>1, FewerPinned
<1> QED  BY <1>3, <1>4, <1>5, <1>6, <1>8, <1>9, <1>10, <1>11 DEF IInv

LEMMA KeepLogWrite ==
  ASSUME IInv, NEW p \in Proc, NEW v \in Value, LogWrite(p, v) PROVE IInv'
<1> USE BcacheAssumption
<1>0. /\ TypeOK /\ Handed /\ Counted /\ OneBuffer /\ Clean
      /\ Requests /\ Driven /\ Sleepers /\ Pinned
  BY DEF IInv
<1>1. /\ pc[p] = "have" /\ Cardinality(dirty \cup {buf[p]}) <= MaxPinned
      /\ data' = [data EXCEPT ![buf[p]] = v] /\ dirty' = dirty \cup {buf[p]}
      /\ UNCHANGED <<blockno, refcnt, lru, valid, lock, queue, cmd, disk, pc, buf, chan, panicked>>
  BY DEF LogWrite, At, cache, drive
<1>2. buf[p] \in valid /\ buf[p] # None /\ lock[buf[p]] = p
  BY <1>0, <1>1, OfHolder DEF Handed, Holding
<1>3. TypeOK'  BY <1>0, <1>1, <1>2 DEF TypeOK
<1>4. Handed'  BY <1>0, <1>1 DEF Handed
<1>5. Counted' /\ OneBuffer'  BY <1>0, <1>1, SameUsers DEF OneBuffer
<1>6. Clean'  BY <1>0, <1>1, <1>2 DEF Clean, TypeOK
<1>7. ~Queued(buf[p])  BY <1>0, <1>1, <1>2 DEF Requests, Queued
<1>8. Requests'
  BY <1>0, <1>1, <1>2, <1>7, OwnBuffer DEF Requests, Queued, TypeOK, Holding
<1>9. Driven'
  <2>1. queue # <<>> => 1 \in DOMAIN queue /\ queue[1] \in Buf  BY <1>0 DEF TypeOK
  <2> QED  BY <1>0, <1>1, <1>7, <2>1 DEF Driven, Queued, TypeOK
<1>10. Sleepers'  BY <1>0, <1>1 DEF Sleepers, Queued
<1>11. Pinned'
  <2>1. IsFiniteSet(dirty')  BY <1>0, <1>1, <1>2, FS_Subset DEF TypeOK
  <2>2. /\ Cardinality(dirty' \ Moving') <= Cardinality(dirty')
        /\ Cardinality(dirty' \ Moving') \in Nat /\ Cardinality(dirty') \in Nat
    BY <2>1, FS_Subset, FS_CardinalityType
  <2> QED  BY <1>1, <2>2 DEF Pinned
<1> QED  BY <1>3, <1>4, <1>5, <1>6, <1>8, <1>9, <1>10, <1>11 DEF IInv

LEMMA KeepReleaseSleep ==
  ASSUME IInv, NEW p \in Proc, ReleaseSleep(p) PROVE IInv'
<1> USE BcacheAssumption
<1>0. /\ TypeOK /\ Handed /\ Counted /\ OneBuffer /\ Clean
      /\ Requests /\ Driven /\ Sleepers /\ Pinned
  BY DEF IInv
<1>1. /\ pc[p] = "have" /\ chan[p] = None
      /\ lock' = [lock EXCEPT ![buf[p]] = None] /\ pc' = [pc EXCEPT ![p] = "brelse"]
      /\ chan' = [q \in Proc |-> IF chan[q] = <<"lock", buf[p]>> THEN None ELSE chan[q]]
      /\ UNCHANGED <<blockno, refcnt, lru, valid, dirty, data, queue, cmd, disk, buf, panicked>>
  BY DEF ReleaseSleep, At, Goto, Wakeup, cache, drive
<1>2. buf[p] \in valid /\ buf[p] # None /\ lock[buf[p]] = p
  BY <1>0, <1>1, OfHolder DEF Handed, Holding
<1>3. TypeOK'  BY <1>0, <1>1, <1>2 DEF TypeOK
<1>4. \A q \in Proc : pc[q] \in Holding /\ q # p => buf[q] # buf[p]
  BY <1>0, <1>1, OwnBuffer DEF Holding
<1>5. Handed'  BY <1>0, <1>1, <1>2, <1>4 DEF Handed, TypeOK, Holding
<1>6. Counted' /\ OneBuffer' /\ Clean' /\ Driven'
  BY <1>0, <1>1, SameUsers DEF OneBuffer, Clean, Driven
<1>7. ~Queued(buf[p])  BY <1>0, <1>1, <1>2 DEF Requests, Queued
<1>8. Requests'  BY <1>0, <1>1, <1>2, <1>7 DEF Requests, Queued, TypeOK
<1>9. Sleepers'
  <2> SUFFICES ASSUME NEW q \in Proc, chan'[q] # None
               PROVE  \/ pc'[q] = "lock" /\ chan'[q] = <<"lock", buf'[q]>> /\ lock'[buf'[q]] # None
                      \/ pc'[q] = "wait" /\ chan'[q] = <<"io", buf'[q]>> /\ Queued(buf[q])'
    BY DEF Sleepers
  <2>1. chan'[q] = chan[q] /\ chan[q] # <<"lock", buf[p]>>  BY <1>1
  <2>2. q # p /\ pc'[q] = pc[q] /\ buf'[q] = buf[q] /\ Queued(buf[q])' = Queued(buf[q])
    BY <1>0, <1>1, <2>1 DEF TypeOK, Queued
  <2> QED  BY <1>0, <1>1, <2>1, <2>2 DEF Sleepers, TypeOK
<1>10. Pinned'
  <2>1. Moving' = Moving  BY <1>0, <1>1 DEF Moving, TypeOK
  <2> QED  BY <1>0, <1>1, <2>1 DEF Pinned
<1> QED  BY <1>3, <1>5, <1>6, <1>8, <1>9, <1>10 DEF IInv

LEMMA KeepBrelse ==
  ASSUME IInv, NEW p \in Proc, Brelse(p) PROVE IInv'
<1> USE BcacheAssumption
<1>0. /\ TypeOK /\ Handed /\ Counted /\ OneBuffer /\ Clean
      /\ Requests /\ Driven /\ Sleepers /\ Pinned
  BY DEF IInv
<1>1. /\ pc[p] = "brelse" /\ chan[p] = None
      /\ refcnt' = [refcnt EXCEPT ![buf[p]] = @ - 1]
      /\ buf' = [buf EXCEPT ![p] = None] /\ pc' = [pc EXCEPT ![p] = "out"]
      /\ UNCHANGED <<blockno, valid, dirty, data, lock, queue, cmd, disk, chan, panicked>>
  BY DEF Brelse, At, Goto, drive
<1>2. buf[p] \in Buf /\ buf[p] # None  BY <1>0, <1>1, OfHolder
<1>3. TypeOK'  BY <1>0, <1>1, <1>2 DEF TypeOK
<1>4. Handed'  BY <1>0, <1>1, <1>2 DEF Handed, TypeOK, Holding
<1>5. Counted'  BY <1>0, <1>1, <1>2, FewerUsers
<1>6. OneBuffer' /\ Clean' /\ Driven'  BY <1>0, <1>1 DEF OneBuffer, Clean, Driven
<1>7. Requests'  BY <1>0, <1>1 DEF Requests, Queued, TypeOK
<1>8. Sleepers'  BY <1>0, <1>1 DEF Sleepers, Queued, TypeOK
<1>9. Pinned'
  <2>1. Moving' = Moving  BY <1>0, <1>1 DEF Moving, TypeOK
  <2> QED  BY <1>0, <1>1, <2>1 DEF Pinned
<1> QED  BY <1>3, <1>4, <1>5, <1>6, <1>7, <1>8, <1>9 DEF IInv

LEMMA KeepIderw ==
  ASSUME IInv, NEW p \in Proc, Iderw(p) PROVE IInv'
<1> USE BcacheAssumption
<1>0. /\ TypeOK /\ Handed /\ Counted /\ OneBuffer /\ Clean
      /\ Requests /\ Driven /\ Sleepers /\ Pinned
  BY DEF IInv
<1>1. /\ pc[p] = "iderw" /\ chan[p] = None /\ queue' = Append(queue, buf[p])
      /\ cmd' = IF queue = <<>> THEN Idestart(buf[p]) ELSE cmd
      /\ chan' = [chan EXCEPT ![p] = <<"io", buf[p]>>] /\ pc' = [pc EXCEPT ![p] = "wait"]
      /\ UNCHANGED <<blockno, refcnt, lru, valid, dirty, data, lock, disk, buf, panicked>>
  BY DEF Iderw, At, Goto, cache
<1>2. buf[p] \in Buf /\ buf[p] # None /\ lock[buf[p]] = p /\ blockno[buf[p]] \in Block
  BY <1>0, <1>1, OfHolder DEF Holding
<1>3. /\ queue' \in Seq(Buf) /\ Len(queue') = Len(queue) + 1 /\ Len(queue) \in Nat
      /\ queue'[Len(queue) + 1] = buf[p]
      /\ \A i \in 1 .. Len(queue) : queue'[i] = queue[i]
      /\ DOMAIN queue = 1 .. Len(queue) /\ DOMAIN queue' = 1 .. Len(queue) + 1
  BY <1>0, <1>1, <1>2 DEF TypeOK
<1>4. Idestart(buf[p]) \in Command
  BY <1>0, <1>2 DEF Idestart, Command, TypeOK
<1>5. TypeOK'
  <2>1. cmd' \in Command \cup {None}  BY <1>0, <1>1, <1>4 DEF TypeOK
  <2> QED  BY <1>0, <1>1, <1>2, <1>3, <2>1 DEF TypeOK, Holding
<1>6. Handed'  BY <1>0, <1>1 DEF Handed, TypeOK, Holding
<1>7. Counted' /\ OneBuffer' /\ Clean'
  BY <1>0, <1>1, SameUsers DEF OneBuffer, Clean
<1>8. \A i \in DOMAIN queue : queue[i] # buf[p]  BY <1>0, <1>1, <1>2 DEF Requests
<1>9. Queued(buf[p])' /\ \A b : Queued(b) => Queued(b)'
  BY <1>1, <1>3 DEF Queued
<1>10. Requests'
  <2>1. \A i, j \in DOMAIN queue' : queue'[i] = queue'[j] => i = j
    BY <1>0, <1>3, <1>8 DEF Requests
  <2>2. \A i \in DOMAIN queue' :
          /\ lock'[queue'[i]] # None /\ pc'[lock'[queue'[i]]] = "wait"
          /\ queue'[i] \in valid' => queue'[i] \in dirty'
    <3> SUFFICES ASSUME NEW i \in DOMAIN queue'
                 PROVE  /\ lock[queue'[i]] # None /\ pc'[lock[queue'[i]]] = "wait"
                        /\ queue'[i] \in valid => queue'[i] \in dirty
      BY <1>1
    <3>1. CASE i \in DOMAIN queue
      <4>1. queue'[i] = queue[i] /\ queue[i] \in Buf  BY <1>0, <1>3, <3>1 DEF TypeOK
      <4>2. lock[queue[i]] \in Proc  BY <1>0, <3>1, <4>1 DEF Requests, TypeOK
      <4> QED  BY <1>0, <1>1, <3>1, <4>1, <4>2 DEF Requests, TypeOK
    <3>2. CASE i = Len(queue) + 1
      BY <1>0, <1>1, <1>2, <1>3, <3>2 DEF Requests, TypeOK
    <3> QED  BY <1>3, <3>1, <3>2
  <2>3. \A q \in Proc : pc'[q] = "iderw" => (buf'[q] \in valid' => buf'[q] \in dirty')
    BY <1>0, <1>1 DEF Requests, TypeOK
  <2>4. \A q \in Proc : pc'[q] = "wait" => Queued(buf[q])' \/ buf'[q] \in valid' \ dirty'
    BY <1>0, <1>1, <1>9 DEF Requests, TypeOK
  <2> QED  BY <1>1, <2>1, <2>2, <2>3, <2>4 DEF Requests, Queued
<1>11. Driven'
  <2>1. CASE queue = <<>>
    <3>1. queue'[1] = buf[p] /\ queue' # <<>>  BY <1>1, <1>2, <2>1
    <3>2. /\ cmd'.write <=> buf[p] \in dirty
          /\ cmd'.block = blockno[buf[p]] /\ cmd'.data = data[buf[p]] /\ cmd'.done = FALSE
          /\ cmd' # None
      BY <1>1, <1>4, <2>1 DEF Idestart, Command
    <3> QED  BY <1>1, <3>1, <3>2 DEF Driven
  <2>2. CASE queue # <<>>
    <3>1. 1 \in 1 .. Len(queue)  BY <1>0, <1>3, <2>2 DEF TypeOK
    <3>2. queue'[1] = queue[1] /\ queue' # <<>> /\ cmd' = cmd  BY <1>1, <1>3, <2>2, <3>1
    <3> QED  BY <1>0, <1>1, <2>2, <3>2 DEF Driven
  <2> QED  BY <2>1, <2>2
<1>12. Sleepers'
  <2> SUFFICES ASSUME NEW q \in Proc, chan'[q] # None
               PROVE  \/ pc'[q] = "lock" /\ chan'[q] = <<"lock", buf'[q]>> /\ lock'[buf'[q]] # None
                      \/ pc'[q] = "wait" /\ chan'[q] = <<"io", buf'[q]>> /\ Queued(buf[q])'
    BY DEF Sleepers
  <2>1. CASE q = p  BY <1>0, <1>1, <1>9, <2>1 DEF TypeOK
  <2>2. CASE q # p
    <3>1. chan'[q] = chan[q] /\ pc'[q] = pc[q]  BY <1>0, <1>1, <2>2 DEF TypeOK
    <3>2. Queued(buf[q]) => Queued(buf[q])'  BY <1>1, <1>3 DEF Queued
    <3> QED  BY <1>0, <1>1, <3>1, <3>2 DEF Sleepers
  <2> QED  BY <2>1, <2>2
<1>13. Pinned'
  <2>1. Moving' = Moving  BY <1>0, <1>1 DEF Moving, TypeOK
  <2> QED  BY <1>0, <1>1, <2>1 DEF Pinned
<1> QED  BY <1>5, <1>6, <1>7, <1>10, <1>11, <1>12, <1>13 DEF IInv

LEMMA KeepIderwWait ==
  ASSUME IInv, NEW p \in Proc, IderwWait(p) PROVE IInv'
<1> USE BcacheAssumption
<1>0. /\ TypeOK /\ Handed /\ Counted /\ OneBuffer /\ Clean
      /\ Requests /\ Driven /\ Sleepers /\ Pinned
  BY DEF IInv
<1>1. /\ pc[p] = "wait" /\ chan[p] = None
      /\ UNCHANGED <<blockno, refcnt, lru, valid, dirty, data, lock, queue, cmd, disk, buf, panicked>>
  BY DEF IderwWait, At, cache, drive
<1>2. buf[p] \in Buf /\ buf[p] # None /\ lock[buf[p]] = p  BY <1>0, <1>1, OfHolder DEF Holding
<1>3. OneBuffer' /\ Clean' /\ Driven' /\ Counted'
  BY <1>0, <1>1, SameUsers DEF OneBuffer, Clean, Driven
<1>4. CASE buf[p] \in valid \ dirty
  <2>1. pc' = [pc EXCEPT ![p] = "have"] /\ UNCHANGED chan
    BY <1>4 DEF IderwWait, Goto
  <2>2. TypeOK'  BY <1>0, <1>1, <2>1 DEF TypeOK, Holding
  <2>3. Handed'  BY <1>0, <1>1, <1>2, <1>4, <2>1 DEF Handed, TypeOK, Holding
  <2>4. ~Queued(buf[p])  BY <1>0, <1>4 DEF Requests, Queued
  <2>5. Requests'
    BY <1>0, <1>1, <1>2, <2>1, <2>4 DEF Requests, Handed, Queued, TypeOK
  <2>6. Sleepers'  BY <1>0, <1>1, <2>1 DEF Sleepers, Queued, TypeOK
  <2>7. Pinned'
    <3>1. Moving \ {buf[p]} \subseteq Moving'  BY <1>0, <1>1, <2>1 DEF Moving, TypeOK
    <3> QED  BY <1>0, <1>1, <1>4, <3>1, FewerPinned
  <2> QED  BY <1>3, <2>2, <2>3, <2>5, <2>6, <2>7 DEF IInv
<1>5. CASE buf[p] \notin valid \ dirty
  <2>1. chan' = [chan EXCEPT ![p] = <<"io", buf[p]>>] /\ UNCHANGED pc
    BY <1>5 DEF IderwWait
  <2>2. TypeOK'  BY <1>0, <1>1, <1>2, <2>1 DEF TypeOK
  <2>3. Handed' /\ Requests'  BY <1>0, <1>1, <2>1 DEF Handed, Requests, Queued
  <2>4. Queued(buf[p])  BY <1>0, <1>1, <1>5 DEF Requests
  <2>5. Sleepers'  BY <1>0, <1>1, <2>1, <2>4 DEF Sleepers, Queued, TypeOK
  <2>6. Pinned'  BY <1>0, <1>1, <2>1 DEF Pinned, Moving
  <2> QED  BY <1>3, <2>2, <2>3, <2>5, <2>6 DEF IInv
<1> QED  BY <1>4, <1>5

LEMMA KeepDiskDone ==
  ASSUME IInv, DiskDone PROVE IInv'
<1> USE BcacheAssumption
<1>0. /\ TypeOK /\ Handed /\ Counted /\ OneBuffer /\ Clean
      /\ Requests /\ Driven /\ Sleepers /\ Pinned
  BY DEF IInv
<1>1. /\ cmd # None /\ ~cmd.done
      /\ disk' = IF cmd.write THEN [disk EXCEPT ![cmd.block] = cmd.data] ELSE disk
      /\ cmd' = [cmd EXCEPT !.data = disk'[cmd.block], !.done = TRUE]
      /\ UNCHANGED <<blockno, refcnt, lru, valid, dirty, data, lock, queue, pc, buf, chan, panicked>>
  BY DEF DiskDone, cache
<1>2. cmd \in Command /\ cmd.block \in Block /\ cmd.data \in Value /\ cmd.write \in BOOLEAN
  BY <1>0, <1>1 DEF TypeOK, Command
<1>3. queue # <<>> /\ queue[1] \in Buf /\ 1 \in DOMAIN queue
  BY <1>0, <1>1 DEF Driven, TypeOK
<1>4. disk' \in [Block -> Value] /\ disk'[cmd.block] \in Value
  BY <1>0, <1>1, <1>2 DEF TypeOK
<1>5. /\ cmd' \in Command /\ cmd'.block = cmd.block /\ cmd'.write = cmd.write
      /\ cmd'.data = disk'[cmd.block]
  BY <1>1, <1>2, <1>4 DEF Command
<1>6. TypeOK'  BY <1>0, <1>1, <1>4, <1>5 DEF TypeOK
<1>7. Handed' /\ Counted' /\ OneBuffer' /\ Requests' /\ Sleepers'
  BY <1>0, <1>1, SameUsers DEF Handed, OneBuffer, Requests, Sleepers, Queued
<1>8. Clean'
  <2> SUFFICES ASSUME NEW b \in valid, b \notin dirty PROVE data[b] = disk'[blockno[b]]
    BY <1>1 DEF Clean
  <2>1. cmd.write => b # queue[1] /\ blockno[b] # cmd.block
    BY <1>0, <1>3 DEF OneBuffer, Driven, TypeOK
  <2> QED  BY <1>0, <1>1, <1>2, <2>1 DEF Clean, OneBuffer, TypeOK
<1>9. Driven'
  <2>1. cmd.write => disk'[cmd.block] = data[queue[1]]
    BY <1>0, <1>1, <1>2, <1>3 DEF Driven, TypeOK
  <2> QED  BY <1>0, <1>1, <1>3, <1>5, <2>1 DEF Driven, Command
<1>10. Pinned'
  <2>1. Moving' = Moving  BY <1>1 DEF Moving
  <2> QED  BY <1>0, <1>1, <2>1 DEF Pinned
<1> QED  BY <1>6, <1>7, <1>8, <1>9, <1>10 DEF IInv

\* What the interrupt handler leaves of the queue, and what it starts.
LEMMA IdeintrFacts ==
  ASSUME IInv, Ideintr
  PROVE  /\ queue[1] \in Buf /\ lock[queue[1]] \in Proc /\ lock[queue[1]] # None
         /\ pc[lock[queue[1]]] = "wait" /\ buf[lock[queue[1]]] = queue[1]
         /\ cmd \in Command /\ cmd.done /\ cmd.block = blockno[queue[1]]
         /\ cmd.data = disk[blockno[queue[1]]] /\ blockno[queue[1]] \in Block
         /\ cmd.write <=> queue[1] \in dirty
         /\ queue[1] \in valid => queue[1] \in dirty
         /\ cmd.write => cmd.data = data[queue[1]]
         /\ data' = IF queue[1] \in dirty THEN data ELSE [data EXCEPT ![queue[1]] = cmd.data]
         /\ valid' = valid \cup {queue[1]} /\ dirty' = dirty \ {queue[1]}
         /\ chan' = [q \in Proc |-> IF chan[q] = <<"io", queue[1]>> THEN None ELSE chan[q]]
         /\ queue' \in Seq(Buf)
         /\ \A i \in DOMAIN queue' : i + 1 \in DOMAIN queue /\ queue'[i] = queue[i + 1]
         /\ \A i \in DOMAIN queue : i # 1 => i - 1 \in DOMAIN queue' /\ queue'[i - 1] = queue[i]
         /\ cmd' = IF queue' = <<>> THEN None ELSE Idestart(queue'[1])
         /\ UNCHANGED <<blockno, refcnt, lru, lock, disk, pc, buf, panicked>>
<1> USE BcacheAssumption
<1>0. /\ TypeOK /\ Handed /\ Counted /\ OneBuffer /\ Clean
      /\ Requests /\ Driven /\ Sleepers /\ Pinned
  BY DEF IInv
<1>1. queue # <<>> /\ queue \in Seq(Buf)  BY <1>0 DEF Ideintr, TypeOK
<1>2. 1 \in DOMAIN queue /\ queue[1] \in Buf /\ Head(queue) = queue[1]  BY <1>1
<1>3. /\ Tail(queue) \in Seq(Buf)
      /\ \A i \in DOMAIN Tail(queue) : i + 1 \in DOMAIN queue /\ Tail(queue)[i] = queue[i + 1]
      /\ \A i \in DOMAIN queue : i # 1 =>
           i - 1 \in DOMAIN Tail(queue) /\ Tail(queue)[i - 1] = queue[i]
  BY <1>1
<1>4. Tail(queue) # <<>> => Head(Tail(queue)) = Tail(queue)[1]  BY <1>3
<1>5. /\ data' = IF queue[1] \in dirty THEN data ELSE [data EXCEPT ![queue[1]] = cmd.data]
      /\ valid' = valid \cup {queue[1]} /\ dirty' = dirty \ {queue[1]}
      /\ chan' = [q \in Proc |-> IF chan[q] = <<"io", queue[1]>> THEN None ELSE chan[q]]
      /\ queue' = Tail(queue) /\ cmd # None /\ cmd.done
      /\ cmd' = IF Tail(queue) = <<>> THEN None ELSE Idestart(Head(Tail(queue)))
      /\ UNCHANGED <<blockno, refcnt, lru, lock, disk, pc, buf, panicked>>
  BY <1>2 DEF Ideintr, Wakeup, cache
<1>6. /\ lock[queue[1]] \in Proc /\ lock[queue[1]] # None /\ pc[lock[queue[1]]] = "wait"
      /\ buf[lock[queue[1]]] = queue[1]
      /\ queue[1] \in valid => queue[1] \in dirty
  BY <1>0, <1>2 DEF Requests, Handed, TypeOK
<1>7. blockno[queue[1]] \in Block  BY <1>0, <1>2, <1>6 DEF Handed, TypeOK
<1>8. /\ cmd \in Command /\ cmd.block = blockno[queue[1]]
      /\ cmd.data = disk[blockno[queue[1]]]
      /\ cmd.write <=> queue[1] \in dirty
      /\ cmd.write => cmd.data = data[queue[1]]
  BY <1>0, <1>1, <1>5 DEF Driven, TypeOK
<1> QED  BY <1>2, <1>3, <1>4, <1>5, <1>6, <1>7, <1>8

LEMMA KeepIdeintr ==
  ASSUME IInv, Ideintr PROVE IInv'
<1> USE BcacheAssumption
<1>0. /\ TypeOK /\ Handed /\ Counted /\ OneBuffer /\ Clean
      /\ Requests /\ Driven /\ Sleepers /\ Pinned
  BY DEF IInv
<1> DEFINE b == queue[1]
           h == lock[queue[1]]
<1>1. /\ b \in Buf /\ h \in Proc /\ h # None /\ pc[h] = "wait" /\ buf[h] = b
      /\ cmd \in Command /\ cmd.done /\ cmd.block = blockno[b]
      /\ cmd.data = disk[blockno[b]] /\ blockno[b] \in Block
      /\ cmd.write <=> b \in dirty
      /\ b \in valid => b \in dirty
      /\ cmd.write => cmd.data = data[b]
      /\ data' = IF b \in dirty THEN data ELSE [data EXCEPT ![b] = cmd.data]
      /\ valid' = valid \cup {b} /\ dirty' = dirty \ {b}
      /\ chan' = [q \in Proc |-> IF chan[q] = <<"io", b>> THEN None ELSE chan[q]]
  BY IdeintrFacts
<1>2. /\ queue' \in Seq(Buf)
      /\ \A i \in DOMAIN queue' : i + 1 \in DOMAIN queue /\ queue'[i] = queue[i + 1]
      /\ \A i \in DOMAIN queue : i # 1 => i - 1 \in DOMAIN queue' /\ queue'[i - 1] = queue[i]
      /\ cmd' = IF queue' = <<>> THEN None ELSE Idestart(queue'[1])
  BY IdeintrFacts
<1>3. UNCHANGED <<blockno, refcnt, lru, lock, disk, pc, buf, panicked>>
  BY IdeintrFacts
<1>4. 1 \in DOMAIN queue /\ b = queue[1]  BY <1>0 DEF Ideintr, TypeOK
<1>5. \A i \in DOMAIN queue' : queue'[i] # b /\ queue'[i] \in Buf
  BY <1>0, <1>2, <1>4 DEF Requests, TypeOK
<1> HIDE DEF b, h
<1>6. cmd.data \in Value  BY <1>1 DEF Command
<1>7. queue' # <<>> => 1 \in DOMAIN queue' /\ queue'[1] \in Buf /\ queue'[1] # b
  BY <1>2, <1>5
<1>8. queue' # <<>> => blockno[queue'[1]] \in Block
  <2>1. \A i \in DOMAIN queue : blockno[queue[i]] \in Block
    BY <1>0 DEF Requests, Handed, TypeOK
  <2> QED  BY <1>2, <1>7, <2>1
<1>9. data' \in [Buf -> Value] /\ \A c \in Buf : c # b => data'[c] = data[c]
  BY <1>0, <1>1, <1>6 DEF TypeOK
<1>10. TypeOK'
  <2>1. cmd' \in Command \cup {None}
    BY <1>0, <1>2, <1>7, <1>8 DEF Idestart, Command, TypeOK
  <2>2. chan' \in [Proc -> ({"lock", "io"} \X Buf) \cup {None}]
    BY <1>0, <1>1 DEF TypeOK
  <2> QED  BY <1>0, <1>1, <1>2, <1>3, <1>9, <2>1, <2>2 DEF TypeOK
<1>11. Handed' /\ Counted' /\ OneBuffer'
  BY <1>0, <1>1, <1>3, SameUsers DEF Handed, OneBuffer
<1>12. Clean'
  <2> SUFFICES ASSUME NEW c \in valid', c \notin dirty' PROVE data'[c] = disk[blockno[c]]
    BY <1>3 DEF Clean
  <2>1. CASE c = b  BY <1>0, <1>1, <2>1 DEF TypeOK
  <2>2. CASE c # b  BY <1>0, <1>1, <1>9, <2>2 DEF Clean, TypeOK
  <2> QED  BY <2>1, <2>2
<1>13. \A c : Queued(c) /\ c # b => Queued(c)'
  BY <1>2, <1>4 DEF Queued
<1>14. Requests'
  <2>1. \A i, j \in DOMAIN queue' : queue'[i] = queue'[j] => i = j
    <3> SUFFICES ASSUME NEW i \in DOMAIN queue', NEW j \in DOMAIN queue', queue'[i] = queue'[j]
                 PROVE  i = j
      OBVIOUS
    <3>1. i + 1 = j + 1  BY <1>0, <1>2 DEF Requests
    <3>2. i \in Nat /\ j \in Nat  BY <1>2
    <3> QED  BY <3>1, <3>2
  <2>2. \A i \in DOMAIN queue' :
          /\ lock'[queue'[i]] # None /\ pc'[lock'[queue'[i]]] = "wait"
          /\ queue'[i] \in valid' => queue'[i] \in dirty'
    BY <1>0, <1>1, <1>2, <1>3, <1>5 DEF Requests
  <2>3. \A q \in Proc : pc[q] = "iderw" => buf[q] # b
    BY <1>0, <1>1, OwnBuffer DEF Holding
  <2>4. \A q \in Proc : pc'[q] = "iderw" => (buf'[q] \in valid' => buf'[q] \in dirty')
    BY <1>0, <1>1, <1>3, <2>3 DEF Requests
  <2>5. \A q \in Proc : pc[q] = "wait" => Queued(buf[q])' \/ buf[q] \in valid' \ dirty'
    <3> SUFFICES ASSUME NEW q \in Proc, pc[q] = "wait"
                 PROVE  Queued(buf[q])' \/ buf[q] \in valid' \ dirty'
      OBVIOUS
    <3>1. CASE buf[q] = b  BY <1>1, <3>1
    <3>2. CASE buf[q] # b
      <4>1. Queued(buf[q]) \/ buf[q] \in valid' \ dirty'  BY <1>0, <1>1, <3>2 DEF Requests
      <4>2. Queued(buf[q]) => Queued(buf[q])'  BY <1>2, <1>3, <1>4, <3>2 DEF Queued, b
      <4> QED  BY <4>1, <4>2
    <3> QED  BY <3>1, <3>2
  <2> QED  BY <1>3, <2>1, <2>2, <2>4, <2>5 DEF Requests
<1>15. Driven'
  <2>1. CASE queue' = <<>>  BY <1>2, <2>1 DEF Driven
  <2>2. CASE queue' # <<>>
    <3>1. cmd' = Idestart(queue'[1]) /\ cmd' \in Command
      BY <1>0, <1>2, <1>3, <1>7, <1>8, <1>9, <1>1, <2>2 DEF TypeOK, Idestart, Command
    <3>2. cmd' # None  BY <3>1 DEF Command
    <3>3. /\ cmd'.write <=> queue'[1] \in dirty
          /\ cmd'.block = blockno[queue'[1]] /\ cmd'.data = data[queue'[1]] /\ cmd'.done = FALSE
      BY <3>1 DEF Idestart
    <3> QED  BY <1>1, <1>3, <1>7, <1>9, <2>2, <3>2, <3>3 DEF Driven
  <2> QED  BY <2>1, <2>2
<1>16. Sleepers'
  <2> SUFFICES ASSUME NEW q \in Proc, chan'[q] # None
               PROVE  \/ pc[q] = "lock" /\ chan'[q] = <<"lock", buf[q]>> /\ lock[buf[q]] # None
                      \/ pc[q] = "wait" /\ chan'[q] = <<"io", buf[q]>> /\ Queued(buf[q])'
    BY <1>3 DEF Sleepers
  <2>1. chan'[q] = chan[q] /\ chan[q] # <<"io", b>>  BY <1>1
  <2>2. buf[q] # b /\ Queued(buf[q]) => Queued(buf[q])'
    BY <1>2, <1>3, <1>4 DEF Queued, b
  <2> QED  BY <1>0, <2>1, <2>2 DEF Sleepers
<1>17. Pinned'
  <2>1. Moving' = Moving  BY <1>3 DEF Moving
  <2> QED  BY <1>0, <1>1, <2>1, FewerPinned
<1> QED  BY <1>10, <1>11, <1>12, <1>14, <1>15, <1>16, <1>17 DEF IInv

LEMMA KeepKill ==
  ASSUME IInv, NEW p \in Proc, Kill(p) PROVE IInv'
<1> USE BcacheAssumption
<1>0. /\ TypeOK /\ Handed /\ Counted /\ OneBuffer /\ Clean
      /\ Requests /\ Driven /\ Sleepers /\ Pinned
  BY DEF IInv
<1>1. /\ chan' = [chan EXCEPT ![p] = None]
      /\ UNCHANGED <<blockno, refcnt, lru, valid, dirty, data, lock, queue, cmd, disk, pc, buf, panicked>>
  BY DEF Kill, cache, drive
<1>2. TypeOK'  BY <1>0, <1>1 DEF TypeOK
<1>3. Handed' /\ Counted' /\ OneBuffer' /\ Clean' /\ Requests' /\ Driven'
  BY <1>0, <1>1, SameUsers DEF Handed, OneBuffer, Clean, Requests, Driven, Queued
<1>4. Sleepers'  BY <1>0, <1>1 DEF Sleepers, Queued, TypeOK
<1>5. Pinned'
  <2>1. Moving' = Moving  BY <1>1 DEF Moving
  <2> QED  BY <1>0, <1>1, <2>1 DEF Pinned
<1> QED  BY <1>2, <1>3, <1>4, <1>5 DEF IInv

LEMMA KeepIInv == IInv /\ [Next]_vars => IInv'
<1> SUFFICES ASSUME IInv, [Next]_vars PROVE IInv'  OBVIOUS
<1>1. CASE DiskDone \/ Ideintr  BY <1>1, KeepDiskDone, KeepIdeintr
<1>2. ASSUME NEW p \in Proc, Kernel(p) PROVE IInv'
  BY <1>2, KeepAcquireSleep, KeepIderw, KeepIderwWait, KeepBrelse DEF Kernel
<1>3. ASSUME NEW p \in Proc, Caller(p) PROVE IInv'
  BY <1>3, KeepBgetHit, KeepBgetMiss, KeepBwrite, KeepLogWrite, KeepReleaseSleep DEF Caller
<1>4. ASSUME NEW p \in Proc, Kill(p) PROVE IInv'  BY <1>4, KeepKill
<1>5. CASE UNCHANGED vars
  <2>1. UNCHANGED <<blockno, refcnt, lru, valid, dirty, data, lock, queue, cmd, disk, pc, buf, chan, panicked>>
    BY <1>5 DEF vars, cache, drive
  <2>2. TypeOK' /\ Handed' /\ OneBuffer' /\ Clean' /\ Driven'
    BY <2>1 DEF IInv, TypeOK, Handed, OneBuffer, Clean, Driven
  <2>3. Requests' /\ Sleepers' /\ Pinned' /\ Counted'
    BY <2>1, SameUsers DEF IInv, Requests, Sleepers, Queued, Pinned, Moving
  <2> QED  BY <2>2, <2>3 DEF IInv
<1> QED  BY <1>1, <1>2, <1>3, <1>4, <1>5 DEF Next

\* The inductive invariant of the buffer cache holds in every reachable state.
THEOREM Invariance == Spec => []IInv
BY InitIInv, KeepIInv, PTL DEF Spec

-----------------------------------------------------------------------------
(* What follows from it.                                                   *)

LEMMA ImpliesCounted == IInv => CountedWhileUsed
<1> SUFFICES ASSUME IInv PROVE CountedWhileUsed  OBVIOUS
<1>0. TypeOK /\ Handed /\ Counted /\ Requests  BY DEF IInv
<1>1. \A b \in Buf : lock[b] # None => lock[b] \in Users(b)
  BY <1>0 DEF Handed, Users, TypeOK
<1>2. \A i \in DOMAIN queue : queue[i] \in Buf /\ lock[queue[i]] # None
  BY <1>0 DEF TypeOK, Requests
<1> QED  BY <1>0, <1>1, <1>2 DEF CountedWhileUsed, Counted, Requests, Handed

\* A buffer's count is the number of its users, and locks and requests belong
\* to users, however many or few buffers there are (bio.c:63-94, 127-142).
THEOREM BuffersCounted == Spec => []CountedWhileUsed
BY ImpliesCounted, Invariance, PTL

\* A process waits in iderw or acquiresleep only for what is still to come.
THEOREM NoSleepInVain == Spec => []NobodySleepsInVain
<1>1. IInv => NobodySleepsInVain
  <2> SUFFICES ASSUME IInv PROVE NobodySleepsInVain  OBVIOUS
  <2> USE BcacheAssumption
  <2>0. TypeOK /\ Sleepers /\ Driven  BY DEF IInv
  <2>1. ASSUME NEW p \in Proc, NEW b \in Buf
        PROVE  /\ chan[p] = <<"lock", b>> => lock[b] # None
               /\ chan[p] = <<"io", b>>   => \E i \in DOMAIN queue : queue[i] = b
    BY <2>0 DEF Sleepers, Queued
  <2>2. queue # <<>> => Head(queue) = queue[1]  BY <2>0 DEF TypeOK
  <2> QED  BY <2>0, <2>1, <2>2 DEF NobodySleepsInVain, Driven
<1> QED  BY <1>1, Invariance, PTL

\* With a buffer for each process and for each block that the log keeps in
\* the cache, bget finds one and does not panic (bio.c:93).  The kernel has
\* fewer: NBUF = LOGSIZE = 30, and NPROC = 64.
EnoughBuffers == Cardinality(Buf) >= Cardinality(Proc) + MaxPinned

LEMMA UnusedExists ==
  ASSUME IInv, EnoughBuffers, NEW p \in Proc, pc[p] = "out" PROVE Unused # {}
<1> USE BcacheAssumption
<1>0. TypeOK /\ Handed /\ Counted /\ Pinned  BY DEF IInv
<1> SUFFICES ASSUME Unused = {} PROVE FALSE  OBVIOUS
<1> DEFINE Others == {q \in Proc \ {p} : buf[q] # None}
           Held == {buf[q] : q \in Others}
           Rest == dirty \ Moving
<1>1. IsFiniteSet(Others) /\ Cardinality(Others) <= Cardinality(Proc) - 1
  <2>1. IsFiniteSet(Proc \ {p}) /\ Cardinality(Proc \ {p}) = Cardinality(Proc) - 1
    BY FS_RemoveElement
  <2> QED  BY <2>1, FS_Subset
<1>2. IsFiniteSet(Held) /\ Cardinality(Held) <= Cardinality(Others)
  <2>1. [q \in Others |-> buf[q]] \in Surjection(Others, Held)
    BY DEF Surjection
  <2> HIDE DEF Others, Held
  <2> QED  BY <1>1, <2>1, FS_Surjection
<1>3. IsFiniteSet(Rest)  BY <1>0, FS_Subset DEF TypeOK
<1>4. Buf \subseteq Held \cup Rest
  <2> SUFFICES ASSUME NEW b \in Buf, b \notin Held PROVE b \in Rest  OBVIOUS
  <2>1. \A q \in Proc : buf[q] # b  BY <1>0 DEF Handed
  <2>2. Users(b) = {}  BY <2>1 DEF Users
  <2>3. refcnt[b] = 0  BY <1>0, <2>2, FS_EmptySet DEF Counted
  <2> QED  BY <2>1, <2>3 DEF Unused, Moving
<1>5. /\ IsFiniteSet(Held \cup Rest)
      /\ Cardinality(Held \cup Rest) <= Cardinality(Held) + Cardinality(Rest)
  <2>1. Cardinality(Held \cup Rest) = Cardinality(Held) + Cardinality(Rest) - Cardinality(Held \cap Rest)
    BY <1>2, <1>3, FS_Union
  <2>2. IsFiniteSet(Held \cap Rest)  BY <1>2, FS_Subset
  <2>3. Cardinality(Held \cap Rest) \in Nat /\ Cardinality(Held) \in Nat /\ Cardinality(Rest) \in Nat
    BY <1>2, <1>3, <2>2, FS_CardinalityType
  <2>4. IsFiniteSet(Held \cup Rest)  BY <1>2, <1>3, FS_Union
  <2> HIDE DEF Others, Held, Rest
  <2> QED  BY <2>1, <2>3, <2>4
<1>6. Cardinality(Buf) <= Cardinality(Held \cup Rest)  BY <1>4, <1>5, FS_Subset
<1>7. /\ Cardinality(Buf) \in Nat /\ Cardinality(Held) \in Nat /\ Cardinality(Rest) \in Nat
      /\ Cardinality(Proc) \in Nat /\ Cardinality(Others) \in Nat
      /\ Cardinality(Held \cup Rest) \in Nat
  BY <1>1, <1>2, <1>3, <1>5, FS_CardinalityType
<1>8. Cardinality(Rest) <= MaxPinned  BY <1>0 DEF Pinned
<1> HIDE DEF Others, Held, Rest
<1> QED  BY <1>1, <1>2, <1>5, <1>6, <1>7, <1>8 DEF EnoughBuffers

LEMMA NeverFull == EnoughBuffers => (Spec => []~panicked)
<1> SUFFICES ASSUME EnoughBuffers PROVE Spec => []~panicked  OBVIOUS
<1>1. Init => ~panicked  BY DEF Init
<1>2. IInv /\ ~panicked /\ [Next]_vars => ~panicked'
  <2> SUFFICES ASSUME IInv, ~panicked, [Next]_vars PROVE ~panicked'  OBVIOUS
  <2>1. ASSUME NEW p \in Proc, NEW k \in Block, BgetMiss(p, k) PROVE ~panicked'
    BY <2>1, UnusedExists DEF BgetMiss, At
  <2>2. ASSUME NEW p \in Proc, Kernel(p) PROVE ~panicked'
    BY <2>2 DEF Kernel, AcquireSleep, Iderw, IderwWait, Brelse
  <2>3. ASSUME NEW p \in Proc, Caller(p) PROVE ~panicked'
    BY <2>1, <2>3 DEF Caller, BgetHit, Bwrite, LogWrite, ReleaseSleep
  <2> QED  BY <2>2, <2>3 DEF Next, DiskDone, Ideintr, Kill, vars
<1> QED  BY <1>1, <1>2, Invariance, PTL DEF Spec

-----------------------------------------------------------------------------
(* The cache implements a store of blocks.                                 *)

StoreOf == [k \in Block |-> IF Speaks(k) = {} THEN disk[k]
                            ELSE data[CHOOSE b \in Speaks(k) : TRUE]]
OwnerOf == [k \in Block |-> IF Speaks(k) = {} THEN None
                            ELSE lock[CHOOSE b \in Speaks(k) : TRUE]]

\* A block is what its buffer says, or else what the disk says.
Spoken ==
  /\ \A b \in valid : StoreOf[blockno[b]] = data[b] /\ OwnerOf[blockno[b]] = lock[b]
  /\ \A k \in Block : (\A b \in valid : blockno[b] # k) => StoreOf[k] = disk[k] /\ OwnerOf[k] = None

LEMMA SpokenOK == IInv => Spoken
<1> SUFFICES ASSUME IInv PROVE Spoken  OBVIOUS
<1>0. TypeOK /\ OneBuffer  BY DEF IInv
<1>1. ASSUME NEW b \in valid
      PROVE  StoreOf[blockno[b]] = data[b] /\ OwnerOf[blockno[b]] = lock[b]
  <2>1. blockno[b] \in Block /\ blockno[b] # None  BY <1>0, BcacheAssumption DEF OneBuffer
  <2>2. Speaks(blockno[b]) = {b}
    BY <1>0, <2>1 DEF Speaks, Cached, OneBuffer, TypeOK
  <2>3. (CHOOSE c \in {b} : TRUE) = b  OBVIOUS
  <2> QED  BY <2>1, <2>2, <2>3 DEF StoreOf, OwnerOf
<1>2. ASSUME NEW k \in Block, \A b \in valid : blockno[b] # k
      PROVE  StoreOf[k] = disk[k] /\ OwnerOf[k] = None
  <2>1. Speaks(k) = {}  BY <1>0, <1>2 DEF Speaks, Cached, TypeOK
  <2> QED  BY <2>1 DEF StoreOf, OwnerOf
<1> QED  BY <1>1, <1>2 DEF Spoken

LEMMA RefineInit == Init => Store!Init
<1> SUFFICES ASSUME Init PROVE Store!Init  OBVIOUS
<1>1. \A k \in Block : Speaks(k) = {}  BY DEF Init, Speaks
<1>2. StoreOf = disk /\ OwnerOf = [k \in Block |-> None]
  BY <1>1 DEF Init, StoreOf, OwnerOf
<1> QED  BY <1>2 DEF Init, Store!Init, StoreOf, OwnerOf

\* A function on blocks is known by its values.
LEMMA SameFcn ==
  ASSUME NEW f, NEW g, f = [k \in Block |-> f[k]], g = [k \in Block |-> g[k]],
         \A k \in Block : f[k] = g[k]
  PROVE  f = g
OBVIOUS

LEMMA StoreFcn ==
  /\ StoreOf = [k \in Block |-> StoreOf[k]] /\ OwnerOf = [k \in Block |-> OwnerOf[k]]
  /\ StoreOf' = [k \in Block |-> StoreOf'[k]] /\ OwnerOf' = [k \in Block |-> OwnerOf'[k]]
BY DEF StoreOf, OwnerOf

\* What a step must do to the speaking buffers to be each abstract step.
LEMMA ToStutter ==
  ASSUME \A k \in Block : StoreOf'[k] = StoreOf[k] /\ OwnerOf'[k] = OwnerOf[k]
  PROVE  UNCHANGED Store!vars
<1>1. StoreOf' = StoreOf /\ OwnerOf' = OwnerOf  BY StoreFcn, SameFcn
<1> QED  BY <1>1 DEF Store!vars, StoreOf, OwnerOf

LEMMA ToTake ==
  ASSUME NEW p \in Proc, NEW l \in Block, OwnerOf[l] = None, OwnerOf'[l] = p,
         \A k \in Block : StoreOf'[k] = StoreOf[k] /\ (k # l => OwnerOf'[k] = OwnerOf[k])
  PROVE  Store!Take(p, l)
<1>1. StoreOf' = StoreOf  BY StoreFcn, SameFcn
<1>2. OwnerOf' = [OwnerOf EXCEPT ![l] = p]
  <2>1. [OwnerOf EXCEPT ![l] = p] = [k \in Block |-> IF k = l THEN p ELSE OwnerOf[k]]
    BY StoreFcn
  <2> QED  BY <2>1, StoreFcn
<1> QED  BY <1>1, <1>2 DEF Store!Take, StoreOf, OwnerOf

LEMMA ToGiveBack ==
  ASSUME NEW p \in Proc, NEW l \in Block, OwnerOf[l] = p, OwnerOf'[l] = None,
         \A k \in Block : StoreOf'[k] = StoreOf[k] /\ (k # l => OwnerOf'[k] = OwnerOf[k])
  PROVE  Store!GiveBack(p, l)
<1>1. StoreOf' = StoreOf  BY StoreFcn, SameFcn
<1>2. OwnerOf' = [OwnerOf EXCEPT ![l] = None]
  <2>1. [OwnerOf EXCEPT ![l] = None] = [k \in Block |-> IF k = l THEN None ELSE OwnerOf[k]]
    BY StoreFcn
  <2> QED  BY <2>1, StoreFcn
<1> QED  BY <1>1, <1>2 DEF Store!GiveBack, StoreOf, OwnerOf

LEMMA ToModify ==
  ASSUME NEW p \in Proc, NEW l \in Block, NEW v \in Value, OwnerOf[l] = p, StoreOf'[l] = v,
         \A k \in Block : OwnerOf'[k] = OwnerOf[k] /\ (k # l => StoreOf'[k] = StoreOf[k])
  PROVE  Store!Modify(p, l, v)
<1>1. OwnerOf' = OwnerOf  BY StoreFcn, SameFcn
<1>2. StoreOf' = [StoreOf EXCEPT ![l] = v]
  <2>1. [StoreOf EXCEPT ![l] = v] = [k \in Block |-> IF k = l THEN v ELSE StoreOf[k]]
    BY StoreFcn
  <2> QED  BY <2>1, StoreFcn
<1> QED  BY <1>1, <1>2 DEF Store!Modify, StoreOf, OwnerOf

LEMMA SpokenBoth == IInv /\ IInv' => Spoken /\ Spoken'
BY SpokenOK, PTL

LEMMA ToSame ==
  ASSUME UNCHANGED <<blockno, valid, data, lock, disk>> PROVE UNCHANGED Store!vars
BY DEF Store!vars, Speaks, Cached

\* The recycled buffer was clean and nobody's: its block is as the disk has it.
LEMMA RefineBgetMiss ==
  ASSUME IInv, IInv', NEW p \in Proc, NEW k \in Block, BgetMiss(p, k)
  PROVE  UNCHANGED Store!vars
<1> USE BcacheAssumption
<1>0. TypeOK /\ Handed /\ Counted /\ OneBuffer /\ Clean /\ Spoken /\ Spoken'
  BY SpokenBoth DEF IInv
<1>1. CASE UNCHANGED <<cache, valid>>
  BY <1>1, ToSame DEF BgetMiss, cache
<1>2. ASSUME NEW b \in Unused, blockno' = [blockno EXCEPT ![b] = k], valid' = valid \ {b}
      PROVE  UNCHANGED Store!vars
  <2>1. UNCHANGED <<data, lock, disk>> /\ Cached(k) = {}  BY DEF BgetMiss
  <2>2. b \in Buf /\ b \notin dirty /\ lock[b] = None
    BY <1>0, UnusedFree DEF Unused
  <2>3. ASSUME NEW l \in Block
        PROVE  StoreOf'[l] = StoreOf[l] /\ OwnerOf'[l] = OwnerOf[l]
    <3>1. CASE \E c \in valid : c # b /\ blockno[c] = l
      BY <1>0, <1>2, <2>1, <3>1 DEF Spoken, TypeOK
    <3>2. CASE b \in valid /\ blockno[b] = l
      <4>1. \A c \in valid' : blockno'[c] # l
        BY <1>0, <1>2, <2>1, <2>2, <3>2 DEF OneBuffer, TypeOK, Cached
      <4>2. StoreOf'[l] = disk[l] /\ OwnerOf'[l] = None  BY <1>0, <2>1, <4>1 DEF Spoken
      <4>3. StoreOf[l] = data[b] /\ OwnerOf[l] = lock[b]  BY <1>0, <3>2 DEF Spoken
      <4>4. data[b] = disk[l]  BY <1>0, <2>2, <3>2 DEF Clean
      <4> QED  BY <2>2, <4>2, <4>3, <4>4
    <3>3. CASE \A c \in valid : blockno[c] # l
      <4>1. \A c \in valid' : blockno'[c] # l
        BY <1>0, <1>2, <2>2, <3>3 DEF TypeOK
      <4> QED  BY <1>0, <2>1, <3>3, <4>1 DEF Spoken
    <3> QED  BY <3>1, <3>2, <3>3
  <2> QED  BY <2>3, ToStutter
<1> QED
  <2>1. CASE Unused = {}  BY <1>1, <2>1 DEF BgetMiss
  <2>2. CASE Unused # {}
    <3>1. \E i \in DOMAIN lru : /\ lru[i] \in Unused
                                /\ blockno' = [blockno EXCEPT ![lru[i]] = k]
                                /\ valid' = valid \ {lru[i]}
      BY <2>2 DEF BgetMiss
    <3> QED  BY <1>2, <3>1
  <2> QED  BY <2>1, <2>2

\* What l's owner and contents become when only b's change.
LEMMA Elsewhere ==
  ASSUME IInv, IInv', NEW b \in Buf, NEW l \in Block, l # blockno[b],
         UNCHANGED <<blockno>>, valid' \cup {b} = valid \cup {b},
         \A c \in Buf : c # b => data'[c] = data[c] /\ lock'[c] = lock[c],
         disk'[l] = disk[l]
  PROVE  StoreOf'[l] = StoreOf[l] /\ OwnerOf'[l] = OwnerOf[l]
<1>0. Spoken /\ Spoken' /\ TypeOK  BY SpokenBoth DEF IInv
<1>1. ASSUME NEW c \in valid, blockno[c] = l
      PROVE  StoreOf'[l] = StoreOf[l] /\ OwnerOf'[l] = OwnerOf[l]
  <2>1. c \in Buf /\ c # b /\ c \in valid' /\ blockno'[c] = l  BY <1>0, <1>1 DEF TypeOK
  <2>2. StoreOf'[l] = data'[c] /\ OwnerOf'[l] = lock'[c]  BY <1>0, <2>1 DEF Spoken
  <2>3. StoreOf[l] = data[c] /\ OwnerOf[l] = lock[c]  BY <1>0, <1>1 DEF Spoken
  <2> QED  BY <2>1, <2>2, <2>3
<1>2. CASE \A c \in valid : blockno[c] # l
  <2>1. \A c \in valid' : blockno'[c] # l  BY <1>2
  <2> QED  BY <1>0, <1>2, <2>1 DEF Spoken
<1> QED  BY <1>1, <1>2

LEMMA RefineAcquireSleep ==
  ASSUME IInv, IInv', NEW p \in Proc, AcquireSleep(p) PROVE [Store!Next]_(Store!vars)
<1> USE BcacheAssumption
<1>0. TypeOK /\ Handed /\ OneBuffer /\ Spoken /\ Spoken'  BY SpokenBoth DEF IInv
<1> DEFINE b == buf[p]
           l == blockno[b]
<1>1. b \in Buf /\ l \in Block /\ UNCHANGED <<blockno, valid, data, disk>>
  BY <1>0, OfHolder DEF AcquireSleep, At, cache
<1>2. CASE lock[b] # None
  BY <1>1, <1>2, ToSame DEF AcquireSleep
<1>3. CASE lock[b] = None
  <2>1. lock' = [lock EXCEPT ![b] = p]  BY <1>3 DEF AcquireSleep
  <2> HIDE DEF b
  <2>2. \A k \in Block : k # l => StoreOf'[k] = StoreOf[k] /\ OwnerOf'[k] = OwnerOf[k]
    BY <1>0, <1>1, <2>1, Elsewhere DEF TypeOK
  <2>3. CASE b \in valid
    <3>1. /\ OwnerOf[l] = None /\ OwnerOf'[l] = p
          /\ StoreOf'[l] = StoreOf[l]
      BY <1>0, <1>1, <1>3, <2>1, <2>3 DEF Spoken, TypeOK
    <3>2. Store!Take(p, l)  BY <1>1, <2>2, <3>1, ToTake
    <3> QED  BY <1>1, <3>2 DEF Store!Next
  <2>4. CASE b \notin valid
    <3>1. \A c \in valid : blockno[c] # l
      BY <1>0, <1>1, <2>4 DEF OneBuffer, TypeOK
    <3>2. StoreOf'[l] = StoreOf[l] /\ OwnerOf'[l] = OwnerOf[l]
      BY <1>0, <1>1, <3>1 DEF Spoken
    <3> QED  BY <2>2, <3>2, ToStutter
  <2> QED  BY <2>3, <2>4
<1> QED  BY <1>2, <1>3

LEMMA RefineWrite ==
  ASSUME IInv, IInv', NEW p \in Proc, NEW v \in Value, Bwrite(p, v) \/ LogWrite(p, v)
  PROVE  Store!Next
<1>0. TypeOK /\ Handed /\ OneBuffer /\ Spoken /\ Spoken'  BY SpokenBoth DEF IInv
<1> DEFINE b == buf[p]
           l == blockno[b]
<1>1. /\ b \in valid /\ l \in Block /\ lock[b] = p /\ data' = [data EXCEPT ![b] = v]
      /\ UNCHANGED <<blockno, valid, lock, disk>>
  BY <1>0, OfHolder DEF Bwrite, LogWrite, At, cache, Handed, Holding
<1> HIDE DEF b
<1>2. \A k \in Block : k # l => StoreOf'[k] = StoreOf[k] /\ OwnerOf'[k] = OwnerOf[k]
  BY <1>0, <1>1, Elsewhere DEF TypeOK
<1>3. OwnerOf[l] = p /\ OwnerOf'[l] = p /\ StoreOf'[l] = v
  BY <1>0, <1>1 DEF Spoken, TypeOK
<1>4. Store!Modify(p, l, v)  BY <1>1, <1>2, <1>3, ToModify
<1> QED  BY <1>1, <1>4 DEF Store!Next

LEMMA RefineReleaseSleep ==
  ASSUME IInv, IInv', NEW p \in Proc, ReleaseSleep(p) PROVE Store!Next
<1>0. TypeOK /\ Handed /\ OneBuffer /\ Spoken /\ Spoken'  BY SpokenBoth DEF IInv
<1> DEFINE b == buf[p]
           l == blockno[b]
<1>1. /\ b \in valid /\ l \in Block /\ lock[b] = p /\ lock' = [lock EXCEPT ![b] = None]
      /\ UNCHANGED <<blockno, valid, data, disk>>
  BY <1>0, OfHolder DEF ReleaseSleep, At, cache, Handed, Holding
<1> HIDE DEF b
<1>2. \A k \in Block : k # l => StoreOf'[k] = StoreOf[k] /\ OwnerOf'[k] = OwnerOf[k]
  BY <1>0, <1>1, Elsewhere DEF TypeOK
<1>3. OwnerOf[l] = p /\ OwnerOf'[l] = None /\ StoreOf'[l] = StoreOf[l]
  BY <1>0, <1>1 DEF Spoken, TypeOK
<1>4. Store!GiveBack(p, l)  BY <1>1, <1>2, <1>3, ToGiveBack
<1> QED  BY <1>1, <1>4 DEF Store!Next

\* The disk changes a block that a dirty buffer speaks for.
LEMMA RefineDiskDone ==
  ASSUME IInv, IInv', DiskDone PROVE UNCHANGED Store!vars
<1>0. TypeOK /\ Requests /\ Driven /\ Spoken /\ Spoken'  BY SpokenBoth DEF IInv
<1>1. /\ cmd # None /\ UNCHANGED <<blockno, valid, data, lock>>
      /\ disk' = IF cmd.write THEN [disk EXCEPT ![cmd.block] = cmd.data] ELSE disk
  BY DEF DiskDone, cache
<1>2. cmd.write => \E b \in valid : blockno[b] = cmd.block
  BY <1>0, <1>1 DEF Driven, TypeOK
<1>3. ASSUME NEW l \in Block PROVE StoreOf'[l] = StoreOf[l] /\ OwnerOf'[l] = OwnerOf[l]
  <2>1. CASE \E b \in valid : blockno[b] = l  BY <1>0, <1>1, <2>1 DEF Spoken
  <2>2. CASE \A b \in valid : blockno[b] # l
    <3>1. disk'[l] = disk[l]  BY <1>0, <1>1, <1>2, <2>2 DEF TypeOK
    <3> QED  BY <1>0, <1>1, <2>2, <3>1 DEF Spoken
  <2> QED  BY <2>1, <2>2
<1> QED  BY <1>3, ToStutter

\* A read that is done gives the block to the process that waits for it.
LEMMA RefineIdeintr ==
  ASSUME IInv, IInv', Ideintr PROVE [Store!Next]_(Store!vars)
<1> USE BcacheAssumption
<1>0. TypeOK /\ OneBuffer /\ Spoken /\ Spoken'  BY SpokenBoth DEF IInv
<1> DEFINE b == queue[1]
           l == blockno[b]
           h == lock[b]
<1>1. /\ b \in Buf /\ l \in Block /\ h \in Proc /\ h # None
      /\ cmd.data = disk[l] /\ (b \in valid => b \in dirty)
      /\ data' = IF b \in dirty THEN data ELSE [data EXCEPT ![b] = cmd.data]
      /\ valid' = valid \cup {b}
      /\ UNCHANGED <<blockno, lock, disk>>
  BY IdeintrFacts
<1> HIDE DEF b, h
<1>2. \A k \in Block : k # l => StoreOf'[k] = StoreOf[k] /\ OwnerOf'[k] = OwnerOf[k]
  BY <1>0, <1>1, Elsewhere DEF TypeOK
<1>3. CASE b \in valid
  <2>1. StoreOf'[l] = StoreOf[l] /\ OwnerOf'[l] = OwnerOf[l]
    BY <1>0, <1>1, <1>3 DEF Spoken
  <2> QED  BY <1>2, <2>1, ToStutter
<1>4. CASE b \notin valid
  <2>1. \A c \in valid : blockno[c] # l  BY <1>0, <1>1, <1>4 DEF OneBuffer, TypeOK
  <2>2. StoreOf[l] = disk[l] /\ OwnerOf[l] = None  BY <1>0, <1>1, <2>1 DEF Spoken
  <2>3. b \notin dirty  BY <1>0, <1>4 DEF TypeOK
  <2>4. StoreOf'[l] = disk[l] /\ OwnerOf'[l] = h
    BY <1>0, <1>1, <2>3 DEF Spoken, TypeOK, h
  <2>5. Store!Take(h, l)  BY <1>1, <1>2, <2>2, <2>4, ToTake
  <2> QED  BY <1>1, <2>5 DEF Store!Next
<1> QED  BY <1>3, <1>4

\* The buffer cache implements BlockStore: whatever is cached, recycled, queued
\* or in flight, callers of bread, bwrite and brelse see one copy of every
\* block, in one process's hands at a time (bio.c:5-8).
THEOREM Refinement == Spec => ImplementsBlockStore
<1>1. ASSUME IInv, IInv', [Next]_vars PROVE [Store!Next]_(Store!vars)
  <2>1. CASE DiskDone  BY <1>1, <2>1, RefineDiskDone
  <2>2. CASE Ideintr  BY <1>1, <2>2, RefineIdeintr
  <2>3. ASSUME NEW p \in Proc, Kernel(p) PROVE [Store!Next]_(Store!vars)
    <3>1. CASE AcquireSleep(p)  BY <1>1, <3>1, RefineAcquireSleep
    <3>2. CASE Iderw(p) \/ IderwWait(p) \/ Brelse(p)
      BY <3>2, ToSame DEF Iderw, IderwWait, Brelse, cache
    <3> QED  BY <2>3, <3>1, <3>2 DEF Kernel
  <2>4. ASSUME NEW p \in Proc, Caller(p) PROVE [Store!Next]_(Store!vars)
    <3>1. ASSUME NEW k \in Block, BgetHit(p, k) PROVE UNCHANGED Store!vars
      BY <3>1, ToSame DEF BgetHit
    <3>2. ASSUME NEW k \in Block, BgetMiss(p, k) PROVE UNCHANGED Store!vars
      BY <1>1, <3>2, RefineBgetMiss
    <3>3. ASSUME NEW v \in Value, Bwrite(p, v) \/ LogWrite(p, v) PROVE Store!Next
      BY <1>1, <3>3, RefineWrite
    <3>4. CASE ReleaseSleep(p)  BY <1>1, <3>4, RefineReleaseSleep
    <3> QED  BY <2>4, <3>1, <3>2, <3>3, <3>4 DEF Caller
  <2>5. ASSUME NEW p \in Proc, Kill(p) PROVE UNCHANGED Store!vars
    BY <2>5, ToSame DEF Kill, cache
  <2>6. CASE UNCHANGED vars  BY <2>6, ToSame DEF vars, cache
  <2> QED  BY <1>1, <2>1, <2>2, <2>3, <2>4, <2>5, <2>6 DEF Next
<1>2. Spec => Store!Init /\ [][Store!Next]_(Store!vars)
  BY <1>1, RefineInit, Invariance, PTL DEF Spec
<1> QED  BY <1>2 DEF ImplementsBlockStore, Store!Spec
=============================================================================
