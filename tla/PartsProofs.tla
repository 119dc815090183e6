---------------------------- MODULE PartsProofs ----------------------------
(***************************************************************************)
(* Proofs about smaller modules, for all values of their constants.        *)
(*                                                                         *)
(* The reader-writer locks (RWLock): in both files writers exclude each    *)
(* other; in rwlock-reader-pref.cpp they exclude readers as well.          *)
(*                                                                         *)
(* The job table of the shell (Shell): exit kills nobody else's processes. *)
(*                                                                         *)
(* The blocks of files (Blocks): none has two owners, and a transaction    *)
(* fits what is reserved for it.                                           *)
(*                                                                         *)
(* Spin locks, interrupts and switches between processes (Spinlock):       *)
(* interrupts are off and on where they should be.                         *)
(*                                                                         *)
(* A cache of the simulator (ChampCache): each load is answered once.      *)
(*                                                                         *)
(* The link over sound (Csma): what is reported as sent was received.      *)
(***************************************************************************)
EXTENDS RWLock, Sequences, FiniteSetTheorems, TLAPS

-----------------------------------------------------------------------------
(* The reader-writer locks.                                                *)

\* Where a thread holds the mutex, and where its readers and writers count.
HoldPcs  == {"r_inc", "r_dec", "r_check", "w_count", "w_check", "writing"}
ReadPcs  == {"reading", "r_dec"}
WritePcs == {"w_read", "w_writ", "w_again", "w_check", "writing"}

\* A thread holds the mutex exactly where the code says so.
Mutexed == \A t \in Thread : pc[t] \in HoldPcs <=> mutex = t

WritersCounted == numWrit = Cardinality(Writing)

\* In rwlock-reader-pref.cpp the count of readers is right, and a writer
\* that is in came in when there was none.
ReadersCounted ==
  pref = "reader" => /\ numRead = Cardinality(Reading)
                     /\ \A t \in Thread : pc[t] = "writing" => Reading = {}

IInv == TypeOK /\ Mutexed /\ WritersCounted /\ ReadersCounted

\* 1 for a member, 0 for another.
In(x, S) == IF x \in S THEN 1 ELSE 0

LEMMA SetsFinite ==
  /\ IsFiniteSet(Reading) /\ Cardinality(Reading) \in Nat
  /\ IsFiniteSet(Writing) /\ Cardinality(Writing) \in Nat
<1>1. Reading \subseteq Thread /\ Writing \subseteq Thread  BY DEF Reading, Writing
<1> QED  BY <1>1, RWLockAssumption, FS_Subset, FS_CardinalityType

\* When t moves, only t enters or leaves the set of those who read, and the
\* set of those who write.
LEMMA Moves ==
  ASSUME TypeOK, NEW t \in Thread, NEW l \in Pcs, Goto(t, l)
  PROVE  /\ pc' \in [Thread -> Pcs] /\ pc'[t] = l
         /\ \A u \in Thread : u # t => pc'[u] = pc[u]
         /\ Cardinality(Reading') =
              Cardinality(Reading) + In(l, ReadPcs) - In(pc[t], ReadPcs)
         /\ Cardinality(Writing') =
              Cardinality(Writing) + In(l, WritePcs) - In(pc[t], WritePcs)
<1>1. /\ pc' \in [Thread -> Pcs] /\ pc'[t] = l
      /\ \A u \in Thread : u # t => pc'[u] = pc[u]
  BY DEF TypeOK, Goto
<1>2. ASSUME NEW S, NEW T, NEW P, NEW k, IsFiniteSet(S), T \ {t} = S \ {t},
             (l \in P) = (t \in T), (k \in P) = (t \in S)
      PROVE  Cardinality(T) = Cardinality(S) + In(l, P) - In(k, P)
  <2>1. IsFiniteSet(S \ {t})  BY <1>2, FS_RemoveElement
  <2>2. Cardinality(S) \in Nat /\ Cardinality(S \ {t}) \in Nat
    BY <1>2, <2>1, FS_CardinalityType
  <2>0. In(k, P) = IF t \in S THEN 1 ELSE 0  BY <1>2 DEF In
  <2>3. Cardinality(S) = Cardinality(S \ {t}) + In(k, P)
    <3>1. CASE t \in S
      <4>1. Cardinality(S \ {t}) = Cardinality(S) - 1  BY <3>1, <1>2, FS_RemoveElement
      <4> QED  BY <3>1, <4>1, <2>0, <2>2
    <3>2. CASE t \notin S
      <4>1. S \ {t} = S  BY <3>2
      <4> QED  BY <3>2, <4>1, <2>0, <2>2
    <3> QED  BY <3>1, <3>2
  <2>4. Cardinality(T) = Cardinality(S \ {t}) + In(l, P)
    <3>1. CASE t \in T
      <4>1. T = (S \ {t}) \cup {t}  BY <3>1, <1>2
      <4> QED  BY <3>1, <4>1, <1>2, <2>1, <2>2, FS_AddElement DEF In
    <3>2. CASE t \notin T
      <4>1. T = S \ {t}  BY <3>2, <1>2
      <4> QED  BY <3>2, <4>1, <1>2, <2>2 DEF In
    <3> QED  BY <3>1, <3>2
  <2> QED  BY <2>2, <2>3, <2>4 DEF In
<1>3. Cardinality(Reading') =
        Cardinality(Reading) + In(l, ReadPcs) - In(pc[t], ReadPcs)
  <2>1. /\ (l \in ReadPcs) = (t \in Reading')
        /\ (pc[t] \in ReadPcs) = (t \in Reading)
        /\ Reading' \ {t} = Reading \ {t}
    BY <1>1 DEF Reading, ReadPcs
  <2> HIDE DEF ReadPcs, WritePcs
  <2> QED  BY <2>1, <1>2, SetsFinite
<1>4. Cardinality(Writing') =
        Cardinality(Writing) + In(l, WritePcs) - In(pc[t], WritePcs)
  <2>1. /\ (l \in WritePcs) = (t \in Writing')
        /\ (pc[t] \in WritePcs) = (t \in Writing)
        /\ Writing' \ {t} = Writing \ {t}
    BY <1>1 DEF Writing, WritePcs
  <2> HIDE DEF ReadPcs, WritePcs
  <2> QED  BY <2>1, <1>2, SetsFinite
<1> QED  BY <1>1, <1>3, <1>4

LEMMA InitIInv == Init => IInv
<1> SUFFICES ASSUME Init PROVE IInv  OBVIOUS
<1>1. Reading = {} /\ Writing = {}  BY DEF Init, Reading, Writing
<1>2. Cardinality({}) = 0  BY FS_EmptySet
<1>3. TypeOK  BY DEF Init, TypeOK, Pcs
<1>4. Mutexed  BY RWLockAssumption DEF Init, Mutexed, HoldPcs
<1>5. WritersCounted /\ ReadersCounted
  BY <1>1, <1>2 DEF Init, WritersCounted, ReadersCounted
<1> QED  BY <1>3, <1>4, <1>5 DEF IInv

-----------------------------------------------------------------------------
(* One lemma per operation: the invariant is preserved.                    *)

\* A writer that waits, or that is in, is counted.
LEMMA WaiterCounted ==
  ASSUME IInv, NEW t \in Thread, pc[t] \in WritePcs
  PROVE  numWrit > 0
<1>1. t \in Writing  BY DEF Writing, WritePcs
<1>2. Cardinality(Writing) # 0  BY <1>1, SetsFinite, FS_EmptySet
<1> QED  BY <1>2, SetsFinite DEF IInv, WritersCounted

\* Moves that change neither counter nor the mutex.
LEMMA QuietMove ==
  ASSUME IInv, UNCHANGED pref, NEW t \in Thread, NEW l \in Pcs, Goto(t, l),
         UNCHANGED <<mutex, numRead, numWrit>>, reg' \in [Thread -> Int],
         (l \in HoldPcs) = (pc[t] \in HoldPcs), (l \in WritePcs) = (pc[t] \in WritePcs),
         pref = "reader" => (l \in ReadPcs) = (pc[t] \in ReadPcs),
         l # "writing"
  PROVE  IInv'
<1> USE DEF IInv
<1>1. /\ pc' \in [Thread -> Pcs] /\ pc'[t] = l
      /\ \A u \in Thread : u # t => pc'[u] = pc[u]
      /\ Cardinality(Reading') = Cardinality(Reading) + In(l, ReadPcs) - In(pc[t], ReadPcs)
      /\ Cardinality(Writing') = Cardinality(Writing) + In(l, WritePcs) - In(pc[t], WritePcs)
  BY Moves
<1>2. TypeOK'  BY <1>1 DEF TypeOK
<1>3. Mutexed'  BY <1>1 DEF Mutexed
<1>4. WritersCounted'  BY <1>1, SetsFinite DEF WritersCounted, In
<1>5. ReadersCounted'
  <2> SUFFICES ASSUME pref = "reader" PROVE ReadersCounted'  BY DEF ReadersCounted
  <2>1. Reading' = Reading  BY <1>1 DEF Reading, ReadPcs
  <2>2. \A u \in Thread : pc'[u] = "writing" => pc[u] = "writing"  BY <1>1
  <2> QED  BY <2>1, <2>2 DEF ReadersCounted
<1> QED  BY <1>2, <1>3, <1>4, <1>5

LEMMA CallInv == ASSUME IInv, UNCHANGED pref, NEW t \in Thread, Call(t) PROVE IInv'
<1>1. pc[t] = "idle" /\ \E l \in {"r_lock", "w_lock"} : Goto(t, l)  BY DEF Call, At
<1>2. UNCHANGED <<mutex, numRead, numWrit, reg>> /\ reg \in [Thread -> Int]
  BY DEF Call, IInv, TypeOK
<1>3. PICK l \in {"r_lock", "w_lock"} : Goto(t, l)  BY <1>1
<1>4. /\ l \in Pcs /\ l # "writing"
      /\ (l \in HoldPcs) = (pc[t] \in HoldPcs)
      /\ (l \in WritePcs) = (pc[t] \in WritePcs)
      /\ (l \in ReadPcs) = (pc[t] \in ReadPcs)
  BY <1>1, <1>3 DEF Pcs, HoldPcs, WritePcs, ReadPcs
<1> QED  BY <1>2, <1>3, <1>4, QuietMove

\* Taking the mutex, where the thread counts as before.
LEMMA ThenLockInv ==
  ASSUME IInv, UNCHANGED pref, NEW t \in Thread, NEW from \in Pcs, NEW to \in HoldPcs \ {"writing"},
         from \notin HoldPcs, ThenLock(t, from, to),
         (to \in ReadPcs) = (from \in ReadPcs), (to \in WritePcs) = (from \in WritePcs)
  PROVE  IInv'
<1> USE DEF IInv
<1>0. /\ pc[t] = from /\ Goto(t, to) /\ to \in Pcs /\ mutex = None /\ mutex' = t
      /\ UNCHANGED <<numRead, numWrit, reg>>
  BY DEF ThenLock, At, Lock, HoldPcs, Pcs
<1>1. /\ pc' \in [Thread -> Pcs] /\ pc'[t] = to
      /\ \A u \in Thread : u # t => pc'[u] = pc[u]
      /\ Cardinality(Reading') = Cardinality(Reading) + In(to, ReadPcs) - In(pc[t], ReadPcs)
      /\ Cardinality(Writing') = Cardinality(Writing) + In(to, WritePcs) - In(pc[t], WritePcs)
  BY <1>0, Moves
<1>2. TypeOK'  BY <1>0, <1>1 DEF TypeOK
<1>3. Mutexed'  BY <1>0, <1>1, RWLockAssumption DEF Mutexed
<1>4. WritersCounted'  BY <1>0, <1>1, SetsFinite DEF WritersCounted, In
<1>5. ReadersCounted'
  <2>1. Reading' = Reading  BY <1>0, <1>1 DEF Reading, ReadPcs
  <2>2. \A u \in Thread : pc'[u] = "writing" => pc[u] = "writing"  BY <1>0, <1>1
  <2> QED  BY <1>0, <2>1, <2>2 DEF ReadersCounted
<1> QED  BY <1>2, <1>3, <1>4, <1>5

\* Entering with the mutex, or giving it back to wait.
LEMMA WriterEnterInv ==
  ASSUME IInv, UNCHANGED pref, NEW t \in Thread, pc[t] \in {"w_count", "w_check"}, WriterEnter(t),
         numWrit' = numWrit + (IF pc[t] = "w_count" THEN 1 ELSE 0),
         UNCHANGED <<numRead, reg>>
  PROVE  IInv'
<1> USE DEF IInv
<1>0. PICK l \in {"w_read", "writing"} :
        /\ Goto(t, l)
        /\ numRead > 0 => l = "w_read" /\ mutex' = None
        /\ ~(numRead > 0) => l = "writing" /\ mutex' = mutex
  BY DEF WriterEnter, Unlock
<1>1. /\ pc' \in [Thread -> Pcs] /\ pc'[t] = l
      /\ \A u \in Thread : u # t => pc'[u] = pc[u]
      /\ Cardinality(Reading') = Cardinality(Reading) + In(l, ReadPcs) - In(pc[t], ReadPcs)
      /\ Cardinality(Writing') = Cardinality(Writing) + In(l, WritePcs) - In(pc[t], WritePcs)
  <2>1. l \in Pcs  BY DEF Pcs
  <2> QED  BY <1>0, <2>1, Moves
<1>2. TypeOK'  BY <1>0, <1>1 DEF TypeOK
<1>3. mutex = t  BY DEF Mutexed, HoldPcs
<1>4. Mutexed'  BY <1>0, <1>1, <1>3, RWLockAssumption DEF Mutexed, HoldPcs
<1>5. WritersCounted'
  <2>1. In(l, WritePcs) = 1 /\ In(pc[t], WritePcs) = IF pc[t] = "w_count" THEN 0 ELSE 1
    BY DEF In, WritePcs
  <2> QED  BY <1>1, <2>1, SetsFinite DEF WritersCounted
<1>6. ReadersCounted'
  <2> SUFFICES ASSUME pref = "reader" PROVE ReadersCounted'  BY DEF ReadersCounted
  <2>1. Reading' = Reading  BY <1>1 DEF Reading, ReadPcs
  <2>2. \A u \in Thread : u # t => pc'[u] # "writing"
    BY <1>1, <1>3 DEF Mutexed, HoldPcs
  <2>3. l = "writing" => Reading = {}
    <3>1. l = "writing" => Cardinality(Reading) = 0
      BY <1>0, SetsFinite DEF ReadersCounted, TypeOK
    <3> QED  BY <3>1, SetsFinite, FS_EmptySet
  <2> QED  BY <1>1, <2>1, <2>2, <2>3 DEF ReadersCounted
<1> QED  BY <1>2, <1>4, <1>5, <1>6

LEMMA WriterLockInv == ASSUME IInv, UNCHANGED pref, NEW t \in Thread, WriterLock(t) PROVE IInv'
<1>1. CASE ThenLock(t, "w_lock", "w_count")
  BY <1>1, ThenLockInv DEF Pcs, HoldPcs, ReadPcs, WritePcs
<1>2. CASE WriterCount(t)  BY <1>2, WriterEnterInv DEF WriterCount, At
<1>3. CASE /\ At(t, "w_read")
           /\ Goto(t, IF numRead > 0 THEN "w_again" ELSE "w_writ")
           /\ UNCHANGED <<mutex, numRead, numWrit, reg>>
  <2>1. PICK l \in {"w_again", "w_writ"} : Goto(t, l)  BY <1>3
  <2>2. pc[t] = "w_read"  BY <1>3 DEF At
  <2> QED
    BY <1>3, <2>1, <2>2, QuietMove DEF Pcs, HoldPcs, ReadPcs, WritePcs, IInv, TypeOK
<1>4. CASE /\ At(t, "w_writ")
           /\ Goto(t, IF numWrit > 0 THEN "w_again" ELSE "writing")
           /\ UNCHANGED <<mutex, numRead, numWrit, reg>>
  <2>1. pc[t] = "w_writ"  BY <1>4 DEF At
  <2>2. Goto(t, "w_again")
    <3>1. numWrit > 0  BY <2>1, WaiterCounted DEF WritePcs
    <3> QED  BY <1>4, <3>1
  <2> QED
    BY <1>4, <2>1, <2>2, QuietMove DEF Pcs, HoldPcs, ReadPcs, WritePcs, IInv, TypeOK
<1>5. CASE ThenLock(t, "w_again", "w_check")
  BY <1>5, ThenLockInv DEF Pcs, HoldPcs, ReadPcs, WritePcs
<1>6. CASE At(t, "w_check") /\ WriterEnter(t) /\ UNCHANGED <<numRead, numWrit, reg>>
  BY <1>6, WriterEnterInv DEF At, IInv, TypeOK
<1> QED  BY <1>1, <1>2, <1>3, <1>4, <1>5, <1>6 DEF WriterLock

\* Releasing the mutex: a reader that has counted itself in or out, a
\* writer that leaves, a reader of the other file that goes on without it.
LEMMA UnlockInv ==
  ASSUME IInv, UNCHANGED pref, NEW t \in Thread, NEW l \in Pcs \ HoldPcs, Goto(t, l),
         pc[t] \in HoldPcs, mutex' = None, UNCHANGED reg,
         numRead' \in Int,
         pref = "reader" => numRead' = numRead + In(l, ReadPcs) - In(pc[t], ReadPcs),
         numWrit' = numWrit + In(l, WritePcs) - In(pc[t], WritePcs)
  PROVE  IInv'
<1> USE DEF IInv
<1>1. /\ pc' \in [Thread -> Pcs] /\ pc'[t] = l
      /\ \A u \in Thread : u # t => pc'[u] = pc[u]
      /\ Cardinality(Reading') = Cardinality(Reading) + In(l, ReadPcs) - In(pc[t], ReadPcs)
      /\ Cardinality(Writing') = Cardinality(Writing) + In(l, WritePcs) - In(pc[t], WritePcs)
  BY Moves
<1>2. mutex = t  BY DEF Mutexed
<1>3. Mutexed'  BY <1>1, <1>2, RWLockAssumption DEF Mutexed
<1>4. WritersCounted'  BY <1>1 DEF WritersCounted
<1>5. \A u \in Thread : pc'[u] # "writing"
  BY <1>1, <1>2 DEF Mutexed, HoldPcs
<1>6. ReadersCounted'  BY <1>1, <1>5 DEF ReadersCounted
<1>7. IsFiniteSet(Reading') /\ Cardinality(Reading') \in Nat
      /\ IsFiniteSet(Writing') /\ Cardinality(Writing') \in Nat
  <2>1. Reading' \subseteq Thread /\ Writing' \subseteq Thread  BY DEF Reading, Writing
  <2> QED  BY <2>1, RWLockAssumption, FS_Subset, FS_CardinalityType
<1>8. TypeOK'
  BY <1>1, <1>4, <1>6, <1>7 DEF TypeOK, WritersCounted, ReadersCounted
<1> QED  BY <1>3, <1>4, <1>6, <1>8

LEMMA WriterUnlockInv == ASSUME IInv, UNCHANGED pref, NEW t \in Thread, WriterUnlock(t) PROVE IInv'
<1>1. /\ pc[t] = "writing" /\ Goto(t, "idle") /\ mutex' = None
      /\ numWrit' = numWrit - 1 /\ UNCHANGED <<numRead, reg>>
  BY DEF WriterUnlock, At, Unlock
<1>2. numRead \in Int /\ numWrit \in Int  BY DEF IInv, TypeOK
<1> QED  BY <1>1, <1>2, UnlockInv DEF Pcs, HoldPcs, ReadPcs, WritePcs, In

LEMMA ReaderLockInv == ASSUME IInv, UNCHANGED pref, NEW t \in Thread, ReaderLock(t) PROVE IInv'
<1>1. CASE ThenLock(t, "r_lock", "r_inc")
  BY <1>1, ThenLockInv DEF Pcs, HoldPcs, ReadPcs, WritePcs
<1>2. CASE /\ pc[t] = "r_inc" /\ Goto(t, "reading") /\ mutex' = None
           /\ numRead' = numRead + 1 /\ UNCHANGED <<numWrit, reg>>
  <2>1. numRead \in Int /\ numWrit \in Int  BY DEF IInv, TypeOK
  <2> QED  BY <1>2, <2>1, UnlockInv DEF Pcs, HoldPcs, ReadPcs, WritePcs, In
<1> QED  BY <1>1, <1>2 DEF ReaderLock, At, Unlock

LEMMA ReaderUnlockInv == ASSUME IInv, UNCHANGED pref, NEW t \in Thread, ReaderUnlock(t) PROVE IInv'
<1>1. CASE ThenLock(t, "reading", "r_dec")
  BY <1>1, ThenLockInv DEF Pcs, HoldPcs, ReadPcs, WritePcs
<1>2. CASE /\ pc[t] = "r_dec" /\ Goto(t, "idle") /\ mutex' = None
           /\ numRead' = numRead - 1 /\ UNCHANGED <<numWrit, reg>>
  <2>1. numRead \in Int /\ numWrit \in Int  BY DEF IInv, TypeOK
  <2> QED  BY <1>2, <2>1, UnlockInv DEF Pcs, HoldPcs, ReadPcs, WritePcs, In
<1> QED  BY <1>1, <1>2 DEF ReaderUnlock, At, Unlock

\* In rwlock-writer-pref.cpp readers touch numRead as they like, which
\* nothing below speaks of.
LEMMA OtherReaderStep ==
  ASSUME IInv, UNCHANGED pref, pref = "writer", NEW t \in Thread, NEW l \in Pcs \ HoldPcs, Goto(t, l),
         pc[t] \notin HoldPcs, l \notin WritePcs, pc[t] \notin WritePcs,
         UNCHANGED <<mutex, numWrit>>, numRead' \in Int, reg' \in [Thread -> Int]
  PROVE  IInv'
<1> USE DEF IInv
<1>1. /\ pc' \in [Thread -> Pcs] /\ pc'[t] = l
      /\ \A u \in Thread : u # t => pc'[u] = pc[u]
      /\ Cardinality(Writing') = Cardinality(Writing) + In(l, WritePcs) - In(pc[t], WritePcs)
  BY Moves
<1>2. TypeOK'  BY <1>1 DEF TypeOK
<1>3. Mutexed'  BY <1>1 DEF Mutexed
<1>4. WritersCounted'  BY <1>1, SetsFinite DEF WritersCounted, In
<1>5. ReadersCounted'  BY DEF ReadersCounted
<1> QED  BY <1>2, <1>3, <1>4, <1>5

LEMMA WPReaderLockInv == ASSUME IInv, UNCHANGED pref, NEW t \in Thread, WPReaderLock(t) PROVE IInv'
<1>0. pref = "writer" /\ numRead \in Int /\ numWrit \in Int /\ reg \in [Thread -> Int]
  BY DEF WPReaderLock, IInv, TypeOK
<1>1. CASE ThenLock(t, "r_lock", "r_check")
  BY <1>1, ThenLockInv DEF Pcs, HoldPcs, ReadPcs, WritePcs
<1>2. CASE At(t, "r_check") /\ Unlock(t) /\ UNCHANGED <<numRead, numWrit, reg>>
           /\ Goto(t, IF numWrit > 0 THEN "r_spin" ELSE "r_load")
  <2>1. PICK l \in {"r_spin", "r_load"} : Goto(t, l)  BY <1>2
  <2> QED
    BY <1>0, <1>2, <2>1, UnlockInv DEF At, Unlock, Pcs, HoldPcs, ReadPcs, WritePcs, In
<1>3. ASSUME NEW l \in {"r_load", "r_store", "reading"}, Goto(t, l),
             pc[t] \in {"r_spin", "r_load", "r_store"}, UNCHANGED <<mutex, numWrit>>,
             numRead' \in Int, reg' \in [Thread -> Int]
      PROVE  IInv'
  BY <1>0, <1>3, OtherReaderStep DEF Pcs, HoldPcs, WritePcs
<1> QED  BY <1>0, <1>1, <1>2, <1>3 DEF WPReaderLock, At

LEMMA WPReaderUnlockInv == ASSUME IInv, UNCHANGED pref, NEW t \in Thread, WPReaderUnlock(t) PROVE IInv'
<1>0. pref = "writer" /\ numRead \in Int /\ numWrit \in Int /\ reg \in [Thread -> Int]
  BY DEF WPReaderUnlock, IInv, TypeOK
<1>1. ASSUME NEW l \in {"r_leave", "idle"}, Goto(t, l), pc[t] \in {"reading", "r_leave"},
             UNCHANGED <<mutex, numWrit>>, numRead' \in Int, reg' \in [Thread -> Int]
      PROVE  IInv'
  BY <1>0, <1>1, OtherReaderStep DEF Pcs, HoldPcs, WritePcs
<1> QED  BY <1>0, <1>1 DEF WPReaderUnlock, At

-----------------------------------------------------------------------------

LEMMA NextInv == IInv /\ [Next]_vars => IInv'
<1> SUFFICES ASSUME IInv, [Next]_vars PROVE IInv'  OBVIOUS
<1>1. CASE UNCHANGED vars
  BY <1>1 DEF vars, IInv, TypeOK, Mutexed, WritersCounted, ReadersCounted, Reading, Writing
<1>2. ASSUME UNCHANGED pref, NEW t \in Thread,
             \/ Call(t) \/ WriterLock(t) \/ WriterUnlock(t)
             \/ ReaderLock(t) \/ ReaderUnlock(t)
             \/ WPReaderLock(t) \/ WPReaderUnlock(t)
      PROVE  IInv'
  BY <1>2, CallInv, WriterLockInv, WriterUnlockInv, ReaderLockInv, ReaderUnlockInv,
     WPReaderLockInv, WPReaderUnlockInv
<1> QED  BY <1>1, <1>2 DEF Next

THEOREM Invariance == Spec => []IInv
BY InitIInv, NextInv, PTL DEF Spec

\* Types, and counters that never go negative where they must not.
THEOREM TypeCorrect == Spec => []TypeOK
<1>1. IInv => TypeOK  BY DEF IInv
<1> QED  BY <1>1, Invariance, PTL

\* In both files at most one writer is in: one that enters holds the mutex,
\* and the loop of WriterLock never ends by its condition, because the
\* waiting writer itself is counted in numWrit.
THEOREM OneWriter == Spec => []WritersExclude
<1>1. IInv => WritersExclude  BY DEF IInv, Mutexed, HoldPcs, WritersExclude
<1> QED  BY <1>1, Invariance, PTL

\* rwlock-reader-pref.cpp: no reader is in together with a writer.
THEOREM ReaderPrefExcludes == Spec => []ReadersExcluded
<1>1. IInv => ReadersExcluded
  BY DEF IInv, ReadersCounted, Reading, ReadersExcluded
<1> QED  BY <1>1, Invariance, PTL

\* WriterLock and, in rwlock-reader-pref.cpp, ReaderLock keep others out.
THEOREM Excludes == Spec => []Exclusion
<1>1. WritersExclude /\ ReadersExcluded => Exclusion  BY DEF Exclusion
<1> QED  BY <1>1, OneWriter, ReaderPrefExcludes, PTL

\* rwlock-reader-pref.cpp: the counters count.
THEOREM ReaderPrefCounts == Spec => []CountsAgree
<1>1. IInv => CountsAgree  BY DEF IInv, ReadersCounted, WritersCounted, CountsAgree
<1> QED  BY <1>1, Invariance, PTL

-----------------------------------------------------------------------------
(* The shell's job table.                                                  *)

CONSTANTS Pid, SLOTS
VARIABLES table, any, sigint, todo, await, own, strangers, at, hit

S == INSTANCE Shell WITH pc <- at

ShellSizes == -1 \notin Pid

\* A child is nobody else's process.  As long as nothing has been put into
\* the table it is empty; when a line is read it names children only.  What
\* exit has killed was the shell's.
ShellInv ==
  /\ table \in [1 .. SLOTS -> Pid \cup {-1}] /\ own \in [Pid -> {"no", "running", "stopped", "zombie"}]
  /\ \A j \in strangers : j \in Pid /\ own[j] = "no"
  /\ any \in BOOLEAN /\ (~any => \A s \in 1 .. SLOTS : table[s] = -1)
  /\ at = "line" => \A s \in 1 .. SLOTS : table[s] # -1 => own[table[s]] # "no"
  /\ at # "gone" => hit = {}
  /\ hit \cap strangers = {}

LEMMA TopStep == ASSUME ShellSizes, ShellInv, S!Top PROVE ShellInv'
<1> DEFINE polled == {s \in 1 .. SLOTS : any /\ table[s] # -1}
<1>1. /\ at = "top" /\ at' \in {"top", "line"} /\ UNCHANGED <<any, strangers, hit>>
      /\ own' = [j \in Pid |-> IF own[j] = "zombie" /\ \E s \in polled : table[s] = j
                               THEN "no" ELSE own[j]]
      /\ table' = [s \in 1 .. SLOTS |-> IF s \in polled /\ own[table[s]] \in {"no", "zombie"}
                                        THEN -1 ELSE table[s]]
  BY DEF S!Top, S!Cleared
<1>2. /\ table' \in [1 .. SLOTS -> Pid \cup {-1}]
      /\ own' \in [Pid -> {"no", "running", "stopped", "zombie"}]
  BY <1>1 DEF ShellInv
<1>3. \A j \in strangers' : j \in Pid /\ own'[j] = "no"
  BY <1>1 DEF ShellInv
<1>4. \A s \in 1 .. SLOTS : table[s] = -1 => table'[s] = -1
  BY <1>1
\* What is still in the table has been polled, and was not a zombie.
<1>5. \A s \in 1 .. SLOTS : table'[s] # -1 => own'[table'[s]] # "no"
  <2> SUFFICES ASSUME NEW s \in 1 .. SLOTS, table'[s] # -1 PROVE own'[table'[s]] # "no"
    OBVIOUS
  <2>1. table[s] # -1 /\ s \in polled /\ table[s] \in Pid
    BY <1>4 DEF ShellInv
  <2>2. table'[s] = table[s] /\ own[table[s]] \notin {"no", "zombie"}
    BY <1>1, <2>1
  <2>3. own'[table[s]] = own[table[s]]
    BY <1>1, <2>1, <2>2
  <2>4. QED
    BY <2>2, <2>3
<1>6. QED
  BY <1>1, <1>2, <1>3, <1>4, <1>5 DEF ShellInv

LEMMA QuitStep == ASSUME ShellSizes, ShellInv, S!Quit PROVE ShellInv'
<1> DEFINE upto == {s \in 1 .. SLOTS : \A t \in 1 .. s : table[t] # -1}
<1>1. /\ at = "line" /\ at' = "gone" /\ hit' = {table[s] : s \in upto}
      /\ UNCHANGED <<table, any, own, strangers>>
  BY DEF S!Quit
<1>2. ASSUME NEW s \in upto PROVE table[s] \notin strangers
  <2>1. s \in 1 .. SLOTS /\ s \in 1 .. s
    OBVIOUS
  <2>2. table[s] # -1
    BY <2>1
  <2>3. own[table[s]] # "no"
    BY <1>1, <2>1, <2>2 DEF ShellInv
  <2>4. QED
    BY <2>3 DEF ShellInv
<1>3. hit' \cap strangers' = {}
  <2> HIDE DEF upto
  <2>1. QED
    BY <1>1, <1>2
<1>4. QED
  BY <1>1, <1>3 DEF ShellInv

LEMMA StartStep == ASSUME ShellSizes, ShellInv, S!Start PROVE ShellInv'
<1>1. at = "cmds" /\ at' \in {"cmds", "gone"} /\ UNCHANGED <<sigint, strangers, hit>>
  BY DEF S!Start, S!Record
<1>2. CASE UNCHANGED <<table, any, own>>
  BY <1>1, <1>2 DEF ShellInv
<1>3. CASE ~UNCHANGED <<table, any, own>>
  <2>1. PICK ret \in {j \in Pid : own[j] = "no" /\ j \notin strangers} \cup {-1} :
          /\ own' = [j \in Pid |-> IF j = ret THEN "running" ELSE own[j]]
          /\ \/ table' = [table EXCEPT ![S!FreeSlot] = ret] /\ any' = TRUE
             \/ UNCHANGED table /\ any' = TRUE
             \/ UNCHANGED <<table, any>>
    <3>1. PICK ret \in {j \in Pid : own[j] = "no" /\ j \notin strangers} \cup {-1} :
            /\ own' = [j \in Pid |-> IF j = ret THEN "running" ELSE own[j]]
            /\ (S!Record(ret) /\ any' = TRUE) \/ UNCHANGED <<table, any>>
      BY <1>3 DEF S!Start
    <3>2. S!Record(ret) => table' = [table EXCEPT ![S!FreeSlot] = ret] \/ UNCHANGED table
      BY DEF S!Record
    <3>3. QED
      BY <3>1, <3>2
  <2>2. /\ own' \in [Pid -> {"no", "running", "stopped", "zombie"}]
        /\ \A j \in strangers' : j \in Pid /\ own'[j] = "no"
    <3>1. ret \notin strangers
      BY <2>1 DEF ShellInv, ShellSizes
    <3>2. own' \in [Pid -> {"no", "running", "stopped", "zombie"}]
      BY <2>1 DEF ShellInv
    <3>3. \A j \in strangers : j \in Pid /\ own[j] = "no" /\ own'[j] = own[j]
      BY <2>1, <3>1 DEF ShellInv
    <3>4. QED
      BY <1>1, <3>2, <3>3
  <2>3. table' \in [1 .. SLOTS -> Pid \cup {-1}] /\ any' \in BOOLEAN
        /\ (~any' => \A s \in 1 .. SLOTS : table'[s] = -1)
    <3>1. CASE table' = [table EXCEPT ![S!FreeSlot] = ret] /\ any' = TRUE
      BY <2>1, <3>1 DEF ShellInv
    <3>2. CASE UNCHANGED table /\ any' = TRUE
      BY <3>2 DEF ShellInv
    <3>3. CASE UNCHANGED <<table, any>>
      BY <3>3 DEF ShellInv
    <3>4. QED
      BY <2>1, <3>1, <3>2, <3>3
  <2>4. QED
    BY <1>1, <2>2, <2>3 DEF ShellInv
<1>4. QED
  BY <1>2, <1>3

LEMMA ShellStep == ASSUME ShellSizes, ShellInv, [S!Next]_S!vars PROVE ShellInv'
<1>1. CASE S!Top \/ S!Quit \/ S!Start
  BY <1>1, TopStep, QuitStep, StartStep
<1>2. CASE S!Read
  BY <1>2 DEF S!Read, ShellInv
<1>3. CASE S!Wait
  <2>1. at = "cmds" /\ UNCHANGED <<table, any, strangers, at, hit>>
    BY <1>3 DEF S!Wait
  <2>2. own' = own \/ \E j : own' = [own EXCEPT ![j] = "no"]
    BY <1>3 DEF S!Wait
  <2>3. /\ own' \in [Pid -> {"no", "running", "stopped", "zombie"}]
        /\ \A j \in strangers : j \in Pid /\ own'[j] = "no"
    BY <2>2 DEF ShellInv
  <2>4. QED
    BY <2>1, <2>3 DEF ShellInv
<1>4. CASE S!LineDone
  BY <1>4 DEF S!LineDone, ShellInv
<1>5. CASE S!Sigint
  BY <1>5 DEF S!Sigint, ShellInv
<1>6. ASSUME NEW j \in Pid, S!Change(j) PROVE ShellInv'
  <2>1. /\ at # "gone" /\ own[j] # "no" /\ UNCHANGED <<table, any, strangers, at, hit>>
        /\ \E s \in {"running", "stopped", "zombie"} : own' = [own EXCEPT ![j] = s]
    BY <1>6 DEF S!Change
  <2>2. /\ own' \in [Pid -> {"no", "running", "stopped", "zombie"}]
        /\ \A k \in Pid : own'[k] = "no" <=> own[k] = "no"
    BY <2>1 DEF ShellInv
  <2>3. \A s \in 1 .. SLOTS : table[s] # -1 => table[s] \in Pid
    BY DEF ShellInv
  <2>4. QED
    BY <2>1, <2>2, <2>3 DEF ShellInv
<1>7. ASSUME NEW j \in Pid, S!Stranger(j) PROVE ShellInv'
  BY <1>7 DEF S!Stranger, ShellInv
<1>8. CASE UNCHANGED S!vars
  BY <1>8 DEF S!vars, ShellInv
<1>9. QED
  BY <1>1, <1>2, <1>3, <1>4, <1>5, <1>6, <1>7, <1>8 DEF S!Next, S!Shell

\* my_shell.c: exit kills only processes of the shell, although its children
\* may have been waited for and their pids used again, and whatever a job that
\* finds the table full overwrites.
THEOREM ShellKillsItsOwn == ASSUME ShellSizes PROVE S!Spec => []S!KillsOwnOnly
<1>1. S!Init => ShellInv
  BY DEF S!Init, ShellInv
<1>2. ShellInv /\ [S!Next]_S!vars => ShellInv'
  BY ShellStep
<1>3. ShellInv => S!KillsOwnOnly
  BY DEF ShellInv, S!KillsOwnOnly
<1>4. QED
  BY <1>1, <1>2, <1>3, PTL DEF S!Spec

-----------------------------------------------------------------------------
(* The blocks of files.                                                    *)

CONSTANTS Proc, Inode, SIZE, BSIZE, NDIRECT, NINDIRECT, MAXOPBLOCKS, Lengths
VARIABLES used, ptr, addrs, size, dinode, lock, job, logged, panicked

B == INSTANCE Blocks

\* A chunk of filewrite is not empty when begin_op reserves 6 blocks.
BlockSizes ==
  /\ SIZE \in Nat /\ NDIRECT \in Nat /\ NINDIRECT \in Nat
  /\ BSIZE \in Nat /\ BSIZE > 0
  /\ MAXOPBLOCKS \in Nat /\ MAXOPBLOCKS >= 6
  /\ Lengths \subseteq Nat \ {0}
  /\ None \notin Proc

\* A block or none; the places of an inode that may name one: the direct
\* blocks, the indirect one, and what that names.
Blk      == B!Block \cup {0}
Place    == 0 .. NDIRECT + NINDIRECT
BlockNo  == 0 .. NDIRECT + NINDIRECT - 1
Ind(i)   == addrs[i][NDIRECT]
Writes   == {"write", "end"}
HasLock  == Writes \cup {"direct", "indirect", "update"}

JobTypes ==
  [pc : HasLock \cup {"user", "begin"}, i : Inode \cup {None}, off : Nat, n : Nat, tot : Nat,
   k : Nat]
Dinode == [0 .. NDIRECT -> Blk] \X Nat
Entries ==
  {<<"bitmap">>} \cup {<<"data", b>> : b \in B!Block} \cup {<<"inode", i>> : i \in Inode}
BlockTypes ==
  /\ used \in SUBSET B!Block
  /\ ptr \in [B!Block -> [0 .. NINDIRECT - 1 -> Blk]]
  /\ addrs \in [Inode -> [0 .. NDIRECT -> Blk]]
  /\ size \in [Inode -> Nat]
  /\ dinode \in [Inode -> Dinode]
  /\ lock \in [Inode -> Proc \cup {None}]
  /\ job \in [Proc -> JobTypes]
  /\ logged \in [Proc -> SUBSET Entries]
  /\ panicked \in {"no", "balloc: out of blocks"}

\* How many names of the indirect block itrunc has gone through, and the
\* block that is named at a place, or 0.
Gone(i) == IF lock[i] # None /\ job[lock[i]].pc = "indirect" THEN job[lock[i]].k ELSE 0
Named(i, k) ==
  IF k <= NDIRECT THEN addrs[i][k]
  ELSE IF Ind(i) = 0 \/ k - NDIRECT - 1 < Gone(i) THEN 0
  ELSE ptr[Ind(i)][k - NDIRECT - 1]

\* Whoever is inside of a call has the lock of its inode.
LocksHeld ==
  /\ \A p \in Proc : job[p].pc \in HasLock => job[p].i \in Inode /\ lock[job[p].i] = p
  /\ \A i \in Inode : lock[i] # None => job[lock[i]].pc \in HasLock /\ job[lock[i]].i = i
  /\ \A p \in Proc : job[p].pc = "begin" => job[p].i \in Inode /\ job[p].n > 0
  /\ \A p \in Proc : job[p].pc \in {"user", "begin"} => logged[p] = {}

\* No block has two names, and what has one is marked.
NamedOnce ==
  /\ \A i, o \in Inode, k, l \in Place :
       Named(i, k) # 0 /\ Named(i, k) = Named(o, l) => i = o /\ k = l
  /\ \A i \in Inode, k \in Place : Named(i, k) # 0 => Named(i, k) \in used
  /\ \A b \in used : \E i \in Inode, k \in Place : Named(i, k) = b

\* Block bn is below s.
Below(bn, s) == bn * BSIZE < s

\* A file that nobody changes.
Settled(i) ==
  /\ dinode[i] = <<addrs[i], size[i]>>
  /\ \A bn \in BlockNo : Below(bn, size[i]) <=> B!Mapped(i, bn) # 0

\* What p has to write next, and the blocks its transaction has come to.
Touched(p, bn) ==
  /\ (bn + 1) * BSIZE > job[p].off - job[p].tot
  /\ Below(bn, job[p].off) \/ (job[p].pc = "write" /\ bn = B!Bn(p))

\* What a writing transaction logs: the bitmap, the inode, its indirect
\* block, and the blocks it has come to.
Logs(p, x) ==
  LET i == job[p].i IN
  \/ x \in {<<"bitmap">>, <<"inode", i>>}
  \/ Ind(i) # 0 /\ x = <<"data", Ind(i)>>
  \/ \E bn \in BlockNo : Touched(p, bn) /\ B!Mapped(i, bn) # 0 /\ x = <<"data", B!Mapped(i, bn)>>

\* In writei: the file is mapped as far as it reaches or has been written,
\* and maybe at the next block; unless it has become longer, iupdate has
\* nothing to do.
InWritei(i, p) ==
  LET j == job[p] IN
  /\ j.n > 0 /\ j.tot <= j.off /\ \A x \in logged[p] : Logs(p, x)
  /\ j.pc = "write" =>
       /\ j.tot < B!ThisChunk(j.n) /\ j.off + B!ThisChunk(j.n) - j.tot <= B!MAXFILE * BSIZE
       /\ dinode[i] = <<addrs[i], size[i]>> \/ size[i] <= j.off
       /\ \A bn \in BlockNo :
            /\ Below(bn, size[i]) \/ Below(bn, j.off) => B!Mapped(i, bn) # 0
            /\ B!Mapped(i, bn) # 0 => Below(bn, size[i]) \/ Below(bn, j.off) \/ bn = B!Bn(p)
  /\ j.pc = "end" => j.tot = B!ThisChunk(j.n) /\ Settled(i)

\* In itrunc: the blocks it has gone through are free.
InItrunc(i, p) ==
  LET j == job[p] IN
  /\ logged[p] \subseteq {<<"bitmap">>}
  /\ j.pc = "direct" => j.k <= NDIRECT /\ \A k \in 0 .. NDIRECT - 1 : k < j.k => addrs[i][k] = 0
  /\ j.pc = "indirect" => /\ j.k <= NINDIRECT /\ Ind(i) # 0
                          /\ \A k \in 0 .. NDIRECT - 1 : addrs[i][k] = 0
  /\ j.pc = "update" => \A k \in 0 .. NDIRECT : addrs[i][k] = 0

FileInv(i) ==
  IF lock[i] = None THEN Settled(i)
  ELSE IF job[lock[i]].pc \in Writes THEN InWritei(i, lock[i]) ELSE InItrunc(i, lock[i])

BlocksInv == BlockTypes /\ LocksHeld /\ NamedOnce /\ \A i \in Inode : FileInv(i)

-----------------------------------------------------------------------------
(* Numbers.                                                                *)

LEMMA Multiples ==
  ASSUME NEW a \in Int, NEW b \in Int, NEW s \in Nat, s > 0
  PROVE  /\ a <= b <=> a * s <= b * s
         /\ a < b <=> a * s < b * s
         /\ (a + 1) * s = a * s + s /\ a * s \in Int
<1>1. /\ (b - a) * s = b * s - a * s /\ a * s \in Int /\ b * s \in Int
      /\ (a + 1) * s = a * s + s
  OBVIOUS
<1>2. a < b => (b - a) * s > 0
  OBVIOUS
<1>3. a > b => (b - a) * s < 0
  <2> SUFFICES ASSUME a > b PROVE (b - a) * s < 0
    OBVIOUS
  <2>1. (a - b) * s > 0 /\ (a - b) * s = a * s - b * s
    OBVIOUS
  <2>2. QED
    BY <1>1, <2>1
<1>4. a = b => a * s = b * s
  OBVIOUS
<1> QED  BY <1>1, <1>2, <1>3, <1>4

LEMMA BlockNumber ==
  ASSUME BlockSizes, NEW off \in Nat
  PROVE  /\ off \div BSIZE \in Nat /\ off % BSIZE \in Nat /\ off % BSIZE < BSIZE
         /\ off = (off \div BSIZE) * BSIZE + (off % BSIZE)
<1>1. BSIZE \in Nat /\ BSIZE > 0
  BY DEF BlockSizes
<1>2. off \div BSIZE \in Int /\ off % BSIZE \in 0 .. BSIZE - 1
  BY <1>1
<1>3. off = BSIZE * (off \div BSIZE) + (off % BSIZE)
  BY <1>1
<1>4. off \div BSIZE >= 0
  BY <1>1
<1> QED  BY <1>1, <1>2, <1>3, <1>4

\* Block bn begins before an end that is in block q, or is the end of it.
LEMMA BelowEnd ==
  ASSUME BlockSizes, NEW q \in Nat, NEW bn \in Nat, NEW s \in Nat,
         q * BSIZE < s, s <= (q + 1) * BSIZE
  PROVE  Below(bn, s) <=> bn <= q
<1>1. /\ q * BSIZE \in Int /\ bn * BSIZE \in Int /\ (bn + 1) * BSIZE = bn * BSIZE + BSIZE
      /\ (q + 1) * BSIZE = q * BSIZE + BSIZE
      /\ bn <= q <=> bn * BSIZE <= q * BSIZE
      /\ q + 1 <= bn <=> (q + 1) * BSIZE <= bn * BSIZE
      /\ BSIZE \in Nat
  BY Multiples DEF BlockSizes
<1> QED  BY <1>1 DEF Below

LEMMA MinOfTwo ==
  ASSUME NEW a \in Int, NEW b \in Int
  PROVE  B!Min({a, b}) = IF a <= b THEN a ELSE b
<1> DEFINE m == IF a <= b THEN a ELSE b
<1>1. m \in {a, b} /\ \A y \in {a, b} : m <= y
  OBVIOUS
<1>2. \A x \in {a, b} : (\A y \in {a, b} : x <= y) => x = m
  OBVIOUS
<1>3. B!Min({a, b}) = CHOOSE x \in {a, b} : \A y \in {a, b} : x <= y
  BY DEF B!Min
<1> HIDE DEF m
<1>4. B!Min({a, b}) = m
  BY <1>1, <1>2, <1>3
<1> QED  BY <1>4 DEF m

LEMMA ChunkSize ==
  ASSUME BlockSizes, NEW n \in Nat
  PROVE  /\ B!ThisChunk(n) \in Nat /\ B!ThisChunk(n) <= n /\ (n > 0 => B!ThisChunk(n) > 0)
         /\ \E c \in Nat : 2 * c <= MAXOPBLOCKS - 4 /\ B!ThisChunk(n) <= c * BSIZE
<1> DEFINE c == (MAXOPBLOCKS - 4) \div 2
<1>1. c \in Nat /\ c > 0 /\ 2 * c <= MAXOPBLOCKS - 4
  BY DEF BlockSizes
<1>2. B!Chunk = c * BSIZE
  <2>1. (MAXOPBLOCKS - 1 - 1 - 2) = MAXOPBLOCKS - 4
    BY DEF BlockSizes
  <2>2. QED
    BY <2>1 DEF B!Chunk
<1> HIDE DEF c
<1>3. c * BSIZE \in Nat /\ c * BSIZE > 0
  BY <1>1 DEF BlockSizes
<1>4. B!ThisChunk(n) = IF n <= c * BSIZE THEN n ELSE c * BSIZE
  BY <1>2, <1>3, MinOfTwo DEF B!ThisChunk
<1> QED  BY <1>1, <1>3, <1>4

\* Induction up to n, for a set: it would otherwise be mapped one to one into
\* itself without its 0.
LEMMA UpTo ==
  ASSUME NEW h \in Nat, NEW U \in SUBSET (0 .. h), 0 \in U, \A l \in U : l < h => l + 1 \in U
  PROVE  h \in U
<1> SUFFICES ASSUME h \notin U PROVE FALSE
  OBVIOUS
<1> DEFINE f == [l \in U |-> l + 1]  V == U \ {0}
<1>1. IsFiniteSet(U)
  <2>1. IsFiniteSet(0 .. h)
    BY FS_Interval
  <2>2. QED
    BY <2>1, FS_Subset
<1>2. IsFiniteSet(V) /\ Cardinality(V) = Cardinality(U) - 1 /\ Cardinality(U) \in Nat
  BY <1>1, FS_RemoveElement, FS_CardinalityType
<1>3. Cardinality(V) < Cardinality(U) /\ f \in [U -> V]
  BY <1>2
<1>4. \A x, y \in U : f[x] = f[y] => x = y
  OBVIOUS
<1> HIDE DEF f, V
<1>5. \E x, y \in U : x # y /\ f[x] = f[y]
  BY ONLY <1>1, <1>2, <1>3, FS_PigeonHole
<1> QED  BY <1>4, <1>5

LEMMA FreeBlock ==
  ASSUME BlockSizes, BlockTypes, used # B!Block
  PROVE  B!FirstFree \in B!Block /\ B!FirstFree \notin used
<1> DEFINE free == B!Block \ used  U == {l \in 0 .. SIZE : \A b \in free : b > l}
<1>1. free # {} /\ free \subseteq 1 .. SIZE /\ SIZE \in Nat
  BY DEF BlockTypes, B!Block, BlockSizes
<1>2. PICK l \in U : l < SIZE /\ l + 1 \notin U
  <2>1. 0 \in U /\ SIZE \notin U /\ U \in SUBSET (0 .. SIZE)
    BY <1>1
  <2> HIDE DEF U
  <2>2. QED
    BY <1>1, <2>1, UpTo
<1>3. l + 1 \in free /\ \A b \in free : l + 1 <= b
  BY <1>1, <1>2
<1>4. B!FirstFree = CHOOSE x \in free : \A y \in free : x <= y
  BY DEF B!FirstFree, B!Min
<1> HIDE DEF free
<1>5. B!FirstFree \in free
  BY <1>3, <1>4
<1> QED  BY <1>5 DEF free

-----------------------------------------------------------------------------
(* Names.                                                                  *)

LEMMA NamedTypes ==
  ASSUME BlockSizes, BlockTypes, NEW i \in Inode
  PROVE  /\ Ind(i) \in Blk /\ Named(i, NDIRECT) = Ind(i) /\ Gone(i) \in Nat /\ NDIRECT \in Place
         /\ \A k \in Place : Named(i, k) \in Blk
         /\ \A bn \in BlockNo : B!Mapped(i, bn) \in Blk
<1>1. NDIRECT \in 0 .. NDIRECT /\ NDIRECT \in Place
  BY DEF BlockSizes, Place
<1>2. Ind(i) \in Blk /\ Named(i, NDIRECT) = Ind(i)
  <2>1. Ind(i) \in Blk
    BY <1>1 DEF BlockTypes, Ind
  <2>2. Named(i, NDIRECT) = Ind(i)
    BY DEF BlockSizes, Named, Ind
  <2>3. QED
    BY <2>1, <2>2
<1>3. Gone(i) \in Nat
  BY DEF BlockTypes, Gone, JobTypes
<1>4. ASSUME NEW k \in Place PROVE Named(i, k) \in Blk
  <2>1. CASE k <= NDIRECT
    <3>1. k \in 0 .. NDIRECT
      BY <2>1 DEF Place, BlockSizes
    <3>2. addrs[i][k] \in Blk
      BY <3>1 DEF BlockTypes
    <3>3. QED
      BY <2>1, <3>2 DEF Named
  <2>2. CASE k > NDIRECT /\ Ind(i) # 0
    <3>1. k - NDIRECT - 1 \in 0 .. NINDIRECT - 1 /\ Ind(i) \in B!Block
      BY <1>2, <2>2 DEF Place, BlockSizes, Blk
    <3>2. ptr[Ind(i)] \in [0 .. NINDIRECT - 1 -> Blk]
      BY <3>1 DEF BlockTypes
    <3>3. ptr[Ind(i)][k - NDIRECT - 1] \in Blk
      BY <3>1, <3>2
    <3>4. QED
      BY <2>2, <3>3 DEF Named, Blk, Place, BlockSizes
  <2>3. QED
    BY <2>1, <2>2 DEF Named, Place, Blk, BlockSizes
<1>5. ASSUME NEW bn \in BlockNo PROVE B!Mapped(i, bn) \in Blk
  <2>1. CASE bn < NDIRECT
    <3>1. bn \in 0 .. NDIRECT
      BY <2>1 DEF BlockNo, BlockSizes
    <3>2. addrs[i][bn] \in Blk
      BY <3>1 DEF BlockTypes
    <3>3. QED
      BY <2>1, <3>2 DEF B!Mapped
  <2>2. CASE bn >= NDIRECT /\ Ind(i) # 0
    <3>1. bn - NDIRECT \in 0 .. NINDIRECT - 1 /\ Ind(i) \in B!Block
      BY <1>2, <2>2 DEF BlockNo, BlockSizes, Blk
    <3>2. ptr[Ind(i)] \in [0 .. NINDIRECT - 1 -> Blk]
      BY <3>1 DEF BlockTypes
    <3>3. ptr[Ind(i)][bn - NDIRECT] \in Blk
      BY <3>1, <3>2
    <3>4. QED
      BY <2>2, <3>3 DEF B!Mapped, Ind, Blk, BlockSizes, BlockNo
  <2>3. QED
    BY <2>1, <2>2 DEF B!Mapped, BlockNo, Blk, BlockSizes, Ind
<1> QED  BY <1>1, <1>2, <1>3, <1>4, <1>5

\* The place of block bn.
PlaceOf(bn) == IF bn < NDIRECT THEN bn ELSE bn + 1

LEMMA MappedNamed ==
  ASSUME BlockSizes, NEW i \in Inode, Gone(i) = 0, NEW bn \in BlockNo
  PROVE  PlaceOf(bn) \in Place /\ PlaceOf(bn) # NDIRECT /\ B!Mapped(i, bn) = Named(i, PlaceOf(bn))
<1>1. CASE bn < NDIRECT
  BY <1>1 DEF BlockSizes, PlaceOf, Place, BlockNo, B!Mapped, Named
<1>2. CASE bn >= NDIRECT
  <2>1. /\ bn \in Nat /\ bn + 1 \in Place /\ bn + 1 > NDIRECT /\ ~(bn < NDIRECT)
        /\ bn + 1 - NDIRECT - 1 = bn - NDIRECT /\ ~(bn - NDIRECT < 0)
        /\ ~(bn + 1 <= NDIRECT) /\ PlaceOf(bn) = bn + 1 /\ NDIRECT \in Nat
    BY <1>2 DEF BlockSizes, PlaceOf, Place, BlockNo
  <2>2. Named(i, bn + 1) = IF Ind(i) = 0 THEN 0 ELSE ptr[Ind(i)][bn - NDIRECT]
    BY <2>1 DEF Named
  <2>3. QED
    BY <2>1, <2>2 DEF B!Mapped, Ind
<1> QED  BY <1>1, <1>2 DEF BlockSizes, BlockNo

\* A free block gets a name.
LEMMA NameGiven ==
  ASSUME BlockSizes, BlockTypes, NamedOnce, NEW i \in Inode, NEW k \in Place, Named(i, k) = 0,
         NEW b \in B!Block, b \notin used, used' = used \cup {b},
         \A o \in Inode, l \in Place : Named(o, l)' = IF o = i /\ l = k THEN b ELSE Named(o, l)
  PROVE  NamedOnce'
<1>1. b # 0
  BY DEF B!Block
<1>2. \A o \in Inode, l \in Place : Named(o, l) # b
  BY <1>1 DEF NamedOnce
<1>3. ASSUME NEW o1 \in Inode, NEW o2 \in Inode, NEW k1 \in Place, NEW k2 \in Place,
             Named(o1, k1)' # 0, Named(o1, k1)' = Named(o2, k2)'
      PROVE  o1 = o2 /\ k1 = k2
  <2>1. CASE o1 = i /\ k1 = k
    BY <1>2, <1>3, <2>1
  <2>2. CASE o2 = i /\ k2 = k
    BY <1>2, <1>3, <2>2
  <2>3. CASE ~(o1 = i /\ k1 = k) /\ ~(o2 = i /\ k2 = k)
    BY <1>3, <2>3 DEF NamedOnce
  <2>4. QED
    BY <2>1, <2>2, <2>3
<1>4. \A o \in Inode, l \in Place : Named(o, l)' # 0 => Named(o, l)' \in used'
  BY DEF NamedOnce
<1>5. ASSUME NEW c \in used' PROVE \E o \in Inode, l \in Place : Named(o, l)' = c
  <2>1. CASE c = b
    BY <2>1
  <2>2. CASE c # b
    <3>1. PICK o \in Inode, l \in Place : Named(o, l) = c
      BY <2>2 DEF NamedOnce
    <3>2. c # 0
      <4>1. c \in B!Block
        BY <2>2 DEF BlockTypes
      <4>2. QED
        BY <4>1 DEF B!Block
    <3>3. Named(o, l)' = c
      BY <3>1, <3>2
    <3>4. QED
      BY <3>3
  <2>3. QED
    BY <2>1, <2>2
<1>6. QED
  BY <1>3, <1>4, <1>5 DEF NamedOnce

\* A block loses its name.
LEMMA NameTaken ==
  ASSUME BlockSizes, BlockTypes, NamedOnce, NEW i \in Inode, NEW k \in Place, Named(i, k) # 0,
         used' = used \ {Named(i, k)},
         \A o \in Inode, l \in Place : Named(o, l)' = IF o = i /\ l = k THEN 0 ELSE Named(o, l)
  PROVE  NamedOnce'
<1>1. \A o1, o2 \in Inode, k1, k2 \in Place :
        Named(o1, k1)' # 0 /\ Named(o1, k1)' = Named(o2, k2)' => o1 = o2 /\ k1 = k2
  BY DEF NamedOnce
<1>2. \A o \in Inode, l \in Place : Named(o, l)' # 0 => Named(o, l)' \in used'
  <2> SUFFICES ASSUME NEW o \in Inode, NEW l \in Place, Named(o, l)' # 0
               PROVE  Named(o, l)' \in used'
    OBVIOUS
  <2>1. ~(o = i /\ l = k) /\ Named(o, l)' = Named(o, l) /\ Named(o, l) # 0
    OBVIOUS
  <2>2. Named(o, l) # Named(i, k) /\ Named(o, l) \in used
    BY <2>1 DEF NamedOnce
  <2>3. QED
    BY <2>1, <2>2
<1>3. ASSUME NEW c \in used' PROVE \E o \in Inode, l \in Place : Named(o, l)' = c
  <2>1. c \in used /\ c # Named(i, k)
    BY <1>3
  <2>2. PICK o \in Inode, l \in Place : Named(o, l) = c
    BY <2>1 DEF NamedOnce
  <2>3. Named(o, l)' = c
    BY <2>1, <2>2
  <2>4. QED
    BY <2>3
<1>4. QED
  BY <1>1, <1>2, <1>3 DEF NamedOnce

LEMMA NamesStay ==
  ASSUME NamedOnce, used' = used, \A o \in Inode, l \in Place : Named(o, l)' = Named(o, l)
  PROVE  NamedOnce'
<1>1. \A o1, o2 \in Inode, k1, k2 \in Place :
        Named(o1, k1)' # 0 /\ Named(o1, k1)' = Named(o2, k2)' => o1 = o2 /\ k1 = k2
  BY DEF NamedOnce
<1>2. \A o \in Inode, l \in Place : Named(o, l)' # 0 => Named(o, l)' \in used'
  BY DEF NamedOnce
<1>3. \A c \in used' : \E o \in Inode, l \in Place : Named(o, l)' = c
  BY DEF NamedOnce
<1>4. QED
  BY <1>1, <1>2, <1>3 DEF NamedOnce

-----------------------------------------------------------------------------
(* Files that a step does not touch.                                       *)

Same(o) ==
  /\ addrs'[o] = addrs[o] /\ size'[o] = size[o] /\ dinode'[o] = dinode[o] /\ lock'[o] = lock[o]
  /\ Ind(o) # 0 => ptr'[Ind(o)] = ptr[Ind(o)]
  /\ lock[o] # None => job'[lock[o]] = job[lock[o]] /\ logged'[lock[o]] = logged[lock[o]]

LEMMA SameFile ==
  ASSUME BlockSizes, LocksHeld, NEW o \in Inode, Same(o)
  PROVE  /\ \A k \in Place : Named(o, k)' = Named(o, k)
         /\ \A bn \in BlockNo : B!Mapped(o, bn)' = B!Mapped(o, bn)
         /\ FileInv(o) => FileInv(o)'
<1>1. Ind(o)' = Ind(o)
  BY DEF Same, Ind
<1>2. Gone(o)' = Gone(o)
  BY DEF Same, Gone
<1>3. \A k \in Place : Named(o, k)' = Named(o, k)
  BY <1>1, <1>2 DEF Same, Named
<1>4. \A bn \in BlockNo : B!Mapped(o, bn)' = B!Mapped(o, bn)
  BY <1>1 DEF Same, B!Mapped, Ind
<1>5. Settled(o)' <=> Settled(o)
  BY <1>4 DEF Same, Settled
<1>6. ASSUME lock[o] # None, job[lock[o]].pc \in Writes, InWritei(o, lock[o])
      PROVE  InWritei(o, lock[o])'
  <2> DEFINE p == lock[o]
  <2>1. /\ p' = p /\ job'[p] = job[p] /\ logged'[p] = logged[p] /\ job[p].i = o
        /\ addrs'[o] = addrs[o] /\ size'[o] = size[o] /\ dinode'[o] = dinode[o]
    BY <1>6 DEF Same, LocksHeld
  <2> HIDE DEF p
  <2>2. B!Bn(p)' = B!Bn(p) /\ \A bn : Touched(p, bn)' <=> Touched(p, bn)
    BY <2>1 DEF B!Bn, Touched, Below
  <2>3. \A x : Logs(p, x)' <=> Logs(p, x)
    BY <1>1, <1>4, <2>1, <2>2 DEF Logs
  <2>4. InWritei(o, p) => InWritei(o, p)'
    BY <1>4, <1>5, <2>1, <2>2, <2>3 DEF InWritei, Below, B!ThisChunk
  <2>5. QED
    BY <1>6, <2>1, <2>4 DEF p
<1>7. ASSUME lock[o] # None, InItrunc(o, lock[o]) PROVE InItrunc(o, lock[o])'
  BY <1>1, <1>7 DEF Same, InItrunc
<1>8. FileInv(o) => FileInv(o)'
  <2>1. lock'[o] = lock[o] /\ (lock[o] # None => job'[lock[o]] = job[lock[o]])
    BY DEF Same
  <2>2. QED
    BY <1>5, <1>6, <1>7, <2>1 DEF FileInv
<1>9. QED
  BY <1>3, <1>4, <1>8

-----------------------------------------------------------------------------
(* What the steps have in common: process p and inode i.                   *)

LEMMA JobFields ==
  ASSUME BlockTypes, NEW p \in Proc
  PROVE  /\ job[p] \in JobTypes /\ job[p].pc \in HasLock \cup {"user", "begin"}
         /\ job[p].off \in Nat /\ job[p].n \in Nat /\ job[p].tot \in Nat /\ job[p].k \in Nat
         /\ logged[p] \subseteq Entries
<1>1. job[p] \in JobTypes /\ logged[p] \subseteq Entries
  BY DEF BlockTypes
<1> QED  BY <1>1 DEF JobTypes

LEMMA JobChange ==
  ASSUME BlockTypes, NEW p \in Proc, NEW r \in JobTypes, job' = [job EXCEPT ![p] = r]
  PROVE  /\ job' \in [Proc -> JobTypes] /\ job'[p] = r
         /\ \A q \in Proc : q # p => job'[q] = job[q]
<1>1. job \in [Proc -> JobTypes]
  BY DEF BlockTypes
<1> QED  BY <1>1

LEMMA LogChange ==
  ASSUME BlockTypes, NEW p \in Proc, NEW bs, bs \subseteq Entries, logged' = [logged EXCEPT ![p] = bs]
  PROVE  /\ logged' \in [Proc -> SUBSET Entries] /\ logged'[p] = bs
         /\ \A q \in Proc : q # p => logged'[q] = logged[q]
<1>1. logged \in [Proc -> SUBSET Entries]
  BY DEF BlockTypes
<1> QED  BY <1>1

\* p has the lock of i, or nobody has it and p takes it or leaves it.
Mine(p, i) ==
  \/ job[p].pc \in HasLock /\ job[p].i = i /\ lock[i] = p
  \/ job[p].pc \in {"user", "begin"} /\ lock[i] = None

Within(p, i) ==
  /\ \A o \in Inode : o # i =>
       /\ addrs'[o] = addrs[o] /\ size'[o] = size[o] /\ dinode'[o] = dinode[o]
       /\ lock'[o] = lock[o] /\ (Ind(o) # 0 => ptr'[Ind(o)] = ptr[Ind(o)])
  /\ \A q \in Proc : q # p => job'[q] = job[q] /\ logged'[q] = logged[q]

\* So it is afterwards.
Leaves(p, i) ==
  /\ \/ job'[p].pc \in HasLock /\ job'[p].i = i /\ lock'[i] = p
     \/ job'[p].pc \in {"user", "begin"} /\ lock'[i] = None /\ logged'[p] = {}
  /\ job'[p].pc = "begin" => job'[p].i \in Inode /\ job'[p].n > 0

LEMMA Elsewhere ==
  ASSUME BlockSizes, BlocksInv, NEW p \in Proc, NEW i \in Inode,
         Mine(p, i), Within(p, i), Leaves(p, i)
  PROVE  /\ LocksHeld'
         /\ \A o \in Inode : o # i => FileInv(o)' /\ \A k \in Place : Named(o, k)' = Named(o, k)
<1>1. \A o \in Inode : lock[o] \in Proc \cup {None}
  BY DEF BlocksInv, BlockTypes
<1>2. ASSUME NEW o \in Inode, o # i PROVE lock[o] # p
  <2>1. lock[o] = p => job[p].pc \in HasLock /\ job[p].i = o
    BY DEF BlocksInv, LocksHeld, BlockSizes
  <2>2. QED
    BY <1>2, <2>1 DEF Mine, HasLock, Writes
<1>3. ASSUME NEW o \in Inode, o # i
      PROVE  FileInv(o)' /\ \A k \in Place : Named(o, k)' = Named(o, k)
  <2>1. Same(o)
    BY <1>1, <1>2, <1>3 DEF Within, Same
  <2>2. QED
    BY <2>1, SameFile DEF BlocksInv
<1>4. ASSUME NEW q \in Proc, job'[q].pc \in HasLock PROVE job'[q].i \in Inode /\ lock'[job'[q].i] = q
  <2>1. CASE q = p
    BY <1>4, <2>1 DEF Leaves, HasLock, Writes
  <2>2. CASE q # p
    <3>1. job'[q] = job[q] /\ job[q].i \in Inode /\ lock[job[q].i] = q
      BY <1>4, <2>2 DEF Within, BlocksInv, LocksHeld
    <3>2. job[q].i # i
      BY <2>2, <3>1 DEF Mine, BlockSizes
    <3>3. QED
      BY <3>1, <3>2 DEF Within
  <2>3. QED
    BY <2>1, <2>2
<1>5. ASSUME NEW o \in Inode, lock'[o] # None PROVE job'[lock'[o]].pc \in HasLock /\ job'[lock'[o]].i = o
  <2>1. CASE o = i
    BY <1>5, <2>1 DEF Leaves
  <2>2. CASE o # i
    <3>1. lock'[o] = lock[o] /\ lock[o] \in Proc /\ lock[o] # p
      BY <1>1, <1>2, <1>5, <2>2 DEF Within
    <3>2. job'[lock[o]] = job[lock[o]]
      BY <3>1 DEF Within
    <3>3. job[lock[o]].pc \in HasLock /\ job[lock[o]].i = o
      BY <1>5, <3>1 DEF BlocksInv, LocksHeld
    <3>4. QED
      BY <3>1, <3>2, <3>3
  <2>3. QED
    BY <2>1, <2>2
<1>6. \A q \in Proc : /\ job'[q].pc = "begin" => job'[q].i \in Inode /\ job'[q].n > 0
                      /\ job'[q].pc \in {"user", "begin"} => logged'[q] = {}
  BY DEF Within, Leaves, BlocksInv, LocksHeld, HasLock, Writes
<1>7. LocksHeld'
  BY <1>4, <1>5, <1>6 DEF LocksHeld
<1>8. QED
  BY <1>3, <1>7

\* A step that leaves the blocks and the addresses alone.
LEMMA QuietStep ==
  ASSUME BlockSizes, BlocksInv, NEW p \in Proc, NEW i \in Inode,
         Mine(p, i), Within(p, i), Leaves(p, i), BlockTypes', used' = used,
         \A k \in Place : Named(i, k)' = Named(i, k), FileInv(i)'
  PROVE  BlocksInv'
<1>1. LocksHeld' /\ \A o \in Inode : o # i => FileInv(o)' /\ \A k \in Place : Named(o, k)' = Named(o, k)
  BY Elsewhere
<1>2. \A o \in Inode, k \in Place : Named(o, k)' = Named(o, k)
  BY <1>1
<1>3. NamedOnce'
  BY <1>2, NamesStay DEF BlocksInv
<1>4. \A o \in Inode : FileInv(o)'
  BY <1>1
<1>5. QED
  BY <1>1, <1>3, <1>4 DEF BlocksInv

\* A step that gives a free block a name.
LEMMA GivingStep ==
  ASSUME BlockSizes, BlocksInv, NEW p \in Proc, NEW i \in Inode,
         Mine(p, i), Within(p, i), Leaves(p, i), BlockTypes',
         NEW k \in Place, Named(i, k) = 0, NEW b \in B!Block, b \notin used, used' = used \cup {b},
         \A l \in Place : Named(i, l)' = IF l = k THEN b ELSE Named(i, l), FileInv(i)'
  PROVE  BlocksInv'
<1>1. LocksHeld' /\ \A o \in Inode : o # i => FileInv(o)' /\ \A l \in Place : Named(o, l)' = Named(o, l)
  BY Elsewhere
<1>2. \A o \in Inode, l \in Place : Named(o, l)' = IF o = i /\ l = k THEN b ELSE Named(o, l)
  BY <1>1
<1>3. NamedOnce'
  BY <1>2, NameGiven DEF BlocksInv
<1>4. \A o \in Inode : FileInv(o)'
  BY <1>1
<1>5. QED
  BY <1>1, <1>3, <1>4 DEF BlocksInv

\* A step that frees a block.
LEMMA TakingStep ==
  ASSUME BlockSizes, BlocksInv, NEW p \in Proc, NEW i \in Inode,
         Mine(p, i), Within(p, i), Leaves(p, i), BlockTypes',
         NEW k \in Place, Named(i, k) # 0, used' = used \ {Named(i, k)},
         \A l \in Place : Named(i, l)' = IF l = k THEN 0 ELSE Named(i, l), FileInv(i)'
  PROVE  BlocksInv'
<1>1. LocksHeld' /\ \A o \in Inode : o # i => FileInv(o)' /\ \A l \in Place : Named(o, l)' = Named(o, l)
  BY Elsewhere
<1>2. \A o \in Inode, l \in Place : Named(o, l)' = IF o = i /\ l = k THEN 0 ELSE Named(o, l)
  BY <1>1
<1>3. NamedOnce'
  BY <1>2, NameTaken DEF BlocksInv
<1>4. \A o \in Inode : FileInv(o)'
  BY <1>1
<1>5. QED
  BY <1>1, <1>3, <1>4 DEF BlocksInv

\* Two names are not those of one block.
LEMMA OtherBlock ==
  ASSUME BlockSizes, BlocksInv, NEW i \in Inode, NEW k \in Place, NEW o \in Inode, Named(i, k) # 0,
         o # i \/ k # NDIRECT
  PROVE  Ind(o) # Named(i, k)
<1>1. Named(o, NDIRECT) = Ind(o) /\ NDIRECT \in Place
  BY NamedTypes DEF BlocksInv
<1> QED  BY <1>1 DEF BlocksInv, NamedOnce

-----------------------------------------------------------------------------
(* The steps that change no name.                                          *)

LEMMA BeginChunkStep ==
  ASSUME BlockSizes, BlocksInv, NEW p \in Proc, job[p].pc \in {"user", "begin"}, NEW i \in Inode,
         NEW off \in Nat, NEW n \in Nat, n > 0, B!BeginChunk(p, i, off, n)
  PROVE  BlocksInv'
<1> DEFINE new == [B!Idle EXCEPT !.pc = "write", !.i = i, !.off = off, !.n = n]
<1>1. /\ lock[i] = None /\ logged[p] = {}
      /\ UNCHANGED <<used, ptr, addrs, size, dinode, logged, panicked>>
  BY DEF B!BeginChunk, B!disk, BlocksInv, LocksHeld
<1>2. new \in JobTypes /\ B!Idle \in JobTypes /\ B!Idle.pc = "user" /\ new.pc = "write"
      /\ new.i = i /\ new.off = off /\ new.n = n /\ new.tot = 0
  BY DEF B!Idle, JobTypes, HasLock, Writes
<1>3. CASE UNCHANGED lock /\ job' = [job EXCEPT ![p] = B!Idle]
  <2>1. /\ job' \in [Proc -> JobTypes] /\ job'[p] = B!Idle
        /\ \A q \in Proc : q # p => job'[q] = job[q]
    BY <1>2, <1>3, JobChange DEF BlocksInv
  <2>2. BlockTypes'
    BY <1>1, <1>3, <2>1 DEF BlocksInv, BlockTypes
  <2>3. Mine(p, i) /\ Within(p, i) /\ Leaves(p, i)
    BY <1>1, <1>2, <1>3, <2>1 DEF Mine, Within, Leaves
  <2>4. \A k \in Place : Named(i, k)' = Named(i, k)
    BY <1>1, <1>3 DEF Named, Gone, Ind
  <2>5. FileInv(i)'
    BY <1>1, <1>3 DEF FileInv, Settled, BlocksInv, B!Mapped
  <2>6. QED
    BY <1>1, <2>2, <2>3, <2>4, <2>5, QuietStep
<1>4. CASE ~(UNCHANGED lock /\ job' = [job EXCEPT ![p] = B!Idle])
  <2>1. /\ off <= size[i] /\ off + B!ThisChunk(n) <= B!MAXFILE * BSIZE
        /\ lock' = [lock EXCEPT ![i] = p] /\ job' = [job EXCEPT ![p] = new]
    <3>1. size[i] \in Nat /\ B!ThisChunk(n) \in Nat /\ B!MAXFILE * BSIZE \in Int
      <4>1. size[i] \in Nat
        BY DEF BlocksInv, BlockTypes
      <4>2. B!MAXFILE * BSIZE \in Int
        BY DEF B!MAXFILE, BlockSizes
      <4>3. QED
        BY <4>1, <4>2, ChunkSize
    <3>2. ~(off > size[i] \/ off + B!ThisChunk(n) > B!MAXFILE * BSIZE)
          /\ lock' = [lock EXCEPT ![i] = p] /\ job' = [job EXCEPT ![p] = new]
      BY <1>4 DEF B!BeginChunk
    <3>3. QED
      BY <3>1, <3>2
  <2>2. /\ job' \in [Proc -> JobTypes] /\ job'[p] = new
        /\ \A q \in Proc : q # p => job'[q] = job[q]
    <3> HIDE DEF new
    <3>1. QED
      BY <1>2, <2>1, JobChange DEF BlocksInv
  <2>3. /\ lock' \in [Inode -> Proc \cup {None}] /\ lock'[i] = p
        /\ \A o \in Inode : o # i => lock'[o] = lock[o]
    BY <2>1 DEF BlocksInv, BlockTypes
  <2> HIDE DEF new
  <2>4. BlockTypes'
    BY <1>1, <2>2, <2>3 DEF BlocksInv, BlockTypes
  <2>5. Mine(p, i) /\ Within(p, i) /\ Leaves(p, i)
    BY <1>1, <1>2, <2>2, <2>3 DEF Mine, Within, Leaves, HasLock, Writes
  <2>6. \A k \in Place : Named(i, k)' = Named(i, k)
    <3>1. Gone(i)' = 0 /\ Gone(i) = 0
      BY <1>1, <1>2, <2>2, <2>3 DEF Gone
    <3>2. QED
      BY <1>1, <3>1 DEF Named, Ind
  <2>7. Settled(i) /\ size[i] \in Nat
    BY <1>1 DEF BlocksInv, FileInv, BlockTypes
  <2>8. \A bn \in BlockNo : Below(bn, off) => Below(bn, size[i])
    <3>1. \A bn \in BlockNo : bn * BSIZE \in Int
      BY DEF BlockNo, BlockSizes
    <3>2. QED
      BY <2>1, <2>7, <3>1 DEF Below
  <2>9. InWritei(i, p)'
    <3>1. n > 0 /\ 0 < B!ThisChunk(n) /\ off + B!ThisChunk(n) - 0 <= B!MAXFILE * BSIZE /\ 0 <= off
      BY <2>1, ChunkSize DEF BlockSizes, B!MAXFILE
    <3>2. \A bn \in BlockNo : B!Mapped(i, bn)' = B!Mapped(i, bn)
      BY <1>1 DEF B!Mapped
    <3>3. \A bn \in BlockNo :
            /\ Below(bn, size[i]) \/ Below(bn, off) => B!Mapped(i, bn) # 0
            /\ B!Mapped(i, bn) # 0 => Below(bn, size[i])
      BY <2>7, <2>8 DEF Settled
    <3>4. (B!ThisChunk(n))' = B!ThisChunk(n)
      BY DEF B!ThisChunk
    <3>5. logged'[p] = {}
      BY <1>1
    <3>6. QED
      BY <1>1, <1>2, <2>2, <2>7, <3>1, <3>2, <3>3, <3>4, <3>5 DEF InWritei, Below, Settled, B!ThisChunk
  <2>10. FileInv(i)'
    BY <1>2, <2>2, <2>3, <2>9 DEF FileInv, Writes, BlockSizes
  <2>11. QED
    BY <1>1, <2>4, <2>5, <2>6, <2>10, QuietStep
<1>5. QED
  BY <1>3, <1>4

LEMMA EndChunkStep == ASSUME BlockSizes, BlocksInv, NEW p \in Proc, B!EndChunk(p) PROVE BlocksInv'
<1>0. PICK i \in Inode : i = job[p].i /\ lock[i] = p
  BY DEF B!EndChunk, B!At, BlocksInv, LocksHeld, HasLock, Writes
<1> DEFINE j == job[p]  left == j.n - j.tot
           next == [B!Idle EXCEPT !.pc = "begin", !.i = j.i, !.off = j.off, !.n = left]
           new == IF left = 0 THEN B!Idle ELSE next
<1>1. /\ j.pc = "end" /\ lock' = [lock EXCEPT ![i] = None] /\ job' = [job EXCEPT ![p] = new]
      /\ logged' = [logged EXCEPT ![p] = {}]
      /\ UNCHANGED <<used, ptr, addrs, size, dinode, panicked>>
  BY <1>0 DEF B!EndChunk, B!At, B!disk
<1>2. j.i = i /\ lock[i] = p
  BY <1>0
<1>3. Settled(i) /\ j.tot = B!ThisChunk(j.n)
  BY <1>1, <1>2 DEF BlocksInv, FileInv, Writes, InWritei, BlockSizes
<1>4. left \in Nat /\ j.off \in Nat
  <2>1. j.off \in Nat /\ j.n \in Nat /\ j.tot \in Nat
    BY JobFields DEF BlocksInv
  <2>2. B!ThisChunk(j.n) \in Nat /\ B!ThisChunk(j.n) <= j.n
    BY <2>1, ChunkSize
  <2>3. QED
    BY <1>3, <2>1, <2>2
<1>5. B!Idle \in JobTypes /\ B!Idle.pc = "user"
  BY DEF B!Idle, JobTypes, HasLock, Writes
<1>6. next \in JobTypes /\ next.pc = "begin" /\ next.i = i /\ next.n = left
  BY <1>2, <1>4 DEF B!Idle, JobTypes, HasLock, Writes
<1>7. /\ new \in JobTypes /\ new.pc \in {"user", "begin"}
      /\ new.pc = "begin" => new.i \in Inode /\ new.n > 0
  <2> HIDE DEF next
  <2>1. CASE left = 0
    BY <1>5, <2>1
  <2>2. CASE left # 0
    BY <1>2, <1>4, <1>6, <2>2
  <2>3. QED
    BY <2>1, <2>2
<1> HIDE DEF new, next, left
<1>8. /\ job' \in [Proc -> JobTypes] /\ job'[p] = new /\ \A q \in Proc : q # p => job'[q] = job[q]
  BY <1>1, <1>7, JobChange DEF BlocksInv
<1>9. /\ lock' \in [Inode -> Proc \cup {None}] /\ lock'[i] = None
      /\ \A o \in Inode : o # i => lock'[o] = lock[o]
  BY <1>1, <1>2 DEF BlocksInv, BlockTypes
<1>10. /\ logged' \in [Proc -> SUBSET Entries] /\ logged'[p] = {}
       /\ \A q \in Proc : q # p => logged'[q] = logged[q]
  BY <1>1, LogChange DEF BlocksInv
<1>11. BlockTypes'
  BY <1>1, <1>8, <1>9, <1>10 DEF BlocksInv, BlockTypes
<1>12. Mine(p, i) /\ Within(p, i) /\ Leaves(p, i)
  BY <1>1, <1>2, <1>7, <1>8, <1>9, <1>10 DEF Mine, Within, Leaves, HasLock, Writes
<1>13. \A k \in Place : Named(i, k)' = Named(i, k)
  <2>1. Gone(i)' = 0 /\ Gone(i) = 0
    BY <1>1, <1>2, <1>9 DEF Gone
  <2>2. QED
    BY <1>1, <2>1 DEF Named, Ind
<1>14. FileInv(i)'
  BY <1>1, <1>3, <1>9 DEF FileInv, Settled, B!Mapped
<1>15. QED
  BY <1>1, <1>2, <1>11, <1>12, <1>13, <1>14, QuietStep

LEMMA TruncStep == ASSUME BlockSizes, BlocksInv, NEW p \in Proc, B!Trunc(p) PROVE BlocksInv'
<1>1. job[p].pc = "user" /\ UNCHANGED <<used, ptr, addrs, size, dinode, logged, panicked>>
  BY DEF B!Trunc, B!At, B!disk
<1>2. PICK i \in Inode :
        /\ lock[i] = None /\ lock' = [lock EXCEPT ![i] = p]
        /\ job' = [job EXCEPT ![p] = [job[p] EXCEPT !.pc = "direct", !.i = i, !.k = 0]]
  <2>1. job \in [Proc -> JobTypes]
    BY DEF BlocksInv, BlockTypes
  <2>2. QED
    BY <2>1 DEF B!Trunc
<1> DEFINE new == [job[p] EXCEPT !.pc = "direct", !.i = i, !.k = 0]
<1>3. new \in JobTypes /\ new.pc = "direct" /\ new.i = i /\ new.k = 0
  <2>1. job[p] \in JobTypes
    BY JobFields DEF BlocksInv
  <2>2. QED
    BY <2>1 DEF JobTypes, HasLock
<1> HIDE DEF new
<1>4. /\ job' \in [Proc -> JobTypes] /\ job'[p] = new /\ \A q \in Proc : q # p => job'[q] = job[q]
  BY <1>2, <1>3, JobChange DEF BlocksInv, new
<1>5. /\ lock' \in [Inode -> Proc \cup {None}] /\ lock'[i] = p
      /\ \A o \in Inode : o # i => lock'[o] = lock[o]
  BY <1>2 DEF BlocksInv, BlockTypes
<1>6. BlockTypes'
  BY <1>1, <1>4, <1>5 DEF BlocksInv, BlockTypes
<1>7. Mine(p, i) /\ Within(p, i) /\ Leaves(p, i)
  BY <1>1, <1>2, <1>3, <1>4, <1>5 DEF Mine, Within, Leaves, HasLock
<1>8. \A k \in Place : Named(i, k)' = Named(i, k)
  <2>1. Gone(i)' = 0 /\ Gone(i) = 0
    BY <1>2, <1>3, <1>4, <1>5 DEF Gone
  <2>2. QED
    BY <1>1, <2>1 DEF Named, Ind
<1>9. FileInv(i)'
  <2>1. logged'[p] = {}
    BY <1>1 DEF BlocksInv, LocksHeld
  <2>2. InItrunc(i, p)'
    BY <1>3, <1>4, <2>1 DEF InItrunc, BlockSizes
  <2>3. QED
    BY <1>3, <1>4, <1>5, <2>2 DEF FileInv, Writes, BlockSizes
<1>10. QED
  BY <1>1, <1>6, <1>7, <1>8, <1>9, QuietStep

LEMMA TruncUpdateStep == ASSUME BlockSizes, BlocksInv, NEW p \in Proc, B!TruncUpdate(p) PROVE BlocksInv'
<1>0. PICK i \in Inode : i = job[p].i /\ lock[i] = p
  BY DEF B!TruncUpdate, B!At, BlocksInv, LocksHeld, HasLock, Writes
<1>1. /\ job[p].pc = "update" /\ lock' = [lock EXCEPT ![i] = None]
      /\ job' = [job EXCEPT ![p] = B!Idle] /\ logged' = [logged EXCEPT ![p] = {}]
      /\ size' = [size EXCEPT ![i] = 0] /\ dinode' = [dinode EXCEPT ![i] = <<addrs[i], 0>>]
      /\ UNCHANGED <<used, ptr, addrs, panicked>>
  BY <1>0 DEF B!TruncUpdate, B!At
<1>2. job[p].i = i /\ lock[i] = p
  BY <1>0
<1>3. \A k \in 0 .. NDIRECT : addrs[i][k] = 0
  BY <1>1, <1>2 DEF BlocksInv, FileInv, Writes, InItrunc, BlockSizes
<1>4. B!Idle \in JobTypes /\ B!Idle.pc = "user"
  BY DEF B!Idle, JobTypes, HasLock, Writes
<1>5. /\ job' \in [Proc -> JobTypes] /\ job'[p] = B!Idle /\ \A q \in Proc : q # p => job'[q] = job[q]
  BY <1>1, <1>4, JobChange DEF BlocksInv
<1>6. /\ lock' \in [Inode -> Proc \cup {None}] /\ lock'[i] = None
      /\ \A o \in Inode : o # i => lock'[o] = lock[o]
  BY <1>1, <1>2 DEF BlocksInv, BlockTypes
<1>7. /\ logged' \in [Proc -> SUBSET Entries] /\ logged'[p] = {}
      /\ \A q \in Proc : q # p => logged'[q] = logged[q]
  BY <1>1, LogChange DEF BlocksInv
<1>8. /\ size' \in [Inode -> Nat] /\ size'[i] = 0 /\ \A o \in Inode : o # i => size'[o] = size[o]
  BY <1>1, <1>2 DEF BlocksInv, BlockTypes
<1>9. /\ dinode' \in [Inode -> Dinode] /\ dinode'[i] = <<addrs[i], 0>>
      /\ \A o \in Inode : o # i => dinode'[o] = dinode[o]
  <2>1. addrs[i] \in [0 .. NDIRECT -> Blk] /\ dinode \in [Inode -> Dinode]
    BY <1>2 DEF BlocksInv, BlockTypes
  <2>2. <<addrs[i], 0>> \in Dinode
    BY <2>1 DEF Dinode
  <2>3. QED
    BY <1>1, <1>2, <2>1, <2>2
<1>10. BlockTypes'
  BY <1>1, <1>5, <1>6, <1>7, <1>8, <1>9 DEF BlocksInv, BlockTypes
<1>11. Mine(p, i) /\ Within(p, i) /\ Leaves(p, i)
  BY <1>1, <1>2, <1>4, <1>5, <1>6, <1>7, <1>8, <1>9 DEF Mine, Within, Leaves, HasLock, Writes
<1>12. \A k \in Place : Named(i, k)' = Named(i, k)
  <2>1. Gone(i)' = 0 /\ Gone(i) = 0
    BY <1>1, <1>2, <1>6 DEF Gone
  <2>2. QED
    BY <1>1, <2>1 DEF Named, Ind
<1>13. FileInv(i)'
  <2>1. ASSUME NEW bn \in BlockNo PROVE B!Mapped(i, bn)' = 0 /\ ~Below(bn, 0)
    <3>1. bn \in Nat /\ bn * BSIZE >= 0 /\ bn * BSIZE \in Int
      BY DEF BlockNo, BlockSizes
    <3>2. NDIRECT \in 0 .. NDIRECT
      BY DEF BlockSizes
    <3>3. bn < NDIRECT => bn \in 0 .. NDIRECT
      BY <3>1 DEF BlockSizes
    <3>4. QED
      BY <1>1, <1>3, <3>1, <3>2, <3>3 DEF B!Mapped, Below
  <2>2. Settled(i)'
    BY <1>1, <1>8, <1>9, <2>1 DEF Settled, Below
  <2>3. QED
    BY <1>6, <2>2 DEF FileInv
<1>14. QED
  BY <1>1, <1>2, <1>10, <1>11, <1>12, <1>13, QuietStep

LEMMA ReadStep == ASSUME BlockSizes, BlocksInv, NEW p \in Proc, B!Read(p) PROVE BlocksInv'
<1>1. PICK i \in Inode : lock[i] = None /\ \E bn \in 0 .. B!MAXFILE - 1 : bn * BSIZE < size[i] /\ B!Mapped(i, bn) = 0
  BY DEF B!Read
<1>2. 0 .. B!MAXFILE - 1 = BlockNo
  BY DEF B!MAXFILE, BlockNo, BlockSizes
<1>3. Settled(i)
  BY <1>1 DEF BlocksInv, FileInv
<1> QED  BY <1>1, <1>2, <1>3 DEF Settled, Below

-----------------------------------------------------------------------------
(* itrunc.                                                                 *)

LEMMA JunkBlock == ASSUME BlockSizes, NEW b \in B!Block PROVE [k \in 0 .. NINDIRECT - 1 |-> B!Junk] \in [0 .. NINDIRECT - 1 -> Blk]
<1>1. B!Junk \in Blk
  BY DEF B!Junk, Blk, B!Block, BlockSizes
<1> QED  BY <1>1

LEMMA PtrChange ==
  ASSUME BlockTypes, NEW b \in B!Block, NEW f \in [0 .. NINDIRECT - 1 -> Blk], ptr' = [ptr EXCEPT ![b] = f]
  PROVE  /\ ptr' \in [B!Block -> [0 .. NINDIRECT - 1 -> Blk]] /\ ptr'[b] = f
         /\ \A c \in B!Block : c # b => ptr'[c] = ptr[c]
<1>1. ptr \in [B!Block -> [0 .. NINDIRECT - 1 -> Blk]]
  BY DEF BlockTypes
<1> QED  BY <1>1

LEMMA BfreeFacts ==
  ASSUME BlockSizes, BlocksInv, NEW p \in Proc, NEW i \in Inode, NEW k \in Place, Named(i, k) # 0,
         B!Bfree(p, Named(i, k))
  PROVE  /\ used' = used \ {Named(i, k)} /\ used' \in SUBSET B!Block /\ panicked' = panicked
         /\ ptr' \in [B!Block -> [0 .. NINDIRECT - 1 -> Blk]]
         /\ \A o \in Inode : Ind(o) # 0 /\ Ind(o) # Named(i, k) => ptr'[Ind(o)] = ptr[Ind(o)]
         /\ logged' \in [Proc -> SUBSET Entries] /\ logged'[p] = logged[p] \cup {<<"bitmap">>}
         /\ \A q \in Proc : q # p => logged'[q] = logged[q]
<1> PICK b : b = Named(i, k)
  OBVIOUS
<1>1. b \in used /\ used \in SUBSET B!Block
  BY DEF BlocksInv, NamedOnce, BlockTypes
<1>2. /\ used' = used \ {b} /\ logged' = [logged EXCEPT ![p] = logged[p] \cup {<<"bitmap">>}]
      /\ panicked' = panicked /\ ptr' = [ptr EXCEPT ![b] = [l \in 0 .. NINDIRECT - 1 |-> B!Junk]]
  BY <1>1 DEF B!Bfree, B!Log
<1>3. /\ ptr' \in [B!Block -> [0 .. NINDIRECT - 1 -> Blk]]
      /\ \A c \in B!Block : c # b => ptr'[c] = ptr[c]
  <2> DEFINE f == [l \in 0 .. NINDIRECT - 1 |-> B!Junk]
  <2>1. f \in [0 .. NINDIRECT - 1 -> Blk] /\ b \in B!Block
    BY <1>1, JunkBlock
  <2> HIDE DEF f
  <2>2. QED
    BY <1>2, <2>1, PtrChange DEF f, BlocksInv
<1>4. \A o \in Inode : Ind(o) # 0 => Ind(o) \in B!Block
  BY NamedTypes DEF BlocksInv, Blk
<1>5. /\ logged' \in [Proc -> SUBSET Entries] /\ logged'[p] = logged[p] \cup {<<"bitmap">>}
      /\ \A q \in Proc : q # p => logged'[q] = logged[q]
  <2>1. logged[p] \cup {<<"bitmap">>} \subseteq Entries
    BY JobFields DEF BlocksInv, Entries
  <2>2. QED
    BY <1>2, <2>1, LogChange DEF BlocksInv
<1> QED  BY <1>1, <1>2, <1>3, <1>4, <1>5

LEMMA AddrChange ==
  ASSUME BlockTypes, NEW i \in Inode, NEW k \in 0 .. NDIRECT, NEW b \in Blk, addrs' = [addrs EXCEPT ![i][k] = b]
  PROVE  /\ addrs' \in [Inode -> [0 .. NDIRECT -> Blk]]
         /\ addrs'[i][k] = b /\ \A l \in 0 .. NDIRECT : l # k => addrs'[i][l] = addrs[i][l]
         /\ \A o \in Inode : o # i => addrs'[o] = addrs[o]
<1>1. addrs \in [Inode -> [0 .. NDIRECT -> Blk]]
  BY DEF BlockTypes
<1> QED  BY <1>1

LEMMA TruncDirectStep == ASSUME BlockSizes, BlocksInv, NEW p \in Proc, B!TruncDirect(p) PROVE BlocksInv'
<1>0. PICK i \in Inode : i = job[p].i /\ lock[i] = p
  BY DEF B!TruncDirect, B!At, BlocksInv, LocksHeld, HasLock, Writes
<1> PICK k \in Nat : k = job[p].k
  BY JobFields DEF BlocksInv
<1>1. job[p].pc = "direct" /\ job[p].i = i /\ lock[i] = p /\ UNCHANGED <<size, dinode, lock>>
  BY <1>0 DEF B!TruncDirect, B!At
<1>2. /\ logged[p] \subseteq {<<"bitmap">>} /\ k <= NDIRECT
      /\ \A l \in 0 .. NDIRECT - 1 : l < k => addrs[i][l] = 0
  BY <1>1 DEF BlocksInv, FileInv, Writes, InItrunc, BlockSizes
<1>3. job[p] \in JobTypes /\ job \in [Proc -> JobTypes] /\ NDIRECT \in Nat /\ NINDIRECT \in Nat
  BY DEF BlocksInv, BlockTypes, BlockSizes
<1>4. Mine(p, i) /\ Gone(i) = 0
  BY <1>1 DEF Mine, HasLock, Gone
<1>5. CASE k = NDIRECT
  <2> DEFINE to == IF Ind(i) # 0 THEN "indirect" ELSE "update"
             new == [job[p] EXCEPT !.k = 0, !.pc = to]
  <2>1. /\ job' = [job EXCEPT ![p].k = 0, ![p].pc = to]
        /\ UNCHANGED <<used, ptr, addrs, logged, panicked>>
    BY <1>0, <1>5 DEF B!TruncDirect, Ind
  <2>2. new \in JobTypes /\ new.pc = to /\ new.i = i /\ new.k = 0
    BY <1>1, <1>3 DEF JobTypes, HasLock
  <2>3. job' = [job EXCEPT ![p] = new]
    BY <1>3, <2>1
  <2> HIDE DEF new
  <2>4. /\ job' \in [Proc -> JobTypes] /\ job'[p] = new /\ \A q \in Proc : q # p => job'[q] = job[q]
    BY <2>2, <2>3, JobChange DEF BlocksInv
  <2>5. BlockTypes'
    BY <1>1, <2>1, <2>4 DEF BlocksInv, BlockTypes
  <2>6. Within(p, i) /\ Leaves(p, i)
    BY <1>1, <2>1, <2>2, <2>4 DEF Within, Leaves, HasLock
  <2>7. Gone(i)' = 0
    BY <1>1, <2>2, <2>4 DEF Gone
  <2>8. \A l \in Place : Named(i, l)' = Named(i, l)
    BY <1>4, <2>1, <2>7 DEF Named, Ind
  <2>9. \A l \in 0 .. NDIRECT : l # NDIRECT => addrs[i][l] = 0
    BY <1>2, <1>3, <1>5
  <2>10. InItrunc(i, p)'
    BY <1>2, <1>3, <2>1, <2>2, <2>4, <2>9 DEF InItrunc, Ind
  <2>11. FileInv(i)'
    BY <1>1, <2>2, <2>4, <2>10 DEF FileInv, Writes, BlockSizes
  <2>12. QED
    BY <1>4, <2>1, <2>5, <2>6, <2>8, <2>11, QuietStep
<1>6. CASE k # NDIRECT
  <2> DEFINE new == [job[p] EXCEPT !.k = k + 1]
  <2>1. /\ job' = [job EXCEPT ![p].k = k + 1] /\ addrs' = [addrs EXCEPT ![i][k] = 0]
        /\ IF addrs[i][k] # 0 THEN B!Bfree(p, addrs[i][k]) ELSE UNCHANGED <<used, ptr, logged, panicked>>
    BY <1>0, <1>6 DEF B!TruncDirect
  <2>2. new \in JobTypes /\ new.pc = "direct" /\ new.i = i /\ new.k = k + 1
    BY <1>1, <1>3 DEF JobTypes
  <2>3. job' = [job EXCEPT ![p] = new]
    BY <1>3, <2>1
  <2> HIDE DEF new
  <2>4. /\ job' \in [Proc -> JobTypes] /\ job'[p] = new /\ \A q \in Proc : q # p => job'[q] = job[q]
    BY <2>2, <2>3, JobChange DEF BlocksInv
  <2>5. /\ k \in Place /\ k \in 0 .. NDIRECT /\ k < NDIRECT /\ Named(i, k) = addrs[i][k]
    BY <1>2, <1>3, <1>6 DEF Place, Named
  <2>6. /\ addrs' \in [Inode -> [0 .. NDIRECT -> Blk]]
        /\ addrs'[i][k] = 0 /\ \A l \in 0 .. NDIRECT : l # k => addrs'[i][l] = addrs[i][l]
        /\ \A o \in Inode : o # i => addrs'[o] = addrs[o]
    <3>1. 0 \in Blk
      BY DEF Blk
    <3>2. BlockTypes /\ i \in Inode /\ k \in 0 .. NDIRECT /\ addrs' = [addrs EXCEPT ![i][k] = 0]
      BY <2>1, <2>5 DEF BlocksInv
    <3>3. QED
      BY ONLY <3>1, <3>2, AddrChange
  <2>7. Gone(i)' = 0 /\ Ind(i)' = Ind(i)
    <3>1. NDIRECT \in 0 .. NDIRECT
      BY <1>3
    <3>2. QED
      BY <1>1, <2>2, <2>4, <2>5, <2>6, <3>1 DEF Gone, Ind
  <2>8. logged'[p] \subseteq {<<"bitmap">>} => FileInv(i)'
    <3>1. \A l \in 0 .. NDIRECT - 1 : l < k + 1 => addrs'[i][l] = 0
      BY <1>2, <1>3, <2>5, <2>6
    <3>2. logged'[p] \subseteq {<<"bitmap">>} => InItrunc(i, p)'
      BY <1>3, <2>2, <2>4, <2>5, <3>1 DEF InItrunc
    <3>3. QED
      BY <1>1, <2>2, <2>4, <3>2 DEF FileInv, Writes, BlockSizes
  <2>9. CASE addrs[i][k] = 0
    <3>1. UNCHANGED <<used, ptr, logged, panicked>>
      BY <2>1, <2>9
    <3>2. BlockTypes'
      BY <1>1, <2>4, <2>6, <3>1 DEF BlocksInv, BlockTypes
    <3>3. Within(p, i) /\ Leaves(p, i)
      BY <1>1, <2>2, <2>4, <2>6, <3>1 DEF Within, Leaves, HasLock
    <3>4. ASSUME NEW l \in Place PROVE Named(i, l)' = Named(i, l)
      <4>1. l <= NDIRECT => l \in 0 .. NDIRECT
        BY <1>3 DEF Place
      <4>2. QED
        BY <1>4, <2>6, <2>7, <2>9, <3>1, <4>1 DEF Named
    <3>5. QED
      BY <1>2, <1>4, <2>8, <3>1, <3>2, <3>3, <3>4, QuietStep
  <2>10. CASE addrs[i][k] # 0
    <3>1. /\ used' = used \ {Named(i, k)} /\ used' \in SUBSET B!Block /\ panicked' = panicked
          /\ ptr' \in [B!Block -> [0 .. NINDIRECT - 1 -> Blk]]
          /\ \A o \in Inode : Ind(o) # 0 /\ Ind(o) # Named(i, k) => ptr'[Ind(o)] = ptr[Ind(o)]
          /\ logged' \in [Proc -> SUBSET Entries] /\ logged'[p] = logged[p] \cup {<<"bitmap">>}
          /\ \A q \in Proc : q # p => logged'[q] = logged[q]
      <4>1. Named(i, k) # 0 /\ B!Bfree(p, Named(i, k))
        BY <2>1, <2>5, <2>10
      <4>2. QED
        BY <2>5, <4>1, BfreeFacts
    <3>2. \A o \in Inode : Ind(o) # 0 => ptr'[Ind(o)] = ptr[Ind(o)]
      <4>1. \A o \in Inode : Ind(o) # Named(i, k)
        BY <1>3, <2>5, <2>10, OtherBlock
      <4>2. QED
        BY <3>1, <4>1
    <3>3. BlockTypes'
      BY <1>1, <2>4, <2>6, <3>1 DEF BlocksInv, BlockTypes
    <3>4. Within(p, i) /\ Leaves(p, i)
      BY <1>1, <2>2, <2>4, <2>6, <3>1, <3>2 DEF Within, Leaves, HasLock
    <3>5. ASSUME NEW l \in Place PROVE Named(i, l)' = IF l = k THEN 0 ELSE Named(i, l)
      <4>1. l <= NDIRECT => l \in 0 .. NDIRECT
        BY <1>3 DEF Place
      <4>2. CASE l <= NDIRECT
        BY <2>6, <4>1, <4>2 DEF Named
      <4>3. CASE ~(l <= NDIRECT)
        BY <1>4, <2>5, <2>7, <3>2, <4>3 DEF Named, Place
      <4>4. QED
        BY <4>2, <4>3
    <3>6. Named(i, k) # 0
      BY <2>5, <2>10
    <3>7. FileInv(i)'
      BY <1>2, <2>8, <3>1
    <3>8. QED
      BY <1>4, <2>5, <3>1, <3>3, <3>4, <3>5, <3>6, <3>7, TakingStep
  <2>11. QED
    BY <2>9, <2>10
<1>7. QED
  BY <1>5, <1>6

LEMMA TruncIndirectStep == ASSUME BlockSizes, BlocksInv, NEW p \in Proc, B!TruncIndirect(p) PROVE BlocksInv'
<1>0. PICK i \in Inode : i = job[p].i /\ lock[i] = p
  BY DEF B!TruncIndirect, B!At, BlocksInv, LocksHeld, HasLock, Writes
<1> PICK k \in Nat : k = job[p].k
  BY JobFields DEF BlocksInv
<1>1. job[p].pc = "indirect" /\ job[p].i = i /\ lock[i] = p /\ UNCHANGED <<size, dinode, lock>>
  BY <1>0 DEF B!TruncIndirect, B!At
<1>2. /\ logged[p] \subseteq {<<"bitmap">>} /\ k <= NINDIRECT /\ Ind(i) # 0
      /\ \A l \in 0 .. NDIRECT - 1 : addrs[i][l] = 0
  BY <1>1 DEF BlocksInv, FileInv, Writes, InItrunc, BlockSizes
<1>3. job[p] \in JobTypes /\ job \in [Proc -> JobTypes] /\ NDIRECT \in Nat /\ NINDIRECT \in Nat
  BY DEF BlocksInv, BlockTypes, BlockSizes
<1>4. Mine(p, i) /\ Gone(i) = k
  BY <1>1 DEF Mine, HasLock, Gone, BlockSizes
<1>5. CASE k = NINDIRECT
  <2> DEFINE new == [job[p] EXCEPT !.pc = "update"]
  <2>1. /\ job' = [job EXCEPT ![p].pc = "update"] /\ addrs' = [addrs EXCEPT ![i][NDIRECT] = 0]
        /\ B!Bfree(p, Ind(i))
    BY <1>0, <1>5 DEF B!TruncIndirect, Ind, B!Goto
  <2>2. new \in JobTypes /\ new.pc = "update" /\ new.i = i
    BY <1>1, <1>3 DEF JobTypes, HasLock
  <2>3. job' = [job EXCEPT ![p] = new]
    BY <1>3, <2>1
  <2> HIDE DEF new
  <2>4. /\ job' \in [Proc -> JobTypes] /\ job'[p] = new /\ \A q \in Proc : q # p => job'[q] = job[q]
    BY <2>2, <2>3, JobChange DEF BlocksInv
  <2>5. NDIRECT \in 0 .. NDIRECT /\ NDIRECT \in Place /\ Named(i, NDIRECT) = Ind(i)
    BY <1>3, NamedTypes DEF BlocksInv
  <2>6. /\ addrs' \in [Inode -> [0 .. NDIRECT -> Blk]]
        /\ addrs'[i][NDIRECT] = 0 /\ \A l \in 0 .. NDIRECT : l # NDIRECT => addrs'[i][l] = addrs[i][l]
        /\ \A o \in Inode : o # i => addrs'[o] = addrs[o]
    <3>1. 0 \in Blk
      BY DEF Blk
    <3>2. BlockTypes /\ i \in Inode /\ NDIRECT \in 0 .. NDIRECT /\ addrs' = [addrs EXCEPT ![i][NDIRECT] = 0]
      BY <2>1, <2>5 DEF BlocksInv
    <3>3. QED
      BY ONLY <3>1, <3>2, AddrChange
  <2>7. /\ used' = used \ {Named(i, NDIRECT)} /\ used' \in SUBSET B!Block /\ panicked' = panicked
        /\ ptr' \in [B!Block -> [0 .. NINDIRECT - 1 -> Blk]]
        /\ \A o \in Inode : Ind(o) # 0 /\ Ind(o) # Named(i, NDIRECT) => ptr'[Ind(o)] = ptr[Ind(o)]
        /\ logged' \in [Proc -> SUBSET Entries] /\ logged'[p] = logged[p] \cup {<<"bitmap">>}
        /\ \A q \in Proc : q # p => logged'[q] = logged[q]
    <3>1. Named(i, NDIRECT) # 0 /\ B!Bfree(p, Named(i, NDIRECT))
      BY <1>2, <2>1, <2>5
    <3>2. QED
      BY <2>5, <3>1, BfreeFacts
  <2>8. \A o \in Inode : o # i /\ Ind(o) # 0 => ptr'[Ind(o)] = ptr[Ind(o)]
    <3>1. \A o \in Inode : o # i => Ind(o) # Named(i, NDIRECT)
      BY <1>2, <2>5, OtherBlock
    <3>2. QED
      BY <2>7, <3>1
  <2>9. BlockTypes'
    BY <1>1, <2>4, <2>6, <2>7 DEF BlocksInv, BlockTypes
  <2>10. Within(p, i) /\ Leaves(p, i)
    BY <1>1, <2>2, <2>4, <2>6, <2>7, <2>8 DEF Within, Leaves, HasLock
  <2>11. ASSUME NEW l \in Place PROVE Named(i, l)' = IF l = NDIRECT THEN 0 ELSE Named(i, l)
    <3>1. l <= NDIRECT => l \in 0 .. NDIRECT
      BY <1>3 DEF Place
    <3>2. CASE l <= NDIRECT
      BY <2>6, <3>1, <3>2 DEF Named
    <3>3. CASE ~(l <= NDIRECT)
      <4>1. l - NDIRECT - 1 < k /\ l # NDIRECT
        BY <1>3, <1>5, <3>3 DEF Place
      <4>2. Named(i, l) = 0
        BY <1>4, <3>3, <4>1 DEF Named
      <4>3. Named(i, l)' = 0
        BY <2>6, <3>3 DEF Named, Ind
      <4>4. QED
        BY <4>1, <4>2, <4>3
    <3>4. QED
      BY <3>2, <3>3
  <2>12. FileInv(i)'
    <3>1. \A l \in 0 .. NDIRECT : addrs'[i][l] = 0
      <4>1. \A l \in 0 .. NDIRECT : l # NDIRECT => l \in 0 .. NDIRECT - 1
        BY <1>3
      <4>2. QED
        BY <1>2, <2>6, <4>1
    <3>2. InItrunc(i, p)'
      BY <1>2, <2>2, <2>4, <2>7, <3>1 DEF InItrunc
    <3>3. QED
      BY <1>1, <2>2, <2>4, <3>2 DEF FileInv, Writes, BlockSizes
  <2>13. QED
    BY <1>2, <1>4, <2>5, <2>7, <2>9, <2>10, <2>11, <2>12, TakingStep
<1>6. CASE k # NINDIRECT
  <2> DEFINE new == [job[p] EXCEPT !.k = k + 1]  spot == NDIRECT + 1 + k  b == ptr[Ind(i)][k]
  <2>1. /\ job' = [job EXCEPT ![p].k = k + 1] /\ UNCHANGED addrs
        /\ IF b # 0 THEN B!Bfree(p, b) ELSE UNCHANGED <<used, ptr, logged, panicked>>
    BY <1>0, <1>6 DEF B!TruncIndirect, Ind
  <2>2. new \in JobTypes /\ new.pc = "indirect" /\ new.i = i /\ new.k = k + 1
    BY <1>1, <1>3 DEF JobTypes
  <2>3. job' = [job EXCEPT ![p] = new]
    BY <1>3, <2>1
  <2> HIDE DEF new
  <2>4. /\ job' \in [Proc -> JobTypes] /\ job'[p] = new /\ \A q \in Proc : q # p => job'[q] = job[q]
    BY <2>2, <2>3, JobChange DEF BlocksInv
  <2>5. /\ spot \in Place /\ spot # NDIRECT /\ ~(spot <= NDIRECT) /\ spot - NDIRECT - 1 = k /\ k < NINDIRECT
    BY <1>2, <1>3, <1>6 DEF Place
  <2>6. Named(i, spot) = b
    BY <1>2, <1>4, <2>5 DEF Named
  <2>7. Gone(i)' = k + 1 /\ Ind(i)' = Ind(i)
    BY <1>1, <2>1, <2>2, <2>4 DEF Gone, Ind, BlockSizes
  <2>8. logged'[p] \subseteq {<<"bitmap">>} => FileInv(i)'
    <3>1. logged'[p] \subseteq {<<"bitmap">>} => InItrunc(i, p)'
      <4>1. addrs' = addrs /\ k + 1 <= NINDIRECT /\ job'[p].pc = "indirect" /\ job'[p].k = k + 1
        <5>1. k + 1 <= NINDIRECT
          BY <1>2, <1>3, <1>6
        <5>2. QED
          BY <2>1, <2>2, <2>4, <5>1
      <4>2. QED
        BY <1>2, <2>7, <4>1 DEF InItrunc
    <3>2. QED
      BY <1>1, <2>2, <2>4, <3>1 DEF FileInv, Writes, BlockSizes
  <2>9. ASSUME ptr'[Ind(i)] = ptr[Ind(i)], NEW l \in Place
        PROVE  Named(i, l)' = IF l = spot THEN 0 ELSE Named(i, l)
    <3>1. CASE l <= NDIRECT
      BY <2>1, <2>5, <3>1 DEF Named
    <3>2. CASE ~(l <= NDIRECT)
      <4>1. l - NDIRECT - 1 < k + 1 <=> l - NDIRECT - 1 < k \/ l = spot
        BY <1>3, <3>2 DEF Place
      <4>2. QED
        BY <1>4, <2>7, <2>9, <3>2, <4>1 DEF Named
    <3>3. QED
      BY <3>1, <3>2
  <2> HIDE DEF spot, b
  <2>10. CASE b = 0
    <3>1. UNCHANGED <<used, ptr, logged, panicked>>
      BY <2>1, <2>10
    <3>2. BlockTypes'
      BY <1>1, <2>1, <2>4, <3>1 DEF BlocksInv, BlockTypes
    <3>3. Within(p, i) /\ Leaves(p, i)
      BY <1>1, <2>1, <2>2, <2>4, <3>1 DEF Within, Leaves, HasLock
    <3>4. \A l \in Place : Named(i, l)' = Named(i, l)
      BY <2>6, <2>9, <2>10, <3>1
    <3>5. QED
      BY <1>2, <1>4, <2>8, <3>1, <3>2, <3>3, <3>4, QuietStep
  <2>11. CASE b # 0
    <3>1. /\ used' = used \ {Named(i, spot)} /\ used' \in SUBSET B!Block /\ panicked' = panicked
          /\ ptr' \in [B!Block -> [0 .. NINDIRECT - 1 -> Blk]]
          /\ \A o \in Inode : Ind(o) # 0 /\ Ind(o) # Named(i, spot) => ptr'[Ind(o)] = ptr[Ind(o)]
          /\ logged' \in [Proc -> SUBSET Entries] /\ logged'[p] = logged[p] \cup {<<"bitmap">>}
          /\ \A q \in Proc : q # p => logged'[q] = logged[q]
      <4>1. Named(i, spot) # 0 /\ B!Bfree(p, Named(i, spot))
        BY <2>1, <2>6, <2>11
      <4>2. QED
        BY <2>5, <4>1, BfreeFacts
    <3>2. \A o \in Inode : Ind(o) # 0 => ptr'[Ind(o)] = ptr[Ind(o)]
      <4>1. \A o \in Inode : Ind(o) # Named(i, spot)
        BY <2>5, <2>6, <2>11, OtherBlock
      <4>2. QED
        BY <3>1, <4>1
    <3>3. BlockTypes'
      BY <1>1, <2>1, <2>4, <3>1 DEF BlocksInv, BlockTypes
    <3>4. Within(p, i) /\ Leaves(p, i)
      BY <1>1, <2>1, <2>2, <2>4, <3>1, <3>2 DEF Within, Leaves, HasLock
    <3>5. \A l \in Place : Named(i, l)' = IF l = spot THEN 0 ELSE Named(i, l)
      BY <1>2, <2>9, <3>2
    <3>6. FileInv(i)'
      BY <1>2, <2>8, <3>1
    <3>7. QED
      BY <1>4, <2>5, <2>6, <2>11, <3>1, <3>3, <3>4, <3>5, <3>6, TakingStep
  <2>12. QED
    BY <2>10, <2>11
<1>7. QED
  BY <1>5, <1>6

-----------------------------------------------------------------------------
(* bmap.                                                                   *)

LEMMA WriteAt ==
  ASSUME BlockSizes, BlocksInv, NEW p \in Proc, NEW i \in Inode,
         job[p].pc = "write", job[p].i = i, lock[i] = p
  PROVE  /\ B!Bn(p) \in BlockNo /\ InWritei(i, p) /\ Gone(i) = 0 /\ Mine(p, i)
         /\ B!Bn(p) * BSIZE <= job[p].off /\ job[p].off < (B!Bn(p) + 1) * BSIZE
         /\ (B!Bn(p) + 1) * BSIZE = B!Bn(p) * BSIZE + BSIZE /\ B!Bn(p) * BSIZE \in Nat
         /\ job[p].off % BSIZE = job[p].off - B!Bn(p) * BSIZE
<1> DEFINE off == job[p].off  q == off \div BSIZE
<1>1. InWritei(i, p) /\ Gone(i) = 0 /\ Mine(p, i)
  BY DEF BlocksInv, FileInv, Writes, Gone, Mine, HasLock, BlockSizes
<1>2. off \in Nat /\ job[p].n \in Nat /\ job[p].tot \in Nat
  BY JobFields DEF BlocksInv
<1>3. q \in Nat /\ off % BSIZE \in Nat /\ off % BSIZE < BSIZE /\ off = q * BSIZE + (off % BSIZE)
  BY <1>2, BlockNumber
<1>4. q * BSIZE \in Nat /\ (q + 1) * BSIZE = q * BSIZE + BSIZE /\ BSIZE \in Nat
  <2>1. BSIZE \in Nat /\ BSIZE > 0
    BY DEF BlockSizes
  <2> HIDE DEF q
  <2>2. q * BSIZE \in Int /\ (q + 1) * BSIZE = q * BSIZE + BSIZE /\ q * BSIZE >= 0
    BY <1>3, <2>1, Multiples
  <2>3. QED
    BY <2>1, <2>2
<1>5. off < B!MAXFILE * BSIZE /\ B!MAXFILE = NDIRECT + NINDIRECT
  <2>1. B!MAXFILE * BSIZE \in Int /\ B!MAXFILE = NDIRECT + NINDIRECT
    BY DEF B!MAXFILE, BlockSizes
  <2>2. /\ job[p].tot < B!ThisChunk(job[p].n) /\ B!ThisChunk(job[p].n) \in Nat
        /\ off + B!ThisChunk(job[p].n) - job[p].tot <= B!MAXFILE * BSIZE
    BY <1>1, <1>2, ChunkSize DEF InWritei
  <2>3. QED
    BY <1>2, <2>1, <2>2
<1>6. q * BSIZE < (NDIRECT + NINDIRECT) * BSIZE
  <2>1. (NDIRECT + NINDIRECT) * BSIZE \in Int
    BY DEF BlockSizes
  <2> HIDE DEF q, off
  <2>2. QED
    BY <1>2, <1>3, <1>4, <1>5, <2>1
<1>7. q \in BlockNo
  <2>1. q < NDIRECT + NINDIRECT
    <3> HIDE DEF q
    <3>1. NDIRECT + NINDIRECT \in Int /\ BSIZE \in Nat /\ BSIZE > 0 /\ q \in Int
      BY <1>3 DEF BlockSizes
    <3>2. QED
      BY <1>6, <3>1, Multiples
  <2>2. QED
    BY <1>3, <2>1 DEF BlockNo, BlockSizes
<1>8. B!Bn(p) = q
  BY DEF B!Bn
<1> HIDE DEF q
<1>9. QED
  BY <1>1, <1>2, <1>3, <1>4, <1>7, <1>8

\* What allocating block b leaves of what writei has to keep.
LEMMA BmapWritei ==
  ASSUME BlockSizes, BlocksInv, NEW p \in Proc, NEW i \in Inode,
         job[p].pc = "write", job[p].i = i, lock[i] = p,
         NEW bn \in BlockNo, bn = B!Bn(p), B!Mapped(i, bn) = 0,
         UNCHANGED <<size, dinode, job>>, NEW b, b # 0,
         \A m \in BlockNo : m # bn => B!Mapped(i, m)' = B!Mapped(i, m),
         Ind(i) # 0 => Ind(i)' = Ind(i),
         \A x \in logged'[p] : x \in logged[p] \/ x = <<"bitmap">> \/ x = <<"data", b>>
                                 \/ (Ind(i) # 0 /\ x = <<"data", Ind(i)>>),
         Ind(i)' = b \/ B!Mapped(i, bn)' = b
  PROVE  InWritei(i, p)'
<1> DEFINE j == job[p]
<1>1. /\ bn \in BlockNo /\ InWritei(i, p) /\ bn * BSIZE <= j.off /\ j.off < (bn + 1) * BSIZE
      /\ bn * BSIZE \in Nat /\ (bn + 1) * BSIZE = bn * BSIZE + BSIZE
  BY WriteAt
<1>2. B!Bn(p)' = B!Bn(p) /\ job' = job /\ size' = size /\ dinode' = dinode
  BY DEF B!Bn
<1>3. size[i] <= j.off /\ j.off \in Nat /\ j.tot \in Nat /\ size[i] \in Nat
  <2>1. j.off \in Nat /\ j.tot \in Nat
    BY JobFields DEF BlocksInv
  <2>2. size[i] \in Nat
    BY DEF BlocksInv, BlockTypes
  <2>3. ~Below(bn, size[i])
    BY <1>1 DEF InWritei
  <2>4. QED
    BY <1>1, <2>1, <2>2, <2>3 DEF Below
<1>4. ~Below(bn, j.off) /\ ~Below(bn, size[i])
  BY <1>1 DEF InWritei
<1>5. \A m : Touched(p, m)' <=> Touched(p, m)
  BY <1>2 DEF Touched, Below, B!Bn
<1>6. Touched(p, bn)
  <2>1. (bn + 1) * BSIZE > j.off - j.tot
    <3>1. BSIZE \in Nat
      BY DEF BlockSizes
    <3>2. QED
      BY <1>1, <1>3, <3>1
  <2>2. QED
    BY <2>1 DEF Touched
<1>7. ASSUME NEW x \in logged'[p] PROVE Logs(p, x)'
  <2>1. CASE x = <<"bitmap">>
    BY <2>1 DEF Logs
  <2>2. CASE x = <<"data", b>>
    <3>1. CASE Ind(i)' = b
      BY <1>2, <2>2, <3>1 DEF Logs
    <3>2. CASE B!Mapped(i, bn)' = b
      <4>1. Touched(p, bn)'
        BY <1>5, <1>6
      <4>2. QED
        BY <1>1, <1>2, <2>2, <3>2, <4>1 DEF Logs
    <3>3. QED
      BY <3>1, <3>2
  <2>3. CASE Ind(i) # 0 /\ x = <<"data", Ind(i)>>
    BY <1>2, <2>3 DEF Logs
  <2>4. CASE x \in logged[p]
    <3>1. Logs(p, x)
      BY <1>1, <2>4 DEF InWritei
    <3>2. CASE x \in {<<"bitmap">>, <<"inode", i>>}
      BY <1>2, <3>2 DEF Logs
    <3>3. CASE Ind(i) # 0 /\ x = <<"data", Ind(i)>>
      BY <2>3, <3>3
    <3>4. CASE \E m \in BlockNo : Touched(p, m) /\ B!Mapped(i, m) # 0 /\ x = <<"data", B!Mapped(i, m)>>
      <4>1. PICK m \in BlockNo : Touched(p, m) /\ B!Mapped(i, m) # 0 /\ x = <<"data", B!Mapped(i, m)>>
        BY <3>4
      <4>2. m # bn
        BY <4>1
      <4>3. B!Mapped(i, m)' = B!Mapped(i, m) /\ Touched(p, m)'
        BY <1>5, <4>1, <4>2
      <4>4. QED
        BY <1>2, <4>1, <4>3 DEF Logs
    <3>5. QED
      BY <3>1, <3>2, <3>3, <3>4 DEF Logs
  <2>5. QED
    BY <2>1, <2>2, <2>3, <2>4
<1>8. ASSUME NEW m \in BlockNo
      PROVE  /\ Below(m, size[i]) \/ Below(m, j.off) => B!Mapped(i, m)' # 0
             /\ B!Mapped(i, m)' # 0 => Below(m, size[i]) \/ Below(m, j.off) \/ m = bn
  <2>1. CASE m = bn
    BY <1>4, <2>1
  <2>2. CASE m # bn
    BY <1>1, <2>2 DEF InWritei
  <2>3. QED
    BY <2>1, <2>2
<1>9. /\ j.n > 0 /\ j.tot <= j.off /\ j.tot < B!ThisChunk(j.n)
      /\ j.off + B!ThisChunk(j.n) - j.tot <= B!MAXFILE * BSIZE
  BY <1>1 DEF InWritei
<1>10. (B!ThisChunk(j.n))' = B!ThisChunk(j.n)
  BY <1>2 DEF B!ThisChunk
<1>11. QED
  BY <1>2, <1>3, <1>7, <1>8, <1>9, <1>10 DEF InWritei, Below, B!ThisChunk

LEMMA BmapStep == ASSUME BlockSizes, BlocksInv, NEW p \in Proc, B!Bmap(p) PROVE BlocksInv'
<1>0. PICK i \in Inode : i = job[p].i /\ lock[i] = p
  BY DEF B!Bmap, B!At, BlocksInv, LocksHeld, HasLock, Writes
<1>1. job[p].pc = "write" /\ job[p].i = i /\ lock[i] = p
  BY <1>0 DEF B!Bmap, B!At
<1>2. /\ B!Bn(p) \in BlockNo /\ InWritei(i, p) /\ Gone(i) = 0 /\ Mine(p, i)
  BY <1>1, WriteAt
<1> PICK bn \in BlockNo : bn = B!Bn(p)
  BY <1>2
<1>3. B!Mapped(i, bn) = 0
  BY <1>0 DEF B!Bmap
<1>4. /\ NDIRECT \in Nat /\ NINDIRECT \in Nat /\ bn \in Nat /\ bn < NDIRECT + NINDIRECT
      /\ NDIRECT \in 0 .. NDIRECT /\ NDIRECT \in Place
  BY DEF BlockSizes, BlockNo, Place
<1>5. CASE used = B!Block
  <2>1. /\ panicked' = "balloc: out of blocks"
        /\ UNCHANGED <<used, ptr, addrs, size, dinode, lock, job, logged>>
    BY <1>5 DEF B!Bmap, B!Panic, B!disk
  <2>2. BlockTypes'
    BY <2>1 DEF BlocksInv, BlockTypes
  <2>3. Same(i)
    BY <2>1 DEF Same
  <2>4. FileInv(i)' /\ \A k \in Place : Named(i, k)' = Named(i, k)
    BY <2>3, SameFile DEF BlocksInv
  <2>5. Within(p, i) /\ Leaves(p, i)
    BY <1>1, <2>1 DEF Within, Leaves, HasLock, Writes
  <2>6. QED
    BY <1>2, <2>1, <2>2, <2>4, <2>5, QuietStep
<1>6. CASE used # B!Block
  <2> PICK b \in B!Block : b = B!FirstFree /\ b \notin used
    BY <1>6, FreeBlock DEF BlocksInv
  <2>1. b # 0 /\ b \in Blk /\ used \in SUBSET B!Block /\ logged[p] \subseteq Entries
    <3>1. b # 0 /\ b \in Blk
      BY DEF B!Block, Blk
    <3>2. QED
      BY <3>1, JobFields DEF BlocksInv, BlockTypes
  <2>2. /\ used' = used \cup {b} /\ UNCHANGED <<size, dinode, job, lock, panicked>>
        /\ IF bn < NDIRECT \/ Ind(i) = 0
           THEN /\ addrs' = [addrs EXCEPT ![i][B!Min({bn, NDIRECT})] = b]
                /\ ptr' = B!Zeroed(b) /\ B!Log(p, B!AllocLogs(b))
           ELSE /\ ptr' = [B!Zeroed(b) EXCEPT ![Ind(i)][bn - NDIRECT] = b]
                /\ B!Log(p, B!AllocLogs(b) \cup {<<"data", Ind(i)>>}) /\ UNCHANGED addrs
    BY <1>0, <1>6 DEF B!Bmap, Ind
  <2>3. B!Min({bn, NDIRECT}) = IF bn < NDIRECT THEN bn ELSE NDIRECT
    BY <1>4, MinOfTwo
  <2>4. \A o \in Inode : Ind(o) # 0 => Ind(o) \in B!Block /\ Ind(o) # b
    <3>1. \A o \in Inode : Ind(o) \in Blk /\ Named(o, NDIRECT) = Ind(o)
      BY NamedTypes DEF BlocksInv
    <3>2. QED
      BY <1>4, <3>1 DEF BlocksInv, NamedOnce, Blk
  \* What bzero leaves.
  <2>5. /\ B!Zeroed(b) \in [B!Block -> [0 .. NINDIRECT - 1 -> Blk]]
        /\ \A l \in 0 .. NINDIRECT - 1 : B!Zeroed(b)[b][l] = 0
        /\ \A c \in B!Block : c # b => B!Zeroed(b)[c] = ptr[c]
    <3>1. /\ B!NoPtrs \in [0 .. NINDIRECT - 1 -> Blk]
          /\ \A l \in 0 .. NINDIRECT - 1 : B!NoPtrs[l] = 0
      BY DEF B!NoPtrs, Blk
    <3>2. ptr \in [B!Block -> [0 .. NINDIRECT - 1 -> Blk]]
      BY DEF BlocksInv, BlockTypes
    <3>3. B!Zeroed(b) = [ptr EXCEPT ![b] = B!NoPtrs]
      BY DEF B!Zeroed
    <3>4. QED
      BY <3>1, <3>2, <3>3
  <2>6. ASSUME NEW bs, bs \subseteq Entries, B!Log(p, bs)
        PROVE  /\ logged' \in [Proc -> SUBSET Entries] /\ logged'[p] = logged[p] \cup bs
               /\ \A q \in Proc : q # p => logged'[q] = logged[q]
    <3>1. logged' = [logged EXCEPT ![p] = logged[p] \cup bs] /\ logged[p] \cup bs \subseteq Entries
      BY <2>1, <2>6 DEF B!Log
    <3>2. QED
      BY <3>1, LogChange DEF BlocksInv
  <2>7. B!AllocLogs(b) = {<<"bitmap">>, <<"data", b>>} /\ B!AllocLogs(b) \subseteq Entries
    BY DEF B!AllocLogs, Entries
  <2>8. CASE bn < NDIRECT \/ Ind(i) = 0
    <3> PICK k \in 0 .. NDIRECT : k = B!Min({bn, NDIRECT})
      BY <1>4, <2>3
    <3>1. addrs' = [addrs EXCEPT ![i][k] = b] /\ ptr' = B!Zeroed(b) /\ B!Log(p, B!AllocLogs(b))
      BY <2>2, <2>8
    <3>2. /\ addrs' \in [Inode -> [0 .. NDIRECT -> Blk]]
          /\ addrs'[i][k] = b /\ \A l \in 0 .. NDIRECT : l # k => addrs'[i][l] = addrs[i][l]
          /\ \A o \in Inode : o # i => addrs'[o] = addrs[o]
      <4>1. b \in Blk /\ BlockTypes /\ i \in Inode /\ k \in 0 .. NDIRECT
        BY <2>1 DEF BlocksInv
      <4>2. addrs' = [addrs EXCEPT ![i][k] = b]
        BY <3>1
      <4>3. QED
        BY ONLY <4>1, <4>2, AddrChange
    <3>3. /\ logged' \in [Proc -> SUBSET Entries] /\ logged'[p] = logged[p] \cup {<<"bitmap">>, <<"data", b>>}
          /\ \A q \in Proc : q # p => logged'[q] = logged[q]
      BY <2>6, <2>7, <3>1
    <3>4. \A o \in Inode : Ind(o) # 0 => ptr'[Ind(o)] = ptr[Ind(o)]
      BY <2>4, <2>5, <3>1
    <3>5. BlockTypes'
      BY <2>1, <2>2, <2>5, <3>1, <3>2, <3>3 DEF BlocksInv, BlockTypes
    <3>6. Within(p, i) /\ Leaves(p, i)
      BY <1>1, <2>2, <3>2, <3>3, <3>4 DEF Within, Leaves, HasLock, Writes
    <3>7. k \in Place /\ Named(i, k) = 0 /\ Gone(i)' = 0
      <4>1. Gone(i)' = Gone(i)
        BY <2>2 DEF Gone
      <4>2. addrs[i][k] = 0
        BY <1>3, <2>3, <2>8 DEF B!Mapped, Ind
      <4>3. k \in Place /\ k <= NDIRECT
        BY <1>4 DEF Place
      <4>4. QED
        BY <1>2, <4>1, <4>2, <4>3 DEF Named
    <3>8. Ind(i)' = IF k = NDIRECT THEN b ELSE Ind(i)
      BY <1>4, <3>2 DEF Ind
    <3>9. ASSUME NEW l \in Place PROVE Named(i, l)' = IF l = k THEN b ELSE Named(i, l)
      <4>1. CASE l <= NDIRECT
        <5>1. l \in 0 .. NDIRECT
          BY <1>4, <4>1 DEF Place
        <5>2. QED
          BY <3>2, <4>1, <5>1 DEF Named
      <4>2. CASE ~(l <= NDIRECT)
        <5>1. l # k /\ l - NDIRECT - 1 \in 0 .. NINDIRECT - 1 /\ ~(l - NDIRECT - 1 < 0)
          BY <1>4, <4>2 DEF Place
        <5>2. CASE k = NDIRECT
          <6>1. Ind(i) = 0
            BY <1>4, <2>3, <2>8, <5>2
          <6>2. Named(i, l)' = ptr'[b][l - NDIRECT - 1]
            BY <2>1, <3>7, <3>8, <4>2, <5>1, <5>2 DEF Named
          <6>3. QED
            BY <2>5, <3>1, <4>2, <5>1, <6>1, <6>2 DEF Named
        <5>3. CASE k # NDIRECT
          BY <1>2, <3>4, <3>7, <3>8, <4>2, <5>1, <5>3 DEF Named
        <5>4. QED
          BY <5>2, <5>3
      <4>3. QED
        BY <4>1, <4>2
    <3>10. \A m \in BlockNo : m # bn => B!Mapped(i, m)' = B!Mapped(i, m)
      <4> SUFFICES ASSUME NEW m \in BlockNo, m # bn PROVE B!Mapped(i, m)' = B!Mapped(i, m)
        OBVIOUS
      <4>1. /\ PlaceOf(m) \in Place /\ PlaceOf(m) # NDIRECT /\ B!Mapped(i, m) = Named(i, PlaceOf(m))
        BY <1>2, MappedNamed
      <4>2. B!Mapped(i, m)' = Named(i, PlaceOf(m))'
        <5>1. (Gone(i) = 0)'
          BY <3>7
        <5>2. CASE m < NDIRECT
          BY <1>4, <5>2 DEF PlaceOf, B!Mapped, Named, BlockNo
        <5>3. CASE ~(m < NDIRECT)
          <6>1. /\ PlaceOf(m) = m + 1 /\ ~(m + 1 <= NDIRECT) /\ (m + 1) - NDIRECT - 1 = m - NDIRECT
                /\ ~(m - NDIRECT < 0)
            BY <1>4, <5>3 DEF PlaceOf, BlockNo
          <6>2. B!Mapped(i, m)' = IF Ind(i)' = 0 THEN 0 ELSE ptr'[Ind(i)'][m - NDIRECT]
            BY <5>3 DEF B!Mapped, Ind
          <6>3. Named(i, m + 1)' = IF Ind(i)' = 0 \/ m - NDIRECT < Gone(i)' THEN 0
                                   ELSE ptr'[Ind(i)'][m - NDIRECT]
            BY <6>1 DEF Named
          <6>4. QED
            BY <5>1, <6>1, <6>2, <6>3
        <5>4. QED
          BY <5>2, <5>3
      <4>3. PlaceOf(m) # k
        BY <1>4, <2>3, <4>1 DEF PlaceOf, BlockNo
      <4>4. QED
        BY <3>9, <4>1, <4>2, <4>3
    <3>11. (Ind(i) # 0 => Ind(i)' = Ind(i)) /\ (Ind(i)' = b \/ B!Mapped(i, bn)' = b)
      <4>1. CASE bn < NDIRECT
        BY <1>4, <2>3, <3>2, <3>8, <4>1 DEF B!Mapped
      <4>2. CASE ~(bn < NDIRECT)
        BY <2>3, <2>8, <3>8, <4>2
      <4>3. QED
        BY <4>1, <4>2
    <3>12. InWritei(i, p)'
      <4>1. \A x \in logged'[p] : x \in logged[p] \/ x = <<"bitmap">> \/ x = <<"data", b>>
        BY <3>3
      <4>2. QED
        BY <1>1, <1>3, <2>1, <2>2, <3>10, <3>11, <4>1, BmapWritei
    <3>13. FileInv(i)'
      BY <1>1, <2>2, <3>12 DEF FileInv, Writes, BlockSizes
    <3>14. QED
      BY <1>2, <2>2, <3>5, <3>6, <3>7, <3>9, <3>13, GivingStep
  <2>9. CASE ~(bn < NDIRECT \/ Ind(i) = 0)
    <3> DEFINE a == Ind(i)  k == bn + 1
    <3>1. /\ ptr' = [B!Zeroed(b) EXCEPT ![a][bn - NDIRECT] = b] /\ UNCHANGED addrs
          /\ B!Log(p, B!AllocLogs(b) \cup {<<"data", a>>})
      BY <2>2, <2>9
    <3>2. /\ a \in B!Block /\ a # b /\ a # 0 /\ bn - NDIRECT \in 0 .. NINDIRECT - 1 /\ k \in Place
          /\ ~(k <= NDIRECT) /\ k - NDIRECT - 1 = bn - NDIRECT /\ ~(bn < NDIRECT)
      BY <1>4, <2>4, <2>9 DEF Place
    <3>3. /\ ptr' \in [B!Block -> [0 .. NINDIRECT - 1 -> Blk]]
          /\ ptr'[a][bn - NDIRECT] = b
          /\ \A l \in 0 .. NINDIRECT - 1 : l # bn - NDIRECT => ptr'[a][l] = ptr[a][l]
          /\ \A c \in B!Block : c # b /\ c # a => ptr'[c] = ptr[c]
      <4> HIDE DEF a
      <4> PICK z : z = B!Zeroed(b)
        OBVIOUS
      <4> PICK x \in 0 .. NINDIRECT - 1 : x = bn - NDIRECT
        BY <3>2
      <4>1. z \in [B!Block -> [0 .. NINDIRECT - 1 -> Blk]] /\ z[a] = ptr[a] /\ ptr' = [z EXCEPT ![a][x] = b]
        BY <2>5, <3>1, <3>2
      <4>2. ptr' \in [B!Block -> [0 .. NINDIRECT - 1 -> Blk]]
        BY <2>1, <3>2, <4>1
      <4>3. ptr'[a][x] = b /\ \A l \in 0 .. NINDIRECT - 1 : l # x => ptr'[a][l] = ptr[a][l]
        BY <2>1, <3>2, <4>1
      <4>4. \A c \in B!Block : c # b /\ c # a => ptr'[c] = ptr[c]
        BY <2>5, <4>1
      <4>5. QED
        BY <4>2, <4>3, <4>4
    <3>4. /\ logged' \in [Proc -> SUBSET Entries]
          /\ logged'[p] = logged[p] \cup ({<<"bitmap">>, <<"data", b>>} \cup {<<"data", a>>})
          /\ \A q \in Proc : q # p => logged'[q] = logged[q]
      <4> HIDE DEF a
      <4>1. B!AllocLogs(b) \cup {<<"data", a>>} \subseteq Entries
        BY <2>7, <3>2 DEF Entries
      <4>2. QED
        BY <2>6, <2>7, <3>1, <4>1
    <3>5. \A o \in Inode : o # i /\ Ind(o) # 0 => ptr'[Ind(o)] = ptr[Ind(o)]
      <4>1. Named(i, NDIRECT) = a
        BY NamedTypes DEF BlocksInv
      <4>2. \A o \in Inode : o # i => Ind(o) # a
        BY <1>4, <3>2, <4>1, OtherBlock
      <4>3. QED
        BY <2>4, <3>3, <4>2
    <3>6. BlockTypes'
      BY <2>1, <2>2, <3>1, <3>3, <3>4 DEF BlocksInv, BlockTypes
    <3>7. Within(p, i) /\ Leaves(p, i)
      BY <1>1, <2>2, <3>1, <3>4, <3>5 DEF Within, Leaves, HasLock, Writes
    <3>8. Gone(i)' = 0 /\ Ind(i)' = Ind(i)
      BY <1>2, <2>2, <3>1 DEF Gone, Ind
    <3>9. Named(i, k) = 0
      <4>1. PlaceOf(bn) = k
        BY <3>2 DEF PlaceOf
      <4>2. QED
        BY <1>2, <1>3, <4>1, MappedNamed
    <3>10. ASSUME NEW l \in Place PROVE Named(i, l)' = IF l = k THEN b ELSE Named(i, l)
      <4>1. CASE l <= NDIRECT
        BY <3>1, <3>2, <4>1 DEF Named
      <4>2. CASE ~(l <= NDIRECT)
        <5>1. /\ l - NDIRECT - 1 \in 0 .. NINDIRECT - 1 /\ ~(l - NDIRECT - 1 < 0)
              /\ (l = k <=> l - NDIRECT - 1 = bn - NDIRECT)
          <6>1. l \in Nat /\ l > NDIRECT /\ l <= NDIRECT + NINDIRECT
            BY <1>4, <4>2 DEF Place
          <6>2. l - NDIRECT - 1 \in 0 .. NINDIRECT - 1 /\ ~(l - NDIRECT - 1 < 0)
            BY <1>4, <6>1
          <6>3. l = k <=> l - NDIRECT - 1 = bn - NDIRECT
            BY <1>4, <6>1
          <6>4. QED
            BY <6>2, <6>3
        <5>2. /\ Named(i, l) = ptr[Ind(i)][l - NDIRECT - 1]
              /\ Named(i, l)' = ptr'[Ind(i)][l - NDIRECT - 1]
          BY <1>2, <3>2, <3>8, <4>2, <5>1 DEF Named
        <5>3. QED
          BY <3>3, <5>1, <5>2
      <4>3. QED
        BY <4>1, <4>2
    <3>11. ASSUME NEW m \in BlockNo PROVE B!Mapped(i, m)' = IF m = bn THEN b ELSE B!Mapped(i, m)
      <4>1. CASE m < NDIRECT
        BY <3>1, <3>2, <4>1 DEF B!Mapped
      <4>2. CASE ~(m < NDIRECT)
        <5>1. m - NDIRECT \in 0 .. NINDIRECT - 1 /\ (m = bn <=> m - NDIRECT = bn - NDIRECT)
          BY <1>4, <4>2 DEF BlockNo
        <5>2. /\ B!Mapped(i, m) = ptr[Ind(i)][m - NDIRECT]
              /\ B!Mapped(i, m)' = ptr'[Ind(i)][m - NDIRECT]
          BY <3>2, <3>8, <4>2 DEF B!Mapped, Ind
        <5>3. QED
          BY <3>3, <5>1, <5>2
      <4>3. QED
        BY <4>1, <4>2
    <3>12. InWritei(i, p)'
      <4>1. \A x \in logged'[p] : x \in logged[p] \/ x = <<"bitmap">> \/ x = <<"data", b>>
                                    \/ (Ind(i) # 0 /\ x = <<"data", Ind(i)>>)
        BY <3>2, <3>4
      <4>2. \A m \in BlockNo : m # bn => B!Mapped(i, m)' = B!Mapped(i, m)
        BY <3>11
      <4>3. B!Mapped(i, bn)' = b
        BY <3>11
      <4>4. QED
        BY <1>1, <1>3, <2>1, <2>2, <3>8, <4>1, <4>2, <4>3, BmapWritei
    <3>13. FileInv(i)'
      BY <1>1, <2>2, <3>12 DEF FileInv, Writes, BlockSizes
    <3>14. QED
      BY <1>2, <2>2, <3>2, <3>6, <3>7, <3>9, <3>10, <3>13, GivingStep
  <2>10. QED
    BY <2>8, <2>9
<1>7. QED
  BY <1>5, <1>6

-----------------------------------------------------------------------------
(* writei copies.                                                          *)

\* How much of block bn is copied.
LEMMA CopyAmount ==
  ASSUME BlockSizes, BlocksInv, NEW p \in Proc, NEW i \in Inode,
         job[p].pc = "write", job[p].i = i, lock[i] = p,
         NEW bn \in BlockNo, bn = B!Bn(p), NEW m,
         m = B!Min({B!ThisChunk(job[p].n) - job[p].tot, BSIZE - (job[p].off % BSIZE)})
  PROVE  /\ m \in Nat /\ m > 0 /\ job[p].tot + m <= B!ThisChunk(job[p].n)
         /\ B!ThisChunk(job[p].n) \in Nat
         /\ \A l \in BlockNo : /\ Below(l, job[p].off + m) <=> l <= bn
                               /\ l < bn => Below(l, job[p].off)
         /\ (bn + 1) * BSIZE > job[p].off - job[p].tot
<1> DEFINE j == job[p]
<1>1. /\ InWritei(i, p) /\ bn * BSIZE <= j.off /\ j.off < (bn + 1) * BSIZE
      /\ (bn + 1) * BSIZE = bn * BSIZE + BSIZE /\ bn * BSIZE \in Nat
      /\ j.off % BSIZE = j.off - bn * BSIZE
  BY WriteAt
<1>2. j.off \in Nat /\ j.n \in Nat /\ j.tot \in Nat /\ BSIZE \in Nat /\ bn \in Nat
  BY JobFields DEF BlocksInv, BlockSizes, BlockNo
<1>3. B!ThisChunk(j.n) \in Nat /\ j.tot < B!ThisChunk(j.n)
  BY <1>1, <1>2, ChunkSize DEF InWritei
<1> DEFINE left == B!ThisChunk(j.n) - j.tot  room == BSIZE - (j.off - bn * BSIZE)
<1>4. left \in Nat /\ left > 0 /\ room \in Nat /\ room > 0
  BY <1>1, <1>2, <1>3
<1>5. m = IF left <= room THEN left ELSE room
  <2>1. m = B!Min({left, room})
    BY <1>1
  <2>2. left \in Int /\ room \in Int
    BY <1>4
  <2> HIDE DEF left, room
  <2>3. B!Min({left, room}) = IF left <= room THEN left ELSE room
    BY <2>2, MinOfTwo
  <2>4. QED
    BY <2>1, <2>3
<1>6. m \in Nat /\ m > 0 /\ m <= left /\ m <= room
  BY <1>4, <1>5
<1>7. j.off + m \in Nat /\ bn * BSIZE < j.off + m /\ j.off + m <= (bn + 1) * BSIZE
  BY <1>1, <1>2, <1>6
<1>8. \A l \in BlockNo : Below(l, j.off + m) <=> l <= bn
  <2>1. \A l \in BlockNo : l \in Nat
    BY DEF BlockNo, BlockSizes
  <2>2. QED
    BY <1>2, <1>7, <2>1, BelowEnd
<1>9. ASSUME NEW l \in BlockNo, l < bn PROVE Below(l, j.off)
  <2>1. l \in Int /\ BSIZE > 0
    BY DEF BlockNo, BlockSizes
  <2>2. l * BSIZE < bn * BSIZE /\ l * BSIZE \in Int
    BY <1>2, <1>9, <2>1, Multiples
  <2>3. QED
    BY <1>1, <1>2, <2>2 DEF Below
<1>10. j.tot + m <= B!ThisChunk(j.n) /\ (bn + 1) * BSIZE > j.off - j.tot
  <2>1. j.tot + m <= B!ThisChunk(j.n)
    BY <1>2, <1>3, <1>6
  <2>2. (bn + 1) * BSIZE > j.off - j.tot
    BY <1>1, <1>2
  <2>3. QED
    BY <2>1, <2>2
<1>11. QED
  BY <1>3, <1>6, <1>8, <1>9, <1>10

\* writei copies m of block bn, and goes on or comes to its end.
Copied(p, i, bn, m) ==
  LET j == job[p]
      last == j.tot + m = B!ThisChunk(j.n)
      longer == last /\ j.off + m > size[i] IN
  /\ j.pc = "write" /\ j.i = i /\ lock[i] = p /\ bn = B!Bn(p) /\ B!Mapped(i, bn) # 0
  /\ m = B!Min({B!ThisChunk(j.n) - j.tot, BSIZE - (j.off % BSIZE)})
  /\ job'[p] = [j EXCEPT !.tot = j.tot + m, !.off = j.off + m, !.pc = IF last THEN "end" ELSE "write"]
  /\ \A x \in logged'[p] : x \in logged[p] \/ x = <<"data", B!Mapped(i, bn)>> \/ x = <<"inode", i>>
  /\ IF longer THEN size'[i] = j.off + m /\ dinode'[i] = <<addrs[i], j.off + m>>
                ELSE size'[i] = size[i] /\ dinode'[i] = dinode[i]
  /\ addrs' = addrs /\ (Ind(i) # 0 => ptr'[Ind(i)] = ptr[Ind(i)])

LEMMA CopyWritei ==
  ASSUME BlockSizes, BlocksInv, NEW p \in Proc, NEW i \in Inode, NEW bn \in BlockNo, NEW m,
         Copied(p, i, bn, m)
  PROVE  InWritei(i, p)'
<1> PICK last \in BOOLEAN : last <=> job[p].tot + m = B!ThisChunk(job[p].n)
  OBVIOUS
<1> PICK longer \in BOOLEAN : longer <=> last /\ job[p].off + m > size[i]
  OBVIOUS
<1>   /\ job[p].pc = "write" /\ job[p].i = i /\ lock[i] = p /\ bn = B!Bn(p) /\ B!Mapped(i, bn) # 0
      /\ m = B!Min({B!ThisChunk(job[p].n) - job[p].tot, BSIZE - (job[p].off % BSIZE)})
      /\ job'[p] = [job[p] EXCEPT !.tot = job[p].tot + m, !.off = job[p].off + m,
                                  !.pc = IF last THEN "end" ELSE "write"]
      /\ \A x \in logged'[p] :
           x \in logged[p] \/ x = <<"data", B!Mapped(i, bn)>> \/ x = <<"inode", i>>
      /\ IF longer THEN size'[i] = job[p].off + m /\ dinode'[i] = <<addrs[i], job[p].off + m>>
                    ELSE size'[i] = size[i] /\ dinode'[i] = dinode[i]
      /\ addrs' = addrs /\ (Ind(i) # 0 => ptr'[Ind(i)] = ptr[Ind(i)])
  BY DEF Copied
<1> DEFINE j == job[p]
<1>1. /\ m \in Nat /\ m > 0 /\ j.tot + m <= B!ThisChunk(j.n) /\ B!ThisChunk(j.n) \in Nat
      /\ \A l \in BlockNo : (Below(l, j.off + m) <=> l <= bn) /\ (l < bn => Below(l, j.off))
      /\ (bn + 1) * BSIZE > j.off - j.tot
  BY CopyAmount
<1>2. InWritei(i, p)
  BY WriteAt
<1>3. /\ j \in JobTypes /\ j.off \in Nat /\ j.n \in Nat /\ j.tot \in Nat /\ size[i] \in Nat
  <2>1. size[i] \in Nat
    BY DEF BlocksInv, BlockTypes
  <2>2. QED
    BY <2>1, JobFields DEF BlocksInv
<1>4. /\ job'[p].off = j.off + m /\ job'[p].tot = j.tot + m /\ job'[p].n = j.n /\ job'[p].i = i
      /\ job'[p].pc = IF last THEN "end" ELSE "write"
  BY <1>3 DEF JobTypes
<1>5. /\ Ind(i)' = Ind(i) /\ \A l : B!Mapped(i, l)' = B!Mapped(i, l)
  BY DEF Ind, B!Mapped
<1>6. \A l \in BlockNo : l \in Nat /\ l * BSIZE \in Int
  BY DEF BlockNo, BlockSizes
<1>7. ASSUME NEW l \in BlockNo
      PROVE  /\ Below(l, j.off) => Below(l, j.off + m)
             /\ size[i] <= j.off + m => (Below(l, size[i]) => Below(l, j.off + m))
             /\ size[i] >= j.off + m => (Below(l, j.off + m) => Below(l, size[i]))
  BY <1>1, <1>3, <1>6 DEF Below
<1>8. bn \in Nat /\ Below(bn, j.off + m)
  <2>1. bn \in Nat /\ bn <= bn
    BY <1>6
  <2>2. Below(bn, j.off + m) <=> bn <= bn
    BY <1>1
  <2>3. QED
    BY <2>1, <2>2
<1>9. ASSUME NEW l \in BlockNo, Touched(p, l) \/ l = bn PROVE Touched(p, l)'
  <2>1. (l + 1) * BSIZE > j.off - j.tot /\ Below(l, j.off + m)
    BY <1>1, <1>7, <1>8, <1>9 DEF Touched
  <2>2. job'[p].off - job'[p].tot = j.off - j.tot
    BY <1>1, <1>3, <1>4
  <2>3. QED
    BY <1>4, <2>1, <2>2 DEF Touched, Below
<1>10. ASSUME NEW x \in logged'[p] PROVE Logs(p, x)'
  <2>1. CASE x = <<"data", B!Mapped(i, bn)>>
    BY <1>4, <1>5, <1>9, <2>1 DEF Logs
  <2>2. CASE x = <<"inode", i>>
    BY <1>4, <2>2 DEF Logs
  <2>3. CASE x \in logged[p]
    <3>1. Logs(p, x)
      BY <1>2, <2>3 DEF InWritei
    <3>2. CASE x = <<"bitmap">> \/ x = <<"inode", i>>
      BY <1>4, <3>2 DEF Logs
    <3>3. CASE Ind(i) # 0 /\ x = <<"data", Ind(i)>>
      BY <1>4, <1>5, <3>3 DEF Logs
    <3>4. CASE \E l \in BlockNo : Touched(p, l) /\ B!Mapped(i, l) # 0 /\ x = <<"data", B!Mapped(i, l)>>
      <4>1. PICK l \in BlockNo : Touched(p, l) /\ B!Mapped(i, l) # 0 /\ x = <<"data", B!Mapped(i, l)>>
        BY <3>4
      <4>2. Touched(p, l)' /\ B!Mapped(i, l)' = B!Mapped(i, l)
        BY <1>5, <1>9, <4>1
      <4>3. QED
        BY <1>4, <4>1, <4>2 DEF Logs
    <3>5. QED
      BY <3>1, <3>2, <3>3, <3>4 DEF Logs
  <2>4. QED
    BY <2>1, <2>2, <2>3
\* The file is mapped up to where it has been written.
<1>11. ASSUME NEW l \in BlockNo
       PROVE  B!Mapped(i, l) # 0 <=> Below(l, size[i]) \/ Below(l, j.off + m)
  <2>1. CASE l = bn
    BY <1>8, <2>1
  <2>2. CASE l # bn
    <3>1. B!Mapped(i, l) # 0 <=> Below(l, size[i]) \/ Below(l, j.off)
      BY <1>2, <2>2 DEF InWritei
    <3>2. Below(l, j.off + m) <=> Below(l, j.off)
      <4>1. l \in Nat /\ bn \in Nat
        BY <1>6
      <4>2. Below(l, j.off + m) => l < bn
        <5>1. Below(l, j.off + m) <=> l <= bn
          BY <1>1
        <5>2. QED
          BY <2>2, <4>1, <5>1
      <4>3. QED
        BY <1>1, <1>7, <4>2
    <3>3. QED
      BY <3>1, <3>2
  <2>3. QED
    BY <2>1, <2>2
<1>12. dinode[i] = <<addrs[i], size[i]>> \/ size[i] <= j.off
  BY <1>2 DEF InWritei
<1>13. /\ job'[p].n > 0 /\ job'[p].tot <= job'[p].off
  <2>1. j.n > 0 /\ j.tot <= j.off
    BY <1>2 DEF InWritei
  <2>2. QED
    BY <1>1, <1>3, <1>4, <2>1
<1>14. (B!ThisChunk(job[p].n))' = B!ThisChunk(j.n)
  BY <1>4 DEF B!ThisChunk
<1>15. CASE ~last
  <2>1. size'[i] = size[i] /\ dinode'[i] = dinode[i] /\ job'[p].pc = "write"
    BY <1>4, <1>15
  <2>2. j.tot + m < B!ThisChunk(j.n)
    BY <1>1, <1>3, <1>15
  <2>3. (j.off + m) + B!ThisChunk(j.n) - (j.tot + m) <= B!MAXFILE * BSIZE
    <3>1. j.off + B!ThisChunk(j.n) - j.tot <= B!MAXFILE * BSIZE
      BY <1>2 DEF InWritei
    <3>2. (j.off + m) + B!ThisChunk(j.n) - (j.tot + m) = j.off + B!ThisChunk(j.n) - j.tot
      BY <1>1, <1>3
    <3>3. QED
      BY <3>1, <3>2
  <2>4. dinode[i] = <<addrs[i], size[i]>> \/ size[i] <= j.off + m
    BY <1>1, <1>3, <1>12
  <2>5. \A l \in BlockNo :
          /\ Below(l, size'[i]) \/ Below(l, job'[p].off) => B!Mapped(i, l)' # 0
          /\ B!Mapped(i, l)' # 0 => Below(l, size'[i]) \/ Below(l, job'[p].off)
    <3>1. size'[i] = size[i] /\ job'[p].off = j.off + m
      BY <1>4, <2>1
    <3>2. ASSUME NEW l \in BlockNo
          PROVE  /\ Below(l, size'[i]) \/ Below(l, job'[p].off) => B!Mapped(i, l)' # 0
                 /\ B!Mapped(i, l)' # 0 => Below(l, size'[i]) \/ Below(l, job'[p].off)
      <4>1. B!Mapped(i, l)' = B!Mapped(i, l)
        BY <1>5
      <4>2. B!Mapped(i, l) # 0 <=> Below(l, size[i]) \/ Below(l, j.off + m)
        BY <1>11
      <4>3. QED
        BY ONLY <3>1, <4>1, <4>2
    <3>3. QED
      BY <3>2
  <2>6. /\ job'[p].tot < (B!ThisChunk(job[p].n))'
        /\ job'[p].off + (B!ThisChunk(job[p].n))' - job'[p].tot <= B!MAXFILE * BSIZE
        /\ dinode'[i] = <<addrs'[i], size'[i]>> \/ size'[i] <= job'[p].off
    BY <1>4, <1>14, <2>1, <2>2, <2>3, <2>4
  <2>7. QED
    BY <1>10, <1>13, <2>1, <2>5, <2>6 DEF InWritei, Below, B!MAXFILE
<1>16. CASE last
  <2>1. job'[p].pc = "end" /\ job'[p].tot = (B!ThisChunk(job[p].n))'
    BY <1>4, <1>14, <1>16
  <2>2. Settled(i)'
    <3>1. CASE longer
      <4>1. size'[i] = j.off + m /\ dinode'[i] = <<addrs[i], j.off + m>> /\ size[i] <= j.off + m
        BY <1>1, <1>3, <3>1
      <4>2. \A l \in BlockNo : Below(l, j.off + m) <=> B!Mapped(i, l)' # 0
        BY <1>5, <1>7, <1>11, <4>1
      <4>3. dinode'[i] = <<addrs'[i], size'[i]>>
        BY <4>1
      <4>4. \A l \in BlockNo : Below(l, size[i])' <=> B!Mapped(i, l)' # 0
        <5>1. size'[i] = j.off + m
          BY <4>1
        <5>2. ASSUME NEW l \in BlockNo PROVE Below(l, size[i])' <=> Below(l, j.off + m)
          BY <5>1 DEF Below
        <5>3. QED
          BY <4>2, <5>2
      <4>5. QED
        BY <4>3, <4>4 DEF Settled
    <3>2. CASE ~longer
      <4>1. size'[i] = size[i] /\ dinode'[i] = dinode[i] /\ size[i] >= j.off + m /\ ~(size[i] <= j.off)
        BY <1>1, <1>3, <1>16, <3>2
      <4>2. ASSUME NEW l \in BlockNo PROVE Below(l, size[i]) <=> B!Mapped(i, l)' # 0
        <5>1. Below(l, j.off + m) => Below(l, size[i])
          BY <1>7, <4>1
        <5>2. QED
          BY <1>5, <1>11, <5>1
      <4>3. dinode'[i] = <<addrs'[i], size'[i]>>
        BY <1>12, <4>1
      <4>4. \A l \in BlockNo : Below(l, size[i])' <=> B!Mapped(i, l)' # 0
        <5>1. size'[i] = size[i]
          BY <4>1
        <5>2. ASSUME NEW l \in BlockNo PROVE Below(l, size[i])' <=> Below(l, size[i])
          BY <5>1 DEF Below
        <5>3. QED
          BY <4>2, <5>2
      <4>5. QED
        BY <4>3, <4>4 DEF Settled
    <3>3. QED
      BY <3>1, <3>2
  <2>3. QED
    BY <1>10, <1>13, <2>1, <2>2 DEF InWritei
<1>17. QED
  BY <1>15, <1>16

LEMMA CopyStep == ASSUME BlockSizes, BlocksInv, NEW p \in Proc, B!Copy(p) PROVE BlocksInv'
<1>0. PICK i \in Inode : i = job[p].i /\ lock[i] = p
  BY DEF B!Copy, B!At, BlocksInv, LocksHeld, HasLock, Writes
<1>1. job[p].pc = "write" /\ job[p].i = i /\ lock[i] = p
  BY <1>0 DEF B!Copy, B!At
<1>2. B!Bn(p) \in BlockNo /\ Gone(i) = 0 /\ Mine(p, i)
  BY <1>1, WriteAt
<1> PICK bn \in BlockNo : bn = B!Bn(p)
  BY <1>2
<1> PICK m : m = B!Min({B!ThisChunk(job[p].n) - job[p].tot, BSIZE - (job[p].off % BSIZE)})
  OBVIOUS
<1> PICK last \in BOOLEAN : last <=> job[p].tot + m = B!ThisChunk(job[p].n)
  OBVIOUS
<1> PICK longer \in BOOLEAN : longer <=> last /\ job[p].off + m > size[i]
  OBVIOUS
<1> PICK b : b = B!Mapped(i, bn)
  OBVIOUS
<1> DEFINE new == [job[p] EXCEPT !.tot = job[p].tot + m, !.off = job[p].off + m,
                                 !.pc = IF last THEN "end" ELSE "write"]
           bs  == {<<"data", b>>} \cup (IF longer THEN {<<"inode", i>>} ELSE {})
           junk == [k \in 0 .. NINDIRECT - 1 |-> B!Junk]
<1>3. /\ b # 0 /\ ptr' = [ptr EXCEPT ![b] = junk] /\ job' = [job EXCEPT ![p] = new]
      /\ logged' = [logged EXCEPT ![p] = logged[p] \cup bs]
      /\ IF longer THEN /\ size' = [size EXCEPT ![i] = job[p].off + m]
                        /\ dinode' = [dinode EXCEPT ![i] = <<addrs[i], job[p].off + m>>]
                   ELSE UNCHANGED <<size, dinode>>
      /\ UNCHANGED <<used, addrs, lock, panicked>>
  BY <1>0 DEF B!Copy, B!Log
<1>4. b \in B!Block
  BY <1>3, NamedTypes DEF BlocksInv, Blk
<1>5. m \in Nat /\ job[p] \in JobTypes /\ job[p].off + m \in Nat /\ job[p].tot + m \in Nat
  <2>1. m \in Nat
    BY <1>1, CopyAmount
  <2>2. QED
    BY <2>1, JobFields DEF BlocksInv
<1>6. new \in JobTypes /\ new.i = i /\ new.pc \in Writes
  BY <1>1, <1>5 DEF JobTypes, HasLock, Writes
<1>7. bs \subseteq Entries /\ logged[p] \cup bs \subseteq Entries
  <2>1. logged[p] \subseteq Entries
    BY JobFields DEF BlocksInv
  <2>2. <<"data", b>> \in Entries /\ <<"inode", i>> \in Entries
    BY <1>4 DEF Entries
  <2>3. QED
    BY <2>1, <2>2
<1>8. junk \in [0 .. NINDIRECT - 1 -> Blk]
  BY <1>4, JunkBlock
<1> HIDE DEF new, bs, junk
<1>9. /\ job' \in [Proc -> JobTypes] /\ job'[p] = new /\ \A q \in Proc : q # p => job'[q] = job[q]
  BY <1>3, <1>6, JobChange DEF BlocksInv
<1>10. /\ logged' \in [Proc -> SUBSET Entries] /\ logged'[p] = logged[p] \cup bs
       /\ \A q \in Proc : q # p => logged'[q] = logged[q]
  BY <1>3, <1>7, LogChange DEF BlocksInv
<1>11. /\ ptr' \in [B!Block -> [0 .. NINDIRECT - 1 -> Blk]]
       /\ \A c \in B!Block : c # b => ptr'[c] = ptr[c]
  BY <1>3, <1>4, <1>8, PtrChange DEF BlocksInv
<1>12. /\ size' \in [Inode -> Nat] /\ dinode' \in [Inode -> Dinode]
       /\ \A o \in Inode : o # i => size'[o] = size[o] /\ dinode'[o] = dinode[o]
       /\ IF longer THEN size'[i] = job[p].off + m /\ dinode'[i] = <<addrs[i], job[p].off + m>>
                    ELSE size'[i] = size[i] /\ dinode'[i] = dinode[i]
  <2>1. size \in [Inode -> Nat] /\ dinode \in [Inode -> Dinode]
        /\ addrs[i] \in [0 .. NDIRECT -> Blk]
    BY DEF BlocksInv, BlockTypes
  <2>2. <<addrs[i], job[p].off + m>> \in Dinode
    BY <1>5, <2>1 DEF Dinode
  <2>3. QED
    BY <1>3, <1>5, <2>1, <2>2
<1>13. BlockTypes'
  BY <1>3, <1>9, <1>10, <1>11, <1>12 DEF BlocksInv, BlockTypes
\* What is copied is not the indirect block of any file.
<1>14. \A o \in Inode : Ind(o) # 0 => ptr'[Ind(o)] = ptr[Ind(o)]
  <2>1. /\ PlaceOf(bn) \in Place /\ PlaceOf(bn) # NDIRECT /\ b = Named(i, PlaceOf(bn))
    BY <1>2, MappedNamed
  <2>2. \A o \in Inode : Ind(o) # b
    BY <1>3, <2>1, OtherBlock
  <2>3. \A o \in Inode : Ind(o) # 0 => Ind(o) \in B!Block
    BY NamedTypes DEF BlocksInv, Blk
  <2>4. QED
    BY <1>11, <2>2, <2>3
<1>15. Within(p, i) /\ Leaves(p, i)
  BY <1>1, <1>3, <1>6, <1>9, <1>10, <1>12, <1>14 DEF Within, Leaves, HasLock, Writes
<1>16. \A k \in Place : Named(i, k)' = Named(i, k)
  <2>1. Gone(i)' = 0 /\ Ind(i)' = Ind(i)
    BY <1>1, <1>3, <1>6, <1>9 DEF Gone, Ind, Writes
  <2>2. QED
    BY <1>2, <1>3, <1>14, <2>1 DEF Named
<1>17. InWritei(i, p)'
  <2>1. \A x \in logged'[p] : x \in logged[p] \/ x = <<"data", B!Mapped(i, bn)>> \/ x = <<"inode", i>>
    BY <1>10 DEF bs
  <2>2. job'[p] = [job[p] EXCEPT !.tot = job[p].tot + m, !.off = job[p].off + m,
                                 !.pc = IF last THEN "end" ELSE "write"]
    BY <1>9 DEF new
  <2>3. addrs' = addrs /\ B!Mapped(i, bn) # 0 /\ (Ind(i) # 0 => ptr'[Ind(i)] = ptr[Ind(i)])
    BY <1>3, <1>14
  <2>4. Copied(p, i, bn, m)
    BY <1>1, <1>12, <2>1, <2>2, <2>3 DEF Copied
  <2>5. QED
    BY <2>4, CopyWritei
<1>18. FileInv(i)'
  BY <1>1, <1>3, <1>6, <1>9, <1>17 DEF FileInv, BlockSizes
<1>19. QED
  BY <1>2, <1>3, <1>13, <1>15, <1>16, <1>18, QuietStep

-----------------------------------------------------------------------------
(* Theorems.                                                               *)

LEMMA BlocksInit == ASSUME BlockSizes, B!Init PROVE BlocksInv
<1>1. BlockTypes
  <2>1. /\ used \in SUBSET B!Block /\ size \in [Inode -> Nat] /\ lock \in [Inode -> Proc \cup {None}]
        /\ panicked \in {"no", "balloc: out of blocks"} /\ logged \in [Proc -> SUBSET Entries]
    BY DEF B!Init
  <2>2. ptr \in [B!Block -> [0 .. NINDIRECT - 1 -> Blk]]
    BY JunkBlock DEF B!Init
  <2>3. B!NoAddrs \in [0 .. NDIRECT -> Blk]
    BY DEF B!NoAddrs, Blk
  <2>4. addrs \in [Inode -> [0 .. NDIRECT -> Blk]] /\ dinode \in [Inode -> Dinode]
    BY <2>3 DEF B!Init, Dinode
  <2>5. job \in [Proc -> JobTypes]
    BY DEF B!Init, B!Idle, JobTypes
  <2>6. QED
    BY <2>1, <2>2, <2>4, <2>5 DEF BlockTypes
<1>2. LocksHeld
  BY DEF B!Init, B!Idle, LocksHeld, HasLock, Writes
<1>3. \A i \in Inode : /\ lock[i] = None /\ Ind(i) = 0 /\ Gone(i) = 0
                       /\ \A k \in 0 .. NDIRECT : addrs[i][k] = 0
  BY DEF B!Init, B!NoAddrs, Ind, Gone, BlockSizes
<1>4. \A i \in Inode, k \in Place : Named(i, k) = 0
  <2> SUFFICES ASSUME NEW i \in Inode, NEW k \in Place PROVE Named(i, k) = 0
    OBVIOUS
  <2>1. k <= NDIRECT => k \in 0 .. NDIRECT
    BY DEF Place, BlockSizes
  <2>2. QED
    BY <1>3, <2>1 DEF Named
<1>5. NamedOnce
  BY <1>4 DEF B!Init, NamedOnce
<1>6. ASSUME NEW i \in Inode PROVE FileInv(i)
  <2>1. ASSUME NEW bn \in BlockNo PROVE B!Mapped(i, bn) = 0 /\ ~Below(bn, 0)
    <3>1. B!Mapped(i, bn) = 0
      BY <1>3, <1>4, MappedNamed
    <3>2. bn \in Nat /\ bn * BSIZE >= 0 /\ bn * BSIZE \in Int
      BY DEF BlockNo, BlockSizes
    <3>3. QED
      BY <3>1, <3>2 DEF Below
  <2>2. size[i] = 0 /\ dinode[i] = <<addrs[i], 0>>
    BY DEF B!Init
  <2>3. QED
    BY <1>3, <2>1, <2>2 DEF FileInv, Settled
<1>7. QED
  BY <1>1, <1>2, <1>5, <1>6 DEF BlocksInv

LEMMA BlocksNext == ASSUME BlockSizes, BlocksInv, [B!Next]_B!vars PROVE BlocksInv'
<1>1. ASSUME NEW p \in Proc, B!Write(p) PROVE BlocksInv'
  <2> PICK i \in Inode : \E off \in {0, size[i]}, n \in Lengths : B!BeginChunk(p, i, off, n)
    BY <1>1 DEF B!Write
  <2>1. PICK off \in {0, size[i]}, n \in Lengths : B!BeginChunk(p, i, off, n)
    OBVIOUS
  <2>2. off \in Nat /\ n \in Nat /\ n > 0 /\ job[p].pc = "user"
    <3>1. size[i] \in Nat
      BY DEF BlocksInv, BlockTypes
    <3>2. n \in Nat /\ n > 0
      BY DEF BlockSizes
    <3>3. QED
      BY <1>1, <3>1, <3>2 DEF B!Write, B!At
  <2>3. QED
    BY <2>1, <2>2, BeginChunkStep
<1>2. ASSUME NEW p \in Proc, B!NextChunk(p) PROVE BlocksInv'
  <2>1. job[p].pc = "begin" /\ B!BeginChunk(p, job[p].i, job[p].off, job[p].n)
    BY <1>2 DEF B!NextChunk, B!At
  <2>2. job[p].i \in Inode /\ job[p].n > 0 /\ job[p].off \in Nat /\ job[p].n \in Nat
    BY <2>1, JobFields DEF BlocksInv, LocksHeld
  <2>3. QED
    BY <2>1, <2>2, BeginChunkStep
<1>3. CASE UNCHANGED B!vars
  <2>1. UNCHANGED <<used, ptr, addrs, size, dinode, lock, job, logged, panicked>>
    BY <1>3 DEF B!vars, B!disk
  <2>2. BlockTypes'
    BY <2>1 DEF BlocksInv, BlockTypes
  <2>3. \A i \in Inode : Same(i)
    BY <2>1 DEF Same
  <2>4. /\ \A i \in Inode : FileInv(i)'
        /\ \A i \in Inode, k \in Place : Named(i, k)' = Named(i, k)
    BY <2>3, SameFile DEF BlocksInv
  <2>5. LocksHeld' /\ NamedOnce'
    BY <2>1, <2>4, NamesStay DEF BlocksInv, LocksHeld
  <2>6. QED
    BY <2>2, <2>4, <2>5 DEF BlocksInv
<1>4. QED
  BY <1>1, <1>2, <1>3, ReadStep, BmapStep, CopyStep, EndChunkStep, TruncStep, TruncDirectStep,
     TruncIndirectStep, TruncUpdateStep DEF B!Next

\* balloc, bmap, writei and itrunc: what the bitmap, the addresses of the
\* inodes and the calls in progress have to do with each other.
THEOREM BlocksInvariance == ASSUME BlockSizes PROVE B!Spec => []BlocksInv
<1>1. B!Init => BlocksInv
  BY BlocksInit
<1>2. BlocksInv /\ [B!Next]_B!vars => BlocksInv'
  BY BlocksNext
<1>3. QED
  BY <1>1, <1>2, PTL DEF B!Spec

LEMMA OneCardinality == \A U : B!Cardinality(U) = Cardinality(U)
  BY DEF B!Cardinality, Cardinality

LEMMA SameCount ==
  ASSUME NEW U, IsFiniteSet(U), NEW V, NEW f \in [U -> V], \A v \in V : \E u \in U : f[u] = v,
         \A u, w \in U : f[u] = f[w] => u = w
  PROVE  Cardinality(V) = Cardinality(U)
<1>1. f \in Surjection(U, V) /\ f \in Injection(U, V)
  BY DEF Surjection, Injection, IsInjective
<1>2. QED
  BY <1>1, FS_Surjection

\* The places of BlocksApart are those with a name.
LEMMA PlacesNamed ==
  ASSUME BlockSizes, BlocksInv, NEW i \in Inode
  PROVE  /\ B!Places(i) = {<<i, k>> : k \in {k \in Place : Named(i, k) # 0}}
         /\ \A k \in Place : Named(i, k) # 0 => B!BlockAt(i, k) = Named(i, k)
<1> DEFINE direct == {k \in 0 .. NDIRECT : addrs[i][k] # 0}
           named  == {k \in B!Truncated(i) .. NINDIRECT - 1 : ptr[Ind(i)][k] # 0}
           beyond == IF Ind(i) = 0 THEN {} ELSE {<<i, NDIRECT + 1 + k>> : k \in named}
<1>1. B!Places(i) = {<<i, k>> : k \in direct} \cup beyond
  BY DEF B!Places, Ind
<1>2. B!Truncated(i) = Gone(i) /\ Gone(i) \in Nat /\ NDIRECT \in Nat /\ NINDIRECT \in Nat
  <2>1. lock[i] # None => lock[i] \in Proc
    BY DEF BlocksInv, BlockTypes
  <2>2. B!Truncated(i) = Gone(i)
    <3>1. (\E p \in Proc : lock[i] = p /\ job[p].pc = "indirect")
            <=> lock[i] # None /\ job[lock[i]].pc = "indirect"
      BY <2>1 DEF BlockSizes
    <3>2. QED
      BY <3>1 DEF B!Truncated, Gone
  <2>3. QED
    BY <2>2, NamedTypes DEF BlocksInv, BlockSizes
<1>3. ASSUME NEW k \in 0 .. NDIRECT PROVE k \in Place /\ Named(i, k) = addrs[i][k]
  BY <1>2 DEF Place, Named
<1>4. ASSUME NEW k \in 0 .. NINDIRECT - 1
      PROVE  /\ NDIRECT + 1 + k \in Place /\ NDIRECT + 1 + k > NDIRECT
             /\ Named(i, NDIRECT + 1 + k) =
                  IF Ind(i) = 0 \/ k < Gone(i) THEN 0 ELSE ptr[Ind(i)][k]
  <2>1. /\ NDIRECT + 1 + k \in Place /\ ~(NDIRECT + 1 + k <= NDIRECT)
        /\ (NDIRECT + 1 + k) - NDIRECT - 1 = k /\ NDIRECT + 1 + k > NDIRECT
    BY <1>2 DEF Place
  <2> PICK l : l = NDIRECT + 1 + k
    OBVIOUS
  <2>2. Named(i, l) = IF Ind(i) = 0 \/ k < Gone(i) THEN 0 ELSE ptr[Ind(i)][k]
    BY <2>1 DEF Named
  <2>3. QED
    BY <2>1, <2>2
<1>5. ASSUME NEW k \in Place, ~(k <= NDIRECT)
      PROVE  k - NDIRECT - 1 \in 0 .. NINDIRECT - 1 /\ NDIRECT + 1 + (k - NDIRECT - 1) = k
  <2>1. k \in Nat /\ k <= NDIRECT + NINDIRECT /\ k > NDIRECT
    BY <1>2, <1>5 DEF Place
  <2>2. QED
    BY <1>2, <2>1
<1>6. ASSUME NEW x \in B!Places(i) PROVE \E k \in Place : Named(i, k) # 0 /\ x = <<i, k>>
  <2>1. CASE x \in {<<i, k>> : k \in direct}
    BY <1>3, <2>1
  <2>2. CASE x \in beyond
    <3>1. Ind(i) # 0 /\ \E k \in named : x = <<i, NDIRECT + 1 + k>>
      BY <2>2
    <3>2. PICK k \in named : x = <<i, NDIRECT + 1 + k>>
      BY <3>1
    <3>3. k \in 0 .. NINDIRECT - 1 /\ ~(k < Gone(i)) /\ ptr[Ind(i)][k] # 0
      BY <1>2
    <3>4. QED
      BY <1>4, <3>1, <3>2, <3>3
  <2>3. QED
    BY <1>1, <1>6, <2>1, <2>2
<1>7. ASSUME NEW k \in Place, Named(i, k) # 0
      PROVE  <<i, k>> \in B!Places(i) /\ B!BlockAt(i, k) = Named(i, k)
  <2>1. CASE k <= NDIRECT
    <3>1. k \in 0 .. NDIRECT
      BY <1>2, <2>1 DEF Place
    <3>2. QED
      BY <1>1, <1>3, <1>7, <2>1, <3>1 DEF B!BlockAt
  <2>2. CASE ~(k <= NDIRECT)
    <3> PICK l \in 0 .. NINDIRECT - 1 : l = k - NDIRECT - 1 /\ k = NDIRECT + 1 + l
      BY <1>5, <2>2
    <3>1. Ind(i) # 0 /\ ~(l < Gone(i)) /\ Named(i, k) = ptr[Ind(i)][l] /\ ptr[Ind(i)][l] # 0
      BY <1>4, <1>7
    <3>2. l \in named
      BY <1>2, <3>1
    <3>3. <<i, k>> \in beyond
      BY <3>1, <3>2
    <3>4. B!BlockAt(i, k) = ptr[Ind(i)][l]
      BY <2>2 DEF B!BlockAt, Ind
    <3>5. QED
      BY <1>1, <3>1, <3>3, <3>4
  <2>3. QED
    BY <2>1, <2>2
<1> HIDE DEF direct, named, beyond
<1>8. QED
  BY <1>6, <1>7

LEMMA Apart == ASSUME BlockSizes, BlocksInv PROVE B!BlocksApart
<1> DEFINE all == UNION {B!Places(i) : i \in Inode}
           blocks == {B!BlockAt(x[1], x[2]) : x \in all}
<1>1. ASSUME NEW x \in all
      PROVE  x[1] \in Inode /\ x[2] \in Place /\ x = <<x[1], x[2]>> /\ Named(x[1], x[2]) # 0
             /\ B!BlockAt(x[1], x[2]) = Named(x[1], x[2])
  <2>1. PICK i \in Inode : x \in B!Places(i)
    OBVIOUS
  <2>2. PICK k \in Place : Named(i, k) # 0 /\ x = <<i, k>>
    BY <2>1, PlacesNamed
  <2>3. QED
    BY <2>2, PlacesNamed
<1>2. \A i \in Inode, k \in Place : Named(i, k) # 0 => <<i, k>> \in all /\ B!BlockAt(i, k) = Named(i, k)
  BY PlacesNamed
<1> HIDE DEF all
<1>3. used = blocks
  <2>1. ASSUME NEW b \in used PROVE b \in blocks
    <3>1. PICK i \in Inode, k \in Place : Named(i, k) = b
      BY DEF BlocksInv, NamedOnce
    <3>2. b # 0
      <4>1. b \in B!Block
        BY DEF BlocksInv, BlockTypes
      <4>2. QED
        BY <4>1 DEF B!Block
    <3>3. <<i, k>> \in all /\ B!BlockAt(i, k) = b
      BY <1>2, <3>1, <3>2
    <3>4. QED
      BY <3>3
  <2>2. ASSUME NEW b \in blocks PROVE b \in used
    <3>1. PICK x \in all : b = B!BlockAt(x[1], x[2])
      OBVIOUS
    <3>2. QED
      BY <1>1, <3>1 DEF BlocksInv, NamedOnce
  <2>3. QED
    BY <2>1, <2>2
<1>4. Cardinality(all) = Cardinality(blocks)
  <2> DEFINE f == [b \in blocks |-> CHOOSE x \in all : B!BlockAt(x[1], x[2]) = b]
  <2>1. IsFiniteSet(blocks)
    <3>1. IsFiniteSet(B!Block) /\ used \in SUBSET B!Block
      <4>1. IsFiniteSet(1 .. SIZE)
        BY FS_Interval DEF BlockSizes
      <4>2. QED
        BY <4>1 DEF B!Block, BlocksInv, BlockTypes
    <3>2. QED
      BY <1>3, <3>1, FS_Subset
  <2>2. \A x, y \in all : B!BlockAt(x[1], x[2]) = B!BlockAt(y[1], y[2]) => x = y
    <3> SUFFICES ASSUME NEW x \in all, NEW y \in all, B!BlockAt(x[1], x[2]) = B!BlockAt(y[1], y[2])
                 PROVE  x = y
      OBVIOUS
    <3>1. x[1] = y[1] /\ x[2] = y[2]
      BY <1>1 DEF BlocksInv, NamedOnce
    <3>2. QED
      BY <1>1, <3>1
  <2>3. \A b \in blocks : f[b] \in all /\ B!BlockAt(f[b][1], f[b][2]) = b
    OBVIOUS
  <2>4. \A x \in all : B!BlockAt(x[1], x[2]) \in blocks
    OBVIOUS
  <2>5. f = [b \in blocks |-> f[b]]
    OBVIOUS
  <2> HIDE DEF f, blocks
  <2>6. f \in [blocks -> all]
    BY <2>3, <2>5
  <2>7. \A x \in all : \E b \in blocks : f[b] = x
    BY <2>2, <2>3, <2>4
  <2>8. \A b, c \in blocks : f[b] = f[c] => b = c
    BY <2>3
  <2>9. QED
    BY <2>1, <2>6, <2>7, <2>8, SameCount
<1>5. \A i \in Inode : lock[i] = None =>
        /\ dinode[i] = <<addrs[i], size[i]>>
        /\ \A bn \in 0 .. B!MAXFILE - 1 : bn * BSIZE < size[i] <=> B!Mapped(i, bn) # 0
  <2>1. 0 .. B!MAXFILE - 1 = BlockNo
    BY DEF B!MAXFILE, BlockNo, BlockSizes
  <2>2. QED
    BY <2>1 DEF BlocksInv, FileInv, Settled, Below
<1>6. panicked \notin {"freeing free block", "log_write outside of trans"}
  BY DEF BlocksInv, BlockTypes
<1>7. QED
  BY ONLY <1>3, <1>4, <1>5, <1>6, OneCardinality, Zenon DEF B!BlocksApart, all

\* Only the blocks that the chunk spans can be touched, one more than it has.
LEMMA TouchedFew ==
  ASSUME BlockSizes, BlocksInv, NEW p \in Proc, NEW i \in Inode, lock[i] = p, job[p].pc \in Writes
  PROVE  \E q \in Nat, c \in Nat :
           2 * c <= MAXOPBLOCKS - 4 /\ \A bn \in BlockNo : Touched(p, bn) => bn \in q .. q + c
<1> DEFINE off == job[p].off  start == off - job[p].tot  q == start \div BSIZE
           chunk == B!ThisChunk(job[p].n)
<1>1. InWritei(i, p) /\ job[p].i = i
  BY DEF BlocksInv, FileInv, LocksHeld, BlockSizes
<1>2. /\ off \in Nat /\ job[p].n \in Nat /\ job[p].tot \in Nat /\ start \in Nat
      /\ BSIZE \in Nat /\ BSIZE > 0 /\ MAXOPBLOCKS \in Nat
  <2>1. off \in Nat /\ job[p].n \in Nat /\ job[p].tot \in Nat
    BY JobFields DEF BlocksInv
  <2>2. job[p].tot <= off
    BY <1>1 DEF InWritei
  <2>3. QED
    BY <2>1, <2>2 DEF BlockSizes
<1>3. PICK c \in Nat : 2 * c <= MAXOPBLOCKS - 4 /\ chunk <= c * BSIZE
  BY <1>2, ChunkSize
<1>4. chunk \in Nat /\ (job[p].tot < chunk \/ (job[p].tot = chunk /\ job[p].pc = "end"))
  <2>1. chunk \in Nat
    BY <1>2, ChunkSize
  <2>2. job[p].pc = "write" => job[p].tot < chunk
    BY <1>1 DEF InWritei
  <2>3. job[p].pc = "end" => job[p].tot = chunk
    BY <1>1 DEF InWritei
  <2>4. QED
    BY <2>1, <2>2, <2>3 DEF Writes
<1>5. q \in Nat /\ q * BSIZE <= start /\ start < (q + 1) * BSIZE /\ q * BSIZE \in Int
  <2>1. q \in Nat /\ start % BSIZE \in Nat /\ start % BSIZE < BSIZE /\ start = q * BSIZE + (start % BSIZE)
    BY <1>2, BlockNumber
  <2> HIDE DEF q
  <2>2. q * BSIZE \in Int /\ (q + 1) * BSIZE = q * BSIZE + BSIZE
    BY <1>2, <2>1, Multiples
  <2>3. QED
    BY <1>2, <2>1, <2>2
<1>6. off < ((q + c) + 1) * BSIZE
  <2> HIDE DEF q, start, chunk
  <2>1. ((q + c) + 1) * BSIZE = (q + 1) * BSIZE + c * BSIZE /\ c * BSIZE \in Nat /\ (q + 1) * BSIZE \in Nat
    BY <1>2, <1>5
  <2>2. off = start + job[p].tot /\ job[p].tot <= chunk
    BY <1>2, <1>4 DEF start
  <2>3. QED
    BY <1>2, <1>3, <1>4, <1>5, <2>1, <2>2
<1>7. ASSUME NEW bn \in BlockNo, Touched(p, bn) PROVE bn \in q .. q + c
  <2>1. bn \in Nat /\ bn * BSIZE \in Int /\ (bn + 1) * BSIZE \in Int
    BY DEF BlockNo, BlockSizes
  <2>2. bn * BSIZE <= off
    <3>1. CASE Below(bn, off)
      BY <1>2, <2>1, <3>1 DEF Below
    <3>2. CASE job[p].pc = "write" /\ bn = B!Bn(p)
      BY <1>1, <3>2, WriteAt
    <3>3. QED
      BY <1>7, <3>1, <3>2 DEF Touched
  <2>3. (bn + 1) * BSIZE > start
    BY <1>7 DEF Touched
  <2> HIDE DEF q, start, chunk, off
  <2>4. bn * BSIZE < ((q + c) + 1) * BSIZE /\ q * BSIZE < (bn + 1) * BSIZE
    <3>1. ((q + c) + 1) * BSIZE \in Int
      BY <1>2, <1>5
    <3>2. off \in Int /\ start \in Int
      BY <1>2
    <3>3. QED
      BY <1>5, <1>6, <2>1, <2>2, <2>3, <3>1, <3>2
  <2>5. bn < (q + c) + 1 /\ q < bn + 1
    <3>1. (q + c) + 1 \in Int /\ bn + 1 \in Int /\ q \in Int /\ bn \in Int
      BY <1>5, <2>1
    <3>2. bn < (q + c) + 1
      BY <1>2, <2>4, <3>1, Multiples
    <3>3. q < bn + 1
      BY <1>2, <2>4, <3>1, Multiples
    <3>4. QED
      BY <3>2, <3>3
  <2>6. QED
    BY <1>5, <2>1, <2>5
<1> HIDE DEF q
<1>8. QED
  BY <1>3, <1>5, <1>7

LEMMA FewLogged == ASSUME BlockSizes, BlocksInv, NEW p \in Proc PROVE Cardinality(logged[p]) <= MAXOPBLOCKS
<1>1. MAXOPBLOCKS \in Nat /\ MAXOPBLOCKS >= 6
  BY DEF BlockSizes
<1>2. CASE job[p].pc \in {"user", "begin"}
  <2>1. logged[p] = {}
    BY <1>2 DEF BlocksInv, LocksHeld
  <2>2. Cardinality({}) = 0
    BY FS_EmptySet
  <2>3. QED
    BY <1>1, <2>1, <2>2
<1>3. CASE job[p].pc \in HasLock
  <2>1. PICK i \in Inode : lock[i] = p /\ job[p].i = i
    BY <1>3 DEF BlocksInv, LocksHeld
  <2>2. CASE job[p].pc \notin Writes
    <3>1. logged[p] \subseteq {<<"bitmap">>}
      BY <2>1, <2>2 DEF BlocksInv, FileInv, InItrunc, BlockSizes
    <3>2. IsFiniteSet({<<"bitmap">>}) /\ Cardinality({<<"bitmap">>}) = 1
      BY FS_Singleton
    <3>3. Cardinality(logged[p]) <= 1 /\ Cardinality(logged[p]) \in Nat
      BY <3>1, <3>2, FS_Subset, FS_CardinalityType
    <3>4. QED
      BY <1>1, <3>3
  <2>3. CASE job[p].pc \in Writes
    <3>1. PICK q \in Nat, c \in Nat :
            2 * c <= MAXOPBLOCKS - 4 /\ \A bn \in BlockNo : Touched(p, bn) => bn \in q .. q + c
      BY <2>1, <2>3, TouchedFew
    <3> DEFINE U == 0 .. c + 3
               f == [l \in U |-> IF l = c + 1 THEN <<"bitmap">> ELSE IF l = c + 2 THEN <<"inode", i>>
                                 ELSE IF l = c + 3 THEN <<"data", Ind(i)>>
                                 ELSE <<"data", B!Mapped(i, q + l)>>]
               T == {f[l] : l \in U}
    <3>2. IsFiniteSet(U) /\ Cardinality(U) = c + 4
      <4>1. ~(0 > c + 3) /\ c + 3 - 0 + 1 = c + 4 /\ 0 \in Int /\ c + 3 \in Int
        OBVIOUS
      <4>2. QED
        BY <4>1, FS_Interval
    <3>3. ASSUME NEW x \in logged[p] PROVE x \in T
      <4>1. Logs(p, x)
        BY <2>1, <2>3 DEF BlocksInv, FileInv, InWritei, BlockSizes, Writes
      <4>2. /\ c + 1 \in U /\ c + 2 \in U /\ c + 3 \in U /\ c + 1 # c + 2 /\ c + 1 # c + 3 /\ c + 2 # c + 3
        OBVIOUS
      <4>3. CASE x = <<"bitmap">> \/ x = <<"inode", i>> \/ x = <<"data", Ind(i)>>
        <5>1. f[c + 1] = <<"bitmap">> /\ f[c + 2] = <<"inode", i>> /\ f[c + 3] = <<"data", Ind(i)>>
          BY <4>2
        <5> HIDE DEF f, U
        <5>2. QED
          BY <4>2, <4>3, <5>1
      <4>4. CASE \E bn \in BlockNo : Touched(p, bn) /\ x = <<"data", B!Mapped(i, bn)>>
        <5>1. PICK bn \in BlockNo : Touched(p, bn) /\ x = <<"data", B!Mapped(i, bn)>>
          BY <4>4
        <5>2. bn \in q .. q + c
          BY <3>1, <5>1
        <5> PICK l \in 0 .. c : l = bn - q /\ q + l = bn
          BY <5>2
        <5>3. l \in U /\ l # c + 1 /\ l # c + 2 /\ l # c + 3
          OBVIOUS
        <5>4. f[l] = <<"data", B!Mapped(i, bn)>>
          BY <5>3
        <5> HIDE DEF f, U
        <5>5. QED
          BY <5>1, <5>3, <5>4
      <4>5. QED
        BY <2>1, <4>1, <4>3, <4>4 DEF Logs
    <3>4. IsFiniteSet(T) /\ Cardinality(T) <= Cardinality(U)
      <4>1. f \in [U -> T] /\ \A t \in T : \E l \in U : f[l] = t
        OBVIOUS
      <4> HIDE DEF f, U, T
      <4>2. f \in Surjection(U, T)
        BY <4>1 DEF Surjection
      <4>3. QED
        BY <3>2, <4>2, FS_Surjection
    <3> HIDE DEF f, U, T
    <3>5. logged[p] \in SUBSET T
      BY <3>3
    <3>6. Cardinality(logged[p]) <= Cardinality(T) /\ IsFiniteSet(logged[p])
      BY <3>4, <3>5, FS_Subset
    <3>7. Cardinality(logged[p]) \in Nat /\ Cardinality(T) \in Nat
      BY <3>4, <3>6, FS_CardinalityType
    <3>8. QED
      BY <1>1, <3>1, <3>2, <3>4, <3>6, <3>7
  <2>4. QED
    BY <2>2, <2>3
<1>4. QED
  BY <1>2, <1>3, JobFields DEF BlocksInv

\* fs.c: no block of the disk belongs to two places or is used while it is
\* marked free, and who locks a file finds it as it is on the disk.
THEOREM BlocksNamedOnce == ASSUME BlockSizes PROVE B!Spec => []B!BlocksApart
<1>1. BlocksInv => B!BlocksApart
  BY Apart
<1>2. QED
  BY <1>1, BlocksInvariance, PTL

\* filewrite: a transaction logs no more blocks than begin_op has reserved.
THEOREM WritesFitTheLog == ASSUME BlockSizes PROVE B!Spec => []B!TransactionFits
<1>1. ASSUME BlocksInv PROVE B!TransactionFits
  <2>1. \A p \in Proc : Cardinality(logged[p]) <= MAXOPBLOCKS
    BY <1>1, FewLogged
  <2>2. QED
    BY <2>1, OneCardinality DEF B!TransactionFits
<1>2. QED
  BY <1>1, BlocksInvariance, PTL

-----------------------------------------------------------------------------
(* The spin locks and interrupts.                                          *)

CONSTANTS Cpu, SpinLock
VARIABLES state, proc, iflag, ncli, intena, locked

L == INSTANCE Spinlock

\* Processes and the schedulers, which have their CPU's name, are told apart.
SpinSizes ==
  /\ Cpu \cap Thread = {} /\ None \notin Cpu \cup Thread
  /\ "ptable" \notin SpinLock

Op ==
  ({"acquire", "spin", "release"} \X L!Locks)
    \cup ({"sched"} \X {"RUNNABLE", "SLEEPING", "ZOMBIE"})
    \cup ({"resume"} \X BOOLEAN)
    \cup {<<"wakeup">>, <<"loop">>, <<"iret">>, <<"trapret">>, <<"forkret">>}
\* Calls after which nothing comes, or what was interrupted.
Ends == {<<"loop">>, <<"iret">>, <<"trapret">>, <<"forkret">>}

\* What a CPU has while it runs a thread: locks, and how often it has called
\* pushcli.  Free is outside of all locks, Under is in a switch.
Mode == {h \in [held : SUBSET L!Locks, ncli : Nat] : h.ncli = 0 => h.held = {}}
Free  == [held |-> {}, ncli |-> 0]
Under == [held |-> {"ptable"}, ncli |-> 1]

\* Call x takes a CPU that runs thread t from h to g.
Takes(t, h, x, g) ==
  \/ /\ x[1] = "acquire" /\ x[2] \notin h.held
     /\ g = [held |-> h.held \cup {x[2]}, ncli |-> h.ncli + 1]
  \/ /\ x[1] = "spin" /\ x[2] \notin h.held /\ h.ncli > 0
     /\ g = [held |-> h.held \cup {x[2]}, ncli |-> h.ncli]
  \/ /\ x[1] = "release" /\ x[2] \in h.held
     /\ g = [held |-> h.held \ {x[2]}, ncli |-> h.ncli - 1]
  \/ /\ x[1] = "sched" /\ t \in Thread /\ h = Under
     /\ g = IF x[2] = "ZOMBIE" THEN Free ELSE Under
  \/ x[1] = "resume" /\ t \in Thread /\ h = Under /\ g = Under
  \/ x[1] = "wakeup" /\ g = h
  \/ x[1] = "loop" /\ t \in Cpu /\ h = Under /\ g = Free
  \/ x[1] \in {"iret", "trapret", "forkret"} /\ h = Free /\ g = Free

\* The calls in s, one after the other, take it from h to Free.
Fits(t, s, h) ==
  \E m \in [Nat -> Mode] :
    /\ m[0] = h /\ m[Len(s)] = Free
    /\ \A i \in 1 .. Len(s) : Takes(t, m[i - 1], s[i], m[i])

\* A call that returns to user mode or to the scheduler is the last one, but
\* for one return from an interrupt; swtch comes back first of all.
Ordered(s) ==
  \A i, j \in 1 .. Len(s) : i < j =>
    s[j][1] # "resume" /\ (s[i] \in Ends => s[i] = <<"iret">> /\ s[j] # <<"iret">>)

\* What a thread has still to do contains a call, begins with it; has no
\* part at which interrupts are off on purpose; is that of a new process.
Has(s, x)  == \E i \in 1 .. Len(s) : s[i] = <<x>>
Steady(s)  == ~Has(s, "iret") /\ ~Has(s, "forkret")
Begins(s, x) == s # <<>> /\ s[1][1] = x
First      == <<<<"release", "ptable">>, <<"forkret">>>>

\* A value for intena that is right for a thread with s to do.
Right(s, b) == (Steady(s) => b) /\ (Has(s, "iret") => ~b)

ModeOf(c) == [held |-> {l \in L!Locks : locked[l] = c}, ncli |-> ncli[c]]

SpinTypes ==
  /\ state \in [Thread -> {"RUNNABLE", "RUNNING", "SLEEPING", "ZOMBIE"}]
  /\ proc \in [Cpu -> Thread \cup {None}]
  /\ iflag \subseteq Cpu /\ ncli \in [Cpu -> Nat] /\ intena \in [Cpu -> BOOLEAN]
  /\ locked \in [L!Locks -> Cpu \cup {None}]
  /\ todo \in [Thread \cup Cpu -> Seq(Op)]
  /\ panicked = FALSE

\* Who runs is on one CPU, whose scheduler is in its loop.
Placed ==
  /\ \A c \in Cpu : proc[c] # None => state[proc[c]] = "RUNNING" /\ todo[c] = <<<<"loop">>>>
  /\ \A c, d \in Cpu : proc[c] = proc[d] /\ proc[c] # None => c = d

\* A thread that does not run goes on in sched, or in forkret.
Waits(p) ==
  /\ state[p] \in {"RUNNABLE", "SLEEPING"} =>
       Fits(p, todo[p], Under) /\ (todo[p] = First \/ Begins(todo[p], "resume"))
  /\ Begins(todo[p], "resume") => Right(todo[p], todo[p][1][2])

\* What a CPU has, h, is what its thread t with s to do needs, and interrupts
\* are as t wants them: now, on, and when it is outside of all locks, b.
WellRun(t, h, on, b, s) ==
  /\ Fits(t, s, h)
  /\ h.ncli > 0 \/ Has(s, "iret") => ~on
  /\ t \in Thread /\ h.ncli = 0 /\ Steady(s) => on
  /\ h.ncli > 0 /\ ~Begins(s, "resume") =>
       (Has(s, "iret") => ~b) /\ (t \in Thread /\ Steady(s) => b)

On(c) == IF c \in iflag THEN TRUE ELSE FALSE
Running(c) == WellRun(L!Runs(c), ModeOf(c), On(c), intena[c], todo[L!Runs(c)])

SpinInv ==
  /\ SpinTypes /\ Placed
  /\ \A t \in Thread \cup Cpu : Ordered(todo[t])
  /\ \A p \in Thread : Waits(p)
  /\ \A c \in Cpu : Running(c)

-----------------------------------------------------------------------------
(* Sequences of calls.                                                     *)

LEMMA TailOf ==
  ASSUME NEW U, NEW s \in Seq(U), s # <<>>
  PROVE  /\ Tail(s) \in Seq(U) /\ Len(s) \in Nat /\ Len(s) > 0 /\ Len(Tail(s)) = Len(s) - 1
         /\ Head(s) = s[1] /\ s[1] \in U
         /\ \A i \in 1 .. Len(Tail(s)) : Tail(s)[i] = s[i + 1]
  OBVIOUS

LEMMA JoinOf ==
  ASSUME NEW U, NEW p \in Seq(U), NEW s \in Seq(U)
  PROVE  /\ p \o s \in Seq(U) /\ Len(p \o s) = Len(p) + Len(s)
         /\ Len(p) \in Nat /\ Len(s) \in Nat
         /\ \A i \in 1 .. Len(p) : (p \o s)[i] = p[i]
         /\ \A i \in 1 .. Len(s) : (p \o s)[Len(p) + i] = s[i]
  OBVIOUS

LEMMA SmallOnes ==
  ASSUME NEW U
  PROVE  /\ <<>> \in Seq(U) /\ Len(<<>>) = 0
         /\ \A s \in Seq(U) : s # <<>> /\ Tail(s) = <<>> => s = <<s[1]>>
         /\ \A x, y : <<x>> \o <<y>> = <<x, y>>
         /\ \A x : <<x>> \o <<>> = <<x>>
<1>1. <<>> \in Seq(U) /\ Len(<<>>) = 0
  OBVIOUS
<1>2. ASSUME NEW s \in Seq(U), s # <<>>, Tail(s) = <<>> PROVE s = <<s[1]>>
  <2> DEFINE r == Tail(s)
  <2>1. Len(r) = Len(s) - 1 /\ Len(s) \in Nat /\ r = <<>>
    BY <1>2, TailOf
  <2> HIDE DEF r
  <2>2. Len(s) = 1
    BY <1>1, <2>1
  <2>3. QED
    BY <2>2
<1>3. ASSUME NEW x, NEW y PROVE <<x>> \o <<y>> = <<x, y>>
  <2> DEFINE r == <<x>> \o <<y>>
  <2>1. <<x>> \in Seq({x, y}) /\ <<y>> \in Seq({x, y}) /\ Len(<<x>>) = 1 /\ Len(<<y>>) = 1
        /\ <<x>>[1] = x /\ <<y>>[1] = y
    OBVIOUS
  <2>2. r \in Seq({x, y}) /\ Len(r) = 2 /\ r[1] = x /\ r[1 + 1] = y
    BY <2>1, JoinOf
  <2> HIDE DEF r
  <2>3. r = <<x, y>>
    BY <2>2
  <2>4. QED
    BY <2>3 DEF r
<1>4. ASSUME NEW x PROVE <<x>> \o <<>> = <<x>>
  OBVIOUS
<1>5. QED
  BY <1>1, <1>2, <1>3, <1>4

LEMMA Modes == Free \in Mode /\ Under \in Mode
  BY DEF Free, Under, Mode, L!Locks

LEMMA NothingFits ==
  ASSUME NEW t
  PROVE  Fits(t, <<>>, Free) /\ \A h : Fits(t, <<>>, h) => h = Free
<1>1. Fits(t, <<>>, Free)
  <2> DEFINE m == [i \in Nat |-> Free]
  <2>1. m \in [Nat -> Mode] /\ m[0] = Free /\ m[Len(<<>>)] = Free
    BY Modes
  <2>2. \A i \in 1 .. Len(<<>>) : Takes(t, m[i - 1], <<>>[i], m[i])
    OBVIOUS
  <2> HIDE DEF m
  <2>3. QED
    BY <2>1, <2>2 DEF Fits
<1>2. \A h : Fits(t, <<>>, h) => h = Free
  BY DEF Fits
<1>3. QED
  BY <1>1, <1>2

LEMMA TailFits ==
  ASSUME NEW t, NEW s \in Seq(Op), s # <<>>, NEW h, Fits(t, s, h)
  PROVE  h \in Mode /\ \E g \in Mode : Takes(t, h, s[1], g) /\ Fits(t, Tail(s), g)
<1>1. PICK m \in [Nat -> Mode] :
        /\ m[0] = h /\ m[Len(s)] = Free
        /\ \A i \in 1 .. Len(s) : Takes(t, m[i - 1], s[i], m[i])
  BY DEF Fits
<1> DEFINE k == [i \in Nat |-> m[i + 1]]
<1>2. k \in [Nat -> Mode] /\ k[0] = m[1] /\ k[Len(Tail(s))] = Free
  BY <1>1, TailOf
<1>3. \A i \in 1 .. Len(Tail(s)) : Takes(t, k[i - 1], Tail(s)[i], k[i])
  <2>1. TAKE i \in 1 .. Len(Tail(s))
  <2>2. i + 1 \in 1 .. Len(s) /\ Tail(s)[i] = s[i + 1] /\ k[i - 1] = m[i] /\ k[i] = m[i + 1]
        /\ (i + 1) - 1 = i
    BY TailOf
  <2>3. Takes(t, m[(i + 1) - 1], s[i + 1], m[i + 1])
    BY <1>1, <2>2
  <2>4. QED
    BY <2>2, <2>3
<1>4. Fits(t, Tail(s), m[1])
  <2>1. \E n \in [Nat -> Mode] :
          /\ n[0] = m[1] /\ n[Len(Tail(s))] = Free
          /\ \A i \in 1 .. Len(Tail(s)) : Takes(t, n[i - 1], Tail(s)[i], n[i])
    BY <1>2, <1>3
  <2>2. QED
    BY <2>1 DEF Fits
<1>5. Takes(t, h, s[1], m[1]) /\ m[1] \in Mode /\ h \in Mode
  <2>1. 1 \in 1 .. Len(s) /\ 1 - 1 = 0
    BY TailOf
  <2>2. Takes(t, m[1 - 1], s[1], m[1])
    BY <1>1, <2>1
  <2>3. QED
    BY <1>1, <2>1, <2>2
<1>6. QED
  BY <1>4, <1>5

LEMMA JoinFits ==
  ASSUME NEW t, NEW p \in Seq(Op), NEW s \in Seq(Op), NEW q \in [0 .. Len(p) -> Mode],
         \A i \in 1 .. Len(p) : Takes(t, q[i - 1], p[i], q[i]),
         Fits(t, s, q[Len(p)])
  PROVE  Fits(t, p \o s, q[0])
<1>1. PICK m \in [Nat -> Mode] :
        /\ m[0] = q[Len(p)] /\ m[Len(s)] = Free
        /\ \A i \in 1 .. Len(s) : Takes(t, m[i - 1], s[i], m[i])
  BY DEF Fits
<1> DEFINE k == [i \in Nat |-> IF i <= Len(p) THEN q[i] ELSE m[i - Len(p)]]
<1>2. k \in [Nat -> Mode]
  <2>1. ASSUME NEW i \in Nat PROVE (IF i <= Len(p) THEN q[i] ELSE m[i - Len(p)]) \in Mode
    <3>1. CASE i <= Len(p)
      <4>1. i \in 0 .. Len(p)
        BY <3>1, JoinOf
      <4>2. q[i] \in Mode
        BY <4>1
      <4>3. QED
        BY <3>1, <4>2
    <3>2. CASE ~(i <= Len(p))
      <4>1. i - Len(p) \in Nat
        BY <3>2, JoinOf
      <4>2. m[i - Len(p)] \in Mode
        BY <4>1
      <4>3. QED
        BY <3>2, <4>2
    <3>3. QED
      BY <3>1, <3>2
  <2>2. QED
    BY <2>1
<1>3. k[0] = q[0] /\ k[Len(p \o s)] = Free
  BY <1>1, JoinOf
<1>4. \A i \in 1 .. Len(p \o s) : Takes(t, k[i - 1], (p \o s)[i], k[i])
  <2>1. TAKE i \in 1 .. Len(p \o s)
  <2>2. CASE i <= Len(p)
    <3>1. i \in 1 .. Len(p) /\ k[i - 1] = q[i - 1] /\ k[i] = q[i] /\ (p \o s)[i] = p[i]
      BY <2>2, JoinOf
    <3>2. QED
      BY <3>1
  <2>3. CASE i > Len(p)
    <3> DEFINE j == i - Len(p)
    <3>1. j \in 1 .. Len(s) /\ i = Len(p) + j
      BY <2>3, JoinOf
    <3>2. (p \o s)[i] = s[j]
      BY <3>1, JoinOf
    <3>3. k[i] = m[j]
      BY <2>3, JoinOf
    <3>4. k[i - 1] = m[j - 1]
      BY <1>1, <2>3, <3>1, JoinOf
    <3>5. Takes(t, m[j - 1], s[j], m[j])
      BY <1>1, <3>1
    <3>6. QED
      BY <3>2, <3>3, <3>4, <3>5
  <2>4. QED
    BY <2>2, <2>3, JoinOf
<1>5. QED
  <2>1. \E n \in [Nat -> Mode] :
          /\ n[0] = q[0] /\ n[Len(p \o s)] = Free
          /\ \A i \in 1 .. Len(p \o s) : Takes(t, n[i - 1], (p \o s)[i], n[i])
    BY <1>2, <1>3, <1>4
  <2>2. QED
    BY <2>1 DEF Fits

LEMMA OneMore ==
  ASSUME NEW t, NEW x \in Op, NEW s \in Seq(Op), NEW h \in Mode, NEW g \in Mode,
         Takes(t, h, x, g), Fits(t, s, g)
  PROVE  Fits(t, <<x>> \o s, h)
<1> DEFINE q == [i \in 0 .. 1 |-> IF i = 0 THEN h ELSE g]
<1>1. <<x>> \in Seq(Op) /\ Len(<<x>>) = 1 /\ q \in [0 .. Len(<<x>>) -> Mode] /\ q[0] = h /\ q[1] = g
  OBVIOUS
<1>2. \A i \in 1 .. Len(<<x>>) : Takes(t, q[i - 1], <<x>>[i], q[i])
  BY <1>1
<1>3. QED
  <2> HIDE DEF q
  <2>1. QED
    BY <1>1, <1>2, JoinFits

LEMMA TailHas ==
  ASSUME NEW s \in Seq(Op), s # <<>>, NEW x
  PROVE  Has(s, x) <=> s[1] = <<x>> \/ Has(Tail(s), x)
<1>1. ASSUME Has(s, x), s[1] # <<x>> PROVE Has(Tail(s), x)
  <2>1. PICK i \in 1 .. Len(s) : s[i] = <<x>>
    BY <1>1 DEF Has
  <2>2. i # 1
    BY <1>1, <2>1
  <2>3. i - 1 \in 1 .. Len(Tail(s)) /\ (i - 1) + 1 = i
    BY <2>2, TailOf
  <2>4. Tail(s)[i - 1] = s[i]
    BY <2>3, TailOf
  <2>5. QED
    BY <2>1, <2>3, <2>4 DEF Has
<1>2. ASSUME Has(Tail(s), x) PROVE Has(s, x)
  <2>1. PICK i \in 1 .. Len(Tail(s)) : Tail(s)[i] = <<x>>
    BY <1>2 DEF Has
  <2>2. i + 1 \in 1 .. Len(s) /\ s[i + 1] = <<x>>
    BY <2>1, TailOf
  <2>3. QED
    BY <2>2 DEF Has
<1>3. ASSUME s[1] = <<x>> PROVE Has(s, x)
  <2>1. 1 \in 1 .. Len(s)
    BY TailOf
  <2>2. QED
    BY <1>3, <2>1 DEF Has
<1>4. QED
  BY <1>1, <1>2, <1>3

LEMMA TailOrdered ==
  ASSUME NEW s \in Seq(Op), s # <<>>, Ordered(s)
  PROVE  /\ Ordered(Tail(s)) /\ ~Begins(Tail(s), "resume")
         /\ s[1] \in Ends =>
              Tail(s) = <<>> \/ (s[1] = <<"iret">> /\ ~Has(Tail(s), "iret"))
<1>1. ASSUME NEW i \in 1 .. Len(Tail(s))
      PROVE  /\ 1 \in 1 .. Len(s) /\ i + 1 \in 1 .. Len(s) /\ 1 < i + 1
             /\ Tail(s)[i] = s[i + 1]
  BY TailOf
<1>2. Ordered(Tail(s))
  <2>1. ASSUME NEW i \in 1 .. Len(Tail(s)), NEW j \in 1 .. Len(Tail(s)), i < j
        PROVE  /\ s[j + 1][1] # "resume"
               /\ s[i + 1] \in Ends => s[i + 1] = <<"iret">> /\ s[j + 1] # <<"iret">>
    <3>1. i + 1 \in 1 .. Len(s) /\ j + 1 \in 1 .. Len(s) /\ i + 1 < j + 1
      BY <1>1, <2>1
    <3>2. QED
      BY <3>1 DEF Ordered
  <2>2. QED
    BY <1>1, <2>1 DEF Ordered
<1>3. \A i \in 1 .. Len(Tail(s)) :
        Tail(s)[i][1] # "resume" /\ (s[1] \in Ends => s[1] = <<"iret">> /\ Tail(s)[i] # <<"iret">>)
  BY <1>1 DEF Ordered
<1>4. Tail(s) # <<>> => 1 \in 1 .. Len(Tail(s))
  <2>1. Tail(s) \in Seq(Op)
    BY TailOf
  <2>2. QED
    BY <2>1, TailOf
<1>5. QED
  BY <1>2, <1>3, <1>4 DEF Begins, Has

LEMMA JoinHas ==
  ASSUME NEW p \in Seq(Op), NEW s \in Seq(Op), NEW x
  PROVE  Has(p \o s, x) <=> Has(p, x) \/ Has(s, x)
<1>1. ASSUME Has(p \o s, x) PROVE Has(p, x) \/ Has(s, x)
  <2>1. PICK i \in 1 .. Len(p \o s) : (p \o s)[i] = <<x>>
    BY <1>1 DEF Has
  <2>2. CASE i <= Len(p)
    <3>1. i \in 1 .. Len(p) /\ p[i] = <<x>>
      BY <2>1, <2>2, JoinOf
    <3>2. QED
      BY <3>1 DEF Has
  <2>3. CASE i > Len(p)
    <3>1. i - Len(p) \in 1 .. Len(s) /\ Len(p) + (i - Len(p)) = i
      BY <2>3, JoinOf
    <3>2. s[i - Len(p)] = <<x>>
      BY <2>1, <3>1, JoinOf
    <3>3. QED
      BY <3>1, <3>2 DEF Has
  <2>4. QED
    BY <2>2, <2>3, JoinOf
<1>2. ASSUME Has(p, x) PROVE Has(p \o s, x)
  <2>1. PICK i \in 1 .. Len(p) : p[i] = <<x>>
    BY <1>2 DEF Has
  <2>2. i \in 1 .. Len(p \o s) /\ (p \o s)[i] = <<x>>
    BY <2>1, JoinOf
  <2>3. QED
    BY <2>2 DEF Has
<1>3. ASSUME Has(s, x) PROVE Has(p \o s, x)
  <2>1. PICK i \in 1 .. Len(s) : s[i] = <<x>>
    BY <1>3 DEF Has
  <2>2. Len(p) + i \in 1 .. Len(p \o s) /\ (p \o s)[Len(p) + i] = <<x>>
    BY <2>1, JoinOf
  <2>3. QED
    BY <2>2 DEF Has
<1>4. QED
  BY <1>1, <1>2, <1>3

\* Calls that do not return, and are no part of a switch.
Plain(p) == \A i \in 1 .. Len(p) : p[i] \notin Ends /\ p[i][1] # "resume"

\* The first of p may also be the rest of a switch.
LEMMA JoinOrdered ==
  ASSUME NEW p \in Seq(Op), NEW s \in Seq(Op), Ordered(s), ~Begins(s, "resume"),
         \A i \in 1 .. Len(p) : p[i] \notin Ends /\ (i > 1 => p[i][1] # "resume")
  PROVE  Ordered(p \o s)
<1>1. ASSUME NEW i \in 1 .. Len(p \o s), NEW j \in 1 .. Len(p \o s), i < j
      PROVE  /\ (p \o s)[j][1] # "resume"
             /\ (p \o s)[i] \in Ends => (p \o s)[i] = <<"iret">> /\ (p \o s)[j] # <<"iret">>
  <2>1. CASE j <= Len(p)
    <3>1. i \in 1 .. Len(p) /\ j \in 1 .. Len(p) /\ j > 1
      BY <1>1, <2>1, JoinOf
    <3>2. (p \o s)[i] = p[i] /\ (p \o s)[j] = p[j]
      BY <3>1, JoinOf
    <3>3. QED
      BY <3>1, <3>2
  <2>2. CASE j > Len(p)
    <3> DEFINE b == j - Len(p)
    <3>1. b \in 1 .. Len(s) /\ Len(p) + b = j
      BY <2>2, JoinOf
    <3>2. (p \o s)[j] = s[b]
      BY <3>1, JoinOf
    <3>3. s[b][1] # "resume"
      <4>1. CASE b = 1
        <5>1. s # <<>>
          BY <3>1
        <5>2. QED
          BY <4>1, <5>1 DEF Begins
      <4>2. CASE b # 1
        <5>1. 1 \in 1 .. Len(s) /\ 1 < b
          BY <3>1, <4>2, JoinOf
        <5>2. QED
          BY <3>1, <5>1 DEF Ordered
      <4>3. QED
        BY <4>1, <4>2
    <3>4. CASE i <= Len(p)
      <4>1. i \in 1 .. Len(p) /\ (p \o s)[i] = p[i]
        BY <3>4, JoinOf
      <4>2. QED
        BY <3>2, <3>3, <4>1
    <3>5. CASE i > Len(p)
      <4> DEFINE a == i - Len(p)
      <4>1. a \in 1 .. Len(s) /\ Len(p) + a = i /\ a < b
        BY <1>1, <3>5, JoinOf
      <4>2. (p \o s)[i] = s[a]
        BY <4>1, JoinOf
      <4>3. s[a] \in Ends => s[a] = <<"iret">> /\ s[b] # <<"iret">>
        BY <3>1, <4>1 DEF Ordered
      <4>4. QED
        BY <3>2, <3>3, <4>2, <4>3
    <3>6. QED
      BY <3>4, <3>5, JoinOf
  <2>3. QED
    BY <2>1, <2>2, JoinOf
<1>2. QED
  BY <1>1 DEF Ordered

\* A call in front of others.
LEMMA OneOrdered ==
  ASSUME NEW x \in Op, NEW s \in Seq(Op), Ordered(s), ~Begins(s, "resume")
  PROVE  /\ <<x>> \o s \in Seq(Op) /\ <<x>> \o s # <<>> /\ (<<x>> \o s)[1] = x
         /\ \A y : Has(<<x>> \o s, y) <=> x = <<y>> \/ Has(s, y)
         /\ x \notin Ends \/ (x = <<"iret">> /\ ~Has(s, "iret")) => Ordered(<<x>> \o s)
<1>1. <<x>> \in Seq(Op) /\ Len(<<x>>) = 1 /\ <<x>>[1] = x
  OBVIOUS
<1>2. <<x>> \o s \in Seq(Op) /\ <<x>> \o s # <<>> /\ (<<x>> \o s)[1] = x
  <2>1. 1 \in 1 .. Len(<<x>>)
    BY <1>1
  <2>2. QED
    BY <1>1, <2>1, JoinOf
<1>3. ASSUME NEW y PROVE Has(<<x>> \o s, y) <=> x = <<y>> \/ Has(s, y)
  <2>1. Has(<<x>>, y) <=> x = <<y>>
    BY <1>1 DEF Has
  <2>2. QED
    BY <1>1, <2>1, JoinHas
<1>4. ASSUME x \notin Ends PROVE Ordered(<<x>> \o s)
  <2>1. \A i \in 1 .. Len(<<x>>) : <<x>>[i] \notin Ends /\ (i > 1 => <<x>>[i][1] # "resume")
    BY <1>1, <1>4
  <2>2. QED
    BY <1>1, <2>1, JoinOrdered
<1>5. ASSUME x = <<"iret">>, ~Has(s, "iret") PROVE Ordered(<<x>> \o s)
  <2>1. ASSUME NEW i \in 1 .. Len(<<x>> \o s), NEW j \in 1 .. Len(<<x>> \o s), i < j
        PROVE  /\ (<<x>> \o s)[j][1] # "resume"
               /\ (<<x>> \o s)[i] \in Ends =>
                    (<<x>> \o s)[i] = <<"iret">> /\ (<<x>> \o s)[j] # <<"iret">>
    <3> DEFINE b == j - 1
    <3>1. b \in 1 .. Len(s) /\ 1 + b = j /\ Len(s) \in Nat
      BY <1>1, <2>1, JoinOf
    <3>2. (<<x>> \o s)[j] = s[b]
      BY <1>1, <3>1, JoinOf
    <3>3. s[b] # <<"iret">>
      BY <1>5, <3>1 DEF Has
    <3>4. s[b][1] # "resume"
      <4>1. CASE b = 1
        BY <3>1, <4>1 DEF Begins
      <4>2. CASE b # 1
        <5>1. 1 \in 1 .. Len(s) /\ 1 < b
          BY <3>1, <4>2
        <5>2. QED
          BY <3>1, <5>1 DEF Ordered
      <4>3. QED
        BY <4>1, <4>2
    <3>5. CASE i = 1
      BY <1>2, <1>5, <3>2, <3>3, <3>4, <3>5
    <3>6. CASE i # 1
      <4> DEFINE a == i - 1
      <4>1. a \in 1 .. Len(s) /\ 1 + a = i /\ a < b
        BY <1>1, <2>1, <3>6, JoinOf
      <4>2. (<<x>> \o s)[i] = s[a]
        BY <1>1, <4>1, JoinOf
      <4>3. s[a] \in Ends => s[a] = <<"iret">>
        BY <3>1, <4>1 DEF Ordered
      <4>4. QED
        BY <3>2, <3>3, <3>4, <4>2, <4>3
    <3>7. QED
      BY <3>5, <3>6
  <2>2. QED
    BY <2>1 DEF Ordered
<1>6. QED
  BY <1>2, <1>3, <1>4, <1>5

-----------------------------------------------------------------------------
(* What system calls and interrupts put in front.                          *)

\* What a thread may have to do that is outside of all locks.
Good(t, s) == s \in Seq(Op) /\ Ordered(s) /\ ~Begins(s, "resume") /\ Fits(t, s, Free)

\* Calls of t from outside of all locks to there.
Around(t, p) ==
  /\ p \in Seq(Op) /\ Plain(p)
  /\ \E q \in [0 .. Len(p) -> Mode] :
       /\ q[0] = Free /\ q[Len(p)] = Free
       /\ \A i \in 1 .. Len(p) : Takes(t, q[i - 1], p[i], q[i])

LEMMA PlainJoin ==
  ASSUME NEW t, NEW p, Around(t, p), NEW s, Good(t, s)
  PROVE  /\ Good(t, p \o s)
         /\ \A x \in {"iret", "forkret"} : Has(p \o s, x) <=> Has(s, x)
<1>0. p \in Seq(Op) /\ Plain(p)
  BY DEF Around
<1>q. PICK q \in [0 .. Len(p) -> Mode] :
        /\ q[0] = Free /\ q[Len(p)] = Free
        /\ \A i \in 1 .. Len(p) : Takes(t, q[i - 1], p[i], q[i])
  BY DEF Around
<1>1. s \in Seq(Op) /\ Ordered(s) /\ ~Begins(s, "resume") /\ Fits(t, s, q[Len(p)])
  BY <1>q DEF Good
<1>2. p \o s \in Seq(Op)
  BY <1>0, <1>1, JoinOf
<1>3. Fits(t, p \o s, Free)
  BY <1>0, <1>1, <1>q, JoinFits
<1>4. Ordered(p \o s)
  BY <1>0, <1>1, JoinOrdered DEF Plain
<1>5. ~Begins(p \o s, "resume")
  <2>1. CASE Len(p) = 0
    <3>1. p \o s = s
      BY <1>0, <1>1, <2>1
    <3>2. QED
      BY <1>1, <3>1
  <2>2. CASE Len(p) # 0
    <3>1. 1 \in 1 .. Len(p)
      BY <1>0, <2>2
    <3>2. (p \o s)[1] = p[1] /\ p[1][1] # "resume"
      BY <1>0, <1>1, <3>1, JoinOf DEF Plain
    <3>3. QED
      BY <3>2 DEF Begins
  <2>3. QED
    BY <2>1, <2>2
<1>6. ASSUME NEW x \in {"iret", "forkret"} PROVE ~Has(p, x)
  BY <1>0 DEF Has, Plain, Ends
<1>7. QED
  BY <1>0, <1>1, <1>2, <1>3, <1>4, <1>5, <1>6, JoinHas DEF Good

Waking(l) == <<L!Acq(l), L!Acq("ptable"), <<"wakeup">>, L!Rel("ptable"), L!Rel(l)>>
Sleeping(l) == <<L!Acq(l), L!Acq("ptable"), L!Rel(l), <<"sched", "SLEEPING">>, L!Rel("ptable"),
                 L!Acq(l), L!Rel(l)>>
Switching(x) == <<L!Acq("ptable"), <<"sched", x>>, L!Rel("ptable")>>
Leaving == <<L!Acq("ptable"), <<"sched", "ZOMBIE">>>>

LEMMA WakingGood ==
  ASSUME SpinSizes, NEW t, NEW l \in SpinLock, NEW s, Good(t, s)
  PROVE  /\ Good(t, Waking(l) \o s)
         /\ \A x \in {"iret", "forkret"} : Has(Waking(l) \o s, x) <=> Has(s, x)
<1> DEFINE p == Waking(l)
           h1 == [held |-> {l}, ncli |-> 1]
           h2 == [held |-> {l, "ptable"}, ncli |-> 2]
           q == [i \in 0 .. 5 |-> IF i \in {0, 5} THEN Free ELSE IF i \in {1, 4} THEN h1 ELSE h2]
<1>1. l # "ptable" /\ l \in L!Locks /\ "ptable" \in L!Locks
  BY DEF SpinSizes, L!Locks
<1>2. p \in Seq(Op) /\ Len(p) = 5
  BY <1>1 DEF Waking, Op, L!Acq, L!Rel
<1>3. Plain(p)
  BY <1>2 DEF Plain, Waking, Ends, L!Acq, L!Rel
<1>4. h1 \in Mode /\ h2 \in Mode
  BY <1>1 DEF Mode
<1>5. q \in [0 .. Len(p) -> Mode] /\ q[0] = Free /\ q[Len(p)] = Free
  BY <1>2, <1>4, Modes
<1>6. /\ Takes(t, Free, p[1], h1) /\ Takes(t, h1, p[2], h2) /\ Takes(t, h2, p[3], h2)
      /\ Takes(t, h2, p[4], h1) /\ Takes(t, h1, p[5], Free)
  BY <1>1 DEF Takes, Waking, Free, L!Acq, L!Rel
<1>7. \A i \in 1 .. Len(p) : Takes(t, q[i - 1], p[i], q[i])
  <2>1. /\ q[0] = Free /\ q[1] = h1 /\ q[2] = h2 /\ q[3] = h2 /\ q[4] = h1 /\ q[5] = Free
    OBVIOUS
  <2> HIDE DEF q, h1, h2, p
  <2>2. QED
    BY <1>2, <1>6, <2>1
<1> HIDE DEF p, q, h1, h2
<1>8. Around(t, p)
  BY <1>2, <1>3, <1>5, <1>7 DEF Around
<1>9. QED
  BY <1>8, PlainJoin DEF p

LEMMA SleepingGood ==
  ASSUME SpinSizes, NEW t \in Thread, NEW l \in SpinLock, NEW s, Good(t, s)
  PROVE  /\ Good(t, Sleeping(l) \o s)
         /\ \A x \in {"iret", "forkret"} : Has(Sleeping(l) \o s, x) <=> Has(s, x)
<1> DEFINE p == Sleeping(l)
           h1 == [held |-> {l}, ncli |-> 1]
           h2 == [held |-> {l, "ptable"}, ncli |-> 2]
           q == [i \in 0 .. 7 |-> IF i \in {0, 5, 7} THEN Free ELSE IF i \in {1, 6} THEN h1
                                  ELSE IF i = 2 THEN h2 ELSE Under]
<1>1. l # "ptable" /\ l \in L!Locks /\ "ptable" \in L!Locks
  BY DEF SpinSizes, L!Locks
<1>2. p \in Seq(Op) /\ Len(p) = 7
  BY <1>1 DEF Sleeping, Op, L!Acq, L!Rel
<1>3. Plain(p)
  BY <1>2 DEF Plain, Sleeping, Ends, L!Acq, L!Rel
<1>4. h1 \in Mode /\ h2 \in Mode
  BY <1>1 DEF Mode
<1>5. q \in [0 .. Len(p) -> Mode] /\ q[0] = Free /\ q[Len(p)] = Free
  BY <1>2, <1>4, Modes
<1>6. /\ Takes(t, Free, p[1], h1) /\ Takes(t, h1, p[2], h2) /\ Takes(t, h2, p[3], Under)
      /\ Takes(t, Under, p[4], Under) /\ Takes(t, Under, p[5], Free)
      /\ Takes(t, Free, p[6], h1) /\ Takes(t, h1, p[7], Free)
  BY <1>1 DEF Takes, Sleeping, Free, Under, L!Acq, L!Rel
<1>7. \A i \in 1 .. Len(p) : Takes(t, q[i - 1], p[i], q[i])
  <2>1. /\ q[0] = Free /\ q[1] = h1 /\ q[2] = h2 /\ q[3] = Under /\ q[4] = Under /\ q[5] = Free
        /\ q[6] = h1 /\ q[7] = Free
    OBVIOUS
  <2> HIDE DEF q, h1, h2, p
  <2>2. QED
    BY <1>2, <1>6, <2>1
<1> HIDE DEF p, q, h1, h2
<1>8. Around(t, p)
  BY <1>2, <1>3, <1>5, <1>7 DEF Around
<1>9. QED
  BY <1>8, PlainJoin DEF p

LEMMA SwitchingGood ==
  ASSUME SpinSizes, NEW t \in Thread, NEW y \in {"SLEEPING", "RUNNABLE"}, NEW s, Good(t, s)
  PROVE  /\ Good(t, Switching(y) \o s)
         /\ \A x \in {"iret", "forkret"} : Has(Switching(y) \o s, x) <=> Has(s, x)
<1> DEFINE p == Switching(y)
           q == [i \in 0 .. 3 |-> IF i \in {0, 3} THEN Free ELSE Under]
<1>1. p \in Seq(Op) /\ Len(p) = 3
  BY DEF Switching, Op, L!Acq, L!Rel, L!Locks
<1>2. Plain(p)
  BY <1>1 DEF Plain, Switching, Ends, L!Acq, L!Rel
<1>3. q \in [0 .. Len(p) -> Mode] /\ q[0] = Free /\ q[Len(p)] = Free
  BY <1>1, Modes
<1>4. Takes(t, Free, p[1], Under) /\ Takes(t, Under, p[2], Under) /\ Takes(t, Under, p[3], Free)
  BY DEF Takes, Switching, Free, Under, L!Acq, L!Rel
<1>5. \A i \in 1 .. Len(p) : Takes(t, q[i - 1], p[i], q[i])
  <2>1. q[0] = Free /\ q[1] = Under /\ q[2] = Under /\ q[3] = Free
    OBVIOUS
  <2> HIDE DEF q, p
  <2>2. QED
    BY <1>1, <1>4, <2>1
<1> HIDE DEF p, q
<1>6. Around(t, p)
  BY <1>1, <1>2, <1>3, <1>5 DEF Around
<1>7. QED
  BY <1>6, PlainJoin DEF p

LEMMA LeavingGood ==
  ASSUME SpinSizes, NEW t \in Thread, NEW s, Good(t, s)
  PROVE  /\ Good(t, Leaving \o s)
         /\ \A x \in {"iret", "forkret"} : Has(Leaving \o s, x) <=> Has(s, x)
<1> DEFINE q == [i \in 0 .. 2 |-> IF i \in {0, 2} THEN Free ELSE Under]
<1>1. Leaving \in Seq(Op) /\ Len(Leaving) = 2
  BY DEF Leaving, Op, L!Acq, L!Locks
<1>2. Plain(Leaving)
  BY <1>1 DEF Plain, Leaving, Ends, L!Acq
<1>3. q \in [0 .. Len(Leaving) -> Mode] /\ q[0] = Free /\ q[Len(Leaving)] = Free
  BY <1>1, Modes
<1>4. Takes(t, Free, Leaving[1], Under) /\ Takes(t, Under, Leaving[2], Free)
  BY DEF Takes, Leaving, Free, Under, L!Acq
<1>5. \A i \in 1 .. Len(Leaving) : Takes(t, q[i - 1], Leaving[i], q[i])
  <2>1. q[0] = Free /\ q[1] = Under /\ q[2] = Free
    OBVIOUS
  <2> HIDE DEF q
  <2>2. QED
    BY <1>1, <1>4, <2>1
<1> HIDE DEF q
<1>6. Around(t, Leaving)
  BY <1>1, <1>2, <1>3, <1>5 DEF Around
<1>7. QED
  BY <1>6, PlainJoin

\* A return in front.
LEMMA ReturnGood ==
  ASSUME NEW t, NEW s, Good(t, s), NEW x \in {<<"iret">>, <<"trapret">>, <<"forkret">>},
         s = <<>> \/ (x = <<"iret">> /\ ~Has(s, "iret"))
  PROVE  /\ Good(t, <<x>> \o s)
         /\ \A y : Has(<<x>> \o s, y) <=> x = <<y>> \/ Has(s, y)
<1>1. x \in Op /\ x[1] # "resume" /\ x[1] \in {"iret", "trapret", "forkret"}
  BY DEF Op
<1>2. s \in Seq(Op) /\ Ordered(s) /\ ~Begins(s, "resume") /\ Fits(t, s, Free)
  BY DEF Good
<1>3. /\ <<x>> \o s \in Seq(Op) /\ (<<x>> \o s)[1] = x
      /\ \A y : Has(<<x>> \o s, y) <=> x = <<y>> \/ Has(s, y)
      /\ x = <<"iret">> /\ ~Has(s, "iret") => Ordered(<<x>> \o s)
  BY <1>1, <1>2, OneOrdered
<1>4. ASSUME s = <<>> PROVE Ordered(<<x>> \o s)
  <2>1. <<x>> \o s = <<x>> /\ Len(<<x>>) = 1
    BY <1>4
  <2>2. QED
    BY <2>1 DEF Ordered
<1>5. Takes(t, Free, x, Free)
  BY <1>1 DEF Takes
<1>6. Fits(t, <<x>> \o s, Free)
  BY <1>1, <1>2, <1>5, Modes, OneMore
<1>7. QED
  BY <1>1, <1>3, <1>4, <1>6 DEF Good, Begins

LEMMA EmptyGood == ASSUME NEW t PROVE Good(t, <<>>) /\ \A x : ~Has(<<>>, x)
  BY NothingFits DEF Good, Ordered, Begins, Has

\* The system calls.
LEMMA CallsGood ==
  ASSUME SpinSizes, NEW t \in Thread, NEW ops \in L!Calls
  PROVE  Good(t, Append(ops, <<"trapret">>)) /\ Steady(Append(ops, <<"trapret">>))
<1> DEFINE s == <<<<"trapret">>>> \o <<>>
<1>1. Good(t, s) /\ ~Has(s, "iret") /\ ~Has(s, "forkret")
  BY EmptyGood, ReturnGood
<1>2. s = <<<<"trapret">>>>
  OBVIOUS
<1> HIDE DEF s
<1>3. \/ \E l \in SpinLock : ops = Waking(l) \/ ops = Sleeping(l)
      \/ ops = Switching("SLEEPING") \/ ops = Leaving
  BY DEF L!Calls, Waking, Sleeping, Switching, Leaving
<1>4. Good(t, ops \o s) /\ ~Has(ops \o s, "iret") /\ ~Has(ops \o s, "forkret")
  BY <1>1, <1>3, WakingGood, SleepingGood, SwitchingGood, LeavingGood
<1>5. Append(ops, <<"trapret">>) = ops \o s
  BY <1>2, <1>3 DEF Waking, Sleeping, Switching, Leaving, L!Acq, L!Rel
<1>6. QED
  BY <1>4, <1>5 DEF Steady

\* An interrupt outside of all locks.
LEMMA InterruptGood ==
  ASSUME SpinSizes, NEW t, NEW s, Good(t, s), ~Has(s, "iret"), NEW l \in SpinLock,
         NEW y, y = <<>> \/ (y = Switching("RUNNABLE") /\ t \in Thread)
  PROVE  LET r == Waking(l) \o y \o <<<<"iret">>>> \o s IN Good(t, r) /\ Has(r, "iret")
<1> DEFINE a == <<<<"iret">>>> \o s
<1>1. Good(t, a) /\ Has(a, "iret")
  BY ReturnGood
<1>2. Good(t, y \o a) /\ Has(y \o a, "iret")
  <2>1. CASE y = <<>>
    <3>1. a \in Seq(Op)
      BY <1>1 DEF Good
    <3> HIDE DEF a
    <3>2. y \o a = a
      BY <2>1, <3>1
    <3>3. QED
      BY <1>1, <3>2
  <2>2. CASE y = Switching("RUNNABLE") /\ t \in Thread
    <3> HIDE DEF a
    <3>1. QED
      BY <1>1, <2>2, SwitchingGood
  <2>3. QED
    BY <2>1, <2>2
<1>3. Good(t, Waking(l) \o (y \o a)) /\ Has(Waking(l) \o (y \o a), "iret")
  <2> HIDE DEF a
  <2>1. QED
    BY <1>2, WakingGood
<1>4. Waking(l) \o y \o <<<<"iret">>>> \o s = Waking(l) \o (y \o a)
  <2>1. Waking(l) \in Seq(Op) /\ <<<<"iret">>>> \in Seq(Op) /\ s \in Seq(Op)
    BY DEF Waking, Op, L!Acq, L!Rel, L!Locks, Good
  <2>2. y \in Seq(Op)
    <3>1. Switching("RUNNABLE") \in Seq(Op) /\ <<>> \in Seq(Op)
      BY DEF Switching, Op, L!Acq, L!Rel, L!Locks
    <3>2. QED
      BY <3>1
  <2> DEFINE u == Waking(l)  w == <<<<"iret">>>>
  <2>3. u \o y \in Seq(Op) /\ (u \o y) \o w = u \o (y \o w) /\ y \o w \in Seq(Op)
    <3> HIDE DEF u, w
    <3>1. QED
      BY <2>1, <2>2 DEF u, w, Waking
  <2>4. (u \o (y \o w)) \o s = u \o ((y \o w) \o s)
    BY <2>1, <2>3
  <2>5. (y \o w) \o s = y \o (w \o s)
    BY <2>1, <2>2
  <2>6. QED
    BY <2>3, <2>4, <2>5
<1>5. QED
  BY <1>3, <1>4

-----------------------------------------------------------------------------
(* What becomes of a thread that a CPU runs.                               *)

\* What pushcli keeps in intena.
Kept(n, on, b) == IF n = 0 THEN on ELSE b

\* What pushcli and the test of acquire leave to do.
Spins(t, h, on, b, s) ==
  LET l == s[1][2]  r == <<<<"spin", l>>>> \o Tail(s) IN
  /\ l \in L!Locks /\ l \notin h.held
  /\ r \in Seq(Op) /\ Ordered(r) /\ ~Begins(r, "resume")
  /\ WellRun(t, [held |-> h.held, ncli |-> h.ncli + 1], FALSE, Kept(h.ncli, on, b), r)

LEMMA AcquireRun ==
  ASSUME NEW t, NEW h, NEW on \in BOOLEAN, NEW b \in BOOLEAN, NEW s \in Seq(Op), Ordered(s),
         WellRun(t, h, on, b, s), s # <<>>, s[1][1] = "acquire"
  PROVE  Spins(t, h, on, b, s)
<1> DEFINE l == s[1][2]  x == <<"spin", l>>  r == <<x>> \o Tail(s)
           k == [held |-> h.held, ncli |-> h.ncli + 1]
<1>1. PICK g \in Mode : Takes(t, h, s[1], g) /\ Fits(t, Tail(s), g)
  BY TailFits DEF WellRun
<1>2. h \in Mode
  BY TailFits DEF WellRun
<1>3. l \in L!Locks /\ x \in Op /\ x \notin Ends /\ s[1] = <<"acquire", l>>
  <2>1. s[1] \in Op
    BY TailOf
  <2>2. QED
    BY <2>1 DEF Op, Ends
<1>4. l \notin h.held /\ g = [held |-> h.held \cup {l}, ncli |-> h.ncli + 1]
  BY <1>1, <1>3 DEF Takes
<1>5. k \in Mode /\ Takes(t, k, x, g)
  BY <1>2, <1>3, <1>4 DEF Mode, Takes
<1>6. Tail(s) \in Seq(Op) /\ Ordered(Tail(s)) /\ ~Begins(Tail(s), "resume")
  BY TailOf, TailOrdered
<1>7. /\ r \in Seq(Op) /\ r # <<>> /\ r[1] = x /\ Ordered(r)
      /\ \A y \in {"iret", "forkret"} : Has(r, y) <=> Has(Tail(s), y)
  BY <1>3, <1>6, OneOrdered
<1>8. Fits(t, r, k)
  BY <1>1, <1>3, <1>5, <1>6, OneMore
<1>9. \A y \in {"iret", "forkret"} : Has(s, y) <=> Has(Tail(s), y)
  BY <1>3, TailHas
<1>10. ~Begins(s, "resume") /\ ~Begins(r, "resume")
  BY <1>3, <1>7 DEF Begins
<1>11. h.ncli \in Nat /\ k.ncli = h.ncli + 1
  BY <1>2 DEF Mode
<1> HIDE DEF r, k, x
<1>12. WellRun(t, k, FALSE, Kept(h.ncli, on, b), r)
  BY <1>7, <1>8, <1>9, <1>10, <1>11 DEF WellRun, Steady, Kept
<1>13. QED
  BY <1>3, <1>4, <1>7, <1>10, <1>12 DEF r, k, x, Spins

\* A call that leaves intena as it is, and the calls after it.
LEMMA CallRun ==
  ASSUME NEW t, NEW h, NEW on \in BOOLEAN, NEW b \in BOOLEAN, NEW s \in Seq(Op), Ordered(s),
         WellRun(t, h, on, b, s), s # <<>>
  PROVE  /\ Tail(s) \in Seq(Op) /\ Ordered(Tail(s)) /\ ~Begins(Tail(s), "resume")
         /\ h \in Mode /\ s[1] \in Op
         /\ \E g \in Mode :
              /\ Takes(t, h, s[1], g) /\ Fits(t, Tail(s), g)
         /\ s[1] \notin Ends => \A y \in {"iret", "forkret"} : Has(s, y) <=> Has(Tail(s), y)
<1>1. s[1] \notin Ends => \A y \in {"iret", "forkret"} : s[1] # <<y>>
  BY DEF Ends
<1>2. QED
  BY <1>1, TailOf, TailOrdered, TailFits, TailHas DEF WellRun

LEMMA SpinRun ==
  ASSUME NEW t, NEW h, NEW on \in BOOLEAN, NEW b \in BOOLEAN, NEW s \in Seq(Op), Ordered(s),
         WellRun(t, h, on, b, s), s # <<>>, s[1][1] = "spin"
  PROVE  LET l == s[1][2] IN
         /\ l \in L!Locks
         /\ WellRun(t, [held |-> h.held \cup {l}, ncli |-> h.ncli], on, b, Tail(s))
<1> DEFINE l == s[1][2]
<1>1. PICK g \in Mode : Takes(t, h, s[1], g) /\ Fits(t, Tail(s), g)
  BY CallRun
<1>2. l \in L!Locks /\ s[1] \notin Ends /\ h \in Mode
  BY CallRun DEF Op, Ends
<1>3. g = [held |-> h.held \cup {l}, ncli |-> h.ncli]
  BY <1>1, <1>2 DEF Takes
<1>4. \A y \in {"iret", "forkret"} : Has(s, y) <=> Has(Tail(s), y)
  BY <1>2, CallRun
<1>5. ~Begins(s, "resume")
  BY DEF Begins
<1>6. QED
  BY <1>1, <1>2, <1>3, <1>4, <1>5 DEF WellRun, Steady

LEMMA ReleaseRun ==
  ASSUME NEW t, NEW h, NEW on \in BOOLEAN, NEW b \in BOOLEAN, NEW s \in Seq(Op), Ordered(s),
         WellRun(t, h, on, b, s), s # <<>>, s[1][1] = "release"
  PROVE  LET l == s[1][2] IN
         /\ l \in h.held /\ h.ncli \in Nat /\ h.ncli > 0 /\ ~on
         /\ WellRun(t, [held |-> h.held \ {l}, ncli |-> h.ncli - 1], h.ncli = 1 /\ b, b, Tail(s))
<1> DEFINE l == s[1][2]
<1>1. PICK g \in Mode : Takes(t, h, s[1], g) /\ Fits(t, Tail(s), g)
  BY CallRun
<1>2. l \in L!Locks /\ s[1] \notin Ends /\ h \in Mode
  BY CallRun DEF Op, Ends
<1>3. l \in h.held /\ g = [held |-> h.held \ {l}, ncli |-> h.ncli - 1]
  BY <1>1, <1>2 DEF Takes
<1>4. h.ncli \in Nat /\ h.ncli > 0 /\ g.ncli = h.ncli - 1
  BY <1>2, <1>3 DEF Mode
<1>5. \A y \in {"iret", "forkret"} : Has(s, y) <=> Has(Tail(s), y)
  BY <1>2, CallRun
<1>6. ~Begins(s, "resume")
  BY DEF Begins
<1>7. ~on /\ (Has(s, "iret") => ~b) /\ (t \in Thread /\ Steady(s) => b)
  BY <1>4, <1>6 DEF WellRun
<1>8. WellRun(t, g, h.ncli = 1 /\ b, b, Tail(s))
  BY <1>1, <1>4, <1>5, <1>7 DEF WellRun, Steady
<1>9. QED
  BY <1>3, <1>4, <1>7, <1>8

LEMMA WakeRun ==
  ASSUME NEW t, NEW h, NEW on \in BOOLEAN, NEW b \in BOOLEAN, NEW s \in Seq(Op), Ordered(s),
         WellRun(t, h, on, b, s), s # <<>>, s[1] = <<"wakeup">>
  PROVE  WellRun(t, h, on, b, Tail(s))
<1>1. PICK g \in Mode : Takes(t, h, s[1], g) /\ Fits(t, Tail(s), g)
  BY CallRun
<1>2. s[1] \notin Ends /\ s[1][1] = "wakeup"
  BY DEF Ends
<1>3. g = h
  BY <1>1, <1>2 DEF Takes
<1>4. \A y \in {"iret", "forkret"} : Has(s, y) <=> Has(Tail(s), y)
  BY <1>2, CallRun
<1>5. ~Begins(s, "resume")
  BY <1>2 DEF Begins
<1>6. QED
  BY <1>1, <1>3, <1>4, <1>5 DEF WellRun, Steady

LEMMA ReturnRun ==
  ASSUME NEW t, NEW h, NEW on \in BOOLEAN, NEW b \in BOOLEAN, NEW s \in Seq(Op), Ordered(s),
         WellRun(t, h, on, b, s), s # <<>>,
         s[1] \in {<<"iret">>, <<"trapret">>, <<"forkret">>}
  PROVE  WellRun(t, h, TRUE, b, Tail(s))
<1>1. PICK g \in Mode : Takes(t, h, s[1], g) /\ Fits(t, Tail(s), g)
  BY CallRun
<1>2. s[1] \in Ends /\ s[1][1] \in {"iret", "trapret", "forkret"}
  BY DEF Ends
<1>3. g = h /\ h.ncli = 0
  <2>1. h = Free /\ g = Free
    BY <1>1, <1>2 DEF Takes
  <2>2. QED
    BY <2>1 DEF Free
<1>4. ~Has(Tail(s), "iret")
  <2>1. Tail(s) = <<>> \/ ~Has(Tail(s), "iret")
    BY <1>2, TailOrdered
  <2>2. ~Has(<<>>, "iret")
    BY DEF Has
  <2>3. QED
    BY <2>1, <2>2
<1>5. QED
  BY <1>1, <1>3, <1>4 DEF WellRun

LEMMA ResumeRun ==
  ASSUME NEW t, NEW h, NEW on \in BOOLEAN, NEW b \in BOOLEAN, NEW s \in Seq(Op), Ordered(s),
         WellRun(t, h, on, b, s), s # <<>>, s[1][1] = "resume", Right(s, s[1][2])
  PROVE  s[1][2] \in BOOLEAN /\ WellRun(t, h, on, s[1][2], Tail(s))
<1>1. PICK g \in Mode : Takes(t, h, s[1], g) /\ Fits(t, Tail(s), g)
  BY CallRun
<1>2. s[1] \notin Ends /\ s[1][2] \in BOOLEAN
  BY CallRun DEF Op, Ends
<1>3. g = h
  BY <1>1, <1>2 DEF Takes
<1>4. \A y \in {"iret", "forkret"} : Has(s, y) <=> Has(Tail(s), y)
  BY <1>2, CallRun
<1>5. QED
  BY <1>1, <1>2, <1>3, <1>4 DEF WellRun, Steady, Right

\* What the caller of sched and what the scheduler's loop have.
GivesUp(t, h, on, b, s) ==
  LET r == <<<<"resume", b>>>> \o Tail(s) IN
  /\ t \in Thread /\ h.held = {"ptable"} /\ h.ncli = 1 /\ ~on
  /\ s[1][2] \in {"RUNNABLE", "SLEEPING", "ZOMBIE"}
  /\ r \in Seq(Op) /\ Ordered(r) /\ Begins(r, "resume") /\ r[1][2] = b
  /\ s[1][2] # "ZOMBIE" => Fits(t, r, Under)
  /\ Right(r, b)
Loops(t, h, on, s) ==
  t \in Cpu /\ h.held = {"ptable"} /\ h.ncli = 1 /\ ~on /\ s = <<<<"loop">>>>

LEMMA SchedRun ==
  ASSUME NEW t, NEW h, NEW on \in BOOLEAN, NEW b \in BOOLEAN, NEW s \in Seq(Op), Ordered(s),
         WellRun(t, h, on, b, s), s # <<>>, s[1][1] = "sched"
  PROVE  GivesUp(t, h, on, b, s)
<1> DEFINE x == <<"resume", b>>  r == <<x>> \o Tail(s)
<1>1. PICK g \in Mode : Takes(t, h, s[1], g) /\ Fits(t, Tail(s), g)
  BY CallRun
<1>2. /\ s[1] \notin Ends /\ s[1][2] \in {"RUNNABLE", "SLEEPING", "ZOMBIE"}
      /\ x \in Op /\ x \notin Ends
  BY CallRun DEF Op, Ends
<1>3. t \in Thread /\ h = Under /\ (s[1][2] # "ZOMBIE" => g = Under)
  BY <1>1, <1>2 DEF Takes
<1>4. \A y \in {"iret", "forkret"} : Has(s, y) <=> Has(Tail(s), y)
  BY <1>2, CallRun
<1>5. ~Begins(s, "resume")
  BY DEF Begins
<1>6. h.ncli = 1
  BY <1>3 DEF Under
<1>7. ~on /\ (Has(s, "iret") => ~b) /\ (Steady(s) => b)
  BY <1>3, <1>5, <1>6 DEF WellRun
<1>8. Tail(s) \in Seq(Op) /\ Ordered(Tail(s)) /\ ~Begins(Tail(s), "resume")
  BY CallRun
<1>9. /\ r \in Seq(Op) /\ r # <<>> /\ r[1] = x /\ Ordered(r)
      /\ \A y \in {"iret", "forkret"} : Has(r, y) <=> Has(Tail(s), y)
  BY <1>2, <1>8, OneOrdered
<1>10. Takes(t, Under, x, Under)
  BY <1>3 DEF Takes
<1>11. s[1][2] # "ZOMBIE" => Fits(t, r, Under)
  BY <1>1, <1>2, <1>3, <1>8, <1>10, Modes, OneMore
<1>12. Begins(r, "resume") /\ r[1][2] = b
  BY <1>9 DEF Begins
<1>13. Right(r, b)
  BY <1>4, <1>7, <1>9 DEF Right, Steady
<1>14. QED
  BY <1>2, <1>3, <1>7, <1>9, <1>11, <1>12, <1>13 DEF Under, GivesUp

LEMMA LoopRun ==
  ASSUME NEW t, NEW h, NEW on \in BOOLEAN, NEW b \in BOOLEAN, NEW s \in Seq(Op), Ordered(s),
         WellRun(t, h, on, b, s), s # <<>>, s[1] = <<"loop">>
  PROVE  Loops(t, h, on, s)
<1>1. PICK g \in Mode : Takes(t, h, s[1], g) /\ Fits(t, Tail(s), g)
  BY CallRun
<1>2. t \in Cpu /\ h = Under
  BY <1>1 DEF Takes
<1>3. h.ncli > 0
  BY <1>2 DEF Under
<1>4. Tail(s) = <<>>
  <2>1. s[1] \in Ends /\ s[1] # <<"iret">>
    BY DEF Ends
  <2>2. QED
    BY <2>1, TailOrdered
<1>5. s = <<<<"loop">>>>
  <2>1. s = <<s[1]>>
    BY <1>4, SmallOnes
  <2>2. QED
    BY <2>1
<1>6. QED
  BY <1>2, <1>3, <1>4, <1>5 DEF WellRun, Under, Loops

\* The scheduler lets a thread go on.
LEMMA SwitchRun ==
  ASSUME NEW t, NEW b \in BOOLEAN, NEW s, Fits(t, s, Under), s = First \/ Begins(s, "resume")
  PROVE  WellRun(t, Under, FALSE, b, s)
<1>1. Under.ncli > 0 /\ Under.ncli # 0
  BY DEF Under
<1>2. Has(First, "forkret") /\ ~Has(First, "iret")
  <2>1. Len(First) = 2 /\ First[2] = <<"forkret">> /\ First[1] = <<"release", "ptable">>
    BY DEF First
  <2>2. 2 \in 1 .. Len(First) /\ \A i \in 1 .. Len(First) : i \in {1, 2}
    BY <2>1
  <2>3. QED
    BY <2>1, <2>2 DEF Has
<1>3. QED
  BY <1>1, <1>2 DEF WellRun, Steady

\* The scheduler goes through its loop and leaves it.
LEMMA LoopStays ==
  ASSUME NEW t \in Cpu, NEW b \in BOOLEAN, SpinSizes
  PROVE  /\ WellRun(t, Under, FALSE, b, <<<<"loop">>>>)
         /\ LET r == <<<<"release", "ptable">>>> \o <<>> IN
            /\ WellRun(t, Under, FALSE, b, r)
            /\ r \in Seq(Op) /\ Ordered(r) /\ ~Begins(r, "resume")
<1>1. <<"release", "ptable">> \in Op /\ <<"release", "ptable">> \notin Ends /\ <<"loop">> \in Op
  BY DEF Op, Ends, L!Locks
<1>2. Takes(t, Under, <<"loop">>, Free) /\ Takes(t, Under, <<"release", "ptable">>, Free)
  BY DEF Takes, Under, Free
<1>3. Fits(t, <<<<"loop">>>>, Under)
  <2>1. Fits(t, <<<<"loop">>>> \o <<>>, Under)
    BY <1>1, <1>2, NothingFits, Modes, SmallOnes, OneMore
  <2>2. <<<<"loop">>>> \o <<>> = <<<<"loop">>>>
    OBVIOUS
  <2>3. QED
    BY <2>1, <2>2
<1> DEFINE r == <<<<"release", "ptable">>>> \o <<>>
<1>4. Fits(t, r, Under)
  BY <1>1, <1>2, NothingFits, Modes, SmallOnes, OneMore
<1>5. /\ r \in Seq(Op) /\ r # <<>> /\ r[1] = <<"release", "ptable">> /\ Ordered(r)
      /\ ~Has(r, "iret")
  <2>1. Ordered(<<>>) /\ ~Begins(<<>>, "resume") /\ \A y : ~Has(<<>>, y)
    BY DEF Ordered, Begins, Has
  <2>2. <<"release", "ptable">> # <<"iret">>
    BY <1>1 DEF Ends
  <2>3. QED
    BY <1>1, <2>1, <2>2, SmallOnes, OneOrdered
<1>6. ~Has(<<<<"loop">>>>, "iret")
  BY DEF Has
<1>7. t \notin Thread /\ ~Begins(r, "resume")
  BY <1>5 DEF SpinSizes, Begins
<1> HIDE DEF r
<1>8. WellRun(t, Under, FALSE, b, r)
  BY <1>4, <1>5, <1>7 DEF WellRun
<1>9. WellRun(t, Under, FALSE, b, <<<<"loop">>>>)
  BY <1>3, <1>6, <1>7 DEF WellRun
<1>10. QED
  BY <1>5, <1>7, <1>8, <1>9 DEF r

\* sti, and the way into the loop.
LEMMA StiRun ==
  ASSUME SpinSizes, NEW t \in Cpu, NEW h, NEW on \in BOOLEAN, NEW b \in BOOLEAN,
         WellRun(t, h, on, b, <<>>)
  PROVE  LET r == <<<<"acquire", "ptable">>, <<"loop">>>> IN
         /\ WellRun(t, h, TRUE, b, r)
         /\ r \in Seq(Op) /\ Ordered(r) /\ ~Begins(r, "resume")
<1> DEFINE r == <<<<"acquire", "ptable">>, <<"loop">>>>
           a == <<<<"acquire", "ptable">>>> \o <<<<"loop">>>>
<1>1. h = Free
  BY NothingFits DEF WellRun
<1>2. Fits(t, <<<<"loop">>>>, Under)
  BY LoopStays DEF WellRun
<1>3. /\ <<"acquire", "ptable">> \in Op /\ <<<<"loop">>>> \in Seq(Op)
      /\ <<"acquire", "ptable">> \notin Ends
  BY DEF Op, Ends, L!Locks
<1>4. Takes(t, Free, <<"acquire", "ptable">>, Under)
  BY DEF Takes, Free, Under
<1>5. Fits(t, a, Free)
  BY <1>2, <1>3, <1>4, Modes, OneMore
<1>6. Ordered(<<<<"loop">>>>) /\ ~Begins(<<<<"loop">>>>, "resume") /\ ~Has(<<<<"loop">>>>, "iret")
  BY DEF Ordered, Begins, Has
<1>7. /\ a \in Seq(Op) /\ a # <<>> /\ a[1] = <<"acquire", "ptable">> /\ Ordered(a)
      /\ ~Has(a, "iret")
  <2>1. <<"acquire", "ptable">> # <<"iret">>
    BY <1>3 DEF Ends
  <2>2. QED
    BY <1>3, <1>6, <2>1, OneOrdered
<1>8. a = r
  BY SmallOnes
<1> HIDE DEF a, r
<1>9. WellRun(t, h, TRUE, b, a)
  BY <1>1, <1>5, <1>7 DEF WellRun, Free, SpinSizes
<1>10. QED
  BY <1>7, <1>8, <1>9 DEF Begins, r

\* What is outside of all locks.
LEMMA OutsideRun ==
  ASSUME NEW t, NEW h, NEW b \in BOOLEAN, NEW s \in Seq(Op), Ordered(s),
         WellRun(t, h, TRUE, b, s)
  PROVE  h = Free /\ Good(t, s) /\ ~Has(s, "iret")
<1>1. h \in Mode
  <2>1. CASE s = <<>>
    BY <2>1, NothingFits, Modes DEF WellRun
  <2>2. CASE s # <<>>
    BY <2>2, TailFits DEF WellRun
  <2>3. QED
    BY <2>1, <2>2
<1>2. h.ncli = 0 /\ ~Has(s, "iret")
  BY <1>1 DEF WellRun, Mode
<1>3. h = Free
  BY <1>1, <1>2 DEF Mode, Free
<1>4. ~Begins(s, "resume")
  <2>1. ASSUME s # <<>>, s[1][1] = "resume" PROVE FALSE
    <3>1. PICK g \in Mode : Takes(t, h, s[1], g)
      BY <2>1, TailFits DEF WellRun
    <3>2. h = Under
      BY <2>1, <3>1 DEF Takes
    <3>3. QED
      BY <1>2, <3>2 DEF Under
  <2>2. QED
    BY <2>1 DEF Begins
<1>5. QED
  BY <1>2, <1>3, <1>4 DEF Good, WellRun

-----------------------------------------------------------------------------
(* Steps.                                                                  *)

LEMMA RunsOf ==
  ASSUME SpinSizes, SpinTypes, NEW c \in Cpu
  PROVE  /\ L!Runs(c) \in Thread \cup Cpu /\ todo[L!Runs(c)] \in Seq(Op)
         /\ proc[c] = None => L!Runs(c) = c /\ c \notin Thread
         /\ proc[c] # None => L!Runs(c) = proc[c] /\ proc[c] \in Thread
  BY DEF SpinSizes, SpinTypes, L!Runs

LEMMA RunsApart ==
  ASSUME SpinSizes, SpinTypes, Placed, NEW c \in Cpu, NEW d \in Cpu, c # d
  PROVE  L!Runs(c) # L!Runs(d)
  BY DEF SpinSizes, SpinTypes, Placed, L!Runs

LEMMA CallOf ==
  ASSUME SpinSizes, SpinTypes, NEW c \in Cpu, L!Call(c)[1] # "none"
  PROVE  todo[L!Runs(c)] # <<>> /\ L!Call(c) = todo[L!Runs(c)][1]
<1>1. panicked = FALSE /\ todo[L!Runs(c)] \in Seq(Op)
  BY RunsOf DEF SpinTypes
<1>2. todo[L!Runs(c)] # <<>> /\ L!Call(c) = Head(todo[L!Runs(c)])
  BY <1>1 DEF L!Call
<1>3. QED
  BY <1>1, <1>2, TailOf

\* The other CPUs keep what they have.
OtherCpus(c) ==
  /\ iflag' \subseteq Cpu /\ ncli' \in [Cpu -> Nat] /\ intena' \in [Cpu -> BOOLEAN]
  /\ locked' \in [L!Locks -> Cpu \cup {None}]
  /\ \A d \in Cpu : d # c =>
       /\ (d \in iflag' <=> d \in iflag) /\ ncli'[d] = ncli[d] /\ intena'[d] = intena[d]
       /\ \A l \in L!Locks : locked'[l] = d <=> locked[l] = d

LEMMA StaysElsewhere ==
  ASSUME NEW c \in Cpu, OtherCpus(c), NEW d \in Cpu, d # c, proc'[d] = proc[d],
         todo'[L!Runs(d)] = todo[L!Runs(d)], Running(d)
  PROVE  Running(d)'
<1>1. ModeOf(d)' = ModeOf(d)
  BY DEF OtherCpus, ModeOf, L!Locks
<1>2. L!Runs(d)' = L!Runs(d)
  BY DEF L!Runs
<1>3. On(d)' = On(d) /\ intena'[d] = intena[d]
  BY DEF OtherCpus, On
<1>4. todo[L!Runs(d)]' = todo[L!Runs(d)]
  BY <1>2
<1>5. QED
  BY <1>1, <1>2, <1>3, <1>4 DEF Running

\* A step of the thread that CPU c runs.
LEMMA LocalStep ==
  ASSUME SpinSizes, SpinInv, NEW c \in Cpu, OtherCpus(c), NEW r \in Seq(Op),
         Ordered(r), ~Begins(r, "resume"), todo' = [todo EXCEPT ![L!Runs(c)] = r],
         proc' = proc, panicked' = FALSE,
         state' \in [Thread -> {"RUNNABLE", "RUNNING", "SLEEPING", "ZOMBIE"}],
         \A p \in Thread :
           state'[p] = state[p] \/ (state[p] = "SLEEPING" /\ state'[p] = "RUNNABLE"),
         WellRun(L!Runs(c), ModeOf(c)', On(c)', intena'[c], r)
  PROVE  SpinInv'
<1> DEFINE t == L!Runs(c)
<1>1. SpinTypes /\ Placed
  BY DEF SpinInv
<1>2. /\ t \in Thread \cup Cpu /\ (proc[c] = None => t = c)
      /\ proc[c] # None => t = proc[c] /\ t \in Thread
  BY <1>1, RunsOf
<1>3. todo'[t] = r /\ \A u \in Thread \cup Cpu : u # t => todo'[u] = todo[u]
  BY <1>1, <1>2 DEF SpinTypes
<1>4. SpinTypes'
  BY <1>1, <1>2 DEF SpinTypes, OtherCpus, L!Locks
<1>5. Placed'
  <2>1. ASSUME NEW d \in Cpu, proc[d] # None
        PROVE  state'[proc[d]] = "RUNNING" /\ todo'[d] = <<<<"loop">>>>
    <3>1. state[proc[d]] = "RUNNING" /\ todo[d] = <<<<"loop">>>> /\ proc[d] \in Thread
      BY <1>1, <2>1 DEF Placed, SpinTypes
    <3>2. d # t
      BY <1>2, <2>1 DEF SpinSizes
    <3>3. QED
      BY <1>3, <3>1, <3>2
  <2>2. QED
    BY <1>1, <2>1 DEF Placed
<1>6. \A u \in Thread \cup Cpu : Ordered(todo'[u])
  BY <1>2, <1>3 DEF SpinInv
<1>7. ASSUME NEW p \in Thread PROVE Waits(p)'
  <2>1. CASE p = t
    <3>1. proc[c] # None /\ state[p] = "RUNNING"
      BY <1>1, <1>2, <2>1 DEF SpinSizes, Placed
    <3>2. state'[p] = "RUNNING"
      BY <3>1
    <3>3. QED
      BY <1>3, <2>1, <3>2 DEF Waits
  <2>2. CASE p # t
    <3>1. todo'[p] = todo[p] /\ Waits(p)
      BY <1>3, <2>2 DEF SpinInv
    <3>2. QED
      BY <3>1 DEF Waits
  <2>3. QED
    BY <2>1, <2>2
<1>8. ASSUME NEW d \in Cpu PROVE Running(d)'
  <2>1. CASE d = c
    <3>1. L!Runs(c)' = t
      BY DEF L!Runs
    <3>2. todo[L!Runs(c)]' = r
      BY <1>3, <3>1
    <3>3. QED
      BY <2>1, <3>1, <3>2 DEF Running
  <2>2. CASE d # c
    <3>1. L!Runs(d) # t /\ L!Runs(d) \in Thread \cup Cpu
      BY <1>1, <2>2, RunsApart, RunsOf
    <3>2. Running(d) /\ todo'[L!Runs(d)] = todo[L!Runs(d)]
      BY <1>3, <3>1 DEF SpinInv
    <3>3. QED
      BY <2>2, <3>2, StaysElsewhere
  <2>3. QED
    BY <2>1, <2>2
<1>9. QED
  BY <1>4, <1>5, <1>6, <1>7, <1>8 DEF SpinInv

\* The state of the thread that CPU c runs.
LEMMA NowRuns ==
  ASSUME SpinSizes, SpinInv, NEW c \in Cpu
  PROVE  LET s == todo[L!Runs(c)] IN
         /\ s \in Seq(Op) /\ Ordered(s)
         /\ WellRun(L!Runs(c), ModeOf(c), On(c), intena[c], s)
         /\ On(c) \in BOOLEAN /\ (On(c) <=> c \in iflag) /\ intena[c] \in BOOLEAN
         /\ ncli[c] \in Nat /\ ModeOf(c).ncli = ncli[c]
         /\ \A l \in L!Locks : locked[l] = c <=> l \in ModeOf(c).held
<1>1. SpinTypes
  BY DEF SpinInv
<1>2. L!Runs(c) \in Thread \cup Cpu /\ todo[L!Runs(c)] \in Seq(Op)
  BY <1>1, RunsOf
<1>3. Ordered(todo[L!Runs(c)]) /\ Running(c)
  BY <1>2 DEF SpinInv
<1>4. On(c) \in BOOLEAN /\ (On(c) <=> c \in iflag)
  BY DEF On
<1>5. intena[c] \in BOOLEAN /\ ncli[c] \in Nat
  BY <1>1 DEF SpinTypes
<1>6. ModeOf(c).ncli = ncli[c] /\ \A l \in L!Locks : locked[l] = c <=> l \in ModeOf(c).held
  BY DEF ModeOf
<1>7. QED
  BY <1>2, <1>3, <1>4, <1>5, <1>6 DEF Running

LEMMA AcquireStep ==
  ASSUME SpinSizes, SpinInv, NEW c \in Cpu, L!Acquire(c)
  PROVE  SpinInv'
<1> DEFINE t == L!Runs(c)  s == todo[t]  l == s[1][2]  r == <<<<"spin", l>>>> \o Tail(s)
<1>1. SpinTypes
  BY DEF SpinInv
<1>2. L!Call(c)[1] = "acquire"
  BY DEF L!Acquire
<1>3. s # <<>> /\ L!Call(c) = s[1] /\ s[1][1] = "acquire"
  BY <1>1, <1>2, CallOf
<1>4. /\ l \in L!Locks /\ l \notin ModeOf(c).held
      /\ r \in Seq(Op) /\ Ordered(r) /\ ~Begins(r, "resume")
      /\ WellRun(t, [held |-> ModeOf(c).held, ncli |-> ncli[c] + 1], FALSE,
                 Kept(ncli[c], On(c), intena[c]), r)
  <2> HIDE DEF t
  <2>1. /\ s \in Seq(Op) /\ Ordered(s) /\ WellRun(t, ModeOf(c), On(c), intena[c], s)
        /\ On(c) \in BOOLEAN /\ intena[c] \in BOOLEAN /\ ModeOf(c).ncli = ncli[c]
    BY NowRuns DEF t
  <2> HIDE DEF s
  <2>2. Spins(t, ModeOf(c), On(c), intena[c], s)
    BY <1>3, <2>1, AcquireRun
  <2>3. QED
    BY <2>1, <2>2 DEF Spins
<1>5. panicked' = FALSE
  <2>1. locked[l] # c
    BY <1>4, NowRuns
  <2>2. QED
    BY <1>3, <2>1 DEF L!Acquire
<1>6. todo' = [todo EXCEPT ![t] = r]
  BY <1>3 DEF L!Acquire, L!Then
<1>7. OtherCpus(c)
  BY <1>1 DEF OtherCpus, L!Acquire, SpinTypes
<1>8. /\ ModeOf(c)' = [held |-> ModeOf(c).held, ncli |-> ncli[c] + 1]
      /\ On(c)' = FALSE
      /\ intena'[c] = Kept(ncli[c], On(c), intena[c])
  <2>1. ModeOf(c)' = [held |-> ModeOf(c).held, ncli |-> ncli[c] + 1]
    BY <1>1 DEF ModeOf, L!Acquire, SpinTypes, L!Locks
  <2>2. On(c)' = FALSE
    BY DEF On, L!Acquire
  <2>3. intena'[c] = Kept(ncli[c], On(c), intena[c])
    <3>1. intena \in [Cpu -> BOOLEAN]
      BY <1>1 DEF SpinTypes
    <3>2. CASE ncli[c] = 0
      <4>1. intena' = [intena EXCEPT ![c] = c \in iflag]
        BY <3>2 DEF L!Acquire
      <4>2. CASE c \in iflag
        <5>1. intena'[c] = TRUE /\ On(c) = TRUE
          BY <3>1, <4>1, <4>2 DEF On
        <5>2. QED
          BY <3>2, <5>1 DEF Kept
      <4>3. CASE c \notin iflag
        <5>1. ~intena'[c] /\ intena'[c] \in BOOLEAN /\ On(c) = FALSE
          BY <1>7, <3>1, <4>1, <4>3 DEF On, OtherCpus
        <5>2. QED
          BY <3>2, <5>1 DEF Kept
      <4>4. QED
        BY <4>2, <4>3
    <3>3. CASE ncli[c] # 0
      BY <3>3 DEF L!Acquire, Kept
    <3>4. QED
      BY <3>2, <3>3
  <2>4. QED
    BY <2>1, <2>2, <2>3
<1>9. WellRun(t, ModeOf(c)', On(c)', intena'[c], r)
  BY <1>4, <1>8
<1>10. proc' = proc /\ state' = state
  BY DEF L!Acquire
<1>11. state' \in [Thread -> {"RUNNABLE", "RUNNING", "SLEEPING", "ZOMBIE"}]
  BY <1>1, <1>10 DEF SpinTypes
<1> HIDE DEF t, s, r
<1>12. QED
  BY <1>4, <1>5, <1>6, <1>7, <1>9, <1>10, <1>11, LocalStep DEF t

LEMMA SpinStep ==
  ASSUME SpinSizes, SpinInv, NEW c \in Cpu, L!Spin(c)
  PROVE  SpinInv'
<1> DEFINE t == L!Runs(c)  s == todo[t]  l == s[1][2]
<1>1. SpinTypes
  BY DEF SpinInv
<1>2. L!Call(c)[1] = "spin"
  BY DEF L!Spin
<1>3. s # <<>> /\ L!Call(c) = s[1] /\ s[1][1] = "spin"
  BY <1>1, <1>2, CallOf
<1>4. /\ s \in Seq(Op) /\ Ordered(s) /\ WellRun(t, ModeOf(c), On(c), intena[c], s)
      /\ On(c) \in BOOLEAN /\ intena[c] \in BOOLEAN /\ ModeOf(c).ncli = ncli[c]
  BY NowRuns
<1>5. /\ l \in L!Locks
      /\ WellRun(t, [held |-> ModeOf(c).held \cup {l}, ncli |-> ncli[c]], On(c), intena[c], Tail(s))
  <2> HIDE DEF t, s
  <2>1. QED
    BY <1>3, <1>4, SpinRun
<1>6. Tail(s) \in Seq(Op) /\ Ordered(Tail(s)) /\ ~Begins(Tail(s), "resume")
  <2> HIDE DEF t, s
  <2>1. QED
    BY <1>3, <1>4, CallRun
<1>7. locked[l] = None /\ locked' = [locked EXCEPT ![l] = c]
  BY <1>3 DEF L!Spin
<1>8. todo' = [todo EXCEPT ![t] = Tail(s)]
  <2>1. <<>> \o Tail(s) = Tail(s)
    BY <1>6
  <2>2. QED
    BY <2>1 DEF L!Spin, L!Then
<1>a. iflag' = iflag /\ ncli' = ncli /\ intena' = intena
  BY DEF L!Spin
<1>9. OtherCpus(c)
  BY <1>1, <1>5, <1>7, <1>a DEF OtherCpus, SpinTypes, L!Locks, SpinSizes
<1>10. /\ ModeOf(c)' = [held |-> ModeOf(c).held \cup {l}, ncli |-> ncli[c]]
       /\ On(c)' = On(c) /\ intena'[c] = intena[c]
  BY <1>1, <1>5, <1>7, <1>a DEF ModeOf, On, SpinTypes, L!Locks
<1>11. WellRun(t, ModeOf(c)', On(c)', intena'[c], Tail(s))
  BY <1>5, <1>10
<1>12. proc' = proc /\ state' = state /\ panicked' = FALSE
  BY <1>1 DEF L!Spin, SpinTypes
<1>13. state' \in [Thread -> {"RUNNABLE", "RUNNING", "SLEEPING", "ZOMBIE"}]
  BY <1>1, <1>12 DEF SpinTypes
<1> HIDE DEF t, s
<1>14. QED
  BY <1>6, <1>8, <1>9, <1>11, <1>12, <1>13, LocalStep DEF t

LEMMA ReleaseStep ==
  ASSUME SpinSizes, SpinInv, NEW c \in Cpu, L!Release(c)
  PROVE  SpinInv'
<1> DEFINE t == L!Runs(c)  s == todo[t]  l == s[1][2]
<1>1. SpinTypes
  BY DEF SpinInv
<1>2. L!Call(c)[1] = "release"
  BY DEF L!Release
<1>3. s # <<>> /\ L!Call(c) = s[1] /\ s[1][1] = "release"
  BY <1>1, <1>2, CallOf
<1>4. /\ s \in Seq(Op) /\ Ordered(s) /\ WellRun(t, ModeOf(c), On(c), intena[c], s)
      /\ On(c) \in BOOLEAN /\ intena[c] \in BOOLEAN /\ ModeOf(c).ncli = ncli[c]
      /\ (On(c) <=> c \in iflag)
  BY NowRuns
<1>5. /\ l \in ModeOf(c).held /\ ncli[c] \in Nat /\ ncli[c] > 0 /\ ~On(c)
      /\ WellRun(t, [held |-> ModeOf(c).held \ {l}, ncli |-> ncli[c] - 1],
                 ncli[c] = 1 /\ intena[c], intena[c], Tail(s))
  <2> HIDE DEF t, s
  <2>1. QED
    BY <1>3, <1>4, ReleaseRun
<1>6. Tail(s) \in Seq(Op) /\ Ordered(Tail(s)) /\ ~Begins(Tail(s), "resume")
  <2> HIDE DEF t, s
  <2>1. QED
    BY <1>3, <1>4, CallRun
<1>7. locked[l] = c /\ l \in L!Locks
  BY <1>5 DEF ModeOf
<1>8. locked' = [locked EXCEPT ![l] = None] /\ panicked' = FALSE
  BY <1>3, <1>4, <1>5, <1>7 DEF L!Release
<1>9. todo' = [todo EXCEPT ![t] = Tail(s)]
  <2>1. <<>> \o Tail(s) = Tail(s)
    BY <1>6
  <2>2. QED
    BY <2>1 DEF L!Release, L!Then
<1>10. ncli' = [ncli EXCEPT ![c] = @ - 1] /\ intena' = intena /\ proc' = proc /\ state' = state
       /\ iflag' = IF ncli[c] = 1 /\ intena[c] THEN iflag \cup {c} ELSE iflag
  BY DEF L!Release, L!Popcli
<1>11. OtherCpus(c)
  <2>1. ncli' \in [Cpu -> Nat]
    BY <1>1, <1>5, <1>10 DEF SpinTypes
  <2>2. QED
    BY <1>1, <1>7, <1>8, <1>10, <2>1 DEF OtherCpus, SpinTypes, L!Locks, SpinSizes
<1>12. ModeOf(c)' = [held |-> ModeOf(c).held \ {l}, ncli |-> ncli[c] - 1]
  BY <1>1, <1>7, <1>8, <1>10 DEF ModeOf, SpinTypes, L!Locks, SpinSizes
<1>13. On(c)' \in BOOLEAN /\ (On(c)' <=> ncli[c] = 1 /\ intena[c])
  BY <1>4, <1>5, <1>10 DEF On
<1>14. WellRun(t, ModeOf(c)', On(c)', intena'[c], Tail(s))
  BY <1>5, <1>10, <1>12, <1>13 DEF WellRun
<1>15. state' \in [Thread -> {"RUNNABLE", "RUNNING", "SLEEPING", "ZOMBIE"}]
  BY <1>1, <1>10 DEF SpinTypes
<1> HIDE DEF t, s
<1>16. QED
  BY <1>6, <1>8, <1>9, <1>10, <1>11, <1>14, <1>15, LocalStep DEF t

LEMMA ResumeStep ==
  ASSUME SpinSizes, SpinInv, NEW c \in Cpu, L!Resume(c)
  PROVE  SpinInv'
<1> DEFINE t == L!Runs(c)  s == todo[t]
<1>1. SpinTypes
  BY DEF SpinInv
<1>2. L!Call(c)[1] = "resume"
  BY DEF L!Resume
<1>3. s # <<>> /\ L!Call(c) = s[1] /\ s[1][1] = "resume"
  BY <1>1, <1>2, CallOf
<1>4. /\ s \in Seq(Op) /\ Ordered(s) /\ WellRun(t, ModeOf(c), On(c), intena[c], s)
      /\ On(c) \in BOOLEAN /\ intena[c] \in BOOLEAN
  BY NowRuns
<1>5. t \in Thread
  <2>1. t \in Thread \cup Cpu
    BY <1>1, RunsOf
  <2> HIDE DEF t, s
  <2>2. PICK g \in Mode : Takes(t, ModeOf(c), s[1], g)
    BY <1>3, <1>4, CallRun
  <2>3. QED
    BY <1>3, <2>2 DEF Takes
<1>6. Right(s, s[1][2])
  BY <1>3, <1>5 DEF SpinInv, Waits, Begins
<1>7. s[1][2] \in BOOLEAN /\ WellRun(t, ModeOf(c), On(c), s[1][2], Tail(s))
  <2> HIDE DEF t, s
  <2>1. QED
    BY <1>3, <1>4, <1>6, ResumeRun
<1>8. Tail(s) \in Seq(Op) /\ Ordered(Tail(s)) /\ ~Begins(Tail(s), "resume")
  <2> HIDE DEF t, s
  <2>1. QED
    BY <1>3, <1>4, CallRun
<1>9. todo' = [todo EXCEPT ![t] = Tail(s)]
  <2>1. <<>> \o Tail(s) = Tail(s)
    BY <1>8
  <2>2. QED
    BY <2>1 DEF L!Resume, L!Then
<1>10. /\ iflag' = iflag /\ ncli' = ncli /\ locked' = locked /\ proc' = proc /\ state' = state
       /\ panicked' = panicked /\ intena' = [intena EXCEPT ![c] = s[1][2]]
  BY <1>3 DEF L!Resume
<1>11. OtherCpus(c)
  BY <1>1, <1>7, <1>10 DEF OtherCpus, SpinTypes
<1>12. ModeOf(c)' = ModeOf(c) /\ On(c)' = On(c) /\ intena'[c] = s[1][2]
  BY <1>1, <1>10 DEF ModeOf, On, SpinTypes
<1>13. WellRun(t, ModeOf(c)', On(c)', intena'[c], Tail(s))
  BY <1>7, <1>12
<1>14. panicked' = FALSE /\ state' \in [Thread -> {"RUNNABLE", "RUNNING", "SLEEPING", "ZOMBIE"}]
  BY <1>1, <1>10 DEF SpinTypes
<1> HIDE DEF t, s
<1>15. QED
  BY <1>8, <1>9, <1>10, <1>11, <1>13, <1>14, LocalStep DEF t

LEMMA WakeupStep ==
  ASSUME SpinSizes, SpinInv, NEW c \in Cpu, L!Wakeup(c)
  PROVE  SpinInv'
<1> DEFINE t == L!Runs(c)  s == todo[t]
<1>1. SpinTypes
  BY DEF SpinInv
<1>2. L!Call(c) = <<"wakeup">> /\ L!Call(c)[1] # "none"
  BY DEF L!Wakeup
<1>3. s # <<>> /\ s[1] = <<"wakeup">>
  BY <1>1, <1>2, CallOf
<1>4. /\ s \in Seq(Op) /\ Ordered(s) /\ WellRun(t, ModeOf(c), On(c), intena[c], s)
      /\ On(c) \in BOOLEAN /\ intena[c] \in BOOLEAN
  BY NowRuns
<1>5. /\ WellRun(t, ModeOf(c), On(c), intena[c], Tail(s))
      /\ Tail(s) \in Seq(Op) /\ Ordered(Tail(s)) /\ ~Begins(Tail(s), "resume")
  <2> HIDE DEF t, s
  <2>1. QED
    BY <1>3, <1>4, WakeRun, CallRun
<1>6. todo' = [todo EXCEPT ![t] = Tail(s)]
  <2>1. <<>> \o Tail(s) = Tail(s)
    BY <1>5
  <2>2. QED
    BY <2>1 DEF L!Wakeup, L!Then
<1>7. /\ iflag' = iflag /\ ncli' = ncli /\ locked' = locked /\ proc' = proc /\ intena' = intena
      /\ panicked' = FALSE
  BY <1>1 DEF L!Wakeup, SpinTypes
<1>8. /\ state' \in [Thread -> {"RUNNABLE", "RUNNING", "SLEEPING", "ZOMBIE"}]
      /\ \A p \in Thread :
           state'[p] = state[p] \/ (state[p] = "SLEEPING" /\ state'[p] = "RUNNABLE")
  BY <1>1 DEF L!Wakeup, SpinTypes
<1>9. OtherCpus(c)
  BY <1>1, <1>7 DEF OtherCpus, SpinTypes
<1>10. ModeOf(c)' = ModeOf(c) /\ On(c)' = On(c) /\ intena'[c] = intena[c]
  BY <1>7 DEF ModeOf, On
<1>11. WellRun(t, ModeOf(c)', On(c)', intena'[c], Tail(s))
  BY <1>5, <1>10
<1> HIDE DEF t, s
<1>12. QED
  BY <1>5, <1>6, <1>7, <1>8, <1>9, <1>11, LocalStep DEF t

LEMMA IretStep ==
  ASSUME SpinSizes, SpinInv, NEW c \in Cpu, L!Iret(c)
  PROVE  SpinInv'
<1> DEFINE t == L!Runs(c)  s == todo[t]
<1>1. SpinTypes
  BY DEF SpinInv
<1>2. L!Call(c) \in {<<"iret">>, <<"trapret">>, <<"forkret">>} /\ L!Call(c)[1] # "none"
  BY DEF L!Iret
<1>3. s # <<>> /\ s[1] \in {<<"iret">>, <<"trapret">>, <<"forkret">>}
  BY <1>1, <1>2, CallOf
<1>4. /\ s \in Seq(Op) /\ Ordered(s) /\ WellRun(t, ModeOf(c), On(c), intena[c], s)
      /\ On(c) \in BOOLEAN /\ intena[c] \in BOOLEAN
  BY NowRuns
<1>5. /\ WellRun(t, ModeOf(c), TRUE, intena[c], Tail(s))
      /\ Tail(s) \in Seq(Op) /\ Ordered(Tail(s)) /\ ~Begins(Tail(s), "resume")
  <2> HIDE DEF t, s
  <2>1. QED
    BY <1>3, <1>4, ReturnRun, CallRun
<1>6. todo' = [todo EXCEPT ![t] = Tail(s)]
  <2>1. <<>> \o Tail(s) = Tail(s)
    BY <1>5
  <2>2. QED
    BY <2>1 DEF L!Iret, L!Then
<1>7. /\ iflag' = iflag \cup {c} /\ ncli' = ncli /\ locked' = locked /\ proc' = proc
      /\ intena' = intena /\ panicked' = FALSE /\ state' = state
  BY <1>1 DEF L!Iret, SpinTypes
<1>8. OtherCpus(c)
  BY <1>1, <1>7 DEF OtherCpus, SpinTypes
<1>9. ModeOf(c)' = ModeOf(c) /\ On(c)' = TRUE /\ intena'[c] = intena[c]
  BY <1>7 DEF ModeOf, On
<1>10. WellRun(t, ModeOf(c)', On(c)', intena'[c], Tail(s))
  BY <1>5, <1>9
<1>11. state' \in [Thread -> {"RUNNABLE", "RUNNING", "SLEEPING", "ZOMBIE"}]
  BY <1>1, <1>7 DEF SpinTypes
<1> HIDE DEF t, s
<1>12. QED
  BY <1>5, <1>6, <1>7, <1>8, <1>10, <1>11, LocalStep DEF t

LEMMA SyscallStep ==
  ASSUME SpinSizes, SpinInv, NEW c \in Cpu, L!Syscall(c)
  PROVE  SpinInv'
<1> DEFINE t == L!Runs(c)  s == todo[t]
<1>1. SpinTypes
  BY DEF SpinInv
<1>2. t = proc[c] /\ t \in Thread /\ s = <<>> /\ c \in iflag
  BY <1>1, RunsOf DEF L!Syscall
<1>3. PICK ops \in L!Calls : todo' = [todo EXCEPT ![t] = Append(ops, <<"trapret">>)]
  BY <1>2 DEF L!Syscall
<1> DEFINE r == Append(ops, <<"trapret">>)
<1>4. /\ s \in Seq(Op) /\ Ordered(s) /\ WellRun(t, ModeOf(c), On(c), intena[c], s)
      /\ On(c) = TRUE /\ intena[c] \in BOOLEAN
  BY <1>2, NowRuns DEF On
<1>5. Good(t, r) /\ Steady(r)
  <2> HIDE DEF t
  <2>1. QED
    BY <1>2, CallsGood
<1>6. ModeOf(c) = Free
  <2> HIDE DEF t, s
  <2>1. WellRun(t, ModeOf(c), TRUE, intena[c], s)
    BY <1>4
  <2>2. ModeOf(c) = Free /\ Good(t, s) /\ ~Has(s, "iret")
    BY <1>4, <2>1, OutsideRun
  <2>3. QED
    BY <2>2
<1>7. r \in Seq(Op) /\ Ordered(r) /\ ~Begins(r, "resume") /\ Fits(t, r, Free)
  BY <1>5 DEF Good
<1>8. WellRun(t, ModeOf(c), TRUE, intena[c], r)
  <2> HIDE DEF t, r
  <2>1. QED
    BY <1>5, <1>6, <1>7 DEF WellRun, Steady, Free
<1>9. /\ iflag' = iflag /\ ncli' = ncli /\ locked' = locked /\ proc' = proc
      /\ intena' = intena /\ panicked' = FALSE /\ state' = state
  BY <1>1 DEF L!Syscall, SpinTypes
<1>10. OtherCpus(c)
  BY <1>1, <1>9 DEF OtherCpus, SpinTypes
<1>11. ModeOf(c)' = ModeOf(c) /\ On(c)' = TRUE /\ intena'[c] = intena[c]
  BY <1>2, <1>9 DEF ModeOf, On
<1>12. WellRun(t, ModeOf(c)', On(c)', intena'[c], r)
  BY <1>8, <1>11
<1>13. state' \in [Thread -> {"RUNNABLE", "RUNNING", "SLEEPING", "ZOMBIE"}]
  BY <1>1, <1>9 DEF SpinTypes
<1> HIDE DEF s, r
<1>14. QED
  BY <1>3, <1>7, <1>9, <1>10, <1>12, <1>13, LocalStep DEF r

LEMMA InterruptStep ==
  ASSUME SpinSizes, SpinInv, NEW c \in Cpu, L!Interrupt(c)
  PROVE  SpinInv'
<1> DEFINE t == L!Runs(c)  s == todo[t]
<1>1. SpinTypes
  BY DEF SpinInv
<1>2. c \in iflag /\ t \in Thread \cup Cpu
  BY <1>1, RunsOf DEF L!Interrupt
<1>3. PICK l \in SpinLock, timer \in BOOLEAN :
        todo' = [todo EXCEPT ![t] =
          Waking(l)
          \o (IF timer /\ proc[c] # None /\ state[proc[c]] = "RUNNING"
              THEN Switching("RUNNABLE") ELSE <<>>)
          \o <<<<"iret">>>> \o s]
  BY DEF L!Interrupt, Waking, Switching, L!Yield
<1> DEFINE y == IF timer /\ proc[c] # None /\ state[proc[c]] = "RUNNING"
                THEN Switching("RUNNABLE") ELSE <<>>
           r == Waking(l) \o y \o <<<<"iret">>>> \o s
<1>4. /\ s \in Seq(Op) /\ Ordered(s) /\ WellRun(t, ModeOf(c), On(c), intena[c], s)
      /\ On(c) = TRUE /\ intena[c] \in BOOLEAN
  BY <1>2, NowRuns DEF On
<1>5. ModeOf(c) = Free /\ Good(t, s) /\ ~Has(s, "iret")
  <2> HIDE DEF t, s
  <2>1. QED
    BY <1>4, OutsideRun
<1>6. y = <<>> \/ (y = Switching("RUNNABLE") /\ t \in Thread)
  BY <1>1, RunsOf
<1>7. Good(t, r) /\ Has(r, "iret")
  <2> HIDE DEF t, s, y
  <2>1. QED
    BY <1>5, <1>6, InterruptGood
<1>8. r \in Seq(Op) /\ Ordered(r) /\ ~Begins(r, "resume") /\ Fits(t, r, Free)
  BY <1>7 DEF Good
<1>9. WellRun(t, ModeOf(c), FALSE, intena[c], r)
  <2> HIDE DEF t, r
  <2>1. QED
    BY <1>5, <1>7, <1>8 DEF WellRun, Steady, Free
<1>10. /\ iflag' = iflag \ {c} /\ ncli' = ncli /\ locked' = locked /\ proc' = proc
       /\ intena' = intena /\ panicked' = FALSE /\ state' = state
  BY <1>1 DEF L!Interrupt, SpinTypes
<1>11. OtherCpus(c)
  BY <1>1, <1>10 DEF OtherCpus, SpinTypes
<1>12. ModeOf(c)' = ModeOf(c) /\ On(c)' = FALSE /\ intena'[c] = intena[c]
  BY <1>10 DEF ModeOf, On
<1>13. WellRun(t, ModeOf(c)', On(c)', intena'[c], r)
  BY <1>9, <1>12
<1>14. state' \in [Thread -> {"RUNNABLE", "RUNNING", "SLEEPING", "ZOMBIE"}]
  BY <1>1, <1>10 DEF SpinTypes
<1>15. todo' = [todo EXCEPT ![t] = r]
  BY <1>3
<1> HIDE DEF t, s, r
<1>16. QED
  BY <1>8, <1>10, <1>11, <1>13, <1>14, <1>15, LocalStep DEF t

\* A process gives up the CPU, and its scheduler goes on in its loop.
LEMMA SchedStep ==
  ASSUME SpinSizes, SpinInv, NEW c \in Cpu, L!Sched(c)
  PROVE  SpinInv'
<1> DEFINE t == L!Runs(c)  s == todo[t]  r == <<<<"resume", intena[c]>>>> \o Tail(s)
<1>1. SpinTypes /\ Placed
  BY DEF SpinInv
<1>2. L!Call(c)[1] = "sched"
  BY DEF L!Sched
<1>3. s # <<>> /\ L!Call(c) = s[1] /\ s[1][1] = "sched"
  BY <1>1, <1>2, CallOf
<1>4. /\ s \in Seq(Op) /\ Ordered(s) /\ WellRun(t, ModeOf(c), On(c), intena[c], s)
      /\ On(c) \in BOOLEAN /\ intena[c] \in BOOLEAN /\ (On(c) <=> c \in iflag)
  BY NowRuns
<1>5. /\ t \in Thread /\ ModeOf(c) = Under /\ ~On(c)
      /\ s[1][2] \in {"RUNNABLE", "SLEEPING", "ZOMBIE"}
      /\ r \in Seq(Op) /\ Ordered(r) /\ Begins(r, "resume") /\ r[1][2] = intena[c]
      /\ s[1][2] # "ZOMBIE" => Fits(t, r, Under)
      /\ Right(r, intena[c])
  <2> HIDE DEF t, s
  <2>1. GivesUp(t, ModeOf(c), On(c), intena[c], s)
    BY <1>3, <1>4, SchedRun
  <2>2. ModeOf(c) = Under
    BY <2>1 DEF GivesUp, ModeOf, Under
  <2>3. QED
    BY <2>1, <2>2 DEF GivesUp
<1>6. proc[c] = t /\ c # t /\ c \notin Thread
  BY <1>1, <1>5, RunsOf DEF SpinSizes
<1>7. state[t] = "RUNNING" /\ todo[c] = <<<<"loop">>>>
  BY <1>1, <1>5, <1>6 DEF Placed, SpinSizes
<1>8. locked["ptable"] = c /\ ncli[c] = 1 /\ c \notin iflag
  <2>1. ModeOf(c).held = {"ptable"} /\ ModeOf(c).ncli = 1
    BY <1>5 DEF Under
  <2>2. QED
    BY <1>4, <1>5, <2>1 DEF ModeOf, L!Locks
<1>9. /\ todo' = [todo EXCEPT ![t] = r] /\ proc' = [proc EXCEPT ![c] = None]
      /\ state' = [state EXCEPT ![t] = s[1][2]] /\ panicked' = FALSE
  <2>1. panicked' = FALSE
    BY <1>8 DEF L!Sched
  <2>2. todo' = [todo EXCEPT ![t] = r]
    BY DEF L!Sched, L!Then
  <2>3. QED
    BY <1>3, <1>6, <2>1, <2>2 DEF L!Sched
<1>10. iflag' = iflag /\ ncli' = ncli /\ intena' = intena /\ locked' = locked
  BY DEF L!Sched
<1>11. /\ todo'[t] = r /\ todo'[c] = <<<<"loop">>>>
       /\ \A u \in Thread \cup Cpu : u # t => todo'[u] = todo[u]
  BY <1>1, <1>5, <1>6, <1>7, <1>9 DEF SpinTypes
<1>12. proc'[c] = None /\ \A d \in Cpu : d # c => proc'[d] = proc[d] /\ proc[d] # t
  BY <1>1, <1>5, <1>6, <1>9 DEF SpinTypes, Placed, SpinSizes
<1>13. state'[t] = s[1][2] /\ \A p \in Thread : p # t => state'[p] = state[p]
  BY <1>1, <1>5, <1>9 DEF SpinTypes
<1> HIDE DEF t, s, r
<1>14. SpinTypes'
  <2>1. /\ todo' \in [Thread \cup Cpu -> Seq(Op)] /\ proc' \in [Cpu -> Thread \cup {None}]
        /\ state' \in [Thread -> {"RUNNABLE", "RUNNING", "SLEEPING", "ZOMBIE"}]
    BY <1>1, <1>5, <1>9 DEF SpinTypes
  <2>2. QED
    BY <1>1, <1>9, <1>10, <2>1 DEF SpinTypes, L!Locks
<1>15. Placed'
  <2>1. ASSUME NEW d \in Cpu, proc'[d] # None
        PROVE  state'[proc'[d]] = "RUNNING" /\ todo'[d] = <<<<"loop">>>>
    <3>1. d # c /\ proc'[d] = proc[d] /\ proc[d] # t /\ proc[d] # None
      BY <1>12, <2>1
    <3>2. state[proc[d]] = "RUNNING" /\ todo[d] = <<<<"loop">>>> /\ proc[d] \in Thread
      BY <1>1, <3>1 DEF Placed, SpinTypes
    <3>3. d # t
      BY <1>5 DEF SpinSizes
    <3>4. QED
      BY <1>11, <1>13, <3>1, <3>2, <3>3
  <2>2. \A d, e \in Cpu : proc'[d] = proc'[e] /\ proc'[d] # None => d = e
    BY <1>1, <1>12 DEF Placed
  <2>3. QED
    BY <2>1, <2>2 DEF Placed
<1>16. \A u \in Thread \cup Cpu : Ordered(todo'[u])
  BY <1>5, <1>11 DEF SpinInv
<1>17. ASSUME NEW p \in Thread PROVE Waits(p)'
  <2>1. CASE p = t
    <3>1. state'[p] \in {"RUNNABLE", "SLEEPING"} => Fits(p, r, Under)
      BY <1>13, <2>1, <1>5
    <3>2. QED
      BY <1>5, <1>11, <2>1, <3>1 DEF Waits
  <2>2. CASE p # t
    <3>1. todo'[p] = todo[p] /\ state'[p] = state[p] /\ Waits(p)
      BY <1>11, <1>13, <2>2 DEF SpinInv
    <3>2. QED
      BY <3>1 DEF Waits
  <2>3. QED
    BY <2>1, <2>2
<1>18. OtherCpus(c)
  BY <1>1, <1>10 DEF OtherCpus, SpinTypes
<1>19. ASSUME NEW d \in Cpu PROVE Running(d)'
  <2>1. CASE d = c
    <3>1. L!Runs(c)' = c
      BY <1>12 DEF L!Runs
    <3>2. ModeOf(c)' = Under /\ On(c)' = FALSE /\ intena'[c] = intena[c]
      BY <1>5, <1>8, <1>10 DEF ModeOf, On
    <3>3. WellRun(c, Under, FALSE, intena[c], <<<<"loop">>>>)
      BY <1>4, LoopStays
    <3>4. todo[L!Runs(c)]' = <<<<"loop">>>>
      BY <1>11, <3>1
    <3>5. QED
      BY <2>1, <3>1, <3>2, <3>3, <3>4 DEF Running
  <2>2. CASE d # c
    <3>1. L!Runs(d) # t /\ L!Runs(d) \in Thread \cup Cpu
      BY <1>1, <2>2, RunsApart, RunsOf DEF t
    <3>2. Running(d) /\ todo'[L!Runs(d)] = todo[L!Runs(d)] /\ proc'[d] = proc[d]
      BY <1>11, <1>12, <2>2, <3>1 DEF SpinInv
    <3>3. QED
      BY <1>18, <2>2, <3>2, StaysElsewhere
  <2>3. QED
    BY <2>1, <2>2
<1>20. QED
  BY <1>14, <1>15, <1>16, <1>17, <1>19 DEF SpinInv

\* The scheduler lets p run.
LEMMA SwitchStep ==
  ASSUME SpinSizes, SpinInv, NEW c \in Cpu, proc[c] = None, L!Call(c) = <<"loop">>,
         NEW p \in Thread, state[p] = "RUNNABLE", state' = [state EXCEPT ![p] = "RUNNING"],
         proc' = [proc EXCEPT ![c] = p],
         UNCHANGED <<iflag, todo, ncli, intena, locked, panicked>>
  PROVE  SpinInv'
<1> DEFINE s == todo[c]
<1>1. SpinTypes /\ Placed
  BY DEF SpinInv
<1>2. L!Runs(c) = c /\ c \notin Thread
  BY <1>1, RunsOf
<1>3. s # <<>> /\ s[1] = <<"loop">>
  <2>1. L!Call(c)[1] # "none"
    OBVIOUS
  <2>2. QED
    BY <1>1, <1>2, <2>1, CallOf
<1>4. /\ s \in Seq(Op) /\ Ordered(s) /\ WellRun(c, ModeOf(c), On(c), intena[c], s)
      /\ On(c) \in BOOLEAN /\ intena[c] \in BOOLEAN /\ (On(c) <=> c \in iflag)
  BY <1>2, NowRuns
<1>5. ModeOf(c) = Under /\ ~On(c) /\ s = <<<<"loop">>>>
  <2> HIDE DEF s
  <2>1. Loops(c, ModeOf(c), On(c), s)
    BY <1>3, <1>4, LoopRun
  <2>2. ModeOf(c) = Under
    BY <2>1 DEF Loops, ModeOf, Under
  <2>3. QED
    BY <2>1, <2>2 DEF Loops
<1>6. Fits(p, todo[p], Under) /\ (todo[p] = First \/ Begins(todo[p], "resume")) /\ Waits(p)
  BY DEF SpinInv, Waits
<1>7. /\ proc'[c] = p /\ \A d \in Cpu : d # c => proc'[d] = proc[d] /\ proc[d] # p
  BY <1>1 DEF SpinTypes, Placed, SpinSizes
<1>8. state'[p] = "RUNNING" /\ \A q \in Thread : q # p => state'[q] = state[q]
  BY <1>1 DEF SpinTypes
<1>9. SpinTypes'
  <2>1. /\ proc' \in [Cpu -> Thread \cup {None}]
        /\ state' \in [Thread -> {"RUNNABLE", "RUNNING", "SLEEPING", "ZOMBIE"}]
    BY <1>1 DEF SpinTypes
  <2>2. QED
    BY <1>1, <2>1 DEF SpinTypes, L!Locks
<1>10. Placed'
  <2>1. ASSUME NEW d \in Cpu, proc'[d] # None
        PROVE  state'[proc'[d]] = "RUNNING" /\ todo'[d] = <<<<"loop">>>>
    <3>1. CASE d = c
      BY <1>5, <1>7, <1>8, <3>1
    <3>2. CASE d # c
      <4>1. proc'[d] = proc[d] /\ proc[d] # p /\ proc[d] # None /\ proc[d] \in Thread
        BY <1>1, <1>7, <2>1, <3>2 DEF SpinTypes
      <4>2. state[proc[d]] = "RUNNING" /\ todo[d] = <<<<"loop">>>>
        BY <1>1, <4>1 DEF Placed
      <4>3. QED
        BY <1>8, <4>1, <4>2
    <3>3. QED
      BY <3>1, <3>2
  <2>2. \A d, e \in Cpu : proc'[d] = proc'[e] /\ proc'[d] # None => d = e
    BY <1>1, <1>7 DEF Placed
  <2>3. QED
    BY <2>1, <2>2 DEF Placed
<1>11. \A u \in Thread \cup Cpu : Ordered(todo'[u])
  BY DEF SpinInv
<1>12. ASSUME NEW q \in Thread PROVE Waits(q)'
  <2>1. Waits(q)
    BY DEF SpinInv
  <2>2. QED
    BY <1>8, <2>1 DEF Waits
<1>13. OtherCpus(c)
  BY <1>1 DEF OtherCpus, SpinTypes
<1>14. ASSUME NEW d \in Cpu PROVE Running(d)'
  <2>1. CASE d = c
    <3>1. L!Runs(c)' = p
      BY <1>7 DEF L!Runs, SpinSizes
    <3>2. ModeOf(c)' = Under /\ On(c)' = FALSE /\ intena'[c] = intena[c]
      BY <1>4, <1>5 DEF ModeOf, On
    <3>3. WellRun(p, Under, FALSE, intena[c], todo[p])
      BY <1>4, <1>6, SwitchRun
    <3>4. todo[L!Runs(c)]' = todo[p]
      BY <3>1
    <3>5. QED
      BY <2>1, <3>1, <3>2, <3>3, <3>4 DEF Running
  <2>2. CASE d # c
    <3>1. Running(d) /\ todo'[L!Runs(d)] = todo[L!Runs(d)] /\ proc'[d] = proc[d]
      BY <1>7, <2>2 DEF SpinInv
    <3>2. QED
      BY <1>13, <2>2, <3>1, StaysElsewhere
  <2>3. QED
    BY <2>1, <2>2
<1>15. QED
  BY <1>9, <1>10, <1>11, <1>12, <1>14 DEF SpinInv

LEMMA SchedulerStep ==
  ASSUME SpinSizes, SpinInv, NEW c \in Cpu, L!Scheduler(c)
  PROVE  SpinInv'
<1> DEFINE s == todo[c]
<1>1. SpinTypes
  BY DEF SpinInv
<1>2. proc[c] = None /\ L!Runs(c) = c /\ c \notin Thread
  BY <1>1, RunsOf DEF L!Scheduler
<1>3. ncli' = ncli /\ intena' = intena /\ locked' = locked /\ panicked' = FALSE
  BY <1>1 DEF L!Scheduler, SpinTypes
<1>4. /\ s \in Seq(Op) /\ Ordered(s) /\ WellRun(c, ModeOf(c), On(c), intena[c], s)
      /\ On(c) \in BOOLEAN /\ intena[c] \in BOOLEAN /\ (On(c) <=> c \in iflag)
  BY <1>2, NowRuns
<1>5. \/ /\ s = <<>> /\ iflag' = iflag \cup {c}
         /\ todo' = [todo EXCEPT ![c] = <<<<"acquire", "ptable">>, <<"loop">>>>]
         /\ state' = state /\ proc' = proc
      \/ /\ L!Call(c) = <<"loop">> /\ UNCHANGED <<iflag, todo>>
         /\ \E p \in Thread :
              /\ state[p] = "RUNNABLE"
              /\ state' = [state EXCEPT ![p] = "RUNNING"]
              /\ proc' = [proc EXCEPT ![c] = p]
      \/ /\ L!Call(c) = <<"loop">> /\ L!Then(c, <<<<"release", "ptable">>>>)
         /\ state' = state /\ proc' = proc /\ iflag' = iflag
  BY DEF L!Scheduler
<1> HIDE DEF s
<1>6. CASE /\ s = <<>> /\ iflag' = iflag \cup {c}
           /\ todo' = [todo EXCEPT ![c] = <<<<"acquire", "ptable">>, <<"loop">>>>]
           /\ state' = state /\ proc' = proc
  <2> DEFINE r == <<<<"acquire", "ptable">>, <<"loop">>>>
  <2>1. /\ WellRun(c, ModeOf(c), TRUE, intena[c], r)
        /\ r \in Seq(Op) /\ Ordered(r) /\ ~Begins(r, "resume")
    BY <1>4, <1>6, StiRun
  <2>2. OtherCpus(c)
    BY <1>1, <1>3, <1>6 DEF OtherCpus, SpinTypes
  <2>3. ModeOf(c)' = ModeOf(c) /\ On(c)' = TRUE /\ intena'[c] = intena[c]
    BY <1>3, <1>6 DEF ModeOf, On
  <2>4. WellRun(L!Runs(c), ModeOf(c)', On(c)', intena'[c], r)
    BY <1>2, <2>1, <2>3
  <2>5. state' \in [Thread -> {"RUNNABLE", "RUNNING", "SLEEPING", "ZOMBIE"}]
    BY <1>1, <1>6 DEF SpinTypes
  <2>6. todo' = [todo EXCEPT ![L!Runs(c)] = r] /\ proc' = proc /\ state' = state
    BY <1>2, <1>6
  <2> HIDE DEF r
  <2>7. QED
    BY <1>3, <2>1, <2>2, <2>4, <2>5, <2>6, LocalStep
<1>7. ASSUME L!Call(c) = <<"loop">>, UNCHANGED <<iflag, todo>>, NEW p \in Thread,
             state[p] = "RUNNABLE", state' = [state EXCEPT ![p] = "RUNNING"],
             proc' = [proc EXCEPT ![c] = p]
      PROVE  SpinInv'
  <2>1. panicked' = panicked
    BY <1>1, <1>3 DEF SpinTypes
  <2>2. QED
    BY <1>2, <1>3, <1>7, <2>1, SwitchStep
<1>8. CASE /\ L!Call(c) = <<"loop">> /\ L!Then(c, <<<<"release", "ptable">>>>)
           /\ state' = state /\ proc' = proc /\ iflag' = iflag
  <2>1. s # <<>> /\ s[1] = <<"loop">>
    <3>1. L!Call(c)[1] # "none"
      BY <1>8
    <3>2. QED
      BY <1>1, <1>2, <1>8, <3>1, CallOf DEF s
  <2>2. Loops(c, ModeOf(c), On(c), s)
    BY <1>4, <2>1, LoopRun
  <2>3. ModeOf(c) = Under /\ ~On(c) /\ s = <<<<"loop">>>>
    BY <2>2 DEF Loops, ModeOf, Under
  <2> DEFINE r == <<<<"release", "ptable">>>> \o <<>>
  <2>4. /\ WellRun(c, Under, FALSE, intena[c], r)
        /\ r \in Seq(Op) /\ Ordered(r) /\ ~Begins(r, "resume")
    BY <1>4, LoopStays
  <2>5. todo' = [todo EXCEPT ![L!Runs(c)] = r]
    <3>1. Tail(s) = <<>>
      BY <2>3
    <3>2. QED
      BY <1>2, <1>8, <3>1 DEF L!Then, s
  <2>6. OtherCpus(c)
    BY <1>1, <1>3, <1>8 DEF OtherCpus, SpinTypes
  <2>7. ModeOf(c)' = Under /\ On(c)' = FALSE /\ intena'[c] = intena[c]
    BY <1>3, <1>4, <1>8, <2>3 DEF ModeOf, On
  <2>8. WellRun(L!Runs(c), ModeOf(c)', On(c)', intena'[c], r)
    BY <1>2, <2>4, <2>7
  <2>9. state' \in [Thread -> {"RUNNABLE", "RUNNING", "SLEEPING", "ZOMBIE"}]
    BY <1>1, <1>8 DEF SpinTypes
  <2> HIDE DEF r
  <2>10. QED
    BY <1>3, <1>8, <2>4, <2>5, <2>6, <2>8, <2>9, LocalStep
<1>9. QED
  BY <1>5, <1>6, <1>7, <1>8

LEMMA SpinInit == ASSUME SpinSizes, L!Init PROVE SpinInv
<1>1. First \in Seq(Op) /\ <<>> \in Seq(Op)
  BY DEF First, Op, L!Locks
<1>2. SpinTypes
  <2>1. todo \in [Thread \cup Cpu -> Seq(Op)]
    BY <1>1 DEF L!Init, First
  <2>2. QED
    BY <2>1 DEF L!Init, SpinTypes
<1>3. /\ \A p \in Thread : todo[p] = First /\ state[p] = "RUNNABLE"
      /\ \A c \in Cpu : todo[c] = <<>> /\ proc[c] = None /\ L!Runs(c) = c
  BY DEF L!Init, First, SpinSizes, L!Runs
<1>4. Placed
  BY <1>3 DEF Placed
<1>5. ASSUME NEW p \in Thread
      PROVE  Fits(p, First, Under) /\ Ordered(First) /\ ~Begins(First, "resume")
  <2> DEFINE a == <<<<"forkret">>>> \o <<>>  r == <<<<"release", "ptable">>>> \o a
  <2>1. Good(p, a)
    BY EmptyGood, ReturnGood
  <2>2. a \in Seq(Op) /\ Ordered(a) /\ ~Begins(a, "resume") /\ Fits(p, a, Free)
    BY <2>1 DEF Good
  <2>3. a = <<<<"forkret">>>> /\ r = First
    BY SmallOnes DEF First
  <2>4. /\ <<"release", "ptable">> \in Op /\ <<"release", "ptable">> \notin Ends
        /\ Takes(p, Under, <<"release", "ptable">>, Free)
    BY DEF Op, Ends, L!Locks, Takes, Under, Free
  <2> HIDE DEF a
  <2>5. Fits(p, r, Under)
    BY <2>2, <2>4, Modes, OneMore
  <2>6. Ordered(r) /\ r # <<>> /\ r[1] = <<"release", "ptable">>
    BY <2>2, <2>4, OneOrdered
  <2>7. ~Begins(r, "resume")
    BY <2>6 DEF Begins
  <2> HIDE DEF r
  <2>8. QED
    BY <2>3, <2>5, <2>6, <2>7
<1>6. \A t \in Thread \cup Cpu : Ordered(todo[t])
  <2>1. Ordered(<<>>)
    BY DEF Ordered
  <2>2. QED
    BY <1>3, <1>5, <2>1
<1>7. \A p \in Thread : Waits(p)
  BY <1>3, <1>5 DEF Waits
<1>8. ASSUME NEW c \in Cpu PROVE Running(c)
  <2>1. ModeOf(c) = Free
    BY DEF L!Init, ModeOf, Free, SpinSizes, L!Locks
  <2>2. Fits(c, <<>>, Free) /\ ~Has(<<>>, "iret")
    BY NothingFits DEF Has
  <2>3. c \notin Thread /\ Free.ncli = 0
    BY DEF SpinSizes, Free
  <2>4. WellRun(c, Free, On(c), intena[c], <<>>)
    BY <2>2, <2>3 DEF WellRun
  <2>5. QED
    BY <1>3, <2>1, <2>4 DEF Running
<1>9. QED
  BY <1>2, <1>4, <1>6, <1>7, <1>8 DEF SpinInv

LEMMA SpinNext == ASSUME SpinSizes, SpinInv, [L!Next]_L!vars PROVE SpinInv'
<1>1. ASSUME L!Next PROVE SpinInv'
  <2>1. PICK c \in Cpu :
          \/ L!Acquire(c) \/ L!Spin(c) \/ L!Release(c)
          \/ L!Sched(c) \/ L!Resume(c) \/ L!Scheduler(c)
          \/ L!Syscall(c) \/ L!Interrupt(c) \/ L!Iret(c) \/ L!Wakeup(c)
    BY <1>1 DEF L!Next
  <2>2. QED
    BY <2>1, AcquireStep, SpinStep, ReleaseStep, SchedStep, ResumeStep, SchedulerStep,
       SyscallStep, InterruptStep, IretStep, WakeupStep
<1>2. ASSUME UNCHANGED L!vars PROVE SpinInv'
  BY <1>2 DEF L!vars, SpinInv, SpinTypes, Placed, Waits, Running, On, ModeOf, L!Locks, L!Runs
<1>3. QED
  BY <1>1, <1>2

\* spinlock.c, sched and traps: the calls that each thread has still to make
\* are right for the locks and the interrupts of its CPU.
THEOREM SpinInvariance == ASSUME SpinSizes PROVE L!Spec => []SpinInv
<1>1. L!Init => SpinInv
  BY SpinInit
<1>2. SpinInv /\ [L!Next]_L!vars => SpinInv'
  BY SpinNext
<1>3. QED
  BY <1>1, <1>2, PTL DEF L!Spec

\* spinlock.c and sched: interrupts are disabled where a handler could spin
\* for a lock of its own CPU, enabled again after the last release wherever
\* the process has slept meanwhile, and no assertion fails.
THEOREM SpinInterrupts == ASSUME SpinSizes PROVE L!Spec => []L!InterruptsRestored
<1>1. ASSUME SpinInv PROVE L!InterruptsRestored
  <2>1. SpinTypes /\ Placed
    BY <1>1 DEF SpinInv
  <2>2. ~panicked
    BY <2>1 DEF SpinTypes
  <2>3. ASSUME NEW c \in Cpu
        PROVE  /\ ncli[c] > 0 \/ L!InInterrupt(L!Runs(c)) => c \notin iflag
               /\ proc[c] # None /\ ncli[c] = 0 /\ ~L!InInterrupt(proc[c]) /\ ~L!InForkret(proc[c])
                    => c \in iflag
               /\ \A l \in L!Locks : locked[l] = c => ncli[c] > 0
    <3> DEFINE t == L!Runs(c)  s == todo[t]
    <3>1. /\ s \in Seq(Op) /\ Ordered(s) /\ WellRun(t, ModeOf(c), On(c), intena[c], s)
          /\ (On(c) <=> c \in iflag) /\ ncli[c] \in Nat /\ ModeOf(c).ncli = ncli[c]
          /\ \A l \in L!Locks : locked[l] = c <=> l \in ModeOf(c).held
      BY <1>1, NowRuns
    <3>2. /\ L!InInterrupt(t) <=> Has(s, "iret")
          /\ L!InForkret(t) <=> Has(s, "forkret")
      BY <3>1 DEF L!InInterrupt, L!InForkret, Has
    <3>3. ModeOf(c) \in Mode
      <4> HIDE DEF t, s
      <4>1. Fits(t, s, ModeOf(c))
        BY <3>1 DEF WellRun
      <4>2. CASE s = <<>>
        BY <4>1, <4>2, NothingFits, Modes
      <4>3. CASE s # <<>>
        BY <3>1, <4>1, <4>3, TailFits
      <4>4. QED
        BY <4>2, <4>3
    <3>4. \A l \in L!Locks : locked[l] = c => ncli[c] > 0
      BY <3>1, <3>3 DEF Mode
    <3>5. proc[c] # None => t = proc[c] /\ t \in Thread
      BY <2>1, RunsOf
    <3>6. ncli[c] > 0 \/ Has(s, "iret") => c \notin iflag
      <4> HIDE DEF t, s
      <4>1. QED
        BY <3>1 DEF WellRun
    <3>7. proc[c] # None /\ ncli[c] = 0 /\ Steady(s) => c \in iflag
      <4> HIDE DEF t, s
      <4>1. QED
        BY <3>1, <3>5 DEF WellRun
    <3> HIDE DEF s
    <3>8. QED
      BY <3>2, <3>4, <3>5, <3>6, <3>7 DEF Steady
  <2>4. QED
    BY <2>2, <2>3 DEF L!InterruptsRestored
<1>2. QED
  BY <1>1, SpinInvariance, PTL

-----------------------------------------------------------------------------
(* A cache of the simulator.                                               *)

CONSTANTS Instr, Block, Ways, RQ_SIZE, WQ_SIZE, PQ_SIZE, MSHR_SIZE, TAGS, MaxWrites, MaxQueued
VARIABLES rq, wq, pq, internal, tags, mshr, writes, block, owed, waiting, lost

H == INSTANCE ChampCache

CacheSizes == RQ_SIZE \in Nat /\ MSHR_SIZE \in Nat /\ TAGS \in Nat

\* What the level above and the prefetcher ask for: loads, which are answered
\* to those that wait, and requests for which nobody waits.
Pkt == [block : Block, type : {"LOAD", "WRITE", "PREFETCH", "SKIP"},
        deps : SUBSET Instr, reply : BOOLEAN, checked : BOOLEAN]
Load  == {x \in Pkt : x.type = "LOAD" /\ x.reply}
Idle  == {x \in Pkt : x.deps = {}}
Entry == {x \in [block : Block, deps : SUBSET Instr, reply : BOOLEAN, done : BOOLEAN] :
            x.deps # {} => x.reply}

\* What is in the ways, and which writes are to be filled, does not matter.
CacheTypes ==
  /\ rq \in Seq(Load) /\ wq \in Seq(Idle) /\ pq \in Seq(Idle) /\ internal \in Seq(Idle)
  /\ tags \in Seq(Load \cup Idle) /\ mshr \in Seq(Entry)
  /\ owed \in [Block -> Nat] /\ waiting \subseteq Instr /\ lost = FALSE
  /\ Len(rq) <= RQ_SIZE /\ Len(tags) <= TAGS /\ Len(mshr) <= MSHR_SIZE

\* Who waits for the requests in s; each for one of them.
Deps(s)     == UNION {s[k].deps : k \in DOMAIN s}
Separate(s) == \A j, k \in DOMAIN s : j # k => s[j].deps \cap s[k].deps = {}

\* Who waits does so for one request.
Stand ==
  /\ Separate(rq) /\ Separate(tags) /\ Separate(mshr)
  /\ Deps(rq) \cap Deps(tags) = {} /\ Deps(rq) \cap Deps(mshr) = {}
  /\ Deps(tags) \cap Deps(mshr) = {}
  /\ waiting = Deps(rq) \cup Deps(tags) \cup Deps(mshr)

\* A block has one miss in flight, and that one waits for a response
\* until it has come; what is done comes first.
Misses ==
  /\ \A i, j \in DOMAIN mshr : mshr[i].block = mshr[j].block => i = j
  /\ \A b \in Block : owed[b] \in {0, 1}
  /\ \A b \in Block : owed[b] = 1 <=> \E i \in DOMAIN mshr : mshr[i].block = b /\ ~mshr[i].done
  /\ \A i, j \in DOMAIN mshr : i < j /\ mshr[j].done => mshr[i].done

CacheInv == CacheTypes /\ Stand /\ Misses

-----------------------------------------------------------------------------
(* Sequences of requests.                                                  *)

\* r is s without its k-th member.
Drops(s, r, k) ==
  /\ Len(r) = Len(s) - 1
  /\ \A j \in 1 .. Len(r) : r[j] = s[IF j < k THEN j ELSE j + 1]

LEMMA LeastIndex ==
  ASSUME NEW h \in Nat, NEW T \in SUBSET (1 .. h), T # {}
  PROVE  H!First(T) \in T /\ \A j \in T : H!First(T) <= j
<1> DEFINE U == {l \in 0 .. h : \A j \in T : j > l}
<1>1. PICK l \in U : l < h /\ l + 1 \notin U
  <2>1. 0 \in U /\ U \in SUBSET (0 .. h)
    OBVIOUS
  <2>2. h \notin U
    <3>1. PICK t \in T : t \in 1 .. h
      OBVIOUS
    <3>2. QED
      BY <3>1
  <2> HIDE DEF U
  <2>3. QED
    BY <2>1, <2>2, UpTo
<1>2. l + 1 \in T /\ \A j \in T : l + 1 <= j
  BY <1>1
<1>3. H!First(T) = CHOOSE i \in T : \A j \in T : i <= j
  BY DEF H!First
<1>4. QED
  BY <1>2, <1>3

LEMMA TailDrops ==
  ASSUME NEW U, NEW s \in Seq(U), s # <<>>
  PROVE  /\ 1 \in DOMAIN s /\ Head(s) = s[1] /\ s[1] \in U
         /\ Tail(s) \in Seq(U) /\ Drops(s, Tail(s), 1)
<1>1. /\ Tail(s) \in Seq(U) /\ Len(s) \in Nat /\ Len(s) > 0 /\ Len(Tail(s)) = Len(s) - 1
      /\ Head(s) = s[1] /\ s[1] \in U /\ DOMAIN s = 1 .. Len(s)
  OBVIOUS
<1>2. \A i \in 1 .. Len(Tail(s)) : Tail(s)[i] = s[i + 1]
  OBVIOUS
<1>3. QED
  BY <1>1, <1>2 DEF Drops

LEMMA RemoveDrops ==
  ASSUME NEW U, NEW s \in Seq(U), NEW k \in DOMAIN s
  PROVE  H!RemoveAt(s, k) \in Seq(U) /\ Drops(s, H!RemoveAt(s, k), k)
<1> DEFINE p == SubSeq(s, 1, k - 1)  q == SubSeq(s, k + 1, Len(s))
<1>1. Len(s) \in Nat /\ k \in 1 .. Len(s) /\ DOMAIN s = 1 .. Len(s)
  OBVIOUS
<1>2. p \in Seq(U) /\ Len(p) = k - 1 /\ \A j \in 1 .. k - 1 : p[j] = s[j]
  BY <1>1
<1>3. q \in Seq(U) /\ Len(q) = Len(s) - k /\ \A j \in 1 .. Len(s) - k : q[j] = s[k + j]
  BY <1>1
<1> HIDE DEF p, q
<1>4. /\ p \o q \in Seq(U) /\ Len(p \o q) = Len(s) - 1
      /\ \A i \in 1 .. Len(p) : (p \o q)[i] = p[i]
      /\ \A i \in 1 .. Len(q) : (p \o q)[Len(p) + i] = q[i]
  <2>1. p \in Seq(U) /\ q \in Seq(U)
    BY <1>2, <1>3
  <2>2. /\ p \o q \in Seq(U) /\ Len(p \o q) = Len(p) + Len(q)
        /\ \A i \in 1 .. Len(p) : (p \o q)[i] = p[i]
        /\ \A i \in 1 .. Len(q) : (p \o q)[Len(p) + i] = q[i]
    BY ONLY <2>1, JoinOf
  <2>3. Len(p) + Len(q) = Len(s) - 1
    BY <1>1, <1>2, <1>3
  <2>4. QED
    BY <2>2, <2>3
<1>5. ASSUME NEW j \in 1 .. Len(p \o q) PROVE (p \o q)[j] = s[IF j < k THEN j ELSE j + 1]
  <2>1. CASE j < k
    <3>1. j \in 1 .. k - 1 /\ j \in 1 .. Len(p)
      BY <1>1, <1>2, <1>4, <2>1
    <3>2. (p \o q)[j] = p[j]
      BY <1>2, <1>3, <3>1
    <3>3. QED
      BY <1>2, <2>1, <3>1, <3>2
  <2>2. CASE ~(j < k)
    <3> DEFINE l == j - (k - 1)
    <3>0. j \in Int /\ k \in Int /\ Len(s) \in Int /\ k <= j /\ j <= Len(s) - 1
      BY <1>1, <1>4, <2>2
    <3>a. l \in 1 .. Len(s) - k /\ j = (k - 1) + l /\ k + l = j + 1
      BY <3>0
    <3> HIDE DEF l
    <3>b. Len(p) = k - 1 /\ Len(q) = Len(s) - k
      BY <1>2, <1>3
    <3>1. l \in 1 .. Len(s) - k /\ l \in 1 .. Len(q) /\ j = Len(p) + l
      BY <3>a, <3>b
    <3>2. (p \o q)[j] = q[l]
      <4>1. (p \o q)[Len(p) + l] = q[l]
        BY <1>4, <3>1
      <4>2. QED
        BY <3>1, <4>1
    <3>3. q[l] = s[k + l] /\ k + l = j + 1
      BY <1>3, <3>a
    <3>4. QED
      BY <2>2, <3>2, <3>3
  <2>3. QED
    BY <2>1, <2>2
<1>6. H!RemoveAt(s, k) = p \o q
  BY DEF H!RemoveAt, p, q
<1>7. QED
  BY <1>4, <1>5, <1>6 DEF Drops

\* The member at which r has what s has at j, and the other way round.
LEMMA DroppedAt ==
  ASSUME NEW U, NEW V, NEW s \in Seq(U), NEW r \in Seq(V), NEW k \in DOMAIN s, Drops(s, r, k)
  PROVE  /\ Len(s) \in Nat /\ Len(r) \in Nat /\ Len(r) = Len(s) - 1
         /\ \A j \in DOMAIN r : (IF j < k THEN j ELSE j + 1) \in (DOMAIN s) \ {k}
                                /\ r[j] = s[IF j < k THEN j ELSE j + 1]
         /\ \A j \in (DOMAIN s) \ {k} : (IF j < k THEN j ELSE j - 1) \in DOMAIN r
                                /\ r[IF j < k THEN j ELSE j - 1] = s[j]
<1>1. /\ Len(s) \in Nat /\ Len(r) \in Nat /\ Len(r) = Len(s) - 1
      /\ DOMAIN s = 1 .. Len(s) /\ DOMAIN r = 1 .. Len(r) /\ k \in 1 .. Len(s)
  BY DEF Drops
<1>2. ASSUME NEW j \in DOMAIN r
      PROVE  /\ (IF j < k THEN j ELSE j + 1) \in (DOMAIN s) \ {k}
             /\ r[j] = s[IF j < k THEN j ELSE j + 1]
  BY <1>1 DEF Drops
<1>3. ASSUME NEW j \in (DOMAIN s) \ {k}
      PROVE  /\ (IF j < k THEN j ELSE j - 1) \in DOMAIN r
             /\ r[IF j < k THEN j ELSE j - 1] = s[j]
  <2>1. CASE j < k
    BY <1>1, <1>2, <2>1
  <2>2. CASE ~(j < k)
    <3>1. j - 1 \in DOMAIN r /\ ~(j - 1 < k) /\ (j - 1) + 1 = j
      BY <1>1, <2>2
    <3>2. r[j - 1] = s[IF j - 1 < k THEN j - 1 ELSE (j - 1) + 1]
      BY <1>2, <3>1
    <3>3. QED
      BY <2>2, <3>1, <3>2
  <2>3. QED
    BY <2>1, <2>2
<1>4. QED
  BY <1>1, <1>2, <1>3

LEMMA DroppedDeps ==
  ASSUME NEW U, NEW V, NEW s \in Seq(U), NEW r \in Seq(V), NEW k \in DOMAIN s, Drops(s, r, k),
         Separate(s)
  PROVE  Deps(r) = Deps(s) \ s[k].deps /\ s[k].deps \subseteq Deps(s) /\ Separate(r) /\ Len(r) <= Len(s)
<1> DEFINE up(j) == IF j < k THEN j ELSE j + 1  down(j) == IF j < k THEN j ELSE j - 1
<1>1. /\ Len(s) \in Nat /\ Len(r) \in Nat /\ Len(r) = Len(s) - 1 /\ k \in Nat
      /\ DOMAIN r \subseteq Nat
      /\ \A j \in DOMAIN r : up(j) \in (DOMAIN s) \ {k} /\ r[j] = s[up(j)]
      /\ \A j \in (DOMAIN s) \ {k} : down(j) \in DOMAIN r /\ r[down(j)] = s[j]
  BY DroppedAt
<1>2. \A i, j \in DOMAIN r : i # j => up(i) # up(j)
  BY <1>1
<1> HIDE DEF up, down
<1>3. Separate(r)
  BY <1>1, <1>2 DEF Separate
<1>4. Deps(r) \subseteq Deps(s) \ s[k].deps
  <2>1. ASSUME NEW x \in Deps(r) PROVE x \in Deps(s) /\ x \notin s[k].deps
    <3>1. PICK j \in DOMAIN r : x \in r[j].deps
      BY DEF Deps
    <3>2. up(j) \in DOMAIN s /\ up(j) # k /\ x \in s[up(j)].deps
      BY <1>1, <3>1
    <3>3. QED
      BY <3>2 DEF Deps, Separate
  <2>2. QED
    BY <2>1
<1>5. Deps(s) \ s[k].deps \subseteq Deps(r)
  <2>1. ASSUME NEW x \in Deps(s) \ s[k].deps PROVE x \in Deps(r)
    <3>1. PICK j \in DOMAIN s : x \in s[j].deps
      BY DEF Deps
    <3>2. j # k /\ x \in r[down(j)].deps /\ down(j) \in DOMAIN r
      BY <1>1, <3>1
    <3>3. QED
      BY <3>2 DEF Deps
  <2>2. QED
    BY <2>1
<1>6. s[k].deps \subseteq Deps(s)
  BY DEF Deps
<1>7. QED
  BY <1>1, <1>3, <1>4, <1>5, <1>6

LEMMA AppendedDeps ==
  ASSUME NEW U, NEW s \in Seq(U), NEW x \in U
  PROVE  /\ Append(s, x) \in Seq(U) /\ Len(Append(s, x)) = Len(s) + 1 /\ Len(s) \in Nat
         /\ \A j \in DOMAIN s : j \in DOMAIN Append(s, x) /\ Append(s, x)[j] = s[j]
         /\ DOMAIN Append(s, x) = DOMAIN s \cup {Len(s) + 1} /\ Append(s, x)[Len(s) + 1] = x
         /\ Deps(Append(s, x)) = Deps(s) \cup x.deps
         /\ Separate(s) /\ Deps(s) \cap x.deps = {} => Separate(Append(s, x))
<1> DEFINE r == Append(s, x)  n == Len(s) + 1
<1>1. r \in Seq(U) /\ Len(r) = n /\ Len(s) \in Nat /\ DOMAIN r = 1 .. n /\ DOMAIN s = 1 .. Len(s)
  OBVIOUS
<1>2. DOMAIN r = DOMAIN s \cup {n} /\ n \notin DOMAIN s
  BY <1>1
<1>3. r[n] = x /\ \A j \in DOMAIN s : r[j] = s[j]
  OBVIOUS
<1> HIDE DEF r, n
<1>4. Deps(r) = Deps(s) \cup x.deps
  <2>1. \A y : y \in Deps(r) <=> \E k \in DOMAIN r : y \in r[k].deps
    BY DEF Deps
  <2>2. \A y : y \in Deps(s) <=> \E k \in DOMAIN s : y \in s[k].deps
    BY DEF Deps
  <2>3. QED
    BY <1>2, <1>3, <2>1, <2>2
<1>5. ASSUME Separate(s), Deps(s) \cap x.deps = {} PROVE Separate(r)
  <2>1. ASSUME NEW j \in DOMAIN s PROVE r[j].deps \cap r[n].deps = {} /\ s[j].deps \subseteq Deps(s)
    BY <1>3, <1>5 DEF Deps
  <2>2. \A j, k \in DOMAIN s : j # k => r[j].deps \cap r[k].deps = {}
    BY <1>3, <1>5 DEF Separate
  <2>3. QED
    BY <1>2, <2>1, <2>2 DEF Separate
<1>6. QED
  BY <1>1, <1>2, <1>3, <1>4, <1>5 DEF r, n

\* The requests of r are those of s in the order f, and D wait at k as well.
Moved(s, r, f, k, D) ==
  /\ f \in [DOMAIN r -> DOMAIN s] /\ k \in DOMAIN r
  /\ \A j \in DOMAIN s : \E i \in DOMAIN r : f[i] = j
  /\ \A i, j \in DOMAIN r : f[i] = f[j] => i = j
  /\ \A j \in DOMAIN r : r[j].deps = IF j = k THEN s[f[k]].deps \cup D ELSE s[f[j]].deps

LEMMA MovedDeps ==
  ASSUME NEW s, NEW r, NEW f, NEW k, NEW D, Moved(s, r, f, k, D)
  PROVE  /\ Deps(r) = Deps(s) \cup D
         /\ Separate(s) /\ Deps(s) \cap D = {} => Separate(r)
<1>0. /\ f \in [DOMAIN r -> DOMAIN s] /\ k \in DOMAIN r
      /\ \A j \in DOMAIN s : \E i \in DOMAIN r : f[i] = j
      /\ \A i, j \in DOMAIN r : f[i] = f[j] => i = j
      /\ \A j \in DOMAIN r : r[j].deps = IF j = k THEN s[f[k]].deps \cup D ELSE s[f[j]].deps
  BY DEF Moved
<1>1. \A y : y \in Deps(r) <=> \E j \in DOMAIN r : y \in r[j].deps
  BY DEF Deps
<1>2. \A y : y \in Deps(s) <=> \E j \in DOMAIN s : y \in s[j].deps
  BY DEF Deps
<1>3. \A y \in Deps(r) : y \in Deps(s) \cup D
  BY <1>0, <1>1, <1>2
<1>4. \A y \in Deps(s) \cup D : y \in Deps(r)
  <2>1. ASSUME NEW y \in Deps(s) PROVE y \in Deps(r)
    <3>1. PICK j \in DOMAIN s : y \in s[j].deps
      BY <1>2
    <3>2. PICK i \in DOMAIN r : f[i] = j
      BY <1>0
    <3>3. y \in r[i].deps
      BY <1>0, <3>1, <3>2
    <3>4. QED
      BY <1>1, <3>3
  <2>2. ASSUME NEW y \in D PROVE y \in Deps(r)
    <3>1. k \in DOMAIN r /\ y \in r[k].deps
      BY <1>0, <2>2
    <3>2. QED
      BY <1>1, <3>1
  <2>3. QED
    BY <2>1, <2>2
<1>5. ASSUME Separate(s), Deps(s) \cap D = {}, NEW i \in DOMAIN r, NEW j \in DOMAIN r, i # j
      PROVE  r[i].deps \cap r[j].deps = {}
  <2>1. f[i] \in DOMAIN s /\ f[j] \in DOMAIN s /\ f[i] # f[j]
    BY <1>0, <1>5
  <2>2. s[f[i]].deps \cap s[f[j]].deps = {}
    BY <1>5, <2>1 DEF Separate
  <2>3. s[f[i]].deps \cap D = {} /\ s[f[j]].deps \cap D = {}
    BY <1>2, <1>5, <2>1
  <2>4. \/ r[i].deps = s[f[i]].deps \/ (i = k /\ r[i].deps = s[f[i]].deps \cup D)
    BY <1>0
  <2>5. \/ r[j].deps = s[f[j]].deps \/ (j = k /\ r[j].deps = s[f[j]].deps \cup D)
    BY <1>0
  <2>6. QED
    BY <1>5, <2>2, <2>3, <2>4, <2>5
<1>6. QED
  BY <1>3, <1>4, <1>5 DEF Separate

LEMMA Answered ==
  ASSUME NEW x, x \in Load \cup Idle \cup Entry, H!Respond(x)
  PROVE  waiting' = waiting \ x.deps
<1>1. x.deps # {} => x.reply
  BY DEF Load, Idle, Entry
<1>2. QED
  BY <1>1 DEF H!Respond

\* A request that is merged with an earlier one hands over who waits for it.
LEMMA MergedDeps ==
  ASSUME NEW U, U = Load \/ U = Idle, NEW q \in Seq(U), NEW i \in DOMAIN q
  PROVE  /\ H!Merged(q, i) \in Seq(U) /\ Len(H!Merged(q, i)) <= Len(q)
         /\ Deps(H!Merged(q, i)) = Deps(q) /\ (Separate(q) => Separate(H!Merged(q, i)))
<1> DEFINE same == {j \in H!For(q, q[i].block) : j < i}
<1>1. Len(q) \in Nat /\ DOMAIN q = 1 .. Len(q) /\ i \in 1 .. Len(q) /\ same \subseteq 1 .. Len(q)
  BY DEF H!For
<1>2. \A k \in DOMAIN q : q[k] \in U /\ q[k] \in Pkt
  BY DEF Load, Idle
<1>3. CASE same = {}
  <2> DEFINE r == [q EXCEPT ![i].checked = TRUE]
  <2>1. H!Merged(q, i) = r
    BY <1>3 DEF H!Merged
  <2>2. \A k \in DOMAIN q : r[k] = IF k = i THEN [q[i] EXCEPT !.checked = TRUE] ELSE q[k]
    OBVIOUS
  <2>3. [q[i] EXCEPT !.checked = TRUE] \in U /\ [q[i] EXCEPT !.checked = TRUE].deps = q[i].deps
    BY <1>2 DEF Load, Idle, Pkt
  <2>4. DOMAIN r = DOMAIN q /\ r = [k \in 1 .. Len(q) |-> r[k]]
    BY <1>1
  <2> HIDE DEF r
  <2>5. \A k \in 1 .. Len(q) : r[k] \in U /\ r[k].deps = q[k].deps
    BY <1>1, <1>2, <2>2, <2>3
  <2>6. r \in Seq(U) /\ Len(r) = Len(q)
    BY <1>1, <2>4, <2>5
  <2>7. Deps(r) = Deps(q) /\ (Separate(q) => Separate(r))
    BY <1>1, <2>4, <2>5 DEF Deps, Separate
  <2>8. QED
    BY <1>1, <2>1, <2>6, <2>7
<1>4. CASE same # {}
  <2> DEFINE j == H!First(same)
             t == [q EXCEPT ![j].reply = @ \/ q[i].reply, ![j].deps = @ \cup q[i].deps]
             r == H!RemoveAt(t, i)
  <2>1. H!Merged(q, i) = r
    BY <1>4 DEF H!Merged
  <2>2. j \in DOMAIN q /\ j # i
    <3>1. j \in same
      BY <1>1, <1>4, LeastIndex
    <3>2. QED
      BY <1>1, <3>1
  <2> HIDE DEF j
  <2> DEFINE x == [q[j] EXCEPT !.reply = @ \/ q[i].reply, !.deps = @ \cup q[i].deps]
  <2>3. DOMAIN t = DOMAIN q /\ \A k \in DOMAIN q : t[k] = IF k = j THEN x ELSE q[k]
    BY <2>2
  <2>4. x \in U /\ x.deps = q[j].deps \cup q[i].deps
    BY <1>2, <2>2 DEF Load, Idle, Pkt
  <2>5. t \in Seq(U)
    <3>1. t = [k \in 1 .. Len(q) |-> t[k]]
      BY <1>1, <2>3
    <3> HIDE DEF t, x
    <3>2. \A k \in 1 .. Len(q) : t[k] \in U
      BY <1>1, <1>2, <2>3, <2>4
    <3>3. QED
      BY <1>1, <3>1, <3>2
  <2> HIDE DEF t, x
  <2>6. r \in Seq(U) /\ Drops(t, r, i)
    BY <2>3, <2>5, RemoveDrops
  <2> DEFINE up(k) == IF k < i THEN k ELSE k + 1  down(k) == IF k < i THEN k ELSE k - 1
  <2>7. /\ Len(r) \in Nat /\ Len(t) \in Nat /\ Len(r) = Len(t) - 1
        /\ \A k \in DOMAIN r : up(k) \in (DOMAIN t) \ {i} /\ r[k] = t[up(k)]
        /\ \A k \in (DOMAIN t) \ {i} : down(k) \in DOMAIN r /\ r[down(k)] = t[k]
    BY <2>3, <2>5, <2>6, DroppedAt
  <2>8. \A k, l \in DOMAIN r : k # l => up(k) # up(l)
    <3>1. DOMAIN r \subseteq Nat /\ i \in Nat
      BY <1>1, <2>6
    <3>2. QED
      BY <3>1
  <2>9. Len(t) = Len(q)
    BY <1>1, <2>3, <2>5
  <2> HIDE DEF r, up, down
  <2>10. Deps(r) = Deps(q)
    <3>1. \A y : y \in Deps(r) <=> \E k \in DOMAIN r : y \in r[k].deps
      BY DEF Deps
    <3>2. \A y : y \in Deps(q) <=> \E k \in DOMAIN q : y \in q[k].deps
      BY DEF Deps
    <3>3. ASSUME NEW y \in Deps(r) PROVE y \in Deps(q)
      <4>1. PICK k \in DOMAIN r : y \in r[k].deps
        BY <3>1
      <4>2. y \in t[up(k)].deps /\ up(k) \in DOMAIN q
        BY <2>3, <2>7, <4>1
      <4>3. QED
        BY <2>2, <2>3, <2>4, <3>2, <4>2
    <3>4. ASSUME NEW y \in Deps(q) PROVE y \in Deps(r)
      <4>1. PICK k \in DOMAIN q : y \in q[k].deps
        BY <3>2
      <4>2. PICK l \in (DOMAIN t) \ {i} : y \in t[l].deps
        <5>1. CASE k = i
          BY <2>2, <2>3, <2>4, <4>1, <5>1
        <5>2. CASE k # i
          BY <2>2, <2>3, <2>4, <4>1, <5>2
        <5>3. QED
          BY <5>1, <5>2
      <4>3. QED
        BY <2>7, <3>1, <4>2
    <3>5. QED
      BY <3>3, <3>4
  <2>11. ASSUME Separate(q) PROVE Separate(r)
    <3>1. ASSUME NEW k \in (DOMAIN t) \ {i}, NEW l \in (DOMAIN t) \ {i}, k # l
          PROVE  t[k].deps \cap t[l].deps = {}
      <4>1. /\ q[k].deps \cap q[l].deps = {} /\ q[k].deps \cap q[i].deps = {}
            /\ q[l].deps \cap q[i].deps = {}
        BY <2>3, <2>11, <3>1 DEF Separate
      <4>2. \/ t[k].deps = q[k].deps /\ t[l].deps = q[l].deps
            \/ t[k].deps = q[k].deps \cup q[i].deps /\ t[l].deps = q[l].deps
            \/ t[k].deps = q[k].deps /\ t[l].deps = q[l].deps \cup q[i].deps
        BY <2>3, <2>4, <3>1
      <4>3. QED
        BY <4>1, <4>2
    <3>2. QED
      BY <2>7, <2>8, <3>1 DEF Separate
  <2>12. QED
    BY <2>1, <2>6, <2>7, <2>9, <2>10, <2>11
<1>5. QED
  BY <1>3, <1>4

-----------------------------------------------------------------------------
(* The channel.                                                            *)

\* What a step that leaves all misses alone has to keep.
LEMMA MissesKept ==
  ASSUME Misses, UNCHANGED <<mshr, owed>>
  PROVE  Misses'
  BY DEF Misses

LEMMA CacheInit == ASSUME CacheSizes, H!Init PROVE CacheInv
<1>1. /\ rq = <<>> /\ wq = <<>> /\ pq = <<>> /\ internal = <<>> /\ tags = <<>> /\ mshr = <<>>
      /\ owed = [b \in Block |-> 0] /\ waiting = {} /\ lost = FALSE
  BY DEF H!Init
<1>2. \A V : <<>> \in Seq(V)
  OBVIOUS
<1>3. Len(<<>>) = 0 /\ DOMAIN <<>> = {}
  OBVIOUS
<1>4. CacheTypes
  BY <1>1, <1>2, <1>3 DEF CacheTypes, CacheSizes
<1>5. Separate(<<>>) /\ Deps(<<>>) = {}
  BY <1>3 DEF Separate, Deps
<1>6. Stand
  BY <1>1, <1>5 DEF Stand
<1>7. Misses
  BY <1>1, <1>3 DEF Misses
<1>8. QED
  BY <1>4, <1>6, <1>7 DEF CacheInv

LEMMA AddRqStep ==
  ASSUME CacheSizes, CacheInv, NEW i \in Instr, NEW b \in Block, H!AddRq(i, b)
  PROVE  CacheInv'
<1> DEFINE x == H!Packet(b, "LOAD", {i}, TRUE)
<1>1. /\ i \notin waiting /\ Len(rq) < RQ_SIZE /\ rq' = Append(rq, x)
      /\ waiting' = waiting \cup {i}
      /\ UNCHANGED <<wq, pq, internal, tags, mshr, owed, lost>>
  BY DEF H!AddRq
<1>2. CacheTypes /\ Stand /\ Misses
  BY DEF CacheInv
<1>3. x \in Load /\ x.deps = {i}
  BY DEF H!Packet, Load, Pkt
<1> HIDE DEF x
<1>4. rq \in Seq(Load)
  BY <1>2 DEF CacheTypes
<1>5. Deps(rq) \cap x.deps = {}
  BY <1>1, <1>2, <1>3 DEF Stand
<1>6. /\ rq' \in Seq(Load) /\ Len(rq') = Len(rq) + 1 /\ Len(rq) \in Nat
      /\ Deps(rq') = Deps(rq) \cup {i} /\ Separate(rq')
  <2>1. Separate(rq)
    BY <1>2 DEF Stand
  <2>2. QED
    BY <1>1, <1>3, <1>4, <1>5, <2>1, AppendedDeps
<1>7. CacheTypes'
  BY <1>1, <1>2, <1>6 DEF CacheTypes, CacheSizes
<1>8. i \notin Deps(tags) /\ i \notin Deps(mshr) /\ i \notin Deps(rq)
  BY <1>1, <1>2 DEF Stand
<1>9. Separate(tags)' /\ Separate(mshr)' /\ Deps(tags)' = Deps(tags) /\ Deps(mshr)' = Deps(mshr)
      /\ Separate(rq)' /\ Deps(rq)' = Deps(rq) \cup {i}
  BY <1>1, <1>2, <1>6 DEF Stand, Separate, Deps
<1>10. Stand'
  BY <1>1, <1>2, <1>8, <1>9 DEF Stand
<1>11. QED
  BY <1>1, <1>2, <1>7, <1>10, MissesKept DEF CacheInv

\* Writes and prefetches: nobody waits for them.
LEMMA IdleStep ==
  ASSUME CacheInv, wq' \in Seq(Idle), pq' \in Seq(Idle), internal' \in Seq(Idle),
         UNCHANGED <<rq, tags, mshr, owed, waiting, lost>>
  PROVE  CacheInv'
<1>1. CacheTypes /\ Stand /\ Misses
  BY DEF CacheInv
<1>2. CacheTypes'
  BY <1>1 DEF CacheTypes
<1>3. /\ Separate(rq)' /\ Separate(tags)' /\ Separate(mshr)'
      /\ Deps(rq)' = Deps(rq) /\ Deps(tags)' = Deps(tags) /\ Deps(mshr)' = Deps(mshr)
  BY <1>1 DEF Stand, Separate, Deps
<1>4. Stand'
  BY <1>1, <1>3 DEF Stand
<1>5. QED
  BY <1>1, <1>2, <1>4, MissesKept DEF CacheInv

LEMMA AddIdle ==
  ASSUME NEW q \in Seq(Idle), NEW b \in Block, NEW y \in {"WRITE", "PREFETCH", "SKIP"},
         NEW r \in BOOLEAN
  PROVE  Append(q, H!Packet(b, y, {}, r)) \in Seq(Idle)
<1> DEFINE x == H!Packet(b, y, {}, r)
<1>1. x \in Idle
  BY DEF H!Packet, Idle, Pkt
<1> HIDE DEF x
<1>2. Append(q, x) \in Seq(Idle)
  BY <1>1
<1>3. QED
  BY <1>2 DEF x

LEMMA AddIdleStep ==
  ASSUME CacheInv, NEW b \in Block, H!AddWq(b) \/ H!AddPq(b) \/ H!PrefetchLine(b)
  PROVE  CacheInv'
<1>1. wq \in Seq(Idle) /\ pq \in Seq(Idle) /\ internal \in Seq(Idle)
  BY DEF CacheInv, CacheTypes
<1>2. CASE H!AddWq(b)
  <2>1. wq' = Append(wq, H!Packet(b, "WRITE", {}, FALSE))
        /\ UNCHANGED <<rq, pq, internal, tags, mshr, owed, waiting, lost>>
    BY <1>2 DEF H!AddWq
  <2>2. wq' \in Seq(Idle)
    BY <1>1, <2>1, AddIdle
  <2>3. QED
    BY <1>1, <2>1, <2>2, IdleStep
<1>3. CASE H!AddPq(b)
  <2>1. PICK reply \in BOOLEAN : pq' = Append(pq, H!Packet(b, "PREFETCH", {}, reply))
    BY <1>3 DEF H!AddPq
  <2>2. UNCHANGED <<rq, wq, internal, tags, mshr, owed, waiting, lost>>
    BY <1>3 DEF H!AddPq
  <2>3. pq' \in Seq(Idle)
    BY <1>1, <2>1, AddIdle
  <2>4. QED
    BY <1>1, <2>2, <2>3, IdleStep
<1>4. CASE H!PrefetchLine(b)
  <2>1. PICK fill \in BOOLEAN :
          internal' = Append(internal, H!Packet(b, IF fill THEN "PREFETCH" ELSE "SKIP", {}, FALSE))
    BY <1>4 DEF H!PrefetchLine
  <2>2. UNCHANGED <<rq, wq, pq, tags, mshr, owed, waiting, lost>>
    BY <1>4 DEF H!PrefetchLine
  <2>3. internal' \in Seq(Idle)
    <3>1. (IF fill THEN "PREFETCH" ELSE "SKIP") \in {"WRITE", "PREFETCH", "SKIP"}
      OBVIOUS
    <3>2. QED
      BY <1>1, <2>1, <3>1, AddIdle
  <2>4. QED
    BY <1>1, <2>2, <2>3, IdleStep
<1>5. QED
  BY <1>2, <1>3, <1>4

\* A load is in a queue as before, though maybe merged, or was answered from
\* the write that waits.
LEMMA LoadStep ==
  ASSUME CacheSizes, CacheInv, rq' \in Seq(Load), Len(rq') <= Len(rq), Separate(rq'),
         Deps(rq') \subseteq Deps(rq), waiting' = waiting \ (Deps(rq) \ Deps(rq')),
         UNCHANGED <<wq, pq, internal, tags, mshr, owed, lost>>
  PROVE  CacheInv'
<1>1. CacheTypes /\ Stand /\ Misses
  BY DEF CacheInv
<1>2. CacheTypes'
  <2>1. Len(rq') <= RQ_SIZE
    <3>1. Len(rq) \in Nat /\ Len(rq') \in Nat /\ Len(rq) <= RQ_SIZE
      BY <1>1 DEF CacheTypes
    <3>2. QED
      BY <3>1 DEF CacheSizes
  <2>2. waiting' \subseteq Instr
    BY <1>1 DEF CacheTypes
  <2>3. QED
    BY <1>1, <2>1, <2>2 DEF CacheTypes
<1>3. Separate(tags)' /\ Separate(mshr)' /\ Deps(tags)' = Deps(tags) /\ Deps(mshr)' = Deps(mshr)
      /\ Separate(rq)' /\ Deps(rq)' = Deps(rq')
  BY <1>1 DEF Stand, Separate, Deps
<1>4. Stand'
  BY <1>1, <1>3 DEF Stand
<1>5. QED
  BY <1>1, <1>2, <1>4, MissesKept DEF CacheInv

LEMMA FirstUnchecked ==
  ASSUME NEW U, NEW q \in Seq(U), H!Unchecked(q) # {}
  PROVE  H!First(H!Unchecked(q)) \in DOMAIN q
<1>1. Len(q) \in Nat /\ DOMAIN q = 1 .. Len(q) /\ H!Unchecked(q) \subseteq 1 .. Len(q)
  BY DEF H!Unchecked
<1>2. H!First(H!Unchecked(q)) \in H!Unchecked(q)
  BY <1>1, LeastIndex
<1>3. QED
  BY <1>1, <1>2

LEMMA CheckCollisionStep ==
  ASSUME CacheSizes, CacheInv, H!CheckCollision
  PROVE  CacheInv'
<1>1. CacheTypes /\ Stand /\ Misses
  BY DEF CacheInv
<1>2. wq \in Seq(Idle) /\ rq \in Seq(Load) /\ pq \in Seq(Idle) /\ internal \in Seq(Idle)
  BY <1>1 DEF CacheTypes
<1>3. UNCHANGED <<internal, tags, mshr, owed, lost>>
  BY DEF H!CheckCollision
<1>4. CASE /\ H!Unchecked(wq) # {}
           /\ wq' = H!Merged(wq, H!First(H!Unchecked(wq)))
           /\ UNCHANGED <<rq, pq, waiting>>
  <2>1. wq' \in Seq(Idle)
    BY <1>2, <1>4, FirstUnchecked, MergedDeps
  <2>2. QED
    BY <1>2, <1>3, <1>4, <2>1, IdleStep
<1>5. CASE /\ H!Unchecked(rq) # {}
           /\ LET i == H!First(H!Unchecked(rq)) IN
              IF H!For(wq, rq[i].block) # {}
              THEN rq' = H!RemoveAt(rq, i) /\ H!Respond(rq[i])
              ELSE rq' = H!Merged(rq, i) /\ UNCHANGED waiting
           /\ UNCHANGED <<wq, pq>>
  <2> DEFINE i == H!First(H!Unchecked(rq))
  <2>1. i \in DOMAIN rq
    BY <1>2, <1>5, FirstUnchecked
  <2>2. Separate(rq) /\ Len(rq) \in Nat
    BY <1>1, <1>2 DEF Stand
  <2>3. CASE rq' = H!RemoveAt(rq, i) /\ H!Respond(rq[i])
    <3> HIDE DEF i
    <3>1. rq' \in Seq(Load) /\ Drops(rq, rq', i)
      BY <1>2, <2>1, <2>3, RemoveDrops
    <3>2. /\ Deps(rq') = Deps(rq) \ rq[i].deps /\ rq[i].deps \subseteq Deps(rq) /\ Separate(rq')
          /\ Len(rq') <= Len(rq)
      BY <1>2, <2>1, <2>2, <3>1, DroppedDeps
    <3>3. waiting' = waiting \ rq[i].deps
      <4>1. rq[i] \in Load
        BY <1>2, <2>1
      <4>2. QED
        BY <2>3, <4>1, Answered
    <3>4. QED
      BY <1>3, <1>5, <3>1, <3>2, <3>3, LoadStep
  <2>4. CASE rq' = H!Merged(rq, i) /\ UNCHANGED waiting
    <3>1. rq' \in Seq(Load) /\ Len(rq') <= Len(rq) /\ Deps(rq') = Deps(rq) /\ Separate(rq')
      BY <1>2, <2>1, <2>2, <2>4, MergedDeps
    <3>2. waiting' = waiting \ (Deps(rq) \ Deps(rq'))
      BY <2>4, <3>1
    <3>3. QED
      BY <1>3, <1>5, <3>1, <3>2, LoadStep
  <2>5. QED
    BY <1>5, <2>3, <2>4
<1>6. CASE /\ H!Unchecked(pq) # {}
           /\ LET i == H!First(H!Unchecked(pq)) IN
              pq' = IF H!For(wq, pq[i].block) # {} THEN H!RemoveAt(pq, i) ELSE H!Merged(pq, i)
           /\ UNCHANGED <<rq, wq, waiting>>
  <2> DEFINE i == H!First(H!Unchecked(pq))
  <2>1. i \in DOMAIN pq
    BY <1>2, <1>6, FirstUnchecked
  <2>2. pq' = H!RemoveAt(pq, i) \/ pq' = H!Merged(pq, i)
    BY <1>6
  <2> HIDE DEF i
  <2>3. pq' \in Seq(Idle)
    BY <1>2, <2>1, <2>2, RemoveDrops, MergedDeps
  <2>4. QED
    BY <1>2, <1>3, <1>6, <2>3, IdleStep
<1>7. QED
  BY <1>4, <1>5, <1>6 DEF H!CheckCollision

-----------------------------------------------------------------------------
(* The stages of operate.                                                  *)

\* The requests in the tag check go on, and those in the queues stay.
LEMMA InitiateTagCheckStep ==
  ASSUME CacheSizes, CacheInv, H!InitiateTagCheck
  PROVE  CacheInv'
<1>1. CacheTypes /\ Stand /\ Misses
  BY DEF CacheInv
<1>2. /\ wq \in Seq(Idle) /\ rq \in Seq(Load) /\ pq \in Seq(Idle) /\ internal \in Seq(Idle)
      /\ tags \in Seq(Load \cup Idle)
  BY <1>1 DEF CacheTypes
<1>3. Len(tags) < TAGS /\ UNCHANGED <<mshr, owed, waiting, lost>>
  BY DEF H!InitiateTagCheck
<1>4. Separate(rq) /\ Separate(tags)
  BY <1>1 DEF Stand
<1>5. Separate(mshr)' /\ Deps(mshr)' = Deps(mshr)
  BY <1>1, <1>3 DEF Stand, Separate, Deps
<1>6. ASSUME NEW x \in Load \cup Idle, tags' = Append(tags, x),
             wq' \in Seq(Idle), pq' \in Seq(Idle), internal' \in Seq(Idle), rq' \in Seq(Load),
             Len(rq') <= Len(rq), Separate(rq'), Deps(rq') = Deps(rq) \ x.deps, x.deps \subseteq Deps(rq)
      PROVE  CacheInv'
  <2>1. Deps(tags) \cap x.deps = {}
    BY <1>1, <1>6 DEF Stand
  <2>2. /\ tags' \in Seq(Load \cup Idle) /\ Len(tags') = Len(tags) + 1 /\ Len(tags) \in Nat
        /\ Deps(tags') = Deps(tags) \cup x.deps /\ Separate(tags')
    BY <1>2, <1>4, <1>6, <2>1, AppendedDeps
  <2>3. Len(rq') <= RQ_SIZE /\ Len(tags') <= TAGS
    <3>1. Len(rq) \in Nat /\ Len(rq') \in Nat /\ Len(rq) <= RQ_SIZE
      BY <1>1, <1>6 DEF CacheTypes
    <3>2. QED
      BY <1>3, <1>6, <2>2, <3>1 DEF CacheSizes
  <2>4. CacheTypes'
    BY <1>1, <1>3, <1>6, <2>2, <2>3 DEF CacheTypes
  <2>5. Separate(rq)' /\ Separate(tags)' /\ Deps(rq)' = Deps(rq') /\ Deps(tags)' = Deps(tags')
    BY <1>6, <2>2 DEF Separate, Deps
  <2>6. Stand'
    BY <1>1, <1>3, <1>5, <1>6, <2>2, <2>5 DEF Stand
  <2>7. QED
    BY <1>1, <1>3, <2>4, <2>6, MissesKept DEF CacheInv
<1>7. ASSUME NEW q \in Seq(Idle), q # <<>>, tags' = Append(tags, Head(q)), UNCHANGED rq,
             wq' \in Seq(Idle), pq' \in Seq(Idle), internal' \in Seq(Idle)
      PROVE  CacheInv'
  <2>1. Head(q) \in Idle /\ Head(q).deps = {}
    BY <1>7 DEF Idle
  <2>2. Len(rq) <= Len(rq) /\ Deps(rq) = Deps(rq) \ Head(q).deps
    BY <1>2, <2>1
  <2>3. QED
    BY <1>2, <1>4, <1>6, <1>7, <2>1, <2>2
<1>8. CASE wq # <<>> /\ tags' = Append(tags, Head(wq)) /\ wq' = Tail(wq)
           /\ UNCHANGED <<rq, pq, internal>>
  <2>1. wq' \in Seq(Idle)
    BY <1>2, <1>8, TailDrops
  <2>2. QED
    BY <1>2, <1>7, <1>8, <2>1
<1>9. CASE pq # <<>> /\ tags' = Append(tags, Head(pq)) /\ pq' = Tail(pq)
           /\ UNCHANGED <<wq, rq, internal>>
  <2>1. pq' \in Seq(Idle)
    BY <1>2, <1>9, TailDrops
  <2>2. QED
    BY <1>2, <1>7, <1>9, <2>1
<1>10. CASE internal # <<>> /\ tags' = Append(tags, Head(internal)) /\ internal' = Tail(internal)
            /\ UNCHANGED <<wq, rq, pq>>
  <2>1. internal' \in Seq(Idle)
    BY <1>2, <1>10, TailDrops
  <2>2. QED
    BY <1>2, <1>7, <1>10, <2>1
<1>11. CASE rq # <<>> /\ tags' = Append(tags, Head(rq)) /\ rq' = Tail(rq)
            /\ UNCHANGED <<wq, pq, internal>>
  <2>1. /\ 1 \in DOMAIN rq /\ Head(rq) = rq[1] /\ rq[1] \in Load
        /\ rq' \in Seq(Load) /\ Drops(rq, rq', 1)
    BY <1>2, <1>11, TailDrops
  <2>2. /\ Deps(rq') = Deps(rq) \ rq[1].deps /\ rq[1].deps \subseteq Deps(rq) /\ Separate(rq')
        /\ Len(rq') <= Len(rq)
    BY <1>2, <1>4, <2>1, DroppedDeps
  <2>3. QED
    BY <1>2, <1>6, <1>11, <2>1, <2>2
<1>12. QED
  BY <1>8, <1>9, <1>10, <1>11 DEF H!InitiateTagCheck

\* What is left of the tag check when its first request has left it.
LEMMA TagsLeft ==
  ASSUME CacheInv, tags # <<>>, tags' = Tail(tags)
  PROVE  /\ Head(tags) \in Load \cup Idle /\ tags' \in Seq(Load \cup Idle)
         /\ Deps(tags') = Deps(tags) \ Head(tags).deps /\ Head(tags).deps \subseteq Deps(tags)
         /\ Separate(tags') /\ Len(tags') <= Len(tags)
<1>1. tags \in Seq(Load \cup Idle) /\ Separate(tags)
  BY DEF CacheInv, CacheTypes, Stand
<1>2. /\ 1 \in DOMAIN tags /\ Head(tags) = tags[1] /\ tags[1] \in Load \cup Idle
      /\ tags' \in Seq(Load \cup Idle) /\ Drops(tags, tags', 1)
  BY <1>1, TailDrops
<1>3. /\ Deps(tags') = Deps(tags) \ tags[1].deps /\ tags[1].deps \subseteq Deps(tags)
      /\ Separate(tags') /\ Len(tags') <= Len(tags)
  <2> DEFINE r == tags'  U == Load \cup Idle
  <2>1. /\ tags \in Seq(U) /\ r \in Seq(U) /\ 1 \in DOMAIN tags /\ Drops(tags, r, 1)
        /\ Separate(tags)
    BY <1>1, <1>2
  <2>2. QED
    <3> HIDE DEF r, U
    <3>1. /\ Deps(r) = Deps(tags) \ tags[1].deps /\ tags[1].deps \subseteq Deps(tags)
          /\ Separate(r) /\ Len(r) <= Len(tags)
      BY ONLY <2>1, DroppedDeps
    <3>2. QED
      BY <3>1 DEF r
<1>4. QED
  BY <1>2, <1>3

\* The first request of the tag check is answered, or nobody waits for it.
LEMMA TagStep ==
  ASSUME CacheSizes, CacheInv, tags # <<>>, tags' = Tail(tags),
         waiting' = waiting \ Head(tags).deps,
         UNCHANGED <<rq, wq, pq, internal, mshr, owed, lost>>
  PROVE  CacheInv'
<1>1. CacheTypes /\ Stand /\ Misses
  BY DEF CacheInv
<1>2. /\ tags' \in Seq(Load \cup Idle)
      /\ Deps(tags') = Deps(tags) \ Head(tags).deps /\ Head(tags).deps \subseteq Deps(tags)
      /\ Separate(tags') /\ Len(tags') <= Len(tags)
  BY TagsLeft
<1>3. Len(tags') <= TAGS
  <2>1. Len(tags) \in Nat /\ Len(tags') \in Nat /\ Len(tags) <= TAGS
    BY <1>1, <1>2 DEF CacheTypes
  <2>2. QED
    BY <1>2, <2>1 DEF CacheSizes
<1>4. waiting' \subseteq Instr
  BY <1>1 DEF CacheTypes
<1>5. CacheTypes'
  BY <1>1, <1>2, <1>3, <1>4 DEF CacheTypes
<1>6. Separate(rq)' /\ Separate(mshr)' /\ Deps(rq)' = Deps(rq) /\ Deps(mshr)' = Deps(mshr)
      /\ Separate(tags)' /\ Deps(tags)' = Deps(tags')
  BY <1>1, <1>2 DEF Stand, Separate, Deps
<1>7. Stand'
  BY <1>1, <1>2, <1>6 DEF Stand
<1>8. QED
  BY <1>1, <1>5, <1>7, MissesKept DEF CacheInv

LEMMA TryHitStep ==
  ASSUME CacheSizes, CacheInv, H!TryHit
  PROVE  CacheInv'
<1>1. /\ tags # <<>> /\ tags' = Tail(tags) /\ H!Respond(Head(tags))
      /\ UNCHANGED <<rq, wq, pq, internal, mshr, owed, lost>>
  BY DEF H!TryHit, H!queues
<1>2. Head(tags) \in Load \cup Idle
  BY <1>1, TagsLeft
<1>3. waiting' = waiting \ Head(tags).deps
  BY <1>1, <1>2, Answered
<1>4. QED
  BY <1>1, <1>3, TagStep

LEMMA HandleWriteStep ==
  ASSUME CacheSizes, CacheInv, H!HandleWrite
  PROVE  CacheInv'
<1>1. /\ tags # <<>> /\ tags' = Tail(tags) /\ Head(tags).type = "WRITE"
      /\ UNCHANGED <<rq, wq, pq, internal, mshr, owed, waiting, lost>>
  BY DEF H!HandleWrite, H!queues
<1>2. Head(tags) \in Load \cup Idle
  BY <1>1, TagsLeft
<1>3. Head(tags).deps = {}
  BY <1>1, <1>2 DEF Load, Idle
<1>4. QED
  BY <1>1, <1>3, TagStep

\* A miss takes over those who wait for the first request of the tag check.
LEMMA MissStep ==
  ASSUME CacheSizes, CacheInv, tags # <<>>, tags' = Tail(tags),
         mshr' \in Seq(Entry), Len(mshr') <= MSHR_SIZE, owed' \in [Block -> Nat],
         Deps(mshr') = Deps(mshr) \cup Head(tags).deps, Separate(mshr'), Misses',
         UNCHANGED <<rq, wq, pq, internal, waiting, lost>>
  PROVE  CacheInv'
<1>1. CacheTypes /\ Stand
  BY DEF CacheInv
<1>2. /\ tags' \in Seq(Load \cup Idle)
      /\ Deps(tags') = Deps(tags) \ Head(tags).deps /\ Head(tags).deps \subseteq Deps(tags)
      /\ Separate(tags') /\ Len(tags') <= Len(tags)
  BY TagsLeft
<1>3. Len(tags') <= TAGS
  <2>1. Len(tags) \in Nat /\ Len(tags') \in Nat /\ Len(tags) <= TAGS
    BY <1>1, <1>2 DEF CacheTypes
  <2>2. QED
    BY <1>2, <2>1 DEF CacheSizes
<1>4. CacheTypes'
  BY <1>1, <1>2, <1>3 DEF CacheTypes
<1>5. /\ Separate(rq)' /\ Deps(rq)' = Deps(rq) /\ Separate(tags)' /\ Deps(tags)' = Deps(tags')
      /\ Separate(mshr)' /\ Deps(mshr)' = Deps(mshr')
  BY <1>1, <1>2 DEF Stand, Separate, Deps
<1>6. Stand'
  BY <1>1, <1>2, <1>5 DEF Stand
<1>7. QED
  BY <1>4, <1>6 DEF CacheInv

LEMMA HandleMissStep ==
  ASSUME CacheSizes, CacheInv, H!HandleMiss
  PROVE  CacheInv'
<1> DEFINE x == Head(tags)
           entry == [block |-> x.block, deps |-> x.deps, reply |-> x.reply, done |-> FALSE]
           entries == H!For(mshr, x.block)
<1>1. /\ tags # <<>> /\ tags' = Tail(tags)
      /\ UNCHANGED <<rq, wq, pq, internal, waiting, lost>>
  BY DEF H!HandleMiss, H!queues
<1>2. IF entries # {}
      THEN LET i == H!First(entries) IN
           mshr' = [mshr EXCEPT ![i] = H!Merge(@, entry)] /\ UNCHANGED owed
      ELSE /\ Len(mshr) < MSHR_SIZE
           /\ IF x.type # "SKIP"
              THEN mshr' = Append(mshr, entry) /\ owed' = [owed EXCEPT ![x.block] = @ + 1]
              ELSE UNCHANGED <<mshr, owed>>
  BY DEF H!HandleMiss
<1>3. CacheTypes /\ Stand /\ Misses
  BY DEF CacheInv
<1>4. /\ mshr \in Seq(Entry) /\ Len(mshr) \in Nat /\ DOMAIN mshr = 1 .. Len(mshr)
      /\ Len(mshr) <= MSHR_SIZE /\ owed \in [Block -> Nat] /\ Separate(mshr)
  BY <1>3 DEF CacheTypes, Stand
<1>5. x \in Load \cup Idle /\ x.deps \subseteq Deps(tags)
  BY <1>1, TagsLeft
<1>6. entry \in Entry /\ entry.deps = x.deps /\ entry.block = x.block /\ x.block \in Block
      /\ entry.done = FALSE
  BY <1>5 DEF Load, Idle, Pkt, Entry
<1>7. Deps(mshr) \cap x.deps = {}
  BY <1>3, <1>5 DEF Stand
<1>8. \A j \in DOMAIN mshr : j \in entries <=> mshr[j].block = x.block
  BY DEF H!For
<1>9. entries \subseteq 1 .. Len(mshr)
  BY <1>4 DEF H!For
<1> HIDE DEF x, entry, entries
<1>10. CASE entries # {}
  <2> DEFINE i == H!First(entries)
  <2>1. mshr' = [mshr EXCEPT ![i] = H!Merge(@, entry)] /\ UNCHANGED owed
    BY <1>2, <1>10
  <2>2. i \in DOMAIN mshr /\ mshr[i].block = x.block
    <3>1. i \in entries
      BY <1>4, <1>9, <1>10, LeastIndex
    <3>2. QED
      BY <1>4, <1>8, <1>9, <3>1
  <2> HIDE DEF i
  <2> DEFINE y == H!Merge(mshr[i], entry)
  <2>3. /\ y \in Entry /\ y.deps = mshr[i].deps \cup x.deps /\ y.block = mshr[i].block
        /\ y.done = mshr[i].done
    <3>1. mshr[i] \in Entry
      BY <1>4, <2>2
    <3>2. QED
      BY <1>6, <2>2, <3>1 DEF H!Merge, Entry
  <2>4. DOMAIN mshr' = DOMAIN mshr /\ \A j \in DOMAIN mshr : mshr'[j] = IF j = i THEN y ELSE mshr[j]
    BY <2>1
  <2>5. mshr' \in Seq(Entry) /\ Len(mshr') = Len(mshr)
    <3>1. mshr' = [j \in 1 .. Len(mshr) |-> mshr'[j]]
      BY <1>4, <2>1
    <3> HIDE DEF y
    <3>2. \A j \in 1 .. Len(mshr) : mshr'[j] \in Entry
      BY <1>4, <2>3, <2>4
    <3>3. QED
      BY <1>4, <3>1, <3>2
  <2> HIDE DEF y
  <2>6. Deps(mshr') = Deps(mshr) \cup x.deps /\ Separate(mshr')
    <3> DEFINE f == [j \in DOMAIN mshr' |-> j]
    <3>1. f \in [DOMAIN mshr' -> DOMAIN mshr] /\ \A j \in DOMAIN mshr' : f[j] = j
      BY <2>4
    <3> HIDE DEF f
    <3>2. \A j \in DOMAIN mshr : \E k \in DOMAIN mshr' : f[k] = j
      BY <2>4, <3>1
    <3>3. \A j, k \in DOMAIN mshr' : f[j] = f[k] => j = k
      BY <3>1
    <3>4. \A j \in DOMAIN mshr' :
            mshr'[j].deps = IF j = i THEN mshr[f[i]].deps \cup x.deps ELSE mshr[f[j]].deps
      BY <2>2, <2>3, <2>4, <3>1
    <3>5. i \in DOMAIN mshr'
      BY <2>2, <2>4
    <3>6. Moved(mshr, mshr', f, i, x.deps)
      BY <3>1, <3>2, <3>3, <3>4, <3>5 DEF Moved
    <3>7. QED
      BY <1>4, <1>7, <3>6, MovedDeps
  <2>7. Misses'
    <3>1. \A j \in DOMAIN mshr : mshr'[j].block = mshr[j].block /\ mshr'[j].done = mshr[j].done
      BY <2>3, <2>4
    <3>2. QED
      BY <1>3, <2>1, <2>4, <3>1 DEF Misses
  <2>8. Len(mshr') <= MSHR_SIZE /\ owed' \in [Block -> Nat]
    BY <1>4, <2>1, <2>5
  <2>9. Deps(mshr') = Deps(mshr) \cup Head(tags).deps
    BY <2>6 DEF x
  <2>10. QED
    BY <1>1, <2>5, <2>6, <2>7, <2>8, <2>9, MissStep
<1>11. CASE entries = {} /\ x.type # "SKIP"
  <2>1. Len(mshr) < MSHR_SIZE /\ mshr' = Append(mshr, entry)
        /\ owed' = [owed EXCEPT ![x.block] = @ + 1]
    BY <1>2, <1>11
  <2> DEFINE n == Len(mshr) + 1
  <2>2. /\ mshr' \in Seq(Entry) /\ Len(mshr') = n
        /\ \A j \in DOMAIN mshr : mshr'[j] = mshr[j]
        /\ DOMAIN mshr' = DOMAIN mshr \cup {n} /\ mshr'[n] = entry
        /\ Deps(mshr') = Deps(mshr) \cup x.deps /\ Separate(mshr')
    BY <1>4, <1>6, <1>7, <2>1, AppendedDeps
  <2>3. \A j \in DOMAIN mshr : mshr[j].block # x.block /\ j < n
    BY <1>4, <1>8, <1>11
  <2>4. Len(mshr') <= MSHR_SIZE
    BY <1>4, <2>1, <2>2 DEF CacheSizes
  <2> HIDE DEF n
  <2>5. /\ owed' \in [Block -> Nat] /\ owed[x.block] = 0 /\ owed'[x.block] = 1
        /\ \A b \in Block : b # x.block => owed'[b] = owed[b]
    <3>1. owed[x.block] = 0
      <4>1. owed[x.block] # 1 /\ owed[x.block] \in {0, 1}
        BY <1>3, <1>6, <2>3 DEF Misses
      <4>2. QED
        BY <4>1
    <3>2. QED
      BY <1>4, <1>6, <2>1, <3>1
  <2>6. Misses'
    <3>1. \A i, j \in DOMAIN mshr' : mshr'[i].block = mshr'[j].block => i = j
      BY <1>3, <1>6, <2>2, <2>3 DEF Misses
    <3>2. \A b \in Block : owed'[b] \in {0, 1}
      BY <1>3, <2>5 DEF Misses
    <3>3. ASSUME NEW b \in Block
          PROVE  owed'[b] = 1 <=> \E i \in DOMAIN mshr' : mshr'[i].block = b /\ ~mshr'[i].done
      <4>1. CASE b = x.block
        <5>1. mshr'[n].block = b /\ ~mshr'[n].done /\ n \in DOMAIN mshr'
          BY <1>6, <2>2, <4>1
        <5>2. QED
          BY <2>5, <4>1, <5>1
      <4>2. CASE b # x.block
        <5>1. mshr'[n].block # b
          BY <1>6, <2>2, <4>2
        <5>2. owed[b] = 1 <=> \E i \in DOMAIN mshr : mshr[i].block = b /\ ~mshr[i].done
          BY <1>3 DEF Misses
        <5>3. QED
          BY <2>2, <2>5, <4>2, <5>1, <5>2
      <4>3. QED
        BY <4>1, <4>2
    <3>4. ASSUME NEW i \in DOMAIN mshr', NEW j \in DOMAIN mshr', i < j, mshr'[j].done
          PROVE  mshr'[i].done
      <4>1. j # n
        BY <1>6, <2>2, <3>4
      <4>2. j \in DOMAIN mshr /\ j < n /\ j \in Int
        BY <1>4, <2>2, <2>3, <4>1
      <4>3. i \in DOMAIN mshr
        <5>1. n \in Int
          BY <1>4 DEF n
        <5>2. i # n
          BY <3>4, <4>2, <5>1
        <5>3. QED
          BY <2>2, <5>2
      <4>4. QED
        BY <1>3, <2>2, <3>4, <4>2, <4>3 DEF Misses
    <3>5. QED
      BY <3>1, <3>2, <3>3, <3>4 DEF Misses
  <2>7. Deps(mshr') = Deps(mshr) \cup Head(tags).deps
    BY <2>2 DEF x
  <2>8. QED
    BY <1>1, <2>2, <2>4, <2>5, <2>6, <2>7, MissStep
<1>12. CASE entries = {} /\ x.type = "SKIP"
  <2>1. UNCHANGED <<mshr, owed>>
    BY <1>2, <1>12
  <2>2. Head(tags).deps = {}
    BY <1>5, <1>12 DEF x, Load, Idle
  <2>3. QED
    BY <1>1, <2>1, <2>2, TagStep
<1>13. QED
  BY <1>10, <1>11, <1>12

LEMMA FillMshrStep ==
  ASSUME CacheSizes, CacheInv, H!FillMshr
  PROVE  CacheInv'
<1>1. /\ mshr # <<>> /\ Head(mshr).done /\ H!Respond(Head(mshr)) /\ mshr' = Tail(mshr)
      /\ UNCHANGED <<rq, wq, pq, internal, tags, owed, lost>>
  BY DEF H!FillMshr, H!queues
<1>2. CacheTypes /\ Stand /\ Misses
  BY DEF CacheInv
<1>3. mshr \in Seq(Entry) /\ Separate(mshr)
  BY <1>2 DEF CacheTypes, Stand
<1>4. /\ 1 \in DOMAIN mshr /\ Head(mshr) = mshr[1] /\ mshr[1] \in Entry
      /\ mshr' \in Seq(Entry) /\ Drops(mshr, mshr', 1)
  BY <1>1, <1>3, TailDrops
<1>5. /\ Deps(mshr') = Deps(mshr) \ mshr[1].deps /\ mshr[1].deps \subseteq Deps(mshr)
      /\ Separate(mshr') /\ Len(mshr') <= Len(mshr)
  BY <1>3, <1>4, DroppedDeps
<1>6. waiting' = waiting \ mshr[1].deps
  BY <1>1, <1>4, Answered
<1>7. Len(mshr') <= MSHR_SIZE
  <2>1. Len(mshr) \in Nat /\ Len(mshr') \in Nat /\ Len(mshr) <= MSHR_SIZE
    BY <1>2, <1>4 DEF CacheTypes
  <2>2. QED
    BY <1>5, <2>1 DEF CacheSizes
<1>8. waiting' \subseteq Instr
  BY <1>2, <1>6 DEF CacheTypes
<1>9. CacheTypes'
  BY <1>1, <1>2, <1>4, <1>7, <1>8 DEF CacheTypes
<1>10. /\ Separate(rq)' /\ Deps(rq)' = Deps(rq) /\ Separate(tags)' /\ Deps(tags)' = Deps(tags)
       /\ Separate(mshr)' /\ Deps(mshr)' = Deps(mshr')
  BY <1>1, <1>2, <1>5 DEF Stand, Separate, Deps
<1>11. Stand'
  BY <1>2, <1>5, <1>6, <1>10 DEF Stand
<1>12. Misses'
  <2>1. /\ DOMAIN mshr \subseteq Nat /\ DOMAIN mshr' \subseteq Nat /\ 1 \in DOMAIN mshr
        /\ \A j \in DOMAIN mshr' : j + 1 \in DOMAIN mshr /\ mshr'[j] = mshr[j + 1]
        /\ \A j \in DOMAIN mshr : j # 1 => j - 1 \in DOMAIN mshr' /\ mshr'[j - 1] = mshr[j]
    <3>1. /\ \A j \in DOMAIN mshr' : (IF j < 1 THEN j ELSE j + 1) \in (DOMAIN mshr) \ {1}
                                     /\ mshr'[j] = mshr[IF j < 1 THEN j ELSE j + 1]
          /\ \A j \in (DOMAIN mshr) \ {1} : (IF j < 1 THEN j ELSE j - 1) \in DOMAIN mshr'
                                     /\ mshr'[IF j < 1 THEN j ELSE j - 1] = mshr[j]
      BY <1>3, <1>4, DroppedAt
    <3>2. /\ \A j \in DOMAIN mshr' : j \in Nat /\ ~(j < 1)
          /\ \A j \in DOMAIN mshr : j \in Nat /\ ~(j < 1)
      BY <1>3, <1>4
    <3>3. QED
      BY <1>4, <3>1, <3>2
  <2>2. mshr[1].done
    BY <1>1, <1>4
  <2>3. \A i, j \in DOMAIN mshr' : mshr'[i].block = mshr'[j].block => i = j
    <3>1. TAKE i, j \in DOMAIN mshr'
    <3>2. HAVE mshr'[i].block = mshr'[j].block
    <3>3. i + 1 = j + 1
      BY <1>2, <2>1, <3>2 DEF Misses
    <3>4. QED
      BY <2>1, <3>3
  <2>4. ASSUME NEW b \in Block
        PROVE  (\E i \in DOMAIN mshr : mshr[i].block = b /\ ~mshr[i].done)
                 <=> (\E i \in DOMAIN mshr' : mshr'[i].block = b /\ ~mshr'[i].done)
    BY <2>1, <2>2
  <2>5. ASSUME NEW i \in DOMAIN mshr', NEW j \in DOMAIN mshr', i < j, mshr'[j].done
        PROVE  mshr'[i].done
    <3>1. i + 1 < j + 1 /\ mshr[j + 1].done /\ i + 1 \in DOMAIN mshr /\ j + 1 \in DOMAIN mshr
          /\ mshr'[i] = mshr[i + 1]
      BY <2>1, <2>5
    <3>2. QED
      BY <1>2, <3>1 DEF Misses
  <2>6. QED
    BY <1>1, <1>2, <2>3, <2>4, <2>5 DEF Misses
<1>13. QED
  BY <1>9, <1>11, <1>12 DEF CacheInv

\* The response comes: the entry of its block, i, goes to the place u of the
\* first that has not returned, and what was there to its own.
LEMMA FinishPacketStep ==
  ASSUME CacheSizes, CacheInv, NEW b \in Block, H!FinishPacket(b)
  PROVE  CacheInv'
<1> DEFINE entries == H!For(mshr, b)
           i == H!First(entries)
           waits == {j \in DOMAIN mshr : ~mshr[j].done} \cup {i}
           u == H!First(waits)
<1>1. /\ owed[b] > 0 /\ owed' = [owed EXCEPT ![b] = @ - 1]
      /\ UNCHANGED <<rq, wq, pq, internal, tags, waiting>>
      /\ IF entries = {} THEN lost' = TRUE /\ UNCHANGED mshr
         ELSE /\ mshr' = [mshr EXCEPT ![i] = mshr[u], ![u] = [mshr[i] EXCEPT !.done = TRUE]]
              /\ UNCHANGED lost
  BY DEF H!FinishPacket, H!queues
<1>2. CacheTypes /\ Stand /\ Misses
  BY DEF CacheInv
<1>3. /\ mshr \in Seq(Entry) /\ Len(mshr) \in Nat /\ DOMAIN mshr = 1 .. Len(mshr)
      /\ owed \in [Block -> Nat]
  BY <1>2 DEF CacheTypes
<1>4. owed[b] = 1
  <2>1. owed[b] \in {0, 1}
    BY <1>2 DEF Misses
  <2>2. QED
    BY <1>1, <2>1
<1>5. PICK k \in DOMAIN mshr : mshr[k].block = b /\ ~mshr[k].done
  BY <1>2, <1>4 DEF Misses
<1>6. entries = {k}
  <2>1. \A j \in DOMAIN mshr : mshr[j].block = b => j = k
    BY <1>2, <1>5 DEF Misses
  <2>2. QED
    BY <1>5, <2>1 DEF H!For
<1>7. i = k
  <2>1. entries \in SUBSET (1 .. Len(mshr)) /\ entries # {}
    BY <1>3, <1>6
  <2>2. QED
    BY <1>3, <1>6, <2>1, LeastIndex
<1>8. /\ u \in DOMAIN mshr /\ ~mshr[u].done
      /\ \A j \in DOMAIN mshr : ~mshr[j].done => u <= j
  <2>1. waits = {j \in DOMAIN mshr : ~mshr[j].done} /\ k \in waits
    BY <1>5, <1>7
  <2>2. waits \in SUBSET (1 .. Len(mshr)) /\ waits # {}
    BY <1>3, <2>1
  <2>3. u \in waits /\ \A j \in waits : u <= j
    BY <1>3, <2>2, LeastIndex
  <2>4. QED
    BY <2>1, <2>3
<1> HIDE DEF waits, u
<1> DEFINE x == [mshr[k] EXCEPT !.done = TRUE]
<1>9. mshr' = [mshr EXCEPT ![k] = mshr[u], ![u] = x] /\ UNCHANGED lost
  BY <1>1, <1>6, <1>7
<1> HIDE DEF entries, i
<1>10. x \in Entry /\ x.block = b /\ x.done /\ x.deps = mshr[k].deps
  <2>1. mshr[k] \in Entry
    BY <1>3, <1>5
  <2>2. QED
    BY <1>5, <2>1 DEF Entry
<1>11. /\ DOMAIN mshr' = DOMAIN mshr
       /\ \A j \in DOMAIN mshr : mshr'[j] = IF j = u THEN x ELSE IF j = k THEN mshr[u] ELSE mshr[j]
  BY <1>5, <1>8, <1>9
<1>12. mshr' \in Seq(Entry) /\ Len(mshr') = Len(mshr)
  <2>1. mshr' = [j \in 1 .. Len(mshr) |-> mshr'[j]]
    BY <1>3, <1>9
  <2> HIDE DEF x
  <2>2. \A j \in 1 .. Len(mshr) : mshr'[j] \in Entry
    BY <1>3, <1>8, <1>10, <1>11
  <2>3. QED
    BY <1>3, <2>1, <2>2
<1> HIDE DEF x
<1> DEFINE f == [j \in DOMAIN mshr |-> IF j = u THEN k ELSE IF j = k THEN u ELSE j]
<1>13. /\ f \in [DOMAIN mshr' -> DOMAIN mshr]
       /\ \A j \in DOMAIN mshr : f[j] = IF j = u THEN k ELSE IF j = k THEN u ELSE j
  BY <1>5, <1>8, <1>11
<1> HIDE DEF f
<1>14. /\ \A j \in DOMAIN mshr : \E l \in DOMAIN mshr' : f[l] = j
       /\ \A j, l \in DOMAIN mshr' : f[j] = f[l] => j = l
  BY <1>5, <1>8, <1>11, <1>13
<1>15. \A j \in DOMAIN mshr' : mshr'[j].deps = mshr[f[j]].deps /\ mshr'[j].block = mshr[f[j]].block
  BY <1>5, <1>10, <1>11, <1>13
<1>16. Deps(mshr') = Deps(mshr) /\ Separate(mshr')
  <2>1. \A j \in DOMAIN mshr' :
          mshr'[j].deps = IF j = u THEN mshr[f[u]].deps \cup {} ELSE mshr[f[j]].deps
    BY <1>8, <1>11, <1>15
  <2>2. u \in DOMAIN mshr'
    BY <1>8, <1>11
  <2>3. Moved(mshr, mshr', f, u, {})
    BY <1>13, <1>14, <2>1, <2>2 DEF Moved
  <2>4. Separate(mshr) /\ Deps(mshr) \cap {} = {}
    BY <1>2 DEF Stand
  <2>5. QED
    BY <2>3, <2>4, MovedDeps
<1>17. owed' \in [Block -> Nat] /\ owed'[b] = 0 /\ \A c \in Block : c # b => owed'[c] = owed[c]
  BY <1>1, <1>3, <1>4
<1>18. CacheTypes'
  BY <1>1, <1>2, <1>9, <1>12, <1>17 DEF CacheTypes
<1>19. Stand'
  <2>1. /\ Separate(rq)' /\ Deps(rq)' = Deps(rq) /\ Separate(tags)' /\ Deps(tags)' = Deps(tags)
        /\ Separate(mshr)' /\ Deps(mshr)' = Deps(mshr)
    BY <1>1, <1>2, <1>16 DEF Stand, Separate, Deps
  <2>2. QED
    BY <1>1, <1>2, <2>1 DEF Stand
<1>20. \A j, l \in DOMAIN mshr' : mshr'[j].block = mshr'[l].block => j = l
  <2>1. TAKE j, l \in DOMAIN mshr'
  <2>2. HAVE mshr'[j].block = mshr'[l].block
  <2>3. f[j] = f[l]
    BY <1>2, <1>13, <1>15, <2>2 DEF Misses
  <2>4. QED
    BY <1>14, <2>3
<1>21. ASSUME NEW c \in Block
       PROVE  /\ owed'[c] \in {0, 1}
              /\ owed'[c] = 1 <=> \E j \in DOMAIN mshr' : mshr'[j].block = c /\ ~mshr'[j].done
  <2>1. CASE c = b
    <3>1. ASSUME NEW j \in DOMAIN mshr', mshr'[j].block = b PROVE mshr'[j].done
      <4>1. u \in DOMAIN mshr' /\ mshr'[u].block = b /\ mshr'[u].done
        BY <1>8, <1>10, <1>11
      <4>2. j = u
        BY <1>20, <3>1, <4>1
      <4>3. QED
        BY <4>1, <4>2
    <3>2. QED
      BY <1>17, <2>1, <3>1
  <2>2. CASE c # b
    <3>1. \A j \in DOMAIN mshr' : mshr'[j].block = c =>
            mshr'[j].done = mshr[f[j]].done /\ mshr[f[j]].block = c /\ f[j] \in DOMAIN mshr
      <4>1. TAKE j \in DOMAIN mshr'
      <4>2. HAVE mshr'[j].block = c
      <4>3. j # u
        BY <1>8, <1>10, <1>11, <2>2, <4>2
      <4>4. QED
        BY <1>11, <1>13, <1>15, <4>2, <4>3
    <3>2. \A l \in DOMAIN mshr : mshr[l].block = c =>
            \E j \in DOMAIN mshr' : f[j] = l /\ mshr'[j].block = c
      BY <1>14, <1>15
    <3>3. owed[c] = 1 <=> \E j \in DOMAIN mshr : mshr[j].block = c /\ ~mshr[j].done
      BY <1>2 DEF Misses
    <3>4. (\E j \in DOMAIN mshr' : mshr'[j].block = c /\ ~mshr'[j].done)
            <=> (\E j \in DOMAIN mshr : mshr[j].block = c /\ ~mshr[j].done)
      BY <3>1, <3>2
    <3>5. owed'[c] = owed[c] /\ owed[c] \in {0, 1}
      BY <1>2, <1>17, <2>2 DEF Misses
    <3>6. QED
      BY <3>3, <3>4, <3>5
  <2>3. QED
    BY <2>1, <2>2
<1>22. ASSUME NEW j \in DOMAIN mshr', NEW l \in DOMAIN mshr', j < l, mshr'[l].done
       PROVE  mshr'[j].done
  <2>1. j \in Int /\ l \in Int /\ u \in Int /\ k \in Int /\ u <= k
    BY <1>3, <1>5, <1>8, <1>11
  <2>2. \A m \in DOMAIN mshr : m > u => ~mshr[m].done
    <3>1. TAKE m \in DOMAIN mshr
    <3>2. HAVE m > u
    <3>3. u < m
      BY <1>3, <2>1, <3>2
    <3>4. QED
      BY <1>2, <1>8, <3>3 DEF Misses
  <2>3. l <= u
    <3>1. SUFFICES ASSUME l > u PROVE FALSE
      BY <2>1
    <3>2. l # u /\ l \in DOMAIN mshr /\ ~mshr[l].done
      BY <1>11, <2>1, <2>2, <3>1
    <3>3. ~mshr'[l].done
      BY <1>8, <1>11, <3>2
    <3>4. QED
      BY <1>22, <3>3
  <2>4. j < u /\ j \in DOMAIN mshr
    BY <1>11, <1>22, <2>1, <2>3
  <2>5. mshr[j].done
    BY <1>8, <2>1, <2>4
  <2>6. j # u /\ j # k
    BY <2>1, <2>4
  <2>7. QED
    BY <1>11, <2>4, <2>5, <2>6
<1>23. Misses'
  BY <1>20, <1>21, <1>22 DEF Misses
<1>24. QED
  BY <1>18, <1>19, <1>23 DEF CacheInv

LEMMA FillWriteStep == ASSUME CacheInv, H!FillWrite PROVE CacheInv'
<1>1. UNCHANGED <<rq, wq, pq, internal, tags, mshr, owed, waiting, lost>>
  BY DEF H!FillWrite, H!queues
<1>2. wq' \in Seq(Idle) /\ pq' \in Seq(Idle) /\ internal' \in Seq(Idle)
  BY <1>1 DEF CacheInv, CacheTypes
<1>3. QED
  BY <1>1, <1>2, IdleStep

LEMMA CacheNext == ASSUME CacheSizes, CacheInv, [H!Next]_H!vars PROVE CacheInv'
<1>1. ASSUME H!Next PROVE CacheInv'
  BY <1>1, AddRqStep, AddIdleStep, FinishPacketStep, CheckCollisionStep, InitiateTagCheckStep,
     TryHitStep, HandleWriteStep, HandleMissStep, FillMshrStep, FillWriteStep DEF H!Next
<1>2. ASSUME UNCHANGED H!vars PROVE CacheInv'
  <2>1. UNCHANGED <<rq, wq, pq, internal, tags, mshr, owed, waiting, lost>>
    BY <1>2 DEF H!vars, H!queues
  <2>2. wq' \in Seq(Idle) /\ pq' \in Seq(Idle) /\ internal' \in Seq(Idle)
    BY <2>1 DEF CacheInv, CacheTypes
  <2>3. QED
    BY <2>1, <2>2, IdleStep
<1>3. QED
  BY <1>1, <1>2

\* cache.cc and channel.cc: who waits stands in one place of the queues, the
\* tag check or the misses, and each miss in flight is owed one response.
THEOREM CacheInvariance == ASSUME CacheSizes PROVE H!Spec => []CacheInv
<1>1. H!Init => CacheInv
  BY CacheInit
<1>2. CacheInv /\ [H!Next]_H!vars => CacheInv'
  BY CacheNext
<1>3. QED
  BY <1>1, <1>2, PTL DEF H!Spec

\* cache.cc: no response finds no miss, none is missing or comes twice, and
\* who waits for a load does so for exactly one request that is in the cache.
THEOREM CacheAnswersLoads == ASSUME CacheSizes PROVE H!Spec => []H!EveryLoadIsAnswered
<1>1. ASSUME CacheInv PROVE H!EveryLoadIsAnswered
  <2>1. CacheTypes /\ Stand /\ Misses
    BY <1>1 DEF CacheInv
  <2>2. ~lost
    BY <2>1 DEF CacheTypes
  <2>3. ASSUME NEW b \in Block
        PROVE  /\ \A i, j \in H!For(mshr, b) : i = j
               /\ owed[b] = 1 <=> \E i \in H!For(mshr, b) : ~mshr[i].done
               /\ owed[b] \in {0, 1}
    BY <2>1 DEF Misses, H!For
  <2>4. \A i, j \in DOMAIN mshr : i < j /\ mshr[j].done => mshr[i].done
    BY <2>1 DEF Misses
  <2> DEFINE P == 1 .. RQ_SIZE + MSHR_SIZE + TAGS
             Part(q) == <<rq, tags, mshr>>[q]
  <2>5. /\ Part(1) = rq /\ Part(2) = tags /\ Part(3) = mshr
        /\ DOMAIN rq \subseteq P /\ DOMAIN tags \subseteq P /\ DOMAIN mshr \subseteq P
    <3>1. /\ Len(rq) \in Nat /\ DOMAIN rq = 1 .. Len(rq) /\ Len(rq) <= RQ_SIZE
          /\ Len(tags) \in Nat /\ DOMAIN tags = 1 .. Len(tags) /\ Len(tags) <= TAGS
          /\ Len(mshr) \in Nat /\ DOMAIN mshr = 1 .. Len(mshr) /\ Len(mshr) <= MSHR_SIZE
      BY <2>1 DEF CacheTypes
    <3>2. QED
      BY <3>1 DEF CacheSizes
  <2>6. /\ \A k \in DOMAIN rq : rq[k].deps # {} => rq[k].reply
        /\ \A k \in DOMAIN tags : tags[k].deps # {} => tags[k].reply
        /\ \A k \in DOMAIN mshr : mshr[k].deps # {} => mshr[k].reply
    <3>1. \A k \in DOMAIN rq : rq[k] \in Load
      BY <2>1 DEF CacheTypes
    <3>2. \A k \in DOMAIN tags : tags[k] \in Load \cup Idle
      BY <2>1 DEF CacheTypes
    <3>3. \A k \in DOMAIN mshr : mshr[k] \in Entry
      BY <2>1 DEF CacheTypes
    <3>4. QED
      BY <3>1, <3>2, <3>3 DEF Load, Idle, Entry
  <2>7. ASSUME NEW i
        PROVE  \A h : h \in H!Holders(i) <=>
                 \/ \E k \in DOMAIN rq : h = <<1, k>> /\ i \in rq[k].deps
                 \/ \E k \in DOMAIN tags : h = <<2, k>> /\ i \in tags[k].deps
                 \/ \E k \in DOMAIN mshr : h = <<3, k>> /\ i \in mshr[k].deps
    <3>1. \A q \in {1, 2, 3}, k \in P :
            <<q, k>> \in H!Holders(i) <=> k \in DOMAIN Part(q) /\ i \in Part(q)[k].deps /\ Part(q)[k].reply
      BY DEF H!Holders
    <3>2. \A h \in H!Holders(i) : \E q \in {1, 2, 3}, k \in P : h = <<q, k>>
      BY DEF H!Holders
    <3> HIDE DEF Part, P
    <3>3. ASSUME NEW h \in H!Holders(i)
          PROVE  \/ \E k \in DOMAIN rq : h = <<1, k>> /\ i \in rq[k].deps
                 \/ \E k \in DOMAIN tags : h = <<2, k>> /\ i \in tags[k].deps
                 \/ \E k \in DOMAIN mshr : h = <<3, k>> /\ i \in mshr[k].deps
      <4>1. PICK q \in {1, 2, 3}, k \in P : h = <<q, k>>
        BY <3>2
      <4>2. k \in DOMAIN Part(q) /\ i \in Part(q)[k].deps
        BY <3>1, <4>1
      <4>3. QED
        BY <2>5, <4>1, <4>2
    <3>4. ASSUME NEW k \in DOMAIN rq, i \in rq[k].deps PROVE <<1, k>> \in H!Holders(i)
      BY <2>5, <2>6, <3>1, <3>4
    <3>5. ASSUME NEW k \in DOMAIN tags, i \in tags[k].deps PROVE <<2, k>> \in H!Holders(i)
      BY <2>5, <2>6, <3>1, <3>5
    <3>6. ASSUME NEW k \in DOMAIN mshr, i \in mshr[k].deps PROVE <<3, k>> \in H!Holders(i)
      BY <2>5, <2>6, <3>1, <3>6
    <3>7. QED
      BY <3>3, <3>4, <3>5, <3>6
  <2> HIDE DEF Part, P
  <2>8. ASSUME NEW i
        PROVE  /\ i \in Deps(rq) <=> \E k \in DOMAIN rq : i \in rq[k].deps
               /\ i \in Deps(tags) <=> \E k \in DOMAIN tags : i \in tags[k].deps
               /\ i \in Deps(mshr) <=> \E k \in DOMAIN mshr : i \in mshr[k].deps
    BY DEF Deps
  <2>9. ASSUME NEW i \in waiting PROVE \E h \in H!Holders(i) : H!Holders(i) = {h}
    <3>1. \E h : h \in H!Holders(i)
      BY <2>1, <2>7, <2>8, <2>9 DEF Stand
    <3>2. ASSUME NEW g \in H!Holders(i), NEW h \in H!Holders(i) PROVE g = h
      <4>1. /\ ~(i \in Deps(rq) /\ i \in Deps(tags)) /\ ~(i \in Deps(rq) /\ i \in Deps(mshr))
            /\ ~(i \in Deps(tags) /\ i \in Deps(mshr))
        BY <2>1 DEF Stand
      <4>2. /\ \A j, k \in DOMAIN rq : i \in rq[j].deps /\ i \in rq[k].deps => j = k
            /\ \A j, k \in DOMAIN tags : i \in tags[j].deps /\ i \in tags[k].deps => j = k
            /\ \A j, k \in DOMAIN mshr : i \in mshr[j].deps /\ i \in mshr[k].deps => j = k
        BY <2>1 DEF Stand, Separate
      <4>3. /\ \/ \E k \in DOMAIN rq : g = <<1, k>> /\ i \in rq[k].deps
               \/ \E k \in DOMAIN tags : g = <<2, k>> /\ i \in tags[k].deps
               \/ \E k \in DOMAIN mshr : g = <<3, k>> /\ i \in mshr[k].deps
            /\ \/ \E k \in DOMAIN rq : h = <<1, k>> /\ i \in rq[k].deps
               \/ \E k \in DOMAIN tags : h = <<2, k>> /\ i \in tags[k].deps
               \/ \E k \in DOMAIN mshr : h = <<3, k>> /\ i \in mshr[k].deps
        BY <2>7, <3>2
      <4>4. QED
        BY <2>8, <4>1, <4>2, <4>3
    <3>3. QED
      BY <3>1, <3>2
  <2>10. ASSUME NEW i, i \notin waiting PROVE H!Holders(i) = {}
    BY <2>1, <2>7, <2>8, <2>10 DEF Stand
  <2>11. QED
    BY <2>2, <2>3, <2>4, <2>9, <2>10 DEF H!EveryLoadIsAnswered
<1>2. QED
  BY <1>1, CacheInvariance, PTL

-----------------------------------------------------------------------------
(* The link over sound.                                                    *)

CONSTANTS Node, Messages, WINDOW
VARIABLES initQ, sendQ, tx, ear, heard, back, printed, mistaken

Z == INSTANCE Csma WITH pc <- at

Frame == [kind : {"frame"}, from : Node, to : Nat, msg : Nat]
Ack   == [kind : {"ack"}, from : Node, to : Nat]
Sound == Frame \cup Ack \cup {Z!Noise}
FrameOf(n, m, k) == [kind |-> "frame", from |-> n, to |-> m, msg |-> k]
AckOf(m, n)      == [kind |-> "ack", from |-> m, to |-> n]

\* No node has the MAC of a broadcast, and what is not sent is no sound.
CsmaSizes ==
  /\ Node \subseteq Nat \ {0} /\ Messages \in [Node -> Seq(Nat)] /\ None \notin Sound

CsmaTypes ==
  /\ initQ \in [Node -> Seq(Nat \X Nat)] /\ sendQ \in [Node -> Seq(Nat \X Nat)]
  /\ at \in [Node -> {"sense", "clear", "send", "wait", "listen", "reply", "ack", "gone"}]
  /\ tx \in [Node -> Sound \cup {None}] /\ heard \in [Node -> Seq(Sound)]
  /\ back \in [Node -> Nat]

\* What is in a queue was typed; a broadcast gets a receiver when it is sent.
Typed(n, x) ==
  /\ x[1] \in DOMAIN Messages[n]
  /\ x[2] \in {Messages[n][x[1]], Z!Dest(n, Messages[n][x[1]])}
Queues(n) ==
  /\ \A j \in DOMAIN initQ[n] : Typed(n, initQ[n][j])
  /\ \A j \in DOMAIN sendQ[n] : Typed(n, sendQ[n][j])

\* The number of the message that n sends, and its receiver.
Num(n) == sendQ[n][1][1]
To(n)  == sendQ[n][1][2]

\* What n sends, and when.
Sends(n) ==
  /\ at[n] \in {"clear", "send", "wait"} => sendQ[n] # <<>>
  /\ at[n] \in {"send", "wait"} => To(n) = Z!Dest(n, Messages[n][Num(n)])
  /\ tx[n] # None => at[n] \in {"send", "ack"}
  /\ at[n] = "send" => tx[n] \in {Z!Noise, FrameOf(n, To(n), Num(n))}
  /\ at[n] = "ack" => tx[n] = Z!Noise \/ \E m \in Nat : tx[n] = AckOf(n, m)

\* What n has heard; that m acknowledges a frame of n or is going to; and
\* that n, which waits, has heard it.
Hears(n) == {heard[n][j] : j \in DOMAIN heard[n]}
Replies(n, m) == (at[m] = "reply" /\ back[m] = n) \/ tx[m] = AckOf(m, n)
Acked(n, m)   == at[n] = "wait" /\ AckOf(m, n) \in Hears(n)

\* n still sends the message that m has heard, or has printed and acknowledges,
\* and no other acknowledgement of it can come when n has heard one.
Current(n, m) == sendQ[n] # <<>> /\ To(n) = m
Answer(n, m) ==
  /\ \A k \in Nat : FrameOf(n, m, k) \in Hears(m) => Current(n, m) /\ k = Num(n)
  /\ Replies(n, m) \/ Acked(n, m) => Current(n, m) /\ <<m, n, Num(n)>> \in printed
  /\ Acked(n, m) => ~Replies(n, m) /\ \A k \in Nat : FrameOf(n, m, k) \notin Hears(m)

CsmaInv ==
  /\ CsmaTypes
  /\ \A n \in Node : Queues(n) /\ Sends(n)
  /\ \A n, m \in Node : Answer(n, m)
  /\ Z!SentIsReceived

-----------------------------------------------------------------------------
(* Sounds.                                                                 *)

LEMMA Kinds ==
  /\ \A n, m, k : FrameOf(n, m, k).kind = "frame" /\ FrameOf(n, m, k).from = n
                  /\ FrameOf(n, m, k).to = m /\ FrameOf(n, m, k).msg = k
  /\ \A m, n : AckOf(m, n).kind = "ack" /\ AckOf(m, n).from = m /\ AckOf(m, n).to = n
  /\ Z!Noise.kind = "noise" /\ Z!Noise \in Sound
  /\ \A n \in Node, m, k \in Nat : FrameOf(n, m, k) \in Sound
  /\ \A m \in Node, n \in Nat : AckOf(m, n) \in Sound
  /\ \A x \in Sound : x.kind = "frame" =>
       x.from \in Node /\ x.to \in Nat /\ x.msg \in Nat /\ x = FrameOf(x.from, x.to, x.msg)
  BY DEF FrameOf, AckOf, Z!Noise, Sound, Frame, Ack

\* So that no sound is taken for one of another kind.
LEMMA Different ==
  ASSUME CsmaSizes, NEW n \in Node, NEW m \in Node, NEW k \in Nat
  PROVE  /\ FrameOf(n, m, k) # Z!Noise /\ AckOf(m, n) # Z!Noise
         /\ AckOf(m, n) # None /\ FrameOf(n, m, k) # None /\ Z!Noise # None
         /\ \A p, q, l : FrameOf(n, m, k) # AckOf(p, q) /\ AckOf(m, n) # FrameOf(p, q, l)
         /\ \A p, q : AckOf(m, n) = AckOf(p, q) => m = p /\ n = q
         /\ \A p, q, l : FrameOf(n, m, k) = FrameOf(p, q, l) => n = p /\ m = q /\ k = l
<1>1. m \in Nat /\ n \in Nat /\ None \notin Sound
  BY DEF CsmaSizes
<1>2. FrameOf(n, m, k) \in Sound /\ AckOf(m, n) \in Sound /\ Z!Noise \in Sound
  BY <1>1, Kinds
<1>3. "frame" # "ack" /\ "frame" # "noise" /\ "ack" # "noise"
  OBVIOUS
<1>4. \A p, q, l : /\ FrameOf(p, q, l).kind = "frame" /\ FrameOf(p, q, l).from = p
                   /\ FrameOf(p, q, l).to = q /\ FrameOf(p, q, l).msg = l
  BY Kinds
<1>5. \A p, q : AckOf(p, q).kind = "ack" /\ AckOf(p, q).from = p /\ AckOf(p, q).to = q
  BY Kinds
<1>6. Z!Noise.kind = "noise"
  BY Kinds
<1>7. FrameOf(n, m, k) # Z!Noise /\ AckOf(m, n) # Z!Noise
  BY <1>3, <1>4, <1>5, <1>6
<1>8. \A p, q, l : FrameOf(n, m, k) # AckOf(p, q) /\ AckOf(m, n) # FrameOf(p, q, l)
  BY <1>3, <1>4, <1>5
<1>9. \A p, q : AckOf(m, n) = AckOf(p, q) => m = p /\ n = q
  BY <1>5
<1>10. \A p, q, l : FrameOf(n, m, k) = FrameOf(p, q, l) => n = p /\ m = q /\ k = l
  BY <1>4
<1>11. QED
  BY <1>1, <1>2, <1>7, <1>8, <1>9, <1>10

\* A step after which there is less to answer than before.
Less(n, m) ==
  /\ \A k \in Nat : (FrameOf(n, m, k) \in Hears(m))' => FrameOf(n, m, k) \in Hears(m)
  /\ Replies(n, m)' => Replies(n, m)
  /\ Acked(n, m)' => Acked(n, m)
  /\ Current(n, m) => Current(n, m)' /\ Num(n)' = Num(n)
  /\ printed \subseteq printed'

LEMMA AnswerKept ==
  ASSUME NEW n \in Node, NEW m \in Node, Answer(n, m), Less(n, m)
  PROVE  Answer(n, m)'
<1>1. ASSUME NEW k \in Nat, (FrameOf(n, m, k) \in Hears(m))'
      PROVE  Current(n, m)' /\ k = Num(n)'
  BY <1>1 DEF Answer, Less
<1>2. ASSUME Replies(n, m)' \/ Acked(n, m)'
      PROVE  Current(n, m)' /\ <<m, n, Num(n)'>> \in printed'
  BY <1>2 DEF Answer, Less
<1>3. ASSUME Acked(n, m)'
      PROVE  ~Replies(n, m)' /\ \A k \in Nat : (FrameOf(n, m, k) \notin Hears(m))'
  BY <1>3 DEF Answer, Less
<1>4. QED
  BY <1>1, <1>2, <1>3 DEF Answer

LEMMA HasOf ==
  ASSUME NEW s \in Seq(Sound), NEW x \in Sound
  PROVE  /\ Append(s, x) \in Seq(Sound) /\ <<>> \in Seq(Sound)
         /\ {Append(s, x)[j] : j \in DOMAIN Append(s, x)} = {s[j] : j \in DOMAIN s} \cup {x}
         /\ {<<>>[j] : j \in DOMAIN <<>>} = {}
<1> DEFINE r == Append(s, x)  n == Len(s) + 1
<1>1. /\ r \in Seq(Sound) /\ DOMAIN r = DOMAIN s \cup {n}
      /\ r[n] = x /\ \A j \in DOMAIN s : r[j] = s[j]
  OBVIOUS
<1>2. <<>> \in Seq(Sound) /\ DOMAIN <<>> = {}
  OBVIOUS
<1> HIDE DEF r, n
<1>3. {r[j] : j \in DOMAIN r} = {s[j] : j \in DOMAIN s} \cup {x}
  BY <1>1
<1>4. QED
  BY <1>1, <1>2, <1>3 DEF r

\* What the parts of the invariant depend on.
LEMMA CsmaParts ==
  ASSUME CsmaInv, NEW n \in Node
  PROVE  /\ CsmaTypes /\ Queues(n) /\ Sends(n) /\ \A m \in Node : Answer(n, m)
         /\ initQ[n] \in Seq(Nat \X Nat) /\ sendQ[n] \in Seq(Nat \X Nat)
         /\ tx[n] \in Sound \cup {None} /\ heard[n] \in Seq(Sound) /\ back[n] \in Nat
  BY DEF CsmaInv, CsmaTypes

LEMMA DestOf ==
  ASSUME CsmaSizes, NEW n \in Node
  PROVE  /\ \A d \in Nat : Z!Dest(n, d) \in Nat /\ (d # 0 => Z!Dest(n, d) = d) /\ Z!Dest(n, d) # 0
         /\ \A d \in Nat : Z!Dest(n, Z!Dest(n, d)) = Z!Dest(n, d)
<1> DEFINE macs == {1, 2} \ {n}
<1>1. Z!Min(macs) = CHOOSE x \in macs : \A y \in macs : x <= y
  BY DEF Z!Min
<1>2. \E x \in macs : \A y \in macs : x <= y
  <2>1. CASE n = 1
    BY <2>1
  <2>2. CASE n # 1
    BY <2>2
  <2>3. QED
    BY <2>1, <2>2
<1>3. Z!Min(macs) \in macs
  <2> HIDE DEF macs
  <2>1. QED
    BY <1>1, <1>2
<1>4. Z!Min(macs) \in Nat \ {0}
  BY <1>3
<1> HIDE DEF macs
<1>5. \A d : Z!Dest(n, d) = IF d = 0 THEN Z!Min(macs) ELSE d
  BY DEF Z!Dest, macs
<1>6. QED
  BY <1>4, <1>5

LEMMA HeadOf ==
  ASSUME NEW s \in Seq(Nat \X Nat), s # <<>>
  PROVE  /\ Head(s) = s[1] /\ s[1] \in Nat \X Nat /\ 1 \in DOMAIN s
         /\ s[1][1] \in Nat /\ s[1][2] \in Nat
         /\ Tail(s) \in Seq(Nat \X Nat)
         /\ \A j \in DOMAIN Tail(s) : j + 1 \in DOMAIN s /\ Tail(s)[j] = s[j + 1]
         /\ \A j \in DOMAIN s : j # 1 => j - 1 \in DOMAIN Tail(s) /\ Tail(s)[j - 1] = s[j]
<1>1. /\ Len(s) \in Nat /\ Len(s) > 0 /\ Head(s) = s[1] /\ s[1] \in Nat \X Nat
      /\ DOMAIN s = 1 .. Len(s)
      /\ Tail(s) \in Seq(Nat \X Nat) /\ Len(Tail(s)) = Len(s) - 1
      /\ DOMAIN Tail(s) = 1 .. Len(s) - 1
  OBVIOUS
<1>2. \A j \in 1 .. Len(s) - 1 : Tail(s)[j] = s[j + 1]
  OBVIOUS
<1>3. \A j \in DOMAIN s : j # 1 => j - 1 \in 1 .. Len(s) - 1 /\ (j - 1) + 1 = j
  BY <1>1
<1>4. s[1][1] \in Nat /\ s[1][2] \in Nat
  BY <1>1
<1>5. QED
  BY <1>1, <1>2, <1>3, <1>4

-----------------------------------------------------------------------------
(* Steps.                                                                  *)

\* That the k-th message of n is in one of its queues.
Queued(n, k) ==
  \/ \E j \in DOMAIN initQ[n] : initQ[n][j][1] = k
  \/ \E j \in DOMAIN sendQ[n] : sendQ[n][j][1] = k

LEMMA AnsweredMeans ==
  Z!SentIsReceived <=>
    \A n \in Node : \A k \in DOMAIN Messages[n] :
      Queued(n, k) \/ <<Z!Dest(n, Messages[n][k]), n, k>> \in printed
  BY DEF Z!SentIsReceived, Queued

\* No message leaves the queues.
AllWait == \A n \in Node : \A k : Queued(n, k) => Queued(n, k)'

LEMMA AnsweredKept ==
  ASSUME Z!SentIsReceived, AllWait, printed \subseteq printed'
  PROVE  Z!SentIsReceived'
<1>1. SUFFICES ASSUME NEW n \in Node, NEW k \in DOMAIN Messages[n]
               PROVE  Queued(n, k)' \/ <<Z!Dest(n, Messages[n][k]), n, k>> \in printed'
  BY DEF Z!SentIsReceived, Queued, Z!Dest, Z!Min
<1>2. Queued(n, k) \/ <<Z!Dest(n, Messages[n][k]), n, k>> \in printed
  BY AnsweredMeans
<1>3. QED
  BY <1>2 DEF AllWait

LEMMA SameQueues ==
  ASSUME UNCHANGED <<initQ, sendQ>>
  PROVE  /\ AllWait /\ \A n \in Node : Queues(n) => Queues(n)'
         /\ \A n, m \in Node : Current(n, m)' = Current(n, m)
         /\ \A n \in Node : Num(n)' = Num(n) /\ To(n)' = To(n)
  BY DEF AllWait, Queued, Queues, Typed, Current, Num, To, Z!Dest, Z!Min

LEMMA OnKeyEventKeeps ==
  ASSUME CsmaSizes, CsmaInv, NEW p \in Node, Z!OnKeyEvent(p)
  PROVE  CsmaInv'
<1> DEFINE x == Head(initQ[p])
<1>1. /\ initQ[p] # <<>> /\ UNCHANGED <<at, tx, ear, heard, back, printed>>
      /\ sendQ' = [sendQ EXCEPT ![p] = Append(sendQ[p], x)]
      /\ initQ' = [initQ EXCEPT ![p] = Tail(initQ[p])]
  BY DEF Z!OnKeyEvent
<1>2. CsmaTypes /\ initQ[p] \in Seq(Nat \X Nat) /\ sendQ[p] \in Seq(Nat \X Nat)
  BY CsmaParts
<1>3. /\ x = initQ[p][1] /\ x \in Nat \X Nat /\ 1 \in DOMAIN initQ[p]
      /\ Tail(initQ[p]) \in Seq(Nat \X Nat)
      /\ \A j \in DOMAIN Tail(initQ[p]) :
           j + 1 \in DOMAIN initQ[p] /\ Tail(initQ[p])[j] = initQ[p][j + 1]
      /\ \A j \in DOMAIN initQ[p] :
           j # 1 => j - 1 \in DOMAIN Tail(initQ[p]) /\ Tail(initQ[p])[j - 1] = initQ[p][j]
  BY <1>1, <1>2, HeadOf
<1> HIDE DEF x
<1> DEFINE s == Append(sendQ[p], x)  l == Len(sendQ[p]) + 1
<1>4. /\ s \in Seq(Nat \X Nat) /\ s # <<>> /\ l \in DOMAIN s /\ s[l] = x
      /\ \A j \in DOMAIN s : j \in DOMAIN sendQ[p] \/ s[j] = x
      /\ \A j \in DOMAIN sendQ[p] : j \in DOMAIN s /\ s[j] = sendQ[p][j]
      /\ sendQ[p] # <<>> => 1 \in DOMAIN sendQ[p]
  <2>1. /\ s \in Seq(Nat \X Nat) /\ Len(s) = l /\ l \in Nat \ {0} /\ s[l] = x
        /\ DOMAIN s = 1 .. l /\ DOMAIN sendQ[p] = 1 .. l - 1
    BY <1>2, <1>3
  <2>2. \A j \in DOMAIN sendQ[p] : s[j] = sendQ[p][j]
    BY <1>2, <1>3
  <2>3. sendQ[p] # <<>> => l > 1
    BY <1>2
  <2> HIDE DEF s, l
  <2>4. s # <<>>
    BY <2>1
  <2>5. QED
    BY <2>1, <2>2, <2>3, <2>4
<1> HIDE DEF s, l
<1>5. /\ sendQ'[p] = s /\ initQ'[p] = Tail(initQ[p])
      /\ \A n \in Node : n # p => sendQ'[n] = sendQ[n] /\ initQ'[n] = initQ[n]
  BY <1>1, <1>2 DEF CsmaTypes, s
<1>6. CsmaTypes'
  BY <1>1, <1>2, <1>3, <1>4 DEF CsmaTypes, s
<1>7. ASSUME NEW n \in Node
      PROVE  Queues(n)'
  <2>1. Queues(n) /\ Queues(p)
    BY CsmaParts
  <2>2. CASE n = p
    <3>1. Typed(p, x) /\ \A j \in DOMAIN initQ[p] : Typed(p, initQ[p][j])
      BY <2>1, <1>3 DEF Queues
    <3>2. \A j \in DOMAIN s : Typed(p, s[j])
      BY <2>1, <3>1, <1>4 DEF Queues
    <3>3. \A j \in DOMAIN Tail(initQ[p]) : Typed(p, Tail(initQ[p])[j])
      BY <3>1, <1>3
    <3>4. sendQ'[p] = s /\ initQ'[p] = Tail(initQ[p])
      BY <1>5
    <3>5. (\A j \in DOMAIN sendQ[p] : Typed(p, sendQ[p][j]))'
      BY <3>2, <3>4 DEF Typed, Z!Dest, Z!Min
    <3>6. (\A j \in DOMAIN initQ[p] : Typed(p, initQ[p][j]))'
      BY <3>3, <3>4 DEF Typed, Z!Dest, Z!Min
    <3>7. QED
      BY <2>2, <3>5, <3>6 DEF Queues
  <2>3. CASE n # p
    BY <2>1, <2>3, <1>5 DEF Queues, Typed, Z!Dest, Z!Min
  <2>4. QED
    BY <2>2, <2>3
<1>8. \A n \in Node : sendQ[n] # <<>> =>
        sendQ'[n] # <<>> /\ Num(n)' = Num(n) /\ To(n)' = To(n)
  BY <1>4, <1>5 DEF Num, To
<1>9. ASSUME NEW n \in Node
      PROVE  Sends(n)'
  <2>1. Sends(n)
    BY CsmaParts
  <2>2. UNCHANGED <<at, tx>>
    BY <1>1
  <2>3. QED
    BY <2>1, <2>2, <1>8 DEF Sends, FrameOf, AckOf, Z!Noise, Z!Dest, Z!Min
<1>10. ASSUME NEW n \in Node, NEW m \in Node
       PROVE  Answer(n, m)'
  <2>1. Less(n, m)
    BY <1>1, <1>8 DEF Less, Hears, Replies, Acked, Current, FrameOf, AckOf
  <2>2. QED
    BY <2>1, CsmaParts, AnswerKept
<1>11. AllWait
  <2>1. SUFFICES ASSUME NEW n \in Node, NEW k, Queued(n, k)
                 PROVE  Queued(n, k)'
    BY DEF AllWait
  <2>2. CASE n = p
    <3>1. CASE \E j \in DOMAIN initQ[p] : initQ[p][j][1] = k
      <4>1. PICK j \in DOMAIN initQ[p] : initQ[p][j][1] = k
        BY <3>1
      <4>2. CASE j = 1
        <5>1. l \in DOMAIN sendQ'[p] /\ sendQ'[p][l][1] = k
          BY <4>1, <4>2, <1>3, <1>4, <1>5
        <5>2. QED
          BY <5>1, <2>2 DEF Queued
      <4>3. CASE j # 1
        <5>1. j - 1 \in DOMAIN initQ'[p] /\ initQ'[p][j - 1][1] = k
          BY <4>1, <4>3, <1>3, <1>5
        <5>2. QED
          BY <5>1, <2>2 DEF Queued
      <4>4. QED
        BY <4>2, <4>3
    <3>2. CASE \E j \in DOMAIN sendQ[p] : sendQ[p][j][1] = k
      BY <3>2, <2>2, <1>4, <1>5 DEF Queued
    <3>3. QED
      BY <2>1, <2>2, <3>1, <3>2 DEF Queued
  <2>3. CASE n # p
    BY <2>1, <2>3, <1>5 DEF Queued
  <2>4. QED
    BY <2>2, <2>3
<1>12. Z!SentIsReceived'
  BY <1>1, <1>11, AnsweredKept DEF CsmaInv
<1>13. QED
  BY <1>6, <1>7, <1>9, <1>10, <1>12 DEF CsmaInv

LEMMA CarrierSenseKeeps ==
  ASSUME CsmaSizes, CsmaInv, NEW p \in Node, Z!CarrierSense(p)
  PROVE  CsmaInv'
<1>1. /\ at[p] = "sense" /\ UNCHANGED <<initQ, sendQ, tx, heard, back, printed>>
      /\ \/ at' = [at EXCEPT ![p] = "listen"]
         \/ at' = [at EXCEPT ![p] = "clear"] /\ sendQ[p] # <<>>
  BY DEF Z!CarrierSense, Z!Goto, Z!queues
<1>2. CsmaTypes
  BY CsmaParts
<1>3. CsmaTypes'
  BY <1>1, <1>2 DEF CsmaTypes
<1>4. /\ \A n \in Node : n # p => at'[n] = at[n]
      /\ at'[p] = "listen" \/ (at'[p] = "clear" /\ sendQ[p] # <<>>)
  BY <1>1, <1>2 DEF CsmaTypes
<1>5. \A n \in Node : Queues(n)'
  BY <1>1, SameQueues, CsmaParts
<1>6. ASSUME NEW n \in Node
      PROVE  Sends(n)'
  <2>1. Sends(n) /\ UNCHANGED <<tx, sendQ>> /\ Num(n)' = Num(n) /\ To(n)' = To(n)
    BY <1>1, SameQueues, CsmaParts
  <2>2. n = p => tx[n] = None
    BY <2>1, <1>1 DEF Sends
  <2>3. CASE n = p
    BY <2>1, <2>2, <2>3, <1>4 DEF Sends
  <2>4. CASE n # p
    BY <2>1, <2>4, <1>4 DEF Sends, FrameOf, AckOf, Z!Noise, Z!Dest, Z!Min
  <2>5. QED
    BY <2>3, <2>4
<1>7. ASSUME NEW n \in Node, NEW m \in Node
      PROVE  Answer(n, m)'
  <2>1. UNCHANGED <<initQ, sendQ>> /\ (Current(n, m)' = Current(n, m)) /\ Num(n)' = Num(n)
    BY <1>1, SameQueues
  <2>2. Less(n, m)
    BY <1>1, <1>4, <2>1 DEF Less, Hears, Replies, Acked, FrameOf, AckOf
  <2>3. QED
    BY <2>2, CsmaParts, AnswerKept
<1>8. Z!SentIsReceived'
  BY <1>1, SameQueues, AnsweredKept DEF CsmaInv
<1>9. QED
  BY <1>3, <1>5, <1>6, <1>7, <1>8 DEF CsmaInv

LEMMA BeginOf ==
  ASSUME CsmaSizes, tx \in [Node -> Sound \cup {None}], NEW p \in Node, NEW x \in Sound,
         tx[p] = None, Z!Begin(p, x)
  PROVE  /\ tx' \in [Node -> Sound \cup {None}] /\ tx'[p] \in {x, Z!Noise}
         /\ \A n \in Node : n # p =>
              tx'[n] \in {tx[n], Z!Noise} /\ (tx[n] = None => tx'[n] = None)
<1>1. Z!Noise \in Sound
  BY Kinds
<1> HIDE DEF Sound
<1>2. tx' = IF Z!Sending = {} THEN [tx EXCEPT ![p] = x]
            ELSE [m \in Node |-> IF m \in Z!Sending \cup {p} THEN Z!Noise ELSE None]
  BY DEF Z!Begin
<1>3. CASE Z!Sending = {}
  <2>1. tx' = [tx EXCEPT ![p] = x]
    BY <1>2, <1>3
  <2>2. QED
    BY <2>1
<1>4. CASE Z!Sending # {}
  <2>1. tx' = [m \in Node |-> IF m \in Z!Sending \cup {p} THEN Z!Noise ELSE None]
    BY <1>2, <1>4
  <2>2. \A n \in Node : n \notin Z!Sending => tx[n] = None
    BY DEF Z!Sending
  <2>3. \A n \in Node : n \in Z!Sending => tx[n] # None
    BY DEF Z!Sending
  <2>4. QED
    BY <1>1, <2>1, <2>2, <2>3
<1>5. QED
  BY <1>3, <1>4

\* A sound that begins is no answer, but for the one that p was to give.
LEMMA RepliesBegun ==
  ASSUME CsmaSizes, NEW p \in Node, NEW n \in Node, NEW m \in Node,
         \A q \in Node : q # p =>
           at'[q] = at[q] /\ back'[q] = back[q] /\ tx'[q] \in {tx[q], Z!Noise},
         Replies(n, m)', m # p
  PROVE  Replies(n, m)
<1>1. AckOf(m, n) # Z!Noise
  BY Different
<1>2. AckOf(m, n)' = AckOf(m, n)
  BY DEF AckOf
<1>3. QED
  BY <1>1, <1>2 DEF Replies

LEMMA SendKeeps ==
  ASSUME CsmaSizes, CsmaInv, NEW p \in Node, Z!Send(p)
  PROVE  CsmaInv'
<1> DEFINE h == sendQ[p][1]  d == Z!Dest(p, h[2])  y == <<h[1], d>>
           s == <<y>> \o Tail(sendQ[p])
<1>1. at[p] = "clear" /\ UNCHANGED <<initQ, heard, back, printed>>
  BY DEF Z!Send
<1>2. CsmaTypes /\ sendQ[p] \in Seq(Nat \X Nat) /\ Queues(p) /\ Sends(p)
  BY CsmaParts
<1>3. sendQ[p] # <<>> /\ tx[p] = None
  BY <1>1, <1>2 DEF Sends
<1>4. /\ Head(sendQ[p]) = h /\ 1 \in DOMAIN sendQ[p] /\ h[1] \in Nat /\ h[2] \in Nat
      /\ Tail(sendQ[p]) \in Seq(Nat \X Nat)
      /\ \A j \in DOMAIN Tail(sendQ[p]) :
           j + 1 \in DOMAIN sendQ[p] /\ Tail(sendQ[p])[j] = sendQ[p][j + 1]
      /\ \A j \in DOMAIN sendQ[p] :
           j # 1 => j - 1 \in DOMAIN Tail(sendQ[p]) /\ Tail(sendQ[p])[j - 1] = sendQ[p][j]
  BY <1>2, <1>3, HeadOf
<1>5. /\ sendQ' = [sendQ EXCEPT ![p] = s] /\ at' = [at EXCEPT ![p] = "send"]
      /\ Z!Begin(p, FrameOf(p, d, h[1]))
  BY <1>4 DEF Z!Send, Z!Goto, FrameOf
<1>6. d \in Nat /\ Z!Dest(p, d) = d
  BY <1>4, DestOf
<1>7. FrameOf(p, d, h[1]) \in Sound
  BY <1>4, <1>6, Kinds
<1>8. /\ tx' \in [Node -> Sound \cup {None}] /\ tx'[p] \in {FrameOf(p, d, h[1]), Z!Noise}
      /\ \A n \in Node : n # p =>
           tx'[n] \in {tx[n], Z!Noise} /\ (tx[n] = None => tx'[n] = None)
  BY <1>2, <1>3, <1>5, <1>7, BeginOf DEF CsmaTypes
<1>9. Typed(p, h)
  BY <1>2, <1>4 DEF Queues
<1>10. d = Z!Dest(p, Messages[p][h[1]]) /\ Typed(p, y)
  <2>1. h[1] \in DOMAIN Messages[p] /\ Messages[p][h[1]] \in Nat
    BY <1>9 DEF Typed, CsmaSizes
  <2>2. h[2] \in {Messages[p][h[1]], Z!Dest(p, Messages[p][h[1]])}
    BY <1>9 DEF Typed
  <2>3. Z!Dest(p, Z!Dest(p, Messages[p][h[1]])) = Z!Dest(p, Messages[p][h[1]])
    BY <2>1, DestOf
  <2>4. d = Z!Dest(p, Messages[p][h[1]])
    BY <2>2, <2>3
  <2>5. y[1] = h[1] /\ y[2] = d
    OBVIOUS
  <2> HIDE DEF y, d
  <2>6. QED
    BY <2>1, <2>4, <2>5 DEF Typed
<1>11. y \in Nat \X Nat /\ y[1] = h[1] /\ y[2] = d
  BY <1>4, <1>6
<1> HIDE DEF y, d, h
<1>12. /\ s \in Seq(Nat \X Nat) /\ s # <<>> /\ s[1] = y /\ 1 \in DOMAIN s
       /\ \A j \in DOMAIN s : j = 1 \/ (j \in DOMAIN sendQ[p] /\ s[j] = sendQ[p][j])
       /\ \A j \in DOMAIN sendQ[p] : j \in DOMAIN s /\ (j = 1 \/ s[j] = sendQ[p][j])
  <2>1. /\ s \in Seq(Nat \X Nat) /\ DOMAIN s = 1 .. Len(sendQ[p])
        /\ DOMAIN sendQ[p] = 1 .. Len(sendQ[p]) /\ Len(sendQ[p]) \in Nat \ {0}
    BY <1>2, <1>3, <1>4, <1>11
  <2>2. \A j \in 1 .. Len(sendQ[p]) : j # 1 => s[j] = sendQ[p][j]
    BY <1>2, <1>3, <1>4, <1>11
  <2>3. s[1] = y
    BY <1>2, <1>3, <1>4, <1>11
  <2> HIDE DEF s
  <2>4. s # <<>> /\ 1 \in DOMAIN s /\ DOMAIN s = DOMAIN sendQ[p]
    BY <2>1
  <2>5. \A j \in DOMAIN s : j = 1 \/ s[j] = sendQ[p][j]
    BY <2>1, <2>2
  <2>6. QED
    BY <2>1, <2>3, <2>4, <2>5
<1> HIDE DEF s
<1>13. /\ sendQ'[p] = s /\ at'[p] = "send"
       /\ \A n \in Node : n # p => sendQ'[n] = sendQ[n] /\ at'[n] = at[n]
  BY <1>2, <1>5 DEF CsmaTypes
<1>14. Num(p)' = h[1] /\ To(p)' = d /\ Num(p) = h[1] /\ To(p) = h[2]
  BY <1>11, <1>12, <1>13 DEF Num, To, h
<1>15. CsmaTypes'
  BY <1>1, <1>2, <1>5, <1>8, <1>12 DEF CsmaTypes
<1>16. ASSUME NEW n \in Node
       PROVE  Queues(n)'
  <2>1. Queues(n) /\ initQ' = initQ
    BY <1>1, CsmaParts
  <2>2. CASE n = p
    <3>1. \A j \in DOMAIN s : Typed(p, s[j])
      BY <1>2, <1>10, <1>12 DEF Queues
    <3>2. (\A j \in DOMAIN sendQ[p] : Typed(p, sendQ[p][j]))'
      BY <3>1, <1>13 DEF Typed, Z!Dest, Z!Min
    <3>3. QED
      BY <2>1, <2>2, <3>2 DEF Queues, Typed, Z!Dest, Z!Min
  <2>3. CASE n # p
    BY <2>1, <2>3, <1>13 DEF Queues, Typed, Z!Dest, Z!Min
  <2>4. QED
    BY <2>2, <2>3
<1>17. ASSUME NEW n \in Node
       PROVE  Sends(n)'
  <2>1. CASE n = p
    <3>1. To(p)' = Z!Dest(p, Messages[p][Num(p)'])
      BY <1>10, <1>14
    <3>2. (tx[p] \in {Z!Noise, FrameOf(p, To(p), Num(p))})'
      BY <1>8, <1>14 DEF Z!Noise, FrameOf
    <3>3. sendQ'[p] # <<>> /\ at'[p] = "send"
      BY <1>12, <1>13
    <3>4. QED
      BY <2>1, <3>1, <3>2, <3>3 DEF Sends, Z!Dest, Z!Min
  <2>2. CASE n # p
    <3>1. Sends(n) /\ at'[n] = at[n] /\ sendQ'[n] = sendQ[n]
      BY <2>2, <1>13, CsmaParts
    <3>2. tx'[n] \in {tx[n], Z!Noise} /\ (tx[n] = None => tx'[n] = None)
      BY <2>2, <1>8
    <3>3. Num(n)' = Num(n) /\ To(n)' = To(n)
      BY <3>1 DEF Num, To
    <3>4. QED
      BY <3>1, <3>2, <3>3 DEF Sends, FrameOf, AckOf, Z!Noise, Z!Dest, Z!Min
  <2>3. QED
    BY <2>1, <2>2
<1>18. ASSUME NEW n \in Node, NEW m \in Node
       PROVE  Answer(n, m)'
  <2>1. Replies(n, m)' => Replies(n, m)
    <3>1. CASE m = p
      <4>1. AckOf(p, n) # Z!Noise /\ AckOf(p, n) # FrameOf(p, d, h[1])
        BY Different
      <4>2. QED
        BY <3>1, <4>1, <1>8, <1>13 DEF Replies, AckOf
    <3>2. CASE m # p
      BY <3>2, <1>1, <1>8, <1>13, RepliesBegun
    <3>3. QED
      BY <3>1, <3>2
  <2>2. Hears(m)' = Hears(m) /\ Hears(n)' = Hears(n) /\ printed' = printed
    BY <1>1 DEF Hears
  <2>3. Acked(n, m)' => Acked(n, m)
    BY <2>2, <1>13 DEF Acked, AckOf
  <2>4. Current(n, m) => Current(n, m)' /\ Num(n)' = Num(n)
    <3>1. CASE n = p
      <4>1. ASSUME Current(n, m)
            PROVE  d = m
        <5>1. h[2] = m /\ m # 0 /\ m \in Nat
          BY <4>1, <3>1, <1>14 DEF Current, CsmaSizes
        <5>2. Z!Dest(p, m) = m
          BY <5>1, DestOf
        <5>3. QED
          BY <5>1, <5>2 DEF d
      <4>2. QED
        BY <4>1, <3>1, <1>12, <1>13, <1>14 DEF Current
    <3>2. CASE n # p
      BY <3>2, <1>13 DEF Current, To, Num
    <3>3. QED
      BY <3>1, <3>2
  <2>5. Less(n, m)
    BY <2>1, <2>2, <2>3, <2>4 DEF Less, FrameOf
  <2>6. QED
    BY <2>5, CsmaParts, AnswerKept
<1>19. AllWait
  <2>1. SUFFICES ASSUME NEW n \in Node, NEW k, Queued(n, k)
                 PROVE  Queued(n, k)'
    BY DEF AllWait
  <2>2. CASE n = p
    <3>1. CASE \E j \in DOMAIN initQ[p] : initQ[p][j][1] = k
      BY <3>1, <2>2, <1>1 DEF Queued
    <3>2. CASE \E j \in DOMAIN sendQ[p] : sendQ[p][j][1] = k
      <4>1. PICK j \in DOMAIN sendQ[p] : sendQ[p][j][1] = k
        BY <3>2
      <4>2. j \in DOMAIN s /\ s[j][1] = k
        BY <4>1, <1>11, <1>12 DEF h
      <4>3. QED
        BY <4>2, <2>2, <1>13 DEF Queued
    <3>3. QED
      BY <2>1, <2>2, <3>1, <3>2 DEF Queued
  <2>3. CASE n # p
    BY <2>1, <2>3, <1>1, <1>13 DEF Queued
  <2>4. QED
    BY <2>2, <2>3
<1>20. Z!SentIsReceived'
  BY <1>1, <1>19, AnsweredKept DEF CsmaInv
<1>21. QED
  BY <1>15, <1>16, <1>17, <1>18, <1>20 DEF CsmaInv

\* The end of a sound, which the others hear as it is or as noise.
LEMMA EndOf ==
  ASSUME CsmaInv, NEW p \in Node, tx[p] \in Sound, Z!End(p), heard' = Z!Ended(p)
  PROVE  /\ tx' \in [Node -> Sound \cup {None}] /\ heard' \in [Node -> Seq(Sound)]
         /\ tx'[p] = None /\ \A n \in Node : n # p => tx'[n] = tx[n]
         /\ \A m \in Node : at[m] \in {"wait", "listen"} =>
              Hears(m)' \subseteq Hears(m) \cup {tx[p], Z!Noise}
         /\ \A m \in Node : at[m] \notin {"wait", "listen"} => Hears(m)' = {}
<1>1. CsmaTypes /\ Z!Noise \in Sound
  BY CsmaParts, Kinds
<1> HIDE DEF Sound
<1>2. tx' \in [Node -> Sound \cup {None}] /\ tx'[p] = None /\ \A n \in Node : n # p => tx'[n] = tx[n]
  BY <1>1 DEF Z!End, CsmaTypes
<1> DEFINE x(m) == IF p \in ear[m] THEN tx[p] ELSE Z!Noise
<1>3. \A m \in Node : x(m) \in Sound /\ x(m) \in {tx[p], Z!Noise}
  BY <1>1
<1>4. heard' = [m \in Node |-> IF at[m] \in {"wait", "listen"} THEN Append(heard[m], x(m)) ELSE <<>>]
  BY DEF Z!Ended, Z!Hearing
<1> HIDE DEF x
<1>5. ASSUME NEW m \in Node
      PROVE  /\ heard[m] \in Seq(Sound) /\ Append(heard[m], x(m)) \in Seq(Sound) /\ <<>> \in Seq(Sound)
             /\ {Append(heard[m], x(m))[j] : j \in DOMAIN Append(heard[m], x(m))} = Hears(m) \cup {x(m)}
             /\ {<<>>[j] : j \in DOMAIN <<>>} = {}
  <2>1. heard[m] \in Seq(Sound) /\ x(m) \in Sound
    BY <1>1, <1>3 DEF CsmaTypes
  <2> DEFINE s == heard[m]  y == x(m)
  <2> HIDE DEF s, y
  <2>2. s \in Seq(Sound) /\ y \in Sound
    BY <2>1 DEF s, y
  <2>3. /\ Append(s, y) \in Seq(Sound) /\ <<>> \in Seq(Sound)
        /\ {Append(s, y)[j] : j \in DOMAIN Append(s, y)} = {s[j] : j \in DOMAIN s} \cup {y}
        /\ {<<>>[j] : j \in DOMAIN <<>>} = {}
    BY <2>2, HasOf
  <2>4. Hears(m) = {s[j] : j \in DOMAIN s}
    BY DEF Hears, s
  <2>5. QED
    BY <2>2, <2>3, <2>4 DEF s, y
<1>6. heard' \in [Node -> Seq(Sound)]
  BY <1>4, <1>5
<1>7. ASSUME NEW m \in Node, at[m] \in {"wait", "listen"}
      PROVE  Hears(m)' \subseteq Hears(m) \cup {tx[p], Z!Noise}
  <2>1. heard'[m] = Append(heard[m], x(m))
    BY <1>4, <1>7
  <2>2. Hears(m)' = Hears(m) \cup {x(m)}
    BY <2>1, <1>5 DEF Hears
  <2>3. QED
    BY <2>2, <1>3
<1>8. ASSUME NEW m \in Node, at[m] \notin {"wait", "listen"}
      PROVE  Hears(m)' = {}
  <2>1. heard'[m] = <<>>
    BY <1>4, <1>8
  <2>2. QED
    BY <2>1 DEF Hears
<1>9. QED
  BY <1>2, <1>6, <1>7, <1>8

\* What the end of a sound does not change.
LEMMA EndParts ==
  ASSUME CsmaSizes, CsmaInv, NEW p \in Node, NEW l \in {"wait", "sense"},
         UNCHANGED <<initQ, sendQ, back, printed>>, at' = [at EXCEPT ![p] = l],
         l = "wait" => at[p] = "send",
         tx[p] \in Sound, Z!End(p), heard' = Z!Ended(p)
  PROVE  /\ CsmaTypes' /\ Z!SentIsReceived'
         /\ \A n \in Node : Queues(n)' /\ Sends(n)'
         /\ at'[p] = l /\ \A n \in Node : n # p => at'[n] = at[n]
         /\ \A n, m \in Node : Replies(n, m)' => Replies(n, m) /\ m # p
<1>1. CsmaTypes
  BY CsmaParts
<1>2. /\ tx' \in [Node -> Sound \cup {None}] /\ heard' \in [Node -> Seq(Sound)]
      /\ tx'[p] = None /\ \A n \in Node : n # p => tx'[n] = tx[n]
  BY EndOf
<1>3. CsmaTypes'
  BY <1>1, <1>2 DEF CsmaTypes
<1>4. Z!SentIsReceived'
  BY SameQueues, AnsweredKept DEF CsmaInv
<1>5. at'[p] = l /\ \A n \in Node : n # p => at'[n] = at[n]
  BY <1>1 DEF CsmaTypes
<1>6. ASSUME NEW n \in Node
      PROVE  Queues(n)' /\ Sends(n)'
  <2>1. Queues(n)' /\ Num(n)' = Num(n) /\ To(n)' = To(n) /\ Sends(n) /\ UNCHANGED sendQ
    BY SameQueues, CsmaParts
  <2>2. CASE n = p
    BY <2>1, <2>2, <1>2, <1>5 DEF Sends, Z!Dest, Z!Min
  <2>3. CASE n # p
    BY <2>1, <2>3, <1>2, <1>5 DEF Sends, FrameOf, AckOf, Z!Noise, Z!Dest, Z!Min
  <2>4. QED
    BY <2>1, <2>2, <2>3
<1>7. ASSUME NEW n \in Node, NEW m \in Node, Replies(n, m)'
      PROVE  Replies(n, m) /\ m # p
  <2>1. AckOf(m, n) # None /\ AckOf(m, n)' = AckOf(m, n)
    BY Different DEF AckOf
  <2>2. m # p
    BY <2>1, <1>7, <1>2, <1>5 DEF Replies
  <2>3. QED
    BY <2>1, <2>2, <1>7, <1>2, <1>5 DEF Replies
<1>8. QED
  BY <1>3, <1>4, <1>5, <1>6, <1>7

LEMMA SentKeeps ==
  ASSUME CsmaSizes, CsmaInv, NEW p \in Node, Z!Sent(p)
  PROVE  CsmaInv'
<1>1. /\ at[p] = "send" /\ Z!End(p) /\ heard' = Z!Ended(p)
      /\ at' = [at EXCEPT ![p] = "wait"] /\ UNCHANGED <<initQ, sendQ, back, printed>>
  BY DEF Z!Sent, Z!Goto, Z!queues
<1>2. CsmaTypes /\ Sends(p) /\ sendQ[p] \in Seq(Nat \X Nat)
  BY CsmaParts
<1>3. sendQ[p] # <<>> /\ tx[p] \in {Z!Noise, FrameOf(p, To(p), Num(p))}
  BY <1>1, <1>2 DEF Sends
<1>4. Num(p) \in Nat /\ To(p) \in Nat
  BY <1>2, <1>3, HeadOf DEF Num, To
<1>5. tx[p] \in Sound
  BY <1>3, <1>4, Kinds
<1>6. /\ \A m \in Node : at[m] \in {"wait", "listen"} =>
              Hears(m)' \subseteq Hears(m) \cup {tx[p], Z!Noise}
      /\ \A m \in Node : at[m] \notin {"wait", "listen"} => Hears(m)' = {}
  BY <1>1, <1>5, EndOf
<1>7. /\ CsmaTypes' /\ Z!SentIsReceived'
      /\ \A n \in Node : Queues(n)' /\ Sends(n)'
      /\ at'[p] = "wait" /\ \A n \in Node : n # p => at'[n] = at[n]
      /\ \A n, m \in Node : Replies(n, m)' => Replies(n, m) /\ m # p
  BY <1>1, <1>5, EndParts
<1>8. ASSUME NEW n \in Node, NEW m \in Node
      PROVE  Answer(n, m)'
  <2>1. Answer(n, m) /\ (Current(n, m)' = Current(n, m)) /\ Num(n)' = Num(n) /\ printed' = printed
    BY <1>1, SameQueues, CsmaParts
  <2>2. ASSUME NEW k \in Nat, FrameOf(n, m, k) \in Hears(m)'
        PROVE  FrameOf(n, m, k) \in Hears(m) \/ (n = p /\ m = To(p) /\ k = Num(p))
    <3>1. FrameOf(n, m, k) # Z!Noise
      BY Different
    <3>2. FrameOf(n, m, k) \in Hears(m) \/ FrameOf(n, m, k) = FrameOf(p, To(p), Num(p))
      BY <2>2, <3>1, <1>3, <1>6
    <3>3. QED
      BY <3>2, Different
  <2>3. Acked(n, m)' => Acked(n, m) /\ n # p
    <3>1. AckOf(m, n) # Z!Noise /\ AckOf(m, n) # FrameOf(p, To(p), Num(p))
      BY Different
    <3>2. AckOf(m, n) \in Hears(n)' => AckOf(m, n) \in Hears(n)
      BY <3>1, <1>3, <1>6
    <3>3. at[p] \notin {"wait", "listen"}
      BY <1>1
    <3>4. Hears(p)' = {}
      BY <3>3, <1>6
    <3>5. QED
      BY <3>2, <3>4, <1>7 DEF Acked, AckOf
  <2>4. ASSUME NEW k \in Nat, FrameOf(n, m, k) \in Hears(m)'
        PROVE  Current(n, m)' /\ k = Num(n)'
    BY <2>1, <2>2, <2>4, <1>3 DEF Answer, Current
  <2>5. ASSUME Replies(n, m)' \/ Acked(n, m)'
        PROVE  Current(n, m)' /\ <<m, n, Num(n)'>> \in printed'
    BY <2>1, <2>3, <2>5, <1>7 DEF Answer
  <2>6. ASSUME Acked(n, m)'
        PROVE  ~Replies(n, m)' /\ \A k \in Nat : FrameOf(n, m, k) \notin Hears(m)'
    BY <2>1, <2>2, <2>3, <2>6, <1>7 DEF Answer
  <2>7. QED
    BY <2>4, <2>5, <2>6 DEF Answer, FrameOf
<1>9. QED
  BY <1>7, <1>8 DEF CsmaInv

LEMMA SentAckKeeps ==
  ASSUME CsmaSizes, CsmaInv, NEW p \in Node, Z!SentAck(p)
  PROVE  CsmaInv'
<1>1. /\ at[p] = "ack" /\ Z!End(p) /\ heard' = Z!Ended(p)
      /\ at' = [at EXCEPT ![p] = "sense"] /\ UNCHANGED <<initQ, sendQ, back, printed>>
  BY DEF Z!SentAck, Z!Goto, Z!queues
<1>2. Sends(p)
  BY CsmaParts
<1>3. tx[p] = Z!Noise \/ \E a \in Nat : tx[p] = AckOf(p, a)
  BY <1>1, <1>2 DEF Sends
<1>4. tx[p] \in Sound
  BY <1>3, Kinds
<1>5. /\ \A m \in Node : at[m] \in {"wait", "listen"} =>
              Hears(m)' \subseteq Hears(m) \cup {tx[p], Z!Noise}
      /\ \A m \in Node : at[m] \notin {"wait", "listen"} => Hears(m)' = {}
  BY <1>1, <1>4, EndOf
<1>6. /\ CsmaTypes' /\ Z!SentIsReceived'
      /\ \A n \in Node : Queues(n)' /\ Sends(n)'
      /\ at'[p] = "sense" /\ \A n \in Node : n # p => at'[n] = at[n]
      /\ \A n, m \in Node : Replies(n, m)' => Replies(n, m) /\ m # p
  BY <1>1, <1>4, EndParts
<1>7. at[p] \notin {"wait", "listen"}
  BY <1>1
<1>8. ASSUME NEW n \in Node, NEW m \in Node
      PROVE  Answer(n, m)'
  <2>1. Answer(n, m) /\ (Current(n, m)' = Current(n, m)) /\ Num(n)' = Num(n) /\ printed' = printed
    BY <1>1, SameQueues, CsmaParts
  <2>2. ASSUME NEW k \in Nat, FrameOf(n, m, k) \in Hears(m)'
        PROVE  FrameOf(n, m, k) \in Hears(m)
    <3>1. FrameOf(n, m, k).kind = "frame" /\ Z!Noise.kind = "noise"
          /\ \A a : AckOf(p, a).kind = "ack"
      BY Kinds
    <3>2. QED
      BY <2>2, <3>1, <1>3, <1>5
  <2>3. ASSUME Acked(n, m)'
        PROVE  Acked(n, m) \/ (Replies(n, m) /\ m = p)
    <3>1. at[n] = "wait" /\ AckOf(m, n) \in Hears(n)'
      BY <2>3, <1>6 DEF Acked, AckOf
    <3>2. AckOf(m, n) \in Hears(n) \cup {tx[p], Z!Noise} /\ AckOf(m, n) # Z!Noise
      BY <3>1, <1>5, Different
    <3>3. CASE AckOf(m, n) \in Hears(n)
      BY <3>1, <3>3 DEF Acked
    <3>4. CASE AckOf(m, n) = tx[p]
      <4>1. PICK a \in Nat : AckOf(m, n) = AckOf(p, a)
        BY <3>2, <3>4, <1>3
      <4>2. AckOf(m, n).from = m /\ AckOf(p, a).from = p
        BY Kinds
      <4>3. QED
        BY <4>1, <4>2, <3>4 DEF Replies
    <3>5. QED
      BY <3>2, <3>3, <3>4
  <2>4. ASSUME NEW k \in Nat, FrameOf(n, m, k) \in Hears(m)'
        PROVE  Current(n, m)' /\ k = Num(n)'
    BY <2>1, <2>2, <2>4 DEF Answer
  <2>5. ASSUME Replies(n, m)' \/ Acked(n, m)'
        PROVE  Current(n, m)' /\ <<m, n, Num(n)'>> \in printed'
    BY <2>1, <2>3, <2>5, <1>6 DEF Answer
  <2>6. ASSUME Acked(n, m)'
        PROVE  ~Replies(n, m)' /\ \A k \in Nat : FrameOf(n, m, k) \notin Hears(m)'
    <3>1. CASE m = p
      BY <3>1, <1>5, <1>6, <1>7
    <3>2. CASE m # p
      <4>1. Acked(n, m)
        BY <2>3, <2>6, <3>2
      <4>2. QED
        BY <4>1, <2>1, <2>2, <1>6 DEF Answer
    <3>3. QED
      BY <3>1, <3>2
  <2>7. QED
    BY <2>4, <2>5, <2>6 DEF Answer, FrameOf
<1>9. QED
  BY <1>6, <1>8 DEF CsmaInv

\* What is in a window was heard in it, or is noise.
LEMMA CaughtOf ==
  ASSUME CsmaInv, NEW p \in Node
  PROVE  \A k \in DOMAIN Z!Caught(p) :
           /\ Z!Caught(p)[k] \in Sound
           /\ Z!Caught(p)[k] \in Hears(p) \/ Z!Caught(p)[k] = Z!Noise
<1> DEFINE h == Z!Caught(p)
<1> SUFFICES \A k \in DOMAIN h : h[k] \in Sound /\ (h[k] \in Hears(p) \/ h[k] = Z!Noise)
  OBVIOUS
<1>1. heard[p] \in Seq(Sound) /\ Z!Noise \in Sound
  BY CsmaParts, Kinds
<1>2. CASE Z!Sending = {}
  <2>1. h = heard[p]
    BY <1>2 DEF Z!Caught
  <2> HIDE DEF h, Sound
  <2>2. QED
    BY <2>1, <1>1 DEF Hears
<1>3. CASE Z!Sending # {}
  <2>1. h = Append(heard[p], Z!Noise)
    BY <1>3 DEF Z!Caught
  <2> HIDE DEF h, Sound
  <2>2. /\ DOMAIN h = 1 .. Len(heard[p]) + 1 /\ DOMAIN heard[p] = 1 .. Len(heard[p])
        /\ Len(heard[p]) \in Nat
    BY <2>1, <1>1
  <2>3. /\ \A k \in DOMAIN heard[p] : h[k] = heard[p][k] /\ heard[p][k] \in Sound
        /\ h[Len(heard[p]) + 1] = Z!Noise
    BY <2>1, <1>1
  <2>4. \A k \in DOMAIN h : k \in DOMAIN heard[p] \/ k = Len(heard[p]) + 1
    BY <2>2
  <2>5. QED
    BY <2>3, <2>4, <1>1 DEF Hears
<1>4. QED
  BY <1>2, <1>3

LEMMA WaitAckKeeps ==
  ASSUME CsmaSizes, CsmaInv, NEW p \in Node, Z!WaitAck(p), ~mistaken'
  PROVE  CsmaInv'
<1> DEFINE h == sendQ[p][1]  s == Tail(sendQ[p])  d == To(p)
<1>1. /\ at[p] = "wait" /\ UNCHANGED <<initQ, tx, back, printed>>
      /\ at' = [at EXCEPT ![p] = "sense"] /\ heard' = [heard EXCEPT ![p] = <<>>]
  BY DEF Z!WaitAck, Z!Close, Z!Goto
<1>2. CsmaTypes /\ sendQ[p] \in Seq(Nat \X Nat) /\ Queues(p) /\ Sends(p) /\ heard[p] \in Seq(Sound)
  BY CsmaParts
<1>3. /\ sendQ[p] # <<>> /\ d = Z!Dest(p, Messages[p][Num(p)]) /\ tx[p] = None
  BY <1>1, <1>2 DEF Sends
<1>4. /\ Head(sendQ[p]) = h /\ 1 \in DOMAIN sendQ[p] /\ h[1] \in Nat /\ h[2] \in Nat
      /\ s \in Seq(Nat \X Nat)
      /\ \A j \in DOMAIN s : j + 1 \in DOMAIN sendQ[p] /\ s[j] = sendQ[p][j + 1]
      /\ \A j \in DOMAIN sendQ[p] : j # 1 => j - 1 \in DOMAIN s /\ s[j - 1] = sendQ[p][j]
  BY <1>2, <1>3, HeadOf
<1>5. /\ at'[p] = "sense" /\ Hears(p)' = {}
      /\ \A n \in Node : n # p => at'[n] = at[n] /\ Hears(n)' = Hears(n)
  BY <1>1, <1>2 DEF CsmaTypes, Hears
<1>6. PICK ok \in Z!Acknowledged(p, d) :
        /\ sendQ' = IF ok THEN [sendQ EXCEPT ![p] = s] ELSE sendQ
        /\ mistaken' = (mistaken \/ (ok /\ Z!Has(Z!Caught(p), Z!Noise)
                                      /\ ~Z!Has(Z!Caught(p), Z!Ack(p, d))))
  BY <1>4 DEF Z!WaitAck, To
<1> HIDE DEF s
<1>7. /\ sendQ' \in [Node -> Seq(Nat \X Nat)]
      /\ \A n \in Node : n # p => sendQ'[n] = sendQ[n]
      /\ sendQ'[p] = IF ok THEN s ELSE sendQ[p]
  BY <1>2, <1>4, <1>6 DEF CsmaTypes
<1>8. CsmaTypes'
  <2>1. <<>> \in Seq(Sound)
    OBVIOUS
  <2>2. QED
    BY <1>1, <1>2, <1>7, <2>1 DEF CsmaTypes
<1>9. ASSUME NEW n \in Node
      PROVE  Queues(n)'
  <2>1. Queues(n) /\ initQ' = initQ
    BY <1>1, CsmaParts
  <2>2. \A j \in DOMAIN sendQ'[n] : \E i \in DOMAIN sendQ[n] : sendQ'[n][j] = sendQ[n][i]
    <3>1. CASE n = p
      BY <3>1, <1>4, <1>7
    <3>2. CASE n # p
      BY <3>2, <1>7
    <3>3. QED
      BY <3>1, <3>2
  <2>3. \A j \in DOMAIN sendQ'[n] : Typed(n, sendQ'[n][j])
    BY <2>1, <2>2 DEF Queues
  <2>4. QED
    BY <2>1, <2>3 DEF Queues, Typed, Z!Dest, Z!Min
<1>10. ASSUME NEW n \in Node
       PROVE  Sends(n)'
  <2>1. CASE n = p
    BY <2>1, <1>1, <1>3, <1>5 DEF Sends, Z!Dest, Z!Min
  <2>2. CASE n # p
    <3>1. Sends(n) /\ at'[n] = at[n] /\ sendQ'[n] = sendQ[n] /\ tx' = tx
      BY <2>2, <1>1, <1>5, <1>7, CsmaParts
    <3>2. Num(n)' = Num(n) /\ To(n)' = To(n)
      BY <3>1 DEF Num, To
    <3>3. QED
      BY <3>1, <3>2 DEF Sends, FrameOf, AckOf, Z!Noise, Z!Dest, Z!Min
  <2>3. QED
    BY <2>1, <2>2
<1>11. ASSUME ok
       PROVE  d \in Node /\ Acked(p, d)
  <2> DEFINE c == Z!Caught(p)
  <2>1. PICK k \in DOMAIN c : c[k] = AckOf(d, p)
    <3>1. AckOf(d, p) = Z!Ack(p, d)
      BY DEF AckOf, Z!Ack
    <3>2. CASE c = <<AckOf(d, p)>>
      BY <3>2
    <3>3. CASE c # <<AckOf(d, p)>>
      <4>1. Z!Has(c, Z!Noise)
        BY <1>11, <3>1, <3>3 DEF Z!Acknowledged
      <4>2. Z!Has(c, AckOf(d, p))
        BY <4>1, <1>6, <1>11, <3>1
      <4>3. QED
        BY <4>2 DEF Z!Has
    <3>4. QED
      BY <3>2, <3>3
  <2>2. AckOf(d, p).kind = "ack" /\ AckOf(d, p).from = d /\ Z!Noise.kind = "noise"
    BY Kinds
  <2>3. AckOf(d, p) \in Hears(p) /\ AckOf(d, p) \in Sound
    <3>1. c[k] # Z!Noise
      BY <2>1, <2>2
    <3>2. QED
      BY <2>1, <3>1, CaughtOf
  <2>4. AckOf(d, p) \in Ack
    BY <2>2, <2>3 DEF Sound, Frame
  <2>5. QED
    BY <2>2, <2>3, <2>4, <1>1 DEF Ack, Acked
<1>12. ASSUME NEW n \in Node, NEW m \in Node
       PROVE  Answer(n, m)'
  <2>1. Answer(n, m) /\ UNCHANGED <<tx, back, printed>>
    BY <1>1, CsmaParts
  <2>2. Hears(m)' \subseteq Hears(m)
    BY <1>5
  <2>3. Replies(n, m)' => Replies(n, m)
    BY <2>1, <1>5 DEF Replies, AckOf
  <2>4. Acked(n, m)' => Acked(n, m) /\ n # p
    BY <1>5 DEF Acked, AckOf
  <2>5. CASE n = p /\ ok
    <3>1. d \in Node /\ Acked(p, d) /\ Answer(p, d) /\ Answer(p, m)
      BY <2>5, <1>11, CsmaParts
    <3>2. ~Replies(p, m) /\ \A k \in Nat : FrameOf(p, m, k) \notin Hears(m)
      BY <3>1 DEF Answer, Current
    <3>3. ~Replies(n, m)' /\ ~Acked(n, m)' /\ \A k \in Nat : FrameOf(n, m, k) \notin Hears(m)'
      BY <2>2, <2>3, <2>4, <2>5, <3>2
    <3>4. QED
      BY <3>3 DEF Answer, FrameOf
  <2>6. CASE ~(n = p /\ ok)
    <3>1. sendQ'[n] = sendQ[n]
      BY <2>6, <1>7
    <3>2. (Current(n, m)' = Current(n, m)) /\ Num(n)' = Num(n)
      BY <3>1 DEF Current, Num, To
    <3>3. Less(n, m)
      BY <2>1, <2>2, <2>3, <2>4, <3>2 DEF Less, FrameOf
    <3>4. QED
      BY <2>1, <3>3, AnswerKept
  <2>7. QED
    BY <2>5, <2>6
<1>13. Z!SentIsReceived'
  <2>1. SUFFICES ASSUME NEW n \in Node, NEW k \in DOMAIN Messages[n]
                 PROVE  Queued(n, k)' \/ <<Z!Dest(n, Messages[n][k]), n, k>> \in printed'
    BY DEF Z!SentIsReceived, Queued, Z!Dest, Z!Min
  <2>2. Queued(n, k) \/ <<Z!Dest(n, Messages[n][k]), n, k>> \in printed
    BY AnsweredMeans DEF CsmaInv
  <2>3. CASE n = p /\ ok
    <3>1. CASE k = Num(p)
      <4>1. d \in Node /\ Acked(p, d) /\ Answer(p, d)
        BY <2>3, <1>11, CsmaParts
      <4>2. <<d, p, Num(p)>> \in printed
        BY <4>1 DEF Answer
      <4>3. QED
        BY <2>3, <3>1, <4>2, <1>1, <1>3
    <3>2. CASE k # Num(p) /\ Queued(p, k)
      <4>1. CASE \E j \in DOMAIN initQ[p] : initQ[p][j][1] = k
        BY <4>1, <2>3, <1>1 DEF Queued
      <4>2. CASE \E j \in DOMAIN sendQ[p] : sendQ[p][j][1] = k
        <5>1. PICK j \in DOMAIN sendQ[p] : sendQ[p][j][1] = k
          BY <4>2
        <5>2. j # 1
          BY <5>1, <3>2 DEF Num
        <5>3. j - 1 \in DOMAIN sendQ'[p] /\ sendQ'[p][j - 1][1] = k
          BY <5>1, <5>2, <2>3, <1>4, <1>7
        <5>4. QED
          BY <5>3, <2>3 DEF Queued
      <4>3. QED
        BY <3>2, <4>1, <4>2 DEF Queued
    <3>3. QED
      BY <2>2, <2>3, <3>1, <3>2, <1>1
  <2>4. CASE ~(n = p /\ ok)
    <3>1. sendQ'[n] = sendQ[n] /\ initQ' = initQ /\ printed' = printed
      BY <2>4, <1>1, <1>7
    <3>2. QED
      BY <2>2, <3>1 DEF Queued
  <2>5. QED
    BY <2>3, <2>4
<1>14. QED
  BY <1>8, <1>9, <1>10, <1>12, <1>13 DEF CsmaInv

\* What a window gives is a sound that was heard in it, or none.
LEMMA FoundOf ==
  ASSUME CsmaInv, NEW p \in Node, NEW x \in Z!Found(p)
  PROVE  x = None \/ x = Z!Noise \/ (x \in Hears(p) /\ x \in Sound /\ x.kind = "frame")
<1> DEFINE h == Z!Caught(p)
           first == {k \in DOMAIN h : h[k].kind # "ack" /\ \A j \in 1 .. k - 1 : h[j].kind = "ack"}
           after == IF \E k \in first : h[k].kind = "frame" THEN first ELSE DOMAIN h
<1>1. x \in {h[k] : k \in {k \in after : h[k].kind = "frame"}}
        \cup (IF \E k \in first : h[k].kind = "frame" THEN {}
              ELSE IF first = {} THEN {None} ELSE {None, Z!Noise})
  BY DEF Z!Found
<1>2. after \subseteq DOMAIN h
  OBVIOUS
<1>3. \A k \in DOMAIN h : h[k] \in Sound /\ (h[k] \in Hears(p) \/ h[k] = Z!Noise)
  BY CaughtOf
<1> HIDE DEF h, first, after
<1>4. x = None \/ x = Z!Noise \/ \E k \in after : x = h[k] /\ h[k].kind = "frame"
  BY <1>1
<1>5. QED
  BY <1>2, <1>3, <1>4

LEMMA ListenMsgKeeps ==
  ASSUME CsmaSizes, CsmaInv, NEW p \in Node, Z!ListenMsg(p), ~mistaken'
  PROVE  CsmaInv'
<1>1. /\ at[p] = "listen" /\ UNCHANGED <<initQ, sendQ, tx>> /\ heard' = [heard EXCEPT ![p] = <<>>]
  BY DEF Z!ListenMsg, Z!Close, Z!queues
<1>2. PICK x \in Z!Found(p) :
        IF x # None /\ x.kind = "frame" /\ x.to = p
        THEN /\ printed' = printed \cup {<<p, x.from, x.msg>>}
             /\ back' = [back EXCEPT ![p] = x.from]
             /\ at' = [at EXCEPT ![p] = "reply"]
        ELSE /\ at' = [at EXCEPT ![p] = IF x = None THEN "gone" ELSE "sense"]
             /\ UNCHANGED <<printed, back>>
  <2>1. \A x : {<<p, x.from, k>> : k \in {x.msg}} = {<<p, x.from, x.msg>>}
    OBVIOUS
  <2>2. QED
    BY <2>1 DEF Z!ListenMsg, Z!Receive, Z!IsFor, Z!Goto
<1>3. CsmaTypes /\ Sends(p)
  BY CsmaParts
<1>4. tx[p] = None
  BY <1>1, <1>3 DEF Sends
<1>5. Hears(p)' = {} /\ \A n \in Node : n # p => Hears(n)' = Hears(n)
  BY <1>1, <1>3 DEF CsmaTypes, Hears
<1>6. /\ \A n \in Node : n # p => at'[n] = at[n] /\ back'[n] = back[n]
      /\ at'[p] \in {"reply", "gone", "sense"} /\ printed \subseteq printed'
  BY <1>2, <1>3 DEF CsmaTypes
<1>7. ASSUME at'[p] = "reply"
      PROVE  /\ x \in Hears(p) /\ x \in Sound /\ x.kind = "frame" /\ x.to = p
             /\ x.from \in Node /\ x.msg \in Nat /\ x = FrameOf(x.from, p, x.msg)
             /\ back'[p] = x.from /\ <<p, x.from, x.msg>> \in printed'
  <2>1. x # None /\ x.kind = "frame" /\ x.to = p
    BY <1>2, <1>3, <1>7 DEF CsmaTypes
  <2>2. Z!Noise.kind = "noise"
    BY Kinds
  <2>3. x # Z!Noise
    BY <2>1, <2>2
  <2>4. x \in Hears(p) /\ x \in Sound
    BY <2>1, <2>3, FoundOf
  <2>5. x.from \in Node /\ x.msg \in Nat /\ x = FrameOf(x.from, x.to, x.msg)
    BY <2>1, <2>4, Kinds
  <2>6. back'[p] = x.from /\ <<p, x.from, x.msg>> \in printed'
    BY <2>1, <1>2, <1>3 DEF CsmaTypes
  <2>7. QED
    BY <2>1, <2>4, <2>5, <2>6
<1>8. CsmaTypes'
  <2>1. heard' \in [Node -> Seq(Sound)]
    BY <1>1, <1>3 DEF CsmaTypes
  <2>2. at' \in [Node -> {"sense", "clear", "send", "wait", "listen", "reply", "ack", "gone"}]
    BY <1>2, <1>3 DEF CsmaTypes
  <2>3. back' \in [Node -> Nat]
    <3>1. CASE x # None /\ x.kind = "frame" /\ x.to = p
      <4>1. at' = [at EXCEPT ![p] = "reply"] /\ back' = [back EXCEPT ![p] = x.from]
        BY <3>1, <1>2
      <4>2. at'[p] = "reply"
        BY <4>1, <1>3 DEF CsmaTypes
      <4>3. x.from \in Nat
        BY <4>2, <1>7 DEF CsmaSizes
      <4>4. QED
        BY <4>1, <4>3, <1>3 DEF CsmaTypes
    <3>2. CASE ~(x # None /\ x.kind = "frame" /\ x.to = p)
      BY <3>2, <1>2, <1>3 DEF CsmaTypes
    <3>3. QED
      BY <3>1, <3>2
  <2>4. QED
    BY <2>1, <2>2, <2>3, <1>1, <1>3 DEF CsmaTypes
<1>9. ASSUME NEW n \in Node
      PROVE  Queues(n)' /\ Sends(n)'
  <2>1. Queues(n)' /\ Num(n)' = Num(n) /\ To(n)' = To(n) /\ Sends(n) /\ UNCHANGED <<sendQ, tx>>
    BY <1>1, SameQueues, CsmaParts
  <2>2. CASE n = p
    BY <2>1, <2>2, <1>4, <1>6 DEF Sends
  <2>3. CASE n # p
    BY <2>1, <2>3, <1>6 DEF Sends, FrameOf, AckOf, Z!Noise, Z!Dest, Z!Min
  <2>4. QED
    BY <2>1, <2>2, <2>3
<1>10. ASSUME NEW n \in Node, NEW m \in Node
       PROVE  Answer(n, m)'
  <2>1. Answer(n, m) /\ (Current(n, m)' = Current(n, m)) /\ Num(n)' = Num(n)
    BY <1>1, SameQueues, CsmaParts
  <2>2. Hears(m)' \subseteq Hears(m) /\ (m = p => Hears(m)' = {})
    BY <1>5
  <2>3. Acked(n, m)' => Acked(n, m)
    BY <1>5, <1>6 DEF Acked, AckOf
  <2>4. CASE m = p /\ at'[p] = "reply" /\ x.from = n
    <3>1. /\ FrameOf(n, p, x.msg) \in Hears(p) /\ x.msg \in Nat /\ <<p, n, x.msg>> \in printed'
      BY <2>4, <1>7
    <3>2. Current(n, p) /\ x.msg = Num(n) /\ ~Acked(n, p)
      BY <3>1, <2>1, <2>4 DEF Answer
    <3>3. Current(n, m)' /\ <<m, n, Num(n)'>> \in printed' /\ ~Acked(n, m)'
      BY <3>1, <3>2, <2>1, <2>3, <2>4
    <3>4. \A k \in Nat : FrameOf(n, m, k) \notin Hears(m)'
      BY <2>2, <2>4
    <3>5. QED
      BY <3>3, <3>4 DEF Answer, FrameOf
  <2>5. CASE ~(m = p /\ at'[p] = "reply" /\ x.from = n)
    <3>1. Replies(n, m)' => Replies(n, m)
      BY <2>5, <1>1, <1>6, <1>7 DEF Replies, AckOf
    <3>2. Less(n, m)
      BY <3>1, <2>1, <2>2, <2>3, <1>6 DEF Less, FrameOf
    <3>3. QED
      BY <2>1, <3>2, AnswerKept
  <2>6. QED
    BY <2>4, <2>5
<1>11. Z!SentIsReceived'
  BY <1>1, <1>6, SameQueues, AnsweredKept DEF CsmaInv
<1>12. QED
  BY <1>8, <1>9, <1>10, <1>11 DEF CsmaInv

LEMMA SendAckKeeps ==
  ASSUME CsmaSizes, CsmaInv, NEW p \in Node, Z!SendAck(p)
  PROVE  CsmaInv'
<1> DEFINE a == back[p]
<1>1. /\ at[p] = "reply" /\ UNCHANGED <<initQ, sendQ, heard, printed>>
      /\ back' = [back EXCEPT ![p] = 0] /\ at' = [at EXCEPT ![p] = "ack"]
      /\ Z!Begin(p, AckOf(p, a))
  BY DEF Z!SendAck, Z!Goto, Z!queues, AckOf
<1>2. CsmaTypes /\ Sends(p) /\ a \in Nat
  BY CsmaParts
<1>3. tx[p] = None
  BY <1>1, <1>2 DEF Sends
<1>4. AckOf(p, a) \in Sound
  BY <1>2, Kinds
<1>5. /\ tx' \in [Node -> Sound \cup {None}] /\ tx'[p] \in {AckOf(p, a), Z!Noise}
      /\ \A n \in Node : n # p =>
           tx'[n] \in {tx[n], Z!Noise} /\ (tx[n] = None => tx'[n] = None)
  BY <1>1, <1>2, <1>3, <1>4, BeginOf DEF CsmaTypes
<1>6. /\ at'[p] = "ack" /\ \A n \in Node : n # p => at'[n] = at[n] /\ back'[n] = back[n]
  BY <1>1, <1>2 DEF CsmaTypes
<1>7. CsmaTypes'
  BY <1>1, <1>2, <1>5 DEF CsmaTypes
<1>8. ASSUME NEW n \in Node
      PROVE  Queues(n)' /\ Sends(n)'
  <2>1. Queues(n)' /\ Num(n)' = Num(n) /\ To(n)' = To(n) /\ Sends(n) /\ UNCHANGED sendQ
    BY <1>1, SameQueues, CsmaParts
  <2>2. CASE n = p
    BY <2>1, <2>2, <1>2, <1>5, <1>6 DEF Sends, AckOf, Z!Noise
  <2>3. CASE n # p
    BY <2>1, <2>3, <1>5, <1>6 DEF Sends, FrameOf, AckOf, Z!Noise, Z!Dest, Z!Min
  <2>4. QED
    BY <2>1, <2>2, <2>3
<1>9. ASSUME NEW n \in Node, NEW m \in Node
      PROVE  Answer(n, m)'
  <2>1. Answer(n, m) /\ (Current(n, m)' = Current(n, m)) /\ Num(n)' = Num(n) /\ printed' = printed
    BY <1>1, SameQueues, CsmaParts
  <2>2. Hears(m)' = Hears(m) /\ Hears(n)' = Hears(n)
    BY <1>1 DEF Hears
  <2>3. Acked(n, m)' => Acked(n, m)
    BY <2>2, <1>6 DEF Acked, AckOf
  <2>4. Replies(n, m)' => Replies(n, m)
    <3>1. CASE m = p
      <4>1. AckOf(p, n) # Z!Noise /\ (AckOf(p, n) = AckOf(p, a) => n = a)
        <5>1. AckOf(p, n).to = n /\ AckOf(p, a).to = a
              /\ AckOf(p, n).kind = "ack" /\ Z!Noise.kind = "noise"
          BY Kinds
        <5>2. QED
          BY <5>1
      <4>2. ASSUME Replies(n, m)'
            PROVE  n = a
        BY <4>2, <4>1, <3>1, <1>5, <1>6 DEF Replies, AckOf
      <4>3. QED
        BY <4>2, <3>1, <1>1 DEF Replies
    <3>2. CASE m # p
      BY <3>2, <1>5, <1>6, RepliesBegun
    <3>3. QED
      BY <3>1, <3>2
  <2>5. Less(n, m)
    BY <2>1, <2>2, <2>3, <2>4 DEF Less, FrameOf
  <2>6. QED
    BY <2>1, <2>5, AnswerKept
<1>10. Z!SentIsReceived'
  BY <1>1, SameQueues, AnsweredKept DEF CsmaInv
<1>11. QED
  BY <1>7, <1>8, <1>9, <1>10 DEF CsmaInv

LEMMA CsmaInitially ==
  ASSUME CsmaSizes, Z!Init
  PROVE  CsmaInv
<1>1. /\ initQ = [n \in Node |-> [k \in DOMAIN Messages[n] |-> <<k, Messages[n][k]>>]]
      /\ sendQ = [n \in Node |-> <<>>] /\ at = [n \in Node |-> "sense"]
      /\ tx = [n \in Node |-> None] /\ heard = [n \in Node |-> <<>>]
      /\ back = [n \in Node |-> 0] /\ printed = {}
  BY DEF Z!Init
<1>2. ASSUME NEW n \in Node
      PROVE  /\ initQ[n] \in Seq(Nat \X Nat) /\ DOMAIN initQ[n] = DOMAIN Messages[n]
             /\ \A k \in DOMAIN Messages[n] :
                  initQ[n][k] = <<k, Messages[n][k]>> /\ Messages[n][k] \in Nat
  <2> DEFINE s == Messages[n]
  <2>1. s \in Seq(Nat) /\ DOMAIN s = 1 .. Len(s) /\ Len(s) \in Nat
    BY DEF CsmaSizes
  <2>2. \A k \in 1 .. Len(s) : s[k] \in Nat /\ k \in Nat
    BY <2>1
  <2> HIDE DEF s
  <2>3. initQ[n] = [k \in 1 .. Len(s) |-> <<k, s[k]>>]
    BY <1>1, <2>1 DEF s
  <2>4. initQ[n] \in [1 .. Len(s) -> Nat \X Nat]
    BY <2>2, <2>3
  <2>5. initQ[n] \in Seq(Nat \X Nat)
    BY <2>1, <2>4
  <2>6. DOMAIN initQ[n] = DOMAIN s /\ \A k \in DOMAIN s : initQ[n][k] = <<k, s[k]>> /\ s[k] \in Nat
    BY <2>1, <2>2, <2>3
  <2>7. QED
    BY <2>5, <2>6 DEF s
<1>3. CsmaTypes
  <2>1. initQ \in [Node -> Seq(Nat \X Nat)]
    <3>1. \A n \in Node : initQ[n] \in Seq(Nat \X Nat)
      BY <1>2
    <3>2. initQ = [n \in Node |-> initQ[n]]
      BY <1>1
    <3>3. QED
      BY <3>1, <3>2
  <2>2. QED
    BY <2>1, <1>1 DEF CsmaTypes
<1>4. ASSUME NEW n \in Node
      PROVE  Queues(n) /\ Sends(n)
  <2>1. \A j \in DOMAIN initQ[n] : Typed(n, initQ[n][j])
    BY <1>2 DEF Typed
  <2>2. \A j \in DOMAIN sendQ[n] : Typed(n, sendQ[n][j])
    BY <1>1
  <2>3. QED
    BY <1>1, <2>1, <2>2 DEF Queues, Sends
<1>5. ASSUME NEW n \in Node, NEW m \in Node
      PROVE  Answer(n, m)
  <2>1. Hears(m) = {} /\ Hears(n) = {}
    BY <1>1 DEF Hears
  <2>2. ~Replies(n, m) /\ ~Acked(n, m)
    <3>1. AckOf(m, n) # None
      BY 0 \in Nat, Different
    <3>2. QED
      BY <3>1, <1>1 DEF Replies, Acked
  <2>3. QED
    BY <2>1, <2>2 DEF Answer
<1>6. Z!SentIsReceived
  <2>1. ASSUME NEW n \in Node, NEW k \in DOMAIN Messages[n]
        PROVE  Queued(n, k)
    <3>1. k \in DOMAIN initQ[n] /\ initQ[n][k] = <<k, Messages[n][k]>>
      BY <1>2
    <3>2. initQ[n][k][1] = k
      BY <3>1
    <3>3. QED
      BY <3>1, <3>2 DEF Queued
  <2>2. QED
    BY <2>1, AnsweredMeans
<1>7. QED
  BY <1>3, <1>4, <1>5, <1>6 DEF CsmaInv

\* No step makes up for a mistake.
LEMMA StaysMistaken ==
  ASSUME NEW p \in Node, ~mistaken',
         \/ Z!OnKeyEvent(p) \/ Z!CarrierSense(p) \/ Z!Send(p) \/ Z!Sent(p)
         \/ Z!WaitAck(p) \/ Z!ListenMsg(p) \/ Z!SendAck(p) \/ Z!SentAck(p)
  PROVE  ~mistaken
<1>1. CASE Z!OnKeyEvent(p) \/ Z!CarrierSense(p) \/ Z!Send(p) \/ Z!Sent(p)
  BY <1>1 DEF Z!OnKeyEvent, Z!CarrierSense, Z!Send, Z!Sent
<1>2. CASE Z!WaitAck(p)
  BY <1>2 DEF Z!WaitAck
<1>3. CASE Z!ListenMsg(p)
  BY <1>3 DEF Z!ListenMsg
<1>4. CASE Z!SendAck(p) \/ Z!SentAck(p)
  BY <1>4 DEF Z!SendAck, Z!SentAck
<1>5. QED
  BY <1>1, <1>2, <1>3, <1>4

LEMMA CsmaStands ==
  ASSUME CsmaInv, UNCHANGED Z!vars
  PROVE  CsmaInv'
<1>1. UNCHANGED <<initQ, sendQ, at, tx, ear, heard, back, printed>>
  BY DEF Z!vars, Z!queues
<1>2. CsmaTypes' /\ Z!SentIsReceived'
  BY <1>1, SameQueues, AnsweredKept DEF CsmaInv, CsmaTypes
<1>3. ASSUME NEW n \in Node
      PROVE  Queues(n)' /\ Sends(n)'
  BY <1>1, SameQueues, CsmaParts DEF Sends, FrameOf, AckOf, Z!Noise, Z!Dest, Z!Min
<1>4. ASSUME NEW n \in Node, NEW m \in Node
      PROVE  Answer(n, m)'
  <2>1. Less(n, m)
    BY <1>1, SameQueues DEF Less, Hears, Replies, Acked, FrameOf, AckOf
  <2>2. QED
    BY <2>1, CsmaParts, AnswerKept
<1>5. QED
  BY <1>2, <1>3, <1>4 DEF CsmaInv

\* While no noise has been taken for an acknowledgement or for a frame, the
\* acknowledgements that may still come, and the frames that may still be
\* printed, are of the message that its sender is sending now.
THEOREM CsmaInvariance ==
  ASSUME CsmaSizes
  PROVE  Z!Spec => [](~mistaken => CsmaInv)
<1> DEFINE I == ~mistaken => CsmaInv
<1>1. Z!Init => I
  BY CsmaInitially
<1>2. I /\ [Z!Next]_(Z!vars) => I'
  <2>1. SUFFICES ASSUME I, [Z!Next]_(Z!vars), ~mistaken'
                 PROVE  CsmaInv'
    OBVIOUS
  <2>2. CASE UNCHANGED Z!vars
    <3>1. mistaken' = mistaken
      BY <2>2 DEF Z!vars
    <3>2. QED
      BY <2>1, <2>2, <3>1, CsmaStands
  <2>3. CASE Z!Next
    <3>1. PICK p \in Node :
            \/ Z!OnKeyEvent(p) \/ Z!CarrierSense(p) \/ Z!Send(p) \/ Z!Sent(p)
            \/ Z!WaitAck(p) \/ Z!ListenMsg(p) \/ Z!SendAck(p) \/ Z!SentAck(p)
      BY <2>3 DEF Z!Next
    <3>2. CsmaInv
      BY <2>1, <3>1, StaysMistaken
    <3>3. QED
      BY <2>1, <3>1, <3>2, OnKeyEventKeeps, CarrierSenseKeeps, SendKeeps, SentKeeps,
         WaitAckKeeps, ListenMsgKeeps, SendAckKeeps, SentAckKeeps
  <2>4. QED
    BY <2>1, <2>2, <2>3
<1>3. QED
  BY <1>1, <1>2, PTL DEF Z!Spec

\* While no noise has been taken for an acknowledgement or for a frame, a
\* message that its sender reports as sent has been printed by the node it was
\* for, however the nodes' windows and sounds fall on each other.
THEOREM CsmaAnswered ==
  ASSUME CsmaSizes
  PROVE  Z!Spec => []Z!AnsweredMeansReceived
<1>1. (~mistaken => CsmaInv) => Z!AnsweredMeansReceived
  BY DEF CsmaInv, Z!AnsweredMeansReceived
<1>2. QED
  BY <1>1, CsmaInvariance, PTL
=============================================================================
