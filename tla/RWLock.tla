------------------------------- MODULE RWLock -------------------------------
(***************************************************************************)
(* The reader-writer locks of src/os/rwlock-reader-pref.cpp and            *)
(* src/os/rwlock-writer-pref.cpp.  They share WriterLock and WriterUnlock  *)
(* and differ in what a reader does.  A step is one operation on the mutex *)
(* or one access to a counter; code under the mutex between two of them is *)
(* one step, and rw->numRead++ outside the mutex is a load and a store.    *)
(***************************************************************************)
EXTENDS Integers, FiniteSets

CONSTANTS Thread, None,
          Drift           \* bound: how far lost updates may take numRead

ASSUME RWLockAssumption ==
  /\ IsFiniteSet(Thread) /\ None \notin Thread
  /\ Drift \in Nat

VARIABLES pref,              \* "reader" or "writer": which of the two files
          mutex,             \* who holds rw->thing, or None
          numRead, numWrit,  \* rw->numRead, rw->numWrit
          reg,               \* reg[t]: numRead as t has loaded it
          pc

vars == <<pref, mutex, numRead, numWrit, reg, pc>>

Init ==
  /\ pref \in {"reader", "writer"}
  /\ mutex = None
  /\ numRead = 0 /\ numWrit = 0
  /\ reg = [t \in Thread |-> 0]
  /\ pc = [t \in Thread |-> "idle"]

At(t, l) == pc[t] = l
Goto(t, l) == pc' = [pc EXCEPT ![t] = l]

\* pthread_mutex_lock and pthread_mutex_unlock.
Lock(t)   == mutex = None /\ mutex' = t
Unlock(t) == mutex' = None

ThenLock(t, from, to) ==
  /\ At(t, from)
  /\ Lock(t)
  /\ Goto(t, to)
  /\ UNCHANGED <<numRead, numWrit, reg>>

Call(t) ==
  /\ At(t, "idle")
  /\ \/ Goto(t, "r_lock")
     \/ Goto(t, "w_lock")
  /\ UNCHANGED <<mutex, numRead, numWrit, reg>>

-----------------------------------------------------------------------------
(* Readers of rwlock-reader-pref.cpp.                                      *)

ReaderLock(t) ==
  /\ pref = "reader"
  /\ \/ ThenLock(t, "r_lock", "r_inc")
     \/ /\ At(t, "r_inc")
        /\ numRead' = numRead + 1
        /\ Unlock(t)
        /\ Goto(t, "reading")
        /\ UNCHANGED <<numWrit, reg>>

ReaderUnlock(t) ==
  /\ pref = "reader"
  /\ \/ ThenLock(t, "reading", "r_dec")
     \/ /\ At(t, "r_dec")
        /\ numRead' = numRead - 1
        /\ Unlock(t)
        /\ Goto(t, "idle")
        /\ UNCHANGED <<numWrit, reg>>

-----------------------------------------------------------------------------
(* Readers of rwlock-writer-pref.cpp.                                      *)

WPReaderLock(t) ==
  /\ pref = "writer"
  /\ \/ ThenLock(t, "r_lock", "r_check")
     \/ /\ At(t, "r_check")
        /\ Unlock(t)
        /\ Goto(t, IF numWrit > 0 THEN "r_spin" ELSE "r_load")
        /\ UNCHANGED <<numRead, numWrit, reg>>
     \/ /\ At(t, "r_spin")
        /\ numWrit <= 0
        /\ Goto(t, "r_load")
        /\ UNCHANGED <<mutex, numRead, numWrit, reg>>
     \/ /\ At(t, "r_load")
        /\ reg' = [reg EXCEPT ![t] = numRead]
        /\ Goto(t, "r_store")
        /\ UNCHANGED <<mutex, numRead, numWrit>>
     \/ /\ At(t, "r_store")
        /\ reg[t] < Drift
        /\ numRead' = reg[t] + 1
        /\ Goto(t, "reading")
        /\ UNCHANGED <<mutex, numWrit, reg>>

WPReaderUnlock(t) ==
  /\ pref = "writer"
  /\ \/ /\ At(t, "reading")
        /\ reg' = [reg EXCEPT ![t] = numRead]
        /\ Goto(t, "r_leave")
        /\ UNCHANGED <<mutex, numRead, numWrit>>
     \/ /\ At(t, "r_leave")
        /\ reg[t] > -Drift
        /\ numRead' = reg[t] - 1
        /\ Goto(t, "idle")
        /\ UNCHANGED <<mutex, numWrit, reg>>

-----------------------------------------------------------------------------
(* Writers, in both files.                                                 *)

\* A variant: the mutex is released also by the writer that enters.
WriterEnter_Unlocked(t) == Unlock(t) /\ Goto(t, IF numRead > 0 THEN "w_read" ELSE "writing")

\* Under the mutex: wait if there are readers, else enter with it.
WriterEnter(t) ==
  IF numRead > 0
  THEN Unlock(t) /\ Goto(t, "w_read")
  ELSE UNCHANGED mutex /\ Goto(t, "writing")

WriterCount(t) ==
  /\ At(t, "w_count")
  /\ numWrit' = numWrit + 1
  /\ WriterEnter(t)
  /\ UNCHANGED <<numRead, reg>>

\* while (rw->numRead > 0 || rw->numWrit > 0), without the mutex.
WriterLock(t) ==
  \/ ThenLock(t, "w_lock", "w_count")
  \/ WriterCount(t)
  \/ /\ At(t, "w_read")
     /\ Goto(t, IF numRead > 0 THEN "w_again" ELSE "w_writ")
     /\ UNCHANGED <<mutex, numRead, numWrit, reg>>
  \/ /\ At(t, "w_writ")
     /\ Goto(t, IF numWrit > 0 THEN "w_again" ELSE "writing")
     /\ UNCHANGED <<mutex, numRead, numWrit, reg>>
  \/ ThenLock(t, "w_again", "w_check")
  \/ /\ At(t, "w_check")
     /\ WriterEnter(t)
     /\ UNCHANGED <<numRead, numWrit, reg>>

WriterUnlock(t) ==
  /\ At(t, "writing")
  /\ numWrit' = numWrit - 1
  /\ Unlock(t)
  /\ Goto(t, "idle")
  /\ UNCHANGED <<numRead, reg>>

Next ==
  /\ UNCHANGED pref
  /\ \E t \in Thread :
       \/ Call(t) \/ WriterLock(t) \/ WriterUnlock(t)
       \/ ReaderLock(t) \/ ReaderUnlock(t)
       \/ WPReaderLock(t) \/ WPReaderUnlock(t)

Spec == Init /\ [][Next]_vars

-----------------------------------------------------------------------------
(* Properties.                                                             *)

Pcs == {"idle", "r_lock", "r_inc", "reading", "r_dec",
        "r_check", "r_spin", "r_load", "r_store", "r_leave",
        "w_lock", "w_count", "w_read", "w_writ", "w_again", "w_check", "writing"}

\* Every variable has its type; numWrit is never negative, and numRead is
\* not if readers count themselves under the mutex.
TypeOK ==
  /\ pref \in {"reader", "writer"}
  /\ mutex \in Thread \cup {None}
  /\ numRead \in Int /\ numWrit \in Nat
  /\ pref = "reader" => numRead >= 0
  /\ reg \in [Thread -> Int]
  /\ pc \in [Thread -> Pcs]

\* In both files: two writers are never in together, whichever way the second
\* came in: through the first check, the loop's check, or out of the loop.
WritersExclude ==
  \A t, u \in Thread : pc[t] = "writing" /\ t # u => pc[u] # "writing"

\* rwlock-reader-pref.cpp: no reader is in while a writer is.
ReadersExcluded ==
  pref = "reader" => \A t, u \in Thread : pc[t] = "writing" => pc[u] # "reading"

\* What the locks are for, as far as each of the files provides it.
Exclusion == WritersExclude /\ ReadersExcluded

\* Each writer is counted once from its first check to WriterUnlock, and in
\* rwlock-reader-pref.cpp so is each reader from ReaderLock to ReaderUnlock.
Reading == {t \in Thread : pc[t] \in {"reading", "r_dec"}}
Writing == {t \in Thread : pc[t] \in {"w_read", "w_writ", "w_again", "w_check", "writing"}}
CountsAgree ==
  /\ numWrit = Cardinality(Writing)
  /\ pref = "reader" => numRead = Cardinality(Reading)
=============================================================================
