------------------------------- MODULE Sleep -------------------------------
(***************************************************************************)
(* sleep, wakeup and kill of the xv6 kernel (proc.c), for the modules      *)
(* whose processes wait for each other.  A process sleeps on a channel; it *)
(* gets there in two steps, taking ptable.lock before it gives up the lock *)
(* that protects the condition it waits for.                               *)
(***************************************************************************)
CONSTANTS Proc,   \* processes
          None

VARIABLES ptlock,  \* who holds ptable.lock across steps, or None
          chan,    \* chan[p]: what p sleeps on, None unless p is SLEEPING
          killed   \* the processes with p->killed set

sleepVars == <<ptlock, chan, killed>>

SleepInit ==
  /\ ptlock = None
  /\ chan = [p \in Proc |-> None]
  /\ killed = {}

Asleep(p) == chan[p] # None

\* sleep(c, lk), first half: acquire(&ptable.lock).  The caller's action
\* releases lk in the same step.
TakePtlock(p) ==
  /\ ptlock = None
  /\ ptlock' = p
  /\ UNCHANGED <<chan, killed>>

\* Second half: SLEEPING on c; the scheduler releases ptable.lock.
FallAsleep(p, c) ==
  /\ ptlock = p
  /\ ptlock' = None
  /\ chan' = [chan EXCEPT ![p] = c]
  /\ UNCHANGED killed

\* wakeup(c): everyone who sleeps on c becomes RUNNABLE.
Wakeup(c) ==
  /\ ptlock = None
  /\ chan' = [q \in Proc |-> IF chan[q] = c THEN None ELSE chan[q]]
  /\ UNCHANGED <<ptlock, killed>>

\* kill: mark the process, and wake it whatever it sleeps on.
Kill(p) ==
  /\ ptlock = None
  /\ killed' = killed \cup {p}
  /\ chan' = [chan EXCEPT ![p] = None]
  /\ UNCHANGED ptlock
=============================================================================
