----------------------------- MODULE AtomicDisk -----------------------------
(***************************************************************************)
(* What the write-ahead log promises the file system: a disk on which the  *)
(* system calls under way see each other's writes at once, and that a      *)
(* crash takes back to a moment at which no system call was under way.     *)
(***************************************************************************)
CONSTANTS Proc,   \* the processes that make system calls
          Block,  \* the disk blocks
          Value   \* what a block may hold

VARIABLES seen,    \* seen[b]: what a system call reads from block b now
          stable,  \* stable[b]: what it would read after a crash now
          active   \* the processes in a system call

vars == <<seen, stable, active>>

Init ==
  /\ seen \in [Block -> Value]
  /\ stable = seen
  /\ active = {}

Begin(p) ==
  /\ p \notin active
  /\ active' = active \cup {p}
  /\ UNCHANGED <<seen, stable>>

Write(p) ==
  /\ p \in active
  /\ \E b \in Block, v \in Value : seen' = [seen EXCEPT ![b] = v]
  /\ UNCHANGED <<stable, active>>

End(p) ==
  /\ p \in active
  /\ active' = active \ {p}
  /\ UNCHANGED <<seen, stable>>

\* Everything written so far becomes durable, in one step.
Commit ==
  /\ active = {}
  /\ stable' = seen
  /\ UNCHANGED <<seen, active>>

Crash ==
  /\ seen' = stable
  /\ active' = {}
  /\ UNCHANGED stable

Next == Commit \/ Crash \/ \E p \in Proc : Begin(p) \/ Write(p) \/ End(p)

Spec == Init /\ [][Next]_vars
=============================================================================
