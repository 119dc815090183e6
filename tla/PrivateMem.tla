----------------------------- MODULE PrivateMem -----------------------------
(***************************************************************************)
(* What the kernel promises about user memory, whatever pages it shares:   *)
(* every process has a memory of its own.  fork gives the child a copy of  *)
(* the parent's memory as it is at that moment, a store changes the memory *)
(* of the process that makes it and no other, sbrk adds pages of zeros at  *)
(* the end or removes pages from the end, exec replaces the memory by the  *)
(* program's image.                                                        *)
(***************************************************************************)
EXTENDS Naturals

CONSTANTS Proc,   \* process slots
          MaxSz,  \* a memory has fewer pages than this
          Val,    \* what user code writes
          Dead    \* the memory of a slot that runs no process

VARIABLE mem      \* mem[p]: the contents of p's pages 0, 1, ..., or Dead

Alive(p) == mem[p] # Dead

Init == mem = [p \in Proc |-> Dead]

\* The first process starts with one page of code.
Start(p) ==
  /\ \A q \in Proc : ~Alive(q)
  /\ mem' = [mem EXCEPT ![p] = [i \in 0 .. 0 |-> "img"]]

Write(p) ==
  /\ Alive(p)
  /\ \E i \in DOMAIN mem[p], v \in Val : mem' = [mem EXCEPT ![p][i] = v]

Fork(p) ==
  /\ Alive(p)
  /\ \E c \in Proc : ~Alive(c) /\ mem' = [mem EXCEPT ![c] = mem[p]]

Resize(p) ==
  /\ Alive(p)
  /\ \E n \in 1 .. MaxSz - 1 :
       mem' = [mem EXCEPT ![p] =
         [i \in 0 .. n - 1 |-> IF i \in DOMAIN mem[p] THEN mem[p][i] ELSE "zero"]]

Exec(p) ==
  /\ Alive(p)
  /\ \E n \in 1 .. MaxSz - 3 :
       mem' = [mem EXCEPT ![p] =
         [i \in 0 .. n + 1 |->
            IF i < n THEN "img" ELSE IF i = n THEN "zero" ELSE "arg"]]

Exit(p) == Alive(p) /\ mem' = [mem EXCEPT ![p] = Dead]

Next == \E p \in Proc :
          Start(p) \/ Write(p) \/ Fork(p) \/ Resize(p) \/ Exec(p) \/ Exit(p)

Spec == Init /\ [][Next]_mem
=============================================================================
