------------------------------- MODULE MCProc -------------------------------
(* Instances of Proc for TLC.                                              *)
EXTENDS Proc, TLC

\* Proc does not tell CPUs apart.
AlikeCpu == Permutations(Cpu)
=============================================================================
