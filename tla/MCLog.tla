------------------------------- MODULE MCLog -------------------------------
(* Instances of Log for TLC.                                               *)
EXTENDS Log, TLC

\* Log does not tell processes or blocks apart.
Alike == Permutations(Proc) \cup Permutations(Block)

=============================================================================
