------------------------------ MODULE MCBcache ------------------------------
(* Instances of Bcache for TLC.                                            *)
EXTENDS Bcache, TLC

Alike == Permutations(Proc) \cup Permutations(Block)
=============================================================================
