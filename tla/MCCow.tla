-------------------------------- MODULE MCCow --------------------------------
(* Small instances of Cow.  TLC always hands out the lowest free page: the  *)
(* pages are interchangeable, so other choices only rename them.            *)
EXTENDS Cow
LowestFree(S) == {pg \in S : \A other \in S : pg <= other}
=============================================================================
