----------------------------- MODULE BlockStore -----------------------------
(***************************************************************************)
(* What the buffer cache promises its callers: the blocks of the disk,     *)
(* each in the hands of at most one process at a time, who reads what the  *)
(* last one left there.                                                    *)
(***************************************************************************)
CONSTANTS Proc, Block, Value, None

VARIABLES store,  \* store[k]: what block k holds
          owner   \* owner[k]: the process between bread and brelse of k

vars == <<store, owner>>

Init ==
  /\ store \in [Block -> Value]
  /\ owner = [k \in Block |-> None]

Take(p, k) ==
  /\ owner[k] = None
  /\ owner' = [owner EXCEPT ![k] = p]
  /\ UNCHANGED store

Modify(p, k, v) ==
  /\ owner[k] = p
  /\ store' = [store EXCEPT ![k] = v]
  /\ UNCHANGED owner

GiveBack(p, k) ==
  /\ owner[k] = p
  /\ owner' = [owner EXCEPT ![k] = None]
  /\ UNCHANGED store

Next ==
  \E p \in Proc, k \in Block :
    Take(p, k) \/ GiveBack(p, k) \/ \E v \in Value : Modify(p, k, v)

Spec == Init /\ [][Next]_vars
=============================================================================
