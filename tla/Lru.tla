-------------------------------- MODULE Lru ---------------------------------
(* One set of ChampSim's lru_table (lru_table.h): the valid entries, most   *)
(* recently used first, each <<tag, data>>.                                 *)
EXTENDS Integers, Sequences, SequencesExt

Lookup(t, tag) == SelectSeq(t, LAMBDA x : x[1] = tag)
Others(t, tag) == SelectSeq(t, LAMBDA x : x[1] # tag)

\* check_hit makes what it finds the most recent; Lookup has the data.
CheckHit(t, tag) == Lookup(t, tag) \o Others(t, tag)

\* fill replaces the entry of the tag, or the least recent one.
Fill(t, tag, data, ways) ==
  LET o == Others(t, tag) IN <<<<tag, data>>>> \o SubSeq(o, 1, IF Len(o) < ways THEN Len(o) ELSE ways - 1)
=============================================================================
