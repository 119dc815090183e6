----------------------------- MODULE ChampCache -----------------------------
(***************************************************************************)
(* A cache of the ChampSim simulator (cache.cc) behind the channel through *)
(* which the level above sends it requests (channel.cc): one set of a      *)
(* cache without offset matching, as L2C and LLC are, with addresses that  *)
(* are translated.  A step is what operate() does with one request in one  *)
(* of its stages; latencies and bandwidth let any stage wait.  Statistics  *)
(* and prefetch metadata are left out, replacement chooses as it likes and *)
(* the level below answers when and in the order it likes.                 *)
(***************************************************************************)
EXTENDS Integers, Sequences, SequencesExt

CONSTANTS Instr,     \* instructions of the core, whose loads wait for data
          Block,     \* addresses >> OFFSET_BITS
          Ways,      \* NUM_WAY
          RQ_SIZE, WQ_SIZE, PQ_SIZE,
          MSHR_SIZE,
          TAGS,      \* MAX_TAG * HIT_LATENCY
          MaxWrites, \* bound: inflight_writes
          MaxQueued, \* bound: requests in the cache
          None

VARIABLES
  rq, wq, pq,      \* the channel's queues
  internal,        \* internal_PQ: the prefetcher's own requests
  tags,            \* inflight_tag_check
  mshr,            \* MSHR; done: data has come and event_cycle is set
  writes,          \* inflight_writes
  block,           \* block[w]: the block in way w, None if not valid
  owed,            \* owed[b]: responses the level below still has to give for b
  waiting,         \* the instructions whose load has not been answered
  lost             \* finish_packet found no entry

queues == <<rq, wq, pq, internal>>
vars   == <<queues, tags, mshr, writes, block, owed, waiting, lost>>

Init ==
  /\ rq = <<>> /\ wq = <<>> /\ pq = <<>> /\ internal = <<>>
  /\ tags = <<>> /\ mshr = <<>> /\ writes = <<>>
  /\ block = [w \in Ways |-> None]
  /\ owed = [b \in Block |-> 0]
  /\ waiting = {} /\ lost = FALSE

Packet(b, type, deps, reply) ==
  [block |-> b, type |-> type, deps |-> deps, reply |-> reply, checked |-> FALSE]

For(q, b) == {i \in DOMAIN q : q[i].block = b}
First(S) == CHOOSE i \in S : \A j \in S : i <= j

Room == Len(rq) + Len(wq) + Len(pq) + Len(internal) + Len(tags) + Len(mshr) < MaxQueued

\* A response goes up with the instructions that depend on it.
Respond(x) == waiting' = IF x.reply THEN waiting \ x.deps ELSE waiting

-----------------------------------------------------------------------------
(* The channel.                                                            *)

AddRq(i, b) ==
  /\ i \notin waiting /\ Len(rq) < RQ_SIZE /\ Room
  /\ rq' = Append(rq, Packet(b, "LOAD", {i}, TRUE))
  /\ waiting' = waiting \cup {i}
  /\ UNCHANGED <<wq, pq, internal, tags, mshr, writes, block, owed, lost>>

AddWq(b) ==
  /\ Len(wq) < WQ_SIZE /\ Room
  /\ wq' = Append(wq, Packet(b, "WRITE", {}, FALSE))
  /\ UNCHANGED <<rq, pq, internal, tags, mshr, writes, block, owed, waiting, lost>>

\* A prefetch by the level above, which may want the data itself.
AddPq(b) ==
  /\ Len(pq) < PQ_SIZE /\ Room
  /\ \E reply \in BOOLEAN : pq' = Append(pq, Packet(b, "PREFETCH", {}, reply))
  /\ UNCHANGED <<rq, wq, internal, tags, mshr, writes, block, owed, waiting, lost>>

Unchecked(q) == {i \in DOMAIN q : ~q[i].checked}

\* Queue q once its i-th request has been merged with an earlier one for the
\* same block, or found none.
Merged(q, i) ==
  LET same == {j \in For(q, q[i].block) : j < i} IN
  IF same = {} THEN [q EXCEPT ![i].checked = TRUE]
  ELSE LET j == First(same) IN
       RemoveAt([q EXCEPT ![j].reply = @ \/ q[i].reply, ![j].deps = @ \cup q[i].deps], i)

\* check_collision: writes merge with writes; reads and prefetches are
\* answered from a write that waits, or merge with their like.
CheckCollision ==
  /\ \/ /\ Unchecked(wq) # {}
        /\ wq' = Merged(wq, First(Unchecked(wq)))
        /\ UNCHANGED <<rq, pq, waiting>>
     \/ /\ Unchecked(wq) = {} /\ Unchecked(rq) # {}
        /\ LET i == First(Unchecked(rq)) IN
           IF For(wq, rq[i].block) # {}
           THEN rq' = RemoveAt(rq, i) /\ Respond(rq[i])
           ELSE rq' = Merged(rq, i) /\ UNCHANGED waiting
        /\ UNCHANGED <<wq, pq>>
     \/ /\ Unchecked(wq) = {} /\ Unchecked(rq) = {} /\ Unchecked(pq) # {}
        /\ LET i == First(Unchecked(pq)) IN
           pq' = IF For(wq, pq[i].block) # {} THEN RemoveAt(pq, i) ELSE Merged(pq, i)
        /\ UNCHANGED <<rq, wq, waiting>>
  /\ UNCHANGED <<internal, tags, mshr, writes, block, owed, lost>>

\* prefetch_line, for this level or only for those below (skip_fill).
PrefetchLine(b) ==
  /\ Len(internal) < PQ_SIZE /\ Room
  /\ \E fill \in BOOLEAN :
       internal' = Append(internal, Packet(b, IF fill THEN "PREFETCH" ELSE "SKIP", {}, FALSE))
  /\ UNCHANGED <<rq, wq, pq, tags, mshr, writes, block, owed, waiting, lost>>

-----------------------------------------------------------------------------
(* The stages of operate.                                                  *)

\* finish_packet: the entry changes places with the first unreturned one.
FinishPacket(b) ==
  /\ owed[b] > 0
  /\ owed' = [owed EXCEPT ![b] = @ - 1]
  /\ LET entries == For(mshr, b) IN
     IF entries = {} THEN lost' = TRUE /\ UNCHANGED mshr
     ELSE LET i == First(entries)
              u == First({j \in DOMAIN mshr : ~mshr[j].done} \cup {i}) IN
          /\ mshr' = [mshr EXCEPT ![i] = mshr[u], ![u] = [mshr[i] EXCEPT !.done = TRUE]]
          /\ UNCHANGED lost
  /\ UNCHANGED <<queues, tags, writes, waiting, block>>

\* handle_fill: a way that is not valid, else a victim, which may have to
\* wait for room below to be written back.
HandleFill(b) ==
  \E w \in Ways :
    /\ block[w] = None \/ \A v \in Ways : block[v] # None
    /\ block' = [block EXCEPT ![w] = b]

\* Replacement may let a read bypass the cache.
FillMshr ==
  /\ mshr # <<>> /\ Head(mshr).done
  /\ \/ HandleFill(Head(mshr).block)
     \/ (\A w \in Ways : block[w] # None) /\ UNCHANGED block
  /\ Respond(Head(mshr))
  /\ mshr' = Tail(mshr)
  /\ UNCHANGED <<queues, tags, writes, owed, lost>>

FillWrite ==
  /\ writes # <<>>
  /\ HandleFill(Head(writes))
  /\ writes' = Tail(writes)
  /\ UNCHANGED <<queues, tags, mshr, owed, waiting, lost>>

AllChecked == Unchecked(wq) = {} /\ Unchecked(rq) = {} /\ Unchecked(pq) = {}

\* initiate_tag_check of the first request of a queue.
InitiateTagCheck ==
  /\ AllChecked /\ Len(tags) < TAGS
  /\ \/ wq # <<>> /\ tags' = Append(tags, Head(wq)) /\ wq' = Tail(wq)
        /\ UNCHANGED <<rq, pq, internal>>
     \/ rq # <<>> /\ tags' = Append(tags, Head(rq)) /\ rq' = Tail(rq)
        /\ UNCHANGED <<wq, pq, internal>>
     \/ pq # <<>> /\ tags' = Append(tags, Head(pq)) /\ pq' = Tail(pq)
        /\ UNCHANGED <<wq, rq, internal>>
     \/ internal # <<>> /\ tags' = Append(tags, Head(internal)) /\ internal' = Tail(internal)
        /\ UNCHANGED <<wq, rq, pq>>
  /\ UNCHANGED <<mshr, writes, block, owed, waiting, lost>>

Miss(x) == \A w \in Ways : block[w] # x.block

\* try_hit.
TryHit ==
  /\ tags # <<>> /\ ~Miss(Head(tags))
  /\ Respond(Head(tags))
  /\ tags' = Tail(tags)
  /\ UNCHANGED <<queues, mshr, writes, block, owed, lost>>

\* handle_write: a write that misses is filled like a response.
HandleWrite ==
  /\ tags # <<>> /\ Head(tags).type = "WRITE" /\ Miss(Head(tags))
  /\ Len(writes) < MaxWrites
  /\ writes' = Append(writes, Head(tags).block)
  /\ tags' = Tail(tags)
  /\ UNCHANGED <<queues, mshr, block, owed, waiting, lost>>

\* A variant of mshr_type::merge: that the response has come is forgotten.
Merge_NotDone(old, new) ==
  [new EXCEPT !.deps = @ \cup old.deps, !.reply = @ \/ old.reply]
Merge(old, new) ==
  [new EXCEPT !.deps = @ \cup old.deps, !.reply = @ \/ old.reply, !.done = old.done]

\* handle_miss: join a miss of the block that is in flight; else send the
\* request down, if that has room, and wait unless only lower levels fill.
HandleMiss ==
  /\ tags # <<>> /\ Head(tags).type # "WRITE" /\ Miss(Head(tags))
  /\ LET x == Head(tags)
         entry == [block |-> x.block, deps |-> x.deps, reply |-> x.reply, done |-> FALSE]
         entries == For(mshr, x.block) IN
     IF entries # {}
     THEN LET i == First(entries) IN
          mshr' = [mshr EXCEPT ![i] = Merge(@, entry)] /\ UNCHANGED owed
     ELSE /\ Len(mshr) < MSHR_SIZE
          /\ IF x.type # "SKIP"
             THEN mshr' = Append(mshr, entry) /\ owed' = [owed EXCEPT ![x.block] = @ + 1]
             ELSE UNCHANGED <<mshr, owed>>
  /\ tags' = Tail(tags)
  /\ UNCHANGED <<queues, writes, block, waiting, lost>>

Next ==
  \/ \E b \in Block : AddWq(b) \/ AddPq(b) \/ PrefetchLine(b) \/ FinishPacket(b)
                      \/ \E i \in Instr : AddRq(i, b)
  \/ CheckCollision \/ InitiateTagCheck \/ TryHit \/ HandleWrite \/ HandleMiss
  \/ FillMshr \/ FillWrite

Spec == Init /\ [][Next]_vars

-----------------------------------------------------------------------------
(* Properties.                                                             *)

\* The requests that stand for instruction i.
Holders(i) == {h \in {1, 2, 3} \X (1 .. RQ_SIZE + MSHR_SIZE + TAGS) :
                 LET s == <<rq, tags, mshr>>[h[1]]  k == h[2] IN
                 k \in DOMAIN s /\ i \in s[k].deps /\ s[k].reply}

\* Every response finds its miss and every miss that has not returned waits
\* for one response, so that merged, forwarded and prefetched requests leave
\* nobody behind: an instruction waits exactly as long as one request that
\* will be answered stands for it, and what has returned comes before what
\* has not, where the fill stage looks.
EveryLoadIsAnswered ==
  /\ ~lost
  /\ \A b \in Block : LET entries == For(mshr, b) IN
       /\ \A i, j \in entries : i = j
       /\ owed[b] = 1 <=> \E i \in entries : ~mshr[i].done
       /\ owed[b] \in {0, 1}
  /\ \A i \in Instr : IF i \in waiting THEN \E h \in Holders(i) : Holders(i) = {h}
                                       ELSE Holders(i) = {}
  /\ \A i, j \in DOMAIN mshr : i < j /\ mshr[j].done => mshr[i].done
=============================================================================
