-------------------------------- MODULE Dram --------------------------------
(***************************************************************************)
(* ChampSim's memory controller (dram_controller.cc), one channel of it:   *)
(* requests wait in slots, one per bank is open at a time, one at a time   *)
(* is on the data bus, and the channel turns between reading and writing.  *)
(*                                                                         *)
(* The channel is a record, and a cycle is the composition of what         *)
(* operate() does to it, in that order.  Times are relative to the current *)
(* cycle; the arrival times of waiting requests are kept as ranks.         *)
(***************************************************************************)
EXTENDS Integers, FiniteSets, FiniteSetsExt, SequencesExt

CONSTANTS Block,      \* <<bank, row, column>>
          Bank, RQ_SIZE, WQ_SIZE,
          tACT,       \* tRP + tRCD
          tCAS, TURN_AROUND, RETURN_TIME,
          MaxQueued,  \* bound: requests in the queues of the upper level, and reads owed
          None

HIGH_WM == (WQ_SIZE * 7) \div 8
LOW_WM  == (WQ_SIZE * 6) \div 8

RQ == {<<"R", k>> : k \in 1 .. RQ_SIZE}
WQ == {<<"W", k>> : k \in 1 .. WQ_SIZE}
Slot == RQ \cup WQ
Now == RQ_SIZE + WQ_SIZE   \* later than any rank

VARIABLES
  rq, wq,   \* the queues of the upper level: <<block, response_requested>>
  ch,       \* the channel
  warmup,
  owed      \* owed[b]: how many reads of b still await an answer

vars == <<rq, wq, ch, warmup, owed>>

Init ==
  /\ rq = <<>> /\ wq = <<>> /\ warmup \in BOOLEAN /\ owed = [b \in Block |-> 0]
  /\ ch = [slot |-> [s \in Slot |-> None],
           bank |-> [k \in Bank |-> [valid |-> FALSE, row |-> None, event |-> 0, slot |-> None]],
           active |-> None, dbus |-> 0, write |-> FALSE,
           answered |-> [b \in Block |-> 0]]

\* The upper level asks.
Arrive ==
  /\ Len(rq) + Len(wq) < MaxQueued
  /\ \E b \in Block :
       \/ \E r \in BOOLEAN : /\ owed[b] < MaxQueued
                             /\ rq' = Append(rq, <<b, r>>) /\ UNCHANGED wq
                             /\ owed' = [owed EXCEPT ![b] = @ + (IF r THEN 1 ELSE 0)]
       \/ wq' = Append(wq, <<b, FALSE>>) /\ UNCHANGED <<rq, owed>>
  /\ UNCHANGED <<ch, warmup>>

-----------------------------------------------------------------------------
(* What a cycle does to the channel c.                                     *)

Full(c, S) == {s \in S : c.slot[s] # None}
First(S) == CHOOSE s \in S : \A x \in S : s[2] <= x[2]
Same(c, s, S) == {x \in Full(c, S) \ {s} : c.slot[x].block = c.slot[s].block}
Answer(c, e) == IF e.return THEN [c.answered EXCEPT ![e.block] = @ + e.reads] ELSE c.answered
Drop(c, s) == [c EXCEPT !.slot[s] = None]

\* add_rq and add_wq: the first empty slot.
AddTo(S, c, pkt) ==
  [c EXCEPT !.slot[First(S \ Full(c, S))] =
     [block |-> pkt[1], return |-> pkt[2], reads |-> IF pkt[2] THEN 1 ELSE 0,
      checked |-> FALSE, scheduled |-> FALSE, event |-> Now]]

\* initiate_requests: as many as there are slots for.
Taken(c, S, q) == Min({Len(q), Cardinality(S \ Full(c, S))})
InitiateRequests(c) ==
  LET r == FoldLeft(LAMBDA x, pkt : AddTo(RQ, x, pkt), c, SubSeq(rq, 1, Taken(c, RQ, rq)))
  IN FoldLeft(LAMBDA x, pkt : AddTo(WQ, x, pkt), r, SubSeq(wq, 1, Taken(c, WQ, wq)))

\* The warmup serves every request at once.
Warmup(c) ==
  IF ~warmup THEN c
  ELSE [FoldSet(LAMBDA s, x : [x EXCEPT !.answered = Answer(x, x.slot[s])], c, Full(c, RQ))
          EXCEPT !.slot = [s \in Slot |-> None]]

\* check_collision, for a write: one that is there already is enough.
CollideWrite(c, s) ==
  IF c.slot[s] = None \/ c.slot[s].checked THEN c
  ELSE IF Same(c, s, WQ) # {} THEN Drop(c, s)
  ELSE [c EXCEPT !.slot[s].checked = TRUE]

\* The read at s is answered with the one at x.
MergeRead(c, s, x) ==
  [c EXCEPT !.slot[x].reads = @ + c.slot[s].reads, !.slot[x].return = @ \/ c.slot[s].return]

\* check_collision, for a read: from a write, or with another read.
CollideRead(c, s) ==
  IF c.slot[s] = None \/ c.slot[s].checked THEN c
  ELSE IF \E x \in Full(c, WQ) : c.slot[x].block = c.slot[s].block
  THEN [Drop(c, s) EXCEPT !.answered = Answer(c, c.slot[s])]
  ELSE IF Same(c, s, RQ) # {} THEN Drop(MergeRead(c, s, First(Same(c, s, RQ))), s)
  ELSE [c EXCEPT !.slot[s].checked = TRUE]

CheckCollision(c) ==
  LET w == FoldLeft(LAMBDA x, k : CollideWrite(x, <<"W", k>>), c, [k \in 1 .. WQ_SIZE |-> k])
  IN FoldLeft(LAMBDA x, k : CollideRead(x, <<"R", k>>), w, [k \in 1 .. RQ_SIZE |-> k])

\* The request on the data bus is done.
FinishRequest(c) ==
  IF c.active = None \/ (c.active # None /\ c.bank[c.active].event > 0) THEN c
  ELSE LET s == c.bank[c.active].slot IN
       [Drop(c, s) EXCEPT !.answered = Answer(c, c.slot[s]), !.active = None,
                          !.bank[c.active] = [@ EXCEPT !.valid = FALSE, !.slot = None, !.event = 0]]

Unbalanced(c) ==
  LET r == Cardinality(Full(c, RQ))  w == Cardinality(Full(c, WQ)) IN
  IF c.write THEN w = 0 \/ (r > 0 /\ w < LOW_WM) ELSE w >= HIGH_WM \/ (r = 0 /\ w > 0)

\* A variant: the requests of the banks stay scheduled.
Reset_KeepScheduled(c, s) == [c.slot[s] EXCEPT !.event = Now]

\* A request whose bank is taken from it waits again.
Reset(c, s) == [c.slot[s] EXCEPT !.scheduled = FALSE, !.event = Now]

\* Turn between reading and writing; what is on the bus stays there.
ChangeModes(c) ==
  IF ~Unbalanced(c) THEN c
  ELSE LET stop == {k \in Bank : c.bank[k].valid /\ k # c.active} IN
       [c EXCEPT
         !.slot = [s \in Slot |-> IF s \in {c.bank[k].slot : k \in stop} THEN Reset(c, s) ELSE @[s]],
         !.bank = [k \in Bank |-> IF k \notin stop THEN @[k]
                     ELSE [valid |-> FALSE, event |-> 0, slot |-> None,
                           row |-> IF @[k].event < tCAS THEN None ELSE @[k].row]],
         !.dbus = TURN_AROUND + (IF c.active = None THEN 0 ELSE c.bank[c.active].event),
         !.write = ~@]

\* The bank that has been ready for longest gets the bus.
UseBus(c) ==
  LET busy == {k \in Bank : c.bank[k].valid}
      next == CHOOSE k \in busy : \A x \in busy :
                \/ c.bank[k].event < c.bank[x].event
                \/ c.bank[k].event = c.bank[x].event /\ k <= x IN
  IF c.active # None \/ c.dbus > 0 \/ busy = {} THEN c
  ELSE IF c.bank[next].event > 0 THEN c
  ELSE [c EXCEPT !.active = next, !.bank[next].event = RETURN_TIME]

\* The oldest request that waits gets its bank, if that is free.
ScheduleRequest(c) ==
  LET wait == {s \in Full(c, IF c.write THEN WQ ELSE RQ) : ~c.slot[s].scheduled}
      next == CHOOSE s \in wait : \A x \in wait :
                \/ c.slot[s].event < c.slot[x].event
                \/ c.slot[s].event = c.slot[x].event /\ s[2] <= x[2]
      k == c.slot[next].block[1]  row == c.slot[next].block[2] IN
  IF wait = {} THEN c
  ELSE IF c.bank[k].valid THEN c
  ELSE [c EXCEPT !.slot[next].scheduled = TRUE, !.slot[next].event = 0,
                 !.bank[k] = [valid |-> TRUE, row |-> row, slot |-> next,
                              event |-> tCAS + (IF @.row = row THEN 0 ELSE tACT)]]

\* The clock: arrival times become ranks again, the others are a cycle nearer.
Tick(c) ==
  LET waiting(q) == {s \in Full(c, q) : ~c.slot[s].scheduled}
      rank(s, q) == Cardinality({c.slot[x].event : x \in {x \in waiting(q) :
                                   c.slot[x].event < c.slot[s].event}}) IN
  [c EXCEPT !.slot = [s \in Slot |-> IF @[s] = None \/ (@[s] # None /\ @[s].scheduled) THEN @[s]
                        ELSE [@[s] EXCEPT !.event = rank(s, IF s \in RQ THEN RQ ELSE WQ)]],
            !.bank = [k \in Bank |-> IF @[k].valid THEN [@[k] EXCEPT !.event = @ - 1] ELSE @[k]],
            !.dbus = IF @ > 0 THEN @ - 1 ELSE 0,
            !.answered = [b \in Block |-> 0]]

Serve(c) == ScheduleRequest(UseBus(ChangeModes(FinishRequest(CheckCollision(Warmup(c))))))

Operate ==
  LET c == Serve(InitiateRequests(ch)) IN
  /\ ch' = Tick(c)
  /\ rq' = SubSeq(rq, Taken(ch, RQ, rq) + 1, Len(rq))
  /\ wq' = SubSeq(wq, Taken(ch, WQ, wq) + 1, Len(wq))
  /\ owed' = [b \in Block |-> owed[b] - c.answered[b]]
  /\ UNCHANGED warmup

EndWarmup == warmup /\ warmup' = FALSE /\ UNCHANGED <<rq, wq, ch, owed>>

Next == Arrive \/ Operate \/ EndWarmup

Spec == Init /\ [][Next]_vars

-----------------------------------------------------------------------------
(* Properties.                                                             *)

\* Every read that wants an answer is in the upper level's queue, or counted
\* by a slot that will return one; none is answered twice.
EveryReadIsAnswered == \A b \in Block :
  /\ owed[b] = Cardinality({k \in DOMAIN rq : rq[k] = <<b, TRUE>>})
               + FoldSet(LAMBDA s, n : n + ch.slot[s].reads, 0,
                           {s \in Full(ch, RQ) : ch.slot[s].block = b})
  /\ \A s \in Full(ch, RQ) : ch.slot[s].block = b /\ ch.slot[s].reads > 0 => ch.slot[s].return

\* A request is scheduled while exactly one bank works on it, so that it is
\* neither forgotten nor served twice, and what a bank works on is there.  The
\* banks work for the queue of the mode, but for what is still on the bus.
EveryBankHasItsRequest ==
  /\ \A s \in Slot : LET for == {k \in Bank : ch.bank[k].valid /\ ch.bank[k].slot = s} IN
       IF ch.slot[s] = None THEN for = {}
       ELSE Cardinality(for) = IF ch.slot[s].scheduled THEN 1 ELSE 0
  /\ \A k \in Bank : ch.bank[k].valid /\ k # ch.active =>
       ch.bank[k].slot \in IF ch.write THEN WQ ELSE RQ
=============================================================================
