-------------------------------- MODULE Cpu --------------------------------
(***************************************************************************)
(* The out-of-order core of the ChampSim simulator (ooo_cpu.cc): from the  *)
(* trace through the fetch, decode and dispatch buffers into the reorder   *)
(* buffer, with register dependencies, the load queue, the store queue and *)
(* forwarding between them, to retirement.                                 *)
(*                                                                         *)
(* A step is what one stage of operate() does with one instruction.        *)
(* Widths, latencies and full caches let any stage wait, so the steps of   *)
(* the stages interleave.  The warmup mode, statistics, branch predictors  *)
(* and the grouping of instruction fetches into cache lines are left out:  *)
(* the trace says which branches will be mispredicted.                     *)
(***************************************************************************)
EXTENDS Integers, Sequences, FiniteSets, FiniteSetsExt

CONSTANTS Reg, Addr,
          N,        \* bound: instructions of the trace
          Kind,     \* what an instruction may be: a record of the sets reads,
                    \* writes, loads and stores, and of branch: "no", or where
                    \* its misprediction is found, "decode" or "execute"
          BUFFER_SIZE,  \* IFETCH_, DECODE_ and DISPATCH_BUFFER_SIZE
          ROB_SIZE, LQ_SIZE, SQ_SIZE,
          None

VARIABLES
  trace,     \* the instructions read so far, for the properties
  stopped,   \* fetch_resume_cycle is the maximum
  ifetch, decode, dispatch,  \* the buffers
  rob,       \* ROB
  producers, \* reg_producers[r], sorted by instr_id
  lq,        \* LQ[k], or None
  sq,        \* SQ
  owed       \* owed[a]: the responses to loads of a that L1D has to give

front == <<trace, stopped, ifetch, decode, dispatch>>
vars  == <<front, rob, producers, lq, sq, owed>>

Init ==
  /\ trace = <<>> /\ stopped = FALSE
  /\ ifetch = <<>> /\ decode = <<>> /\ dispatch = <<>>
  /\ rob = <<>> /\ sq = <<>>
  /\ producers = [r \in Reg |-> {}]
  /\ lq = [k \in 1 .. LQ_SIZE |-> None]
  /\ owed = [a \in Addr |-> 0]

\* id indexes the trace; done counts completed_mem_ops; deps is
\* num_reg_dependent and heirs who counts this one there.
Entry(id, branch) ==
  [id |-> id, branch |-> branch, fetched |-> FALSE, done |-> 0, deps |-> 0, heirs |-> {},
   scheduled |-> FALSE, executed |-> "no"]

MemOps(x) == Cardinality(trace[x.id].loads) + Cardinality(trace[x.id].stores)

\* LSQ_ENTRY::finish, n times for instruction id.
Finish(id, n) ==
  rob' = [k \in DOMAIN rob |-> IF rob[k].id = id THEN [rob[k] EXCEPT !.done = @ + n] ELSE rob[k]]

-----------------------------------------------------------------------------
(* The front end.                                                          *)

\* initialize_instruction: a misprediction stops fetch.
Initialize ==
  /\ ~stopped /\ Len(ifetch) < BUFFER_SIZE /\ Len(trace) < N
  /\ \E kind \in Kind :
       /\ trace' = Append(trace, kind)
       /\ ifetch' = Append(ifetch, Entry(Len(trace) + 1, kind.branch))
       /\ stopped' = (kind.branch # "no")
  /\ UNCHANGED <<decode, dispatch, rob, producers, lq, sq, owed>>

\* The decoded instruction buffer has it, or L1I answers, in any order.
Fetch ==
  /\ \E k \in DOMAIN ifetch : ~ifetch[k].fetched /\ ifetch' = [ifetch EXCEPT ![k].fetched = TRUE]
  /\ UNCHANGED <<trace, stopped, decode, dispatch, rob, producers, lq, sq, owed>>

PromoteToDecode ==
  /\ ifetch # <<>> /\ Head(ifetch).fetched /\ Len(decode) < BUFFER_SIZE
  /\ decode' = Append(decode, Head(ifetch)) /\ ifetch' = Tail(ifetch)
  /\ UNCHANGED <<trace, stopped, dispatch, rob, producers, lq, sq, owed>>

\* Direct jumps, and branches with the right direction, resume fetch here.
DecodeInstruction ==
  /\ decode # <<>> /\ Len(dispatch) < BUFFER_SIZE
  /\ LET x == Head(decode) IN
     IF x.branch = "decode"
     THEN stopped' = FALSE /\ dispatch' = Append(dispatch, [x EXCEPT !.branch = "no"])
     ELSE UNCHANGED stopped /\ dispatch' = Append(dispatch, x)
  /\ decode' = Tail(decode)
  /\ UNCHANGED <<trace, ifetch, rob, producers, lq, sq, owed>>

-----------------------------------------------------------------------------
(* Dispatch: do_memory_scheduling.                                         *)

Free == {k \in DOMAIN lq : lq[k] = None}

\* The youngest store of address a in the store queue, or 0.
Prior(a) == Max({0} \cup {k \in DOMAIN sq : sq[k].addr = a})

\* A load in slot k takes its value from a store that has executed, waits
\* for one that has not, or goes to L1D.
LoadEntry(id, a) ==
  [id |-> id, addr |-> a, ready |-> FALSE, issued |-> FALSE,
   producer |-> IF Prior(a) = 0 THEN None ELSE sq[Prior(a)].id]

Forwarded(a) == Prior(a) # 0 /\ sq[Prior(a)].issued

DispatchInstruction ==
  /\ dispatch # <<>> /\ Len(rob) < ROB_SIZE
  /\ LET x == Head(dispatch)  kind == trace[x.id]
         loads == {a \in kind.loads : ~Forwarded(a)}
         slot == CHOOSE f \in [loads -> Free] :
                   \A a, b \in loads : f[a] = f[b] => a = b
     IN
     /\ Cardinality(Free) >= Cardinality(kind.loads)
     /\ Cardinality(kind.stores) + Len(sq) <= SQ_SIZE
     /\ rob' = Append(rob, [x EXCEPT !.done = Cardinality(kind.loads \ loads)])
     /\ lq' = [k \in DOMAIN lq |->
                 IF \E a \in loads : slot[a] = k
                 THEN LoadEntry(x.id, CHOOSE a \in loads : slot[a] = k) ELSE lq[k]]
     /\ \E order \in {o \in [1 .. Cardinality(kind.stores) -> kind.stores] :
                        \A i, j \in DOMAIN o : o[i] = o[j] => i = j} :
          sq' = [k \in DOMAIN sq |->
                   [sq[k] EXCEPT !.waiters = @ \cup {slot[a] : a \in {b \in loads : Prior(b) = k}}]]
                \o [i \in DOMAIN order |->
                   [id |-> x.id, addr |-> order[i], ready |-> FALSE, issued |-> FALSE, waiters |-> {}]]
  /\ dispatch' = Tail(dispatch)
  /\ UNCHANGED <<trace, stopped, ifetch, decode, producers, owed>>

-----------------------------------------------------------------------------
(* The reorder buffer.                                                     *)

\* A variant: only one source register is looked at.
Producers_First(id) ==
  LET r == CHOOSE r \in trace[id].reads : TRUE IN
  IF trace[id].reads = {} \/ producers[r] = {} THEN {} ELSE {Max(producers[r])}

\* The youngest instructions under way that write what id reads.
Producers(id) == {Max(producers[r]) : r \in {s \in trace[id].reads : producers[s] # {}}}

\* do_scheduling, in program order.
ScheduleInstruction ==
  \E k \in DOMAIN rob :
    /\ ~rob[k].scheduled /\ \A j \in 1 .. k - 1 : rob[j].scheduled
    /\ LET id == rob[k].id  P == Producers(id) IN
       /\ rob' = [j \in DOMAIN rob |->
            IF j = k THEN [rob[k] EXCEPT !.deps = Cardinality(P), !.scheduled = TRUE]
            ELSE IF rob[j].id \in P THEN [rob[j] EXCEPT !.heirs = @ \cup {id}] ELSE rob[j]]
       /\ producers' = [r \in Reg |-> IF r \in trace[id].writes THEN producers[r] \cup {id}
                                                                ELSE producers[r]]
    /\ UNCHANGED <<front, lq, sq, owed>>

\* do_execution: its loads and stores have their addresses.
ExecuteInstruction ==
  \E k \in DOMAIN rob :
    /\ rob[k].scheduled /\ rob[k].executed = "no" /\ rob[k].deps = 0
    /\ rob' = [rob EXCEPT ![k].executed = "inflight"]
    /\ lq' = [j \in DOMAIN lq |-> IF lq[j] # None /\ lq[j].id = rob[k].id
                                  THEN [lq[j] EXCEPT !.ready = TRUE] ELSE lq[j]]
    /\ sq' = [j \in DOMAIN sq |-> IF sq[j].id = rob[k].id
                                  THEN [sq[j] EXCEPT !.ready = TRUE] ELSE sq[j]]
    /\ UNCHANGED <<front, producers, owed>>

\* do_complete_execution: those that wait for its registers may go on.
CompleteInflightInstruction ==
  \E k \in DOMAIN rob :
    /\ rob[k].executed = "inflight" /\ rob[k].done = MemOps(rob[k])
    /\ rob' = [j \in DOMAIN rob |->
         IF j = k THEN [rob[k] EXCEPT !.executed = "done"]
         ELSE IF rob[j].id \in rob[k].heirs THEN [rob[j] EXCEPT !.deps = @ - 1] ELSE rob[j]]
    /\ producers' = [r \in Reg |-> producers[r] \ {rob[k].id}]
    /\ stopped' = (stopped /\ rob[k].branch = "no")
    /\ UNCHANGED <<trace, ifetch, decode, dispatch, lq, sq, owed>>

RetireRob ==
  /\ rob # <<>> /\ Head(rob).executed = "done"
  /\ rob' = Tail(rob)
  /\ UNCHANGED <<front, producers, lq, sq, owed>>

-----------------------------------------------------------------------------
(* operate_lsq and handle_memory_return.                                   *)

\* do_finish_store, in order; the loads that wait for the store have its value.
FinishStore ==
  \E k \in DOMAIN sq :
    /\ ~sq[k].issued /\ sq[k].ready /\ \A j \in 1 .. k - 1 : sq[j].issued
    /\ rob' = [j \in DOMAIN rob |->
         [rob[j] EXCEPT !.done = @ + (IF rob[j].id = sq[k].id THEN 1 ELSE 0)
            + Cardinality({w \in sq[k].waiters : lq[w] # None /\ lq[w].id = rob[j].id})]]
    /\ lq' = [w \in DOMAIN lq |-> IF w \in sq[k].waiters THEN None ELSE lq[w]]
    /\ sq' = [sq EXCEPT ![k].issued = TRUE]
    /\ UNCHANGED <<front, producers, owed>>

\* do_complete_store, once the instruction has retired.
CompleteStore ==
  /\ sq # <<>> /\ Head(sq).ready
  /\ rob # <<>> => Head(sq).id < Head(rob).id
  /\ sq' = Tail(sq)
  /\ UNCHANGED <<front, rob, producers, lq, owed>>

ExecuteLoad ==
  \E k \in DOMAIN lq :
    /\ lq[k] # None /\ lq[k].producer = None /\ ~lq[k].issued /\ lq[k].ready
    /\ lq' = [lq EXCEPT ![k].issued = TRUE]
    /\ owed' = [owed EXCEPT ![lq[k].addr] = @ + 1]
    /\ UNCHANGED <<front, rob, producers, sq>>

\* One response serves every load of the block that has been issued, and may
\* be for several requests that the cache has merged.
MemoryReturn(a) ==
  LET served == {k \in DOMAIN lq : lq[k] # None /\ lq[k].issued /\ lq[k].addr = a} IN
  /\ owed[a] > 0
  /\ \E left \in 0 .. owed[a] - 1 : owed' = [owed EXCEPT ![a] = left]
  /\ rob' = [j \in DOMAIN rob |->
       [rob[j] EXCEPT !.done = @ + Cardinality({k \in served : lq[k].id = rob[j].id})]]
  /\ lq' = [k \in DOMAIN lq |-> IF k \in served THEN None ELSE lq[k]]
  /\ UNCHANGED <<front, producers, sq>>

Next ==
  \/ Initialize \/ Fetch \/ PromoteToDecode \/ DecodeInstruction \/ DispatchInstruction
  \/ ScheduleInstruction \/ ExecuteInstruction \/ CompleteInflightInstruction \/ RetireRob
  \/ FinishStore \/ CompleteStore \/ ExecuteLoad
  \/ \E a \in Addr : MemoryReturn(a)

Spec == Init /\ [][Next]_vars

-----------------------------------------------------------------------------
(* Properties.                                                             *)

\* The loads of x that have not got their value, the stores that have not
\* executed.
Loading(x) == {k \in DOMAIN lq : lq[k] # None /\ lq[k].id = x.id}
Storing(x) == {k \in DOMAIN sq : sq[k].id = x.id /\ ~sq[k].issued}

\* The order of the program, as far as it can be noticed, is kept.  With x
\* before y and nothing between them that writes the same: y does not start
\* before x has completed, if y reads what x writes; y's load has no value
\* before x's store has executed; and an instruction completes exactly when
\* all of its loads and stores have finished once.
ProgramOrderKept ==
  /\ \A i, j \in DOMAIN rob : i < j =>
       LET x == rob[i]  y == rob[j]
           Last(S) == \A k \in i + 1 .. j - 1 : S \cap trace[rob[k].id].writes = {}
           LastStore(a) == \A k \in i + 1 .. j - 1 : a \notin trace[rob[k].id].stores IN
       /\ x.id < y.id
       /\ \A r \in trace[x.id].writes \cap trace[y.id].reads :
            Last({r}) /\ y.executed # "no" => x.executed = "done"
       /\ \A a \in trace[x.id].stores \cap trace[y.id].loads :
            LastStore(a) /\ (\A k \in Loading(y) : lq[k].addr # a)
              => \A k \in Storing(x) : sq[k].addr # a
  /\ \A i \in DOMAIN rob : LET x == rob[i] IN
       /\ x.done + Cardinality(Loading(x)) + Cardinality(Storing(x)) = MemOps(x)
       /\ x.executed = "done" => x.done = MemOps(x)
  /\ \A k \in DOMAIN sq : \A w \in sq[k].waiters :
       ~sq[k].issued => lq[w] # None /\ lq[w].producer = sq[k].id

\* The core never stops before the end of the trace: fetch waits for a
\* branch that is on its way, and what waits for registers, stores, L1D or
\* room in a queue waits for something that goes on.
NeverStuck == (Len(trace) = N /\ rob = <<>> /\ ifetch \o decode \o dispatch = <<>>) \/ ENABLED Next
=============================================================================
