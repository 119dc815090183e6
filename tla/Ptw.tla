-------------------------------- MODULE Ptw ---------------------------------
(***************************************************************************)
(* ChampSim's page table walker (ptw.cc) over its virtual memory           *)
(* (vmem.cc): a walk reads one entry per level from the lower level, its   *)
(* tables are made as they are first reached, and caches of entries        *)
(* (PSCLs) let it start further down.                                      *)
(*                                                                         *)
(* Latencies are abstracted: what is due in a cycle is a prefix of what    *)
(* waits.  An address is <<page, place in it>>; a page of entries has      *)
(* RADIX of them, PARTS of these fit one page, and every entry is a block  *)
(* of its own.  Requests that want no answer are left out.                 *)
(***************************************************************************)
EXTENDS Integers, Sequences, FiniteSets, FiniteSetsExt, SequencesExt, Bags, Lru

CONSTANTS CPU, OtherCPU,
          Vpage,       \* the pages of virtual memory in use
          OtherVpage,  \* bound: those that other CPUs use
          LEVELS, RADIX, PARTS, WAYS,
          MAX_READ, MAX_FILL,
          LL_SIZE,     \* requests the lower level has room for
          MaxOwed,     \* bound: requests of the upper level that wait
          None

VARIABLES
  vm,         \* the VirtualMemory: vpages, ptes, and the next pages of each kind
  rq,         \* the upper level's queue: pages
  pscl,       \* pscl[l]: addresses of entries by the bits above level l
  mshr, finished, completed,
  asked,      \* the bag of addresses that the lower level will answer
  owed        \* owed[v]: how many requests for v still await an answer

vars == <<vm, rq, pscl, mshr, finished, completed, asked, owed>>

Shift(v, l) == v \div (RADIX ^ (l - 1))
Offset(v, l) == Shift(v, l) % RADIX

-----------------------------------------------------------------------------
(* vmem.cc, on the memory m.                                               *)

Mapped(f, k) == k \in DOMAIN f
With(f, k, x) == [y \in DOMAIN f \cup {k} |-> IF y = k THEN x ELSE f[y]]

PagePop(m) == [m EXCEPT !.page = @ + 1]

\* va_to_pa: a page for the key, if it has none.
VaToPa(m, key) ==
  IF Mapped(m.vpages, key) THEN m
  ELSE PagePop([m EXCEPT !.vpages = With(@, key, m.page)])

\* get_pte_pa: the table of level l, made in the next part of a page.
FirstPte(m) == IF m.pte = None THEN PagePop([m EXCEPT !.pte = <<m.page, 0>>]) ELSE m
Key(c, v, l) == <<c, Shift(v, l), l>>
GetPte(m, c, v, l) ==
  LET m1 == FirstPte(m)  next == m1.pte IN
  IF Mapped(m1.ptes, Key(c, v, l)) THEN m1
  ELSE IF next[2] + 1 < PARTS
  THEN [m1 EXCEPT !.ptes = With(@, Key(c, v, l), next), !.pte = <<next[1], next[2] + 1>>]
  ELSE PagePop([m1 EXCEPT !.ptes = With(@, Key(c, v, l), next), !.pte = <<m1.page, 0>>])

\* The address get_pte_pa returns.
PteAddr(m, c, v, l) ==
  LET t == m.ptes[Key(c, v, l)] IN <<t[1], t[2] * RADIX + Offset(v, l)>>

NoVm == [vpages |-> <<>>, ptes |-> <<>>, page |-> 0, pte |-> None]
CR3 == PteAddr(GetPte(NoVm, CPU, 0, LEVELS), CPU, 0, LEVELS)

Init ==
  /\ vm = FoldSet(LAMBDA c, m : GetPte(m, c, 0, LEVELS), GetPte(NoVm, CPU, 0, LEVELS), OtherCPU)
  /\ rq = <<>> /\ pscl = [l \in 2 .. LEVELS |-> <<>>]
  /\ mshr = <<>> /\ finished = <<>> /\ completed = <<>>
  /\ asked = EmptyBag /\ owed = [v \in Vpage |-> 0]

\* The upper level asks; another CPU's walker uses the virtual memory.
Waiting == Len(rq) + Len(mshr) + Len(finished) + Len(completed)
Arrive ==
  /\ Waiting < MaxOwed
  /\ \E v \in Vpage : rq' = Append(rq, v) /\ owed' = [owed EXCEPT ![v] = @ + 1]
  /\ UNCHANGED <<vm, pscl, mshr, finished, completed, asked>>

OtherWalker ==
  /\ \E c \in OtherCPU, v \in OtherVpage :
       \/ vm' = VaToPa(vm, <<c, v>>)
       \/ \E l \in 1 .. LEVELS - 1 : vm' = GetPte(vm, c, v, l)
  /\ UNCHANGED <<rq, pscl, mshr, finished, completed, asked, owed>>

-----------------------------------------------------------------------------
(* A cycle: w is what it has come to, and w.next the walks that it moves.  *)

\* step_translation: ask for the walk's next entry, if the lower level can;
\* else it and those behind it wait.
StepTranslation(w, e) ==
  IF BagCardinality(w.asked) >= LL_SIZE THEN [w EXCEPT !.stop = TRUE]
  ELSE [w EXCEPT !.next = Append(@, e), !.asked = @ (+) SetToBag({e.addr})]

\* handle_fill: keep the entry that was read, and go one level down.
HandleFill(w, e) ==
  IF w.stop THEN w
  ELSE StepTranslation(
         [w EXCEPT !.pscl[e.level + 1] = Fill(@, Shift(e.v, e.level + 1), <<e.data, e.level - 1>>, WAYS)],
         [e EXCEPT !.addr = e.data, !.level = e.level - 1, !.data = None])

\* handle_read: start at the deepest level whose entry is cached.
HandleRead(w, v) ==
  LET hits == {l \in 2 .. LEVELS : Lookup(w.pscl[l], Shift(v, l)) # <<>>}
      start == IF hits = {} THEN <<CR3, LEVELS - 1>>
               ELSE LET l == CHOOSE l \in hits : \A x \in hits : l <= x
                    IN Lookup(w.pscl[l], Shift(v, l))[1][2]
      seen == [w EXCEPT !.pscl = [l \in 2 .. LEVELS |-> CheckHit(w.pscl[l], Shift(v, l))]] IN
  IF w.stop THEN w
  ELSE StepTranslation(seen,
         [v |-> v, addr |-> <<start[1][1], IF start[2] = 0 THEN 0 ELSE Offset(v, start[2])>>,
          level |-> start[2], data |-> None])

\* finish_packet: what each walk finds in the block that has come.
FinishStep(m, e) == IF e.level > 0 THEN GetPte(m, CPU, e.v, e.level) ELSE VaToPa(m, <<CPU, e.v>>)
Found(m, e) == IF e.level > 0 THEN PteAddr(m, CPU, e.v, e.level) ELSE m.vpages[<<CPU, e.v>>]

\* The walks that wait for the block at a.
Hits(a) == SelectSeq(mshr, LAMBDA e : e.addr = a)

\* The whole of operate(), with an answer for a, or none: the lower level may
\* answer all that asked for a at once, or one of them.  The first d of the
\* completed walks are due, and the first f of the others.
Operate ==
  \E a \in BagToSet(asked) \cup {None}, all \in BOOLEAN :
    LET hits == IF a = None THEN <<>> ELSE Hits(a)
        m == FoldLeft(FinishStep, vm, hits)
        step == [k \in DOMAIN hits |-> [hits[k] EXCEPT !.data = Found(m, hits[k])]]
        fin == finished \o SelectSeq(step, LAMBDA e : e.level > 0)
        com == completed \o SelectSeq(step, LAMBDA e : e.level = 0)
        got == IF a = None THEN EmptyBag
               ELSE [x \in {a} |-> IF all THEN CopiesIn(a, asked) ELSE 1]
        w0 == [pscl |-> pscl, next |-> <<>>, stop |-> FALSE, asked |-> asked (-) got] IN
    /\ a = None => ~all
    /\ vm' = m
    /\ \E d \in 0 .. Min({MAX_FILL, Len(com)}) : \E f \in 0 .. Min({MAX_FILL - d, Len(fin)}) :
         LET w1 == FoldLeft(HandleFill, w0, SubSeq(fin, 1, f))
             w2 == FoldLeft(HandleRead, [w1 EXCEPT !.stop = FALSE],
                            SubSeq(rq, 1, Min({MAX_READ, Len(rq)}))) IN
         /\ pscl' = w2.pscl /\ asked' = w2.asked
         /\ completed' = SubSeq(com, d + 1, Len(com))
         /\ finished' = SubSeq(fin, Len(w1.next) + 1, Len(fin))
         /\ rq' = SubSeq(rq, 1 + Len(w2.next) - Len(w1.next), Len(rq))
         /\ mshr' = SelectSeq(mshr, LAMBDA e : e.addr # a) \o w2.next
         /\ owed' = [v \in Vpage |-> owed[v] -
                       Len(SelectSeq(SubSeq(com, 1, d), LAMBDA e : e.v = v))]

Next == Arrive \/ OtherWalker \/ Operate

Spec == Init /\ [][Next]_vars

-----------------------------------------------------------------------------
(* Properties.                                                             *)

\* No page is given to two virtual pages, or to one and a table, and no part
\* of a page to two tables.
PagesApart ==
  /\ \A k, j \in DOMAIN vm.vpages : k # j => vm.vpages[k] # vm.vpages[j]
  /\ \A k, j \in DOMAIN vm.ptes : k # j => vm.ptes[k] # vm.ptes[j]
  /\ \A k \in DOMAIN vm.vpages, j \in DOMAIN vm.ptes :
       vm.vpages[k] \notin {vm.ptes[j][1], vm.page}

\* Every request is answered once: it is still in the walker, a walk that
\* waits has an answer coming, and one that is done has the right page.
EveryWalkIsAnswered ==
  /\ \A v \in Vpage :
       owed[v] = Len(SelectSeq(rq, LAMBDA x : x = v))
                 + Len(SelectSeq(mshr \o finished \o completed, LAMBDA e : e.v = v))
  /\ \A k \in DOMAIN mshr : BagIn(mshr[k].addr, asked)
  /\ \A k \in DOMAIN completed :
       LET e == completed[k] IN
       <<CPU, e.v>> \in DOMAIN vm.vpages /\ e.data = vm.vpages[<<CPU, e.v>>]
=============================================================================
