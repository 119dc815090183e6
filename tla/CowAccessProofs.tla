--------------------------- MODULE CowAccessProofs ---------------------------
(***************************************************************************)
(* Proofs about module Cow: the pages that must be there are there, so     *)
(* that the kernel's own assertions hold; what a CPU has cached is what    *)
(* the page tables say; and user programs cannot see that pages are        *)
(* shared: each process has a memory of its own (module PrivateMem).       *)
(***************************************************************************)
EXTENDS CowProofs

-----------------------------------------------------------------------------
(* Kernel stacks and page directories.                                     *)

Reaping(r) == pc[r] \in {"dv", "dv_clear", "fv_tab", "w_done"}
NoDirPcs == {"b_kstack", "f_kstack", "s_pgdir", "f_fail", "w_done"}

\* Process q has its kernel stack and its page directory.
Whole(q) == ref[KStack(q)] # None /\ ref[PgDir(Own(q))] # None
Stocked(q) ==
  /\ state[q] = "LIVE" => Whole(q)
  /\ state[q] = "ZOMBIE" => Whole(q) \/ \E r \in Proc : Reaping(r) /\ tgt[r][1] = q
  /\ Busy(q) /\ pc[q] \notin NoDirPcs => ref[PgDir(tgt[q])] # None
  /\ Busy(q) /\ state[tgt[q][1]] = "EMBRYO" /\ pc[q] \notin {"b_kstack", "f_kstack"}
       => ref[KStack(tgt[q][1])] # None
SInv == \A q \in Proc : Stocked(q)

-----------------------------------------------------------------------------
(* User pages.                                                             *)

\* Space s has every page below a.
Full(s, a) == \A va \in Va : va < a => ref[PTE(s, va)] # None

\* What a live process sees is there.
Viewed(q) == state[q] = "LIVE" => Full(Own(q), ViewSz(q))

\* What a kernel path has built, or leaves, is there.
GrowPcs == {"a_alloc", "a_map", "dv", "dv_clear", "g_done"}
FillPcs == GrowPcs \cup {"f_copy", "f_map", "x_load", "x_stack"}
Filling(q) ==
  /\ ret[q] = "g_done" => pc[q] \in GrowPcs
  /\ pc[q] \in {"a_alloc", "a_map", "f_copy", "f_map"} => Full(tgt[q], cur[q])
  /\ pc[q] \in {"x_load", "x_stack"} => Full(tgt[q], hi[q])
  /\ pc[q] = "g_done" => Full(tgt[q], IF hi[q] = sz[q] THEN lo[q] ELSE hi[q])
  /\ pc[q] \in {"dv", "dv_clear"} =>
       /\ cur[q] >= lo[q]
       /\ ret[q] \in {"user", "a_free"} /\ tgt[q] = Own(q) => lo[q] >= sz[q]
FInv == \A q \in Proc : Viewed(q) /\ Filling(q)

-----------------------------------------------------------------------------
(* Cached translations.                                                    *)

Cached(q) ==
  /\ state[q] # "LIVE" => tlb[q] = NoTlb
  /\ \A va \in Va : tlb[q][va] # None =>
       /\ va < sz[q]
       /\ va < ViewSz(q) => tlb[q][va] = Entry(Own(q), va)
TInv == \A q \in Proc : Cached(q)

-----------------------------------------------------------------------------
(* Kernel stacks and page directories stay until they are given back.      *)

RootsKept ==
  /\ \A q \in Proc : ref[KStack(q)] # None => ref'[KStack(q)] # None
  /\ \A s \in Space : ref[PgDir(s)] # None => ref'[PgDir(s)] # None

LEMMA RootsOne ==
  ASSUME MemOK, NEW s \in Slot, NEW x, ref' = [ref EXCEPT ![s] = x],
         x # None \/ \A q \in Proc, t \in Space : s # KStack(q) /\ s # PgDir(t)
  PROVE  RootsKept
<1>1. \A t \in Slot : t # s => ref'[t] = ref[t]
  BY DEF MemOK
<1>2. ref'[s] = x
  BY DEF MemOK
<1>3. ASSUME NEW t \in Slot, ref[t] # None, t # s \/ x # None PROVE ref'[t] # None
  BY <1>1, <1>2, <1>3
<1>4. \A q \in Proc : ref[KStack(q)] # None => ref'[KStack(q)] # None
  <2>1. TAKE q \in Proc
  <2>2. <<q, 0>> \in Space
    BY DEF Space
  <2>3. KStack(q) \in Slot /\ (KStack(q) # s \/ x # None)
    BY <2>2, SlotIn
  <2>4. QED
    BY <1>3, <2>3
<1>5. \A u \in Space : ref[PgDir(u)] # None => ref'[PgDir(u)] # None
  <2>1. TAKE u \in Space
  <2>2. u[1] \in Proc
    BY DEF Space
  <2>3. PgDir(u) \in Slot /\ (PgDir(u) # s \/ x # None)
    BY <2>2, SlotIn
  <2>4. QED
    BY <1>3, <2>3
<1>6. QED
  BY <1>4, <1>5 DEF RootsKept

LEMMA RootsFree ==
  ASSUME MemOK, NEW s \in Slot, NEW d \in BOOLEAN, KfreeSlot(s, d),
         \A q \in Proc, t \in Space : s # KStack(q) /\ s # PgDir(t)
  PROVE  RootsKept
<1>1. CASE d
  BY <1>1, RootsOne DEF KfreeSlot
<1>2. CASE ~d
  BY <1>2 DEF KfreeSlot, RootsKept
<1>3. QED
  BY <1>1, <1>2

LEMMA RootsMap ==
  ASSUME MemOK, NEW p \in Proc, NEW s \in Space, NEW va \in Va, NEW fl,
         Mappages(p, s, va, fl)
  PROVE  RootsKept
BY MappagesSets DEF RootsKept, KeepStack, KeepDir

LEMMA StockedOther ==
  ASSUME IInv, SInv, NEW p \in Proc, Elsewhere(p), NEW q \in Proc \ {p},
         state'[q] = state[q], Whole(q) => Whole(q)',
         Busy(q) => /\ state'[tgt[q][1]] = state[tgt[q][1]]
                    /\ ref[PgDir(tgt[q])] # None => ref'[PgDir(tgt[q])] # None
                    /\ ref[KStack(tgt[q][1])] # None => ref'[KStack(tgt[q][1])] # None,
         Reaping(p) /\ tgt[p][1] = q => Whole(q)' \/ (Reaping(p)' /\ tgt'[p] = tgt[p])
  PROVE  Stocked(q)'
<1>1. Stocked(q) /\ ((pc'[q] = pc[q] /\ tgt'[q] = tgt[q]) \/ pc'[q] = "user")
  BY DEF SInv, Elsewhere
<1>2. (state[q] = "LIVE" => Whole(q)) /\ (Busy(q)' => Busy(q) /\ pc'[q] = pc[q] /\ tgt'[q] = tgt[q])
  BY <1>1 DEF Stocked, Busy
<1>3. ASSUME state[q] = "ZOMBIE", ~Whole(q)'
      PROVE  \E r \in Proc : Reaping(r)' /\ tgt'[r][1] = q
  <2>1. PICK r \in Proc : Reaping(r) /\ tgt[r][1] = q
    BY <1>1, <1>3 DEF Stocked
  <2>2. CASE r = p
    BY <1>3, <2>1, <2>2
  <2>3. CASE r # p
    BY <2>1, <2>3 DEF Elsewhere, Reaping
  <2>4. QED
    BY <2>2, <2>3
<1>4. Busy(q)' /\ pc'[q] \notin NoDirPcs => ref'[PgDir(tgt'[q])] # None
  BY <1>1, <1>2 DEF Stocked
<1>5. Busy(q)' /\ state'[tgt'[q][1]] = "EMBRYO" /\ pc'[q] \notin {"b_kstack", "f_kstack"}
        => ref'[KStack(tgt'[q][1])] # None
  BY <1>1, <1>2 DEF Stocked
<1>6. QED
  BY <1>2, <1>3, <1>4, <1>5 DEF Stocked

\* What p itself must show when no root goes.
LEMMA RootStep ==
  ASSUME IInv, SInv, NEW p \in Proc, Elsewhere(p), UNCHANGED <<state, side>>, RootsKept,
         Reaping(p) => tgt[p][1] = p \/ (Reaping(p)' /\ tgt'[p] = tgt[p]),
         Busy(p)' /\ pc'[p] \notin NoDirPcs => ref'[PgDir(tgt'[p])] # None,
         Busy(p)' /\ state[tgt'[p][1]] = "EMBRYO" /\ pc'[p] \notin {"b_kstack", "f_kstack"}
           => ref'[KStack(tgt'[p][1])] # None
  PROVE  SInv'
<1>1. ASSUME NEW q \in Proc PROVE Whole(q) => Whole(q)'
  <2>1. Own(q)' = Own(q) /\ Own(q) \in Space
    BY OwnIn, Types DEF Own
  <2>2. QED
    BY <2>1 DEF Whole, RootsKept
<1>2. ASSUME NEW q \in Proc \ {p} PROVE Stocked(q)'
  BY <1>1, StockedOther, Types DEF RootsKept
<1>3. Stocked(p)'
  <2>1. state[p] = "LIVE" => Whole(p)'
    BY <1>1 DEF SInv, Stocked
  <2>2. ASSUME state[p] = "ZOMBIE", ~Whole(p)'
        PROVE  \E r \in Proc : Reaping(r)' /\ tgt'[r][1] = p
    <3>1. PICK r \in Proc : Reaping(r) /\ tgt[r][1] = p
      BY <1>1, <2>2 DEF SInv, Stocked
    <3>2. Busy(r)
      BY <3>1 DEF Reaping, Busy
    <3>3. r # p
      BY <2>2, <3>1, <3>2, Types DEF ThreadsApart, Busy
    <3>4. QED
      BY <3>1, <3>3 DEF Elsewhere, Reaping
  <2>3. QED
    BY <2>1, <2>2 DEF Stocked
<1>4. QED
  BY <1>2, <1>3 DEF SInv

\* A path that goes on in its space, or ends.
LEMMA GoOn ==
  ASSUME IInv, SInv, NEW p \in Proc, Elsewhere(p), UNCHANGED <<state, side>>, RootsKept,
         Busy(p), pc[p] \notin NoDirPcs, Busy(p)' => tgt'[p] = tgt[p],
         Reaping(p) => tgt[p][1] = p \/ (Reaping(p)' /\ tgt'[p] = tgt[p])
  PROVE  SInv'
<1>1. /\ ref[PgDir(tgt[p])] # None
      /\ state[tgt[p][1]] = "EMBRYO" => ref[KStack(tgt[p][1])] # None
  BY DEF SInv, Stocked, NoDirPcs
<1>2. QED
  BY <1>1, RootStep, Types DEF RootsKept

LEMMA PanicStocked == ASSUME IInv, SInv, NEW m, Panic(m) PROVE SInv'
BY DEF Panic, mm, pt, kt, loc, SInv, Stocked, Busy, Reaping, Whole, Own
LEMMA KfreePanicStocked == ASSUME IInv, SInv, NEW s, KfreePanic(s) PROVE SInv'
BY PanicStocked DEF KfreePanic
LEMMA RemapStocked == ASSUME IInv, SInv, NEW s, NEW va, Remap(s, va) PROVE SInv'
BY PanicStocked DEF Remap
\* A step that changes p and the process that p works on.
LEMMA TouchStocked ==
  ASSUME IInv, SInv, NEW p \in Proc, Busy(p), Elsewhere(p), RefLocal(p),
         NEW np, np = tgt[p][1],
         \A q \in Proc \ {p, np} : state'[q] = state[q] /\ side'[q] = side[q],
         Stocked(p)', np # p => Stocked(np)'
  PROVE  SInv'
<1>1. ASSUME NEW q \in Proc \ {p, np} PROVE Stocked(q)'
  <2>1. /\ Keep(q) /\ Own(q) \in Space /\ Own(q)' = Own(q) /\ Own(q)[1] = q
        /\ state'[q] = state[q]
    BY RefLocalKeeps, OwnIn, Types DEF Own
  <2>2. Whole(q) => Whole(q)'
    BY <2>1 DEF Whole, Keep, KeepStack, KeepDir
  <2>3. ASSUME Busy(q)
        PROVE  /\ state'[tgt[q][1]] = state[tgt[q][1]]
               /\ ref'[PgDir(tgt[q])] = ref[PgDir(tgt[q])]
               /\ ref'[KStack(tgt[q][1])] = ref[KStack(tgt[q][1])]
    <3>1. tgt[q][1] \in Proc \ {p, np} /\ tgt[q] \in Space
      BY <2>3, Apart, Types
    <3>2. Keep(tgt[q][1])
      BY <3>1, RefLocalKeeps
    <3>3. QED
      BY <3>1, <3>2 DEF Keep, KeepStack, KeepDir
  <2>4. QED
    BY <2>1, <2>2, <2>3, StockedOther
<1>2. QED
  BY <1>1 DEF SInv

-----------------------------------------------------------------------------
(* The page fault handler, setupkvm and userinit.                          *)

\* A thread that is not tearing a space down.
Builds(p) == Busy(p) /\ pc[p] \notin NoDirPcs /\ ~Reaping(p)

\* kalloc fills a slot of its own, and the path goes on.
LEMMA AllocStocked ==
  ASSUME IInv, SInv, NEW p \in Proc, Builds(p), Elsewhere(p), UNCHANGED <<state, side>>,
         NEW pg \in freelist, Kalloc(pg), NEW s \in Slot, ref' = [ref EXCEPT ![s] = pg],
         Busy(p)' => tgt'[p] = tgt[p]
  PROVE  SInv'
<1>1. RootsKept
  BY RootsOne, KallocOK, Types
<1>2. QED
  BY <1>1, GoOn DEF Builds

\* A page goes from or to the table or the variable mem, and the path goes on.
LEMMA LeafStocked ==
  ASSUME IInv, SInv, NEW p \in Proc, Builds(p), Elsewhere(p), UNCHANGED <<state, side>>,
         \/ UNCHANGED ref
         \/ \E s \in Slot, d \in BOOLEAN :
              /\ KfreeSlot(s, d)
              /\ \A q \in Proc, t \in Space : s # KStack(q) /\ s # PgDir(t)
         \/ \E va \in Va : \E fl : Mappages(p, tgt[p], va, fl),
         Busy(p)' => tgt'[p] = tgt[p]
  PROVE  SInv'
<1>1. RootsKept
  BY RootsFree, RootsMap, Types DEF RootsKept
<1>2. QED
  BY <1>1, GoOn DEF Builds

LEMMA LeafSlots ==
  /\ \A p \in Proc, q \in Proc, t \in Space : Mem(p) # KStack(q) /\ Mem(p) # PgDir(t)
  /\ \A s \in Space, a \in Int, q \in Proc, t \in Space :
       /\ PTE(s, a) # KStack(q) /\ PTE(s, a) # PgDir(t)
       /\ PDE(s, a) # KStack(q) /\ PDE(s, a) # PgDir(t)
BY Slots

LEMMA FaultStocked == ASSUME IInv, SInv, NEW p \in Proc, Fault(p) PROVE SInv'
<1>1. CASE FaultAlloc(p)
  <2>1. CASE Panic("pagefault out of memory")
    BY <2>1, PanicStocked
  <2>2. ASSUME NEW pg \in freelist, Kalloc(pg), ref' = [ref EXCEPT ![Mem(p)] = pg],
               Jump(p, "pf_copy"), UNCHANGED pt
        PROVE  SInv'
    <3>1. Builds(p) /\ "pf_copy" \in Pcs /\ Mem(p) \in Slot
      BY <1>1, SlotIn DEF FaultAlloc, At, Builds, Busy, NoDirPcs, Reaping, Pcs
    <3>2. Elsewhere(p) /\ UNCHANGED tgt
      BY <2>2, <3>1, JumpStays
    <3>3. QED
      BY <2>2, <3>1, <3>2, AllocStocked DEF pt
  <2>3. QED
    BY <1>1, <2>1, <2>2 DEF FaultAlloc
<1>2. CASE FaultCopy(p)
  <2>1. Builds(p) /\ "pf_free" \in Pcs /\ Jump(p, "pf_free") /\ UNCHANGED <<ref, pt>>
    BY <1>2 DEF FaultCopy, At, Builds, Busy, NoDirPcs, Reaping, Pcs
  <2>2. Elsewhere(p) /\ UNCHANGED tgt
    BY <2>1, JumpStays
  <2>3. QED
    BY <2>1, <2>2, LeafStocked DEF pt
<1>3. CASE FaultFree(p)
  <2>1. CASE KfreePanic(PTE(tgt[p], cur[p]))
    BY <2>1, KfreePanicStocked
  <2>2. CASE Jump(p, "pf_map") /\ UNCHANGED <<ref, pt>>
    <3>1. Builds(p) /\ "pf_map" \in Pcs
      BY <1>3 DEF FaultFree, At, Builds, Busy, NoDirPcs, Reaping, Pcs
    <3>2. Elsewhere(p) /\ UNCHANGED tgt
      BY <2>2, <3>1, JumpStays
    <3>3. QED
      BY <2>2, <3>1, <3>2, LeafStocked DEF pt
  <2>3. QED
    BY <1>3, <2>1, <2>2 DEF FaultFree, KfreeSlot
<1>4. CASE FaultMap(p)
  <2>1. /\ Builds(p) /\ "user" \in Pcs /\ Jump(p, "user") /\ UNCHANGED pt
        /\ tgt[p] \in Space /\ cur[p] \in Va /\ cur[p] \in Int
        /\ ref' = [ref EXCEPT ![PTE(tgt[p], cur[p])] = ref[Mem(p)], ![Mem(p)] = None]
    BY <1>4, Types, Ints DEF FaultMap, At, Builds, Busy, NoDirPcs, Reaping, Pcs, Label
  <2>2. Elsewhere(p) /\ ~Busy(p)'
    BY <2>1, JumpStays DEF Busy
  <2>3. \A t \in Slot : t # Mem(p) /\ t # PTE(tgt[p], cur[p]) => ref'[t] = ref[t]
    BY <2>1, SlotIn, Types DEF MemOK
  <2>4. RootsKept
    BY <2>1, <2>3, LeafSlots, SlotIn DEF RootsKept
  <2>5. QED
    BY <2>1, <2>2, <2>4, GoOn DEF Builds, pt
<1>5. QED
  BY <1>1, <1>2, <1>3, <1>4 DEF Fault
LEMMA SetupStocked == ASSUME IInv, Struct, SInv, NEW p \in Proc, Setup(p) PROVE SInv'
<1>1. CASE Panic("userinit")
  BY <1>1, PanicStocked
<1>2. CASE SetupPgdir(p)
  <2>1. /\ pc[p] = "s_pgdir" /\ Busy(p) /\ tgt[p] \in Space /\ tgt[p][1] \in Proc
        /\ ~Reaping(p) /\ "user" \in Pcs /\ "f_fail" \in Pcs
    BY <1>2, Types DEF SetupPgdir, At, Busy, Reaping, Pcs
  <2>2. state[tgt[p][1]] = "EMBRYO" => ref[KStack(tgt[p][1])] # None
    BY <2>1 DEF SInv, Stocked
  <2>3. ASSUME NEW pg \in freelist, Kalloc(pg), ref' = [ref EXCEPT ![PgDir(tgt[p])] = pg],
               cur' = [cur EXCEPT ![p] = NVa], Goto(p, "s_kpde"), UNCHANGED <<pt, tgt>>
        PROVE  SInv'
    <3>1. Elsewhere(p) /\ pc'[p] = "s_kpde"
      BY <2>3, Types DEF Elsewhere, Goto, ThreadOK
    <3>2. pg # None /\ PgDir(tgt[p]) \in Slot
      BY <2>1, <2>3, KallocOK, SlotIn, Types
    <3>3. RootsKept /\ ref'[PgDir(tgt[p])] # None
      BY <2>3, <3>2, RootsOne, Types DEF MemOK
    <3>4. state[tgt[p][1]] = "EMBRYO" => ref'[KStack(tgt[p][1])] # None
      BY <2>1, <2>2, <3>3 DEF RootsKept
    <3>5. QED
      BY <2>1, <2>3, <3>1, <3>3, <3>4, RootStep DEF pt
  <2>4. ASSUME NEW l \in {"user", "f_fail"}, Jump(p, l), UNCHANGED <<ref, pt>> PROVE SInv'
    <3>1. Elsewhere(p) /\ pc'[p] = l /\ (l # "user" => UNCHANGED tgt)
      BY <2>1, <2>4, JumpStays
    <3>2. RootsKept /\ (Busy(p)' => pc'[p] \in NoDirPcs /\ tgt'[p] = tgt[p])
      BY <2>4, <3>1 DEF RootsKept, NoDirPcs, Busy
    <3>3. QED
      BY <2>1, <2>2, <2>4, <3>1, <3>2, RootStep DEF pt
  <2>5. QED
    BY <1>1, <1>2, <2>3, <2>4 DEF SetupPgdir, mm
<1>3. CASE SetupKpde(p)
  <2>1. /\ pc[p] = "s_kpde" /\ Builds(p) /\ tgt[p] \in Space
        /\ cur[p] \in KPde /\ cur[p] \in Pde
    <3>1. pc[p] = "s_kpde" /\ Builds(p)
      BY <1>3 DEF SetupKpde, At, Builds, Busy, NoDirPcs, Reaping
    <3>2. cur[p] \in KPde
      BY <3>1 DEF Struct, TargetSlots
    <3>3. QED
      BY <3>1, <3>2, Ints, Types
  <2>2. ASSUME NEW pg \in freelist, Kalloc(pg), ref' = [ref EXCEPT ![PDE(tgt[p], cur[p])] = pg],
               NEW l, Goto(p, l) \/ pc' = pc, NEW n, cur' = [cur EXCEPT ![p] = n],
               UNCHANGED <<pt, tgt>>
        PROVE  SInv'
    <3>1. Elsewhere(p) /\ PDE(tgt[p], cur[p]) \in Slot
      BY <2>1, <2>2, SlotIn, Types DEF Elsewhere, Goto, ThreadOK
    <3>2. QED
      BY <2>1, <2>2, <3>1, AllocStocked DEF pt
  <2>3. ASSUME StartFreevm(p, tgt[p]), UNCHANGED <<ref, pt>> PROVE SInv'
    <3>1. Elsewhere(p) /\ tgt'[p] = tgt[p]
      BY <2>3, StartDeallocSame, Stays, Types DEF StartFreevm
    <3>2. QED
      BY <2>1, <2>3, <3>1, LeafStocked DEF pt
  <2>4. QED
    BY <1>1, <1>3, <2>2, <2>3 DEF SetupKpde, mm
<1>4. QED
  BY <1>2, <1>3 DEF Setup

LEMMA BootStocked == ASSUME IInv, Struct, SInv, NEW p \in Proc, Boot(p) PROVE SInv'
<1>1. CASE Panic("userinit")
  BY <1>1, PanicStocked
<1>2. CASE BootKstack(p)
  <2>1. /\ pc[p] = "b_kstack" /\ Busy(p) /\ tgt[p] \in Space /\ tgt[p][1] = p
        /\ ~Reaping(p) /\ "s_pgdir" \in Pcs
    BY <1>2, Types DEF BootKstack, At, Busy, Reaping, Pcs, Label
  <2>2. ASSUME NEW pg \in freelist, Kalloc(pg), ref' = [ref EXCEPT ![KStack(p)] = pg],
               Jump(p, "s_pgdir"), UNCHANGED pt
        PROVE  SInv'
    <3>1. Elsewhere(p) /\ pc'[p] = "s_pgdir" /\ UNCHANGED tgt
      BY <2>1, <2>2, JumpStays
    <3>2. pg # None /\ KStack(p) \in Slot
      BY <2>2, KallocOK, SlotIn, Types
    <3>3. RootsKept /\ ref'[KStack(p)] # None
      BY <2>2, <3>2, RootsOne, Types DEF MemOK
    <3>4. pc'[p] \in NoDirPcs /\ tgt'[p][1] = p
      BY <2>1, <3>1 DEF NoDirPcs
    <3>5. QED
      BY <2>1, <2>2, <3>1, <3>3, <3>4, RootStep DEF pt
  <2>3. QED
    BY <1>1, <1>2, <2>2 DEF BootKstack
<1>3. CASE BootUvm(p)
  <2>1. ASSUME NEW pg \in freelist, Kalloc(pg), ref' = [ref EXCEPT ![Mem(p)] = pg],
               Jump(p, "b_map"), UNCHANGED pt
        PROVE  SInv'
    <3>1. Builds(p) /\ "b_map" \in Pcs /\ Mem(p) \in Slot
      BY <1>3, SlotIn DEF BootUvm, At, Builds, Busy, NoDirPcs, Reaping, Pcs
    <3>2. Elsewhere(p) /\ UNCHANGED tgt
      BY <2>1, <3>1, JumpStays
    <3>3. QED
      BY <2>1, <3>1, <3>2, AllocStocked DEF pt
  <2>2. QED
    BY <1>1, <1>3, <2>1 DEF BootUvm
<1>4. CASE BootMap(p)
  <2>1. CASE Remap(tgt[p], 0)
    BY <2>1, RemapStocked
  <2>2. ASSUME Mappages(p, tgt[p], 0, {"W", "U"}), state' = [state EXCEPT ![p] = "LIVE"],
               Jump(p, "user"), UNCHANGED side
        PROVE  SInv'
    <3>1. /\ pc[p] = "b_map" /\ Busy(p) /\ tgt[p] = Own(p) /\ state[p] = "EMBRYO"
          /\ tgt[p] \in Space /\ "user" \in Pcs /\ Own(p)[1] = p /\ 0 \in Va
      BY <1>4, OwnIn, Types, Ints DEF BootMap, At, Busy, Pcs, Struct, Target
    <3>2. Elsewhere(p) /\ pc'[p] = "user" /\ RefLocal(p)
      BY <2>2, <3>1, JumpStays, MappagesLocal
    <3>3. RootsKept
      BY <2>2, <3>1, RootsMap, Types
    <3>4. Whole(p)
      BY <3>1 DEF SInv, Stocked, Whole, NoDirPcs
    <3>5. Own(p)' = Own(p) /\ state'[p] = "LIVE" /\ \A q \in Proc \ {p} : state'[q] = state[q]
      BY <2>2, Types DEF Own, ProcOK
    <3>6. Whole(p)'
      BY <3>1, <3>3, <3>4, <3>5 DEF RootsKept, Whole
    <3>7. Stocked(p)'
      BY <3>2, <3>5, <3>6 DEF Stocked, Busy
    <3>8. \A q \in Proc \ {p} : side'[q] = side[q]
      BY <2>2
    <3>9. tgt[p][1] = p
      BY <3>1
    <3>10. QED
      BY <3>1, <3>2, <3>5, <3>7, <3>8, <3>9, TouchStocked
  <2>3. QED
    BY <1>1, <1>4, <2>1, <2>2 DEF BootMap
<1>5. QED
  BY <1>2, <1>3, <1>4 DEF Boot
-----------------------------------------------------------------------------
(* fork                                                                    *)

\* p goes back to the user, and np has what its state asks for.
LEMMA SettleStocked ==
  ASSUME IInv, Struct, SInv, NEW p \in Proc, Busy(p), Elsewhere(p), RefLocal(p),
         NEW np, np = tgt[p][1], np # p, state[p] = "LIVE", tgt[p] # Own(p),
         pc'[p] = "user", pc'[np] \in {"user", "idle"},
         \A q \in Proc \ {np} : state'[q] = state[q] /\ side'[q] = side[q],
         state'[np] = "UNUSED" \/ (state'[np] = "LIVE" /\ Whole(np)')
  PROVE  SInv'
<1>1. /\ Own(p) \in Space /\ Own(p)' = Own(p) /\ state'[p] = "LIVE"
      /\ KeepDir(Own(p)) /\ KeepStack(p)
  BY OwnIn, RefLocalKeeps, Types DEF Own
<1>2. Whole(p)'
  BY <1>1 DEF SInv, Stocked, Whole, KeepDir, KeepStack
<1>3. Stocked(p)' /\ Stocked(np)'
  BY <1>1, <1>2 DEF Stocked, Busy
<1>4. QED
  BY <1>3, TouchStocked

LEMMA ForkKstackStocked ==
  ASSUME IInv, Struct, SInv, NEW p \in Proc, ForkKstack(p) PROVE SInv'
<1> DEFINE np == tgt[p][1]
<1>1. /\ pc[p] = "f_kstack" /\ Busy(p) /\ np # p /\ np \in Proc /\ tgt[p] \in Space
      /\ state[p] = "LIVE" /\ tgt[p] # Own(p)
      /\ ~Reaping(p) /\ "s_pgdir" \in Pcs /\ "user" \in Pcs
  BY ForkFacts DEF ForkKstack, At, Reaping, Pcs
<1>2. ASSUME NEW pg \in freelist, Kalloc(pg), ref' = [ref EXCEPT ![KStack(np)] = pg],
             Jump(p, "s_pgdir"), UNCHANGED pt
      PROVE  SInv'
  <2>1. Elsewhere(p) /\ pc'[p] = "s_pgdir" /\ UNCHANGED tgt
    BY <1>1, <1>2, JumpStays
  <2>2. pg # None /\ KStack(np) \in Slot
    BY <1>1, <1>2, KallocOK, SlotIn, Types
  <2>3. RootsKept /\ ref'[KStack(np)] # None
    BY <1>2, <2>2, RootsOne, Types DEF MemOK
  <2>4. pc'[p] \in NoDirPcs
    BY <2>1 DEF NoDirPcs
  <2>5. QED
    BY <1>1, <1>2, <2>1, <2>3, <2>4, RootStep DEF pt
<1>3. ASSUME state' = [state EXCEPT ![np] = "UNUSED"], Jump(p, "user"), UNCHANGED <<ref, side>>
      PROVE  SInv'
  <2>1. Elsewhere(p) /\ pc'[p] = "user"
    BY <1>1, <1>3, JumpStays
  <2>2. /\ state'[np] = "UNUSED" /\ \A q \in Proc \ {np} : state'[q] = state[q]
        /\ pc'[np] \in {"user", "idle"} /\ RefLocal(p)
    BY <1>1, <1>3, <2>1, RefSame, Types DEF ProcOK, Elsewhere, ThreadsApart
  <2>3. \A n : n = np => SInv'
    BY <1>1, <1>3, <2>1, <2>2, SettleStocked
  <2>4. QED
    BY <2>3
<1>4. QED
  BY <1>2, <1>3 DEF ForkKstack, mm

LEMMA ForkFailStocked ==
  ASSUME IInv, Struct, SInv, NEW p \in Proc, ForkFail(p) PROVE SInv'
<1> DEFINE np == tgt[p][1]
<1>1. CASE KfreePanic(KStack(np))
  BY <1>1, KfreePanicStocked
<1>2. ASSUME ref' = [ref EXCEPT ![KStack(np)] = None],
             state' = [state EXCEPT ![np] = "UNUSED"], Jump(p, "user"), UNCHANGED side
      PROVE  SInv'
  <2>1. /\ Busy(p) /\ np # p /\ np \in Proc /\ state[p] = "LIVE" /\ tgt[p] # Own(p)
        /\ "user" \in Pcs
    BY ForkFacts DEF ForkFail, At, Pcs
  <2>2. Elsewhere(p) /\ pc'[p] = "user"
    BY <1>2, <2>1, JumpStays
  <2>3. RefLocal(p)
    BY <1>2, <2>1, RefOne, SlotIn, Types DEF OwnSlot
  <2>4. /\ state'[np] = "UNUSED" /\ \A q \in Proc \ {np} : state'[q] = state[q]
        /\ pc'[np] \in {"user", "idle"}
    BY <1>2, <2>1, <2>2, Types DEF ProcOK, Elsewhere, ThreadsApart
  <2>5. \A n : n = np => SInv'
    BY <1>2, <2>1, <2>2, <2>3, <2>4, SettleStocked
  <2>6. QED
    BY <2>5
<1>3. QED
  BY <1>1, <1>2 DEF ForkFail, KfreeSlot

LEMMA ForkDoneStocked ==
  ASSUME IInv, Struct, SInv, NEW p \in Proc, ForkDone(p) PROVE SInv'
<1> DEFINE np == tgt[p][1]
<1>1. /\ pc[p] = "f_copy" /\ Busy(p) /\ np # p /\ np \in Proc /\ state[p] = "LIVE"
      /\ tgt[p] # Own(p) /\ tgt[p] = Own(np) /\ state[np] = "EMBRYO" /\ pc[np] = "idle"
  BY ForkFacts, Types DEF ForkDone, At, ThreadsApart
<1>2. /\ state' = [state EXCEPT ![np] = "LIVE"] /\ UNCHANGED <<ref, side>>
      /\ pc' = [pc EXCEPT ![p] = "user", ![np] = "user"]
      /\ tgt' = [tgt EXCEPT ![p] = <<p, 0>>] /\ cur' = [cur EXCEPT ![p] = 0]
  BY DEF ForkDone, mm
<1>3. Elsewhere(p) /\ pc'[p] = "user" /\ pc'[np] = "user"
  BY <1>1, <1>2, Types DEF Elsewhere, ThreadOK
<1>4. /\ state'[np] = "LIVE" /\ \A q \in Proc \ {np} : state'[q] = state[q] /\ side'[q] = side[q]
  BY <1>1, <1>2, Types DEF ProcOK
<1>5. Whole(np)
  BY <1>1 DEF SInv, Stocked, Whole, NoDirPcs
<1>6. ASSUME NEW n, n = np PROVE SInv'
  <2>1. Whole(n)'
    BY <1>2, <1>5, <1>6 DEF Whole, Own
  <2>2. QED
    BY <1>1, <1>2, <1>3, <1>4, <1>6, <2>1, RefSame, SettleStocked
<1>7. QED
  BY <1>6

LEMMA ForkStocked == ASSUME IInv, Struct, SInv, NEW p \in Proc, Fork(p) PROVE SInv'
<1>1. CASE ForkCopy(p)
  <2>1. Builds(p) /\ "f_map" \in Pcs /\ Mem(p) \in Slot
    BY <1>1, SlotIn DEF ForkCopy, At, Builds, Busy, NoDirPcs, Reaping, Pcs
  <2>2. ASSUME NEW pg, pg # None, ref' = [ref EXCEPT ![Mem(p)] = pg], Jump(p, "f_map"),
               UNCHANGED pt
        PROVE  SInv'
    <3>1. Elsewhere(p) /\ UNCHANGED tgt
      BY <2>1, <2>2, JumpStays
    <3>2. RootsKept
      BY <2>1, <2>2, RootsOne, Types
    <3>3. QED
      BY <2>1, <2>2, <3>1, <3>2, GoOn DEF Builds, pt
  <2>3. CASE \E m : Panic(m)
    BY <2>3, PanicStocked
  <2>4. QED
    BY <1>1, <2>2, <2>3 DEF ForkCopy
<1>2. CASE ForkMap(p)
  <2>1. Builds(p) /\ "f_unref" \in Pcs /\ cur[p] \in Va
    BY <1>2, Types DEF ForkMap, At, Builds, Busy, NoDirPcs, Reaping, Pcs, Label
  <2>2. CASE Remap(tgt[p], cur[p])
    BY <2>2, RemapStocked
  <2>3. ASSUME NEW fl, Mappages(p, tgt[p], cur[p], fl), Goto(p, "f_copy"),
               NEW n, cur' = [cur EXCEPT ![p] = n], UNCHANGED <<pt, tgt>>
        PROVE  SInv'
    <3>1. Elsewhere(p)
      BY <2>3, Types DEF Elsewhere, Goto, ThreadOK
    <3>2. QED
      BY <2>1, <2>3, <3>1, LeafStocked DEF pt
  <2>4. ASSUME Jump(p, "f_unref"), UNCHANGED <<ref, pt>> PROVE SInv'
    <3>1. Elsewhere(p) /\ UNCHANGED tgt
      BY <2>1, <2>4, JumpStays
    <3>2. QED
      BY <2>1, <2>4, <3>1, LeafStocked DEF pt
  <2>5. QED
    BY <1>2, <2>2, <2>3, <2>4 DEF ForkMap, mm
<1>3. CASE ForkUnref(p)
  <2>1. CASE KfreePanic(Mem(p))
    BY <2>1, KfreePanicStocked
  <2>2. ASSUME KfreeSlot(Mem(p), TRUE), StartFreevm(p, tgt[p]), UNCHANGED pt PROVE SInv'
    <3>1. Builds(p) /\ Mem(p) \in Slot
      BY <1>3, SlotIn DEF ForkUnref, At, Builds, Busy, NoDirPcs, Reaping
    <3>2. Elsewhere(p) /\ tgt'[p] = tgt[p]
      BY <2>2, StartDeallocSame, Stays, Types DEF StartFreevm
    <3>3. QED
      BY <2>2, <3>1, <3>2, LeafSlots, LeafStocked DEF pt
  <2>3. QED
    BY <1>3, <2>1, <2>2 DEF ForkUnref
<1>4. QED
  BY <1>1, <1>2, <1>3, ForkKstackStocked, ForkFailStocked, ForkDoneStocked DEF Fork

-----------------------------------------------------------------------------
(* deallocuvm and freevm                                                   *)

\* What a thread knows that frees the page tables of a space.
LEMMA FreeTabFacts ==
  ASSUME IInv, Struct, NEW p \in Proc, pc[p] = "fv_tab"
  PROVE  /\ Busy(p) /\ tgt[p] \in Space /\ tgt[p][1] \in Proc
         /\ tgt[p] # Own(p) /\ state[p] = "LIVE"
         /\ tgt[p][1] # p => /\ state[tgt[p][1]] \in {"EMBRYO", "ZOMBIE"}
                             /\ pc[tgt[p][1]] = "idle"
<1>1. Busy(p) /\ tgt[p] \in Space /\ tgt[p][1] \in Proc
  BY Types DEF Busy
<1>2. tgt[p] # Own(p)
  BY DEF Struct, Target
<1>3. QED
  BY <1>1, <1>2, BusyState, Types DEF ThreadsApart

LEMMA FreeDirStocked ==
  ASSUME IInv, Struct, SInv, NEW p \in Proc, pc[p] = "fv_tab",
         ref' = [ref EXCEPT ![PgDir(tgt[p])] = None],
         Jump(p, AfterFreevm(p)), UNCHANGED pt
  PROVE  SInv'
<1> DEFINE np == tgt[p][1]
<1>1. /\ Busy(p) /\ tgt[p] \in Space /\ np \in Proc /\ tgt[p] # Own(p) /\ state[p] = "LIVE"
      /\ np # p => state[np] \in {"EMBRYO", "ZOMBIE"} /\ pc[np] = "idle"
  BY FreeTabFacts
<1>2. AfterFreevm(p) \in Pcs /\ (np # p => AfterFreevm(p) # "user")
      /\ (np # p /\ state[np] = "ZOMBIE" => AfterFreevm(p) = "w_done")
      /\ (np # p /\ state[np] = "EMBRYO" => AfterFreevm(p) = "f_fail")
      /\ AfterFreevm(p) \in {"user", "w_done", "f_fail"}
      /\ (np = p => AfterFreevm(p) = "user")
  BY DEF AfterFreevm, Pcs
<1>3. Elsewhere(p) /\ pc'[p] = AfterFreevm(p) /\ (np # p => UNCHANGED tgt)
  BY <1>2, JumpStays
<1>4. /\ \A q \in Proc : KeepStack(q)
      /\ \A t \in Space \ {tgt[p]} : KeepDir(t)
      /\ RefLocal(p)
  BY <1>1, SetPgDir, RefOne, SlotIn, Types DEF OwnSlot
<1>5. UNCHANGED <<state, side>>
  BY DEF pt
<1>6. Whole(p)'
  <2>1. Own(p)' = Own(p) /\ Own(p) \in Space /\ Whole(p)
    BY <1>1, <1>5, OwnIn, Types DEF Own, SInv, Stocked
  <2>2. KeepDir(Own(p)) /\ KeepStack(p)
    BY <1>1, <1>4, <2>1
  <2>3. QED
    BY <2>1, <2>2 DEF Whole, KeepDir, KeepStack
<1>7. Stocked(p)'
  <2>1. CASE np = p
    BY <1>2, <1>3, <1>5, <1>6, <2>1 DEF Stocked, Busy
  <2>2. CASE np # p
    <3>1. state[np] = "EMBRYO" => ref[KStack(np)] # None
      BY <1>1 DEF SInv, Stocked
    <3>2. ref'[KStack(np)] = ref[KStack(np)]
      BY <1>1, <1>4 DEF KeepStack
    <3>3. pc'[p] \in NoDirPcs /\ pc'[p] \notin {"b_kstack", "f_kstack"} /\ tgt'[p] = tgt[p]
      BY <1>1, <1>2, <1>3, <2>2 DEF NoDirPcs
    <3>4. QED
      BY <1>1, <1>5, <1>6, <3>1, <3>2, <3>3 DEF Stocked
  <2>3. QED
    BY <2>1, <2>2
<1>8. ASSUME NEW n, n = np, n # p PROVE Stocked(n)'
  <2>1. n \in Proc /\ pc'[n] = "idle" /\ state'[n] \in {"EMBRYO", "ZOMBIE"}
    <3>1. n \in Proc \ {p} /\ pc[n] = "idle" /\ state[n] \in {"EMBRYO", "ZOMBIE"}
      BY <1>1, <1>8
    <3>2. pc'[n] = pc[n]
      BY <1>2, <3>1, JumpBounds, Types DEF ThreadSame
    <3>3. QED
      BY <1>5, <3>1, <3>2
  <2>2. state'[n] = "ZOMBIE" => Reaping(p)' /\ tgt'[p][1] = n
    BY <1>2, <1>3, <1>5, <1>8 DEF Reaping
  <2>3. QED
    BY <2>1, <2>2 DEF Stocked, Busy
<1>9. ASSUME NEW n, n = np PROVE SInv'
  <2>1. \A q \in Proc \ {p, n} : state'[q] = state[q] /\ side'[q] = side[q]
    BY <1>5
  <2>2. n # p => Stocked(n)'
    BY <1>8, <1>9
  <2>3. QED
    BY <1>1, <1>3, <1>4, <1>7, <1>9, <2>1, <2>2, TouchStocked
<1>10. QED
  BY <1>9

LEMMA DeallocStocked == ASSUME IInv, Struct, SInv, NEW p \in Proc, Dealloc(p) PROVE SInv'
<1>1. ASSUME NEW s, KfreePanic(s) PROVE SInv'
  BY <1>1, KfreePanicStocked
<1>2. CASE DeallocStep(p)
  <2>1. pc[p] = "dv" /\ Busy(p) /\ pc[p] \notin NoDirPcs
    BY <1>2 DEF DeallocStep, At, Busy, NoDirPcs
  <2>2. ASSUME NEW n, cur' = [cur EXCEPT ![p] = n], UNCHANGED <<mm, pt, pc, tgt>> PROVE SInv'
    <3>1. Elsewhere(p) /\ RootsKept /\ (Reaping(p) => Reaping(p)')
      BY <2>2, Types DEF Elsewhere, ThreadOK, RootsKept, mm, Reaping
    <3>2. QED
      BY <2>1, <2>2, <3>1, GoOn DEF pt
  <2>3. ASSUME Jump(p, "dv_clear"), UNCHANGED <<ref, pt>> PROVE SInv'
    <3>1. "dv_clear" \in Pcs
      BY DEF Pcs
    <3>2. Elsewhere(p) /\ RootsKept /\ Reaping(p)' /\ UNCHANGED tgt
      BY <2>3, <3>1, JumpStays DEF RootsKept, Reaping
    <3>3. QED
      BY <2>1, <2>3, <3>2, GoOn DEF pt
  <2>4. QED
    BY <1>1, <1>2, <2>2, <2>3 DEF DeallocStep, KfreeSlot
<1>3. CASE DeallocClear(p)
  <2>1. pc[p] = "dv_clear" /\ Busy(p) /\ pc[p] \notin NoDirPcs
    BY <1>3 DEF DeallocClear, At, Busy, NoDirPcs
  <2>2. /\ Goto(p, "dv") /\ UNCHANGED <<pt, tgt>> /\ cur' = [cur EXCEPT ![p] = @ + 1]
        /\ ref' = [ref EXCEPT ![PTE(tgt[p], cur[p])] = None]
    BY <1>3 DEF DeallocClear
  <2>3. Elsewhere(p) /\ Reaping(p)'
    BY <2>2, Types DEF Elsewhere, Goto, ThreadOK, Reaping
  <2>4. PTE(tgt[p], cur[p]) \in Slot /\ tgt[p] \in Space /\ cur[p] \in Int
    BY <2>1, SlotIn, Ints, Types DEF Label
  <2>5. RootsKept
    BY <2>2, <2>4, LeafSlots, RootsOne, Types
  <2>6. QED
    BY <2>1, <2>2, <2>3, <2>5, GoOn DEF pt
<1>4. CASE DeallocDone(p)
  <2>1. /\ pc[p] = "dv" /\ Busy(p) /\ pc[p] \notin NoDirPcs
        /\ ret[p] \in {"fv_tab", "g_done", "user", "x_bad", "a_free"}
        /\ Jump(p, ret[p]) /\ UNCHANGED <<ref, pt>>
    BY <1>4, Types DEF DeallocDone, At, Busy, NoDirPcs, Label, mm
  <2>2. ret[p] # "fv_tab" => tgt[p][1] = p
    BY <2>1 DEF Struct, Target
  <2>3. ret[p] \in Pcs
    BY <2>1 DEF Pcs
  <2>4. Elsewhere(p) /\ pc'[p] = ret[p] /\ (ret[p] # "user" => UNCHANGED tgt)
    BY <2>1, <2>3, JumpStays
  <2>5. Reaping(p) => tgt[p][1] = p \/ (Reaping(p)' /\ tgt'[p] = tgt[p])
    BY <2>2, <2>4 DEF Reaping
  <2>6. RootsKept /\ (Busy(p)' => tgt'[p] = tgt[p])
    BY <2>1, <2>4 DEF RootsKept, Busy
  <2>7. QED
    BY <2>1, <2>4, <2>5, <2>6, GoOn DEF pt
<1>5. CASE FreeTab(p)
  <2>1. pc[p] = "fv_tab" /\ Busy(p) /\ pc[p] \notin NoDirPcs /\ tgt[p] \in Space
    BY <1>5, Types DEF FreeTab, At, Busy, NoDirPcs
  <2>2. ASSUME NEW i \in Pde, KfreeSlot(PDE(tgt[p], i), TRUE), UNCHANGED <<pt, kt>> PROVE SInv'
    <3>1. PDE(tgt[p], i) \in Slot /\ i \in Int
      BY <2>1, SlotIn, Ints
    <3>2. RootsKept
      BY <2>1, <2>2, <3>1, LeafSlots, RootsFree, Types
    <3>3. UNCHANGED <<pc, tgt, cur, state, side>>
      BY <2>2 DEF kt, loc, pt
    <3>4. Elsewhere(p) /\ (Reaping(p) => Reaping(p)')
      BY <3>3 DEF Elsewhere, Reaping
    <3>5. QED
      BY <2>1, <3>2, <3>3, <3>4, GoOn
  <2>3. ASSUME KfreeSlot(PgDir(tgt[p]), TRUE), Jump(p, AfterFreevm(p)), UNCHANGED pt PROVE SInv'
    BY <2>1, <2>3, FreeDirStocked DEF KfreeSlot
  <2>4. QED
    BY <1>1, <1>5, <2>2, <2>3 DEF FreeTab
<1>6. QED
  BY <1>2, <1>3, <1>4, <1>5 DEF Dealloc

-----------------------------------------------------------------------------
(* allocuvm, growproc and exec                                             *)

LEMMA AllocUvmStocked == ASSUME IInv, Struct, SInv, NEW p \in Proc, Alloc(p) PROVE SInv'
<1>1. ASSUME NEW s, NEW a, KfreePanic(s) \/ Remap(s, a) PROVE SInv'
  BY <1>1, KfreePanicStocked, RemapStocked
<1>2. ASSUME pc[p] \in {"a_alloc", "a_map"}, NEW l, NEW h, NEW r,
             StartDealloc(p, tgt[p], l, h, r), UNCHANGED <<ref, pt>>
      PROVE  SInv'
  <2>1. Elsewhere(p) /\ tgt'[p] = tgt[p]
    BY <1>2, StartDeallocSame, Stays, Types
  <2>2. Builds(p)
    BY <1>2 DEF Builds, Busy, NoDirPcs, Reaping
  <2>3. QED
    BY <1>2, <2>1, <2>2, LeafStocked DEF pt
<1>3. ASSUME Builds(p), NEW l \in Pcs, Jump(p, l), UNCHANGED <<state, side>>,
             ref' = ref \/ KfreeSlot(Mem(p), TRUE)
      PROVE  SInv'
  <2>1. Elsewhere(p) /\ (Busy(p)' => tgt'[p] = tgt[p])
    BY <1>3, JumpStays DEF Busy
  <2>2. Mem(p) \in Slot
    BY SlotIn
  <2>3. QED
    BY <1>3, <2>1, <2>2, LeafSlots, LeafStocked
<1>4. CASE AllocPage(p)
  <2>1. ASSUME NEW pg \in freelist, Kalloc(pg), ref' = [ref EXCEPT ![Mem(p)] = pg],
               Jump(p, "a_map"), UNCHANGED pt
        PROVE  SInv'
    <3>1. Builds(p) /\ "a_map" \in Pcs /\ Mem(p) \in Slot
      BY <1>4, SlotIn DEF AllocPage, At, Builds, Busy, NoDirPcs, Reaping, Pcs
    <3>2. Elsewhere(p) /\ UNCHANGED tgt
      BY <2>1, <3>1, JumpStays
    <3>3. QED
      BY <2>1, <3>1, <3>2, AllocStocked DEF pt
  <2>2. ASSUME NEW r, StartDealloc(p, tgt[p], lo[p], hi[p], r), UNCHANGED <<mm, pt>> PROVE SInv'
    BY <1>2, <1>4, <2>2 DEF AllocPage, At, mm
  <2>3. QED
    BY <1>4, <2>1, <2>2 DEF AllocPage
<1>5. CASE AllocMap(p)
  <2>1. ASSUME Mappages(p, tgt[p], cur[p], {"W", "U"}), Goto(p, "a_alloc"),
               NEW n, cur' = [cur EXCEPT ![p] = n], UNCHANGED <<pt, tgt>>
        PROVE  SInv'
    <3>1. Builds(p) /\ cur[p] \in Va
      BY <1>5, AllocFacts DEF AllocMap, At, Builds, Busy, NoDirPcs, Reaping
    <3>2. Elsewhere(p)
      BY <2>1, Types DEF Elsewhere, Goto, ThreadOK
    <3>3. QED
      BY <2>1, <3>1, <3>2, LeafStocked DEF pt
  <2>2. ASSUME StartDealloc(p, tgt[p], lo[p], hi[p], "a_free"), UNCHANGED <<mm, pt>> PROVE SInv'
    BY <1>2, <1>5, <2>2 DEF AllocMap, At, mm
  <2>3. QED
    BY <1>1, <1>5, <2>1, <2>2 DEF AllocMap
<1>6. CASE AllocFree(p)
  <2>1. ASSUME KfreeSlot(Mem(p), TRUE), Jump(p, AllocFailed(p)), UNCHANGED pt PROVE SInv'
    <3>1. Builds(p) /\ AllocFailed(p) \in Pcs
      BY <1>6 DEF AllocFree, At, Builds, Busy, NoDirPcs, Reaping, AllocFailed, Pcs
    <3>2. QED
      BY <1>3, <2>1, <3>1 DEF pt
  <2>2. QED
    BY <1>1, <1>6, <2>1 DEF AllocFree
<1>7. CASE AllocDone(p)
  <2>1. pc[p] = "a_alloc" /\ Builds(p) /\ ret[p] \in Pcs /\ Jump(p, ret[p])
    BY <1>7, Types DEF AllocDone, At, Builds, Busy, NoDirPcs, Reaping, ThreadOK
  <2>2. QED
    BY <1>3, <1>7, <2>1 DEF AllocDone, pt, mm
<1>8. CASE GrowDone(p)
  <2>1. Builds(p) /\ "user" \in Pcs
    BY <1>8 DEF GrowDone, At, Builds, Busy, NoDirPcs, Reaping, Pcs
  <2>2. QED
    BY <1>3, <1>8, <2>1 DEF GrowDone, mm
<1>9. QED
  BY <1>4, <1>5, <1>6, <1>7, <1>8 DEF Alloc

\* exec changes to the new space, and starts to free the old one.
LEMMA CommitStocked ==
  ASSUME IInv, Struct, SInv, NEW p \in Proc, pc[p] = "x_stack",
         side' = [side EXCEPT ![p] = 1 - @], StartFreevm(p, Own(p)), UNCHANGED <<ref, state>>
  PROVE  SInv'
<1>1. /\ Busy(p) /\ tgt[p] = Other(p) /\ tgt[p] \in Space /\ tgt[p][1] = p
      /\ state[p] = "LIVE"
  BY ExecFacts
<1>2. Elsewhere(p) /\ pc'[p] = "dv" /\ tgt'[p] = Own(p) /\ Own(p)[1] = p
  BY StartDeallocSame, Stays, OwnIn, Types DEF StartFreevm
<1>3. Own(p)' = Other(p) /\ \A q \in Proc \ {p} : side'[q] = side[q]
  BY Types DEF Own, Other, ProcOK
<1>4. Whole(p) /\ ref[PgDir(Other(p))] # None
  BY <1>1 DEF SInv, Stocked, NoDirPcs
<1>5. Stocked(p)'
  BY <1>1, <1>2, <1>3, <1>4 DEF Stocked, Whole
<1>6. QED
  BY <1>1, <1>2, <1>3, <1>5, RefSame, TouchStocked

LEMMA ExecStocked == ASSUME IInv, Struct, SInv, NEW p \in Proc, Exec(p) PROVE SInv'
<1>1. pc[p] \in {"x_load", "x_stack", "x_bad"} /\ UNCHANGED <<ref, state>>
  BY DEF Exec, ExecLoad, ExecStack, ExecBad, At, mm, pt
<1>2. Builds(p)
  BY <1>1 DEF Builds, Busy, NoDirPcs, Reaping
<1>3. ASSUME Elsewhere(p), tgt'[p] = tgt[p], UNCHANGED side PROVE SInv'
  BY <1>1, <1>2, <1>3, LeafStocked
<1>4. ASSUME Goto(p, "x_bad"), UNCHANGED <<tgt, cur, side>> PROVE SInv'
  BY <1>3, <1>4, Types DEF Elsewhere, Goto, ThreadOK
<1>5. ASSUME NEW l, NEW h, NEW r, UNCHANGED side,
             StartAlloc(p, tgt[p], l, h, r) \/ StartDealloc(p, tgt[p], l, h, r)
      PROVE  SInv'
  BY <1>3, <1>5, StartAllocSame, StartDeallocSame, Stays, Types
<1>6. CASE ExecLoad(p)
  BY <1>4, <1>5, <1>6 DEF ExecLoad, pt
<1>7. CASE ExecStack(p)
  <2>1. pc[p] = "x_stack"
    BY <1>7 DEF ExecStack, At
  <2>2. \/ side' = [side EXCEPT ![p] = 1 - @] /\ StartFreevm(p, Own(p))
        \/ Goto(p, "x_bad") /\ UNCHANGED <<tgt, cur, side>>
    BY <1>7 DEF ExecStack, OldSpace
  <2>3. QED
    BY <1>1, <1>4, <2>1, <2>2, CommitStocked
<1>8. CASE ExecBad(p)
  BY <1>5, <1>8 DEF ExecBad, StartFreevm, pt
<1>9. QED
  BY <1>6, <1>7, <1>8 DEF Exec

-----------------------------------------------------------------------------
(* wait                                                                    *)

LEMMA ReapStocked == ASSUME IInv, Struct, SInv, NEW p \in Proc, Reap(p) PROVE SInv'
<1> DEFINE np == tgt[p][1]
<1>1. CASE KfreePanic(KStack(np))
  BY <1>1, KfreePanicStocked
<1>2. /\ pc[p] \in {"w_kstack", "w_done"}
      /\ Busy(p) /\ tgt[p] \in Space /\ np # p /\ np \in Proc /\ state[p] = "LIVE"
      /\ state[np] = "ZOMBIE" /\ tgt[p] # Own(p) /\ pc[np] = "idle"
  <2>1. pc[p] \in {"w_kstack", "w_done"}
    BY DEF Reap, WaitKstack, WaitDone, At
  <2>2. QED
    BY <2>1, WaitFacts, Types DEF ThreadsApart
<1>3. ASSUME pc[p] = "w_kstack", ref' = [ref EXCEPT ![KStack(np)] = None],
             StartFreevm(p, tgt[p]), UNCHANGED pt
      PROVE  SInv'
  <2>1. /\ \A q \in Proc \ {p} : ThreadSame(q)
        /\ Elsewhere(p) /\ pc'[p] = "dv" /\ tgt'[p] = tgt[p]
    BY <1>3, StartDeallocSame, Stays, Types DEF StartFreevm
  <2>2. /\ \A q \in Proc \ {np} : KeepStack(q)
        /\ \A t \in Space : KeepDir(t)
        /\ RefLocal(p)
    BY <1>2, <1>3, SetStack, RefOne, SlotIn, Types DEF OwnSlot
  <2>3. UNCHANGED <<state, side>> /\ Own(p)' = Own(p) /\ Own(p) \in Space
    BY <1>3, OwnIn, Types DEF pt, Own
  <2>4. Whole(p)'
    BY <1>2, <2>2, <2>3 DEF SInv, Stocked, Whole, KeepDir, KeepStack
  <2>5. ref'[PgDir(tgt[p])] # None
    BY <1>2, <1>3, <2>2 DEF SInv, Stocked, NoDirPcs, KeepDir
  <2>6. Stocked(p)'
    BY <1>2, <2>1, <2>3, <2>4, <2>5 DEF Stocked
  <2>7. ASSUME NEW n, n = np PROVE SInv'
    <3>1. pc'[n] = "idle" /\ state'[n] = "ZOMBIE"
      BY <1>2, <2>1, <2>3, <2>7 DEF ThreadSame
    <3>2. Reaping(p)' /\ tgt'[p][1] = n
      BY <2>1, <2>7 DEF Reaping
    <3>3. Stocked(n)'
      BY <3>1, <3>2 DEF Stocked, Busy
    <3>4. \A q \in Proc \ {p, n} : state'[q] = state[q] /\ side'[q] = side[q]
      BY <2>3
    <3>5. QED
      BY <1>2, <2>1, <2>2, <2>6, <2>7, <3>3, <3>4, TouchStocked
  <2>8. QED
    BY <2>7
<1>4. CASE WaitDone(p)
  <2>1. /\ Jump(p, "user") /\ UNCHANGED ref /\ "user" \in Pcs
        /\ state' = [state EXCEPT ![np] = "UNUSED"] /\ side' = [side EXCEPT ![np] = 0]
    BY <1>4 DEF WaitDone, mm, Pcs
  <2>2. /\ \A q \in Proc \ {p} : ThreadSame(q)
        /\ Elsewhere(p) /\ pc'[p] = "user" /\ RefLocal(p)
    BY <2>1, JumpBounds, Stays, RefSame, Types
  <2>3. /\ state'[np] = "UNUSED" /\ pc'[np] = "idle"
        /\ \A q \in Proc \ {np} : state'[q] = state[q] /\ side'[q] = side[q]
    BY <1>2, <2>1, <2>2, Types DEF ProcOK, ThreadSame
  <2>4. \A n : n = np => SInv'
    BY <1>2, <2>2, <2>3, SettleStocked
  <2>5. QED
    BY <2>4
<1>5. QED
  BY <1>1, <1>3, <1>4 DEF Reap, WaitKstack, At, KfreeSlot

-----------------------------------------------------------------------------
(* User code                                                               *)

\* p enters the kernel, or exits; np is the slot that fork takes, or p.
LEMMA EnterStocked ==
  ASSUME IInv, Struct, SInv, NEW p \in Proc, pc[p] = "user", Elsewhere(p),
         UNCHANGED <<ref, side>>, NEW np \in Proc, np = p \/ state[np] = "UNUSED",
         \A q \in Proc \ {p, np} : state'[q] = state[q],
         Stocked(p)', Stocked(np)'
  PROVE  SInv'
<1>1. ASSUME NEW q \in Proc \ {p, np} PROVE Stocked(q)'
  <2>1. Whole(q) => Whole(q)'
    BY DEF Whole, Own
  <2>2. Busy(q) => tgt[q][1] \in Proc \ {p, np}
    BY Types DEF ThreadsApart
  <2>3. ~Reaping(p)
    BY DEF Reaping
  <2>4. QED
    BY <2>1, <2>2, <2>3, StockedOther
<1>2. QED
  BY <1>1 DEF SInv

LEMMA UserStocked == ASSUME IInv, Struct, SInv, NEW p \in Proc, User(p) PROVE SInv'
<1>1. ASSUME NEW m, Panic(m) PROVE SInv'
  BY <1>1, PanicStocked
<1>2. ASSUME UNCHANGED <<ref, pt, kt>> PROVE SInv'
  BY <1>2 DEF pt, kt, loc, SInv, Stocked, Busy, Reaping, Whole, Own
<1>3. ASSUME pc[p] = "user", Elsewhere(p), UNCHANGED <<ref, state, side>>,
             \/ tgt'[p] = Own(p)
             \/ tgt'[p] = Other(p) /\ pc'[p] = "s_pgdir"
             \/ \E c \in Proc : tgt'[p] = Own(c) /\ state[c] = "ZOMBIE" /\ ptlock = None
      PROVE  SInv'
  <2>1. /\ state[p] = "LIVE" /\ Whole(p) /\ Own(p)[1] = p /\ Other(p)[1] = p
        /\ RootsKept /\ ~Reaping(p)
    BY <1>3, UserFacts DEF SInv, Stocked, RootsKept, Reaping
  <2>2. ASSUME NEW c \in Proc, state[c] = "ZOMBIE", ptlock = None
        PROVE  Whole(c) /\ Own(c)[1] = c
    <3>1. ASSUME NEW r \in Proc, Reaping(r), tgt[r][1] = c PROVE FALSE
      <4>1. Busy(r) /\ pc[c] = "idle"
        BY <2>2, <3>1, Types DEF ThreadsApart, Busy, Reaping
      <4>2. ptlock = r
        BY <2>2, <3>1, <4>1, Types DEF ThreadsApart, Busy
      <4>3. QED
        BY <2>2, <4>2, NoneAssumption
    <3>2. QED
      BY <2>2, <3>1 DEF SInv, Stocked, Own
  <2>3. /\ Busy(p)' /\ pc'[p] \notin NoDirPcs => ref'[PgDir(tgt'[p])] # None
        /\ state[tgt'[p][1]] # "EMBRYO"
    BY <1>3, <2>1, <2>2 DEF Whole, NoDirPcs
  <2>4. QED
    BY <1>3, <2>1, <2>3, RootStep
<1>4. ASSUME NEW va \in Va, NEW w, NEW usr, PageFault(p, va, w, usr) PROVE SInv'
  <2>1. ASSUME Goto(p, "pf_alloc"), tgt' = [tgt EXCEPT ![p] = Own(p)],
               cur' = [cur EXCEPT ![p] = va], UNCHANGED <<mm, pt>>
        PROVE  SInv'
    <3>1. pc[p] = "user"
      BY <1>4 DEF PageFault, At
    <3>2. Elsewhere(p) /\ tgt'[p] = Own(p)
      BY <2>1, Types DEF Elsewhere, Goto, ThreadOK
    <3>3. QED
      BY <1>3, <2>1, <3>1, <3>2 DEF mm, pt
  <2>2. QED
    BY <1>1, <1>4, <2>1 DEF PageFault
<1>5. CASE ForkStart(p)
  <2>1. PICK np \in Proc : /\ state[np] = "UNUSED"
                           /\ state' = [state EXCEPT ![np] = "EMBRYO"]
                           /\ tgt' = [tgt EXCEPT ![p] = Own(np)]
    BY <1>5 DEF ForkStart, Own
  <2>2. /\ pc[p] = "user" /\ Goto(p, "f_kstack") /\ UNCHANGED <<ref, side, cur>>
    BY <1>5 DEF ForkStart, At, mm
  <2>3. state[p] = "LIVE" /\ np # p /\ pc[np] = "idle"
    BY <2>1, <2>2, UserFacts, Types DEF ThreadsApart
  <2>4. /\ Elsewhere(p) /\ pc'[p] = "f_kstack" /\ pc'[np] = "idle"
        /\ state'[np] = "EMBRYO" /\ \A q \in Proc \ {np} : state'[q] = state[q]
    BY <2>1, <2>2, <2>3, Types DEF Elsewhere, Goto, ThreadOK, ProcOK
  <2>5. Stocked(np)'
    BY <2>4 DEF Stocked, Busy
  <2>6. Whole(p)'
    BY <2>2, <2>3 DEF SInv, Stocked, Whole, Own
  <2>7. Stocked(p)'
    BY <2>3, <2>4, <2>6 DEF Stocked, NoDirPcs
  <2>8. QED
    BY <2>1, <2>2, <2>4, <2>5, <2>7, EnterStocked
<1>6. CASE Exit(p)
  <2>1. ASSUME state' = [state EXCEPT ![p] = "ZOMBIE"], Jump(p, "idle"), UNCHANGED <<mm, side>>
        PROVE  SInv'
    <3>1. pc[p] = "user" /\ "idle" \in Pcs /\ UNCHANGED ref
      BY <1>6, <2>1 DEF Exit, At, Pcs, mm
    <3>2. /\ Elsewhere(p) /\ pc'[p] = "idle" /\ state'[p] = "ZOMBIE"
          /\ \A q \in Proc \ {p} : state'[q] = state[q]
      BY <2>1, <3>1, JumpStays, Types DEF ProcOK
    <3>3. Whole(p)'
      BY <2>1, <3>1, UserFacts DEF SInv, Stocked, Whole, Own
    <3>4. Stocked(p)'
      BY <3>2, <3>3 DEF Stocked, Busy
    <3>5. QED
      BY <2>1, <3>1, <3>2, <3>4, EnterStocked
  <2>2. QED
    BY <1>1, <1>6, <2>1 DEF Exit
<1>7. CASE Wait(p)
  <2>1. PICK c \in Proc : state[c] = "ZOMBIE" /\ tgt' = [tgt EXCEPT ![p] = Own(c)]
    BY <1>7 DEF Wait, Own
  <2>2. pc[p] = "user" /\ ptlock = None /\ Goto(p, "w_kstack") /\ UNCHANGED <<ref, state, side, cur>>
    BY <1>7 DEF Wait, At, mm
  <2>3. Elsewhere(p) /\ tgt'[p] = Own(c)
    BY <2>1, <2>2, Types DEF Elsewhere, Goto, ThreadOK
  <2>4. QED
    BY <1>3, <2>1, <2>2, <2>3
<1>8. ASSUME NEW l, NEW h, NEW r, pc[p] = "user", UNCHANGED <<ref, state, side>>,
             StartAlloc(p, Own(p), l, h, r) \/ StartDealloc(p, Own(p), l, h, r)
      PROVE  SInv'
  BY <1>3, <1>8, StartAllocSame, StartDeallocSame, Stays, Types
<1>9. ASSUME NEW n, SbrkGrow(p, n) \/ SbrkShrink(p, n) \/ SbrkAll(p) PROVE SInv'
  <2>1. pc[p] = "user" /\ UNCHANGED <<ref, state, side>>
    BY <1>9 DEF SbrkGrow, SbrkShrink, SbrkAll, At, mm, pt
  <2>2. \E l, h, r : StartAlloc(p, Own(p), l, h, r) \/ StartDealloc(p, Own(p), l, h, r)
    BY <1>9 DEF SbrkGrow, SbrkShrink, SbrkAll
  <2>3. QED
    BY <1>8, <2>1, <2>2
<1>10. ASSUME NEW n, ExecStart(p, n) PROVE SInv'
  <2>1. pc[p] = "user" /\ Goto(p, "s_pgdir") /\ UNCHANGED <<ref, state, side>>
        /\ tgt' = [tgt EXCEPT ![p] = Other(p)] /\ cur' = [cur EXCEPT ![p] = 0]
    BY <1>10 DEF ExecStart, At, mm, pt
  <2>2. Elsewhere(p) /\ tgt'[p] = Other(p) /\ pc'[p] = "s_pgdir"
    BY <2>1, Types DEF Elsewhere, Goto, ThreadOK
  <2>3. QED
    BY <1>3, <2>1, <2>2
<1>11. ASSUME NEW va, NEW v, TlbFill(p, va) \/ Yield(p) \/ UserWrite(p, va, v) PROVE SInv'
  BY <1>2, <1>11 DEF TlbFill, Yield, UserWrite, mm
<1>12. QED
  BY <1>4, <1>5, <1>6, <1>7, <1>9, <1>10, <1>11 DEF User

-----------------------------------------------------------------------------
(* Kernel stacks and page directories, in every reachable state.           *)

LEMMA InitStocked == Init => SInv
<1> SUFFICES ASSUME Init, NEW q \in Proc PROVE Stocked(q)
  BY DEF SInv
<1>1. /\ q = InitProc => state[q] = "EMBRYO" /\ pc[q] = "b_kstack"
      /\ q # InitProc => state[q] = "UNUSED" /\ pc[q] = "idle"
  BY DEF Init
<1>2. QED
  BY <1>1 DEF Stocked, Busy, NoDirPcs

LEMMA KernelStocked == ASSUME IInv, Struct, SInv, NEW p \in Proc, Kernel(p) PROVE SInv'
BY FaultStocked, SetupStocked, BootStocked, ForkStocked, DeallocStocked, AllocUvmStocked,
   ExecStocked, ReapStocked DEF Kernel

LEMMA NextStocked == IInv /\ Struct /\ SInv /\ [Next]_vars => SInv'
<1> SUFFICES ASSUME IInv, Struct, SInv, [Next]_vars PROVE SInv'
  OBVIOUS
<1>1. CASE UNCHANGED vars
  BY <1>1 DEF vars, SInv, Stocked, Busy, Reaping, Whole, Own
<1>2. CASE Halted
  BY <1>1, <1>2 DEF Halted
<1>3. ASSUME NEW p \in Proc, Kernel(p) \/ User(p) PROVE SInv'
  BY <1>3, KernelStocked, UserStocked
<1>4. QED
  BY <1>1, <1>2, <1>3 DEF Next

-----------------------------------------------------------------------------
(* The pages below a size stay.                                            *)

Grows(s) == \A va \in Va : ref[PTE(s, va)] # None => ref'[PTE(s, va)] # None

LEMMA FullStays ==
  /\ \A s, a : Grows(s) /\ Full(s, a) => Full(s, a)'
  /\ \A s : KeepPte(s) => Grows(s)
  /\ \A s : Full(s, 0)
  /\ \A s, a, b : a \in Int /\ b \in Int /\ b <= a /\ Full(s, a) => Full(s, b)
BY Ints DEF Grows, Full, KeepPte, Va

LEMMA GrowsSet ==
  ASSUME MemOK, NEW s \in Slot, NEW x, ref' = [ref EXCEPT ![s] = x],
         x # None \/ \A t \in Space, a \in Int : s # PTE(t, a)
  PROVE  \A t \in Space : Grows(t)
<1>1. TAKE t \in Space
<1>2. SUFFICES ASSUME NEW va \in Va, ref[PTE(t, va)] # None PROVE ref'[PTE(t, va)] # None
  BY DEF Grows
<1>3. PTE(t, va) \in Slot /\ va \in Int
  BY SlotIn, Ints
<1>4. CASE PTE(t, va) = s
  BY <1>2, <1>3, <1>4 DEF MemOK
<1>5. CASE PTE(t, va) # s
  BY <1>2, <1>3, <1>5 DEF MemOK
<1>6. QED
  BY <1>4, <1>5

LEMMA GrowsMap ==
  ASSUME MemOK, NEW p \in Proc, NEW s \in Space, NEW va \in Va, NEW fl,
         Mappages(p, s, va, fl)
  PROVE  \A t \in Space : Grows(t)
<1>1. TAKE t \in Space
<1>2. /\ \A u \in Space \ {s} : KeepPte(u)
      /\ \A b \in Va \ {va} : ref'[PTE(s, b)] = ref[PTE(s, b)]
      /\ ref[PTE(s, va)] = None
  BY MappagesSets
<1>3. QED
  BY <1>2, FullStays DEF Grows

LEMMA NotPte ==
  /\ \A p \in Proc, t \in Space, a \in Int : Mem(p) # PTE(t, a) /\ KStack(p) # PTE(t, a)
  /\ \A s \in Space, t \in Space, a \in Int, i \in Int :
       PgDir(s) # PTE(t, a) /\ PDE(s, i) # PTE(t, a)
BY Slots

LEMMA ViewIn == ASSUME IInv, NEW q \in Proc
                PROVE  ViewSz(q) \in Int /\ sz[q] \in Int /\ lo[q] \in Int /\ hi[q] \in Int
BY Types, SizeAssumption DEF ViewSz, ProcOK, ThreadOK

\* No page goes from a table, and no process becomes live or larger.
LEMMA GrowFilled ==
  ASSUME IInv, IInv', FInv, NEW p \in Proc, \A q \in Proc \ {p} : ThreadSame(q),
         UNCHANGED <<sz, side>>, \A q \in Proc : state'[q] = "LIVE" => state[q] = "LIVE",
         \A s \in Space : Grows(s), Filling(p)', ViewSz(p)' <= ViewSz(p)
  PROVE  FInv'
<1>1. ASSUME NEW q \in Proc PROVE Viewed(q)'
  <2>1. SUFFICES ASSUME state'[q] = "LIVE" PROVE Full(Own(q), ViewSz(q))'
    BY DEF Viewed
  <2>2. Own(q)' = Own(q) /\ Own(q) \in Space
    BY OwnIn, Types DEF Own
  <2>3. ViewSz(q)' <= ViewSz(q) /\ ViewSz(q) \in Int /\ ViewSz(q)' \in Int
    <3>1. ViewSz(q) \in Int /\ ViewSz(q)' \in Int
      BY ViewIn, SizeAssumption DEF IInv, TypeOK, ProcOK, ThreadOK, ViewSz
    <3>2. q # p => ViewSz(q)' = ViewSz(q)
      BY DEF ViewSz, ThreadSame
    <3>3. QED
      BY <3>1, <3>2
  <2>4. Full(Own(q), ViewSz(q))
    BY <2>1 DEF FInv, Viewed
  <2>5. \A a : a = ViewSz(q)' => Full(Own(q), a)
    BY <2>3, <2>4, FullStays
  <2>6. \A s, a : s = Own(q) /\ a = ViewSz(q)' => Full(s, a)'
    BY <2>2, <2>5, FullStays
  <2>7. QED
    BY <2>2, <2>6 DEF Full
<1>2. ASSUME NEW q \in Proc \ {p} PROVE Filling(q)'
  <2>1. Filling(q) /\ tgt[q] \in Space /\ Own(q)' = Own(q)
    BY Types DEF FInv, Own
  <2>2. \A s, a : s = tgt[q] /\ Full(s, a) => Full(s, a)'
    BY <2>1, FullStays
  <2>3. ThreadSame(q) /\ sz'[q] = sz[q]
    OBVIOUS
  <2>4. /\ Full(tgt[q], cur[q]) => Full(tgt[q], cur[q])'
        /\ Full(tgt[q], hi[q]) => Full(tgt[q], hi[q])'
        /\ Full(tgt[q], IF hi[q] = sz[q] THEN lo[q] ELSE hi[q])
             => Full(tgt[q], IF hi[q] = sz[q] THEN lo[q] ELSE hi[q])'
    BY <2>2, <2>3 DEF ThreadSame, Full
  <2>5. QED
    BY <2>1, <2>3, <2>4 DEF Filling, ThreadSame
<1>3. QED
  BY <1>1, <1>2 DEF FInv

\* A path that is not in allocuvm or deallocuvm, and does not get there.
LEMMA CalmFilled ==
  ASSUME IInv, IInv', FInv, NEW p \in Proc, \A q \in Proc \ {p} : ThreadSame(q),
         UNCHANGED <<sz, side>>, \A q \in Proc : state'[q] = "LIVE" => state[q] = "LIVE",
         \A s \in Space : Grows(s), pc[p] \notin GrowPcs, pc'[p] \notin FillPcs,
         ret'[p] = ret[p] \/ ret'[p] # "g_done"
  PROVE  FInv'
<1>1. ret[p] # "g_done" /\ ret'[p] # "g_done"
  BY DEF FInv, Filling
<1>2. ViewSz(p)' <= ViewSz(p)
  BY <1>1, ViewIn DEF ViewSz
<1>3. Filling(p)'
  BY <1>1 DEF Filling, FillPcs, GrowPcs
<1>4. QED
  BY <1>2, <1>3, GrowFilled

LEMMA StillFilled == ASSUME FInv, UNCHANGED <<ref, pt, kt>> PROVE FInv'
BY DEF FInv, Viewed, Filling, Full, ViewSz, Own, pt, kt, loc
LEMMA PanicFilled == ASSUME FInv, NEW m, Panic(m) PROVE FInv'
BY StillFilled DEF Panic, mm
LEMMA KfreePanicFilled == ASSUME FInv, NEW s, KfreePanic(s) PROVE FInv'
BY PanicFilled DEF KfreePanic
LEMMA RemapFilled == ASSUME FInv, NEW s, NEW va, Remap(s, va) PROVE FInv'
BY PanicFilled DEF Remap

\* deallocuvm starts on pages that p does not see.
LEMMA DvFilled ==
  ASSUME IInv, IInv', FInv, NEW p \in Proc, NEW s, NEW l \in 0 .. NVa, NEW h, NEW r \in Pcs,
         StartDealloc(p, s, l, h, r), UNCHANGED <<sz, side>>,
         \A q \in Proc : state'[q] = "LIVE" => state[q] = "LIVE",
         \A t \in Space : Grows(t), ViewSz(p) = sz[p],
         r = "g_done" => h = sz[p] /\ l <= sz[p],
         r \in {"user", "a_free"} /\ s = Own(p) => l >= sz[p]
  PROVE  FInv'
<1>1. /\ \A q \in Proc \ {p} : ThreadSame(q)
      /\ pc'[p] = "dv" /\ tgt'[p] = s /\ lo'[p] = l /\ hi'[p] = h /\ cur'[p] = l
      /\ ret'[p] = r
  BY StartDeallocSame, Types
<1>2. ViewSz(p)' <= ViewSz(p)
  BY <1>1, ViewIn DEF ViewSz
<1>3. l \in Int
  BY SizeAssumption
<1>4. Filling(p)'
  BY <1>1, <1>3 DEF Filling, GrowPcs, Own
<1>5. QED
  BY <1>1, <1>2, <1>4, GrowFilled

LEMMA CalmJump ==
  ASSUME IInv, IInv', FInv, NEW p \in Proc, NEW l \in Pcs \ FillPcs, Jump(p, l),
         UNCHANGED <<sz, side>>, \A q \in Proc : state'[q] = "LIVE" => state[q] = "LIVE",
         \A s \in Space : Grows(s), pc[p] \notin GrowPcs
  PROVE  FInv'
<1>1. \A q \in Proc \ {p} : ThreadSame(q)
  BY JumpBounds, Types
<1>2. pc'[p] = l /\ (ret'[p] = ret[p] \/ ret'[p] # "g_done")
  BY Types DEF Jump, Goto, ThreadOK, loc
<1>3. QED
  BY <1>1, <1>2, CalmFilled

\* A path goes on to map pages, with all those below its cursor in place.
LEMMA WorkFilled ==
  ASSUME IInv, IInv', FInv, NEW p \in Proc, \A q \in Proc \ {p} : ThreadSame(q),
         UNCHANGED <<sz, side, state>>, \A s \in Space : Grows(s), pc[p] \notin GrowPcs,
         ret'[p] = ret[p] \/ ret'[p] # "g_done",
         pc'[p] \in {"a_alloc", "f_copy", "f_map"}, Full(tgt[p], cur[p])'
  PROVE  FInv'
<1>1. ret[p] # "g_done" /\ ret'[p] # "g_done"
  BY DEF FInv, Filling
<1>2. ViewSz(p)' <= ViewSz(p)
  BY <1>1, ViewIn DEF ViewSz
<1>3. Filling(p)'
  BY <1>1 DEF Filling, GrowPcs
<1>4. QED
  BY <1>2, <1>3, GrowFilled

LEMMA FillingQuiet ==
  ASSUME NEW q \in Proc, pc'[q] \in {"user", "idle"}, ret'[q] # "g_done"
  PROVE  Filling(q)'
BY DEF Filling

LEMMA FillingKept ==
  ASSUME NEW q \in Proc, Filling(q), ThreadSame(q), sz'[q] = sz[q], Own(q)' = Own(q),
         Busy(q) => Grows(tgt[q])
  PROVE  Filling(q)'
<1>1. CASE ~Busy(q)
  BY <1>1 DEF Filling, ThreadSame, Busy, GrowPcs
<1>2. CASE Busy(q)
  <2>1. \A s, a : s = tgt[q] /\ Full(s, a) => Full(s, a)'
    BY <1>2, FullStays
  <2>2. /\ Full(tgt[q], cur[q]) => Full(tgt[q], cur[q])'
        /\ Full(tgt[q], hi[q]) => Full(tgt[q], hi[q])'
        /\ Full(tgt[q], IF hi[q] = sz[q] THEN lo[q] ELSE hi[q])
             => Full(tgt[q], IF hi[q] = sz[q] THEN lo[q] ELSE hi[q])'
    BY <2>1 DEF ThreadSame, Full
  <2>3. QED
    BY <2>2 DEF Filling, ThreadSame
<1>3. QED
  BY <1>1, <1>2

\* A step that changes p and the process that p works on.
LEMMA TouchFilled ==
  ASSUME IInv, FInv, NEW p \in Proc, Busy(p), RefLocal(p),
         NEW np, np = tgt[p][1],
         \A q \in Proc \ {p, np} : ThreadSame(q) /\ ProcSame(q),
         Viewed(p)' /\ Filling(p)', np # p => Viewed(np)' /\ Filling(np)'
  PROVE  FInv'
<1>1. ASSUME NEW q \in Proc \ {p, np} PROVE Viewed(q)' /\ Filling(q)'
  <2>1. Keep(q) /\ Own(q) \in Space /\ Own(q)[1] = q /\ Own(q)' = Own(q)
    BY <1>1, RefLocalKeeps, OwnIn, Types DEF ProcSame, Own
  <2>2. Grows(Own(q)) /\ ViewSz(q)' = ViewSz(q)
    BY <1>1, <2>1, FullStays DEF Keep, ViewSz, ThreadSame, ProcSame
  <2>3. Viewed(q)'
    <3>1. SUFFICES ASSUME state'[q] = "LIVE" PROVE Full(Own(q), ViewSz(q))'
      BY DEF Viewed
    <3>2. Full(Own(q), ViewSz(q))
      BY <1>1, <3>1 DEF FInv, Viewed, ProcSame
    <3>3. \A s, a : s = Own(q) /\ a = ViewSz(q) => Full(s, a)'
      BY <2>2, <3>2, FullStays
    <3>4. QED
      BY <2>1, <2>2, <3>3 DEF Full
  <2>4. Filling(q) /\ ThreadSame(q) /\ sz'[q] = sz[q]
    BY <1>1 DEF FInv, ProcSame
  <2>5. ASSUME Busy(q) PROVE Grows(tgt[q])
    <3>1. tgt[q] \in Space /\ tgt[q][1] \in Proc \ {p, np}
      BY <1>1, <2>5, Apart, Types
    <3>2. QED
      BY <3>1, RefLocalKeeps, FullStays DEF Keep
  <2>6. Filling(q)'
    BY <2>1, <2>4, <2>5, FillingKept
  <2>7. QED
    BY <2>3, <2>6
<1>2. QED
  BY <1>1 DEF FInv

-----------------------------------------------------------------------------
(* The page fault handler, setupkvm and userinit.                          *)

LEMMA FaultFilled == ASSUME IInv, IInv', FInv, NEW p \in Proc, Fault(p) PROVE FInv'
<1>1. ASSUME NEW m, NEW s, Panic(m) \/ KfreePanic(s) PROVE FInv'
  BY <1>1, PanicFilled, KfreePanicFilled
<1>2. pc[p] \in FaultPcs /\ pc[p] \notin GrowPcs
  BY DEF Fault, FaultAlloc, FaultCopy, FaultFree, FaultMap, At, FaultPcs, GrowPcs
<1>3. {"pf_copy", "pf_free", "pf_map", "user"} \subseteq Pcs \ FillPcs
  BY DEF Pcs, FillPcs, GrowPcs
<1>4. ASSUME NEW l \in {"pf_copy", "pf_free", "pf_map", "user"}, Jump(p, l), UNCHANGED pt,
             \A s \in Space : Grows(s)
      PROVE  FInv'
  BY <1>2, <1>3, <1>4, CalmJump DEF pt
<1>5. CASE FaultAlloc(p)
  <2>1. ASSUME NEW pg \in freelist, ref' = [ref EXCEPT ![Mem(p)] = pg], Jump(p, "pf_copy"),
               UNCHANGED pt
        PROVE  FInv'
    <3>1. \A s \in Space : Grows(s)
      BY <2>1, GrowsSet, NotPte, SlotIn, Types
    <3>2. QED
      BY <1>4, <2>1, <3>1
  <2>2. QED
    BY <1>1, <1>5, <2>1 DEF FaultAlloc
<1>6. CASE FaultCopy(p) \/ FaultFree(p)
  <2>1. ASSUME UNCHANGED ref PROVE \A s \in Space : Grows(s)
    BY <2>1 DEF Grows
  <2>2. QED
    BY <1>1, <1>4, <1>6, <2>1 DEF FaultCopy, FaultFree, KfreeSlot
<1>7. CASE FaultMap(p)
  <2>1. /\ ref' = [ref EXCEPT ![PTE(tgt[p], cur[p])] = ref[Mem(p)], ![Mem(p)] = None]
        /\ Jump(p, "user") /\ UNCHANGED pt
    BY <1>7 DEF FaultMap
  <2>2. ref[Mem(p)] # None /\ tgt[p] \in Space /\ cur[p] \in Va /\ cur[p] \in Int
    BY <1>7, Types, Ints DEF FaultMap, At, Hold, Label
  <2>3. ASSUME NEW t \in Space, NEW va \in Va, ref[PTE(t, va)] # None
        PROVE  ref'[PTE(t, va)] # None
    <3>1. PTE(t, va) \in Slot /\ Mem(p) \in Slot /\ PTE(t, va) # Mem(p) /\ Mem(p) # PTE(tgt[p], cur[p])
      BY <2>2, NotPte, SlotIn, Ints
    <3>2. QED
      BY <2>1, <2>2, <2>3, <3>1, Types DEF MemOK
  <2>4. QED
    BY <1>4, <2>1, <2>3 DEF Grows
<1>8. QED
  BY <1>5, <1>6, <1>7 DEF Fault

LEMMA SetupFilled == ASSUME IInv, IInv', Struct, FInv, NEW p \in Proc, Setup(p) PROVE FInv'
<1>1. CASE Panic("userinit")
  BY <1>1, PanicFilled
<1>2. /\ pc[p] \in {"s_pgdir", "s_kpde"} /\ pc[p] \notin GrowPcs /\ tgt[p] \in Space
      /\ UNCHANGED pt \/ Panic("userinit")
  BY Types DEF Setup, SetupPgdir, SetupKpde, At, GrowPcs
<1>3. CASE SetupPgdir(p)
  <2>1. ASSUME NEW pg \in freelist, ref' = [ref EXCEPT ![PgDir(tgt[p])] = pg], UNCHANGED pt,
               cur' = [cur EXCEPT ![p] = NVa], Goto(p, "s_kpde"), UNCHANGED <<tgt, lo, hi, ret>>
        PROVE  FInv'
    <3>1. /\ \A q \in Proc \ {p} : ThreadSame(q)
          /\ pc'[p] = "s_kpde" /\ ret'[p] = ret[p]
      BY <2>1, Types DEF ThreadSame, Goto, ThreadOK
    <3>2. \A s \in Space : Grows(s)
      BY <1>2, <2>1, GrowsSet, NotPte, Ints, SlotIn, Types
    <3>3. pc'[p] \notin FillPcs
      BY <3>1 DEF FillPcs, GrowPcs
    <3>4. QED
      BY <1>2, <2>1, <3>1, <3>2, <3>3, CalmFilled DEF pt
  <2>2. ASSUME NEW l \in {"user", "f_fail"}, Jump(p, l), UNCHANGED <<ref, pt>> PROVE FInv'
    <3>1. l \in Pcs \ FillPcs /\ \A s \in Space : Grows(s)
      BY <2>2 DEF Pcs, FillPcs, GrowPcs, Grows
    <3>2. QED
      BY <1>2, <2>2, <3>1, CalmJump DEF pt
  <2>3. QED
    BY <1>1, <1>3, <2>1, <2>2 DEF SetupPgdir, mm
<1>4. CASE SetupKpde(p)
  <2>1. ASSUME NEW pg \in freelist, ref' = [ref EXCEPT ![PDE(tgt[p], cur[p])] = pg], UNCHANGED pt,
               UNCHANGED <<tgt, lo, hi, ret>>, NEW n, cur' = [cur EXCEPT ![p] = n],
               pc' = pc \/ (Goto(p, AfterSetup(p)) /\ n = 0)
        PROVE  FInv'
    <3>1. /\ \A q \in Proc \ {p} : ThreadSame(q)
          /\ ret'[p] = ret[p] /\ tgt'[p] = tgt[p] /\ cur'[p] = n
          /\ pc'[p] = pc[p] \/ (pc'[p] = AfterSetup(p) /\ n = 0)
      BY <2>1, Types DEF ThreadSame, Goto, ThreadOK
    <3>2. cur[p] \in Pde /\ cur[p] \in Int
      BY <1>4, Ints DEF SetupKpde, At, Struct, TargetSlots
    <3>3. \A s \in Space : Grows(s)
      BY <1>2, <2>1, <3>2, GrowsSet, SlotIn, KallocOK, Types, PageAssumption DEF MemOK
    <3>4. CASE pc'[p] \in {"s_kpde", "b_uvm"}
      <4>1. pc'[p] \notin FillPcs
        BY <3>4 DEF FillPcs, GrowPcs
      <4>2. QED
        BY <1>2, <2>1, <3>1, <3>3, <4>1, CalmFilled DEF pt
    <3>5. CASE pc'[p] \in {"a_alloc", "f_copy"}
      <4>1. cur'[p] = 0
        BY <1>2, <3>1, <3>5
      <4>2. Full(tgt[p], cur[p])'
        BY <4>1, Ints DEF Full, Va
      <4>3. QED
        BY <1>2, <2>1, <3>1, <3>3, <3>5, <4>2, WorkFilled DEF pt
    <3>6. pc'[p] \in {"s_kpde", "b_uvm", "a_alloc", "f_copy"}
      BY <1>4, <3>1 DEF AfterSetup, SetupKpde, At
    <3>7. QED
      BY <3>4, <3>5, <3>6
  <2>2. ASSUME StartFreevm(p, tgt[p]), UNCHANGED <<mm, pt>> PROVE FInv'
    <3>1. ret[p] # "g_done" /\ 0 \in 0 .. NVa /\ "fv_tab" \in Pcs
      BY <1>2, SizeAssumption DEF FInv, Filling, Pcs
    <3>2. ViewSz(p) = sz[p] /\ \A s \in Space : Grows(s)
      BY <2>2, <3>1 DEF ViewSz, Grows, mm
    <3>3. QED
      BY <2>2, <3>1, <3>2, DvFilled DEF StartFreevm, pt
  <2>3. QED
    BY <1>1, <1>4, <2>1, <2>2 DEF SetupKpde
<1>5. QED
  BY <1>3, <1>4 DEF Setup

LEMMA GrowsStill == ASSUME UNCHANGED ref PROVE \A s \in Space : Grows(s)
BY DEF Grows

LEMMA GrowsMem ==
  ASSUME MemOK, NEW q \in Proc, NEW s \in {Mem(q), KStack(q)}, NEW x,
         ref' = [ref EXCEPT ![s] = x]
  PROVE  \A t \in Space : Grows(t)
<1>1. s \in Slot /\ \A t \in Space, a \in Int : s # PTE(t, a)
  BY SlotIn, NotPte
<1>2. QED
  BY <1>1, GrowsSet

LEMMA BootFilled == ASSUME IInv, IInv', Struct, FInv, NEW p \in Proc, Boot(p) PROVE FInv'
<1>1. ASSUME NEW m, NEW s, NEW va, Panic(m) \/ Remap(s, va) PROVE FInv'
  BY <1>1, PanicFilled, RemapFilled
<1>2. pc[p] \in {"b_kstack", "b_uvm", "b_map"} /\ pc[p] \notin GrowPcs
  BY DEF Boot, BootKstack, BootUvm, BootMap, At, GrowPcs
<1>3. {"s_pgdir", "b_map"} \subseteq Pcs \ FillPcs
  BY DEF Pcs, FillPcs, GrowPcs
<1>4. ASSUME NEW l \in {"s_pgdir", "b_map"}, Jump(p, l), UNCHANGED pt,
             NEW s \in {Mem(p), KStack(p)}, NEW x, ref' = [ref EXCEPT ![s] = x]
      PROVE  FInv'
  <2>1. \A t \in Space : Grows(t)
    BY <1>4, GrowsMem, Types
  <2>2. QED
    BY <1>2, <1>3, <1>4, <2>1, CalmJump DEF pt
<1>5. CASE BootKstack(p) \/ BootUvm(p)
  BY <1>1, <1>4, <1>5 DEF BootKstack, BootUvm
<1>6. CASE BootMap(p)
  <2>1. ASSUME Mappages(p, tgt[p], 0, {"W", "U"}), state' = [state EXCEPT ![p] = "LIVE"],
               sz' = [sz EXCEPT ![p] = 1], Jump(p, "user"), UNCHANGED side
        PROVE  FInv'
    <3>1. /\ pc[p] = "b_map" /\ Busy(p) /\ tgt[p] = Own(p) /\ Own(p)[1] = p
          /\ tgt[p] \in Space /\ "user" \in Pcs /\ 0 \in Va /\ ref[Mem(p)] # None
      BY <1>6, OwnIn, Types, Ints DEF BootMap, At, Busy, Pcs, Struct, Target, Hold
    <3>2. ref'[PTE(tgt[p], 0)] = ref[Mem(p)] /\ RefLocal(p)
      BY <2>1, <3>1, MappagesSets, MappagesLocal, Types
    <3>3. /\ \A q \in Proc \ {p} : ThreadSame(q) /\ ProcSame(q)
          /\ pc'[p] = "user" /\ ret'[p] = "idle" /\ sz'[p] = 1 /\ Own(p)' = Own(p)
      BY <2>1, <3>1, JumpBounds, Types DEF ProcSame, ProcOK, Jump, ThreadOK, Own
    <3>4. Viewed(p)'
      <4>1. \A va \in Va : va < 1 => va = 0
        BY DEF Va
      <4>2. ViewSz(p)' = 1
        BY <3>3 DEF ViewSz
      <4>3. QED
        BY <3>1, <3>2, <3>3, <4>1, <4>2 DEF Viewed, Full
    <3>5. Filling(p)'
      BY <3>3, FillingQuiet
    <3>6. tgt[p][1] = p
      BY <3>1
    <3>7. QED
      BY <3>1, <3>2, <3>3, <3>4, <3>5, <3>6, TouchFilled
  <2>2. QED
    BY <1>1, <1>6, <2>1 DEF BootMap
<1>7. QED
  BY <1>5, <1>6 DEF Boot

-----------------------------------------------------------------------------
(* fork                                                                    *)

LEMMA ForkDoneFilled ==
  ASSUME IInv, Struct, FInv, NEW p \in Proc, ForkDone(p) PROVE FInv'
<1> DEFINE np == tgt[p][1]
<1>1. /\ pc[p] = "f_copy" /\ cur[p] >= sz[p] /\ Busy(p) /\ np # p /\ np \in Proc
      /\ state[p] = "LIVE" /\ tgt[p] # Own(p) /\ tgt[p] = Own(np) /\ tgt[p] \in Space
  BY ForkFacts DEF ForkDone, At
<1>2. /\ state' = [state EXCEPT ![np] = "LIVE"] /\ UNCHANGED <<ref, side, lo, hi, ret>>
      /\ pc' = [pc EXCEPT ![p] = "user", ![np] = "user"]
      /\ tgt' = [tgt EXCEPT ![p] = <<p, 0>>] /\ cur' = [cur EXCEPT ![p] = 0]
      /\ sz' = [sz EXCEPT ![np] = sz[p]]
  BY DEF ForkDone, mm
<1>3. /\ pc'[p] = "user" /\ pc'[np] = "user" /\ sz'[np] = sz[p] /\ sz'[p] = sz[p]
      /\ state'[p] = state[p]
      /\ \A q \in Proc \ {p, np} : ThreadSame(q) /\ ProcSame(q)
  BY <1>1, <1>2, Types DEF ThreadSame, ProcSame, ThreadOK, ProcOK
<1>4. ret[p] # "g_done" /\ ret[np] # "g_done"
  <2>1. pc[p] \notin GrowPcs /\ pc[np] \notin GrowPcs
    BY <1>1, Types DEF ThreadsApart, GrowPcs
  <2>2. QED
    BY <1>1, <2>1 DEF FInv, Filling
<1>5. Viewed(p)' /\ Filling(p)'
  <2>1. ViewSz(p)' = ViewSz(p) /\ Own(p)' = Own(p)
    BY <1>2, <1>3, <1>4 DEF ViewSz, Own
  <2>2. QED
    BY <1>2, <1>3, <1>4, <2>1, FillingQuiet DEF FInv, Viewed, Full
<1>6. ASSUME NEW n, n = np PROVE FInv'
  <2>1. Full(Own(n), sz[p])
    <3>1. Full(tgt[p], cur[p])
      BY <1>1 DEF FInv, Filling
    <3>2. cur[p] \in Int /\ sz[p] \in Int
      BY ViewIn, Types
    <3>3. QED
      BY <1>1, <1>6, <3>1, <3>2, FullStays
  <2>2. ViewSz(n)' = sz[p] /\ Own(n)' = Own(n)
    BY <1>2, <1>3, <1>4, <1>6 DEF ViewSz, Own
  <2>3. Viewed(n)'
    BY <1>2, <2>1, <2>2 DEF Viewed, Full
  <2>4. Filling(n)'
    BY <1>1, <1>2, <1>3, <1>4, <1>6, FillingQuiet
  <2>5. QED
    BY <1>1, <1>2, <1>3, <1>5, <1>6, <2>3, <2>4, RefSame, TouchFilled
<1>7. QED
  BY <1>6

LEMMA ForkFilled == ASSUME IInv, IInv', Struct, FInv, NEW p \in Proc, Fork(p) PROVE FInv'
<1>1. ASSUME NEW m, NEW s, NEW va, Panic(m) \/ KfreePanic(s) \/ Remap(s, va) PROVE FInv'
  BY <1>1, PanicFilled, KfreePanicFilled, RemapFilled
<1>2. pc[p] \in {"f_kstack", "f_copy", "f_map", "f_unref", "f_fail"} /\ pc[p] \notin GrowPcs
  BY DEF Fork, ForkKstack, ForkCopy, ForkMap, ForkUnref, ForkFail, ForkDone, At, GrowPcs
<1>3. /\ tgt[p] \in Space /\ tgt[p][1] \in Proc
      /\ ret[p] # "g_done" /\ ViewSz(p) = sz[p]
  BY <1>2, Types DEF FInv, Filling, ViewSz
<1>4. {"s_pgdir", "user", "f_unref"} \subseteq Pcs \ FillPcs
  BY DEF Pcs, FillPcs, GrowPcs
<1>5. ASSUME NEW l \in {"s_pgdir", "user", "f_unref"}, Jump(p, l), UNCHANGED <<sz, side>>,
             \A q \in Proc : state'[q] = "LIVE" => state[q] = "LIVE",
             UNCHANGED ref \/ \E x : ref' = [ref EXCEPT ![KStack(tgt[p][1])] = x]
      PROVE  FInv'
  <2>1. \A t \in Space : Grows(t)
    BY <1>3, <1>5, GrowsMem, GrowsStill, Types
  <2>2. QED
    BY <1>2, <1>4, <1>5, <2>1, CalmJump
<1>6. state' = [state EXCEPT ![tgt[p][1]] = "UNUSED"]
        => \A q \in Proc : state'[q] = "LIVE" => state[q] = "LIVE"
  BY Types DEF ProcOK
<1>7. CASE ForkKstack(p) \/ ForkFail(p)
  <2>1. \/ \E m, s : Panic(m) \/ KfreePanic(s)
        \/ /\ \E l \in {"s_pgdir", "user", "f_unref"} : Jump(p, l)
           /\ UNCHANGED <<sz, side>>
           /\ UNCHANGED state \/ state' = [state EXCEPT ![tgt[p][1]] = "UNUSED"]
           /\ UNCHANGED ref \/ \E x : ref' = [ref EXCEPT ![KStack(tgt[p][1])] = x]
    BY <1>7 DEF ForkKstack, ForkFail, mm, pt, KfreeSlot
  <2>2. QED
    BY <1>1, <1>5, <1>6, <2>1
<1>8. CASE ForkCopy(p)
  <2>1. ASSUME NEW x, ref' = [ref EXCEPT ![Mem(p)] = x], Jump(p, "f_map"), UNCHANGED pt
        PROVE  FInv'
    <3>1. "f_map" \in Pcs /\ pc[p] = "f_copy"
      BY <1>8 DEF Pcs, ForkCopy, At
    <3>2. /\ \A q \in Proc \ {p} : ThreadSame(q)
          /\ pc'[p] = "f_map" /\ UNCHANGED <<tgt, cur, ret>>
      BY <2>1, <3>1, JumpBounds, Types
    <3>3. \A t \in Space : Grows(t)
      BY <2>1, GrowsMem, Types
    <3>4. Full(tgt[p], cur[p])
      BY <3>1 DEF FInv, Filling
    <3>5. \A s, a : s = tgt[p] /\ a = cur[p] => Full(s, a)'
      BY <1>3, <3>3, <3>4, FullStays
    <3>6. Full(tgt[p], cur[p])'
      BY <3>2, <3>5 DEF Full
    <3>7. QED
      BY <1>2, <2>1, <3>2, <3>3, <3>6, WorkFilled DEF pt
  <2>2. QED
    BY <1>1, <1>8, <2>1 DEF ForkCopy
<1>9. CASE ForkMap(p)
  <2>1. ASSUME NEW fl, Mappages(p, tgt[p], cur[p], fl), cur' = [cur EXCEPT ![p] = @ + 1],
               Goto(p, "f_copy"), UNCHANGED <<pt, tgt, lo, hi, ret>>
        PROVE  FInv'
    <3>1. pc[p] = "f_map" /\ cur[p] \in Va /\ cur[p] \in Int /\ ref[Mem(p)] # None
      BY <1>9, Types, Ints DEF ForkMap, At, Label, Hold
    <3>2. /\ \A q \in Proc \ {p} : ThreadSame(q)
          /\ pc'[p] = "f_copy" /\ cur'[p] = cur[p] + 1
      BY <2>1, Types DEF ThreadSame, Goto, ThreadOK
    <3>3. /\ \A t \in Space : Grows(t)
          /\ ref'[PTE(tgt[p], cur[p])] # None
      BY <1>3, <2>1, <3>1, GrowsMap, MappagesSets, Types
    <3>4. Full(tgt[p], cur[p])
      BY <3>1 DEF FInv, Filling
    <3>5. ASSUME NEW va \in Va, va < cur[p] + 1 PROVE ref'[PTE(tgt[p], va)] # None
      BY <1>3, <3>1, <3>3, <3>4, <3>5, Ints DEF Full, Grows
    <3>6. Full(tgt[p], cur[p])'
      BY <2>1, <3>2, <3>5 DEF Full
    <3>7. QED
      BY <1>2, <2>1, <3>2, <3>3, <3>6, WorkFilled DEF pt
  <2>2. QED
    BY <1>1, <1>5, <1>9, <2>1 DEF ForkMap, mm, pt
<1>10. CASE ForkUnref(p)
  <2>1. ASSUME ref' = [ref EXCEPT ![Mem(p)] = None], StartFreevm(p, tgt[p]), UNCHANGED pt
        PROVE  FInv'
    <3>1. 0 \in 0 .. NVa /\ "fv_tab" \in Pcs
      BY SizeAssumption DEF Pcs
    <3>2. \A t \in Space : Grows(t)
      BY <2>1, GrowsMem, Types
    <3>3. QED
      BY <1>3, <2>1, <3>1, <3>2, DvFilled DEF StartFreevm, pt
  <2>2. QED
    BY <1>1, <1>10, <2>1 DEF ForkUnref, KfreeSlot
<1>11. QED
  BY <1>7, <1>8, <1>9, <1>10, ForkDoneFilled DEF Fork

-----------------------------------------------------------------------------
(* deallocuvm and freevm                                                   *)

LEMMA NextTableUp == ASSUME NEW a \in Nat PROVE NextTable(a) \in Nat /\ NextTable(a) >= a
<1> DEFINE q == a \div NPTE
<1>1. NPTE \in Nat /\ NPTE > 0 /\ q \in Nat /\ a < (q + 1) * NPTE
  BY SizeAssumption
<1>2. (q + 1) * NPTE \in Nat
  <2> HIDE DEF q
  <2>1. QED
    BY <1>1
<1>3. QED
  BY <1>1, <1>2 DEF NextTable, PDX

\* What deallocuvm does not touch is what p sees.
LEMMA DvFacts ==
  ASSUME IInv, Struct, FInv, NEW p \in Proc, pc[p] \in {"dv", "dv_clear"}
  PROVE  /\ Filling(p) /\ cur[p] \in Nat /\ cur[p] >= lo[p] /\ sz[p] \in Nat /\ lo[p] \in Nat
         /\ tgt[p] \in Space /\ Busy(p) /\ state[p] = "LIVE" /\ Full(Own(p), ViewSz(p))
         /\ ret[p] = "g_done" => tgt[p] = Own(p) /\ hi[p] = sz[p] /\ ViewSz(p) = lo[p]
         /\ ret[p] # "g_done" => ViewSz(p) = sz[p]
         /\ tgt[p] = Own(p) => lo[p] >= ViewSz(p)
<1>1. /\ Filling(p) /\ cur[p] \in Nat /\ cur[p] >= lo[p] /\ sz[p] \in Nat /\ lo[p] \in Nat
      /\ tgt[p] \in Space /\ Busy(p) /\ state[p] = "LIVE" /\ Full(Own(p), ViewSz(p))
      /\ ret[p] \in {"user", "a_free"} /\ tgt[p] = Own(p) => lo[p] >= sz[p]
  BY DeallocTarget, Types, SizeAssumption DEF FInv, Filling, Viewed, ProcOK
<1>2. /\ ret[p] = "g_done" => tgt[p] = Own(p) /\ hi[p] = sz[p]
      /\ ret[p] = "fv_tab" => tgt[p] # Own(p)
      /\ ret[p] = "x_bad" => tgt[p] = Other(p)
      /\ ret[p] \in {"fv_tab", "g_done", "user", "x_bad", "a_free"}
  BY Types DEF Struct, Target, Label
<1>3. Own(p) # Other(p)
  BY TwoSpaces
<1>4. QED
  BY <1>1, <1>2, <1>3 DEF ViewSz

LEMMA DeallocStepFilled ==
  ASSUME IInv, IInv', Struct, FInv, NEW p \in Proc, DeallocStep(p) PROVE FInv'
<1>1. pc[p] = "dv" /\ Filling(p) /\ cur[p] \in Nat /\ cur[p] >= lo[p] /\ lo[p] \in Nat
  BY DvFacts DEF DeallocStep, At
<1>2. ASSUME UNCHANGED <<ref, pt, lo, hi, ret, tgt>>, pc'[p] \in {"dv", "dv_clear"},
             \A q \in Proc \ {p} : ThreadSame(q), cur'[p] \in Nat, cur'[p] >= cur[p]
      PROVE  FInv'
  <2>1. UNCHANGED <<sz, side, state>>
    BY <1>2 DEF pt
  <2>2. ViewSz(p)' <= ViewSz(p)
    BY <1>2, <2>1, ViewIn DEF ViewSz
  <2>3. cur'[p] >= lo[p]
    BY <1>1, <1>2
  <2>4. Filling(p)'
    BY <1>1, <1>2, <2>1, <2>3 DEF Filling, GrowPcs, Own
  <2>5. QED
    BY <1>2, <2>1, <2>2, <2>4, GrowsStill, GrowFilled
<1>3. ASSUME NEW n \in Nat, n >= cur[p], cur' = [cur EXCEPT ![p] = n],
             UNCHANGED <<mm, pt, pc, tgt, lo, hi, ret>>
      PROVE  FInv'
  <2>1. \A q \in Proc \ {p} : ThreadSame(q)
    BY <1>3 DEF ThreadSame
  <2>2. cur'[p] = n
    BY <1>3, Types DEF ThreadOK
  <2>3. QED
    BY <1>1, <1>2, <1>3, <2>1, <2>2 DEF mm
<1>4. ASSUME Jump(p, "dv_clear"), UNCHANGED <<ref, pt>> PROVE FInv'
  <2>1. "dv_clear" \in Pcs
    BY DEF Pcs
  <2>2. /\ \A q \in Proc \ {p} : ThreadSame(q)
        /\ pc'[p] = "dv_clear" /\ UNCHANGED <<tgt, cur, lo, hi, ret>>
    BY <1>4, <2>1, JumpBounds, Types
  <2>3. QED
    BY <1>1, <1>2, <1>4, <2>2
<1>5. QED
  BY <1>1, <1>3, <1>4, NextTableUp, KfreePanicFilled DEF DeallocStep, KfreeSlot

LEMMA DeallocClearFilled ==
  ASSUME IInv, Struct, FInv, NEW p \in Proc, DeallocClear(p) PROVE FInv'
<1>1. /\ pc[p] = "dv_clear" /\ ref' = [ref EXCEPT ![PTE(tgt[p], cur[p])] = None]
      /\ cur' = [cur EXCEPT ![p] = cur[p] + 1] /\ Goto(p, "dv")
      /\ UNCHANGED <<pt, tgt, lo, hi, ret>>
  BY DEF DeallocClear, At
<1>2. /\ Filling(p) /\ cur[p] \in Nat /\ cur[p] >= lo[p] /\ lo[p] \in Nat
      /\ tgt[p] \in Space /\ Busy(p) /\ Full(Own(p), ViewSz(p))
      /\ tgt[p] = Own(p) => lo[p] >= ViewSz(p)
  BY <1>1, DvFacts
<1>3. /\ \A q \in Proc \ {p} : ThreadSame(q) /\ ProcSame(q)
      /\ \A q \in Proc : state'[q] = state[q]
      /\ pc'[p] = "dv" /\ cur'[p] = cur[p] + 1
      /\ UNCHANGED <<sz, side>>
  BY <1>1, Types DEF ThreadSame, ProcSame, Goto, ThreadOK, pt
<1>4. cur[p] \in Va /\ tgt[p][1] \in Proc
  BY <1>1, Types DEF Label
<1>5. RefLocal(p) /\ \A b \in Va \ {cur[p]} : ref'[PTE(tgt[p], b)] = ref[PTE(tgt[p], b)]
  BY <1>1, <1>2, <1>4, RefOne, SetPte, SlotIn, Types DEF OwnSlot
<1>6. Viewed(p)'
  <2>1. SUFFICES ASSUME NEW va \in Va, va < ViewSz(p) PROVE ref'[PTE(Own(p), va)] # None
    <3>1. ViewSz(p)' = ViewSz(p) /\ Own(p)' = Own(p)
      BY <1>1, <1>3 DEF ViewSz, Own
    <3>2. QED
      BY <3>1 DEF Viewed, Full
  <2>2. ref[PTE(Own(p), va)] # None
    BY <1>2, <2>1 DEF Full
  <2>3. CASE tgt[p] = Own(p)
    <3>1. va # cur[p]
      BY <1>2, <2>1, <2>3, ViewIn
    <3>2. QED
      BY <1>5, <2>2, <2>3, <3>1
  <2>4. CASE tgt[p] # Own(p)
    BY <1>5, <2>2, <2>4, RefLocalKeeps, OwnIn, Types DEF KeepPte
  <2>5. QED
    BY <2>3, <2>4
<1>7. Filling(p)'
  <2>1. cur'[p] >= lo[p]
    BY <1>2, <1>3
  <2>2. Own(p)' = Own(p)
    BY <1>3 DEF Own
  <2>3. QED
    BY <1>1, <1>2, <1>3, <2>1, <2>2 DEF Filling, GrowPcs
<1>8. ASSUME NEW n, n = tgt[p][1] PROVE FInv'
  <2>1. ASSUME n # p PROVE Viewed(n)' /\ Filling(n)'
    <3>1. state[n] # "LIVE" /\ pc[n] = "idle" /\ n \in Proc
      BY <1>2, <1>4, <1>8, <2>1, Types DEF ThreadsApart
    <3>2. ret[n] # "g_done"
      BY <3>1 DEF FInv, Filling, GrowPcs
    <3>3. pc'[n] = "idle" /\ ret'[n] # "g_done" /\ state'[n] # "LIVE"
      BY <1>3, <2>1, <3>1, <3>2 DEF ThreadSame
    <3>4. QED
      BY <3>1, <3>3, FillingQuiet DEF Viewed
  <2>2. QED
    BY <1>2, <1>3, <1>5, <1>6, <1>7, <1>8, <2>1, TouchFilled
<1>9. QED
  BY <1>8

LEMMA DeallocDoneFilled ==
  ASSUME IInv, IInv', Struct, FInv, NEW p \in Proc, DeallocDone(p) PROVE FInv'
<1>1. pc[p] = "dv" /\ Jump(p, ret[p]) /\ UNCHANGED <<ref, sz, side, state>>
  BY DEF DeallocDone, At, mm, pt
<1>2. /\ Full(Own(p), ViewSz(p))
      /\ ret[p] = "g_done" => tgt[p] = Own(p) /\ hi[p] = sz[p] /\ ViewSz(p) = lo[p]
      /\ ret[p] # "g_done" => ViewSz(p) = sz[p]
  BY <1>1, DvFacts
<1>3. /\ ret[p] \in {"fv_tab", "g_done", "user", "x_bad", "a_free"}
      /\ ret[p] \in Pcs
  BY <1>1, Types DEF Label, Pcs
<1>4. /\ \A q \in Proc \ {p} : ThreadSame(q)
      /\ pc'[p] = ret[p]
      /\ ret[p] # "user" => UNCHANGED <<tgt, cur, lo, hi, ret>>
  BY <1>1, <1>3, JumpBounds, Types
<1>5. ret[p] = "user" => ret'[p] = "idle"
  BY <1>1, Types DEF Jump, ThreadOK
<1>6. ViewSz(p)' <= ViewSz(p)
  <2>1. CASE ret[p] = "user"
    BY <1>1, <1>2, <1>5, <2>1, ViewIn DEF ViewSz
  <2>2. CASE ret[p] # "user"
    BY <1>1, <1>4, <2>2, ViewIn DEF ViewSz
  <2>3. QED
    BY <2>1, <2>2
<1>7. Filling(p)'
  <2>1. CASE ret[p] = "g_done"
    <3>1. Full(tgt[p], IF hi[p] = sz[p] THEN lo[p] ELSE hi[p])
      BY <1>2, <2>1
    <3>2. Full(tgt[p], IF hi[p] = sz[p] THEN lo[p] ELSE hi[p])'
      BY <1>1, <1>4, <2>1, <3>1 DEF Full
    <3>3. QED
      BY <1>4, <2>1, <3>2 DEF Filling, GrowPcs
  <2>2. CASE ret[p] # "g_done"
    BY <1>3, <1>4, <1>5, <2>2 DEF Filling
  <2>3. QED
    BY <2>1, <2>2
<1>8. QED
  BY <1>1, <1>4, <1>6, <1>7, GrowsStill, GrowFilled

LEMMA FreeTabFilled ==
  ASSUME IInv, IInv', Struct, FInv, NEW p \in Proc, FreeTab(p) PROVE FInv'
<1>1. pc[p] = "fv_tab" /\ pc[p] \notin FillPcs /\ pc[p] \notin GrowPcs /\ tgt[p] \in Space
  BY Types DEF FreeTab, At, FillPcs, GrowPcs
<1>2. ASSUME NEW i \in Pde, ref' = [ref EXCEPT ![PDE(tgt[p], i)] = None], UNCHANGED <<pt, kt>>
      PROVE  FInv'
  <2>1. /\ \A q \in Proc : ThreadSame(q)
        /\ UNCHANGED <<sz, side, state, pc, ret>>
    BY <1>2 DEF ThreadSame, kt, loc, pt
  <2>2. \A t \in Space : Grows(t)
    BY <1>1, <1>2, GrowsSet, NotPte, Ints, SlotIn, Types
  <2>3. QED
    BY <1>1, <2>1, <2>2, CalmFilled
<1>3. ASSUME ref' = [ref EXCEPT ![PgDir(tgt[p])] = None], Jump(p, AfterFreevm(p)), UNCHANGED pt
      PROVE  FInv'
  <2>1. AfterFreevm(p) \in Pcs \ FillPcs
    BY DEF AfterFreevm, Pcs, FillPcs, GrowPcs
  <2>2. \A t \in Space : Grows(t)
    BY <1>1, <1>3, GrowsSet, NotPte, SlotIn, Types
  <2>3. QED
    BY <1>1, <1>3, <2>1, <2>2, CalmJump DEF pt
<1>4. QED
  BY <1>2, <1>3, KfreePanicFilled DEF FreeTab, KfreeSlot

LEMMA DeallocFilled == ASSUME IInv, IInv', Struct, FInv, NEW p \in Proc, Dealloc(p) PROVE FInv'
BY DeallocStepFilled, DeallocClearFilled, DeallocDoneFilled, FreeTabFilled DEF Dealloc

-----------------------------------------------------------------------------
(* allocuvm and growproc                                                   *)

\* allocuvm fills the space up to its cursor; what p sees ends below.
LEMMA GrowFacts ==
  ASSUME IInv, Struct, FInv, NEW p \in Proc, pc[p] \in {"a_alloc", "a_map"}
  PROVE  /\ Full(tgt[p], cur[p]) /\ ViewSz(p) = sz[p] /\ lo[p] \in 0 .. NVa
         /\ tgt[p] = Own(p) => ret[p] = "g_done" /\ lo[p] = sz[p]
<1>1. Own(p) # Other(p)
  BY TwoSpaces
<1>2. Full(tgt[p], cur[p]) /\ lo[p] \in 0 .. NVa
  BY Types DEF FInv, Filling, ThreadOK
<1>3. QED
  BY <1>1, <1>2, AllocFacts DEF ViewSz

LEMMA UndoFilled ==
  ASSUME IInv, IInv', Struct, FInv, NEW p \in Proc, pc[p] \in {"a_alloc", "a_map"},
         NEW r \in {"a_free", "user", "x_bad"}, StartDealloc(p, tgt[p], lo[p], hi[p], r),
         UNCHANGED <<ref, pt>>
  PROVE  FInv'
<1>1. /\ ViewSz(p) = sz[p] /\ lo[p] \in 0 .. NVa /\ sz[p] \in Nat
      /\ tgt[p] = Own(p) => lo[p] >= sz[p]
  BY GrowFacts, AllocFacts
<1>2. r \in Pcs /\ UNCHANGED <<sz, side, state>> /\ \A t \in Space : Grows(t)
  BY GrowsStill DEF Pcs, pt
<1>3. QED
  BY <1>1, <1>2, DvFilled

LEMMA AllocPageFilled ==
  ASSUME IInv, IInv', Struct, FInv, NEW p \in Proc, AllocPage(p) PROVE FInv'
<1>1. pc[p] = "a_alloc"
  BY DEF AllocPage, At
<1>2. ASSUME NEW pg, ref' = [ref EXCEPT ![Mem(p)] = pg], Jump(p, "a_map"), UNCHANGED pt
      PROVE  FInv'
  <2>1. "a_map" \in Pcs
    BY DEF Pcs
  <2>2. /\ \A q \in Proc \ {p} : ThreadSame(q)
        /\ pc'[p] = "a_map" /\ UNCHANGED <<tgt, cur, lo, hi, ret, sz, side, state>>
    BY <1>2, <2>1, JumpBounds, Types DEF pt
  <2>3. \A t \in Space : Grows(t)
    BY <1>2, GrowsMem, Types
  <2>4. \A s, a : s = tgt[p] /\ a = cur[p] => Full(s, a)'
    BY <1>1, <2>3, GrowFacts, FullStays, Types
  <2>5. Filling(p)'
    BY <2>2, <2>4 DEF Filling, GrowPcs, Full
  <2>6. ViewSz(p)' <= ViewSz(p)
    BY <2>2, ViewIn DEF ViewSz
  <2>7. QED
    BY <2>2, <2>3, <2>5, <2>6, GrowFilled
<1>3. ASSUME StartDealloc(p, tgt[p], lo[p], hi[p], AllocFailed(p)), UNCHANGED <<mm, pt>>
      PROVE  FInv'
  BY <1>1, <1>3, UndoFilled DEF AllocFailed, mm
<1>4. QED
  BY <1>2, <1>3 DEF AllocPage

LEMMA AllocMapFilled ==
  ASSUME IInv, IInv', Struct, FInv, NEW p \in Proc, AllocMap(p) PROVE FInv'
<1>1. pc[p] = "a_map"
  BY DEF AllocMap, At
<1>2. ASSUME NEW fl, Mappages(p, tgt[p], cur[p], fl), cur' = [cur EXCEPT ![p] = @ + 1],
             Goto(p, "a_alloc"), UNCHANGED <<pt, tgt, lo, hi, ret>>
      PROVE  FInv'
  <2>1. cur[p] \in Va /\ cur[p] \in Int /\ tgt[p] \in Space /\ ref[Mem(p)] # None
    BY <1>1, AllocFacts, Types, Ints DEF Hold
  <2>2. /\ \A q \in Proc \ {p} : ThreadSame(q)
        /\ pc'[p] = "a_alloc" /\ cur'[p] = cur[p] + 1 /\ UNCHANGED <<sz, side, state>>
    BY <1>2, Types DEF ThreadSame, Goto, ThreadOK, pt
  <2>3. /\ \A t \in Space : Grows(t)
        /\ ref'[PTE(tgt[p], cur[p])] # None
    BY <1>2, <2>1, GrowsMap, MappagesSets, Types
  <2>4. Full(tgt[p], cur[p])
    BY <1>1, GrowFacts
  <2>5. ASSUME NEW va \in Va, va < cur[p] + 1 PROVE ref'[PTE(tgt[p], va)] # None
    BY <2>1, <2>3, <2>4, <2>5, Ints DEF Full, Grows
  <2>6. Full(tgt[p], cur[p])'
    BY <1>2, <2>2, <2>5 DEF Full
  <2>7. Filling(p)'
    BY <1>2, <2>2, <2>6 DEF Filling, GrowPcs
  <2>8. ViewSz(p)' <= ViewSz(p)
    BY <1>2, <2>2, ViewIn DEF ViewSz
  <2>9. QED
    BY <2>2, <2>3, <2>7, <2>8, GrowFilled
<1>3. ASSUME StartDealloc(p, tgt[p], lo[p], hi[p], "a_free"), UNCHANGED <<mm, pt>> PROVE FInv'
  BY <1>1, <1>3, UndoFilled DEF mm
<1>4. QED
  BY <1>2, <1>3, RemapFilled DEF AllocMap

LEMMA AllocDoneFilled ==
  ASSUME IInv, IInv', Struct, FInv, NEW p \in Proc, AllocDone(p) PROVE FInv'
<1>1. pc[p] = "a_alloc" /\ cur[p] >= hi[p] /\ Jump(p, ret[p]) /\ UNCHANGED <<ref, sz, side, state>>
  BY DEF AllocDone, At, mm, pt
<1>2. /\ cur[p] = hi[p] /\ ret[p] \in {"g_done", "x_load", "x_stack"}
      /\ ret[p] = "g_done" => hi[p] # sz[p]
  BY <1>1, AllocFacts
<1>3. ret[p] \in Pcs /\ ret[p] # "user"
  BY <1>2 DEF Pcs
<1>4. /\ \A q \in Proc \ {p} : ThreadSame(q)
      /\ pc'[p] = ret[p] /\ UNCHANGED <<tgt, cur, lo, hi, ret>>
  BY <1>1, <1>3, JumpBounds, Types
<1>5. Full(tgt[p], hi[p])
  BY <1>1, <1>2, GrowFacts
<1>6. Full(tgt[p], hi[p])'
  BY <1>1, <1>4, <1>5 DEF Full
<1>7. Filling(p)'
  <2>1. CASE ret[p] = "g_done"
    <3>1. Full(tgt[p], IF hi[p] = sz[p] THEN lo[p] ELSE hi[p])'
      BY <1>1, <1>2, <1>4, <1>6, <2>1
    <3>2. QED
      BY <1>4, <2>1, <3>1 DEF Filling, GrowPcs
  <2>2. CASE ret[p] # "g_done"
    BY <1>2, <1>4, <1>6, <2>2 DEF Filling
  <2>3. QED
    BY <2>1, <2>2
<1>8. ViewSz(p)' <= ViewSz(p)
  BY <1>1, <1>4, ViewIn DEF ViewSz
<1>9. QED
  BY <1>1, <1>4, <1>7, <1>8, GrowsStill, GrowFilled

LEMMA AllocFreeFilled ==
  ASSUME IInv, IInv', Struct, FInv, NEW p \in Proc, AllocFree(p) PROVE FInv'
<1>1. CASE KfreePanic(Mem(p))
  BY <1>1, KfreePanicFilled
<1>2. CASE ref' = [ref EXCEPT ![Mem(p)] = None] /\ Jump(p, AllocFailed(p)) /\ UNCHANGED pt
  <2>1. pc[p] \notin GrowPcs /\ AllocFailed(p) \in Pcs \ FillPcs
    BY DEF AllocFree, At, AllocFailed, Pcs, FillPcs, GrowPcs
  <2>2. \A t \in Space : Grows(t)
    BY <1>2, GrowsMem, Types
  <2>3. QED
    BY <1>2, <2>1, <2>2, CalmJump DEF pt
<1>3. QED
  BY <1>1, <1>2 DEF AllocFree, KfreeSlot

LEMMA GrowDoneFilled ==
  ASSUME IInv, Struct, FInv, NEW p \in Proc, GrowDone(p) PROVE FInv'
<1> DEFINE n == IF hi[p] = sz[p] THEN lo[p] ELSE hi[p]
<1>1. /\ pc[p] = "g_done" /\ Jump(p, "user") /\ UNCHANGED <<ref, state, side>>
      /\ sz' = [sz EXCEPT ![p] = n] /\ "user" \in Pcs
  BY DEF GrowDone, At, mm, Pcs
<1>2. Busy(p) /\ tgt[p] = Own(p) /\ Own(p)[1] = p
  BY <1>1, OwnIn, Types DEF Busy, Struct, Target
<1>3. Full(Own(p), n)
  BY <1>1, <1>2 DEF FInv, Filling
<1>4. /\ \A q \in Proc \ {p} : ThreadSame(q) /\ ProcSame(q)
      /\ pc'[p] = "user" /\ ret'[p] = "idle" /\ sz'[p] = n /\ Own(p)' = Own(p)
  <2> HIDE DEF n
  <2>1. QED
    BY <1>1, JumpBounds, Types DEF ProcSame, ProcOK, Jump, ThreadOK, Own
<1>5. Viewed(p)'
  <2>1. ViewSz(p)' = n
    BY <1>4 DEF ViewSz
  <2>2. QED
    BY <1>1, <1>3, <1>4, <2>1 DEF Viewed, Full
<1>6. Filling(p)'
  BY <1>4, FillingQuiet
<1>7. tgt[p][1] = p
  BY <1>2
<1>8. QED
  BY <1>1, <1>2, <1>4, <1>5, <1>6, <1>7, RefSame, TouchFilled

LEMMA AllocFilled == ASSUME IInv, IInv', Struct, FInv, NEW p \in Proc, Alloc(p) PROVE FInv'
BY AllocPageFilled, AllocMapFilled, AllocFreeFilled, AllocDoneFilled, GrowDoneFilled DEF Alloc

-----------------------------------------------------------------------------
(* exec, exit and wait                                                     *)

\* A path outside allocuvm and deallocuvm sees p->sz pages.
LEMMA CalmView ==
  ASSUME FInv, NEW p \in Proc, pc[p] \notin GrowPcs
  PROVE  ret[p] # "g_done" /\ ViewSz(p) = sz[p]
BY DEF FInv, Filling, ViewSz

LEMMA FreevmFilled ==
  ASSUME IInv, IInv', FInv, NEW p \in Proc, pc[p] \notin GrowPcs, StartFreevm(p, tgt[p]),
         UNCHANGED pt, \A t \in Space : Grows(t)
  PROVE  FInv'
<1>1. 0 \in 0 .. NVa /\ "fv_tab" \in Pcs /\ UNCHANGED <<sz, side, state>>
  BY SizeAssumption DEF Pcs, pt
<1>2. QED
  BY <1>1, CalmView, DvFilled DEF StartFreevm

LEMMA CommitFilled ==
  ASSUME IInv, Struct, FInv, NEW p \in Proc, pc[p] = "x_stack",
         side' = [side EXCEPT ![p] = 1 - @], sz' = [sz EXCEPT ![p] = hi[p]],
         StartFreevm(p, OldSpace(p)), UNCHANGED <<ref, state>>
  PROVE  FInv'
<1>1. /\ Busy(p) /\ tgt[p] = Other(p) /\ tgt[p][1] = p /\ Full(tgt[p], hi[p])
  BY ExecFacts DEF FInv, Filling
<1>2. /\ \A q \in Proc \ {p} : ThreadSame(q)
      /\ pc'[p] = "dv" /\ lo'[p] = 0 /\ cur'[p] = 0 /\ ret'[p] = "fv_tab"
  BY StartDeallocSame, Types DEF StartFreevm
<1>3. /\ \A q \in Proc \ {p} : ProcSame(q)
      /\ sz'[p] = hi[p] /\ Own(p)' = tgt[p]
  BY <1>1, Types DEF ProcSame, ProcOK, Own, Other
<1>4. Viewed(p)'
  <2>1. ViewSz(p)' = hi[p]
    BY <1>2, <1>3 DEF ViewSz
  <2>2. QED
    BY <1>1, <1>3, <2>1 DEF Viewed, Full
<1>5. Filling(p)'
  BY <1>2 DEF Filling
<1>6. QED
  BY <1>1, <1>2, <1>3, <1>4, <1>5, RefSame, TouchFilled

LEMMA ExecFilled == ASSUME IInv, IInv', Struct, FInv, NEW p \in Proc, Exec(p) PROVE FInv'
<1>1. pc[p] \in {"x_load", "x_stack", "x_bad"} /\ pc[p] \notin GrowPcs /\ UNCHANGED ref
  BY DEF Exec, ExecLoad, ExecStack, ExecBad, At, GrowPcs, mm
<1>2. \A t \in Space : Grows(t)
  BY <1>1, GrowsStill
<1>3. ASSUME Goto(p, "x_bad"), UNCHANGED <<state, sz, side, tgt, cur, lo, hi, ret>> PROVE FInv'
  <2>1. /\ \A q \in Proc \ {p} : ThreadSame(q)
        /\ pc'[p] = "x_bad" /\ "x_bad" \notin FillPcs
    BY <1>3, Types DEF ThreadSame, Goto, ThreadOK, FillPcs, GrowPcs
  <2>2. QED
    BY <1>1, <1>2, <1>3, <2>1, CalmFilled
<1>4. ASSUME pc[p] = "x_load", StartAlloc(p, tgt[p], hi[p], hi[p] + 2, "x_stack"), UNCHANGED pt
      PROVE  FInv'
  <2>1. /\ \A q \in Proc \ {p} : ThreadSame(q)
        /\ pc'[p] = "a_alloc" /\ tgt'[p] = tgt[p] /\ cur'[p] = hi[p] /\ ret'[p] = "x_stack"
    BY <1>4, StartAllocSame, Types
  <2>2. Full(tgt[p], hi[p])
    BY <1>4 DEF FInv, Filling
  <2>3. Full(tgt[p], cur[p])'
    BY <1>1, <2>1, <2>2 DEF Full
  <2>4. QED
    BY <1>1, <1>2, <1>4, <2>1, <2>3, WorkFilled DEF pt
<1>5. CASE ExecLoad(p)
  BY <1>3, <1>4, <1>5 DEF ExecLoad, At, pt
<1>6. CASE ExecStack(p)
  <2>1. pc[p] = "x_stack" /\ UNCHANGED <<ref, state>>
    BY <1>6 DEF ExecStack, At
  <2>2. \/ /\ side' = [side EXCEPT ![p] = 1 - @] /\ sz' = [sz EXCEPT ![p] = hi[p]]
           /\ StartFreevm(p, OldSpace(p))
        \/ Goto(p, "x_bad") /\ UNCHANGED <<sz, side, tgt, cur, lo, hi, ret>>
    BY <1>6 DEF ExecStack
  <2>3. QED
    BY <1>3, <2>1, <2>2, CommitFilled
<1>7. CASE ExecBad(p)
  BY <1>1, <1>2, <1>7, FreevmFilled DEF ExecBad
<1>8. QED
  BY <1>5, <1>6, <1>7 DEF Exec

LEMMA WaitDoneFilled ==
  ASSUME IInv, Struct, FInv, NEW p \in Proc, WaitDone(p) PROVE FInv'
<1> DEFINE np == tgt[p][1]
<1>1. pc[p] = "w_done" /\ Jump(p, "user") /\ UNCHANGED <<ref, sz>> /\ "user" \in Pcs
  BY DEF WaitDone, At, mm, Pcs
<1>2. Busy(p) /\ np # p /\ np \in Proc /\ state[np] = "ZOMBIE"
  BY <1>1, WaitFacts
<1>3. pc[p] \notin GrowPcs /\ pc[np] = "idle" /\ pc[np] \notin GrowPcs
  BY <1>1, <1>2, Types DEF GrowPcs, ThreadsApart
<1>4. /\ state' = [state EXCEPT ![np] = "UNUSED"] /\ side' = [side EXCEPT ![np] = 0]
  BY DEF WaitDone
<1>5. /\ \A q \in Proc \ {p} : ThreadSame(q)
      /\ \A q \in Proc \ {np} : ProcSame(q)
      /\ pc'[p] = "user" /\ ret'[p] = "idle" /\ state'[np] = "UNUSED"
  BY <1>1, <1>2, <1>4, JumpBounds, Types DEF ProcSame, ProcOK, Jump, ThreadOK
<1>6. Viewed(p)'
  <2>1. ViewSz(p)' = ViewSz(p) /\ Own(p)' = Own(p) /\ state'[p] = state[p]
    BY <1>2, <1>3, <1>5, CalmView DEF ViewSz, Own, ProcSame
  <2>2. QED
    BY <1>1, <2>1 DEF FInv, Viewed, Full
<1>7. Filling(p)'
  BY <1>5, FillingQuiet
<1>8. ASSUME NEW n, n = np PROVE FInv'
  <2>1. state'[n] # "LIVE" /\ pc'[n] = "idle" /\ ret'[n] # "g_done" /\ n \in Proc
    BY <1>2, <1>3, <1>5, <1>8, CalmView DEF ThreadSame
  <2>2. Viewed(n)' /\ Filling(n)'
    BY <2>1, FillingQuiet DEF Viewed
  <2>3. QED
    BY <1>1, <1>2, <1>5, <1>6, <1>7, <1>8, <2>2, RefSame, TouchFilled
<1>9. QED
  BY <1>8

LEMMA ReapFilled == ASSUME IInv, IInv', Struct, FInv, NEW p \in Proc, Reap(p) PROVE FInv'
<1>1. CASE KfreePanic(KStack(tgt[p][1]))
  BY <1>1, KfreePanicFilled
<1>2. ASSUME pc[p] = "w_kstack", ref' = [ref EXCEPT ![KStack(tgt[p][1])] = None],
             StartFreevm(p, tgt[p]), UNCHANGED pt
      PROVE  FInv'
  <2>1. pc[p] \notin GrowPcs /\ tgt[p][1] \in Proc
    BY <1>2, Types DEF GrowPcs
  <2>2. \A t \in Space : Grows(t)
    BY <1>2, <2>1, GrowsMem, Types
  <2>3. QED
    BY <1>2, <2>1, <2>2, FreevmFilled
<1>3. QED
  BY <1>1, <1>2, WaitDoneFilled DEF Reap, WaitKstack, At, KfreeSlot

-----------------------------------------------------------------------------
(* User code                                                               *)

\* p enters the kernel at a path that has not built anything yet, or exits.
LEMMA EnterFilled ==
  ASSUME IInv, IInv', FInv, NEW p \in Proc, pc[p] = "user", UNCHANGED <<ref, sz, side>>,
         \A q \in Proc : state'[q] = "LIVE" => state[q] = "LIVE",
         \A q \in Proc \ {p} : ThreadSame(q), pc'[p] \notin FillPcs, ret'[p] # "g_done"
  PROVE  FInv'
<1>1. pc[p] \notin GrowPcs
  BY DEF GrowPcs
<1>2. QED
  BY <1>1, CalmFilled, GrowsStill

LEMMA SbrkFilled ==
  ASSUME IInv, IInv', Struct, FInv, NEW p \in Proc, NEW n \in Int,
         SbrkGrow(p, n) \/ SbrkShrink(p, n)
  PROVE  FInv'
<1>1. /\ pc[p] = "user" /\ UNCHANGED <<ref, sz, side, state>> /\ sz[p] \in Nat /\ sz[p] <= NVa
      /\ pc[p] \notin GrowPcs
  BY UserFacts DEF SbrkGrow, SbrkShrink, At, mm, pt, GrowPcs
<1>2. ViewSz(p) = sz[p] /\ \A t \in Space : Grows(t)
  BY <1>1, CalmView, GrowsStill
<1>3. CASE SbrkGrow(p, n)
  <2>1. /\ n > 0 /\ StartAlloc(p, Own(p), sz[p], sz[p] + n, "g_done")
        /\ Full(Own(p), sz[p])
    BY <1>1, <1>2, <1>3, UserFacts DEF SbrkGrow, FInv, Viewed
  <2>2. /\ \A q \in Proc \ {p} : ThreadSame(q)
        /\ pc'[p] = "a_alloc" /\ tgt'[p] = Own(p) /\ cur'[p] = sz[p]
        /\ lo'[p] = sz[p] /\ hi'[p] = sz[p] + n
    BY <2>1, StartAllocSame, Types
  <2>3. ViewSz(p)' <= ViewSz(p)
    <3>1. hi'[p] # sz'[p]
      BY <1>1, <2>1, <2>2
    <3>2. QED
      BY <1>1, <1>2, <3>1 DEF ViewSz
  <2>4. Full(tgt[p], cur[p])'
    BY <1>1, <2>1, <2>2 DEF Full
  <2>5. Filling(p)'
    BY <2>2, <2>4 DEF Filling, GrowPcs
  <2>6. QED
    BY <1>1, <1>2, <2>2, <2>3, <2>5, GrowFilled
<1>4. CASE SbrkShrink(p, n)
  <2>1. /\ n < 0 /\ sz[p] + n > 0
        /\ StartDealloc(p, Own(p), sz[p] + n, sz[p], "g_done")
    BY <1>4 DEF SbrkShrink
  <2>2. sz[p] + n \in 0 .. NVa /\ sz[p] + n <= sz[p] /\ "g_done" \in Pcs
    BY <1>1, <2>1, SizeAssumption DEF Pcs
  <2>3. QED
    BY <1>1, <1>2, <2>1, <2>2, DvFilled
<1>5. QED
  BY <1>3, <1>4

LEMMA UserFilled ==
  ASSUME "sbrk_all" \notin Calls, IInv, IInv', Struct, FInv, NEW p \in Proc, User(p)
  PROVE  FInv'
<1>1. ASSUME NEW m, Panic(m) PROVE FInv'
  BY <1>1, PanicFilled
<1>2. ASSUME NEW va, NEW v, TlbFill(p, va) \/ Yield(p) \/ UserWrite(p, va, v) PROVE FInv'
  BY <1>2, StillFilled DEF TlbFill, Yield, UserWrite, mm
<1>3. ASSUME pc[p] = "user" PROVE ret[p] # "g_done"
  BY <1>3, CalmView DEF GrowPcs
<1>4. ASSUME NEW l \in {"pf_alloc", "f_kstack", "s_pgdir", "w_kstack"}, Goto(p, l),
             pc[p] = "user", UNCHANGED <<ref, sz, side>>,
             \A q \in Proc : state'[q] = "LIVE" => state[q] = "LIVE",
             \A q \in Proc \ {p} : /\ tgt'[q] = tgt[q] /\ cur'[q] = cur[q] /\ lo'[q] = lo[q]
                                   /\ hi'[q] = hi[q] /\ ret'[q] = ret[q],
             ret'[p] # "g_done"
      PROVE  FInv'
  <2>1. /\ \A q \in Proc \ {p} : ThreadSame(q)
        /\ pc'[p] = l /\ l \notin FillPcs
    BY <1>4, Types DEF ThreadSame, Goto, ThreadOK, FillPcs, GrowPcs
  <2>2. QED
    BY <1>4, <2>1, EnterFilled
<1>5. ASSUME NEW va, NEW w, NEW usr, PageFault(p, va, w, usr) PROVE FInv'
  <2>1. ASSUME Goto(p, "pf_alloc"), tgt' = [tgt EXCEPT ![p] = Own(p)],
               cur' = [cur EXCEPT ![p] = va], UNCHANGED <<mm, pt, lo, hi, ret>>
        PROVE  FInv'
    <3>1. pc[p] = "user" /\ UNCHANGED <<ref, sz, side, state>>
      BY <1>5, <2>1 DEF PageFault, At, mm, pt
    <3>2. QED
      BY <1>3, <1>4, <2>1, <3>1
  <2>2. QED
    BY <1>1, <1>5, <2>1 DEF PageFault
<1>6. CASE ForkStart(p)
  <2>1. PICK np \in Proc : /\ state' = [state EXCEPT ![np] = "EMBRYO"]
                           /\ tgt' = [tgt EXCEPT ![p] = Own(np)]
    BY <1>6 DEF ForkStart, Own
  <2>2. pc[p] = "user" /\ Goto(p, "f_kstack") /\ UNCHANGED <<ref, sz, side, lo, hi, ret>>
    BY <1>6 DEF ForkStart, At, mm
  <2>3. UNCHANGED cur
    BY <1>6 DEF ForkStart
  <2>4. \A q \in Proc : state'[q] = "LIVE" => state[q] = "LIVE"
    BY <2>1, Types DEF ProcOK
  <2>5. \A q \in Proc \ {p} : tgt'[q] = tgt[q] /\ cur'[q] = cur[q]
    BY <2>1, <2>3, Types DEF ThreadOK
  <2>6. QED
    BY <1>3, <1>4, <2>2, <2>4, <2>5
<1>7. CASE Exit(p)
  <2>1. ASSUME state' = [state EXCEPT ![p] = "ZOMBIE"], Jump(p, "idle"), UNCHANGED <<mm, sz, side>>
        PROVE  FInv'
    <3>1. pc[p] = "user" /\ "idle" \in Pcs \ FillPcs /\ UNCHANGED ref
      BY <1>7, <2>1 DEF Exit, At, Pcs, FillPcs, GrowPcs, mm
    <3>2. \A q \in Proc : state'[q] = "LIVE" => state[q] = "LIVE"
      BY <2>1, Types DEF ProcOK
    <3>3. pc[p] \notin GrowPcs
      BY <3>1 DEF GrowPcs
    <3>4. QED
      BY <2>1, <3>1, <3>2, <3>3, GrowsStill, CalmJump
  <2>2. QED
    BY <1>1, <1>7, <2>1 DEF Exit
<1>8. CASE Wait(p)
  <2>1. PICK c \in Proc : tgt' = [tgt EXCEPT ![p] = Own(c)]
    BY <1>8 DEF Wait, Own
  <2>2. pc[p] = "user" /\ Goto(p, "w_kstack") /\ UNCHANGED <<ref, state, sz, side, cur, lo, hi, ret>>
    BY <1>8 DEF Wait, At, mm
  <2>3. QED
    BY <1>3, <1>4, <2>1, <2>2
<1>9. ASSUME NEW n, ExecStart(p, n) PROVE FInv'
  <2>1. /\ pc[p] = "user" /\ Goto(p, "s_pgdir") /\ UNCHANGED <<ref, state, sz, side>>
        /\ tgt' = [tgt EXCEPT ![p] = Other(p)] /\ lo' = [lo EXCEPT ![p] = 0]
        /\ hi' = [hi EXCEPT ![p] = n] /\ cur' = [cur EXCEPT ![p] = 0]
        /\ ret' = [ret EXCEPT ![p] = "x_load"]
    BY <1>9 DEF ExecStart, At, mm, pt
  <2>2. ret'[p] # "g_done"
    BY <2>1, Types DEF ThreadOK
  <2>3. QED
    BY <1>4, <2>1, <2>2
<1>10. ~SbrkAll(p)
  BY DEF SbrkAll
<1>11. ASSUME NEW n \in Int, SbrkGrow(p, n) \/ SbrkShrink(p, n) PROVE FInv'
  BY <1>11, SbrkFilled
<1>12. 1 .. NVa \subseteq Int /\ -NVa .. -1 \subseteq Int
  BY SizeAssumption
<1>13. QED
  BY <1>2, <1>5, <1>6, <1>7, <1>8, <1>9, <1>10, <1>11, <1>12 DEF User

-----------------------------------------------------------------------------
(* User pages, in every reachable state.                                   *)

LEMMA InitFilled == Init => FInv
<1> SUFFICES ASSUME Init, NEW q \in Proc PROVE Viewed(q) /\ Filling(q)
  BY DEF FInv
<1>1. /\ state[q] # "LIVE" /\ ret[q] = "idle" /\ pc[q] \in {"b_kstack", "idle"}
  BY DEF Init
<1>2. QED
  BY <1>1 DEF Viewed, Filling

LEMMA KernelFilled ==
  ASSUME IInv, IInv', Struct, FInv, NEW p \in Proc, Kernel(p) PROVE FInv'
BY FaultFilled, SetupFilled, BootFilled, ForkFilled, DeallocFilled, AllocFilled,
   ExecFilled, ReapFilled DEF Kernel

LEMMA NextFilled ==
  ASSUME "sbrk_all" \notin Calls
  PROVE  IInv /\ IInv' /\ Struct /\ FInv /\ [Next]_vars => FInv'
<1> SUFFICES ASSUME IInv, IInv', Struct, FInv, [Next]_vars PROVE FInv'
  OBVIOUS
<1>1. CASE UNCHANGED vars
  BY <1>1, StillFilled DEF vars, pt, kt, loc
<1>2. CASE Halted
  BY <1>1, <1>2 DEF Halted
<1>3. ASSUME NEW p \in Proc, Kernel(p) \/ User(p) PROVE FInv'
  BY <1>3, KernelFilled, UserFilled
<1>4. QED
  BY <1>1, <1>2, <1>3 DEF Next

-----------------------------------------------------------------------------
(* What a CPU has cached stays true.                                       *)

\* A process whose CPU has cached something is live and has its pages.
LEMMA CachedLive ==
  ASSUME FInv, TInv, NEW q \in Proc, tlb[q] # NoTlb
  PROVE  state[q] = "LIVE" /\ Full(Own(q), ViewSz(q))
BY DEF TInv, Cached, FInv, Viewed

\* The entries that q sees stay as they are.
Steady(q) ==
  /\ tlb'[q] = tlb[q] /\ ProcSame(q) /\ ViewSz(q)' <= ViewSz(q)
  /\ \A va \in Va : va < ViewSz(q) =>
       /\ ref'[PTE(Own(q), va)] = ref[PTE(Own(q), va)]
       /\ perm'[Own(q)][va] = perm[Own(q)][va]

LEMMA StepCached ==
  ASSUME IInv, IInv', TInv, \A q \in Proc : tlb'[q] = NoTlb \/ Steady(q)
  PROVE  TInv'
<1> SUFFICES ASSUME NEW q \in Proc PROVE Cached(q)'
  BY DEF TInv
<1>1. CASE tlb'[q] = NoTlb
  BY <1>1 DEF Cached, NoTlb
<1>2. CASE Steady(q)
  <2>1. Cached(q) /\ Own(q)' = Own(q) /\ tlb'[q] = tlb[q] /\ state'[q] = state[q] /\ sz'[q] = sz[q]
    BY <1>2 DEF TInv, Steady, ProcSame, Own
  <2>2. ViewSz(q) \in Int /\ ViewSz(q)' \in Int /\ ViewSz(q)' <= ViewSz(q)
    BY <1>2, ViewIn, SizeAssumption DEF IInv, TypeOK, ProcOK, ThreadOK, ViewSz, Steady
  <2>3. ASSUME NEW va \in Va, tlb[q][va] # None
        PROVE  va < sz[q] /\ (va < ViewSz(q)' => tlb[q][va] = Entry(Own(q), va)')
    <3>1. va < sz[q] /\ (va < ViewSz(q) => tlb[q][va] = Entry(Own(q), va))
      BY <2>1, <2>3 DEF Cached
    <3>2. va < ViewSz(q)' => va < ViewSz(q)
      BY <2>2, Ints
    <3>3. va < ViewSz(q) => Entry(Own(q), va)' = Entry(Own(q), va)
      BY <1>2, <2>1 DEF Steady, Entry
    <3>4. QED
      BY <3>1, <3>2, <3>3
  <2>4. state'[q] # "LIVE" => tlb'[q] = NoTlb
    BY <2>1 DEF Cached
  <2>5. QED
    BY <2>1, <2>3, <2>4 DEF Cached, NoTlb
<1>3. QED
  BY <1>1, <1>2

\* A kernel step need only show what it does to the translations of p.
LEMMA OwnCached ==
  ASSUME IInv, IInv', TInv, NEW p \in Proc, Busy(p), RefLocal(p), FlagsLocal(p),
         NEW np, np = tgt[p][1],
         \A q \in Proc \ {p, np} : ThreadSame(q) /\ ProcSame(q),
         \A q \in Proc \ {p} : tlb'[q] = tlb[q],
         tlb'[p] = NoTlb \/ Steady(p)
  PROVE  TInv'
<1>1. ASSUME NEW q \in Proc \ {p, np} PROVE Steady(q)
  <2>1. /\ Own(q) \in Space /\ Own(q)[1] = q /\ Own(q)' = Own(q)
        /\ ViewSz(q)' = ViewSz(q) /\ ViewSz(q) \in Int
    BY <1>1, OwnIn, ViewIn, Types DEF ProcSame, ThreadSame, Own, ViewSz
  <2>2. KeepPte(Own(q)) /\ perm'[Own(q)] = perm[Own(q)]
    BY <1>1, <2>1, RefLocalKeeps DEF Keep, FlagsLocal
  <2>3. QED
    BY <1>1, <2>1, <2>2 DEF Steady, KeepPte
<1>2. ASSUME np # p PROVE tlb'[np] = NoTlb
  <2>1. np \in Proc /\ state[np] # "LIVE"
    BY <1>2, Types DEF ThreadsApart
  <2>2. QED
    BY <1>2, <2>1 DEF TInv, Cached
<1>3. QED
  BY <1>1, <1>2, StepCached

\* Only entries that are not page table entries change, or none.
OffPte(p) ==
  \/ UNCHANGED ref
  \/ \E s \in {Mem(p), KStack(tgt[p][1]), PgDir(tgt[p])} : \E x : ref' = [ref EXCEPT ![s] = x]
  \/ \E i \in Pde : \E x : ref' = [ref EXCEPT ![PDE(tgt[p], i)] = x]

LEMMA OffPteStill ==
  ASSUME IInv, NEW p \in Proc, OffPte(p)
  PROVE  RefLocal(p) /\ \A t \in Space : KeepPte(t)
<1>1. tgt[p] \in Space /\ tgt[p][1] \in Proc /\ MemOK
  BY Types
<1>2. CASE UNCHANGED ref
  BY <1>2, RefSame DEF KeepPte
<1>3. ASSUME NEW s \in {Mem(p), KStack(tgt[p][1]), PgDir(tgt[p])}, NEW x,
             ref' = [ref EXCEPT ![s] = x]
      PROVE  RefLocal(p) /\ \A t \in Space : KeepPte(t)
  <2>1. s \in Slot /\ OwnSlot(p, s)
    BY <1>1, SlotIn DEF OwnSlot
  <2>2. RefLocal(p)
    BY <1>1, <1>3, <2>1, RefOne
  <2>3. QED
    BY <1>1, <1>3, <2>2, SetMem, SetStack, SetPgDir
<1>4. ASSUME NEW i \in Pde, NEW x, ref' = [ref EXCEPT ![PDE(tgt[p], i)] = x]
      PROVE  RefLocal(p) /\ \A t \in Space : KeepPte(t)
  <2>1. PDE(tgt[p], i) \in Slot /\ i \in Nat
    BY <1>1, SlotIn, SizeAssumption DEF Pde, UPde, KPde, PDX, Va
  <2>2. OwnSlot(p, PDE(tgt[p], i))
    BY <2>1 DEF OwnSlot
  <2>3. RefLocal(p)
    BY <1>1, <1>4, <2>1, <2>2, RefOne
  <2>4. QED
    BY <1>1, <1>4, <2>3, SetPde
<1>5. QED
  BY <1>2, <1>3, <1>4 DEF OffPte

LEMMA WorkCached ==
  ASSUME IInv, IInv', TInv, NEW p \in Proc, Busy(p), OffPte(p), UNCHANGED <<perm, tlb>>,
         \A q \in Proc \ {p} : ThreadSame(q),
         \A q \in Proc : q # tgt[p][1] \/ q = p => ProcSame(q),
         ViewSz(p)' <= ViewSz(p)
  PROVE  TInv'
<1>1. RefLocal(p) /\ KeepPte(Own(p)) /\ FlagsLocal(p)
  BY OffPteStill, OwnIn, Types DEF FlagsLocal
<1>2. Steady(p)
  BY <1>1 DEF Steady, KeepPte
<1>3. \A n : n = tgt[p][1] => TInv'
  BY <1>1, <1>2, OwnCached
<1>4. QED
  BY <1>3

LEMMA StillCached == ASSUME TInv, UNCHANGED <<ref, perm, pt, kt, tlb>> PROVE TInv'
BY DEF TInv, Cached, ViewSz, Entry, Own, pt, kt, loc
LEMMA PanicCached == ASSUME TInv, NEW m, Panic(m) PROVE TInv'
BY StillCached DEF Panic, mm
LEMMA KfreePanicCached == ASSUME TInv, NEW s, KfreePanic(s) PROVE TInv'
BY PanicCached DEF KfreePanic
LEMMA RemapCached == ASSUME TInv, NEW s, NEW va, Remap(s, va) PROVE TInv'
BY PanicCached DEF Remap

\* Steps outside allocuvm and deallocuvm.
LEMMA CalmCached ==
  ASSUME IInv, IInv', FInv, TInv, NEW p \in Proc, Busy(p), pc[p] \notin GrowPcs, OffPte(p),
         UNCHANGED <<perm, tlb, sz, side>>, \A q \in Proc \ {p} : ThreadSame(q),
         \A q \in Proc : q # tgt[p][1] \/ q = p => state'[q] = state[q],
         ret'[p] = ret[p] \/ ret'[p] # "g_done"
  PROVE  TInv'
<1>1. ViewSz(p)' <= ViewSz(p)
  BY CalmView, ViewIn DEF ViewSz
<1>2. QED
  BY <1>1, WorkCached DEF ProcSame

LEMMA JumpCached ==
  ASSUME IInv, IInv', FInv, TInv, NEW p \in Proc, Busy(p), pc[p] \notin GrowPcs, OffPte(p),
         UNCHANGED <<perm, tlb, sz, side>>, NEW l \in Pcs, Jump(p, l),
         \A q \in Proc : q # tgt[p][1] \/ q = p => state'[q] = state[q]
  PROVE  TInv'
<1>1. \A q \in Proc \ {p} : ThreadSame(q)
  BY JumpBounds, Types
<1>2. ret'[p] = ret[p] \/ ret'[p] # "g_done"
  BY Types DEF Jump, ThreadOK, loc
<1>3. QED
  BY <1>1, <1>2, CalmCached

LEMMA FreevmCached ==
  ASSUME IInv, IInv', FInv, TInv, NEW p \in Proc, Busy(p), pc[p] \notin GrowPcs, OffPte(p),
         UNCHANGED <<perm, tlb, pt>>, StartFreevm(p, tgt[p])
  PROVE  TInv'
<1>1. (\A q \in Proc \ {p} : ThreadSame(q)) /\ ret'[p] = "fv_tab"
  BY StartDeallocSame, Types DEF StartFreevm
<1>2. QED
  BY <1>1, CalmCached DEF pt

-----------------------------------------------------------------------------
(* The page fault handler, setupkvm and userinit.                          *)

LEMMA FaultMapCached ==
  ASSUME IInv, IInv', Struct, FInv, TInv, NEW p \in Proc, FaultMap(p) PROVE TInv'
<1>1. /\ pc[p] = "pf_map" /\ Flush(p) /\ Jump(p, "user") /\ UNCHANGED pt /\ "user" \in Pcs
      /\ ref' = [ref EXCEPT ![PTE(tgt[p], cur[p])] = ref[Mem(p)], ![Mem(p)] = None]
      /\ perm' = [perm EXCEPT ![tgt[p]][cur[p]] = {"W", "U"}]
  BY DEF FaultMap, At, Pcs
<1>2. tgt[p] = Own(p) /\ tgt[p] \in Space /\ Own(p)[1] = p /\ cur[p] \in Nat /\ Busy(p)
  BY <1>1, OwnIn, Types DEF Label, Busy
<1>3. RefLocal(p)
  BY <1>1, <1>2, SlotIn, Types DEF RefLocal, OwnSlot, MemOK
<1>4. FlagsLocal(p)
  BY <1>1, <1>2 DEF FlagsLocal
<1>5. tlb'[p] = NoTlb /\ \A q \in Proc \ {p} : tlb'[q] = tlb[q]
  BY <1>1, Types DEF Flush, CpuOK
<1>6. \A q \in Proc \ {p} : ThreadSame(q) /\ ProcSame(q)
  BY <1>1, JumpBounds, Types DEF ProcSame, pt
<1>7. \A n : n = tgt[p][1] => TInv'
  BY <1>2, <1>3, <1>4, <1>5, <1>6, OwnCached
<1>8. QED
  BY <1>7

LEMMA FaultCached == ASSUME IInv, IInv', Struct, FInv, TInv, NEW p \in Proc, Fault(p) PROVE TInv'
<1>1. ASSUME NEW m, NEW s, Panic(m) \/ KfreePanic(s) PROVE TInv'
  BY <1>1, PanicCached, KfreePanicCached
<1>2. CASE FaultAlloc(p) \/ FaultCopy(p) \/ FaultFree(p)
  <2>1. Busy(p) /\ pc[p] \notin GrowPcs /\ {"pf_copy", "pf_free", "pf_map"} \subseteq Pcs
    BY <1>2 DEF FaultAlloc, FaultCopy, FaultFree, At, Busy, GrowPcs, Pcs
  <2>2. \/ \E m, s : Panic(m) \/ KfreePanic(s)
        \/ /\ \E l \in {"pf_copy", "pf_free", "pf_map"} : Jump(p, l)
           /\ OffPte(p) /\ UNCHANGED <<perm, tlb, pt>>
    BY <1>2 DEF FaultAlloc, FaultCopy, FaultFree, KfreeSlot, OffPte
  <2>3. QED
    BY <1>1, <2>1, <2>2, JumpCached DEF pt
<1>3. QED
  BY <1>2, FaultMapCached DEF Fault

LEMMA SetupCached == ASSUME IInv, IInv', Struct, FInv, TInv, NEW p \in Proc, Setup(p) PROVE TInv'
<1>1. CASE Panic("userinit")
  BY <1>1, PanicCached
<1>2. Busy(p) /\ pc[p] \notin GrowPcs /\ {"user", "f_fail"} \subseteq Pcs
  BY DEF Setup, SetupPgdir, SetupKpde, At, Busy, GrowPcs, Pcs
<1>3. ASSUME OffPte(p), UNCHANGED <<perm, tlb, pt, tgt, lo, hi, ret>>, NEW n, NEW l,
             cur' = [cur EXCEPT ![p] = n], UNCHANGED pc \/ Goto(p, l)
      PROVE  TInv'
  <2>1. \A q \in Proc \ {p} : ThreadSame(q)
    BY <1>3, Types DEF ThreadSame, Goto, ThreadOK
  <2>2. QED
    BY <1>2, <1>3, <2>1, CalmCached DEF pt
<1>4. CASE SetupPgdir(p)
  <2>1. \/ Panic("userinit")
        \/ /\ OffPte(p) /\ UNCHANGED <<perm, tlb, pt, tgt, lo, hi, ret>>
           /\ cur' = [cur EXCEPT ![p] = NVa] /\ Goto(p, "s_kpde")
        \/ /\ \E l \in {"user", "f_fail"} : Jump(p, l)
           /\ OffPte(p) /\ UNCHANGED <<perm, tlb, pt>>
    BY <1>4 DEF SetupPgdir, OffPte, mm
  <2>2. QED
    BY <1>1, <1>2, <1>3, <2>1, JumpCached DEF pt
<1>5. CASE SetupKpde(p)
  <2>1. cur[p] \in Pde
    BY <1>5, Ints DEF SetupKpde, At, Struct, TargetSlots
  <2>2. \/ Panic("userinit")
        \/ /\ OffPte(p) /\ UNCHANGED <<perm, tlb, pt, tgt, lo, hi, ret>>
           /\ \E n : cur' = [cur EXCEPT ![p] = n]
           /\ UNCHANGED pc \/ Goto(p, AfterSetup(p))
        \/ StartFreevm(p, tgt[p]) /\ OffPte(p) /\ UNCHANGED <<perm, tlb, pt>>
    BY <1>5, <2>1 DEF SetupKpde, OffPte, mm
  <2>3. QED
    BY <1>1, <1>2, <1>3, <2>2, FreevmCached
<1>6. QED
  BY <1>4, <1>5 DEF Setup

LEMMA BootCached == ASSUME IInv, IInv', Struct, FInv, TInv, NEW p \in Proc, Boot(p) PROVE TInv'
<1>1. ASSUME NEW m, NEW s, NEW va, Panic(m) \/ Remap(s, va) PROVE TInv'
  BY <1>1, PanicCached, RemapCached
<1>2. Busy(p) /\ pc[p] \notin GrowPcs /\ {"s_pgdir", "b_map", "user"} \subseteq Pcs
  BY DEF Boot, BootKstack, BootUvm, BootMap, At, Busy, GrowPcs, Pcs
<1>3. CASE BootKstack(p) \/ BootUvm(p)
  <2>1. pc[p] = "b_kstack" => tgt[p][1] = p
    BY Types DEF Label
  <2>2. \/ \E m : Panic(m)
        \/ /\ \E l \in {"s_pgdir", "b_map"} : Jump(p, l)
           /\ OffPte(p) /\ UNCHANGED <<perm, tlb, pt>>
    BY <1>3, <2>1 DEF BootKstack, BootUvm, At, OffPte
  <2>3. QED
    BY <1>1, <1>2, <2>2, JumpCached DEF pt
<1>4. CASE BootMap(p)
  <2>1. ASSUME Mappages(p, tgt[p], 0, {"W", "U"}), state' = [state EXCEPT ![p] = "LIVE"],
               sz' = [sz EXCEPT ![p] = 1], Jump(p, "user"), UNCHANGED <<side, tlb>>
        PROVE  TInv'
    <3>1. tgt[p] = Own(p) /\ Own(p)[1] = p /\ tgt[p] \in Space /\ state[p] = "EMBRYO"
      BY <1>4, OwnIn, Types DEF BootMap, At, Busy, Struct, Target
    <3>2. tlb'[p] = NoTlb
      BY <2>1, <3>1 DEF TInv, Cached
    <3>3. RefLocal(p) /\ FlagsLocal(p)
      <4>1. RefLocal(p)
        BY <2>1, <3>1, MappagesLocal
      <4>2. perm' = [perm EXCEPT ![tgt[p]][0] = {"W", "U"}]
        BY <2>1 DEF Mappages
      <4>3. FlagsLocal(p)
        BY <3>1, <4>2, Types DEF FlagsLocal, MemOK
      <4>4. QED
        BY <4>1, <4>3
    <3>4. \A q \in Proc \ {p} : ThreadSame(q) /\ ProcSame(q)
      BY <1>2, <2>1, JumpBounds, Types DEF ProcSame, ProcOK
    <3>5. \A n : n = tgt[p][1] => TInv'
      BY <1>2, <2>1, <3>2, <3>3, <3>4, OwnCached
    <3>6. QED
      BY <3>5
  <2>2. QED
    BY <1>1, <1>4, <2>1 DEF BootMap
<1>5. QED
  BY <1>3, <1>4 DEF Boot

-----------------------------------------------------------------------------
(* fork                                                                    *)

LEMMA ForkCopyCached ==
  ASSUME IInv, IInv', Struct, FInv, TInv, NEW p \in Proc, ForkCopy(p) PROVE TInv'
<1>1. ASSUME NEW m, Panic(m) PROVE TInv'
  BY <1>1, PanicCached
<1>2. ASSUME NEW x, ref' = [ref EXCEPT ![Mem(p)] = x], Flush(p), Jump(p, "f_map"), UNCHANGED pt,
             perm' = [perm EXCEPT ![Own(p)][cur[p]] = CowFlags(@)]
      PROVE  TInv'
  <2>1. Busy(p) /\ "f_map" \in Pcs /\ Own(p)[1] = p
    BY OwnIn, Types DEF ForkCopy, At, Busy, Pcs
  <2>2. RefLocal(p) /\ FlagsLocal(p)
    <3>1. OffPte(p)
      BY <1>2 DEF OffPte
    <3>2. FlagsLocal(p)
      BY <1>2, <2>1, Types DEF FlagsLocal, MemOK
    <3>3. QED
      BY <3>1, <3>2, OffPteStill
  <2>3. tlb'[p] = NoTlb /\ \A q \in Proc \ {p} : tlb'[q] = tlb[q]
    BY <1>2, Types DEF Flush, CpuOK
  <2>4. \A q \in Proc \ {p} : ThreadSame(q) /\ ProcSame(q)
    BY <1>2, <2>1, JumpBounds, Types DEF ProcSame, pt
  <2>5. \A n : n = tgt[p][1] => TInv'
    BY <2>1, <2>2, <2>3, <2>4, OwnCached
  <2>6. QED
    BY <2>5
<1>3. QED
  BY <1>1, <1>2 DEF ForkCopy

LEMMA ForkMapCached ==
  ASSUME IInv, IInv', Struct, FInv, TInv, NEW p \in Proc, ForkMap(p) PROVE TInv'
<1>1. /\ pc[p] = "f_map" /\ pc[p] \notin GrowPcs /\ Busy(p) /\ tgt[p] # Own(p)
      /\ tgt[p] \in Space /\ cur[p] \in Va /\ cur[p] \in Nat /\ "f_unref" \in Pcs
      /\ Own(p) \in Space
  BY ForkFacts, OwnIn, Types DEF ForkMap, At, Label, GrowPcs, Pcs
<1>2. ASSUME Mappages(p, tgt[p], cur[p], perm[Own(p)][cur[p]]), cur' = [cur EXCEPT ![p] = @ + 1],
             Goto(p, "f_copy"), UNCHANGED <<pt, tgt, lo, hi, ret, tlb>>
      PROVE  TInv'
  <2>1. perm[Own(p)][cur[p]] \in SUBSET {"W", "U", "COW"}
    BY <1>1, Types DEF MemOK
  <2>2. RefLocal(p) /\ FlagsLocal(p) /\ perm'[Own(p)] = perm[Own(p)]
    <3>1. RefLocal(p)
      BY <1>1, <1>2, <2>1, MappagesLocal
    <3>2. perm' = [perm EXCEPT ![tgt[p]][cur[p]] = perm[Own(p)][cur[p]]]
      BY <1>2 DEF Mappages
    <3>3. FlagsLocal(p) /\ perm'[Own(p)] = perm[Own(p)]
      BY <1>1, <3>2, Types DEF FlagsLocal, MemOK
    <3>4. QED
      BY <3>1, <3>3
  <2>3. KeepPte(Own(p))
    BY <1>1, <1>2, MappagesSets, Types
  <2>4. /\ \A q \in Proc \ {p} : ThreadSame(q)
        /\ \A q \in Proc : ProcSame(q)
        /\ ret'[p] = ret[p]
    BY <1>2, Types DEF ThreadSame, Goto, ThreadOK, pt, ProcSame
  <2>5. Steady(p)
    BY <1>1, <1>2, <2>2, <2>3, <2>4, CalmView, ViewIn DEF Steady, KeepPte, ViewSz, ProcSame
  <2>6. \A n : n = tgt[p][1] => TInv'
    BY <1>1, <1>2, <2>2, <2>4, <2>5, OwnCached
  <2>7. QED
    BY <2>6
<1>3. ASSUME Jump(p, "f_unref"), UNCHANGED <<mm, pt, tlb>> PROVE TInv'
  BY <1>1, <1>3, JumpCached DEF OffPte, mm, pt
<1>4. QED
  BY <1>2, <1>3, RemapCached DEF ForkMap

LEMMA ForkDoneCached ==
  ASSUME IInv, IInv', Struct, FInv, TInv, NEW p \in Proc, ForkDone(p) PROVE TInv'
<1> DEFINE np == tgt[p][1]
<1>1. /\ pc[p] = "f_copy" /\ pc[p] \notin GrowPcs /\ Busy(p) /\ np # p /\ np \in Proc
      /\ UNCHANGED <<ref, perm, tlb, lo, hi, ret, side>>
  BY ForkFacts DEF ForkDone, At, GrowPcs, mm
<1>2. /\ state' = [state EXCEPT ![np] = "LIVE"] /\ sz' = [sz EXCEPT ![np] = sz[p]]
      /\ pc' = [pc EXCEPT ![p] = "user", ![np] = "user"]
      /\ tgt' = [tgt EXCEPT ![p] = <<p, 0>>] /\ cur' = [cur EXCEPT ![p] = 0]
  BY DEF ForkDone
<1>3. \A q \in Proc \ {p, np} : ThreadSame(q) /\ ProcSame(q)
  BY <1>1, <1>2, Types DEF ThreadSame, ProcSame, ThreadOK, ProcOK
<1>4. ProcSame(p)
  BY <1>1, <1>2, Types DEF ProcSame, ProcOK
<1>5. Steady(p)
  BY <1>1, <1>4, ViewIn DEF Steady, ViewSz, ProcSame
<1>6. RefLocal(p) /\ FlagsLocal(p)
  BY <1>1, RefSame DEF FlagsLocal
<1>7. \A n : n = np => TInv'
  BY <1>1, <1>3, <1>5, <1>6, OwnCached
<1>8. QED
  BY <1>7

LEMMA ForkCached == ASSUME IInv, IInv', Struct, FInv, TInv, NEW p \in Proc, Fork(p) PROVE TInv'
<1>1. ASSUME NEW s, KfreePanic(s) PROVE TInv'
  BY <1>1, KfreePanicCached
<1>2. CASE ForkKstack(p) \/ ForkFail(p)
  <2>1. /\ Busy(p) /\ pc[p] \notin GrowPcs /\ tgt[p][1] # p
        /\ {"s_pgdir", "user"} \subseteq Pcs
    BY <1>2, ForkFacts DEF ForkKstack, ForkFail, At, GrowPcs, Pcs
  <2>2. \/ \E s : KfreePanic(s)
        \/ /\ \E l \in {"s_pgdir", "user"} : Jump(p, l)
           /\ OffPte(p) /\ UNCHANGED <<perm, tlb, sz, side>>
           /\ UNCHANGED state \/ state' = [state EXCEPT ![tgt[p][1]] = "UNUSED"]
    BY <1>2 DEF ForkKstack, ForkFail, KfreeSlot, OffPte, mm, pt
  <2>3. UNCHANGED state \/ state' = [state EXCEPT ![tgt[p][1]] = "UNUSED"]
          => \A q \in Proc : q # tgt[p][1] \/ q = p => state'[q] = state[q]
    BY <2>1, Types DEF ProcOK
  <2>4. QED
    BY <1>1, <2>1, <2>2, <2>3, JumpCached
<1>3. CASE ForkUnref(p)
  <2>1. Busy(p) /\ pc[p] \notin GrowPcs
    BY <1>3 DEF ForkUnref, At, Busy, GrowPcs
  <2>2. \/ \E s : KfreePanic(s)
        \/ StartFreevm(p, tgt[p]) /\ OffPte(p) /\ UNCHANGED <<perm, tlb, pt>>
    BY <1>3 DEF ForkUnref, KfreeSlot, OffPte
  <2>3. QED
    BY <1>1, <2>1, <2>2, FreevmCached
<1>4. QED
  BY <1>2, <1>3, ForkCopyCached, ForkMapCached, ForkDoneCached DEF Fork

-----------------------------------------------------------------------------
(* deallocuvm and freevm                                                   *)

LEMMA DeallocStepCached ==
  ASSUME IInv, IInv', TInv, NEW p \in Proc, DeallocStep(p) PROVE TInv'
<1>1. pc[p] = "dv" /\ Busy(p) /\ "dv_clear" \in Pcs
  BY DEF DeallocStep, At, Busy, Pcs
<1>2. ASSUME UNCHANGED <<ref, perm, tlb, pt, lo, hi, ret>>, \A q \in Proc \ {p} : ThreadSame(q)
      PROVE  TInv'
  <2>1. ViewSz(p)' <= ViewSz(p)
    BY <1>2, ViewIn DEF ViewSz, pt
  <2>2. QED
    BY <1>1, <1>2, <2>1, WorkCached DEF OffPte, ProcSame, pt
<1>3. ASSUME NEW n, cur' = [cur EXCEPT ![p] = n], UNCHANGED <<mm, tlb, pt, pc, tgt, lo, hi, ret>>
      PROVE  TInv'
  <2>1. \A q \in Proc \ {p} : ThreadSame(q)
    BY <1>3, Types DEF ThreadSame, ThreadOK
  <2>2. QED
    BY <1>2, <1>3, <2>1 DEF mm
<1>4. ASSUME Jump(p, "dv_clear"), UNCHANGED <<ref, perm, tlb, pt>> PROVE TInv'
  BY <1>1, <1>2, <1>4, JumpBounds, Types
<1>5. QED
  BY <1>3, <1>4, KfreePanicCached DEF DeallocStep, KfreeSlot

LEMMA DeallocClearCached ==
  ASSUME IInv, IInv', Struct, FInv, TInv, NEW p \in Proc, DeallocClear(p) PROVE TInv'
<1>1. /\ pc[p] = "dv_clear" /\ ref' = [ref EXCEPT ![PTE(tgt[p], cur[p])] = None]
      /\ perm' = [perm EXCEPT ![tgt[p]][cur[p]] = {}]
      /\ cur' = [cur EXCEPT ![p] = cur[p] + 1] /\ Goto(p, "dv")
      /\ UNCHANGED <<pt, tgt, lo, hi, ret, tlb>>
  BY DEF DeallocClear, At
<1>2. /\ cur[p] \in Nat /\ cur[p] >= lo[p] /\ lo[p] \in Nat /\ tgt[p] \in Space /\ Busy(p)
      /\ tgt[p] = Own(p) => lo[p] >= ViewSz(p)
  BY <1>1, DvFacts
<1>3. /\ \A q \in Proc \ {p} : ThreadSame(q)
      /\ \A q \in Proc : ProcSame(q)
      /\ Own(p) \in Space
  BY <1>1, OwnIn, Types DEF ThreadSame, ProcSame, Goto, ThreadOK, pt
<1>4. cur[p] \in Va
  BY <1>1, Types DEF Label
<1>5. RefLocal(p) /\ \A b \in Va \ {cur[p]} : ref'[PTE(tgt[p], b)] = ref[PTE(tgt[p], b)]
  BY <1>1, <1>2, <1>4, RefOne, SetPte, SlotIn, Types DEF OwnSlot
<1>6. /\ FlagsLocal(p)
      /\ \A b \in Va \ {cur[p]} : perm'[tgt[p]][b] = perm[tgt[p]][b]
      /\ tgt[p] # Own(p) => perm'[Own(p)] = perm[Own(p)]
  BY <1>1, <1>2, <1>3, <1>4, Types DEF FlagsLocal, MemOK
<1>7. Steady(p)
  <2>1. ViewSz(p)' <= ViewSz(p)
    BY <1>1, <1>3, ViewIn DEF ViewSz, ProcSame
  <2>2. ASSUME NEW va \in Va, va < ViewSz(p)
        PROVE  /\ ref'[PTE(Own(p), va)] = ref[PTE(Own(p), va)]
               /\ perm'[Own(p)][va] = perm[Own(p)][va]
    <3>1. CASE tgt[p] = Own(p)
      <4>1. va # cur[p]
        BY <1>2, <2>2, <3>1, ViewIn
      <4>2. QED
        BY <1>5, <1>6, <3>1, <4>1
    <3>2. CASE tgt[p] # Own(p)
      BY <1>3, <1>5, <1>6, <3>2, RefLocalKeeps DEF KeepPte
    <3>3. QED
      BY <3>1, <3>2
  <2>3. QED
    BY <1>1, <1>3, <2>1, <2>2 DEF Steady
<1>8. \A n : n = tgt[p][1] => TInv'
  BY <1>1, <1>2, <1>3, <1>5, <1>6, <1>7, OwnCached
<1>9. QED
  BY <1>8

LEMMA DeallocDoneCached ==
  ASSUME IInv, IInv', Struct, FInv, TInv, NEW p \in Proc, DeallocDone(p) PROVE TInv'
<1>1. /\ pc[p] = "dv" /\ Busy(p) /\ Jump(p, ret[p])
      /\ UNCHANGED <<ref, perm, tlb, sz, side, state>>
  BY DEF DeallocDone, At, Busy, mm, pt
<1>2. ret[p] # "g_done" => ViewSz(p) = sz[p]
  BY <1>1, DvFacts
<1>3. ret[p] \in Pcs
  BY <1>1, Types DEF Label, Pcs
<1>4. /\ \A q \in Proc \ {p} : ThreadSame(q)
      /\ ret[p] # "user" => UNCHANGED <<tgt, cur, lo, hi, ret>>
  BY <1>1, <1>3, JumpBounds, Types
<1>5. ViewSz(p)' <= ViewSz(p)
  <2>1. CASE ret[p] = "user"
    <3>1. ret'[p] = "idle"
      BY <1>1, <2>1, Types DEF Jump, ThreadOK
    <3>2. QED
      BY <1>1, <1>2, <2>1, <3>1, ViewIn DEF ViewSz
  <2>2. CASE ret[p] # "user"
    BY <1>1, <1>4, <2>2, ViewIn DEF ViewSz
  <2>3. QED
    BY <2>1, <2>2
<1>6. QED
  BY <1>1, <1>4, <1>5, WorkCached DEF OffPte, ProcSame

LEMMA FreeTabCached ==
  ASSUME IInv, IInv', FInv, TInv, NEW p \in Proc, FreeTab(p) PROVE TInv'
<1>1. pc[p] = "fv_tab" /\ pc[p] \notin GrowPcs /\ Busy(p)
  BY DEF FreeTab, At, GrowPcs, Busy
<1>2. ASSUME NEW i \in Pde, ref' = [ref EXCEPT ![PDE(tgt[p], i)] = None],
             UNCHANGED <<perm, pt, kt, tlb>>
      PROVE  TInv'
  <2>1. (\A q \in Proc : ThreadSame(q)) /\ UNCHANGED <<sz, side, state, ret>> /\ OffPte(p)
    BY <1>2 DEF ThreadSame, kt, loc, pt, OffPte
  <2>2. QED
    BY <1>1, <1>2, <2>1, CalmCached
<1>3. ASSUME ref' = [ref EXCEPT ![PgDir(tgt[p])] = None], Jump(p, AfterFreevm(p)),
             UNCHANGED <<perm, pt, tlb>>
      PROVE  TInv'
  <2>1. AfterFreevm(p) \in Pcs /\ OffPte(p)
    BY <1>3 DEF AfterFreevm, Pcs, OffPte
  <2>2. QED
    BY <1>1, <1>3, <2>1, JumpCached DEF pt
<1>4. QED
  BY <1>2, <1>3, KfreePanicCached DEF FreeTab, KfreeSlot

-----------------------------------------------------------------------------
(* allocuvm and growproc                                                   *)

LEMMA UndoCached ==
  ASSUME IInv, IInv', Struct, FInv, TInv, NEW p \in Proc, pc[p] \in {"a_alloc", "a_map"},
         NEW r \in {"a_free", "user", "x_bad"}, StartDealloc(p, tgt[p], lo[p], hi[p], r),
         UNCHANGED <<mm, pt, tlb>>
  PROVE  TInv'
<1>1. Busy(p) /\ ViewSz(p) = sz[p] /\ sz[p] \in Nat
  BY AllocFacts, GrowFacts
<1>2. (\A q \in Proc \ {p} : ThreadSame(q)) /\ ret'[p] = r
  BY StartDeallocSame, Types
<1>3. ViewSz(p)' <= ViewSz(p)
  BY <1>1, <1>2 DEF ViewSz, pt
<1>4. QED
  BY <1>1, <1>2, <1>3, WorkCached DEF OffPte, mm, pt, ProcSame

LEMMA AllocMapCached ==
  ASSUME IInv, IInv', Struct, FInv, TInv, NEW p \in Proc, AllocMap(p) PROVE TInv'
<1>1. pc[p] = "a_map"
  BY DEF AllocMap, At
<1>2. /\ Busy(p) /\ tgt[p] \in Space /\ cur[p] \in Va /\ cur[p] \in Nat /\ Own(p) \in Space
      /\ Full(Own(p), ViewSz(p)) /\ tgt[p][1] = p
  BY <1>1, AllocFacts, OwnIn, Types DEF FInv, Viewed
<1>3. ASSUME Mappages(p, tgt[p], cur[p], {"W", "U"}), cur' = [cur EXCEPT ![p] = @ + 1],
             Goto(p, "a_alloc"), UNCHANGED <<pt, tgt, lo, hi, ret, tlb>>
      PROVE  TInv'
  <2>1. /\ \A q \in Proc \ {p} : ThreadSame(q)
        /\ \A q \in Proc : ProcSame(q)
    BY <1>3, Types DEF ThreadSame, Goto, ThreadOK, pt, ProcSame
  <2>2. RefLocal(p)
    BY <1>2, <1>3, MappagesLocal
  <2>3. perm' = [perm EXCEPT ![tgt[p]][cur[p]] = {"W", "U"}] /\ ref[PTE(tgt[p], cur[p])] = None
    BY <1>3 DEF Mappages
  <2>4. FlagsLocal(p)
    BY <1>2, <2>3, Types DEF FlagsLocal, MemOK
  <2>5. ASSUME NEW va \in Va, va < ViewSz(p)
        PROVE  /\ ref'[PTE(Own(p), va)] = ref[PTE(Own(p), va)]
               /\ perm'[Own(p)][va] = perm[Own(p)][va]
    <3>1. ref[PTE(Own(p), va)] # None
      BY <1>2, <2>5 DEF Full
    <3>2. CASE tgt[p] = Own(p)
      <4>1. va # cur[p]
        BY <2>3, <3>1, <3>2
      <4>2. ref'[PTE(Own(p), va)] = ref[PTE(Own(p), va)]
        BY <1>2, <1>3, <3>2, <4>1, MappagesSets, Types
      <4>3. perm'[Own(p)][va] = perm[Own(p)][va]
        BY <1>2, <2>3, <3>2, <4>1, Types DEF MemOK
      <4>4. QED
        BY <4>2, <4>3
    <3>3. CASE tgt[p] # Own(p)
      <4>1. KeepPte(Own(p))
        BY <1>2, <1>3, <3>3, MappagesSets, Types
      <4>2. perm'[Own(p)] = perm[Own(p)]
        BY <1>2, <2>3, <3>3, Types DEF MemOK
      <4>3. QED
        BY <4>1, <4>2 DEF KeepPte
    <3>4. QED
      BY <3>2, <3>3
  <2>6. ViewSz(p)' <= ViewSz(p)
    BY <1>3, <2>1, ViewIn DEF ViewSz, ProcSame
  <2>7. Steady(p)
    BY <1>3, <2>1, <2>5, <2>6 DEF Steady
  <2>8. \A n : n = tgt[p][1] => TInv'
    BY <1>2, <1>3, <2>1, <2>2, <2>4, <2>7, OwnCached
  <2>9. QED
    BY <2>8
<1>4. ASSUME StartDealloc(p, tgt[p], lo[p], hi[p], "a_free"), UNCHANGED <<mm, pt, tlb>>
      PROVE  TInv'
  BY <1>1, <1>4, UndoCached
<1>5. QED
  BY <1>3, <1>4, RemapCached DEF AllocMap

LEMMA GrowDoneCached ==
  ASSUME IInv, IInv', Struct, TInv, NEW p \in Proc, GrowDone(p) PROVE TInv'
<1>1. /\ pc[p] = "g_done" /\ Busy(p) /\ Jump(p, "user") /\ Flush(p) /\ "user" \in Pcs
      /\ UNCHANGED <<ref, perm, state, side>>
      /\ sz' = [sz EXCEPT ![p] = IF hi[p] = sz[p] THEN lo[p] ELSE hi[p]]
  BY DEF GrowDone, At, Busy, Pcs, mm
<1>2. tlb'[p] = NoTlb /\ \A q \in Proc \ {p} : tlb'[q] = tlb[q]
  BY <1>1, Types DEF Flush, CpuOK
<1>3. \A q \in Proc \ {p} : ThreadSame(q) /\ ProcSame(q)
  BY <1>1, JumpBounds, Types DEF ProcSame, ProcOK
<1>4. RefLocal(p) /\ FlagsLocal(p)
  BY <1>1, RefSame DEF FlagsLocal
<1>5. \A n : n = tgt[p][1] => TInv'
  BY <1>1, <1>2, <1>3, <1>4, OwnCached
<1>6. QED
  BY <1>5

LEMMA AllocCached ==
  ASSUME IInv, IInv', Struct, FInv, TInv, NEW p \in Proc, Alloc(p) PROVE TInv'
<1>1. ASSUME pc[p] = "a_alloc", NEW l \in Pcs \ {"user"}, Jump(p, l), OffPte(p),
             UNCHANGED <<perm, pt, tlb>>
      PROVE  TInv'
  <2>1. /\ Busy(p) /\ \A q \in Proc \ {p} : ThreadSame(q)
        /\ UNCHANGED <<lo, hi, ret, sz>>
    BY <1>1, JumpBounds, Types DEF Busy, pt
  <2>2. ViewSz(p)' <= ViewSz(p)
    BY <2>1, ViewIn DEF ViewSz
  <2>3. QED
    BY <1>1, <2>1, <2>2, WorkCached DEF ProcSame, pt
<1>2. CASE AllocPage(p)
  <2>1. pc[p] = "a_alloc" /\ "a_map" \in Pcs
    BY <1>2 DEF AllocPage, At, Pcs
  <2>2. \/ Jump(p, "a_map") /\ OffPte(p) /\ UNCHANGED <<perm, pt, tlb>>
        \/ StartDealloc(p, tgt[p], lo[p], hi[p], AllocFailed(p)) /\ UNCHANGED <<mm, pt, tlb>>
    BY <1>2 DEF AllocPage, OffPte
  <2>3. AllocFailed(p) \in {"user", "x_bad"}
    BY DEF AllocFailed
  <2>4. QED
    BY <1>1, <2>1, <2>2, <2>3, UndoCached
<1>3. CASE AllocFree(p)
  <2>1. Busy(p) /\ pc[p] \notin GrowPcs /\ AllocFailed(p) \in Pcs
    BY <1>3 DEF AllocFree, At, Busy, GrowPcs, AllocFailed, Pcs
  <2>2. \/ KfreePanic(Mem(p))
        \/ Jump(p, AllocFailed(p)) /\ OffPte(p) /\ UNCHANGED <<perm, pt, tlb>>
    BY <1>3 DEF AllocFree, KfreeSlot, OffPte
  <2>3. QED
    BY <2>1, <2>2, JumpCached, KfreePanicCached DEF pt
<1>4. CASE AllocDone(p)
  <2>1. pc[p] = "a_alloc" /\ Jump(p, ret[p]) /\ OffPte(p) /\ UNCHANGED <<perm, pt, tlb>>
    BY <1>4 DEF AllocDone, At, OffPte, mm
  <2>2. ret[p] \in Pcs \ {"user"}
    BY <2>1, AllocFacts DEF Pcs
  <2>3. QED
    BY <1>1, <2>1, <2>2
<1>5. QED
  BY <1>2, <1>3, <1>4, AllocMapCached, GrowDoneCached DEF Alloc

-----------------------------------------------------------------------------
(* exec and wait                                                           *)

LEMMA ExecStackCached ==
  ASSUME IInv, IInv', Struct, FInv, TInv, NEW p \in Proc, ExecStack(p) PROVE TInv'
<1>1. /\ pc[p] = "x_stack" /\ pc[p] \notin GrowPcs /\ UNCHANGED <<ref, state>>
      /\ perm' = [perm EXCEPT ![tgt[p]][hi[p] - 2] = @ \ {"U"}]
  BY DEF ExecStack, At, GrowPcs
<1>2. Busy(p) /\ tgt[p] # Own(p) /\ tgt[p][1] = p /\ tgt[p] \in Space /\ Own(p) \in Space
  BY <1>1, ExecFacts, OwnIn, Types
<1>3. RefLocal(p) /\ FlagsLocal(p) /\ perm'[Own(p)] = perm[Own(p)]
  BY <1>1, <1>2, RefSame, Types DEF FlagsLocal, MemOK
<1>4. CASE /\ side' = [side EXCEPT ![p] = 1 - @] /\ sz' = [sz EXCEPT ![p] = hi[p]]
           /\ Flush(p) /\ StartFreevm(p, OldSpace(p))
  <2>1. /\ tlb'[p] = NoTlb
        /\ \A q \in Proc \ {p} : tlb'[q] = tlb[q] /\ ProcSame(q)
    BY <1>1, <1>4, Types DEF Flush, CpuOK, ProcSame, ProcOK
  <2>2. \A q \in Proc \ {p} : ThreadSame(q)
    BY <1>4, StartDeallocSame, Types DEF StartFreevm
  <2>3. \A n : n = tgt[p][1] => TInv'
    BY <1>2, <1>3, <2>1, <2>2, OwnCached
  <2>4. QED
    BY <2>3
<1>5. CASE Goto(p, "x_bad") /\ UNCHANGED <<side, sz, tlb, tgt, cur, lo, hi, ret>>
  <2>1. /\ \A q \in Proc \ {p} : ThreadSame(q)
        /\ \A q \in Proc : ProcSame(q)
    BY <1>1, <1>5, Types DEF ThreadSame, Goto, ThreadOK, ProcSame
  <2>2. ViewSz(p)' <= ViewSz(p)
    BY <1>5, ViewIn DEF ViewSz
  <2>3. Steady(p)
    BY <1>1, <1>3, <1>5, <2>1, <2>2 DEF Steady
  <2>4. \A n : n = tgt[p][1] => TInv'
    BY <1>2, <1>3, <1>5, <2>1, <2>3, OwnCached
  <2>5. QED
    BY <2>4
<1>6. QED
  BY <1>4, <1>5 DEF ExecStack

LEMMA ExecCached == ASSUME IInv, IInv', Struct, FInv, TInv, NEW p \in Proc, Exec(p) PROVE TInv'
<1>1. CASE ExecLoad(p)
  <2>1. /\ Busy(p) /\ pc[p] \notin GrowPcs /\ OffPte(p)
        /\ UNCHANGED <<perm, tlb, sz, side, state>>
        /\ \/ StartAlloc(p, tgt[p], hi[p], hi[p] + 2, "x_stack")
           \/ Goto(p, "x_bad") /\ UNCHANGED <<tgt, cur, lo, hi, ret>>
    BY <1>1 DEF ExecLoad, At, Busy, GrowPcs, OffPte, pt
  <2>2. /\ \A q \in Proc \ {p} : ThreadSame(q)
        /\ ret'[p] = ret[p] \/ ret'[p] # "g_done"
    <3>1. CASE StartAlloc(p, tgt[p], hi[p], hi[p] + 2, "x_stack")
      BY <3>1, StartAllocSame, Types
    <3>2. CASE Goto(p, "x_bad") /\ UNCHANGED <<tgt, cur, lo, hi, ret>>
      BY <3>2, Types DEF ThreadSame, Goto, ThreadOK
    <3>3. QED
      BY <2>1, <3>1, <3>2
  <2>3. QED
    BY <2>1, <2>2, CalmCached
<1>2. CASE ExecBad(p)
  <2>1. Busy(p) /\ pc[p] \notin GrowPcs /\ OffPte(p)
    BY <1>2 DEF ExecBad, At, Busy, GrowPcs, OffPte, mm
  <2>2. QED
    BY <1>2, <2>1, FreevmCached DEF ExecBad, mm
<1>3. QED
  BY <1>1, <1>2, ExecStackCached DEF Exec

LEMMA ReapCached == ASSUME IInv, IInv', Struct, FInv, TInv, NEW p \in Proc, Reap(p) PROVE TInv'
<1>1. CASE WaitKstack(p)
  <2>1. Busy(p) /\ pc[p] \notin GrowPcs
    BY <1>1 DEF WaitKstack, At, Busy, GrowPcs
  <2>2. \/ KfreePanic(KStack(tgt[p][1]))
        \/ StartFreevm(p, tgt[p]) /\ OffPte(p) /\ UNCHANGED <<perm, pt, tlb>>
    BY <1>1 DEF WaitKstack, KfreeSlot, OffPte
  <2>3. QED
    BY <2>1, <2>2, FreevmCached, KfreePanicCached
<1>2. CASE WaitDone(p)
  <2>1. /\ pc[p] = "w_done" /\ pc[p] \notin GrowPcs /\ Jump(p, "user") /\ "user" \in Pcs
        /\ UNCHANGED <<ref, perm, tlb, sz>>
        /\ state' = [state EXCEPT ![tgt[p][1]] = "UNUSED"] /\ side' = [side EXCEPT ![tgt[p][1]] = 0]
    BY <1>2 DEF WaitDone, At, GrowPcs, Pcs, mm
  <2>2. Busy(p) /\ tgt[p][1] # p /\ tgt[p][1] \in Proc
    BY <2>1, WaitFacts
  <2>3. /\ \A q \in Proc \ {p} : ThreadSame(q)
        /\ ret'[p] = "idle"
    BY <2>1, JumpBounds, Types DEF Jump, ThreadOK
  <2>4. \A q \in Proc : q # tgt[p][1] => ProcSame(q)
    BY <2>1, <2>2, Types DEF ProcSame, ProcOK
  <2>5. ViewSz(p)' <= ViewSz(p)
    BY <2>1, <2>3, CalmView, ViewIn DEF ViewSz
  <2>6. Steady(p) /\ RefLocal(p) /\ FlagsLocal(p)
    BY <2>1, <2>2, <2>4, <2>5, RefSame DEF Steady, FlagsLocal
  <2>7. \A n : n = tgt[p][1] => TInv'
    BY <2>1, <2>2, <2>3, <2>4, <2>6, OwnCached
  <2>8. QED
    BY <2>7
<1>3. QED
  BY <1>1, <1>2 DEF Reap

-----------------------------------------------------------------------------
(* User code                                                               *)

\* p enters the kernel; no table changes.
LEMMA EnterCached ==
  ASSUME IInv, IInv', TInv, NEW p \in Proc, UNCHANGED <<ref, perm, sz, side>>,
         \A q \in Proc \ {p} : ThreadSame(q) /\ tlb'[q] = tlb[q],
         \A q \in Proc : state[q] = "LIVE" => state'[q] = "LIVE" \/ tlb'[q] = NoTlb,
         tlb'[p] = NoTlb \/ (tlb'[p] = tlb[p] /\ ViewSz(p)' <= ViewSz(p))
  PROVE  TInv'
<1>1. ASSUME NEW q \in Proc, tlb'[q] # NoTlb PROVE Steady(q)
  <2>1. tlb'[q] = tlb[q]
    BY <1>1
  <2>2. state[q] = "LIVE" /\ state'[q] = "LIVE"
    BY <1>1, <2>1 DEF TInv, Cached
  <2>3. ViewSz(q)' <= ViewSz(q)
    BY <1>1, ViewIn DEF ViewSz, ThreadSame
  <2>4. QED
    BY <2>1, <2>2, <2>3 DEF Steady, ProcSame
<1>2. QED
  BY <1>1, StepCached

LEMMA FillCached ==
  ASSUME IInv, Struct, FInv, TInv, NEW p \in Proc, NEW va \in Va, TlbFill(p, va) PROVE TInv'
<1>1. /\ pc[p] = "user" /\ ref[PTE(Own(p), va)] # None /\ UNCHANGED <<ref, perm, pt, kt>>
      /\ tlb' = [tlb EXCEPT ![p][va] = Entry(Own(p), va)]
  BY DEF TlbFill, At, mm, Entry
<1>2. state[p] = "LIVE" /\ va < sz[p]
  BY <1>1, UserFacts, Ints DEF Unmapped
<1>3. /\ \A q \in Proc \ {p} : tlb'[q] = tlb[q]
      /\ \A a \in Va : tlb'[p][a] = tlb[p][a] \/ (a = va /\ tlb'[p][a] = Entry(Own(p), va))
  BY <1>1, Types DEF CpuOK
<1>4. ASSUME NEW q \in Proc \ {p} PROVE Cached(q)'
  BY <1>1, <1>3 DEF TInv, Cached, ViewSz, Entry, Own, pt, kt, loc
<1>5. Cached(p)'
  BY <1>1, <1>2, <1>3 DEF TInv, Cached, ViewSz, Entry, Own, pt, kt, loc
<1>6. QED
  BY <1>4, <1>5 DEF TInv

LEMMA SbrkCached ==
  ASSUME IInv, IInv', Struct, FInv, TInv, NEW p \in Proc, NEW n \in Int,
         SbrkGrow(p, n) \/ SbrkShrink(p, n)
  PROVE  TInv'
<1>1. /\ pc[p] = "user" /\ UNCHANGED <<ref, perm, tlb, sz, side, state>>
      /\ sz[p] \in Nat /\ sz[p] <= NVa /\ pc[p] \notin GrowPcs
  BY UserFacts DEF SbrkGrow, SbrkShrink, At, mm, pt, GrowPcs
<1>2. ViewSz(p) = sz[p]
  BY <1>1, CalmView
<1>3. /\ \A q \in Proc \ {p} : ThreadSame(q)
      /\ ViewSz(p)' <= sz[p]
  <2>1. CASE SbrkGrow(p, n)
    <3>1. n > 0 /\ StartAlloc(p, Own(p), sz[p], sz[p] + n, "g_done")
      BY <2>1 DEF SbrkGrow
    <3>2. /\ \A q \in Proc \ {p} : ThreadSame(q)
          /\ hi'[p] = sz[p] + n
      BY <3>1, StartAllocSame, Types
    <3>3. hi'[p] # sz'[p]
      BY <1>1, <3>1, <3>2
    <3>4. QED
      BY <1>1, <3>2, <3>3 DEF ViewSz
  <2>2. CASE SbrkShrink(p, n)
    <3>1. n < 0 /\ StartDealloc(p, Own(p), sz[p] + n, sz[p], "g_done")
      BY <2>2 DEF SbrkShrink
    <3>2. /\ \A q \in Proc \ {p} : ThreadSame(q)
          /\ lo'[p] = sz[p] + n
      BY <3>1, StartDeallocSame, Types
    <3>3. QED
      BY <1>1, <3>1, <3>2 DEF ViewSz
  <2>3. QED
    BY <2>1, <2>2
<1>4. QED
  BY <1>1, <1>2, <1>3, EnterCached

LEMMA UserCached ==
  ASSUME "sbrk_all" \notin Calls, IInv, IInv', Struct, FInv, TInv, NEW p \in Proc, User(p)
  PROVE  TInv'
<1>1. ASSUME NEW m, Panic(m) PROVE TInv'
  BY <1>1, PanicCached
<1>2. ASSUME NEW va, NEW v, UserWrite(p, va, v) PROVE TInv'
  BY <1>2, StillCached DEF UserWrite
<1>3. CASE Yield(p)
  <2>1. tlb'[p] = NoTlb /\ \A q \in Proc \ {p} : tlb'[q] = tlb[q]
    BY <1>3, Types DEF Yield, Flush, CpuOK
  <2>2. \A q \in Proc \ {p} : ThreadSame(q)
    BY <1>3 DEF Yield, ThreadSame, kt, loc
  <2>3. QED
    BY <1>3, <2>1, <2>2, EnterCached DEF Yield, mm, pt
<1>4. ASSUME NEW l, Goto(p, l), pc[p] = "user", UNCHANGED <<ref, perm, tlb, sz, side>>,
             \A q \in Proc : state[q] = "LIVE" => state'[q] = "LIVE",
             \A q \in Proc \ {p} : /\ tgt'[q] = tgt[q] /\ cur'[q] = cur[q] /\ lo'[q] = lo[q]
                                   /\ hi'[q] = hi[q] /\ ret'[q] = ret[q],
             ret'[p] = ret[p] \/ ret'[p] # "g_done"
      PROVE  TInv'
  <2>1. \A q \in Proc \ {p} : ThreadSame(q)
    BY <1>4, Types DEF ThreadSame, Goto, ThreadOK
  <2>2. ViewSz(p)' <= ViewSz(p)
    BY <1>4, CalmView, ViewIn DEF ViewSz, GrowPcs
  <2>3. QED
    BY <1>4, <2>1, <2>2, EnterCached
<1>5. ASSUME NEW va, NEW w, NEW usr, PageFault(p, va, w, usr) PROVE TInv'
  <2>1. ASSUME Goto(p, "pf_alloc"), tgt' = [tgt EXCEPT ![p] = Own(p)],
               cur' = [cur EXCEPT ![p] = va], UNCHANGED <<mm, pt, lo, hi, ret, tlb>>
        PROVE  TInv'
    <3>1. pc[p] = "user" /\ UNCHANGED <<ref, perm, sz, side, state>>
      BY <1>5, <2>1 DEF PageFault, At, mm, pt
    <3>2. QED
      BY <1>4, <2>1, <3>1
  <2>2. QED
    BY <1>1, <1>5, <2>1 DEF PageFault
<1>6. CASE ForkStart(p)
  <2>1. PICK np \in Proc : /\ state[np] = "UNUSED" /\ state' = [state EXCEPT ![np] = "EMBRYO"]
                           /\ tgt' = [tgt EXCEPT ![p] = Own(np)]
    BY <1>6 DEF ForkStart, Own
  <2>2. pc[p] = "user" /\ Goto(p, "f_kstack")
        /\ UNCHANGED <<ref, perm, tlb, sz, side, cur, lo, hi, ret>>
    BY <1>6 DEF ForkStart, At, mm
  <2>3. \A q \in Proc : state[q] = "LIVE" => state'[q] = "LIVE"
    BY <2>1, Types DEF ProcOK
  <2>4. \A q \in Proc \ {p} : tgt'[q] = tgt[q]
    BY <2>1, Types DEF ThreadOK
  <2>5. QED
    BY <1>4, <2>2, <2>3, <2>4
<1>7. CASE Exit(p)
  <2>1. ASSUME state' = [state EXCEPT ![p] = "ZOMBIE"], Jump(p, "idle"), Flush(p),
               UNCHANGED <<mm, sz, side>>
        PROVE  TInv'
    <3>1. "idle" \in Pcs /\ UNCHANGED <<ref, perm>>
      BY <2>1 DEF Pcs, mm
    <3>2. tlb'[p] = NoTlb /\ \A q \in Proc \ {p} : tlb'[q] = tlb[q] /\ state'[q] = state[q]
      BY <2>1, Types DEF Flush, CpuOK, ProcOK
    <3>3. \A q \in Proc \ {p} : ThreadSame(q)
      BY <2>1, <3>1, JumpBounds, Types
    <3>4. QED
      BY <2>1, <3>1, <3>2, <3>3, EnterCached
  <2>2. QED
    BY <1>1, <1>7, <2>1 DEF Exit
<1>8. CASE Wait(p)
  <2>1. PICK c \in Proc : tgt' = [tgt EXCEPT ![p] = Own(c)]
    BY <1>8 DEF Wait, Own
  <2>2. pc[p] = "user" /\ Goto(p, "w_kstack")
        /\ UNCHANGED <<ref, perm, tlb, state, sz, side, cur, lo, hi, ret>>
    BY <1>8 DEF Wait, At, mm
  <2>3. QED
    BY <1>4, <2>1, <2>2
<1>9. ASSUME NEW n, ExecStart(p, n) PROVE TInv'
  <2>1. /\ pc[p] = "user" /\ Goto(p, "s_pgdir")
        /\ UNCHANGED <<ref, perm, tlb, state, sz, side>>
        /\ tgt' = [tgt EXCEPT ![p] = Other(p)] /\ lo' = [lo EXCEPT ![p] = 0]
        /\ hi' = [hi EXCEPT ![p] = n] /\ cur' = [cur EXCEPT ![p] = 0]
        /\ ret' = [ret EXCEPT ![p] = "x_load"]
    BY <1>9 DEF ExecStart, At, mm, pt
  <2>2. ret'[p] # "g_done"
    BY <2>1, Types DEF ThreadOK
  <2>3. QED
    BY <1>4, <2>1, <2>2
<1>10. ~SbrkAll(p)
  BY DEF SbrkAll
<1>11. ASSUME NEW n \in Int, SbrkGrow(p, n) \/ SbrkShrink(p, n) PROVE TInv'
  BY <1>11, SbrkCached
<1>12. 1 .. NVa \subseteq Int /\ -NVa .. -1 \subseteq Int
  BY SizeAssumption
<1>13. QED
  BY <1>2, <1>3, <1>5, <1>6, <1>7, <1>8, <1>9, <1>10, <1>11, <1>12, FillCached DEF User

-----------------------------------------------------------------------------
(* Cached translations, in every reachable state.                          *)

LEMMA InitCached == Init => TInv
BY DEF Init, TInv, Cached, NoTlb

LEMMA KernelCached ==
  ASSUME IInv, IInv', Struct, FInv, TInv, NEW p \in Proc, Kernel(p) PROVE TInv'
<1>1. Dealloc(p) => TInv'
  BY DeallocStepCached, DeallocClearCached, DeallocDoneCached, FreeTabCached DEF Dealloc
<1>2. QED
  BY <1>1, FaultCached, SetupCached, BootCached, ForkCached, AllocCached, ExecCached,
     ReapCached DEF Kernel

LEMMA NextCached ==
  ASSUME "sbrk_all" \notin Calls
  PROVE  IInv /\ IInv' /\ Struct /\ FInv /\ TInv /\ [Next]_vars => TInv'
<1> SUFFICES ASSUME IInv, IInv', Struct, FInv, TInv, [Next]_vars PROVE TInv'
  OBVIOUS
<1>1. CASE UNCHANGED vars
  BY <1>1, StillCached DEF vars, pt, kt, loc
<1>2. CASE Halted
  BY <1>1, <1>2 DEF Halted
<1>3. ASSUME NEW p \in Proc, Kernel(p) \/ User(p) PROVE TInv'
  BY <1>3, KernelCached, UserCached
<1>4. QED
  BY <1>1, <1>2, <1>3 DEF Next

-----------------------------------------------------------------------------
(* The kernel's assertions.                                                *)

\* A slot that counts names a page with a positive count.
LEMMA CountPositive ==
  ASSUME IInv, CInv, NEW s \in Slot, ref[s] # None, s \notin Dangling
  PROVE  Kfreeable(s)
<1>1. ref[s] \in Page /\ Eff[s] = ref[s]
  BY Types DEF MemOK, Eff
<1>2. s \in Places(Eff, ref[s]) /\ IsFiniteSet(Places(Eff, ref[s]))
  BY <1>1, PlacesFinite DEF Places
<1>3. rc[ref[s]] = Cardinality(Places(Eff, ref[s]))
  BY <1>1 DEF CInv, Counts
<1>4. Cardinality(Places(Eff, ref[s])) \in Nat /\ Cardinality(Places(Eff, ref[s])) # 0
  BY <1>2, FS_CardinalityType, FS_EmptySet
<1>5. QED
  BY <1>3, <1>4 DEF Kfreeable

\* What a kernel path gives back is a reference that counts.
LEMMA OwnKfreeable ==
  ASSUME IInv, CInv, NEW p \in Proc, Busy(p), ~Dangles(p),
         NEW s \in Slot, OwnSlot(p, s), ref[s] # None
  PROVE  ~KfreePanic(s)
<1>1. s \notin Dangling
  BY HoleApart, DanglingIff
<1>2. QED
  BY <1>1, CountPositive DEF KfreePanic

CountsHold == panicked \notin {"kfree", "incrementRefCount", "remap"}

LEMMA FaultHolds ==
  ASSUME IInv, CInv, NEW p \in Proc, Fault(p) PROVE CountsHold' /\ AssertionsHold'
<1>1. pc[p] = "pf_free" => ~KfreePanic(PTE(tgt[p], cur[p]))
  <2>1. SUFFICES ASSUME pc[p] = "pf_free" PROVE ~KfreePanic(PTE(tgt[p], cur[p]))
    OBVIOUS
  <2>2. Busy(p) /\ ~Dangles(p)
    BY <2>1 DEF Busy, Dangles
  <2>3. ref[PTE(tgt[p], cur[p])] # None /\ PTE(tgt[p], cur[p]) \in Slot /\ cur[p] \in Nat
    BY <2>1, SlotIn, Types DEF Hold, Label
  <2>4. OwnSlot(p, PTE(tgt[p], cur[p]))
    BY <2>3 DEF OwnSlot
  <2>5. QED
    BY <2>2, <2>3, <2>4, OwnKfreeable
<1>2. panicked' \in {"no", "pagefault out of memory"}
  BY <1>1 DEF Fault, FaultAlloc, FaultCopy, FaultFree, FaultMap, At, Panic
<1>3. QED
  BY <1>2 DEF CountsHold, AssertionsHold

LEMMA BootHolds ==
  ASSUME IInv, Struct, NEW p \in Proc, Setup(p) \/ Boot(p) PROVE CountsHold' /\ AssertionsHold'
<1>1. pc[p] = "b_map" => ~Remap(tgt[p], 0)
  BY Ints DEF Struct, TargetSlots, Unmapped, Remap
<1>2. Setup(p) => panicked' \in {"no", "userinit"}
  BY DEF Setup, SetupPgdir, SetupKpde, At, Panic
<1>3. Boot(p) => panicked' \in {"no", "userinit"}
  BY <1>1 DEF Boot, BootKstack, BootUvm, BootMap, At, Panic
<1>4. QED
  BY <1>2, <1>3 DEF CountsHold, AssertionsHold

LEMMA ForkHolds ==
  ASSUME IInv, Struct, CInv, SInv, NEW p \in Proc, Fork(p)
  PROVE  CountsHold' /\ (FInv => AssertionsHold')
<1>1. /\ Busy(p) /\ ~Dangles(p) /\ tgt[p][1] \in Proc /\ tgt[p] # Own(p) /\ state[p] = "LIVE"
      /\ state[tgt[p][1]] = "EMBRYO" /\ tgt[p][1] # p
      /\ pc[p] \in {"f_kstack", "f_copy", "f_map", "f_unref", "f_fail"} /\ pc[p] \notin GrowPcs
  BY ForkFacts
     DEF Fork, ForkKstack, ForkCopy, ForkMap, ForkUnref, ForkFail, ForkDone, At, Dangles, GrowPcs
<1>2. pc[p] = "f_unref" => ~KfreePanic(Mem(p))
  BY <1>1, OwnKfreeable, SlotIn, Types DEF OwnSlot, Hold
<1>3. pc[p] = "f_fail" => ~KfreePanic(KStack(tgt[p][1]))
  <2>1. pc[p] = "f_fail" => ref[KStack(tgt[p][1])] # None
    BY <1>1 DEF SInv, Stocked
  <2>2. QED
    BY <1>1, <2>1, OwnKfreeable, SlotIn DEF OwnSlot
<1>4. pc[p] = "f_map" => ~Remap(tgt[p], cur[p])
  <2>1. pc[p] = "f_map" => cur[p] \in Va /\ cur[p] \in Int
    BY Types, Ints DEF Label
  <2>2. QED
    BY <2>1 DEF Struct, TargetSlots, Unmapped, Remap
<1>5. ASSUME pc[p] = "f_copy", cur[p] < sz[p]
      PROVE  LET e == PTE(Own(p), cur[p])
             IN  (ref[e] # None => rc[ref[e]] # 0) /\ (FInv => ref[e] # None)
  <2>1. cur[p] \in Va /\ cur[p] \in Int /\ Own(p) \in Space /\ Own(p)[1] = p
    BY <1>5, OwnIn, Types, SizeAssumption DEF ProcOK, Va
  <2>2. ASSUME NEW q \in Proc, Dangles(q), PTE(Own(p), cur[p]) = Hole(q) PROVE FALSE
    <3>1. q # p /\ Busy(q)
      BY <1>1, <2>2 DEF Dangles, Busy
    <3>2. tgt[q][1] # p /\ tgt[q] \in Space /\ cur[q] \in Int
      BY <1>1, <3>1, Apart
    <3>3. tgt[q] = Own(p)
      BY <2>1, <2>2, <3>2, Slots DEF Hole
    <3>4. QED
      BY <2>1, <3>2, <3>3
  <2>3. ref[PTE(Own(p), cur[p])] # None => Kfreeable(PTE(Own(p), cur[p]))
    BY <2>1, <2>2, CountPositive, DanglingIff, SlotIn
  <2>4. FInv => ref[PTE(Own(p), cur[p])] # None
    BY <1>1, <1>5, <2>1, CalmView DEF FInv, Viewed, Full
  <2>5. QED
    BY <2>3, <2>4 DEF Kfreeable
<1>6. CASE ForkCopy(p)
  <2>1. /\ panicked' \in {"no", "copyuvm: page not present"}
        /\ FInv => panicked' = "no"
    BY <1>5, <1>6 DEF ForkCopy, At, Panic
  <2>2. QED
    BY <2>1 DEF CountsHold, AssertionsHold
<1>7. CASE ~ForkCopy(p)
  <2>1. panicked' = "no"
    BY <1>2, <1>3, <1>4, <1>7 DEF Fork, ForkKstack, ForkMap, ForkUnref, ForkFail, ForkDone, At, Panic
  <2>2. QED
    BY <2>1 DEF CountsHold, AssertionsHold
<1>8. QED
  BY <1>6, <1>7

LEMMA DeallocHolds ==
  ASSUME IInv, Struct, CInv, SInv, NEW p \in Proc, Dealloc(p)
  PROVE  CountsHold' /\ AssertionsHold'
<1>1. /\ Busy(p) /\ tgt[p] \in Space /\ cur[p] \in Nat
  BY Types DEF Dealloc, DeallocStep, DeallocClear, DeallocDone, FreeTab, At, Busy
<1>2. ASSUME DeallocStep(p), ref[PTE(tgt[p], cur[p])] # None PROVE ~KfreePanic(PTE(tgt[p], cur[p]))
  <2>1. pc[p] = "dv" /\ ~Dangles(p) /\ cur[p] \in Va /\ hi[p] <= NVa /\ cur[p] < hi[p]
    BY <1>1, <1>2, Types, SizeAssumption DEF DeallocStep, At, Dangles, Va, ThreadOK
  <2>2. PTE(tgt[p], cur[p]) \in Slot /\ OwnSlot(p, PTE(tgt[p], cur[p]))
    BY <1>1, <2>1, SlotIn DEF OwnSlot
  <2>3. QED
    BY <1>1, <1>2, <2>1, <2>2, OwnKfreeable
<1>3. ASSUME FreeTab(p)
      PROVE  /\ \A i \in Pde : ref[PDE(tgt[p], i)] # None => ~KfreePanic(PDE(tgt[p], i))
             /\ ~KfreePanic(PgDir(tgt[p]))
  <2>1. pc[p] = "fv_tab" /\ ~Dangles(p) /\ ref[PgDir(tgt[p])] # None
    BY <1>1, <1>3 DEF FreeTab, At, Dangles, SInv, Stocked, NoDirPcs
  <2>2. \A i \in Pde : PDE(tgt[p], i) \in Slot /\ i \in Nat
    BY <1>1, SlotIn, SizeAssumption DEF Pde, UPde, KPde, PDX, Va
  <2>3. \A i \in Pde : OwnSlot(p, PDE(tgt[p], i))
    BY <2>2 DEF OwnSlot
  <2>4. PgDir(tgt[p]) \in Slot /\ OwnSlot(p, PgDir(tgt[p]))
    BY <1>1, SlotIn DEF OwnSlot
  <2>5. QED
    BY <1>1, <2>1, <2>2, <2>3, <2>4, OwnKfreeable
<1>4. panicked' = "no"
  <2>1. DeallocStep(p) => panicked' = "no"
    BY <1>2 DEF DeallocStep, At
  <2>2. FreeTab(p) => panicked' = "no"
    BY <1>3 DEF FreeTab, At
  <2>3. QED
    BY <2>1, <2>2 DEF Dealloc, DeallocClear, DeallocDone, At
<1>5. QED
  BY <1>4 DEF CountsHold, AssertionsHold

LEMMA AllocHolds ==
  ASSUME IInv, Struct, CInv, NEW p \in Proc, Alloc(p) PROVE CountsHold' /\ AssertionsHold'
<1>1. pc[p] = "a_map" => ~Remap(tgt[p], cur[p])
  <2>1. pc[p] = "a_map" => cur[p] \in Va /\ cur[p] \in Int
    BY AllocFacts, Ints
  <2>2. QED
    BY <2>1 DEF Struct, TargetSlots, Unmapped, Remap
<1>2. pc[p] = "a_free" => ~KfreePanic(Mem(p))
  <2>1. pc[p] = "a_free" => Busy(p) /\ ~Dangles(p) /\ ref[Mem(p)] # None
    BY Types DEF Busy, Dangles, Hold
  <2>2. QED
    BY <2>1, OwnKfreeable, SlotIn DEF OwnSlot
<1>3. panicked' = "no"
  BY <1>1, <1>2 DEF Alloc, AllocPage, AllocMap, AllocFree, AllocDone, GrowDone, At
<1>4. QED
  BY <1>3 DEF CountsHold, AssertionsHold

LEMMA ReapHolds ==
  ASSUME IInv, Struct, CInv, SInv, NEW p \in Proc, Exec(p) \/ Reap(p)
  PROVE  CountsHold' /\ AssertionsHold'
<1>1. ASSUME pc[p] = "w_kstack" PROVE ~KfreePanic(KStack(tgt[p][1]))
  <2>1. /\ Busy(p) /\ ~Dangles(p) /\ ~Reaping(p) /\ tgt[p][1] \in Proc
        /\ state[tgt[p][1]] = "ZOMBIE"
    BY <1>1, WaitFacts DEF Dangles, Reaping
  <2>2. ASSUME NEW r \in Proc, Reaping(r), tgt[r][1] = tgt[p][1] PROVE FALSE
    <3>1. Busy(r) /\ r # p
      BY <2>1, <2>2 DEF Reaping, Busy
    <3>2. QED
      BY <2>1, <2>2, <3>1, Types DEF ThreadsApart
  <2>3. ref[KStack(tgt[p][1])] # None
    BY <2>1, <2>2 DEF SInv, Stocked, Whole
  <2>4. QED
    BY <2>1, <2>3, OwnKfreeable, SlotIn DEF OwnSlot
<1>2. Exec(p) => panicked' = "no"
  BY DEF Exec, ExecLoad, ExecStack, ExecBad, At
<1>3. Reap(p) => panicked' = "no"
  BY <1>1 DEF Reap, WaitKstack, WaitDone, At
<1>4. QED
  BY <1>2, <1>3 DEF CountsHold, AssertionsHold

LEMMA NextHolds ==
  /\ IInv /\ Struct /\ CInv /\ SInv /\ CountsHold /\ [Next]_vars => CountsHold'
  /\ IInv /\ Struct /\ CInv /\ SInv /\ FInv /\ AssertionsHold /\ [Next]_vars => AssertionsHold'
<1> SUFFICES ASSUME IInv, Struct, CInv, SInv, [Next]_vars
             PROVE  /\ CountsHold => CountsHold'
                    /\ FInv /\ AssertionsHold => AssertionsHold'
  OBVIOUS
<1>1. CASE UNCHANGED vars \/ Halted
  BY <1>1 DEF vars, Halted, CountsHold, AssertionsHold
<1>2. ASSUME NEW p \in Proc, User(p) PROVE CountsHold' /\ AssertionsHold'
  <2>1. panicked' \in {"no", "pagefault handler", "init exiting"}
    BY <1>2 DEF User, TlbFill, Yield, UserWrite, PageFault, ForkStart, SbrkGrow, SbrkShrink,
                SbrkAll, ExecStart, Exit, Wait, At, Panic
  <2>2. QED
    BY <2>1 DEF CountsHold, AssertionsHold
<1>3. ASSUME NEW p \in Proc, Kernel(p) PROVE CountsHold' /\ (FInv => AssertionsHold')
  BY <1>3, FaultHolds, BootHolds, ForkHolds, DeallocHolds, AllocHolds, ReapHolds DEF Kernel
<1>4. QED
  BY <1>1, <1>2, <1>3 DEF Next

-----------------------------------------------------------------------------
(* The theorems.                                                           *)

\* The inductive invariant of what every sbrk leaves true: counts, layout, and
\* the kernel stacks and page directories.
THEOREM StockInvariance == Spec => [](IInv /\ Struct /\ CInv /\ SInv)
<1>1. Init => IInv /\ Struct /\ CInv /\ SInv
  BY InitIInv, InitStruct, InitCounts, InitStocked
<1>2. (IInv /\ Struct /\ CInv /\ SInv) /\ [Next]_vars => (IInv /\ Struct /\ CInv /\ SInv)'
  BY NextIInv, NextStruct, NextCounts, NextStocked
<1>3. QED
  BY <1>1, <1>2, PTL DEF Spec

\* The panics of kfree, incrementRefCount and mappages never happen, whatever
\* user programs ask for: no path frees a null page or takes a count below
\* zero, copyuvm never shares a page that is free, and no page is mapped over
\* another.
THEOREM CountsNeverFail == Spec => []CountsHold
<1>1. Init => CountsHold
  BY DEF Init, CountsHold
<1>2. (IInv /\ Struct /\ CInv /\ SInv) /\ CountsHold /\ [Next]_vars => CountsHold'
  BY NextHolds
<1>3. QED
  BY <1>1, <1>2, StockInvariance, PTL DEF Spec

\* The inductive invariant when no process gives back its whole address space
\* with one sbrk (growproc then keeps the old p->sz).
THEOREM AccessInvariance ==
  ASSUME "sbrk_all" \notin Calls
  PROVE  Spec => [](IInv /\ Struct /\ CInv /\ SInv /\ FInv /\ TInv)
<1> DEFINE I == IInv /\ Struct /\ CInv /\ SInv /\ FInv /\ TInv
<1>1. Init => I
  BY InitIInv, InitStruct, InitCounts, InitStocked, InitFilled, InitCached
<1>2. I /\ [Next]_vars => I'
  BY NextIInv, NextStruct, NextCounts, NextStocked, NextFilled, NextCached
<1>3. QED
  BY <1>1, <1>2, PTL DEF Spec

\* None of the kernel's assertions about page tables and reference counts
\* fails, copyuvm's "page not present" included, when no process gives back
\* its whole address space with one sbrk.
THEOREM KernelAssertionsHold ==
  ASSUME "sbrk_all" \notin Calls
  PROVE  Spec => []AssertionsHold
<1>1. Init => AssertionsHold
  BY DEF Init, AssertionsHold
<1>2. (IInv /\ Struct /\ CInv /\ SInv /\ FInv /\ TInv) /\ AssertionsHold /\ [Next]_vars
        => AssertionsHold'
  BY NextHolds
<1>3. QED
  BY <1>1, <1>2, AccessInvariance, PTL DEF Spec

\* When user code runs, each translation that its CPU has cached is the page
\* table's, under the same condition.
THEOREM CachesAreTrue ==
  ASSUME "sbrk_all" \notin Calls
  PROVE  Spec => []TlbCoherent
<1>1. ASSUME IInv, FInv, TInv PROVE TlbCoherent
  <2>1. SUFFICES ASSUME NEW p \in Proc, pc[p] = "user", NEW va \in Va, tlb[p][va] # None
                 PROVE  tlb[p][va] = Entry(Own(p), va)
    BY DEF TlbCoherent
  <2>2. ViewSz(p) = sz[p]
    BY <1>1, <2>1, CalmView DEF GrowPcs
  <2>3. QED
    BY <1>1, <2>1, <2>2 DEF TInv, Cached
<1>2. (IInv /\ Struct /\ CInv /\ SInv /\ FInv /\ TInv) => TlbCoherent
  BY <1>1
<1>3. QED
  BY <1>2, AccessInvariance, PTL

-----------------------------------------------------------------------------
(* What a kernel path has written so far.                                  *)

\* The slot through which q sees its page va: while the page fault handler
\* replaces the page, its copy.
ViewSlot(q, va) == IF pc[q] = "pf_map" /\ cur[q] = va THEN Mem(q) ELSE PTE(Own(q), va)

\* The pages of space s from a up to b contain x.
Holds(s, a, b, x) ==
  \A va \in Va : a <= va /\ va < b /\ ref[PTE(s, va)] # None => data[ref[PTE(s, va)]] = x

\* Every page of space s may be stored to.
Fresh(s) == \A va \in Va : ref[PTE(s, va)] # None => "W" \in perm[s][va]

\* copyuvm has given the child the parent's pages below its cursor.
Copied(q) ==
  /\ pc[q] \in {"f_copy", "f_map"} =>
       \A va \in Va : va < cur[q] => ref[PTE(tgt[q], va)] = ref[PTE(Own(q), va)]
  /\ pc[q] = "f_map" => ref[Mem(q)] = ref[PTE(Own(q), cur[q])]

\* The pages that a path has filled.
Written(q) ==
  /\ pc[q] = "pf_free" => data[ref[Mem(q)]] = data[ref[PTE(tgt[q], cur[q])]]
  /\ pc[q] = "b_map" => data[ref[Mem(q)]] = "img"
  /\ pc[q] = "a_map" => data[ref[Mem(q)]] = "zero"
  /\ pc[q] \in {"a_alloc", "a_map"} => lo[q] <= cur[q] /\ Holds(tgt[q], lo[q], cur[q], "zero")
  /\ pc[q] \in GrowPcs /\ ret[q] = "g_done" /\ hi[q] # sz[q] => hi[q] < NVa
  /\ pc[q] = "g_done" => ret[q] = "g_done"
  /\ pc[q] = "g_done" /\ hi[q] # sz[q] => lo[q] = sz[q] /\ hi[q] > sz[q]
                                          /\ Holds(tgt[q], sz[q], hi[q], "zero")

\* The image that exec builds.
Built(q) ==
  /\ pc[q] \in {"s_pgdir", "s_kpde"} /\ tgt[q] = Other(q) => lo[q] = 0 /\ hi[q] >= 1
  /\ pc[q] \in {"a_alloc", "a_map"} /\ ret[q] = "x_load" => hi[q] >= 1
  /\ pc[q] \in {"a_alloc", "a_map"} /\ ret[q] = "x_stack" =>
       /\ lo[q] >= 1 /\ hi[q] = lo[q] + 2 /\ hi[q] < NVa
       /\ Holds(tgt[q], 0, lo[q], "img")
  /\ pc[q] = "x_load" => hi[q] >= 1
  /\ pc[q] = "x_stack" =>
       /\ hi[q] >= 3 /\ hi[q] < NVa
       /\ Holds(tgt[q], 0, hi[q] - 2, "img") /\ Holds(tgt[q], hi[q] - 2, hi[q], "zero")
  /\ pc[q] \in {"a_alloc", "a_map", "x_load", "x_stack"} /\ tgt[q] = Other(q) => Fresh(tgt[q])

\* While userinit makes the first process there is no other.
First(q) == Busy(q) /\ state[q] = "EMBRYO" => \A r \in Proc \ {q} : state[r] = "UNUSED"

Drafts(q) == Copied(q) /\ Written(q) /\ Built(q)
DInv == \A q \in Proc : Drafts(q) /\ First(q)

-----------------------------------------------------------------------------
(* Which pages a step may store to.                                        *)

\* Slot t is the only reference to page pg.
OnlyIn(pg, t) == Eff[t] = pg /\ \A u \in Slot : Eff[u] = pg => u = t

\* The step stores to pages that are free, or that one slot of ts alone names.
Touches(ts) ==
  \A pg \in Page : data'[pg] # data[pg] => pg \in freelist \/ \E t \in ts : OnlyIn(pg, t)

\* What any other slot names keeps its contents.
LEMMA Untouched ==
  ASSUME IInv, CInv, NEW ts, Touches(ts), NEW s \in Slot, s \notin ts, s \notin Dangling,
         ref[s] # None
  PROVE  data'[ref[s]] = data[ref[s]]
<1>1. Eff[s] = ref[s] /\ ref[s] \in Page
  BY Types DEF Eff, MemOK
<1>2. s \in Places(Eff, ref[s])
  BY <1>1 DEF Places
<1>3. rc[ref[s]] # 0
  BY <1>1, <1>2, PlacesFinite DEF CInv, Counts
<1>4. ref[s] \notin freelist
  BY <1>1, <1>3 DEF CInv, Counts
<1>5. QED
  BY <1>1, <1>4 DEF Touches, OnlyIn

LEMMA NoTouch == ASSUME UNCHANGED data PROVE \A ts : Touches(ts)
BY DEF Touches

\* A page just taken from the free list is filled.
LEMMA FillTouches ==
  ASSUME IInv, NEW pg \in freelist, NEW x, data' = [data EXCEPT ![pg] = x]
  PROVE  \A ts : Touches(ts)
BY Types DEF MemOK, Touches

\* A store through a slot that has its page to itself.
LEMMA StoreTouches ==
  ASSUME IInv, CInv, NEW s \in Exclusive, s \notin Dangling, ref[s] # None, NEW x,
         data' = [data EXCEPT ![ref[s]] = x]
  PROVE  Touches({s})
<1>1. s \in Slot /\ Eff[s] = ref[s]
  BY EffType DEF Eff
<1>2. OnlyIn(ref[s], s)
  BY <1>1 DEF CInv, Sole, OnlyIn
<1>3. QED
  BY <1>1, <1>2, Types DEF MemOK, Touches

\* kfree fills a page with junk when its last reference goes.
LEMMA KfreeTouches ==
  ASSUME IInv, CInv, NEW s \in Slot, s \notin Dangling, NEW d, KfreeSlot(s, d)
  PROVE  Touches({s})
<1>1. ref[s] \in Page /\ Eff[s] = ref[s] /\ Kfree(ref[s])
  BY Types DEF KfreeSlot, Kfreeable, MemOK, Eff
<1>2. ASSUME rc[ref[s]] = 1 PROVE OnlyIn(ref[s], s)
  <2>1. Cardinality(Places(Eff, ref[s])) = 1 /\ s \in Places(Eff, ref[s])
    BY <1>1, <1>2 DEF CInv, Counts, Places
  <2>2. \E x : Places(Eff, ref[s]) = {x}
    BY <2>1, PlacesFinite, FS_Singleton
  <2>3. Places(Eff, ref[s]) = {s}
    BY <2>1, <2>2
  <2>4. QED
    BY <1>1, <2>3 DEF OnlyIn, Places
<1>3. QED
  BY <1>1, <1>2, Types DEF Kfree, Touches, MemOK

\* A path that is not about to rewrite an entry has no slot without a count.
LEMMA OwnCounts ==
  ASSUME IInv, NEW p \in Proc, Busy(p), ~Dangles(p), NEW s, OwnSlot(p, s)
  PROVE  s \notin Dangling
BY HoleApart, DanglingIff

LEMMA OwnKfreeTouches ==
  ASSUME IInv, CInv, NEW p \in Proc, Busy(p), ~Dangles(p), NEW s \in Slot, OwnSlot(p, s),
         NEW d, KfreeSlot(s, d)
  PROVE  Touches({s})
BY OwnCounts, KfreeTouches

-----------------------------------------------------------------------------
(* What a step leaves of the views and the work of other processes.        *)

LEMMA NotOwn ==
  ASSUME IInv, NEW p \in Proc, NEW q \in Proc \ {p, tgt[p][1]}
  PROVE  /\ ~OwnSlot(p, Mem(q))
         /\ \A t \in Space, va \in Va : t[1] = q => ~OwnSlot(p, PTE(t, va))
<1>1. tgt[p] \in Space /\ tgt[p][1] \in Proc /\ Va \subseteq Int /\ Nat \subseteq Int
  BY Types, Ints
<1>2. QED
  BY <1>1, Slots DEF OwnSlot

\* The slots through which a live process sees its pages.
LEMMA ViewClean ==
  ASSUME IInv, Struct, FInv, NEW q \in Proc, state[q] = "LIVE", NEW va \in Va, va < ViewSz(q)
  PROVE  /\ ViewSlot(q, va) \in Slot \ Dangling /\ ref[ViewSlot(q, va)] # None
         /\ ViewPage(q, va) = ref[ViewSlot(q, va)]
<1>1. Own(q) \in Space /\ Own(q)[1] = q
  BY OwnIn, Types
<1>2. ViewSlot(q, va) \in Slot /\ ViewPage(q, va) = ref[ViewSlot(q, va)]
  BY <1>1, SlotIn DEF ViewSlot, ViewPage
<1>3. ref[ViewSlot(q, va)] # None
  BY Types DEF ViewSlot, FInv, Viewed, Full, Hold
<1>4. ASSUME NEW r \in Proc, Dangles(r), ViewSlot(q, va) = Hole(r) PROVE FALSE
  <2>1. Busy(r) /\ tgt[r] \in Space /\ cur[r] \in Int /\ va \in Int
    BY <1>4, Types, Ints DEF Dangles, Busy
  <2>2. ViewSlot(q, va) = PTE(Own(q), va) /\ tgt[r] = Own(q) /\ cur[r] = va
    BY <1>1, <1>4, <2>1, Slots DEF ViewSlot, Hole
  <2>3. r = q
    BY <1>1, <2>1, <2>2, Types DEF ThreadsApart
  <2>4. CASE pc[q] = "pf_map"
    BY <1>1, <2>1, <2>2, <2>3, <2>4, Slots DEF ViewSlot
  <2>5. CASE pc[q] = "dv_clear"
    BY <2>2, <2>3, <2>5, DvFacts, ViewIn
  <2>6. QED
    BY <1>4, <2>3, <2>4, <2>5 DEF Dangles
<1>5. QED
  BY <1>2, <1>3, <1>4, DanglingIff

LEMMA ViewRange ==
  ASSUME IInv, NEW q \in Proc
  PROVE  /\ \A va \in 0 .. ViewSz(q) - 1 : va \in Va /\ va < ViewSz(q)
         /\ \A va \in Va : va < ViewSz(q) => va \in 0 .. ViewSz(q) - 1
BY ViewIn, Types, SizeAssumption DEF ViewSz, ProcOK, ThreadOK, Va

\* q sees the same contents.
LEMMA SameView ==
  ASSUME IInv, NEW q \in Proc, state'[q] = state[q], ViewSz(q)' = ViewSz(q),
         \A va \in Va : state[q] = "LIVE" /\ va < ViewSz(q)
            => data'[ViewPage(q, va)'] = data[ViewPage(q, va)]
  PROVE  View(q)' = View(q)
<1>1. CASE state[q] # "LIVE"
  BY <1>1 DEF View
<1>2. CASE state[q] = "LIVE"
  <2>1. \A va \in 0 .. ViewSz(q) - 1 : data'[ViewPage(q, va)'] = data[ViewPage(q, va)]
    BY <1>2, ViewRange
  <2>2. QED
    BY <1>2, <2>1 DEF View
<1>3. QED
  BY <1>1, <1>2

\* What p stores to in its own slots and gives back nobody else sees.
LEMMA OtherViews ==
  ASSUME IInv, Struct, CInv, FInv, NEW p \in Proc, RefLocal(p),
         NEW ts, Touches(ts), \A t \in ts : OwnSlot(p, t),
         NEW q \in Proc \ {p, tgt[p][1]}, ThreadSame(q), ProcSame(q)
  PROVE  View(q)' = View(q)
<1>1. Own(q) \in Space /\ Own(q)[1] = q /\ Keep(q)
  BY OwnIn, RefLocalKeeps, Types
<1>2. state'[q] = state[q] /\ ViewSz(q)' = ViewSz(q) /\ Own(q)' = Own(q)
  BY DEF ThreadSame, ProcSame, ViewSz, Own
<1>3. ASSUME NEW va \in Va, state[q] = "LIVE", va < ViewSz(q)
      PROVE  data'[ViewPage(q, va)'] = data[ViewPage(q, va)]
  <2>1. ViewSlot(q, va) \in Slot \ Dangling /\ ref[ViewSlot(q, va)] # None
        /\ ViewPage(q, va) = ref[ViewSlot(q, va)]
    BY <1>3, ViewClean
  <2>2. ViewSlot(q, va) \notin ts /\ ref'[ViewSlot(q, va)] = ref[ViewSlot(q, va)]
    BY <1>1, NotOwn DEF ViewSlot, Keep, KeepMem, KeepPte
  <2>3. ViewPage(q, va)' = ref'[ViewSlot(q, va)]
    BY <1>2 DEF ViewPage, ViewSlot, ThreadSame
  <2>4. QED
    BY <2>1, <2>2, <2>3, Untouched
<1>4. QED
  BY <1>2, <1>3, SameView

\* The entries of a space that nobody else works on.
LEMMA PathClean ==
  ASSUME IInv, NEW q \in Proc, Busy(q), ~Dangles(q), NEW t \in {tgt[q], Own(q)},
         state[q] = "LIVE" \/ t = tgt[q], NEW va \in Va
  PROVE  PTE(t, va) \in Slot \ Dangling
<1>1. t \in Space /\ Own(q)[1] = q
  BY OwnIn, Types
<1>2. ASSUME NEW r \in Proc, Dangles(r), PTE(t, va) = Hole(r) PROVE FALSE
  <2>1. Busy(r) /\ tgt[r] \in Space /\ cur[r] \in Int /\ va \in Int
    BY <1>2, Types, Ints DEF Dangles, Busy
  <2>2. tgt[r] = t
    BY <1>1, <1>2, <2>1, Slots DEF Hole
  <2>3. r = q
    BY <1>1, <2>1, <2>2, Types DEF ThreadsApart
  <2>4. QED
    BY <1>2, <2>3
<1>3. QED
  BY <1>1, <1>2, DanglingIff, SlotIn

\* Another path finds what it has written.
LEMMA OtherPaths ==
  ASSUME IInv, Struct, CInv, FInv, NEW p \in Proc, Busy(p), RefLocal(p), FlagsLocal(p),
         NEW ts, Touches(ts), \A t \in ts : OwnSlot(p, t),
         NEW q \in Proc \ {p, tgt[p][1]}, ThreadSame(q), ProcSame(q),
         Drafts(q)
  PROVE  Drafts(q)'
<1>1. Own(q)' = Own(q) /\ Other(q)' = Other(q)
  BY DEF ThreadSame, ProcSame, Own, Other
<1>2. CASE ~Busy(q) \/ Dangles(q)
  BY <1>1, <1>2 DEF Busy, Dangles, ThreadSame, ProcSame, Drafts, Copied, Written, Built, GrowPcs
<1>3. CASE Busy(q) /\ ~Dangles(q)
  <2>1. /\ tgt[q] \in Space /\ Own(q) \in Space /\ Own(q)[1] = q /\ Keep(q) /\ Keep(tgt[q][1])
        /\ tgt[q][1] \notin {p, tgt[p][1]} /\ tgt[q][1] \in Proc
    BY <1>3, OwnIn, RefLocalKeeps, Apart, Types
  <2>2. ASSUME NEW t \in {tgt[q], Own(q)}, NEW va \in Va
        PROVE  /\ ref'[PTE(t, va)] = ref[PTE(t, va)]
               /\ perm'[t][va] = perm[t][va]
               /\ (state[q] = "LIVE" \/ t = tgt[q]) /\ ref[PTE(t, va)] # None
                    => data'[ref[PTE(t, va)]] = data[ref[PTE(t, va)]]
    <3>1. PTE(t, va) \notin ts /\ ref'[PTE(t, va)] = ref[PTE(t, va)] /\ perm'[t] = perm[t]
      BY <2>1, NotOwn DEF Keep, KeepPte, FlagsLocal
    <3>2. QED
      BY <1>3, <3>1, PathClean, Untouched
  <2>3. Mem(q) \in Slot \ Dangling /\ Mem(q) \notin ts /\ ref'[Mem(q)] = ref[Mem(q)]
    <3>1. \A r \in Proc : Dangles(r) => Mem(q) # Hole(r)
      BY Slots, Types, Ints DEF Hole
    <3>2. QED
      BY <2>1, <3>1, NotOwn, DanglingIff, SlotIn DEF Keep, KeepMem
  <2>4. ref[Mem(q)] # None => data'[ref[Mem(q)]] = data[ref[Mem(q)]]
    BY <2>3, Untouched
  <2>5. Copied(q)'
    BY <1>1, <2>2, <2>3, Types DEF Drafts, Copied, ThreadSame, Label, ProcSame, Struct, Target
  <2>6. tgt'[q] = tgt[q] /\ \A a, b, x : Holds(tgt[q], a, b, x) => Holds(tgt[q], a, b, x)'
    BY <2>2 DEF Holds, ThreadSame
  <2>7. Fresh(tgt[q]) => Fresh(tgt[q])'
    BY <2>2, <2>6 DEF Fresh
  <2>8. pc[q] = "pf_free" =>
          /\ ref'[PTE(tgt[q], cur[q])] = ref[PTE(tgt[q], cur[q])]
          /\ data'[ref[PTE(tgt[q], cur[q])]] = data[ref[PTE(tgt[q], cur[q])]]
    BY <2>2, Types DEF Label, Hold
  <2>9. Written(q)'
    BY <2>3, <2>4, <2>6, <2>8, Types DEF Drafts, Written, ThreadSame, ProcSame, Hold
  <2>10. Built(q)'
    BY <1>1, <2>6, <2>7 DEF Drafts, Built, ThreadSame
  <2>11. QED
    BY <2>5, <2>9, <2>10 DEF Drafts
<1>4. QED
  BY <1>2, <1>3

-----------------------------------------------------------------------------
(* Steps that no process can see.                                          *)

Unseen == \A q \in Proc : View(q)' = View(q)

\* userinit's process is alone until it is live.
LEMMA FirstStep ==
  ASSUME IInv, Struct, \A q \in Proc : First(q), NEW p \in Proc, Busy(p),
         NEW np, np = tgt[p][1], \A q \in Proc \ {p, np} : ThreadSame(q) /\ ProcSame(q),
         np # p => pc'[np] \in {"idle", "user"}, state'[p] \in {state[p], "LIVE"}
  PROVE  \A q \in Proc : First(q)'
<1>1. state[p] \in {"EMBRYO", "LIVE"} /\ (state[p] = "EMBRYO" => np = p)
  BY BusyState, OwnIn, Types
<1>2. SUFFICES ASSUME NEW q \in Proc, Busy(q)', state'[q] = "EMBRYO"
               PROVE  \A r \in Proc \ {q} : state'[r] = "UNUSED"
  BY DEF First
<1>3. CASE q = p
  <2>1. np = p /\ First(p) /\ state[p] = "EMBRYO"
    BY <1>1, <1>2, <1>3
  <2>2. QED
    BY <1>3, <2>1 DEF First, ProcSame
<1>4. CASE q # p
  <2>1. q # np
    BY <1>2, <1>4 DEF Busy
  <2>2. Busy(q) /\ state[q] = "EMBRYO"
    BY <1>2, <1>4, <2>1 DEF ThreadSame, ProcSame, Busy
  <2>3. state[p] = "UNUSED"
    BY <1>4, <2>2 DEF First
  <2>4. QED
    BY <1>1, <2>3
<1>5. QED
  BY <1>3, <1>4

\* A step of p shows to nobody but p, whose work has to be looked at.
LEMMA OthersCalm ==
  ASSUME IInv, Struct, CInv, FInv, DInv, NEW p \in Proc, Busy(p), RefLocal(p), FlagsLocal(p),
         NEW ts, Touches(ts), \A t \in ts : OwnSlot(p, t),
         NEW np, np = tgt[p][1], \A q \in Proc \ {p, np} : ThreadSame(q) /\ ProcSame(q),
         np # p => pc'[np] \in {"idle", "user"}, state'[p] \in {state[p], "LIVE"}, Drafts(p)'
  PROVE  DInv' /\ \A q \in Proc \ {p, np} : View(q)' = View(q)
<1>1. \A q \in Proc : First(q)'
  BY FirstStep DEF DInv
<1>2. ASSUME NEW q \in Proc \ {p, np} PROVE View(q)' = View(q) /\ Drafts(q)'
  BY <1>2, OtherViews, OtherPaths DEF DInv
<1>3. ASSUME np # p, np \in Proc PROVE Drafts(np)'
  BY <1>3 DEF Drafts, Copied, Written, Built, GrowPcs
<1>4. QED
  BY <1>1, <1>2, <1>3 DEF DInv

\* p sees the same.
LEMMA MyView ==
  ASSUME IInv, Struct, CInv, FInv, NEW p \in Proc, ProcSame(p), ViewSz(p)' = ViewSz(p),
         pc[p] # "pf_map", pc'[p] # "pf_map", NEW ts, Touches(ts),
         \A va \in Va : state[p] = "LIVE" /\ va < ViewSz(p) =>
            ref'[PTE(Own(p), va)] = ref[PTE(Own(p), va)] /\ PTE(Own(p), va) \notin ts
  PROVE  View(p)' = View(p)
<1>1. ASSUME NEW va \in Va, state[p] = "LIVE", va < ViewSz(p)
      PROVE  data'[ViewPage(p, va)'] = data[ViewPage(p, va)]
  <2>1. /\ PTE(Own(p), va) \in Slot \ Dangling /\ ref[PTE(Own(p), va)] # None
        /\ ViewPage(p, va) = ref[PTE(Own(p), va)]
    BY <1>1, ViewClean DEF ViewSlot
  <2>2. ViewPage(p, va)' = ref[PTE(Own(p), va)]
    BY <1>1 DEF ViewPage, ProcSame, Own
  <2>3. QED
    BY <1>1, <2>1, <2>2, Untouched
<1>2. QED
  BY <1>1, SameView DEF ProcSame

LEMMA QuietStep ==
  ASSUME IInv, Struct, CInv, FInv, DInv, NEW p \in Proc, Busy(p), RefLocal(p), FlagsLocal(p),
         NEW ts, Touches(ts), \A t \in ts : OwnSlot(p, t),
         \A q \in Proc \ {p} : ThreadSame(q),
         \A q \in Proc : q # tgt[p][1] \/ q = p => ProcSame(q),
         tgt[p][1] # p => state'[tgt[p][1]] # "LIVE",
         ViewSz(p)' = ViewSz(p), pc[p] # "pf_map", pc'[p] # "pf_map",
         \A va \in Va : state[p] = "LIVE" /\ va < ViewSz(p) =>
            ref'[PTE(Own(p), va)] = ref[PTE(Own(p), va)] /\ PTE(Own(p), va) \notin ts,
         Drafts(p)'
  PROVE  DInv' /\ Unseen
<1>1. View(p)' = View(p)
  BY MyView
<1>2. ASSUME NEW np, np = tgt[p][1]
      PROVE  DInv' /\ \A q \in Proc \ {p, np} : View(q)' = View(q)
  <2>1. \A q \in Proc \ {p, np} : ThreadSame(q) /\ ProcSame(q)
    BY <1>2
  <2>2. np # p => pc'[np] \in {"idle", "user"}
    BY <1>2, Types DEF ThreadsApart, ThreadSame
  <2>3. QED
    BY <1>2, <2>1, <2>2, OthersCalm DEF ProcSame
<1>3. ASSUME NEW np, np = tgt[p][1], np # p PROVE View(np)' = View(np)
  <2>1. state[np] # "LIVE" /\ state'[np] # "LIVE"
    BY <1>3, Types DEF ThreadsApart
  <2>2. QED
    BY <2>1 DEF View
<1>4. ASSUME NEW np, np = tgt[p][1] PROVE DInv' /\ Unseen
  BY <1>1, <1>2, <1>3, <1>4 DEF Unseen
<1>5. QED
  BY <1>4

LEMMA StillSeen == ASSUME DInv, UNCHANGED <<mm, pt, kt>> PROVE DInv' /\ Unseen
<1>1. UNCHANGED <<ref, perm, data, state, sz, side, pc, tgt, cur, lo, hi, ret>>
  BY DEF mm, pt, kt, loc
<1>2. \A q \in Proc : Copied(q)' /\ Built(q)' /\ First(q)'
  BY <1>1 DEF DInv, Drafts, Copied, Built, First, Holds, Fresh, Own, Other, Busy
<1>3. \A q \in Proc : Written(q)'
  BY <1>1 DEF DInv, Drafts, Written, Holds
<1>4. Unseen
  BY <1>1 DEF Unseen, View, ViewSz, ViewPage, Own
<1>5. QED
  BY <1>2, <1>3, <1>4 DEF DInv, Drafts
LEMMA PanicSeen == ASSUME DInv, NEW m, Panic(m) PROVE DInv' /\ Unseen
BY StillSeen DEF Panic
LEMMA KfreePanicSeen == ASSUME DInv, NEW s, KfreePanic(s) PROVE DInv' /\ Unseen
BY PanicSeen DEF KfreePanic
LEMMA RemapSeen == ASSUME DInv, NEW s, NEW va, Remap(s, va) PROVE DInv' /\ Unseen
BY PanicSeen DEF Remap

\* Outside allocuvm and deallocuvm p sees p->sz pages.
LEMMA SameSz ==
  ASSUME FInv, NEW p \in Proc, pc[p] \notin GrowPcs, sz'[p] = sz[p],
         ret'[p] = ret[p] \/ ret'[p] # "g_done"
  PROVE  ViewSz(p)' = ViewSz(p)
BY CalmView DEF ViewSz

LEMMA CalmQuiet ==
  ASSUME IInv, Struct, CInv, FInv, DInv, NEW p \in Proc, Busy(p), OffPte(p),
         UNCHANGED <<perm, sz, side>>, NEW ts, Touches(ts),
         \A t \in ts : OwnSlot(p, t) /\ \A va \in Va : t # PTE(Own(p), va),
         \A q \in Proc \ {p} : ThreadSame(q),
         \A q \in Proc : q # tgt[p][1] \/ q = p => state'[q] = state[q],
         tgt[p][1] # p => state'[tgt[p][1]] # "LIVE",
         ViewSz(p)' = ViewSz(p), pc[p] # "pf_map", pc'[p] # "pf_map", Drafts(p)'
  PROVE  DInv' /\ Unseen
<1>1. RefLocal(p) /\ KeepPte(Own(p))
  BY OffPteStill, OwnIn, Types
<1>2. QED
  BY <1>1, QuietStep DEF KeepPte, FlagsLocal, ProcSame

\* A jump outside allocuvm and deallocuvm, with nothing stored.
LEMMA JumpQuiet ==
  ASSUME IInv, Struct, CInv, FInv, DInv, NEW p \in Proc, Busy(p), OffPte(p),
         UNCHANGED <<perm, sz, side>>, NEW ts, Touches(ts),
         \A t \in ts : OwnSlot(p, t) /\ \A va \in Va : t # PTE(Own(p), va),
         NEW l \in Pcs, Jump(p, l),
         \A q \in Proc : q # tgt[p][1] \/ q = p => state'[q] = state[q],
         tgt[p][1] # p => state'[tgt[p][1]] # "LIVE",
         pc[p] \notin GrowPcs, pc[p] # "pf_map", l # "pf_map", Drafts(p)'
  PROVE  DInv' /\ Unseen
<1>1. (\A q \in Proc \ {p} : ThreadSame(q)) /\ pc'[p] = l
  BY JumpBounds, Types
<1>2. ret'[p] = ret[p] \/ ret'[p] # "g_done"
  BY Types DEF Jump, ThreadOK, loc
<1>3. QED
  BY <1>1, <1>2, SameSz, CalmQuiet

\* At most labels nothing has been written yet.
PlainPcs == {"user", "idle", "b_kstack", "b_uvm", "f_kstack", "f_unref", "f_fail", "dv_clear",
             "fv_tab", "w_kstack", "w_done", "x_bad", "pf_alloc", "pf_copy", "pf_map", "a_free"}
LEMMA PlainDrafts ==
  ASSUME NEW p \in Proc, pc'[p] \in PlainPcs, pc'[p] = "dv_clear" => ret'[p] # "g_done"
  PROVE  Drafts(p)'
BY DEF PlainPcs, Drafts, Copied, Written, Built, GrowPcs

-----------------------------------------------------------------------------
(* The page fault handler.                                                 *)

LEMMA FaultFacts ==
  ASSUME IInv, NEW p \in Proc, pc[p] \in FaultPcs
  PROVE  /\ Busy(p) /\ tgt[p] = Own(p) /\ tgt[p] \in Space /\ tgt[p][1] = p /\ cur[p] \in Va
         /\ PTE(tgt[p], cur[p]) \in Slot /\ OwnSlot(p, PTE(tgt[p], cur[p]))
         /\ ref[PTE(tgt[p], cur[p])] # None
         /\ Mem(p) \in Slot /\ OwnSlot(p, Mem(p)) /\ Mem(p) # PTE(tgt[p], cur[p])
         /\ pc[p] # "pf_alloc" => ref[Mem(p)] # None
BY Types, OwnIn, SlotIn, Slots, Ints DEF FaultPcs, Busy, Label, Hold, OwnSlot

LEMMA FaultAllocSeen ==
  ASSUME IInv, Struct, CInv, FInv, DInv, NEW p \in Proc, FaultAlloc(p) PROVE DInv' /\ Unseen
<1>1. CASE freelist = {} /\ Panic("pagefault out of memory")
  BY <1>1, PanicSeen
<1>2. ASSUME NEW pg \in freelist, ref' = [ref EXCEPT ![Mem(p)] = pg], Jump(p, "pf_copy"),
             UNCHANGED <<perm, data, pt, tlb, panicked>>
      PROVE  DInv' /\ Unseen
  <2>1. pc[p] = "pf_alloc" /\ "pf_copy" \in Pcs /\ pc'[p] = "pf_copy"
    BY <1>2, JumpBounds, Types DEF FaultAlloc, At, Pcs
  <2>2. Busy(p) /\ OffPte(p) /\ tgt[p][1] = p /\ Drafts(p)'
    BY <1>2, <2>1, FaultFacts, PlainDrafts DEF FaultPcs, PlainPcs, OffPte
  <2>3. Touches({})
    BY <1>2, NoTouch
  <2>4. QED
    BY <1>2, <2>1, <2>2, <2>3, JumpQuiet DEF pt, GrowPcs
<1>3. QED
  BY <1>1, <1>2 DEF FaultAlloc

LEMMA FaultCopySeen ==
  ASSUME IInv, Struct, CInv, FInv, DInv, NEW p \in Proc, FaultCopy(p) PROVE DInv' /\ Unseen
<1>1. /\ pc[p] = "pf_copy" /\ "pf_free" \in Pcs /\ Jump(p, "pf_free") /\ UNCHANGED <<ref, perm, pt>>
      /\ data' = [data EXCEPT ![ref[Mem(p)]] = data[ref[PTE(tgt[p], cur[p])]]]
  BY DEF FaultCopy, At, Pcs
<1>2. pc'[p] = "pf_free" /\ UNCHANGED <<tgt, cur, lo, hi, ret>>
  BY <1>1, JumpBounds, Types
<1>3. /\ Busy(p) /\ tgt[p] = Own(p) /\ tgt[p] \in Space /\ tgt[p][1] = p /\ cur[p] \in Va
      /\ PTE(tgt[p], cur[p]) \in Slot /\ OwnSlot(p, PTE(tgt[p], cur[p]))
      /\ ref[PTE(tgt[p], cur[p])] # None
      /\ Mem(p) \in Slot /\ OwnSlot(p, Mem(p)) /\ Mem(p) # PTE(tgt[p], cur[p])
      /\ ref[Mem(p)] # None
  BY <1>1, FaultFacts DEF FaultPcs
<1>4. Mem(p) \in Exclusive
  BY <1>1, AloneIff DEF Exclusive, FreshPcs
<1>5. Mem(p) \notin Dangling /\ PTE(tgt[p], cur[p]) \notin Dangling
  BY <1>1, <1>3, OwnCounts DEF Dangles
<1>6. Touches({Mem(p)})
  BY <1>1, <1>3, <1>4, <1>5, StoreTouches
<1>7. data'[ref[PTE(tgt[p], cur[p])]] = data[ref[PTE(tgt[p], cur[p])]]
  BY <1>3, <1>5, <1>6, Untouched
<1>8. data'[ref[Mem(p)]] = data[ref[PTE(tgt[p], cur[p])]]
  BY <1>1, <1>3, Types DEF MemOK
<1>9. Drafts(p)'
  BY <1>1, <1>2, <1>7, <1>8 DEF Drafts, Copied, Written, Built, GrowPcs
<1>10. \A va \in Va : Mem(p) # PTE(Own(p), va)
  BY <1>3, Slots, Ints
<1>11. QED
  BY <1>1, <1>3, <1>6, <1>9, <1>10, JumpQuiet DEF pt, GrowPcs, OffPte


\* The handler's copy has the contents of the page that it replaces.
LEMMA FaultFreeSeen ==
  ASSUME IInv, Struct, CInv, FInv, DInv, NEW p \in Proc, FaultFree(p) PROVE DInv' /\ Unseen
<1>1. CASE KfreePanic(PTE(tgt[p], cur[p]))
  BY <1>1, KfreePanicSeen
<1>2. CASE /\ KfreeSlot(PTE(tgt[p], cur[p]), FALSE) /\ Jump(p, "pf_map")
           /\ UNCHANGED <<perm, pt, tlb, panicked>>
  <2>1. pc[p] = "pf_free" /\ "pf_map" \in Pcs /\ UNCHANGED <<ref, state, sz, side>>
    BY <1>2 DEF FaultFree, At, Pcs, KfreeSlot, pt
  <2>2. (\A q \in Proc \ {p} : ThreadSame(q)) /\ pc'[p] = "pf_map" /\ UNCHANGED <<tgt, cur, lo, hi, ret>>
    BY <1>2, <2>1, JumpBounds, Types
  <2>3. /\ Busy(p) /\ tgt[p] = Own(p) /\ tgt[p] \in Space /\ tgt[p][1] = p /\ cur[p] \in Va
        /\ PTE(tgt[p], cur[p]) \in Slot /\ OwnSlot(p, PTE(tgt[p], cur[p]))
        /\ Mem(p) \in Slot /\ OwnSlot(p, Mem(p)) /\ Mem(p) # PTE(tgt[p], cur[p])
        /\ ref[Mem(p)] # None /\ ~Dangles(p)
    BY <2>1, FaultFacts DEF FaultPcs, Dangles
  <2>4. Touches({PTE(tgt[p], cur[p])})
    BY <1>2, <2>3, OwnKfreeTouches
  <2>5. RefLocal(p) /\ FlagsLocal(p) /\ Drafts(p)'
    BY <1>2, <2>1, <2>2, RefSame, PlainDrafts DEF FlagsLocal, PlainPcs
  <2>6. ASSUME NEW np, np = tgt[p][1] PROVE DInv' /\ \A q \in Proc \ {p, np} : View(q)' = View(q)
    BY <2>1, <2>2, <2>3, <2>4, <2>5, <2>6, OthersCalm DEF ProcSame
  <2>7. data'[ref[Mem(p)]] = data[ref[PTE(tgt[p], cur[p])]]
    <3>1. data'[ref[Mem(p)]] = data[ref[Mem(p)]]
      BY <2>3, <2>4, OwnCounts, Untouched
    <3>2. QED
      BY <2>1, <3>1 DEF DInv, Drafts, Written
  <2>8. ViewSz(p)' = ViewSz(p)
    BY <2>1, <2>2 DEF ViewSz
  <2>9. ASSUME NEW va \in Va, state[p] = "LIVE", va < ViewSz(p)
        PROVE  data'[ViewPage(p, va)'] = data[ViewPage(p, va)]
    <3>1. /\ PTE(Own(p), va) \in Slot \ Dangling /\ ref[PTE(Own(p), va)] # None
          /\ ViewPage(p, va) = ref[PTE(Own(p), va)]
      BY <2>1, <2>9, ViewClean DEF ViewSlot
    <3>2. ViewPage(p, va)' = IF cur[p] = va THEN ref[Mem(p)] ELSE ref[PTE(Own(p), va)]
      BY <2>1, <2>2 DEF ViewPage, Own
    <3>3. CASE cur[p] = va
      BY <2>3, <2>7, <3>1, <3>2, <3>3
    <3>4. CASE cur[p] # va
      <4>1. PTE(Own(p), va) # PTE(tgt[p], cur[p])
        BY <2>3, <3>4, Slots, Ints
      <4>2. QED
        BY <2>4, <3>1, <3>2, <3>4, <4>1, Untouched
    <3>5. QED
      BY <3>3, <3>4
  <2>10. View(p)' = View(p)
    BY <2>1, <2>8, <2>9, SameView
  <2>11. ASSUME NEW np, np = tgt[p][1] PROVE DInv' /\ Unseen
    BY <2>3, <2>6, <2>10, <2>11 DEF Unseen
  <2>12. QED
    BY <2>11
<1>3. QED
  BY <1>1, <1>2 DEF FaultFree

LEMMA FaultMapSeen ==
  ASSUME IInv, Struct, CInv, FInv, DInv, NEW p \in Proc, FaultMap(p) PROVE DInv' /\ Unseen
<1>1. /\ pc[p] = "pf_map" /\ Jump(p, "user") /\ UNCHANGED pt /\ "user" \in Pcs /\ UNCHANGED data
      /\ ref' = [ref EXCEPT ![PTE(tgt[p], cur[p])] = ref[Mem(p)], ![Mem(p)] = None]
      /\ perm' = [perm EXCEPT ![tgt[p]][cur[p]] = {"W", "U"}]
  BY DEF FaultMap, At, Pcs
<1>2. (\A q \in Proc \ {p} : ThreadSame(q)) /\ pc'[p] = "user" /\ ret'[p] = "idle"
  BY <1>1, JumpBounds, Types DEF Jump, ThreadOK
<1>3. /\ Busy(p) /\ tgt[p] = Own(p) /\ tgt[p] \in Space /\ tgt[p][1] = p /\ cur[p] \in Va
      /\ PTE(tgt[p], cur[p]) \in Slot
      /\ Mem(p) \in Slot /\ Mem(p) # PTE(tgt[p], cur[p])
  BY <1>1, FaultFacts DEF FaultPcs
<1>4. RefLocal(p) /\ FlagsLocal(p) /\ Drafts(p)' /\ Touches({})
  BY <1>1, <1>2, <1>3, SlotIn, Types, Ints, PlainDrafts, NoTouch
     DEF RefLocal, OwnSlot, MemOK, FlagsLocal, PlainPcs
<1>5. ASSUME NEW np, np = tgt[p][1] PROVE DInv' /\ \A q \in Proc \ {p, np} : View(q)' = View(q)
  BY <1>1, <1>2, <1>3, <1>4, <1>5, OthersCalm DEF ProcSame, pt
<1>6. state'[p] = state[p] /\ ViewSz(p)' = ViewSz(p)
  BY <1>1, <1>2, SameSz DEF pt, GrowPcs
<1>7. ASSUME NEW va \in Va PROVE ViewPage(p, va)' = ViewPage(p, va)
  <2>1. ViewPage(p, va)' = ref'[PTE(Own(p), va)]
    BY <1>1, <1>2 DEF ViewPage, Own, pt
  <2>2. cur[p] # va => PTE(Own(p), va) # PTE(tgt[p], cur[p])
    BY DEF PTE
  <2>3. PTE(Own(p), va) # Mem(p) /\ PTE(Own(p), va) \in Slot
    BY <1>3, Slots, SlotIn, Ints
  <2>4. QED
    BY <1>1, <1>3, <2>1, <2>2, <2>3, Types DEF ViewPage, MemOK
<1>8. View(p)' = View(p)
  BY <1>1, <1>6, <1>7, SameView
<1>9. ASSUME NEW np, np = tgt[p][1] PROVE DInv' /\ Unseen
  BY <1>3, <1>5, <1>8, <1>9 DEF Unseen
<1>10. QED
  BY <1>9

LEMMA FaultSeen ==
  ASSUME IInv, Struct, CInv, FInv, DInv, NEW p \in Proc, Fault(p) PROVE DInv' /\ Unseen
BY FaultAllocSeen, FaultCopySeen, FaultFreeSeen, FaultMapSeen DEF Fault

-----------------------------------------------------------------------------
(* setupkvm and userinit.                                                  *)

\* The process that p works for, if it is another, does not live.
LEMMA AwayDead ==
  ASSUME IInv, NEW p \in Proc, Busy(p), tgt[p][1] # p PROVE state[tgt[p][1]] # "LIVE"
BY Types DEF ThreadsApart

\* kfree of mem, a kernel stack or a table of the page directory, or kalloc.
QuietTouch(p, ts) ==
  /\ Touches(ts) /\ OffPte(p) /\ UNCHANGED perm
  /\ \A t \in ts : OwnSlot(p, t) /\ \A va \in Va : t # PTE(Own(p), va)

LEMMA NothingTouched ==
  ASSUME NEW p \in Proc, OffPte(p), UNCHANGED <<perm, data>> PROVE QuietTouch(p, {})
BY NoTouch DEF QuietTouch

LEMMA FreevmQuiet ==
  ASSUME IInv, Struct, CInv, FInv, DInv, NEW p \in Proc, Busy(p), pc[p] \notin GrowPcs,
         pc[p] # "pf_map", NEW ts, QuietTouch(p, ts), UNCHANGED pt, StartFreevm(p, tgt[p])
  PROVE  DInv' /\ Unseen
<1>1. (\A q \in Proc \ {p} : ThreadSame(q)) /\ pc'[p] = "dv" /\ ret'[p] = "fv_tab"
  BY StartDeallocSame, Types DEF StartFreevm
<1>2. ViewSz(p)' = ViewSz(p)
  BY <1>1, SameSz DEF pt
<1>3. Drafts(p)'
  BY <1>1 DEF Drafts, Copied, Written, Built, GrowPcs
<1>4. QED
  BY <1>1, <1>2, <1>3, AwayDead, CalmQuiet DEF pt, QuietTouch

\* The cursor moves on.
LEMMA WorkQuiet ==
  ASSUME IInv, Struct, CInv, FInv, DInv, NEW p \in Proc, Busy(p), pc[p] \notin GrowPcs,
         pc[p] # "pf_map", NEW ts, QuietTouch(p, ts), UNCHANGED <<pt, tgt, lo, hi, ret>>,
         NEW n, cur' = [cur EXCEPT ![p] = n], NEW l, UNCHANGED pc \/ Goto(p, l),
         pc'[p] # "pf_map", Drafts(p)'
  PROVE  DInv' /\ Unseen
<1>1. \A q \in Proc \ {p} : ThreadSame(q)
  BY Types DEF ThreadSame, Goto, ThreadOK
<1>2. ViewSz(p)' = ViewSz(p)
  BY SameSz DEF pt
<1>3. QED
  BY <1>1, <1>2, AwayDead, CalmQuiet DEF pt, QuietTouch

LEMMA SetupPgdirSeen ==
  ASSUME IInv, Struct, CInv, FInv, DInv, NEW p \in Proc, SetupPgdir(p) PROVE DInv' /\ Unseen
<1>1. CASE Panic("userinit")
  BY <1>1, PanicSeen
<1>2. /\ pc[p] = "s_pgdir" /\ Busy(p) /\ pc[p] \notin GrowPcs /\ pc[p] # "pf_map"
      /\ {"user", "f_fail"} \subseteq Pcs
  BY DEF SetupPgdir, At, Busy, GrowPcs, Pcs
<1>3. ASSUME OffPte(p), UNCHANGED <<perm, data, pt, tgt, lo, hi, ret>>,
             cur' = [cur EXCEPT ![p] = NVa], Goto(p, "s_kpde")
      PROVE  DInv' /\ Unseen
  <2>1. pc'[p] = "s_kpde" /\ Other(p)' = Other(p)
    BY <1>3, Types DEF Goto, ThreadOK, Other, pt
  <2>2. Drafts(p)'
    BY <1>2, <1>3, <2>1 DEF DInv, Drafts, Copied, Written, Built, GrowPcs
  <2>3. QED
    BY <1>2, <1>3, <2>1, <2>2, NothingTouched, WorkQuiet
<1>4. ASSUME NEW l \in {"user", "f_fail"}, Jump(p, l), UNCHANGED <<mm, pt>>
      PROVE  DInv' /\ Unseen
  <2>1. QuietTouch(p, {}) /\ pc'[p] = l
    BY <1>2, <1>4, NothingTouched, JumpBounds, Types DEF OffPte, mm
  <2>2. Drafts(p)'
    BY <2>1, PlainDrafts DEF PlainPcs
  <2>3. QED
    BY <1>2, <1>4, <2>1, <2>2, AwayDead, JumpQuiet DEF pt, QuietTouch
<1>5. QED
  <2>1. \/ Panic("userinit")
        \/ /\ OffPte(p) /\ UNCHANGED <<perm, data, pt, tgt, lo, hi, ret>>
           /\ cur' = [cur EXCEPT ![p] = NVa] /\ Goto(p, "s_kpde")
        \/ (\E l \in {"user", "f_fail"} : Jump(p, l)) /\ UNCHANGED <<mm, pt>>
    BY DEF SetupPgdir, OffPte
  <2>2. QED
    BY <1>1, <1>3, <1>4, <2>1

LEMMA SetupKpdeSeen ==
  ASSUME IInv, Struct, CInv, FInv, DInv, NEW p \in Proc, SetupKpde(p) PROVE DInv' /\ Unseen
<1>1. CASE Panic("userinit")
  BY <1>1, PanicSeen
<1>2. /\ pc[p] = "s_kpde" /\ Busy(p) /\ pc[p] \notin GrowPcs /\ pc[p] # "pf_map"
      /\ cur[p] \in Pde /\ Unmapped(tgt[p], 0) /\ tgt[p] \in Space
  BY Ints, Types DEF SetupKpde, At, Busy, GrowPcs, Struct, TargetSlots
<1>3. ASSUME OffPte(p), UNCHANGED <<perm, data, pt, tgt, lo, hi, ret>>, NEW n,
             cur' = [cur EXCEPT ![p] = n],
             UNCHANGED pc \/ (Goto(p, AfterSetup(p)) /\ n = 0)
      PROVE  DInv' /\ Unseen
  <2>1. Other(p)' = Other(p) /\ cur'[p] = n /\ UNCHANGED <<tgt, lo, hi, ret>>
    BY <1>3, Types DEF Other, pt, ThreadOK
  <2>2. CASE UNCHANGED pc
    <3>1. Drafts(p)'
      BY <1>2, <2>1, <2>2 DEF DInv, Drafts, Copied, Written, Built, GrowPcs
    <3>2. QED
      BY <1>2, <1>3, <2>2, <3>1, NothingTouched, WorkQuiet
  <2>3. CASE Goto(p, AfterSetup(p)) /\ n = 0
    <3>1. pc'[p] = AfterSetup(p) /\ AfterSetup(p) \in {"b_uvm", "a_alloc", "f_copy"}
      BY <2>3, Types DEF Goto, ThreadOK, AfterSetup
    <3>2. KeepPte(tgt[p])
      BY <1>2, <1>3, OffPteStill
    <3>3. \A va \in Va : ref'[PTE(tgt[p], va)] = None
      BY <1>2, <3>2, SizeAssumption DEF Unmapped, KeepPte, Va
    <3>4. Fresh(tgt[p])' /\ Holds(tgt[p], lo[p], cur[p], "zero")'
      BY <2>1, <3>3 DEF Fresh, Holds
    <3>5. CASE AfterSetup(p) = "a_alloc"
      <4>1. tgt[p] = Other(p) /\ ret[p] = "x_load"
        <5>1. tgt[p][1] = p /\ state[p] # "EMBRYO"
          BY <3>5 DEF AfterSetup
        <5>2. tgt[p] # Own(p) /\ ret[p] = "x_load"
          BY <1>2, <5>1, Types DEF Label, Struct, Target
        <5>3. QED
          BY <1>2, <5>1, <5>2, TwoSpaces
      <4>2. lo[p] = 0 /\ hi[p] >= 1
        BY <1>2, <4>1 DEF DInv, Drafts, Built
      <4>3. lo'[p] <= cur'[p]
        BY <2>1, <2>3, <4>2
      <4>4. Drafts(p)'
        BY <2>1, <3>1, <3>4, <3>5, <4>1, <4>2, <4>3
           DEF Drafts, Copied, Written, Built, GrowPcs
      <4>5. QED
        BY <1>2, <1>3, <2>3, <3>1, <4>4, NothingTouched, WorkQuiet
    <3>6. CASE AfterSetup(p) # "a_alloc"
      <4>1. \A va \in Va : ~(va < 0)
        BY SizeAssumption DEF Va
      <4>2. Drafts(p)'
        BY <2>1, <2>3, <3>1, <3>6, <4>1 DEF Drafts, Copied, Written, Built, GrowPcs
      <4>3. QED
        BY <1>2, <1>3, <2>3, <3>1, <4>2, NothingTouched, WorkQuiet
    <3>7. QED
      BY <3>5, <3>6
  <2>4. QED
    BY <1>3, <2>2, <2>3
<1>4. ASSUME StartFreevm(p, tgt[p]), UNCHANGED <<mm, pt>> PROVE DInv' /\ Unseen
  <2>1. QuietTouch(p, {})
    BY <1>4, NothingTouched DEF OffPte, mm
  <2>2. QED
    BY <1>2, <1>4, <2>1, FreevmQuiet
<1>5. QED
  <2>1. \/ Panic("userinit")
        \/ /\ OffPte(p) /\ UNCHANGED <<perm, data, pt, tgt, lo, hi, ret>>
           /\ \E n : /\ cur' = [cur EXCEPT ![p] = n]
                     /\ UNCHANGED pc \/ (Goto(p, AfterSetup(p)) /\ n = 0)
        \/ StartFreevm(p, tgt[p]) /\ UNCHANGED <<mm, pt>>
    BY <1>2 DEF SetupKpde, OffPte
  <2>2. QED
    BY <1>1, <1>3, <1>4, <2>1

\* The step changes what p sees, and nothing else.
OnlyView(p) == \A q \in Proc \ {p} : View(q)' = View(q)

\* Nobody sees the step, or it is one that PrivateMem allows.
Shown == Unseen \/ Private!Next

LEMMA ViewAlive ==
  ASSUME IInv, Struct, FInv, NEW q \in Proc
  PROVE  /\ state[q] = "LIVE" => View(q) # None /\ DOMAIN View(q) = 0 .. ViewSz(q) - 1
         /\ state[q] # "LIVE" => View(q) = None
<1>1. CASE state[q] # "LIVE"
  BY <1>1 DEF View
<1>2. CASE state[q] = "LIVE"
  <2>1. \A va \in 0 .. ViewSz(q) - 1 : data[ViewPage(q, va)] \in Data
    <3>1. TAKE va \in 0 .. ViewSz(q) - 1
    <3>2. va \in Va /\ va < ViewSz(q)
      BY ViewRange
    <3>3. ViewPage(q, va) \in Page
      BY <1>2, <3>2, ViewClean, Types DEF MemOK
    <3>4. QED
      BY <3>3, Types DEF MemOK
  <2>2. View(q) \in [0 .. ViewSz(q) - 1 -> Data]
    BY <1>2, <2>1 DEF View
  <2>3. ViewSz(q) \in 0 .. NVa
    BY Types DEF ViewSz, ProcOK, ThreadOK
  <2>4. QED
    BY <1>2, <2>2, <2>3, NoMemoryAssumption
<1>3. QED
  BY <1>1, <1>2

\* From what a step shows to the step of PrivateMem.
Views == [q \in Proc |-> View(q)]

LEMMA ViewsSet ==
  ASSUME NEW p \in Proc, OnlyView(p), NEW x, View(p)' = x
  PROVE  Views' = [Views EXCEPT ![p] = x]
<1>1. Views' = [q \in Proc |-> View(q)']
  BY DEF Views
<1>2. \A q \in Proc : View(q)' = IF q = p THEN x ELSE View(q)
  BY DEF OnlyView
<1>3. Views' = [q \in Proc |-> IF q = p THEN x ELSE View(q)]
  BY <1>1, <1>2
<1>4. QED
  BY <1>3 DEF Views

LEMMA ToWrite ==
  ASSUME NEW p \in Proc, View(p) # None, OnlyView(p), NEW i \in DOMAIN View(p), NEW v \in Val,
         View(p)' = [View(p) EXCEPT ![i] = v]
  PROVE  Private!Next
<1>1. Views' = [Views EXCEPT ![p] = [View(p) EXCEPT ![i] = v]]
  BY ViewsSet
<1>2. \A q \in Proc : Views[q] = View(q)
  BY DEF Views
<1>3. Private!Write(p)
  BY <1>1, <1>2 DEF Private!Write, Private!Alive, Views
<1>4. QED
  BY <1>3 DEF Private!Next

LEMMA ToFork ==
  ASSUME NEW p \in Proc, View(p) # None, NEW c \in Proc, View(c) = None, OnlyView(c), View(c)' = View(p)
  PROVE  Private!Next
<1>1. Views' = [Views EXCEPT ![c] = View(p)]
  BY ViewsSet
<1>2. \A q \in Proc : Views[q] = View(q)
  BY DEF Views
<1>3. Private!Fork(p)
  BY <1>1, <1>2 DEF Private!Fork, Private!Alive, Views
<1>4. QED
  BY <1>3 DEF Private!Next

LEMMA ToResize ==
  ASSUME NEW p \in Proc, View(p) # None, OnlyView(p), NEW n \in 1 .. NVa - 1,
         View(p)' = [i \in 0 .. n - 1 |-> IF i \in DOMAIN View(p) THEN View(p)[i] ELSE "zero"]
  PROVE  Private!Next
<1>1. Views[p] = View(p)
  BY DEF Views
<1>2. View(p)' = [i \in 0 .. n - 1 |-> IF i \in DOMAIN Views[p] THEN Views[p][i] ELSE "zero"]
  BY <1>1
<1>3. Views' = [Views EXCEPT ![p] =
          [i \in 0 .. n - 1 |-> IF i \in DOMAIN Views[p] THEN Views[p][i] ELSE "zero"]]
  BY <1>2, ViewsSet
<1>4. Views[p] # None /\ \E k \in 1 .. NVa - 1 : Views' = [Views EXCEPT ![p] =
          [i \in 0 .. k - 1 |-> IF i \in DOMAIN Views[p] THEN Views[p][i] ELSE "zero"]]
  BY <1>1, <1>3
<1>5. Private!Resize(p)
  BY <1>4, Zenon DEF Private!Resize, Private!Alive, Views
<1>6. QED
  BY <1>5 DEF Private!Next

LEMMA ToExec ==
  ASSUME NEW p \in Proc, View(p) # None, OnlyView(p), NEW n \in 1 .. NVa - 3,
         View(p)' = [i \in 0 .. n + 1 |->
                       IF i < n THEN "img" ELSE IF i = n THEN "zero" ELSE "arg"]
  PROVE  Private!Next
<1>1. Views' = [Views EXCEPT ![p] = [i \in 0 .. n + 1 |->
                                      IF i < n THEN "img" ELSE IF i = n THEN "zero" ELSE "arg"]]
  BY ViewsSet
<1>2. \A q \in Proc : Views[q] = View(q)
  BY DEF Views
<1>3. Private!Exec(p)
  BY <1>1, <1>2 DEF Private!Exec, Private!Alive, Views
<1>4. QED
  BY <1>3 DEF Private!Next

LEMMA ToExit ==
  ASSUME NEW p \in Proc, View(p) # None, OnlyView(p), View(p)' = None
  PROVE  Private!Next
<1>1. Views' = [Views EXCEPT ![p] = None]
  BY ViewsSet
<1>2. \A q \in Proc : Views[q] = View(q)
  BY DEF Views
<1>3. Private!Exit(p)
  BY <1>1, <1>2 DEF Private!Exit, Private!Alive, Views
<1>4. QED
  BY <1>3 DEF Private!Next

LEMMA BootEarlySeen ==
  ASSUME IInv, Struct, CInv, FInv, DInv, NEW p \in Proc, BootKstack(p) \/ BootUvm(p)
  PROVE  DInv' /\ Unseen
<1>1. ASSUME NEW m, Panic(m) PROVE DInv' /\ Unseen
  BY <1>1, PanicSeen
<1>2. /\ Busy(p) /\ pc[p] \notin GrowPcs /\ pc[p] # "pf_map" /\ {"s_pgdir", "b_map"} \subseteq Pcs
      /\ tgt[p] \in Space /\ state[p] = "EMBRYO"
  BY Types DEF BootKstack, BootUvm, At, Busy, GrowPcs, Pcs, Label, Struct, Target
<1>3. tgt[p] = Own(p) /\ tgt[p][1] = p /\ Own(p) # Other(p)
  BY <1>2, BusyState, TwoSpaces
<1>4. ASSUME NEW pg \in freelist, ref' = [ref EXCEPT ![KStack(p)] = pg], Jump(p, "s_pgdir"),
             UNCHANGED <<perm, data, pt, tlb, panicked>>
      PROVE  DInv' /\ Unseen
  <2>1. QuietTouch(p, {}) /\ pc'[p] = "s_pgdir" /\ tgt'[p] # Other(p)'
    BY <1>2, <1>3, <1>4, NothingTouched, JumpBounds, Types DEF OffPte, Other, pt
  <2>2. Drafts(p)'
    BY <2>1 DEF Drafts, Copied, Written, Built, GrowPcs
  <2>3. QED
    BY <1>2, <1>4, <2>1, <2>2, AwayDead, JumpQuiet DEF pt, QuietTouch
<1>5. ASSUME NEW pg \in freelist, ref' = [ref EXCEPT ![Mem(p)] = pg],
             data' = [data EXCEPT ![pg] = "img"], Jump(p, "b_map"),
             UNCHANGED <<perm, pt, tlb, panicked>>
      PROVE  DInv' /\ Unseen
  <2>1. Touches({}) /\ OffPte(p)
    BY <1>5, FillTouches DEF OffPte
  <2>2. pc'[p] = "b_map" /\ data'[ref'[Mem(p)]] = "img"
    BY <1>2, <1>5, JumpBounds, SlotIn, Types DEF MemOK
  <2>3. Drafts(p)'
    BY <2>2 DEF Drafts, Copied, Written, Built, GrowPcs
  <2>4. QED
    BY <1>2, <1>5, <2>1, <2>2, <2>3, AwayDead, JumpQuiet DEF pt
<1>6. QED
  BY <1>1, <1>3, <1>4, <1>5 DEF BootKstack, BootUvm

\* The first process starts with one page of code.
LEMMA BootMapSeen ==
  ASSUME IInv, Struct, CInv, FInv, DInv, NEW p \in Proc, BootMap(p) PROVE DInv' /\ Shown
<1>1. ASSUME NEW m, Panic(m) \/ Remap(tgt[p], 0) PROVE DInv' /\ Shown
  BY <1>1, PanicSeen, RemapSeen DEF Shown
<1>2. CASE /\ Mappages(p, tgt[p], 0, {"W", "U"}) /\ state' = [state EXCEPT ![p] = "LIVE"]
           /\ sz' = [sz EXCEPT ![p] = 1] /\ Jump(p, "user") /\ UNCHANGED <<side, tlb>>
  <2>1. /\ pc[p] = "b_map" /\ Busy(p) /\ "user" \in Pcs /\ tgt[p] \in Space /\ 0 \in Va
        /\ state[p] = "EMBRYO" /\ tgt[p] = Own(p) /\ tgt[p][1] = p
    BY Types, OwnIn, Ints DEF BootMap, At, Busy, Pcs, Struct, Target
  <2>2. RefLocal(p) /\ FlagsLocal(p) /\ UNCHANGED data /\ ref'[PTE(tgt[p], 0)] = ref[Mem(p)]
    <3>1. RefLocal(p)
      BY <1>2, MappagesLocal
    <3>2. perm' = [perm EXCEPT ![tgt[p]][0] = {"W", "U"}] /\ UNCHANGED data
      BY <1>2 DEF Mappages
    <3>3. FlagsLocal(p)
      BY <2>1, <3>2, Types DEF FlagsLocal, MemOK
    <3>4. QED
      BY <1>2, <2>1, <3>1, <3>2, <3>3, MappagesSets, Types
  <2>3. /\ \A q \in Proc \ {p} : ThreadSame(q) /\ ProcSame(q)
        /\ pc'[p] = "user" /\ ret'[p] = "idle" /\ state'[p] = "LIVE" /\ sz'[p] = 1
        /\ Own(p)' = Own(p)
    BY <1>2, <2>1, JumpBounds, Types DEF ProcSame, ProcOK, Jump, ThreadOK, Own
  <2>4. Drafts(p)' /\ Touches({})
    BY <2>2, <2>3, PlainDrafts, NoTouch DEF PlainPcs
  <2>5. ASSUME NEW np, np = tgt[p][1] PROVE DInv' /\ OnlyView(p)
    BY <2>1, <2>2, <2>3, <2>4, <2>5, OthersCalm DEF OnlyView
  <2>6. \A q \in Proc : View(q) = None
    BY <2>1 DEF DInv, First, View
  <2>7. data'[ViewPage(p, 0)'] = "img" /\ ViewSz(p)' = 1
    BY <2>1, <2>2, <2>3 DEF ViewPage, ViewSz, DInv, Drafts, Written
  <2>8. View(p)' = [i \in 0 .. 0 |-> "img"]
    <3>1. \A i \in 0 .. 0 : i = 0
      OBVIOUS
    <3>2. View(p)' = [va \in 0 .. 0 |-> data'[ViewPage(p, va)']]
      BY <2>3, <2>7 DEF View
    <3>3. QED
      BY <2>7, <3>1, <3>2
  <2>9. Private!Start(p)
    BY <2>5, <2>6, <2>8 DEF Private!Start, Private!Alive, OnlyView
  <2>10. QED
    BY <2>5, <2>9 DEF Shown, Private!Next
<1>3. QED
  BY <1>1, <1>2 DEF BootMap

-----------------------------------------------------------------------------
(* fork.                                                                   *)

\* kfree of something that is not a user page.
LEMMA KfreeQuiet ==
  ASSUME IInv, CInv, NEW p \in Proc, Busy(p), ~Dangles(p), NEW s,
         \/ s \in {Mem(p), KStack(tgt[p][1]), PgDir(tgt[p])}
         \/ \E i \in Pde : s = PDE(tgt[p], i),
         KfreeSlot(s, TRUE), UNCHANGED perm
  PROVE  QuietTouch(p, {s})
<1>1. tgt[p] \in Space /\ tgt[p][1] \in Proc /\ Own(p) \in Space /\ Va \subseteq Int /\ Pde \subseteq Int
  BY Types, OwnIn, Ints
<1>2. s \in Slot /\ OffPte(p) /\ \A va \in Va : s # PTE(Own(p), va)
  <2>1. ref' = [ref EXCEPT ![s] = None]
    BY DEF KfreeSlot
  <2>2. OffPte(p)
    BY <2>1 DEF OffPte
  <2>3. s \in Slot
    BY <1>1, SlotIn
  <2>4. \A va \in Va : s # PTE(Own(p), va)
    BY <1>1, Slots
  <2>5. QED
    BY <2>2, <2>3, <2>4
<1>3. OwnSlot(p, s)
  <2>1. \A i \in Pde : i \in Nat
    BY SizeAssumption DEF Pde, UPde, KPde, PDX, Va
  <2>2. QED
    BY <2>1 DEF OwnSlot
<1>4. Touches({s})
  BY <1>2, <1>3, OwnKfreeTouches
<1>5. QED
  BY <1>2, <1>3, <1>4 DEF QuietTouch

LEMMA ForkKstackSeen ==
  ASSUME IInv, Struct, CInv, FInv, DInv, NEW p \in Proc, ForkKstack(p) PROVE DInv' /\ Unseen
<1>1. /\ pc[p] = "f_kstack" /\ Busy(p) /\ pc[p] \notin GrowPcs /\ pc[p] # "pf_map"
      /\ {"s_pgdir", "user"} \subseteq Pcs /\ tgt[p][1] # p /\ tgt[p][1] \in Proc
      /\ state[p] = "LIVE"
  BY ForkFacts DEF ForkKstack, At, GrowPcs, Pcs
<1>2. CASE OffPte(p) /\ Jump(p, "s_pgdir") /\ UNCHANGED <<perm, data, pt>>
  <2>1. QuietTouch(p, {}) /\ pc'[p] = "s_pgdir" /\ tgt'[p] # Other(p)'
    BY <1>1, <1>2, NothingTouched, JumpBounds, OwnIn, Types DEF Other, pt
  <2>2. Drafts(p)'
    BY <2>1 DEF Drafts, Copied, Written, Built, GrowPcs
  <2>3. QED
    BY <1>1, <1>2, <2>1, <2>2, AwayDead, JumpQuiet DEF pt, QuietTouch
<1>3. CASE /\ UNCHANGED <<mm, sz, side>> /\ Jump(p, "user")
           /\ state' = [state EXCEPT ![tgt[p][1]] = "UNUSED"]
  <2>1. QuietTouch(p, {}) /\ pc'[p] = "user"
    BY <1>1, <1>3, NothingTouched, JumpBounds, Types DEF OffPte, mm
  <2>2. Drafts(p)'
    BY <2>1, PlainDrafts DEF PlainPcs
  <2>3. state'[tgt[p][1]] = "UNUSED" /\ \A q \in Proc : q # tgt[p][1] => state'[q] = state[q]
    BY <1>1, <1>3, Types DEF ProcOK
  <2>4. QED
    BY <1>1, <1>3, <2>1, <2>2, <2>3, JumpQuiet DEF QuietTouch
<1>4. QED
  BY <1>2, <1>3 DEF ForkKstack, OffPte

LEMMA ForkCopySeen ==
  ASSUME IInv, Struct, CInv, FInv, DInv, NEW p \in Proc, ForkCopy(p) PROVE DInv' /\ Unseen
<1>1. /\ pc[p] = "f_copy" /\ Busy(p) /\ pc[p] \notin GrowPcs /\ pc[p] # "pf_map"
      /\ "f_map" \in Pcs /\ tgt[p][1] # p /\ tgt[p] \in Space /\ Own(p) \in Space /\ Own(p)[1] = p
      /\ cur[p] \in Va /\ Mem(p) \in Slot
  <2>1. cur[p] < sz[p]
    BY DEF ForkCopy
  <2>2. cur[p] \in Va
    BY <2>1, Types, SizeAssumption DEF ProcOK, Va
  <2>3. QED
    BY <2>2, ForkFacts, OwnIn, SlotIn, Types DEF ForkCopy, At, GrowPcs, Pcs
<1>2. ASSUME NEW m, Panic(m) PROVE DInv' /\ Unseen
  BY <1>2, PanicSeen
<1>3. CASE /\ perm' = [perm EXCEPT ![Own(p)][cur[p]] = CowFlags(@)]
           /\ ref' = [ref EXCEPT ![Mem(p)] = ref[PTE(Own(p), cur[p])]]
           /\ Jump(p, "f_map") /\ UNCHANGED <<data, pt>>
  <2>1. OffPte(p)
    BY <1>3 DEF OffPte
  <2>2. RefLocal(p) /\ FlagsLocal(p) /\ \A t \in Space : KeepPte(t)
    <3>1. FlagsLocal(p)
      BY <1>1, <1>3, Types DEF FlagsLocal, MemOK
    <3>2. QED
      BY <2>1, <3>1, OffPteStill
  <2>3. (\A q \in Proc \ {p} : ThreadSame(q)) /\ pc'[p] = "f_map" /\ UNCHANGED <<tgt, cur, lo, hi, ret>>
    BY <1>1, <1>3, JumpBounds, Types
  <2>4. Own(p)' = Own(p) /\ (\A q \in Proc : ProcSame(q)) /\ ViewSz(p)' = ViewSz(p)
    BY <1>1, <1>3, <2>3, SameSz DEF Own, pt, ProcSame
  <2>5. ref'[Mem(p)] = ref'[PTE(Own(p), cur[p])]
    BY <1>1, <1>3, <2>2, Types DEF KeepPte, MemOK
  <2>6. Copied(p)'
    BY <1>1, <2>2, <2>3, <2>4, <2>5 DEF DInv, Drafts, Copied, KeepPte
  <2>7. Drafts(p)'
    BY <2>3, <2>6 DEF Drafts, Written, Built, GrowPcs
  <2>8. tgt[p][1] # p => state'[tgt[p][1]] # "LIVE"
    BY <1>1, <1>3, AwayDead DEF pt
  <2>9. \A va \in Va : ref'[PTE(Own(p), va)] = ref[PTE(Own(p), va)]
    BY <1>1, <2>2 DEF KeepPte
  <2>10. Touches({})
    BY <1>3, NoTouch
  <2>11. QED
    BY <1>1, <2>2, <2>3, <2>4, <2>7, <2>8, <2>9, <2>10, QuietStep
<1>4. QED
  BY <1>2, <1>3 DEF ForkCopy

LEMMA ForkMapSeen ==
  ASSUME IInv, Struct, CInv, FInv, DInv, NEW p \in Proc, ForkMap(p) PROVE DInv' /\ Unseen
<1>1. /\ pc[p] = "f_map" /\ Busy(p) /\ pc[p] \notin GrowPcs /\ pc[p] # "pf_map"
      /\ "f_unref" \in Pcs /\ tgt[p][1] # p /\ tgt[p] \in Space /\ Own(p) \in Space
      /\ tgt[p] # Own(p) /\ cur[p] \in Va /\ cur[p] \in Nat
  BY ForkFacts, OwnIn, Types DEF ForkMap, At, Label, GrowPcs, Pcs
<1>2. CASE /\ Mappages(p, tgt[p], cur[p], perm[Own(p)][cur[p]])
           /\ cur' = [cur EXCEPT ![p] = @ + 1]
           /\ Goto(p, "f_copy") /\ UNCHANGED <<pt, tgt, lo, hi, ret>>
  <2>1. RefLocal(p) /\ FlagsLocal(p)
    <3>1. perm[Own(p)][cur[p]] \in SUBSET {"W", "U", "COW"}
      BY <1>1, Types DEF MemOK
    <3>2. RefLocal(p)
      BY <1>1, <1>2, <3>1, MappagesLocal
    <3>3. perm' = [perm EXCEPT ![tgt[p]][cur[p]] = perm[Own(p)][cur[p]]]
      BY <1>2 DEF Mappages
    <3>4. FlagsLocal(p)
      BY <1>1, <3>3, Types DEF FlagsLocal, MemOK
    <3>5. QED
      BY <3>2, <3>4
  <2>2. /\ ref'[PTE(tgt[p], cur[p])] = ref[Mem(p)] /\ KeepPte(Own(p))
        /\ \A b \in Va \ {cur[p]} : ref'[PTE(tgt[p], b)] = ref[PTE(tgt[p], b)]
    BY <1>1, <1>2, MappagesSets, Types
  <2>3. /\ \A q \in Proc \ {p} : ThreadSame(q)
        /\ \A q \in Proc : ProcSame(q)
        /\ pc'[p] = "f_copy" /\ cur'[p] = cur[p] + 1 /\ UNCHANGED <<tgt, ret>>
        /\ Own(p)' = Own(p)
    BY <1>2, Types DEF ThreadSame, Goto, ThreadOK, pt, ProcSame, Own
  <2>4. ViewSz(p)' = ViewSz(p)
    BY <1>1, <2>3, SameSz DEF ProcSame
  <2>5. Copied(p)'
    <3>1. ASSUME NEW va \in Va, va < cur[p] + 1
          PROVE  ref'[PTE(tgt[p], va)] = ref'[PTE(Own(p), va)]
      <4>1. CASE va = cur[p]
        BY <1>1, <2>2, <4>1 DEF DInv, Drafts, Copied, KeepPte
      <4>2. CASE va # cur[p]
        <5>1. va < cur[p]
          BY <1>1, <3>1, <4>2, Ints
        <5>2. QED
          BY <1>1, <2>2, <4>2, <5>1 DEF DInv, Drafts, Copied, KeepPte
      <4>3. QED
        BY <4>1, <4>2
    <3>2. QED
      BY <2>3, <3>1 DEF Copied
  <2>6. Drafts(p)'
    BY <2>3, <2>5 DEF Drafts, Written, Built, GrowPcs
  <2>7. tgt[p][1] # p => state'[tgt[p][1]] # "LIVE"
    BY <1>1, <1>2, AwayDead DEF pt
  <2>8. Touches({})
    BY <1>2, NoTouch DEF Mappages
  <2>9. \A va \in Va : ref'[PTE(Own(p), va)] = ref[PTE(Own(p), va)]
    BY <2>2 DEF KeepPte
  <2>10. QED
    BY <1>1, <2>1, <2>3, <2>4, <2>6, <2>7, <2>8, <2>9, QuietStep
<1>3. CASE Jump(p, "f_unref") /\ UNCHANGED <<mm, pt>>
  <2>1. QuietTouch(p, {}) /\ pc'[p] = "f_unref"
    BY <1>1, <1>3, NothingTouched, JumpBounds, Types DEF OffPte, mm
  <2>2. Drafts(p)'
    BY <2>1, PlainDrafts DEF PlainPcs
  <2>3. QED
    BY <1>1, <1>3, <2>1, <2>2, AwayDead, JumpQuiet DEF pt, QuietTouch
<1>4. QED
  BY <1>2, <1>3, RemapSeen DEF ForkMap

LEMMA ForkUndoSeen ==
  ASSUME IInv, Struct, CInv, FInv, DInv, NEW p \in Proc, ForkUnref(p) \/ ForkFail(p)
  PROVE  DInv' /\ Unseen
<1>1. /\ pc[p] \in {"f_unref", "f_fail"} /\ Busy(p) /\ ~Dangles(p) /\ pc[p] \notin GrowPcs
      /\ pc[p] # "pf_map" /\ "user" \in Pcs /\ tgt[p][1] # p /\ tgt[p][1] \in Proc
  BY ForkFacts DEF ForkUnref, ForkFail, At, GrowPcs, Pcs, Dangles
<1>2. ASSUME NEW s, KfreePanic(s) PROVE DInv' /\ Unseen
  BY <1>2, KfreePanicSeen
<1>3. CASE KfreeSlot(Mem(p), TRUE) /\ StartFreevm(p, tgt[p]) /\ UNCHANGED <<perm, pt>>
  <2>1. QuietTouch(p, {Mem(p)})
    BY <1>1, <1>3, KfreeQuiet
  <2>2. QED
    BY <1>1, <1>3, <2>1, FreevmQuiet
<1>4. CASE /\ KfreeSlot(KStack(tgt[p][1]), TRUE) /\ Jump(p, "user") /\ UNCHANGED <<perm, sz, side>>
           /\ state' = [state EXCEPT ![tgt[p][1]] = "UNUSED"]
  <2>1. QuietTouch(p, {KStack(tgt[p][1])})
    BY <1>1, <1>4, KfreeQuiet
  <2>2. pc'[p] = "user"
    BY <1>1, <1>4, JumpBounds, Types
  <2>3. Drafts(p)'
    BY <2>2, PlainDrafts DEF PlainPcs
  <2>4. state'[tgt[p][1]] = "UNUSED" /\ \A q \in Proc : q # tgt[p][1] => state'[q] = state[q]
    BY <1>1, <1>4, Types DEF ProcOK
  <2>5. QED
    BY <1>1, <1>4, <2>1, <2>2, <2>3, <2>4, JumpQuiet DEF QuietTouch
<1>5. QED
  BY <1>2, <1>3, <1>4 DEF ForkUnref, ForkFail

\* The child is a copy of the parent.
LEMMA ForkDoneSeen ==
  ASSUME IInv, Struct, CInv, FInv, DInv, NEW p \in Proc, ForkDone(p), NEW np, np = tgt[p][1]
  PROVE  DInv' /\ Shown
<1>1. /\ pc[p] = "f_copy" /\ pc[p] \notin GrowPcs /\ Busy(p) /\ np # p /\ np \in Proc
      /\ state[p] = "LIVE" /\ state[np] = "EMBRYO" /\ tgt[p] = Own(np) /\ pc[np] = "idle"
      /\ UNCHANGED <<ref, perm, data, tlb, lo, hi, ret, side>> /\ cur[p] >= sz[p]
  BY ForkFacts, Types DEF ForkDone, At, GrowPcs, mm, ThreadsApart
<1>2. /\ state' = [state EXCEPT ![np] = "LIVE"] /\ sz' = [sz EXCEPT ![np] = sz[p]]
      /\ pc' = [pc EXCEPT ![p] = "user", ![np] = "user"]
      /\ tgt' = [tgt EXCEPT ![p] = <<p, 0>>] /\ cur' = [cur EXCEPT ![p] = 0]
  BY DEF ForkDone
<1>3. /\ \A q \in Proc \ {p, np} : ThreadSame(q) /\ ProcSame(q)
      /\ ProcSame(p) /\ pc'[p] = "user" /\ pc'[np] = "user"
      /\ state'[np] = "LIVE" /\ sz'[np] = sz[p] /\ Own(np)' = Own(np) /\ Own(p)' = Own(p)
  BY <1>1, <1>2, Types DEF ThreadSame, ProcSame, ThreadOK, ProcOK, Own
<1>4. RefLocal(p) /\ FlagsLocal(p) /\ Drafts(p)' /\ Touches({})
  BY <1>1, <1>3, RefSame, PlainDrafts, NoTouch DEF FlagsLocal, PlainPcs
<1>5. DInv' /\ \A q \in Proc \ {p, np} : View(q)' = View(q)
  BY <1>1, <1>3, <1>4, OthersCalm DEF ProcSame
<1>6. ViewSz(p)' = ViewSz(p) /\ ViewSz(p) = sz[p] /\ sz[p] \in Int
  BY <1>1, <1>3, SameSz, CalmView, ViewIn DEF ProcSame
<1>7. ViewSz(np)' = sz[p]
  <2>1. ret[np] # "g_done"
    BY <1>1 DEF FInv, Filling, GrowPcs
  <2>2. QED
    BY <1>1, <1>3, <2>1 DEF ViewSz
<1>8. \A va \in Va : ViewPage(p, va)' = ViewPage(p, va)
  BY <1>1, <1>3 DEF ViewPage
<1>9. View(p)' = View(p)
  BY <1>1, <1>3, <1>6, <1>8, SameView DEF ProcSame
<1>10. View(np)' = View(p)
  <2>1. ASSUME NEW va \in 0 .. sz[p] - 1 PROVE data'[ViewPage(np, va)'] = data[ViewPage(p, va)]
    <3>1. va \in Va /\ va < sz[p]
      BY <1>6, ViewRange
    <3>2. va < cur[p]
      BY <1>1, <1>6, <3>1, Types, Ints
    <3>3. ref[PTE(tgt[p], va)] = ref[PTE(Own(p), va)]
      BY <1>1, <3>1, <3>2 DEF DInv, Drafts, Copied
    <3>4. QED
      BY <1>1, <1>3, <3>3 DEF ViewPage
  <2>2. QED
    BY <1>1, <1>3, <1>6, <1>7, <2>1 DEF View
<1>11. View(np) = None /\ View(p) # None
  BY <1>1, ViewAlive
<1>12. OnlyView(np)
  BY <1>5, <1>9 DEF OnlyView
<1>13. Private!Next
  BY <1>1, <1>10, <1>11, <1>12, ToFork
<1>14. QED
  BY <1>5, <1>13 DEF Shown

LEMMA ForkSeen == ASSUME IInv, Struct, CInv, FInv, DInv, NEW p \in Proc, Fork(p) PROVE DInv' /\ Shown
<1>1. ForkDone(p) => \A np : np = tgt[p][1] => DInv' /\ Shown
  BY ForkDoneSeen
<1>2. QED
  BY <1>1, ForkKstackSeen, ForkCopySeen, ForkMapSeen, ForkUndoSeen DEF Fork, Shown

-----------------------------------------------------------------------------
(* deallocuvm and freevm.                                                  *)

\* deallocuvm works above what the process sees.
LEMMA DvApart ==
  ASSUME IInv, Struct, FInv, NEW p \in Proc, pc[p] \in {"dv", "dv_clear"},
         NEW va \in Va, va < ViewSz(p)
  PROVE  PTE(Own(p), va) # PTE(tgt[p], cur[p])
<1>1. SUFFICES ASSUME PTE(Own(p), va) = PTE(tgt[p], cur[p]) PROVE FALSE
  OBVIOUS
<1>2. tgt[p] \in Space /\ Own(p) \in Space /\ cur[p] \in Nat /\ va \in Int
  BY DvFacts, OwnIn, Types, Ints
<1>3. tgt[p] = Own(p) /\ va = cur[p]
  BY <1>1, <1>2, Slots
<1>4. cur[p] >= lo[p] /\ lo[p] >= ViewSz(p) /\ lo[p] \in Nat
  BY <1>3, DvFacts
<1>5. QED
  BY <1>2, <1>3, <1>4, ViewIn

LEMMA DvDrafts ==
  ASSUME NEW p \in Proc, pc[p] \in {"dv", "dv_clear"}, Drafts(p), pc'[p] \in {"dv", "dv_clear"},
         UNCHANGED <<lo, hi, ret, sz>>
  PROVE  Drafts(p)'
BY DEF Drafts, Copied, Written, Built, GrowPcs

LEMMA DeallocStepSeen ==
  ASSUME IInv, Struct, CInv, FInv, DInv, NEW p \in Proc, DeallocStep(p) PROVE DInv' /\ Unseen
<1>1. /\ pc[p] = "dv" /\ Busy(p) /\ ~Dangles(p) /\ pc[p] # "pf_map" /\ "dv_clear" \in Pcs
      /\ tgt[p] \in Space /\ Drafts(p) /\ cur[p] < hi[p] /\ cur[p] \in Nat
  BY DvFacts DEF DeallocStep, At, Busy, Dangles, Pcs, DInv
<1>2. CASE UNCHANGED <<mm, pt, pc, tgt, lo, hi, ret>> /\ \E n : cur' = [cur EXCEPT ![p] = n]
  <2>1. QuietTouch(p, {})
    BY <1>2, NothingTouched DEF OffPte, mm
  <2>2. (\A q \in Proc \ {p} : ThreadSame(q)) /\ ViewSz(p)' = ViewSz(p) /\ Drafts(p)'
    BY <1>1, <1>2, DvDrafts, Types DEF ThreadSame, ThreadOK, ViewSz, pt
  <2>3. QED
    BY <1>1, <1>2, <2>1, <2>2, AwayDead, CalmQuiet DEF pt, QuietTouch
<1>3. CASE KfreeSlot(PTE(tgt[p], cur[p]), FALSE) /\ Jump(p, "dv_clear") /\ UNCHANGED <<perm, pt>>
  <2>1. UNCHANGED ref /\ UNCHANGED <<state, sz, side>>
    BY <1>3 DEF KfreeSlot, pt
  <2>2. /\ \A q \in Proc \ {p} : ThreadSame(q)
        /\ pc'[p] = "dv_clear" /\ UNCHANGED <<tgt, cur, lo, hi, ret>>
    BY <1>1, <1>3, JumpBounds, Types
  <2>3. PTE(tgt[p], cur[p]) \in Slot /\ OwnSlot(p, PTE(tgt[p], cur[p]))
    <3>1. cur[p] \in Va
      BY <1>1, Types, SizeAssumption DEF ThreadOK, Va
    <3>2. QED
      BY <1>1, <3>1, SlotIn DEF OwnSlot
  <2>4. Touches({PTE(tgt[p], cur[p])})
    BY <1>1, <1>3, <2>3, OwnKfreeTouches
  <2>5. ViewSz(p)' = ViewSz(p) /\ Drafts(p)'
    BY <1>1, <2>1, <2>2, DvDrafts DEF ViewSz
  <2>6. RefLocal(p) /\ FlagsLocal(p) /\ \A q \in Proc : ProcSame(q)
    BY <1>3, <2>1, RefSame DEF FlagsLocal, ProcSame
  <2>7. \A va \in Va : state[p] = "LIVE" /\ va < ViewSz(p) =>
           /\ ref'[PTE(Own(p), va)] = ref[PTE(Own(p), va)]
           /\ PTE(Own(p), va) \notin {PTE(tgt[p], cur[p])}
    BY <1>1, <2>1, DvApart
  <2>8. tgt[p][1] # p => state'[tgt[p][1]] # "LIVE"
    BY <1>1, <2>1, AwayDead
  <2>9. QED
    BY <1>1, <2>2, <2>3, <2>4, <2>5, <2>6, <2>7, <2>8, QuietStep
<1>4. QED
  <2>1. \/ UNCHANGED <<mm, pt, pc, tgt, lo, hi, ret>> /\ \E n : cur' = [cur EXCEPT ![p] = n]
        \/ KfreeSlot(PTE(tgt[p], cur[p]), FALSE) /\ Jump(p, "dv_clear") /\ UNCHANGED <<perm, pt>>
        \/ KfreePanic(PTE(tgt[p], cur[p]))
    BY DEF DeallocStep
  <2>2. QED
    BY <1>2, <1>3, <2>1, KfreePanicSeen

LEMMA DeallocClearSeen ==
  ASSUME IInv, Struct, CInv, FInv, DInv, NEW p \in Proc, DeallocClear(p) PROVE DInv' /\ Unseen
<1>1. /\ pc[p] = "dv_clear" /\ Busy(p) /\ pc[p] # "pf_map" /\ tgt[p] \in Space /\ Drafts(p)
      /\ cur[p] \in Va /\ cur[p] \in Nat /\ Own(p) \in Space
      /\ ref' = [ref EXCEPT ![PTE(tgt[p], cur[p])] = None]
      /\ perm' = [perm EXCEPT ![tgt[p]][cur[p]] = {}]
      /\ Goto(p, "dv") /\ cur' = [cur EXCEPT ![p] = @ + 1] /\ UNCHANGED <<data, pt, tgt, lo, hi, ret>>
  BY DvFacts, OwnIn, Types DEF DeallocClear, At, Label, DInv
<1>2. RefLocal(p) /\ FlagsLocal(p)
  <2>1. PTE(tgt[p], cur[p]) \in Slot /\ OwnSlot(p, PTE(tgt[p], cur[p]))
    BY <1>1, SlotIn DEF OwnSlot
  <2>2. RefLocal(p)
    BY <1>1, <2>1, RefOne, Types
  <2>3. FlagsLocal(p)
    BY <1>1, Types DEF FlagsLocal, MemOK
  <2>4. QED
    BY <2>2, <2>3
<1>3. /\ \A q \in Proc \ {p} : ThreadSame(q)
      /\ \A q \in Proc : ProcSame(q)
      /\ pc'[p] = "dv"
  BY <1>1, Types DEF ThreadSame, Goto, ThreadOK, pt, ProcSame
<1>4. ViewSz(p)' = ViewSz(p) /\ Drafts(p)' /\ Touches({})
  BY <1>1, <1>3, DvDrafts, NoTouch DEF ViewSz, pt
<1>5. \A va \in Va : state[p] = "LIVE" /\ va < ViewSz(p) =>
         ref'[PTE(Own(p), va)] = ref[PTE(Own(p), va)]
  BY <1>1, DvApart, SlotIn, Types DEF MemOK
<1>6. tgt[p][1] # p => state'[tgt[p][1]] # "LIVE"
  BY <1>1, AwayDead DEF pt
<1>7. QED
  BY <1>1, <1>2, <1>3, <1>4, <1>5, <1>6, QuietStep

LEMMA DeallocDoneSeen ==
  ASSUME IInv, Struct, CInv, FInv, DInv, NEW p \in Proc, DeallocDone(p) PROVE DInv' /\ Unseen
<1>1. /\ pc[p] = "dv" /\ Busy(p) /\ pc[p] # "pf_map" /\ Drafts(p)
      /\ ret[p] \in {"fv_tab", "g_done", "user", "x_bad", "a_free"} /\ ret[p] \in Pcs
      /\ ret[p] = "g_done" => hi[p] = sz[p]
      /\ Jump(p, ret[p]) /\ UNCHANGED <<mm, pt>>
  BY DvFacts, Types DEF DeallocDone, At, Label, DInv, Pcs
<1>2. /\ \A q \in Proc \ {p} : ThreadSame(q)
      /\ pc'[p] = ret[p] /\ (ret[p] # "user" => UNCHANGED <<tgt, cur, lo, hi, ret>>)
  BY <1>1, JumpBounds, Types
<1>3. ViewSz(p)' = ViewSz(p)
  <2>1. CASE ret[p] = "user"
    <3>1. ret'[p] = "idle"
      BY <1>1, <2>1, Types DEF Jump, ThreadOK
    <3>2. QED
      BY <1>1, <2>1, <3>1 DEF ViewSz, pt
  <2>2. CASE ret[p] # "user"
    BY <1>1, <1>2, <2>2 DEF ViewSz, pt
  <2>3. QED
    BY <2>1, <2>2
<1>4. Drafts(p)'
  <2>1. CASE ret[p] = "g_done"
    BY <1>1, <1>2, <2>1 DEF Drafts, Copied, Written, Built, GrowPcs, pt
  <2>2. CASE ret[p] # "g_done"
    BY <1>1, <1>2, <2>2, PlainDrafts DEF PlainPcs
  <2>3. QED
    BY <2>1, <2>2
<1>5. QuietTouch(p, {})
  BY <1>1, NothingTouched DEF OffPte, mm
<1>6. QED
  BY <1>1, <1>2, <1>3, <1>4, <1>5, AwayDead, CalmQuiet DEF pt, QuietTouch

LEMMA FreeTabSeen ==
  ASSUME IInv, Struct, CInv, FInv, DInv, NEW p \in Proc, FreeTab(p) PROVE DInv' /\ Unseen
<1>1. /\ pc[p] = "fv_tab" /\ Busy(p) /\ ~Dangles(p) /\ pc[p] \notin GrowPcs /\ pc[p] # "pf_map"
      /\ AfterFreevm(p) \in Pcs /\ AfterFreevm(p) \in PlainPcs /\ AfterFreevm(p) # "pf_map"
      /\ AfterFreevm(p) # "dv_clear"
  BY DEF FreeTab, At, Busy, Dangles, GrowPcs, Pcs, AfterFreevm, PlainPcs
<1>2. ASSUME NEW i \in Pde, KfreeSlot(PDE(tgt[p], i), TRUE), UNCHANGED <<perm, pt, kt>>
      PROVE  DInv' /\ Unseen
  <2>1. QuietTouch(p, {PDE(tgt[p], i)})
    BY <1>1, <1>2, KfreeQuiet
  <2>2. UNCHANGED <<pt, tgt, lo, hi, ret, pc>> /\ cur' = [cur EXCEPT ![p] = cur[p]]
    BY <1>2, Types DEF kt, loc, ThreadOK
  <2>3. Drafts(p)'
    BY <1>1, <2>2, PlainDrafts DEF PlainPcs
  <2>4. QED
    BY <1>1, <2>1, <2>2, <2>3, WorkQuiet
<1>3. ASSUME KfreeSlot(PgDir(tgt[p]), TRUE), Jump(p, AfterFreevm(p)), UNCHANGED <<perm, pt>>
      PROVE  DInv' /\ Unseen
  <2>1. QuietTouch(p, {PgDir(tgt[p])})
    BY <1>1, <1>3, KfreeQuiet
  <2>2. pc'[p] = AfterFreevm(p)
    BY <1>1, <1>3, JumpBounds, Types
  <2>3. Drafts(p)'
    BY <1>1, <2>2, PlainDrafts
  <2>4. QED
    BY <1>1, <1>3, <2>1, <2>3, AwayDead, JumpQuiet DEF pt, QuietTouch
<1>4. QED
  BY <1>2, <1>3, KfreePanicSeen DEF FreeTab

LEMMA DeallocSeen ==
  ASSUME IInv, Struct, CInv, FInv, DInv, NEW p \in Proc, Dealloc(p) PROVE DInv' /\ Unseen
BY DeallocStepSeen, DeallocClearSeen, DeallocDoneSeen, FreeTabSeen DEF Dealloc

-----------------------------------------------------------------------------
(* allocuvm and growproc.                                                  *)

\* What a path has filled stays filled.
LEMMA HoldsKept ==
  ASSUME IInv, CInv, NEW p \in Proc, Busy(p), ~Dangles(p), NEW t, t = tgt[p], KeepPte(t),
         Touches({})
  PROVE  \A a, b, x : Holds(t, a, b, x) => Holds(t, a, b, x)'
<1>1. ASSUME NEW va \in Va, ref[PTE(t, va)] # None PROVE data'[ref[PTE(t, va)]] = data[ref[PTE(t, va)]]
  BY <1>1, PathClean, Untouched
<1>2. QED
  BY <1>1 DEF Holds, KeepPte

LEMMA AllocPageSeen ==
  ASSUME IInv, Struct, CInv, FInv, DInv, NEW p \in Proc, AllocPage(p) PROVE DInv' /\ Unseen
<1>1. /\ pc[p] = "a_alloc" /\ Busy(p) /\ ~Dangles(p) /\ pc[p] # "pf_map" /\ "a_map" \in Pcs
      /\ tgt[p] \in Space /\ Mem(p) \in Slot /\ Drafts(p) /\ ViewSz(p) = sz[p]
      /\ AllocFailed(p) \in {"user", "x_bad"}
  BY AllocFacts, GrowFacts, SlotIn DEF AllocPage, At, Dangles, Pcs, DInv, AllocFailed
<1>2. ASSUME NEW pg \in freelist, ref' = [ref EXCEPT ![Mem(p)] = pg],
             data' = [data EXCEPT ![pg] = "zero"], Jump(p, "a_map"), UNCHANGED <<perm, pt>>
      PROVE  DInv' /\ Unseen
  <2>1. Touches({}) /\ OffPte(p)
    BY <1>2, FillTouches DEF OffPte
  <2>2. /\ \A q \in Proc \ {p} : ThreadSame(q)
        /\ pc'[p] = "a_map" /\ UNCHANGED <<tgt, cur, lo, hi, ret>>
    BY <1>1, <1>2, JumpBounds, Types
  <2>3. data'[ref'[Mem(p)]] = "zero"
    BY <1>1, <1>2, Types DEF MemOK
  <2>4. KeepPte(tgt[p])
    BY <1>1, <2>1, OffPteStill
  <2>5. ASSUME NEW t, t = tgt[p]
        PROVE  /\ \A a, b, x : Holds(t, a, b, x) => Holds(t, a, b, x)'
               /\ Fresh(t) => Fresh(t)'
    <3>1. \A a, b, x : Holds(t, a, b, x) => Holds(t, a, b, x)'
      BY <1>1, <2>1, <2>4, <2>5, HoldsKept
    <3>2. Fresh(t) => Fresh(t)'
      BY <1>2, <2>4, <2>5 DEF Fresh, KeepPte
    <3>3. QED
      BY <3>1, <3>2
  <2>6. /\ \A a, b, x : Holds(tgt[p], a, b, x) => Holds(tgt[p], a, b, x)'
        /\ Fresh(tgt[p]) => Fresh(tgt[p])'
    BY <2>2, <2>5 DEF Holds, Fresh
  <2>7. Other(p)' = Other(p) /\ ViewSz(p)' = ViewSz(p)
    BY <1>2, <2>2 DEF Other, ViewSz, pt
  <2>8. Written(p)'
    BY <1>1, <1>2, <2>2, <2>3, <2>6 DEF Drafts, Written, GrowPcs, pt
  <2>9. Built(p)'
    BY <1>1, <2>2, <2>6, <2>7 DEF Drafts, Built
  <2>10. Drafts(p)'
    BY <2>2, <2>8, <2>9 DEF Drafts, Copied
  <2>11. QED
    BY <1>1, <1>2, <2>1, <2>2, <2>7, <2>10, AwayDead, CalmQuiet DEF pt
<1>3. CASE StartDealloc(p, tgt[p], lo[p], hi[p], AllocFailed(p)) /\ UNCHANGED <<mm, pt>>
  <2>1. /\ \A q \in Proc \ {p} : ThreadSame(q)
        /\ pc'[p] = "dv" /\ ret'[p] \in {"user", "x_bad"}
    BY <1>1, <1>3, StartDeallocSame, Types
  <2>2. ViewSz(p)' = ViewSz(p) /\ Drafts(p)'
    BY <1>1, <1>3, <2>1 DEF ViewSz, pt, Drafts, Copied, Written, Built, GrowPcs
  <2>3. QuietTouch(p, {})
    BY <1>3, NothingTouched DEF OffPte, mm
  <2>4. QED
    BY <1>1, <1>3, <2>1, <2>2, <2>3, AwayDead, CalmQuiet DEF pt, QuietTouch
<1>4. QED
  BY <1>2, <1>3 DEF AllocPage

LEMMA AllocMapSeen ==
  ASSUME IInv, Struct, CInv, FInv, DInv, NEW p \in Proc, AllocMap(p) PROVE DInv' /\ Unseen
<1>1. /\ pc[p] = "a_map" /\ Busy(p) /\ ~Dangles(p) /\ pc[p] # "pf_map"
      /\ tgt[p] \in Space /\ Mem(p) \in Slot /\ Drafts(p) /\ ViewSz(p) = sz[p]
      /\ cur[p] \in Va /\ cur[p] \in Nat /\ lo[p] \in Nat /\ state[p] = "LIVE"
      /\ Own(p) \in Space
  BY AllocFacts, GrowFacts, SlotIn, OwnIn, Types DEF AllocMap, At, Dangles, DInv
<1>2. CASE /\ Mappages(p, tgt[p], cur[p], {"W", "U"}) /\ cur' = [cur EXCEPT ![p] = @ + 1]
           /\ Goto(p, "a_alloc") /\ UNCHANGED <<pt, tgt, lo, hi, ret>>
  <2>1. /\ ref[PTE(tgt[p], cur[p])] = None
        /\ ref'[PTE(tgt[p], cur[p])] = ref[Mem(p)]
        /\ \A b \in Va \ {cur[p]} : ref'[PTE(tgt[p], b)] = ref[PTE(tgt[p], b)]
        /\ \A t \in Space \ {tgt[p]} : KeepPte(t)
    BY <1>1, <1>2, MappagesSets, Types
  <2>2. perm' = [perm EXCEPT ![tgt[p]][cur[p]] = {"W", "U"}] /\ UNCHANGED data
    BY <1>2 DEF Mappages
  <2>3. RefLocal(p) /\ FlagsLocal(p)
    <3>1. RefLocal(p)
      BY <1>1, <1>2, MappagesLocal
    <3>2. FlagsLocal(p)
      BY <1>1, <2>2, Types DEF FlagsLocal, MemOK
    <3>3. QED
      BY <3>1, <3>2
  <2>4. /\ \A q \in Proc \ {p} : ThreadSame(q)
        /\ \A q \in Proc : ProcSame(q)
        /\ pc'[p] = "a_alloc" /\ cur'[p] = cur[p] + 1 /\ UNCHANGED <<tgt, lo, hi, ret>>
        /\ Other(p)' = Other(p)
    BY <1>2, Types DEF ThreadSame, Goto, ThreadOK, pt, ProcSame, Other
  <2>5. \A va \in Va : state[p] = "LIVE" /\ va < ViewSz(p) =>
           ref'[PTE(Own(p), va)] = ref[PTE(Own(p), va)]
    <3>1. SUFFICES ASSUME NEW va \in Va, va < ViewSz(p)
                   PROVE  ref'[PTE(Own(p), va)] = ref[PTE(Own(p), va)]
      OBVIOUS
    <3>2. ref[PTE(Own(p), va)] # None
      BY <1>1, <3>1 DEF FInv, Viewed, Full
    <3>3. CASE tgt[p] = Own(p)
      BY <2>1, <3>2, <3>3
    <3>4. CASE tgt[p] # Own(p)
      BY <1>1, <2>1, <3>4 DEF KeepPte
    <3>5. QED
      BY <3>3, <3>4
  <2>6. ASSUME NEW va \in Va, va # cur[p]
        PROVE  ref'[PTE(tgt[p], va)] = ref[PTE(tgt[p], va)] /\ perm'[tgt[p]][va] = perm[tgt[p]][va]
    BY <1>1, <2>1, <2>2, <2>6, Types DEF MemOK
  <2>7. perm'[tgt[p]][cur[p]] = {"W", "U"} /\ data[ref[Mem(p)]] = "zero"
    BY <1>1, <2>2, Types DEF MemOK, Drafts, Written
  <2>8. Holds(tgt[p], lo[p], cur[p], "zero")' /\ lo[p] <= cur[p]
    <3>1. lo[p] <= cur[p] /\ Holds(tgt[p], lo[p], cur[p], "zero")
      BY <1>1 DEF Drafts, Written
    <3>2. ASSUME NEW va \in Va, lo[p] <= va, va < cur[p] + 1, ref'[PTE(tgt[p], va)] # None
          PROVE  data[ref'[PTE(tgt[p], va)]] = "zero"
      <4>1. CASE va = cur[p]
        BY <2>1, <2>7, <4>1
      <4>2. CASE va # cur[p]
        <5>1. va < cur[p]
          BY <1>1, <3>2, <4>2, Ints
        <5>2. QED
          BY <2>6, <3>1, <3>2, <4>2, <5>1 DEF Holds
      <4>3. QED
        BY <4>1, <4>2
    <3>3. QED
      BY <2>2, <2>4, <3>1, <3>2 DEF Holds
  <2>9. Holds(tgt[p], 0, lo[p], "img") => Holds(tgt[p], 0, lo[p], "img")'
    <3>1. \A va \in Va : va < lo[p] => va # cur[p]
      BY <1>1, <2>8, Ints
    <3>2. QED
      BY <2>2, <2>4, <2>6, <3>1 DEF Holds
  <2>10. Fresh(tgt[p]) => Fresh(tgt[p])'
    BY <2>4, <2>6, <2>7 DEF Fresh
  <2>11. Written(p)'
    BY <1>1, <1>2, <2>4, <2>8 DEF Drafts, Written, GrowPcs, pt
  <2>12. Built(p)'
    BY <1>1, <2>4, <2>9, <2>10 DEF Drafts, Built
  <2>13. Drafts(p)'
    BY <2>4, <2>11, <2>12 DEF Drafts, Copied
  <2>14. ViewSz(p)' = ViewSz(p) /\ Touches({})
    BY <1>2, <2>2, <2>4, NoTouch DEF ViewSz, pt
  <2>15. tgt[p][1] # p => state'[tgt[p][1]] # "LIVE"
    BY <1>1, <1>2, AwayDead DEF pt
  <2>16. QED
    BY <1>1, <2>3, <2>4, <2>5, <2>13, <2>14, <2>15, QuietStep
<1>3. CASE StartDealloc(p, tgt[p], lo[p], hi[p], "a_free") /\ UNCHANGED <<mm, pt>>
  <2>1. /\ \A q \in Proc \ {p} : ThreadSame(q)
        /\ pc'[p] = "dv" /\ ret'[p] = "a_free"
    BY <1>1, <1>3, StartDeallocSame, Types
  <2>2. ViewSz(p)' = ViewSz(p) /\ Drafts(p)'
    BY <1>1, <1>3, <2>1 DEF ViewSz, pt, Drafts, Copied, Written, Built, GrowPcs
  <2>3. QuietTouch(p, {})
    BY <1>3, NothingTouched DEF OffPte, mm
  <2>4. QED
    BY <1>1, <1>3, <2>1, <2>2, <2>3, AwayDead, CalmQuiet DEF pt, QuietTouch
<1>4. QED
  BY <1>2, <1>3, RemapSeen DEF AllocMap

LEMMA AllocFreeSeen ==
  ASSUME IInv, Struct, CInv, FInv, DInv, NEW p \in Proc, AllocFree(p) PROVE DInv' /\ Unseen
<1>1. /\ pc[p] = "a_free" /\ Busy(p) /\ ~Dangles(p) /\ pc[p] \notin GrowPcs /\ pc[p] # "pf_map"
      /\ AllocFailed(p) \in Pcs /\ AllocFailed(p) \in {"user", "x_bad"}
  BY DEF AllocFree, At, Busy, Dangles, GrowPcs, Pcs, AllocFailed
<1>2. CASE KfreeSlot(Mem(p), TRUE) /\ Jump(p, AllocFailed(p)) /\ UNCHANGED <<perm, pt>>
  <2>1. QuietTouch(p, {Mem(p)})
    BY <1>1, <1>2, KfreeQuiet
  <2>2. pc'[p] \in {"user", "x_bad"}
    BY <1>1, <1>2, JumpBounds, Types
  <2>3. Drafts(p)'
    BY <2>2, PlainDrafts DEF PlainPcs
  <2>4. QED
    BY <1>1, <1>2, <2>1, <2>2, <2>3, AwayDead, JumpQuiet DEF pt, QuietTouch
<1>3. QED
  BY <1>2, KfreePanicSeen DEF AllocFree

LEMMA AllocDoneSeen ==
  ASSUME IInv, Struct, CInv, FInv, DInv, NEW p \in Proc, AllocDone(p) PROVE DInv' /\ Unseen
<1>1. /\ pc[p] = "a_alloc" /\ Busy(p) /\ pc[p] # "pf_map" /\ Drafts(p) /\ cur[p] = hi[p]
      /\ ret[p] \in {"g_done", "x_load", "x_stack"} /\ ret[p] \in Pcs
      /\ hi[p] \in Nat /\ lo[p] \in Nat /\ sz[p] \in Nat
      /\ ret[p] = "g_done" => lo[p] = sz[p] /\ hi[p] > sz[p]
      /\ Jump(p, ret[p]) /\ UNCHANGED <<mm, pt>>
  BY AllocFacts, Types DEF AllocDone, At, DInv, Pcs
<1>2. /\ \A q \in Proc \ {p} : ThreadSame(q)
      /\ pc'[p] = ret[p] /\ UNCHANGED <<tgt, cur, lo, hi, ret>>
  BY <1>1, JumpBounds, Types
<1>3. /\ UNCHANGED <<ref, perm, data, sz>> /\ ViewSz(p)' = ViewSz(p) /\ Other(p)' = Other(p)
  BY <1>1, <1>2 DEF mm, pt, ViewSz, Other
<1>4. /\ Holds(tgt[p], lo[p], cur[p], "zero") => Holds(tgt[p], lo[p], hi[p], "zero")'
      /\ Holds(tgt[p], 0, lo[p], "img") => Holds(tgt[p], 0, lo[p], "img")'
      /\ Fresh(tgt[p]) => Fresh(tgt[p])'
  BY <1>1, <1>2, <1>3 DEF Holds, Fresh
<1>5. Holds(tgt[p], lo[p], hi[p], "zero")'
  BY <1>1, <1>4 DEF Drafts, Written
<1>6. Written(p)'
  BY <1>1, <1>2, <1>3, <1>5 DEF Drafts, Written, GrowPcs
<1>7. Built(p)'
  <2>1. CASE ret[p] = "x_stack"
    <3>1. /\ lo[p] = hi[p] - 2 /\ hi[p] >= 3 /\ hi[p] < NVa
          /\ Holds(tgt[p], 0, lo[p], "img")'
      BY <1>1, <1>4, <2>1 DEF Drafts, Built
    <3>2. Holds(tgt[p], 0, hi[p] - 2, "img")' /\ Holds(tgt[p], hi[p] - 2, hi[p], "zero")'
      BY <1>2, <1>5, <3>1 DEF Holds
    <3>3. tgt[p] = Other(p) => Fresh(tgt[p])'
      BY <1>1, <1>4 DEF Drafts, Built
    <3>4. QED
      BY <1>2, <1>3, <2>1, <3>1, <3>2, <3>3 DEF Built, Holds, Fresh
  <2>2. CASE ret[p] # "x_stack"
    <3>1. tgt[p] = Other(p) => Fresh(tgt[p])'
      BY <1>1, <1>4 DEF Drafts, Built
    <3>2. ret[p] = "x_load" => hi[p] >= 1
      BY <1>1 DEF Drafts, Built
    <3>3. QED
      BY <1>1, <1>2, <1>3, <2>2, <3>1, <3>2 DEF Built, Fresh
  <2>3. QED
    BY <2>1, <2>2
<1>8. Drafts(p)'
  BY <1>1, <1>2, <1>6, <1>7 DEF Drafts, Copied
<1>9. QuietTouch(p, {})
  BY <1>1, NothingTouched DEF OffPte, mm
<1>10. pc'[p] # "pf_map"
  BY <1>1, <1>2
<1>11. QED
  BY <1>1, <1>2, <1>3, <1>8, <1>9, <1>10, AwayDead, CalmQuiet DEF pt, QuietTouch

\* growproc sets p->sz: new pages of zeros show, or what is gone stays gone.
LEMMA GrowDoneSeen ==
  ASSUME IInv, Struct, CInv, FInv, DInv, NEW p \in Proc, GrowDone(p) PROVE DInv' /\ Shown
<1> DEFINE n == IF hi[p] = sz[p] THEN lo[p] ELSE hi[p]
<1>1. /\ pc[p] = "g_done" /\ Busy(p) /\ Jump(p, "user") /\ "user" \in Pcs /\ Drafts(p)
      /\ UNCHANGED <<ref, perm, data, state, side>> /\ sz' = [sz EXCEPT ![p] = n]
  BY DEF GrowDone, At, Busy, Pcs, DInv, mm
<1>2. tgt[p] = Own(p) /\ tgt[p][1] = p /\ state[p] = "LIVE" /\ ret[p] = "g_done" /\ Own(p) \in Space
  BY <1>1, BusyState, OwnIn, Types DEF Struct, Target, Drafts, Written
<1>3. sz[p] \in Nat /\ lo[p] \in Nat /\ hi[p] \in Nat /\ n \in Nat /\ Full(Own(p), n) /\ NVa \in Nat
  BY <1>1, <1>2, Types, SizeAssumption DEF FInv, Filling, ProcOK, ThreadOK
<1>4. /\ \A q \in Proc \ {p} : ThreadSame(q) /\ ProcSame(q)
      /\ pc'[p] = "user" /\ ret'[p] = "idle" /\ sz'[p] = n /\ Own(p)' = Own(p)
  <2> HIDE DEF n
  <2>1. QED
    BY <1>1, JumpBounds, Types DEF ProcSame, ProcOK, Jump, ThreadOK, Own
<1>5. /\ ViewSz(p)' = n
      /\ \A va : ViewPage(p, va) = ref[PTE(Own(p), va)] /\ ViewPage(p, va)' = ViewPage(p, va)
  BY <1>1, <1>4 DEF ViewSz, ViewPage
<1>6. ASSUME NEW np, np = tgt[p][1] PROVE DInv' /\ OnlyView(p)
  <2>1. RefLocal(p) /\ FlagsLocal(p) /\ Touches({}) /\ Drafts(p)'
    BY <1>1, <1>4, RefSame, NoTouch, PlainDrafts DEF FlagsLocal, PlainPcs
  <2>2. QED
    BY <1>1, <1>2, <1>4, <1>6, <2>1, OthersCalm DEF OnlyView
<1>7. DInv' /\ OnlyView(p)
  BY <1>6
<1>8. CASE hi[p] = sz[p]
  <2>1. ViewSz(p)' = ViewSz(p)
    BY <1>2, <1>5, <1>8 DEF ViewSz
  <2>2. View(p)' = View(p)
    BY <1>1, <1>5, <2>1, SameView
  <2>3. QED
    BY <1>7, <2>2 DEF OnlyView, Shown, Unseen
<1>9. CASE hi[p] # sz[p]
  <2>1. /\ ViewSz(p) = sz[p] /\ n = hi[p] /\ hi[p] > sz[p] /\ hi[p] < NVa
        /\ Holds(Own(p), sz[p], hi[p], "zero")
    BY <1>1, <1>2, <1>9 DEF ViewSz, Drafts, Written, GrowPcs
  <2>2. View(p) = [i \in 0 .. sz[p] - 1 |-> data[ref[PTE(Own(p), i)]]]
    BY <1>2, <1>5, <2>1 DEF View
  <2>3. View(p)' = [i \in 0 .. hi[p] - 1 |-> data[ref[PTE(Own(p), i)]]]
    BY <1>1, <1>2, <1>5, <2>1 DEF View
  <2>4. ASSUME NEW i \in 0 .. hi[p] - 1, i \notin 0 .. sz[p] - 1
        PROVE  data[ref[PTE(Own(p), i)]] = "zero"
    <3>1. i \in Va /\ sz[p] <= i /\ i < hi[p]
      BY <1>3, <2>1, <2>4 DEF Va
    <3>2. QED
      BY <1>3, <2>1, <3>1 DEF Full, Holds
  <2>5. View(p)' = [i \in 0 .. hi[p] - 1 |-> IF i \in DOMAIN View(p) THEN View(p)[i] ELSE "zero"]
    BY <2>2, <2>3, <2>4
  <2>6. View(p) # None /\ hi[p] \in 1 .. NVa - 1
    BY <1>2, <1>3, <2>1, ViewAlive
  <2>7. QED
    BY <1>7, <2>5, <2>6, ToResize DEF Shown
<1>10. QED
  BY <1>8, <1>9

LEMMA AllocSeen ==
  ASSUME IInv, Struct, CInv, FInv, DInv, NEW p \in Proc, Alloc(p) PROVE DInv' /\ Shown
BY AllocPageSeen, AllocMapSeen, AllocFreeSeen, AllocDoneSeen, GrowDoneSeen DEF Alloc, Shown

-----------------------------------------------------------------------------
(* exec.                                                                   *)

\* What the steps of exec, up to its commit, leave alone.
LEMMA ExecQuiet ==
  ASSUME IInv, Struct, CInv, FInv, DInv, NEW p \in Proc,
         pc[p] \in {"x_load", "x_stack"}, UNCHANGED <<ref, pt>>, FlagsLocal(p),
         NEW ts, Touches(ts), \A t \in ts : \E va \in Va : t = PTE(tgt[p], va),
         \A q \in Proc \ {p} : ThreadSame(q), pc'[p] # "pf_map",
         ret'[p] = ret[p] \/ ret'[p] # "g_done", Drafts(p)'
  PROVE  DInv' /\ Unseen
<1>1. /\ Busy(p) /\ tgt[p] # Own(p) /\ tgt[p] \in Space /\ tgt[p][1] = p /\ Own(p) \in Space
      /\ pc[p] \notin GrowPcs /\ pc[p] # "pf_map"
  BY ExecFacts, OwnIn, Types DEF GrowPcs
<1>2. \A t \in ts : OwnSlot(p, t) /\ \A va \in Va : PTE(Own(p), va) # t
  <2>1. \A va \in Va : va \in Nat /\ va \in Int
    BY SizeAssumption DEF Va
  <2>2. QED
    BY <1>1, <2>1, Slots DEF OwnSlot
<1>3. ViewSz(p)' = ViewSz(p) /\ RefLocal(p) /\ \A q \in Proc : ProcSame(q)
  BY <1>1, SameSz, RefSame DEF pt, ProcSame
<1>4. \A va \in Va : state[p] = "LIVE" /\ va < ViewSz(p) =>
         ref'[PTE(Own(p), va)] = ref[PTE(Own(p), va)] /\ PTE(Own(p), va) \notin ts
  BY <1>2
<1>5. QED
  BY <1>1, <1>2, <1>3, <1>4, QuietStep

\* Pages that may be stored to have one reference.
LEMMA FreshAlone ==
  ASSUME IInv, CInv, NEW p \in Proc, Busy(p), ~Dangles(p), Fresh(tgt[p]),
         NEW va \in Va, ref[PTE(tgt[p], va)] # None
  PROVE  /\ PTE(tgt[p], va) \in Exclusive /\ PTE(tgt[p], va) \in Slot \ Dangling
         /\ OnlyIn(ref[PTE(tgt[p], va)], PTE(tgt[p], va))
<1>1. tgt[p] \in Space /\ PTE(tgt[p], va) \in Slot \ Dangling
  BY PathClean, Types
<1>2. PTE(tgt[p], va) \in Exclusive
  BY <1>1, AloneIff DEF Fresh, Exclusive
<1>3. Eff[PTE(tgt[p], va)] = ref[PTE(tgt[p], va)]
  BY <1>1 DEF Eff
<1>4. QED
  BY <1>1, <1>2, <1>3 DEF CInv, Sole, OnlyIn

LEMMA ExecLoadSeen ==
  ASSUME IInv, Struct, CInv, FInv, DInv, NEW p \in Proc, ExecLoad(p) PROVE DInv' /\ Unseen
<1>1. /\ pc[p] = "x_load" /\ Busy(p) /\ ~Dangles(p) /\ tgt[p] = Other(p) /\ hi[p] \in Nat
      /\ hi[p] >= 1 /\ Fresh(tgt[p]) /\ tgt[p] \in Space /\ UNCHANGED <<ref, perm, pt>>
  BY ExecFacts DEF ExecLoad, At, Dangles, DInv, Drafts, Built
<1>2. FlagsLocal(p)
  BY <1>1 DEF FlagsLocal
<1>3. ASSUME NEW ts, Touches(ts), \A t \in ts : \E va \in Va : t = PTE(tgt[p], va),
             Goto(p, "x_bad"), UNCHANGED <<tgt, cur, lo, hi, ret>>
      PROVE  DInv' /\ Unseen
  <2>1. (\A q \in Proc \ {p} : ThreadSame(q)) /\ pc'[p] = "x_bad"
    BY <1>3, Types DEF ThreadSame, Goto, ThreadOK
  <2>2. Drafts(p)'
    BY <2>1, PlainDrafts DEF PlainPcs
  <2>3. QED
    BY <1>1, <1>2, <1>3, <2>1, <2>2, ExecQuiet
<1>4. CASE data' = [pg \in Page |->
               IF \E va \in Va : va < hi[p] /\ ref[PTE(tgt[p], va)] = pg THEN "img" ELSE data[pg]]
  <2>1. ASSUME NEW ts, ts = {PTE(tgt[p], va) : va \in Va} PROVE Touches(ts)
    <3>1. ASSUME NEW pg \in Page, data'[pg] # data[pg] PROVE \E t \in ts : OnlyIn(pg, t)
      <4>1. PICK va \in Va : ref[PTE(tgt[p], va)] = pg
        BY <1>4, <3>1
      <4>2. pg # None
        BY PageAssumption
      <4>3. OnlyIn(pg, PTE(tgt[p], va))
        BY <1>1, <4>1, <4>2, FreshAlone
      <4>4. QED
        BY <2>1, <4>3
    <3>2. QED
      BY <3>1 DEF Touches
  <2>2. CASE hi[p] + 2 < NVa /\ StartAlloc(p, tgt[p], hi[p], hi[p] + 2, "x_stack")
    <3>1. /\ \A q \in Proc \ {p} : ThreadSame(q)
          /\ pc'[p] = "a_alloc" /\ tgt'[p] = tgt[p] /\ lo'[p] = hi[p] /\ hi'[p] = hi[p] + 2
          /\ cur'[p] = hi[p] /\ ret'[p] = "x_stack"
      BY <2>2, StartAllocSame, Types
    <3>2. ASSUME NEW va \in Va, va < hi[p], ref[PTE(tgt[p], va)] # None
          PROVE  data'[ref[PTE(tgt[p], va)]] = "img"
      <4>1. ref[PTE(tgt[p], va)] \in Page
        BY <1>1, <3>2, SlotIn, Types DEF MemOK
      <4>2. QED
        BY <1>4, <3>2, <4>1
    <3>3. Holds(tgt[p], 0, lo[p], "img")' /\ Fresh(tgt[p])'
      BY <1>1, <3>1, <3>2 DEF Holds, Fresh
    <3>4. Holds(tgt[p], lo[p], cur[p], "zero")'
      <4>1. \A va \in Va : ~(hi[p] <= va /\ va < hi[p])
        BY <1>1, Ints
      <4>2. QED
        BY <3>1, <4>1 DEF Holds
    <3>5. lo'[p] <= cur'[p] /\ hi'[p] = lo'[p] + 2 /\ hi'[p] < NVa /\ lo'[p] >= 1
      BY <1>1, <2>2, <3>1
    <3>6. Written(p)'
      BY <3>1, <3>4, <3>5 DEF Written
    <3>7. Built(p)'
      BY <3>1, <3>3, <3>5 DEF Built
    <3>8. Drafts(p)'
      BY <3>1, <3>6, <3>7 DEF Drafts, Copied
    <3>9. ASSUME NEW ts, ts = {PTE(tgt[p], va) : va \in Va} PROVE DInv' /\ Unseen
      BY <1>1, <1>2, <2>1, <3>1, <3>8, <3>9, ExecQuiet
    <3>10. QED
      BY <3>9
  <2>3. CASE Goto(p, "x_bad") /\ UNCHANGED <<tgt, cur, lo, hi, ret>>
    <3>1. ASSUME NEW ts, ts = {PTE(tgt[p], va) : va \in Va} PROVE DInv' /\ Unseen
      BY <1>3, <2>1, <2>3, <3>1
    <3>2. QED
      BY <3>1
  <2>4. QED
    BY <2>2, <2>3 DEF ExecLoad
<1>5. CASE Goto(p, "x_bad") /\ UNCHANGED <<data, tgt, cur, lo, hi, ret>>
  <2>1. Touches({})
    BY <1>5, NoTouch
  <2>2. QED
    BY <1>3, <1>5, <2>1
<1>6. QED
  BY <1>4, <1>5 DEF ExecLoad

LEMMA StackFacts ==
  ASSUME IInv, Struct, CInv, FInv, DInv, NEW p \in Proc, ExecStack(p)
  PROVE  /\ pc[p] = "x_stack" /\ Busy(p) /\ ~Dangles(p) /\ tgt[p] = Other(p) /\ tgt[p] # Own(p)
         /\ tgt[p] \in Space /\ tgt[p][1] = p /\ state[p] = "LIVE" /\ Fresh(tgt[p])
         /\ hi[p] \in Nat /\ hi[p] >= 3 /\ hi[p] < NVa /\ hi[p] - 1 \in Va /\ Full(tgt[p], hi[p])
         /\ Holds(tgt[p], 0, hi[p] - 2, "img") /\ Holds(tgt[p], hi[p] - 2, hi[p], "zero")
         /\ ref[PTE(tgt[p], hi[p] - 1)] # None /\ FlagsLocal(p) /\ UNCHANGED <<ref, state>>
         /\ data' = [data EXCEPT ![ref[PTE(tgt[p], hi[p] - 1)]] = "arg"]
         /\ Touches({PTE(tgt[p], hi[p] - 1)})
<1>1. /\ pc[p] = "x_stack" /\ UNCHANGED <<ref, state>>
      /\ perm' = [perm EXCEPT ![tgt[p]][hi[p] - 2] = @ \ {"U"}]
      /\ data' = [data EXCEPT ![ref[PTE(tgt[p], hi[p] - 1)]] = "arg"]
  BY DEF ExecStack, At
<1>2. /\ Busy(p) /\ ~Dangles(p) /\ tgt[p] = Other(p) /\ tgt[p] # Own(p)
      /\ tgt[p] \in Space /\ tgt[p][1] = p /\ state[p] = "LIVE" /\ hi[p] \in Nat
  BY <1>1, ExecFacts DEF Dangles
<1>3. /\ Fresh(tgt[p]) /\ hi[p] >= 3 /\ hi[p] < NVa /\ Full(tgt[p], hi[p])
      /\ Holds(tgt[p], 0, hi[p] - 2, "img") /\ Holds(tgt[p], hi[p] - 2, hi[p], "zero")
  BY <1>1, <1>2 DEF DInv, Drafts, Built, FInv, Filling
<1>4. hi[p] - 1 \in Va /\ ref[PTE(tgt[p], hi[p] - 1)] # None
  <2>1. hi[p] - 1 \in Va /\ hi[p] - 1 < hi[p]
    BY <1>2, <1>3, SizeAssumption DEF Va
  <2>2. QED
    BY <1>3, <2>1 DEF Full
<1>5. FlagsLocal(p)
  BY <1>1, <1>2, Types DEF FlagsLocal, MemOK
<1>6. Touches({PTE(tgt[p], hi[p] - 1)})
  BY <1>1, <1>2, <1>3, <1>4, FreshAlone, StoreTouches
<1>7. QED
  BY <1>1, <1>2, <1>3, <1>4, <1>5, <1>6

\* exec commits: the process sees its new image, with the arguments on the
\* stack, or it goes on with what it had.
LEMMA ExecStackSeen ==
  ASSUME IInv, Struct, CInv, FInv, DInv, NEW p \in Proc, ExecStack(p) PROVE DInv' /\ Shown
<1>1. /\ pc[p] = "x_stack" /\ Busy(p) /\ ~Dangles(p) /\ tgt[p] = Other(p) /\ tgt[p] # Own(p)
      /\ tgt[p] \in Space /\ tgt[p][1] = p /\ state[p] = "LIVE" /\ Fresh(tgt[p])
      /\ hi[p] \in Nat /\ hi[p] >= 3 /\ hi[p] < NVa /\ hi[p] - 1 \in Va /\ Full(tgt[p], hi[p])
      /\ Holds(tgt[p], 0, hi[p] - 2, "img") /\ Holds(tgt[p], hi[p] - 2, hi[p], "zero")
      /\ ref[PTE(tgt[p], hi[p] - 1)] # None /\ FlagsLocal(p) /\ UNCHANGED <<ref, state>>
      /\ data' = [data EXCEPT ![ref[PTE(tgt[p], hi[p] - 1)]] = "arg"]
      /\ Touches({PTE(tgt[p], hi[p] - 1)})
  BY StackFacts
<1>2. CASE Goto(p, "x_bad") /\ UNCHANGED <<side, sz, tgt, cur, lo, hi, ret>>
  <2>1. (\A q \in Proc \ {p} : ThreadSame(q)) /\ pc'[p] = "x_bad"
    BY <1>2, Types DEF ThreadSame, Goto, ThreadOK
  <2>2. Drafts(p)' /\ UNCHANGED pt
    BY <1>2, <2>1, PlainDrafts DEF PlainPcs, ExecStack, pt
  <2>3. QED
    BY <1>1, <1>2, <2>1, <2>2, ExecQuiet DEF Shown
<1>3. CASE /\ side' = [side EXCEPT ![p] = 1 - @] /\ sz' = [sz EXCEPT ![p] = hi[p]]
           /\ StartFreevm(p, OldSpace(p))
  <2>1. /\ \A q \in Proc \ {p} : ThreadSame(q) /\ ProcSame(q)
        /\ pc'[p] = "dv" /\ ret'[p] = "fv_tab" /\ sz'[p] = hi[p] /\ Own(p)' = tgt[p]
    BY <1>1, <1>3, StartDeallocSame, Types DEF StartFreevm, ProcSame, ProcOK, Own, Other
  <2>2. Drafts(p)' /\ RefLocal(p)
    BY <1>1, <2>1, RefSame DEF Drafts, Copied, Written, Built, GrowPcs
  <2>3. OwnSlot(p, PTE(tgt[p], hi[p] - 1))
    <3>1. hi[p] - 1 \in Nat
      BY <1>1
    <3>2. QED
      BY <3>1 DEF OwnSlot
  <2>4. ASSUME NEW np, np = tgt[p][1] PROVE DInv' /\ OnlyView(p)
    BY <1>1, <2>1, <2>2, <2>3, <2>4, OthersCalm DEF OnlyView
  <2>5. ASSUME NEW va \in 0 .. hi[p] - 1
        PROVE  data'[ref[PTE(tgt[p], va)]]
                 = IF va < hi[p] - 2 THEN "img" ELSE IF va = hi[p] - 2 THEN "zero" ELSE "arg"
    <3>1. va \in Va /\ va < hi[p] /\ va \in Int /\ hi[p] - 1 \in Int
      BY <1>1, SizeAssumption DEF Va
    <3>2. ref[PTE(tgt[p], va)] # None /\ ref[PTE(tgt[p], va)] \in Page
      BY <1>1, <3>1, SlotIn, Types DEF Full, MemOK
    <3>3. CASE va = hi[p] - 1
      BY <1>1, <3>1, <3>2, <3>3, Types DEF MemOK
    <3>4. CASE va # hi[p] - 1
      <4>1. PTE(tgt[p], va) \in Slot \ Dangling
        BY <1>1, <3>1, PathClean
      <4>2. PTE(tgt[p], va) # PTE(tgt[p], hi[p] - 1)
        BY <1>1, <3>1, <3>4, Slots
      <4>3. data'[ref[PTE(tgt[p], va)]] = data[ref[PTE(tgt[p], va)]]
        BY <1>1, <3>2, <4>1, <4>2, Untouched
      <4>4. CASE va < hi[p] - 2
        BY <1>1, <3>1, <3>2, <4>3, <4>4 DEF Holds
      <4>5. CASE va = hi[p] - 2
        BY <1>1, <3>1, <3>2, <4>3, <4>5 DEF Holds
      <4>6. QED
        BY <1>1, <3>1, <3>4, <4>4, <4>5
    <3>5. QED
      BY <3>3, <3>4
  <2>6. ASSUME NEW n, n = hi[p] - 2
        PROVE  /\ n \in 1 .. NVa - 3
               /\ View(p)' = [i \in 0 .. n + 1 |->
                                IF i < n THEN "img" ELSE IF i = n THEN "zero" ELSE "arg"]
    <3>1. n \in 1 .. NVa - 3 /\ n + 1 = hi[p] - 1
      BY <1>1, <2>6, SizeAssumption
    <3>2. ViewSz(p)' = hi[p] /\ \A va : ViewPage(p, va)' = ref[PTE(tgt[p], va)]
      BY <1>1, <2>1 DEF ViewSz, ViewPage
    <3>3. View(p)' = [va \in 0 .. hi[p] - 1 |-> data'[ref[PTE(tgt[p], va)]]]
      BY <1>1, <3>2 DEF View
    <3>4. QED
      BY <2>5, <2>6, <3>1, <3>3
  <2>7. View(p) # None
    BY <1>1, ViewAlive
  <2>8. DInv' /\ OnlyView(p)
    BY <2>4
  <2>9. ASSUME NEW n, n = hi[p] - 2 PROVE Private!Next
    BY <2>6, <2>7, <2>8, <2>9, ToExec
  <2>10. QED
    BY <2>8, <2>9 DEF Shown
<1>4. QED
  BY <1>2, <1>3 DEF ExecStack

LEMMA ExecSeen ==
  ASSUME IInv, Struct, CInv, FInv, DInv, NEW p \in Proc, Exec(p) PROVE DInv' /\ Shown
<1>1. CASE ExecBad(p)
  <2>1. /\ Busy(p) /\ pc[p] \notin GrowPcs /\ pc[p] # "pf_map" /\ UNCHANGED <<mm, pt>>
        /\ StartFreevm(p, tgt[p])
    BY <1>1 DEF ExecBad, At, Busy, GrowPcs
  <2>2. QuietTouch(p, {})
    BY <2>1, NothingTouched DEF OffPte, mm
  <2>3. QED
    BY <2>1, <2>2, FreevmQuiet DEF Shown
<1>2. QED
  BY <1>1, ExecLoadSeen, ExecStackSeen DEF Exec, Shown

-----------------------------------------------------------------------------
(* wait.                                                                   *)

LEMMA WaitKstackSeen ==
  ASSUME IInv, Struct, CInv, FInv, DInv, NEW p \in Proc, WaitKstack(p) PROVE DInv' /\ Unseen
<1>1. /\ pc[p] = "w_kstack" /\ Busy(p) /\ ~Dangles(p) /\ pc[p] \notin GrowPcs /\ pc[p] # "pf_map"
  BY DEF WaitKstack, At, Busy, Dangles, GrowPcs
<1>2. CASE KfreeSlot(KStack(tgt[p][1]), TRUE) /\ StartFreevm(p, tgt[p]) /\ UNCHANGED <<perm, pt>>
  <2>1. QuietTouch(p, {KStack(tgt[p][1])})
    BY <1>1, <1>2, KfreeQuiet
  <2>2. QED
    BY <1>1, <1>2, <2>1, FreevmQuiet
<1>3. QED
  BY <1>2, KfreePanicSeen DEF WaitKstack

LEMMA WaitDoneSeen ==
  ASSUME IInv, Struct, CInv, FInv, DInv, NEW p \in Proc, WaitDone(p), NEW np, np = tgt[p][1]
  PROVE  DInv' /\ Unseen
<1>1. /\ pc[p] = "w_done" /\ Jump(p, "user") /\ UNCHANGED <<ref, perm, data, sz>> /\ "user" \in Pcs
      /\ pc[p] \notin GrowPcs /\ pc[p] # "pf_map"
      /\ state' = [state EXCEPT ![np] = "UNUSED"] /\ side' = [side EXCEPT ![np] = 0]
  BY DEF WaitDone, At, mm, Pcs, GrowPcs
<1>2. Busy(p) /\ np # p /\ np \in Proc
  BY <1>1, WaitFacts
<1>3. /\ \A q \in Proc \ {p} : ThreadSame(q)
      /\ \A q \in Proc \ {np} : ProcSame(q)
      /\ pc'[p] = "user" /\ ret'[p] = "idle" /\ state'[np] = "UNUSED"
  BY <1>1, <1>2, JumpBounds, Types DEF ProcSame, ProcOK, Jump, ThreadOK
<1>4. RefLocal(p) /\ FlagsLocal(p) /\ Touches({}) /\ Drafts(p)' /\ ViewSz(p)' = ViewSz(p)
  BY <1>1, <1>3, RefSame, NoTouch, PlainDrafts, SameSz DEF FlagsLocal, PlainPcs
<1>5. QED
  BY <1>1, <1>2, <1>3, <1>4, QuietStep

LEMMA ReapSeen ==
  ASSUME IInv, Struct, CInv, FInv, DInv, NEW p \in Proc, Reap(p) PROVE DInv' /\ Unseen
<1>1. ASSUME NEW np, np = tgt[p][1], WaitDone(p) PROVE DInv' /\ Unseen
  BY <1>1, WaitDoneSeen
<1>2. QED
  BY <1>1, WaitKstackSeen DEF Reap

LEMMA KernelSeen ==
  ASSUME IInv, Struct, CInv, FInv, DInv, NEW p \in Proc, Kernel(p) PROVE DInv' /\ Shown
<1>1. Fault(p) \/ Setup(p) \/ Dealloc(p) \/ Reap(p) => DInv' /\ Unseen
  BY FaultSeen, SetupPgdirSeen, SetupKpdeSeen, DeallocSeen, ReapSeen DEF Setup
<1>2. Boot(p) => DInv' /\ Shown
  BY BootEarlySeen, BootMapSeen DEF Boot, Shown
<1>3. QED
  BY <1>1, <1>2, ForkSeen, AllocSeen, ExecSeen DEF Kernel, Shown

-----------------------------------------------------------------------------
(* User code.                                                              *)

\* A process in user mode and the kernel paths of the others.
LEMMA UserApart ==
  ASSUME IInv, Struct, FInv, NEW p \in Proc, pc[p] = "user"
  PROVE  /\ state[p] = "LIVE" /\ ViewSz(p) = sz[p] /\ ret[p] # "g_done" /\ Own(p) \in Space
         /\ \A q \in Proc \ {p} : Busy(q) => tgt[q][1] # p
         /\ \A va \in Va : PTE(Own(p), va) \in Slot \ Dangling
<1>1. /\ state[p] = "LIVE" /\ ViewSz(p) = sz[p] /\ ret[p] # "g_done" /\ Own(p) \in Space
      /\ Own(p)[1] = p
  BY UserFacts, CalmView DEF GrowPcs
<1>2. \A q \in Proc \ {p} : Busy(q) => tgt[q][1] # p
  BY UserAlone
<1>3. ASSUME NEW va \in Va, NEW r \in Proc, Dangles(r), PTE(Own(p), va) = Hole(r) PROVE FALSE
  <2>1. Busy(r) /\ tgt[r] \in Space /\ cur[r] \in Int /\ va \in Int /\ r # p
    BY <1>3, Types, Ints DEF Dangles, Busy
  <2>2. tgt[r] = Own(p)
    BY <1>1, <1>3, <2>1, Slots DEF Hole
  <2>3. QED
    BY <1>1, <1>2, <2>1, <2>2
<1>4. QED
  BY <1>1, <1>2, <1>3, DanglingIff, SlotIn

LEMMA UserFirst ==
  ASSUME IInv, Struct, DInv, NEW p \in Proc, pc[p] = "user", \A q \in Proc \ {p} : ThreadSame(q),
         \A q \in Proc \ {p} : state'[q] = state[q] \/ state[q] = "UNUSED",
         state'[p] # "EMBRYO"
  PROVE  \A q \in Proc : First(q)'
<1>1. SUFFICES ASSUME NEW q \in Proc, Busy(q)', state'[q] = "EMBRYO"
               PROVE  \A r \in Proc \ {q} : state'[r] = "UNUSED"
  BY DEF First
<1>2. q # p /\ Busy(q)
  BY <1>1 DEF ThreadSame, Busy
<1>3. state[q] = "EMBRYO"
  BY <1>1, <1>2, Types DEF ThreadsApart, Busy
<1>4. state[p] = "UNUSED" /\ state[p] = "LIVE"
  BY <1>2, <1>3, UserFacts DEF DInv, First
<1>5. QED
  BY <1>4

\* A step of user code that stores nothing.
LEMMA UserCalm ==
  ASSUME IInv, Struct, DInv, NEW p \in Proc, pc[p] = "user",
         UNCHANGED <<ref, perm, data, sz, side>>, \A q \in Proc \ {p} : ThreadSame(q),
         \A q \in Proc \ {p} : state'[q] = state[q] \/ (state[q] = "UNUSED" /\ state'[q] # "LIVE"),
         state'[p] # "EMBRYO", Drafts(p)'
  PROVE  DInv' /\ OnlyView(p)
<1>1. \A q \in Proc : First(q)'
  BY UserFirst
<1>2. ASSUME NEW q \in Proc \ {p} PROVE View(q)' = View(q) /\ Drafts(q)'
  <2>1. /\ pc'[q] = pc[q] /\ tgt'[q] = tgt[q] /\ cur'[q] = cur[q] /\ lo'[q] = lo[q]
        /\ hi'[q] = hi[q] /\ ret'[q] = ret[q] /\ Own(q)' = Own(q) /\ Other(q)' = Other(q)
    BY <1>2 DEF ThreadSame, Own, Other
  <2>2. Copied(q)' /\ Built(q)'
    BY <1>2, <2>1 DEF DInv, Drafts, Copied, Built, Holds, Fresh
  <2>3. Written(q)'
    BY <1>2, <2>1 DEF DInv, Drafts, Written, Holds
  <2>4. ViewSz(q)' = ViewSz(q) /\ \A va : ViewPage(q, va)' = ViewPage(q, va)
    BY <2>1 DEF ViewSz, ViewPage
  <2>5. View(q)' = View(q)
    BY <2>4 DEF View
  <2>6. QED
    BY <2>2, <2>3, <2>5 DEF Drafts
<1>3. QED
  BY <1>1, <1>2 DEF DInv, OnlyView

\* A system call or a fault begins.
LEMMA EnterQuiet ==
  ASSUME IInv, Struct, FInv, DInv, NEW p \in Proc, pc[p] = "user",
         UNCHANGED <<ref, perm, data, sz, side>>, \A q \in Proc \ {p} : ThreadSame(q),
         \A q \in Proc \ {p} : state'[q] = state[q] \/ (state[q] = "UNUSED" /\ state'[q] # "LIVE"),
         state'[p] = state[p], Drafts(p)', pc'[p] # "pf_map",
         ret'[p] # "g_done" \/ hi'[p] # sz[p]
  PROVE  DInv' /\ Unseen
<1>1. DInv' /\ OnlyView(p)
  BY UserApart, UserCalm
<1>2. ViewSz(p)' = ViewSz(p) /\ \A va : ViewPage(p, va)' = ViewPage(p, va)
  BY UserApart DEF ViewSz, ViewPage, Own
<1>3. View(p)' = View(p)
  BY <1>2 DEF View
<1>4. QED
  BY <1>1, <1>3 DEF OnlyView, Unseen

\* What a process in user mode stores in its page nobody else sees.
LEMMA StoreApart ==
  ASSUME IInv, Struct, CInv, FInv, NEW p \in Proc, pc[p] = "user", NEW va \in Va,
         Touches({PTE(Own(p), va)}), UNCHANGED <<ref, perm, pt, kt>>,
         NEW q \in Proc \ {p}, Drafts(q)
  PROVE  Drafts(q)' /\ View(q)' = View(q)
<1>1. UNCHANGED <<state, sz, side, pc, tgt, cur, lo, hi, ret>>
  BY DEF pt, kt, loc
<1>2. Own(p) \in Space /\ Own(p)[1] = p /\ Own(q) \in Space /\ Own(q)[1] = q /\ Va \subseteq Int
  BY OwnIn, Types, Ints
<1>3. View(q)' = View(q)
  <2>1. ASSUME NEW b \in Va, state[q] = "LIVE", b < ViewSz(q)
        PROVE  data'[ViewPage(q, b)'] = data[ViewPage(q, b)]
    <3>1. ViewSlot(q, b) \in Slot \ Dangling /\ ref[ViewSlot(q, b)] # None
          /\ ViewPage(q, b) = ref[ViewSlot(q, b)]
      BY <2>1, ViewClean
    <3>2. ViewSlot(q, b) # PTE(Own(p), va)
      BY <1>2, Slots DEF ViewSlot
    <3>3. ViewPage(q, b)' = ViewPage(q, b)
      BY <1>1 DEF ViewPage, Own
    <3>4. QED
      BY <3>1, <3>2, <3>3, Untouched
  <2>2. ViewSz(q)' = ViewSz(q)
    BY <1>1 DEF ViewSz
  <2>3. QED
    BY <1>1, <2>1, <2>2, SameView
<1>4. CASE ~Busy(q) \/ Dangles(q)
  BY <1>1, <1>3, <1>4 DEF Busy, Dangles, Drafts, Copied, Written, Built, GrowPcs
<1>5. CASE Busy(q) /\ ~Dangles(q)
  <2>1. tgt[q] \in Space /\ tgt[q][1] # p
    BY <1>5, UserApart, Types
  <2>2. ASSUME NEW b \in Va, ref[PTE(tgt[q], b)] # None
        PROVE  data'[ref[PTE(tgt[q], b)]] = data[ref[PTE(tgt[q], b)]]
    <3>1. PTE(tgt[q], b) \in Slot \ Dangling
      BY <1>5, PathClean
    <3>2. PTE(tgt[q], b) # PTE(Own(p), va)
      BY <1>2, <2>1, Slots
    <3>3. QED
      BY <2>2, <3>1, <3>2, Untouched
  <2>3. ref[Mem(q)] # None => data'[ref[Mem(q)]] = data[ref[Mem(q)]]
    <3>1. \A r \in Proc : Dangles(r) => Mem(q) # Hole(r)
      BY Slots, Types, Ints DEF Hole
    <3>2. Mem(q) \in Slot \ Dangling /\ Mem(q) # PTE(Own(p), va)
      BY <1>2, <3>1, DanglingIff, SlotIn, Slots
    <3>3. QED
      BY <3>2, Untouched
  <2>4. \A a, b, x : Holds(tgt[q], a, b, x) => \A c \in Va :
           a <= c /\ c < b /\ ref[PTE(tgt[q], c)] # None => data'[ref[PTE(tgt[q], c)]] = x
    BY <2>2 DEF Holds
  <2>5. pc[q] = "pf_free" => data'[ref[PTE(tgt[q], cur[q])]] = data[ref[PTE(tgt[q], cur[q])]]
    BY <2>2, Types DEF Label, Hold
  <2>6. Copied(q)'
    BY <1>1 DEF Drafts, Copied, Own
  <2>7. Written(q)'
    BY <1>1, <2>3, <2>4, <2>5, Types DEF Drafts, Written, Holds, Hold
  <2>8. Built(q)'
    BY <1>1, <2>4 DEF Drafts, Built, Holds, Fresh, Other
  <2>9. QED
    BY <1>3, <2>6, <2>7, <2>8 DEF Drafts
<1>6. QED
  BY <1>3, <1>4, <1>5

LEMMA WriteSeen ==
  ASSUME IInv, Struct, CInv, FInv, TInv, DInv, NEW p \in Proc, NEW va \in Va, NEW v \in Val,
         UserWrite(p, va, v)
  PROVE  DInv' /\ Shown
<1>1. /\ pc[p] = "user" /\ Allows(tlb[p][va], TRUE, TRUE) /\ UNCHANGED <<ref, perm, pt, kt>>
      /\ data' = [data EXCEPT ![tlb[p][va][1]] = v]
  BY DEF UserWrite, At
<1>2. /\ state[p] = "LIVE" /\ ViewSz(p) = sz[p] /\ Own(p) \in Space
      /\ \A b \in Va : PTE(Own(p), b) \in Slot \ Dangling
  BY <1>1, UserApart
<1>3. /\ va < ViewSz(p) /\ ref[PTE(Own(p), va)] # None /\ "W" \in perm[Own(p)][va]
      /\ tlb[p][va][1] = ref[PTE(Own(p), va)]
  <2>1. tlb[p][va] # None /\ "W" \in tlb[p][va][2]
    BY <1>1 DEF Allows
  <2>2. Cached(p)
    BY DEF TInv
  <2>3. va < sz[p]
    BY <2>1, <2>2 DEF Cached
  <2>4. va < ViewSz(p)
    BY <1>2, <2>3
  <2>5. tlb[p][va] = Entry(Own(p), va)
    BY <2>1, <2>2, <2>4 DEF Cached
  <2>6. ref[PTE(Own(p), va)] # None
    BY <2>1, <2>5 DEF Entry
  <2>7. tlb[p][va] = <<ref[PTE(Own(p), va)], perm[Own(p)][va]>>
    BY <2>5, <2>6 DEF Entry
  <2>8. tlb[p][va][1] = ref[PTE(Own(p), va)] /\ tlb[p][va][2] = perm[Own(p)][va]
    BY <2>7
  <2>9. QED
    BY <2>1, <2>4, <2>6, <2>8
<1>4. PTE(Own(p), va) \in Exclusive
  BY <1>2, <1>3, AloneIff DEF Exclusive
<1>5. data' = [data EXCEPT ![ref[PTE(Own(p), va)]] = v]
  BY <1>1, <1>3
<1>6. Touches({PTE(Own(p), va)})
  BY <1>2, <1>3, <1>4, <1>5, StoreTouches
<1>7. UNCHANGED <<state, sz, side, pc, tgt, cur, lo, hi, ret>>
  BY <1>1 DEF pt, kt, loc
<1>8. DInv' /\ OnlyView(p)
  <2>1. \A q \in Proc \ {p} : Drafts(q)' /\ View(q)' = View(q)
    BY <1>1, <1>6, StoreApart DEF DInv
  <2>2. Drafts(p)'
    BY <1>1, <1>7, PlainDrafts DEF PlainPcs
  <2>3. \A q \in Proc : First(q)'
    BY <1>7 DEF DInv, First, Busy
  <2>4. QED
    BY <2>1, <2>2, <2>3 DEF DInv, OnlyView
<1>9. \A b : ViewPage(p, b) = ref[PTE(Own(p), b)] /\ ViewPage(p, b)' = ref[PTE(Own(p), b)]
  BY <1>1, <1>7 DEF ViewPage, Own
<1>10. ASSUME NEW b \in 0 .. sz[p] - 1
       PROVE  data'[ref[PTE(Own(p), b)]] = IF b = va THEN v ELSE data[ref[PTE(Own(p), b)]]
  <2>1. b \in Va /\ b < ViewSz(p) /\ b \in Int /\ va \in Int
    BY <1>2, ViewRange, Ints
  <2>2. ref[PTE(Own(p), b)] # None /\ ref[PTE(Own(p), b)] \in Page
    <3>1. ref[PTE(Own(p), b)] # None
      BY <1>2, <2>1 DEF FInv, Viewed, Full
    <3>2. QED
      BY <1>2, <2>1, <3>1, Types DEF MemOK
  <2>3. CASE b = va
    BY <1>5, <2>2, <2>3, Types DEF MemOK
  <2>4. CASE b # va
    <3>1. PTE(Own(p), b) # PTE(Own(p), va)
      BY <1>2, <2>1, <2>4, Slots
    <3>2. QED
      BY <1>2, <1>6, <2>1, <2>2, <2>4, <3>1, Untouched
  <2>5. QED
    BY <2>3, <2>4
<1>11. View(p) = [b \in 0 .. sz[p] - 1 |-> data[ref[PTE(Own(p), b)]]]
  BY <1>2, <1>9 DEF View
<1>12. View(p)' = [b \in 0 .. sz[p] - 1 |-> data'[ref[PTE(Own(p), b)]]]
  <2>1. ViewSz(p)' = sz[p]
    BY <1>2, <1>7 DEF ViewSz
  <2>2. QED
    BY <1>2, <1>7, <1>9, <2>1 DEF View
<1>13. va \in 0 .. sz[p] - 1
  BY <1>2, <1>3, ViewRange
<1>14. View(p)' = [View(p) EXCEPT ![va] = v] /\ va \in DOMAIN View(p)
  <2> DEFINE D == 0 .. sz[p] - 1
  <2>1. /\ DOMAIN View(p) = D
        /\ \A b \in D : View(p)[b] = data[ref[PTE(Own(p), b)]]
    BY <1>11
  <2>2. [View(p) EXCEPT ![va] = v] = [b \in D |-> IF b = va THEN v ELSE View(p)[b]]
    BY <1>11
  <2>3. ASSUME NEW b \in D
        PROVE  data'[ref[PTE(Own(p), b)]] = IF b = va THEN v ELSE View(p)[b]
    BY <1>10, <2>1
  <2> HIDE DEF D
  <2>4. View(p)' = [b \in D |-> data'[ref[PTE(Own(p), b)]]]
    BY <1>12 DEF D
  <2>5. View(p)' = [View(p) EXCEPT ![va] = v]
    BY <2>2, <2>3, <2>4
  <2>6. QED
    BY <1>13, <2>1, <2>5 DEF D
<1>15. View(p) # None
  BY <1>2, ViewAlive
<1>16. QED
  BY <1>8, <1>14, <1>15, ToWrite DEF Shown

\* sbrk takes the pages away at once: deallocuvm has not yet run.
LEMMA ShrinkSeen ==
  ASSUME IInv, Struct, CInv, FInv, DInv, NEW p \in Proc, NEW n \in Int, SbrkShrink(p, n)
  PROVE  DInv' /\ Shown
<1>1. /\ pc[p] = "user" /\ n < 0 /\ sz[p] + n > 0 /\ UNCHANGED <<ref, perm, data, state, sz, side>>
      /\ StartDealloc(p, Own(p), sz[p] + n, sz[p], "g_done")
  BY DEF SbrkShrink, At, mm, pt
<1>2. state[p] = "LIVE" /\ ViewSz(p) = sz[p] /\ sz[p] \in Nat /\ sz[p] <= NVa /\ NVa \in Nat
  BY <1>1, UserApart, UserFacts, SizeAssumption
<1>3. /\ \A q \in Proc \ {p} : ThreadSame(q)
      /\ pc'[p] = "dv" /\ lo'[p] = sz[p] + n /\ hi'[p] = sz[p] /\ ret'[p] = "g_done"
  BY <1>1, StartDeallocSame, Types
<1>4. Drafts(p)'
  BY <1>1, <1>3 DEF Drafts, Copied, Written, Built, GrowPcs
<1>5. DInv' /\ OnlyView(p)
  BY <1>1, <1>2, <1>3, <1>4, UserCalm
<1>6. ViewSz(p)' = sz[p] + n /\ \A va : ViewPage(p, va)' = ViewPage(p, va)
  BY <1>1, <1>3 DEF ViewSz, ViewPage, Own
<1>7. View(p) = [i \in 0 .. sz[p] - 1 |-> data[ViewPage(p, i)]]
  BY <1>2 DEF View
<1>8. View(p)' = [i \in 0 .. sz[p] + n - 1 |-> data[ViewPage(p, i)]]
  BY <1>1, <1>2, <1>6 DEF View
<1>9. ASSUME NEW m, m = sz[p] + n PROVE Private!Next
  <2>1. m \in 1 .. NVa - 1 /\ \A i \in 0 .. m - 1 : i \in 0 .. sz[p] - 1
    BY <1>1, <1>2, <1>9
  <2>2. View(p)' = [i \in 0 .. m - 1 |-> IF i \in DOMAIN View(p) THEN View(p)[i] ELSE "zero"]
    <3>1. View(p)' = [i \in 0 .. m - 1 |-> data[ViewPage(p, i)]]
      <4>1. sz[p] + n - 1 = m - 1
        BY <1>2, <1>9, <2>1
      <4>2. QED
        BY <1>8, <4>1
    <3>2. ASSUME NEW i \in 0 .. m - 1
          PROVE  data[ViewPage(p, i)] = IF i \in DOMAIN View(p) THEN View(p)[i] ELSE "zero"
      <4>1. i \in 0 .. sz[p] - 1
        BY <2>1
      <4>2. i \in DOMAIN View(p) /\ View(p)[i] = data[ViewPage(p, i)]
        BY <1>7, <4>1
      <4>3. QED
        BY <4>2
    <3>3. QED
      BY <3>1, <3>2, Zenon
  <2>3. View(p) # None
    BY <1>2, ViewAlive
  <2>4. QED
    BY <1>5, <2>1, <2>2, <2>3, ToResize
<1>10. QED
  BY <1>5, <1>9 DEF Shown

LEMMA GrowSeen ==
  ASSUME IInv, Struct, CInv, FInv, DInv, NEW p \in Proc, NEW n \in Int, SbrkGrow(p, n)
  PROVE  DInv' /\ Unseen
<1>1. /\ pc[p] = "user" /\ n > 0 /\ sz[p] + n < NVa /\ UNCHANGED <<ref, perm, data, state, sz, side>>
      /\ StartAlloc(p, Own(p), sz[p], sz[p] + n, "g_done")
  BY DEF SbrkGrow, At, mm, pt
<1>2. sz[p] \in Nat /\ Own(p) # Other(p)
  BY <1>1, UserFacts
<1>3. /\ \A q \in Proc \ {p} : ThreadSame(q)
      /\ pc'[p] = "a_alloc" /\ tgt'[p] = Own(p) /\ lo'[p] = sz[p] /\ hi'[p] = sz[p] + n
      /\ cur'[p] = sz[p] /\ ret'[p] = "g_done"
  BY <1>1, StartAllocSame, Types
<1>4. Holds(tgt[p], lo[p], cur[p], "zero")'
  <2>1. \A va \in Va : ~(sz[p] <= va /\ va < sz[p])
    BY <1>2, Ints
  <2>2. QED
    BY <1>3, <2>1 DEF Holds
<1>5. Written(p)'
  BY <1>1, <1>2, <1>3, <1>4 DEF Written
<1>6. Built(p)'
  BY <1>1, <1>2, <1>3 DEF Built, Other, Own
<1>7. Drafts(p)' /\ hi'[p] # sz[p] /\ pc'[p] # "pf_map"
  BY <1>1, <1>2, <1>3, <1>5, <1>6 DEF Drafts, Copied
<1>8. QED
  BY <1>1, <1>3, <1>7, EnterQuiet

LEMMA ExitSeen ==
  ASSUME IInv, Struct, CInv, FInv, DInv, NEW p \in Proc, Exit(p) PROVE DInv' /\ Shown
<1>1. CASE Panic("init exiting")
  BY <1>1, PanicSeen DEF Shown
<1>2. CASE /\ state' = [state EXCEPT ![p] = "ZOMBIE"] /\ Jump(p, "idle")
           /\ UNCHANGED <<mm, sz, side>>
  <2>1. pc[p] = "user" /\ "idle" \in Pcs /\ UNCHANGED <<ref, perm, data>>
    BY <1>2 DEF Exit, At, Pcs, mm
  <2>2. /\ \A q \in Proc \ {p} : ThreadSame(q) /\ state'[q] = state[q]
        /\ pc'[p] = "idle" /\ state'[p] = "ZOMBIE"
    BY <1>2, <2>1, JumpBounds, Types DEF ProcOK
  <2>3. Drafts(p)'
    BY <2>2, PlainDrafts DEF PlainPcs
  <2>4. DInv' /\ OnlyView(p)
    BY <1>2, <2>1, <2>2, <2>3, UserCalm
  <2>5. View(p)' = None
    BY <2>2 DEF View
  <2>6. View(p) # None
    BY <2>1, UserApart, ViewAlive
  <2>7. QED
    BY <2>4, <2>5, <2>6, ToExit DEF Shown
<1>3. QED
  BY <1>1, <1>2 DEF Exit

LEMMA UserSeen ==
  ASSUME "sbrk_all" \notin Calls, IInv, Struct, CInv, FInv, TInv, DInv, NEW p \in Proc, User(p)
  PROVE  DInv' /\ Shown
<1>1. ASSUME NEW va, TlbFill(p, va) \/ Yield(p) PROVE DInv' /\ Shown
  BY <1>1, StillSeen DEF TlbFill, Yield, Shown
<1>2. ASSUME NEW l \in PlainPcs \ {"pf_map", "dv_clear"}, Goto(p, l), pc[p] = "user",
             UNCHANGED <<ref, perm, data, sz, side, lo, hi, ret>>,
             \A q \in Proc \ {p} : tgt'[q] = tgt[q] /\ cur'[q] = cur[q],
             \A q \in Proc \ {p} : state'[q] = state[q]
                                     \/ (state[q] = "UNUSED" /\ state'[q] # "LIVE"),
             state'[p] = state[p]
      PROVE  DInv' /\ Shown
  <2>1. (\A q \in Proc \ {p} : ThreadSame(q)) /\ pc'[p] = l /\ l # "pf_map"
    BY <1>2, Types DEF ThreadSame, Goto, ThreadOK
  <2>2. Drafts(p)'
    BY <1>2, <2>1, PlainDrafts
  <2>3. ret'[p] # "g_done"
    BY <1>2, UserApart
  <2>4. QED
    BY <1>2, <2>1, <2>2, <2>3, EnterQuiet DEF Shown
<1>3. ASSUME NEW va, NEW w, NEW usr, PageFault(p, va, w, usr) PROVE DInv' /\ Shown
  <2>1. CASE Panic("pagefault handler")
    BY <2>1, PanicSeen DEF Shown
  <2>2. ASSUME Goto(p, "pf_alloc"), tgt' = [tgt EXCEPT ![p] = Own(p)],
               cur' = [cur EXCEPT ![p] = va], UNCHANGED <<mm, pt, lo, hi, ret>>
        PROVE  DInv' /\ Shown
    <3>1. /\ pc[p] = "user" /\ UNCHANGED <<ref, perm, data, sz, side, state>>
          /\ "pf_alloc" \in PlainPcs \ {"pf_map", "dv_clear"}
      BY <1>3, <2>2 DEF PageFault, At, mm, pt, PlainPcs
    <3>2. QED
      BY <1>2, <2>2, <3>1
  <2>3. QED
    BY <1>3, <2>1, <2>2 DEF PageFault
<1>4. CASE ForkStart(p)
  <2>1. PICK np \in Proc : /\ state[np] = "UNUSED" /\ state' = [state EXCEPT ![np] = "EMBRYO"]
                           /\ tgt' = [tgt EXCEPT ![p] = Own(np)]
    BY <1>4 DEF ForkStart, Own
  <2>2. pc[p] = "user" /\ Goto(p, "f_kstack") /\ UNCHANGED <<ref, perm, data, sz, side, cur, lo, hi, ret>>
    BY <1>4 DEF ForkStart, At, mm
  <2>3. state[p] = "LIVE" /\ "f_kstack" \in PlainPcs \ {"pf_map", "dv_clear"}
    BY <2>2, UserFacts DEF PlainPcs
  <2>4. /\ \A q \in Proc \ {p} : state'[q] = state[q] \/ (state[q] = "UNUSED" /\ state'[q] # "LIVE")
        /\ state'[p] = state[p]
    BY <2>1, <2>3, Types DEF ProcOK
  <2>5. \A q \in Proc \ {p} : tgt'[q] = tgt[q]
    BY <2>1, Types DEF ThreadOK
  <2>6. QED
    BY <1>2, <2>2, <2>3, <2>4, <2>5
<1>5. CASE Wait(p)
  <2>1. PICK c \in Proc : tgt' = [tgt EXCEPT ![p] = Own(c)]
    BY <1>5 DEF Wait, Own
  <2>2. /\ pc[p] = "user" /\ Goto(p, "w_kstack")
        /\ UNCHANGED <<ref, perm, data, state, sz, side, cur, lo, hi, ret>>
        /\ "w_kstack" \in PlainPcs \ {"pf_map", "dv_clear"}
    BY <1>5 DEF Wait, At, mm, PlainPcs
  <2>3. QED
    BY <1>2, <2>1, <2>2
<1>6. ASSUME NEW n \in Int, n >= 1, ExecStart(p, n) PROVE DInv' /\ Shown
  <2>1. /\ pc[p] = "user" /\ Goto(p, "s_pgdir") /\ UNCHANGED <<ref, perm, data, state, sz, side>>
        /\ tgt' = [tgt EXCEPT ![p] = Other(p)] /\ lo' = [lo EXCEPT ![p] = 0]
        /\ hi' = [hi EXCEPT ![p] = n] /\ cur' = [cur EXCEPT ![p] = 0]
        /\ ret' = [ret EXCEPT ![p] = "x_load"]
    BY <1>6 DEF ExecStart, At, mm, pt
  <2>2. /\ \A q \in Proc \ {p} : ThreadSame(q)
        /\ pc'[p] = "s_pgdir" /\ lo'[p] = 0 /\ hi'[p] = n /\ ret'[p] = "x_load"
    BY <2>1, Types DEF ThreadSame, Goto, ThreadOK
  <2>3. Drafts(p)'
    BY <1>6, <2>2 DEF Drafts, Copied, Written, Built, GrowPcs
  <2>4. QED
    BY <2>1, <2>2, <2>3, EnterQuiet DEF Shown
<1>7. ~SbrkAll(p)
  BY DEF SbrkAll
<1>8. ASSUME NEW n \in Int, SbrkGrow(p, n) \/ SbrkShrink(p, n) PROVE DInv' /\ Shown
  BY <1>8, GrowSeen, ShrinkSeen DEF Shown
<1>9. /\ 1 .. NVa \subseteq Int /\ -NVa .. -1 \subseteq Int
      /\ \A n \in 1 .. NVa - 1 : n \in Int /\ n >= 1
  BY SizeAssumption
<1>10. QED
  BY <1>1, <1>3, <1>4, <1>5, <1>6, <1>7, <1>8, <1>9, WriteSeen, ExitSeen DEF User

-----------------------------------------------------------------------------
(* The copy-on-write kernel implements PrivateMem.                         *)

LEMMA InitDrafts == Init => DInv
<1> SUFFICES ASSUME Init, NEW q \in Proc PROVE Drafts(q) /\ First(q)
  BY DEF DInv
<1>1. pc[q] \in {"b_kstack", "idle"} /\ ret[q] = "idle"
  BY DEF Init
<1>2. Drafts(q)
  BY <1>1 DEF Drafts, Copied, Written, Built, GrowPcs
<1>3. First(q)
  BY DEF Init, First, Busy
<1>4. QED
  BY <1>2, <1>3

LEMMA InitViews == Init => Private!Init
<1> SUFFICES ASSUME Init PROVE Private!Init
  OBVIOUS
<1>1. \A q \in Proc : View(q) = None
  BY DEF Init, View
<1>2. QED
  BY <1>1 DEF Private!Init

LEMMA NextSeen ==
  ASSUME "sbrk_all" \notin Calls, IInv, Struct, CInv, FInv, TInv, DInv, [Next]_vars
  PROVE  DInv' /\ Shown
<1>1. CASE Halted \/ UNCHANGED vars
  <2>1. UNCHANGED <<mm, pt, kt>>
    BY <1>1 DEF Halted, vars, mm, pt, kt, loc
  <2>2. QED
    BY <2>1, StillSeen DEF Shown
<1>2. ASSUME NEW p \in Proc, Kernel(p) PROVE DInv' /\ Shown
  BY <1>2, KernelSeen
<1>3. ASSUME NEW p \in Proc, User(p) PROVE DInv' /\ Shown
  BY <1>3, UserSeen
<1>4. QED
  BY <1>1, <1>2, <1>3 DEF Next

LEMMA ShownViews == Shown => [Private!Next]_Views
<1>1. Unseen => Views' = Views
  BY DEF Unseen, Views
<1>2. QED
  BY <1>1 DEF Shown

\* What a fork, a page fault, an sbrk or an exec that is still running has
\* written: the child's page tables name the parent's pages (copyuvm), the
\* copy of a page has its contents (handle_pgflt_helper), new pages are zero
\* (allocuvm), and exec's new image is the program's, with a stack of its own.
THEOREM DraftsAreTrue ==
  ASSUME "sbrk_all" \notin Calls
  PROVE  Spec => []DInv
<1>1. (IInv /\ Struct /\ CInv /\ SInv /\ FInv /\ TInv) /\ DInv /\ [Next]_vars => DInv'
  BY NextSeen
<1>2. QED
  BY <1>1, InitDrafts, AccessInvariance, PTL DEF Spec

\* No process can tell that pages are shared: whatever forks, stores, page
\* faults, sbrks, execs and exits interleave, each process reads and writes a
\* memory of its own, which fork copies as a whole (vm.c:316 copyuvm), as long
\* as no process gives back its whole address space with one sbrk.
THEOREM SharingIsInvisible ==
  ASSUME "sbrk_all" \notin Calls
  PROVE  Spec => ImplementsPrivateMem
<1> DEFINE V == [p \in Proc |-> View(p)]
<1>1. (IInv /\ Struct /\ CInv /\ SInv /\ FInv /\ TInv) /\ DInv /\ [Next]_vars
        => [Private!Next]_V
  BY NextSeen, ShownViews DEF Views
<1>2. Spec => Private!Init /\ [][Private!Next]_V
  <2> HIDE DEF V
  <2>1. QED
    BY <1>1, InitViews, AccessInvariance, DraftsAreTrue, PTL DEF Spec
<1>3. QED
  BY <1>2, PTL DEF ImplementsPrivateMem, Private!Spec
=============================================================================
