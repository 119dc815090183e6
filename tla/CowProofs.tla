------------------------------ MODULE CowProofs ------------------------------
(***************************************************************************)
(* Proofs about module Cow, for every number of processes, pages and       *)
(* addresses and every choice of the page that kalloc returns: what each   *)
(* kernel thread knows at its labels, and which places hold a page at      *)
(* which label of each kernel path.  A slot that kalloc fills must be      *)
(* empty before, or a page is lost; a slot that a path leaves must be      *)
(* empty after, or a page leaks.  From that: reference counts count        *)
(* references, and a page that one process may write is in no other place. *)
(***************************************************************************)
EXTENDS Cow, FiniteSetTheorems, TLAPS

\* What a kernel thread knows at its labels.
Label(p) ==
  /\ pc[p] \in {"f_kstack", "f_copy", "f_map", "f_unref", "f_fail",
                 "w_kstack", "w_done"} => tgt[p][1] # p
  /\ pc[p] \in {"w_kstack", "w_done"} => state[tgt[p][1]] = "ZOMBIE"
  /\ pc[p] \in {"pf_alloc", "pf_copy", "pf_free", "pf_map"} =>
       tgt[p] = Own(p) /\ cur[p] \in Va
  /\ pc[p] \in {"dv_clear", "f_map"} => cur[p] \in Va
  /\ pc[p] \in {"dv", "dv_clear"} =>
       ret[p] \in {"fv_tab", "g_done", "user", "x_bad", "a_free"}
  /\ pc[p] \in {"a_alloc", "a_map"} =>
       ret[p] \in {"g_done", "x_load", "x_stack"}
  /\ pc[p] \in {"s_pgdir", "s_kpde"} /\ tgt[p][1] = p /\ state[p] # "EMBRYO"
       => ret[p] = "x_load"
  /\ pc[p] = "b_kstack" => tgt[p][1] = p /\ state[p] = "EMBRYO"

\* The pages that a kernel thread relies on.
Hold(p) ==
  /\ pc[p] \in {"pf_alloc", "pf_copy", "pf_free", "pf_map", "dv_clear"} =>
       ref[PTE(tgt[p], cur[p])] # None
  /\ pc[p] \in {"pf_copy", "pf_free", "pf_map", "f_map", "f_unref", "a_map",
                 "a_free", "b_map"} => ref[Mem(p)] # None
  /\ pc[p] \in {"dv", "dv_clear"} /\ ret[p] = "a_free" => ref[Mem(p)] # None

IInv == /\ TypeOK
        /\ ThreadsApart
        /\ \A p \in Proc : Label(p) /\ Hold(p)

-----------------------------------------------------------------------------
(* The slots are all different.                                            *)

LEMMA SlotDistinct ==
  /\ \A p, q \in Proc : Mem(p) = Mem(q) => p = q
  /\ \A s, t \in Space, a, b \in Nat :
       PTE(s, a) = PTE(t, b) => s = t /\ a = b
  /\ \A p, q \in Proc, s, t \in Space, a, b \in Nat :
       /\ Mem(p) # PTE(s, a) /\ Mem(p) # PDE(s, a)
       /\ Mem(p) # PgDir(s) /\ Mem(p) # KStack(q)
       /\ PTE(s, a) # PDE(t, b) /\ PTE(s, a) # PgDir(t)
       /\ PTE(s, a) # KStack(q)
BY DEF Mem, PTE, PDE, PgDir, KStack

LEMMA SlotIn ==
  /\ \A p \in Proc : Mem(p) \in Slot /\ KStack(p) \in Slot
  /\ \A s \in Space : PgDir(s) \in Slot
  /\ \A s \in Space, a \in Va : PTE(s, a) \in Slot /\ PDE(s, PDX(a)) \in Slot
  /\ \A s \in Space, i \in Pde : PDE(s, i) \in Slot
BY DEF Mem, PTE, PDE, PgDir, KStack, Slot, Space, Pde, UPde

-----------------------------------------------------------------------------
(* What the building blocks leave of the types.                            *)

LEMMA KallocOK ==
  ASSUME MemOK, NEW pg \in freelist, Kalloc(pg)
  PROVE  /\ pg \in Page /\ pg # None
         /\ freelist' \in SUBSET Page
         /\ rc' \in [Page -> Nat]
BY PageAssumption DEF MemOK, Kalloc

LEMMA KfreeOK ==
  ASSUME MemOK, NEW s \in Slot, Kfreeable(s), Kfree(ref[s])
  PROVE  /\ ref[s] \in Page
         /\ freelist' \in SUBSET Page
         /\ rc' \in [Page -> Nat]
         /\ data' \in [Page -> Data]
BY DEF MemOK, Kfree, Kfreeable, Data

LEMMA KfreeSlotOK ==
  ASSUME MemOK, NEW s \in Slot, NEW d \in BOOLEAN, KfreeSlot(s, d),
         UNCHANGED perm
  PROVE  MemOK'
BY KfreeOK DEF MemOK, KfreeSlot

LEMMA MappagesOK ==
  ASSUME MemOK, NEW p \in Proc, NEW s \in Space, NEW va \in Nat,
         NEW fl \in SUBSET {"W", "U", "COW"}, Mappages(p, s, va, fl)
  PROVE  MemOK'
<1>1. ref[Mem(p)] \in Page \cup {None}
  BY SlotIn DEF MemOK
<1>2. /\ freelist' \in SUBSET Page
      /\ rc' \in [Page -> Nat]
  BY KallocOK DEF Mappages, MemOK
<1>3. ref' \in [Slot -> Page \cup {None}]
  BY <1>1, KallocOK DEF Mappages, MemOK
<1>4. perm' \in [Space -> [Va -> SUBSET {"W", "U", "COW"}]]
  BY DEF Mappages, MemOK
<1>5. QED
  BY <1>2, <1>3, <1>4 DEF Mappages, MemOK

LEMMA JumpOK ==
  ASSUME ThreadOK, NEW p \in Proc, NEW l \in Pcs, Jump(p, l)
  PROVE  /\ ThreadOK'
         /\ pc' = [pc EXCEPT ![p] = l]
         /\ l # "user" => UNCHANGED loc
         /\ \A q \in Proc \ {p} : /\ tgt'[q] = tgt[q]
                                  /\ cur'[q] = cur[q]
                                  /\ ret'[q] = ret[q]
<1>1. "idle" \in Pcs
  BY DEF Pcs
<1>2. <<p, 0>> \in Space
  BY DEF Space
<1>3. 0 \in 0 .. NVa
  BY SizeAssumption
<1>4. CASE l = "user"
  BY <1>1, <1>2, <1>3, <1>4 DEF Jump, Goto, ThreadOK
<1>5. CASE l # "user"
  BY <1>5 DEF Jump, Goto, ThreadOK, loc
<1>6. QED
  BY <1>4, <1>5

LEMMA StartDeallocOK ==
  ASSUME ThreadOK, NEW p \in Proc, NEW s \in Space, NEW l \in 0 .. NVa,
         NEW h \in 0 .. NVa, NEW r \in Pcs, StartDealloc(p, s, l, h, r)
  PROVE  /\ ThreadOK'
         /\ pc' = [pc EXCEPT ![p] = "dv"]
         /\ tgt' = [tgt EXCEPT ![p] = s]
         /\ cur' = [cur EXCEPT ![p] = l]
         /\ ret' = [ret EXCEPT ![p] = r]
<1>1. "dv" \in Pcs /\ l \in Nat
  BY DEF Pcs
<1>2. QED
  BY <1>1 DEF StartDealloc, Goto, ThreadOK

LEMMA StartAllocOK ==
  ASSUME ThreadOK, NEW p \in Proc, NEW s \in Space, NEW l \in 0 .. NVa,
         NEW h \in 0 .. NVa, NEW r \in Pcs, StartAlloc(p, s, l, h, r)
  PROVE  /\ ThreadOK'
         /\ pc' = [pc EXCEPT ![p] = "a_alloc"]
         /\ tgt' = [tgt EXCEPT ![p] = s]
         /\ cur' = [cur EXCEPT ![p] = l]
         /\ ret' = [ret EXCEPT ![p] = r]
<1>1. "a_alloc" \in Pcs /\ l \in Nat
  BY DEF Pcs
<1>2. QED
  BY <1>1 DEF StartAlloc, Goto, ThreadOK

LEMMA OwnIn == ASSUME ProcOK, NEW p \in Proc
               PROVE  Own(p) \in Space /\ Other(p) \in Space
                      /\ Own(p)[1] = p /\ Other(p)[1] = p
BY DEF ProcOK, Own, Other, Space

-----------------------------------------------------------------------------
(* How a step of one thread leaves the others.                             *)

Same(q) ==
  /\ pc'[q] = pc[q] /\ tgt'[q] = tgt[q] /\ cur'[q] = cur[q] /\ ret'[q] = ret[q]
  /\ state'[q] = state[q] /\ side'[q] = side[q]
  /\ state'[tgt[q][1]] = state[tgt[q][1]]
  /\ ref'[Mem(q)] = ref[Mem(q)]
  /\ cur[q] \in Va =>
       ref'[PTE(tgt[q], cur[q])] = ref[PTE(tgt[q], cur[q])]
OthersSame(p) ==
  \A q \in Proc \ {p} : Same(q) \/ pc'[q] \in {"user", "idle"}

LEMMA Quiet == ASSUME NEW q \in Proc, pc[q] \in {"user", "idle"}
               PROVE  Label(q) /\ Hold(q)
BY DEF Label, Hold

LEMMA SameKeeps == ASSUME NEW q \in Proc, Same(q), Label(q), Hold(q)
                   PROVE  Label(q)' /\ Hold(q)'
<1>1. /\ PTE(tgt[q], cur[q])' = PTE(tgt[q], cur[q])
      /\ Mem(q)' = Mem(q) /\ Own(q)' = Own(q)
  BY DEF Same, PTE, Mem, Own
<1>2. Label(q)'
  BY <1>1 DEF Same, Label
<1>3. Hold(q)'
  BY <1>1 DEF Same, Hold, Label
<1>4. QED
  BY <1>2, <1>3

LEMMA Compose ==
  ASSUME IInv, NEW p \in Proc, TypeOK', ThreadsApart', Label(p)', Hold(p)',
         OthersSame(p)
  PROVE  IInv'
<1>1. ASSUME NEW q \in Proc PROVE Label(q)' /\ Hold(q)'
  <2>1. CASE q = p
    BY <2>1
  <2>2. CASE q # p /\ Same(q)
    BY <2>2, SameKeeps DEF IInv
  <2>3. CASE pc'[q] \in {"user", "idle"}
    BY <2>3 DEF Label, Hold
  <2>4. QED
    BY <2>1, <2>2, <2>3 DEF OthersSame
<1>2. QED
  BY <1>1 DEF IInv

LEMMA PanicStep ==
  ASSUME IInv, NEW m \in Panics, Panic(m)
  PROVE  IInv'
<1>1. UNCHANGED <<mm, pt, kt, tlb>> /\ panicked' \in Panics
  BY DEF Panic
<1>2. TypeOK'
  BY <1>1 DEF IInv, TypeOK, MemOK, ProcOK, ThreadOK, CpuOK, mm, pt, kt, loc
<1>3. ThreadsApart'
  BY <1>1 DEF IInv, ThreadsApart, Busy, pt, kt, loc
<1>4. \A p \in Proc : Label(p)' /\ Hold(p)'
  BY <1>1 DEF IInv, Label, Hold, Own, PTE, Mem, mm, pt, kt, loc
<1>5. QED
  BY <1>2, <1>3, <1>4 DEF IInv

\* Other busy threads work on other processes, and use other slots.
LEMMA Apart ==
  ASSUME IInv, NEW p \in Proc, Busy(p), NEW q \in Proc \ {p}, Busy(q)
  PROVE  /\ q # tgt[p][1] /\ tgt[q][1] # tgt[p][1] /\ tgt[q][1] # p
         /\ tgt[q] \in Space /\ cur[q] \in Nat
         /\ Mem(q) # Mem(p)
         /\ \A a \in Nat : PTE(tgt[q], cur[q]) # PTE(tgt[p], a)
<1>1. /\ tgt[q] \in Space /\ tgt[p] \in Space /\ cur[q] \in Nat
  BY DEF IInv, TypeOK, ThreadOK
<1>2. tgt[q][1] # tgt[p][1]
  BY DEF IInv, ThreadsApart
<1>3. q # tgt[p][1] /\ tgt[q][1] # p
  BY DEF IInv, ThreadsApart, Busy
<1>4. Mem(q) # Mem(p)
  BY SlotDistinct
<1>5. \A a \in Nat : PTE(tgt[q], cur[q]) # PTE(tgt[p], a)
  BY <1>1, <1>2, SlotDistinct
<1>6. QED
  BY <1>1, <1>2, <1>3, <1>4, <1>5

\* A kernel step of p that changes only its own locals, slots of its own and
\* of the process it works on.
OwnSlot(p, s) ==
  \/ s \in {Mem(p), KStack(tgt[p][1]), PgDir(tgt[p])}
  \/ \E a \in Nat : s = PTE(tgt[p], a) \/ s = PDE(tgt[p], a)
RefLocal(p) == \A s \in Slot : ref'[s] = ref[s] \/ OwnSlot(p, s)
LocalStep(p) ==
  /\ Busy(p)
  /\ UNCHANGED pt
  /\ \A q \in Proc \ {p} : /\ pc'[q] = pc[q] /\ tgt'[q] = tgt[q]
                           /\ cur'[q] = cur[q] /\ ret'[q] = ret[q]
  /\ RefLocal(p)

LEMMA RefLocalOthers ==
  ASSUME IInv, NEW p \in Proc, Busy(p), RefLocal(p),
         NEW q \in Proc \ {p}, Busy(q)
  PROVE  /\ ref'[Mem(q)] = ref[Mem(q)]
         /\ cur[q] \in Va =>
              ref'[PTE(tgt[q], cur[q])] = ref[PTE(tgt[q], cur[q])]
<1>1. /\ tgt[q] \in Space /\ cur[q] \in Nat /\ tgt[p] \in Space
      /\ tgt[p][1] \in Proc
  BY DEF IInv, TypeOK, ThreadOK, Space
<1>2. ref'[Mem(q)] = ref[Mem(q)]
  <2>1. Mem(q) # Mem(p) /\ Mem(q) # KStack(tgt[p][1]) /\ Mem(q) # PgDir(tgt[p])
    BY <1>1, SlotDistinct
  <2>2. \A a \in Nat : Mem(q) # PTE(tgt[p], a) /\ Mem(q) # PDE(tgt[p], a)
    BY <1>1, SlotDistinct
  <2>3. QED
    BY <2>1, <2>2, SlotIn DEF RefLocal, OwnSlot
<1>3. PTE(tgt[q], cur[q]) # Mem(p) /\ PTE(tgt[q], cur[q]) # KStack(tgt[p][1])
      /\ PTE(tgt[q], cur[q]) # PgDir(tgt[p])
      /\ \A a \in Nat : PTE(tgt[q], cur[q]) # PDE(tgt[p], a)
  BY <1>1, SlotDistinct
<1>4. \A a \in Nat : PTE(tgt[q], cur[q]) # PTE(tgt[p], a)
  BY Apart
<1>5. cur[q] \in Va =>
        ref'[PTE(tgt[q], cur[q])] = ref[PTE(tgt[q], cur[q])]
  BY <1>1, <1>3, <1>4, SlotIn DEF RefLocal, OwnSlot, IInv, TypeOK, MemOK
<1>6. QED
  BY <1>2, <1>5

LEMMA LocalOthers ==
  ASSUME IInv, NEW p \in Proc, LocalStep(p)
  PROVE  OthersSame(p)
<1>1. SUFFICES ASSUME NEW q \in Proc \ {p}, Busy(q)
               PROVE  Same(q)
  BY DEF OthersSame, LocalStep, Busy
<1>2. UNCHANGED <<state, side>>
  BY DEF LocalStep, pt
<1>3. Busy(p) /\ RefLocal(p)
  BY DEF LocalStep
<1>4. /\ ref'[Mem(q)] = ref[Mem(q)]
      /\ cur[q] \in Va =>
           ref'[PTE(tgt[q], cur[q])] = ref[PTE(tgt[q], cur[q])]
  BY <1>1, <1>3, RefLocalOthers
<1>5. QED
  BY <1>2, <1>4 DEF Same, LocalStep

\* Such a step keeps ThreadsApart when it goes on with the same process, or ends.
LEMMA LocalThreads ==
  ASSUME IInv, NEW p \in Proc, LocalStep(p), NEW l \in Pcs \ {"idle"},
         pc' = [pc EXCEPT ![p] = l],
         l = "user" \/ tgt'[p][1] = tgt[p][1]
  PROVE  ThreadsApart'
<1>1. UNCHANGED <<state, ptlock>> /\ Busy(p) /\ pc \in [Proc -> Pcs]
  BY DEF LocalStep, pt, IInv, TypeOK, ThreadOK
<1>2. \A q \in Proc \ {p} : Busy(q)' <=> Busy(q)
  BY DEF LocalStep, Busy
<1>3. Busy(p)' => tgt'[p][1] = tgt[p][1]
  BY <1>1 DEF Busy
<1>4. \A q \in Proc : Busy(q)' => Busy(q) /\ tgt'[q][1] = tgt[q][1]
  BY <1>1, <1>2, <1>3 DEF LocalStep
<1>5. \A q \in Proc : pc'[q] = "idle" <=> pc[q] = "idle"
  BY <1>1 DEF LocalStep, Busy
<1>6. \A q \in Proc : tgt[q][1] \in Proc
  BY DEF IInv, TypeOK, ThreadOK, Space
<1>7. QED
  BY <1>1, <1>4, <1>5, <1>6 DEF ThreadsApart, IInv

LEMMA LocalCompose ==
  ASSUME IInv, NEW p \in Proc, LocalStep(p), MemOK', ThreadOK', CpuOK',
         NEW l \in Pcs \ {"idle"}, pc' = [pc EXCEPT ![p] = l],
         l = "user" \/ tgt'[p][1] = tgt[p][1],
         Label(p)', Hold(p)'
  PROVE  IInv'
<1>1. ProcOK'
  BY DEF LocalStep, pt, IInv, TypeOK, ProcOK
<1>2. TypeOK'
  BY <1>1 DEF TypeOK
<1>3. QED
  BY <1>2, LocalOthers, LocalThreads, Compose

LEMMA CpuFrame == ASSUME CpuOK, UNCHANGED <<tlb, panicked>> PROVE CpuOK'
BY DEF CpuOK

LEMMA FlushOK == ASSUME CpuOK, NEW p \in Proc, Flush(p), UNCHANGED panicked
                 PROVE  CpuOK'
BY DEF CpuOK, Flush, NoTlb

LEMMA Types == ASSUME IInv
               PROVE  /\ MemOK /\ ProcOK /\ ThreadOK /\ CpuOK /\ ThreadsApart
                      /\ \A p \in Proc : Label(p) /\ Hold(p)
                      /\ \A p \in Proc : /\ tgt[p] \in Space /\ tgt[p][1] \in Proc
                                         /\ cur[p] \in Nat /\ pc[p] \in Pcs
BY DEF IInv, TypeOK, ThreadOK, Space

\* A local step that ends in a jump.
LEMMA JumpLocal ==
  ASSUME IInv, NEW p \in Proc, Busy(p), NEW l \in Pcs \ {"idle"}, Jump(p, l),
         UNCHANGED pt, MemOK', CpuOK', RefLocal(p),
         l # "user" /\ tgt'[p] = tgt[p] /\ cur'[p] = cur[p] /\ ret'[p] = ret[p]
           /\ pc'[p] = l => Label(p)' /\ Hold(p)'
  PROVE  IInv'
<1>1. /\ ThreadOK' /\ pc' = [pc EXCEPT ![p] = l]
      /\ l # "user" => UNCHANGED loc
      /\ \A q \in Proc \ {p} : /\ tgt'[q] = tgt[q] /\ cur'[q] = cur[q]
                               /\ ret'[q] = ret[q]
  BY JumpOK, Types
<1>2. pc'[p] = l /\ \A q \in Proc \ {p} : pc'[q] = pc[q]
  BY <1>1, Types DEF ThreadOK
<1>3. LocalStep(p)
  BY <1>1, <1>2 DEF LocalStep
<1>4. l # "user" => tgt'[p] = tgt[p] /\ cur'[p] = cur[p] /\ ret'[p] = ret[p]
  BY <1>1 DEF loc
<1>5. Label(p)' /\ Hold(p)'
  <2>1. CASE l = "user"
    BY <1>2, <2>1 DEF Label, Hold
  <2>2. CASE l # "user"
    BY <1>2, <1>4, <2>2
  <2>3. QED
    BY <2>1, <2>2
<1>6. QED
  BY <1>1, <1>3, <1>4, <1>5, LocalCompose

LEMMA RefSame == ASSUME UNCHANGED ref, NEW p \in Proc PROVE RefLocal(p)
BY DEF RefLocal

\* A change of one slot of the thread's own.
LEMMA RefOne ==
  ASSUME MemOK, NEW p \in Proc, NEW s \in Slot, NEW x,
         ref' = [ref EXCEPT ![s] = x], OwnSlot(p, s)
  PROVE  RefLocal(p) /\ ref'[s] = x
BY DEF RefLocal, MemOK

\* kalloc into a slot of the thread's own, and a jump.
LEMMA KallocJump ==
  ASSUME IInv, NEW p \in Proc, Busy(p), NEW pg \in freelist, Kalloc(pg),
         NEW s \in Slot, OwnSlot(p, s), ref' = [ref EXCEPT ![s] = pg],
         NEW l \in Pcs \ {"idle"}, Jump(p, l),
         UNCHANGED <<perm, pt, tlb, panicked>>, (data \in [Page -> Data])',
         l # "user" /\ tgt'[p] = tgt[p] /\ cur'[p] = cur[p] /\ ret'[p] = ret[p]
           /\ pc'[p] = l => Label(p)' /\ Hold(p)'
  PROVE  IInv'
<1>1. MemOK'
  BY KallocOK, Types DEF MemOK
<1>2. CpuOK'
  BY CpuFrame, Types
<1>3. RefLocal(p)
  BY RefOne, Types
<1>4. QED
  BY <1>1, <1>2, <1>3, JumpLocal

\* kfree of a slot of the thread's own, and a jump.
LEMMA KfreeJump ==
  ASSUME IInv, NEW p \in Proc, Busy(p),
         NEW s \in Slot, OwnSlot(p, s), NEW d \in BOOLEAN, KfreeSlot(s, d),
         NEW l \in Pcs \ {"idle"}, Jump(p, l),
         UNCHANGED <<perm, pt, tlb, panicked>>,
         l # "user" /\ tgt'[p] = tgt[p] /\ cur'[p] = cur[p] /\ ret'[p] = ret[p]
           /\ pc'[p] = l => Label(p)' /\ Hold(p)'
  PROVE  IInv'
<1>1. MemOK'
  BY KfreeSlotOK, Types
<1>2. CpuOK'
  BY CpuFrame, Types
<1>3. RefLocal(p)
  BY RefOne, RefSame, Types DEF KfreeSlot
<1>4. QED
  BY <1>1, <1>2, <1>3, JumpLocal

LEMMA KfreePanicStep == ASSUME IInv, NEW s, KfreePanic(s) PROVE IInv'
BY PanicStep DEF KfreePanic, Panics

-----------------------------------------------------------------------------
(* The page fault handler.                                                 *)

LEMMA FaultAllocStep == ASSUME IInv, NEW p \in Proc, FaultAlloc(p) PROVE IInv'
<1>1. CASE Panic("pagefault out of memory")
  BY <1>1, PanicStep DEF Panics
<1>2. ASSUME NEW pg \in freelist, Kalloc(pg),
             ref' = [ref EXCEPT ![Mem(p)] = pg], Jump(p, "pf_copy"),
             UNCHANGED <<perm, data, pt, tlb, panicked>>
      PROVE  IInv'
  <2>1. pc[p] = "pf_alloc" /\ Busy(p) /\ OwnSlot(p, Mem(p))
    BY DEF FaultAlloc, At, Busy, OwnSlot
  <2>2. "pf_copy" \in Pcs \ {"idle"}
    BY DEF Pcs
  <2>3. ref'[Mem(p)] # None /\ ref'[PTE(tgt[p], cur[p])] # None
    BY <1>2, <2>1, KallocOK, SlotIn, SlotDistinct, Types DEF Label, Hold, MemOK
  <2>4. ASSUME tgt'[p] = tgt[p], cur'[p] = cur[p], pc'[p] = "pf_copy"
        PROVE  Label(p)' /\ Hold(p)'
    BY <1>2, <2>1, <2>3, <2>4, Types DEF Label, Hold, Own, Mem, PTE, pt
  <2>5. (data \in [Page -> Data])'
    BY <1>2, Types DEF MemOK
  <2>6. QED
    BY <1>2, <2>1, <2>2, <2>4, <2>5, SlotIn, KallocJump
<1>3. QED
  BY <1>1, <1>2 DEF FaultAlloc

LEMMA FaultCopyStep == ASSUME IInv, NEW p \in Proc, FaultCopy(p) PROVE IInv'
<1>1. pc[p] = "pf_copy" /\ Busy(p) /\ UNCHANGED <<ref, pt>> /\ Jump(p, "pf_free")
  BY DEF FaultCopy, At, Busy
<1>2. "pf_free" \in Pcs \ {"idle"}
  BY DEF Pcs
<1>3. ref[PTE(tgt[p], cur[p])] \in Page
  BY <1>1, SlotIn, Types DEF Label, Hold, MemOK
<1>4. MemOK'
  BY <1>3, Types DEF FaultCopy, MemOK
<1>5. CpuOK'
  BY CpuFrame, Types DEF FaultCopy
<1>6. ASSUME tgt'[p] = tgt[p], cur'[p] = cur[p], pc'[p] = "pf_free"
      PROVE  Label(p)' /\ Hold(p)'
  BY <1>1, <1>6, Types DEF Label, Hold, Own, Mem, PTE, pt
<1>7. QED
  BY <1>1, <1>2, <1>4, <1>5, <1>6, RefSame, JumpLocal

LEMMA FaultFreeStep == ASSUME IInv, NEW p \in Proc, FaultFree(p) PROVE IInv'
<1>1. CASE KfreePanic(PTE(tgt[p], cur[p]))
  BY <1>1, KfreePanicStep
<1>2. ASSUME KfreeSlot(PTE(tgt[p], cur[p]), FALSE), Jump(p, "pf_map"),
             UNCHANGED <<perm, pt, tlb, panicked>>
      PROVE  IInv'
  <2>1. pc[p] = "pf_free" /\ Busy(p) /\ OwnSlot(p, PTE(tgt[p], cur[p]))
        /\ UNCHANGED ref
    BY <1>2, Types DEF FaultFree, At, Busy, OwnSlot, KfreeSlot
  <2>2. "pf_map" \in Pcs \ {"idle"} /\ PTE(tgt[p], cur[p]) \in Slot
    BY <2>1, SlotIn, Types DEF Pcs, Label
  <2>3. ASSUME tgt'[p] = tgt[p], cur'[p] = cur[p], pc'[p] = "pf_map"
        PROVE  Label(p)' /\ Hold(p)'
    BY <1>2, <2>1, <2>3, Types DEF Label, Hold, Own, Mem, PTE, pt
  <2>4. QED
    BY <1>2, <2>1, <2>2, <2>3, KfreeJump
<1>3. QED
  BY <1>1, <1>2 DEF FaultFree

LEMMA FaultMapStep == ASSUME IInv, NEW p \in Proc, FaultMap(p) PROVE IInv'
<1>1. pc[p] = "pf_map" /\ Busy(p) /\ UNCHANGED pt /\ Jump(p, "user")
      /\ cur[p] \in Va /\ PTE(tgt[p], cur[p]) \in Slot /\ Mem(p) \in Slot
  BY SlotIn, Types DEF FaultMap, At, Busy, Label
<1>2. "user" \in Pcs \ {"idle"}
  BY DEF Pcs
<1>3. MemOK'
  <2>1. ref[Mem(p)] \in Page \cup {None}
    BY <1>1, Types DEF MemOK
  <2>2. QED
    BY <1>1, <2>1, Types DEF FaultMap, MemOK
<1>4. CpuOK'
  BY FlushOK, Types DEF FaultMap
<1>5. RefLocal(p)
  BY <1>1, Types DEF FaultMap, MemOK, RefLocal, OwnSlot
<1>6. QED
  BY <1>1, <1>2, <1>3, <1>4, <1>5, JumpLocal

-----------------------------------------------------------------------------
(* setupkvm and userinit.                                                  *)

\* A local step to label l that keeps the space and moves the cursor.
LEMMA CursorStep ==
  ASSUME IInv, NEW p \in Proc, Busy(p), NEW l \in Pcs \ {"idle"}, Goto(p, l),
         NEW n \in Nat, cur' = [cur EXCEPT ![p] = n],
         UNCHANGED <<pt, tgt, lo, hi, ret>>, MemOK', CpuOK', RefLocal(p),
         tgt'[p] = tgt[p] /\ cur'[p] = n /\ ret'[p] = ret[p] /\ pc'[p] = l
           => Label(p)' /\ Hold(p)'
  PROVE  IInv'
<1>1. ThreadOK' /\ pc' = [pc EXCEPT ![p] = l]
  BY Types DEF ThreadOK, Goto
<1>2. pc'[p] = l /\ cur'[p] = n /\ LocalStep(p)
  BY <1>1, Types DEF LocalStep, ThreadOK
<1>3. QED
  BY <1>1, <1>2, LocalCompose

LEMMA StartDeallocStep ==
  ASSUME IInv, NEW p \in Proc, Busy(p), NEW r \in Pcs,
         r \in {"fv_tab", "g_done", "user", "x_bad", "a_free"},
         r = "a_free" => ref'[Mem(p)] # None,
         NEW l \in 0 .. NVa, NEW h \in 0 .. NVa,
         StartDealloc(p, tgt[p], l, h, r), UNCHANGED pt, MemOK', CpuOK',
         RefLocal(p)
  PROVE  IInv'
<1>1. /\ ThreadOK' /\ pc' = [pc EXCEPT ![p] = "dv"]
      /\ tgt' = [tgt EXCEPT ![p] = tgt[p]]
      /\ cur' = [cur EXCEPT ![p] = l] /\ ret' = [ret EXCEPT ![p] = r]
  BY StartDeallocOK, Types
<1>2. /\ pc'[p] = "dv" /\ tgt'[p] = tgt[p] /\ cur'[p] = l /\ ret'[p] = r
      /\ LocalStep(p)
  BY <1>1, Types DEF LocalStep, ThreadOK
<1>3. Label(p)' /\ Hold(p)'
  BY <1>2 DEF Label, Hold, Mem
<1>4. "dv" \in Pcs \ {"idle"}
  BY DEF Pcs
<1>5. QED
  BY <1>1, <1>2, <1>3, <1>4, LocalCompose

LEMMA StartFreevmStep ==
  ASSUME IInv, NEW p \in Proc, Busy(p), StartFreevm(p, tgt[p]), UNCHANGED pt,
         MemOK', CpuOK', RefLocal(p)
  PROVE  IInv'
<1>1. "fv_tab" \in Pcs /\ 0 \in 0 .. NVa /\ NVa \in 0 .. NVa
  BY SizeAssumption DEF Pcs
<1>2. QED
  BY <1>1, StartDeallocStep DEF StartFreevm

LEMMA SetupPgdirStep == ASSUME IInv, NEW p \in Proc, SetupPgdir(p) PROVE IInv'
<1>1. CASE Panic("userinit")
  BY <1>1, PanicStep DEF Panics
<1>2. pc[p] = "s_pgdir" /\ Busy(p) /\ OwnSlot(p, PgDir(tgt[p]))
      /\ PgDir(tgt[p]) \in Slot
  BY SlotIn, Types DEF SetupPgdir, At, Busy, OwnSlot
<1>3. ASSUME NEW pg \in freelist, Kalloc(pg),
             ref' = [ref EXCEPT ![PgDir(tgt[p])] = pg],
             cur' = [cur EXCEPT ![p] = NVa], Goto(p, "s_kpde"),
             UNCHANGED <<perm, data, pt, tgt, lo, hi, ret, tlb, panicked>>
      PROVE  IInv'
  <2>1. MemOK'
    BY <1>3, KallocOK, Types DEF MemOK
  <2>2. CpuOK' /\ RefLocal(p)
    BY <1>2, <1>3, CpuFrame, RefOne, Types
  <2>3. "s_kpde" \in Pcs \ {"idle"} /\ NVa \in Nat
    BY SizeAssumption DEF Pcs
  <2>4. ASSUME tgt'[p] = tgt[p], ret'[p] = ret[p], pc'[p] = "s_kpde"
        PROVE  Label(p)' /\ Hold(p)'
    BY <1>2, <1>3, <2>4, Types DEF Label, Hold, pt
  <2>5. QED
    BY <1>2, <1>3, <2>1, <2>2, <2>3, <2>4, CursorStep
<1>4. ASSUME Jump(p, IF tgt[p][1] = p THEN "user" ELSE "f_fail"),
             UNCHANGED <<mm, pt, tlb, panicked>>
      PROVE  IInv'
  <2>1. MemOK' /\ CpuOK' /\ RefLocal(p)
    BY <1>4, CpuFrame, RefSame, Types DEF MemOK, mm
  <2>2. "user" \in Pcs \ {"idle"} /\ "f_fail" \in Pcs \ {"idle"}
    BY DEF Pcs
  <2>3. ASSUME tgt[p][1] # p, tgt'[p] = tgt[p], pc'[p] = "f_fail"
        PROVE  Label(p)' /\ Hold(p)'
    BY <2>3 DEF Label, Hold
  <2>4. QED
    BY <1>2, <1>4, <2>1, <2>2, <2>3, JumpLocal
<1>5. QED
  BY <1>1, <1>3, <1>4 DEF SetupPgdir

LEMMA SetupKpdeStep == ASSUME IInv, NEW p \in Proc, SetupKpde(p) PROVE IInv'
<1>1. CASE Panic("userinit")
  BY <1>1, PanicStep DEF Panics
<1>2. pc[p] = "s_kpde" /\ Busy(p)
  BY DEF SetupKpde, At, Busy
<1>3. CASE StartFreevm(p, tgt[p]) /\ UNCHANGED <<mm, pt, tlb, panicked>>
  BY <1>2, <1>3, StartFreevmStep, CpuFrame, RefSame, Types DEF MemOK, mm
<1>4. ASSUME NEW pg \in freelist, Kalloc(pg),
             ref' = [ref EXCEPT ![PDE(tgt[p], cur[p])] = pg],
             UNCHANGED <<perm, data, pt, tgt, lo, hi, ret, tlb, panicked>>
      PROVE  MemOK' /\ CpuOK' /\ RefLocal(p)
  <2>1. MemOK' /\ CpuOK'
    BY <1>4, KallocOK, CpuFrame, Types DEF MemOK
  <2>2. RefLocal(p)
    BY <1>4, Types DEF RefLocal, OwnSlot, MemOK
  <2>3. QED
    BY <2>1, <2>2
<1>5. ASSUME NEW pg \in freelist, Kalloc(pg),
             ref' = [ref EXCEPT ![PDE(tgt[p], cur[p])] = pg],
             cur[p] < NVa + NKPDE - 1, cur' = [cur EXCEPT ![p] = @ + 1],
             pc' = pc,
             UNCHANGED <<perm, data, pt, tgt, lo, hi, ret, tlb, panicked>>
      PROVE  IInv'
  <2>1. Goto(p, "s_kpde") /\ "s_kpde" \in Pcs \ {"idle"} /\ cur[p] + 1 \in Nat
        /\ cur' = [cur EXCEPT ![p] = cur[p] + 1]
    BY <1>2, <1>5, Types DEF Goto, Pcs, ThreadOK
  <2>2. ASSUME tgt'[p] = tgt[p], ret'[p] = ret[p], pc'[p] = "s_kpde"
        PROVE  Label(p)' /\ Hold(p)'
    BY <1>2, <1>5, <2>2, Types DEF Label, Hold, pt
  <2>3. QED
    BY <1>2, <1>4, <1>5, <2>1, <2>2, CursorStep
<1>6. ASSUME NEW pg \in freelist, Kalloc(pg),
             ref' = [ref EXCEPT ![PDE(tgt[p], cur[p])] = pg],
             cur' = [cur EXCEPT ![p] = 0], Goto(p, AfterSetup(p)),
             UNCHANGED <<perm, data, pt, tgt, lo, hi, ret, tlb, panicked>>
      PROVE  IInv'
  <2>1. AfterSetup(p) \in {"b_uvm", "a_alloc", "f_copy"}
        /\ AfterSetup(p) \in Pcs \ {"idle"}
    BY DEF AfterSetup, Pcs
  <2>2. ASSUME tgt'[p] = tgt[p], ret'[p] = ret[p], pc'[p] = AfterSetup(p)
        PROVE  Label(p)' /\ Hold(p)'
    <3>1. AfterSetup(p) = "a_alloc" => ret[p] = "x_load"
      BY <1>2, Types DEF AfterSetup, Label
    <3>2. AfterSetup(p) = "f_copy" => tgt[p][1] # p
      BY DEF AfterSetup
    <3>3. CASE AfterSetup(p) = "b_uvm"
      BY <2>2, <3>3 DEF Label, Hold
    <3>4. CASE AfterSetup(p) = "a_alloc"
      BY <2>2, <3>1, <3>4 DEF Label, Hold
    <3>5. CASE AfterSetup(p) = "f_copy"
      BY <2>2, <3>2, <3>5 DEF Label, Hold
    <3>6. QED
      BY <2>1, <3>3, <3>4, <3>5
  <2>3. QED
    BY <1>2, <1>4, <1>6, <2>1, <2>2, CursorStep
<1>7. QED
  BY <1>1, <1>3, <1>5, <1>6 DEF SetupKpde

LEMMA BootKstackStep == ASSUME IInv, NEW p \in Proc, BootKstack(p) PROVE IInv'
<1>1. CASE Panic("userinit")
  BY <1>1, PanicStep DEF Panics
<1>2. ASSUME NEW pg \in freelist, Kalloc(pg),
             ref' = [ref EXCEPT ![KStack(p)] = pg], Jump(p, "s_pgdir"),
             UNCHANGED <<perm, data, pt, tlb, panicked>>
      PROVE  IInv'
  <2>1. pc[p] = "b_kstack" /\ Busy(p) /\ tgt[p][1] = p /\ state[p] = "EMBRYO"
    BY Types DEF BootKstack, At, Busy, Label
  <2>2. "s_pgdir" \in Pcs \ {"idle"}
    BY DEF Pcs
  <2>3. OwnSlot(p, KStack(p)) /\ KStack(p) \in Slot
    BY <2>1, SlotIn DEF OwnSlot
  <2>4. ASSUME pc'[p] = "s_pgdir" PROVE Label(p)' /\ Hold(p)'
    BY <1>2, <2>1, <2>4 DEF Label, Hold, pt
  <2>5. (data \in [Page -> Data])'
    BY <1>2, Types DEF MemOK
  <2>6. QED
    BY <1>2, <2>1, <2>2, <2>3, <2>4, <2>5, KallocJump
<1>3. QED
  BY <1>1, <1>2 DEF BootKstack

LEMMA BootUvmStep == ASSUME IInv, NEW p \in Proc, BootUvm(p) PROVE IInv'
<1>1. CASE Panic("userinit")
  BY <1>1, PanicStep DEF Panics
<1>2. ASSUME NEW pg \in freelist, Kalloc(pg),
             ref' = [ref EXCEPT ![Mem(p)] = pg],
             data' = [data EXCEPT ![pg] = "img"], Jump(p, "b_map"),
             UNCHANGED <<perm, pt, tlb, panicked>>
      PROVE  IInv'
  <2>1. pc[p] = "b_uvm" /\ Busy(p) /\ OwnSlot(p, Mem(p)) /\ Mem(p) \in Slot
    BY SlotIn DEF BootUvm, At, Busy, OwnSlot
  <2>2. "b_map" \in Pcs \ {"idle"} /\ "img" \in Data
    BY DEF Pcs, Data
  <2>3. ASSUME pc'[p] = "b_map" PROVE Label(p)' /\ Hold(p)'
    <3>1. ref'[Mem(p)] # None
      BY <1>2, <2>1, KallocOK, Types DEF MemOK
    <3>2. QED
      BY <2>3, <3>1 DEF Label, Hold, Mem
  <2>4. (data \in [Page -> Data])'
    BY <1>2, <2>2, Types DEF MemOK
  <2>5. QED
    BY <1>2, <2>1, <2>2, <2>3, <2>4, KallocJump
<1>3. QED
  BY <1>1, <1>2 DEF BootUvm

\* Mappages on the space that the thread works on changes its own slots.
LEMMA MappagesLocal ==
  ASSUME IInv, NEW p \in Proc, NEW va \in Nat,
         NEW fl \in SUBSET {"W", "U", "COW"}, Mappages(p, tgt[p], va, fl)
  PROVE  MemOK' /\ RefLocal(p)
<1>1. MemOK'
  BY MappagesOK, Types
<1>2. PDX(va) \in Int
  BY SizeAssumption DEF PDX
<1>3. PDE(tgt[p], PDX(va)) \in Slot => OwnSlot(p, PDE(tgt[p], PDX(va)))
  <2>1. SUFFICES ASSUME PDE(tgt[p], PDX(va)) \in Slot PROVE PDX(va) \in Nat
    BY DEF OwnSlot
  <2>2. PDX(va) \in Pde
    BY <2>1 DEF PDE, Slot
  <2>3. QED
    BY <1>2, <2>2, SizeAssumption DEF Pde, UPde, KPde, PDX, Va
<1>4. RefLocal(p)
  BY <1>3, Types DEF Mappages, MemOK, RefLocal, OwnSlot
<1>5. QED
  BY <1>1, <1>4

LEMMA RemapStep == ASSUME IInv, NEW s, NEW va, Remap(s, va) PROVE IInv'
BY PanicStep DEF Remap, Panics

LEMMA BootMapStep == ASSUME IInv, NEW p \in Proc, BootMap(p) PROVE IInv'
<1>1. CASE Panic("userinit")
  BY <1>1, PanicStep DEF Panics
<1>2. CASE Remap(tgt[p], 0)
  BY <1>2, RemapStep
<1>3. ASSUME Mappages(p, tgt[p], 0, {"W", "U"}),
             state' = [state EXCEPT ![p] = "LIVE"], sz' = [sz EXCEPT ![p] = 1],
             Jump(p, "user"),
             UNCHANGED <<parent, side, ptlock, tlb, panicked>>
      PROVE  IInv'
  <2>1. pc[p] = "b_map" /\ Busy(p)
    BY DEF BootMap, At, Busy
  <2>2. MemOK' /\ RefLocal(p)
    BY <1>3, MappagesLocal
  <2>3. CpuOK' /\ "user" \in Pcs
    BY <1>3, CpuFrame, Types DEF Pcs
  <2>4. /\ ThreadOK' /\ pc' = [pc EXCEPT ![p] = "user"]
        /\ \A q \in Proc \ {p} : /\ tgt'[q] = tgt[q] /\ cur'[q] = cur[q]
                                 /\ ret'[q] = ret[q]
    BY <1>3, <2>3, JumpOK, Types
  <2>5. ProcOK'
    BY <1>3, SizeAssumption, Types DEF ProcOK
  <2>6. /\ pc'[p] = "user" /\ \A q \in Proc \ {p} : pc'[q] = pc[q]
        /\ state'[p] = "LIVE" /\ \A q \in Proc \ {p} : state'[q] = state[q]
    BY <1>3, <2>4, Types DEF ThreadOK, ProcOK
  <2>7. \A q \in Proc \ {p} : Busy(q) => tgt[q][1] # p
    BY <2>1, Apart
  <2>8. ThreadsApart'
    BY <1>3, <2>1, <2>4, <2>6, <2>7, Types DEF ThreadsApart, Busy
  <2>9. OthersSame(p)
    <3>1. SUFFICES ASSUME NEW q \in Proc \ {p}, Busy(q) PROVE Same(q)
      BY <2>6 DEF OthersSame, Busy
    <3>2. /\ ref'[Mem(q)] = ref[Mem(q)]
          /\ cur[q] \in Va =>
               ref'[PTE(tgt[q], cur[q])] = ref[PTE(tgt[q], cur[q])]
      BY <2>1, <2>2, <3>1, RefLocalOthers
    <3>3. QED
      BY <1>3, <2>4, <2>6, <2>7, <3>1, <3>2, Types DEF Same
  <2>10. Label(p)' /\ Hold(p)'
    BY <2>6 DEF Label, Hold
  <2>11. QED
    BY <2>2, <2>3, <2>4, <2>5, <2>8, <2>9, <2>10, Compose DEF TypeOK
<1>4. QED
  BY <1>1, <1>2, <1>3 DEF BootMap

-----------------------------------------------------------------------------
(* fork.                                                                   *)

\* A step that ends p's work on another process np, and settles the state of
\* np: every other thread is left alone.
Settles(p, np) ==
  /\ Busy(p) /\ np = tgt[p][1] /\ np # p
  /\ pc'[p] = "user" /\ pc'[np] \in {"user", "idle"}
  /\ \A q \in Proc \ {p, np} : pc'[q] = pc[q]
  /\ \A q \in Proc \ {p} : tgt'[q] = tgt[q] /\ cur'[q] = cur[q] /\ ret'[q] = ret[q]
  /\ \A q \in Proc \ {np} : state'[q] = state[q] /\ side'[q] = side[q]
  /\ state'[np] \in {"UNUSED", "ZOMBIE"} => pc'[np] = "idle"
  /\ state'[np] = "LIVE" => pc'[np] # "idle"
  /\ \A q \in Proc \ {p} : ptlock = q => ptlock' = q
  /\ RefLocal(p)

LEMMA SettlesStep ==
  ASSUME IInv, NEW p \in Proc, NEW np \in Proc, Settles(p, np), TypeOK'
  PROVE  IInv'
<1>1. \A q \in Proc \ {p} : Busy(q) => q # np /\ tgt[q][1] # np /\ tgt[q][1] # p
  BY Apart DEF Settles
<1>2. \A q \in Proc : Busy(q)' => q # p /\ q # np /\ Busy(q)
  BY DEF Settles, Busy
<1>3. \A q \in Proc : Busy(q)' =>
        /\ tgt'[q] = tgt[q] /\ state'[tgt[q][1]] = state[tgt[q][1]]
        /\ pc'[tgt[q][1]] = pc[tgt[q][1]]
  BY <1>1, <1>2, Types DEF Settles
<1>4. state'[p] = state[p] /\ pc[p] # "idle"
  BY DEF Settles, Busy
<1>5. ThreadsApart'
  BY <1>1, <1>2, <1>3, <1>4, Types DEF ThreadsApart, Settles
<1>6. OthersSame(p)
  <2>1. SUFFICES ASSUME NEW q \in Proc \ {p}, Busy(q) PROVE Same(q)
    BY DEF OthersSame, Settles, Busy
  <2>2. Busy(q)' /\ q # np
    BY <1>1, <2>1 DEF Settles, Busy
  <2>3. /\ ref'[Mem(q)] = ref[Mem(q)]
        /\ cur[q] \in Va =>
             ref'[PTE(tgt[q], cur[q])] = ref[PTE(tgt[q], cur[q])]
    BY <2>1, RefLocalOthers DEF Settles
  <2>4. QED
    BY <1>3, <2>2, <2>3 DEF Same, Settles
<1>7. Label(p)' /\ Hold(p)'
  BY DEF Settles, Label, Hold
<1>8. QED
  BY <1>5, <1>6, <1>7, Compose

LEMMA ForkKstackStep == ASSUME IInv, NEW p \in Proc, ForkKstack(p) PROVE IInv'
<1>1. pc[p] = "f_kstack" /\ Busy(p) /\ tgt[p][1] # p
  BY Types DEF ForkKstack, At, Busy, Label
<1>2. "s_pgdir" \in Pcs \ {"idle"} /\ "user" \in Pcs
      /\ OwnSlot(p, KStack(tgt[p][1])) /\ KStack(tgt[p][1]) \in Slot
  BY SlotIn, Types DEF Pcs, OwnSlot
<1>3. ASSUME NEW pg \in freelist, Kalloc(pg),
             ref' = [ref EXCEPT ![KStack(tgt[p][1])] = pg], Jump(p, "s_pgdir"),
             UNCHANGED <<perm, data, pt, tlb, panicked>>
      PROVE  IInv'
  <2>1. ASSUME tgt'[p] = tgt[p], pc'[p] = "s_pgdir"
        PROVE  Label(p)' /\ Hold(p)'
    BY <1>1, <2>1 DEF Label, Hold
  <2>2. (data \in [Page -> Data])'
    BY <1>3, Types DEF MemOK
  <2>3. QED
    BY <1>1, <1>2, <1>3, <2>1, <2>2, KallocJump
<1>4. ASSUME state' = [state EXCEPT ![tgt[p][1]] = "UNUSED"], Jump(p, "user"),
             UNCHANGED <<mm, parent, sz, side, ptlock, tlb, panicked>>
      PROVE  IInv'
  <2>1. TypeOK'
    BY <1>2, <1>4, JumpOK, CpuFrame, Types DEF TypeOK, MemOK, ProcOK, mm
  <2>2. pc[tgt[p][1]] = "idle" /\ tgt[p][1] \in Proc
    BY <1>1, Types DEF ThreadsApart
  <2>3. /\ pc' = [pc EXCEPT ![p] = "user"]
        /\ \A q \in Proc \ {p} : tgt'[q] = tgt[q] /\ cur'[q] = cur[q]
                                 /\ ret'[q] = ret[q]
    BY <1>2, <1>4, JumpOK, Types
  <2>4. RefLocal(p)
    BY <1>4, RefSame DEF mm
  <2>5. Settles(p, tgt[p][1])
    BY <1>1, <1>4, <2>2, <2>3, <2>4, Types DEF Settles, ProcOK, ThreadOK
  <2>6. QED
    BY <2>1, <2>2, <2>5, SettlesStep
<1>5. QED
  BY <1>3, <1>4 DEF ForkKstack

LEMMA ForkCopyStep == ASSUME IInv, NEW p \in Proc, ForkCopy(p) PROVE IInv'
<1>1. CASE Panic("copyuvm: page not present") \/ Panic("incrementRefCount")
  BY <1>1, PanicStep DEF Panics
<1>2. pc[p] = "f_copy" /\ Busy(p) /\ cur[p] \in Va /\ Own(p) \in Space
      /\ tgt[p][1] # p
  <2>1. pc[p] = "f_copy" /\ cur[p] < sz[p]
    BY DEF ForkCopy, At
  <2>2. cur[p] \in Va
    BY <2>1, SizeAssumption, Types DEF ProcOK, Va
  <2>3. QED
    BY <2>1, <2>2, OwnIn, Types DEF Busy, Label
<1>3. ASSUME ref[PTE(Own(p), cur[p])] # None,
             perm' = [perm EXCEPT ![Own(p)][cur[p]] = CowFlags(@)],
             IncrementRefCount(ref[PTE(Own(p), cur[p])]),
             ref' = [ref EXCEPT ![Mem(p)] = ref[PTE(Own(p), cur[p])]],
             Flush(p), Jump(p, "f_map"),
             UNCHANGED <<freelist, data, pt, panicked>>
      PROVE  IInv'
  <2>1. ref[PTE(Own(p), cur[p])] \in Page
    BY <1>2, <1>3, SlotIn, Types DEF MemOK
  <2>2. MemOK'
    <3>1. rc' \in [Page -> Nat]
      BY <1>3, <2>1, Types DEF MemOK, IncrementRefCount
    <3>2. perm' \in [Space -> [Va -> SUBSET {"W", "U", "COW"}]]
      BY <1>2, <1>3, Types DEF MemOK, CowFlags
    <3>3. QED
      BY <1>3, <2>1, <3>1, <3>2, SlotIn, Types DEF MemOK
  <2>3. CpuOK' /\ "f_map" \in Pcs \ {"idle"}
    BY <1>3, FlushOK, Types DEF Pcs
  <2>4. RefLocal(p) /\ ref'[Mem(p)] # None
    BY <1>3, RefOne, SlotIn, Types DEF OwnSlot
  <2>5. ASSUME tgt'[p] = tgt[p], cur'[p] = cur[p], pc'[p] = "f_map"
        PROVE  Label(p)' /\ Hold(p)'
    BY <1>2, <2>4, <2>5 DEF Label, Hold, Mem
  <2>6. QED
    BY <1>2, <1>3, <2>2, <2>3, <2>4, <2>5, JumpLocal
<1>4. QED
  BY <1>1, <1>3 DEF ForkCopy

LEMMA ForkMapStep == ASSUME IInv, NEW p \in Proc, ForkMap(p) PROVE IInv'
<1>1. pc[p] = "f_map" /\ Busy(p) /\ tgt[p][1] # p /\ ref[Mem(p)] # None
  BY Types DEF ForkMap, At, Busy, Label, Hold
<1>2. CASE Remap(tgt[p], cur[p])
  BY <1>2, RemapStep
<1>3. ASSUME Mappages(p, tgt[p], cur[p], perm[Own(p)][cur[p]]), cur[p] \in Va,
             cur' = [cur EXCEPT ![p] = @ + 1], Goto(p, "f_copy"),
             UNCHANGED <<pt, tgt, lo, hi, ret, tlb, panicked>>
      PROVE  IInv'
  <2>1. perm[Own(p)][cur[p]] \in SUBSET {"W", "U", "COW"} /\ cur[p] + 1 \in Nat
    BY <1>3, OwnIn, Types DEF MemOK
  <2>2. MemOK' /\ RefLocal(p) /\ CpuOK'
    BY <1>3, <2>1, MappagesLocal, CpuFrame, Types
  <2>3. "f_copy" \in Pcs \ {"idle"} /\ cur' = [cur EXCEPT ![p] = cur[p] + 1]
    BY <1>3, Types DEF Pcs, ThreadOK
  <2>4. ASSUME tgt'[p] = tgt[p], pc'[p] = "f_copy"
        PROVE  Label(p)' /\ Hold(p)'
    BY <1>1, <2>4 DEF Label, Hold
  <2>5. QED
    BY <1>1, <1>3, <2>1, <2>2, <2>3, <2>4, CursorStep
<1>4. CASE Jump(p, "f_unref") /\ UNCHANGED <<mm, pt, tlb, panicked>>
  <2>1. MemOK' /\ CpuOK' /\ RefLocal(p) /\ "f_unref" \in Pcs \ {"idle"}
    BY <1>4, CpuFrame, RefSame, Types DEF MemOK, mm, Pcs
  <2>2. ASSUME tgt'[p] = tgt[p], pc'[p] = "f_unref"
        PROVE  Label(p)' /\ Hold(p)'
    BY <1>1, <1>4, <2>2 DEF Label, Hold, Mem, mm
  <2>3. QED
    BY <1>1, <1>4, <2>1, <2>2, JumpLocal
<1>5. QED
  BY <1>1, <1>2, <1>3, <1>4, Types DEF ForkMap, Label

LEMMA ForkUnrefStep == ASSUME IInv, NEW p \in Proc, ForkUnref(p) PROVE IInv'
<1>1. CASE KfreePanic(Mem(p))
  BY <1>1, KfreePanicStep
<1>2. CASE KfreeSlot(Mem(p), TRUE) /\ StartFreevm(p, tgt[p])
           /\ UNCHANGED <<perm, pt, tlb, panicked>>
  <2>1. Busy(p) /\ Mem(p) \in Slot /\ OwnSlot(p, Mem(p))
    BY SlotIn DEF ForkUnref, At, Busy, OwnSlot
  <2>2. MemOK' /\ CpuOK'
    BY <1>2, <2>1, KfreeSlotOK, CpuFrame, Types
  <2>3. RefLocal(p)
    BY <1>2, <2>1, RefOne, Types DEF KfreeSlot
  <2>4. QED
    BY <1>2, <2>1, <2>2, <2>3, StartFreevmStep
<1>3. QED
  BY <1>1, <1>2 DEF ForkUnref

LEMMA ForkFailStep == ASSUME IInv, NEW p \in Proc, ForkFail(p) PROVE IInv'
<1>1. CASE KfreePanic(KStack(tgt[p][1]))
  BY <1>1, KfreePanicStep
<1>2. ASSUME KfreeSlot(KStack(tgt[p][1]), TRUE),
             state' = [state EXCEPT ![tgt[p][1]] = "UNUSED"], Jump(p, "user"),
             UNCHANGED <<perm, parent, sz, side, ptlock, tlb, panicked>>
      PROVE  IInv'
  <2>1. Busy(p) /\ tgt[p][1] # p /\ KStack(tgt[p][1]) \in Slot
        /\ OwnSlot(p, KStack(tgt[p][1])) /\ "user" \in Pcs
    BY SlotIn, Types DEF ForkFail, At, Busy, Label, OwnSlot, Pcs
  <2>2. TypeOK'
    BY <1>2, <2>1, JumpOK, KfreeSlotOK, CpuFrame, Types DEF TypeOK, ProcOK
  <2>3. pc[tgt[p][1]] = "idle" /\ tgt[p][1] \in Proc
    BY <2>1, Types DEF ThreadsApart
  <2>4. /\ pc' = [pc EXCEPT ![p] = "user"]
        /\ \A q \in Proc \ {p} : tgt'[q] = tgt[q] /\ cur'[q] = cur[q]
                                 /\ ret'[q] = ret[q]
    BY <1>2, <2>1, JumpOK, Types
  <2>5. RefLocal(p)
    BY <1>2, <2>1, RefOne, Types DEF KfreeSlot
  <2>6. Settles(p, tgt[p][1])
    BY <1>2, <2>1, <2>3, <2>4, <2>5, Types DEF Settles, ProcOK, ThreadOK
  <2>7. QED
    BY <2>2, <2>3, <2>6, SettlesStep
<1>3. QED
  BY <1>1, <1>2 DEF ForkFail

LEMMA ForkDoneStep == ASSUME IInv, NEW p \in Proc, ForkDone(p) PROVE IInv'
<1>1. Busy(p) /\ tgt[p][1] # p /\ tgt[p][1] \in Proc /\ "user" \in Pcs
      /\ <<p, 0>> \in Space
  BY Types DEF ForkDone, At, Busy, Label, Pcs, Space
<1>2. ThreadOK' /\ ProcOK' /\ CpuOK' /\ MemOK'
  BY <1>1, CpuFrame, Types DEF ForkDone, ThreadOK, ProcOK, MemOK, mm
<1>3. RefLocal(p)
  BY RefSame DEF ForkDone, mm
<1>4. Settles(p, tgt[p][1])
  BY <1>1, <1>3, Types DEF Settles, ForkDone, ThreadOK, ProcOK
<1>5. QED
  BY <1>1, <1>2, <1>4, SettlesStep DEF TypeOK

-----------------------------------------------------------------------------
(* deallocuvm, freevm and allocuvm.                                        *)

LEMMA DeallocStepStep == ASSUME IInv, NEW p \in Proc, DeallocStep(p) PROVE IInv'
<1>1. CASE KfreePanic(PTE(tgt[p], cur[p]))
  BY <1>1, KfreePanicStep
<1>2. pc[p] = "dv" /\ Busy(p) /\ cur[p] < hi[p] /\ cur[p] \in Va
      /\ "dv" \in Pcs \ {"idle"} /\ "dv_clear" \in Pcs \ {"idle"}
  BY SizeAssumption, Types DEF DeallocStep, At, Busy, Va, ThreadOK, Pcs
<1>3. ASSUME NEW n \in Nat, cur' = [cur EXCEPT ![p] = n],
             UNCHANGED <<mm, pt, pc, tgt, lo, hi, ret, tlb, panicked>>
      PROVE  IInv'
  <2>1. MemOK' /\ CpuOK' /\ RefLocal(p) /\ Goto(p, "dv")
    BY <1>2, <1>3, CpuFrame, RefSame, Types DEF MemOK, mm, Goto, ThreadOK
  <2>2. ASSUME tgt'[p] = tgt[p], ret'[p] = ret[p], pc'[p] = "dv"
        PROVE  Label(p)' /\ Hold(p)'
    BY <1>2, <1>3, <2>2, Types DEF Label, Hold, Mem, mm
  <2>3. QED
    BY <1>2, <1>3, <2>1, <2>2, CursorStep
<1>4. ASSUME ref[PTE(tgt[p], cur[p])] # None,
             KfreeSlot(PTE(tgt[p], cur[p]), FALSE), Jump(p, "dv_clear"),
             UNCHANGED <<perm, pt, tlb, panicked>>
      PROVE  IInv'
  <2>1. PTE(tgt[p], cur[p]) \in Slot /\ OwnSlot(p, PTE(tgt[p], cur[p]))
        /\ UNCHANGED ref
    BY <1>2, <1>4, SlotIn, Types DEF OwnSlot, KfreeSlot
  <2>2. ASSUME tgt'[p] = tgt[p], cur'[p] = cur[p], ret'[p] = ret[p],
               pc'[p] = "dv_clear"
        PROVE  Label(p)' /\ Hold(p)'
    BY <1>2, <1>4, <2>1, <2>2, Types DEF Label, Hold, Mem, PTE
  <2>3. QED
    BY <1>2, <1>4, <2>1, <2>2, KfreeJump
<1>5. NextTable(cur[p]) \in Nat /\ cur[p] + 1 \in Nat
  <2>1. PDX(cur[p]) \in Nat
    BY <1>2, SizeAssumption DEF PDX, Va
  <2>2. QED
    BY <1>2, <2>1, SizeAssumption DEF Va, NextTable
<1>6. QED
  BY <1>1, <1>3, <1>4, <1>5 DEF DeallocStep

LEMMA DeallocClearStep == ASSUME IInv, NEW p \in Proc, DeallocClear(p)
                          PROVE  IInv'
<1>1. pc[p] = "dv_clear" /\ Busy(p) /\ cur[p] \in Va /\ cur[p] + 1 \in Nat
      /\ PTE(tgt[p], cur[p]) \in Slot /\ OwnSlot(p, PTE(tgt[p], cur[p]))
      /\ "dv" \in Pcs \ {"idle"}
  BY SlotIn, Types DEF DeallocClear, At, Busy, Label, OwnSlot, Pcs
<1>2. MemOK' /\ CpuOK'
  BY <1>1, CpuFrame, Types DEF DeallocClear, MemOK
<1>3. RefLocal(p)
  BY <1>1, RefOne, Types DEF DeallocClear
<1>4. ASSUME tgt'[p] = tgt[p], ret'[p] = ret[p], pc'[p] = "dv"
      PROVE  Label(p)' /\ Hold(p)'
  <2>1. ref'[Mem(p)] = ref[Mem(p)]
    BY <1>1, SlotIn, SlotDistinct, Types DEF DeallocClear, MemOK
  <2>2. QED
    BY <1>1, <1>4, <2>1, Types DEF Label, Hold, Mem
<1>5. cur' = [cur EXCEPT ![p] = cur[p] + 1]
  BY DEF DeallocClear
<1>6. QED
  BY <1>1, <1>2, <1>3, <1>4, <1>5, CursorStep DEF DeallocClear

LEMMA DeallocDoneStep == ASSUME IInv, NEW p \in Proc, DeallocDone(p) PROVE IInv'
<1>1. pc[p] = "dv" /\ Busy(p) /\ Jump(p, ret[p])
      /\ ret[p] \in {"fv_tab", "g_done", "user", "x_bad", "a_free"}
      /\ ret[p] \in Pcs \ {"idle"}
  BY Types DEF DeallocDone, At, Busy, Label, Pcs
<1>2. MemOK' /\ CpuOK' /\ RefLocal(p)
  BY CpuFrame, RefSame, Types DEF DeallocDone, MemOK, mm
<1>3. ASSUME tgt'[p] = tgt[p], pc'[p] = ret[p]
      PROVE  Label(p)' /\ Hold(p)'
  BY <1>1, <1>3, Types DEF Label, Hold, Mem, DeallocDone, mm
<1>4. QED
  BY <1>1, <1>2, <1>3, JumpLocal DEF DeallocDone

LEMMA FreeTabStep == ASSUME IInv, NEW p \in Proc, FreeTab(p) PROVE IInv'
<1>1. CASE \E s \in Slot : KfreePanic(s)
  BY <1>1, KfreePanicStep
<1>2. pc[p] = "fv_tab" /\ Busy(p) /\ PgDir(tgt[p]) \in Slot
      /\ OwnSlot(p, PgDir(tgt[p]))
      /\ \A i \in Pde : PDE(tgt[p], i) \in Slot
  BY SlotIn, Types DEF FreeTab, At, Busy, OwnSlot
<1>3. ASSUME NEW i \in Pde, KfreeSlot(PDE(tgt[p], i), TRUE),
             UNCHANGED <<perm, pt, kt, tlb, panicked>>
      PROVE  IInv'
  <2>1. OwnSlot(p, PDE(tgt[p], i))
    <3>1. i \in Nat
      BY SizeAssumption DEF Pde, UPde, KPde, PDX, Va
    <3>2. QED
      BY <3>1 DEF OwnSlot
  <2>2. MemOK' /\ CpuOK' /\ RefLocal(p)
    BY <1>2, <1>3, <2>1, KfreeSlotOK, CpuFrame, RefOne, Types DEF KfreeSlot
  <2>3. Goto(p, "fv_tab") /\ cur' = [cur EXCEPT ![p] = cur[p]]
        /\ UNCHANGED <<tgt, lo, hi, ret>> /\ "fv_tab" \in Pcs \ {"idle"}
    BY <1>2, <1>3, Types DEF kt, loc, Goto, ThreadOK, Pcs
  <2>4. ASSUME pc'[p] = "fv_tab" PROVE Label(p)' /\ Hold(p)'
    BY <2>4 DEF Label, Hold
  <2>5. QED
    BY <1>2, <1>3, <2>2, <2>3, <2>4, Types, CursorStep
<1>4. ASSUME KfreeSlot(PgDir(tgt[p]), TRUE), Jump(p, AfterFreevm(p)),
             UNCHANGED <<perm, pt, tlb, panicked>>
      PROVE  IInv'
  <2>1. AfterFreevm(p) \in {"user", "w_done", "f_fail"}
        /\ AfterFreevm(p) \in Pcs \ {"idle"}
    BY DEF AfterFreevm, Pcs
  <2>2. ASSUME AfterFreevm(p) # "user", tgt'[p] = tgt[p],
               pc'[p] = AfterFreevm(p)
        PROVE  Label(p)' /\ Hold(p)'
    BY <1>4, <2>1, <2>2 DEF Label, Hold, AfterFreevm, pt
  <2>3. QED
    BY <1>2, <1>4, <2>1, <2>2, KfreeJump
<1>5. QED
  BY <1>1, <1>2, <1>3, <1>4 DEF FreeTab

LEMMA AllocPageStep == ASSUME IInv, NEW p \in Proc, AllocPage(p) PROVE IInv'
<1>1. pc[p] = "a_alloc" /\ Busy(p) /\ Mem(p) \in Slot /\ OwnSlot(p, Mem(p))
      /\ ret[p] \in {"g_done", "x_load", "x_stack"}
      /\ lo[p] \in 0 .. NVa /\ hi[p] \in 0 .. NVa
  BY SlotIn, Types DEF AllocPage, At, Busy, OwnSlot, Label, ThreadOK
<1>2. ASSUME NEW pg \in freelist, Kalloc(pg),
             ref' = [ref EXCEPT ![Mem(p)] = pg],
             data' = [data EXCEPT ![pg] = "zero"], Jump(p, "a_map"),
             UNCHANGED <<perm, pt, tlb, panicked>>
      PROVE  IInv'
  <2>1. "a_map" \in Pcs \ {"idle"} /\ (data \in [Page -> Data])'
    BY <1>2, Types DEF Pcs, Data, MemOK
  <2>2. ref'[Mem(p)] # None
    BY <1>1, <1>2, KallocOK, Types DEF MemOK
  <2>3. ASSUME ret'[p] = ret[p], pc'[p] = "a_map" PROVE Label(p)' /\ Hold(p)'
    BY <1>1, <2>2, <2>3 DEF Label, Hold, Mem
  <2>4. QED
    BY <1>1, <1>2, <2>1, <2>3, KallocJump
<1>3. CASE StartDealloc(p, tgt[p], lo[p], hi[p], AllocFailed(p))
           /\ UNCHANGED <<mm, pt, tlb, panicked>>
  <2>1. AllocFailed(p) \in {"user", "x_bad"} /\ AllocFailed(p) \in Pcs
    BY DEF AllocFailed, Pcs
  <2>2. MemOK' /\ CpuOK' /\ RefLocal(p)
    BY <1>3, CpuFrame, RefSame, Types DEF MemOK, mm
  <2>3. QED
    BY <1>1, <1>3, <2>1, <2>2, StartDeallocStep
<1>4. QED
  BY <1>2, <1>3 DEF AllocPage

LEMMA AllocMapStep == ASSUME IInv, NEW p \in Proc, AllocMap(p) PROVE IInv'
<1>1. pc[p] = "a_map" /\ Busy(p) /\ ref[Mem(p)] # None
      /\ ret[p] \in {"g_done", "x_load", "x_stack"}
      /\ lo[p] \in 0 .. NVa /\ hi[p] \in 0 .. NVa
  BY Types DEF AllocMap, At, Busy, Label, Hold, ThreadOK
<1>2. CASE Remap(tgt[p], cur[p])
  BY <1>2, RemapStep
<1>3. ASSUME Mappages(p, tgt[p], cur[p], {"W", "U"}),
             cur' = [cur EXCEPT ![p] = @ + 1], Goto(p, "a_alloc"),
             UNCHANGED <<pt, tgt, lo, hi, ret, tlb, panicked>>
      PROVE  IInv'
  <2>1. MemOK' /\ RefLocal(p) /\ CpuOK'
    BY <1>3, MappagesLocal, CpuFrame, Types
  <2>2. "a_alloc" \in Pcs \ {"idle"} /\ cur' = [cur EXCEPT ![p] = cur[p] + 1]
        /\ cur[p] + 1 \in Nat
    BY <1>3, Types DEF Pcs
  <2>3. ASSUME ret'[p] = ret[p], pc'[p] = "a_alloc" PROVE Label(p)' /\ Hold(p)'
    BY <1>1, <2>3 DEF Label, Hold
  <2>4. QED
    BY <1>1, <1>3, <2>1, <2>2, <2>3, CursorStep
<1>4. CASE StartDealloc(p, tgt[p], lo[p], hi[p], "a_free")
           /\ UNCHANGED <<mm, pt, tlb, panicked>>
  <2>1. MemOK' /\ CpuOK' /\ RefLocal(p) /\ ref'[Mem(p)] # None
        /\ "a_free" \in Pcs
    BY <1>1, <1>4, CpuFrame, RefSame, Types DEF MemOK, mm, Pcs
  <2>2. QED
    BY <1>1, <1>4, <2>1, StartDeallocStep
<1>5. QED
  BY <1>2, <1>3, <1>4 DEF AllocMap

LEMMA AllocFreeStep == ASSUME IInv, NEW p \in Proc, AllocFree(p) PROVE IInv'
<1>1. CASE KfreePanic(Mem(p))
  BY <1>1, KfreePanicStep
<1>2. CASE KfreeSlot(Mem(p), TRUE) /\ Jump(p, AllocFailed(p))
           /\ UNCHANGED <<perm, pt, tlb, panicked>>
  <2>1. Busy(p) /\ Mem(p) \in Slot /\ OwnSlot(p, Mem(p))
    BY SlotIn DEF AllocFree, At, Busy, OwnSlot
  <2>2. AllocFailed(p) \in {"user", "x_bad"} /\ AllocFailed(p) \in Pcs \ {"idle"}
    BY DEF AllocFailed, Pcs
  <2>3. ASSUME pc'[p] = AllocFailed(p) PROVE Label(p)' /\ Hold(p)'
    BY <2>2, <2>3 DEF Label, Hold
  <2>4. QED
    BY <1>2, <2>1, <2>2, <2>3, KfreeJump
<1>3. QED
  BY <1>1, <1>2 DEF AllocFree

LEMMA AllocDoneStep == ASSUME IInv, NEW p \in Proc, AllocDone(p) PROVE IInv'
<1>1. pc[p] = "a_alloc" /\ Busy(p) /\ Jump(p, ret[p])
      /\ ret[p] \in {"g_done", "x_load", "x_stack"} /\ ret[p] \in Pcs \ {"idle"}
  BY Types DEF AllocDone, At, Busy, Label, Pcs
<1>2. MemOK' /\ CpuOK' /\ RefLocal(p)
  BY CpuFrame, RefSame, Types DEF AllocDone, MemOK, mm
<1>3. ASSUME pc'[p] = ret[p] PROVE Label(p)' /\ Hold(p)'
  BY <1>1, <1>3 DEF Label, Hold
<1>4. QED
  BY <1>1, <1>2, <1>3, JumpLocal DEF AllocDone

-----------------------------------------------------------------------------
(* Steps that change the process p itself: growproc, exec, wait.           *)

\* A step of a kernel thread that changes sz or side of its own process.
LEMMA OwnStep ==
  ASSUME IInv, NEW p \in Proc, Busy(p), UNCHANGED <<state, parent, ptlock>>,
         \A q \in Proc \ {p} : /\ pc'[q] = pc[q] /\ tgt'[q] = tgt[q]
                               /\ cur'[q] = cur[q] /\ ret'[q] = ret[q]
                               /\ side'[q] = side[q],
         RefLocal(p), TypeOK', Label(p)', Hold(p)',
         pc'[p] = "user" \/ (Busy(p)' /\ tgt'[p][1] = p)
  PROVE  IInv'
<1>1. \A q \in Proc \ {p} : /\ Busy(q)' <=> Busy(q)
                          /\ Busy(q) => tgt[q][1] # p
  BY Apart DEF Busy
<1>2. pc[p] # "idle" /\ pc'[p] # "idle"
  BY DEF Busy
<1>3. ThreadsApart'
  <2>1. \A q \in Proc \ {p} : Busy(q)' => Busy(q) /\ tgt'[q] = tgt[q]
    BY <1>1 DEF Busy
  <2>2. Busy(p)' => tgt'[p][1] = p
    BY DEF Busy
  <2>3. \A q \in Proc : pc'[q] = "idle" <=> pc[q] = "idle"
    BY <1>2
  <2>4. QED
    BY <1>1, <2>1, <2>2, <2>3, Types DEF ThreadsApart
<1>4. OthersSame(p)
  <2>1. SUFFICES ASSUME NEW q \in Proc \ {p}, Busy(q) PROVE Same(q)
    BY DEF OthersSame, Busy
  <2>2. /\ ref'[Mem(q)] = ref[Mem(q)]
        /\ cur[q] \in Va =>
             ref'[PTE(tgt[q], cur[q])] = ref[PTE(tgt[q], cur[q])]
    BY <2>1, RefLocalOthers
  <2>3. QED
    BY <2>1, <2>2 DEF Same
<1>5. QED
  BY <1>3, <1>4, Compose

LEMMA GrowDoneStep == ASSUME IInv, NEW p \in Proc, GrowDone(p) PROVE IInv'
<1>1. Busy(p) /\ Jump(p, "user") /\ "user" \in Pcs
  BY DEF GrowDone, At, Busy, Pcs
<1>2. /\ ThreadOK' /\ pc' = [pc EXCEPT ![p] = "user"]
      /\ \A q \in Proc \ {p} : /\ tgt'[q] = tgt[q] /\ cur'[q] = cur[q]
                               /\ ret'[q] = ret[q]
  BY <1>1, JumpOK, Types
<1>3. MemOK' /\ CpuOK' /\ RefLocal(p)
  BY FlushOK, RefSame, Types DEF GrowDone, MemOK, mm
<1>4. ProcOK'
  BY Types DEF GrowDone, ProcOK, ThreadOK
<1>5. pc'[p] = "user" /\ \A q \in Proc \ {p} : pc'[q] = pc[q]
  BY <1>2, Types DEF ThreadOK
<1>6. Label(p)' /\ Hold(p)'
  BY <1>5 DEF Label, Hold
<1>7. QED
  BY <1>1, <1>2, <1>3, <1>4, <1>5, <1>6, OwnStep DEF TypeOK, GrowDone

LEMMA ExecLoadStep == ASSUME IInv, NEW p \in Proc, ExecLoad(p) PROVE IInv'
<1>1. pc[p] = "x_load" /\ Busy(p) /\ UNCHANGED pt
  BY DEF ExecLoad, At, Busy
<1>2. (data \in [Page -> Data])'
  BY Types DEF ExecLoad, MemOK, Data
<1>3. MemOK' /\ CpuOK' /\ RefLocal(p)
  BY <1>2, CpuFrame, RefSame, Types DEF ExecLoad, MemOK
<1>4. CASE Goto(p, "x_bad") /\ UNCHANGED <<tgt, cur, lo, hi, ret>>
  <2>1. "x_bad" \in Pcs \ {"idle"} /\ cur' = [cur EXCEPT ![p] = cur[p]]
    BY <1>4, Types DEF Pcs, ThreadOK
  <2>2. ASSUME pc'[p] = "x_bad" PROVE Label(p)' /\ Hold(p)'
    BY <2>2 DEF Label, Hold
  <2>3. QED
    BY <1>1, <1>3, <1>4, <2>1, <2>2, CursorStep, Types
<1>5. CASE /\ hi[p] + 2 < NVa
           /\ StartAlloc(p, tgt[p], hi[p], hi[p] + 2, "x_stack")
  <2>1. "x_stack" \in Pcs /\ "a_alloc" \in Pcs \ {"idle"}
        /\ hi[p] \in 0 .. NVa /\ hi[p] + 2 \in 0 .. NVa
    BY <1>5, SizeAssumption, Types DEF Pcs, ThreadOK
  <2>2. /\ ThreadOK' /\ pc' = [pc EXCEPT ![p] = "a_alloc"]
        /\ tgt' = [tgt EXCEPT ![p] = tgt[p]] /\ cur' = [cur EXCEPT ![p] = hi[p]]
        /\ ret' = [ret EXCEPT ![p] = "x_stack"]
    BY <1>5, <2>1, StartAllocOK, Types
  <2>3. LocalStep(p) /\ tgt'[p] = tgt[p]
    BY <1>1, <1>3, <2>2, Types DEF LocalStep, ThreadOK
  <2>4. Label(p)' /\ Hold(p)'
    BY <2>2, Types DEF Label, Hold, ThreadOK
  <2>5. QED
    BY <1>3, <2>1, <2>2, <2>3, <2>4, LocalCompose
<1>6. QED
  BY <1>4, <1>5 DEF ExecLoad

LEMMA ExecStackStep == ASSUME IInv, NEW p \in Proc, ExecStack(p) PROVE IInv'
<1>1. pc[p] = "x_stack" /\ Busy(p) /\ hi[p] \in 0 .. NVa
      /\ UNCHANGED <<freelist, rc, ref, state, parent, ptlock, panicked>>
  BY Types DEF ExecStack, At, Busy, ThreadOK
<1>2. MemOK' /\ RefLocal(p)
  BY <1>1, RefSame, Types DEF ExecStack, MemOK, Data
<1>3. CASE Goto(p, "x_bad") /\ UNCHANGED <<side, sz, tlb, tgt, cur, lo, hi, ret>>
  <2>1. "x_bad" \in Pcs \ {"idle"} /\ cur' = [cur EXCEPT ![p] = cur[p]]
        /\ UNCHANGED pt /\ CpuOK'
    BY <1>1, <1>3, CpuFrame, Types DEF Pcs, ThreadOK, pt
  <2>2. ASSUME pc'[p] = "x_bad" PROVE Label(p)' /\ Hold(p)'
    BY <2>2 DEF Label, Hold
  <2>3. QED
    BY <1>1, <1>2, <1>3, <2>1, <2>2, CursorStep, Types
<1>4. ASSUME side' = [side EXCEPT ![p] = 1 - @], sz' = [sz EXCEPT ![p] = hi[p]],
             Flush(p), StartFreevm(p, OldSpace(p))
      PROVE  IInv'
  <2>1. Own(p) \in Space /\ Own(p)[1] = p /\ "fv_tab" \in Pcs
        /\ 0 \in 0 .. NVa /\ NVa \in 0 .. NVa
    BY OwnIn, SizeAssumption, Types DEF Pcs
  <2>2. /\ ThreadOK' /\ pc' = [pc EXCEPT ![p] = "dv"]
        /\ tgt' = [tgt EXCEPT ![p] = Own(p)] /\ cur' = [cur EXCEPT ![p] = 0]
        /\ ret' = [ret EXCEPT ![p] = "fv_tab"]
    BY <1>4, <2>1, StartDeallocOK, Types DEF StartFreevm, OldSpace
  <2>3. CpuOK' /\ ProcOK'
    BY <1>1, <1>4, FlushOK, Types DEF ProcOK
  <2>4. /\ \A q \in Proc \ {p} : /\ pc'[q] = pc[q] /\ tgt'[q] = tgt[q]
                                 /\ cur'[q] = cur[q] /\ ret'[q] = ret[q]
                                 /\ side'[q] = side[q]
        /\ pc'[p] = "dv" /\ ret'[p] = "fv_tab" /\ tgt'[p] = Own(p)
    BY <1>4, <2>2, Types DEF ThreadOK, ProcOK
  <2>5. Label(p)' /\ Hold(p)' /\ Busy(p)'
    BY <2>4 DEF Label, Hold, Busy
  <2>6. QED
    BY <1>1, <1>2, <2>1, <2>2, <2>3, <2>4, <2>5, OwnStep DEF TypeOK
<1>5. QED
  BY <1>3, <1>4 DEF ExecStack

LEMMA ExecBadStep == ASSUME IInv, NEW p \in Proc, ExecBad(p) PROVE IInv'
BY StartFreevmStep, CpuFrame, RefSame, Types DEF ExecBad, At, Busy, MemOK, mm

LEMMA WaitKstackStep == ASSUME IInv, NEW p \in Proc, WaitKstack(p) PROVE IInv'
<1>1. CASE KfreePanic(KStack(tgt[p][1]))
  BY <1>1, KfreePanicStep
<1>2. CASE KfreeSlot(KStack(tgt[p][1]), TRUE) /\ StartFreevm(p, tgt[p])
           /\ UNCHANGED <<perm, pt, tlb, panicked>>
  <2>1. Busy(p) /\ KStack(tgt[p][1]) \in Slot /\ OwnSlot(p, KStack(tgt[p][1]))
    BY SlotIn, Types DEF WaitKstack, At, Busy, OwnSlot
  <2>2. MemOK' /\ CpuOK'
    BY <1>2, <2>1, KfreeSlotOK, CpuFrame, Types
  <2>3. RefLocal(p)
    BY <1>2, <2>1, RefOne, Types DEF KfreeSlot
  <2>4. QED
    BY <1>2, <2>1, <2>2, <2>3, StartFreevmStep
<1>3. QED
  BY <1>1, <1>2 DEF WaitKstack

LEMMA WaitDoneStep == ASSUME IInv, NEW p \in Proc, WaitDone(p) PROVE IInv'
<1>1. pc[p] = "w_done" /\ Busy(p) /\ tgt[p][1] # p /\ tgt[p][1] \in Proc
      /\ state[tgt[p][1]] = "ZOMBIE" /\ "user" \in Pcs
  BY Types DEF WaitDone, At, Busy, Label, Pcs
<1>2. ptlock = p /\ pc[tgt[p][1]] = "idle"
  BY <1>1, Types DEF ThreadsApart
<1>3. /\ ThreadOK' /\ pc' = [pc EXCEPT ![p] = "user"]
      /\ \A q \in Proc \ {p} : /\ tgt'[q] = tgt[q] /\ cur'[q] = cur[q]
                               /\ ret'[q] = ret[q]
  BY <1>1, JumpOK, Types DEF WaitDone
<1>4. MemOK' /\ CpuOK' /\ RefLocal(p)
  BY CpuFrame, RefSame, Types DEF WaitDone, MemOK, mm
<1>5. ProcOK'
  BY <1>1, Types DEF WaitDone, ProcOK
<1>6. Settles(p, tgt[p][1])
  BY <1>1, <1>2, <1>3, <1>4, Types DEF Settles, WaitDone, ThreadOK, ProcOK
<1>7. QED
  BY <1>1, <1>3, <1>4, <1>5, <1>6, SettlesStep DEF TypeOK

-----------------------------------------------------------------------------
(* User code, and the system calls that it starts.                         *)

LEMMA HaltedStep == ASSUME IInv, UNCHANGED vars PROVE IInv'
<1>1. TypeOK'
  BY Types DEF TypeOK, MemOK, ProcOK, ThreadOK, CpuOK, vars
<1>2. ThreadsApart'
  BY Types DEF ThreadsApart, Busy, vars
<1>3. \A p \in Proc : Label(p)' /\ Hold(p)'
  BY Types DEF Label, Hold, Own, PTE, Mem, vars
<1>4. QED
  BY <1>1, <1>2, <1>3 DEF IInv

\* A step that changes only what pages contain, and TLBs.
LEMMA AccessStep ==
  ASSUME IInv, UNCHANGED <<ref, pt, kt>>, MemOK', CpuOK'
  PROVE  IInv'
<1>1. TypeOK'
  BY Types DEF TypeOK, ProcOK, ThreadOK, pt, kt, loc
<1>2. ThreadsApart'
  BY Types DEF ThreadsApart, Busy, pt, kt, loc
<1>3. \A p \in Proc : Label(p)' /\ Hold(p)'
  BY Types DEF Label, Hold, Own, PTE, Mem, pt, kt, loc
<1>4. QED
  BY <1>1, <1>2, <1>3 DEF IInv

LEMMA TlbFillStep ==
  ASSUME IInv, NEW p \in Proc, NEW va \in Va, TlbFill(p, va)
  PROVE  IInv'
<1>1. MemOK' /\ UNCHANGED <<ref, pt, kt>>
  BY Types DEF TlbFill, MemOK, mm
<1>2. <<ref[PTE(Own(p), va)], perm[Own(p)][va]>>
        \in Page \X SUBSET {"W", "U", "COW"}
  BY OwnIn, SlotIn, Types DEF TlbFill, MemOK
<1>3. CpuOK'
  BY <1>2, Types DEF TlbFill, CpuOK
<1>4. QED
  BY <1>1, <1>3, AccessStep

LEMMA YieldStep == ASSUME IInv, NEW p \in Proc, Yield(p) PROVE IInv'
BY AccessStep, FlushOK, Types DEF Yield, MemOK, mm

LEMMA UserWriteStep ==
  ASSUME IInv, NEW p \in Proc, NEW va \in Va, NEW v \in Val, UserWrite(p, va, v)
  PROVE  IInv'
<1>1. MemOK' /\ CpuOK'
  BY CpuFrame, Types DEF UserWrite, MemOK, Data
<1>2. QED
  BY <1>1, AccessStep DEF UserWrite

\* User code is at most one thread's business.
LEMMA UserAlone ==
  ASSUME IInv, NEW p \in Proc, pc[p] = "user",
         NEW q \in Proc \ {p}, Busy(q)
  PROVE  tgt[q][1] # p
BY Types DEF ThreadsApart

\* p enters the kernel to work on its own process.
LEMMA EnterStep ==
  ASSUME IInv, NEW p \in Proc, pc[p] = "user",
         NEW l \in Pcs \ {"idle"}, pc' = [pc EXCEPT ![p] = l], tgt'[p][1] = p,
         \A q \in Proc \ {p} : /\ tgt'[q] = tgt[q] /\ cur'[q] = cur[q]
                               /\ ret'[q] = ret[q],
         UNCHANGED <<mm, pt, tlb, panicked>>, ThreadOK',
         pc'[p] = l => Label(p)' /\ Hold(p)'
  PROVE  IInv'
<1>1. TypeOK'
  BY Types DEF TypeOK, MemOK, ProcOK, CpuOK, mm, pt
<1>2. pc'[p] = l /\ \A q \in Proc \ {p} : pc'[q] = pc[q]
  BY Types DEF ThreadOK
<1>3. \A q \in Proc \ {p} : Busy(q)' => Busy(q) /\ tgt[q][1] # p
  BY <1>2, UserAlone DEF Busy
<1>4. ThreadsApart'
  BY <1>2, <1>3, Types DEF ThreadsApart, pt
<1>5. OthersSame(p)
  BY <1>2, Types DEF OthersSame, Same, mm, pt
<1>6. QED
  BY <1>1, <1>2, <1>4, <1>5, Compose

LEMMA PageFaultStep ==
  ASSUME IInv, NEW p \in Proc, NEW va \in Va, NEW w \in BOOLEAN,
         NEW usr \in BOOLEAN, PageFault(p, va, w, usr)
  PROVE  IInv'
<1>1. CASE Panic("pagefault handler")
  BY <1>1, PanicStep DEF Panics
<1>2. ASSUME ref[PTE(Own(p), va)] # None, Goto(p, "pf_alloc"),
             tgt' = [tgt EXCEPT ![p] = Own(p)], cur' = [cur EXCEPT ![p] = va],
             UNCHANGED <<mm, pt, lo, hi, ret, tlb, panicked>>
      PROVE  IInv'
  <2>1. pc[p] = "user" /\ "pf_alloc" \in Pcs \ {"idle"} /\ va \in Nat
        /\ Own(p) \in Space /\ Own(p)[1] = p
    <3>1. pc[p] = "user"
      BY DEF PageFault, At
    <3>2. QED
      BY <3>1, OwnIn, SizeAssumption, Types DEF Pcs, Va
  <2>2. ThreadOK' /\ pc' = [pc EXCEPT ![p] = "pf_alloc"]
    BY <1>2, <2>1, Types DEF ThreadOK, Goto
  <2>3. tgt'[p] = Own(p) /\ cur'[p] = va
    BY <1>2, Types DEF ThreadOK
  <2>4. ASSUME pc'[p] = "pf_alloc" PROVE Label(p)' /\ Hold(p)'
    BY <1>2, <2>3, <2>4 DEF Label, Hold, Own, PTE, pt, mm
  <2>5. QED
    BY <1>2, <2>1, <2>2, <2>3, <2>4, EnterStep, Types DEF ThreadOK
<1>3. QED
  BY <1>1, <1>2 DEF PageFault

\* The system calls that start with deallocuvm or allocuvm.
LEMMA SbrkStep ==
  ASSUME IInv, NEW p \in Proc, At(p, "user"), NEW l \in 0 .. NVa,
         NEW h \in 0 .. NVa, UNCHANGED <<mm, pt, tlb, panicked>>,
         \/ StartAlloc(p, Own(p), l, h, "g_done")
         \/ StartDealloc(p, Own(p), l, h, "g_done")
         \/ StartDealloc(p, Own(p), l, h, "user")
  PROVE  IInv'
<1>1. pc[p] = "user" /\ Own(p) \in Space /\ Own(p)[1] = p
      /\ {"a_alloc", "dv"} \subseteq Pcs \ {"idle"} /\ {"g_done", "user"} \subseteq Pcs
  BY OwnIn, Types DEF At, Pcs
<1>2. CASE StartAlloc(p, Own(p), l, h, "g_done")
  <2>1. /\ ThreadOK' /\ pc' = [pc EXCEPT ![p] = "a_alloc"]
        /\ tgt' = [tgt EXCEPT ![p] = Own(p)] /\ cur' = [cur EXCEPT ![p] = l]
        /\ ret' = [ret EXCEPT ![p] = "g_done"]
    BY <1>1, <1>2, StartAllocOK, Types
  <2>2. ASSUME pc'[p] = "a_alloc" PROVE Label(p)' /\ Hold(p)'
    BY <2>1, <2>2, Types DEF Label, Hold, ThreadOK
  <2>3. QED
    BY <1>1, <2>1, <2>2, EnterStep, Types DEF ThreadOK
<1>3. ASSUME NEW r \in {"g_done", "user"}, StartDealloc(p, Own(p), l, h, r)
      PROVE  IInv'
  <2>1. /\ ThreadOK' /\ pc' = [pc EXCEPT ![p] = "dv"]
        /\ tgt' = [tgt EXCEPT ![p] = Own(p)] /\ cur' = [cur EXCEPT ![p] = l]
        /\ ret' = [ret EXCEPT ![p] = r]
    BY <1>1, <1>3, StartDeallocOK, Types
  <2>2. ASSUME pc'[p] = "dv" PROVE Label(p)' /\ Hold(p)'
    BY <2>1, <2>2, Types DEF Label, Hold, ThreadOK
  <2>3. QED
    BY <1>1, <2>1, <2>2, EnterStep, Types DEF ThreadOK
<1>4. QED
  BY <1>2, <1>3

LEMMA SbrkGrowStep ==
  ASSUME IInv, NEW p \in Proc, NEW n \in 1 .. NVa, SbrkGrow(p, n)
  PROVE  IInv'
<1>1. sz[p] \in 0 .. NVa /\ sz[p] + n \in 0 .. NVa
  BY SizeAssumption, Types DEF SbrkGrow, ProcOK
<1>2. QED
  BY <1>1, SbrkStep DEF SbrkGrow

LEMMA SbrkShrinkStep ==
  ASSUME IInv, NEW p \in Proc, NEW n \in -NVa .. -1, SbrkShrink(p, n)
  PROVE  IInv'
<1>1. sz[p] \in 0 .. NVa /\ sz[p] + n \in 0 .. NVa
  BY SizeAssumption, Types DEF SbrkShrink, ProcOK
<1>2. QED
  BY <1>1, SbrkStep DEF SbrkShrink

LEMMA SbrkAllStep == ASSUME IInv, NEW p \in Proc, SbrkAll(p) PROVE IInv'
<1>1. sz[p] \in 0 .. NVa /\ 0 \in 0 .. NVa
  BY SizeAssumption, Types DEF ProcOK
<1>2. QED
  BY <1>1, SbrkStep DEF SbrkAll

LEMMA ExecStartStep ==
  ASSUME IInv, NEW p \in Proc, NEW n \in 1 .. NVa - 1, ExecStart(p, n)
  PROVE  IInv'
<1>1. pc[p] = "user" /\ Other(p) \in Space /\ Other(p)[1] = p
      /\ "s_pgdir" \in Pcs \ {"idle"} /\ "x_load" \in Pcs
      /\ n \in 0 .. NVa /\ 0 \in 0 .. NVa
  BY OwnIn, SizeAssumption, Types DEF ExecStart, At, Pcs
<1>2. ThreadOK' /\ pc' = [pc EXCEPT ![p] = "s_pgdir"]
  BY <1>1, Types DEF ExecStart, ThreadOK, Goto
<1>3. tgt'[p] = Other(p) /\ ret'[p] = "x_load"
  BY Types DEF ExecStart, ThreadOK
<1>4. ASSUME pc'[p] = "s_pgdir" PROVE Label(p)' /\ Hold(p)'
  BY <1>3, <1>4 DEF Label, Hold
<1>5. QED
  BY <1>1, <1>2, <1>3, <1>4, EnterStep, Types DEF ExecStart, ThreadOK

LEMMA ForkStartStep == ASSUME IInv, NEW p \in Proc, ForkStart(p) PROVE IInv'
<1>1. PICK np \in Proc : /\ state[np] = "UNUSED"
                         /\ state' = [state EXCEPT ![np] = "EMBRYO"]
                         /\ tgt' = [tgt EXCEPT ![p] = <<np, side[np]>>]
  BY DEF ForkStart
<1>2. /\ pc[p] = "user" /\ pc' = [pc EXCEPT ![p] = "f_kstack"]
      /\ UNCHANGED <<mm, parent, sz, side, ptlock, cur, lo, hi, ret, tlb, panicked>>
  BY DEF ForkStart, At, Goto
<1>3. pc[np] = "idle" /\ np # p /\ <<np, side[np]>> \in Space
  BY <1>1, <1>2, Types DEF ThreadsApart, ProcOK, Space
<1>4. TypeOK'
  BY <1>1, <1>2, <1>3, Types
     DEF TypeOK, MemOK, ProcOK, ThreadOK, CpuOK, Pcs, mm
<1>5. /\ pc'[p] = "f_kstack" /\ tgt'[p] = <<np, side[np]>> /\ state'[np] = "EMBRYO"
      /\ \A q \in Proc \ {p} : pc'[q] = pc[q] /\ tgt'[q] = tgt[q]
      /\ \A q \in Proc \ {np} : state'[q] = state[q]
  BY <1>1, <1>2, Types DEF ThreadOK, ProcOK
<1>6. \A q \in Proc \ {p} : Busy(q) =>
        q # np /\ tgt[q][1] # p /\ tgt[q][1] # np
  BY <1>1, <1>2, <1>3, Types DEF ThreadsApart, Busy
<1>7. ThreadsApart'
  BY <1>2, <1>3, <1>5, <1>6, Types DEF ThreadsApart, Busy
<1>8. Label(p)' /\ Hold(p)'
  BY <1>3, <1>5 DEF Label, Hold
<1>9. OthersSame(p)
  <2>1. SUFFICES ASSUME NEW q \in Proc \ {p}, Busy(q) PROVE Same(q)
    BY <1>5 DEF OthersSame, Busy
  <2>2. QED
    BY <1>2, <1>5, <1>6, <2>1, Types DEF Same, mm
<1>10. QED
  BY <1>4, <1>7, <1>8, <1>9, Compose

LEMMA ExitStep == ASSUME IInv, NEW p \in Proc, Exit(p) PROVE IInv'
<1>1. CASE Panic("init exiting")
  BY <1>1, PanicStep DEF Panics
<1>2. ASSUME state' = [state EXCEPT ![p] = "ZOMBIE"],
             parent' = [q \in Proc |->
               IF parent[q] = p THEN InitProc ELSE parent[q]],
             Jump(p, "idle"), Flush(p), UNCHANGED <<mm, sz, side, ptlock, panicked>>
      PROVE  IInv'
  <2>1. pc[p] = "user" /\ "idle" \in Pcs
    BY DEF Exit, At, Pcs
  <2>2. /\ ThreadOK' /\ pc' = [pc EXCEPT ![p] = "idle"]
        /\ \A q \in Proc \ {p} : /\ tgt'[q] = tgt[q] /\ cur'[q] = cur[q]
                                 /\ ret'[q] = ret[q]
    BY <1>2, <2>1, JumpOK, Types
  <2>3. ProcOK'
    BY <1>2, SizeAssumption, Types DEF ProcOK, InitProc, Proc
  <2>4. MemOK' /\ CpuOK'
    BY <1>2, FlushOK, Types DEF MemOK, mm
  <2>5. /\ pc'[p] = "idle" /\ state'[p] = "ZOMBIE"
        /\ \A q \in Proc \ {p} : pc'[q] = pc[q] /\ state'[q] = state[q]
    BY <1>2, <2>2, Types DEF ThreadOK, ProcOK
  <2>6. \A q \in Proc \ {p} : Busy(q) => tgt[q][1] # p
    BY <2>1, UserAlone
  <2>7. ThreadsApart'
    BY <1>2, <2>1, <2>2, <2>5, <2>6, Types DEF ThreadsApart, Busy
  <2>8. OthersSame(p)
    <3>1. SUFFICES ASSUME NEW q \in Proc \ {p}, Busy(q) PROVE Same(q)
      BY <2>5 DEF OthersSame, Busy
    <3>2. QED
      BY <1>2, <2>2, <2>5, <2>6, <3>1, Types DEF Same, mm
  <2>9. QED
    BY <2>2, <2>3, <2>4, <2>5, <2>7, <2>8, Compose DEF TypeOK, Label, Hold
<1>3. QED
  BY <1>1, <1>2 DEF Exit

LEMMA WaitStep == ASSUME IInv, NEW p \in Proc, Wait(p) PROVE IInv'
<1>1. PICK c \in Proc : /\ state[c] = "ZOMBIE"
                        /\ tgt' = [tgt EXCEPT ![p] = <<c, side[c]>>]
  BY DEF Wait
<1>2. /\ pc[p] = "user" /\ pc' = [pc EXCEPT ![p] = "w_kstack"]
      /\ ptlock = None /\ ptlock' = p
      /\ UNCHANGED <<mm, state, parent, sz, side, cur, lo, hi, ret, tlb, panicked>>
  BY DEF Wait, At, Goto
<1>3. pc[c] = "idle" /\ c # p /\ <<c, side[c]>> \in Space
  BY <1>1, <1>2, Types DEF ThreadsApart, ProcOK, Space
<1>4. TypeOK'
  BY <1>1, <1>2, <1>3, Types
     DEF TypeOK, MemOK, ProcOK, ThreadOK, CpuOK, Pcs, mm
<1>5. /\ pc'[p] = "w_kstack" /\ tgt'[p] = <<c, side[c]>>
      /\ \A q \in Proc \ {p} : pc'[q] = pc[q] /\ tgt'[q] = tgt[q]
  BY <1>1, <1>2, Types DEF ThreadOK
<1>6. \A q \in Proc \ {p} : Busy(q) =>
        q # c /\ tgt[q][1] # p /\ state[tgt[q][1]] # "ZOMBIE"
  <2>1. SUFFICES ASSUME NEW q \in Proc \ {p}, Busy(q)
                 PROVE  q # c /\ tgt[q][1] # p /\ state[tgt[q][1]] # "ZOMBIE"
    OBVIOUS
  <2>2. q # c /\ tgt[q][1] # p
    BY <1>2, <1>3, <2>1, UserAlone DEF Busy
  <2>3. state[tgt[q][1]] # "ZOMBIE"
    BY <1>2, <2>1, NoneAssumption, Types DEF ThreadsApart, Busy
  <2>4. QED
    BY <2>2, <2>3
<1>7. ThreadsApart'
  BY <1>1, <1>2, <1>3, <1>5, <1>6, Types DEF ThreadsApart, Busy
<1>8. Label(p)' /\ Hold(p)'
  BY <1>1, <1>2, <1>3, <1>5 DEF Label, Hold
<1>9. OthersSame(p)
  BY <1>2, <1>5, Types DEF OthersSame, Same, mm
<1>10. QED
  BY <1>4, <1>7, <1>8, <1>9, Compose

-----------------------------------------------------------------------------
(* The invariant.                                                          *)

LEMMA InitIInv == Init => IInv
<1>1. SUFFICES ASSUME Init PROVE IInv
  OBVIOUS
<1>2. InitProc \in Proc /\ 0 \in 0 .. NVa /\ \A p \in Proc : <<p, 0>> \in Space
  BY SizeAssumption DEF InitProc, Proc, Space
<1>3. MemOK
  BY <1>1 DEF Init, MemOK, Data
<1>4. ProcOK /\ ThreadOK /\ CpuOK
  BY <1>1, <1>2 DEF Init, ProcOK, ThreadOK, CpuOK, NoTlb, Pcs
<1>5. \A p \in Proc : Busy(p) => p = InitProc /\ tgt[p][1] = p
  BY <1>1 DEF Init, Busy
<1>6. ThreadsApart
  BY <1>1, <1>2, <1>5 DEF Init, ThreadsApart, Busy
<1>7. \A p \in Proc : Label(p) /\ Hold(p)
  BY <1>1 DEF Init, Label, Hold
<1>8. QED
  BY <1>3, <1>4, <1>6, <1>7 DEF IInv, TypeOK

LEMMA KernelStep == ASSUME IInv, NEW p \in Proc, Kernel(p) PROVE IInv'
<1>1. CASE Fault(p)
  BY <1>1, FaultAllocStep, FaultCopyStep, FaultFreeStep, FaultMapStep DEF Fault
<1>2. CASE Setup(p)
  BY <1>2, SetupPgdirStep, SetupKpdeStep DEF Setup
<1>3. CASE Boot(p)
  BY <1>3, BootKstackStep, BootUvmStep, BootMapStep DEF Boot
<1>4. CASE Fork(p)
  BY <1>4, ForkKstackStep, ForkCopyStep, ForkMapStep, ForkUnrefStep,
     ForkFailStep, ForkDoneStep DEF Fork
<1>5. CASE Dealloc(p)
  BY <1>5, DeallocStepStep, DeallocClearStep, DeallocDoneStep, FreeTabStep
     DEF Dealloc
<1>6. CASE Alloc(p)
  BY <1>6, AllocPageStep, AllocMapStep, AllocFreeStep, AllocDoneStep,
     GrowDoneStep DEF Alloc
<1>7. CASE Exec(p)
  BY <1>7, ExecLoadStep, ExecStackStep, ExecBadStep DEF Exec
<1>8. CASE Reap(p)
  BY <1>8, WaitKstackStep, WaitDoneStep DEF Reap
<1>9. QED
  BY <1>1, <1>2, <1>3, <1>4, <1>5, <1>6, <1>7, <1>8 DEF Kernel

LEMMA UserStep == ASSUME IInv, NEW p \in Proc, User(p) PROVE IInv'
BY TlbFillStep, YieldStep, UserWriteStep, PageFaultStep, ForkStartStep,
   SbrkGrowStep, SbrkShrinkStep, SbrkAllStep, ExecStartStep, ExitStep, WaitStep
   DEF User

LEMMA NextIInv == IInv /\ [Next]_vars => IInv'
<1>1. CASE UNCHANGED vars
  BY <1>1, HaltedStep
<1>2. CASE Next
  BY <1>2, HaltedStep, KernelStep, UserStep DEF Next, Halted
<1>3. QED
  BY <1>1, <1>2

THEOREM Invariance == Spec => []IInv
BY InitIInv, NextIInv, PTL DEF Spec

\* The types of every variable: in particular no reference count goes below
\* zero (rc stays in Nat), no free list or slot ever names anything but a page
\* given to the allocator, and no kernel path runs its cursor or its bounds
\* out of the user address space.
THEOREM TypeCorrect == Spec => []TypeOK
<1>1. IInv => TypeOK
  BY DEF IInv
<1>2. QED
  BY <1>1, Invariance, PTL

\* What ptable.lock and the process states give: no two kernel threads ever
\* work on the address space of the same process, a thread that works on
\* another process has it to itself (its own thread does not run), and a
\* zombie's address space is torn down only with ptable.lock held.
THEOREM ThreadSeparation == Spec => []ThreadsApart
<1>1. IInv => ThreadsApart
  BY DEF IInv
<1>2. QED
  BY <1>1, Invariance, PTL

-----------------------------------------------------------------------------
(* Which slots are empty when.                                             *)

\* Space s has no page mapped at a or above, or no page at all; a mapped page
\* has its page table.
Unmapped(s, a) == \A va \in Va : va >= a => ref[PTE(s, va)] = None
Bare(s) == /\ ref[PgDir(s)] = None
           /\ \A i \in Pde : ref[PDE(s, i)] = None
           /\ Unmapped(s, 0)
Tabled(s) == \A va \in Va : ref[PTE(s, va)] # None => ref[PDE(s, PDX(va))] # None

FaultPcs == {"pf_alloc", "pf_copy", "pf_free", "pf_map"}

\* The labels at which a kernel path owns the page in its variable mem.
OwnsMem(p) ==
  \/ pc[p] \in {"pf_copy", "pf_free", "pf_map", "f_map", "f_unref", "a_map", "a_free", "b_map"}
  \/ pc[p] \in {"dv", "dv_clear"} /\ ret[p] = "a_free"

\* The slots of process q.
ProcSlots(q) ==
  /\ pc[q] = "user" => state[q] = "LIVE"
  /\ state[q] = "UNUSED" => ref[KStack(q)] = None /\ Bare(Own(q))
  /\ ref[Mem(q)] # None => OwnsMem(q)
  /\ ~(Busy(q) /\ tgt[q] = Other(q)) => Bare(Other(q))
  /\ state[q] = "LIVE" /\ (pc[q] \in FaultPcs \/ ~(Busy(q) /\ tgt[q] = Own(q)))
       => Unmapped(Own(q), sz[q])

\* The space a kernel thread works on, at each of its labels.
Target(p) ==
  /\ Busy(p) /\ tgt[p][1] # p => tgt[p] = Own(tgt[p][1])
  /\ Busy(p) /\ state[p] = "EMBRYO" =>
       /\ pc[p] \in {"b_kstack", "s_pgdir", "s_kpde", "b_uvm", "b_map"}
       /\ tgt[p] = Own(p)
  /\ pc[p] \in {"b_uvm", "b_map"} => state[p] = "EMBRYO"
  /\ pc[p] \in {"f_kstack", "s_pgdir", "s_kpde", "f_copy", "f_map", "f_unref", "f_fail"}
       /\ tgt[p][1] # p => state[tgt[p][1]] = "EMBRYO"
  /\ pc[p] \in {"s_pgdir", "s_kpde"} /\ state[p] # "EMBRYO" => tgt[p] # Own(p)
  /\ pc[p] \in {"x_load", "x_stack", "x_bad"} => tgt[p] = Other(p)
  /\ pc[p] = "fv_tab" => tgt[p] # Own(p)
  /\ pc[p] \in {"a_alloc", "a_map"} =>
       /\ cur[p] <= hi[p] /\ (pc[p] = "a_map" => cur[p] < hi[p])
       /\ ret[p] = "g_done" => tgt[p] = Own(p) /\ lo[p] = sz[p] /\ hi[p] > sz[p]
       /\ ret[p] # "g_done" => tgt[p] = Other(p)
  /\ pc[p] \in {"dv", "dv_clear"} =>
       /\ ret[p] = "fv_tab" => lo[p] = 0 /\ hi[p] = NVa /\ tgt[p] # Own(p)
       /\ ret[p] # "fv_tab" => tgt[p][1] = p
       /\ ret[p] = "g_done" => tgt[p] = Own(p) /\ lo[p] < hi[p] /\ hi[p] = sz[p]
       /\ ret[p] = "user" => tgt[p] = Own(p)
       /\ ret[p] \in {"user", "a_free"} /\ tgt[p] = Own(p) => lo[p] <= sz[p]
       /\ ret[p] = "x_bad" => tgt[p] = Other(p)
  /\ pc[p] = "a_free" => tgt[p][1] = p
  /\ pc[p] = "g_done" => tgt[p] = Own(p)
  /\ pc[p] = "f_copy" => cur[p] <= sz[p]
  /\ pc[p] = "f_map" => cur[p] < sz[p]

TargetSlots(p) ==
  /\ pc[p] \in {"b_kstack", "f_kstack"} => ref[KStack(tgt[p][1])] = None
  /\ pc[p] \in {"dv", "dv_clear", "fv_tab", "w_done"} /\ tgt[p][1] # p
       /\ state[tgt[p][1]] = "ZOMBIE" => ref[KStack(tgt[p][1])] = None
  /\ pc[p] \in {"b_kstack", "f_kstack", "s_pgdir", "f_fail", "w_done"} => Bare(tgt[p])
  /\ pc[p] \in {"s_kpde", "b_uvm", "b_map", "fv_tab"} => Unmapped(tgt[p], 0)
  /\ pc[p] = "s_kpde" =>
       /\ cur[p] \in KPde
       /\ \A i \in Pde : i < NVa \/ i >= cur[p] => ref[PDE(tgt[p], i)] = None
  /\ pc[p] \in {"f_copy", "f_map", "a_alloc", "a_map"} => Unmapped(tgt[p], cur[p])
  /\ pc[p] \in {"x_load", "x_stack"} => Unmapped(tgt[p], hi[p])
  /\ pc[p] \in {"dv", "dv_clear"} =>
       \A va \in Va : va \in lo[p] .. cur[p] - 1 \/ va >= hi[p] => ref[PTE(tgt[p], va)] = None
  /\ pc[p] = "a_free" /\ tgt[p] = Own(p) => Unmapped(tgt[p], sz[p])
  /\ pc[p] = "g_done" => Unmapped(tgt[p], IF hi[p] = sz[p] THEN lo[p] ELSE hi[p])

Struct == /\ \A p \in Proc : ProcSlots(p) /\ Target(p) /\ TargetSlots(p)
          /\ \A s \in Space : Tabled(s)

-----------------------------------------------------------------------------
(* What the assignment of one slot leaves alone.                           *)

LEMMA Slots ==
  /\ \A p, q \in Proc : /\ Mem(p) = Mem(q) => p = q
                        /\ KStack(p) = KStack(q) => p = q
                        /\ Mem(p) # KStack(q)
  /\ \A s, t \in Space : PgDir(s) = PgDir(t) => s = t
  /\ \A s, t \in Space, a, b \in Int :
       /\ PTE(s, a) = PTE(t, b) => s = t /\ a = b
       /\ PDE(s, a) = PDE(t, b) => s = t /\ a = b
       /\ PTE(s, a) # PDE(t, b) /\ PTE(s, a) # PgDir(t) /\ PDE(s, a) # PgDir(t)
  /\ \A p \in Proc, s \in Space, a \in Int :
       /\ Mem(p) # PTE(s, a) /\ Mem(p) # PDE(s, a) /\ Mem(p) # PgDir(s)
       /\ KStack(p) # PTE(s, a) /\ KStack(p) # PDE(s, a) /\ KStack(p) # PgDir(s)
BY DEF Mem, PTE, PDE, PgDir, KStack

LEMMA Ints == /\ Va \subseteq Int /\ Pde \subseteq Int /\ 0 \in Va
              /\ \A va \in Va : PDX(va) \in Pde /\ PDX(va) < NVa /\ PDX(va) >= 0
              /\ KPde \subseteq Pde
BY SizeAssumption DEF Va, Pde, UPde, KPde, PDX

KeepPte(t) == \A va \in Va : ref'[PTE(t, va)] = ref[PTE(t, va)]
KeepDir(t) == /\ ref'[PgDir(t)] = ref[PgDir(t)]
              /\ \A i \in Pde : ref'[PDE(t, i)] = ref[PDE(t, i)]
KeepMem(q) == ref'[Mem(q)] = ref[Mem(q)]
KeepStack(q) == ref'[KStack(q)] = ref[KStack(q)]
Keep(q) == /\ KeepMem(q) /\ KeepStack(q)
           /\ \A t \in Space : t[1] = q => KeepPte(t) /\ KeepDir(t)

LEMMA SetMem ==
  ASSUME MemOK, NEW p \in Proc, NEW x, ref' = [ref EXCEPT ![Mem(p)] = x]
  PROVE  /\ ref'[Mem(p)] = x
         /\ \A q \in Proc : KeepStack(q) /\ (q # p => KeepMem(q))
         /\ \A t \in Space : KeepPte(t) /\ KeepDir(t)
BY Slots, SlotIn, Ints DEF MemOK, KeepPte, KeepDir, KeepMem, KeepStack

LEMMA SetStack ==
  ASSUME MemOK, NEW p \in Proc, NEW x, ref' = [ref EXCEPT ![KStack(p)] = x]
  PROVE  /\ ref'[KStack(p)] = x
         /\ \A q \in Proc : KeepMem(q) /\ (q # p => KeepStack(q))
         /\ \A t \in Space : KeepPte(t) /\ KeepDir(t)
BY Slots, SlotIn, Ints DEF MemOK, KeepPte, KeepDir, KeepMem, KeepStack

LEMMA SetPgDir ==
  ASSUME MemOK, NEW s \in Space, NEW x, ref' = [ref EXCEPT ![PgDir(s)] = x]
  PROVE  /\ ref'[PgDir(s)] = x
         /\ \A q \in Proc : KeepStack(q) /\ KeepMem(q)
         /\ \A t \in Space : KeepPte(t) /\ (t # s => KeepDir(t))
         /\ \A i \in Pde : ref'[PDE(s, i)] = ref[PDE(s, i)]
BY Slots, SlotIn, Ints DEF MemOK, KeepPte, KeepDir, KeepMem, KeepStack

LEMMA SetPde ==
  ASSUME MemOK, NEW s \in Space, NEW i \in Pde, NEW x,
         ref' = [ref EXCEPT ![PDE(s, i)] = x]
  PROVE  /\ ref'[PDE(s, i)] = x
         /\ \A q \in Proc : KeepStack(q) /\ KeepMem(q)
         /\ \A t \in Space : KeepPte(t) /\ (t # s => KeepDir(t))
         /\ ref'[PgDir(s)] = ref[PgDir(s)]
         /\ \A j \in Pde \ {i} : ref'[PDE(s, j)] = ref[PDE(s, j)]
BY Slots, SlotIn, Ints DEF MemOK, KeepPte, KeepDir, KeepMem, KeepStack

LEMMA SetPte ==
  ASSUME MemOK, NEW s \in Space, NEW va \in Va, NEW x,
         ref' = [ref EXCEPT ![PTE(s, va)] = x]
  PROVE  /\ ref'[PTE(s, va)] = x
         /\ \A q \in Proc : KeepStack(q) /\ KeepMem(q)
         /\ \A t \in Space : KeepDir(t) /\ (t # s => KeepPte(t))
         /\ \A b \in Va \ {va} : ref'[PTE(s, b)] = ref[PTE(s, b)]
BY Slots, SlotIn, Ints DEF MemOK, KeepPte, KeepDir, KeepMem, KeepStack

\* mappages moves the page from Mem(p) to the entry; the page table may be new.
LEMMA MappagesSets ==
  ASSUME MemOK, NEW p \in Proc, NEW s \in Space, NEW va \in Va, NEW fl,
         Mappages(p, s, va, fl)
  PROVE  /\ ref[PTE(s, va)] = None /\ ref'[PTE(s, va)] = ref[Mem(p)]
         /\ ref'[Mem(p)] = None
         /\ \A q \in Proc : KeepStack(q) /\ (q # p => KeepMem(q))
         /\ \A t \in Space \ {s} : KeepDir(t) /\ KeepPte(t)
         /\ \A b \in Va \ {va} : ref'[PTE(s, b)] = ref[PTE(s, b)]
         /\ ref'[PgDir(s)] = ref[PgDir(s)]
         /\ \A i \in Pde \ {PDX(va)} : ref'[PDE(s, i)] = ref[PDE(s, i)]
         /\ ref'[PDE(s, PDX(va))] # None
         /\ ref[PDE(s, PDX(va))] # None => ref'[PDE(s, PDX(va))] = ref[PDE(s, PDX(va))]
<1>1. PDX(va) \in Pde /\ PDX(va) \in Int /\ va \in Int
  BY Ints
<1>2. CASE ref' = [ref EXCEPT ![PTE(s, va)] = ref[Mem(p)], ![Mem(p)] = None]
           /\ ref[PDE(s, PDX(va))] # None
  BY <1>1, <1>2, Slots, SlotIn, Ints
     DEF Mappages, MemOK, KeepPte, KeepDir, KeepMem, KeepStack
<1>3. ASSUME NEW pg \in freelist, Kalloc(pg), ref[PDE(s, PDX(va))] = None,
             ref' = [ref EXCEPT ![PTE(s, va)] = ref[Mem(p)], ![Mem(p)] = None,
                                ![PDE(s, PDX(va))] = pg],
             ref[PTE(s, va)] = None
      PROVE  /\ ref'[PTE(s, va)] = ref[Mem(p)]
             /\ ref'[Mem(p)] = None
             /\ \A q \in Proc : KeepStack(q) /\ (q # p => KeepMem(q))
             /\ \A t \in Space \ {s} : KeepDir(t) /\ KeepPte(t)
             /\ \A b \in Va \ {va} : ref'[PTE(s, b)] = ref[PTE(s, b)]
             /\ ref'[PgDir(s)] = ref[PgDir(s)]
             /\ \A i \in Pde \ {PDX(va)} : ref'[PDE(s, i)] = ref[PDE(s, i)]
             /\ ref'[PDE(s, PDX(va))] = pg /\ pg # None
  BY <1>1, <1>3, Slots, SlotIn, Ints, KallocOK
     DEF MemOK, KeepPte, KeepDir, KeepMem, KeepStack
<1>4. QED
  BY <1>2, <1>3 DEF Mappages

-----------------------------------------------------------------------------
(* What a step leaves of the layout of the processes that it does not touch. *)

ThreadSame(q) ==
  /\ pc'[q] = pc[q] /\ tgt'[q] = tgt[q] /\ cur'[q] = cur[q]
  /\ lo'[q] = lo[q] /\ hi'[q] = hi[q] /\ ret'[q] = ret[q]
ProcSame(q) == state'[q] = state[q] /\ sz'[q] = sz[q] /\ side'[q] = side[q]

Layout(q) == ProcSlots(q) /\ Target(q) /\ TargetSlots(q)

LEMMA KeepBare ==
  /\ \A t : KeepPte(t) /\ KeepDir(t) /\ Bare(t) => Bare(t)'
  /\ \A t, a : KeepPte(t) /\ Unmapped(t, a) => Unmapped(t, a)'
BY DEF KeepPte, KeepDir, Unmapped, Bare

LEMMA KeepTabled == \A t : KeepPte(t) /\ KeepDir(t) /\ Tabled(t) => Tabled(t)'
BY Ints DEF KeepPte, KeepDir, Tabled

LEMMA QuietLayout ==
  ASSUME NEW q \in Proc, pc[q] \in {"user", "idle"}
  PROVE  Target(q) /\ TargetSlots(q)
BY DEF Target, TargetSlots, Busy, FaultPcs

LEMMA ProcSlotsKept ==
  ASSUME IInv, NEW q \in Proc, ProcSlots(q), ThreadSame(q), ProcSame(q), Keep(q)
  PROVE  ProcSlots(q)'
<1>1. /\ Own(q) \in Space /\ Other(q) \in Space /\ Own(q)[1] = q /\ Other(q)[1] = q
      /\ Own(q)' = Own(q) /\ Other(q)' = Other(q)
  BY OwnIn, Types DEF ProcSame, Own, Other
<1>2. /\ KeepPte(Own(q)) /\ KeepDir(Own(q)) /\ KeepPte(Other(q)) /\ KeepDir(Other(q))
  BY <1>1 DEF Keep
<1>3. OwnsMem(q) <=> OwnsMem(q)'
  BY DEF OwnsMem, ThreadSame
<1>4. /\ Bare(Own(q)) => Bare(Own(q))'
      /\ Bare(Other(q)) => Bare(Other(q))'
      /\ Unmapped(Own(q), sz[q]) => Unmapped(Own(q), sz[q])'
  BY <1>1, <1>2, KeepBare DEF ProcSame
<1>5. ref'[KStack(q)] = ref[KStack(q)] /\ ref'[Mem(q)] = ref[Mem(q)]
  BY DEF Keep, KeepMem, KeepStack
<1>6. QED
  BY <1>1, <1>3, <1>4, <1>5 DEF ProcSlots, ThreadSame, ProcSame, Busy

LEMMA LayoutKept ==
  ASSUME IInv, NEW q \in Proc, Layout(q), ThreadSame(q), ProcSame(q), Keep(q),
         Busy(q) => ProcSame(tgt[q][1]) /\ Keep(tgt[q][1])
  PROVE  Layout(q)'
<1>1. ProcSlots(q)'
  BY ProcSlotsKept DEF Layout
<1>2. CASE ~Busy(q)
  BY <1>1, <1>2, QuietLayout DEF ThreadSame, Busy, Layout, Target, TargetSlots
<1>3. CASE Busy(q)
  <2>1. /\ tgt[q] \in Space /\ KeepPte(tgt[q]) /\ KeepDir(tgt[q])
        /\ KeepStack(tgt[q][1])
    BY <1>3, Types DEF Keep
  <2>2. /\ Own(q)' = Own(q) /\ Other(q)' = Other(q)
        /\ Own(tgt[q][1])' = Own(tgt[q][1])
    BY <1>3 DEF ProcSame, ThreadSame, Own, Other
  <2>3. Target(q)'
    BY <1>3, <2>2 DEF Layout, Target, ThreadSame, ProcSame, Busy
  <2>4. /\ Bare(tgt[q]) => Bare(tgt[q])'
        /\ \A a : Unmapped(tgt[q], a) => Unmapped(tgt[q], a)'
        /\ tgt'[q] = tgt[q] /\ cur'[q] = cur[q] /\ lo'[q] = lo[q] /\ hi'[q] = hi[q]
        /\ sz'[q] = sz[q]
    BY <2>1, KeepBare DEF ThreadSame, ProcSame
  <2>5. /\ Unmapped(tgt[q], 0) => Unmapped(tgt[q], 0)'
        /\ Unmapped(tgt[q], cur[q]) => Unmapped(tgt[q], cur[q])'
        /\ Unmapped(tgt[q], hi[q]) => Unmapped(tgt[q], hi[q])'
        /\ Unmapped(tgt[q], sz[q]) => Unmapped(tgt[q], sz[q])'
        /\ Unmapped(tgt[q], IF hi[q] = sz[q] THEN lo[q] ELSE hi[q])
             => Unmapped(tgt[q], IF hi[q] = sz[q] THEN lo[q] ELSE hi[q])'
    BY <2>4
  <2>6. /\ ref'[KStack(tgt[q][1])] = ref[KStack(tgt[q][1])]
        /\ \A va \in Va : ref'[PTE(tgt[q], va)] = ref[PTE(tgt[q], va)]
        /\ \A i \in Pde : ref'[PDE(tgt[q], i)] = ref[PDE(tgt[q], i)]
        /\ state'[tgt[q][1]] = state[tgt[q][1]]
    BY <1>3, <2>1 DEF KeepPte, KeepDir, KeepStack, ProcSame
  <2>7. TargetSlots(q)'
    BY <2>2, <2>4, <2>5, <2>6 DEF Layout, TargetSlots, ThreadSame
  <2>8. QED
    BY <1>1, <2>3, <2>7 DEF Layout
<1>4. QED
  BY <1>2, <1>3
-----------------------------------------------------------------------------
(* Steps of a kernel thread that change its own slots and locals.          *)

LEMMA RefLocalKeeps ==
  ASSUME IInv, NEW p \in Proc, RefLocal(p)
  PROVE  /\ \A q \in Proc \ {p, tgt[p][1]} : Keep(q)
         /\ \A q \in Proc \ {p} : KeepMem(q)
         /\ \A q \in Proc \ {tgt[p][1]} : KeepStack(q)
         /\ \A t \in Space \ {tgt[p]} : KeepPte(t) /\ KeepDir(t)
<1>1. tgt[p] \in Space /\ tgt[p][1] \in Proc
  BY Types
<1>2. \A q \in Proc \ {p} : KeepMem(q)
  BY <1>1, Slots, SlotIn DEF RefLocal, OwnSlot, KeepMem
<1>3. \A q \in Proc \ {tgt[p][1]} : KeepStack(q)
  BY <1>1, Slots, SlotIn DEF RefLocal, OwnSlot, KeepStack
<1>4. \A t \in Space \ {tgt[p]} : KeepPte(t)
  BY <1>1, Slots, SlotIn, Ints DEF RefLocal, OwnSlot, KeepPte
<1>5. \A t \in Space \ {tgt[p]} : KeepDir(t)
  BY <1>1, Slots, SlotIn, Ints DEF RefLocal, OwnSlot, KeepDir
<1>6. \A q \in Proc \ {p, tgt[p][1]} : Keep(q)
  BY <1>2, <1>3, <1>4, <1>5 DEF Keep
<1>7. QED
  BY <1>2, <1>3, <1>4, <1>5, <1>6

\* The other processes keep their layout, and so does the one worked on.
LEMMA LocalLayout ==
  ASSUME IInv, Struct, NEW p \in Proc, LocalStep(p),
         \A q \in Proc \ {p} : lo'[q] = lo[q] /\ hi'[q] = hi[q],
         Layout(p)', NEW t, t = tgt[p], Tabled(t)'
  PROVE  Struct'
<1>1. Busy(p) /\ RefLocal(p) /\ UNCHANGED <<state, sz, side>>
  BY DEF LocalStep, pt
<1>2. \A q \in Proc \ {p} : ThreadSame(q)
  BY DEF LocalStep, ThreadSame
<1>3. \A q \in Proc : ProcSame(q)
  BY <1>1 DEF ProcSame
<1>4. tgt[p] \in Space /\ tgt[p][1] \in Proc
  BY Types
<1>5. ASSUME NEW q \in Proc \ {p, tgt[p][1]} PROVE Layout(q)'
  <2>1. Keep(q)
    BY <1>1, RefLocalKeeps
  <2>2. Busy(q) => Keep(tgt[q][1]) /\ tgt[q][1] \in Proc
    BY <1>1, Apart, RefLocalKeeps, Types
  <2>3. QED
    BY <1>2, <1>3, <2>1, <2>2, LayoutKept DEF Struct, Layout
<1>6. ASSUME NEW q \in Proc, q = tgt[p][1], q # p PROVE Layout(q)'
  <2>1. /\ state[q] \in {"EMBRYO", "ZOMBIE"} /\ pc[q] = "idle" /\ pc'[q] = "idle"
        /\ state'[q] \in {"EMBRYO", "ZOMBIE"}
    BY <1>1, <1>2, <1>6, Types DEF ThreadsApart, ThreadSame
  <2>2. /\ Other(q) \in Space /\ Other(q)' = Other(q) /\ Other(q) # tgt[p]
    <3>1. tgt[p] = Own(q)
      BY <1>1, <1>6 DEF Struct, Target
    <3>2. side[q] \in {0, 1}
      BY Types DEF ProcOK
    <3>3. Own(q) # Other(q)
      BY <3>2 DEF Own, Other
    <3>4. QED
      BY <1>1, <3>1, <3>3, OwnIn, Types DEF Other
  <2>3. Bare(Other(q))'
    <3>1. Bare(Other(q))
      BY <2>1 DEF Struct, ProcSlots, Busy
    <3>2. QED
      BY <1>1, <2>2, <3>1, RefLocalKeeps, KeepBare
  <2>4. ref'[Mem(q)] = None
    BY <1>1, <1>6, <2>1, RefLocalKeeps DEF Struct, ProcSlots, OwnsMem, KeepMem
  <2>5. ProcSlots(q)'
    BY <2>1, <2>3, <2>4 DEF ProcSlots
  <2>6. QED
    BY <2>1, <2>5, QuietLayout DEF Layout, Target, TargetSlots, Busy
<1>7. \A s \in Space : Tabled(s)'
  <2>1. ASSUME NEW s \in Space, s # tgt[p] PROVE Tabled(s)'
    BY <1>1, <2>1, RefLocalKeeps, KeepTabled DEF Struct
  <2>2. QED
    BY <2>1
<1>8. \A q \in Proc : Layout(q)'
  BY <1>5, <1>6
<1>9. QED
  BY <1>7, <1>8 DEF Struct, Layout

\* The slots of p itself, when p works on another process.
LEMMA AwaySlots ==
  ASSUME IInv, Struct, NEW p \in Proc, Busy(p), tgt[p][1] # p, RefLocal(p),
         ProcSame(p), ref'[Mem(p)] # None => OwnsMem(p)'
  PROVE  ProcSlots(p)'
<1>1. /\ Own(p) \in Space \ {tgt[p]} /\ Other(p) \in Space \ {tgt[p]}
      /\ Own(p)' = Own(p) /\ Other(p)' = Other(p)
  BY OwnIn, Types DEF Own, Other, ProcSame
<1>2. state[p] = "LIVE"
  <2>1. state[p] # "EMBRYO"
    BY <1>1 DEF Struct, Target
  <2>2. QED
    BY <2>1, Types DEF ThreadsApart, Busy, ProcOK
<1>3. Bare(Other(p)) /\ (state[p] = "LIVE" => Unmapped(Own(p), sz[p]))
  BY <1>1 DEF Struct, ProcSlots
<1>4. Bare(Other(p))' /\ (state[p] = "LIVE" => Unmapped(Own(p), sz[p])')
  BY <1>1, <1>3, RefLocalKeeps, KeepBare DEF ProcSame
<1>5. QED
  BY <1>2, <1>4 DEF ProcSlots, ProcSame

LEMMA JumpBounds ==
  ASSUME ThreadOK, NEW p \in Proc, NEW l \in Pcs, Jump(p, l)
  PROVE  /\ \A q \in Proc \ {p} : ThreadSame(q)
         /\ pc'[p] = l /\ pc' = [pc EXCEPT ![p] = l]
         /\ l # "user" => UNCHANGED <<tgt, cur, lo, hi, ret>>
BY DEF Jump, Goto, ThreadOK, loc, ThreadSame

\* A local step that ends in a jump.
LEMMA JumpLayout ==
  ASSUME IInv, Struct, NEW p \in Proc, Busy(p), NEW l \in Pcs \ {"idle"},
         Jump(p, l), UNCHANGED pt, RefLocal(p), ProcSlots(p)',
         l # "user" /\ pc'[p] = l /\ UNCHANGED <<tgt, cur, lo, hi, ret>>
           => Target(p)' /\ TargetSlots(p)',
         NEW t, t = tgt[p], Tabled(t)'
  PROVE  Struct'
<1>1. /\ \A q \in Proc \ {p} : ThreadSame(q)
      /\ pc'[p] = l
      /\ l # "user" => UNCHANGED <<tgt, cur, lo, hi, ret>>
  BY JumpBounds, Types
<1>2. LocalStep(p)
  BY <1>1 DEF LocalStep, ThreadSame
<1>3. l = "user" => Target(p)' /\ TargetSlots(p)'
  BY <1>1 DEF Target, TargetSlots, Busy
<1>4. Layout(p)'
  BY <1>1, <1>3 DEF Layout
<1>5. QED
  BY <1>1, <1>2, <1>4, LocalLayout DEF ThreadSame

LEMMA StillLayout ==
  ASSUME IInv, Struct, UNCHANGED <<ref, pt, kt>>
  PROVE  Struct'
<1>1. ASSUME NEW q \in Proc PROVE Layout(q)'
  <2>1. \A x : Keep(x) /\ ProcSame(x)
    BY DEF Keep, KeepMem, KeepStack, KeepPte, KeepDir, ProcSame, pt
  <2>2. ThreadSame(q)
    BY DEF ThreadSame, kt, loc
  <2>3. QED
    BY <2>1, <2>2, LayoutKept DEF Struct, Layout
<1>2. \A s \in Space : Tabled(s)'
  BY DEF Struct, Tabled
<1>3. QED
  BY <1>1, <1>2 DEF Struct, Layout

LEMMA PanicLayout == ASSUME IInv, Struct, NEW m, Panic(m) PROVE Struct'
BY StillLayout DEF Panic, mm
LEMMA KfreePanicLayout == ASSUME IInv, Struct, NEW s, KfreePanic(s) PROVE Struct'
BY PanicLayout DEF KfreePanic
LEMMA RemapLayout == ASSUME IInv, Struct, NEW s, NEW va, Remap(s, va) PROVE Struct'
BY PanicLayout DEF Remap

-----------------------------------------------------------------------------
(* The page fault handler.                                                 *)

\* A kernel thread's process is LIVE, but for userinit's.
LEMMA BusyState ==
  ASSUME IInv, Struct, NEW p \in Proc, Busy(p)
  PROVE  /\ state[p] \in {"EMBRYO", "LIVE"}
         /\ state[p] = "EMBRYO" =>
              /\ tgt[p] = Own(p)
              /\ pc[p] \in {"b_kstack", "s_pgdir", "s_kpde", "b_uvm", "b_map"}
BY Types DEF ThreadsApart, ProcOK, Busy, Struct, Target

LEMMA FaultSlots ==
  ASSUME IInv, Struct, NEW p \in Proc, pc[p] \in FaultPcs, UNCHANGED <<state, sz, side>>,
         KeepPte(Own(p)) \/ Unmapped(Own(p), sz[p])', KeepPte(Other(p)), KeepDir(Other(p)),
         ref'[Mem(p)] # None => OwnsMem(p)'
  PROVE  ProcSlots(p)' /\ tgt[p] = Own(p) /\ state[p] = "LIVE"
<1>1. Busy(p) /\ tgt[p] = Own(p) /\ state[p] = "LIVE" /\ Own(p) # Other(p)
  BY BusyState, Types DEF Busy, FaultPcs, Label, Own, Other, ProcOK
<1>2. Bare(Other(p)) /\ Unmapped(Own(p), sz[p])
  BY <1>1 DEF Struct, ProcSlots
<1>3. Other(p)' = Other(p) /\ Own(p)' = Own(p)
  BY DEF Other, Own
<1>4. Bare(Other(p))' /\ Unmapped(Own(p), sz[p])'
  BY <1>2, <1>3, KeepBare
<1>5. QED
  BY <1>1, <1>4 DEF ProcSlots

LEMMA FaultAllocLayout ==
  ASSUME IInv, Struct, NEW p \in Proc, FaultAlloc(p) PROVE Struct'
<1>1. CASE Panic("pagefault out of memory")
  BY <1>1, PanicLayout
<1>2. ASSUME NEW pg \in freelist, ref' = [ref EXCEPT ![Mem(p)] = pg],
             Jump(p, "pf_copy"), UNCHANGED pt
      PROVE  Struct'
  <2>1. /\ pc[p] \in FaultPcs /\ Busy(p) /\ "pf_copy" \in Pcs \ {"idle"}
        /\ Own(p) \in Space /\ Other(p) \in Space /\ tgt[p] \in Space
    BY OwnIn, Types DEF FaultAlloc, At, FaultPcs, Busy, Pcs
  <2>2. /\ \A t \in Space : KeepPte(t) /\ KeepDir(t)
        /\ RefLocal(p)
    BY <1>2, SetMem, SlotIn, RefOne, Types DEF OwnSlot
  <2>3. pc'[p] = "pf_copy" /\ UNCHANGED <<tgt, cur, lo, hi, ret>>
    BY <1>2, <2>1, JumpBounds, Types
  <2>4. ProcSlots(p)' /\ tgt[p] = Own(p) /\ state[p] = "LIVE"
    BY <1>2, <2>1, <2>2, <2>3, FaultSlots DEF pt, OwnsMem
  <2>5. Target(p)' /\ TargetSlots(p)'
    BY <1>2, <2>1, <2>3, <2>4, OwnIn, Types DEF pt, Target, TargetSlots, Own
  <2>6. \A t \in Space : Tabled(t)'
    BY <2>2, KeepTabled DEF Struct
  <2>7. QED
    BY <1>2, <2>1, <2>2, <2>4, <2>5, <2>6, JumpLayout
<1>3. QED
  BY <1>1, <1>2 DEF FaultAlloc

LEMMA FaultCopyLayout ==
  ASSUME IInv, Struct, NEW p \in Proc, FaultCopy(p) PROVE Struct'
<1>1. /\ pc[p] \in FaultPcs /\ Busy(p) /\ "pf_free" \in Pcs \ {"idle"}
      /\ Own(p) \in Space /\ Other(p) \in Space /\ tgt[p] \in Space
      /\ Jump(p, "pf_free") /\ UNCHANGED <<ref, pt>>
  BY OwnIn, Types DEF FaultCopy, At, FaultPcs, Busy, Pcs
<1>2. \A t \in Space : KeepPte(t) /\ KeepDir(t)
  BY <1>1 DEF KeepPte, KeepDir
<1>3. pc'[p] = "pf_free" /\ UNCHANGED <<tgt, cur, lo, hi, ret>>
  BY <1>1, JumpBounds, Types
<1>4. ProcSlots(p)' /\ tgt[p] = Own(p) /\ state[p] = "LIVE"
  BY <1>1, <1>2, <1>3, FaultSlots DEF pt, OwnsMem
<1>5. Target(p)' /\ TargetSlots(p)'
  BY <1>1, <1>3, <1>4, OwnIn, Types DEF pt, Target, TargetSlots, Own
<1>6. \A t \in Space : Tabled(t)'
  BY <1>2, KeepTabled DEF Struct
<1>7. QED
  BY <1>1, <1>4, <1>5, <1>6, RefSame, JumpLayout

LEMMA FaultFreeLayout ==
  ASSUME IInv, Struct, NEW p \in Proc, FaultFree(p) PROVE Struct'
<1>1. CASE KfreePanic(PTE(tgt[p], cur[p]))
  BY <1>1, KfreePanicLayout
<1>2. CASE UNCHANGED <<ref, pt>> /\ Jump(p, "pf_map")
  <2>1. /\ pc[p] \in FaultPcs /\ Busy(p) /\ "pf_map" \in Pcs \ {"idle"}
        /\ Own(p) \in Space /\ Other(p) \in Space /\ tgt[p] \in Space
    BY OwnIn, Types DEF FaultFree, At, FaultPcs, Busy, Pcs
  <2>2. \A t \in Space : KeepPte(t) /\ KeepDir(t)
    BY <1>2 DEF KeepPte, KeepDir
  <2>3. pc'[p] = "pf_map" /\ UNCHANGED <<tgt, cur, lo, hi, ret>>
    BY <1>2, <2>1, JumpBounds, Types
  <2>4. ProcSlots(p)' /\ tgt[p] = Own(p) /\ state[p] = "LIVE"
    BY <1>2, <2>1, <2>2, <2>3, FaultSlots DEF pt, OwnsMem
  <2>5. Target(p)' /\ TargetSlots(p)'
    BY <1>2, <2>1, <2>3, <2>4, OwnIn, Types DEF pt, Target, TargetSlots, Own
  <2>6. \A t \in Space : Tabled(t)'
    BY <2>2, KeepTabled DEF Struct
  <2>7. QED
    BY <1>2, <2>1, <2>2, <2>4, <2>5, <2>6, RefSame, JumpLayout
<1>3. QED
  BY <1>1, <1>2 DEF FaultFree, KfreeSlot

LEMMA FaultMapLayout ==
  ASSUME IInv, Struct, NEW p \in Proc, FaultMap(p) PROVE Struct'
<1>1. /\ pc[p] \in FaultPcs /\ Busy(p) /\ "user" \in Pcs \ {"idle"}
      /\ Own(p) \in Space /\ Other(p) \in Space /\ tgt[p] \in Space
      /\ cur[p] \in Va /\ ref[PTE(tgt[p], cur[p])] # None /\ tgt[p] = Own(p)
      /\ Jump(p, "user") /\ UNCHANGED pt
      /\ ref' = [ref EXCEPT ![PTE(tgt[p], cur[p])] = ref[Mem(p)], ![Mem(p)] = None]
  BY OwnIn, Types DEF FaultMap, At, FaultPcs, Busy, Pcs, Label, Hold
<1>2. /\ \A t \in Space : KeepDir(t) /\ (t # tgt[p] => KeepPte(t))
      /\ \A b \in Va : ref'[PTE(tgt[p], b)] # None => ref[PTE(tgt[p], b)] # None
      /\ ref'[Mem(p)] = None /\ RefLocal(p)
  BY <1>1, Slots, SlotIn, Ints, Types DEF MemOK, KeepPte, KeepDir, RefLocal, OwnSlot
<1>3. Own(p) # Other(p)
  BY Types DEF ProcOK, Own, Other
<1>4. Unmapped(Own(p), sz[p])'
  <2>1. Unmapped(Own(p), sz[p])
    BY <1>1, BusyState DEF Struct, ProcSlots, FaultPcs
  <2>2. QED
    BY <1>1, <1>2, <2>1 DEF Unmapped, pt, Own
<1>5. ProcSlots(p)'
  BY <1>1, <1>2, <1>3, <1>4, FaultSlots DEF pt
<1>6. ASSUME NEW t, t = tgt[p] PROVE Tabled(t)'
  <2>1. Tabled(t) /\ KeepDir(t)
    BY <1>1, <1>2, <1>6 DEF Struct
  <2>2. \A b \in Va : ref'[PTE(t, b)] # None => ref[PTE(t, b)] # None
    BY <1>2, <1>6
  <2>3. QED
    BY <2>1, <2>2, Ints DEF Tabled, KeepDir
<1>7. QED
  BY <1>1, <1>2, <1>5, <1>6, JumpLayout

-----------------------------------------------------------------------------
(* setupkvm and userinit.                                                  *)

\* The slots of p itself while its thread goes on in the same space.
LEMMA BusySlots ==
  ASSUME IInv, Struct, NEW p \in Proc, Busy(p), RefLocal(p),
         UNCHANGED <<state, sz, side>>, tgt'[p] = tgt[p], Busy(p)',
         pc'[p] \notin FaultPcs, ref'[Mem(p)] # None => OwnsMem(p)'
  PROVE  ProcSlots(p)'
<1>1. /\ Own(p) \in Space /\ Other(p) \in Space
      /\ Own(p)' = Own(p) /\ Other(p)' = Other(p)
  BY OwnIn, Types DEF Own, Other
<1>2. state[p] \notin {"UNUSED", "ZOMBIE"}
  BY Types DEF ThreadsApart, Busy
<1>3. tgt[p] # Other(p) => Bare(Other(p))'
  BY <1>1, RefLocalKeeps, KeepBare DEF Struct, ProcSlots
<1>4. state[p] = "LIVE" /\ tgt[p] # Own(p) => Unmapped(Own(p), sz[p])'
  BY <1>1, RefLocalKeeps, KeepBare DEF Struct, ProcSlots
<1>5. QED
  BY <1>1, <1>2, <1>3, <1>4 DEF ProcSlots, Busy

\* A local step that moves the cursor.
LEMMA CursorLayout ==
  ASSUME IInv, Struct, NEW p \in Proc, Busy(p), NEW l \in Pcs \ ({"idle", "user"} \cup FaultPcs),
         Goto(p, l), NEW n, cur' = [cur EXCEPT ![p] = n],
         UNCHANGED <<pt, tgt, lo, hi, ret>>, RefLocal(p),
         ref'[Mem(p)] # None => OwnsMem(p)',
         pc'[p] = l /\ cur'[p] = n => Target(p)' /\ TargetSlots(p)',
         NEW t, t = tgt[p], Tabled(t)'
  PROVE  Struct'
<1>1. /\ pc'[p] = l /\ cur'[p] = n
      /\ \A q \in Proc \ {p} : ThreadSame(q)
  BY Types DEF ThreadOK, Goto, ThreadSame
<1>2. LocalStep(p)
  BY <1>1 DEF LocalStep, ThreadSame
<1>3. ProcSlots(p)'
  <2>1. Busy(p)' /\ pc'[p] \notin FaultPcs /\ tgt'[p] = tgt[p] /\ UNCHANGED <<state, sz, side>>
    BY <1>1 DEF Busy, pt
  <2>2. QED
    BY <2>1, BusySlots
<1>4. QED
  BY <1>1, <1>2, <1>3, LocalLayout DEF Layout, ThreadSame

LEMMA StartDeallocSame ==
  ASSUME ThreadOK, NEW p \in Proc, NEW s, NEW l, NEW h, NEW r, StartDealloc(p, s, l, h, r)
  PROVE  /\ \A q \in Proc \ {p} : ThreadSame(q)
         /\ pc'[p] = "dv" /\ tgt'[p] = s /\ lo'[p] = l /\ hi'[p] = h /\ cur'[p] = l
         /\ ret'[p] = r
BY DEF StartDealloc, Goto, ThreadOK, ThreadSame

LEMMA StartAllocSame ==
  ASSUME ThreadOK, NEW p \in Proc, NEW s, NEW l, NEW h, NEW r, StartAlloc(p, s, l, h, r)
  PROVE  /\ \A q \in Proc \ {p} : ThreadSame(q)
         /\ pc'[p] = "a_alloc" /\ tgt'[p] = s /\ lo'[p] = l /\ hi'[p] = h /\ cur'[p] = l
         /\ ret'[p] = r
BY DEF StartAlloc, Goto, ThreadOK, ThreadSame

\* freevm starts on the space that a path is building or tearing down.
LEMMA StartFreevmLayout ==
  ASSUME IInv, Struct, NEW p \in Proc, Busy(p), StartFreevm(p, tgt[p]),
         UNCHANGED pt, RefLocal(p), ref'[Mem(p)] = None,
         state[p] = "LIVE", tgt[p] # Own(p),
         tgt[p][1] # p /\ state[tgt[p][1]] = "ZOMBIE" => ref'[KStack(tgt[p][1])] = None,
         NEW t, t = tgt[p], Tabled(t)'
  PROVE  Struct'
<1>1. /\ \A q \in Proc \ {p} : ThreadSame(q)
      /\ pc'[p] = "dv" /\ tgt'[p] = tgt[p] /\ lo'[p] = 0 /\ hi'[p] = NVa /\ cur'[p] = 0
      /\ ret'[p] = "fv_tab"
  BY StartDeallocSame, Types DEF StartFreevm
<1>2. LocalStep(p)
  BY <1>1 DEF LocalStep, ThreadSame
<1>3. ProcSlots(p)'
  BY <1>1, BusySlots DEF Busy, pt, FaultPcs
<1>4. /\ Own(p)' = Own(p) /\ Own(tgt[p][1])' = Own(tgt[p][1]) /\ UNCHANGED <<state, sz>>
      /\ tgt[p][1] # p => tgt[p] = Own(tgt[p][1])
  BY <1>1 DEF pt, Own, Struct, Target
<1>5. Target(p)'
  BY <1>1, <1>4 DEF Target
<1>6. TargetSlots(p)'
  <2>1. \A va \in Va : ~(va \in 0 .. 0 - 1 \/ va >= NVa)
    BY SizeAssumption DEF Va
  <2>2. QED
    BY <1>1, <1>4, <2>1 DEF TargetSlots
<1>7. QED
  BY <1>1, <1>2, <1>3, <1>5, <1>6, LocalLayout DEF Layout, ThreadSame

\* A process has two spaces.
LEMMA TwoSpaces ==
  ASSUME IInv, NEW p \in Proc
  PROVE  /\ Own(p) \in Space /\ Other(p) \in Space /\ Own(p) # Other(p)
         /\ Own(p)[1] = p /\ Other(p)[1] = p
         /\ \A s \in Space : s[1] = p => s \in {Own(p), Other(p)}
BY Types DEF Own, Other, Space, ProcOK

LEMMA SetupPgdirLayout ==
  ASSUME IInv, Struct, NEW p \in Proc, SetupPgdir(p) PROVE Struct'
<1>1. CASE Panic("userinit")
  BY <1>1, PanicLayout
<1>2. /\ pc[p] = "s_pgdir" /\ Busy(p) /\ tgt[p] \in Space /\ tgt[p][1] \in Proc
      /\ Own(p) \in Space /\ Other(p) \in Space /\ Bare(tgt[p])
      /\ Mem(p) \in Slot /\ ref[Mem(p)] = None
      /\ tgt[p][1] = p => tgt[p] \in {Own(p), Other(p)}
  <2>1. pc[p] = "s_pgdir" /\ Busy(p) /\ tgt[p] \in Space /\ tgt[p][1] \in Proc
    BY Types DEF SetupPgdir, At, Busy
  <2>2. Bare(tgt[p])
    BY <2>1 DEF Struct, TargetSlots
  <2>3. ref[Mem(p)] = None
    BY <2>1 DEF Struct, ProcSlots, OwnsMem
  <2>4. QED
    BY <2>1, <2>2, <2>3, SlotIn, TwoSpaces
<1>3. ASSUME NEW pg \in freelist, ref' = [ref EXCEPT ![PgDir(tgt[p])] = pg],
             cur' = [cur EXCEPT ![p] = NVa], Goto(p, "s_kpde"),
             UNCHANGED <<pt, tgt, lo, hi, ret>>
      PROVE  Struct'
  <2>1. /\ \A q \in Proc : KeepStack(q) /\ KeepMem(q)
        /\ \A t \in Space : KeepPte(t)
        /\ \A i \in Pde : ref'[PDE(tgt[p], i)] = ref[PDE(tgt[p], i)]
    BY <1>2, <1>3, SetPgDir, Types
  <2>2. RefLocal(p)
    BY <1>2, <1>3, RefOne, SlotIn, Types DEF OwnSlot
  <2>3. "s_kpde" \in Pcs \ ({"idle", "user"} \cup FaultPcs) /\ ref'[Mem(p)] = None
        /\ NVa \in KPde
    BY <1>2, <2>1, SizeAssumption DEF Pcs, FaultPcs, KeepMem, KPde
  <2>4. ASSUME pc'[p] = "s_kpde", cur'[p] = NVa PROVE Target(p)' /\ TargetSlots(p)'
    <3>1. /\ Own(p)' = Own(p) /\ Own(tgt[p][1])' = Own(tgt[p][1]) /\ UNCHANGED <<state, tgt, sz>>
      BY <1>3 DEF pt, Own
    <3>2. Target(p)'
      BY <1>2, <2>4, <3>1 DEF Struct, Target, Busy
    <3>3. Unmapped(tgt[p], 0)' /\ \A i \in Pde : ref'[PDE(tgt[p], i)] = None
      BY <1>2, <2>1, <3>1, KeepBare DEF Bare
    <3>4. TargetSlots(p)'
      BY <1>2, <2>3, <2>4, <3>1, <3>3 DEF TargetSlots
    <3>5. QED
      BY <3>2, <3>4
  <2>5. ASSUME NEW t, t = tgt[p] PROVE Tabled(t)'
    BY <1>2, <2>1, <2>5 DEF Bare, Unmapped, Tabled, KeepPte, Va
  <2>6. QED
    BY <1>2, <1>3, <2>2, <2>3, <2>4, <2>5, CursorLayout
<1>4. ASSUME Jump(p, IF tgt[p][1] = p THEN "user" ELSE "f_fail"),
             state[p] # "EMBRYO", UNCHANGED <<ref, pt>>
      PROVE  Struct'
  <2>1. "user" \in Pcs \ {"idle"} /\ "f_fail" \in Pcs \ {"idle"} /\ UNCHANGED <<state, sz, side>>
        /\ Own(p)' = Own(p) /\ Other(p)' = Other(p) /\ state[p] = "LIVE"
    BY <1>2, <1>4, BusyState DEF Pcs, pt, Own, Other
  <2>2. tgt[p] # Own(p)
    BY <1>2, <1>4 DEF Struct, Target
  <2>3. ProcSlots(p)'
    <3>1. Bare(Other(p)) /\ Unmapped(Own(p), sz[p])
      BY <1>2, <2>1, <2>2 DEF Struct, ProcSlots
    <3>2. Bare(Other(p))' /\ Unmapped(Own(p), sz[p])'
      BY <1>4, <2>1, <3>1 DEF Bare, Unmapped
    <3>3. QED
      BY <1>2, <1>4, <2>1, <3>2 DEF ProcSlots
  <2>4. ASSUME tgt[p][1] # p, pc'[p] = "f_fail", UNCHANGED <<tgt, cur, lo, hi, ret>>
        PROVE  Target(p)' /\ TargetSlots(p)'
    <3>1. Own(tgt[p][1])' = Own(tgt[p][1])
      BY <1>4, <2>4 DEF pt, Own
    <3>2. Target(p)'
      BY <1>2, <2>1, <2>4, <3>1 DEF Struct, Target, Busy
    <3>3. TargetSlots(p)'
      BY <1>2, <1>4, <2>4 DEF TargetSlots, Bare, Unmapped
    <3>4. QED
      BY <3>2, <3>3
  <2>5. ASSUME NEW t, t = tgt[p] PROVE Tabled(t)'
    BY <1>2, <1>4, <2>5 DEF Struct, Tabled
  <2>6. QED
    BY <1>2, <1>4, <2>1, <2>3, <2>4, <2>5, RefSame, JumpLayout
<1>5. QED
  BY <1>1, <1>3, <1>4 DEF SetupPgdir, mm

LEMMA SetupKpdeLayout ==
  ASSUME IInv, Struct, NEW p \in Proc, SetupKpde(p) PROVE Struct'
<1>1. CASE Panic("userinit")
  BY <1>1, PanicLayout
<1>2. /\ pc[p] = "s_kpde" /\ Busy(p) /\ tgt[p] \in Space /\ tgt[p][1] \in Proc
      /\ Own(p) \in Space /\ Other(p) \in Space /\ Unmapped(tgt[p], 0)
      /\ Mem(p) \in Slot /\ ref[Mem(p)] = None /\ cur[p] \in KPde
      /\ \A i \in Pde : i < NVa \/ i >= cur[p] => ref[PDE(tgt[p], i)] = None
      /\ tgt[p][1] = p => tgt[p] \in {Own(p), Other(p)}
      /\ tgt[p][1] # p => tgt[p] = Own(tgt[p][1]) /\ state[tgt[p][1]] = "EMBRYO"
  <2>1. pc[p] = "s_kpde" /\ Busy(p) /\ tgt[p] \in Space /\ tgt[p][1] \in Proc
    BY Types DEF SetupKpde, At, Busy
  <2>2. /\ Unmapped(tgt[p], 0) /\ cur[p] \in KPde
        /\ \A i \in Pde : i < NVa \/ i >= cur[p] => ref[PDE(tgt[p], i)] = None
    BY <2>1 DEF Struct, TargetSlots
  <2>3. tgt[p][1] # p => tgt[p] = Own(tgt[p][1]) /\ state[tgt[p][1]] = "EMBRYO"
    BY <2>1 DEF Struct, Target
  <2>4. ref[Mem(p)] = None
    BY <2>1 DEF Struct, ProcSlots, OwnsMem
  <2>5. QED
    BY <2>1, <2>2, <2>3, <2>4, TwoSpaces, SlotIn
<1>3. ASSUME StartFreevm(p, tgt[p]), state[p] # "EMBRYO", UNCHANGED <<ref, pt>>
      PROVE  Struct'
  <2>1. tgt[p] # Own(p) /\ state[p] = "LIVE"
    BY <1>2, <1>3, BusyState DEF Struct, Target
  <2>2. ASSUME NEW t, t = tgt[p] PROVE Tabled(t)'
    BY <1>2, <1>3, <2>2 DEF Struct, Tabled
  <2>3. QED
    BY <1>2, <1>3, <2>1, <2>2, RefSame, StartFreevmLayout
<1>4. ASSUME NEW pg \in freelist, ref' = [ref EXCEPT ![PDE(tgt[p], cur[p])] = pg],
             UNCHANGED <<pt, tgt, lo, hi, ret>>
      PROVE  /\ RefLocal(p) /\ ref'[Mem(p)] = None
             /\ Unmapped(tgt[p], 0)'
             /\ \A i \in Pde : i < NVa \/ i >= cur[p] + 1 => ref'[PDE(tgt[p], i)] = None
             /\ \A t : t = tgt[p] => Tabled(t)'
             /\ Own(p)' = Own(p) /\ Other(p)' = Other(p) /\ UNCHANGED <<state, sz, side>>
             /\ Own(tgt[p][1])' = Own(tgt[p][1])
  <2>1. cur[p] \in Pde /\ cur[p] \in Nat /\ cur[p] >= NVa
    BY <1>2, Ints, SizeAssumption, Types DEF KPde
  <2>2. /\ \A q \in Proc : KeepMem(q)
        /\ \A t \in Space : KeepPte(t)
        /\ \A j \in Pde \ {cur[p]} : ref'[PDE(tgt[p], j)] = ref[PDE(tgt[p], j)]
    BY <1>2, <1>4, <2>1, SetPde, Types
  <2>3. RefLocal(p)
    BY <1>2, <1>4, <2>1, RefOne, SlotIn, Types DEF OwnSlot
  <2>4. Unmapped(tgt[p], 0)'
    BY <1>2, <1>4, <2>2, KeepBare
  <2>5. ASSUME NEW t, t = tgt[p] PROVE Tabled(t)'
    BY <1>2, <2>2, <2>5 DEF Unmapped, Tabled, KeepPte, Va
  <2>6. \A i \in Pde : i < NVa \/ i >= cur[p] + 1 => ref'[PDE(tgt[p], i)] = None
    BY <1>2, <2>1, <2>2, Ints, SizeAssumption
  <2>7. QED
    BY <1>2, <1>4, <2>2, <2>3, <2>4, <2>5, <2>6 DEF KeepMem, pt, Own, Other
<1>5. ASSUME NEW pg \in freelist, ref' = [ref EXCEPT ![PDE(tgt[p], cur[p])] = pg],
             cur[p] < NVa + NKPDE - 1, cur' = [cur EXCEPT ![p] = @ + 1], pc' = pc,
             UNCHANGED <<pt, tgt, lo, hi, ret>>
      PROVE  Struct'
  <2>1. "s_kpde" \in Pcs \ ({"idle", "user"} \cup FaultPcs) /\ Goto(p, "s_kpde")
        /\ cur' = [cur EXCEPT ![p] = cur[p] + 1]
    BY <1>2, <1>5, Types DEF Pcs, FaultPcs, Goto, ThreadOK
  <2>2. cur[p] + 1 \in KPde
    BY <1>2, <1>5, SizeAssumption, Types DEF KPde
  <2>3. ASSUME pc'[p] = "s_kpde", cur'[p] = cur[p] + 1 PROVE Target(p)' /\ TargetSlots(p)'
    <3>1. Target(p)'
      <4>1. Target(p) /\ pc[p] = "s_kpde" /\ Busy(p)
        BY <1>2 DEF Struct
      <4>2. /\ UNCHANGED <<tgt, state, sz, lo, hi, ret>>
            /\ Own(p)' = Own(p) /\ Other(p)' = Other(p) /\ Own(tgt[p][1])' = Own(tgt[p][1])
        BY <1>4, <1>5
      <4>3. QED
        BY <2>3, <4>1, <4>2 DEF Target, Busy
    <3>2. TargetSlots(p)'
      BY <1>2, <1>4, <1>5, <2>2, <2>3 DEF TargetSlots
    <3>3. QED
      BY <3>1, <3>2
  <2>4. QED
    BY <1>2, <1>4, <1>5, <2>1, <2>3, CursorLayout
<1>6. ASSUME NEW pg \in freelist, ref' = [ref EXCEPT ![PDE(tgt[p], cur[p])] = pg],
             cur' = [cur EXCEPT ![p] = 0], Goto(p, AfterSetup(p)),
             UNCHANGED <<pt, tgt, lo, hi, ret>>
      PROVE  Struct'
  <2>1. AfterSetup(p) \in {"b_uvm", "a_alloc", "f_copy"}
        /\ AfterSetup(p) \in Pcs \ ({"idle", "user"} \cup FaultPcs)
    BY DEF AfterSetup, Pcs, FaultPcs
  <2>2. ASSUME pc'[p] = AfterSetup(p), cur'[p] = 0 PROVE Target(p)' /\ TargetSlots(p)'
    <3>1. CASE AfterSetup(p) = "b_uvm"
      <4>1. state[p] = "EMBRYO"
        BY <3>1 DEF AfterSetup
      <4>2. Target(p)'
        BY <1>2, <1>4, <1>6, <2>2, <3>1, <4>1 DEF Struct, Target, Busy
      <4>3. TargetSlots(p)'
        BY <1>2, <1>4, <1>6, <2>2, <3>1 DEF TargetSlots
      <4>4. QED
        BY <4>2, <4>3
    <3>2. CASE AfterSetup(p) = "a_alloc"
      <4>1. state[p] # "EMBRYO" /\ tgt[p][1] = p
        BY <3>2 DEF AfterSetup
      <4>2. tgt[p] = Other(p) /\ ret[p] = "x_load" /\ 0 <= hi[p]
        BY <1>2, <4>1, SizeAssumption, Types DEF Struct, Target, Label, ThreadOK
      <4>3. Target(p)'
        BY <1>2, <1>4, <1>6, <2>2, <3>2, <4>1, <4>2 DEF Target, Busy
      <4>4. TargetSlots(p)'
        BY <1>2, <1>4, <1>6, <2>2, <3>2 DEF TargetSlots
      <4>5. QED
        BY <4>3, <4>4
    <3>3. CASE AfterSetup(p) = "f_copy"
      <4>1. state[p] # "EMBRYO" /\ tgt[p][1] # p
        BY <3>3 DEF AfterSetup
      <4>2. 0 <= sz[p]
        BY SizeAssumption, Types DEF ProcOK
      <4>3. Target(p)'
        BY <1>2, <1>4, <1>6, <2>2, <3>3, <4>1, <4>2 DEF Target, Busy
      <4>4. TargetSlots(p)'
        BY <1>2, <1>4, <1>6, <2>2, <3>3 DEF TargetSlots
      <4>5. QED
        BY <4>3, <4>4
    <3>4. QED
      BY <2>1, <3>1, <3>2, <3>3
  <2>3. QED
    BY <1>2, <1>4, <1>6, <2>1, <2>2, CursorLayout
<1>7. QED
  BY <1>1, <1>3, <1>5, <1>6 DEF SetupKpde, mm

LEMMA BootKstackLayout ==
  ASSUME IInv, Struct, NEW p \in Proc, BootKstack(p) PROVE Struct'
<1>1. CASE Panic("userinit")
  BY <1>1, PanicLayout
<1>2. ASSUME NEW pg \in freelist, ref' = [ref EXCEPT ![KStack(p)] = pg],
             Jump(p, "s_pgdir"), UNCHANGED pt
      PROVE  Struct'
  <2>1. /\ pc[p] = "b_kstack" /\ Busy(p) /\ tgt[p] = Own(p) /\ state[p] = "EMBRYO"
        /\ tgt[p] \in Space /\ Bare(tgt[p]) /\ ref[Mem(p)] = None
        /\ "s_pgdir" \in Pcs \ {"idle"} /\ Own(p)[1] = p
    BY OwnIn, Types DEF BootKstack, At, Busy, Pcs, Label, Struct, Target, TargetSlots,
                        ProcSlots, OwnsMem
  <2>2. /\ \A q \in Proc : KeepMem(q)
        /\ \A t \in Space : KeepPte(t) /\ KeepDir(t)
        /\ RefLocal(p)
    BY <1>2, <2>1, SetStack, SlotIn, RefOne, Types DEF OwnSlot
  <2>3. pc'[p] = "s_pgdir" /\ UNCHANGED <<tgt, cur, lo, hi, ret>>
    BY <1>2, <2>1, JumpBounds, Types
  <2>4. /\ UNCHANGED <<state, sz, side>> /\ Own(p)' = Own(p) /\ ref'[Mem(p)] = None
    BY <1>2, <2>1, <2>2 DEF pt, Own, KeepMem
  <2>5. ProcSlots(p)'
    BY <2>1, <2>2, <2>3, <2>4, BusySlots DEF Busy, FaultPcs
  <2>6. Bare(tgt[p])'
    BY <2>1, <2>2, <2>3, KeepBare
  <2>7. Target(p)' /\ TargetSlots(p)'
    BY <2>1, <2>3, <2>4, <2>6 DEF Target, TargetSlots, Busy
  <2>8. \A t \in Space : Tabled(t)'
    BY <2>2, KeepTabled DEF Struct
  <2>9. QED
    BY <1>2, <2>1, <2>2, <2>5, <2>7, <2>8, JumpLayout
<1>3. QED
  BY <1>1, <1>2 DEF BootKstack

LEMMA BootUvmLayout ==
  ASSUME IInv, Struct, NEW p \in Proc, BootUvm(p) PROVE Struct'
<1>1. CASE Panic("userinit")
  BY <1>1, PanicLayout
<1>2. ASSUME NEW pg \in freelist, ref' = [ref EXCEPT ![Mem(p)] = pg],
             Jump(p, "b_map"), UNCHANGED pt
      PROVE  Struct'
  <2>1. /\ pc[p] = "b_uvm" /\ Busy(p) /\ tgt[p] = Own(p) /\ state[p] = "EMBRYO"
        /\ tgt[p] \in Space /\ Unmapped(tgt[p], 0)
        /\ "b_map" \in Pcs \ {"idle"} /\ Own(p)[1] = p
    BY OwnIn, Types DEF BootUvm, At, Busy, Pcs, Struct, Target, TargetSlots
  <2>2. /\ \A t \in Space : KeepPte(t) /\ KeepDir(t)
        /\ RefLocal(p)
    BY <1>2, <2>1, SetMem, SlotIn, RefOne, Types DEF OwnSlot
  <2>3. pc'[p] = "b_map" /\ UNCHANGED <<tgt, cur, lo, hi, ret>>
    BY <1>2, <2>1, JumpBounds, Types
  <2>4. /\ UNCHANGED <<state, sz, side>> /\ Own(p)' = Own(p) /\ OwnsMem(p)'
    BY <1>2, <2>3 DEF pt, Own, OwnsMem
  <2>5. ProcSlots(p)'
    BY <2>1, <2>2, <2>3, <2>4, BusySlots DEF Busy, FaultPcs
  <2>6. Unmapped(tgt[p], 0)'
    BY <2>1, <2>2, <2>3, KeepBare
  <2>7. Target(p)' /\ TargetSlots(p)'
    BY <2>1, <2>3, <2>4, <2>6 DEF Target, TargetSlots, Busy
  <2>8. \A t \in Space : Tabled(t)'
    BY <2>2, KeepTabled DEF Struct
  <2>9. QED
    BY <1>2, <2>1, <2>2, <2>5, <2>7, <2>8, JumpLayout
<1>3. QED
  BY <1>1, <1>2 DEF BootUvm

\* A step that changes p and the process that p works on.
LEMMA TouchLayout ==
  ASSUME IInv, Struct, NEW p \in Proc, Busy(p), RefLocal(p),
         \A q \in Proc \ {p, tgt[p][1]} : ThreadSame(q) /\ ProcSame(q),
         Layout(p)', NEW np, np = tgt[p][1], np # p => Layout(np)',
         NEW t, t = tgt[p], Tabled(t)'
  PROVE  Struct'
<1>1. ASSUME NEW q \in Proc \ {p, tgt[p][1]} PROVE Layout(q)'
  <2>1. Keep(q)
    BY RefLocalKeeps
  <2>2. Busy(q) => tgt[q][1] \in Proc \ {p, tgt[p][1]}
    BY Apart, Types
  <2>3. Busy(q) => Keep(tgt[q][1]) /\ ProcSame(tgt[q][1])
    BY <2>2, RefLocalKeeps
  <2>4. QED
    BY <2>1, <2>3, LayoutKept DEF Struct, Layout
<1>2. \A q \in Proc : Layout(q)'
  BY <1>1
<1>3. \A s \in Space : Tabled(s)'
  BY RefLocalKeeps, KeepTabled DEF Struct
<1>4. QED
  BY <1>2, <1>3 DEF Struct, Layout

LEMMA BootMapLayout ==
  ASSUME IInv, Struct, NEW p \in Proc, BootMap(p) PROVE Struct'
<1>1. CASE Panic("userinit")
  BY <1>1, PanicLayout
<1>2. CASE Remap(tgt[p], 0)
  BY <1>2, RemapLayout
<1>3. ASSUME Mappages(p, tgt[p], 0, {"W", "U"}),
             state' = [state EXCEPT ![p] = "LIVE"], sz' = [sz EXCEPT ![p] = 1],
             Jump(p, "user"), UNCHANGED <<parent, side, ptlock, tlb, panicked>>
      PROVE  Struct'
  <2>1. /\ pc[p] = "b_map" /\ Busy(p) /\ tgt[p] = Own(p) /\ state[p] = "EMBRYO"
        /\ tgt[p] \in Space /\ Unmapped(tgt[p], 0)
        /\ "user" \in Pcs /\ Own(p)[1] = p /\ Other(p) \in Space /\ Other(p) # Own(p)
    BY OwnIn, Types DEF BootMap, At, Busy, Pcs, Struct, Target, TargetSlots, Own, Other, ProcOK
  <2>2. /\ \A q \in Proc \ {p} : ThreadSame(q)
        /\ pc'[p] = "user"
    BY <1>3, <2>1, JumpBounds, Types
  <2>3. \A q \in Proc \ {p} : ProcSame(q)
    BY <1>3, Types DEF ProcSame, ProcOK
  <2>4. /\ ref'[Mem(p)] = None
        /\ \A t \in Space \ {tgt[p]} : KeepDir(t) /\ KeepPte(t)
        /\ \A b \in Va \ {0} : ref'[PTE(tgt[p], b)] = ref[PTE(tgt[p], b)]
        /\ ref'[PDE(tgt[p], PDX(0))] # None
    BY <1>3, <2>1, MappagesSets, Ints, Types
  <2>5. RefLocal(p)
    BY <1>3, MappagesLocal
  <2>6. state'[p] = "LIVE" /\ sz'[p] = 1 /\ Own(p)' = Own(p) /\ Other(p)' = Other(p)
    BY <1>3, Types DEF ProcOK, Own, Other
  <2>7. Bare(Other(p))'
    BY <2>1, <2>4, <2>6, KeepBare DEF Struct, ProcSlots
  <2>8. Unmapped(Own(p), sz[p])'
    BY <2>1, <2>4, <2>6 DEF Unmapped, Va
  <2>9. Layout(p)'
    <3>1. ProcSlots(p)'
      BY <2>2, <2>4, <2>6, <2>7, <2>8 DEF ProcSlots
    <3>2. QED
      BY <2>2, <3>1 DEF Layout, Target, TargetSlots, Busy
  <2>10. ASSUME NEW t, t = tgt[p] PROVE Tabled(t)'
    BY <2>1, <2>4, <2>10 DEF Tabled, Unmapped, Va
  <2>11. tgt[p][1] = p
    BY <2>1
  <2>12. QED
    BY <2>1, <2>2, <2>3, <2>5, <2>9, <2>10, <2>11, TouchLayout
<1>4. QED
  BY <1>1, <1>2, <1>3 DEF BootMap

-----------------------------------------------------------------------------
(* fork, and the end of wait.                                              *)

\* The process np that p works on, while p's step leaves all but tgt[p] alone.
LEMMA IdleSlots ==
  ASSUME IInv, Struct, NEW p \in Proc, Busy(p), RefLocal(p),
         NEW np, np = tgt[p][1], np # p
  PROVE  /\ np \in Proc /\ pc[np] = "idle" /\ tgt[p] = Own(np)
         /\ ref'[Mem(np)] = None
         /\ \A t : t = Other(np) => Bare(t) /\ Bare(t)'
<1>1. /\ np \in Proc /\ pc[np] = "idle" /\ tgt[p] = Own(np)
  BY Types DEF ThreadsApart, Struct, Target
<1>2. ref'[Mem(np)] = None
  BY <1>1, RefLocalKeeps DEF Struct, ProcSlots, OwnsMem, KeepMem
<1>3. Bare(Other(np)) /\ Other(np) \in Space \ {tgt[p]}
  BY <1>1, TwoSpaces DEF Struct, ProcSlots, Busy
<1>4. ASSUME NEW t, t = Other(np) PROVE Bare(t) /\ Bare(t)'
  BY <1>3, <1>4, RefLocalKeeps, KeepBare
<1>5. QED
  BY <1>1, <1>2, <1>4

\* p returns to the user, and np's process slot settles.
LEMMA SettleLayout ==
  ASSUME IInv, Struct, NEW p \in Proc, Busy(p), RefLocal(p),
         NEW np, np = tgt[p][1], np # p,
         pc'[p] = "user", pc'[np] \in {"user", "idle"},
         \A q \in Proc \ {p, np} : ThreadSame(q), \A q \in Proc \ {np} : ProcSame(q),
         ref'[Mem(p)] = None, ProcSlots(np)', NEW t, t = tgt[p], Tabled(t)'
  PROVE  Struct'
<1>1. np \in Proc
  BY Types
<1>2. ProcSlots(p)'
  BY AwaySlots
<1>3. Layout(p)'
  BY <1>2 DEF Layout, Target, TargetSlots, Busy
<1>4. Layout(np)'
  BY DEF Layout, Target, TargetSlots, Busy
<1>5. QED
  BY <1>1, <1>3, <1>4, TouchLayout

LEMMA ForkKstackLayout ==
  ASSUME IInv, Struct, NEW p \in Proc, ForkKstack(p) PROVE Struct'
<1>1. /\ pc[p] = "f_kstack" /\ Busy(p) /\ tgt[p][1] # p /\ tgt[p][1] \in Proc
      /\ tgt[p] \in Space /\ Bare(tgt[p]) /\ ref[Mem(p)] = None
      /\ ref[KStack(tgt[p][1])] = None /\ state[p] = "LIVE"
      /\ state[tgt[p][1]] = "EMBRYO" /\ tgt[p] = Own(tgt[p][1])
  <2>1. pc[p] = "f_kstack" /\ Busy(p) /\ tgt[p][1] # p
    BY Types DEF ForkKstack, At, Busy, Label
  <2>2. state[p] = "LIVE" /\ tgt[p] \in Space /\ tgt[p][1] \in Proc
    BY <2>1, BusyState, Types
  <2>3. Bare(tgt[p]) /\ ref[KStack(tgt[p][1])] = None
    BY <2>1 DEF Struct, TargetSlots
  <2>4. state[tgt[p][1]] = "EMBRYO" /\ tgt[p] = Own(tgt[p][1])
    BY <2>1 DEF Struct, Target
  <2>5. ref[Mem(p)] = None
    BY <2>1 DEF Struct, ProcSlots, OwnsMem
  <2>6. QED
    BY <2>1, <2>2, <2>3, <2>4, <2>5
<1>2. ASSUME NEW pg \in freelist, ref' = [ref EXCEPT ![KStack(tgt[p][1])] = pg],
             Jump(p, "s_pgdir"), UNCHANGED pt
      PROVE  Struct'
  <2>1. /\ \A q \in Proc : KeepMem(q)
        /\ \A t \in Space : KeepPte(t) /\ KeepDir(t)
        /\ RefLocal(p)
    BY <1>1, <1>2, SetStack, SlotIn, RefOne, Types DEF OwnSlot
  <2>2. "s_pgdir" \in Pcs \ {"idle"}
    BY DEF Pcs
  <2>3. pc'[p] = "s_pgdir" /\ UNCHANGED <<tgt, cur, lo, hi, ret>>
    BY <1>2, <2>2, JumpBounds, Types
  <2>4. /\ UNCHANGED <<state, sz, side>> /\ ref'[Mem(p)] = None
        /\ Own(p)' = Own(p) /\ Own(tgt[p][1])' = Own(tgt[p][1])
    BY <1>1, <1>2, <2>1, <2>3 DEF pt, Own, KeepMem
  <2>5. ProcSlots(p)'
    BY <1>1, <2>1, <2>4, AwaySlots DEF ProcSame
  <2>6. Bare(tgt[p])'
    BY <1>1, <2>1, <2>3, KeepBare
  <2>7. tgt[p] # Own(p)
    BY <1>1 DEF Own
  <2>8. Target(p)'
    BY <1>1, <2>3, <2>4, <2>7 DEF Target, Busy
  <2>9. TargetSlots(p)'
    BY <1>1, <2>3, <2>4, <2>6 DEF TargetSlots
  <2>10. \A t \in Space : Tabled(t)'
    BY <2>1, KeepTabled DEF Struct
  <2>11. QED
    BY <1>1, <1>2, <2>1, <2>2, <2>5, <2>8, <2>9, <2>10, JumpLayout
<1>3. ASSUME state' = [state EXCEPT ![tgt[p][1]] = "UNUSED"], Jump(p, "user"),
             UNCHANGED <<mm, parent, sz, side, ptlock, tlb, panicked>>
      PROVE  Struct'
  <2> DEFINE np == tgt[p][1]
  <2>1. UNCHANGED ref /\ RefLocal(p) /\ "user" \in Pcs
    BY <1>3, RefSame DEF mm, Pcs
  <2>2. /\ \A q \in Proc \ {p} : ThreadSame(q)
        /\ pc'[p] = "user"
    BY <1>3, <2>1, JumpBounds, Types
  <2>3. \A q \in Proc \ {np} : ProcSame(q)
    BY <1>3, Types DEF ProcSame, ProcOK
  <2>4. ASSUME NEW n, n = np PROVE pc'[n] = "idle" /\ ProcSlots(n)'
    <3>1. /\ n \in Proc /\ pc[n] = "idle" /\ tgt[p] = Own(n) /\ ref'[Mem(n)] = None
          /\ \A t : t = Other(n) => Bare(t)'
      BY <1>1, <2>1, <2>4, IdleSlots
    <3>2. state'[n] = "UNUSED" /\ Own(n)' = Own(n) /\ Other(n)' = Other(n)
      BY <1>1, <1>3, <2>4, Types DEF ProcOK, Own, Other
    <3>3. Bare(Own(n))' /\ Bare(Other(n))' /\ ref'[KStack(n)] = None
      BY <1>1, <2>1, <2>4, <3>1, <3>2 DEF Bare, Unmapped
    <3>4. pc'[n] = "idle"
      BY <1>1, <2>2, <2>4, <3>1 DEF ThreadSame
    <3>5. QED
      BY <3>1, <3>2, <3>3, <3>4 DEF ProcSlots
  <2>5. ref'[Mem(p)] = None
    BY <1>1, <2>1
  <2>6. ASSUME NEW t, t = tgt[p] PROVE Tabled(t)'
    BY <1>1, <2>1, <2>6 DEF Struct, Tabled
  <2>7. QED
    BY <1>1, <2>1, <2>2, <2>3, <2>4, <2>5, <2>6, SettleLayout
<1>4. QED
  BY <1>2, <1>3 DEF ForkKstack

LEMMA ForkCopyLayout ==
  ASSUME IInv, Struct, NEW p \in Proc, ForkCopy(p) PROVE Struct'
<1>1. CASE Panic("copyuvm: page not present") \/ Panic("incrementRefCount")
  BY <1>1, PanicLayout
<1>2. ASSUME NEW x, ref' = [ref EXCEPT ![Mem(p)] = x], Jump(p, "f_map"), UNCHANGED pt
      PROVE  Struct'
  <2>1. /\ pc[p] = "f_copy" /\ Busy(p) /\ tgt[p][1] # p /\ tgt[p][1] \in Proc
        /\ tgt[p] \in Space /\ state[p] = "LIVE" /\ cur[p] < sz[p]
        /\ "f_map" \in Pcs \ {"idle"}
    BY BusyState, Types DEF ForkCopy, At, Busy, Label, Pcs
  <2>2. /\ state[tgt[p][1]] = "EMBRYO" /\ tgt[p] = Own(tgt[p][1])
        /\ Unmapped(tgt[p], cur[p])
    BY <2>1 DEF Struct, Target, TargetSlots
  <2>3. /\ \A t \in Space : KeepPte(t) /\ KeepDir(t)
        /\ RefLocal(p)
    BY <1>2, SetMem, SlotIn, RefOne, Types DEF OwnSlot
  <2>4. pc'[p] = "f_map" /\ UNCHANGED <<tgt, cur, lo, hi, ret>>
    BY <1>2, <2>1, JumpBounds, Types
  <2>5. /\ UNCHANGED <<state, sz, side>> /\ OwnsMem(p)'
        /\ Own(p)' = Own(p) /\ Own(tgt[p][1])' = Own(tgt[p][1])
    BY <1>2, <2>4 DEF pt, Own, OwnsMem
  <2>6. ProcSlots(p)'
    BY <2>1, <2>3, <2>5, AwaySlots DEF ProcSame
  <2>7. Unmapped(tgt[p], cur[p])'
    BY <2>1, <2>2, <2>3, <2>4, KeepBare
  <2>8. Target(p)'
    BY <2>1, <2>2, <2>4, <2>5 DEF Target, Busy
  <2>9. TargetSlots(p)'
    BY <2>1, <2>4, <2>7 DEF TargetSlots
  <2>10. \A t \in Space : Tabled(t)'
    BY <2>3, KeepTabled DEF Struct
  <2>11. QED
    BY <1>2, <2>1, <2>3, <2>6, <2>8, <2>9, <2>10, JumpLayout
<1>3. QED
  BY <1>1, <1>2 DEF ForkCopy
\* What fork's labels have in common.
LEMMA ForkFacts ==
  ASSUME IInv, Struct, NEW p \in Proc,
         pc[p] \in {"f_kstack", "f_copy", "f_map", "f_unref", "f_fail"}
  PROVE  /\ Busy(p) /\ tgt[p][1] # p /\ tgt[p][1] \in Proc /\ tgt[p] \in Space
         /\ state[p] = "LIVE" /\ state[tgt[p][1]] = "EMBRYO"
         /\ tgt[p] = Own(tgt[p][1]) /\ tgt[p] # Own(p)
<1>1. Busy(p) /\ tgt[p][1] # p /\ tgt[p][1] \in Proc /\ tgt[p] \in Space
  BY Types DEF Busy, Label
<1>2. state[p] = "LIVE"
  BY <1>1, BusyState
<1>3. state[tgt[p][1]] = "EMBRYO" /\ tgt[p] = Own(tgt[p][1])
  BY <1>1 DEF Struct, Target
<1>4. QED
  BY <1>1, <1>2, <1>3 DEF Own

\* After mappages the space is unmapped from the next page on.
LEMMA MappedNext ==
  ASSUME IInv, Struct, NEW p \in Proc, NEW va \in Va, NEW fl, NEW t \in Space, t = tgt[p],
         fl \in SUBSET {"W", "U", "COW"}, Unmapped(t, va), Mappages(p, t, va, fl)
  PROVE  /\ ref'[Mem(p)] = None /\ RefLocal(p) /\ Tabled(t)'
         /\ \A a : a = va + 1 => Unmapped(t, a)'
<1>1. /\ ref'[Mem(p)] = None
      /\ \A b \in Va \ {va} : ref'[PTE(t, b)] = ref[PTE(t, b)]
      /\ \A i \in Pde \ {PDX(va)} : ref'[PDE(t, i)] = ref[PDE(t, i)]
      /\ ref'[PDE(t, PDX(va))] # None
  BY MappagesSets, Types
<1>2. RefLocal(p)
  BY MappagesLocal, Ints, SizeAssumption DEF Va
<1>3. ASSUME NEW a, a = va + 1 PROVE Unmapped(t, a)'
  BY <1>1, <1>3, Ints DEF Unmapped, Va
<1>4. ASSUME NEW b \in Va, ref'[PTE(t, b)] # None PROVE ref'[PDE(t, PDX(b))] # None
  <2>1. CASE PDX(b) = PDX(va)
    BY <1>1, <2>1
  <2>2. CASE PDX(b) # PDX(va)
    BY <1>1, <1>4, <2>2, Ints DEF Struct, Tabled
  <2>3. QED
    BY <2>1, <2>2
<1>5. QED
  BY <1>1, <1>2, <1>3, <1>4 DEF Tabled

LEMMA ForkMapLayout ==
  ASSUME IInv, Struct, NEW p \in Proc, ForkMap(p) PROVE Struct'
<1>1. CASE Remap(tgt[p], cur[p])
  BY <1>1, RemapLayout
<1>2. /\ pc[p] = "f_map" /\ Busy(p) /\ tgt[p][1] # p /\ tgt[p][1] \in Proc /\ tgt[p] \in Space
      /\ state[p] = "LIVE" /\ state[tgt[p][1]] = "EMBRYO"
      /\ tgt[p] = Own(tgt[p][1]) /\ tgt[p] # Own(p)
      /\ cur[p] \in Va /\ cur[p] < sz[p] /\ Unmapped(tgt[p], cur[p])
  <2>1. pc[p] = "f_map"
    BY DEF ForkMap, At
  <2>2. cur[p] \in Va /\ cur[p] < sz[p] /\ Unmapped(tgt[p], cur[p])
    BY <2>1, Types DEF Label, Struct, Target, TargetSlots
  <2>3. QED
    BY <2>1, <2>2, ForkFacts
<1>3. ASSUME Mappages(p, tgt[p], cur[p], perm[Own(p)][cur[p]]),
             cur' = [cur EXCEPT ![p] = @ + 1], Goto(p, "f_copy"),
             UNCHANGED <<pt, tgt, lo, hi, ret>>
      PROVE  Struct'
  <2>1. /\ ref'[Mem(p)] = None /\ RefLocal(p)
        /\ \A t : t = tgt[p] => Tabled(t)'
        /\ \A a, t : a = cur[p] + 1 /\ t = tgt[p] => Unmapped(t, a)'
    <3>1. perm[Own(p)][cur[p]] \in SUBSET {"W", "U", "COW"}
      BY <1>2, TwoSpaces, Types DEF MemOK
    <3>2. QED
      BY <1>2, <1>3, <3>1, MappedNext
  <2>2. "f_copy" \in Pcs \ ({"idle", "user"} \cup FaultPcs)
        /\ cur' = [cur EXCEPT ![p] = cur[p] + 1]
    BY <1>3, Types DEF Pcs, FaultPcs, ThreadOK
  <2>3. cur[p] + 1 <= sz[p]
    BY <1>2, Types, SizeAssumption DEF ProcOK, Va
  <2>4. ASSUME pc'[p] = "f_copy", cur'[p] = cur[p] + 1 PROVE Target(p)' /\ TargetSlots(p)'
    <3>1. UNCHANGED <<state, sz, side>> /\ Own(p)' = Own(p) /\ Own(tgt[p][1])' = Own(tgt[p][1])
      BY <1>3 DEF pt, Own
    <3>2. Target(p)'
      BY <1>2, <1>3, <2>3, <2>4, <3>1 DEF Target
    <3>3. TargetSlots(p)'
      BY <1>3, <2>1, <2>4 DEF TargetSlots
    <3>4. QED
      BY <3>2, <3>3
  <2>5. QED
    BY <1>2, <1>3, <2>1, <2>2, <2>4, CursorLayout
<1>4. ASSUME Jump(p, "f_unref"), UNCHANGED <<mm, pt, tlb, panicked>> PROVE Struct'
  <2>1. "f_unref" \in Pcs \ {"idle"} /\ UNCHANGED ref /\ RefLocal(p)
    BY <1>4, RefSame DEF mm, Pcs
  <2>2. pc'[p] = "f_unref" /\ UNCHANGED <<tgt, cur, lo, hi, ret>>
    BY <1>4, <2>1, JumpBounds, Types
  <2>3. UNCHANGED <<state, sz, side>> /\ Own(p)' = Own(p) /\ Own(tgt[p][1])' = Own(tgt[p][1])
    BY <1>4, <2>2 DEF pt, Own
  <2>4. ProcSlots(p)'
    BY <1>2, <2>1, <2>2, <2>3, AwaySlots DEF ProcSame, OwnsMem
  <2>5. Target(p)'
    BY <1>2, <2>2, <2>3 DEF Target
  <2>6. TargetSlots(p)'
    BY <2>2 DEF TargetSlots
  <2>7. ASSUME NEW t, t = tgt[p] PROVE Tabled(t)'
    BY <1>2, <2>1, <2>7 DEF Struct, Tabled
  <2>8. QED
    BY <1>2, <1>4, <2>1, <2>4, <2>5, <2>6, <2>7, JumpLayout
<1>5. QED
  BY <1>1, <1>3, <1>4 DEF ForkMap

LEMMA ForkUnrefLayout ==
  ASSUME IInv, Struct, NEW p \in Proc, ForkUnref(p) PROVE Struct'
<1>1. CASE KfreePanic(Mem(p))
  BY <1>1, KfreePanicLayout
<1>2. ASSUME ref' = [ref EXCEPT ![Mem(p)] = None], StartFreevm(p, tgt[p]), UNCHANGED pt
      PROVE  Struct'
  <2>1. /\ Busy(p) /\ tgt[p][1] # p /\ tgt[p] \in Space
        /\ state[p] = "LIVE" /\ state[tgt[p][1]] = "EMBRYO" /\ tgt[p] # Own(p)
    BY ForkFacts DEF ForkUnref, At
  <2>2. /\ \A t \in Space : KeepPte(t) /\ KeepDir(t)
        /\ RefLocal(p) /\ ref'[Mem(p)] = None
    BY <1>2, SetMem, SlotIn, RefOne, Types DEF OwnSlot
  <2>3. ASSUME NEW t, t = tgt[p] PROVE Tabled(t)'
    BY <2>1, <2>2, <2>3, KeepTabled DEF Struct
  <2>4. QED
    BY <1>2, <2>1, <2>2, <2>3, StartFreevmLayout
<1>3. QED
  BY <1>1, <1>2 DEF ForkUnref, KfreeSlot

LEMMA ForkFailLayout ==
  ASSUME IInv, Struct, NEW p \in Proc, ForkFail(p) PROVE Struct'
<1>1. CASE KfreePanic(KStack(tgt[p][1]))
  BY <1>1, KfreePanicLayout
<1>2. ASSUME ref' = [ref EXCEPT ![KStack(tgt[p][1])] = None],
             state' = [state EXCEPT ![tgt[p][1]] = "UNUSED"],
             Jump(p, "user"), UNCHANGED <<parent, sz, side, ptlock>>
      PROVE  Struct'
  <2> DEFINE np == tgt[p][1]
  <2>1. /\ pc[p] = "f_fail" /\ Busy(p) /\ np # p /\ np \in Proc /\ tgt[p] \in Space
        /\ state[p] = "LIVE" /\ Bare(tgt[p]) /\ ref[Mem(p)] = None
    <3>1. pc[p] = "f_fail"
      BY DEF ForkFail, At
    <3>2. Bare(tgt[p]) /\ ref[Mem(p)] = None
      BY <3>1 DEF Struct, TargetSlots, ProcSlots, OwnsMem
    <3>3. QED
      BY <3>1, <3>2, ForkFacts
  <2>2. /\ ref'[KStack(np)] = None
        /\ \A q \in Proc : KeepMem(q)
        /\ \A t \in Space : KeepPte(t) /\ KeepDir(t)
        /\ RefLocal(p) /\ "user" \in Pcs
    BY <1>2, <2>1, SetStack, SlotIn, RefOne, Types DEF OwnSlot, Pcs
  <2>3. /\ \A q \in Proc \ {p} : ThreadSame(q)
        /\ pc'[p] = "user"
    BY <1>2, <2>2, JumpBounds, Types
  <2>4. \A q \in Proc \ {np} : ProcSame(q)
    BY <1>2, Types DEF ProcSame, ProcOK
  <2>5. ASSUME NEW n, n = np PROVE pc'[n] = "idle" /\ ProcSlots(n)'
    <3>1. /\ n \in Proc /\ pc[n] = "idle" /\ tgt[p] = Own(n) /\ ref'[Mem(n)] = None
          /\ \A t : t = Other(n) => Bare(t)'
      BY <2>1, <2>2, <2>5, IdleSlots
    <3>2. state'[n] = "UNUSED" /\ Own(n)' = Own(n) /\ Other(n)' = Other(n)
      BY <1>2, <2>1, <2>5, Types DEF ProcOK, Own, Other
    <3>3. ASSUME NEW t, t = tgt[p] PROVE Bare(t)'
      BY <2>1, <2>2, <3>3, KeepBare
    <3>4. Bare(Own(n))' /\ Bare(Other(n))' /\ ref'[KStack(n)] = None
      BY <2>2, <2>5, <3>1, <3>2, <3>3
    <3>5. pc'[n] = "idle"
      BY <2>1, <2>3, <2>5, <3>1 DEF ThreadSame
    <3>6. QED
      BY <3>1, <3>2, <3>4, <3>5 DEF ProcSlots
  <2>6. ref'[Mem(p)] = None
    BY <2>1, <2>2 DEF KeepMem
  <2>7. ASSUME NEW t, t = tgt[p] PROVE Tabled(t)'
    BY <2>1, <2>2, <2>7, KeepTabled DEF Struct
  <2>8. QED
    BY <2>1, <2>2, <2>3, <2>4, <2>5, <2>6, <2>7, SettleLayout
<1>3. QED
  BY <1>1, <1>2 DEF ForkFail, KfreeSlot

LEMMA ForkDoneLayout ==
  ASSUME IInv, Struct, NEW p \in Proc, ForkDone(p) PROVE Struct'
<1> DEFINE np == tgt[p][1]
<1>1. /\ pc[p] = "f_copy" /\ Busy(p) /\ np # p /\ np \in Proc /\ tgt[p] \in Space
      /\ Unmapped(tgt[p], sz[p]) /\ ref[Mem(p)] = None /\ UNCHANGED ref
  <2>1. pc[p] = "f_copy" /\ cur[p] >= sz[p] /\ UNCHANGED ref
    BY DEF ForkDone, At, mm
  <2>2. cur[p] <= sz[p] /\ Unmapped(tgt[p], cur[p]) /\ ref[Mem(p)] = None
    BY <2>1 DEF Struct, Target, TargetSlots, ProcSlots, OwnsMem
  <2>3. cur[p] = sz[p]
    BY <2>1, <2>2, Types, SizeAssumption DEF ProcOK
  <2>4. QED
    BY <2>1, <2>2, <2>3, ForkFacts
<1>2. /\ pc'[p] = "user" /\ pc'[np] = "user" /\ state'[np] = "LIVE" /\ sz'[np] = sz[p]
      /\ side' = side
      /\ \A q \in Proc \ {p, np} : ThreadSame(q)
      /\ \A q \in Proc \ {np} : ProcSame(q)
  BY <1>1, Types DEF ForkDone, ThreadOK, ProcOK, ThreadSame, ProcSame
<1>3. RefLocal(p)
  BY <1>1, RefSame
<1>4. ASSUME NEW n, n = np PROVE ProcSlots(n)'
  <2>1. /\ tgt[p] = Own(n) /\ ref'[Mem(n)] = None
        /\ \A t : t = Other(n) => Bare(t)'
    BY <1>1, <1>3, <1>4, IdleSlots
  <2>2. state'[n] = "LIVE" /\ Own(n)' = Own(n) /\ Other(n)' = Other(n) /\ sz'[n] = sz[p]
    BY <1>2, <1>4 DEF Own, Other
  <2>3. Unmapped(Own(n), sz[n])'
    BY <1>1, <2>1, <2>2 DEF Unmapped
  <2>4. QED
    BY <2>1, <2>2, <2>3 DEF ProcSlots
<1>5. ASSUME NEW t, t = tgt[p] PROVE Tabled(t)'
  BY <1>1, <1>5 DEF Struct, Tabled
<1>6. QED
  BY <1>1, <1>2, <1>3, <1>4, <1>5, SettleLayout

-----------------------------------------------------------------------------
(* deallocuvm and freevm.                                                  *)

\* The addresses from a up to NextTable(a) share a page table.
LEMMA NextTableSame ==
  ASSUME NEW a \in Nat, NEW b \in Nat, a <= b, b < NextTable(a)
  PROVE  PDX(b) = PDX(a)
<1> DEFINE q == a \div NPTE  d == b \div NPTE
<1>1. NPTE \in Nat /\ NPTE > 0 /\ q \in Int /\ d \in Int
  BY SizeAssumption
<1>2. /\ q * NPTE <= a /\ d * NPTE <= b /\ b < (d + 1) * NPTE
  BY <1>1
<1>3. b < (q + 1) * NPTE
  BY DEF NextTable, PDX
<1>4. CASE d < q
  <2> HIDE DEF q, d
  <2>1. (q - d - 1) * NPTE >= 0
    BY <1>1, <1>4
  <2>2. (q - d - 1) * NPTE = q * NPTE - (d + 1) * NPTE
    BY <1>1
  <2>3. QED
    BY <1>1, <1>2, <2>1, <2>2
<1>5. CASE q < d
  <2> HIDE DEF q, d
  <2>1. (d - q - 1) * NPTE >= 0
    BY <1>1, <1>5
  <2>2. (d - q - 1) * NPTE = d * NPTE - (q + 1) * NPTE
    BY <1>1
  <2>3. QED
    BY <1>1, <1>2, <1>3, <2>1, <2>2
<1>6. QED
  BY <1>1, <1>4, <1>5 DEF PDX

LEMMA DeallocTarget ==
  ASSUME IInv, Struct, NEW p \in Proc, pc[p] \in {"dv", "dv_clear"}
  PROVE  /\ Busy(p) /\ tgt[p] \in Space /\ cur[p] \in Nat /\ lo[p] \in Nat /\ hi[p] \in Nat
         /\ \A va \in Va : va \in lo[p] .. cur[p] - 1 \/ va >= hi[p] => ref[PTE(tgt[p], va)] = None
         /\ ref[Mem(p)] # None => ret[p] = "a_free"
         /\ state[p] = "LIVE"
         /\ pc'[p] \in {"dv", "dv_clear"} /\ UNCHANGED <<pt, tgt, lo, hi, ret>>
              => Target(p)' /\ (ref[Mem(p)] # None => OwnsMem(p)')
<1>1. /\ Busy(p) /\ tgt[p] \in Space /\ cur[p] \in Nat /\ lo[p] \in Nat /\ hi[p] \in Nat
      /\ state[p] = "LIVE"
  BY BusyState, Types, SizeAssumption DEF Busy, ThreadOK
<1>2. \A va \in Va : va \in lo[p] .. cur[p] - 1 \/ va >= hi[p] => ref[PTE(tgt[p], va)] = None
  BY DEF Struct, TargetSlots
<1>3. ref[Mem(p)] # None => ret[p] = "a_free"
  BY DEF Struct, ProcSlots, OwnsMem
<1>4. ASSUME pc'[p] \in {"dv", "dv_clear"}, UNCHANGED <<pt, tgt, lo, hi, ret>>
      PROVE  Target(p)' /\ (ref[Mem(p)] # None => OwnsMem(p)')
  <2>1. /\ UNCHANGED <<state, sz, side>> /\ Own(p)' = Own(p) /\ Other(p)' = Other(p)
        /\ Own(tgt[p][1])' = Own(tgt[p][1])
    BY <1>4 DEF pt, Own, Other
  <2>2. Target(p)'
    BY <1>1, <1>4, <2>1 DEF Struct, Target, Busy
  <2>3. QED
    BY <1>3, <1>4, <2>2 DEF OwnsMem
<1>5. QED
  BY <1>1, <1>2, <1>3, <1>4

LEMMA DeallocStepLayout ==
  ASSUME IInv, Struct, NEW p \in Proc, DeallocStep(p) PROVE Struct'
<1>1. CASE KfreePanic(PTE(tgt[p], cur[p]))
  BY <1>1, KfreePanicLayout
<1>2. /\ pc[p] = "dv" /\ cur[p] < hi[p]
      /\ Busy(p) /\ tgt[p] \in Space /\ cur[p] \in Nat /\ lo[p] \in Nat /\ hi[p] \in Nat
      /\ \A va \in Va : va \in lo[p] .. cur[p] - 1 \/ va >= hi[p] => ref[PTE(tgt[p], va)] = None
  BY DeallocTarget DEF DeallocStep, At
<1>3. ASSUME UNCHANGED <<ref, pt, pc, tgt, lo, hi, ret>>, NEW n \in Int, cur' = [cur EXCEPT ![p] = n],
             \A va \in Va : cur[p] <= va /\ va < n => ref[PTE(tgt[p], va)] = None
      PROVE  Struct'
  <2>1. Goto(p, "dv") /\ "dv" \in Pcs \ ({"idle", "user"} \cup FaultPcs) /\ RefLocal(p)
    BY <1>2, <1>3, RefSame, Types DEF Goto, ThreadOK, Pcs, FaultPcs
  <2>2. Target(p)' /\ (ref'[Mem(p)] # None => OwnsMem(p)')
    BY <1>2, <1>3, DeallocTarget
  <2>3. ASSUME pc'[p] = "dv", cur'[p] = n PROVE TargetSlots(p)'
    <3>1. ASSUME NEW va \in Va, va \in lo[p] .. n - 1 \/ va >= hi[p]
          PROVE  ref[PTE(tgt[p], va)] = None
      BY <1>2, <1>3, <3>1, Ints
    <3>2. ASSUME tgt[p][1] # p, state[tgt[p][1]] = "ZOMBIE"
          PROVE  ref[KStack(tgt[p][1])] = None
      BY <1>2, <3>2 DEF Struct, TargetSlots
    <3>3. QED
      BY <1>3, <2>3, <3>1, <3>2 DEF TargetSlots, pt
  <2>4. ASSUME NEW t, t = tgt[p] PROVE Tabled(t)'
    BY <1>2, <1>3, <2>4 DEF Struct, Tabled
  <2>5. QED
    BY <1>2, <1>3, <2>1, <2>2, <2>3, <2>4, CursorLayout
<1>4. CASE /\ ref[PDE(tgt[p], PDX(cur[p]))] = None
           /\ cur' = [cur EXCEPT ![p] = NextTable(cur[p])]
           /\ UNCHANGED <<mm, pt, pc, tgt, lo, hi, ret>>
  <2>1. ASSUME NEW va \in Va, cur[p] <= va, va < NextTable(cur[p])
        PROVE  ref[PTE(tgt[p], va)] = None
    <3>1. PDX(va) = PDX(cur[p])
      BY <1>2, <2>1, NextTableSame DEF Va
    <3>2. QED
      BY <1>2, <1>4, <3>1 DEF Struct, Tabled
  <2>2. NextTable(cur[p]) \in Int
    BY <1>2, SizeAssumption DEF NextTable, PDX
  <2>3. QED
    BY <1>3, <1>4, <2>1, <2>2 DEF mm
<1>5. CASE /\ ref[PTE(tgt[p], cur[p])] = None
           /\ cur' = [cur EXCEPT ![p] = cur[p] + 1]
           /\ UNCHANGED <<mm, pt, pc, tgt, lo, hi, ret>>
  <2>1. \A va \in Va : cur[p] <= va /\ va < cur[p] + 1 => va = cur[p]
    BY <1>2, Ints
  <2>2. cur[p] + 1 \in Int
    BY <1>2
  <2>3. QED
    BY <1>3, <1>5, <2>1, <2>2 DEF mm
<1>6. CASE UNCHANGED <<ref, pt>> /\ Jump(p, "dv_clear")
  <2>1. "dv_clear" \in Pcs \ {"idle"} /\ RefLocal(p)
    BY <1>6, RefSame DEF Pcs
  <2>2. pc'[p] = "dv_clear" /\ UNCHANGED <<tgt, cur, lo, hi, ret>>
    BY <1>6, <2>1, JumpBounds, Types
  <2>3. Target(p)' /\ (ref'[Mem(p)] # None => OwnsMem(p)')
    BY <1>2, <1>6, <2>2, DeallocTarget
  <2>4. ProcSlots(p)'
    BY <1>2, <1>6, <2>1, <2>2, <2>3, BusySlots DEF pt, Busy, FaultPcs
  <2>5. TargetSlots(p)'
    BY <1>2, <1>6, <2>2 DEF Struct, TargetSlots, pt
  <2>6. ASSUME NEW t, t = tgt[p] PROVE Tabled(t)'
    BY <1>2, <1>6, <2>6 DEF Struct, Tabled
  <2>7. QED
    BY <1>2, <1>6, <2>1, <2>3, <2>4, <2>5, <2>6, JumpLayout
<1>7. QED
  BY <1>1, <1>4, <1>5, <1>6 DEF DeallocStep, KfreeSlot

LEMMA DeallocClearLayout ==
  ASSUME IInv, Struct, NEW p \in Proc, DeallocClear(p) PROVE Struct'
<1>1. /\ pc[p] = "dv_clear" /\ cur[p] \in Va
      /\ Busy(p) /\ tgt[p] \in Space /\ cur[p] \in Nat /\ lo[p] \in Nat /\ hi[p] \in Nat
      /\ \A va \in Va : va \in lo[p] .. cur[p] - 1 \/ va >= hi[p] => ref[PTE(tgt[p], va)] = None
      /\ ref' = [ref EXCEPT ![PTE(tgt[p], cur[p])] = None]
      /\ UNCHANGED <<pt, tgt, lo, hi, ret>>
  BY DeallocTarget, Types DEF DeallocClear, At, Label
<1>2. /\ \A q \in Proc : KeepStack(q) /\ KeepMem(q)
      /\ \A i \in Pde : ref'[PDE(tgt[p], i)] = ref[PDE(tgt[p], i)]
      /\ \A b \in Va : ref'[PTE(tgt[p], b)] \in {None, ref[PTE(tgt[p], b)]}
      /\ ref'[PTE(tgt[p], cur[p])] = None
      /\ RefLocal(p)
  <2>1. /\ \A q \in Proc : KeepStack(q) /\ KeepMem(q)
        /\ KeepDir(tgt[p]) /\ ref'[PTE(tgt[p], cur[p])] = None
        /\ \A b \in Va \ {cur[p]} : ref'[PTE(tgt[p], b)] = ref[PTE(tgt[p], b)]
    <3>1. MemOK
      BY Types
    <3>2. /\ cur[p] \in Va /\ tgt[p] \in Space
          /\ ref' = [ref EXCEPT ![PTE(tgt[p], cur[p])] = None]
      BY <1>1
    <3>3. ASSUME NEW s \in Space, s = tgt[p], NEW va \in Va, va = cur[p],
                 ref' = [ref EXCEPT ![PTE(s, va)] = None]
          PROVE  /\ \A q \in Proc : KeepStack(q) /\ KeepMem(q)
                 /\ KeepDir(s) /\ ref'[PTE(s, va)] = None
                 /\ \A b \in Va \ {va} : ref'[PTE(s, b)] = ref[PTE(s, b)]
      <4>1. /\ \A q \in Proc : KeepStack(q) /\ KeepMem(q)
            /\ \A t \in Space : KeepDir(t)
            /\ \A b \in Va \ {va} : ref'[PTE(s, b)] = ref[PTE(s, b)]
        BY <3>1, <3>3, SetPte
      <4>2. ref'[PTE(s, va)] = None
        BY <3>1, <3>3, SlotIn DEF MemOK
      <4>3. QED
        BY <4>1, <4>2
    <3>4. QED
      BY <3>2, <3>3
  <2>2. RefLocal(p)
    BY <1>1, SlotIn, RefOne, Types DEF OwnSlot
  <2>3. QED
    BY <2>1, <2>2 DEF KeepDir
<1>3. /\ Goto(p, "dv") /\ "dv" \in Pcs \ ({"idle", "user"} \cup FaultPcs)
      /\ cur' = [cur EXCEPT ![p] = cur[p] + 1] /\ pc'[p] = "dv"
  BY <1>1, Types DEF DeallocClear, Goto, ThreadOK, Pcs, FaultPcs
<1>4. Target(p)' /\ (ref'[Mem(p)] # None => OwnsMem(p)')
  BY <1>1, <1>2, <1>3, DeallocTarget DEF KeepMem
<1>5. ASSUME pc'[p] = "dv", cur'[p] = cur[p] + 1 PROVE TargetSlots(p)'
  <2>1. ASSUME NEW va \in Va, va \in lo[p] .. (cur[p] + 1) - 1 \/ va >= hi[p]
        PROVE  ref'[PTE(tgt[p], va)] = None
    <3>1. va = cur[p] \/ va \in lo[p] .. cur[p] - 1 \/ va >= hi[p]
      BY <1>1, <2>1, Ints
    <3>2. QED
      BY <1>1, <1>2, <3>1
  <2>2. ASSUME tgt[p][1] # p, state[tgt[p][1]] = "ZOMBIE"
        PROVE  ref'[KStack(tgt[p][1])] = None
    BY <1>1, <1>2, <2>2, Types DEF Struct, TargetSlots, KeepStack
  <2>3. QED
    BY <1>1, <1>5, <2>1, <2>2 DEF TargetSlots, pt
<1>6. ASSUME NEW t, t = tgt[p] PROVE Tabled(t)'
  <2>1. Tabled(t)
    BY <1>1, <1>6 DEF Struct
  <2>2. QED
    BY <1>2, <1>6, <2>1, Ints DEF Tabled
<1>7. QED
  BY <1>1, <1>2, <1>3, <1>4, <1>5, <1>6, CursorLayout

LEMMA DeallocDoneLayout ==
  ASSUME IInv, Struct, NEW p \in Proc, DeallocDone(p) PROVE Struct'
<1>1. /\ pc[p] = "dv" /\ cur[p] >= hi[p] /\ Jump(p, ret[p]) /\ UNCHANGED <<ref, pt>>
      /\ Busy(p) /\ tgt[p] \in Space /\ cur[p] \in Nat /\ lo[p] \in Nat /\ hi[p] \in Nat
      /\ state[p] = "LIVE" /\ (ref[Mem(p)] # None => ret[p] = "a_free")
      /\ ret[p] \in {"fv_tab", "g_done", "user", "x_bad", "a_free"}
  BY DeallocTarget, Types DEF DeallocDone, At, mm, Label
<1>2. Unmapped(tgt[p], lo[p])
  <2>1. \A va \in Va : va >= lo[p] => va \in lo[p] .. cur[p] - 1 \/ va >= hi[p]
    BY <1>1, Ints
  <2>2. \A va \in Va : va \in lo[p] .. cur[p] - 1 \/ va >= hi[p] => ref[PTE(tgt[p], va)] = None
    BY <1>1, DeallocTarget
  <2>3. QED
    BY <2>1, <2>2 DEF Unmapped
<1>3. /\ ret[p] = "fv_tab" => lo[p] = 0 /\ hi[p] = NVa /\ tgt[p] # Own(p)
      /\ ret[p] # "fv_tab" => tgt[p][1] = p
      /\ ret[p] = "g_done" => tgt[p] = Own(p) /\ lo[p] < hi[p] /\ hi[p] = sz[p]
      /\ ret[p] = "user" => tgt[p] = Own(p)
      /\ ret[p] \in {"user", "a_free"} /\ tgt[p] = Own(p) => lo[p] <= sz[p]
      /\ ret[p] = "x_bad" => tgt[p] = Other(p)
      /\ tgt[p][1] # p => tgt[p] = Own(tgt[p][1])
  BY <1>1 DEF Struct, Target
<1>4. ret[p] \in Pcs \ {"idle"} /\ RefLocal(p)
  BY <1>1, RefSame DEF Pcs
<1>5. /\ UNCHANGED <<state, sz, side>> /\ Own(p)' = Own(p) /\ Other(p)' = Other(p)
      /\ pc'[p] = ret[p] /\ (ret[p] # "user" => UNCHANGED <<tgt, cur, lo, hi, ret>>)
  BY <1>1, <1>4, JumpBounds, Types DEF pt, Own, Other
<1>6. ProcSlots(p)'
  <2>1. CASE ret[p] # "user"
    BY <1>1, <1>4, <1>5, <2>1, BusySlots DEF Busy, FaultPcs, OwnsMem
  <2>2. CASE ret[p] = "user"
    <3>1. Bare(Other(p)) /\ tgt[p] = Own(p)
      BY <1>1, <1>3, <2>2, TwoSpaces DEF Struct, ProcSlots
    <3>2. Bare(Other(p))'
      BY <1>1, <1>5, <3>1 DEF Bare, Unmapped
    <3>3. Unmapped(Own(p), sz[p])
      <4>1. sz[p] \in Int /\ lo[p] <= sz[p]
        BY <1>3, <2>2, <3>1, Types, SizeAssumption DEF ProcOK
      <4>2. \A va \in Va : va >= sz[p] => va >= lo[p]
        BY <1>1, <4>1, Ints
      <4>3. QED
        BY <1>2, <3>1, <4>2 DEF Unmapped
    <3>4. Unmapped(Own(p), sz[p])'
      BY <1>1, <1>5, <3>3 DEF Unmapped
    <3>5. QED
      BY <1>1, <1>5, <2>2, <3>2, <3>4 DEF ProcSlots
  <2>3. QED
    BY <2>1, <2>2
<1>7. ASSUME ret[p] # "user", pc'[p] = ret[p], UNCHANGED <<tgt, cur, lo, hi, ret>>
      PROVE  Target(p)' /\ TargetSlots(p)'
  <2>1. Own(tgt[p][1])' = Own(tgt[p][1])
    BY <1>5, <1>7 DEF Own
  <2>2. Target(p)'
    BY <1>1, <1>3, <1>5, <1>7, <2>1 DEF Target
  <2>3. ret[p] = "a_free" /\ tgt[p] = Own(p) => Unmapped(tgt[p], sz[p])
    BY <1>1, <1>2, <1>3, Ints, Types DEF Unmapped, ProcOK
  <2>4. UNCHANGED <<ref, state, sz>> /\ Own(p)' = Own(p)
    BY <1>1, <1>5
  <2>5. CASE ret[p] = "fv_tab"
    <3>1. ASSUME tgt[p][1] # p, state[tgt[p][1]] = "ZOMBIE"
          PROVE  ref[KStack(tgt[p][1])] = None
      BY <1>1, <3>1 DEF Struct, TargetSlots
    <3>2. QED
      BY <1>2, <1>3, <1>7, <2>2, <2>4, <2>5, <3>1 DEF TargetSlots, Unmapped
  <2>6. CASE ret[p] = "g_done"
    BY <1>2, <1>3, <1>7, <2>2, <2>4, <2>6 DEF TargetSlots, Unmapped
  <2>7. CASE ret[p] = "a_free"
    BY <1>7, <2>2, <2>3, <2>4, <2>7 DEF TargetSlots, Unmapped
  <2>8. CASE ret[p] = "x_bad"
    BY <1>7, <2>2, <2>8 DEF TargetSlots
  <2>9. QED
    BY <1>1, <1>7, <2>2, <2>5, <2>6, <2>7, <2>8
<1>8. ASSUME NEW t, t = tgt[p] PROVE Tabled(t)'
  BY <1>1, <1>8 DEF Struct, Tabled
<1>9. QED
  BY <1>1, <1>4, <1>6, <1>7, <1>8, JumpLayout

LEMMA FreeTabLayout ==
  ASSUME IInv, Struct, NEW p \in Proc, FreeTab(p) PROVE Struct'
<1>1. /\ pc[p] = "fv_tab" /\ Busy(p) /\ tgt[p] \in Space /\ tgt[p][1] \in Proc
      /\ tgt[p] # Own(p) /\ state[p] = "LIVE" /\ ref[Mem(p)] = None
      /\ Unmapped(tgt[p], 0)
      /\ tgt[p][1] # p => tgt[p] = Own(tgt[p][1])
      /\ tgt[p][1] # p /\ state[tgt[p][1]] = "ZOMBIE" => ref[KStack(tgt[p][1])] = None
      /\ tgt[p][1] # p => state[tgt[p][1]] \in {"EMBRYO", "ZOMBIE"}
      /\ tgt[p][1] = p => tgt[p] = Other(p)
  <2>1. pc[p] = "fv_tab" /\ Busy(p) /\ tgt[p] \in Space /\ tgt[p][1] \in Proc
    BY Types DEF FreeTab, At, Busy
  <2>2. tgt[p] # Own(p) /\ (tgt[p][1] # p => tgt[p] = Own(tgt[p][1]))
    BY <2>1 DEF Struct, Target
  <2>3. state[p] = "LIVE" /\ (tgt[p][1] # p => state[tgt[p][1]] \in {"EMBRYO", "ZOMBIE"})
    BY <2>1, BusyState, Types DEF ThreadsApart
  <2>4. /\ Unmapped(tgt[p], 0)
        /\ tgt[p][1] # p /\ state[tgt[p][1]] = "ZOMBIE" => ref[KStack(tgt[p][1])] = None
    BY <2>1 DEF Struct, TargetSlots
  <2>5. ref[Mem(p)] = None
    BY <2>1 DEF Struct, ProcSlots, OwnsMem
  <2>6. tgt[p][1] = p => tgt[p] = Other(p)
    BY <2>1, <2>2, TwoSpaces
  <2>7. QED
    BY <2>1, <2>2, <2>3, <2>4, <2>5, <2>6
<1>2. ASSUME NEW s, KfreePanic(s) PROVE Struct'
  BY <1>2, KfreePanicLayout
<1>3. ASSUME NEW i \in Pde, ref' = [ref EXCEPT ![PDE(tgt[p], i)] = None], UNCHANGED <<pt, kt>>
      PROVE  Struct'
  <2>1. /\ \A q \in Proc : KeepStack(q) /\ KeepMem(q)
        /\ \A t \in Space : KeepPte(t)
    BY <1>1, <1>3, SetPde, Types
  <2>2. RefLocal(p) /\ UNCHANGED <<pc, tgt, cur, lo, hi, ret, state, sz, side>>
    <3>1. i \in Nat
      BY Ints, SizeAssumption DEF Pde, UPde, KPde
    <3>2. QED
      BY <1>1, <1>3, <3>1, RefOne, SlotIn, Types DEF OwnSlot, kt, loc, pt
  <2>3. /\ Own(p)' = Own(p) /\ Own(tgt[p][1])' = Own(tgt[p][1])
        /\ ref'[Mem(p)] = None
        /\ ref'[KStack(tgt[p][1])] = ref[KStack(tgt[p][1])]
    BY <1>1, <2>1, <2>2 DEF Own, KeepMem, KeepStack
  <2>4. LocalStep(p)
    BY <1>1, <1>3, <2>2 DEF LocalStep
  <2>5. ProcSlots(p)'
    BY <1>1, <2>2, <2>3, BusySlots DEF Busy, FaultPcs
  <2>6. Unmapped(tgt[p], 0)'
    BY <1>1, <2>1, <2>2, KeepBare
  <2>7. Target(p)'
    BY <1>1, <2>2, <2>3 DEF Target
  <2>8. TargetSlots(p)'
    BY <1>1, <2>2, <2>3, <2>6 DEF TargetSlots
  <2>9. ASSUME NEW t, t = tgt[p] PROVE Tabled(t)'
    BY <1>1, <2>1, <2>9 DEF Unmapped, Tabled, KeepPte, Va
  <2>10. QED
    BY <2>2, <2>4, <2>5, <2>7, <2>8, <2>9, LocalLayout DEF Layout
<1>4. ASSUME \A i \in Pde : ref[PDE(tgt[p], i)] = None,
             ref' = [ref EXCEPT ![PgDir(tgt[p])] = None],
             Jump(p, AfterFreevm(p)), UNCHANGED pt
      PROVE  Struct'
  <2>1. /\ \A q \in Proc : KeepStack(q) /\ KeepMem(q)
        /\ \A t \in Space : KeepPte(t)
        /\ \A i \in Pde : ref'[PDE(tgt[p], i)] = ref[PDE(tgt[p], i)]
    BY <1>1, <1>4, SetPgDir, Types
  <2>2. ref'[PgDir(tgt[p])] = None
    BY <1>1, <1>4, SlotIn, Types DEF MemOK
  <2>3. RefLocal(p) /\ AfterFreevm(p) \in Pcs \ {"idle"}
    BY <1>1, <1>4, RefOne, SlotIn, Types DEF OwnSlot, AfterFreevm, Pcs
  <2>4. \A t : t = tgt[p] => Bare(t)' /\ Tabled(t)'
    BY <1>1, <1>4, <2>1, <2>2 DEF Bare, Unmapped, Tabled, KeepPte, Va
  <2>5. /\ UNCHANGED <<state, sz, side>> /\ Own(p)' = Own(p) /\ Other(p)' = Other(p)
        /\ pc'[p] = AfterFreevm(p)
        /\ AfterFreevm(p) # "user" => UNCHANGED <<tgt, cur, lo, hi, ret>>
    BY <1>4, <2>3, JumpBounds, Types DEF pt, Own, Other
  <2>6. ref'[Mem(p)] = None /\ ref'[KStack(tgt[p][1])] = ref[KStack(tgt[p][1])]
    BY <1>1, <2>1 DEF KeepMem, KeepStack
  <2>7. ProcSlots(p)'
    <3>1. CASE tgt[p][1] # p
      BY <1>1, <2>3, <2>5, <2>6, <3>1, AwaySlots DEF ProcSame
    <3>2. CASE tgt[p][1] = p
      <4>1. Unmapped(Own(p), sz[p]) /\ Own(p) \in Space
        BY <1>1, TwoSpaces DEF Struct, ProcSlots
      <4>2. Unmapped(Own(p), sz[p])'
        BY <2>1, <2>5, <4>1, KeepBare
      <4>3. Bare(Other(p))'
        BY <1>1, <2>4, <2>5, <3>2
      <4>4. QED
        BY <1>1, <2>5, <2>6, <4>2, <4>3 DEF ProcSlots
    <3>3. QED
      BY <3>1, <3>2
  <2>8. ASSUME AfterFreevm(p) # "user", pc'[p] = AfterFreevm(p), UNCHANGED <<tgt, cur, lo, hi, ret>>
        PROVE  Target(p)' /\ TargetSlots(p)'
    <3>1. tgt[p][1] # p /\ Own(tgt[p][1])' = Own(tgt[p][1])
      BY <2>5, <2>8 DEF AfterFreevm, Own
    <3>2. CASE state[tgt[p][1]] = "ZOMBIE"
      BY <1>1, <2>4, <2>5, <2>6, <2>8, <3>1, <3>2 DEF Target, TargetSlots, AfterFreevm
    <3>3. CASE state[tgt[p][1]] = "EMBRYO"
      BY <1>1, <2>4, <2>5, <2>6, <2>8, <3>1, <3>3 DEF Target, TargetSlots, AfterFreevm
    <3>4. QED
      BY <1>1, <3>1, <3>2, <3>3
  <2>9. QED
    BY <1>1, <1>4, <2>3, <2>4, <2>7, <2>8, JumpLayout
<1>5. QED
  BY <1>2, <1>3, <1>4 DEF FreeTab, KfreeSlot

-----------------------------------------------------------------------------
(* allocuvm and growproc.                                                  *)

LEMMA AllocFacts ==
  ASSUME IInv, Struct, NEW p \in Proc, pc[p] \in {"a_alloc", "a_map"}
  PROVE  /\ Busy(p) /\ tgt[p] \in Space /\ tgt[p][1] = p /\ state[p] = "LIVE"
         /\ cur[p] \in Nat /\ lo[p] \in Nat /\ hi[p] \in Nat /\ sz[p] \in Nat
         /\ cur[p] <= hi[p] /\ hi[p] <= NVa
         /\ pc[p] = "a_map" => cur[p] < hi[p] /\ cur[p] \in Va
         /\ Unmapped(tgt[p], cur[p]) /\ Unmapped(tgt[p], hi[p])
         /\ ret[p] \in {"g_done", "x_load", "x_stack"}
         /\ ret[p] = "g_done" => tgt[p] = Own(p) /\ lo[p] = sz[p] /\ hi[p] > sz[p]
         /\ ret[p] # "g_done" => tgt[p] = Other(p)
<1>1. /\ Busy(p) /\ tgt[p] \in Space /\ state[p] = "LIVE"
      /\ cur[p] \in Nat /\ lo[p] \in Nat /\ hi[p] \in Nat /\ sz[p] \in Nat /\ hi[p] <= NVa
      /\ ret[p] \in {"g_done", "x_load", "x_stack"}
  BY BusyState, Types, SizeAssumption DEF Busy, ThreadOK, ProcOK, Label
<1>2. /\ cur[p] <= hi[p]
      /\ pc[p] = "a_map" => cur[p] < hi[p]
      /\ ret[p] = "g_done" => tgt[p] = Own(p) /\ lo[p] = sz[p] /\ hi[p] > sz[p]
      /\ ret[p] # "g_done" => tgt[p] = Other(p)
  BY DEF Struct, Target
<1>3. Unmapped(tgt[p], cur[p])
  BY DEF Struct, TargetSlots
<1>4. Unmapped(tgt[p], hi[p])
  BY <1>1, <1>2, <1>3, Ints DEF Unmapped
<1>5. pc[p] = "a_map" => cur[p] \in Va
  BY <1>1, <1>2, SizeAssumption DEF Va
<1>6. tgt[p][1] = p
  BY <1>2, TwoSpaces
<1>7. QED
  BY <1>1, <1>2, <1>3, <1>4, <1>5, <1>6

\* allocuvm fails: deallocuvm of what it had mapped.
LEMMA AllocUndo ==
  ASSUME IInv, Struct, NEW p \in Proc, pc[p] \in {"a_alloc", "a_map"},
         NEW r \in {"a_free", AllocFailed(p)}, r = "a_free" <=> pc[p] = "a_map",
         StartDealloc(p, tgt[p], lo[p], hi[p], r), UNCHANGED <<ref, pt>>
  PROVE  Struct'
<1>1. /\ Busy(p) /\ tgt[p] \in Space /\ tgt[p][1] = p /\ state[p] = "LIVE"
      /\ lo[p] \in Nat /\ hi[p] \in Nat
      /\ tgt[p] = Own(p) => lo[p] = sz[p] /\ lo[p] <= sz[p]
      /\ Unmapped(tgt[p], hi[p])
      /\ tgt[p] \in {Own(p), Other(p)}
  BY AllocFacts, TwoSpaces
<1>2. /\ \A q \in Proc \ {p} : ThreadSame(q)
      /\ pc'[p] = "dv" /\ tgt'[p] = tgt[p] /\ lo'[p] = lo[p] /\ hi'[p] = hi[p]
      /\ cur'[p] = lo[p] /\ ret'[p] = r
  BY StartDeallocSame, Types
<1>3. /\ UNCHANGED <<state, sz, side>> /\ Own(p)' = Own(p) /\ Other(p)' = Other(p)
      /\ RefLocal(p)
  BY RefSame DEF pt, Own, Other
<1>4. r \in {"a_free", "user", "x_bad"} /\ (r = "user" => tgt[p] = Own(p))
      /\ (r = "x_bad" => tgt[p] # Own(p)) /\ r # "fv_tab" /\ r # "g_done"
  BY DEF AllocFailed
<1>5. ref'[Mem(p)] # None => OwnsMem(p)'
  BY <1>2 DEF Struct, ProcSlots, OwnsMem
<1>6. ProcSlots(p)'
  BY <1>1, <1>2, <1>3, <1>5, BusySlots DEF Busy, FaultPcs
<1>7. Target(p)'
  BY <1>1, <1>2, <1>3, <1>4 DEF Target
<1>8. TargetSlots(p)'
  <2>1. \A va \in Va : ~(va \in lo[p] .. lo[p] - 1)
    BY <1>1
  <2>2. \A va \in Va : va >= hi[p] => ref'[PTE(tgt[p], va)] = None
    BY <1>1 DEF Unmapped
  <2>3. QED
    BY <1>1, <1>2, <2>1, <2>2 DEF TargetSlots
<1>9. LocalStep(p)
  BY <1>1, <1>2, <1>3 DEF LocalStep, ThreadSame
<1>10. ASSUME NEW t, t = tgt[p] PROVE Tabled(t)'
  BY <1>1, <1>10 DEF Struct, Tabled
<1>11. QED
  BY <1>2, <1>6, <1>7, <1>8, <1>9, <1>10, LocalLayout DEF Layout, ThreadSame

LEMMA AllocPageLayout ==
  ASSUME IInv, Struct, NEW p \in Proc, AllocPage(p) PROVE Struct'
<1>1. pc[p] = "a_alloc" /\ cur[p] < hi[p]
  BY DEF AllocPage, At
<1>2. CASE StartDealloc(p, tgt[p], lo[p], hi[p], AllocFailed(p)) /\ UNCHANGED <<mm, pt>>
  <2>1. AllocFailed(p) # "a_free"
    BY DEF AllocFailed
  <2>2. QED
    BY <1>1, <1>2, <2>1, AllocUndo DEF mm
<1>3. ASSUME NEW pg \in freelist, ref' = [ref EXCEPT ![Mem(p)] = pg],
             Jump(p, "a_map"), UNCHANGED pt
      PROVE  Struct'
  <2>1. /\ Busy(p) /\ tgt[p] \in Space /\ tgt[p][1] = p /\ state[p] = "LIVE" /\ "a_map" \in Pcs \ {"idle"}
        /\ Unmapped(tgt[p], cur[p])
        /\ ret[p] = "g_done" => tgt[p] = Own(p) /\ lo[p] = sz[p] /\ hi[p] > sz[p]
        /\ ret[p] # "g_done" => tgt[p] = Other(p)
        /\ cur[p] <= hi[p]
    BY <1>1, AllocFacts DEF Pcs
  <2>2. /\ \A t \in Space : KeepPte(t) /\ KeepDir(t)
        /\ RefLocal(p)
    BY <1>3, SetMem, SlotIn, RefOne, Types DEF OwnSlot
  <2>3. pc'[p] = "a_map" /\ UNCHANGED <<tgt, cur, lo, hi, ret>>
    BY <1>3, <2>1, JumpBounds, Types
  <2>4. /\ UNCHANGED <<state, sz, side>> /\ OwnsMem(p)'
        /\ Own(p)' = Own(p) /\ Other(p)' = Other(p)
    BY <1>3, <2>3 DEF pt, Own, Other, OwnsMem
  <2>5. ProcSlots(p)'
    BY <2>1, <2>2, <2>3, <2>4, BusySlots DEF Busy, FaultPcs
  <2>6. Unmapped(tgt[p], cur[p])'
    BY <2>1, <2>2, <2>3, KeepBare
  <2>7. Target(p)'
    BY <1>1, <2>1, <2>3, <2>4 DEF Target
  <2>8. TargetSlots(p)'
    BY <2>3, <2>6 DEF TargetSlots
  <2>9. \A t \in Space : Tabled(t)'
    BY <2>2, KeepTabled DEF Struct
  <2>10. QED
    BY <1>3, <2>1, <2>2, <2>5, <2>7, <2>8, <2>9, JumpLayout
<1>4. QED
  BY <1>2, <1>3 DEF AllocPage

LEMMA AllocMapLayout ==
  ASSUME IInv, Struct, NEW p \in Proc, AllocMap(p) PROVE Struct'
<1>1. pc[p] = "a_map" /\ Busy(p) /\ tgt[p] \in Space /\ cur[p] \in Va /\ cur[p] < hi[p]
      /\ hi[p] \in Nat /\ cur[p] \in Nat /\ tgt[p][1] = p /\ Unmapped(tgt[p], cur[p])
      /\ state[p] = "LIVE" /\ (ret[p] = "g_done" => tgt[p] = Own(p) /\ lo[p] = sz[p] /\ hi[p] > sz[p])
      /\ (ret[p] # "g_done" => tgt[p] = Other(p))
  BY AllocFacts DEF AllocMap, At
<1>2. CASE Remap(tgt[p], cur[p])
  BY <1>2, RemapLayout
<1>3. CASE StartDealloc(p, tgt[p], lo[p], hi[p], "a_free") /\ UNCHANGED <<mm, pt>>
  BY <1>1, <1>3, AllocUndo DEF mm
<1>4. ASSUME Mappages(p, tgt[p], cur[p], {"W", "U"}),
             cur' = [cur EXCEPT ![p] = @ + 1], Goto(p, "a_alloc"),
             UNCHANGED <<pt, tgt, lo, hi, ret>>
      PROVE  Struct'
  <2>1. /\ ref'[Mem(p)] = None /\ RefLocal(p)
        /\ \A t : t = tgt[p] => Tabled(t)'
        /\ \A a, t : a = cur[p] + 1 /\ t = tgt[p] => Unmapped(t, a)'
    BY <1>1, <1>4, MappedNext
  <2>2. "a_alloc" \in Pcs \ ({"idle", "user"} \cup FaultPcs)
        /\ cur' = [cur EXCEPT ![p] = cur[p] + 1]
    BY <1>4, Types DEF Pcs, FaultPcs, ThreadOK
  <2>3. ASSUME pc'[p] = "a_alloc", cur'[p] = cur[p] + 1 PROVE Target(p)' /\ TargetSlots(p)'
    <3>1. UNCHANGED <<state, sz, side>> /\ Own(p)' = Own(p) /\ Other(p)' = Other(p)
      BY <1>4 DEF pt, Own, Other
    <3>2. Target(p)'
      BY <1>1, <1>4, <2>3, <3>1 DEF Target
    <3>3. TargetSlots(p)'
      BY <1>4, <2>1, <2>3 DEF TargetSlots
    <3>4. QED
      BY <3>2, <3>3
  <2>4. QED
    BY <1>1, <1>4, <2>1, <2>2, <2>3, CursorLayout
<1>5. QED
  BY <1>2, <1>3, <1>4 DEF AllocMap

\* A jump that changes no slot but Mem(p), to the user or to exec's label bad.
LEMMA GiveUpLayout ==
  ASSUME IInv, Struct, NEW p \in Proc, Busy(p), RefLocal(p),
         \A t \in Space : KeepPte(t) /\ KeepDir(t), ref'[Mem(p)] = None,
         tgt[p][1] = p, state[p] = "LIVE", NEW l \in {"user", "x_bad"},
         l = "user" => tgt[p] = Own(p) /\ Unmapped(Own(p), sz[p]),
         l = "x_bad" => tgt[p] = Other(p),
         Jump(p, l), UNCHANGED pt
  PROVE  Struct'
<1>1. l \in Pcs \ {"idle"} /\ tgt[p] \in Space
  BY Types DEF Pcs
<1>2. /\ UNCHANGED <<state, sz, side>> /\ Own(p)' = Own(p) /\ Other(p)' = Other(p)
      /\ pc'[p] = l /\ (l # "user" => UNCHANGED <<tgt, cur, lo, hi, ret>>)
  BY <1>1, JumpBounds, Types DEF pt, Own, Other
<1>3. ProcSlots(p)'
  <2>1. CASE l = "user"
    <3>1. Bare(Other(p)) /\ Other(p) \in Space /\ Own(p) \in Space
      BY <2>1, TwoSpaces DEF Struct, ProcSlots
    <3>2. Bare(Other(p))' /\ Unmapped(Own(p), sz[p])'
      BY <1>2, <2>1, <3>1, KeepBare
    <3>3. QED
      BY <1>2, <3>2 DEF ProcSlots
  <2>2. CASE l = "x_bad"
    BY <1>2, <2>2, BusySlots DEF Busy, FaultPcs
  <2>3. QED
    BY <2>1, <2>2
<1>4. ASSUME l # "user", pc'[p] = l, UNCHANGED <<tgt, cur, lo, hi, ret>>
      PROVE  Target(p)' /\ TargetSlots(p)'
  BY <1>2, <1>4 DEF Target, TargetSlots
<1>5. ASSUME NEW t, t = tgt[p] PROVE Tabled(t)'
  BY <1>1, <1>5, KeepTabled DEF Struct
<1>6. QED
  BY <1>1, <1>3, <1>4, <1>5, JumpLayout

LEMMA AllocFreeLayout ==
  ASSUME IInv, Struct, NEW p \in Proc, AllocFree(p) PROVE Struct'
<1>1. CASE KfreePanic(Mem(p))
  BY <1>1, KfreePanicLayout
<1>2. ASSUME ref' = [ref EXCEPT ![Mem(p)] = None], Jump(p, AllocFailed(p)), UNCHANGED pt
      PROVE  Struct'
  <2>1. pc[p] = "a_free" /\ Busy(p) /\ state[p] = "LIVE"
    BY BusyState DEF AllocFree, At, Busy
  <2>2. tgt[p][1] = p /\ tgt[p] \in {Own(p), Other(p)}
    BY <2>1, TwoSpaces, Types DEF Struct, Target
  <2>3. tgt[p] = Own(p) => Unmapped(Own(p), sz[p])
    BY <2>1 DEF Struct, TargetSlots
  <2>4. /\ AllocFailed(p) \in {"user", "x_bad"}
        /\ AllocFailed(p) = "user" => tgt[p] = Own(p)
        /\ AllocFailed(p) = "x_bad" => tgt[p] = Other(p)
    BY <2>2 DEF AllocFailed
  <2>5. /\ \A t \in Space : KeepPte(t) /\ KeepDir(t)
        /\ RefLocal(p) /\ ref'[Mem(p)] = None
    BY <1>2, SetMem, SlotIn, RefOne, Types DEF OwnSlot
  <2>6. QED
    BY <1>2, <2>1, <2>2, <2>3, <2>4, <2>5, GiveUpLayout
<1>3. QED
  BY <1>1, <1>2 DEF AllocFree, KfreeSlot

LEMMA AllocDoneLayout ==
  ASSUME IInv, Struct, NEW p \in Proc, AllocDone(p) PROVE Struct'
<1>1. /\ pc[p] = "a_alloc" /\ Jump(p, ret[p]) /\ UNCHANGED <<ref, pt>>
  BY DEF AllocDone, At, mm
<1>2. /\ Busy(p) /\ tgt[p] \in Space /\ tgt[p][1] = p /\ state[p] = "LIVE"
      /\ Unmapped(tgt[p], hi[p]) /\ ret[p] \in {"g_done", "x_load", "x_stack"}
      /\ ret[p] = "g_done" => tgt[p] = Own(p) /\ lo[p] = sz[p] /\ hi[p] > sz[p]
      /\ ret[p] # "g_done" => tgt[p] = Other(p)
      /\ hi[p] \in Nat /\ sz[p] \in Nat
  BY <1>1, AllocFacts
<1>3. ret[p] \in Pcs \ {"idle"} /\ RefLocal(p) /\ ref[Mem(p)] = None
  BY <1>1, <1>2, RefSame DEF Pcs, Struct, ProcSlots, OwnsMem
<1>4. /\ UNCHANGED <<state, sz, side>> /\ Own(p)' = Own(p) /\ Other(p)' = Other(p)
      /\ pc'[p] = ret[p] /\ UNCHANGED <<tgt, cur, lo, hi, ret>>
  BY <1>1, <1>2, <1>3, JumpBounds, Types DEF pt, Own, Other
<1>5. ProcSlots(p)'
  BY <1>1, <1>2, <1>3, <1>4, BusySlots DEF Busy, FaultPcs
<1>6. Target(p)'
  BY <1>2, <1>4 DEF Target
<1>7. Unmapped(tgt[p], hi[p])'
  BY <1>1, <1>2, <1>4 DEF Unmapped
<1>8. ret[p] = "g_done" => hi[p] # sz[p]
  BY <1>2
<1>9. TargetSlots(p)'
  BY <1>2, <1>4, <1>7, <1>8 DEF TargetSlots
<1>10. ASSUME NEW t, t = tgt[p] PROVE Tabled(t)'
  BY <1>1, <1>2, <1>10 DEF Struct, Tabled
<1>11. QED
  BY <1>1, <1>2, <1>3, <1>5, <1>6, <1>9, <1>10, JumpLayout

LEMMA GrowDoneLayout ==
  ASSUME IInv, Struct, NEW p \in Proc, GrowDone(p) PROVE Struct'
<1> DEFINE n == IF hi[p] = sz[p] THEN lo[p] ELSE hi[p]
<1>1. /\ pc[p] = "g_done" /\ Jump(p, "user") /\ UNCHANGED <<ref, state, side>>
      /\ sz' = [sz EXCEPT ![p] = n]
  BY DEF GrowDone, At, mm
<1>2. Busy(p) /\ state[p] = "LIVE" /\ tgt[p] \in Space /\ "user" \in Pcs
  BY <1>1, BusyState, Types DEF Busy, Pcs
<1>3. tgt[p] = Own(p) /\ Unmapped(Own(p), n) /\ ref[Mem(p)] = None
  <2>1. tgt[p] = Own(p)
    BY <1>1 DEF Struct, Target
  <2>2. Unmapped(tgt[p], n)
    BY <1>1 DEF Struct, TargetSlots
  <2>3. ref[Mem(p)] = None
    BY <1>1 DEF Struct, ProcSlots, OwnsMem
  <2>4. QED
    BY <2>1, <2>2, <2>3
<1>4. Bare(Other(p)) /\ tgt[p][1] = p
  BY <1>3, TwoSpaces DEF Struct, ProcSlots
<1>5. /\ \A q \in Proc \ {p} : ThreadSame(q) /\ ProcSame(q)
      /\ pc'[p] = "user" /\ sz'[p] = n /\ Own(p)' = Own(p) /\ Other(p)' = Other(p)
  BY <1>1, <1>2, JumpBounds, Types DEF ProcSame, ProcOK, Own, Other
<1>6. ProcSlots(p)'
  <2>1. Bare(Other(p))'
    BY <1>1, <1>4, <1>5 DEF Bare, Unmapped
  <2>2. Unmapped(Own(p), sz[p])'
    BY <1>1, <1>3, <1>5 DEF Unmapped
  <2>3. QED
    BY <1>1, <1>2, <1>3, <2>1, <2>2 DEF ProcSlots
<1>7. Layout(p)'
  BY <1>5, <1>6 DEF Layout, Target, TargetSlots, Busy
<1>8. ASSUME NEW t, t = tgt[p] PROVE Tabled(t)'
  BY <1>1, <1>2, <1>8 DEF Struct, Tabled
<1>9. QED
  BY <1>1, <1>2, <1>4, <1>5, <1>7, <1>8, RefSame, TouchLayout

-----------------------------------------------------------------------------
(* exec.                                                                   *)

LEMMA ExecFacts ==
  ASSUME IInv, Struct, NEW p \in Proc, pc[p] \in {"x_load", "x_stack", "x_bad"}
  PROVE  /\ Busy(p) /\ tgt[p] = Other(p) /\ tgt[p] \in Space /\ tgt[p][1] = p
         /\ tgt[p] # Own(p) /\ state[p] = "LIVE" /\ ref[Mem(p)] = None
         /\ pc[p] # "x_bad" => Unmapped(tgt[p], hi[p])
         /\ Unmapped(Own(p), sz[p])
         /\ hi[p] \in Nat
<1>1. Busy(p) /\ state[p] = "LIVE" /\ hi[p] \in Nat
  BY BusyState, Types, SizeAssumption DEF Busy, ThreadOK
<1>2. tgt[p] = Other(p)
  BY DEF Struct, Target
<1>3. pc[p] # "x_bad" => Unmapped(tgt[p], hi[p])
  BY DEF Struct, TargetSlots
<1>4. ref[Mem(p)] = None
  BY DEF Struct, ProcSlots, OwnsMem
<1>5. tgt[p] # Own(p) /\ tgt[p] \in Space /\ tgt[p][1] = p
  BY <1>2, TwoSpaces
<1>6. Unmapped(Own(p), sz[p])
  BY <1>1, <1>5 DEF Struct, ProcSlots
<1>7. QED
  BY <1>1, <1>2, <1>3, <1>4, <1>5, <1>6

LEMMA ExecFailsLayout ==
  ASSUME IInv, Struct, NEW p \in Proc, pc[p] \in {"x_load", "x_stack"},
         Goto(p, "x_bad"), UNCHANGED <<ref, pt, tgt, cur, lo, hi, ret>>
  PROVE  Struct'
<1>1. Jump(p, "x_bad")
  BY DEF Jump, loc
<1>2. \A t \in Space : KeepPte(t) /\ KeepDir(t)
  BY DEF KeepPte, KeepDir
<1>3. QED
  BY <1>1, <1>2, ExecFacts, RefSame, GiveUpLayout

LEMMA ExecLoadLayout ==
  ASSUME IInv, Struct, NEW p \in Proc, ExecLoad(p) PROVE Struct'
<1>1. pc[p] = "x_load" /\ UNCHANGED <<ref, pt>>
  BY DEF ExecLoad, At
<1>2. CASE Goto(p, "x_bad") /\ UNCHANGED <<tgt, cur, lo, hi, ret>>
  BY <1>1, <1>2, ExecFailsLayout
<1>3. CASE StartAlloc(p, tgt[p], hi[p], hi[p] + 2, "x_stack")
  <2>1. /\ Busy(p) /\ tgt[p] = Other(p) /\ tgt[p] \in Space /\ tgt[p][1] = p
        /\ state[p] = "LIVE" /\ ref[Mem(p)] = None /\ Unmapped(tgt[p], hi[p])
        /\ hi[p] \in Nat /\ tgt[p] # Own(p)
    BY <1>1, ExecFacts
  <2>2. /\ \A q \in Proc \ {p} : ThreadSame(q)
        /\ pc'[p] = "a_alloc" /\ tgt'[p] = tgt[p] /\ lo'[p] = hi[p] /\ hi'[p] = hi[p] + 2
        /\ cur'[p] = hi[p] /\ ret'[p] = "x_stack"
    BY <1>3, StartAllocSame, Types
  <2>3. /\ UNCHANGED <<state, sz, side>> /\ Own(p)' = Own(p) /\ Other(p)' = Other(p)
        /\ RefLocal(p)
    BY <1>1, RefSame DEF pt, Own, Other
  <2>4. ProcSlots(p)'
    BY <1>1, <2>1, <2>2, <2>3, BusySlots DEF Busy, FaultPcs
  <2>5. Target(p)'
    BY <2>1, <2>2, <2>3 DEF Target
  <2>6. Unmapped(tgt[p], cur[p])'
    BY <1>1, <2>1, <2>2 DEF Unmapped
  <2>7. TargetSlots(p)'
    BY <2>2, <2>6 DEF TargetSlots
  <2>8. LocalStep(p)
    BY <1>1, <2>1, <2>2, <2>3 DEF LocalStep, ThreadSame
  <2>9. ASSUME NEW t, t = tgt[p] PROVE Tabled(t)'
    BY <1>1, <2>1, <2>9 DEF Struct, Tabled
  <2>10. QED
    BY <2>2, <2>4, <2>5, <2>7, <2>8, <2>9, LocalLayout DEF Layout, ThreadSame
<1>4. QED
  BY <1>2, <1>3 DEF ExecLoad

LEMMA ExecStackLayout ==
  ASSUME IInv, Struct, NEW p \in Proc, ExecStack(p) PROVE Struct'
<1>1. /\ pc[p] = "x_stack" /\ UNCHANGED <<ref, state, parent, ptlock>>
  BY DEF ExecStack, At
<1>2. CASE Goto(p, "x_bad") /\ UNCHANGED <<side, sz, tlb, tgt, cur, lo, hi, ret>>
  BY <1>1, <1>2, ExecFailsLayout DEF pt
<1>3. ASSUME side' = [side EXCEPT ![p] = 1 - @], sz' = [sz EXCEPT ![p] = hi[p]],
             StartFreevm(p, Own(p))
      PROVE  Struct'
  <2>1. /\ Busy(p) /\ tgt[p] = Other(p) /\ tgt[p] \in Space /\ tgt[p][1] = p
        /\ state[p] = "LIVE" /\ ref[Mem(p)] = None /\ Unmapped(tgt[p], hi[p])
        /\ tgt[p] # Own(p)
    BY <1>1, ExecFacts
  <2>2. /\ \A q \in Proc \ {p} : ThreadSame(q)
        /\ pc'[p] = "dv" /\ tgt'[p] = Own(p) /\ lo'[p] = 0 /\ hi'[p] = NVa
        /\ cur'[p] = 0 /\ ret'[p] = "fv_tab"
    BY <1>3, StartDeallocSame, Types DEF StartFreevm
  <2>3. \A q \in Proc \ {p} : ProcSame(q)
    BY <1>1, <1>3, Types DEF ProcSame, ProcOK
  <2>4. /\ Own(p)' = Other(p) /\ Other(p)' = Own(p) /\ sz'[p] = hi[p]
        /\ Own(p)[1] = p
    BY <1>3, Types DEF Own, Other, ProcOK
  <2>5. Unmapped(Own(p), sz[p])'
    BY <1>1, <2>1, <2>4 DEF Unmapped
  <2>6. ProcSlots(p)'
    BY <1>1, <2>1, <2>2, <2>4, <2>5 DEF ProcSlots, Busy
  <2>7. Target(p)'
    BY <1>1, <2>1, <2>2, <2>4 DEF Target
  <2>8. TargetSlots(p)'
    <3>1. \A va \in Va : ~(va \in 0 .. 0 - 1 \/ va >= NVa)
      BY SizeAssumption DEF Va
    <3>2. QED
      BY <2>2, <2>4, <3>1 DEF TargetSlots
  <2>9. ASSUME NEW t, t = tgt[p] PROVE Tabled(t)'
    BY <1>1, <2>1, <2>9 DEF Struct, Tabled
  <2>10. QED
    BY <1>1, <2>1, <2>2, <2>3, <2>6, <2>7, <2>8, <2>9, RefSame, TouchLayout DEF Layout
<1>4. QED
  BY <1>2, <1>3 DEF ExecStack, OldSpace

LEMMA ExecBadLayout ==
  ASSUME IInv, Struct, NEW p \in Proc, ExecBad(p) PROVE Struct'
<1>1. pc[p] = "x_bad" /\ UNCHANGED <<ref, pt>> /\ StartFreevm(p, tgt[p])
  BY DEF ExecBad, At, mm
<1>2. /\ Busy(p) /\ tgt[p] \in Space /\ tgt[p][1] = p
      /\ state[p] = "LIVE" /\ ref[Mem(p)] = None /\ tgt[p] # Own(p)
  BY <1>1, ExecFacts
<1>3. ASSUME NEW t, t = tgt[p] PROVE Tabled(t)'
  BY <1>1, <1>2, <1>3 DEF Struct, Tabled
<1>4. QED
  BY <1>1, <1>2, <1>3, RefSame, StartFreevmLayout

-----------------------------------------------------------------------------
(* wait.                                                                   *)

LEMMA WaitFacts ==
  ASSUME IInv, Struct, NEW p \in Proc, pc[p] \in {"w_kstack", "w_done"}
  PROVE  /\ Busy(p) /\ tgt[p] \in Space /\ tgt[p][1] # p /\ tgt[p][1] \in Proc
         /\ state[p] = "LIVE" /\ state[tgt[p][1]] = "ZOMBIE" /\ ref[Mem(p)] = None
         /\ tgt[p] # Own(p)
<1>1. Busy(p) /\ tgt[p] \in Space /\ tgt[p][1] # p /\ tgt[p][1] \in Proc
      /\ state[tgt[p][1]] = "ZOMBIE"
  BY Types DEF Busy, Label
<1>2. state[p] = "LIVE"
  BY <1>1, BusyState
<1>3. ref[Mem(p)] = None
  BY DEF Struct, ProcSlots, OwnsMem
<1>4. QED
  BY <1>1, <1>2, <1>3 DEF Own

LEMMA WaitKstackLayout ==
  ASSUME IInv, Struct, NEW p \in Proc, WaitKstack(p) PROVE Struct'
<1>1. CASE KfreePanic(KStack(tgt[p][1]))
  BY <1>1, KfreePanicLayout
<1>2. ASSUME ref' = [ref EXCEPT ![KStack(tgt[p][1])] = None],
             StartFreevm(p, tgt[p]), UNCHANGED pt
      PROVE  Struct'
  <2>1. /\ Busy(p) /\ tgt[p] \in Space /\ tgt[p][1] \in Proc
        /\ state[p] = "LIVE" /\ ref[Mem(p)] = None /\ tgt[p] # Own(p)
    BY WaitFacts DEF WaitKstack, At
  <2>2. /\ ref'[KStack(tgt[p][1])] = None
        /\ \A q \in Proc : KeepMem(q)
        /\ \A t \in Space : KeepPte(t) /\ KeepDir(t)
        /\ RefLocal(p)
    BY <1>2, <2>1, SetStack, SlotIn, RefOne, Types DEF OwnSlot
  <2>3. ref'[Mem(p)] = None
    BY <2>1, <2>2 DEF KeepMem
  <2>4. ASSUME NEW t, t = tgt[p] PROVE Tabled(t)'
    BY <2>1, <2>2, <2>4, KeepTabled DEF Struct
  <2>5. QED
    BY <1>2, <2>1, <2>2, <2>3, <2>4, StartFreevmLayout
<1>3. QED
  BY <1>1, <1>2 DEF WaitKstack, KfreeSlot

LEMMA WaitDoneLayout ==
  ASSUME IInv, Struct, NEW p \in Proc, WaitDone(p) PROVE Struct'
<1> DEFINE np == tgt[p][1]
<1>1. /\ pc[p] = "w_done" /\ Jump(p, "user") /\ UNCHANGED <<ref, sz>>
      /\ state' = [state EXCEPT ![np] = "UNUSED"] /\ side' = [side EXCEPT ![np] = 0]
  BY DEF WaitDone, At, mm
<1>2. /\ Busy(p) /\ tgt[p] \in Space /\ np # p /\ np \in Proc /\ "user" \in Pcs
      /\ ref[Mem(p)] = None
  BY <1>1, WaitFacts DEF Pcs
<1>3. Bare(tgt[p]) /\ ref[KStack(np)] = None
  <2>1. Bare(tgt[p])
    BY <1>1 DEF Struct, TargetSlots
  <2>2. ref[KStack(np)] = None
    BY <1>1, <1>2, WaitFacts DEF Struct, TargetSlots
  <2>3. QED
    BY <2>1, <2>2
<1>4. RefLocal(p)
  BY <1>1, RefSame
<1>5. /\ \A q \in Proc \ {p} : ThreadSame(q)
      /\ pc'[p] = "user"
  BY <1>1, <1>2, JumpBounds, Types
<1>6. \A q \in Proc \ {np} : ProcSame(q)
  BY <1>1, Types DEF ProcSame, ProcOK
<1>7. ASSUME NEW n, n = np PROVE pc'[n] = "idle" /\ ProcSlots(n)'
  <2>1. /\ n \in Proc /\ pc[n] = "idle" /\ tgt[p] = Own(n) /\ ref'[Mem(n)] = None
        /\ \A t : t = Other(n) => Bare(t)'
    BY <1>2, <1>4, <1>7, IdleSlots
  <2>2. /\ Own(n)' \in {Own(n), Other(n)} /\ Other(n)' \in {Own(n), Other(n)}
        /\ state'[n] = "UNUSED"
    BY <1>1, <1>7, <2>1, Types DEF ProcOK, Own, Other
  <2>3. \A t : t = Own(n) => Bare(t)'
    BY <1>1, <1>3, <2>1 DEF Bare, Unmapped
  <2>4. Bare(Own(n))' /\ Bare(Other(n))'
    BY <2>1, <2>2, <2>3 DEF Bare, Unmapped
  <2>5. pc'[n] = "idle" /\ ref'[KStack(n)] = None
    BY <1>1, <1>2, <1>3, <1>5, <1>7, <2>1 DEF ThreadSame
  <2>6. QED
    BY <2>1, <2>2, <2>4, <2>5 DEF ProcSlots
<1>8. ASSUME NEW t, t = tgt[p] PROVE Tabled(t)'
  BY <1>1, <1>2, <1>8 DEF Struct, Tabled
<1>9. QED
  BY <1>1, <1>2, <1>4, <1>5, <1>6, <1>7, <1>8, SettleLayout

-----------------------------------------------------------------------------
(* User code.                                                              *)

\* p enters the kernel, or exits; np is the slot that fork takes, or p.
LEMMA EnterLayout ==
  ASSUME IInv, Struct, NEW p \in Proc, pc[p] = "user", UNCHANGED ref,
         NEW np \in Proc, np = p \/ state[np] = "UNUSED",
         \A q \in Proc \ {p, np} : ThreadSame(q) /\ ProcSame(q),
         Layout(p)', Layout(np)'
  PROVE  Struct'
<1>1. ASSUME NEW q \in Proc \ {p, np} PROVE Layout(q)'
  <2>1. \A x : Keep(x)
    BY DEF Keep, KeepMem, KeepStack, KeepPte, KeepDir
  <2>2. Busy(q) => tgt[q][1] \in Proc \ {p, np}
    BY Types DEF ThreadsApart
  <2>3. QED
    BY <2>1, <2>2, LayoutKept DEF Struct, Layout
<1>2. \A q \in Proc : Layout(q)'
  BY <1>1
<1>3. \A s \in Space : Tabled(s)'
  BY DEF Struct, Tabled
<1>4. QED
  BY <1>2, <1>3 DEF Struct, Layout

LEMMA UserFacts ==
  ASSUME IInv, Struct, NEW p \in Proc, pc[p] = "user"
  PROVE  /\ state[p] = "LIVE" /\ ref[Mem(p)] = None /\ ~Busy(p)
         /\ Bare(Other(p)) /\ Unmapped(Own(p), sz[p])
         /\ Own(p) \in Space /\ Other(p) \in Space /\ Own(p) # Other(p)
         /\ Own(p)[1] = p /\ Other(p)[1] = p
         /\ sz[p] \in Nat /\ sz[p] <= NVa
         /\ UNCHANGED side => Own(p)' = Own(p) /\ Other(p)' = Other(p)
         /\ UNCHANGED ref => \A t, a : /\ Bare(t) => Bare(t)'
                                       /\ Unmapped(t, a) => Unmapped(t, a)'
<1>1. /\ state[p] = "LIVE" /\ ref[Mem(p)] = None /\ ~Busy(p)
      /\ Bare(Other(p)) /\ Unmapped(Own(p), sz[p])
  BY DEF Struct, ProcSlots, OwnsMem, Busy, FaultPcs
<1>2. sz[p] \in Nat /\ sz[p] <= NVa
  BY Types, SizeAssumption DEF ProcOK
<1>3. UNCHANGED side => Own(p)' = Own(p) /\ Other(p)' = Other(p)
  BY DEF Own, Other
<1>4. UNCHANGED ref => \A t, a : /\ Bare(t) => Bare(t)'
                                 /\ Unmapped(t, a) => Unmapped(t, a)'
  BY DEF Bare, Unmapped
<1>5. QED
  BY <1>1, <1>2, <1>3, <1>4, TwoSpaces

LEMMA PageFaultLayout ==
  ASSUME IInv, Struct, NEW p \in Proc, NEW va \in Va, NEW w, NEW usr,
         PageFault(p, va, w, usr)
  PROVE  Struct'
<1>1. CASE Panic("pagefault handler")
  BY <1>1, PanicLayout
<1>2. ASSUME Goto(p, "pf_alloc"), tgt' = [tgt EXCEPT ![p] = Own(p)],
             cur' = [cur EXCEPT ![p] = va], UNCHANGED <<mm, pt, lo, hi, ret>>
      PROVE  Struct'
  <2>1. pc[p] = "user" /\ UNCHANGED <<ref, state, sz, side>>
    BY <1>2 DEF PageFault, At, mm, pt
  <2>2. /\ \A q \in Proc \ {p} : ThreadSame(q) /\ ProcSame(q)
        /\ pc'[p] = "pf_alloc" /\ tgt'[p] = Own(p)
    BY <1>2, <2>1, Types DEF Goto, ThreadOK, ThreadSame, ProcSame
  <2>3. Own(p)' = Own(p) /\ Other(p)' = Other(p)
    BY <2>1 DEF Own, Other
  <2>4. Bare(Other(p))' /\ Unmapped(Own(p), sz[p])'
    <3>1. Bare(Other(p)) /\ Unmapped(Own(p), sz[p])
      BY <2>1, UserFacts
    <3>2. QED
      BY <2>1, <2>3, <3>1 DEF Bare, Unmapped
  <2>5. ProcSlots(p)'
    BY <2>1, <2>2, <2>4, UserFacts DEF ProcSlots
  <2>6. Target(p)' /\ TargetSlots(p)'
    BY <2>1, <2>2, <2>3, UserFacts DEF Target, TargetSlots
  <2>7. QED
    BY <2>1, <2>2, <2>5, <2>6, EnterLayout DEF Layout
<1>3. QED
  BY <1>1, <1>2 DEF PageFault

\* fork takes an unused slot.
LEMMA ForkStartLayout ==
  ASSUME IInv, Struct, NEW p \in Proc, ForkStart(p) PROVE Struct'
<1>1. PICK np \in Proc : /\ state[np] = "UNUSED"
                         /\ state' = [state EXCEPT ![np] = "EMBRYO"]
                         /\ tgt' = [tgt EXCEPT ![p] = Own(np)]
  BY DEF ForkStart, Own
<1>2. /\ pc[p] = "user" /\ Goto(p, "f_kstack")
      /\ UNCHANGED <<ref, sz, side, cur, lo, hi, ret>>
  BY DEF ForkStart, At, mm
<1>3. p # np /\ pc[np] = "idle"
  BY <1>1, <1>2, UserFacts, Types DEF ThreadsApart
<1>4. /\ \A q \in Proc \ {p} : ThreadSame(q)
      /\ \A q \in Proc \ {np} : ProcSame(q)
      /\ pc'[p] = "f_kstack" /\ tgt'[p] = Own(np) /\ pc'[np] = "idle"
      /\ state'[np] = "EMBRYO" /\ state'[p] = "LIVE"
  BY <1>1, <1>2, <1>3, UserFacts, Types DEF Goto, ThreadOK, ProcOK, ThreadSame, ProcSame
<1>5. \A q \in Proc : Own(q)' = Own(q) /\ Other(q)' = Other(q) /\ Own(q)[1] = q
  BY <1>2 DEF Own, Other
<1>6. /\ ref[KStack(np)] = None /\ Bare(Own(np)) /\ Bare(Other(np)) /\ ref[Mem(np)] = None
  BY <1>1, <1>3 DEF Struct, ProcSlots, OwnsMem, Busy
<1>7. \A t, a : (Bare(t) => Bare(t)') /\ (Unmapped(t, a) => Unmapped(t, a)')
  BY <1>2 DEF Bare, Unmapped
<1>8. Layout(np)'
  <2>1. Bare(Other(np))'
    BY <1>5, <1>6, <1>7
  <2>2. ProcSlots(np)'
    BY <1>2, <1>4, <1>6, <2>1 DEF ProcSlots
  <2>3. QED
    BY <1>4, <2>2 DEF Layout, Target, TargetSlots, Busy
<1>9. Layout(p)'
  <2>1. /\ ref[Mem(p)] = None /\ Bare(Other(p)) /\ Unmapped(Own(p), sz[p])
    BY <1>2, UserFacts
  <2>2. Bare(Other(p))' /\ Unmapped(Own(p), sz[p])'
    BY <1>2, <1>5, <2>1 DEF Bare, Unmapped
  <2>3. ProcSlots(p)'
    BY <1>2, <1>4, <2>1, <2>2 DEF ProcSlots
  <2>4. Own(tgt[p][1])' = Own(np) /\ KStack(tgt[p][1])' = KStack(np)
    BY <1>2, <1>4, <1>5 DEF Own, KStack
  <2>5. Target(p)'
    BY <1>3, <1>4, <1>5, <2>4 DEF Target
  <2>6. \A t : t = Own(np) => Bare(t)'
    BY <1>6, <1>7
  <2>7. Bare(tgt[p])'
    BY <1>4, <2>6 DEF Bare, Unmapped
  <2>8. TargetSlots(p)'
    BY <1>2, <1>4, <1>6, <2>4, <2>7 DEF TargetSlots
  <2>9. QED
    BY <2>3, <2>5, <2>8 DEF Layout
<1>10. QED
  BY <1>1, <1>2, <1>3, <1>4, <1>8, <1>9, EnterLayout

LEMMA SbrkGrowLayout ==
  ASSUME IInv, Struct, NEW p \in Proc, NEW n \in 1 .. NVa, SbrkGrow(p, n) PROVE Struct'
<1>1. /\ pc[p] = "user" /\ UNCHANGED <<ref, state, sz, side>>
      /\ StartAlloc(p, Own(p), sz[p], sz[p] + n, "g_done")
  BY DEF SbrkGrow, At, mm, pt
<1>2. /\ \A q \in Proc \ {p} : ThreadSame(q) /\ ProcSame(q)
      /\ pc'[p] = "a_alloc" /\ tgt'[p] = Own(p) /\ lo'[p] = sz[p] /\ hi'[p] = sz[p] + n
      /\ cur'[p] = sz[p] /\ ret'[p] = "g_done"
  BY <1>1, StartAllocSame, Types DEF ProcSame
<1>3. /\ state[p] = "LIVE" /\ ref[Mem(p)] = None
      /\ Bare(Other(p)) /\ Unmapped(Own(p), sz[p])
      /\ Own(p) # Other(p) /\ Own(p)[1] = p /\ sz[p] \in Nat /\ n \in Nat \ {0}
      /\ Own(p)' = Own(p) /\ Other(p)' = Other(p)
  BY <1>1, UserFacts, SizeAssumption
<1>4. Bare(Other(p))' /\ Unmapped(Own(p), sz[p])'
  BY <1>1, <1>3 DEF Bare, Unmapped
<1>5. ProcSlots(p)'
  BY <1>1, <1>2, <1>3, <1>4 DEF ProcSlots
<1>6. Target(p)'
  BY <1>1, <1>2, <1>3 DEF Target
<1>7. Unmapped(tgt[p], cur[p])'
  BY <1>1, <1>2, <1>3 DEF Unmapped
<1>8. TargetSlots(p)'
  BY <1>2, <1>7 DEF TargetSlots
<1>9. QED
  BY <1>1, <1>2, <1>5, <1>6, <1>8, EnterLayout DEF Layout

LEMMA SbrkDownLayout ==
  ASSUME IInv, Struct, NEW p \in Proc, pc[p] = "user", UNCHANGED <<ref, state, sz, side>>,
         NEW l \in 0 .. NVa, NEW r \in {"g_done", "user"}, l < sz[p],
         StartDealloc(p, Own(p), l, sz[p], r)
  PROVE  Struct'
<1>1. /\ \A q \in Proc \ {p} : ThreadSame(q) /\ ProcSame(q)
      /\ pc'[p] = "dv" /\ tgt'[p] = Own(p) /\ lo'[p] = l /\ hi'[p] = sz[p]
      /\ cur'[p] = l /\ ret'[p] = r
  BY StartDeallocSame, Types DEF ProcSame
<1>2. /\ state[p] = "LIVE" /\ ref[Mem(p)] = None
      /\ Bare(Other(p)) /\ Unmapped(Own(p), sz[p])
      /\ Own(p) # Other(p) /\ Own(p)[1] = p /\ sz[p] \in Nat /\ l \in Nat
      /\ Own(p)' = Own(p) /\ Other(p)' = Other(p)
  BY UserFacts, SizeAssumption
<1>3. Bare(Other(p))'
  BY <1>2 DEF Bare, Unmapped
<1>4. ProcSlots(p)'
  BY <1>1, <1>2, <1>3 DEF ProcSlots, Busy, FaultPcs
<1>5. Target(p)'
  BY <1>1, <1>2 DEF Target
<1>6. TargetSlots(p)'
  <2>1. \A va \in Va : ~(va \in l .. l - 1)
    BY <1>2
  <2>2. \A va \in Va : va >= sz[p] => ref'[PTE(Own(p), va)] = None
    BY <1>2 DEF Unmapped
  <2>3. QED
    BY <1>1, <1>2, <2>1, <2>2 DEF TargetSlots
<1>7. QED
  BY <1>1, <1>4, <1>5, <1>6, EnterLayout DEF Layout

LEMMA SbrkShrinkLayout ==
  ASSUME IInv, Struct, NEW p \in Proc, NEW n \in -NVa .. -1, SbrkShrink(p, n) PROVE Struct'
<1>1. /\ pc[p] = "user" /\ UNCHANGED <<ref, state, sz, side>>
      /\ StartDealloc(p, Own(p), sz[p] + n, sz[p], "g_done")
      /\ n < 0 /\ sz[p] + n > 0
  BY DEF SbrkShrink, At, mm, pt
<1>2. sz[p] + n \in 0 .. NVa /\ sz[p] + n < sz[p]
  BY <1>1, UserFacts, SizeAssumption
<1>3. QED
  BY <1>1, <1>2, SbrkDownLayout

LEMMA SbrkAllLayout ==
  ASSUME IInv, Struct, NEW p \in Proc, SbrkAll(p) PROVE Struct'
<1>1. /\ pc[p] = "user" /\ UNCHANGED <<ref, state, sz, side>>
      /\ StartDealloc(p, Own(p), 0, sz[p], "user") /\ 0 < sz[p]
  BY UserFacts DEF SbrkAll, At, mm, pt
<1>2. 0 \in 0 .. NVa
  BY SizeAssumption
<1>3. QED
  BY <1>1, <1>2, SbrkDownLayout

LEMMA ExecStartLayout ==
  ASSUME IInv, Struct, NEW p \in Proc, NEW n \in 1 .. NVa - 1, ExecStart(p, n) PROVE Struct'
<1>1. pc[p] = "user" /\ UNCHANGED <<ref, state, sz, side>>
  BY DEF ExecStart, At, mm, pt
<1>2. /\ \A q \in Proc \ {p} : ThreadSame(q) /\ ProcSame(q)
      /\ pc'[p] = "s_pgdir" /\ tgt'[p] = Other(p)
  BY <1>1, Types DEF ExecStart, Goto, ThreadOK, ThreadSame, ProcSame
<1>3. /\ state[p] = "LIVE" /\ ref[Mem(p)] = None
      /\ Bare(Other(p)) /\ Unmapped(Own(p), sz[p])
      /\ Own(p) # Other(p) /\ Other(p)[1] = p
      /\ Own(p)' = Own(p) /\ Other(p)' = Other(p)
  BY <1>1, UserFacts
<1>4. Bare(Other(p))' /\ Unmapped(Own(p), sz[p])'
  BY <1>1, <1>3 DEF Bare, Unmapped
<1>5. ProcSlots(p)'
  BY <1>1, <1>2, <1>3, <1>4 DEF ProcSlots
<1>6. Target(p)'
  BY <1>1, <1>2, <1>3 DEF Target
<1>7. Bare(tgt[p])'
  BY <1>1, <1>2, <1>3 DEF Bare, Unmapped
<1>8. TargetSlots(p)'
  BY <1>2, <1>3, <1>7 DEF TargetSlots
<1>9. QED
  BY <1>1, <1>2, <1>5, <1>6, <1>8, EnterLayout DEF Layout

LEMMA ExitLayout ==
  ASSUME IInv, Struct, NEW p \in Proc, Exit(p) PROVE Struct'
<1>1. CASE Panic("init exiting")
  BY <1>1, PanicLayout
<1>2. ASSUME state' = [state EXCEPT ![p] = "ZOMBIE"], Jump(p, "idle"), UNCHANGED <<mm, sz, side>>
      PROVE  Struct'
  <2>1. pc[p] = "user" /\ UNCHANGED <<ref, sz, side>> /\ "idle" \in Pcs
    BY <1>2 DEF Exit, At, mm, Pcs
  <2>2. /\ \A q \in Proc \ {p} : ThreadSame(q) /\ ProcSame(q)
        /\ pc'[p] = "idle" /\ state'[p] = "ZOMBIE"
    BY <1>2, <2>1, JumpBounds, Types DEF ProcSame, ProcOK
  <2>3. ref[Mem(p)] = None /\ Bare(Other(p)) /\ Other(p)' = Other(p)
    BY <2>1, UserFacts
  <2>4. Bare(Other(p))'
    BY <2>1, <2>3 DEF Bare, Unmapped
  <2>5. ProcSlots(p)'
    BY <2>1, <2>2, <2>3, <2>4 DEF ProcSlots
  <2>6. Layout(p)'
    BY <2>2, <2>5 DEF Layout, Target, TargetSlots, Busy
  <2>7. QED
    BY <2>1, <2>2, <2>6, EnterLayout
<1>3. QED
  BY <1>1, <1>2 DEF Exit

LEMMA WaitLayout ==
  ASSUME IInv, Struct, NEW p \in Proc, Wait(p) PROVE Struct'
<1>1. PICK c \in Proc : state[c] = "ZOMBIE" /\ tgt' = [tgt EXCEPT ![p] = Own(c)]
  BY DEF Wait, Own
<1>2. /\ pc[p] = "user" /\ Goto(p, "w_kstack")
      /\ UNCHANGED <<ref, state, sz, side, cur, lo, hi, ret>>
  BY DEF Wait, At, mm
<1>3. /\ state[p] = "LIVE" /\ ref[Mem(p)] = None
      /\ Bare(Other(p)) /\ Unmapped(Own(p), sz[p])
      /\ Own(p)' = Own(p) /\ Other(p)' = Other(p)
  BY <1>2, UserFacts
<1>4. /\ \A q \in Proc \ {p} : ThreadSame(q) /\ ProcSame(q)
      /\ pc'[p] = "w_kstack" /\ tgt'[p] = Own(c) /\ Own(c)' = Own(c) /\ Own(c)[1] = c
      /\ c # p
  BY <1>1, <1>2, <1>3, Types DEF Goto, ThreadOK, ThreadSame, ProcSame, Own
<1>5. Bare(Other(p))' /\ Unmapped(Own(p), sz[p])'
  BY <1>2, <1>3 DEF Bare, Unmapped
<1>6. ProcSlots(p)'
  BY <1>2, <1>3, <1>4, <1>5 DEF ProcSlots
<1>7. Own(tgt[p][1])' = Own(c)
  BY <1>2, <1>4 DEF Own
<1>8. Target(p)' /\ TargetSlots(p)'
  BY <1>2, <1>3, <1>4, <1>7 DEF Target, TargetSlots
<1>9. QED
  BY <1>2, <1>4, <1>6, <1>8, EnterLayout DEF Layout

-----------------------------------------------------------------------------
(* The whole specification.                                                *)

LEMMA InitStruct == Init => Struct
<1> SUFFICES ASSUME Init PROVE Struct
  OBVIOUS
<1>1. /\ \A s \in Slot : ref[s] = None
      /\ \A p \in Proc : /\ pc[p] \in {"idle", "b_kstack"}
                         /\ pc[p] = "b_kstack" => state[p] = "EMBRYO"
                         /\ pc[p] = "idle" => state[p] = "UNUSED"
                         /\ tgt[p] = <<p, 0>> /\ side[p] = 0
  BY DEF Init
<1>2. /\ \A p \in Proc : ref[KStack(p)] = None /\ ref[Mem(p)] = None
      /\ \A s \in Space : Bare(s) /\ Tabled(s)
  BY <1>1, SlotIn DEF Bare, Unmapped, Tabled
<1>3. ASSUME NEW p \in Proc
      PROVE  /\ Own(p) \in Space /\ Other(p) \in Space /\ tgt[p] = Own(p) /\ tgt[p][1] = p
  BY <1>1 DEF Own, Other, Space
<1>4. ASSUME NEW p \in Proc PROVE ProcSlots(p)
  BY <1>1, <1>2, <1>3 DEF ProcSlots
<1>5. ASSUME NEW p \in Proc PROVE Target(p) /\ TargetSlots(p)
  BY <1>1, <1>2, <1>3 DEF Target, TargetSlots, Busy
<1>6. QED
  BY <1>2, <1>4, <1>5 DEF Struct

LEMMA KernelLayout == ASSUME IInv, Struct, NEW p \in Proc, Kernel(p) PROVE Struct'
<1>1. Fault(p) => Struct'
  BY FaultAllocLayout, FaultCopyLayout, FaultFreeLayout, FaultMapLayout DEF Fault
<1>2. Setup(p) => Struct'
  BY SetupPgdirLayout, SetupKpdeLayout DEF Setup
<1>3. Boot(p) => Struct'
  BY BootKstackLayout, BootUvmLayout, BootMapLayout DEF Boot
<1>4. Fork(p) => Struct'
  BY ForkKstackLayout, ForkCopyLayout, ForkMapLayout, ForkUnrefLayout, ForkFailLayout,
     ForkDoneLayout DEF Fork
<1>5. Dealloc(p) => Struct'
  BY DeallocStepLayout, DeallocClearLayout, DeallocDoneLayout, FreeTabLayout DEF Dealloc
<1>6. Alloc(p) => Struct'
  BY AllocPageLayout, AllocMapLayout, AllocFreeLayout, AllocDoneLayout, GrowDoneLayout DEF Alloc
<1>7. Exec(p) => Struct'
  BY ExecLoadLayout, ExecStackLayout, ExecBadLayout DEF Exec
<1>8. Reap(p) => Struct'
  BY WaitKstackLayout, WaitDoneLayout DEF Reap
<1>9. QED
  BY <1>1, <1>2, <1>3, <1>4, <1>5, <1>6, <1>7, <1>8 DEF Kernel

LEMMA UserLayout == ASSUME IInv, Struct, NEW p \in Proc, User(p) PROVE Struct'
<1>1. ASSUME NEW va \in Va, TlbFill(p, va) PROVE Struct'
  BY <1>1, StillLayout DEF TlbFill, mm
<1>2. Yield(p) => Struct'
  BY StillLayout DEF Yield, mm
<1>3. ASSUME NEW va \in Va, NEW v \in Val, UserWrite(p, va, v) PROVE Struct'
  BY <1>3, StillLayout DEF UserWrite
<1>4. QED
  BY <1>1, <1>2, <1>3, PageFaultLayout, ForkStartLayout, SbrkGrowLayout, SbrkShrinkLayout,
     SbrkAllLayout, ExecStartLayout, ExitLayout, WaitLayout DEF User

LEMMA NextStruct == IInv /\ Struct /\ [Next]_vars => Struct'
<1> SUFFICES ASSUME IInv, Struct, [Next]_vars PROVE Struct'
  OBVIOUS
<1>1. CASE UNCHANGED vars
  BY <1>1, StillLayout DEF vars, pt, kt, loc
<1>2. CASE Halted
  BY <1>1, <1>2 DEF Halted
<1>3. ASSUME NEW p \in Proc, Kernel(p) \/ User(p) PROVE Struct'
  BY <1>3, KernelLayout, UserLayout
<1>4. QED
  BY <1>1, <1>2, <1>3 DEF Next

\* Each label of each kernel path determines which slots may hold a page.
THEOREM LayoutInvariance == Spec => [](IInv /\ Struct)
<1>1. Init => IInv /\ Struct
  BY InitIInv, InitStruct
<1>2. IInv /\ Struct /\ [Next]_vars => (IInv /\ Struct)'
  BY NextIInv, NextStruct
<1>3. QED
  BY <1>1, <1>2, PTL DEF Spec

LEMMA SlotForms ==
  ASSUME NEW s \in Slot
  PROVE  \/ \E p \in Proc : s \in {KStack(p), Mem(p)} /\ s[2][1] = p
         \/ s[2] \in Space /\ s = PgDir(s[2])
         \/ s[2] \in Space /\ \E i \in Pde : s = PDE(s[2], i)
         \/ s[2] \in Space /\ \E va \in Va : s = PTE(s[2], va)
BY DEF Slot, KStack, Mem, PgDir, PDE, PTE

\* A bare space has no page at all.
LEMMA BareSpace ==
  ASSUME NEW s \in Slot, NEW t \in Space, Bare(t), s[2] = t,
         \A p \in Proc : s # KStack(p) /\ s # Mem(p)
  PROVE  ref[s] = None
BY SlotForms DEF Bare, Unmapped, Va

LEMMA StructNothingLeaks == IInv /\ Struct => NothingLeaks
<1> SUFFICES ASSUME IInv, Struct, NEW p \in Proc, NEW s \in Slot, s[2][1] = p
             PROVE  /\ state[p] = "UNUSED" => ref[s] = None
                    /\ pc[p] = "user" /\ s # KStack(p) /\ ref[s] # None
                         => s[2] = Own(p) /\ s # Mem(p)
  BY DEF NothingLeaks
<1>1. (\E q \in Proc : s \in {KStack(q), Mem(q)}) => s \in {KStack(p), Mem(p)}
  BY DEF KStack, Mem
<1>2. ~(\E q \in Proc : s \in {KStack(q), Mem(q)}) => s[2] \in {Own(p), Other(p)}
  BY SlotForms, TwoSpaces
<1>3. state[p] = "UNUSED" \/ pc[p] = "user" => ref[Mem(p)] = None /\ Bare(Other(p))
  BY Types DEF ThreadsApart, Struct, ProcSlots, OwnsMem, Busy
<1>4. state[p] = "UNUSED" => ref[KStack(p)] = None /\ Bare(Own(p))
  BY DEF Struct, ProcSlots
<1>5. state[p] = "UNUSED" => ref[s] = None
  BY <1>1, <1>2, <1>3, <1>4, TwoSpaces, BareSpace
<1>6. pc[p] = "user" /\ s # KStack(p) /\ ref[s] # None => s[2] = Own(p) /\ s # Mem(p)
  BY <1>1, <1>2, <1>3, TwoSpaces, BareSpace
<1>7. QED
  BY <1>5, <1>6

\* A slot that is UNUSED holds no page, and a process in user mode holds none
\* outside the space it runs on: every success and failure path of fork, exec,
\* sbrk, wait and the fault handler gives back what it took.
THEOREM NothingIsLost == Spec => []NothingLeaks
<1>1. IInv /\ Struct => NothingLeaks
  BY StructNothingLeaks
<1>2. QED
  BY <1>1, LayoutInvariance, PTL

-----------------------------------------------------------------------------
(* Reference counts of any function from slots to pages.                   *)

Places(e, pg) == {s \in Slot : e[s] = pg}
Counts(e, c, f) ==
  \A pg \in Page : /\ c[pg] = Cardinality(Places(e, pg))
                   /\ pg \in f <=> c[pg] = 0

LEMMA SlotsFinite == IsFiniteSet(Slot)
<1>1. IsFiniteSet(Proc) /\ IsFiniteSet(Va) /\ IsFiniteSet(KPde)
  BY FS_Interval, SizeAssumption DEF Proc, Va, KPde
<1>2. IsFiniteSet(UPde)
  <2>1. UPde \subseteq 0 .. NVa - 1
    <3>1. ASSUME NEW va \in Va PROVE PDX(va) \in 0 .. NVa - 1
      <4>1. PDX(va) \in Int /\ PDX(va) < NVa /\ PDX(va) >= 0
        BY Ints
      <4>2. QED
        BY <4>1, SizeAssumption
    <3>2. QED
      BY <3>1 DEF UPde
  <2>2. QED
    BY <1>1, <2>1, FS_Subset DEF Va
<1>3. IsFiniteSet(Pde)
  BY <1>1, <1>2, FS_Union DEF Pde
<1>4. \A x, y : IsFiniteSet({x}) /\ IsFiniteSet({x, y})
  <2>1. \A x : IsFiniteSet({x})
    BY FS_Singleton
  <2>2. ASSUME NEW x, NEW y PROVE IsFiniteSet({x, y})
    <3>1. {x, y} = {x} \cup {y}
      OBVIOUS
    <3>2. IsFiniteSet({x} \cup {y})
      BY <2>1, FS_Union
    <3>3. QED
      BY <3>1, <3>2
  <2>3. QED
    BY <2>1, <2>2
<1>5. IsFiniteSet(Space)
  BY <1>1, <1>4, FS_Product DEF Space
<1>6. /\ IsFiniteSet({0}) /\ IsFiniteSet({"kstack", "mem"}) /\ IsFiniteSet({"pgdir"})
      /\ IsFiniteSet({"pde"}) /\ IsFiniteSet({"pte"})
  BY <1>4
<1>7. \A A, B, C : IsFiniteSet(A) /\ IsFiniteSet(B) /\ IsFiniteSet(C) => IsFiniteSet(A \X B \X C)
  <2> SUFFICES ASSUME NEW A, NEW B, NEW C, IsFiniteSet(A), IsFiniteSet(B), IsFiniteSet(C)
               PROVE  IsFiniteSet(A \X B \X C)
    OBVIOUS
  <2> DEFINE h == [x \in (A \X B) \X C |-> <<x[1][1], x[1][2], x[2]>>]
  <2>1. IsFiniteSet((A \X B) \X C)
    BY FS_Product
  <2>2. h \in Surjection((A \X B) \X C, A \X B \X C)
    <3>1. h \in [(A \X B) \X C -> A \X B \X C]
      OBVIOUS
    <3>2. ASSUME NEW y \in A \X B \X C
          PROVE  \E x \in (A \X B) \X C : h[x] = y
      <4>1. <<<<y[1], y[2]>>, y[3]>> \in (A \X B) \X C
        OBVIOUS
      <4>2. h[<<<<y[1], y[2]>>, y[3]>>] = y
        BY <4>1
      <4>3. QED
        BY <4>1, <4>2
    <3>3. QED
      BY <3>1, <3>2 DEF Surjection
  <2>3. QED
    BY <2>1, <2>2, FS_Surjection
<1>8. IsFiniteSet(Proc \X {0})
  BY <1>1, <1>6, FS_Product
<1>9. /\ IsFiniteSet({"kstack", "mem"} \X (Proc \X {0}) \X {0})
      /\ IsFiniteSet({"pgdir"} \X Space \X {0})
      /\ IsFiniteSet({"pde"} \X Space \X Pde)
      /\ IsFiniteSet({"pte"} \X Space \X Va)
  BY <1>1, <1>3, <1>5, <1>6, <1>7, <1>8
<1>10. QED
  BY <1>9, FS_Union DEF Slot

LEMMA PlacesFinite ==
  ASSUME NEW e, NEW pg
  PROVE  /\ IsFiniteSet(Places(e, pg)) /\ Cardinality(Places(e, pg)) \in Nat
         /\ Cardinality(Places(e, pg)) = 0 <=> Places(e, pg) = {}
BY SlotsFinite, FS_Subset, FS_CardinalityType, FS_EmptySet DEF Places

\* kalloc: a free page is in no slot, and then in one.
LEMMA CountsAlloc ==
  ASSUME NEW e \in [Slot -> Page \cup {None}], NEW c \in [Page -> Nat], NEW f, Counts(e, c, f),
         NEW s \in Slot, e[s] = None, NEW pg \in Page, pg \in f
  PROVE  /\ \A t \in Slot : e[t] # pg
         /\ Counts([e EXCEPT ![s] = pg], [c EXCEPT ![pg] = 1], f \ {pg})
<1> DEFINE d == [e EXCEPT ![s] = pg]
<1>1. Places(e, pg) = {}
  BY PlacesFinite DEF Counts
<1>2. Places(d, pg) = {s}
  BY <1>1 DEF Places
<1>3. \A x \in Page \ {pg} : Places(d, x) = Places(e, x)
  BY PageAssumption DEF Places
<1>4. Cardinality({s}) = 1
  BY FS_Singleton
<1>5. QED
  BY <1>1, <1>2, <1>3, <1>4 DEF Counts, Places

\* incrementRefCount: one more place for a page that is not free.
LEMMA CountsInc ==
  ASSUME NEW e \in [Slot -> Page \cup {None}], NEW c \in [Page -> Nat], NEW f, Counts(e, c, f),
         NEW s \in Slot, e[s] = None, NEW pg \in Page, c[pg] > 0
  PROVE  Counts([e EXCEPT ![s] = pg], [c EXCEPT ![pg] = @ + 1], f)
<1> DEFINE d == [e EXCEPT ![s] = pg]
<1>1. Places(d, pg) = Places(e, pg) \cup {s} /\ s \notin Places(e, pg)
  BY PageAssumption DEF Places
<1>2. \A x \in Page \ {pg} : Places(d, x) = Places(e, x)
  BY PageAssumption DEF Places
<1>3. Cardinality(Places(d, pg)) = Cardinality(Places(e, pg)) + 1
  BY <1>1, PlacesFinite, FS_AddElement
<1>4. ASSUME NEW x \in Page, x # pg
      PROVE  LET k == [c EXCEPT ![pg] = @ + 1]
             IN  k[x] = Cardinality(Places(d, x)) /\ (x \in f <=> k[x] = 0)
  BY <1>2, <1>4 DEF Counts
<1>5. LET k == [c EXCEPT ![pg] = @ + 1]
      IN  k[pg] = Cardinality(Places(d, pg)) /\ (pg \in f <=> k[pg] = 0)
  BY <1>3 DEF Counts
<1>6. QED
  BY <1>4, <1>5 DEF Counts

\* kfree: one place less.
LEMMA CountsFree ==
  ASSUME NEW e \in [Slot -> Page \cup {None}], NEW c \in [Page -> Nat], NEW f, Counts(e, c, f),
         NEW s \in Slot, NEW pg \in Page, e[s] = pg
  PROVE  Counts([e EXCEPT ![s] = None], [c EXCEPT ![pg] = @ - 1],
                IF c[pg] = 1 THEN f \cup {pg} ELSE f)
<1> DEFINE d == [e EXCEPT ![s] = None]
<1>1. Places(d, pg) = Places(e, pg) \ {s} /\ s \in Places(e, pg)
  BY PageAssumption DEF Places
<1>2. \A x \in Page \ {pg} : Places(d, x) = Places(e, x)
  BY PageAssumption DEF Places
<1>3. Cardinality(Places(d, pg)) = Cardinality(Places(e, pg)) - 1
  BY <1>1, PlacesFinite, FS_RemoveElement
<1>4. c[pg] > 0 /\ c[pg] \in Nat
  BY <1>1, PlacesFinite DEF Counts
<1> DEFINE k == [c EXCEPT ![pg] = @ - 1]
           g == IF c[pg] = 1 THEN f \cup {pg} ELSE f
<1>5. ASSUME NEW x \in Page, x # pg
      PROVE  k[x] = Cardinality(Places(d, x)) /\ (x \in g <=> k[x] = 0)
  BY <1>2, <1>5 DEF Counts
<1>6. k[pg] = Cardinality(Places(d, pg)) /\ (pg \in g <=> k[pg] = 0)
  <2>1. k[pg] = c[pg] - 1 /\ c[pg] = Cardinality(Places(e, pg))
    BY DEF Counts
  <2>2. pg \notin f
    BY <1>4 DEF Counts
  <2>3. QED
    BY <1>3, <1>4, <2>1, <2>2
<1>7. Counts(d, k, g)
  BY <1>5, <1>6 DEF Counts
<1>8. QED
  BY <1>7

\* A page that moves from slot s to slot t is counted as before.
LEMMA CountsMove ==
  ASSUME NEW e \in [Slot -> Page \cup {None}], NEW c \in [Page -> Nat], NEW f, Counts(e, c, f),
         NEW s \in Slot, NEW t \in Slot, s # t, e[t] = None
  PROVE  Counts([e EXCEPT ![t] = e[s], ![s] = None], c, f)
<1> DEFINE d == [e EXCEPT ![t] = e[s], ![s] = None]
<1>1. \A x \in Page : x # e[s] => Places(d, x) = Places(e, x)
  BY PageAssumption DEF Places
<1>2. ASSUME NEW x \in Page, x = e[s] PROVE Cardinality(Places(d, x)) = Cardinality(Places(e, x))
  <2>1. /\ Places(d, x) = (Places(e, x) \ {s}) \cup {t}
        /\ s \in Places(e, x) /\ t \notin Places(e, x) \ {s}
    BY <1>2, PageAssumption DEF Places
  <2>2. IsFiniteSet(Places(e, x) \ {s}) /\ IsFiniteSet(Places(e, x))
    BY PlacesFinite, FS_RemoveElement
  <2>3. Cardinality(Places(e, x) \ {s}) = Cardinality(Places(e, x)) - 1
    BY <2>1, <2>2, FS_RemoveElement
  <2>4. Cardinality(Places(d, x)) = Cardinality(Places(e, x) \ {s}) + 1
    BY <2>1, <2>2, FS_AddElement
  <2>5. QED
    BY <2>3, <2>4, PlacesFinite
<1>3. QED
  BY <1>1, <1>2 DEF Counts

-----------------------------------------------------------------------------
(* Slots that are the only ones to name their page.                        *)

Sole(e, x) == \A s \in x : e[s] # None => \A t \in Slot : e[t] = e[s] => t = s

\* A new page is in one slot.
LEMMA SoleAlloc ==
  ASSUME NEW e \in [Slot -> Page \cup {None}], NEW x, x \subseteq Slot, Sole(e, x),
         NEW s \in Slot, NEW pg \in Page, \A t \in Slot : e[t] # pg,
         NEW y, y \subseteq x \cup {s}
  PROVE  Sole([e EXCEPT ![s] = pg], y)
BY PageAssumption DEF Sole

LEMMA SoleFree ==
  ASSUME NEW e \in [Slot -> Page \cup {None}], NEW x, x \subseteq Slot, Sole(e, x),
         NEW s \in Slot, NEW y, y \subseteq x
  PROVE  Sole([e EXCEPT ![s] = None], y)
BY DEF Sole

\* A page that moves keeps being alone.
LEMMA SoleMove ==
  ASSUME NEW e \in [Slot -> Page \cup {None}], NEW x, x \subseteq Slot, Sole(e, x),
         NEW s \in Slot, NEW t \in Slot, s # t,
         NEW y, y \subseteq x \cup {t}, t \in y => s \in x,
         NEW d, d[s] = None, d[t] = e[s], \A u \in Slot : u # s /\ u # t => d[u] = e[u]
  PROVE  Sole(d, y)
<1>1. y \subseteq Slot
  OBVIOUS
<1>2. ASSUME NEW v \in y, d[v] # None, NEW u \in Slot, d[u] = d[v] PROVE u = v
  <2>1. v # s /\ u # s
    BY <1>1, <1>2
  <2>2. CASE v = t
    BY <1>1, <1>2, <2>1, <2>2 DEF Sole
  <2>3. CASE v # t /\ u = t
    <3>1. e[v] = e[s] /\ v \in x
      BY <1>1, <1>2, <2>1, <2>3
    <3>2. QED
      BY <1>1, <1>2, <2>1, <2>3, <3>1 DEF Sole
  <2>4. CASE v # t /\ u # t
    BY <1>1, <1>2, <2>1, <2>4 DEF Sole
  <2>5. QED
    BY <2>2, <2>3, <2>4
<1>3. QED
  BY <1>2 DEF Sole

\* A page that is shared is alone in neither place.
LEMMA SoleShare ==
  ASSUME NEW e \in [Slot -> Page \cup {None}], NEW x, x \subseteq Slot, Sole(e, x),
         NEW s \in Slot, NEW t \in Slot, s # t,
         NEW y, y \subseteq x \ {s, t}
  PROVE  Sole([e EXCEPT ![t] = e[s]], y)
BY DEF Sole

-----------------------------------------------------------------------------
(* The inductive invariant.                                                *)

Dangles(q) == pc[q] \in {"dv_clear", "pf_map"}
Hole(q) == PTE(tgt[q], cur[q])

\* The references that count: an entry about to be rewritten names no page.
Eff == [s \in Slot |-> IF s \in Dangling THEN None ELSE ref[s]]

\* The slots whose page may be stored to, or is about to become a page that may.
FreshPcs == {"pf_copy", "pf_free", "pf_map", "a_map", "b_map"}
Alone(pm, l) == {PTE(x[1], x[2]) : x \in {y \in Space \X Va : "W" \in pm[y[1]][y[2]]}}
                \cup {Mem(p) : p \in {q \in Proc : l[q] \in FreshPcs}}
Exclusive == Alone(perm, pc)

\* The page that copyuvm is about to map in the child is no longer writable.
Shared(p) == pc[p] = "f_map" => "W" \notin perm[Own(p)][cur[p]]

CInv == /\ Counts(Eff, rc, freelist)
        /\ Sole(Eff, Exclusive)
        /\ \A p \in Proc : Shared(p)

\* Membership of Exclusive, one slot at a time.
LEMMA AloneIff ==
  ASSUME NEW pm, NEW l
  PROVE  /\ \A s \in Space, va \in Va : PTE(s, va) \in Alone(pm, l) <=> "W" \in pm[s][va]
         /\ \A p \in Proc : Mem(p) \in Alone(pm, l) <=> l[p] \in FreshPcs
         /\ \A t \in Alone(pm, l) : \/ \E s \in Space, va \in Va : t = PTE(s, va)
                                    \/ \E p \in Proc : t = Mem(p)
         /\ Alone(pm, l) \subseteq Slot
<1> DEFINE W == {y \in Space \X Va : "W" \in pm[y[1]][y[2]]}
<1>1. ASSUME NEW s \in Space, NEW va \in Va, PTE(s, va) \in Alone(pm, l)
      PROVE  "W" \in pm[s][va]
  <2>1. \A p \in Proc : PTE(s, va) # Mem(p)
    BY Slots, Ints
  <2>2. PICK x \in W : PTE(s, va) = PTE(x[1], x[2])
    BY <1>1, <2>1 DEF Alone
  <2>3. x[1] \in Space /\ x[2] \in Int /\ va \in Int /\ "W" \in pm[x[1]][x[2]]
    BY Ints
  <2>4. x[1] = s /\ x[2] = va
    BY <2>2, <2>3, Slots
  <2>5. QED
    BY <2>3, <2>4
<1>2. ASSUME NEW s \in Space, NEW va \in Va, "W" \in pm[s][va]
      PROVE  PTE(s, va) \in Alone(pm, l)
  <2>1. <<s, va>> \in W
    BY <1>2
  <2>2. QED
    BY <2>1 DEF Alone
<1>3. ASSUME NEW p \in Proc PROVE Mem(p) \in Alone(pm, l) <=> l[p] \in FreshPcs
  <2>1. ASSUME NEW x \in W PROVE Mem(p) # PTE(x[1], x[2])
    <3>1. x[1] \in Space /\ x[2] \in Int
      BY Ints
    <3>2. QED
      BY <3>1, Slots
  <2>2. QED
    BY <2>1, Slots DEF Alone
<1>4. ASSUME NEW t \in Alone(pm, l)
      PROVE  \/ \E s \in Space, va \in Va : t = PTE(s, va)
             \/ \E p \in Proc : t = Mem(p)
  BY DEF Alone
<1>5. Alone(pm, l) \subseteq Slot
  BY <1>4, SlotIn
<1>6. QED
  BY <1>1, <1>2, <1>3, <1>4, <1>5

LEMMA EffType == ASSUME IInv PROVE Eff \in [Slot -> Page \cup {None}] /\ rc \in [Page -> Nat]
                                   /\ Exclusive \subseteq Slot
BY Types, AloneIff DEF MemOK, Eff, Exclusive

LEMMA CountsRefs == ASSUME IInv, CInv PROVE RefCounted /\ WritableIsExclusive
<1>1. \A pg \in Page : Places(Eff, pg) = Refs(pg)
  BY PageAssumption DEF Places, Refs, Eff
<1>2. RefCounted
  BY <1>1 DEF CInv, Counts, RefCounted
<1>3. ASSUME NEW s \in Space, NEW va \in Va, PTE(s, va) \notin Dangling,
             ref[PTE(s, va)] # None, "W" \in perm[s][va]
      PROVE  Refs(ref[PTE(s, va)]) = {PTE(s, va)}
  <2>1. PTE(s, va) \in Slot /\ PTE(s, va) \in Exclusive
    BY <1>3, SlotIn, AloneIff DEF Exclusive
  <2>2. ref[PTE(s, va)] \in Page /\ Eff[PTE(s, va)] = ref[PTE(s, va)]
    BY <1>3, <2>1, Types DEF MemOK, Eff
  <2>3. \A t \in Slot : Eff[t] = Eff[PTE(s, va)] => t = PTE(s, va)
    BY <1>3, <2>1, <2>2 DEF CInv, Sole
  <2>4. Places(Eff, ref[PTE(s, va)]) = {PTE(s, va)}
    BY <2>1, <2>2, <2>3 DEF Places
  <2>5. QED
    BY <1>1, <2>2, <2>4
<1>4. QED
  BY <1>2, <1>3 DEF WritableIsExclusive


-----------------------------------------------------------------------------
(* What a step of one thread does to the references that count.            *)

\* The other threads stay where they are; fork sets one going.
Elsewhere(p) ==
  \A q \in Proc \ {p} : \/ pc'[q] = pc[q] /\ tgt'[q] = tgt[q] /\ cur'[q] = cur[q]
                        \/ pc[q] = "idle" /\ pc'[q] = "user"

LEMMA DanglingIff ==
  /\ \A t : t \in Dangling <=> \E q \in Proc : Dangles(q) /\ t = Hole(q)
  /\ \A t : t \in Dangling' <=> \E q \in Proc : Dangles(q)' /\ t = Hole(q)'
BY DEF Dangling, Dangles, Hole

\* An entry that another thread is about to rewrite is not p's to change.
LEMMA HoleApart ==
  ASSUME IInv, NEW p \in Proc, Busy(p), NEW q \in Proc \ {p}, Dangles(q)
  PROVE  ~OwnSlot(p, Hole(q))
<1>1. Busy(q)
  BY DEF Dangles, Busy
<1>2. /\ tgt[q] \in Space /\ cur[q] \in Nat /\ tgt[q][1] # tgt[p][1]
      /\ tgt[p] \in Space /\ tgt[p][1] \in Proc
  BY <1>1, Apart, Types
<1>3. /\ Hole(q) # Mem(p) /\ Hole(q) # KStack(tgt[p][1]) /\ Hole(q) # PgDir(tgt[p])
      /\ \A a \in Nat : Hole(q) # PTE(tgt[p], a) /\ Hole(q) # PDE(tgt[p], a)
  BY <1>2, Slots DEF Hole
<1>4. QED
  BY <1>3 DEF OwnSlot

LEMMA ElsewhereHoles ==
  ASSUME NEW p \in Proc, Elsewhere(p), NEW q \in Proc \ {p}
  PROVE  (Dangles(q) <=> Dangles(q)') /\ (Dangles(q) => Hole(q)' = Hole(q))
BY DEF Elsewhere, Dangles, Hole

LEMMA EffLocal ==
  ASSUME IInv, NEW p \in Proc, Busy(p), Elsewhere(p), RefLocal(p),
         Dangles(p)' => tgt'[p] = tgt[p] /\ cur'[p] \in Nat
  PROVE  \A t \in Slot :
           /\ OwnSlot(p, t) =>
                /\ Eff[t] = IF Dangles(p) /\ t = Hole(p) THEN None ELSE ref[t]
                /\ Eff'[t] = IF Dangles(p)' /\ t = Hole(p)' THEN None ELSE ref'[t]
           /\ ~OwnSlot(p, t) => Eff'[t] = Eff[t]
<1>1. Dangles(p) => OwnSlot(p, Hole(p))
  BY Types DEF OwnSlot, Hole
<1>2. Dangles(p)' => OwnSlot(p, Hole(p)')
  <2>1. Dangles(p)' => Hole(p)' = PTE(tgt[p], cur'[p])
    BY DEF Hole
  <2>2. QED
    BY <2>1 DEF OwnSlot
<1>3. ASSUME NEW q \in Proc \ {p}
      PROVE  /\ Dangles(q) <=> Dangles(q)'
             /\ Dangles(q) => Hole(q)' = Hole(q) /\ ~OwnSlot(p, Hole(q))
  BY ElsewhereHoles, HoleApart
<1>4. ASSUME NEW t \in Slot, OwnSlot(p, t)
      PROVE  /\ t \in Dangling <=> Dangles(p) /\ t = Hole(p)
             /\ t \in Dangling' <=> Dangles(p)' /\ t = Hole(p)'
  BY <1>3, <1>4, DanglingIff
<1>5. ASSUME NEW t \in Slot, ~OwnSlot(p, t)
      PROVE  t \in Dangling <=> t \in Dangling'
  BY <1>1, <1>2, <1>3, <1>5, DanglingIff
<1>6. \A t \in Slot : /\ Eff[t] = IF t \in Dangling THEN None ELSE ref[t]
                      /\ Eff'[t] = IF t \in Dangling' THEN None ELSE ref'[t]
  BY DEF Eff
<1>7. QED
  BY <1>4, <1>5, <1>6 DEF RefLocal

\* The same when no reference changes.
LEMMA EffSame ==
  ASSUME NEW p \in Proc, Elsewhere(p), UNCHANGED ref, Dangles(p) <=> Dangles(p)',
         Dangles(p) => Hole(p)' = Hole(p)
  PROVE  Eff' = Eff
<1>1. \A q \in Proc : (Dangles(q) <=> Dangles(q)') /\ (Dangles(q) => Hole(q)' = Hole(q))
  BY ElsewhereHoles
<1>2. \A t : t \in Dangling <=> t \in Dangling'
  BY <1>1, DanglingIff
<1>3. QED
  BY <1>2 DEF Eff

-----------------------------------------------------------------------------
(* The other threads' shared pages, and the pages that are alone.          *)

\* p changes the flags and sides of the two processes it may work on only.
FlagsLocal(p) ==
  \A s \in Space : s[1] # p /\ s[1] # tgt[p][1] => perm'[s] = perm[s]
SidesLocal(p) ==
  \A q \in Proc : q # p /\ q # tgt[p][1] => side'[q] = side[q]

LEMMA SharedKept ==
  ASSUME IInv, CInv, NEW p \in Proc, Elsewhere(p),
         Busy(p) => FlagsLocal(p) /\ SidesLocal(p),
         ~Busy(p) => UNCHANGED <<perm, side>>,
         pc'[p] = "f_map" => Shared(p)'
  PROVE  \A q \in Proc : Shared(q)'
<1>1. ASSUME NEW q \in Proc \ {p}, pc'[q] = "f_map" PROVE Shared(q)'
  <2>1. /\ pc[q] = "f_map" /\ tgt'[q] = tgt[q] /\ cur'[q] = cur[q] /\ Busy(q)
        /\ Own(q) \in Space /\ Own(q)[1] = q
    BY <1>1, OwnIn, Types DEF Elsewhere, Busy
  <2>2. Busy(p) => q # tgt[p][1]
    BY <2>1, Apart
  <2>3. side'[q] = side[q] /\ perm'[Own(q)] = perm[Own(q)]
    BY <2>1, <2>2 DEF FlagsLocal, SidesLocal
  <2>4. Own(q)' = Own(q)
    BY <2>3 DEF Own
  <2>5. "W" \notin perm[Own(q)][cur[q]]
    BY <2>1 DEF CInv, Shared
  <2>6. QED
    BY <2>1, <2>3, <2>4, <2>5 DEF Shared
<1>2. QED
  BY <1>1 DEF Shared

\* Which slots are alone after the step.
LEMMA ExclusiveStep ==
  ASSUME NEW p \in Proc, Elsewhere(p), NEW x,
         \A s \in Space, va \in Va :
           "W" \in perm'[s][va] => "W" \in perm[s][va] \/ PTE(s, va) \in x,
         pc'[p] \in FreshPcs => pc[p] \in FreshPcs \/ Mem(p) \in x
  PROVE  Exclusive' \subseteq Exclusive \cup x
<1>1. Exclusive = Alone(perm, pc) /\ Exclusive' = Alone(perm', pc')
  BY DEF Exclusive, Alone
<1>2. ASSUME NEW s \in Space, NEW va \in Va, PTE(s, va) \in Exclusive'
      PROVE  PTE(s, va) \in Exclusive \cup x
  BY <1>1, <1>2, AloneIff
<1>3. ASSUME NEW q \in Proc, Mem(q) \in Exclusive' PROVE Mem(q) \in Exclusive \cup x
  BY <1>1, <1>3, AloneIff DEF Elsewhere, FreshPcs
<1>4. QED
  BY <1>1, <1>2, <1>3, AloneIff

LEMMA CInvAfter ==
  ASSUME Counts(Eff', rc', freelist'), Sole(Eff', Exclusive'), \A q \in Proc : Shared(q)'
  PROVE  CInv'
BY DEF CInv, Counts, Sole


-----------------------------------------------------------------------------
(* The five things a step may do to references.                            *)

\* Nothing: the thread goes on, and may take PTE_W from entries.
LEMMA StillCounts ==
  ASSUME IInv, CInv, NEW p \in Proc, Elsewhere(p), UNCHANGED <<freelist, rc, ref>>,
         Dangles(p) <=> Dangles(p)', Dangles(p) => Hole(p)' = Hole(p),
         Busy(p) => FlagsLocal(p) /\ SidesLocal(p), ~Busy(p) => UNCHANGED <<perm, side>>,
         \A s \in Space, va \in Va : "W" \in perm'[s][va] => "W" \in perm[s][va],
         pc'[p] \in FreshPcs => pc[p] \in FreshPcs, pc'[p] # "f_map"
  PROVE  CInv'
<1>1. Eff' = Eff
  BY EffSame
<1>2. Exclusive' \subseteq Exclusive \cup {}
  BY ExclusiveStep
<1>3. Sole(Eff', Exclusive')
  BY <1>1, <1>2 DEF CInv, Sole
<1>4. \A q \in Proc : Shared(q)'
  BY SharedKept
<1>5. QED
  BY <1>1, <1>3, <1>4, CInvAfter DEF CInv

\* The same when no flag changes.
LEMMA CalmCounts ==
  ASSUME IInv, CInv, NEW p \in Proc, Elsewhere(p), UNCHANGED <<freelist, rc, ref, perm>>,
         (Busy(p) /\ SidesLocal(p)) \/ UNCHANGED side,
         Dangles(p) <=> Dangles(p)', Dangles(p) => Hole(p)' = Hole(p),
         pc'[p] \in FreshPcs => pc[p] \in FreshPcs, pc'[p] # "f_map"
  PROVE  CInv'
BY StillCounts DEF FlagsLocal, SidesLocal

\* A slot of p's own gets a new page.
LEMMA AllocCounts ==
  ASSUME IInv, CInv, NEW p \in Proc, Busy(p), Elsewhere(p), UNCHANGED <<perm, side>>,
         NEW pg \in freelist, Kalloc(pg), NEW s \in Slot, OwnSlot(p, s), ref[s] = None,
         ref' = [ref EXCEPT ![s] = pg], ~Dangles(p), ~Dangles(p)',
         pc'[p] \in FreshPcs => pc[p] \in FreshPcs \/ s = Mem(p), pc'[p] # "f_map"
  PROVE  CInv'
<1>1. pg \in Page /\ Eff \in [Slot -> Page \cup {None}] /\ rc \in [Page -> Nat]
      /\ Exclusive \subseteq Slot /\ RefLocal(p)
  BY EffType, Types, RefOne DEF MemOK
<1>2. /\ Eff[s] = None
      /\ \A t \in Slot : t # s => Eff'[t] = Eff[t]
      /\ Eff'[s] = pg
  BY <1>1, EffLocal, Types DEF MemOK
<1>3. Eff' = [Eff EXCEPT ![s] = pg]
  BY <1>1, <1>2 DEF Eff
<1>4. Counts(Eff', rc', freelist') /\ \A t \in Slot : Eff[t] # pg
  <2>1. Counts(Eff, rc, freelist)
    BY DEF CInv
  <2>2. /\ \A t \in Slot : Eff[t] # pg
        /\ Counts([Eff EXCEPT ![s] = pg], [rc EXCEPT ![pg] = 1], freelist \ {pg})
    <3>1. Eff[s] = None /\ pg \in Page /\ pg \in freelist
      BY <1>1, <1>2
    <3> HIDE DEF Eff
    <3>2. QED
      BY <1>1, <2>1, <3>1, CountsAlloc
  <2>3. rc' = [rc EXCEPT ![pg] = 1] /\ freelist' = freelist \ {pg}
    BY DEF Kalloc
  <2>4. QED
    BY <1>3, <2>2, <2>3
<1>5. Exclusive' \subseteq Exclusive \cup {s}
  BY ExclusiveStep
<1>6. Sole(Eff', Exclusive')
  BY <1>1, <1>3, <1>4, <1>5, SoleAlloc DEF CInv
<1>7. QED
  BY <1>4, <1>6, SharedKept, CInvAfter DEF FlagsLocal, SidesLocal

\* A slot of p's own gives its page up, to be cleared now or by p's next step.
LEMMA FreeCounts ==
  ASSUME IInv, CInv, NEW p \in Proc, Busy(p), Elsewhere(p), UNCHANGED perm,
         SidesLocal(p),
         NEW s \in Slot, OwnSlot(p, s), NEW drop \in BOOLEAN, KfreeSlot(s, drop), ~Dangles(p),
         drop <=> ~Dangles(p)', ~drop => s = PTE(tgt[p], cur[p]) /\ UNCHANGED <<tgt, cur>>,
         pc'[p] \in FreshPcs => pc[p] \in FreshPcs, pc'[p] # "f_map"
  PROVE  CInv'
<1> DEFINE pg == ref[s]
<1>1. pg \in Page /\ Eff \in [Slot -> Page \cup {None}] /\ rc \in [Page -> Nat]
      /\ Exclusive \subseteq Slot /\ ref \in [Slot -> Page \cup {None}]
  BY EffType, Types DEF MemOK, KfreeSlot, Kfreeable
<1>2. RefLocal(p) /\ ref' = IF drop THEN [ref EXCEPT ![s] = None] ELSE ref
  BY <1>1 DEF KfreeSlot, RefLocal
<1>3. \A t \in Slot :
           /\ OwnSlot(p, t) =>
                /\ Eff[t] = ref[t]
                /\ Eff'[t] = IF Dangles(p)' /\ t = Hole(p)' THEN None ELSE ref'[t]
           /\ ~OwnSlot(p, t) => Eff'[t] = Eff[t]
  BY <1>2, EffLocal, Types
<1>4. ~drop => Hole(p)' = s
  BY DEF Hole
<1>5. Eff[s] = pg /\ Eff'[s] = None /\ \A t \in Slot : t # s => Eff'[t] = Eff[t]
  BY <1>1, <1>2, <1>3, <1>4
<1>6. Eff' = [Eff EXCEPT ![s] = None]
  BY <1>1, <1>5 DEF Eff
<1>7. rc' = [rc EXCEPT ![pg] = @ - 1]
      /\ freelist' = IF rc[pg] = 1 THEN freelist \cup {pg} ELSE freelist
  BY DEF KfreeSlot, Kfree
<1>8. Counts(Eff', rc', freelist')
  <2>1. Counts(Eff, rc, freelist)
    BY DEF CInv
  <2>2. Counts([Eff EXCEPT ![s] = None], [rc EXCEPT ![pg] = @ - 1],
               IF rc[pg] = 1 THEN freelist \cup {pg} ELSE freelist)
    BY <1>1, <1>5, <2>1, CountsFree
  <2>3. QED
    BY <1>6, <1>7, <2>2
<1>9. Exclusive' \subseteq Exclusive \cup {}
  BY ExclusiveStep
<1>10. Sole(Eff', Exclusive')
  BY <1>1, <1>6, <1>9, SoleFree DEF CInv
<1>11. QED
  BY <1>8, <1>10, SharedKept, CInvAfter DEF FlagsLocal

\* The page in Mem(p) moves to an entry of p's own, which named none that counts.
LEMMA MoveCounts ==
  ASSUME IInv, CInv, NEW p \in Proc, Busy(p), Elsewhere(p), FlagsLocal(p), UNCHANGED side,
         UNCHANGED <<freelist, rc>>, NEW va \in Va, ref[PTE(tgt[p], va)] = None \/ Dangles(p),
         Dangles(p) => Hole(p) = PTE(tgt[p], va), ~Dangles(p)',
         ref'[PTE(tgt[p], va)] = ref[Mem(p)], ref'[Mem(p)] = None,
         \A v \in Slot : v # Mem(p) /\ v # PTE(tgt[p], va) => ref'[v] = ref[v],
         \A u \in Space, b \in Va : u # tgt[p] \/ b # va => perm'[u][b] = perm[u][b],
         "W" \in perm'[tgt[p]][va] => pc[p] \in FreshPcs, pc'[p] \notin FreshPcs, pc'[p] # "f_map"
  PROVE  CInv'
<1> DEFINE s == Mem(p)
           t == PTE(tgt[p], va)
<1>1. /\ Eff \in [Slot -> Page \cup {None}] /\ rc \in [Page -> Nat]
      /\ Exclusive \subseteq Slot /\ ref \in [Slot -> Page \cup {None}]
      /\ s \in Slot /\ t \in Slot /\ s # t /\ tgt[p] \in Space /\ OwnSlot(p, s) /\ OwnSlot(p, t)
  BY EffType, Types, SlotIn, Slots, Ints, SizeAssumption DEF MemOK, OwnSlot, Va
<1>2. ref'[t] = ref[s] /\ ref'[s] = None /\ \A u \in Slot : u # s /\ u # t => ref'[u] = ref[u]
  OBVIOUS
<1>3. RefLocal(p)
  BY <1>1, <1>2 DEF RefLocal
<1>4. Eff[s] = ref[s] /\ Eff'[t] = ref[s] /\ Eff'[s] = None /\ Eff[t] = None
  BY <1>1, <1>2, <1>3, EffLocal
<1>5. \A u \in Slot : u # s /\ u # t => Eff'[u] = Eff[u]
  BY <1>1, <1>2, <1>3, EffLocal
<1>6. Eff' = [Eff EXCEPT ![t] = Eff[s], ![s] = None]
  BY <1>1, <1>4, <1>5 DEF Eff
<1>7. Counts(Eff', rc', freelist')
  BY <1>1, <1>4, <1>6, CountsMove DEF CInv
<1>9. \A u \in Space, b \in Va : "W" \in perm'[u][b] => "W" \in perm[u][b] \/ PTE(u, b) \in {t}
  BY <1>1
<1>10. Exclusive' \subseteq Exclusive \cup {t}
  BY <1>9, ExclusiveStep
<1>11. t \in Exclusive' => s \in Exclusive
  <2>1. Exclusive = Alone(perm, pc) /\ Exclusive' = Alone(perm', pc')
    BY DEF Exclusive, Alone
  <2>2. t \in Exclusive' => "W" \in perm'[tgt[p]][va]
    BY <1>1, <2>1, AloneIff
  <2>3. QED
    BY <2>1, <2>2, AloneIff
<1>12. Sole(Eff', Exclusive')
  <2>1. Sole(Eff, Exclusive)
    BY DEF CInv
  <2>2. Eff'[s] = None /\ Eff'[t] = Eff[s]
    BY <1>4
  <2> HIDE DEF s, t
  <2>3. QED
    BY <1>1, <1>5, <1>10, <1>11, <2>1, <2>2, SoleMove
<1>13. QED
  BY <1>7, <1>12, SharedKept, CInvAfter DEF SidesLocal

\* mappages: the page moves, and the page table may be new.
LEMMA MapCounts ==
  ASSUME IInv, CInv, NEW p \in Proc, Busy(p), Elsewhere(p), UNCHANGED side,
         NEW va \in Va, NEW fl, Mappages(p, tgt[p], va, fl), ~Dangles(p), ~Dangles(p)',
         "W" \in fl => pc[p] \in FreshPcs, pc'[p] \notin FreshPcs, pc'[p] # "f_map"
  PROVE  CInv'
<1> DEFINE s == Mem(p)
           t == PTE(tgt[p], va)
           u == PDE(tgt[p], PDX(va))
<1>1. /\ Eff \in [Slot -> Page \cup {None}] /\ rc \in [Page -> Nat]
      /\ Exclusive \subseteq Slot /\ ref \in [Slot -> Page \cup {None}] /\ tgt[p] \in Space
      /\ perm \in [Space -> [Va -> SUBSET {"W", "U", "COW"}]]
      /\ freelist \subseteq Page
  BY EffType, Types DEF MemOK
<1>2. /\ va \in Nat /\ PDX(va) \in Nat /\ PDX(va) \in Pde
  <2>1. va \in Nat
    BY SizeAssumption DEF Va
  <2>2. PDX(va) \in Int /\ PDX(va) >= 0 /\ PDX(va) \in Pde
    BY Ints
  <2>3. QED
    BY <2>1, <2>2
<1>3. s \in Slot /\ t \in Slot /\ u \in Slot /\ s # t /\ s # u /\ t # u
      /\ OwnSlot(p, s) /\ OwnSlot(p, t) /\ OwnSlot(p, u)
  BY <1>1, <1>2, SlotIn, Slots DEF OwnSlot
<1>4. FlagsLocal(p)
  BY <1>1 DEF Mappages, FlagsLocal
<1>5. CASE /\ ref' = [ref EXCEPT ![t] = ref[s], ![s] = None]
           /\ UNCHANGED <<freelist, rc>>
  <2>1. ref[t] = None /\ perm' = [perm EXCEPT ![tgt[p]][va] = fl]
    BY DEF Mappages
  <2>2. /\ ref'[t] = ref[s] /\ ref'[s] = None
        /\ \A v \in Slot : v # s /\ v # t => ref'[v] = ref[v]
    BY <1>1, <1>3, <1>5
  <2>3. /\ \A x \in Space, b \in Va : x # tgt[p] \/ b # va => perm'[x][b] = perm[x][b]
        /\ perm'[tgt[p]][va] = fl
    BY <1>1, <2>1
  <2>4. UNCHANGED <<freelist, rc>>
    BY <1>5
  <2>5. QED
    BY <1>4, <2>1, <2>2, <2>3, <2>4, MoveCounts
<1>6. ASSUME NEW pg \in freelist, Kalloc(pg), ref[u] = None,
             ref' = [ref EXCEPT ![t] = ref[s], ![s] = None, ![u] = pg]
      PROVE  CInv'
  <2>1. ref[t] = None /\ perm' = [perm EXCEPT ![tgt[p]][va] = fl]
    BY DEF Mappages
  <2>2. /\ ref'[t] = ref[s] /\ ref'[s] = None /\ ref'[u] = pg
        /\ \A v \in Slot : v # s /\ v # t /\ v # u => ref'[v] = ref[v]
    BY <1>1, <1>3, <1>6
  <2>3. RefLocal(p)
    BY <1>3, <2>2 DEF RefLocal
  <2>4. /\ Eff[s] = ref[s] /\ Eff[t] = None /\ Eff[u] = None
        /\ Eff'[t] = ref[s] /\ Eff'[s] = None /\ Eff'[u] = pg
    BY <1>3, <1>6, <2>1, <2>2, <2>3, EffLocal
  <2>5. \A v \in Slot : v # s /\ v # t /\ v # u => Eff'[v] = Eff[v]
    BY <2>2, <2>3, EffLocal
  <2> DEFINE E == [Eff EXCEPT ![t] = Eff[s], ![s] = None]
  <2>6. /\ E \in [Slot -> Page \cup {None}] /\ E[u] = None
        /\ E[s] = None /\ E[t] = Eff[s] /\ \A v \in Slot : v # s /\ v # t => E[v] = Eff[v]
    BY <1>1, <1>3, <2>4
  <2>7. Eff' = [E EXCEPT ![u] = pg]
    <3>1. \A v \in Slot : Eff'[v] = [E EXCEPT ![u] = pg][v]
      BY <1>3, <2>4, <2>5, <2>6
    <3>2. Eff' = [v \in Slot |-> Eff'[v]]
      BY DEF Eff
    <3>3. [E EXCEPT ![u] = pg] = [v \in Slot |-> [E EXCEPT ![u] = pg][v]]
      BY <2>6
    <3>4. QED
      BY <3>1, <3>2, <3>3
  <2>8. Counts(E, rc, freelist)
    BY <1>1, <1>3, <2>4, CountsMove DEF CInv
  <2>9. pg \in Page /\ pg \in freelist
    BY <1>1
  <2>10. /\ \A v \in Slot : E[v] # pg
         /\ Counts([E EXCEPT ![u] = pg], [rc EXCEPT ![pg] = 1], freelist \ {pg})
    <3> HIDE DEF E, u
    <3>1. QED
      BY <1>1, <1>3, <2>6, <2>8, <2>9, CountsAlloc
  <2>11. Counts(Eff', rc', freelist')
    <3>1. rc' = [rc EXCEPT ![pg] = 1] /\ freelist' = freelist \ {pg}
      BY <1>6 DEF Kalloc
    <3>2. QED
      BY <2>7, <2>10, <3>1
  <2>12. Exclusive' \subseteq Exclusive \cup {t} /\ Exclusive' \subseteq Slot
    <3>1. \A x \in Space, b \in Va : "W" \in perm'[x][b] => "W" \in perm[x][b] \/ PTE(x, b) \in {t}
      BY <1>1, <2>1
    <3>2. Exclusive' \subseteq Exclusive \cup {t}
      BY <3>1, ExclusiveStep
    <3>3. QED
      BY <1>1, <1>3, <3>2
  <2>13. t \in Exclusive' => s \in Exclusive
    <3>1. Exclusive = Alone(perm, pc) /\ Exclusive' = Alone(perm', pc')
      BY DEF Exclusive, Alone
    <3>2. t \in Exclusive' => "W" \in perm'[tgt[p]][va]
      BY <1>1, <3>1, AloneIff
    <3>3. perm'[tgt[p]][va] = fl
      BY <1>1, <2>1
    <3>4. QED
      BY <3>1, <3>2, <3>3, AloneIff
  <2>14. Sole(E, Exclusive')
    <3>1. Sole(Eff, Exclusive)
      BY DEF CInv
    <3> HIDE DEF s, t, E
    <3>2. QED
      BY <1>1, <1>3, <2>6, <2>12, <2>13, <3>1, SoleMove
  <2>15. Sole(Eff', Exclusive')
    <3> DEFINE y == Exclusive'
    <3>1. y \subseteq Slot /\ y \subseteq y \cup {u} /\ Sole(E, y)
      BY <2>12, <2>14
    <3>2. Sole([E EXCEPT ![u] = pg], y)
      <4> HIDE DEF E, u, y
      <4>1. QED
        BY <1>3, <2>6, <2>9, <2>10, <3>1, SoleAlloc
    <3>3. QED
      BY <2>7, <3>2
  <2>16. QED
    BY <1>4, <2>11, <2>15, SharedKept, CInvAfter DEF SidesLocal
<1>7. QED
  BY <1>5, <1>6 DEF Mappages

-----------------------------------------------------------------------------
(* Panics, and the page fault handler.                                     *)

LEMMA QuietCounts ==
  ASSUME IInv, CInv, UNCHANGED <<freelist, rc, ref, perm, side, pc, tgt, cur>>
  PROVE  CInv'
<1>1. 0 \in Proc
  BY SizeAssumption DEF Proc
<1>2. Elsewhere(0) /\ (Dangles(0) <=> Dangles(0)') /\ Hole(0)' = Hole(0)
  BY DEF Elsewhere, Dangles, Hole
<1>3. Eff' = Eff
  BY <1>1, <1>2, EffSame
<1>4. Exclusive' = Exclusive
  BY DEF Exclusive, Alone
<1>5. \A q \in Proc : Shared(q)'
  BY DEF CInv, Shared, Own
<1>6. QED
  BY <1>3, <1>4, <1>5, CInvAfter DEF CInv

LEMMA PanicCounts == ASSUME IInv, CInv, NEW m, Panic(m) PROVE CInv'
BY QuietCounts DEF Panic, mm, pt, kt, loc
LEMMA KfreePanicCounts == ASSUME IInv, CInv, NEW s, KfreePanic(s) PROVE CInv'
BY PanicCounts DEF KfreePanic
LEMMA RemapCounts == ASSUME IInv, CInv, NEW s, NEW va, Remap(s, va) PROVE CInv'
BY PanicCounts DEF Remap

LEMMA Stays == ASSUME NEW p \in Proc, \A q \in Proc \ {p} : ThreadSame(q) PROVE Elsewhere(p)
BY DEF Elsewhere, ThreadSame

LEMMA JumpStays ==
  ASSUME IInv, NEW p \in Proc, NEW l \in Pcs, Jump(p, l)
  PROVE  /\ Elsewhere(p) /\ pc'[p] = l
         /\ l # "user" => UNCHANGED <<tgt, cur, lo, hi, ret>>
BY JumpBounds, Stays, Types

LEMMA FaultAllocCounts ==
  ASSUME IInv, Struct, CInv, NEW p \in Proc, FaultAlloc(p) PROVE CInv'
<1>1. CASE Panic("pagefault out of memory")
  BY <1>1, PanicCounts
<1>2. ASSUME NEW pg \in freelist, Kalloc(pg), ref' = [ref EXCEPT ![Mem(p)] = pg],
             Jump(p, "pf_copy"), UNCHANGED <<perm, pt>>
      PROVE  CInv'
  <2>1. pc[p] = "pf_alloc" /\ "pf_copy" \in Pcs
    BY DEF FaultAlloc, At, Pcs
  <2>2. Elsewhere(p) /\ pc'[p] = "pf_copy"
    BY <1>2, <2>1, JumpStays
  <2>3. ref[Mem(p)] = None
    BY <2>1 DEF Struct, ProcSlots, OwnsMem
  <2>4. Mem(p) \in Slot /\ OwnSlot(p, Mem(p)) /\ Busy(p) /\ ~Dangles(p) /\ ~Dangles(p)'
    BY <2>1, <2>2, SlotIn DEF OwnSlot, Busy, Dangles
  <2>5. QED
    BY <1>2, <2>2, <2>3, <2>4, AllocCounts DEF pt
<1>3. QED
  BY <1>1, <1>2 DEF FaultAlloc

LEMMA FaultCopyCounts ==
  ASSUME IInv, CInv, NEW p \in Proc, FaultCopy(p) PROVE CInv'
<1>1. /\ pc[p] = "pf_copy" /\ "pf_free" \in Pcs
      /\ Jump(p, "pf_free") /\ UNCHANGED <<freelist, rc, ref, perm, pt>>
  BY DEF FaultCopy, At, Pcs
<1>2. Elsewhere(p) /\ pc'[p] = "pf_free"
  BY <1>1, JumpStays
<1>3. ~Dangles(p) /\ ~Dangles(p)' /\ pc[p] \in FreshPcs
  BY <1>1, <1>2 DEF Dangles, FreshPcs
<1>4. QED
  BY <1>1, <1>2, <1>3, CalmCounts DEF pt

LEMMA FaultFreeCounts ==
  ASSUME IInv, CInv, NEW p \in Proc, FaultFree(p) PROVE CInv'
<1>1. CASE KfreePanic(PTE(tgt[p], cur[p]))
  BY <1>1, KfreePanicCounts
<1>2. ASSUME KfreeSlot(PTE(tgt[p], cur[p]), FALSE), Jump(p, "pf_map"), UNCHANGED <<perm, pt>>
      PROVE  CInv'
  <2>1. pc[p] = "pf_free" /\ "pf_map" \in Pcs /\ cur[p] \in Va /\ cur[p] \in Nat
        /\ tgt[p] \in Space
    BY Types DEF FaultFree, At, Pcs, Label
  <2>2. Elsewhere(p) /\ pc'[p] = "pf_map" /\ UNCHANGED <<tgt, cur>>
    BY <1>2, <2>1, JumpStays
  <2>3. /\ PTE(tgt[p], cur[p]) \in Slot /\ OwnSlot(p, PTE(tgt[p], cur[p]))
        /\ Busy(p) /\ ~Dangles(p) /\ Dangles(p)' /\ pc[p] \in FreshPcs /\ SidesLocal(p)
    BY <1>2, <2>1, <2>2, SlotIn DEF OwnSlot, Busy, Dangles, FreshPcs, SidesLocal, pt
  <2>4. QED
    BY <1>2, <2>2, <2>3, FreeCounts
<1>3. QED
  BY <1>1, <1>2 DEF FaultFree

LEMMA FaultMapCounts ==
  ASSUME IInv, CInv, NEW p \in Proc, FaultMap(p) PROVE CInv'
<1>1. /\ pc[p] = "pf_map" /\ "user" \in Pcs /\ cur[p] \in Va /\ tgt[p] \in Space
      /\ ref \in [Slot -> Page \cup {None}]
      /\ perm \in [Space -> [Va -> SUBSET {"W", "U", "COW"}]]
  BY Types DEF FaultMap, At, Pcs, Label, MemOK
<1>2. /\ ref' = [ref EXCEPT ![PTE(tgt[p], cur[p])] = ref[Mem(p)], ![Mem(p)] = None]
      /\ perm' = [perm EXCEPT ![tgt[p]][cur[p]] = {"W", "U"}]
      /\ Jump(p, "user") /\ UNCHANGED <<freelist, rc, pt>>
  BY DEF FaultMap
<1>3. Elsewhere(p) /\ pc'[p] = "user"
  BY <1>1, <1>2, JumpStays
<1>4. Busy(p) /\ Dangles(p) /\ ~Dangles(p)' /\ pc[p] \in FreshPcs /\ pc'[p] \notin FreshPcs
      /\ Hole(p) = PTE(tgt[p], cur[p]) /\ UNCHANGED side
  BY <1>1, <1>2, <1>3 DEF Dangles, FreshPcs, Busy, Hole, pt
<1>5. /\ ref'[PTE(tgt[p], cur[p])] = ref[Mem(p)] /\ ref'[Mem(p)] = None
      /\ \A v \in Slot : v # Mem(p) /\ v # PTE(tgt[p], cur[p]) => ref'[v] = ref[v]
  <2>1. Mem(p) \in Slot /\ PTE(tgt[p], cur[p]) \in Slot /\ Mem(p) # PTE(tgt[p], cur[p])
    BY <1>1, SlotIn, Slots, Ints
  <2>2. QED
    BY <1>1, <1>2, <2>1
<1>6. \A u \in Space, b \in Va : u # tgt[p] \/ b # cur[p] => perm'[u][b] = perm[u][b]
  BY <1>1, <1>2
<1>7. FlagsLocal(p)
  BY <1>1, <1>2 DEF FlagsLocal
<1>8. pc'[p] # "f_map" /\ UNCHANGED <<freelist, rc>>
  BY <1>2, <1>3
<1>9. QED
  BY <1>1, <1>3, <1>4, <1>5, <1>6, <1>7, <1>8, MoveCounts

-----------------------------------------------------------------------------
(* setupkvm and userinit.                                                  *)

LEMMA SetupPgdirCounts ==
  ASSUME IInv, Struct, CInv, NEW p \in Proc, SetupPgdir(p) PROVE CInv'
<1>1. pc[p] = "s_pgdir" /\ tgt[p] \in Space /\ Busy(p)
  BY Types DEF SetupPgdir, At, Busy
<1>2. CASE Panic("userinit")
  BY <1>2, PanicCounts
<1>3. ASSUME NEW pg \in freelist, Kalloc(pg), ref' = [ref EXCEPT ![PgDir(tgt[p])] = pg],
             cur' = [cur EXCEPT ![p] = NVa], Goto(p, "s_kpde"), UNCHANGED <<perm, pt, tgt>>
      PROVE  CInv'
  <2>1. Elsewhere(p) /\ pc'[p] = "s_kpde"
    BY <1>3, Types DEF Elsewhere, Goto, ThreadOK
  <2>2. ref[PgDir(tgt[p])] = None
    BY <1>1 DEF Struct, TargetSlots, Bare
  <2>3. /\ PgDir(tgt[p]) \in Slot /\ OwnSlot(p, PgDir(tgt[p]))
        /\ ~Dangles(p) /\ ~Dangles(p)' /\ pc'[p] \notin FreshPcs
    BY <1>1, <2>1, SlotIn DEF OwnSlot, Dangles, FreshPcs
  <2>4. QED
    BY <1>1, <1>3, <2>1, <2>2, <2>3, AllocCounts DEF pt
<1>4. ASSUME NEW l \in {"user", "f_fail"}, Jump(p, l), UNCHANGED <<mm, pt>>
      PROVE  CInv'
  <2>1. l \in Pcs
    BY DEF Pcs
  <2>2. Elsewhere(p) /\ pc'[p] = l
    BY <1>4, <2>1, JumpStays
  <2>3. ~Dangles(p) /\ ~Dangles(p)' /\ pc'[p] \notin FreshPcs /\ pc'[p] # "f_map"
    BY <1>1, <2>2 DEF Dangles, FreshPcs
  <2>4. QED
    BY <1>1, <1>4, <2>2, <2>3, CalmCounts DEF pt, mm
<1>5. QED
  BY <1>2, <1>3, <1>4 DEF SetupPgdir

LEMMA StartDeallocCounts ==
  ASSUME IInv, CInv, NEW p \in Proc, NEW s, NEW l, NEW h, NEW r, StartDealloc(p, s, l, h, r),
         ~Dangles(p), UNCHANGED <<freelist, rc, ref, perm, side>>
  PROVE  CInv'
<1>1. Elsewhere(p) /\ pc'[p] = "dv"
  BY StartDeallocSame, Stays, Types
<1>2. ~Dangles(p)' /\ pc'[p] \notin FreshPcs /\ pc'[p] # "f_map"
  BY <1>1 DEF Dangles, FreshPcs
<1>3. QED
  BY <1>1, <1>2, CalmCounts

LEMMA SetupKpdeCounts ==
  ASSUME IInv, Struct, CInv, NEW p \in Proc, SetupKpde(p) PROVE CInv'
<1>1. pc[p] = "s_kpde" /\ tgt[p] \in Space /\ Busy(p) /\ ~Dangles(p)
  BY Types DEF SetupKpde, At, Busy, Dangles
<1>2. CASE Panic("userinit")
  BY <1>2, PanicCounts
<1>3. ASSUME NEW pg \in freelist, Kalloc(pg), ref' = [ref EXCEPT ![PDE(tgt[p], cur[p])] = pg],
             \/ pc' = pc /\ cur' = [cur EXCEPT ![p] = @ + 1]
             \/ cur' = [cur EXCEPT ![p] = 0] /\ Goto(p, AfterSetup(p)),
             UNCHANGED <<perm, pt, tgt>>
      PROVE  CInv'
  <2>1. Elsewhere(p) /\ pc'[p] \in {"s_kpde", "b_uvm", "a_alloc", "f_copy"}
    BY <1>1, <1>3, Types DEF Elsewhere, Goto, ThreadOK, AfterSetup
  <2>2. cur[p] \in KPde /\ cur[p] \in Pde /\ cur[p] \in Nat
    BY <1>1, Ints, Types DEF Struct, TargetSlots
  <2>3. ref[PDE(tgt[p], cur[p])] = None
    BY <1>1, <2>2, SizeAssumption DEF Struct, TargetSlots, KPde
  <2>4. /\ PDE(tgt[p], cur[p]) \in Slot /\ OwnSlot(p, PDE(tgt[p], cur[p]))
        /\ ~Dangles(p)' /\ pc'[p] \notin FreshPcs /\ pc'[p] # "f_map"
    BY <1>1, <2>1, <2>2, SlotIn DEF OwnSlot, Dangles, FreshPcs
  <2>5. QED
    BY <1>1, <1>3, <2>1, <2>3, <2>4, AllocCounts DEF pt
<1>4. ASSUME StartFreevm(p, tgt[p]), UNCHANGED <<mm, pt>> PROVE CInv'
  BY <1>1, <1>4, StartDeallocCounts DEF StartFreevm, mm, pt
<1>5. QED
  BY <1>2, <1>3, <1>4 DEF SetupKpde

LEMMA BootKstackCounts ==
  ASSUME IInv, Struct, CInv, NEW p \in Proc, BootKstack(p) PROVE CInv'
<1>1. CASE Panic("userinit")
  BY <1>1, PanicCounts
<1>2. ASSUME NEW pg \in freelist, Kalloc(pg), ref' = [ref EXCEPT ![KStack(p)] = pg],
             Jump(p, "s_pgdir"), UNCHANGED <<perm, pt>>
      PROVE  CInv'
  <2>1. pc[p] = "b_kstack" /\ "s_pgdir" \in Pcs /\ tgt[p][1] = p
    BY Types DEF BootKstack, At, Pcs, Label
  <2>2. Elsewhere(p) /\ pc'[p] = "s_pgdir"
    BY <1>2, <2>1, JumpStays
  <2>3. ref[KStack(p)] = None
    BY <2>1 DEF Struct, TargetSlots
  <2>4. /\ KStack(p) \in Slot /\ OwnSlot(p, KStack(p)) /\ Busy(p) /\ ~Dangles(p) /\ ~Dangles(p)'
        /\ pc'[p] \notin FreshPcs
    BY <2>1, <2>2, SlotIn DEF OwnSlot, Busy, Dangles, FreshPcs
  <2>5. QED
    BY <1>2, <2>2, <2>3, <2>4, AllocCounts DEF pt
<1>3. QED
  BY <1>1, <1>2 DEF BootKstack

LEMMA BootUvmCounts ==
  ASSUME IInv, Struct, CInv, NEW p \in Proc, BootUvm(p) PROVE CInv'
<1>1. CASE Panic("userinit")
  BY <1>1, PanicCounts
<1>2. ASSUME NEW pg \in freelist, Kalloc(pg), ref' = [ref EXCEPT ![Mem(p)] = pg],
             Jump(p, "b_map"), UNCHANGED <<perm, pt>>
      PROVE  CInv'
  <2>1. pc[p] = "b_uvm" /\ "b_map" \in Pcs
    BY DEF BootUvm, At, Pcs
  <2>2. Elsewhere(p) /\ pc'[p] = "b_map"
    BY <1>2, <2>1, JumpStays
  <2>3. ref[Mem(p)] = None
    BY <2>1 DEF Struct, ProcSlots, OwnsMem
  <2>4. Mem(p) \in Slot /\ OwnSlot(p, Mem(p)) /\ Busy(p) /\ ~Dangles(p) /\ ~Dangles(p)'
    BY <2>1, <2>2, SlotIn DEF OwnSlot, Busy, Dangles
  <2>5. QED
    BY <1>2, <2>2, <2>3, <2>4, AllocCounts DEF pt
<1>3. QED
  BY <1>1, <1>2 DEF BootUvm

LEMMA BootMapCounts ==
  ASSUME IInv, CInv, NEW p \in Proc, BootMap(p) PROVE CInv'
<1>1. CASE Panic("userinit")
  BY <1>1, PanicCounts
<1>2. CASE Remap(tgt[p], 0)
  BY <1>2, RemapCounts
<1>3. ASSUME Mappages(p, tgt[p], 0, {"W", "U"}), Jump(p, "user"), UNCHANGED side
      PROVE  CInv'
  <2>1. pc[p] = "b_map" /\ "user" \in Pcs /\ 0 \in Va
    BY Ints DEF BootMap, At, Pcs
  <2>2. Elsewhere(p) /\ pc'[p] = "user"
    BY <1>3, <2>1, JumpStays
  <2>3. /\ Busy(p) /\ ~Dangles(p) /\ ~Dangles(p)'
        /\ pc[p] \in FreshPcs /\ pc'[p] \notin FreshPcs /\ pc'[p] # "f_map"
    BY <2>1, <2>2 DEF Busy, Dangles, FreshPcs
  <2>4. QED
    BY <1>3, <2>1, <2>2, <2>3, MapCounts
<1>4. QED
  BY <1>1, <1>2, <1>3 DEF BootMap

-----------------------------------------------------------------------------
(* fork                                                                    *)

LEMMA ForkKstackCounts ==
  ASSUME IInv, Struct, CInv, NEW p \in Proc, ForkKstack(p) PROVE CInv'
<1>1. pc[p] = "f_kstack" /\ "s_pgdir" \in Pcs /\ "user" \in Pcs /\ tgt[p][1] \in Proc
      /\ Busy(p) /\ ~Dangles(p)
  BY Types DEF ForkKstack, At, Pcs, Busy, Dangles
<1>2. ASSUME NEW pg \in freelist, Kalloc(pg), ref' = [ref EXCEPT ![KStack(tgt[p][1])] = pg],
             Jump(p, "s_pgdir"), UNCHANGED <<perm, pt>>
      PROVE  CInv'
  <2>1. Elsewhere(p) /\ pc'[p] = "s_pgdir"
    BY <1>1, <1>2, JumpStays
  <2>2. ref[KStack(tgt[p][1])] = None
    BY <1>1 DEF Struct, TargetSlots
  <2>3. /\ KStack(tgt[p][1]) \in Slot /\ OwnSlot(p, KStack(tgt[p][1]))
        /\ ~Dangles(p)' /\ pc'[p] \notin FreshPcs
    BY <1>1, <2>1, SlotIn DEF OwnSlot, Dangles, FreshPcs
  <2>4. QED
    BY <1>1, <1>2, <2>1, <2>2, <2>3, AllocCounts DEF pt
<1>3. ASSUME Jump(p, "user"), UNCHANGED <<mm, side>> PROVE CInv'
  <2>1. Elsewhere(p) /\ pc'[p] = "user"
    BY <1>1, <1>3, JumpStays
  <2>2. ~Dangles(p)' /\ pc'[p] \notin FreshPcs
    BY <2>1 DEF Dangles, FreshPcs
  <2>3. QED
    BY <1>1, <1>3, <2>1, <2>2, CalmCounts DEF mm
<1>4. QED
  BY <1>2, <1>3 DEF ForkKstack

\* copyuvm shares the page, and takes PTE_W from the parent's entry.
LEMMA ForkCopyCounts ==
  ASSUME IInv, Struct, CInv, NEW p \in Proc, ForkCopy(p) PROVE CInv'
<1> DEFINE e == PTE(Own(p), cur[p])
           m == Mem(p)
<1>1. /\ pc[p] = "f_copy" /\ Busy(p) /\ tgt[p][1] # p /\ cur[p] < sz[p]
      /\ Own(p) \in Space /\ Own(p)[1] = p /\ tgt[p] \in Space /\ cur[p] \in Nat
      /\ "f_map" \in Pcs /\ ~Dangles(p)
  BY OwnIn, Types DEF ForkCopy, At, Busy, Label, Pcs, Dangles
<1>2. cur[p] \in Va
  BY <1>1, SizeAssumption, Types DEF ProcOK, Va
<1>3. CASE Panic("copyuvm: page not present") \/ Panic("incrementRefCount")
  BY <1>3, PanicCounts
<1>4. ASSUME ref[e] # None, rc[ref[e]] > 0,
             perm' = [perm EXCEPT ![Own(p)][cur[p]] = CowFlags(@)],
             rc' = [rc EXCEPT ![ref[e]] = @ + 1], ref' = [ref EXCEPT ![m] = ref[e]],
             Jump(p, "f_map"), UNCHANGED <<freelist, pt>>
      PROVE  CInv'
  <2>1. Elsewhere(p) /\ pc'[p] = "f_map" /\ UNCHANGED <<tgt, cur>>
    BY <1>1, <1>4, JumpStays
  <2>2. /\ Eff \in [Slot -> Page \cup {None}] /\ rc \in [Page -> Nat]
        /\ Exclusive \subseteq Slot /\ ref \in [Slot -> Page \cup {None}]
        /\ perm \in [Space -> [Va -> SUBSET {"W", "U", "COW"}]]
    BY EffType, Types DEF MemOK
  <2>3. e \in Slot /\ m \in Slot /\ e # m /\ OwnSlot(p, m) /\ ~Dangles(p)'
    BY <1>1, <1>2, <2>1, SlotIn, Slots, Ints DEF OwnSlot, Dangles
  <2>4. ref[m] = None
    BY <1>1 DEF Struct, ProcSlots, OwnsMem
  <2>5. RefLocal(p)
    BY <1>4, <2>2, <2>3 DEF RefLocal
  <2>6. Eff[m] = None /\ Eff'[m] = ref[e]
    BY <1>1, <1>4, <2>1, <2>2, <2>3, <2>4, <2>5, EffLocal
  <2>7. \A t \in Slot : t # m => Eff'[t] = Eff[t]
    BY <1>1, <1>4, <2>1, <2>2, <2>3, <2>5, EffLocal
  <2>8. Eff[e] = ref[e]
    <3>1. ASSUME NEW q \in Proc, Dangles(q) PROVE e # Hole(q)
      <4>1. q # p /\ Busy(q)
        BY <1>1, <3>1 DEF Dangles, Busy
      <4>2. tgt[q][1] # p /\ tgt[q] \in Space /\ cur[q] \in Nat
        BY <1>1, <4>1, Apart
      <4>3. QED
        BY <1>1, <4>2, Slots DEF Hole
    <3>2. e \notin Dangling
      BY <3>1, DanglingIff
    <3>3. QED
      BY <2>3, <3>2 DEF Eff
  <2>9. Eff' = [Eff EXCEPT ![m] = Eff[e]]
    <3>1. \A t \in Slot : Eff'[t] = [Eff EXCEPT ![m] = Eff[e]][t]
      BY <2>2, <2>3, <2>6, <2>7, <2>8
    <3>2. Eff' = [t \in Slot |-> Eff'[t]]
      BY DEF Eff
    <3>3. [Eff EXCEPT ![m] = Eff[e]] = [t \in Slot |-> [Eff EXCEPT ![m] = Eff[e]][t]]
      BY <2>2
    <3>4. QED
      BY <3>1, <3>2, <3>3
  <2>10. Counts(Eff', rc', freelist')
    <3> DEFINE pg == ref[e]
    <3>1. pg \in Page /\ rc[pg] > 0 /\ Eff[e] = pg /\ Counts(Eff, rc, freelist)
      BY <1>4, <2>2, <2>3, <2>8 DEF CInv
    <3>2. Counts([Eff EXCEPT ![m] = pg], [rc EXCEPT ![pg] = @ + 1], freelist)
      <4> HIDE DEF m, pg, e
      <4>1. QED
        BY <2>2, <2>3, <2>6, <3>1, CountsInc
    <3>3. QED
      BY <1>4, <2>8, <2>9, <3>2
  <2>11. Sole(Eff', Exclusive')
    <3>1. \A u \in Space, b \in Va : "W" \in perm'[u][b] => "W" \in perm[u][b]
      BY <1>1, <1>2, <1>4, <2>2 DEF CowFlags
    <3>2. Exclusive' \subseteq Exclusive \cup {}
      BY <2>1, <3>1, ExclusiveStep DEF FreshPcs
    <3>3. Exclusive' = Alone(perm', pc')
      BY DEF Exclusive, Alone
    <3>4. "W" \notin perm'[Own(p)][cur[p]] /\ pc'[p] \notin FreshPcs
      BY <1>1, <1>2, <1>4, <2>1, <2>2 DEF CowFlags, FreshPcs
    <3>5. e \notin Exclusive' /\ m \notin Exclusive'
      BY <1>1, <1>2, <3>3, <3>4, AloneIff
    <3> DEFINE y == Exclusive'
    <3>6. y \subseteq Exclusive \ {e, m} /\ Sole(Eff, Exclusive)
      BY <3>2, <3>5 DEF CInv
    <3>7. Sole([Eff EXCEPT ![m] = Eff[e]], y)
      <4> HIDE DEF m, e, y
      <4>1. QED
        BY <2>2, <2>3, <3>6, SoleShare
    <3>8. QED
      BY <2>9, <3>7
  <2>12. Shared(p)'
    <3>1. Own(p)' = Own(p)
      BY <1>4 DEF Own, pt
    <3>2. QED
      BY <1>1, <1>2, <1>4, <2>1, <2>2, <3>1 DEF Shared, CowFlags
  <2>13. FlagsLocal(p) /\ SidesLocal(p)
    BY <1>1, <1>4, <2>2 DEF FlagsLocal, SidesLocal, pt
  <2>14. QED
    BY <1>1, <2>1, <2>10, <2>11, <2>12, <2>13, SharedKept, CInvAfter
<1>5. QED
  BY <1>3, <1>4 DEF ForkCopy, IncrementRefCount

LEMMA ForkMapCounts ==
  ASSUME IInv, CInv, NEW p \in Proc, ForkMap(p) PROVE CInv'
<1>1. pc[p] = "f_map" /\ cur[p] \in Va /\ Busy(p) /\ ~Dangles(p) /\ "f_unref" \in Pcs
  BY Types DEF ForkMap, At, Label, Busy, Dangles, Pcs
<1>2. CASE Remap(tgt[p], cur[p])
  BY <1>2, RemapCounts
<1>3. ASSUME Mappages(p, tgt[p], cur[p], perm[Own(p)][cur[p]]), cur' = [cur EXCEPT ![p] = @ + 1],
             Goto(p, "f_copy"), UNCHANGED <<pt, tgt>>
      PROVE  CInv'
  <2>1. Elsewhere(p) /\ pc'[p] = "f_copy"
    BY <1>3, Types DEF Elsewhere, Goto, ThreadOK
  <2>2. ~Dangles(p)' /\ pc'[p] \notin FreshPcs
    BY <2>1 DEF Dangles, FreshPcs
  <2>3. "W" \notin perm[Own(p)][cur[p]]
    BY <1>1 DEF CInv, Shared
  <2> DEFINE fl == perm[Own(p)][cur[p]]
             a == cur[p]
  <2>4. Mappages(p, tgt[p], a, fl) /\ a \in Va /\ "W" \notin fl /\ UNCHANGED side
    BY <1>1, <1>3, <2>3 DEF pt
  <2> HIDE DEF fl, a
  <2>5. QED
    BY <1>1, <2>1, <2>2, <2>4, MapCounts
<1>4. ASSUME Jump(p, "f_unref"), UNCHANGED <<mm, pt>> PROVE CInv'
  <2>1. Elsewhere(p) /\ pc'[p] = "f_unref"
    BY <1>1, <1>4, JumpStays
  <2>2. ~Dangles(p)' /\ pc'[p] \notin FreshPcs
    BY <2>1 DEF Dangles, FreshPcs
  <2>3. QED
    BY <1>1, <1>4, <2>1, <2>2, CalmCounts DEF mm, pt
<1>5. QED
  BY <1>2, <1>3, <1>4 DEF ForkMap

LEMMA ForkUnrefCounts ==
  ASSUME IInv, CInv, NEW p \in Proc, ForkUnref(p) PROVE CInv'
<1>1. CASE KfreePanic(Mem(p))
  BY <1>1, KfreePanicCounts
<1>2. ASSUME KfreeSlot(Mem(p), TRUE), StartFreevm(p, tgt[p]), UNCHANGED <<perm, pt>>
      PROVE  CInv'
  <2>1. pc[p] = "f_unref"
    BY DEF ForkUnref, At
  <2>2. Elsewhere(p) /\ pc'[p] = "dv"
    BY <1>2, StartDeallocSame, Stays, Types DEF StartFreevm
  <2>3. /\ Mem(p) \in Slot /\ OwnSlot(p, Mem(p)) /\ Busy(p) /\ ~Dangles(p) /\ ~Dangles(p)'
        /\ pc'[p] \notin FreshPcs /\ pc'[p] # "f_map" /\ SidesLocal(p)
    BY <1>2, <2>1, <2>2, SlotIn DEF OwnSlot, Busy, Dangles, FreshPcs, SidesLocal, pt
  <2>4. QED
    BY <1>2, <2>2, <2>3, FreeCounts
<1>3. QED
  BY <1>1, <1>2 DEF ForkUnref

LEMMA ForkFailCounts ==
  ASSUME IInv, CInv, NEW p \in Proc, ForkFail(p) PROVE CInv'
<1>1. CASE KfreePanic(KStack(tgt[p][1]))
  BY <1>1, KfreePanicCounts
<1>2. ASSUME KfreeSlot(KStack(tgt[p][1]), TRUE), Jump(p, "user"), UNCHANGED <<perm, side>>
      PROVE  CInv'
  <2>1. pc[p] = "f_fail" /\ "user" \in Pcs /\ tgt[p][1] \in Proc
    BY Types DEF ForkFail, At, Pcs
  <2>2. Elsewhere(p) /\ pc'[p] = "user"
    BY <1>2, <2>1, JumpStays
  <2>3. /\ KStack(tgt[p][1]) \in Slot /\ OwnSlot(p, KStack(tgt[p][1]))
        /\ Busy(p) /\ ~Dangles(p) /\ ~Dangles(p)'
        /\ pc'[p] \notin FreshPcs /\ pc'[p] # "f_map" /\ SidesLocal(p)
    BY <1>2, <2>1, <2>2, SlotIn DEF OwnSlot, Busy, Dangles, FreshPcs, SidesLocal
  <2>4. QED
    BY <1>2, <2>2, <2>3, FreeCounts
<1>3. QED
  BY <1>1, <1>2 DEF ForkFail

LEMMA ForkDoneCounts ==
  ASSUME IInv, Struct, CInv, NEW p \in Proc, ForkDone(p) PROVE CInv'
<1>1. /\ pc[p] = "f_copy" /\ tgt[p][1] # p /\ tgt[p][1] \in Proc /\ Busy(p)
      /\ pc[tgt[p][1]] = "idle"
  BY Types DEF ForkDone, At, Label, Busy, ThreadsApart
<1>2. /\ pc' = [pc EXCEPT ![p] = "user", ![tgt[p][1]] = "user"]
      /\ tgt' = [tgt EXCEPT ![p] = <<p, 0>>] /\ cur' = [cur EXCEPT ![p] = 0]
      /\ UNCHANGED <<mm, side>>
  BY DEF ForkDone
<1>3. Elsewhere(p) /\ pc'[p] = "user"
  BY <1>1, <1>2, Types DEF Elsewhere, ThreadOK
<1>4. ~Dangles(p) /\ ~Dangles(p)' /\ pc'[p] \notin FreshPcs
  BY <1>1, <1>3 DEF Dangles, FreshPcs
<1>5. QED
  BY <1>1, <1>2, <1>3, <1>4, CalmCounts DEF mm

-----------------------------------------------------------------------------
(* deallocuvm, freevm and allocuvm.                                        *)

\* A jump to a label where nothing is fresh and nothing dangles.
LEMMA JumpCounts ==
  ASSUME IInv, CInv, NEW p \in Proc, Busy(p), ~Dangles(p), NEW l \in Pcs, Jump(p, l),
         l \notin FreshPcs \cup {"f_map", "dv_clear"}, UNCHANGED <<freelist, rc, ref, perm, side>>
  PROVE  CInv'
<1>1. Elsewhere(p) /\ pc'[p] = l
  BY JumpStays
<1>2. ~Dangles(p)'
  BY <1>1 DEF Dangles, FreshPcs
<1>3. QED
  BY <1>1, <1>2, CalmCounts

LEMMA DeallocStepCounts ==
  ASSUME IInv, CInv, NEW p \in Proc, DeallocStep(p) PROVE CInv'
<1>1. /\ pc[p] = "dv" /\ Busy(p) /\ ~Dangles(p) /\ "dv_clear" \in Pcs /\ tgt[p] \in Space
      /\ cur[p] < hi[p] /\ cur[p] \in Nat /\ hi[p] \in 0 .. NVa
  BY Types DEF DeallocStep, At, Busy, Dangles, Pcs, ThreadOK
<1>2. cur[p] \in Va
  BY <1>1, SizeAssumption DEF Va
<1>3. ASSUME NEW n, cur' = [cur EXCEPT ![p] = n], UNCHANGED <<mm, pt, pc, tgt>> PROVE CInv'
  <2>1. Elsewhere(p) /\ pc'[p] = "dv"
    BY <1>1, <1>3, Types DEF Elsewhere, ThreadOK
  <2>2. ~Dangles(p)' /\ pc'[p] \notin FreshPcs
    BY <2>1 DEF Dangles, FreshPcs
  <2>3. QED
    BY <1>1, <1>3, <2>1, <2>2, CalmCounts DEF mm, pt
<1>4. ASSUME KfreeSlot(PTE(tgt[p], cur[p]), FALSE), Jump(p, "dv_clear"), UNCHANGED <<perm, pt>>
      PROVE  CInv'
  <2>1. Elsewhere(p) /\ pc'[p] = "dv_clear" /\ UNCHANGED <<tgt, cur>>
    BY <1>1, <1>4, JumpStays
  <2>2. /\ PTE(tgt[p], cur[p]) \in Slot /\ OwnSlot(p, PTE(tgt[p], cur[p])) /\ Dangles(p)'
        /\ pc'[p] \notin FreshPcs /\ pc'[p] # "f_map" /\ SidesLocal(p)
    BY <1>1, <1>2, <1>4, <2>1, SlotIn DEF OwnSlot, Dangles, FreshPcs, SidesLocal, pt
  <2>3. QED
    BY <1>1, <1>4, <2>1, <2>2, FreeCounts
<1>5. CASE KfreePanic(PTE(tgt[p], cur[p]))
  BY <1>5, KfreePanicCounts
<1>6. QED
  BY <1>3, <1>4, <1>5 DEF DeallocStep

\* The entry is cleared: it counted for nothing already.
LEMMA DeallocClearCounts ==
  ASSUME IInv, CInv, NEW p \in Proc, DeallocClear(p) PROVE CInv'
<1> DEFINE h == PTE(tgt[p], cur[p])
<1>1. /\ pc[p] = "dv_clear" /\ Busy(p) /\ Dangles(p) /\ tgt[p] \in Space /\ cur[p] \in Va
      /\ ref \in [Slot -> Page \cup {None}] /\ Hole(p) = h
      /\ perm \in [Space -> [Va -> SUBSET {"W", "U", "COW"}]]
  BY Types DEF DeallocClear, At, Busy, Dangles, Label, MemOK, Hole
<1>2. /\ ref' = [ref EXCEPT ![h] = None] /\ perm' = [perm EXCEPT ![tgt[p]][cur[p]] = {}]
      /\ UNCHANGED <<freelist, rc, side>>
  BY DEF DeallocClear, pt
<1>3. Elsewhere(p) /\ pc'[p] = "dv"
  BY <1>1, Types DEF DeallocClear, Elsewhere, Goto, ThreadOK
<1>4. ~Dangles(p)' /\ pc'[p] \notin FreshPcs /\ pc'[p] # "f_map"
  BY <1>3 DEF Dangles, FreshPcs
<1>5. h \in Slot /\ OwnSlot(p, h)
  BY <1>1, SlotIn, Types DEF OwnSlot
<1>6. RefLocal(p)
  BY <1>1, <1>2, <1>5 DEF RefLocal
<1>7. Eff[h] = None /\ Eff'[h] = None
  BY <1>1, <1>2, <1>3, <1>4, <1>5, <1>6, EffLocal
<1>8. \A t \in Slot : t # h => Eff'[t] = Eff[t]
  BY <1>1, <1>2, <1>3, <1>4, <1>6, EffLocal
<1>9. Eff' = Eff
  <2>1. Eff' = [t \in Slot |-> Eff'[t]] /\ Eff = [t \in Slot |-> Eff[t]]
    BY DEF Eff
  <2>2. \A t \in Slot : Eff'[t] = Eff[t]
    BY <1>7, <1>8
  <2>3. QED
    BY <2>1, <2>2
<1>10. \A s \in Space, va \in Va : "W" \in perm'[s][va] => "W" \in perm[s][va]
  BY <1>1, <1>2
<1>11. Exclusive' \subseteq Exclusive \cup {}
  BY <1>3, <1>4, <1>10, ExclusiveStep
<1>12. Counts(Eff', rc', freelist') /\ Sole(Eff', Exclusive')
  BY <1>2, <1>9, <1>11 DEF CInv, Sole
<1>13. FlagsLocal(p) /\ SidesLocal(p)
  BY <1>1, <1>2 DEF FlagsLocal, SidesLocal
<1>14. QED
  BY <1>1, <1>3, <1>4, <1>12, <1>13, SharedKept, CInvAfter

LEMMA DeallocDoneCounts ==
  ASSUME IInv, CInv, NEW p \in Proc, DeallocDone(p) PROVE CInv'
<1>1. /\ pc[p] = "dv" /\ Busy(p) /\ ~Dangles(p)
      /\ ret[p] \in {"fv_tab", "g_done", "user", "x_bad", "a_free"}
  BY Types DEF DeallocDone, At, Busy, Dangles, Label
<1>2. ret[p] \in Pcs /\ ret[p] \notin FreshPcs \cup {"f_map", "dv_clear"}
  BY <1>1 DEF Pcs, FreshPcs
<1>3. Jump(p, ret[p]) /\ UNCHANGED <<freelist, rc, ref, perm, side>>
  BY DEF DeallocDone, mm, pt
<1>4. \A l : l = ret[p] => CInv'
  BY <1>1, <1>2, <1>3, JumpCounts
<1>5. QED
  BY <1>4

LEMMA FreeTabCounts ==
  ASSUME IInv, CInv, NEW p \in Proc, FreeTab(p) PROVE CInv'
<1>1. pc[p] = "fv_tab" /\ Busy(p) /\ ~Dangles(p) /\ tgt[p] \in Space
  BY Types DEF FreeTab, At, Busy, Dangles
<1>2. ASSUME NEW s, KfreePanic(s) PROVE CInv'
  BY <1>2, KfreePanicCounts
<1>3. ASSUME NEW i \in Pde, KfreeSlot(PDE(tgt[p], i), TRUE), UNCHANGED <<perm, pt, kt>>
      PROVE  CInv'
  <2>1. Elsewhere(p) /\ pc'[p] = "fv_tab"
    BY <1>1, <1>3 DEF Elsewhere, kt, loc
  <2>2. i \in Nat
    BY SizeAssumption, Ints DEF Pde, UPde, KPde
  <2>3. /\ PDE(tgt[p], i) \in Slot /\ OwnSlot(p, PDE(tgt[p], i)) /\ ~Dangles(p)'
        /\ pc'[p] \notin FreshPcs /\ pc'[p] # "f_map" /\ SidesLocal(p)
    BY <1>1, <1>3, <2>1, <2>2, SlotIn DEF OwnSlot, Dangles, FreshPcs, SidesLocal, pt
  <2>4. QED
    BY <1>1, <1>3, <2>1, <2>3, FreeCounts
<1>4. ASSUME NEW l \in {"user", "w_done", "f_fail"}, KfreeSlot(PgDir(tgt[p]), TRUE), Jump(p, l),
             UNCHANGED <<perm, pt>>
      PROVE  CInv'
  <2>1. l \in Pcs
    BY DEF Pcs
  <2>2. Elsewhere(p) /\ pc'[p] = l
    BY <1>4, <2>1, JumpStays
  <2>3. /\ PgDir(tgt[p]) \in Slot /\ OwnSlot(p, PgDir(tgt[p])) /\ ~Dangles(p)'
        /\ pc'[p] \notin FreshPcs /\ pc'[p] # "f_map" /\ SidesLocal(p)
    BY <1>1, <1>4, <2>2, SlotIn DEF OwnSlot, Dangles, FreshPcs, SidesLocal, pt
  <2>4. QED
    BY <1>1, <1>4, <2>2, <2>3, FreeCounts
<1>5. AfterFreevm(p) \in {"user", "w_done", "f_fail"}
  BY DEF AfterFreevm
<1>6. QED
  BY <1>2, <1>3, <1>4, <1>5 DEF FreeTab

LEMMA AllocPageCounts ==
  ASSUME IInv, Struct, CInv, NEW p \in Proc, AllocPage(p) PROVE CInv'
<1>1. pc[p] = "a_alloc" /\ Busy(p) /\ ~Dangles(p) /\ "a_map" \in Pcs
  BY DEF AllocPage, At, Busy, Dangles, Pcs
<1>2. ASSUME NEW pg \in freelist, Kalloc(pg), ref' = [ref EXCEPT ![Mem(p)] = pg],
             Jump(p, "a_map"), UNCHANGED <<perm, pt>>
      PROVE  CInv'
  <2>1. Elsewhere(p) /\ pc'[p] = "a_map"
    BY <1>1, <1>2, JumpStays
  <2>2. ref[Mem(p)] = None
    BY <1>1 DEF Struct, ProcSlots, OwnsMem
  <2>3. Mem(p) \in Slot /\ OwnSlot(p, Mem(p)) /\ ~Dangles(p)'
    BY <2>1, SlotIn DEF OwnSlot, Dangles
  <2>4. QED
    BY <1>1, <1>2, <2>1, <2>2, <2>3, AllocCounts DEF pt
<1>3. ASSUME NEW r, StartDealloc(p, tgt[p], lo[p], hi[p], r), UNCHANGED <<mm, pt>> PROVE CInv'
  BY <1>1, <1>3, StartDeallocCounts DEF mm, pt
<1>4. QED
  BY <1>2, <1>3 DEF AllocPage

LEMMA AllocMapCounts ==
  ASSUME IInv, Struct, CInv, NEW p \in Proc, AllocMap(p) PROVE CInv'
<1>1. /\ pc[p] = "a_map" /\ Busy(p) /\ ~Dangles(p) /\ pc[p] \in FreshPcs
      /\ cur[p] < hi[p] /\ cur[p] \in Nat /\ hi[p] \in 0 .. NVa
  BY Types DEF AllocMap, At, Busy, Dangles, FreshPcs, ThreadOK, Struct, Target
<1>2. cur[p] \in Va
  BY <1>1, SizeAssumption DEF Va
<1>3. CASE Remap(tgt[p], cur[p])
  BY <1>3, RemapCounts
<1>4. ASSUME Mappages(p, tgt[p], cur[p], {"W", "U"}), cur' = [cur EXCEPT ![p] = @ + 1],
             Goto(p, "a_alloc"), UNCHANGED <<pt, tgt>>
      PROVE  CInv'
  <2>1. Elsewhere(p) /\ pc'[p] = "a_alloc"
    BY <1>4, Types DEF Elsewhere, Goto, ThreadOK
  <2>2. ~Dangles(p)' /\ pc'[p] \notin FreshPcs /\ pc'[p] # "f_map" /\ UNCHANGED side
    BY <1>4, <2>1 DEF Dangles, FreshPcs, pt
  <2> DEFINE a == cur[p]
  <2>3. Mappages(p, tgt[p], a, {"W", "U"}) /\ a \in Va
    BY <1>2, <1>4
  <2> HIDE DEF a
  <2>4. QED
    BY <1>1, <2>1, <2>2, <2>3, MapCounts
<1>5. ASSUME NEW r, StartDealloc(p, tgt[p], lo[p], hi[p], r), UNCHANGED <<mm, pt>> PROVE CInv'
  BY <1>1, <1>5, StartDeallocCounts DEF mm, pt
<1>6. QED
  BY <1>3, <1>4, <1>5 DEF AllocMap

LEMMA AllocFreeCounts ==
  ASSUME IInv, CInv, NEW p \in Proc, AllocFree(p) PROVE CInv'
<1>1. CASE KfreePanic(Mem(p))
  BY <1>1, KfreePanicCounts
<1>2. ASSUME NEW l \in {"user", "x_bad"}, KfreeSlot(Mem(p), TRUE), Jump(p, l),
             UNCHANGED <<perm, pt>>
      PROVE  CInv'
  <2>1. pc[p] = "a_free" /\ l \in Pcs
    BY DEF AllocFree, At, Pcs
  <2>2. Elsewhere(p) /\ pc'[p] = l
    BY <1>2, <2>1, JumpStays
  <2>3. /\ Mem(p) \in Slot /\ OwnSlot(p, Mem(p)) /\ Busy(p) /\ ~Dangles(p) /\ ~Dangles(p)'
        /\ pc'[p] \notin FreshPcs /\ pc'[p] # "f_map" /\ SidesLocal(p)
    BY <1>2, <2>1, <2>2, SlotIn DEF OwnSlot, Busy, Dangles, FreshPcs, SidesLocal, pt
  <2>4. QED
    BY <1>2, <2>2, <2>3, FreeCounts
<1>3. AllocFailed(p) \in {"user", "x_bad"}
  BY DEF AllocFailed
<1>4. QED
  BY <1>1, <1>2, <1>3 DEF AllocFree

LEMMA AllocDoneCounts ==
  ASSUME IInv, CInv, NEW p \in Proc, AllocDone(p) PROVE CInv'
<1>1. /\ pc[p] = "a_alloc" /\ Busy(p) /\ ~Dangles(p)
      /\ ret[p] \in {"g_done", "x_load", "x_stack"}
  BY Types DEF AllocDone, At, Busy, Dangles, Label
<1>2. ret[p] \in Pcs /\ ret[p] \notin FreshPcs \cup {"f_map", "dv_clear"}
  BY <1>1 DEF Pcs, FreshPcs
<1>3. Jump(p, ret[p]) /\ UNCHANGED <<freelist, rc, ref, perm, side>>
  BY DEF AllocDone, mm, pt
<1>4. \A l : l = ret[p] => CInv'
  BY <1>1, <1>2, <1>3, JumpCounts
<1>5. QED
  BY <1>4

LEMMA GrowDoneCounts ==
  ASSUME IInv, CInv, NEW p \in Proc, GrowDone(p) PROVE CInv'
<1>1. /\ pc[p] = "g_done" /\ Busy(p) /\ ~Dangles(p) /\ "user" \in Pcs
      /\ "user" \notin FreshPcs \cup {"f_map", "dv_clear"}
  BY DEF GrowDone, At, Busy, Dangles, Pcs, FreshPcs
<1>2. Jump(p, "user") /\ UNCHANGED <<freelist, rc, ref, perm, side>>
  BY DEF GrowDone, mm
<1>3. QED
  BY <1>1, <1>2, JumpCounts

-----------------------------------------------------------------------------
(* exec and wait.                                                          *)

LEMMA ExecLoadCounts ==
  ASSUME IInv, CInv, NEW p \in Proc, ExecLoad(p) PROVE CInv'
<1>1. pc[p] = "x_load" /\ Busy(p) /\ ~Dangles(p) /\ UNCHANGED <<freelist, rc, ref, perm, side>>
  BY DEF ExecLoad, At, Busy, Dangles, pt
<1>2. \/ StartAlloc(p, tgt[p], hi[p], hi[p] + 2, "x_stack")
      \/ Goto(p, "x_bad") /\ UNCHANGED <<tgt, cur, lo, hi, ret>>
  BY DEF ExecLoad
<1>3. Elsewhere(p) /\ pc'[p] \in {"a_alloc", "x_bad"}
  <2>1. CASE StartAlloc(p, tgt[p], hi[p], hi[p] + 2, "x_stack")
    BY <2>1, StartAllocSame, Stays, Types
  <2>2. CASE Goto(p, "x_bad") /\ UNCHANGED <<tgt, cur, lo, hi, ret>>
    BY <2>2, Types DEF Goto, ThreadOK, Elsewhere
  <2>3. QED
    BY <1>2, <2>1, <2>2
<1>4. ~Dangles(p)' /\ pc'[p] \notin FreshPcs /\ pc'[p] # "f_map"
  BY <1>3 DEF Dangles, FreshPcs
<1>5. QED
  BY <1>1, <1>3, <1>4, CalmCounts

LEMMA ExecStackCounts ==
  ASSUME IInv, CInv, NEW p \in Proc, ExecStack(p) PROVE CInv'
<1>1. /\ pc[p] = "x_stack" /\ Busy(p) /\ ~Dangles(p) /\ tgt[p] \in Space
      /\ perm \in [Space -> [Va -> SUBSET {"W", "U", "COW"}]] /\ side \in [Proc -> {0, 1}]
  BY Types DEF ExecStack, At, Busy, Dangles, MemOK, ProcOK
<1>2. /\ perm' = [perm EXCEPT ![tgt[p]][hi[p] - 2] = @ \ {"U"}]
      /\ UNCHANGED <<freelist, rc, ref>>
      /\ \/ side' = [side EXCEPT ![p] = 1 - @] /\ StartFreevm(p, OldSpace(p))
         \/ Goto(p, "x_bad") /\ UNCHANGED <<side, tgt, cur, lo, hi, ret>>
  BY DEF ExecStack
<1>3. Elsewhere(p) /\ pc'[p] \in {"dv", "x_bad"}
  <2>1. CASE StartFreevm(p, OldSpace(p))
    BY <2>1, StartDeallocSame, Stays, Types DEF StartFreevm
  <2>2. CASE Goto(p, "x_bad") /\ UNCHANGED <<side, tgt, cur, lo, hi, ret>>
    BY <2>2, Types DEF Goto, ThreadOK, Elsewhere
  <2>3. QED
    BY <1>2, <2>1, <2>2
<1>4. ~Dangles(p)' /\ pc'[p] \notin FreshPcs /\ pc'[p] # "f_map"
  BY <1>3 DEF Dangles, FreshPcs
<1>5. \A s \in Space, va \in Va : "W" \in perm'[s][va] => "W" \in perm[s][va]
  BY <1>1, <1>2
<1>6. FlagsLocal(p) /\ SidesLocal(p)
  BY <1>1, <1>2 DEF FlagsLocal, SidesLocal
<1>7. QED
  BY <1>1, <1>2, <1>3, <1>4, <1>5, <1>6, StillCounts

LEMMA ExecBadCounts ==
  ASSUME IInv, CInv, NEW p \in Proc, ExecBad(p) PROVE CInv'
BY StartDeallocCounts DEF ExecBad, At, Dangles, StartFreevm, mm, pt

LEMMA WaitKstackCounts ==
  ASSUME IInv, CInv, NEW p \in Proc, WaitKstack(p) PROVE CInv'
<1>1. CASE KfreePanic(KStack(tgt[p][1]))
  BY <1>1, KfreePanicCounts
<1>2. ASSUME KfreeSlot(KStack(tgt[p][1]), TRUE), StartFreevm(p, tgt[p]), UNCHANGED <<perm, pt>>
      PROVE  CInv'
  <2>1. pc[p] = "w_kstack" /\ tgt[p][1] \in Proc
    BY Types DEF WaitKstack, At
  <2>2. Elsewhere(p) /\ pc'[p] = "dv"
    BY <1>2, StartDeallocSame, Stays, Types DEF StartFreevm
  <2>3. /\ KStack(tgt[p][1]) \in Slot /\ OwnSlot(p, KStack(tgt[p][1]))
        /\ Busy(p) /\ ~Dangles(p) /\ ~Dangles(p)'
        /\ pc'[p] \notin FreshPcs /\ pc'[p] # "f_map" /\ SidesLocal(p)
    BY <1>2, <2>1, <2>2, SlotIn DEF OwnSlot, Busy, Dangles, FreshPcs, SidesLocal, pt
  <2>4. QED
    BY <1>2, <2>2, <2>3, FreeCounts
<1>3. QED
  BY <1>1, <1>2 DEF WaitKstack

LEMMA WaitDoneCounts ==
  ASSUME IInv, CInv, NEW p \in Proc, WaitDone(p) PROVE CInv'
<1>1. /\ pc[p] = "w_done" /\ Busy(p) /\ ~Dangles(p) /\ "user" \in Pcs
      /\ side \in [Proc -> {0, 1}]
  BY Types DEF WaitDone, At, Busy, Dangles, Pcs, ProcOK
<1>2. Jump(p, "user") /\ UNCHANGED mm /\ side' = [side EXCEPT ![tgt[p][1]] = 0]
  BY DEF WaitDone
<1>3. Elsewhere(p) /\ pc'[p] = "user"
  BY <1>1, <1>2, JumpStays
<1>4. ~Dangles(p)' /\ pc'[p] \notin FreshPcs /\ SidesLocal(p)
  BY <1>1, <1>2, <1>3 DEF Dangles, FreshPcs, SidesLocal
<1>5. QED
  BY <1>1, <1>2, <1>3, <1>4, CalmCounts DEF mm

-----------------------------------------------------------------------------
(* User code, and system calls that begin.                                 *)

LEMMA EnterCounts ==
  ASSUME IInv, CInv, NEW p \in Proc, pc[p] = "user", Elsewhere(p),
         pc'[p] \notin FreshPcs \cup {"f_map", "dv_clear"},
         UNCHANGED <<freelist, rc, ref, perm, side>>
  PROVE  CInv'
<1>1. ~Dangles(p) /\ ~Dangles(p)'
  BY DEF Dangles, FreshPcs
<1>2. QED
  BY <1>1, CalmCounts

LEMMA UserCounts == ASSUME IInv, Struct, CInv, NEW p \in Proc, User(p) PROVE CInv'
<1>1. ASSUME NEW va \in Va, TlbFill(p, va) PROVE CInv'
  BY <1>1, QuietCounts DEF TlbFill, mm, pt, kt, loc
<1>2. Yield(p) => CInv'
  BY QuietCounts DEF Yield, mm, pt, kt, loc
<1>3. ASSUME NEW va \in Va, NEW v \in Val, UserWrite(p, va, v) PROVE CInv'
  BY <1>3, QuietCounts DEF UserWrite, mm, pt, kt, loc
<1> DEFINE Enters(ls) == /\ pc[p] = "user" /\ Elsewhere(p) /\ pc'[p] \in ls
                         /\ UNCHANGED <<freelist, rc, ref, perm, side>>
<1>4. ASSUME NEW va \in Va, NEW w \in BOOLEAN, NEW usr \in BOOLEAN, PageFault(p, va, w, usr)
      PROVE  CInv'
  <2>1. CASE Panic("pagefault handler")
    BY <2>1, PanicCounts
  <2>2. CASE ~Panic("pagefault handler")
    <3>1. Enters({"pf_alloc"})
      BY <1>4, <2>2, Types DEF PageFault, At, Goto, ThreadOK, Elsewhere, mm, pt
    <3>2. QED
      BY <3>1, EnterCounts DEF FreshPcs
  <2>3. QED
    BY <2>1, <2>2
<1>5. ForkStart(p) => CInv'
  <2>1. ForkStart(p) => Enters({"f_kstack"})
    BY Types DEF ForkStart, At, Goto, ThreadOK, Elsewhere, mm
  <2>2. QED
    BY <2>1, EnterCounts DEF FreshPcs
<1>6. ASSUME NEW n \in 1 .. NVa, SbrkGrow(p, n) PROVE CInv'
  <2>1. Enters({"a_alloc"})
    BY <1>6, StartAllocSame, Stays, Types DEF SbrkGrow, At, mm, pt
  <2>2. QED
    BY <2>1, EnterCounts DEF FreshPcs
<1>7. ASSUME NEW n \in -NVa .. -1, SbrkShrink(p, n) PROVE CInv'
  <2>1. Enters({"dv"})
    BY <1>7, StartDeallocSame, Stays, Types DEF SbrkShrink, At, mm, pt
  <2>2. QED
    BY <2>1, EnterCounts DEF FreshPcs
<1>8. SbrkAll(p) => CInv'
  <2>1. SbrkAll(p) => Enters({"dv"})
    BY StartDeallocSame, Stays, Types DEF SbrkAll, At, mm, pt
  <2>2. QED
    BY <2>1, EnterCounts DEF FreshPcs
<1>9. ASSUME NEW n \in 1 .. NVa - 1, ExecStart(p, n) PROVE CInv'
  <2>1. Enters({"s_pgdir"})
    BY <1>9, Types DEF ExecStart, At, Goto, ThreadOK, Elsewhere, mm, pt
  <2>2. QED
    BY <2>1, EnterCounts DEF FreshPcs
<1>10. Exit(p) => CInv'
  <2>1. CASE Panic("init exiting")
    BY <2>1, PanicCounts
  <2>2. ASSUME Exit(p), ~Panic("init exiting") PROVE CInv'
    <3>1. Jump(p, "idle") /\ pc[p] = "user" /\ "idle" \in Pcs /\ UNCHANGED <<mm, side>>
      BY <2>2 DEF Exit, At, Pcs
    <3>2. Enters({"idle"})
      BY <3>1, JumpStays DEF mm
    <3>3. QED
      BY <3>2, EnterCounts DEF FreshPcs
  <2>3. QED
    BY <2>1, <2>2
<1>11. Wait(p) => CInv'
  <2>1. Wait(p) => Enters({"w_kstack"})
    <3> SUFFICES ASSUME Wait(p) PROVE Enters({"w_kstack"})
      OBVIOUS
    <3>1. PICK c \in Proc : tgt' = [tgt EXCEPT ![p] = <<c, side[c]>>]
      BY DEF Wait
    <3>2. QED
      BY <3>1, Types DEF Wait, At, Goto, ThreadOK, Elsewhere, mm
  <2>2. QED
    BY <2>1, EnterCounts DEF FreshPcs
<1>12. QED
  BY <1>1, <1>2, <1>3, <1>4, <1>5, <1>6, <1>7, <1>8, <1>9, <1>10, <1>11 DEF User

-----------------------------------------------------------------------------
(* The whole specification.                                                *)

LEMMA InitCounts == Init => CInv
<1> SUFFICES ASSUME Init PROVE CInv
  OBVIOUS
<1>1. /\ \A s \in Slot : ref[s] = None
      /\ freelist = Page /\ \A pg \in Page : rc[pg] = 0
      /\ \A q \in Proc : pc[q] # "f_map"
  BY DEF Init
<1>2. Eff = [s \in Slot |-> None]
  BY <1>1 DEF Eff
<1>3. \A pg \in Page : Places(Eff, pg) = {}
  BY <1>2, PageAssumption DEF Places
<1>4. Counts(Eff, rc, freelist)
  BY <1>1, <1>3, FS_EmptySet DEF Counts
<1>5. Sole(Eff, Exclusive)
  <2>1. Exclusive \subseteq Slot
    BY AloneIff DEF Exclusive
  <2>2. QED
    BY <1>2, <2>1 DEF Sole
<1>6. QED
  BY <1>1, <1>4, <1>5 DEF CInv, Shared

LEMMA KernelCounts == ASSUME IInv, Struct, CInv, NEW p \in Proc, Kernel(p) PROVE CInv'
<1>1. Fault(p) => CInv'
  BY FaultAllocCounts, FaultCopyCounts, FaultFreeCounts, FaultMapCounts DEF Fault
<1>2. Setup(p) => CInv'
  BY SetupPgdirCounts, SetupKpdeCounts DEF Setup
<1>3. Boot(p) => CInv'
  BY BootKstackCounts, BootUvmCounts, BootMapCounts DEF Boot
<1>4. Fork(p) => CInv'
  BY ForkKstackCounts, ForkCopyCounts, ForkMapCounts, ForkUnrefCounts, ForkFailCounts,
     ForkDoneCounts DEF Fork
<1>5. Dealloc(p) => CInv'
  BY DeallocStepCounts, DeallocClearCounts, DeallocDoneCounts, FreeTabCounts DEF Dealloc
<1>6. Alloc(p) => CInv'
  BY AllocPageCounts, AllocMapCounts, AllocFreeCounts, AllocDoneCounts, GrowDoneCounts DEF Alloc
<1>7. Exec(p) => CInv'
  BY ExecLoadCounts, ExecStackCounts, ExecBadCounts DEF Exec
<1>8. Reap(p) => CInv'
  BY WaitKstackCounts, WaitDoneCounts DEF Reap
<1>9. QED
  BY <1>1, <1>2, <1>3, <1>4, <1>5, <1>6, <1>7, <1>8 DEF Kernel

LEMMA NextCounts == IInv /\ Struct /\ CInv /\ [Next]_vars => CInv'
<1> SUFFICES ASSUME IInv, Struct, CInv, [Next]_vars PROVE CInv'
  OBVIOUS
<1>1. CASE UNCHANGED vars
  BY <1>1, QuietCounts DEF vars
<1>2. CASE Halted
  BY <1>1, <1>2 DEF Halted
<1>3. ASSUME NEW p \in Proc, Kernel(p) \/ User(p) PROVE CInv'
  BY <1>3, KernelCounts, UserCounts
<1>4. QED
  BY <1>1, <1>2, <1>3 DEF Next

\* The inductive invariant: counts count references, pages that may be stored
\* to are alone, and every slot is filled at its labels only.
THEOREM CountInvariance == Spec => [](IInv /\ Struct /\ CInv)
<1>1. Init => IInv /\ Struct /\ CInv
  BY InitIInv, InitStruct, InitCounts
<1>2. (IInv /\ Struct /\ CInv) /\ [Next]_vars => (IInv /\ Struct /\ CInv)'
  BY NextIInv, NextStruct, NextCounts
<1>3. QED
  BY <1>1, <1>2, PTL DEF Spec

\* refcount.count[pg] is the number of places that name the page, and a page
\* is on the free list exactly when there is none: no page is freed while it
\* is used, and none is lost, whatever forks, faults, exits and failures
\* interleave.
THEOREM CountsAreRight == Spec => []RefCounted
<1>1. IInv /\ Struct /\ CInv => RefCounted
  BY CountsRefs
<1>2. QED
  BY <1>1, CountInvariance, PTL

\* Copy-on-write: an entry with PTE_W is the only reference to its page, so a
\* store through it is seen by nobody else.
THEOREM WritersAreAlone == Spec => []WritableIsExclusive
<1>1. IInv /\ Struct /\ CInv => WritableIsExclusive
  BY CountsRefs
<1>2. QED
  BY <1>1, CountInvariance, PTL
=============================================================================
