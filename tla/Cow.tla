--------------------------------- MODULE Cow ---------------------------------
(***************************************************************************)
(* Copy-on-write virtual memory of the xv6 kernel in os/memory-assignment: *)
(* the page allocator and its reference counts (kalloc.c), the page tables *)
(* (vm.c), and the paths of fork, exec, sbrk, exit, wait and the page      *)
(* fault handler that change them (proc.c, exec.c, trap.c).                *)
(*                                                                         *)
(* A process runs user code (pc = "user") or is inside the kernel, at the  *)
(* label pc[p] of one kernel path.  Every step is one critical section of  *)
(* kmem.lock / refcount.lock, or one access to memory that another process *)
(* may share, so that all interleavings of processes on several CPUs (and  *)
(* of preempted kernel threads) are behaviours.  Sizes and addresses are   *)
(* counted in pages.                                                       *)
(***************************************************************************)
EXTENDS Integers, FiniteSets

CONSTANTS
  NPROC,      \* slots of ptable.proc; slot 0 is initproc
  Page,       \* physical pages handed to the allocator by kinit2
  NVa,        \* user virtual pages below KERNBASE
  NPTE,       \* page table entries in one page table (NPTENTRIES)
  NTLB,       \* translations a CPU's TLB can hold
  NKPDE,      \* page tables that map the kernel half (setupkvm)
  Val,        \* what user code writes to a page
  Calls,      \* what user programs do: see CallsAssumption
  Pick(_),    \* Pick(S): the free pages of S that kalloc may hand out
  None

Proc  == 0 .. NPROC - 1
InitProc == 0
Va    == 0 .. NVa - 1
PDX(va) == va \div NPTE
UPde  == {PDX(va) : va \in Va}
KPde  == NVa .. NVa + NKPDE - 1
Pde   == UPde \cup KPde
Data  == Val \cup {"zero", "junk", "img", "arg"}

ASSUME SizeAssumption ==
  /\ NPROC \in Nat \ {0}
  /\ NVa \in Nat \ {0}
  /\ NPTE \in Nat \ {0}
  /\ NKPDE \in Nat \ {0}
  /\ NTLB \in Nat
ASSUME PageAssumption == IsFiniteSet(Page) /\ None \notin Page
ASSUME NoneAssumption == None \notin Proc
ASSUME NoMemoryAssumption == \A n \in 0 .. NVa : None \notin [0 .. n - 1 -> Data]
ASSUME PickAssumption ==
  \A S \in SUBSET Page : Pick(S) \subseteq S /\ (S # {} => Pick(S) # {})
\* "sbrk_all": sbrk may be asked to give back the whole address space;
\* "stray": user code may touch addresses that are not its own.
ASSUME CallsAssumption ==
  Calls \subseteq {"fork", "exec", "sbrk", "sbrk_all", "exit", "stray"}

(***************************************************************************)
(* A space is one page directory.  A process has two names for spaces: the *)
(* one it runs on and the one that exec builds to replace it.              *)
(***************************************************************************)
Space == Proc \X {0, 1}

(***************************************************************************)
(* The places where the kernel keeps the address of a page: p->kstack, the *)
(* page directory, its entries, the page table entries, and the local      *)
(* variable of a kernel path that owns a page for a while (mem, pa).       *)
(***************************************************************************)
KStack(p)  == <<"kstack", <<p, 0>>, 0>>
Mem(p)     == <<"mem", <<p, 0>>, 0>>
PgDir(s)   == <<"pgdir", s, 0>>
PDE(s, i)  == <<"pde", s, i>>
PTE(s, va) == <<"pte", s, va>>
Slot == ({"kstack", "mem"} \X (Proc \X {0}) \X {0})
        \cup ({"pgdir"} \X Space \X {0})
        \cup ({"pde"} \X Space \X Pde)
        \cup ({"pte"} \X Space \X Va)

VARIABLES
  freelist,  \* kmem.freelist, as a set
  rc,        \* refcount.count
  ref,       \* the page each slot names, or None (a PTE's PTE_P bit)
  perm,      \* PTE_W, PTE_U and PTE_COW_W of each page table entry
  data,      \* what each page contains
  state,     \* p->state; RUNNABLE, RUNNING and SLEEPING are "LIVE"
  parent,    \* p->parent
  sz,        \* p->sz
  side,      \* which of its two spaces p->pgdir is
  ptlock,    \* the holder of ptable.lock across steps, or None
  pc, tgt, cur, lo, hi, ret,  \* kernel thread: label, space, cursor, bounds
                              \* and label to continue at
  tlb,       \* translations the CPU running p has cached
  panicked   \* the message of panic(), or "no"

mm   == <<freelist, rc, ref, perm, data>>
pt   == <<state, parent, sz, side, ptlock>>
loc  == <<tgt, cur, lo, hi, ret>>
kt   == <<pc, loc>>
vars == <<freelist, rc, ref, perm, data, state, parent, sz, side, ptlock,
          pc, tgt, cur, lo, hi, ret, tlb, panicked>>

Own(p)   == <<p, side[p]>>
Other(p) == <<p, 1 - side[p]>>
NoTlb    == [va \in Va |-> None]

Pcs == {"idle", "user",
        "b_kstack", "b_uvm", "b_map",
        "f_kstack", "f_copy", "f_map", "f_unref", "f_fail",
        "s_pgdir", "s_kpde",
        "a_alloc", "a_map", "a_free",
        "dv", "dv_clear", "fv_tab",
        "g_done", "w_kstack", "w_done",
        "x_load", "x_stack", "x_bad",
        "pf_alloc", "pf_copy", "pf_free", "pf_map"}

Panics == {"kfree", "incrementRefCount", "remap", "copyuvm: page not present",
           "userinit", "pagefault handler", "pagefault out of memory",
           "init exiting"}

MemOK ==
  /\ freelist \in SUBSET Page
  /\ rc \in [Page -> Nat]
  /\ ref \in [Slot -> Page \cup {None}]
  /\ perm \in [Space -> [Va -> SUBSET {"W", "U", "COW"}]]
  /\ data \in [Page -> Data]

ProcOK ==
  /\ state \in [Proc -> {"UNUSED", "EMBRYO", "LIVE", "ZOMBIE"}]
  /\ parent \in [Proc -> Proc \cup {None}]
  /\ sz \in [Proc -> 0 .. NVa]
  /\ side \in [Proc -> {0, 1}]
  /\ ptlock \in Proc \cup {None}

ThreadOK ==
  /\ pc \in [Proc -> Pcs]
  /\ tgt \in [Proc -> Space]
  /\ cur \in [Proc -> Nat]
  /\ lo \in [Proc -> 0 .. NVa]
  /\ hi \in [Proc -> 0 .. NVa]
  /\ ret \in [Proc -> Pcs]

CpuOK ==
  /\ tlb \in [Proc -> [Va -> (Page \X SUBSET {"W", "U", "COW"}) \cup {None}]]
  /\ panicked \in Panics \cup {"no"}

TypeOK == MemOK /\ ProcOK /\ ThreadOK /\ CpuOK

\* The machine after kinit2: every page is free, and userinit is about to run.
Init ==
  /\ freelist = Page
  /\ rc = [pg \in Page |-> 0]
  /\ ref = [s \in Slot |-> None]
  /\ perm = [s \in Space |-> [va \in Va |-> {}]]
  /\ data = [pg \in Page |-> "junk"]
  /\ state = [p \in Proc |-> IF p = InitProc THEN "EMBRYO" ELSE "UNUSED"]
  /\ parent = [p \in Proc |-> None]
  /\ sz = [p \in Proc |-> 0]
  /\ side = [p \in Proc |-> 0]
  /\ ptlock = None
  /\ pc = [p \in Proc |-> IF p = InitProc THEN "b_kstack" ELSE "idle"]
  /\ tgt = [p \in Proc |-> <<p, 0>>]
  /\ cur = [p \in Proc |-> 0]
  /\ lo = [p \in Proc |-> 0]
  /\ hi = [p \in Proc |-> 0]
  /\ ret = [p \in Proc |-> "idle"]
  /\ tlb = [p \in Proc |-> NoTlb]
  /\ panicked = "no"

-----------------------------------------------------------------------------
(* Building blocks.                                                        *)

At(p, l)  == panicked = "no" /\ pc[p] = l
Goto(p, l) == pc' = [pc EXCEPT ![p] = l]

\* Leave the current function for label l; the kernel's local variables do not
\* outlive a system call or trap.
Jump(p, l) ==
  /\ Goto(p, l)
  /\ IF l = "user"
     THEN /\ tgt' = [tgt EXCEPT ![p] = <<p, 0>>]
          /\ cur' = [cur EXCEPT ![p] = 0]
          /\ lo' = [lo EXCEPT ![p] = 0]
          /\ hi' = [hi EXCEPT ![p] = 0]
          /\ ret' = [ret EXCEPT ![p] = "idle"]
     ELSE UNCHANGED loc

Panic(msg) == panicked' = msg /\ UNCHANGED <<mm, pt, kt, tlb>>

\* kalloc returns page pg, with reference count 1.
Kalloc(pg) ==
  /\ pg \in Pick(freelist)
  /\ freelist' = freelist \ {pg}
  /\ rc' = [rc EXCEPT ![pg] = 1]

Kfree_Unconditional(pg) ==
  /\ rc' = [rc EXCEPT ![pg] = @ - 1]
  /\ freelist' = freelist \cup {pg}
  /\ data' = [data EXCEPT ![pg] = "junk"]

\* kfree gives up one reference; the last one fills the page with junk and
\* puts it on the free list.
Kfree(pg) ==
  /\ rc' = [rc EXCEPT ![pg] = @ - 1]
  /\ freelist' = IF rc[pg] = 1 THEN freelist \cup {pg} ELSE freelist
  /\ data' = IF rc[pg] = 1 THEN [data EXCEPT ![pg] = "junk"] ELSE data

IncrementRefCount_Forgotten(pg) == rc' = rc /\ pg \in Page
IncrementRefCount_Two(pg) == rc' = [rc EXCEPT ![pg] = 2]
IncrementRefCount(pg) == rc' = [rc EXCEPT ![pg] = @ + 1]

\* kfree of the page in slot s, the caller forgetting it when drop holds.
\* kfree panics on a null page and on a count that goes below zero.
Kfreeable(s) == ref[s] # None /\ rc[ref[s]] > 0
KfreeSlot(s, drop) ==
  /\ Kfreeable(s)
  /\ Kfree(ref[s])
  /\ ref' = IF drop THEN [ref EXCEPT ![s] = None] ELSE ref
KfreePanic(s) == ~Kfreeable(s) /\ Panic("kfree")

\* lcr3 in switchuvm, switchkvm and copyuvm.
Flush_Forgotten(p) == UNCHANGED tlb /\ p \in Proc
Flush(p) == tlb' = [tlb EXCEPT ![p] = NoTlb]

\* Start deallocuvm on space s over the pages l .. h - 1, then go on at r.
StartDealloc(p, s, l, h, r) ==
  /\ Goto(p, "dv")
  /\ tgt' = [tgt EXCEPT ![p] = s]
  /\ lo' = [lo EXCEPT ![p] = l]
  /\ hi' = [hi EXCEPT ![p] = h]
  /\ cur' = [cur EXCEPT ![p] = l]
  /\ ret' = [ret EXCEPT ![p] = r]

\* freevm on space s: deallocuvm(pgdir, KERNBASE, 0), then the page tables.
StartFreevm(p, s) == StartDealloc(p, s, 0, NVa, "fv_tab")

\* Start allocuvm on space s from l to h pages, success going on at r.
StartAlloc(p, s, l, h, r) ==
  /\ Goto(p, "a_alloc")
  /\ tgt' = [tgt EXCEPT ![p] = s]
  /\ lo' = [lo EXCEPT ![p] = l]
  /\ hi' = [hi EXCEPT ![p] = h]
  /\ cur' = [cur EXCEPT ![p] = l]
  /\ ret' = [ret EXCEPT ![p] = r]

\* growproc returns -1 to the user; exec goes to its "bad" label.
AllocFailed(p) == IF tgt[p] = Own(p) THEN "user" ELSE "x_bad"

\* mappages of the page in Mem(p) at address va of space s with flags fl:
\* walkpgdir allocates the page table when the directory entry is empty.
WalkOK(s, va) == ref[PDE(s, PDX(va))] # None \/ freelist # {}
Mappages(p, s, va, fl) ==
  /\ ref[PTE(s, va)] = None
  /\ \/ /\ ref[PDE(s, PDX(va))] # None
        /\ ref' = [ref EXCEPT ![PTE(s, va)] = ref[Mem(p)], ![Mem(p)] = None]
        /\ UNCHANGED <<freelist, rc>>
     \/ /\ ref[PDE(s, PDX(va))] = None
        /\ \E pg \in freelist :
             /\ Kalloc(pg)
             /\ ref' = [ref EXCEPT ![PTE(s, va)] = ref[Mem(p)],
                                   ![Mem(p)] = None,
                                   ![PDE(s, PDX(va))] = pg]
  /\ perm' = [perm EXCEPT ![s][va] = fl]
  /\ UNCHANGED data
Remap(s, va) == ref[PTE(s, va)] # None /\ Panic("remap")

-----------------------------------------------------------------------------
(* setupkvm: a page directory and the page tables of the kernel half.      *)

SetupPgdir(p) ==
  /\ At(p, "s_pgdir")
  /\ \/ \E pg \in freelist :
          /\ Kalloc(pg)
          /\ ref' = [ref EXCEPT ![PgDir(tgt[p])] = pg]
          /\ cur' = [cur EXCEPT ![p] = NVa]
          /\ Goto(p, "s_kpde")
          /\ UNCHANGED <<perm, data, pt, tgt, lo, hi, ret, tlb, panicked>>
     \/ /\ freelist = {} /\ state[p] = "EMBRYO"
        /\ Panic("userinit")
     \/ /\ freelist = {} /\ state[p] # "EMBRYO"
        /\ Jump(p, IF tgt[p][1] = p THEN "user" ELSE "f_fail")
        /\ UNCHANGED <<mm, pt, tlb, panicked>>

\* setupkvm returns to userinit, to exec or to copyuvm.
AfterSetup(p) == IF state[p] = "EMBRYO" THEN "b_uvm"
                 ELSE IF tgt[p][1] = p THEN "a_alloc" ELSE "f_copy"

SetupKpde(p) ==
  /\ At(p, "s_kpde")
  /\ \/ \E pg \in freelist :
          /\ Kalloc(pg)
          /\ ref' = [ref EXCEPT ![PDE(tgt[p], cur[p])] = pg]
          /\ \/ /\ cur[p] < NVa + NKPDE - 1
                /\ cur' = [cur EXCEPT ![p] = @ + 1]
                /\ pc' = pc
             \/ /\ cur[p] = NVa + NKPDE - 1
                /\ cur' = [cur EXCEPT ![p] = 0]
                /\ Goto(p, AfterSetup(p))
          /\ UNCHANGED <<perm, data, pt, tgt, lo, hi, ret, tlb, panicked>>
     \/ /\ freelist = {} /\ state[p] = "EMBRYO"
        /\ Panic("userinit")
     \/ /\ freelist = {} /\ state[p] # "EMBRYO"
        /\ StartFreevm(p, tgt[p])
        /\ UNCHANGED <<mm, pt, tlb, panicked>>

-----------------------------------------------------------------------------
(* userinit: the first process, with one page of initcode.                 *)

BootKstack(p) ==
  /\ At(p, "b_kstack")
  /\ \/ \E pg \in freelist :
          /\ Kalloc(pg)
          /\ ref' = [ref EXCEPT ![KStack(p)] = pg]
          /\ Jump(p, "s_pgdir")
          /\ UNCHANGED <<perm, data, pt, tlb, panicked>>
     \/ freelist = {} /\ Panic("userinit")

BootUvm(p) ==
  /\ At(p, "b_uvm")
  /\ \/ \E pg \in freelist :
          /\ Kalloc(pg)
          /\ ref' = [ref EXCEPT ![Mem(p)] = pg]
          /\ data' = [data EXCEPT ![pg] = "img"]
          /\ Jump(p, "b_map")
          /\ UNCHANGED <<perm, pt, tlb, panicked>>
     \/ freelist = {} /\ Panic("userinit")

BootMap(p) ==
  /\ At(p, "b_map")
  /\ \/ /\ WalkOK(tgt[p], 0)
        /\ Mappages(p, tgt[p], 0, {"W", "U"})
        /\ state' = [state EXCEPT ![p] = "LIVE"]
        /\ sz' = [sz EXCEPT ![p] = 1]
        /\ Jump(p, "user")
        /\ UNCHANGED <<parent, side, ptlock, tlb, panicked>>
     \/ ~WalkOK(tgt[p], 0) /\ Panic("userinit")
     \/ Remap(tgt[p], 0)

-----------------------------------------------------------------------------
(* User code and the MMU.                                                  *)

\* Does entry e = <<page, flags>> allow an access, a store when w?  Kernel code
\* may touch pages without PTE_U, but not store to one without PTE_W, because
\* entry.S sets CR0_WP.
Allows(e, w, usr) ==
  /\ e # None
  /\ w => "W" \in e[2]
  /\ usr => "U" \in e[2]

\* An access by user code, or by a system call on its behalf, makes the CPU
\* cache the translation.
TlbFill(p, va) ==
  /\ At(p, "user")
  /\ ref[PTE(Own(p), va)] # None
  /\ tlb[p][va] = None
  /\ Cardinality({a \in Va : tlb[p][a] # None}) < NTLB
  /\ tlb' = [tlb EXCEPT ![p][va] = <<ref[PTE(Own(p), va)], perm[Own(p)][va]>>]
  /\ UNCHANGED <<mm, pt, kt, panicked>>

\* yield: the scheduler loads kpgdir and later p's space again.
Yield(p) ==
  /\ panicked = "no" /\ state[p] = "LIVE" /\ ptlock = None
  /\ tlb[p] # NoTlb
  /\ Flush(p)
  /\ UNCHANGED <<mm, pt, kt, panicked>>

\* A store by user code, through the cached translation.
UserWrite(p, va, v) ==
  /\ At(p, "user")
  /\ Allows(tlb[p][va], TRUE, TRUE)
  /\ data' = [data EXCEPT ![tlb[p][va][1]] = v]
  /\ UNCHANGED <<freelist, rc, ref, perm, pt, kt, tlb, panicked>>

Entry(s, va) ==
  IF ref[PTE(s, va)] = None THEN None ELSE <<ref[PTE(s, va)], perm[s][va]>>

Translation(p, va) ==
  IF tlb[p][va] # None THEN tlb[p][va] ELSE Entry(Own(p), va)

\* The page fault trap of an access by p at va: handle_pgflt_helper up to its
\* call of kalloc.  System calls check their buffers against sz (argptr), so
\* kernel code touches only va < sz[p].
PageFault(p, va, w, usr) ==
  /\ At(p, "user")
  /\ ~usr => va < sz[p]
  /\ ~Allows(Translation(p, va), w, usr)
  /\ "stray" \in Calls \/ (Entry(Own(p), va) # None /\ "U" \in perm[Own(p)][va])
  /\ LET s == Own(p) IN
     \/ /\ \/ ref[PDE(s, PDX(va))] = None
           \/ "U" \notin perm[s][va]
           \/ ref[PTE(s, va)] = None
           \/ perm[s][va] \cap {"W", "COW"} = {}
        /\ Panic("pagefault handler")
     \/ /\ ref[PDE(s, PDX(va))] # None
        /\ "U" \in perm[s][va]
        /\ ref[PTE(s, va)] # None
        /\ perm[s][va] \cap {"W", "COW"} # {}
        /\ Goto(p, "pf_alloc")
        /\ tgt' = [tgt EXCEPT ![p] = s]
        /\ cur' = [cur EXCEPT ![p] = va]
        /\ UNCHANGED <<mm, pt, lo, hi, ret, tlb, panicked>>

FaultAlloc(p) ==
  /\ At(p, "pf_alloc")
  /\ \/ \E pg \in freelist :
          /\ Kalloc(pg)
          /\ ref' = [ref EXCEPT ![Mem(p)] = pg]
          /\ Jump(p, "pf_copy")
          /\ UNCHANGED <<perm, data, pt, tlb, panicked>>
     \/ freelist = {} /\ Panic("pagefault out of memory")

FaultCopy(p) ==
  /\ At(p, "pf_copy")
  /\ data' = [data EXCEPT ![ref[Mem(p)]] = data[ref[PTE(tgt[p], cur[p])]]]
  /\ Jump(p, "pf_free")
  /\ UNCHANGED <<freelist, rc, ref, perm, pt, tlb, panicked>>

\* kfree(P2V(pa)): until FaultMap the entry still names a page that p no
\* longer counts on.
FaultFree(p) ==
  /\ At(p, "pf_free")
  /\ \/ /\ KfreeSlot(PTE(tgt[p], cur[p]), FALSE)
        /\ Jump(p, "pf_map")
        /\ UNCHANGED <<perm, pt, tlb, panicked>>
     \/ KfreePanic(PTE(tgt[p], cur[p]))

\* The new entry, and switchuvm, which reloads cr3.
FaultMap(p) ==
  /\ At(p, "pf_map")
  /\ ref' = [ref EXCEPT ![PTE(tgt[p], cur[p])] = ref[Mem(p)],
                        ![Mem(p)] = None]
  /\ perm' = [perm EXCEPT ![tgt[p]][cur[p]] = {"W", "U"}]
  /\ Flush(p)
  /\ Jump(p, "user")
  /\ UNCHANGED <<freelist, rc, data, pt, panicked>>

-----------------------------------------------------------------------------
(* fork                                                                    *)

\* allocproc takes the first unused slot; without one fork returns -1.
ForkStart(p) ==
  /\ At(p, "user") /\ "fork" \in Calls /\ ptlock = None
  /\ \E np \in Proc :
       /\ state[np] = "UNUSED"
       /\ \A q \in 0 .. np - 1 : state[q] # "UNUSED"
       /\ state' = [state EXCEPT ![np] = "EMBRYO"]
       /\ tgt' = [tgt EXCEPT ![p] = <<np, side[np]>>]
  /\ Goto(p, "f_kstack")
  /\ UNCHANGED <<mm, parent, sz, side, ptlock, cur, lo, hi, ret, tlb, panicked>>

ForkKstack(p) ==
  /\ At(p, "f_kstack")
  /\ LET np == tgt[p][1] IN
     \/ \E pg \in freelist :
          /\ Kalloc(pg)
          /\ ref' = [ref EXCEPT ![KStack(np)] = pg]
          /\ Jump(p, "s_pgdir")
          /\ UNCHANGED <<perm, data, pt, tlb, panicked>>
     \/ /\ freelist = {}
        /\ state' = [state EXCEPT ![np] = "UNUSED"]
        /\ Jump(p, "user")
        /\ UNCHANGED <<mm, parent, sz, side, ptlock, tlb, panicked>>

CowFlags_KeepW(fl) == fl \cup {"COW"}

\* What copyuvm leaves of an entry's flags.
CowFlags(fl) == (fl \ {"W"}) \cup {"COW"}

\* copyuvm, one page: the parent's entry loses PTE_W and gains PTE_COW_W, the
\* page gains a reference, and lcr3 flushes the parent's TLB.
ForkCopy(p) ==
  /\ At(p, "f_copy") /\ cur[p] < sz[p]
  /\ LET e == PTE(Own(p), cur[p]) IN
     \/ /\ ref[e] # None /\ rc[ref[e]] > 0
        /\ perm' = [perm EXCEPT ![Own(p)][cur[p]] = CowFlags(@)]
        /\ IncrementRefCount(ref[e])
        /\ ref' = [ref EXCEPT ![Mem(p)] = ref[e]]
        /\ Flush(p)
        /\ Jump(p, "f_map")
        /\ UNCHANGED <<freelist, data, pt, panicked>>
     \/ ref[e] = None /\ Panic("copyuvm: page not present")
     \/ /\ ref[e] # None /\ rc[ref[e]] = 0
        /\ Panic("incrementRefCount")

ForkMap(p) ==
  /\ At(p, "f_map")
  /\ \/ /\ WalkOK(tgt[p], cur[p])
        /\ Mappages(p, tgt[p], cur[p], perm[Own(p)][cur[p]])
        /\ cur' = [cur EXCEPT ![p] = @ + 1]
        /\ Goto(p, "f_copy")
        /\ UNCHANGED <<pt, tgt, lo, hi, ret, tlb, panicked>>
     \/ /\ ~WalkOK(tgt[p], cur[p])
        /\ Jump(p, "f_unref")
        /\ UNCHANGED <<mm, pt, tlb, panicked>>
     \/ Remap(tgt[p], cur[p])

ForkUnref_Skipped(p) ==
  /\ At(p, "f_unref")
  /\ StartFreevm(p, tgt[p])
  /\ UNCHANGED <<mm, pt, tlb, panicked>>

\* mappages failed: give the page's new reference back, then freevm(d).
ForkUnref(p) ==
  /\ At(p, "f_unref")
  /\ \/ /\ KfreeSlot(Mem(p), TRUE)
        /\ StartFreevm(p, tgt[p])
        /\ UNCHANGED <<perm, pt, tlb, panicked>>
     \/ KfreePanic(Mem(p))

ForkFail(p) ==
  /\ At(p, "f_fail")
  /\ LET np == tgt[p][1] IN
     \/ /\ KfreeSlot(KStack(np), TRUE)
        /\ state' = [state EXCEPT ![np] = "UNUSED"]
        /\ Jump(p, "user")
        /\ UNCHANGED <<perm, parent, sz, side, ptlock, tlb, panicked>>
     \/ KfreePanic(KStack(np))

\* Every page is shared: the child becomes RUNNABLE.
ForkDone(p) ==
  /\ At(p, "f_copy") /\ cur[p] >= sz[p] /\ ptlock = None
  /\ LET np == tgt[p][1] IN
     /\ sz' = [sz EXCEPT ![np] = sz[p]]
     /\ parent' = [parent EXCEPT ![np] = p]
     /\ state' = [state EXCEPT ![np] = "LIVE"]
     /\ pc' = [pc EXCEPT ![p] = "user", ![np] = "user"]
  /\ tgt' = [tgt EXCEPT ![p] = <<p, 0>>]
  /\ cur' = [cur EXCEPT ![p] = 0]
  /\ UNCHANGED <<mm, side, ptlock, lo, hi, ret, tlb, panicked>>

-----------------------------------------------------------------------------
(* deallocuvm and freevm                                                   *)

NextTable_Stuck(a) == PDX(a) * NPTE

\* PGADDR(PDX(a) + 1, 0, 0): the first address of the next page table.
NextTable(a) == (PDX(a) + 1) * NPTE

DeallocStep(p) ==
  /\ At(p, "dv") /\ cur[p] < hi[p]
  /\ LET s == tgt[p]  a == cur[p] IN
     \/ /\ ref[PDE(s, PDX(a))] = None
        /\ cur' = [cur EXCEPT ![p] = NextTable(a)]
        /\ UNCHANGED <<mm, pt, pc, tgt, lo, hi, ret, tlb, panicked>>
     \/ /\ ref[PDE(s, PDX(a))] # None /\ ref[PTE(s, a)] = None
        /\ cur' = [cur EXCEPT ![p] = a + 1]
        /\ UNCHANGED <<mm, pt, pc, tgt, lo, hi, ret, tlb, panicked>>
     \/ /\ ref[PDE(s, PDX(a))] # None /\ ref[PTE(s, a)] # None
        /\ KfreeSlot(PTE(s, a), FALSE)
        /\ Jump(p, "dv_clear")
        /\ UNCHANGED <<perm, pt, tlb, panicked>>
     \/ /\ ref[PDE(s, PDX(a))] # None /\ ref[PTE(s, a)] # None
        /\ KfreePanic(PTE(s, a))

DeallocClear_Forgotten(p) ==
  /\ At(p, "dv_clear")
  /\ cur' = [cur EXCEPT ![p] = @ + 1]
  /\ Goto(p, "dv")
  /\ UNCHANGED <<mm, pt, tgt, lo, hi, ret, tlb, panicked>>

\* *pte = 0, after the page has been given back.
DeallocClear(p) ==
  /\ At(p, "dv_clear")
  /\ ref' = [ref EXCEPT ![PTE(tgt[p], cur[p])] = None]
  /\ perm' = [perm EXCEPT ![tgt[p]][cur[p]] = {}]
  /\ cur' = [cur EXCEPT ![p] = @ + 1]
  /\ Goto(p, "dv")
  /\ UNCHANGED <<freelist, rc, data, pt, tgt, lo, hi, ret, tlb, panicked>>

DeallocDone(p) ==
  /\ At(p, "dv") /\ cur[p] >= hi[p]
  /\ Jump(p, ret[p])
  /\ UNCHANGED <<mm, pt, tlb, panicked>>

\* freevm returns to exec, to wait or to fork's failure path.
AfterFreevm(p) == IF tgt[p][1] = p THEN "user"
                  ELSE IF state[tgt[p][1]] = "ZOMBIE" THEN "w_done" ELSE "f_fail"

FreeTab(p) ==
  /\ At(p, "fv_tab")
  /\ LET s == tgt[p]
         present == {i \in Pde : ref[PDE(s, i)] # None} IN
     \/ \E i \in present :
          /\ \A j \in present : i <= j
          /\ KfreeSlot(PDE(s, i), TRUE)
          /\ UNCHANGED <<perm, pt, kt, tlb, panicked>>
     \/ \E i \in present : KfreePanic(PDE(s, i))
     \/ /\ present = {}
        /\ KfreeSlot(PgDir(s), TRUE)
        /\ Jump(p, AfterFreevm(p))
        /\ UNCHANGED <<perm, pt, tlb, panicked>>
     \/ present = {} /\ KfreePanic(PgDir(s))

-----------------------------------------------------------------------------
(* allocuvm                                                                *)

AllocPage(p) ==
  /\ At(p, "a_alloc") /\ cur[p] < hi[p]
  /\ \/ \E pg \in freelist :
          /\ Kalloc(pg)
          /\ ref' = [ref EXCEPT ![Mem(p)] = pg]
          /\ data' = [data EXCEPT ![pg] = "zero"]
          /\ Jump(p, "a_map")
          /\ UNCHANGED <<perm, pt, tlb, panicked>>
     \/ /\ freelist = {}
        /\ StartDealloc(p, tgt[p], lo[p], hi[p], AllocFailed(p))
        /\ UNCHANGED <<mm, pt, tlb, panicked>>

AllocMap(p) ==
  /\ At(p, "a_map")
  /\ \/ /\ WalkOK(tgt[p], cur[p])
        /\ Mappages(p, tgt[p], cur[p], {"W", "U"})
        /\ cur' = [cur EXCEPT ![p] = @ + 1]
        /\ Goto(p, "a_alloc")
        /\ UNCHANGED <<pt, tgt, lo, hi, ret, tlb, panicked>>
     \/ /\ ~WalkOK(tgt[p], cur[p])
        /\ StartDealloc(p, tgt[p], lo[p], hi[p], "a_free")
        /\ UNCHANGED <<mm, pt, tlb, panicked>>
     \/ Remap(tgt[p], cur[p])

\* kfree(mem) once the pages mapped before it are gone.
AllocFree(p) ==
  /\ At(p, "a_free")
  /\ \/ /\ KfreeSlot(Mem(p), TRUE)
        /\ Jump(p, AllocFailed(p))
        /\ UNCHANGED <<perm, pt, tlb, panicked>>
     \/ KfreePanic(Mem(p))

AllocDone(p) ==
  /\ At(p, "a_alloc") /\ cur[p] >= hi[p]
  /\ Jump(p, ret[p])
  /\ UNCHANGED <<mm, pt, tlb, panicked>>

-----------------------------------------------------------------------------
(* growproc (sbrk)                                                         *)

\* n > 0: allocuvm refuses a size of KERNBASE or more.
SbrkGrow(p, n) ==
  /\ At(p, "user") /\ "sbrk" \in Calls
  /\ n > 0 /\ sz[p] + n < NVa
  /\ StartAlloc(p, Own(p), sz[p], sz[p] + n, "g_done")
  /\ UNCHANGED <<mm, pt, tlb, panicked>>

\* n < 0, down to a size above zero.  A larger -n wraps around to a size that
\* deallocuvm does not shrink to, and changes nothing but the TLB.
SbrkShrink(p, n) ==
  /\ At(p, "user") /\ "sbrk" \in Calls
  /\ n < 0 /\ sz[p] + n > 0
  /\ StartDealloc(p, Own(p), sz[p] + n, sz[p], "g_done")
  /\ UNCHANGED <<mm, pt, tlb, panicked>>

\* sz + n = 0: deallocuvm frees every page and returns the new size 0, which
\* growproc takes for an error and returns -1 at once.
SbrkAll(p) ==
  /\ At(p, "user") /\ {"sbrk", "sbrk_all"} \subseteq Calls
  /\ sz[p] > 0
  /\ StartDealloc(p, Own(p), 0, sz[p], "user")
  /\ UNCHANGED <<mm, pt, tlb, panicked>>

\* curproc->sz = sz; switchuvm(curproc).
GrowDone(p) ==
  /\ At(p, "g_done")
  /\ sz' = [sz EXCEPT ![p] = IF hi[p] = sz[p] THEN lo[p] ELSE hi[p]]
  /\ Flush(p)
  /\ Jump(p, "user")
  /\ UNCHANGED <<mm, state, parent, side, ptlock, panicked>>

-----------------------------------------------------------------------------
(* exec: one program segment of n pages, a guard page and a stack page.    *)

ExecStart(p, n) ==
  /\ At(p, "user") /\ "exec" \in Calls
  /\ Goto(p, "s_pgdir")
  /\ tgt' = [tgt EXCEPT ![p] = Other(p)]
  /\ lo' = [lo EXCEPT ![p] = 0]
  /\ hi' = [hi EXCEPT ![p] = n]
  /\ cur' = [cur EXCEPT ![p] = 0]
  /\ ret' = [ret EXCEPT ![p] = "x_load"]
  /\ UNCHANGED <<mm, pt, tlb, panicked>>

\* loaduvm fills the segment from the file; then allocuvm for the stack.
\* A short read goes to "bad", and so does a size of KERNBASE or more.
ExecLoad(p) ==
  /\ At(p, "x_load")
  /\ \/ /\ data' = [pg \in Page |->
             IF \E va \in Va : va < hi[p] /\ ref[PTE(tgt[p], va)] = pg
             THEN "img" ELSE data[pg]]
        /\ IF hi[p] + 2 < NVa
           THEN StartAlloc(p, tgt[p], hi[p], hi[p] + 2, "x_stack")
           ELSE /\ Goto(p, "x_bad")
                /\ UNCHANGED <<tgt, cur, lo, hi, ret>>
     \/ /\ Goto(p, "x_bad")
        /\ UNCHANGED <<data, tgt, cur, lo, hi, ret>>
  /\ UNCHANGED <<freelist, rc, ref, perm, pt, tlb, panicked>>

\* oldpgdir, which exec frees once the new page directory is loaded.
OldSpace(p) == Own(p)

\* clearpteu on the guard page, copyout of the arguments to the stack page,
\* and the commit: pgdir, sz and cr3 change together, then freevm(oldpgdir).
\* copyout fails when the arguments overrun the stack page into the guard.
ExecStack(p) ==
  /\ At(p, "x_stack")
  /\ LET s == tgt[p]  guard == hi[p] - 2  stack == hi[p] - 1 IN
     /\ perm' = [perm EXCEPT ![s][guard] = @ \ {"U"}]
     /\ data' = [data EXCEPT ![ref[PTE(s, stack)]] = "arg"]
     /\ \/ /\ side' = [side EXCEPT ![p] = 1 - @]
           /\ sz' = [sz EXCEPT ![p] = hi[p]]
           /\ Flush(p)
           /\ StartFreevm(p, OldSpace(p))
        \/ /\ Goto(p, "x_bad")
           /\ UNCHANGED <<side, sz, tlb, tgt, cur, lo, hi, ret>>
  /\ UNCHANGED <<freelist, rc, ref, state, parent, ptlock, panicked>>

ExecBad(p) ==
  /\ At(p, "x_bad")
  /\ StartFreevm(p, tgt[p])
  /\ UNCHANGED <<mm, pt, tlb, panicked>>

-----------------------------------------------------------------------------
(* exit and wait                                                           *)

Exit(p) ==
  /\ At(p, "user") /\ "exit" \in Calls /\ ptlock = None
  /\ \/ p = InitProc /\ Panic("init exiting")
     \/ /\ p # InitProc
        /\ state' = [state EXCEPT ![p] = "ZOMBIE"]
        /\ parent' = [q \in Proc |->
             IF parent[q] = p THEN InitProc ELSE parent[q]]
        /\ Jump(p, "idle")
        /\ Flush(p)
        /\ UNCHANGED <<mm, sz, side, ptlock, panicked>>

\* wait finds a zombie child; it keeps ptable.lock until the slot is free.
Wait(p) ==
  /\ At(p, "user") /\ ptlock = None
  /\ \E c \in Proc :
       /\ parent[c] = p /\ state[c] = "ZOMBIE"
       /\ tgt' = [tgt EXCEPT ![p] = <<c, side[c]>>]
  /\ ptlock' = p
  /\ Goto(p, "w_kstack")
  /\ UNCHANGED <<mm, state, parent, sz, side, cur, lo, hi, ret, tlb, panicked>>

WaitKstack(p) ==
  /\ At(p, "w_kstack")
  /\ \/ /\ KfreeSlot(KStack(tgt[p][1]), TRUE)
        /\ StartFreevm(p, tgt[p])
        /\ UNCHANGED <<perm, pt, tlb, panicked>>
     \/ KfreePanic(KStack(tgt[p][1]))

\* The slot is free again, and ptable.lock is released.
WaitDone(p) ==
  /\ At(p, "w_done")
  /\ state' = [state EXCEPT ![tgt[p][1]] = "UNUSED"]
  /\ parent' = [parent EXCEPT ![tgt[p][1]] = None]
  /\ side' = [side EXCEPT ![tgt[p][1]] = 0]
  /\ ptlock' = None
  /\ Jump(p, "user")
  /\ UNCHANGED <<mm, sz, tlb, panicked>>

-----------------------------------------------------------------------------
\* panic() stops every CPU.
Halted == panicked # "no" /\ UNCHANGED vars

Fault(p)  == FaultAlloc(p) \/ FaultCopy(p) \/ FaultFree(p) \/ FaultMap(p)
Setup(p)  == SetupPgdir(p) \/ SetupKpde(p)
Boot(p)   == BootKstack(p) \/ BootUvm(p) \/ BootMap(p)
Fork(p)   == ForkKstack(p) \/ ForkCopy(p) \/ ForkMap(p) \/ ForkUnref(p)
             \/ ForkFail(p) \/ ForkDone(p)
Dealloc(p) == DeallocStep(p) \/ DeallocClear(p) \/ DeallocDone(p) \/ FreeTab(p)
Alloc(p)  == AllocPage(p) \/ AllocMap(p) \/ AllocFree(p) \/ AllocDone(p)
             \/ GrowDone(p)
Exec(p)   == ExecLoad(p) \/ ExecStack(p) \/ ExecBad(p)
Reap(p)   == WaitKstack(p) \/ WaitDone(p)

\* One step of the kernel thread of p.
Kernel(p) == Fault(p) \/ Setup(p) \/ Boot(p) \/ Fork(p) \/ Dealloc(p)
             \/ Alloc(p) \/ Exec(p) \/ Reap(p)

\* What the user code of p, and the CPU running it, may do next.
User(p) ==
  \/ \E va \in Va : TlbFill(p, va)
  \/ Yield(p)
  \/ \E va \in Va, v \in Val : UserWrite(p, va, v)
  \/ \E va \in Va, w \in BOOLEAN, usr \in BOOLEAN : PageFault(p, va, w, usr)
  \/ ForkStart(p)
  \/ \E n \in 1 .. NVa : SbrkGrow(p, n)
  \/ \E n \in -NVa .. -1 : SbrkShrink(p, n)
  \/ SbrkAll(p)
  \/ \E n \in 1 .. NVa - 1 : ExecStart(p, n)
  \/ Exit(p)
  \/ Wait(p)

Next == Halted \/ \E p \in Proc : Kernel(p) \/ User(p)

Spec == Init /\ [][Next]_vars

\* Every kernel thread gets a CPU again and again: scheduler() serves the
\* process table round and round, and no kernel path of this module sleeps.
FairSpec == Spec /\ \A p \in Proc : WF_vars(Kernel(p))

-----------------------------------------------------------------------------
(* Properties                                                              *)

\* The entries whose page has been given back and that are about to be
\* rewritten: between kfree and the store to *pte in deallocuvm and
\* handle_pgflt_helper.
Dangling == {PTE(tgt[p], cur[p]) : p \in {q \in Proc : pc[q] \in {"dv_clear", "pf_map"}}}

\* The slots that count as references to page pg.
Refs(pg) == {s \in Slot \ Dangling : ref[s] = pg}

\* refcount.count[pg] is the number of places that name the page, and a page
\* is on the free list exactly when there is none: no page is freed while a
\* page table, a kernel stack or a kernel path still uses it, and none is
\* lost, whatever forks, faults, exits and failures interleave.
RefCounted ==
  \A pg \in Page : /\ rc[pg] = Cardinality(Refs(pg))
                   /\ pg \in freelist <=> rc[pg] = 0

\* Copy-on-write: an entry with PTE_W is the only reference to its page, so
\* a store through it is seen by nobody else.
WritableIsExclusive ==
  \A s \in Space, va \in Va :
    LET e == PTE(s, va) IN
    e \notin Dangling /\ ref[e] # None /\ "W" \in perm[s][va]
      => Refs(ref[e]) = {e}

\* When user code runs, each cached translation is the page table's: clearing
\* PTE_W, replacing a page and unmapping one are all followed by a flush
\* before the process returns to user mode.
TlbCoherent ==
  panicked = "no" =>
    \A p \in Proc : pc[p] = "user" =>
      \A va \in Va : tlb[p][va] # None => tlb[p][va] = Entry(Own(p), va)

Busy(p) == pc[p] \notin {"user", "idle"}

\* Kernel threads never work on the same address space: a thread works on its
\* own process, on the embryo that its fork made, or on a zombie that it reaps
\* with ptable.lock held; the threads of those two do not run.  fork and wait
\* rely on this when they touch p->pgdir and p->kstack without a lock.
ThreadsApart ==
  /\ \A p, q \in Proc : Busy(p) /\ Busy(q) /\ p # q => tgt[p][1] # tgt[q][1]
  /\ \A p \in Proc : Busy(p) /\ tgt[p][1] # p =>
       /\ state[tgt[p][1]] \in {"EMBRYO", "ZOMBIE"}
       /\ pc[tgt[p][1]] = "idle"
       /\ state[tgt[p][1]] = "ZOMBIE" => ptlock = p
  /\ \A p \in Proc : state[p] \in {"UNUSED", "ZOMBIE"} => pc[p] = "idle"
  /\ \A p \in Proc : state[p] = "LIVE" => pc[p] # "idle"

\* A slot that is UNUSED holds no page, and a process in user mode holds none
\* outside the space it runs on: every success and failure path of fork,
\* exec, sbrk, wait and the fault handler gives back what it took.
NothingLeaks ==
  panicked = "no" =>
    \A p \in Proc :
      /\ state[p] = "UNUSED" =>
           \A s \in Slot : s[2][1] = p => ref[s] = None
      /\ pc[p] = "user" =>
           \A s \in Slot : s[2][1] = p /\ s # KStack(p) /\ ref[s] # None
                          => s[2] = Own(p) /\ s # Mem(p)

\* The kernel's own assertions about page tables and reference counts never
\* fail (panics of kfree, incrementRefCount, mappages and copyuvm).
AssertionsHold ==
  panicked \notin {"kfree", "incrementRefCount", "remap",
                   "copyuvm: page not present"}

\* copyuvm's assertion alone: the pages below p->sz are present whenever p
\* calls fork.
ForkFindsEveryPage == panicked # "copyuvm: page not present"

\* The memory that p sees.  From the moment deallocuvm starts to shrink it
\* the pages above the new size are gone; while the fault handler replaces a
\* page the copy is what counts.
ViewSz(p) == IF ret[p] = "g_done" /\ hi[p] = sz[p] THEN lo[p] ELSE sz[p]
ViewPage(p, va) ==
  IF pc[p] = "pf_map" /\ cur[p] = va THEN ref[Mem(p)] ELSE ref[PTE(Own(p), va)]
View(p) ==
  IF state[p] = "LIVE"
  THEN [va \in 0 .. ViewSz(p) - 1 |-> data[ViewPage(p, va)]]
  ELSE None

Private == INSTANCE PrivateMem WITH
  mem <- [p \in Proc |-> View(p)], MaxSz <- NVa, Dead <- None

\* The sharing is invisible: with the contents of its pages as its memory,
\* every process has a memory of its own, copied by fork.
ImplementsPrivateMem == Private!Spec

\* Every system call and page fault ends: the process returns to user mode
\* or exits, or the machine panics.
KernelPathsEnd ==
  \A p \in Proc :
    pc[p] \notin {"user", "idle"} ~> pc[p] \in {"user", "idle"} \/ panicked # "no"
=============================================================================
