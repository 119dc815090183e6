------------------------------- MODULE Malloc -------------------------------
(***************************************************************************)
(* xv6's user-level allocator (umalloc.c): a circular list of free blocks  *)
(* in the order of their addresses, searched from where the last call has  *)
(* left off.  Addresses and sizes are in units of a header; base is at 0,  *)
(* below the heap.                                                         *)
(***************************************************************************)
EXTENDS Integers, FiniteSets

CONSTANTS HEADER,   \* bytes of a header
          Request,  \* bound: the nbytes that are asked for
          MORE,     \* units that morecore asks for at least
          LIMIT     \* where sbrk fails

VARIABLES
  ptr, size,  \* the headers of the free blocks, and of base
  freep,      \* -1: null
  brk,
  live,       \* live[b]: nbytes, for the blocks the program has
  gaps        \* units that the program has taken from sbrk itself

heap == <<ptr, size, freep, brk>>
vars == <<heap, live, gaps>>

Init ==
  /\ ptr = <<>> /\ size = <<>> /\ freep = -1 /\ brk = 1
  /\ live = <<>> /\ gaps = {}

\* f with the values of g; and f without D.
With(f, g) == [x \in DOMAIN f \cup DOMAIN g |-> IF x \in DOMAIN g THEN g[x] ELSE f[x]]
Less(f, D) == [x \in DOMAIN f \ D |-> f[x]]
At(x, v) == [y \in {x} |-> v]

nunits(nbytes) == (nbytes + HEADER - 1) \div HEADER + 1

-----------------------------------------------------------------------------
(* free, on a heap h = [ptr, size, freep].                                 *)

\* The free block after which bp comes, from p on.
RECURSIVE Place(_, _, _)
Place(h, bp, p) ==
  LET q == h.ptr[p] IN
  IF \/ p < bp /\ bp < q
     \/ p >= q /\ (bp > p \/ bp < q)
  THEN p ELSE Place(h, bp, q)

\* The block bp of n units is joined with those that it touches.
Free(h, bp, n) ==
  LET p == Place(h, bp, h.freep)
      q == h.ptr[p]
      up == bp + n = q
      n1 == IF up THEN n + h.size[q] ELSE n
      next == IF up THEN h.ptr[q] ELSE q
      gone == IF up THEN {q} ELSE {} IN
  IF p + h.size[p] = bp
  THEN [ptr |-> With(Less(h.ptr, gone), At(p, next)),
        size |-> With(Less(h.size, gone), At(p, h.size[p] + n1)), freep |-> p]
  ELSE [ptr |-> With(Less(h.ptr, gone), With(At(bp, next), At(p, bp))),
        size |-> With(Less(h.size, gone), At(bp, n1)), freep |-> p]

-----------------------------------------------------------------------------
(* malloc.                                                                 *)

Heap == [ptr |-> ptr, size |-> size, freep |-> freep]
Set(h) == ptr' = h.ptr /\ size' = h.size /\ freep' = h.freep

\* The first call makes the list of base alone.
Ready == IF freep = -1 THEN [ptr |-> At(0, 0), size |-> At(0, 0), freep |-> 0] ELSE Heap

\* The block before the first that is large enough, from prevp on; or -1.
RECURSIVE Before(_, _, _)
Before(h, n, prevp) ==
  LET p == h.ptr[prevp] IN
  IF h.size[p] >= n THEN prevp ELSE IF p = h.freep THEN -1 ELSE Before(h, n, p)

\* The heap after n units have been cut off the end of the block after prevp.
Cut(h, prevp, n) ==
  LET p == h.ptr[prevp] IN
  IF h.size[p] = n
  THEN [ptr |-> With(Less(h.ptr, {p}), At(prevp, h.ptr[p])), size |-> Less(h.size, {p}), freep |-> prevp]
  ELSE [h EXCEPT !.size[p] = @ - n, !.freep = prevp]

\* morecore, if sbrk has the room.
Most(n) == IF n < MORE THEN MORE ELSE n
MoreCore(h, n) == Free(h, brk, Most(n))

Alloc(h, n, nbytes) ==
  LET prevp == Before(h, n, h.freep)  p == h.ptr[prevp] IN
  /\ Set(Cut(h, prevp, n))
  /\ live' = With(live, At(p + h.size[p] - n, nbytes))

malloc(nbytes) ==
  LET n == nunits(nbytes) IN
  /\ \/ /\ Before(Ready, n, Ready.freep) # -1
        /\ Alloc(Ready, n, nbytes) /\ UNCHANGED brk
     \/ /\ Before(Ready, n, Ready.freep) = -1
        /\ IF brk + Most(n) > LIMIT THEN Set(Ready) /\ UNCHANGED <<brk, live>>
           ELSE Alloc(MoreCore(Ready, n), n, nbytes) /\ brk' = brk + Most(n)
  /\ UNCHANGED gaps

free(bp) ==
  /\ Set(Free(Heap, bp, nunits(live[bp])))
  /\ live' = Less(live, {bp})
  /\ UNCHANGED <<brk, gaps>>

\* The program takes memory for itself.
Sbrk == brk < LIMIT /\ brk' = brk + 1 /\ gaps' = gaps \cup {brk} /\ UNCHANGED <<ptr, size, freep, live>>

Next ==
  \/ \E nbytes \in Request : malloc(nbytes)
  \/ \E bp \in DOMAIN live : free(bp)
  \/ Sbrk

Spec == Init /\ [][Next]_vars

-----------------------------------------------------------------------------
(* Properties.                                                             *)

Units(b, n) == b .. b + n - 1

\* Every unit of the heap belongs to one block, free or in use, which is
\* large enough for what was asked for; the list goes through the free blocks
\* in the order of their addresses; and no two of them touch.
HeapIsPartitioned ==
  LET free_ == DOMAIN size \ {0}
      block == [b \in free_ \cup DOMAIN live |-> IF b \in free_ THEN size[b] ELSE nunits(live[b])] IN
  /\ free_ \cap DOMAIN live = {}
  /\ \A b, c \in DOMAIN block : b # c => Units(b, block[b]) \cap Units(c, block[c]) = {}
  /\ UNION {Units(b, block[b]) : b \in DOMAIN block} \cup gaps = 1 .. brk - 1
  /\ \A b \in DOMAIN live : (block[b] - 1) * HEADER >= live[b]
  /\ freep # -1 =>
       /\ DOMAIN ptr = DOMAIN size /\ freep \in DOMAIN ptr
       /\ \A b \in DOMAIN ptr : LET above == {c \in DOMAIN ptr : c > b} IN
            IF above = {} THEN ptr[b] = 0
            ELSE /\ ptr[b] \in above /\ \A c \in above : ptr[b] <= c
                 /\ b + size[b] # ptr[b]
=============================================================================
