----------------------------- MODULE LogProofs -----------------------------
(***************************************************************************)
(* Proofs about Log, for every number of processes, blocks and log slots:  *)
(* the inductive invariant, and from it that commits run alone, that       *)
(* quiet means durable, and that the log implements AtomicDisk.            *)
(***************************************************************************)
EXTENDS Log, FiniteSetTheorems, TLAPS

-----------------------------------------------------------------------------
(* The inductive invariant.                                                *)

\* Between recovery and the next crash; a panic freezes the machine as it is.
Running == machine \in {"up", "panic"}

Ops == {p \in Proc : InOp(p)}
Logged == {x \in Proc \X Block : x[2] \in wrote[x[1]]}

\* begin_op and end_op count the operations under way; the process that
\* commits is alone.
Counting ==
  /\ outstanding = Cardinality(Ops)
  /\ committing <=> \E p \in Proc : Committing(p)
  /\ \A p, q \in Proc : Committing(p) /\ p # q => ~InOp(q) /\ ~Committing(q)
  /\ \A p \in Proc : Committing(p) => Ops = {}
  /\ outstanding = 0 /\ ~committing => lh = <<>>

\* Every logged block is charged to an operation under way or to the room
\* that begin_op found.
Reserved ==
  /\ Len(lh) + outstanding * MAXOPBLOCKS <= LOGSIZE + Cardinality(Logged)
  /\ \A p \in Proc :
       /\ wrote[p] \subseteq RangeOf(lh)
       /\ Cardinality(wrote[p]) <= OpBlocks
       /\ ~InOp(p) => wrote[p] = {}
       /\ pc[p] \in HoldingPcs => Cardinality(wrote[p] \cup {cur[p]}) <= OpBlocks

\* A buffer lock has its holder, and the holder knows it.
Locks ==
  /\ \A p \in Proc : pc[p] \in HoldingPcs => cur[p] \in Block /\ holder[cur[p]] = p
  /\ \A b \in Block : holder[b] # None =>
       pc[holder[b]] \in HoldingPcs /\ cur[holder[b]] = b

\* A buffer differs from its home block only while the log still needs it.
Clean ==
  /\ dirty \subseteq RangeOf(lh)
  /\ \A b \in Block : cache[b] # home[b] =>
       b \in dirty \/ \E p \in Proc : cur[p] = b /\ pc[p] \in {"log_write", "log_lock"}

\* The first n blocks of the group are in the on-disk log, or at home.
CopiedTo(n)  == \A i \in 1 .. n : logb[i] = cache[lh[i]]
InstalledTo(n) == \A i \in 1 .. n : home[lh[i]] = logb[i]
Unwritten(n) == \A i \in 1 .. n : lh[i] \notin dirty

Phase(p) ==
  /\ pc[p] = "commit" => hdr = <<>> /\ tail = 1
  /\ pc[p] = "write_log" => hdr = <<>> /\ tail <= Len(lh) /\ CopiedTo(tail - 1)
  /\ pc[p] = "write_head" => hdr = <<>> /\ tail = 1 /\ lh # <<>> /\ CopiedTo(Len(lh))
  /\ pc[p] = "install_trans" =>
       /\ hdr = lh /\ tail <= Len(lh) /\ CopiedTo(Len(lh))
       /\ InstalledTo(tail - 1) /\ Unwritten(tail - 1)
  /\ pc[p] = "erase" =>
       /\ hdr = lh /\ tail = 1 /\ CopiedTo(Len(lh))
       /\ InstalledTo(Len(lh)) /\ Unwritten(Len(lh))
  /\ pc[p] = "done" => hdr = <<>> /\ lh = <<>> /\ tail = 1

\* Whoever sleeps in begin_op waits for an operation or for the commit.
Waiting == \A p \in Proc : pc[p] = "sleep" => outstanding # 0 \/ committing

Up ==
  /\ Counting /\ Reserved /\ Locks /\ Clean /\ Waiting
  /\ \A p \in Proc : Phase(p)
  /\ ~committing => hdr = <<>> /\ tail = 1

\* Between a crash and the end of recovery.
Down ==
  /\ outstanding = 0 /\ committing = FALSE
  /\ cache = home /\ dirty = {}
  /\ \A b \in Block : holder[b] = None
  /\ \A p \in Proc : pc[p] = "idle" /\ wrote[p] = {} /\ cur[p] = None
  /\ machine = "read_head" => lh = <<>> /\ tail = 1
  /\ machine = "install" =>
       lh = hdr /\ tail <= Len(lh) /\ InstalledTo(tail - 1)
  /\ machine = "clear" => lh = hdr /\ tail = 1 /\ InstalledTo(Len(lh))

IInv == TypeOK /\ (Running => Up) /\ (~Running => Down)
-----------------------------------------------------------------------------
(* Facts about the sets and sequences of the model.                        *)

LEMMA OpsFinite == IsFiniteSet(Ops) /\ Cardinality(Ops) \in Nat
<1>1. Ops \subseteq Proc  BY DEF Ops
<1>2. IsFiniteSet(Proc)  BY LogAssumption
<1> QED  BY <1>1, <1>2, FS_Subset, FS_CardinalityType

LEMMA NoOps == Cardinality(Ops) = 0 <=> Ops = {}
BY OpsFinite, FS_EmptySet

LEMMA LoggedFinite ==
  /\ IsFiniteSet(Logged) /\ Cardinality(Logged) \in Nat
  /\ Logged = {} => Cardinality(Logged) = 0
<1>1. Logged \subseteq Proc \X Block  BY DEF Logged
<1>2. IsFiniteSet(Proc \X Block)  BY LogAssumption, FS_Product
<1> QED  BY <1>1, <1>2, FS_Subset, FS_CardinalityType, FS_EmptySet

\* A step that leaves every operation an operation, or none, leaves Ops.
LEMMA SameOps ==
  ASSUME \A q \in Proc : InOp(q)' <=> InOp(q)
  PROVE  Ops' = Ops
BY DEF Ops

LEMMA SameLogged == ASSUME UNCHANGED wrote PROVE Logged' = Logged
BY DEF Logged

\* Operations that log at most n blocks each log at most n times as many
\* blocks together.
LEMMA ChargeBound ==
  ASSUME NEW O, IsFiniteSet(O), NEW n \in Nat, NEW W,
         \A p \in O : IsFiniteSet(W[p]) /\ Cardinality(W[p]) <= n,
         NEW L, L = {x \in O \X UNION {W[p] : p \in O} : x[2] \in W[x[1]]}
  PROVE  Cardinality(L) <= Cardinality(O) * n
<1> DEFINE F(p) == CHOOSE f : f \in Surjection(1 .. Cardinality(W[p]), W[p])
           S == O \X (1 .. n)
<1>1. \A p \in O : /\ Cardinality(W[p]) \in Nat
                   /\ F(p) \in Surjection(1 .. Cardinality(W[p]), W[p])
  BY FS_CardinalityType DEF ExistsBijection, Bijection
<1> HIDE DEF F
<1>2. IsFiniteSet(1 .. n) /\ Cardinality(1 .. n) = n  BY FS_Interval
<1>3. IsFiniteSet(S) /\ Cardinality(S) = Cardinality(O) * n  BY <1>2, FS_Product
<1>4. CASE L = {}
  <2>1. Cardinality(L) = 0  BY <1>4, FS_EmptySet
  <2> QED  BY <2>1, <1>3, FS_CardinalityType
<1>5. CASE L # {}
  <2> PICK d \in L : TRUE  BY <1>5
  <2> DEFINE G == [x \in S |-> IF x[2] <= Cardinality(W[x[1]])
                               THEN <<x[1], F(x[1])[x[2]]>> ELSE d]
  <2>1. G \in [S -> L]
    <3> SUFFICES ASSUME NEW x \in S PROVE G[x] \in L  OBVIOUS
    <3>1. CASE x[2] <= Cardinality(W[x[1]])
      <4>1. x[1] \in O /\ x[2] \in 1 .. Cardinality(W[x[1]])  BY <3>1, <1>1
      <4>2. F(x[1])[x[2]] \in W[x[1]]  BY <4>1, <1>1 DEF Surjection
      <4>3. F(x[1])[x[2]] \in UNION {W[p] : p \in O}  BY <4>1, <4>2
      <4>4. <<x[1], F(x[1])[x[2]]>> \in O \X UNION {W[p] : p \in O}  BY <4>1, <4>3
      <4>5. <<x[1], F(x[1])[x[2]]>> \in L  BY <4>2, <4>4
      <4> QED  BY <4>5, <3>1
    <3> QED  BY <3>1
  <2>2. \A y \in L : \E x \in S : G[x] = y
    <3> SUFFICES ASSUME NEW y \in L PROVE \E x \in S : G[x] = y  OBVIOUS
    <3>1. y[1] \in O /\ y[2] \in W[y[1]] /\ y = <<y[1], y[2]>>  OBVIOUS
    <3>2. PICK i \in 1 .. Cardinality(W[y[1]]) : F(y[1])[i] = y[2]
      BY <3>1, <1>1 DEF Surjection
    <3>3. i \in 1 .. n /\ i <= Cardinality(W[y[1]])  BY <3>1, <3>2, <1>1
    <3>5. <<y[1], i>> \in S  BY <3>1, <3>3
    <3>4. G[<<y[1], i>>] = y  BY <3>1, <3>2, <3>3, <3>5
    <3> QED  BY <3>5, <3>4
  <2>3. G \in Surjection(S, L)  BY <2>1, <2>2 DEF Surjection
  <2> QED  BY <2>3, <1>3, FS_Surjection
<1> QED  BY <1>4, <1>5

LEMMA RangeAppend ==
  ASSUME NEW S, NEW s \in Seq(S), NEW x \in S
  PROVE  RangeOf(Append(s, x)) = RangeOf(s) \cup {x}
BY DEF RangeOf

LEMMA EmptyRange == RangeOf(<<>>) = {} /\ \A s \in Seq(Block) : s # <<>> <=> Len(s) > 0
BY DEF RangeOf

-----------------------------------------------------------------------------
(* One lemma per action: the invariant is preserved.                       *)

THEOREM InitIInv == Init => IInv
<1> SUFFICES ASSUME Init PROVE IInv  OBVIOUS
<1>1. TypeOK
  <2>1. logb \in [LogIndex -> Value]  BY DEF Init
  <2>2. BlockList(hdr) /\ BlockList(lh)  BY LogAssumption DEF Init, BlockList
  <2>3. pc \in [Proc -> Pcs]  BY DEF Init, Pcs
  <2>4. holder \in [Block -> Proc \cup {None}] /\ cur \in [Proc -> Block \cup {None}]
    BY DEF Init
  <2>5. wrote \in [Proc -> SUBSET Block] /\ left \in [Proc -> Nat]  BY DEF Init
  <2>6. dirty \subseteq Block /\ home \in [Block -> Value] /\ cache \in [Block -> Value]
    BY DEF Init
  <2>8. committing \in BOOLEAN  BY DEF Init
  <2>7. outstanding \in Nat /\ tail \in Nat \ {0}
        /\ machine \in {"up", "panic", "read_head", "install", "clear"}
    BY DEF Init
  <2> QED  BY <2>1, <2>2, <2>3, <2>4, <2>5, <2>6, <2>7, <2>8 DEF TypeOK
<1>2. Running /\ ~committing /\ lh = <<>> /\ hdr = <<>> /\ tail = 1 /\ outstanding = 0
  BY DEF Init, Running
<1>3. Ops = {} /\ \A p \in Proc : ~Committing(p) /\ ~InOp(p)
  BY DEF Init, Ops, InOp, Committing, CommitPcs, HoldingPcs
<1>4. Logged = {}  BY DEF Init, Logged
<1>5. Counting  BY <1>2, <1>3, FS_EmptySet DEF Counting
<1>6. Reserved
  <2>1. Cardinality({}) = 0  BY FS_EmptySet
  <2>2. \A p \in Proc : wrote[p] = {}  BY DEF Init
  <2> QED  BY <2>1, <2>2, <1>2, <1>3, <1>4, LogAssumption DEF Reserved, Init, InOp
<1>7. Locks  BY DEF Init, Locks, HoldingPcs
<1>8. Clean  BY <1>2, EmptyRange DEF Init, Clean
<1>9. \A p \in Proc : Phase(p)  BY DEF Init, Phase
<1>10. Waiting  BY DEF Init, Waiting
<1> QED  BY <1>1, <1>2, <1>5, <1>6, <1>7, <1>8, <1>9, <1>10 DEF IInv, Up

\* What every step of a running system starts from.
LEMMA Unfold ==
  ASSUME IInv, machine = "up"
  PROVE  /\ TypeOK /\ Counting /\ Reserved /\ Locks /\ Clean /\ Waiting
         /\ \A p \in Proc : Phase(p)
         /\ ~committing => hdr = <<>> /\ tail = 1
BY DEF IInv, Running, Up

\* A step between begin_op's loop and its caller changes pc alone.
LEMMA IdleStep ==
  ASSUME IInv, NEW p \in Proc, machine = "up", pc[p] \in {"idle", "begin"},
         NEW l \in {"begin", "sleep"}, pc' = [pc EXCEPT ![p] = l],
         l = "sleep" => outstanding # 0 \/ committing,
         UNCHANGED <<disk, mem, cur, wrote, left, tail, machine>>
  PROVE  IInv'
<1> USE Unfold
<1> USE DEF disk, mem
<1>1. TypeOK'  BY DEF TypeOK, BlockList, Pcs
<1>2. \A q \in Proc : /\ InOp(q)' <=> InOp(q)
                      /\ Committing(q)' <=> Committing(q)
                      /\ pc'[q] \in HoldingPcs <=> pc[q] \in HoldingPcs
                      /\ pc'[q] \in {"log_write", "log_lock"}
                           <=> pc[q] \in {"log_write", "log_lock"}
  BY DEF TypeOK, InOp, Committing, HoldingPcs, CommitPcs
<1>3. Ops' = Ops /\ Logged' = Logged  BY <1>2, SameOps, SameLogged
<1>4. Counting'  BY <1>2, <1>3 DEF Counting
<1>5. Reserved'  BY <1>2, <1>3 DEF Reserved
<1>6. Locks'  BY <1>2, LogAssumption DEF Locks, TypeOK
<1>7. Clean'  BY <1>2 DEF Clean
<1>8. \A q \in Proc : Phase(q)'
  BY DEF Phase, TypeOK, CopiedTo, InstalledTo, Unwritten
<1>9. Waiting'  BY DEF Waiting, TypeOK
<1> QED  BY <1>1, <1>4, <1>5, <1>6, <1>7, <1>8, <1>9 DEF IInv, Running, Up

\* The invariant survives any step of one operation that keeps it an
\* operation and neither logs a block nor touches the disk, once the buffers
\* are accounted for.
LEMMA OpStep ==
  ASSUME IInv, NEW p \in Proc, machine = "up", InOp(p), InOp(p)',
         TypeOK', Locks', Clean', machine' \in {"up", "panic"},
         \A q \in Proc : q # p => pc'[q] = pc[q] /\ cur'[q] = cur[q],
         pc'[p] \in HoldingPcs => Cardinality(wrote[p] \cup {cur'[p]}) <= OpBlocks,
         UNCHANGED <<disk, lh, outstanding, committing, wrote, tail>>
  PROVE  IInv'
<1> USE Unfold
<1>1. \A q \in Proc : /\ InOp(q)' <=> InOp(q)
                      /\ Committing(q)' <=> Committing(q)
  BY DEF InOp, Committing, HoldingPcs, CommitPcs
<1>2. Ops' = Ops /\ Logged' = Logged  BY <1>1, SameOps, SameLogged
<1>3. Counting'  BY <1>1, <1>2 DEF Counting
<1>4. Reserved'  BY <1>1, <1>2 DEF Reserved, InOp
<1>5. ~committing /\ \A q \in Proc : ~Committing(q)
  BY DEF Counting, Committing, InOp, HoldingPcs, CommitPcs
<1>6. \A q \in Proc : Phase(q)'
  BY <1>1, <1>5 DEF Phase, Committing, CommitPcs
<1>7. ~committing' /\ hdr' = <<>> /\ tail' = 1  BY <1>5 DEF disk
<1>8. Waiting'
  <2>1. outstanding # 0
    <3>1. p \in Ops  BY DEF Ops
    <3> QED  BY <3>1, NoOps DEF Counting
  <2> QED  BY <2>1 DEF Waiting
<1> QED  BY <1>3, <1>4, <1>6, <1>7, <1>8 DEF IInv, Running, Up

LEMMA SyscallInv == ASSUME IInv, NEW p \in Proc, Syscall(p) PROVE IInv'
BY IdleStep DEF Syscall, At, Goto

LEMMA BeginSleepInv == ASSUME IInv, NEW p \in Proc, BeginSleep(p) PROVE IInv'
<1>1. machine = "up"  BY DEF BeginSleep, At
<1>2. outstanding # 0 \/ committing
  <2> SUFFICES ASSUME outstanding = 0, ~committing PROVE FALSE  OBVIOUS
  <2>1. lh = <<>>  BY <1>1, Unfold DEF Counting
  <2>2. Len(lh) + (outstanding + 1) * MAXOPBLOCKS = MAXOPBLOCKS  BY <2>1, LogAssumption
  <2>3. MAXOPBLOCKS <= LOGSIZE  BY LogAssumption
  <2>4. NoRoom  BY DEF BeginSleep, MustWait
  <2> QED  BY <2>2, <2>3, <2>4, LogAssumption DEF NoRoom
<1> QED  BY <1>2, IdleStep DEF BeginSleep, At, Goto

LEMMA BeginOpInv == ASSUME IInv, NEW p \in Proc, BeginOp(p) PROVE IInv'
<1>0. machine = "up" /\ pc[p] = "begin" /\ pc' = [pc EXCEPT ![p] = "op"]
  BY DEF BeginOp, At, Goto
<1> USE Unfold, <1>0
<1>1. TypeOK'
  <2>1. pc' \in [Proc -> Pcs]  BY DEF TypeOK, Pcs
  <2>2. wrote' \in [Proc -> SUBSET Block] /\ left' \in [Proc -> Nat] /\ outstanding' \in Nat
    BY LogAssumption DEF BeginOp, TypeOK
  <2>3. UNCHANGED <<home, logb, hdr, lh, committing, cache, dirty, holder, cur, tail, machine>>
    BY DEF BeginOp, disk
  <2> QED  BY <2>1, <2>2, <2>3 DEF TypeOK, BlockList
<1>2. ~committing /\ \A q \in Proc : ~Committing(q)
  BY DEF BeginOp, MustWait, Counting
<1>3. wrote[p] = {}  BY DEF Reserved, InOp, HoldingPcs
<1>4. wrote' = wrote  BY <1>3 DEF BeginOp, TypeOK
<1>5. \A q \in Proc : /\ q # p => (InOp(q)' <=> InOp(q))
                      /\ ~Committing(q)'
                      /\ InOp(p)' /\ ~InOp(p)
                      /\ pc'[q] \in HoldingPcs <=> pc[q] \in HoldingPcs
                      /\ pc'[q] \in {"log_write", "log_lock"}
                           <=> pc[q] \in {"log_write", "log_lock"}
  BY <1>2 DEF TypeOK, InOp, Committing, HoldingPcs, CommitPcs
<1>6. Ops' = Ops \cup {p} /\ p \notin Ops  BY <1>5 DEF Ops
<1>7. Cardinality(Ops') = outstanding + 1
  BY <1>6, OpsFinite, FS_AddElement DEF Counting
<1>8. Counting'
  BY <1>2, <1>5, <1>7 DEF Counting, BeginOp, TypeOK
<1>9. Reserved'
  <2>1. Logged' = Logged  BY <1>4, SameLogged
  <2>2. Len(lh) + outstanding' * MAXOPBLOCKS <= LOGSIZE
    BY LogAssumption DEF BeginOp, MustWait, NoRoom, TypeOK, BlockList
  <2>3. (Len(lh) + outstanding * MAXOPBLOCKS <= LOGSIZE + Cardinality(Logged))'
    BY <2>1, <2>2, LoggedFinite, LogAssumption DEF BeginOp, TypeOK, BlockList
  <2> QED  BY <1>3, <1>4, <1>5, <2>3 DEF Reserved, BeginOp
<1>10. Locks'  BY <1>5, LogAssumption DEF Locks, BeginOp, TypeOK
<1>11. Clean'  BY <1>5 DEF Clean, BeginOp, disk
<1>12. \A q \in Proc : Phase(q)'
  BY <1>5 DEF Phase, Committing, CommitPcs
<1>13. ~committing' /\ hdr' = <<>> /\ tail' = 1  BY <1>2 DEF BeginOp, disk
<1>14. Waiting'  BY <1>7, LogAssumption DEF Waiting, BeginOp, TypeOK
<1> QED
  BY <1>1, <1>8, <1>9, <1>10, <1>11, <1>12, <1>13, <1>14 DEF IInv, Running, Up, BeginOp

LEMMA OpBreadInv == ASSUME IInv, NEW p \in Proc, OpBread(p) PROVE IInv'
<1>0. machine = "up" /\ pc[p] = "op" /\ pc' = [pc EXCEPT ![p] = "have"]
  BY DEF OpBread, At, Goto
<1> USE Unfold, <1>0
<1> PICK b \in Block :
      /\ holder[b] = None
      /\ Cardinality(wrote[p] \cup {b}) <= OpBlocks
      /\ \E v \in Bread(b) : cache' = [cache EXCEPT ![b] = v]
      /\ holder' = [holder EXCEPT ![b] = p]
      /\ cur' = [cur EXCEPT ![p] = b]
  BY DEF OpBread
<1>1. TypeOK'
  <2>1. pc' \in [Proc -> Pcs]  BY DEF TypeOK, Pcs, HoldingPcs
  <2>2. holder' \in [Block -> Proc \cup {None}] /\ cur' \in [Proc -> Block \cup {None}]
    BY DEF TypeOK
  <2>3. cache' \in [Block -> Value]  BY DEF Bread, TypeOK
  <2>4. left' \in [Proc -> Nat]  BY DEF OpBread, TypeOK
  <2>5. UNCHANGED <<home, logb, hdr, lh, outstanding, committing, dirty, wrote, tail, machine>>
    BY DEF OpBread, disk
  <2> QED  BY <2>1, <2>2, <2>3, <2>4, <2>5 DEF TypeOK, BlockList
<1>2. InOp(p) /\ InOp(p)'  BY DEF InOp, HoldingPcs, TypeOK
<1>3. \A q \in Proc : q # p => pc'[q] = pc[q] /\ cur'[q] = cur[q]
  BY DEF TypeOK
<1>4. Locks'
  BY LogAssumption DEF Locks, HoldingPcs, TypeOK
<1>5. cache'[b] = cache[b]
  <2>1. \A q \in Proc : cur[q] = b => pc[q] \notin HoldingPcs
    BY LogAssumption DEF Locks
  <2>2. b \notin dirty => cache[b] = home[b]  BY <2>1 DEF Clean, HoldingPcs
  <2> QED  BY <2>2 DEF Bread, TypeOK
<1>6. cache' = cache  BY <1>5 DEF TypeOK
<1>7. Clean'
  <2>1. \A c \in Block : \A q \in Proc :
          cur[q] = c /\ pc[q] \in {"log_write", "log_lock"} =>
            cur'[q] = c /\ pc'[q] \in {"log_write", "log_lock"}
    BY DEF TypeOK
  <2>2. UNCHANGED <<home, dirty, lh>>  BY DEF OpBread, disk
  <2> QED  BY <1>6, <2>1, <2>2 DEF Clean
<1>8. cur'[p] = b /\ UNCHANGED <<disk, lh, outstanding, committing, wrote, tail, machine>>
  BY DEF OpBread, TypeOK
<1> QED  BY <1>1, <1>2, <1>3, <1>4, <1>7, <1>8, OpStep

LEMMA ModifyInv == ASSUME IInv, NEW p \in Proc, Modify(p) PROVE IInv'
<1>0. machine = "up" /\ pc[p] = "have" /\ pc' = [pc EXCEPT ![p] = "log_write"]
  BY DEF Modify, At, Goto
<1> USE Unfold, <1>0
<1>1. TypeOK'
  <2>1. cur[p] \in Block  BY DEF Locks, HoldingPcs
  <2>2. cache' \in [Block -> Value]  BY <2>1 DEF Modify, TypeOK
  <2>3. pc' \in [Proc -> Pcs]  BY DEF TypeOK, Pcs, HoldingPcs
  <2> QED  BY <2>2, <2>3 DEF Modify, TypeOK, BlockList, disk
<1>2. InOp(p) /\ InOp(p)'  BY DEF InOp, HoldingPcs, TypeOK
<1>3. \A q \in Proc : q # p => pc'[q] = pc[q] /\ cur'[q] = cur[q]
  BY DEF Modify, TypeOK
<1>4. Locks'  BY LogAssumption DEF Locks, HoldingPcs, TypeOK, Modify
<1>5. Clean'
  BY DEF Clean, Modify, disk, TypeOK, HoldingPcs
<1>6. Cardinality(wrote[p] \cup {cur'[p]}) <= OpBlocks
  BY DEF Reserved, Modify, HoldingPcs
<1>7. UNCHANGED <<disk, lh, outstanding, committing, wrote, tail, machine>>
  BY DEF Modify
<1> QED  BY <1>1, <1>2, <1>3, <1>4, <1>5, <1>6, <1>7, OpStep

LEMMA LogWriteCheckInv == ASSUME IInv, NEW p \in Proc, LogWriteCheck(p) PROVE IInv'
<1>0. /\ machine = "up" /\ pc[p] = "log_write" /\ machine' \in {"up", "panic"}
      /\ UNCHANGED <<disk, mem, cur, wrote, left, tail>>
  BY DEF LogWriteCheck, At, Goto
<1> USE Unfold, <1>0
<1> USE DEF disk, mem
<1>a. pc' = pc \/ pc' = [pc EXCEPT ![p] = "log_lock"]
  BY DEF LogWriteCheck, Goto
<1>1. TypeOK'
  <2>1. pc' \in [Proc -> Pcs]  BY <1>a DEF TypeOK, Pcs, HoldingPcs
  <2> QED  BY <2>1 DEF TypeOK, BlockList
<1>2. /\ \A q \in Proc : q # p => pc'[q] = pc[q]
      /\ pc'[p] \in {"log_write", "log_lock"}
  BY <1>a DEF TypeOK
<1>3. InOp(p) /\ InOp(p)'  BY <1>2 DEF InOp, HoldingPcs
<1>4. Locks'
  <2>1. \A q \in Proc : pc'[q] \in HoldingPcs <=> pc[q] \in HoldingPcs
    BY <1>2 DEF HoldingPcs
  <2>2. \A b \in Block : holder[b] # None => holder[b] \in Proc  BY DEF TypeOK
  <2> QED  BY <2>1, <2>2 DEF Locks
<1>5. Clean'  BY <1>2 DEF Clean
<1>6. Cardinality(wrote[p] \cup {cur'[p]}) <= OpBlocks
  BY DEF Reserved, HoldingPcs
<1> QED  BY <1>1, <1>2, <1>3, <1>4, <1>5, <1>6, OpStep

LEMMA BrelseInv == ASSUME IInv, NEW p \in Proc, Brelse(p) PROVE IInv'
<1>0. /\ machine = "up" /\ pc[p] \in {"brelse", "have"}
      /\ pc' = [pc EXCEPT ![p] = "op"]
  BY DEF Brelse, At, Goto
<1> USE Unfold, <1>0
<1>1. TypeOK'
  <2>1. pc' \in [Proc -> Pcs]  BY DEF TypeOK, Pcs
  <2>2. holder' \in [Block -> Proc \cup {None}] /\ cur' \in [Proc -> Block \cup {None}]
    BY DEF Brelse, TypeOK
  <2>3. UNCHANGED <<home, logb, hdr, lh, outstanding, committing, cache, dirty, wrote, left,
                    tail, machine>>
    BY DEF Brelse, disk
  <2> QED  BY <2>1, <2>2, <2>3 DEF TypeOK, BlockList
<1>2. InOp(p) /\ InOp(p)'  BY DEF InOp, HoldingPcs, TypeOK
<1>3. \A q \in Proc : q # p => pc'[q] = pc[q] /\ cur'[q] = cur[q]
  BY DEF Brelse, TypeOK
<1>4. Locks'  BY LogAssumption DEF Locks, HoldingPcs, TypeOK, Brelse
<1>5. Clean'
  BY DEF Clean, Brelse, disk, TypeOK, HoldingPcs
<1>6. pc'[p] \notin HoldingPcs  BY DEF TypeOK, HoldingPcs
<1>7. UNCHANGED <<disk, lh, outstanding, committing, wrote, tail, machine>>
  BY DEF Brelse
<1> QED  BY <1>1, <1>2, <1>3, <1>4, <1>5, <1>6, <1>7, OpStep

\* The operations O log no more than OpBlocks blocks each.
LEMMA Room ==
  ASSUME NEW w \in [Proc -> SUBSET Block], NEW O \in SUBSET Proc,
         \A p \in Proc : Cardinality(w[p]) <= OpBlocks /\ (p \notin O => w[p] = {})
  PROVE  Cardinality({x \in Proc \X Block : x[2] \in w[x[1]]})
           <= Cardinality(O) * OpBlocks
<1> DEFINE W == [p \in O |-> w[p]]
<1>1. \A p \in O : IsFiniteSet(W[p]) /\ Cardinality(W[p]) <= OpBlocks
  <2> SUFFICES ASSUME NEW p \in O
               PROVE  IsFiniteSet(W[p]) /\ Cardinality(W[p]) <= OpBlocks
    OBVIOUS
  <2>1. p \in Proc /\ W[p] = w[p] /\ w[p] \subseteq Block  OBVIOUS
  <2>2. IsFiniteSet(w[p])  BY <2>1, LogAssumption, FS_Subset
  <2>3. Cardinality(w[p]) \in Nat  BY <2>2, FS_CardinalityType
  <2> QED  BY <2>1, <2>2, <2>3, LogAssumption
<1>2. {x \in Proc \X Block : x[2] \in w[x[1]]}
        = {x \in O \X UNION {W[p] : p \in O} : x[2] \in W[x[1]]}
  <2>1. \A p \in Proc, b \in Block :
          b \in w[p] <=> p \in O /\ b \in UNION {W[q] : q \in O} /\ b \in W[p]
    OBVIOUS
  <2>2. UNION {W[q] : q \in O} \subseteq Block  OBVIOUS
  <2> QED  BY <2>1, <2>2
<1>3. OpBlocks \in Nat /\ IsFiniteSet(O)  BY LogAssumption, FS_Subset
<1> HIDE DEF W
<1> QED  BY <1>1, <1>2, <1>3, ChargeBound

LEMMA LogWriteInv == ASSUME IInv, NEW p \in Proc, LogWrite(p) PROVE IInv'
<1>0. machine = "up" /\ pc[p] = "log_lock" /\ pc' = [pc EXCEPT ![p] = "brelse"]
  BY DEF LogWrite, At, Goto
<1> USE Unfold, <1>0
<1> DEFINE b == cur[p]
<1>1. /\ b \in Block /\ holder[b] = p
      /\ wrote' = [wrote EXCEPT ![p] = @ \cup {b}]
      /\ dirty' = dirty \cup {b}
      /\ lh' = IF b \in RangeOf(lh) THEN lh ELSE Append(lh, b)
      /\ UNCHANGED <<disk, outstanding, committing, cache, holder, cur, left, tail, machine>>
  BY DEF LogWrite, Locks, HoldingPcs, Pin, Absorb
<1> HIDE DEF b
<1>2. lh \in Seq(Block) /\ lh' \in Seq(Block) /\ RangeOf(lh') = RangeOf(lh) \cup {b}
  BY <1>1, RangeAppend DEF TypeOK, BlockList
<1>3. \A q \in Proc : /\ InOp(q)' <=> InOp(q)
                      /\ Committing(q)' <=> Committing(q)
                      /\ pc'[q] \in HoldingPcs <=> pc[q] \in HoldingPcs
                      /\ q # p => (pc'[q] \in {"log_write", "log_lock"}
                                     <=> pc[q] \in {"log_write", "log_lock"})
  BY DEF TypeOK, InOp, Committing, HoldingPcs, CommitPcs
<1>4. Ops' = Ops  BY <1>3, SameOps
<1>5. InOp(p) /\ ~committing /\ \A q \in Proc : ~Committing(q)
  BY DEF Counting, Committing, InOp, HoldingPcs, CommitPcs
<1>6. /\ wrote' \in [Proc -> SUBSET Block]
      /\ wrote'[p] = wrote[p] \cup {b}
      /\ \A q \in Proc : q # p => wrote'[q] = wrote[q]
  BY <1>1 DEF TypeOK
<1>7. Logged' = Logged \cup {<<p, b>>}
  BY <1>1, <1>6 DEF Logged, TypeOK
<1>8. b \notin RangeOf(lh) => <<p, b>> \notin Logged
  BY DEF Reserved, Logged
<1>9. /\ Len(lh) \in Nat /\ Len(lh') \in Nat
      /\ b \in RangeOf(lh) => Len(lh') = Len(lh)
      /\ b \notin RangeOf(lh) => Len(lh') = Len(lh) + 1
  BY <1>1, <1>2
<1>10. Cardinality(Logged') = IF <<p, b>> \in Logged THEN Cardinality(Logged)
                              ELSE Cardinality(Logged) + 1
  BY <1>7, LoggedFinite, FS_AddElement
<1>11. Len(lh') + outstanding' * MAXOPBLOCKS <= LOGSIZE + Cardinality(Logged)'
  <2>1. outstanding * MAXOPBLOCKS \in Int  BY LogAssumption DEF TypeOK
  <2>2. Cardinality(Logged) \in Nat  BY LoggedFinite
  <2>3. Len(lh) + outstanding * MAXOPBLOCKS <= LOGSIZE + Cardinality(Logged)
    BY DEF Reserved
  <2>4. LOGSIZE \in Int  BY LogAssumption
  <2>5. outstanding' * MAXOPBLOCKS = outstanding * MAXOPBLOCKS  BY <1>1
  <2> QED  BY <1>8, <1>9, <1>10, <2>1, <2>2, <2>3, <2>4, <2>5
<1>12. Reserved'
  <2>1. \A q \in Proc : wrote'[q] \subseteq RangeOf(lh')
    BY <1>2, <1>6 DEF Reserved
  <2>2. \A q \in Proc : Cardinality(wrote'[q]) <= OpBlocks
    BY <1>6 DEF Reserved, HoldingPcs, b
  <2>3. \A q \in Proc : ~InOp(q)' => wrote'[q] = {}
    BY <1>3, <1>5, <1>6 DEF Reserved
  <2>4. \A q \in Proc : pc'[q] \in HoldingPcs =>
          Cardinality(wrote'[q] \cup {cur'[q]}) <= OpBlocks
    <3>1. wrote'[p] \cup {cur'[p]} = wrote[p] \cup {cur[p]}  BY <1>1, <1>6 DEF b
    <3> QED  BY <1>1, <1>3, <1>6, <3>1 DEF Reserved, HoldingPcs
  <2> QED  BY <1>11, <2>1, <2>2, <2>3, <2>4 DEF Reserved
<1>13. TypeOK'
  <2>1. Len(lh') <= LOGSIZE
    <3>2. outstanding' * MAXOPBLOCKS \in Int  BY <1>1, LogAssumption DEF TypeOK
    <3>3. Cardinality(Logged') \in Int
      BY <1>10, LoggedFinite
    <3>4. Cardinality(Logged') <= Cardinality(Ops') * MAXOPBLOCKS
      <4>1. Ops \in SUBSET Proc  BY DEF Ops
      <4>2. \A q \in Proc : Cardinality(wrote'[q]) <= OpBlocks /\ (q \notin Ops => wrote'[q] = {})
        BY <1>3, <1>12 DEF Reserved, Ops
      <4>3. Logged' = {x \in Proc \X Block : x[2] \in wrote'[x[1]]}  BY DEF Logged
      <4>4. Cardinality(Logged') <= Cardinality(Ops) * OpBlocks
        BY <1>6, <4>1, <4>2, <4>3, Room
      <4>5. Cardinality(Ops) * OpBlocks <= Cardinality(Ops) * MAXOPBLOCKS
        BY OpsFinite, LogAssumption
      <4>6. Cardinality(Ops) * OpBlocks \in Int /\ Cardinality(Ops) * MAXOPBLOCKS \in Int
        BY OpsFinite, LogAssumption
      <4> QED  BY <1>4, <3>3, <4>4, <4>5, <4>6
    <3>5. outstanding' = Cardinality(Ops')  BY <1>1, <1>4 DEF Counting
    <3> DEFINE m == outstanding' * MAXOPBLOCKS
               c == Cardinality(Logged')
    <3>6. m \in Int /\ c \in Int /\ c <= m /\ LOGSIZE \in Int
      BY <3>2, <3>3, <3>4, <3>5, LogAssumption
    <3>7. Len(lh') + m <= LOGSIZE + c  BY <1>11
    <3> HIDE DEF m, c
    <3> QED  BY <1>9, <3>6, <3>7
  <2>2. \A i, j \in 1 .. Len(lh') : lh'[i] = lh'[j] => i = j
    <3>1. CASE b \in RangeOf(lh)  BY <3>1, <1>1 DEF TypeOK, BlockList
    <3>2. CASE b \notin RangeOf(lh)
      <4>1. \A i \in 1 .. Len(lh) : lh'[i] = lh[i] /\ lh[i] # b
        BY <3>2, <1>1, <1>2 DEF RangeOf
      <4>2. Len(lh') = Len(lh) + 1 /\ lh'[Len(lh) + 1] = b
        BY <3>2, <1>1, <1>2
      <4>3. \A i \in 1 .. Len(lh') : i \in 1 .. Len(lh) \/ i = Len(lh) + 1
        BY <4>2, <1>9
      <4>4. \A i, j \in 1 .. Len(lh) : lh[i] = lh[j] => i = j
        BY DEF TypeOK, BlockList
      <4> HIDE DEF b
      <4> QED  BY <4>1, <4>2, <4>3, <4>4
    <3> QED  BY <3>1, <3>2
  <2>3. pc' \in [Proc -> Pcs]  BY DEF TypeOK, Pcs, HoldingPcs
  <2> QED  BY <1>1, <1>2, <1>6, <2>1, <2>2, <2>3 DEF TypeOK, BlockList, disk
<1>14. Counting'
  <2>1. outstanding # 0
    <3>1. p \in Ops  BY <1>5 DEF Ops
    <3> QED  BY <3>1, NoOps DEF Counting
  <2> QED  BY <1>1, <1>3, <1>4, <1>5, <2>1 DEF Counting
<1>15. Locks'  BY <1>1, <1>3, LogAssumption DEF Locks, TypeOK
<1>16. Clean'  BY <1>1, <1>2, <1>3 DEF Clean, disk, b
<1>17. \A q \in Proc : Phase(q)'  BY <1>3, <1>5 DEF Phase, Committing, CommitPcs
<1>18. ~committing' /\ hdr' = <<>> /\ tail' = 1  BY <1>1, <1>5 DEF disk
<1>19. Waiting'  BY <1>1 DEF Waiting, TypeOK
<1> QED
  BY <1>1, <1>12, <1>13, <1>14, <1>15, <1>16, <1>17, <1>18, <1>19 DEF IInv, Running, Up

\* wakeup changes who sleeps and nothing else.
LEMMA WakeFacts ==
  ASSUME NEW f \in [Proc -> Pcs]
  PROVE  /\ Wake(f) \in [Proc -> Pcs]
         /\ \A q \in Proc : /\ f[q] # "sleep" => Wake(f)[q] = f[q]
                            /\ f[q] = "sleep" => Wake(f)[q] = "begin"
BY DEF Wake, Pcs

LEMMA EndOpInv == ASSUME IInv, NEW p \in Proc, EndOp(p) PROVE IInv'
<1>0. machine = "up" /\ pc[p] = "op"  BY DEF EndOp, At
<1> USE Unfold, <1>0
<1>1. InOp(p) /\ ~committing /\ \A q \in Proc : ~Committing(q)
  BY DEF Counting, Committing, InOp, HoldingPcs, CommitPcs
<1>2. /\ outstanding' = outstanding - 1
      /\ wrote' = [wrote EXCEPT ![p] = {}]
      /\ left' = [left EXCEPT ![p] = 0]
      /\ UNCHANGED <<disk, lh, cache, dirty, holder, cur, tail, machine>>
      /\ outstanding = 1 => committing' = TRUE /\ pc' = [pc EXCEPT ![p] = "commit"]
      /\ outstanding # 1 => committing' = committing
                            /\ pc' = Wake([pc EXCEPT ![p] = "idle"])
  BY <1>1 DEF EndOp, Goto
<1>3. p \in Ops /\ outstanding = Cardinality(Ops) /\ outstanding \in Nat \ {0}
  <2>1. p \in Ops  BY <1>1 DEF Ops
  <2> QED  BY <2>1, OpsFinite, NoOps DEF Counting
<1>4. pc' \in [Proc -> Pcs]
  <2>1. [pc EXCEPT ![p] = "commit"] \in [Proc -> Pcs]
        /\ [pc EXCEPT ![p] = "idle"] \in [Proc -> Pcs]
    BY DEF TypeOK, Pcs, CommitPcs
  <2> QED  BY <2>1, <1>2, WakeFacts
<1>5. TypeOK'
  <2>1. committing' \in BOOLEAN  BY <1>2 DEF TypeOK
  <2>2. outstanding' \in Nat  BY <1>2, <1>3
  <2>3. wrote' \in [Proc -> SUBSET Block] /\ left' \in [Proc -> Nat]
    BY <1>2 DEF TypeOK
  <2>4. UNCHANGED <<home, logb, hdr, lh, cache, dirty, holder, cur, tail, machine>>
    BY <1>2 DEF disk
  <2> QED  BY <1>4, <2>1, <2>2, <2>3, <2>4 DEF TypeOK, BlockList
<1>6. /\ pc'[p] = IF outstanding = 1 THEN "commit" ELSE "idle"
      /\ \A q \in Proc : q # p /\ pc[q] # "sleep" => pc'[q] = pc[q]
      /\ \A q \in Proc : q # p /\ pc[q] = "sleep" => pc'[q] \in {"sleep", "begin"}
  <2>1. [pc EXCEPT ![p] = "idle"] \in [Proc -> Pcs]  BY DEF TypeOK, Pcs
  <2>2. CASE outstanding = 1  BY <2>2, <1>2 DEF TypeOK
  <2>3. CASE outstanding # 1
    <3> DEFINE g == [pc EXCEPT ![p] = "idle"]
    <3>1. g[p] = "idle" /\ \A q \in Proc : q # p => g[q] = pc[q]  BY DEF TypeOK
    <3>2. pc' = Wake(g) /\ g \in [Proc -> Pcs]  BY <2>1, <2>3, <1>2
    <3> HIDE DEF g
    <3> QED  BY <3>1, <3>2, <2>3, WakeFacts
  <2> QED  BY <2>2, <2>3
<1>7. \A q \in Proc : /\ q # p => (InOp(q)' <=> InOp(q)) /\ ~Committing(q)'
                      /\ q # p => (pc'[q] \in HoldingPcs <=> pc[q] \in HoldingPcs)
                      /\ q # p => (pc'[q] \in {"log_write", "log_lock"}
                                     <=> pc[q] \in {"log_write", "log_lock"})
  BY <1>1, <1>6 DEF InOp, Committing, HoldingPcs, CommitPcs
<1>8. ~InOp(p)' /\ (Committing(p)' <=> outstanding = 1) /\ pc'[p] \notin HoldingPcs
  BY <1>6 DEF InOp, Committing, HoldingPcs, CommitPcs
<1>9. Ops' = Ops \ {p}  BY <1>7, <1>8 DEF Ops
<1>10. Cardinality(Ops') = outstanding'
  BY <1>9, <1>3, <1>2, OpsFinite, FS_RemoveElement
<1>11. outstanding = 1 => Ops' = {}
  <2>1. Ops' \subseteq Ops /\ IsFiniteSet(Ops')  BY <1>9, OpsFinite, FS_Subset
  <2> QED  BY <2>1, <1>10, <1>2, FS_EmptySet
<1>12. Counting'
  <2>1. outstanding' = 0 /\ ~committing' => lh' = <<>>  BY <1>2, <1>3
  <2>2. committing' <=> \E q \in Proc : Committing(q)'  BY <1>1, <1>2, <1>7, <1>8
  <2>3. \A q \in Proc : outstanding = 1 => ~InOp(q)'  BY <1>11 DEF Ops
  <2>4. \A q, r \in Proc : Committing(q)' /\ q # r => ~InOp(r)' /\ ~Committing(r)'
    BY <1>7, <1>8, <2>3
  <2>5. \A q \in Proc : Committing(q)' => Ops' = {}  BY <1>7, <1>8, <1>11
  <2> QED  BY <1>10, <2>1, <2>2, <2>4, <2>5 DEF Counting
<1>13. /\ wrote' \in [Proc -> SUBSET Block] /\ wrote'[p] = {}
       /\ \A q \in Proc : q # p => wrote'[q] = wrote[q]
  BY <1>2 DEF TypeOK
<1>14. Reserved'
  <2> DEFINE Mine == {p} \X wrote[p]
  <2>1. Mine \subseteq Logged /\ Logged' = Logged \ Mine
    BY <1>13 DEF Logged, TypeOK
  <2>2. IsFiniteSet(wrote[p]) /\ IsFiniteSet({p}) /\ Cardinality({p}) = 1
    BY LogAssumption, FS_Subset, FS_Singleton DEF TypeOK
  <2>3. Cardinality(Mine) = Cardinality(wrote[p]) /\ Cardinality(wrote[p]) \in Nat
    <3>1. Cardinality(wrote[p]) \in Nat  BY <2>2, FS_CardinalityType
    <3>2. Cardinality(Mine) = Cardinality({p}) * Cardinality(wrote[p])  BY <2>2, FS_Product
    <3> QED  BY <3>1, <3>2, <2>2
  <2>4. Logged \cap Mine = Mine  BY <2>1
  <2>5. Cardinality(Logged') = Cardinality(Logged) - Cardinality(Mine)
    <3>1. Cardinality(Logged \ Mine) = Cardinality(Logged) - Cardinality(Logged \cap Mine)
      <4> HIDE DEF Mine
      <4> QED  BY LoggedFinite, FS_Difference
    <3> QED  BY <3>1, <2>1, <2>4
  <2>6. Cardinality(wrote[p]) <= MAXOPBLOCKS
    <3>1. Cardinality(wrote[p]) <= OpBlocks  BY DEF Reserved
    <3>2. OpBlocks \in Int /\ MAXOPBLOCKS \in Int /\ OpBlocks <= MAXOPBLOCKS
      BY LogAssumption
    <3> QED  BY <3>1, <3>2, <2>3
  <2>7. outstanding' * MAXOPBLOCKS = outstanding * MAXOPBLOCKS - MAXOPBLOCKS
    BY <1>2, <1>3, LogAssumption
  <2>8. Len(lh') + outstanding' * MAXOPBLOCKS <= LOGSIZE + Cardinality(Logged)'
    <3>1. Len(lh) + outstanding * MAXOPBLOCKS <= LOGSIZE + Cardinality(Logged)
      BY DEF Reserved
    <3>2. outstanding * MAXOPBLOCKS \in Int /\ MAXOPBLOCKS \in Int /\ LOGSIZE \in Int
      BY <1>3, LogAssumption
    <3>3. Len(lh) \in Nat /\ lh' = lh  BY <1>2 DEF TypeOK, BlockList
    <3> QED  BY <3>1, <3>2, <3>3, <2>3, <2>5, <2>6, <2>7, LoggedFinite
  <2>9. Cardinality({}) = 0 /\ OpBlocks \in Nat  BY FS_EmptySet, LogAssumption
  <2>10. \A q \in Proc : /\ wrote'[q] \subseteq RangeOf(lh')
                         /\ Cardinality(wrote'[q]) <= OpBlocks
                         /\ ~InOp(q)' => wrote'[q] = {}
    <3>1. lh' = lh /\ {} \subseteq RangeOf(lh)  BY <1>2
    <3>2. \A q \in Proc : /\ wrote[q] \subseteq RangeOf(lh)
                          /\ Cardinality(wrote[q]) <= OpBlocks
                          /\ ~InOp(q) => wrote[q] = {}
      BY DEF Reserved
    <3>3. \A q \in Proc : q # p => (InOp(q)' <=> InOp(q))  BY <1>7
    <3> QED  BY <3>1, <3>2, <3>3, <1>13, <2>9
  <2>11. \A q \in Proc : pc'[q] \in HoldingPcs
                          => Cardinality(wrote'[q] \cup {cur'[q]}) <= OpBlocks
    BY <1>2, <1>7, <1>8, <1>13 DEF Reserved
  <2> QED  BY <2>8, <2>10, <2>11 DEF Reserved
<1>15. Locks'
  <2>1. \A q \in Proc : pc'[q] \in HoldingPcs <=> pc[q] \in HoldingPcs
    BY <1>7, <1>8 DEF HoldingPcs
  <2>2. \A b \in Block : holder[b] # None => holder[b] \in Proc  BY DEF TypeOK
  <2> QED  BY <1>2, <2>1, <2>2 DEF Locks
<1>16. Clean'
  <2>1. \A q \in Proc : pc'[q] \in {"log_write", "log_lock"}
                          <=> pc[q] \in {"log_write", "log_lock"}
    BY <1>7, <1>6
  <2> QED  BY <1>2, <2>1 DEF Clean, disk
<1>17. hdr = <<>> /\ tail = 1  BY <1>1
<1>18. \A q \in Proc : Phase(q)'
  BY <1>2, <1>7, <1>6, <1>17 DEF Phase, Committing, CommitPcs, disk
<1>19. Waiting'
  <2>1. outstanding # 1 => outstanding' # 0  BY <1>2, <1>3
  <2> QED  BY <1>2, <2>1 DEF Waiting
<1> QED
  BY <1>2, <1>5, <1>12, <1>14, <1>15, <1>16, <1>17, <1>18, <1>19 DEF IInv, Running, Up, disk

-----------------------------------------------------------------------------
(* The commit.                                                             *)

\* While a process commits there is nothing to account for but the group.
LEMMA Alone ==
  ASSUME IInv, machine = "up", NEW p \in Proc, Committing(p)
  PROVE  /\ committing /\ outstanding = 0 /\ Ops = {}
         /\ \A q \in Proc : ~InOp(q) /\ wrote[q] = {} /\ pc[q] \notin HoldingPcs
         /\ \A q \in Proc : q # p => ~Committing(q)
         /\ \A b \in Block : holder[b] = None
         /\ \A b \in Block : cache[b] # home[b] => b \in dirty
<1> USE Unfold
<1>1. Ops = {} /\ committing  BY DEF Counting
<1>2. outstanding = 0  BY <1>1, NoOps DEF Counting
<1>3. \A q \in Proc : ~InOp(q) /\ pc[q] \notin HoldingPcs  BY <1>1 DEF Ops, InOp
<1>4. \A q \in Proc : wrote[q] = {}  BY <1>3 DEF Reserved
<1>5. \A b \in Block : holder[b] = None  BY <1>3 DEF Locks, TypeOK
<1>6. \A b \in Block : cache[b] # home[b] => b \in dirty  BY <1>3 DEF Clean, HoldingPcs
<1> QED  BY <1>1, <1>2, <1>3, <1>4, <1>5, <1>6 DEF Counting

\* A step of the commit that does not end it.
LEMMA CommitStep ==
  ASSUME IInv, machine = "up", NEW p \in Proc, Committing(p), NEW l \in CommitPcs,
         pc' = [pc EXCEPT ![p] = l],
         UNCHANGED <<outstanding, committing, holder, cur, wrote, left, machine>>,
         TypeOK', Phase(p)',
         dirty' \subseteq RangeOf(lh'),
         \A b \in Block : cache'[b] # home'[b] => b \in dirty'
  PROVE  IInv'
<1> USE Unfold, Alone
<1>1. \A q \in Proc : /\ ~InOp(q)' /\ pc'[q] \notin HoldingPcs
                      /\ q # p => pc'[q] = pc[q] /\ ~Committing(q)'
                      /\ Committing(p)'
  BY DEF TypeOK, InOp, Committing, HoldingPcs, CommitPcs
<1>2. Ops' = {}  BY <1>1 DEF Ops
<1>3. Logged' = {} /\ Cardinality(Logged') = 0
  <2>1. Logged' = {}  BY DEF Logged
  <2> QED  BY <2>1, FS_EmptySet
<1>4. Counting'
  BY <1>1, <1>2, FS_EmptySet DEF Counting
<1>5. Reserved'
  <2>1. (Len(lh) + outstanding * MAXOPBLOCKS <= LOGSIZE + Cardinality(Logged))'
    BY <1>3, LogAssumption DEF TypeOK, BlockList
  <2> QED  BY <1>1, <2>1, FS_EmptySet, LogAssumption DEF Reserved
<1>6. Locks'  BY <1>1 DEF Locks
<1>7. Clean'  BY DEF Clean
<1>8. \A q \in Proc : Phase(q)'
  BY <1>1 DEF Phase, Committing, CommitPcs
<1>9. Waiting'  BY DEF Waiting
<1> QED  BY <1>4, <1>5, <1>6, <1>7, <1>8, <1>9 DEF IInv, Running, Up

LEMMA CommitInv == ASSUME IInv, NEW p \in Proc, Commit(p) PROVE IInv'
<1>0. machine = "up" /\ pc[p] = "commit"  BY DEF Commit, At
<1>1. Committing(p)  BY <1>0 DEF Committing, CommitPcs
<1> USE Unfold, Alone, <1>0, <1>1
<1>2. PICK l \in {"done", "write_log"} :
        pc' = [pc EXCEPT ![p] = l] /\ (l = "done" <=> lh = <<>>)
  BY DEF Commit, Goto
<1>3. UNCHANGED <<disk, mem, cur, wrote, left, tail, machine>>  BY DEF Commit
<1>4. TypeOK'
  <2>1. pc' \in [Proc -> Pcs]  BY <1>2 DEF TypeOK, Pcs, CommitPcs
  <2> QED  BY <1>3, <2>1 DEF TypeOK, BlockList, disk, mem
<1>5. Phase(p)'
  <2>1. hdr = <<>> /\ tail = 1  BY DEF Phase
  <2>2. lh # <<>> => Len(lh) >= 1  BY EmptyRange DEF TypeOK, BlockList
  <2>3. CopiedTo(0)  BY DEF CopiedTo
  <2>4. CopiedTo(tail - 1)'  BY <2>1, <1>3 DEF CopiedTo
  <2>5. pc'[p] = l  BY <1>2 DEF TypeOK
  <2> QED  BY <1>2, <1>3, <2>1, <2>2, <2>4, <2>5 DEF Phase, disk, mem
<1>6. l \in CommitPcs  BY DEF CommitPcs
<1> QED  BY <1>2, <1>3, <1>4, <1>5, <1>6, CommitStep DEF Clean, disk, mem

LEMMA WriteLogInv == ASSUME IInv, NEW p \in Proc, WriteLog(p) PROVE IInv'
<1>0. machine = "up" /\ pc[p] = "write_log"  BY DEF WriteLog, At
<1>1. Committing(p)  BY <1>0 DEF Committing, CommitPcs
<1> USE Unfold, Alone, <1>0, <1>1
<1>2. hdr = <<>> /\ tail \in 1 .. Len(lh) /\ CopiedTo(tail - 1) /\ lh[tail] \in Block
      /\ Len(lh) \in Nat /\ lh # <<>>
  BY DEF Phase, TypeOK, BlockList
<1>3. PICK v \in Bread(lh[tail]) :
        cache' = [cache EXCEPT ![lh[tail]] = v] /\ logb' = [logb EXCEPT ![tail] = v]
  BY DEF WriteLog
<1>4. v = cache[lh[tail]] /\ v \in Value
  BY <1>2 DEF Bread, TypeOK
<1>5. cache' = cache  BY <1>3, <1>4 DEF TypeOK
<1>6. PICK l \in {"write_log", "write_head"} :
        /\ pc' = [pc EXCEPT ![p] = l]
        /\ l = "write_log" => tail < Len(lh) /\ tail' = tail + 1
        /\ l = "write_head" => tail = Len(lh) /\ tail' = 1
  BY <1>2 DEF WriteLog, Loop, Goto
<1>7. UNCHANGED <<home, hdr, lh, outstanding, committing, dirty, holder, cur, wrote,
                  left, machine>>
  BY DEF WriteLog
<1>8. tail \in LogIndex /\ 1 .. tail \subseteq LogIndex
  <2>1. Len(lh) <= LOGSIZE /\ LOGSIZE \in Nat  BY LogAssumption DEF TypeOK, BlockList
  <2> QED  BY <1>2, <2>1 DEF LogIndex
<1>9. TypeOK'
  <2>1. pc' \in [Proc -> Pcs]  BY <1>6 DEF TypeOK, Pcs, CommitPcs
  <2>2. logb' \in [LogIndex -> Value]  BY <1>3, <1>4 DEF TypeOK
  <2>3. tail' \in Nat \ {0}  BY <1>2, <1>6
  <2> QED  BY <1>5, <1>7, <2>1, <2>2, <2>3 DEF TypeOK, BlockList
<1>10. \A i \in 1 .. tail : logb'[i] = cache'[lh'[i]]
  <2> SUFFICES ASSUME NEW i \in 1 .. tail PROVE logb'[i] = cache[lh[i]]
    BY <1>5, <1>7
  <2>1. logb \in [LogIndex -> Value] /\ i \in LogIndex  BY <1>8 DEF TypeOK
  <2>2. CASE i = tail  BY <2>1, <2>2, <1>3, <1>4
  <2>3. CASE i # tail
    <3>1. i \in 1 .. tail - 1  BY <2>3, <1>2
    <3>2. logb'[i] = logb[i]  BY <2>1, <2>3, <1>3
    <3> QED  BY <3>1, <3>2, <1>2 DEF CopiedTo
  <2> QED  BY <2>2, <2>3
<1>11. Phase(p)'
  <2>1. pc'[p] = l  BY <1>6 DEF TypeOK
  <2>2. l = "write_log" => CopiedTo(tail - 1)'
    <3>1. l = "write_log" => tail' - 1 = tail  BY <1>2, <1>6
    <3> QED  BY <3>1, <1>10 DEF CopiedTo
  <2>3. l = "write_head" => CopiedTo(Len(lh))'
    BY <1>6, <1>7, <1>10 DEF CopiedTo
  <2>4. l = "write_log" => tail' <= Len(lh')  BY <1>2, <1>6, <1>7
  <2> QED  BY <1>2, <1>6, <1>7, <2>1, <2>2, <2>3, <2>4 DEF Phase
<1>12. l \in CommitPcs  BY DEF CommitPcs
<1> QED  BY <1>5, <1>6, <1>7, <1>9, <1>11, <1>12, CommitStep DEF Clean

LEMMA WriteHeadInv == ASSUME IInv, NEW p \in Proc, WriteHead(p) PROVE IInv'
<1>0. /\ machine = "up" /\ pc[p] = "write_head"
      /\ pc' = [pc EXCEPT ![p] = "install_trans"]
  BY DEF WriteHead, At, Goto
<1>1. Committing(p)  BY <1>0 DEF Committing, CommitPcs
<1> USE Unfold, Alone, <1>0, <1>1
<1>2. hdr' = lh /\ UNCHANGED <<home, logb, mem, cur, wrote, left, tail, machine>>
  BY DEF WriteHead
<1>3. tail = 1 /\ lh # <<>> /\ CopiedTo(Len(lh)) /\ Len(lh) >= 1
  BY EmptyRange DEF Phase, TypeOK, BlockList
<1>4. TypeOK'
  <2>1. pc' \in [Proc -> Pcs]  BY DEF TypeOK, Pcs, CommitPcs
  <2> QED  BY <1>2, <2>1 DEF TypeOK, BlockList, mem
<1>5. Phase(p)'
  <2>1. pc'[p] = "install_trans"  BY DEF TypeOK
  <2>2. CopiedTo(Len(lh))' /\ InstalledTo(tail - 1)' /\ Unwritten(tail - 1)'
    BY <1>2, <1>3 DEF CopiedTo, InstalledTo, Unwritten, mem
  <2> QED  BY <1>2, <1>3, <2>1, <2>2 DEF Phase, mem
<1>6. "install_trans" \in CommitPcs  BY DEF CommitPcs
<1> QED  BY <1>2, <1>4, <1>5, <1>6, CommitStep DEF Clean, mem

\* What one step of install_trans does to the blocks of the group.
LEMMA InstallFacts ==
  ASSUME TypeOK, Install, hdr = lh, tail \in 1 .. Len(lh), InstalledTo(tail - 1),
         UNCHANGED <<logb, hdr, lh>>
  PROVE  /\ home' \in [Block -> Value] /\ cache' \in [Block -> Value]
         /\ dirty' \subseteq Block
         /\ home'[lh[tail]] = logb[tail] /\ cache'[lh[tail]] = logb[tail]
         /\ \A b \in Block : b # lh[tail] => home'[b] = home[b] /\ cache'[b] = cache[b]
         /\ \A i \in 1 .. tail : home'[lh[i]] = logb[i]
         /\ tail \in LogIndex /\ lh[tail] \in Block
<1>1. tail \in LogIndex
  <2>1. Len(lh) <= LOGSIZE /\ LOGSIZE \in Nat /\ Len(lh) \in Nat
    BY LogAssumption DEF TypeOK, BlockList
  <2> QED  BY <2>1 DEF LogIndex
<1>2. lh[tail] \in Block /\ logb[tail] \in Value  BY <1>1 DEF TypeOK, BlockList
<1>3. /\ home' = [home EXCEPT ![lh[tail]] = logb[tail]]
      /\ cache' = [cache EXCEPT ![lh[tail]] = logb[tail]]
      /\ dirty' = dirty \ {lh[tail]}
  BY DEF Install
<1>4. \A i \in 1 .. tail : home'[lh[i]] = logb[i]
  <2> SUFFICES ASSUME NEW i \in 1 .. tail PROVE home'[lh[i]] = logb[i]  OBVIOUS
  <2>1. CASE i = tail  BY <2>1, <1>2, <1>3 DEF TypeOK
  <2>2. CASE i # tail
    <3>1. i \in 1 .. tail - 1 /\ i \in 1 .. Len(lh)  BY <2>2
    <3>2. lh[i] \in Block /\ lh[i] # lh[tail]  BY <2>2, <3>1 DEF TypeOK, BlockList
    <3>3. home[lh[i]] = logb[i]  BY <3>1 DEF InstalledTo
    <3> QED  BY <3>2, <3>3, <1>3 DEF TypeOK
  <2> QED  BY <2>1, <2>2
<1> QED  BY <1>1, <1>2, <1>3, <1>4 DEF TypeOK

LEMMA InstallTransInv == ASSUME IInv, NEW p \in Proc, InstallTrans(p) PROVE IInv'
<1>0. machine = "up" /\ pc[p] = "install_trans"  BY DEF InstallTrans, At
<1>1. Committing(p)  BY <1>0 DEF Committing, CommitPcs
<1>2. /\ hdr = lh /\ tail \in 1 .. Len(lh) /\ CopiedTo(Len(lh)) /\ InstalledTo(tail - 1)
      /\ Unwritten(tail - 1) /\ Len(lh) \in Nat /\ lh \in Seq(Block) /\ TypeOK
      /\ dirty \subseteq RangeOf(lh)
  BY <1>0, Unfold DEF Phase, TypeOK, BlockList, Clean
<1>3. /\ Install
      /\ UNCHANGED <<logb, hdr, lh, outstanding, committing, holder, cur, wrote, left, machine>>
  BY DEF InstallTrans
<1>4. PICK l \in {"install_trans", "erase"} :
        /\ pc' = [pc EXCEPT ![p] = l]
        /\ l = "install_trans" => tail < Len(lh) /\ tail' = tail + 1
        /\ l = "erase" => tail = Len(lh) /\ tail' = 1
  BY <1>2 DEF InstallTrans, Loop, Goto
<1>5. /\ home' \in [Block -> Value] /\ cache' \in [Block -> Value]
      /\ dirty' \subseteq Block
      /\ home'[lh[tail]] = logb[tail] /\ cache'[lh[tail]] = logb[tail]
      /\ \A b \in Block : b # lh[tail] => home'[b] = home[b] /\ cache'[b] = cache[b]
      /\ \A i \in 1 .. tail : home'[lh[i]] = logb[i]
      /\ lh[tail] \in Block
  BY <1>2, <1>3, InstallFacts
<1>6. dirty' = dirty \ {lh[tail]}  BY <1>3 DEF Install
<1>7. TypeOK'
  <2>1. pc' \in [Proc -> Pcs]  BY <1>2, <1>4 DEF TypeOK, Pcs, CommitPcs
  <2>2. tail' \in Nat \ {0}  BY <1>2, <1>4
  <2>3. TypeOK  BY <1>2
  <2>4. UNCHANGED <<logb, hdr, lh, outstanding, committing, holder, cur, wrote, left, machine>>
    BY <1>3
  <2>5. home' \in [Block -> Value] /\ cache' \in [Block -> Value] /\ dirty' \subseteq Block
    BY <1>5
  <2> QED  BY ONLY <2>1, <2>2, <2>3, <2>4, <2>5 DEF TypeOK, BlockList
<1>8. cache' = cache
  <2>1. cache[lh[tail]] = logb[tail]  BY <1>2 DEF CopiedTo
  <2> QED  BY <2>1, <1>2, <1>5 DEF TypeOK
<1>9. CopiedTo(Len(lh))'  BY <1>2, <1>3, <1>8 DEF CopiedTo
<1>10. \A i \in 1 .. tail : lh[i] \notin dirty'
  <2> SUFFICES ASSUME NEW i \in 1 .. tail PROVE lh[i] \notin dirty'  OBVIOUS
  <2>1. CASE i = tail  BY <2>1, <1>6
  <2>2. CASE i # tail
    <3>1. i \in 1 .. tail - 1  BY <2>2, <1>2
    <3> QED  BY <3>1, <1>2, <1>6 DEF Unwritten
  <2> QED  BY <2>1, <2>2
<1>11. Phase(p)'
  <2>1. pc'[p] = l  BY <1>2, <1>4 DEF TypeOK
  <2>2. l = "install_trans" => tail' - 1 = tail /\ tail' <= Len(lh)  BY <1>2, <1>4
  <2>3. l = "install_trans" => InstalledTo(tail - 1)' /\ Unwritten(tail - 1)'
    BY <2>2, <1>3, <1>5, <1>10 DEF InstalledTo, Unwritten
  <2>4. l = "erase" => InstalledTo(Len(lh))' /\ Unwritten(Len(lh))'
    BY <1>3, <1>4, <1>5, <1>10 DEF InstalledTo, Unwritten
  <2> QED  BY <1>2, <1>3, <1>4, <1>9, <2>1, <2>2, <2>3, <2>4 DEF Phase
<1>12. \A b \in Block : cache'[b] # home'[b] => b \in dirty'
  BY <1>0, <1>1, <1>5, <1>6, Alone
<1>13. dirty' \subseteq RangeOf(lh')  BY <1>2, <1>3, <1>6
<1>14. l \in CommitPcs  BY DEF CommitPcs
<1> QED  BY <1>0, <1>1, <1>3, <1>4, <1>7, <1>11, <1>12, <1>13, <1>14, CommitStep

LEMMA EraseInv == ASSUME IInv, NEW p \in Proc, Erase(p) PROVE IInv'
<1>0. machine = "up" /\ pc[p] = "erase" /\ pc' = [pc EXCEPT ![p] = "done"]
  BY DEF Erase, At, Goto
<1>1. Committing(p)  BY <1>0 DEF Committing, CommitPcs
<1>2. /\ TypeOK /\ tail = 1 /\ Unwritten(Len(lh)) /\ dirty \subseteq RangeOf(lh)
  BY <1>0, Unfold DEF Phase, Clean
<1>3. dirty = {}  BY <1>2 DEF Unwritten, RangeOf
<1>4. /\ lh' = <<>> /\ hdr' = <<>>
      /\ UNCHANGED <<home, logb, outstanding, committing, cache, dirty, holder, cur,
                     wrote, left, tail, machine>>
  BY DEF Erase, Clear
<1>5. TypeOK'
  <2>1. pc' \in [Proc -> Pcs]  BY <1>0, <1>2 DEF TypeOK, Pcs, CommitPcs
  <2>2. BlockList(hdr)' /\ BlockList(lh)'  BY <1>4, LogAssumption DEF BlockList
  <2> QED  BY <1>2, <1>4, <2>1, <2>2 DEF TypeOK
<1>6. Phase(p)'
  <2>1. pc'[p] = "done"  BY <1>0, <1>2 DEF TypeOK
  <2> QED  BY <2>1, <1>2, <1>4 DEF Phase
<1>7. \A b \in Block : cache'[b] # home'[b] => b \in dirty'
  BY <1>0, <1>1, <1>4, Alone
<1>8. "done" \in CommitPcs  BY DEF CommitPcs
<1> QED  BY <1>0, <1>1, <1>3, <1>4, <1>5, <1>6, <1>7, <1>8, CommitStep

LEMMA CommitDoneInv == ASSUME IInv, NEW p \in Proc, CommitDone(p) PROVE IInv'
<1>0. machine = "up" /\ pc[p] = "done" /\ pc' = Wake([pc EXCEPT ![p] = "idle"])
      /\ committing' = FALSE
      /\ UNCHANGED <<disk, lh, outstanding, cache, dirty, holder, cur, wrote, left, tail,
                     machine>>
  BY DEF CommitDone, At
<1>1. Committing(p)  BY <1>0 DEF Committing, CommitPcs
<1> USE Unfold, Alone, <1>0, <1>1
<1> USE DEF disk
<1>2. hdr = <<>> /\ lh = <<>> /\ tail = 1 /\ dirty = {}
  BY EmptyRange DEF Phase, Clean
<1>3. [pc EXCEPT ![p] = "idle"] \in [Proc -> Pcs]  BY DEF TypeOK, Pcs
<1>4. \A q \in Proc : ~InOp(q)' /\ ~Committing(q)' /\ pc'[q] \notin HoldingPcs \cup {"sleep"}
  <2> DEFINE g == [pc EXCEPT ![p] = "idle"]
  <2>1. g[p] = "idle" /\ \A q \in Proc : q # p => g[q] = pc[q]  BY DEF TypeOK
  <2>2. \A q \in Proc : g[q] \notin HoldingPcs \cup CommitPcs \cup {"op"}
    BY <2>1 DEF InOp, Committing, HoldingPcs, CommitPcs
  <2>3. pc' = Wake(g) /\ g \in [Proc -> Pcs]  BY <1>3
  <2> HIDE DEF g
  <2> QED  BY <2>2, <2>3, WakeFacts DEF InOp, Committing, HoldingPcs, CommitPcs
<1>5. TypeOK'
  <2>1. pc' \in [Proc -> Pcs]  BY <1>3, WakeFacts
  <2>2. committing' \in BOOLEAN  OBVIOUS
  <2>3. UNCHANGED <<home, logb, hdr, lh, outstanding, cache, dirty, holder, cur, wrote,
                    left, tail, machine>>
    OBVIOUS
  <2>4. TypeOK  OBVIOUS
  <2> QED  BY ONLY <2>1, <2>2, <2>3, <2>4 DEF TypeOK, BlockList
<1>6. Ops' = {}  BY <1>4 DEF Ops
<1>7. Logged' = {} /\ Cardinality({}) = 0  BY FS_EmptySet DEF Logged
<1>8. Counting'  BY <1>2, <1>4, <1>6, <1>7 DEF Counting
<1>9. Reserved'
  <2>1. (Len(lh) + outstanding * MAXOPBLOCKS <= LOGSIZE + Cardinality(Logged))'
    BY <1>2, <1>7, LogAssumption
  <2> QED  BY <1>4, <1>7, <2>1, LogAssumption DEF Reserved
<1>10. Locks'  BY <1>4 DEF Locks
<1>11. Clean'  BY <1>2 DEF Clean
<1>12. \A q \in Proc : Phase(q)'  BY <1>4 DEF Phase, Committing, CommitPcs
<1>13. Waiting'  BY <1>4 DEF Waiting
<1> QED  BY <1>2, <1>5, <1>8, <1>9, <1>10, <1>11, <1>12, <1>13 DEF IInv, Running, Up

-----------------------------------------------------------------------------
(* Crash and recovery.                                                     *)

LEMMA CrashInv == ASSUME IInv, Crash PROVE IInv'
<1>1. TypeOK  BY DEF IInv
<1>2. /\ machine' = "read_head" /\ lh' = <<>> /\ outstanding' = 0 /\ committing' = FALSE
      /\ cache' = home /\ dirty' = {} /\ holder' = [b \in Block |-> None]
      /\ pc' = [p \in Proc |-> "idle"] /\ cur' = [p \in Proc |-> None]
      /\ wrote' = [p \in Proc |-> {}] /\ left' = [p \in Proc |-> 0] /\ tail' = 1
      /\ UNCHANGED <<home, logb, hdr>>
  BY DEF Crash, disk
<1>3. TypeOK'
  <2>1. pc' \in [Proc -> Pcs] /\ wrote' \in [Proc -> SUBSET Block] /\ left' \in [Proc -> Nat]
    BY <1>2 DEF Pcs
  <2>2. BlockList(lh)' /\ BlockList(hdr)'
    BY <1>1, <1>2, LogAssumption DEF TypeOK, BlockList
  <2>3. holder' \in [Block -> Proc \cup {None}] /\ cur' \in [Proc -> Block \cup {None}]
    BY <1>2
  <2>4. committing' \in BOOLEAN  BY <1>2
  <2> QED  BY <1>1, <1>2, <2>1, <2>2, <2>3, <2>4 DEF TypeOK
<1>4. Down'  BY <1>2 DEF Down
<1>5. ~Running'  BY <1>2 DEF Running
<1> QED  BY <1>3, <1>4, <1>5 DEF IInv

LEMMA ReadHeadInv == ASSUME IInv, ReadHead PROVE IInv'
<1>1. TypeOK /\ Down  BY DEF IInv, Running, ReadHead
<1>2. /\ machine = "read_head" /\ lh' = hdr
      /\ machine' = IF hdr = <<>> THEN "clear" ELSE "install"
      /\ UNCHANGED <<home, logb, hdr, outstanding, committing, cache, dirty, holder, pc,
                     cur, wrote, left, tail>>
  BY DEF ReadHead, disk
<1>3. TypeOK'  BY <1>1, <1>2 DEF TypeOK, BlockList
<1>4. hdr # <<>> => Len(hdr) >= 1  BY <1>1, EmptyRange DEF TypeOK, BlockList
<1>5. InstalledTo(tail - 1)' /\ tail' = 1  BY <1>1, <1>2 DEF InstalledTo, Down
<1>6. hdr = <<>> => InstalledTo(Len(lh))'  BY <1>2 DEF InstalledTo
<1>7. Down'  BY <1>1, <1>2, <1>4, <1>5, <1>6 DEF Down
<1>8. ~Running'  BY <1>2 DEF Running
<1> QED  BY <1>3, <1>7, <1>8 DEF IInv

LEMMA RecoverInstallInv == ASSUME IInv, RecoverInstall PROVE IInv'
<1>1. TypeOK /\ Down /\ machine = "install"  BY DEF IInv, Running, RecoverInstall
<1>2. /\ Install
      /\ UNCHANGED <<logb, hdr, lh, outstanding, committing, holder, pc, cur, wrote, left>>
      /\ tail < Len(lh) => tail' = tail + 1 /\ UNCHANGED machine
      /\ ~(tail < Len(lh)) => tail' = 1 /\ machine' = "clear"
  BY DEF RecoverInstall
<1>3. lh = hdr /\ tail \in 1 .. Len(lh) /\ InstalledTo(tail - 1) /\ Len(lh) \in Nat
  BY <1>1 DEF Down, TypeOK, BlockList
<1>4. /\ home' \in [Block -> Value] /\ cache' \in [Block -> Value]
      /\ dirty' \subseteq Block
      /\ home'[lh[tail]] = logb[tail] /\ cache'[lh[tail]] = logb[tail]
      /\ \A b \in Block : b # lh[tail] => home'[b] = home[b] /\ cache'[b] = cache[b]
      /\ \A i \in 1 .. tail : home'[lh[i]] = logb[i]
      /\ lh[tail] \in Block
  BY <1>1, <1>2, <1>3, InstallFacts
<1>5. TypeOK'
  <2>1. tail' \in Nat \ {0}  BY <1>2, <1>3
  <2>2. machine' \in {"up", "panic", "read_head", "install", "clear"}  BY <1>1, <1>2
  <2> QED  BY <1>1, <1>2, <1>4, <2>1, <2>2 DEF TypeOK, BlockList
<1>6. cache' = home'  BY <1>1, <1>4 DEF Down, TypeOK
<1>7. dirty' = {}  BY <1>1, <1>2 DEF Install, Down
<1>8. tail < Len(lh) => tail' - 1 = tail /\ tail' <= Len(lh)  BY <1>2, <1>3
<1>9. tail < Len(lh) => InstalledTo(tail - 1)'
  BY <1>8, <1>2, <1>4 DEF InstalledTo
<1>10. ~(tail < Len(lh)) => InstalledTo(Len(lh))'
  <2>1. ~(tail < Len(lh)) => tail = Len(lh)  BY <1>3
  <2> QED  BY <2>1, <1>2, <1>4 DEF InstalledTo
<1>11. Down'
  BY <1>1, <1>2, <1>3, <1>6, <1>7, <1>8, <1>9, <1>10 DEF Down
<1>12. ~Running'  BY <1>1, <1>2 DEF Running
<1> QED  BY <1>5, <1>11, <1>12 DEF IInv

LEMMA RecoverClearInv == ASSUME IInv, RecoverClear PROVE IInv'
<1>1. TypeOK /\ Down /\ machine = "clear"  BY DEF IInv, Running, RecoverClear
<1>2. /\ lh' = <<>> /\ hdr' = <<>> /\ machine' = "up"
      /\ UNCHANGED <<home, logb, outstanding, committing, cache, dirty, holder, pc, cur,
                     wrote, left, tail>>
  BY DEF RecoverClear, Clear
<1>3. BlockList(hdr)' /\ BlockList(lh)'  BY <1>2, LogAssumption DEF BlockList
<1>4. TypeOK'  BY <1>1, <1>2, <1>3 DEF TypeOK
<1>5. \A q \in Proc : ~InOp(q)' /\ ~Committing(q)' /\ pc'[q] \notin HoldingPcs
                      /\ wrote'[q] = {}
  BY <1>1, <1>2 DEF Down, InOp, Committing, HoldingPcs, CommitPcs
<1>6. Ops' = {} /\ Logged' = {} /\ Cardinality({}) = 0
  BY <1>5, FS_EmptySet DEF Ops, Logged
<1>7. outstanding' = 0 /\ ~committing' /\ tail' = 1 /\ dirty' = {} /\ cache' = home'
      /\ \A b \in Block : holder'[b] = None
  BY <1>1, <1>2 DEF Down
<1>8. Counting'  BY <1>2, <1>5, <1>6, <1>7 DEF Counting
<1>9. Reserved'
  <2>1. (Len(lh) + outstanding * MAXOPBLOCKS <= LOGSIZE + Cardinality(Logged))'
    BY <1>2, <1>6, <1>7, LogAssumption
  <2>2. \A q \in Proc : wrote'[q] = {}  BY <1>5
  <2>3. Cardinality({}) <= OpBlocks  BY <1>6, LogAssumption
  <2> QED  BY <1>5, <2>1, <2>2, <2>3 DEF Reserved
<1>10. Locks'  BY <1>5, <1>7 DEF Locks
<1>11. Clean'  BY <1>7 DEF Clean
<1>12. \A q \in Proc : Phase(q)'  BY <1>5 DEF Phase, Committing, CommitPcs
<1>13. Waiting'  BY <1>1, <1>2 DEF Down, Waiting
<1> QED  BY <1>2, <1>4, <1>7, <1>8, <1>9, <1>10, <1>11, <1>12, <1>13 DEF IInv, Running, Up

-----------------------------------------------------------------------------
(* The invariant holds of the specification.                               *)

LEMMA NextInv == ASSUME IInv, [Next]_vars PROVE IInv'
<1>1. CASE Crash  BY <1>1, CrashInv
<1>2. CASE Recovery
  BY <1>2, ReadHeadInv, RecoverInstallInv, RecoverClearInv DEF Recovery
<1>3. ASSUME NEW p \in Proc, Operation(p) PROVE IInv'
  BY <1>3, SyscallInv, BeginSleepInv, BeginOpInv, OpBreadInv, ModifyInv,
     LogWriteCheckInv, LogWriteInv, BrelseInv, EndOpInv DEF Operation
<1>4. ASSUME NEW p \in Proc, Committer(p) PROVE IInv'
  BY <1>4, CommitInv, WriteLogInv, WriteHeadInv, InstallTransInv, EraseInv,
     CommitDoneInv DEF Committer
<1>5. CASE UNCHANGED vars
  <2> USE <1>5 DEF vars, disk, mem, ctl
  <2>1. TypeOK' = TypeOK /\ Down' = Down /\ Running' = Running
    BY DEF TypeOK, BlockList, Down, InstalledTo, Running
  <2>2. Ops' = Ops /\ Logged' = Logged  BY DEF Ops, InOp, Logged
  <2>3. Counting' = Counting  BY <2>2 DEF Counting, InOp, Committing
  <2>4. Reserved' = Reserved  BY <2>2 DEF Reserved, InOp
  <2>5. Locks' = Locks /\ Clean' = Clean /\ Waiting' = Waiting
    BY DEF Locks, Clean, Waiting
  <2>6. \A p \in Proc : Phase(p)' = Phase(p)
    BY DEF Phase, CopiedTo, InstalledTo, Unwritten
  <2> QED  BY <2>1, <2>3, <2>4, <2>5, <2>6 DEF IInv, Up
<1> QED  BY <1>1, <1>2, <1>3, <1>4, <1>5 DEF Next

THEOREM Invariance == Spec => []IInv
BY InitIInv, NextInv, PTL DEF Spec

\* Every variable has its type; in particular the group never outgrows the
\* LOGSIZE blocks that begin_op reserves against.
THEOREM TypeCorrect == Spec => []TypeOK
<1>1. IInv => TypeOK  BY DEF IInv
<1> QED  BY <1>1, Invariance, PTL

\* No operation is under way while a process commits, and one process
\* commits at a time (log.committing, log.outstanding).
THEOREM CommitsRunAlone == Spec => []CommitAlone
<1>1. IInv => CommitAlone  BY Unfold DEF Counting, CommitAlone
<1> QED  BY <1>1, Invariance, PTL

\* A process that sleeps in begin_op has somebody to wake it: an operation
\* under way, whose end_op will, or the process that commits.
THEOREM SleepersAwaited == Spec => []SleepersHaveAWaker
<1>1. ASSUME IInv PROVE SleepersHaveAWaker
  <2> SUFFICES ASSUME NEW p \in Proc, pc[p] = "sleep", machine = "up"
               PROVE  \E q \in Proc : InOp(q) \/ Committing(q)
    BY DEF SleepersHaveAWaker
  <2>1. outstanding # 0 \/ committing  BY <1>1, Unfold DEF Waiting
  <2>2. outstanding # 0 => \E q \in Proc : InOp(q)
    BY <1>1, Unfold, NoOps DEF Counting, Ops
  <2>3. committing => \E q \in Proc : Committing(q)  BY <1>1, Unfold DEF Counting
  <2> QED  BY <2>1, <2>2, <2>3
<1> QED  BY <1>1, Invariance, PTL

\* end_op's promise: with no operation and no commit under way, everything
\* written is at its home on the disk.
THEOREM QuietDurable == Spec => []QuietMeansDurable
<1>1. ASSUME IInv PROVE QuietMeansDurable
  <2> SUFFICES ASSUME machine = "up", outstanding = 0, ~committing
               PROVE  home = cache /\ hdr = <<>> /\ lh = <<>> /\ dirty = {}
    BY DEF QuietMeansDurable
  <2> USE Unfold, <1>1
  <2>1. hdr = <<>> /\ lh = <<>>  BY DEF Counting
  <2>2. dirty = {}  BY <2>1, EmptyRange DEF Clean
  <2>3. \A p \in Proc : ~InOp(p)  BY NoOps DEF Counting, Ops
  <2>4. \A b \in Block : cache[b] = home[b]
    BY <2>2, <2>3 DEF Clean, InOp, HoldingPcs
  <2> QED  BY <2>1, <2>2, <2>4 DEF TypeOK
<1> QED  BY <1>1, Invariance, PTL

\* A block that the log still has to write stays in the cache (B_DIRTY).
THEOREM Pinned == Spec => []LoggedIsPinned
<1>1. ASSUME IInv PROVE LoggedIsPinned
  <2> SUFFICES ASSUME machine = "up", NEW b \in Block, cache[b] # home[b],
                      holder[b] = None
               PROVE  b \in dirty
    BY DEF LoggedIsPinned
  <2> USE Unfold, <1>1
  <2>1. \A p \in Proc : pc[p] \in HoldingPcs => cur[p] # b
    BY LogAssumption DEF Locks
  <2> QED  BY <2>1 DEF Clean, HoldingPcs
<1> QED  BY <1>1, Invariance, PTL

\* log_write has room in the log on the disk, header included, and end_op finds
\* no commit under way (log.c:151, 218-221), if no operation uses the last two of
\* the blocks that begin_op reserves for it.  With one that uses them all the
\* log overflows: the reservation by itself does not suffice.
THEOREM ReservationWithSlack ==
  ASSUME OpBlocks + 2 <= MAXOPBLOCKS, LOGSIZE <= NLOG
  PROVE  Spec => []ReservationSuffices
<1>1. Init => ReservationSuffices  BY DEF Init, ReservationSuffices
<1>2. IInv /\ ReservationSuffices /\ [Next]_vars => ReservationSuffices'
  <2> SUFFICES ASSUME IInv, machine # "panic", [Next]_vars PROVE machine' # "panic"
    BY DEF ReservationSuffices
  <2> USE Unfold
  <2>1. ASSUME NEW p \in Proc, LogWriteCheck(p) PROVE machine' # "panic"
    <3>1. machine = "up" /\ InOp(p)
      BY <2>1 DEF LogWriteCheck, At, InOp, HoldingPcs
    <3>2. outstanding = Cardinality(Ops) /\ outstanding \in Nat /\ outstanding >= 1
      BY <3>1, OpsFinite, NoOps DEF Counting, Ops
    <3>3. Cardinality(Logged) <= outstanding * OpBlocks
      <4>1. \A q \in Proc : Cardinality(wrote[q]) <= OpBlocks /\ (q \notin Ops => wrote[q] = {})
        BY <3>1 DEF Reserved, Ops
      <4>2. wrote \in [Proc -> SUBSET Block] /\ Ops \in SUBSET Proc  BY <3>1 DEF TypeOK, Ops
      <4> QED  BY <3>2, <4>1, <4>2, Room DEF Logged
    <3>4. Len(lh) + outstanding * MAXOPBLOCKS <= LOGSIZE + Cardinality(Logged) /\ Len(lh) \in Nat
      BY <3>1 DEF Reserved, TypeOK, BlockList
    <3>5. outstanding * OpBlocks + 2 <= outstanding * MAXOPBLOCKS
      BY <3>2, LogAssumption
    <3>6. Len(lh) + 2 <= LOGSIZE
      BY <3>2, <3>3, <3>4, <3>5, LoggedFinite, LogAssumption
    <3> QED  BY <2>1, <3>1, <3>2, <3>6, LogAssumption DEF LogWriteCheck, TooBig, OutsideOfTrans
  <2>2. ASSUME NEW p \in Proc, EndOp(p) PROVE machine' # "panic"
    <3>1. machine = "up" /\ InOp(p)  BY <2>2 DEF EndOp, At, InOp
    <3>2. ~committing
      BY <3>1 DEF Counting, Ops
    <3> QED  BY <2>2, <3>2 DEF EndOp
  <2>3. CASE UNCHANGED vars  BY <2>3 DEF vars, ctl
  <2> QED  BY <2>1, <2>2, <2>3 DEF Next, Operation, Committer, Recovery, Crash,
              Syscall, BeginSleep, BeginOp, OpBread, Modify, LogWrite, Brelse, Commit, WriteLog,
              WriteHead, InstallTrans, Erase, CommitDone, ReadHead, RecoverInstall, RecoverClear
<1> QED  BY <1>1, <1>2, Invariance, PTL DEF Spec

-----------------------------------------------------------------------------
(* The log implements AtomicDisk.                                          *)

\* What recovery makes of the disk.
LEMMA RecoveredFacts ==
  ASSUME TypeOK
  PROVE  /\ Recovered \in [Block -> Value]
         /\ \A i \in 1 .. Len(hdr) : hdr[i] \in Block /\ Recovered[hdr[i]] = logb[i]
         /\ \A b \in Block : b \notin RangeOf(hdr) => Recovered[b] = home[b]
         /\ hdr = <<>> => Recovered = home
<1>1. Len(hdr) \in Nat /\ Len(hdr) <= LOGSIZE /\ LOGSIZE \in Nat
  BY LogAssumption DEF TypeOK, BlockList
<1>2. \A i \in 1 .. Len(hdr) : hdr[i] \in Block /\ i \in LogIndex
  BY <1>1 DEF TypeOK, BlockList, LogIndex
<1>3. \A i \in 1 .. Len(hdr) : Recovered[hdr[i]] = logb[i]
  <2> SUFFICES ASSUME NEW i \in 1 .. Len(hdr) PROVE Recovered[hdr[i]] = logb[i]  OBVIOUS
  <2>1. hdr[i] \in RangeOf(hdr)  BY DEF RangeOf
  <2>2. \A j \in 1 .. Len(hdr) : hdr[j] = hdr[i] => j = i  BY DEF TypeOK, BlockList
  <2>3. (CHOOSE j \in 1 .. Len(hdr) : hdr[j] = hdr[i]) = i  BY <2>2
  <2> QED  BY <1>2, <2>1, <2>3 DEF Recovered
<1>4. \A b \in Block : b \notin RangeOf(hdr) => Recovered[b] = home[b]
  BY DEF Recovered
<1>5. Recovered \in [Block -> Value]
  <2> SUFFICES ASSUME NEW b \in Block PROVE Recovered[b] \in Value  BY DEF Recovered
  <2>1. CASE b \in RangeOf(hdr)
    <3>1. PICK i \in 1 .. Len(hdr) : hdr[i] = b  BY <2>1 DEF RangeOf
    <3> QED  BY <3>1, <1>2, <1>3 DEF TypeOK
  <2>2. CASE b \notin RangeOf(hdr)  BY <2>2, <1>4 DEF TypeOK
  <2> QED  BY <2>1, <2>2
<1>6. hdr = <<>> => Recovered = home
  BY <1>4, <1>5, EmptyRange DEF TypeOK
<1> QED  BY <1>2, <1>3, <1>4, <1>5, <1>6

\* Two functions on Block that agree everywhere are equal.
LEMMA Extensional ==
  ASSUME NEW f \in [Block -> Value], NEW g \in [Block -> Value],
         \A b \in Block : f[b] = g[b]
  PROVE  f = g
OBVIOUS

LEMMA SameDisk == ASSUME UNCHANGED disk PROVE Recovered' = Recovered
BY DEF disk, Recovered

LEMMA RefineInit == Init => Disk!Init
<1> SUFFICES ASSUME Init PROVE Disk!Init  OBVIOUS
<1>1. TypeOK  BY InitIInv DEF IInv
<1>2. machine = "up" /\ cache = home /\ hdr = <<>>  BY DEF Init
<1>3. Recovered = home  BY <1>1, <1>2, RecoveredFacts
<1>4. Active = {}  BY DEF Init, Active, InOp, HoldingPcs
<1> QED  BY <1>1, <1>2, <1>3, <1>4 DEF Disk!Init, Seen, TypeOK

\* Steps that change pc without starting or ending an operation.
LEMMA StutterStep ==
  ASSUME machine = "up", machine' = "up", cache' = cache, Recovered' = Recovered,
         \A p \in Proc : InOp(p)' <=> InOp(p)
  PROVE  UNCHANGED Disk!vars
<1>1. Active' = Active  BY DEF Active
<1>2. Seen' = Seen  BY DEF Seen
<1> QED  BY <1>1, <1>2 DEF Disk!vars

LEMMA RefineOperation ==
  ASSUME IInv, IInv', NEW p \in Proc, Operation(p)
  PROVE  [Disk!Next]_(Disk!vars)
<1>0. machine = "up" /\ TypeOK  BY DEF Operation, IInv, Syscall, BeginSleep, BeginOp,
        OpBread, Modify, LogWriteCheck, LogWrite, Brelse, EndOp, At
<1>t. TypeOK'  BY DEF IInv
<1>1. UNCHANGED disk
  BY DEF Operation, Syscall, BeginSleep, BeginOp, OpBread, Modify, LogWriteCheck, LogWrite,
     Brelse, EndOp
<1>2. Recovered' = Recovered  BY <1>1, SameDisk
<1>3. CASE Syscall(p) \/ BeginSleep(p)
  <2>1. cache' = cache /\ machine' = machine  BY <1>3 DEF Syscall, BeginSleep, mem
  <2>2. \A q \in Proc : InOp(q)' <=> InOp(q)
    BY <1>0, <1>3 DEF Syscall, BeginSleep, At, Goto, InOp, HoldingPcs, TypeOK
  <2> QED  BY <1>0, <1>2, <2>1, <2>2, StutterStep
<1>4. CASE BeginOp(p)
  <2>1. cache' = cache /\ machine' = machine  BY <1>4 DEF BeginOp
  <2>2. /\ ~InOp(p) /\ InOp(p)'
        /\ \A q \in Proc : q # p => (InOp(q)' <=> InOp(q))
    BY <1>0, <1>4 DEF BeginOp, At, Goto, InOp, HoldingPcs, TypeOK
  <2>3. p \notin Active /\ Active' = Active \cup {p}  BY <1>0, <2>1, <2>2 DEF Active
  <2>4. Seen' = Seen  BY <1>0, <2>1 DEF Seen
  <2>5. Disk!Begin(p)  BY <1>2, <2>3, <2>4 DEF Disk!Begin
  <2> QED  BY <2>5 DEF Disk!Next
<1>5. CASE OpBread(p)
  <2> PICK b \in Block : /\ holder[b] = None
                         /\ \E v \in Bread(b) : cache' = [cache EXCEPT ![b] = v]
    BY <1>5 DEF OpBread
  <2>1. \A q \in Proc : cur[q] = b => pc[q] \notin HoldingPcs
    BY <1>0, Unfold, LogAssumption DEF Locks
  <2>2. b \notin dirty => cache[b] = home[b]
    BY <1>0, <2>1, Unfold DEF Clean, HoldingPcs
  <2>3. cache' = cache  BY <1>0, <2>2 DEF Bread, TypeOK
  <2>4. machine' = machine  BY <1>5 DEF OpBread
  <2>5. \A q \in Proc : InOp(q)' <=> InOp(q)
    BY <1>0, <1>5 DEF OpBread, At, Goto, InOp, HoldingPcs, TypeOK
  <2> QED  BY <1>0, <1>2, <2>3, <2>4, <2>5, StutterStep
<1>6. CASE Modify(p)
  <2>1. cur[p] \in Block /\ InOp(p)
    BY <1>0, <1>6, Unfold DEF Modify, At, Locks, InOp, HoldingPcs
  <2>2. machine' = machine  BY <1>6 DEF Modify
  <2>3. \A q \in Proc : InOp(q)' <=> InOp(q)
    BY <1>0, <1>6 DEF Modify, At, Goto, InOp, HoldingPcs, TypeOK
  <2>4. Active' = Active /\ p \in Active  BY <1>0, <2>1, <2>2, <2>3 DEF Active
  <2>5. \E v \in Value : Seen' = [Seen EXCEPT ![cur[p]] = v]
    BY <1>0, <1>6, <2>2 DEF Modify, Seen
  <2>6. Disk!Write(p)  BY <1>2, <2>1, <2>4, <2>5 DEF Disk!Write
  <2> QED  BY <2>6 DEF Disk!Next
<1>7. CASE LogWriteCheck(p)
  <2>1. cache' = cache  BY <1>7 DEF LogWriteCheck, mem
  <2>2. CASE machine' = "panic"
    <3>1. Seen' = Recovered /\ Active' = {}  BY <2>2, <1>2 DEF Seen, Active
    <3>2. Disk!Crash  BY <3>1, <1>2 DEF Disk!Crash
    <3> QED  BY <3>2 DEF Disk!Next
  <2>3. CASE machine' # "panic"
    <3>1. machine' = machine /\ pc' = [pc EXCEPT ![p] = "log_lock"] /\ pc[p] = "log_write"
      BY <1>7, <2>3 DEF LogWriteCheck, At, Goto
    <3>2. \A q \in Proc : InOp(q)' <=> InOp(q)
      BY <1>0, <3>1 DEF InOp, HoldingPcs, TypeOK
    <3> QED  BY <1>0, <1>2, <2>1, <3>1, <3>2, StutterStep
  <2> QED  BY <2>2, <2>3
<1>8. CASE LogWrite(p) \/ Brelse(p)
  <2>1. cache' = cache /\ machine' = machine  BY <1>8 DEF LogWrite, Brelse
  <2>2. \A q \in Proc : InOp(q)' <=> InOp(q)
    BY <1>0, <1>8 DEF LogWrite, Brelse, At, Goto, InOp, HoldingPcs, TypeOK
  <2> QED  BY <1>0, <1>2, <2>1, <2>2, StutterStep
<1>9. CASE EndOp(p)
  <2>1. InOp(p) /\ pc[p] = "op"  BY <1>9 DEF EndOp, At, InOp
  <2>2. ~committing  BY <1>0, <2>1, Unfold DEF Counting, Committing, InOp, CommitPcs, HoldingPcs
  <2>3. cache' = cache /\ machine' = machine  BY <1>9, <2>2 DEF EndOp
  <2> DEFINE g == [pc EXCEPT ![p] = "idle"]
  <2>4. g \in [Proc -> Pcs] /\ g[p] = "idle" /\ \A q \in Proc : q # p => g[q] = pc[q]
    BY <1>0 DEF TypeOK, Pcs
  <2>5. pc' = [pc EXCEPT ![p] = "commit"] \/ pc' = Wake(g)
    BY <1>9, <2>2 DEF EndOp, Goto
  <2>6. ~InOp(p)' /\ \A q \in Proc : q # p => (InOp(q)' <=> InOp(q))
    <3>1. CASE pc' = [pc EXCEPT ![p] = "commit"]
      BY <1>0, <3>1 DEF InOp, HoldingPcs, TypeOK
    <3>2. CASE pc' = Wake(g)
      <4>1. \A q \in Proc : /\ g[q] # "sleep" => pc'[q] = g[q]
                            /\ g[q] = "sleep" => pc'[q] = "begin"
        <5> HIDE DEF g
        <5> QED  BY <2>4, <3>2, WakeFacts
      <4> HIDE DEF g
      <4> QED  BY <2>4, <4>1 DEF InOp, HoldingPcs
    <3> QED  BY <2>5, <3>1, <3>2
  <2>7. p \in Active /\ Active' = Active \ {p}  BY <1>0, <2>1, <2>3, <2>6 DEF Active
  <2>8. Seen' = Seen  BY <1>0, <2>3 DEF Seen
  <2>9. Disk!End(p)  BY <1>2, <2>7, <2>8 DEF Disk!End
  <2> QED  BY <2>9 DEF Disk!Next
<1> QED  BY <1>3, <1>4, <1>5, <1>6, <1>7, <1>8, <1>9 DEF Operation

\* The commit shows at the write of the header and nowhere else.
LEMMA RefineCommitter ==
  ASSUME IInv, IInv', NEW p \in Proc, Committer(p)
  PROVE  [Disk!Next]_(Disk!vars)
<1>0. /\ machine = "up" /\ Committing(p) /\ TypeOK /\ TypeOK'
      /\ machine' = machine
  BY DEF Committer, IInv, Commit, WriteLog, WriteHead, InstallTrans, Erase, CommitDone, At,
         Committing, CommitPcs
<1> USE Unfold, Alone, <1>0
<1>1. \A q \in Proc : InOp(q)' <=> InOp(q)
  <2>1. CASE CommitDone(p)
    <3> DEFINE g == [pc EXCEPT ![p] = "idle"]
    <3>1. g \in [Proc -> Pcs] /\ g[p] = "idle" /\ \A q \in Proc : q # p => g[q] = pc[q]
      BY DEF TypeOK, Pcs
    <3>2. pc' = Wake(g)  BY <2>1 DEF CommitDone
    <3> HIDE DEF g
    <3>3. \A q \in Proc : /\ g[q] # "sleep" => pc'[q] = g[q]
                          /\ g[q] = "sleep" => pc'[q] = "begin"
      BY <3>1, <3>2, WakeFacts
    <3> QED  BY <3>1, <3>3 DEF InOp, HoldingPcs
  <2>2. CASE Commit(p) \/ WriteLog(p) \/ WriteHead(p) \/ InstallTrans(p) \/ Erase(p)
    <3>1. PICK l \in CommitPcs : pc' = [pc EXCEPT ![p] = l]
      BY <2>2 DEF Commit, WriteLog, WriteHead, InstallTrans, Erase, Goto, Loop, CommitPcs
    <3> QED  BY <3>1 DEF InOp, HoldingPcs, CommitPcs, TypeOK
  <2> QED  BY <2>1, <2>2 DEF Committer
<1>2. CASE Commit(p) \/ CommitDone(p)
  <2>1. cache' = cache /\ UNCHANGED disk  BY <1>2 DEF Commit, CommitDone, mem
  <2> QED  BY <1>1, <2>1, SameDisk, StutterStep
<1>3. CASE WriteLog(p)
  <2>1. hdr = <<>> /\ hdr' = <<>> /\ home' = home
    BY <1>3 DEF WriteLog, At, Phase
  <2>2. Recovered' = Recovered
    <3>1. Recovered = home  BY <2>1, RecoveredFacts
    <3>2. Recovered' = home'  BY <2>1, EmptyRange DEF Recovered, TypeOK
    <3> QED  BY <2>1, <3>1, <3>2
  <2>3. lh[tail] \in Block  BY <1>3 DEF WriteLog, At, Phase, TypeOK, BlockList
  <2>4. PICK v \in Bread(lh[tail]) : cache' = [cache EXCEPT ![lh[tail]] = v]
    BY <1>3 DEF WriteLog
  <2>5. v = cache[lh[tail]]  BY <2>3 DEF Bread
  <2>6. cache' = cache  BY <2>3, <2>4, <2>5 DEF TypeOK
  <2> QED  BY <1>1, <2>2, <2>6, StutterStep
<1>4. CASE WriteHead(p)
  <2>1. /\ hdr = <<>> /\ CopiedTo(Len(lh)) /\ hdr' = lh /\ UNCHANGED <<home, logb, cache>>
    BY <1>4 DEF WriteHead, At, Phase, mem
  <2>2. Recovered' = cache
    <3>1. /\ Recovered' \in [Block -> Value]
          /\ \A i \in 1 .. Len(hdr') : hdr'[i] \in Block /\ Recovered'[hdr'[i]] = logb'[i]
          /\ \A b \in Block : b \notin RangeOf(lh) => Recovered'[b] = home[b]
      <4>1. \A i \in 1 .. Len(lh) : lh[i] \in Block /\ i \in LogIndex
        <5>1. Len(lh) \in Nat /\ Len(lh) <= LOGSIZE /\ LOGSIZE \in Nat
          BY LogAssumption DEF TypeOK, BlockList
        <5> QED  BY <5>1 DEF TypeOK, BlockList, LogIndex
      <4>2. \A i \in 1 .. Len(lh) : Recovered'[lh[i]] = logb[i]
        <5> SUFFICES ASSUME NEW i \in 1 .. Len(lh) PROVE Recovered'[lh[i]] = logb[i]
          OBVIOUS
        <5>1. lh[i] \in RangeOf(lh)  BY DEF RangeOf
        <5>2. \A j \in 1 .. Len(lh) : lh[j] = lh[i] => j = i  BY DEF TypeOK, BlockList
        <5>3. (CHOOSE j \in 1 .. Len(lh) : lh[j] = lh[i]) = i  BY <5>2
        <5> QED  BY <2>1, <4>1, <5>1, <5>3 DEF Recovered
      <4>3. \A b \in Block : b \notin RangeOf(lh) => Recovered'[b] = home[b]
        BY <2>1 DEF Recovered
      <4>4. \A b \in Block : Recovered'[b] \in Value
        <5> SUFFICES ASSUME NEW b \in Block PROVE Recovered'[b] \in Value  OBVIOUS
        <5>1. CASE b \in RangeOf(lh)
          <6>1. PICK i \in 1 .. Len(lh) : lh[i] = b  BY <5>1 DEF RangeOf
          <6> QED  BY <6>1, <4>1, <4>2 DEF TypeOK
        <5>2. CASE b \notin RangeOf(lh)  BY <5>2, <4>3 DEF TypeOK
        <5> QED  BY <5>1, <5>2
      <4>5. Recovered' = [b \in Block |-> Recovered'[b]]  BY DEF Recovered
      <4>6. Recovered' \in [Block -> Value]  BY <4>4, <4>5
      <4> QED  BY <2>1, <4>1, <4>2, <4>3, <4>6
    <3>2. \A b \in Block : Recovered'[b] = cache[b]
      <4> SUFFICES ASSUME NEW b \in Block PROVE Recovered'[b] = cache[b]  OBVIOUS
      <4>1. CASE b \in RangeOf(lh)
        <5>1. PICK i \in 1 .. Len(lh) : lh[i] = b  BY <4>1 DEF RangeOf
        <5> QED  BY <5>1, <2>1, <3>1 DEF CopiedTo
      <4>2. CASE b \notin RangeOf(lh)
        <5>1. cache[b] = home[b]  BY <4>2 DEF Clean
        <5>2. Recovered'[b] = home[b]  BY <3>1, <4>2
        <5> QED  BY <5>1, <5>2
      <4> QED  BY <4>1, <4>2
    <3> QED  BY <3>1, <3>2, Extensional DEF TypeOK
  <2>3. Active = {} /\ Active' = {}  BY <1>1 DEF Active
  <2>4. Seen = cache /\ Seen' = cache  BY <2>1 DEF Seen
  <2>5. Disk!Commit  BY <2>2, <2>3, <2>4 DEF Disk!Commit
  <2> QED  BY <2>5 DEF Disk!Next
<1>5. CASE InstallTrans(p)
  <2>1. /\ hdr = lh /\ tail \in 1 .. Len(lh) /\ CopiedTo(Len(lh)) /\ InstalledTo(tail - 1)
        /\ Install /\ UNCHANGED <<logb, hdr, lh>>
    BY <1>5 DEF InstallTrans, At, Phase, TypeOK, BlockList
  <2>2. /\ home' \in [Block -> Value] /\ cache' \in [Block -> Value]
        /\ cache'[lh[tail]] = logb[tail] /\ lh[tail] \in Block
        /\ \A b \in Block : b # lh[tail] => home'[b] = home[b] /\ cache'[b] = cache[b]
    BY <2>1, InstallFacts
  <2>3. cache[lh[tail]] = logb[tail]  BY <2>1 DEF CopiedTo
  <2>4. cache' = cache  BY <2>2, <2>3, Extensional DEF TypeOK
  <2>5. lh[tail] \in RangeOf(hdr)  BY <2>1 DEF RangeOf
  <2>6. \A b \in Block : b \notin RangeOf(hdr) => home'[b] = home[b]  BY <2>2, <2>5
  <2>7. Recovered' = Recovered  BY <2>1, <2>6 DEF Recovered
  <2> QED  BY <1>1, <2>4, <2>7, StutterStep
<1>6. CASE Erase(p)
  <2>1. /\ hdr = lh /\ InstalledTo(Len(lh)) /\ hdr' = <<>> /\ UNCHANGED <<home, logb, cache>>
    BY <1>6 DEF Erase, At, Phase, Clear
  <2>2. Recovered = home
    <3>1. \A b \in Block : Recovered[b] = home[b]
      BY <2>1, RecoveredFacts DEF InstalledTo, RangeOf
    <3> QED  BY <3>1, RecoveredFacts, Extensional DEF TypeOK
  <2>3. Recovered' = home'  BY <2>1, EmptyRange DEF Recovered, TypeOK
  <2> QED  BY <1>1, <2>1, <2>2, <2>3, StutterStep
<1> QED  BY <1>2, <1>3, <1>4, <1>5, <1>6 DEF Committer

\* Recovery shows nowhere: it brings the disk to what it stood for.
LEMMA RefineRecovery ==
  ASSUME IInv, IInv', Recovery
  PROVE  UNCHANGED Disk!vars
<1>0. machine \in {"read_head", "install", "clear"} /\ TypeOK /\ Down
  BY DEF Recovery, ReadHead, RecoverInstall, RecoverClear, IInv, Running
<1>1. Seen = Recovered /\ Active = {}  BY <1>0 DEF Seen, Active
<1>2. CASE ReadHead
  <2>1. machine' \in {"install", "clear"} /\ Recovered' = Recovered
    BY <1>2, SameDisk DEF ReadHead
  <2> QED  BY <1>1, <2>1 DEF Seen, Active, Disk!vars
<1>3. CASE RecoverInstall
  <2>1. /\ hdr = lh /\ tail \in 1 .. Len(lh) /\ InstalledTo(tail - 1)
        /\ Install /\ UNCHANGED <<logb, hdr, lh>> /\ machine' \in {"install", "clear"}
    BY <1>0, <1>3 DEF RecoverInstall, Down, TypeOK, BlockList
  <2>2. \A b \in Block : b # lh[tail] => home'[b] = home[b]
    BY <1>0, <2>1, InstallFacts
  <2>3. lh[tail] \in RangeOf(hdr)  BY <2>1 DEF RangeOf
  <2>4. Recovered' = Recovered  BY <2>1, <2>2, <2>3 DEF Recovered
  <2> QED  BY <1>1, <2>1, <2>4 DEF Seen, Active, Disk!vars
<1>4. CASE RecoverClear
  <2>1. /\ hdr = lh /\ InstalledTo(Len(lh)) /\ hdr' = <<>> /\ machine' = "up"
        /\ cache = home /\ UNCHANGED <<home, logb, cache, pc>>
    BY <1>0, <1>4 DEF RecoverClear, Clear, Down
  <2>2. Recovered = home
    <3>1. \A b \in Block : Recovered[b] = home[b]
      BY <1>0, <2>1, RecoveredFacts DEF InstalledTo, RangeOf
    <3> QED  BY <1>0, <3>1, RecoveredFacts, Extensional DEF TypeOK
  <2>3. Recovered' = home'  BY <1>0, <2>1, EmptyRange DEF Recovered, TypeOK
  <2>4. Seen' = Recovered' /\ Recovered' = Recovered  BY <2>1, <2>2, <2>3 DEF Seen
  <2>5. Active' = {}
    BY <1>0, <2>1 DEF Down, Active, InOp, HoldingPcs
  <2> QED  BY <1>1, <2>4, <2>5 DEF Disk!vars
<1> QED  BY <1>2, <1>3, <1>4 DEF Recovery

LEMMA RefineCrash == ASSUME Crash PROVE Disk!Crash
<1>1. Recovered' = Recovered  BY SameDisk DEF Crash
<1>2. Seen' = Recovered' /\ Active' = {}  BY DEF Crash, Seen, Active
<1> QED  BY <1>1, <1>2 DEF Disk!Crash

\* The log implements AtomicDisk: across crashes at any point, also during
\* recovery, groups of system calls take effect as a whole or not at all
\* (log.c:11-15).
THEOREM Refinement == Spec => ImplementsAtomicDisk
<1>1. ASSUME IInv, IInv', [Next]_vars PROVE [Disk!Next]_(Disk!vars)
  <2>1. CASE Crash  BY <2>1, RefineCrash DEF Disk!Next
  <2>2. CASE Recovery  BY <1>1, <2>2, RefineRecovery
  <2>3. ASSUME NEW p \in Proc, Operation(p) PROVE [Disk!Next]_(Disk!vars)
    BY <1>1, <2>3, RefineOperation
  <2>4. ASSUME NEW p \in Proc, Committer(p) PROVE [Disk!Next]_(Disk!vars)
    BY <1>1, <2>4, RefineCommitter
  <2>5. CASE UNCHANGED vars
    <3>1. Recovered' = Recovered  BY <2>5, SameDisk DEF vars
    <3>2. Seen' = Seen /\ Active' = Active
      BY <2>5, <3>1 DEF vars, mem, ctl, Seen, Active, InOp
    <3> QED  BY <3>1, <3>2 DEF Disk!vars
  <2> QED  BY <1>1, <2>1, <2>2, <2>3, <2>4, <2>5 DEF Next
<1>2. Spec => Disk!Init /\ [][Disk!Next]_(Disk!vars)
  BY <1>1, RefineInit, Invariance, PTL DEF Spec
<1> QED  BY <1>2 DEF ImplementsAtomicDisk, Disk!Spec
=============================================================================
