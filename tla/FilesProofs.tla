----------------------------- MODULE FilesProofs -----------------------------
(***************************************************************************)
(* Proofs about module Files, for any number of processes, inodes, files   *)
(* and names and every set of calls: reference counts count pointers, and  *)
(* link counts cover names, so that nothing is freed while it is in use.   *)
(***************************************************************************)
EXTENDS Files, FiniteSetTheorems, SequenceTheorems, TLAPS

-----------------------------------------------------------------------------
(* Counting the places at which a function has a value.                    *)

Where(S, e, x) == {s \in S : e[s] = x}
Same(S, D, e, d) == \A t \in S \ D : d[t] = e[t]
Counts(S, R, e, c) == \A x \in R : c[x] = Cardinality(Where(S, e, x))

LEMMA WhereFinite ==
  ASSUME NEW S, IsFiniteSet(S), NEW e, NEW x
  PROVE  /\ IsFiniteSet(Where(S, e, x)) /\ Cardinality(Where(S, e, x)) \in Nat
         /\ Cardinality(Where(S, e, x)) = 0 <=> Where(S, e, x) = {}
BY FS_Subset, FS_CardinalityType, FS_EmptySet DEF Where

LEMMA WhereMore ==
  ASSUME NEW S, IsFiniteSet(S), NEW e, NEW d, NEW s \in S, NEW x,
         e[s] # x, d[s] = x, Same(S, {s}, e, d)
  PROVE  Cardinality(Where(S, d, x)) = Cardinality(Where(S, e, x)) + 1
<1>1. Where(S, d, x) = Where(S, e, x) \cup {s} /\ s \notin Where(S, e, x)
  BY DEF Where, Same
<1>2. IsFiniteSet(Where(S, e, x))
  BY WhereFinite
<1>3. QED
  BY ONLY <1>1, <1>2, FS_AddElement

LEMMA WhereLess ==
  ASSUME NEW S, IsFiniteSet(S), NEW e, NEW d, NEW s \in S, NEW x,
         e[s] = x, d[s] # x, Same(S, {s}, e, d)
  PROVE  Cardinality(Where(S, d, x)) = Cardinality(Where(S, e, x)) - 1
<1>1. Where(S, d, x) = Where(S, e, x) \ {s} /\ s \in Where(S, e, x)
  BY DEF Where, Same
<1>2. IsFiniteSet(Where(S, e, x))
  BY WhereFinite
<1>3. QED
  BY ONLY <1>1, <1>2, FS_RemoveElement

LEMMA WhereSame ==
  ASSUME NEW S, NEW e, NEW d, NEW x, \A t \in S : d[t] = x <=> e[t] = x
  PROVE  Where(S, d, x) = Where(S, e, x)
BY DEF Where

\* One place more.
LEMMA CountsTake ==
  ASSUME NEW S, IsFiniteSet(S), NEW R, NEW e, NEW d, NEW c \in [R -> Nat], Counts(S, R, e, c),
         NEW s \in S, NEW x \in R, e[s] \notin R, d[s] = x, Same(S, {s}, e, d),
         NEW k \in [R -> Int], k[x] = c[x] + 1, Same(R, {x}, c, k)
  PROVE  Counts(S, R, d, k) /\ k \in [R -> Nat]
<1>1. Cardinality(Where(S, d, x)) = c[x] + 1
  <2>1. Cardinality(Where(S, d, x)) = Cardinality(Where(S, e, x)) + 1
    <3>1. e[s] # x
      OBVIOUS
    <3>2. QED
      BY <3>1, WhereMore
  <2>2. QED
    BY <2>1 DEF Counts
<1>2. ASSUME NEW y \in R \ {x} PROVE Where(S, d, y) = Where(S, e, y)
  <2>1. \A t \in S : d[t] = y <=> e[t] = y
    BY <1>2 DEF Same
  <2>2. QED
    BY <2>1, WhereSame
<1>3. QED
  BY <1>1, <1>2 DEF Counts, Same

\* One place less.
LEMMA CountsGive ==
  ASSUME NEW S, IsFiniteSet(S), NEW R, NEW e, NEW d, NEW c \in [R -> Nat], Counts(S, R, e, c),
         NEW s \in S, NEW x \in R, e[s] = x, d[s] \notin R, Same(S, {s}, e, d),
         NEW k \in [R -> Int], k[x] = c[x] - 1, Same(R, {x}, c, k)
  PROVE  Counts(S, R, d, k) /\ k \in [R -> Nat] /\ c[x] > 0
<1>1. Cardinality(Where(S, d, x)) = c[x] - 1
  <2>1. Cardinality(Where(S, d, x)) = Cardinality(Where(S, e, x)) - 1
    BY WhereLess
  <2>2. QED
    BY <2>1 DEF Counts
<1>2. ASSUME NEW y \in R \ {x} PROVE Where(S, d, y) = Where(S, e, y)
  <2>1. \A t \in S : d[t] = y <=> e[t] = y
    BY <1>2 DEF Same
  <2>2. QED
    BY <2>1, WhereSame
<1>3. c[x] - 1 \in Nat
  BY <1>1, WhereFinite
<1>4. QED
  BY <1>1, <1>2, <1>3 DEF Counts, Same

\* From one place to another.
LEMMA CountsMove ==
  ASSUME NEW S, IsFiniteSet(S), NEW R, NEW e, NEW d, NEW c \in [R -> Nat], Counts(S, R, e, c),
         NEW s \in S, NEW t \in S, s # t, e[t] \notin R, d[t] = e[s], d[s] \notin R,
         Same(S, {s, t}, e, d)
  PROVE  Counts(S, R, d, c)
<1>1. ASSUME NEW x \in R PROVE Cardinality(Where(S, d, x)) = Cardinality(Where(S, e, x))
  <2>1. CASE e[s] = x
    <3>1. Where(S, d, x) = (Where(S, e, x) \ {s}) \cup {t}
          /\ s \in Where(S, e, x) /\ t \notin Where(S, e, x) \ {s}
      BY <2>1 DEF Where, Same
    <3>2. /\ IsFiniteSet(Where(S, e, x) \ {s})
          /\ Cardinality(Where(S, e, x) \ {s}) = Cardinality(Where(S, e, x)) - 1
      BY <3>1, WhereFinite, FS_RemoveElement
    <3>3. Cardinality(Where(S, d, x)) = Cardinality(Where(S, e, x) \ {s}) + 1
      BY <3>1, <3>2, FS_AddElement
    <3>4. QED
      BY <3>2, <3>3, WhereFinite
  <2>2. CASE e[s] # x
    <3>1. \A u \in S : d[u] = x <=> e[u] = x
      BY <2>2 DEF Same
    <3>2. QED
      BY <3>1, WhereSame
  <2>3. QED
    BY <2>1, <2>2
<1>2. QED
  BY <1>1 DEF Counts

\* Only one place.
LEMMA CountsOne ==
  ASSUME NEW S, IsFiniteSet(S), NEW R, NEW e, NEW c, Counts(S, R, e, c),
         NEW x \in R, NEW s \in S, e[s] = x, c[x] = 1
  PROVE  \A t \in S : e[t] = x => t = s
<1>1. IsFiniteSet(Where(S, e, x)) /\ Cardinality(Where(S, e, x)) = 1
  BY WhereFinite DEF Counts
<1>2. PICK u : Where(S, e, x) = {u}
  BY <1>1, FS_Singleton
<1>3. QED
  BY <1>2 DEF Where

-----------------------------------------------------------------------------
(* The inductive invariant of the reference counts.                        *)

Stages == {"gone", "user", "exit", "walk", "open", "create", "opened", "created",
           "unlink", "unlink2", "unlink_bad", "unlink3", "link", "link2", "link_bad",
           "put_ip", "bad", "chdir"}
Puts   == {"iput", "unref"}
Opt    == Inum \cup {None}
Thread == [pc : Stages \cup Puts, call : Calls \cup {<<>>}, path : Paths \cup {<<>>},
           goal : Stages, ret : Stages, at : Opt, dp : Opt, ip : Opt, put : Opt]

Panics == {"no", "ilock: no type", "dirlookup not DIR", "ialloc: no inodes", "unlink: nlink < 1"}

TypeOK ==
  /\ type \in [Inum -> {"free", "file", "dir"}] /\ nlink \in [Inum -> Int]
  /\ ents \in [Inum -> [Name \cup Dots -> Opt]]
  /\ ref \in [Inum -> Nat] /\ valid \subseteq Inum /\ lock \in [Inum -> Proc \cup {None}]
  /\ fref \in [File -> Nat] /\ fip \in [File -> Opt]
  /\ ofile \in [Proc -> [Fd -> File \cup {None}]] /\ cwd \in [Proc -> Opt]
  /\ th \in [Proc -> Thread] /\ panicked \in Panics

\* Where a thread is, or returns to from iput.
Stage(t) == IF t.pc \in Puts THEN t.ret ELSE t.pc

HasDp == {"create", "unlink", "unlink2", "unlink_bad", "link2", "link_bad"}
HasIp == {"open", "opened", "created", "unlink2", "unlink3", "link", "link2", "link_bad",
          "put_ip", "bad", "chdir"}
HasPath == {"walk", "create", "unlink", "unlink2", "link2"}

Goal(s) == IF s \in {"opened", "created"} THEN "create"
           ELSE IF s \in {"unlink2", "unlink_bad", "unlink3"} THEN "unlink"
           ELSE IF s \in {"link_bad", "put_ip", "bad"} THEN "link2" ELSE s
Goals == {"create", "unlink", "open", "link", "chdir", "link2"}

\* What a thread's local variables refer to at each stage.
Local(t) ==
  LET s == Stage(t) IN
  /\ t.put # None <=> t.pc \in Puts
  /\ t.pc # "put_ip" /\ (t.ret = "put_ip" => t.pc \in Puts)
  /\ t.ret = "unlink3" => s = "unlink3"
  /\ t.at # None <=> s = "walk"
  /\ t.dp # None <=> s \in HasDp
  /\ t.ip # None <=> s \in HasIp \/ (s = "walk" /\ t.goal = "link2")
  /\ s \in HasPath => t.path # <<>>
  /\ s = "walk" => t.goal \in Goals
  /\ s \in HasDp \cup HasIp => t.goal = Goal(s)
  /\ s = "link" \/ (s = "walk" /\ t.goal = "link") => t.call \in Calls /\ t.call[1] = "link"

\* A process that is gone has no files.
Empties(p) ==
  /\ cwd[p] # None <=> Stage(th[p]) # "gone"
  /\ Stage(th[p]) = "gone" => \A fd \in Fd : ofile[p][fd] = None

ThreadsOK == \A p \in Proc : Local(th[p]) /\ Empties(p)

\* The variables that refer to inodes, and what they refer to; descriptors.
Vars == {"at", "dp", "ip", "put"}
Ptr  == (Proc \X {"at", "dp", "ip", "put", "cwd"}) \cup (File \X {"file"})
TargetOf(h, fi, cw) ==
  [s \in Ptr |-> IF s[2] = "file" THEN fi[s[1]]
                 ELSE IF s[2] = "cwd" THEN cw[s[1]] ELSE h[s[1]][s[2]]]
Target == TargetOf(th, fip, cwd)
DescrOf(o) == [s \in Proc \X Fd |-> o[s[1]][s[2]]]
Descr == DescrOf(ofile)

FilesOK == \A f \in File : fip[f] # None <=> fref[f] > 0

RefInv ==
  /\ ThreadsOK
  /\ Counts(Ptr, Inum, Target, ref)
  /\ Counts(Proc \X Fd, File, Descr, fref)
  /\ FilesOK

LEMMA Finite ==
  /\ IsFiniteSet(Ptr) /\ IsFiniteSet(Proc \X Fd) /\ IsFiniteSet(Inum \X Name)
  /\ None \notin Inum /\ None \notin Proc /\ None \notin File /\ Root \in Inum
<1>1. IsFiniteSet({"file"}) /\ IsFiniteSet({"at", "dp", "ip", "put", "cwd"})
  <2>1. \A x : IsFiniteSet({x})
    BY FS_Singleton
  <2>2. {"at", "dp", "ip", "put", "cwd"} = {"at"} \cup {"dp"} \cup {"ip"} \cup {"put"} \cup {"cwd"}
    OBVIOUS
  <2>3. IsFiniteSet({"at"} \cup {"dp"} \cup {"ip"} \cup {"put"} \cup {"cwd"})
    BY <2>1, FS_Union
  <2>4. QED
    BY <2>1, <2>2, <2>3
<1>2. QED
  BY <1>1, FilesAssumption, FS_Product, FS_Union DEF Ptr

\* What a variable refers to, in any state.
LEMMA TargetVar ==
  ASSUME NEW h, NEW fi, NEW cw, NEW p \in Proc, NEW v \in Vars
  PROVE  <<p, v>> \in Ptr /\ TargetOf(h, fi, cw)[<<p, v>>] = h[p][v]
BY DEF TargetOf, Ptr, Vars, Same

LEMMA TargetCwd ==
  ASSUME NEW h, NEW fi, NEW cw, NEW p \in Proc
  PROVE  <<p, "cwd">> \in Ptr /\ TargetOf(h, fi, cw)[<<p, "cwd">>] = cw[p]
BY DEF TargetOf, Ptr

LEMMA TargetFile ==
  ASSUME NEW h, NEW fi, NEW cw, NEW f \in File
  PROVE  <<f, "file">> \in Ptr /\ TargetOf(h, fi, cw)[<<f, "file">>] = fi[f]
BY DEF TargetOf, Ptr

LEMMA PtrCases ==
  ASSUME NEW s \in Ptr
  PROVE  \/ \E p \in Proc, v \in Vars : s = <<p, v>>
         \/ \E p \in Proc : s = <<p, "cwd">>
         \/ \E f \in File : s = <<f, "file">>
BY DEF Ptr, Vars

\* The same for two states.
LEMMA TargetsSame ==
  ASSUME NEW h, NEW fi, NEW cw, NEW g, NEW fj, NEW cx, NEW s \in Ptr,
         \A p \in Proc, v \in Vars : s = <<p, v>> => g[p][v] = h[p][v],
         \A p \in Proc : s = <<p, "cwd">> => cx[p] = cw[p],
         \A f \in File : s = <<f, "file">> => fj[f] = fi[f]
  PROVE  TargetOf(g, fj, cx)[s] = TargetOf(h, fi, cw)[s]
BY DEF TargetOf, Ptr, Vars, Same

\* p's thread becomes u, with one reference moved from a to b.
LEMMA RefsMove ==
  ASSUME TypeOK, Counts(Ptr, Inum, Target, ref), NEW p \in Proc, NEW u, Set(p, u),
         NEW a \in Vars, NEW b \in Vars, a # b, th[p][b] = None, u[b] = th[p][a], u[a] = None,
         Same(Vars, {a, b}, th[p], u), UNCHANGED <<ref, fip, cwd>>
  PROVE  Counts(Ptr, Inum, Target, ref)'
<1> DEFINE e == TargetOf(th, fip, cwd)
           d == TargetOf(th', fip', cwd')
<1>1. th'[p] = u /\ \A q \in Proc \ {p} : th'[q] = th[q]
  BY DEF TypeOK, Set
<1>2. /\ <<p, a>> \in Ptr /\ e[<<p, a>>] = th[p][a] /\ d[<<p, a>>] = None
      /\ <<p, b>> \in Ptr /\ e[<<p, b>>] = None /\ d[<<p, b>>] = th[p][a]
  BY <1>1 DEF TargetOf, Ptr, Vars, Same
<1>3. Same(Ptr, {<<p, a>>, <<p, b>>}, e, d)
  BY <1>1 DEF TargetOf, Ptr, Vars, Same
<1>4. Counts(Ptr, Inum, e, ref) /\ ref \in [Inum -> Nat] /\ <<p, a>> # <<p, b>>
  BY DEF Target, TypeOK
<1> HIDE DEF e, d
<1>5. Counts(Ptr, Inum, d, ref)
  BY <1>2, <1>3, <1>4, Finite, CountsMove
<1>6. QED
  BY <1>5 DEF d, Target

\* p's thread becomes u, with a new reference in a.
LEMMA RefsTake ==
  ASSUME TypeOK, Counts(Ptr, Inum, Target, ref), NEW p \in Proc, NEW u, Set(p, u),
         NEW a \in Vars, NEW x \in Inum, th[p][a] = None, u[a] = x,
         Same(Vars, {a}, th[p], u),
         ref' = [ref EXCEPT ![x] = @ + 1], UNCHANGED <<fip, cwd>>
  PROVE  Counts(Ptr, Inum, Target, ref)' /\ ref' \in [Inum -> Nat]
<1> DEFINE e == TargetOf(th, fip, cwd)
           d == TargetOf(th', fip', cwd')
<1>1. th'[p] = u /\ \A q \in Proc \ {p} : th'[q] = th[q]
  BY DEF TypeOK, Set
<1>2. <<p, a>> \in Ptr /\ e[<<p, a>>] = None /\ d[<<p, a>>] = x
  BY <1>1 DEF TargetOf, Ptr, Vars, Same
<1>3. Same(Ptr, {<<p, a>>}, e, d)
  BY <1>1 DEF TargetOf, Ptr, Vars, Same
<1>4. Counts(Ptr, Inum, e, ref) /\ ref \in [Inum -> Nat]
  BY DEF Target, TypeOK
<1> HIDE DEF e, d
<1>5. Counts(Ptr, Inum, d, ref') /\ ref' \in [Inum -> Nat]
  <2>1. ref' \in [Inum -> Int] /\ ref'[x] = ref[x] + 1 /\ Same(Inum, {x}, ref, ref')
    BY <1>4 DEF Same
  <2>2. e[<<p, a>>] \notin Inum
    BY <1>2, Finite
  <2>3. QED
    BY ONLY <1>2, <1>3, <1>4, <2>1, <2>2, Finite, CountsTake
<1>6. QED
  BY <1>5 DEF d, Target

\* Both: the reference in a moves to b, and there is a new one in c.
LEMMA RefsMoveTake ==
  ASSUME TypeOK, Counts(Ptr, Inum, Target, ref), NEW p \in Proc, NEW u, Set(p, u),
         NEW a \in Vars, NEW b \in Vars, a # b, th[p][b] = None, u[b] = th[p][a],
         NEW c \in Vars, NEW x \in Inum, c # b, u[c] = x, c # a => th[p][c] = None /\ u[a] = None,
         Same(Vars, {a, b, c}, th[p], u),
         ref' = [ref EXCEPT ![x] = @ + 1], UNCHANGED <<fip, cwd>>
  PROVE  Counts(Ptr, Inum, Target, ref)' /\ ref' \in [Inum -> Nat]
<1> DEFINE e == TargetOf(th, fip, cwd)
           d == TargetOf(th', fip', cwd')
           m == [e EXCEPT ![<<p, a>>] = None, ![<<p, b>>] = th[p][a]]
<1>1. th'[p] = u /\ \A q \in Proc \ {p} : th'[q] = th[q]
  BY DEF TypeOK, Set
<1>2. /\ <<p, a>> \in Ptr /\ e[<<p, a>>] = th[p][a] /\ DOMAIN e = Ptr
      /\ <<p, b>> \in Ptr /\ e[<<p, b>>] = None /\ d[<<p, b>>] = th[p][a]
      /\ <<p, c>> \in Ptr /\ d[<<p, c>>] = x /\ (c # a => e[<<p, c>>] = None /\ d[<<p, a>>] = None)
  <2>1. DOMAIN e = Ptr
    BY DEF TargetOf
  <2>2. QED
    BY <1>1, <2>1 DEF TargetOf, Ptr, Vars, Same
<1>3. Same(Ptr, {<<p, a>>, <<p, b>>, <<p, c>>}, e, d)
  BY <1>1 DEF TargetOf, Ptr, Vars, Same
<1>4. Counts(Ptr, Inum, e, ref) /\ ref \in [Inum -> Nat] /\ <<p, a>> # <<p, b>> /\ <<p, c>> # <<p, b>>
  BY DEF Target, TypeOK
<1> HIDE DEF e, d
<1>5. /\ m[<<p, a>>] = None /\ m[<<p, b>>] = e[<<p, a>>]
      /\ Same(Ptr, {<<p, a>>, <<p, b>>}, e, m)
  BY <1>2, <1>4 DEF Same
<1>6. m[<<p, c>>] = None
  BY <1>2, <1>4, <1>5
<1>7. Same(Ptr, {<<p, c>>}, m, d)
  BY <1>2, <1>3, <1>5 DEF Same
<1> HIDE DEF m
<1>8. Counts(Ptr, Inum, m, ref)
  BY <1>2, <1>4, <1>5, Finite, CountsMove
<1>9. Counts(Ptr, Inum, d, ref') /\ ref' \in [Inum -> Nat]
  <2>1. ref' \in [Inum -> Int] /\ ref'[x] = ref[x] + 1 /\ Same(Inum, {x}, ref, ref')
    BY <1>4 DEF Same
  <2>2. m[<<p, c>>] \notin Inum
    BY <1>6, Finite
  <2>3. QED
    BY ONLY <1>2, <1>4, <1>7, <1>8, <2>1, <2>2, Finite, CountsTake
<1>10. QED
  BY <1>9 DEF d, Target

\* p's thread drops the reference in b, and moves the one in a there.
LEMMA RefsGive ==
  ASSUME TypeOK, Counts(Ptr, Inum, Target, ref), NEW p \in Proc, NEW u, Set(p, u),
         NEW a \in Vars, NEW b \in Vars, a # b, NEW x \in Inum, th[p][b] = x,
         u[b] = th[p][a], u[a] = None, Same(Vars, {a, b}, th[p], u),
         ref' = [ref EXCEPT ![x] = @ - 1], UNCHANGED <<fip, cwd>>
  PROVE  Counts(Ptr, Inum, Target, ref)' /\ ref' \in [Inum -> Nat]
<1> DEFINE e == TargetOf(th, fip, cwd)
           d == TargetOf(th', fip', cwd')
           m == [e EXCEPT ![<<p, b>>] = None]
<1>1. th'[p] = u /\ \A q \in Proc \ {p} : th'[q] = th[q]
  BY DEF TypeOK, Set
<1>2. /\ <<p, a>> \in Ptr /\ e[<<p, a>>] = th[p][a] /\ DOMAIN e = Ptr /\ d[<<p, a>>] = None
      /\ <<p, b>> \in Ptr /\ e[<<p, b>>] = x /\ d[<<p, b>>] = th[p][a]
  <2>1. DOMAIN e = Ptr
    BY DEF TargetOf
  <2>2. QED
    BY <1>1, <2>1 DEF TargetOf, Ptr, Vars, Same
<1>3. Same(Ptr, {<<p, a>>, <<p, b>>}, e, d)
  BY <1>1 DEF TargetOf, Ptr, Vars, Same
<1>4. Counts(Ptr, Inum, e, ref) /\ ref \in [Inum -> Nat] /\ <<p, a>> # <<p, b>>
  BY DEF Target, TypeOK
<1> HIDE DEF e, d
<1>5. m[<<p, b>>] = None /\ Same(Ptr, {<<p, b>>}, e, m) /\ m[<<p, a>>] = th[p][a]
  BY <1>2, <1>4 DEF Same
<1>6. Same(Ptr, {<<p, a>>, <<p, b>>}, m, d)
  BY <1>2, <1>3, <1>5 DEF Same
<1> HIDE DEF m
<1>7. Counts(Ptr, Inum, m, ref') /\ ref' \in [Inum -> Nat]
  <2>1. ref' \in [Inum -> Int] /\ ref'[x] = ref[x] - 1 /\ Same(Inum, {x}, ref, ref')
    BY <1>4 DEF Same
  <2>2. m[<<p, b>>] \notin Inum
    BY <1>5, Finite
  <2>3. QED
    BY ONLY <1>2, <1>4, <1>5, <2>1, <2>2, Finite, CountsGive
<1>8. Counts(Ptr, Inum, d, ref')
  <2>1. m[<<p, b>>] \notin Inum /\ d[<<p, a>>] \notin Inum /\ d[<<p, b>>] = m[<<p, a>>]
    BY <1>2, <1>5, Finite
  <2>2. QED
    BY ONLY <1>2, <1>4, <1>6, <1>7, <2>1, Finite, CountsMove
<1>9. QED
  BY <1>7, <1>8 DEF d, Target

-----------------------------------------------------------------------------
(* Threads.                                                                *)

\* A thread that goes on to iput(i), and then to r.
LEMMA PutFacts ==
  ASSUME NEW t \in Thread, NEW i \in Opt, NEW r \in Stages
  PROVE  /\ Put(t, i, r) \in Thread
         /\ Put(t, i, r).pc = "iput" /\ Put(t, i, r).put = i /\ Put(t, i, r).ret = r
         /\ Put(t, i, r).call = t.call /\ Put(t, i, r).path = t.path /\ Put(t, i, r).goal = t.goal
         /\ Put(t, i, r).at = t.at /\ Put(t, i, r).dp = t.dp /\ Put(t, i, r).ip = t.ip
BY DEF Put, Thread, Puts

LEMMA PutAtFacts ==
  ASSUME NEW t \in Thread, NEW r \in Stages
  PROVE  /\ PutAt(t, r) \in Thread
         /\ PutAt(t, r).pc = "iput" /\ PutAt(t, r).put = t.at /\ PutAt(t, r).ret = r
         /\ PutAt(t, r).call = t.call /\ PutAt(t, r).path = t.path /\ PutAt(t, r).goal = t.goal
         /\ PutAt(t, r).at = None /\ PutAt(t, r).dp = t.dp /\ PutAt(t, r).ip = t.ip
BY DEF PutAt, Put, Thread, Puts, Opt

LEMMA PutDpFacts ==
  ASSUME NEW t \in Thread, NEW r \in Stages
  PROVE  /\ PutDp(t, r) \in Thread
         /\ PutDp(t, r).pc = "iput" /\ PutDp(t, r).put = t.dp /\ PutDp(t, r).ret = r
         /\ PutDp(t, r).call = t.call /\ PutDp(t, r).path = t.path /\ PutDp(t, r).goal = t.goal
         /\ PutDp(t, r).at = t.at /\ PutDp(t, r).dp = None /\ PutDp(t, r).ip = t.ip
BY DEF PutDp, Put, Thread, Puts, Opt

LEMMA PutIpFacts ==
  ASSUME NEW t \in Thread, NEW r \in Stages
  PROVE  /\ PutIp(t, r) \in Thread
         /\ PutIp(t, r).pc = "iput" /\ PutIp(t, r).put = t.ip /\ PutIp(t, r).ret = r
         /\ PutIp(t, r).call = t.call /\ PutIp(t, r).path = t.path /\ PutIp(t, r).goal = t.goal
         /\ PutIp(t, r).at = t.at /\ PutIp(t, r).dp = t.dp /\ PutIp(t, r).ip = None
BY DEF PutIp, Put, Thread, Puts, Opt

LEMMA IdleFacts ==
  ASSUME NEW l \in Stages
  PROVE  /\ Idle(l) \in Thread
         /\ Idle(l).pc = l /\ Idle(l).ret = "user" /\ Idle(l).goal = "user"
         /\ Idle(l).at = None /\ Idle(l).dp = None /\ Idle(l).ip = None /\ Idle(l).put = None
         /\ Idle(l).path = <<>>
BY DEF Idle, Thread, Stages, Opt

\* A field is what its name selects.
LEMMA Fields ==
  ASSUME NEW t \in Thread
  PROVE  t["at"] = t.at /\ t["dp"] = t.dp /\ t["ip"] = t.ip /\ t["put"] = t.put
BY DEF Thread

\* One thread changes, and is gone if it was gone.
LEMMA ThreadStep ==
  ASSUME TypeOK, ThreadsOK, NEW p \in Proc, NEW u \in Thread, Set(p, u), Local(u),
         Stage(u) = "gone" <=> Stage(th[p]) = "gone", UNCHANGED <<cwd, ofile>>
  PROVE  th' \in [Proc -> Thread] /\ ThreadsOK'
<1>1. th' = [th EXCEPT ![p] = u] /\ th \in [Proc -> Thread]
  BY DEF Set, TypeOK
<1>2. th' \in [Proc -> Thread] /\ th'[p] = u /\ \A q \in Proc \ {p} : th'[q] = th[q]
  BY <1>1
<1>3. \A q \in Proc : Local(th'[q]) /\ (Stage(th'[q]) = "gone" <=> Stage(th[q]) = "gone")
  BY <1>2 DEF ThreadsOK
<1>4. QED
  BY <1>2, <1>3 DEF ThreadsOK, Empties

\* No file changes.
LEMMA FilesSame ==
  ASSUME Counts(Proc \X Fd, File, Descr, fref), FilesOK, UNCHANGED files
  PROVE  Counts(Proc \X Fd, File, Descr, fref)' /\ FilesOK'
BY DEF files, FilesOK, Descr

\* The first name of a path, and the rest of it.
LEMMA PathFacts ==
  ASSUME NEW s \in Paths
  PROVE  Head(s) \in Name \cup Dots /\ (Len(s) # 1 => Tail(s) \in Paths)
<1>1. s \in Seq(Name \cup Dots) /\ s # <<>>
  BY DEF Paths
<1>2. Tail(s) \in Seq(Name \cup Dots) /\ Len(Tail(s)) = Len(s) - 1 /\ Len(s) \in Nat
  BY <1>1, HeadTailProperties, LenProperties
<1>3. Len(s) # 1 => Tail(s) # <<>>
  BY <1>2, EmptySeq
<1>4. QED
  BY <1>1, <1>2, <1>3, HeadTailProperties DEF Paths

-----------------------------------------------------------------------------
(* The effect of the thread's steps on the reference counts.               *)

LEMMA MoveAt ==
  ASSUME TypeOK, Counts(Ptr, Inum, Target, ref), NEW p \in Proc, NEW u \in Thread, Set(p, u),
         th[p].put = None, u.put = th[p].at, u.at = None, u.dp = th[p].dp, u.ip = th[p].ip,
         UNCHANGED <<ref, fip, cwd>>
  PROVE  Counts(Ptr, Inum, Target, ref)'
<1>1. th[p] \in Thread
  BY DEF TypeOK
<1>2. /\ th[p]["put"] = None /\ u["put"] = th[p]["at"] /\ u["at"] = None
      /\ Same(Vars, {"at", "put"}, th[p], u)
  BY <1>1, Fields DEF Vars, Same
<1>3. "at" \in Vars /\ "put" \in Vars
  BY DEF Vars
<1>4. QED
  BY <1>2, <1>3, RefsMove

LEMMA MoveDp ==
  ASSUME TypeOK, Counts(Ptr, Inum, Target, ref), NEW p \in Proc, NEW u \in Thread, Set(p, u),
         th[p].put = None, u.put = th[p].dp, u.dp = None, u.at = th[p].at, u.ip = th[p].ip,
         UNCHANGED <<ref, fip, cwd>>
  PROVE  Counts(Ptr, Inum, Target, ref)'
<1>1. th[p] \in Thread
  BY DEF TypeOK
<1>2. /\ th[p]["put"] = None /\ u["put"] = th[p]["dp"] /\ u["dp"] = None
      /\ Same(Vars, {"dp", "put"}, th[p], u)
  BY <1>1, Fields DEF Vars, Same
<1>3. "dp" \in Vars /\ "put" \in Vars
  BY DEF Vars
<1>4. QED
  BY <1>2, <1>3, RefsMove

LEMMA MoveIp ==
  ASSUME TypeOK, Counts(Ptr, Inum, Target, ref), NEW p \in Proc, NEW u \in Thread, Set(p, u),
         th[p].put = None, u.put = th[p].ip, u.ip = None, u.at = th[p].at, u.dp = th[p].dp,
         UNCHANGED <<ref, fip, cwd>>
  PROVE  Counts(Ptr, Inum, Target, ref)'
<1>1. th[p] \in Thread
  BY DEF TypeOK
<1>2. /\ th[p]["put"] = None /\ u["put"] = th[p]["ip"] /\ u["ip"] = None
      /\ Same(Vars, {"ip", "put"}, th[p], u)
  BY <1>1, Fields DEF Vars, Same
<1>3. "ip" \in Vars /\ "put" \in Vars
  BY DEF Vars
<1>4. QED
  BY <1>2, <1>3, RefsMove

\* The disk, the inode cache and the locks have the right types.
DiskType ==
  /\ type \in [Inum -> {"free", "file", "dir"}] /\ nlink \in [Inum -> Int]
  /\ ents \in [Inum -> [Name \cup Dots -> Opt]]
  /\ valid \subseteq Inum /\ lock \in [Inum -> Proc \cup {None}] /\ panicked \in Panics

\* p's thread becomes u; what else there is to show.
LEMMA RefStep ==
  ASSUME TypeOK, RefInv, NEW p \in Proc, NEW u \in Thread, Set(p, u), Local(u),
         Stage(u) = "gone" <=> Stage(th[p]) = "gone", UNCHANGED <<files, cwd>>,
         Counts(Ptr, Inum, Target, ref)', ref' \in [Inum -> Nat], DiskType'
  PROVE  TypeOK' /\ RefInv'
<1>1. th' \in [Proc -> Thread] /\ ThreadsOK'
  BY ThreadStep DEF RefInv, files
<1>2. Counts(Proc \X Fd, File, Descr, fref)' /\ FilesOK'
  BY FilesSame DEF RefInv
<1>3. TypeOK'
  BY <1>1 DEF TypeOK, DiskType, files
<1>4. QED
  BY <1>1, <1>2, <1>3 DEF RefInv

LEMMA PanicStep ==
  ASSUME TypeOK, RefInv, NEW m \in Panics, Panic(m), UNCHANGED <<ref, valid, lock>>
  PROVE  TypeOK' /\ RefInv'
<1>1. UNCHANGED <<type, nlink, ents, ref, valid, lock, fref, fip, ofile, cwd, th>> /\ panicked' \in Panics
  BY DEF Panic, disk, icache, files
<1>2. TypeOK'
  BY <1>1 DEF TypeOK
<1>3. ThreadsOK' /\ FilesOK' /\ Target' = Target /\ Descr' = Descr
  BY <1>1 DEF RefInv, ThreadsOK, Empties, FilesOK, Target, Descr
<1>4. QED
  BY <1>1, <1>2, <1>3 DEF RefInv, Counts

\* The thread goes on to iput with one of its inodes.
LEMMA PutAtStep ==
  ASSUME TypeOK, RefInv, NEW p \in Proc, NEW r \in Stages, Set(p, PutAt(th[p], r)),
         th[p].pc \notin Puts, Local(PutAt(th[p], r)), r # "gone", Stage(th[p]) # "gone",
         UNCHANGED <<ref, files, cwd>>, DiskType'
  PROVE  TypeOK' /\ RefInv'
<1> DEFINE u == PutAt(th[p], r)
<1>1. th[p] \in Thread /\ th[p].put = None /\ ref' \in [Inum -> Nat] /\ UNCHANGED <<ref, fip, cwd>>
  BY DEF TypeOK, RefInv, ThreadsOK, Local, files
<1>2. /\ u \in Thread /\ Set(p, u) /\ u.pc = "iput" /\ u.ret = r /\ Local(u)
      /\ u.put = th[p].at /\ u.at = None /\ u.dp = th[p].dp /\ u.ip = th[p].ip
  BY <1>1, PutAtFacts
<1> HIDE DEF u
<1>3. Stage(u) = r
  BY <1>2 DEF Stage, Puts
<1>4. Counts(Ptr, Inum, Target, ref)'
  BY <1>1, <1>2, MoveAt DEF RefInv
<1>5. QED
  BY <1>1, <1>2, <1>3, <1>4, RefStep

LEMMA PutDpStep ==
  ASSUME TypeOK, RefInv, NEW p \in Proc, NEW r \in Stages, Set(p, PutDp(th[p], r)),
         th[p].pc \notin Puts, Local(PutDp(th[p], r)), r # "gone", Stage(th[p]) # "gone",
         UNCHANGED <<ref, files, cwd>>, DiskType'
  PROVE  TypeOK' /\ RefInv'
<1> DEFINE u == PutDp(th[p], r)
<1>1. th[p] \in Thread /\ th[p].put = None /\ ref' \in [Inum -> Nat] /\ UNCHANGED <<ref, fip, cwd>>
  BY DEF TypeOK, RefInv, ThreadsOK, Local, files
<1>2. /\ u \in Thread /\ Set(p, u) /\ u.pc = "iput" /\ u.ret = r /\ Local(u)
      /\ u.put = th[p].dp /\ u.dp = None /\ u.at = th[p].at /\ u.ip = th[p].ip
  BY <1>1, PutDpFacts
<1> HIDE DEF u
<1>3. Stage(u) = r
  BY <1>2 DEF Stage, Puts
<1>4. Counts(Ptr, Inum, Target, ref)'
  BY <1>1, <1>2, MoveDp DEF RefInv
<1>5. QED
  BY <1>1, <1>2, <1>3, <1>4, RefStep

LEMMA PutIpStep ==
  ASSUME TypeOK, RefInv, NEW p \in Proc, NEW r \in Stages, Set(p, PutIp(th[p], r)),
         th[p].pc \notin Puts, Local(PutIp(th[p], r)), r # "gone", Stage(th[p]) # "gone",
         UNCHANGED <<ref, files, cwd>>, DiskType'
  PROVE  TypeOK' /\ RefInv'
<1> DEFINE u == PutIp(th[p], r)
<1>1. th[p] \in Thread /\ th[p].put = None /\ ref' \in [Inum -> Nat] /\ UNCHANGED <<ref, fip, cwd>>
  BY DEF TypeOK, RefInv, ThreadsOK, Local, files
<1>2. /\ u \in Thread /\ Set(p, u) /\ u.pc = "iput" /\ u.ret = r /\ Local(u)
      /\ u.put = th[p].ip /\ u.ip = None /\ u.at = th[p].at /\ u.dp = th[p].dp
  BY <1>1, PutIpFacts
<1> HIDE DEF u
<1>3. Stage(u) = r
  BY <1>2 DEF Stage, Puts
<1>4. Counts(Ptr, Inum, Target, ref)'
  BY <1>1, <1>2, MoveIp DEF RefInv
<1>5. QED
  BY <1>1, <1>2, <1>3, <1>4, RefStep

\* The thread's variables that refer to inodes stay.
LEMMA KeepStep ==
  ASSUME TypeOK, RefInv, NEW p \in Proc, NEW u \in Thread, Set(p, u), Local(u),
         Stage(u) = "gone" <=> Stage(th[p]) = "gone", UNCHANGED <<ref, files, cwd>>, DiskType',
         u.at = th[p].at, u.dp = th[p].dp, u.ip = th[p].ip, u.put = th[p].put
  PROVE  TypeOK' /\ RefInv'
<1> DEFINE e == TargetOf(th, fip, cwd)
           d == TargetOf(th', fip', cwd')
<1>1. th[p] \in Thread /\ th' = [th EXCEPT ![p] = u] /\ th \in [Proc -> Thread]
  BY DEF TypeOK, Set
<1>2. th'[p] = u /\ (\A q \in Proc \ {p} : th'[q] = th[q]) /\ Same(Vars, {}, th[p], u)
  BY <1>1, Fields DEF Vars, Same
<1>3. UNCHANGED <<fip, cwd>> /\ ref' \in [Inum -> Nat]
  BY DEF files, TypeOK
<1>4. \A s \in Ptr : d[s] = e[s]
  BY <1>2, <1>3 DEF TargetOf, Ptr, Vars, Same
<1>5. Counts(Ptr, Inum, e, ref) /\ UNCHANGED ref
  BY DEF RefInv, Target
<1> HIDE DEF e, d
<1>6. \A x \in Inum : Where(Ptr, d, x) = Where(Ptr, e, x)
  BY <1>4, WhereSame
<1>7. Counts(Ptr, Inum, Target, ref)'
  BY <1>5, <1>6 DEF Counts, Target, d
<1>8. QED
  BY <1>3, <1>7, RefStep

\* One variable takes a reference.
LEMMA TakeStep ==
  ASSUME TypeOK, RefInv, NEW p \in Proc, NEW u \in Thread, Set(p, u), Local(u),
         Stage(u) = "gone" <=> Stage(th[p]) = "gone", UNCHANGED <<files, cwd>>, DiskType',
         NEW a \in Vars, NEW x \in Inum, th[p][a] = None, u[a] = x, Same(Vars, {a}, th[p], u),
         ref' = [ref EXCEPT ![x] = @ + 1]
  PROVE  TypeOK' /\ RefInv'
<1>1. UNCHANGED <<fip, cwd>> /\ Counts(Ptr, Inum, Target, ref)
  BY DEF files, RefInv
<1>2. Counts(Ptr, Inum, Target, ref)' /\ ref' \in [Inum -> Nat]
  BY <1>1, RefsTake
<1>3. QED
  BY <1>2, RefStep

\* One reference moves, and a variable takes another.
LEMMA MoveTakeStep ==
  ASSUME TypeOK, RefInv, NEW p \in Proc, NEW u \in Thread, Set(p, u), Local(u),
         Stage(u) = "gone" <=> Stage(th[p]) = "gone", UNCHANGED <<files, cwd>>, DiskType',
         NEW a \in Vars, NEW b \in Vars, a # b, th[p][b] = None, u[b] = th[p][a],
         NEW c \in Vars, NEW x \in Inum, c # b, u[c] = x, c # a => th[p][c] = None /\ u[a] = None,
         Same(Vars, {a, b, c}, th[p], u), ref' = [ref EXCEPT ![x] = @ + 1]
  PROVE  TypeOK' /\ RefInv'
<1>1. UNCHANGED <<fip, cwd>> /\ Counts(Ptr, Inum, Target, ref)
  BY DEF files, RefInv
<1>2. Counts(Ptr, Inum, Target, ref)' /\ ref' \in [Inum -> Nat]
  BY <1>1, RefsMoveTake
<1>3. QED
  BY <1>2, RefStep

\* The reference that iput drops.
LEMMA DropPut ==
  ASSUME TypeOK, Counts(Ptr, Inum, Target, ref), NEW p \in Proc, NEW u \in Thread, Set(p, u),
         th[p].put \in Inum, u.put = None, u.at = th[p].at, u.dp = th[p].dp, u.ip = th[p].ip,
         ref' = [ref EXCEPT ![th[p].put] = @ - 1], UNCHANGED <<fip, cwd>>
  PROVE  Counts(Ptr, Inum, Target, ref)' /\ ref' \in [Inum -> Nat]
<1> DEFINE e == TargetOf(th, fip, cwd)
           d == TargetOf(th', fip', cwd')
           x == th[p].put  s == <<p, "put">>
<1>1. th[p] \in Thread /\ th'[p] = u /\ \A q \in Proc \ {p} : th'[q] = th[q]
  BY DEF TypeOK, Set
<1>2. th[p]["put"] = x /\ u["put"] = None /\ Same(Vars, {"put"}, th[p], u)
  BY <1>1, Fields DEF Vars, Same
<1>3. s \in Ptr /\ e[s] = x /\ d[s] = None
  BY <1>1, <1>2 DEF TargetOf, Ptr
<1>4. Same(Ptr, {s}, e, d)
  BY <1>1, <1>2 DEF TargetOf, Ptr, Vars, Same
<1>5. Counts(Ptr, Inum, e, ref) /\ ref \in [Inum -> Nat] /\ x \in Inum
  BY DEF Target, TypeOK
<1> HIDE DEF e, d, s, x
<1>6. ref' \in [Inum -> Int] /\ ref'[x] = ref[x] - 1 /\ Same(Inum, {x}, ref, ref')
  BY <1>5 DEF Same, x
<1>7. d[s] \notin Inum
  BY <1>3, Finite
<1>8. Counts(Ptr, Inum, d, ref') /\ ref' \in [Inum -> Nat]
  BY ONLY <1>3, <1>4, <1>5, <1>6, <1>7, Finite, CountsGive
<1>9. QED
  BY <1>8 DEF d, Target

-----------------------------------------------------------------------------
(* Each action keeps the invariant of the reference counts.                *)

LEMMA ThreadAt ==
  ASSUME TypeOK, RefInv, NEW p \in Proc
  PROVE  th[p] \in Thread /\ Local(th[p]) /\ Empties(p) /\ None \notin Inum
BY Finite DEF TypeOK, RefInv, ThreadsOK

\* A system call that has only its inode left puts it and is over.
LEMMA PutIpLocal ==
  ASSUME NEW t \in Thread, Local(t), t.pc \in HasIp \ HasDp
  PROVE  Local(PutIp(t, "user")) /\ t.pc \notin Puts /\ Stage(t) # "gone" /\ "user" \in Stages
<1> DEFINE u == PutIp(t, "user")
<1>1. "user" \in Stages /\ t.pc \in Stages /\ t.pc \notin Puts /\ t.ip \in Opt
  BY DEF HasIp, HasDp, Puts, Stages, Thread
<1>2. /\ u.pc = "iput" /\ u.put = t.ip /\ u.ret = "user" /\ u.path = t.path /\ u.goal = t.goal
      /\ u.at = t.at /\ u.dp = t.dp /\ u.ip = None
  BY <1>1, PutIpFacts
<1> HIDE DEF u
<1>3. Stage(t) = t.pc /\ t.pc \in HasIp /\ t.pc \notin HasDp /\ t.pc # "walk"
  BY <1>1 DEF Stage, HasIp
<1>4. t.ip # None /\ t.at = None /\ t.dp = None
  BY <1>3 DEF Local
<1>5. Stage(u) = "user" /\ "user" \notin HasDp \cup HasIp \cup HasPath /\ u.pc \in Puts
  BY <1>2 DEF Stage, Puts, HasDp, HasIp, HasPath
<1>6. Local(u)
  BY <1>2, <1>4, <1>5 DEF Local
<1>7. QED
  BY <1>1, <1>3, <1>6 DEF u, HasIp

LEMMA UnlinkBadRefs ==
  ASSUME TypeOK, RefInv, NEW p \in Proc, UnlinkBad(p)
  PROVE  TypeOK' /\ RefInv'
<1> DEFINE t == th[p]  u == PutDp(t, "user")
<1>1. t \in Thread /\ Local(t) /\ t.pc = "unlink_bad" /\ "user" \in Stages
  BY ThreadAt DEF UnlinkBad, At, Stages
<1>2. /\ u.pc = "iput" /\ u.put = t.dp /\ u.ret = "user" /\ u.at = t.at /\ u.dp = None /\ u.ip = t.ip
      /\ u.path = t.path /\ u.goal = t.goal
  BY <1>1, PutDpFacts
<1>3. Set(p, u) /\ UNCHANGED <<ref, files, cwd, disk, valid, panicked>>
      /\ lock' = [lock EXCEPT ![t.dp] = None]
  BY DEF UnlinkBad
<1> HIDE DEF u
<1>4. Local(u) /\ t.pc \notin Puts /\ Stage(t) # "gone"
  BY <1>1, <1>2 DEF Local, Stage, Puts, HasDp, HasIp, HasPath
<1>5. DiskType'
  BY <1>3 DEF TypeOK, DiskType, disk
<1>6. QED
  BY <1>1, <1>3, <1>4, <1>5, PutDpStep DEF u

LEMMA LinkBadRefs ==
  ASSUME TypeOK, RefInv, NEW p \in Proc, LinkBad(p)
  PROVE  TypeOK' /\ RefInv'
<1> DEFINE t == th[p]  u == PutDp(t, "bad")
<1>1. t \in Thread /\ Local(t) /\ t.pc = "link_bad" /\ "bad" \in Stages
  BY ThreadAt DEF LinkBad, At, Stages
<1>2. /\ u.pc = "iput" /\ u.put = t.dp /\ u.ret = "bad" /\ u.at = t.at /\ u.dp = None /\ u.ip = t.ip
      /\ u.path = t.path /\ u.goal = t.goal
  BY <1>1, PutDpFacts
<1>3. Set(p, u) /\ UNCHANGED <<ref, files, cwd, disk, valid, panicked>>
      /\ lock' = [lock EXCEPT ![t.dp] = None]
  BY DEF LinkBad
<1> HIDE DEF u
<1>4. Local(u) /\ t.pc \notin Puts /\ Stage(t) # "gone"
  BY <1>1, <1>2 DEF Local, Stage, Puts, HasDp, HasIp, HasPath, Goal
<1>5. DiskType'
  BY <1>3 DEF TypeOK, DiskType, disk
<1>6. QED
  BY <1>1, <1>3, <1>4, <1>5, PutDpStep DEF u

LEMMA Unlink3Refs ==
  ASSUME TypeOK, RefInv, NEW p \in Proc, Unlink3(p)
  PROVE  TypeOK' /\ RefInv'
<1> DEFINE t == th[p]
<1>1. t \in Thread /\ Local(t) /\ t.pc \in HasIp \ HasDp /\ t.ip \in Inum
  <2>1. t \in Thread /\ Local(t) /\ t.pc = "unlink3"
    BY ThreadAt DEF Unlink3, At
  <2>2. QED
    BY <2>1 DEF Local, Stage, HasIp, HasDp, Puts, Thread, Opt
<1>2. Set(p, PutIp(t, "user")) /\ UNCHANGED <<ref, files, cwd, type, ents, valid, panicked>>
      /\ nlink' = [nlink EXCEPT ![t.ip] = @ - 1] /\ lock' = [lock EXCEPT ![t.ip] = None]
  BY DEF Unlink3
<1>3. DiskType'
  <2>1. nlink' \in [Inum -> Int]
    BY <1>1, <1>2 DEF TypeOK
  <2>2. lock' \in [Inum -> Proc \cup {None}]
    BY <1>2 DEF TypeOK
  <2>3. QED
    BY <1>2, <2>1, <2>2 DEF TypeOK, DiskType
<1>4. QED
  BY <1>1, <1>2, <1>3, PutIpLocal, PutIpStep

LEMMA BadRefs ==
  ASSUME TypeOK, RefInv, NEW p \in Proc, Bad(p)
  PROVE  TypeOK' /\ RefInv'
<1> DEFINE t == th[p]
<1>1. t \in Thread /\ Local(t) /\ t.pc \in HasIp \ HasDp /\ t.ip \in Inum
  <2>1. t \in Thread /\ Local(t) /\ t.pc = "bad"
    BY ThreadAt DEF Bad, At
  <2>2. QED
    BY <2>1 DEF Local, Stage, HasIp, HasDp, Puts, Thread, Opt
<1>2. CASE Panic("ilock: no type") /\ UNCHANGED <<ref, valid, lock>>
  BY <1>2, PanicStep DEF Panics
<1>3. CASE /\ Set(p, PutIp(t, "user")) /\ UNCHANGED <<ref, files, cwd, type, ents, lock, panicked>>
           /\ nlink' = [nlink EXCEPT ![t.ip] = @ - 1] /\ valid' = valid \cup {t.ip}
  <2>1. DiskType'
    <3>1. nlink' \in [Inum -> Int]
      BY <1>1, <1>3 DEF TypeOK
    <3>2. QED
      BY <1>1, <1>3, <3>1 DEF TypeOK, DiskType
  <2>2. QED
    BY <1>1, <1>3, <2>1, PutIpLocal, PutIpStep
<1>4. QED
  BY <1>2, <1>3 DEF Bad, Ilock, Panic, icache

LEMMA Unlink2Refs ==
  ASSUME TypeOK, RefInv, NEW p \in Proc, Unlink2(p)
  PROVE  TypeOK' /\ RefInv'
<1> DEFINE t == th[p]  d == t.dp  i == t.ip  x == Head(t.path)
<1>1. t \in Thread /\ Local(t) /\ t.pc = "unlink2" /\ {"unlink_bad", "unlink3"} \subseteq Stages
  BY ThreadAt DEF Unlink2, At, Stages
<1>2. i \in Inum /\ d \in Inum /\ t.at = None /\ t.goal = "unlink" /\ t.pc \notin Puts /\ Stage(t) = "unlink2"
      /\ t.ip # None /\ t.dp # None
  BY <1>1 DEF Local, Stage, HasIp, HasDp, Puts, Thread, Opt, Goal
<1>3. CASE \E m \in Panics : Panic(m) /\ UNCHANGED <<ref, valid, lock>>
  BY <1>3, PanicStep
<1>4. CASE /\ Set(p, PutIp(t, "unlink_bad")) /\ UNCHANGED <<nlink, ents, lock, type, ref, files, cwd, panicked>>
           /\ valid' = valid \cup {i}
  <2> DEFINE u == PutIp(t, "unlink_bad")
  <2>1. /\ u.pc = "iput" /\ u.put = t.ip /\ u.ret = "unlink_bad" /\ u.at = t.at /\ u.dp = t.dp
        /\ u.ip = None /\ u.path = t.path /\ u.goal = t.goal
    BY <1>1, PutIpFacts
  <2> HIDE DEF u
  <2>2. Local(u)
    BY <1>2, <2>1 DEF Local, Stage, Puts, HasDp, HasIp, HasPath, Goal
  <2>3. DiskType'
    BY <1>2, <1>4 DEF TypeOK, DiskType
  <2>4. QED
    BY <1>1, <1>2, <1>4, <2>2, <2>3, PutIpStep DEF u
<1>5. CASE /\ Set(p, PutDp(t, "unlink3")) /\ UNCHANGED <<type, ref, files, cwd, panicked>>
           /\ ents' = [ents EXCEPT ![d][x] = None]
           /\ nlink' = [nlink EXCEPT ![d] = IF type[i] = "dir" THEN @ - 1 ELSE @]
           /\ lock' = [lock EXCEPT ![d] = None, ![i] = p]
           /\ valid' = valid \cup {i}
  <2> DEFINE u == PutDp(t, "unlink3")
  <2>1. /\ u.pc = "iput" /\ u.put = t.dp /\ u.ret = "unlink3" /\ u.at = t.at /\ u.ip = t.ip
        /\ u.dp = None /\ u.path = t.path /\ u.goal = t.goal
    BY <1>1, PutDpFacts
  <2> HIDE DEF u
  <2>2. Local(u)
    BY <1>2, <2>1 DEF Local, Stage, Puts, HasDp, HasIp, HasPath, Goal
  <2>3. DiskType'
    <3>1. ents' \in [Inum -> [Name \cup Dots -> Opt]]
      BY <1>5 DEF TypeOK, Opt
    <3>2. nlink' \in [Inum -> Int]
      BY <1>2, <1>5 DEF TypeOK
    <3>3. lock' \in [Inum -> Proc \cup {None}] /\ valid' \subseteq Inum
      BY <1>2, <1>5 DEF TypeOK
    <3>4. QED
      BY <1>5, <3>1, <3>2, <3>3 DEF TypeOK, DiskType
  <2>4. QED
    BY <1>1, <1>2, <1>5, <2>2, <2>3, PutDpStep DEF u
<1>6. QED
  <2>1. "ilock: no type" \in Panics /\ "unlink: nlink < 1" \in Panics
    BY DEF Panics
  <2>2. CASE type[i] = "free"
    BY <2>1, <2>2, <1>3 DEF Unlink2, Panic, icache
  <2>3. CASE type[i] # "free"
    BY <2>1, <2>3, <1>3, <1>4, <1>5 DEF Unlink2, Panic, icache
  <2>4. QED
    BY <2>2, <2>3

LEMMA IputRefs ==
  ASSUME TypeOK, RefInv, NEW p \in Proc, Iput(p)
  PROVE  TypeOK' /\ RefInv'
<1> DEFINE t == th[p]  u == [t EXCEPT !.pc = "unref"]
<1>1. t \in Thread /\ Local(t) /\ t.pc = "iput"
  BY ThreadAt DEF Iput, At
<1>2. /\ u \in Thread /\ u.pc = "unref" /\ u.put = t.put /\ u.ret = t.ret /\ u.at = t.at
      /\ u.dp = t.dp /\ u.ip = t.ip /\ u.path = t.path /\ u.goal = t.goal /\ u.call = t.call
  BY <1>1 DEF Thread, Puts
<1>3. Set(p, u) /\ UNCHANGED <<nlink, ref, lock, files, cwd, panicked>>
  BY DEF Iput
<1> HIDE DEF u
<1>4. Stage(u) = Stage(t) /\ Local(u)
  BY <1>1, <1>2 DEF Local, Stage, Puts
<1>5. DiskType'
  <2>1. CASE UNCHANGED <<type, ents, valid>>
    BY <1>3, <2>1 DEF TypeOK, DiskType
  <2>2. CASE /\ type' = [type EXCEPT ![t.put] = "free"]
             /\ ents' = [ents EXCEPT ![t.put] = NoEntries]
             /\ valid' = valid \ {t.put}
    <3>1. NoEntries \in [Name \cup Dots -> Opt]
      BY DEF NoEntries, Opt
    <3>2. QED
      BY <1>3, <2>2, <3>1 DEF TypeOK, DiskType
  <2>3. QED
    BY <2>1, <2>2 DEF Iput
<1>6. QED
  BY <1>2, <1>3, <1>4, <1>5, KeepStep

LEMMA StartWalkRefs ==
  ASSUME TypeOK, RefInv, NEW p \in Proc, NEW t \in Thread, NEW path \in Paths, NEW goal \in Goals,
         StartWalk(p, t, path, goal), Local(th[p]), th[p].at = None, th[p].put = None, t.at = None,
         t.put = None, t.dp = None, th[p].dp = None, t.ip = th[p].ip,
         t.ip # None <=> goal = "link2",
         goal = "link" => t.call \in Calls /\ t.call[1] = "link",
         t.ret \notin {"put_ip", "unlink3"}, Stage(th[p]) # "gone",
         UNCHANGED <<files, cwd>>, DiskType'
  PROVE  TypeOK' /\ RefInv'
<1>1. PICK d \in {Root, cwd[p]} :
        /\ ref' = [ref EXCEPT ![d] = @ + 1]
        /\ Set(p, [t EXCEPT !.pc = "walk", !.path = path, !.goal = goal, !.at = d])
  BY DEF StartWalk
<1> DEFINE u == [t EXCEPT !.pc = "walk", !.path = path, !.goal = goal, !.at = d]
<1>2. d \in Inum
  BY ThreadAt, Finite DEF Empties, TypeOK, Opt
<1>3. /\ u \in Thread /\ u.pc = "walk" /\ u.path = path /\ u.goal = goal /\ u.at = d
      /\ u.dp = None /\ u.ip = th[p].ip /\ u.put = None /\ u.ret = t.ret /\ u.call = t.call
  <2>1. "walk" \in Stages /\ goal \in Stages /\ d \in Opt /\ path \in Paths \cup {<<>>}
    BY <1>2 DEF Stages, Goals, Opt
  <2>2. u \in Thread
    BY <2>1 DEF Thread
  <2>3. QED
    BY <2>2 DEF Thread
<1>4. Set(p, u) /\ Stage(u) = "walk"
  BY <1>1, <1>3 DEF Stage, Puts
<1> HIDE DEF u
<1>5. Local(u)
  <2>1. path # <<>> /\ d # None
    BY <1>2, Finite DEF Paths
  <2>2. QED
    BY <1>3, <1>4, <2>1 DEF Local, Puts, HasDp, HasIp, HasPath
<1>6. /\ "at" \in Vars /\ th[p]["at"] = None /\ u["at"] = d /\ Same(Vars, {"at"}, th[p], u)
  <2>1. th[p] \in Thread
    BY DEF TypeOK
  <2>2. QED
    BY <1>3, <2>1, Fields DEF Same, Vars
<1>7. QED
  BY <1>1, <1>2, <1>3, <1>4, <1>5, <1>6, TakeStep

LEMMA CallRefs ==
  ASSUME TypeOK, RefInv, NEW p \in Proc, Call(p)
  PROVE  TypeOK' /\ RefInv'
<1> DEFINE t == th[p]
<1>1. t \in Thread /\ Local(t) /\ t.pc = "user"
  BY ThreadAt DEF Call, At
<1>2. PICK c \in Calls : StartWalk(p, [t EXCEPT !.call = c], c[2], IF c[1] = "mkdir" THEN "create" ELSE c[1])
  BY DEF Call
<1> DEFINE v == [t EXCEPT !.call = c]
           goal == IF c[1] = "mkdir" THEN "create" ELSE c[1]
<1>3. /\ v \in Thread /\ v.call = c /\ v.at = t.at /\ v.dp = t.dp /\ v.ip = t.ip /\ v.put = t.put
      /\ v.ret = t.ret
  BY <1>1 DEF Thread
<1>4. c[2] \in Paths /\ goal \in Goals \ {"link2"} /\ (goal = "link" => c[1] = "link")
  <2>1. /\ c[1] \in {"open", "create", "mkdir", "unlink", "link", "chdir"} /\ c[2] \in Paths
    BY FilesAssumption
  <2>2. QED
    BY <2>1 DEF Goals
<1>5. /\ t.at = None /\ t.put = None /\ t.dp = None /\ t.ip = None /\ t.ret \notin {"put_ip", "unlink3"}
      /\ Stage(t) # "gone"
  BY <1>1 DEF Local, Stage, Puts, HasDp, HasIp
<1>6. DiskType' /\ UNCHANGED <<files, cwd>>
  BY DEF Call, disk, TypeOK, DiskType
<1>7. StartWalk(p, v, c[2], goal)
  BY <1>2
<1> HIDE DEF v, goal
<1>8. QED
  BY <1>1, <1>3, <1>4, <1>5, <1>6, <1>7, StartWalkRefs

LEMMA LinkRefs ==
  ASSUME TypeOK, RefInv, NEW p \in Proc, Link(p)
  PROVE  TypeOK' /\ RefInv'
<1> DEFINE t == th[p]
<1>1. t \in Thread /\ Local(t) /\ t.pc = "link"
  BY ThreadAt DEF Link, At
<1>2. /\ t.at = None /\ t.put = None /\ t.dp = None /\ t.ip # None /\ t.ip \in Inum
      /\ t.ret \notin {"put_ip", "unlink3"} /\ Stage(t) # "gone" /\ t.pc \in HasIp \ HasDp
      /\ t.call \in Calls /\ t.call[1] = "link"
  BY <1>1 DEF Local, Stage, Puts, HasDp, HasIp, Thread, Opt
<1>3. CASE Panic("ilock: no type") /\ UNCHANGED <<ref, valid, lock>>
  BY <1>3, PanicStep DEF Panics
<1>4. CASE /\ Set(p, PutIp(t, "user")) /\ UNCHANGED <<nlink, ref, type, ents, lock, files, cwd, panicked>>
           /\ valid' = valid \cup {t.ip}
  <2>1. DiskType'
    BY <1>2, <1>4 DEF TypeOK, DiskType
  <2>2. QED
    BY <1>1, <1>2, <1>4, <2>1, PutIpLocal, PutIpStep
<1>5. CASE /\ nlink' = [nlink EXCEPT ![t.ip] = @ + 1] /\ StartWalk(p, t, t.call[3], "link2")
           /\ UNCHANGED <<type, ents, lock, files, cwd, panicked>> /\ valid' = valid \cup {t.ip}
  <2>1. nlink' \in [Inum -> Int]
    BY <1>2, <1>5 DEF TypeOK
  <2>2. DiskType'
    BY <1>2, <1>5, <2>1 DEF TypeOK, DiskType
  <2>3. t.call[3] \in Paths /\ "link2" \in Goals
    <3>1. t.call[3] \in Paths
      BY <1>2, FilesAssumption
    <3>2. QED
      BY <3>1 DEF Goals
  <2>4. QED
    BY <1>1, <1>2, <1>5, <2>2, <2>3, StartWalkRefs
<1>6. QED
  BY <1>3, <1>4, <1>5 DEF Link, Ilock, Panic, icache

LEMMA UnrefRefs ==
  ASSUME TypeOK, RefInv, NEW p \in Proc, Unref(p)
  PROVE  TypeOK' /\ RefInv'
<1> DEFINE t == th[p]  w == [t EXCEPT !.put = None, !.pc = t.ret]
           u == IF w.pc = "put_ip" THEN PutIp(w, "user")
                ELSE IF w.pc \in {"user", "gone"} THEN Idle(w.pc) ELSE w
<1>1. t \in Thread /\ Local(t) /\ t.pc = "unref" /\ None \notin Inum
  BY ThreadAt DEF Unref, At
<1>2. t.put \in Inum /\ Stage(t) = t.ret /\ t.ret \in Stages
  BY <1>1 DEF Local, Stage, Puts, Thread, Opt
<1>3. /\ Set(p, u) /\ UNCHANGED <<disk, lock, files, cwd, panicked>>
      /\ ref' = [ref EXCEPT ![t.put] = @ - 1]
      /\ valid' = IF ref[t.put] = 1 THEN valid \ {t.put} ELSE valid
  BY DEF Unref
<1>4. /\ w \in Thread /\ w.put = None /\ w.pc = t.ret /\ w.ret = t.ret /\ w.at = t.at /\ w.dp = t.dp
      /\ w.ip = t.ip /\ w.path = t.path /\ w.goal = t.goal /\ w.call = t.call
  BY <1>1, <1>2 DEF Thread, Opt
<1> HIDE DEF w
<1>5. DiskType'
  BY <1>3 DEF TypeOK, DiskType, disk
<1>6. UNCHANGED <<fip, cwd>> /\ Counts(Ptr, Inum, Target, ref) /\ "put" \in Vars /\ "ip" \in Vars
  BY <1>3 DEF files, RefInv, Vars
<1>7. CASE t.ret = "put_ip"
  <2>1. u = PutIp(w, "user") /\ "user" \in Stages
    BY <1>4, <1>7 DEF Stages
  <2>2. /\ u \in Thread /\ u.pc = "iput" /\ u.put = w.ip /\ u.ret = "user" /\ u.path = w.path
        /\ u.goal = w.goal /\ u.at = w.at /\ u.dp = w.dp /\ u.ip = None
    BY <1>4, <2>1, PutIpFacts
  <2> HIDE DEF u
  <2>3. Local(u) /\ Stage(u) # "gone" /\ Stage(t) # "gone"
    BY <1>1, <1>2, <1>4, <1>7, <2>2 DEF Local, Stage, Puts, HasDp, HasIp, HasPath
  <2>4. /\ th[p]["put"] = t.put /\ u["put"] = th[p]["ip"] /\ u["ip"] = None
        /\ Same(Vars, {"ip", "put"}, th[p], u)
    BY <1>1, <1>4, <2>2, Fields DEF Vars, Same
  <2>5. Counts(Ptr, Inum, Target, ref)' /\ ref' \in [Inum -> Nat]
    BY ONLY <1>2, <1>3, <1>6, <2>4, RefsGive, TypeOK, p \in Proc
  <2>6. QED
    BY <1>3, <1>5, <2>2, <2>3, <2>5, RefStep
<1>8. CASE t.ret # "put_ip"
  <2>1. u \in Thread /\ u.put = None /\ u.at = t.at /\ u.dp = t.dp /\ u.ip = t.ip
        /\ Stage(u) = Stage(t) /\ Local(u)
    <3>1. CASE t.ret \in {"user", "gone"}
      <4>1. u = Idle(t.ret)
        BY <1>4, <1>8, <3>1
      <4>2. /\ u \in Thread /\ u.pc = t.ret /\ u.ret = "user" /\ u.at = None /\ u.dp = None /\ u.ip = None
            /\ u.put = None
        BY <1>2, <4>1, IdleFacts
      <4> HIDE DEF u
      <4>3. t.at = None /\ t.dp = None /\ t.ip = None
        BY <1>1, <1>2, <3>1 DEF Local, HasDp, HasIp
      <4>4. Stage(u) = t.ret
        BY <3>1, <4>2 DEF Stage, Puts
      <4>5. Local(u)
        BY <3>1, <4>2, <4>4 DEF Local, Puts, HasDp, HasIp, HasPath
      <4>6. QED
        BY <1>2, <4>2, <4>3, <4>4, <4>5
    <3>2. CASE t.ret \notin {"user", "gone"}
      <4>1. u = w
        BY <1>4, <1>8, <3>2
      <4> HIDE DEF u
      <4>2. Stage(u) = t.ret /\ t.ret \notin Puts
        BY <1>2, <1>4, <4>1 DEF Stage, Puts, Stages
      <4>3. Local(u)
        BY <1>1, <1>2, <1>4, <1>8, <4>1, <4>2 DEF Local
      <4>4. QED
        BY <1>2, <1>4, <4>1, <4>2, <4>3
    <3>3. QED
      BY <3>1, <3>2
  <2> HIDE DEF u
  <2>2. Counts(Ptr, Inum, Target, ref)' /\ ref' \in [Inum -> Nat]
    BY <1>1, <1>2, <1>3, <1>6, <2>1, DropPut
  <2>3. QED
    BY <1>3, <1>5, <2>1, <2>2, RefStep
<1>9. QED
  BY <1>7, <1>8

LEMMA WalkRefs ==
  ASSUME TypeOK, RefInv, NEW p \in Proc, Walk(p)
  PROVE  TypeOK' /\ RefInv'
<1> DEFINE t == th[p]  i == t.at  next == ents[i][Head(t.path)]
           r == IF t.goal = "link2" THEN "bad" ELSE "user"
<1>1. t \in Thread /\ Local(t) /\ t.pc = "walk" /\ None \notin Inum
  BY ThreadAt DEF Walk, At
<1>2. /\ i \in Inum /\ t.put = None /\ t.dp = None /\ t.ret \notin {"put_ip", "unlink3"} /\ Stage(t) = "walk"
      /\ t.pc \notin Puts /\ t.goal \in Goals /\ (t.ip # None <=> t.goal = "link2")
      /\ t.path # <<>> /\ t.path \in Paths
      /\ (t.goal = "link" => t.call \in Calls /\ t.call[1] = "link")
  BY <1>1 DEF Local, Stage, HasIp, HasDp, HasPath, Puts, Thread, Opt
<1>3. /\ next \in Opt /\ r \in Stages /\ t.goal \in Stages /\ "walk" \in Stages
      /\ (Len(t.path) # 1 => Tail(t.path) \in Paths)
  <2>1. Head(t.path) \in Name \cup Dots /\ (Len(t.path) # 1 => Tail(t.path) \in Paths)
    BY <1>2, PathFacts
  <2>2. QED
    BY <1>2, <2>1 DEF TypeOK, Stages, Goals
<1>4. CASE Panic("ilock: no type") /\ UNCHANGED <<ref, valid, lock>>
  BY <1>4, PanicStep DEF Panics
<1> DEFINE Locked == UNCHANGED <<disk, lock, files, cwd, panicked>> /\ valid' = valid \cup {i}
<1>5. ASSUME Locked PROVE DiskType' /\ UNCHANGED <<files, cwd>>
  BY <1>2, <1>5 DEF TypeOK, DiskType, disk
<1>6. CASE Locked /\ Set(p, PutAt(t, r)) /\ UNCHANGED ref
  <2> DEFINE u == PutAt(t, r)
  <2>1. /\ u.pc = "iput" /\ u.put = t.at /\ u.ret = r /\ u.at = None /\ u.dp = t.dp
        /\ u.ip = t.ip /\ u.path = t.path /\ u.goal = t.goal
    <3>1. t \in Thread /\ r \in Stages
      BY <1>1, <1>3
    <3>2. QED
      BY ONLY <3>1, PutAtFacts
  <2> HIDE DEF u
  <2>2. Local(u) /\ r # "gone"
    BY <1>1, <1>2, <2>1 DEF Local, Stage, Puts, HasDp, HasIp, HasPath, Goal
  <2>3. QED
    BY <1>2, <1>3, <1>5, <1>6, <2>2, PutAtStep DEF u
<1>7. CASE Locked /\ Parent(t) /\ Set(p, [t EXCEPT !.pc = t.goal, !.dp = i, !.at = None]) /\ UNCHANGED ref
  <2> DEFINE u == [t EXCEPT !.pc = t.goal, !.dp = i, !.at = None]
  <2>1. /\ u \in Thread /\ u.pc = t.goal /\ u.put = None /\ u.ret = t.ret /\ u.at = None /\ u.dp = i
        /\ u.ip = t.ip /\ u.path = t.path /\ u.goal = t.goal /\ u.call = t.call
    BY <1>1, <1>2, <1>3 DEF Thread, Opt
  <2>2. Set(p, u)
    BY <1>7
  <2> HIDE DEF u
  <2>3. t.goal \in {"create", "unlink", "link2"}
    BY <1>7 DEF Parent
  <2>4. Stage(u) = t.goal /\ Stage(u) # "gone" /\ Stage(t) # "gone"
    BY <1>2, <2>1, <2>3 DEF Stage, Puts
  <2>5. Local(u)
    BY <1>1, <1>2, <2>1, <2>3, <2>4 DEF Local, Puts, HasDp, HasIp, HasPath, Goal
  <2>6. /\ "at" \in Vars /\ "dp" \in Vars /\ th[p]["dp"] = None /\ u["dp"] = th[p]["at"]
        /\ u["at"] = None /\ Same(Vars, {"at", "dp"}, th[p], u)
    BY <1>1, <1>2, <2>1, Fields DEF Vars, Same
  <2>7. UNCHANGED <<ref, fip, cwd>> /\ Counts(Ptr, Inum, Target, ref) /\ ref' \in [Inum -> Nat]
    BY <1>7, <1>5 DEF files, RefInv, TypeOK
  <2>8. Counts(Ptr, Inum, Target, ref)'
    BY <2>2, <2>6, <2>7, RefsMove
  <2>9. QED
    BY <1>5, <1>7, <2>1, <2>2, <2>4, <2>5, <2>7, <2>8, RefStep
<1>8. CASE /\ Locked /\ ~Parent(t) /\ next # None /\ ref' = [ref EXCEPT ![next] = @ + 1]
           /\ Set(p, [PutAt(t, t.goal) EXCEPT !.ip = next])
  <2> DEFINE w == PutAt(t, t.goal)  u == [w EXCEPT !.ip = next]
  <2>1. /\ w \in Thread /\ w.pc = "iput" /\ w.put = t.at /\ w.ret = t.goal /\ w.at = None /\ w.dp = t.dp
        /\ w.ip = t.ip /\ w.path = t.path /\ w.goal = t.goal /\ w.call = t.call
    <3>1. t \in Thread /\ t.goal \in Stages
      BY <1>1, <1>3
    <3>2. QED
      BY ONLY <3>1, PutAtFacts
  <2> HIDE DEF w
  <2>2. /\ u \in Thread /\ u.pc = "iput" /\ u.put = t.at /\ u.ret = t.goal /\ u.at = None /\ u.dp = t.dp
        /\ u.ip = next /\ u.path = t.path /\ u.goal = t.goal /\ u.call = t.call
    BY <1>3, <2>1 DEF Thread
  <2>3. Set(p, u)
    BY <1>8 DEF w
  <2> HIDE DEF u
  <2>4. t.goal \in {"open", "link", "chdir"} /\ next \in Inum
    BY <1>2, <1>3, <1>8 DEF Parent, Goals, Opt
  <2>5. Stage(u) = t.goal /\ Stage(u) # "gone" /\ Stage(t) # "gone"
    BY <1>2, <2>2, <2>4 DEF Stage, Puts
  <2>6. Local(u)
    BY <1>1, <1>2, <1>8, <2>2, <2>4, <2>5 DEF Local, Puts, HasDp, HasIp, HasPath, Goal
  <2>7. /\ "at" \in Vars /\ "put" \in Vars /\ "ip" \in Vars /\ th[p]["put"] = None
        /\ u["put"] = th[p]["at"] /\ u["ip"] = next /\ th[p]["ip"] = None /\ u["at"] = None
        /\ Same(Vars, {"at", "put", "ip"}, th[p], u)
    BY <1>1, <1>2, <2>2, <2>4, Fields DEF Vars, Same
  <2>8. QED
    BY <1>5, <1>8, <2>2, <2>3, <2>4, <2>5, <2>6, <2>7, MoveTakeStep
<1>9. CASE /\ Locked /\ Len(t.path) # 1 /\ next # None /\ ref' = [ref EXCEPT ![next] = @ + 1]
           /\ Set(p, [PutAt(t, "walk") EXCEPT !.at = next, !.path = Tail(@)])
  <2> DEFINE w == PutAt(t, "walk")  u == [w EXCEPT !.at = next, !.path = Tail(@)]
  <2>1. /\ w \in Thread /\ w.pc = "iput" /\ w.put = t.at /\ w.ret = "walk" /\ w.at = None /\ w.dp = t.dp
        /\ w.ip = t.ip /\ w.path = t.path /\ w.goal = t.goal /\ w.call = t.call
    <3>1. t \in Thread /\ "walk" \in Stages
      BY <1>1, <1>3
    <3>2. QED
      BY ONLY <3>1, PutAtFacts
  <2> HIDE DEF w
  <2>2. /\ u \in Thread /\ u.pc = "iput" /\ u.put = t.at /\ u.ret = "walk" /\ u.at = next /\ u.dp = t.dp
        /\ u.ip = t.ip /\ u.path = Tail(t.path) /\ u.goal = t.goal /\ u.call = t.call
    BY <1>3, <1>9, <2>1 DEF Thread
  <2>3. Set(p, u)
    BY <1>9 DEF w
  <2> HIDE DEF u
  <2>4. next \in Inum /\ Tail(t.path) # <<>>
    BY <1>3, <1>9 DEF Opt, Paths
  <2>5. Stage(u) = "walk" /\ Stage(t) # "gone"
    BY <1>2, <2>2 DEF Stage, Puts
  <2>6. Local(u)
    BY <1>1, <1>2, <1>9, <2>2, <2>4, <2>5 DEF Local, Puts, HasDp, HasIp, HasPath
  <2>7. /\ "at" \in Vars /\ "put" \in Vars /\ th[p]["put"] = None
        /\ u["put"] = th[p]["at"] /\ u["at"] = next
        /\ Same(Vars, {"at", "put", "at"}, th[p], u)
    BY <1>1, <1>2, <2>2, Fields DEF Vars, Same
  <2>8. QED
    BY <1>5, <1>9, <2>2, <2>3, <2>4, <2>5, <2>6, <2>7, MoveTakeStep
<1>10. QED
  <2>1. CASE type[i] = "free"
    BY <2>1, <1>4 DEF Walk, Ilock, Panic, icache
  <2>2. CASE type[i] # "free"
    BY <2>2, <1>6, <1>7, <1>8, <1>9 DEF Walk, Ilock
  <2>3. QED
    BY <2>1, <2>2

LEMMA UnlinkRefs ==
  ASSUME TypeOK, RefInv, NEW p \in Proc, Unlink(p)
  PROVE  TypeOK' /\ RefInv'
<1> DEFINE t == th[p]  d == t.dp  x == Head(t.path)  i == ents[d][x]
<1>1. t \in Thread /\ Local(t) /\ t.pc = "unlink" /\ None \notin Inum
  BY ThreadAt DEF Unlink, At
<1>2. /\ d \in Inum /\ t.put = None /\ t.at = None /\ t.ip = None /\ t.ret \notin {"put_ip", "unlink3"}
      /\ Stage(t) = "unlink" /\ t.pc \notin Puts /\ t.goal = "unlink" /\ t.path # <<>> /\ t.path \in Paths
  BY <1>1 DEF Local, Stage, HasIp, HasDp, HasPath, Puts, Thread, Opt, Goal
<1>3. i \in Opt /\ "unlink2" \in Stages /\ "user" \in Stages
  <2>1. x \in Name \cup Dots
    BY <1>2, PathFacts
  <2>2. QED
    BY <1>2, <2>1 DEF TypeOK, Stages
<1>4. CASE Panic("ilock: no type") /\ UNCHANGED <<ref, valid, lock>>
  BY <1>4, PanicStep DEF Panics
<1>5. CASE /\ UNCHANGED <<ref, lock, disk, files, cwd, panicked>> /\ valid' = valid \cup {d}
           /\ Set(p, PutDp(t, "user"))
  <2> DEFINE u == PutDp(t, "user")
  <2>1. /\ u.pc = "iput" /\ u.put = t.dp /\ u.ret = "user" /\ u.at = t.at /\ u.dp = None
        /\ u.ip = t.ip /\ u.path = t.path /\ u.goal = t.goal
    BY <1>1, <1>3, PutDpFacts
  <2> HIDE DEF u
  <2>2. Local(u)
    BY <1>1, <1>2, <2>1 DEF Local, Stage, Puts, HasDp, HasIp, HasPath
  <2>3. DiskType'
    BY <1>2, <1>5 DEF TypeOK, DiskType, disk
  <2>4. QED
    BY <1>2, <1>3, <1>5, <2>2, <2>3, PutDpStep DEF u
<1>6. CASE /\ i # None /\ ref' = [ref EXCEPT ![i] = @ + 1] /\ lock' = [lock EXCEPT ![d] = p]
           /\ UNCHANGED <<disk, files, cwd, panicked>> /\ valid' = valid \cup {d}
           /\ Set(p, [t EXCEPT !.pc = "unlink2", !.ip = i])
  <2> DEFINE u == [t EXCEPT !.pc = "unlink2", !.ip = i]
  <2>1. /\ u \in Thread /\ u.pc = "unlink2" /\ u.put = t.put /\ u.ret = t.ret /\ u.at = t.at /\ u.dp = t.dp
        /\ u.ip = i /\ u.path = t.path /\ u.goal = t.goal /\ Set(p, u)
    BY <1>1, <1>3, <1>6 DEF Thread
  <2> HIDE DEF u
  <2>2. Local(u) /\ Stage(u) # "gone"
    BY <1>1, <1>2, <1>6, <2>1 DEF Local, Stage, Puts, HasDp, HasIp, HasPath, Goal
  <2>3. DiskType'
    BY <1>2, <1>6 DEF TypeOK, DiskType, disk
  <2>4. "ip" \in Vars /\ i \in Inum /\ th[p]["ip"] = None /\ u["ip"] = i /\ Same(Vars, {"ip"}, th[p], u)
    BY <1>1, <1>2, <1>3, <1>6, <2>1, Fields DEF Vars, Same, Opt
  <2>5. QED
    BY <1>2, <1>6, <2>1, <2>2, <2>3, <2>4, TakeStep
<1>7. QED
  BY <1>4, <1>5, <1>6 DEF Unlink, Ilock, Panic, icache

LEMMA CreateRefs ==
  ASSUME TypeOK, RefInv, NEW p \in Proc, Create(p)
  PROVE  TypeOK' /\ RefInv'
<1> DEFINE t == th[p]  d == t.dp  x == Head(t.path)  old == ents[d][x]
           kind == IF t.call[1] = "mkdir" THEN "dir" ELSE "file"
<1>1. t \in Thread /\ Local(t) /\ t.pc = "create" /\ None \notin Inum
  BY ThreadAt DEF Create, At
<1>2. /\ d \in Inum /\ t.put = None /\ t.at = None /\ t.ip = None /\ t.ret \notin {"put_ip", "unlink3"}
      /\ Stage(t) = "create" /\ t.pc \notin Puts /\ t.goal = "create" /\ t.path # <<>> /\ t.path \in Paths
      /\ t.dp # None
  BY <1>1 DEF Local, Stage, HasIp, HasDp, HasPath, Puts, Thread, Opt, Goal
<1>3. x \in Name \cup Dots /\ old \in Opt /\ "opened" \in Stages /\ "created" \in Stages
  <2>1. x \in Name \cup Dots
    BY <1>2, PathFacts
  <2>2. QED
    BY <1>2, <2>1 DEF TypeOK, Stages
<1>4. CASE \E m \in Panics : Panic(m) /\ UNCHANGED <<ref, valid, lock>>
  BY <1>4, PanicStep
\* The thread after it has got inode i.
<1>5. ASSUME NEW i \in Inum, NEW r \in {"opened", "created"},
             Set(p, [PutDp(t, r) EXCEPT !.ip = i]), ref' = [ref EXCEPT ![i] = @ + 1],
             DiskType', UNCHANGED <<files, cwd>>
      PROVE  TypeOK' /\ RefInv'
  <2> DEFINE w == PutDp(t, r)  u == [w EXCEPT !.ip = i]
  <2>1. /\ w \in Thread /\ w.pc = "iput" /\ w.put = t.dp /\ w.ret = r /\ w.at = t.at /\ w.dp = None
        /\ w.ip = t.ip /\ w.path = t.path /\ w.goal = t.goal
    BY <1>1, <1>3, PutDpFacts
  <2> HIDE DEF w
  <2>2. /\ u \in Thread /\ u.pc = "iput" /\ u.put = t.dp /\ u.ret = r /\ u.at = t.at /\ u.dp = None
        /\ u.ip = i /\ u.path = t.path /\ u.goal = t.goal
    BY <2>1 DEF Thread, Opt
  <2>3. Set(p, u)
    BY <1>5 DEF w
  <2> HIDE DEF u
  <2>4. Local(u) /\ Stage(u) # "gone"
    BY <1>1, <1>2, <1>5, <2>2 DEF Local, Stage, Puts, HasDp, HasIp, HasPath, Goal
  <2>5. /\ "dp" \in Vars /\ "put" \in Vars /\ "ip" \in Vars /\ th[p]["put"] = None
        /\ u["put"] = th[p]["dp"] /\ u["ip"] = i /\ th[p]["ip"] = None /\ u["dp"] = None
        /\ Same(Vars, {"dp", "put", "ip"}, th[p], u)
    BY <1>1, <1>2, <2>2, Fields DEF Vars, Same
  <2>6. QED
    BY <1>2, <1>5, <2>2, <2>3, <2>4, <2>5, MoveTakeStep
<1>6. CASE /\ old # None /\ ref' = [ref EXCEPT ![old] = @ + 1] /\ valid' = valid \cup {d}
           /\ Set(p, [PutDp(t, "opened") EXCEPT !.ip = old])
           /\ UNCHANGED <<disk, lock, panicked, files, cwd>>
  <2>1. DiskType' /\ old \in Inum
    BY <1>2, <1>3, <1>6 DEF TypeOK, DiskType, disk, Opt
  <2>2. QED
    BY <1>5, <1>6, <2>1
<1>7. CASE \E i \in Inum :
             /\ type'  = [type EXCEPT ![i] = kind]
             /\ nlink' = [nlink EXCEPT ![i] = 1, ![d] = IF kind = "dir" THEN @ + 1 ELSE @]
             /\ ents'  = [ents EXCEPT ![d][x] = i,
                            ![i] = IF kind = "dir" THEN DirOf(i, d) ELSE NoEntries]
             /\ ref'   = [ref EXCEPT ![i] = @ + 1]
             /\ valid' = valid \cup {d, i}
             /\ lock'  = [lock EXCEPT ![i] = p]
             /\ Set(p, [PutDp(t, "created") EXCEPT !.ip = i])
             /\ UNCHANGED <<panicked, files, cwd>>
  <2>1. PICK i \in Inum :
             /\ type'  = [type EXCEPT ![i] = kind]
             /\ nlink' = [nlink EXCEPT ![i] = 1, ![d] = IF kind = "dir" THEN @ + 1 ELSE @]
             /\ ents'  = [ents EXCEPT ![d][x] = i,
                            ![i] = IF kind = "dir" THEN DirOf(i, d) ELSE NoEntries]
             /\ ref'   = [ref EXCEPT ![i] = @ + 1]
             /\ valid' = valid \cup {d, i}
             /\ lock'  = [lock EXCEPT ![i] = p]
             /\ Set(p, [PutDp(t, "created") EXCEPT !.ip = i])
             /\ UNCHANGED <<panicked, files, cwd>>
    BY <1>7
  <2>2. kind \in {"file", "dir"}
    OBVIOUS
  <2> HIDE DEF kind
  <2>3. DirOf(i, d) \in [Name \cup Dots -> Opt] /\ NoEntries \in [Name \cup Dots -> Opt]
    BY <1>2 DEF DirOf, NoEntries, Opt, Dots
  <2>4. ents' \in [Inum -> [Name \cup Dots -> Opt]]
    <3>1. i \in Opt
      BY DEF Opt
    <3> HIDE DEF d, x
    <3>2. [ents EXCEPT ![d][x] = i] \in [Inum -> [Name \cup Dots -> Opt]]
      BY <1>2, <1>3, <3>1 DEF TypeOK
    <3>3. QED
      BY <2>1, <2>3, <3>2
  <2>5. nlink' \in [Inum -> Int]
    BY <1>2, <2>1 DEF TypeOK
  <2>6. type' \in [Inum -> {"free", "file", "dir"}] /\ valid' \subseteq Inum
        /\ lock' \in [Inum -> Proc \cup {None}] /\ panicked' \in Panics
    BY <1>2, <2>1, <2>2 DEF TypeOK
  <2>7. DiskType'
    BY <2>4, <2>5, <2>6 DEF DiskType
  <2>8. QED
    BY <1>5, <2>1, <2>7
<1>8. QED
  <2>1. {"ilock: no type", "dirlookup not DIR", "ialloc: no inodes"} \subseteq Panics
    BY DEF Panics
  <2>2. CASE type[d] = "free" \/ type[d] # "dir"
    BY <1>4, <2>1, <2>2 DEF Create, Panic, icache
  <2>3. CASE type[d] = "dir" /\ old # None
    BY <1>6, <2>3 DEF Create
  <2>4. CASE type[d] = "dir" /\ old = None /\ {i \in Inum : type[i] = "free"} = {}
    BY <1>4, <2>1, <2>4 DEF Create, Panic, icache
  <2>5. CASE type[d] = "dir" /\ old = None /\ {i \in Inum : type[i] = "free"} # {}
    BY <1>7, <2>5 DEF Create
  <2>6. QED
    BY <2>2, <2>3, <2>4, <2>5

LEMMA Link2Refs ==
  ASSUME TypeOK, RefInv, NEW p \in Proc, Link2(p)
  PROVE  TypeOK' /\ RefInv'
<1> DEFINE t == th[p]  d == t.dp  x == Head(t.path)  old == ents[d][x]
<1>1. t \in Thread /\ Local(t) /\ t.pc = "link2" /\ None \notin Inum
  BY ThreadAt DEF Link2, At
<1>2. /\ d \in Inum /\ t.put = None /\ t.at = None /\ t.ip \in Inum /\ t.ret \notin {"put_ip", "unlink3"}
      /\ Stage(t) = "link2" /\ t.pc \notin Puts /\ t.goal = "link2" /\ t.path # <<>> /\ t.path \in Paths
      /\ t.dp # None /\ t.ip # None
  BY <1>1 DEF Local, Stage, HasIp, HasDp, HasPath, Puts, Thread, Opt, Goal
<1>3. x \in Name \cup Dots /\ old \in Opt /\ "put_ip" \in Stages /\ "link_bad" \in Stages
  <2>1. x \in Name \cup Dots
    BY <1>2, PathFacts
  <2>2. QED
    BY <1>2, <2>1 DEF TypeOK, Stages
<1>4. CASE Panic("ilock: no type") /\ UNCHANGED <<ref, valid, lock>>
  BY <1>4, PanicStep DEF Panics
<1>5. CASE /\ UNCHANGED <<type, nlink, files, cwd, ref, lock, panicked>> /\ valid' = valid \cup {d}
           /\ ents' = [ents EXCEPT ![d][x] = t.ip] /\ Set(p, PutDp(t, "put_ip"))
  <2> DEFINE u == PutDp(t, "put_ip")
  <2>1. /\ u.pc = "iput" /\ u.put = t.dp /\ u.ret = "put_ip" /\ u.at = t.at /\ u.dp = None
        /\ u.ip = t.ip /\ u.path = t.path /\ u.goal = t.goal
    BY <1>1, <1>3, PutDpFacts
  <2> HIDE DEF u
  <2>2. Local(u)
    BY <1>1, <1>2, <2>1 DEF Local, Stage, Puts, HasDp, HasIp, HasPath, Goal
  <2>3. DiskType'
    <3>1. t.ip \in Opt
      BY <1>2 DEF Opt
    <3>2. ents' \in [Inum -> [Name \cup Dots -> Opt]]
      BY <1>2, <1>3, <1>5, <3>1 DEF TypeOK
    <3>3. QED
      BY <1>2, <1>5, <3>2 DEF TypeOK, DiskType
  <2>4. QED
    BY <1>2, <1>3, <1>5, <2>2, <2>3, PutDpStep DEF u
<1>6. CASE /\ old # None /\ ref' = [ref EXCEPT ![old] = @ + 1] /\ lock' = [lock EXCEPT ![d] = p]
           /\ Set(p, Put(t, old, "link_bad")) /\ UNCHANGED <<ents, type, nlink, files, cwd, panicked>>
           /\ valid' = valid \cup {d}
  <2> DEFINE u == Put(t, old, "link_bad")
  <2>0. Set(p, u)
    BY <1>6
  <2>1. /\ u \in Thread /\ u.pc = "iput" /\ u.put = old /\ u.ret = "link_bad" /\ u.at = t.at /\ u.dp = t.dp
        /\ u.ip = t.ip /\ u.path = t.path /\ u.goal = t.goal
    BY ONLY <1>1, <1>3, PutFacts
  <2> HIDE DEF u
  <2>2. Local(u) /\ Stage(u) # "gone"
    BY <1>1, <1>2, <1>6, <2>1 DEF Local, Stage, Puts, HasDp, HasIp, HasPath, Goal
  <2>3. DiskType'
    BY <1>2, <1>6 DEF TypeOK, DiskType
  <2>4. "put" \in Vars /\ old \in Inum /\ th[p]["put"] = None /\ u["put"] = old /\ Same(Vars, {"put"}, th[p], u)
    BY <1>1, <1>2, <1>3, <1>6, <2>1, Fields DEF Vars, Same, Opt
  <2>5. QED
    BY <1>2, <1>6, <2>1, <2>2, <2>3, <2>4, <2>0, TakeStep
<1>7. QED
  BY <1>4, <1>5, <1>6 DEF Link2, Ilock, Panic, icache

-----------------------------------------------------------------------------
(* Descriptors and files.                                                  *)

\* p, which stays alive, changes; so may its files.
LEMMA AliveStep ==
  ASSUME TypeOK, ThreadsOK, NEW p \in Proc, NEW u \in Thread, Set(p, u), Local(u),
         Stage(u) # "gone", Stage(th[p]) # "gone", UNCHANGED cwd,
         Same(Proc, {p}, ofile, ofile')
  PROVE  th' \in [Proc -> Thread] /\ ThreadsOK'
<1>1. th' = [th EXCEPT ![p] = u] /\ th \in [Proc -> Thread]
  BY DEF Set, TypeOK
<1>2. th' \in [Proc -> Thread] /\ th'[p] = u /\ \A q \in Proc \ {p} : th'[q] = th[q]
  BY <1>1
<1>3. \A q \in Proc \ {p} : Local(th'[q]) /\ Empties(q)'
  BY <1>2 DEF ThreadsOK, Empties, Same
<1>4. Local(th'[p]) /\ Empties(p)'
  BY <1>2 DEF ThreadsOK, Empties
<1>5. QED
  BY <1>2, <1>3, <1>4 DEF ThreadsOK

LEMMA DescrTake ==
  ASSUME TypeOK, Counts(Proc \X Fd, File, Descr, fref), NEW p \in Proc, NEW fd \in Fd, NEW f \in File,
         ofile[p][fd] = None, ofile' = [ofile EXCEPT ![p][fd] = f],
         fref' \in [File -> Int], fref'[f] = fref[f] + 1, Same(File, {f}, fref, fref')
  PROVE  /\ Counts(Proc \X Fd, File, Descr, fref)' /\ fref' \in [File -> Nat]
         /\ ofile' \in [Proc -> [Fd -> File \cup {None}]] /\ Same(Proc, {p}, ofile, ofile')
<1> DEFINE e == DescrOf(ofile)  d == DescrOf(ofile')  s == <<p, fd>>
<1>1. ofile \in [Proc -> [Fd -> File \cup {None}]] /\ fref \in [File -> Nat]
  BY DEF TypeOK
<1>2. /\ ofile' \in [Proc -> [Fd -> File \cup {None}]] /\ Same(Proc, {p}, ofile, ofile')
      /\ ofile'[p][fd] = f /\ Same(Fd, {fd}, ofile[p], ofile'[p])
  BY <1>1 DEF Same
<1>3. s \in Proc \X Fd /\ e[s] = None /\ d[s] = f
  BY <1>2 DEF DescrOf
<1>4. Same(Proc \X Fd, {s}, e, d)
  BY <1>2 DEF DescrOf, Same
<1>5. Counts(Proc \X Fd, File, e, fref)
  BY DEF Descr
<1> HIDE DEF e, d, s
<1>6. Counts(Proc \X Fd, File, d, fref') /\ fref' \in [File -> Nat]
  <2>1. e[s] \notin File /\ fref' \in [File -> Int] /\ fref'[f] = fref[f] + 1 /\ Same(File, {f}, fref, fref')
        /\ f \in File
    BY <1>3, Finite
  <2>2. QED
    BY ONLY <1>1, <1>3, <1>4, <1>5, <2>1, Finite, CountsTake
<1>7. QED
  BY <1>2, <1>6 DEF d, Descr

LEMMA DescrGive ==
  ASSUME TypeOK, Counts(Proc \X Fd, File, Descr, fref), NEW p \in Proc, NEW fd \in Fd, NEW f \in File,
         ofile[p][fd] = f, ofile' = [ofile EXCEPT ![p][fd] = None],
         fref' \in [File -> Int], fref'[f] = fref[f] - 1, Same(File, {f}, fref, fref')
  PROVE  /\ Counts(Proc \X Fd, File, Descr, fref)' /\ fref' \in [File -> Nat] /\ fref[f] > 0
         /\ ofile' \in [Proc -> [Fd -> File \cup {None}]] /\ Same(Proc, {p}, ofile, ofile')
<1> DEFINE e == DescrOf(ofile)  d == DescrOf(ofile')  s == <<p, fd>>
<1>1. ofile \in [Proc -> [Fd -> File \cup {None}]] /\ fref \in [File -> Nat]
  BY DEF TypeOK
<1>2. /\ ofile' \in [Proc -> [Fd -> File \cup {None}]] /\ Same(Proc, {p}, ofile, ofile')
      /\ ofile'[p][fd] = None /\ Same(Fd, {fd}, ofile[p], ofile'[p])
  BY <1>1 DEF Same
<1>3. s \in Proc \X Fd /\ e[s] = f /\ d[s] = None
  BY <1>2 DEF DescrOf
<1>4. Same(Proc \X Fd, {s}, e, d)
  BY <1>2 DEF DescrOf, Same
<1>5. Counts(Proc \X Fd, File, e, fref)
  BY DEF Descr
<1> HIDE DEF e, d, s
<1>6. Counts(Proc \X Fd, File, d, fref') /\ fref' \in [File -> Nat] /\ fref[f] > 0
  <2>1. d[s] \notin File /\ fref' \in [File -> Int] /\ fref'[f] = fref[f] - 1 /\ Same(File, {f}, fref, fref')
        /\ f \in File
    BY <1>3, Finite
  <2>2. QED
    BY ONLY <1>1, <1>3, <1>4, <1>5, <2>1, Finite, CountsGive
<1>7. QED
  BY <1>2, <1>6 DEF d, Descr

\* A file that has a descriptor is counted.
LEMMA DescrRef ==
  ASSUME Counts(Proc \X Fd, File, Descr, fref), NEW p \in Proc, NEW fd \in Fd, ofile[p][fd] \in File
  PROVE  fref[ofile[p][fd]] > 0
<1> DEFINE f == ofile[p][fd]  W == Where(Proc \X Fd, Descr, f)
<1>1. <<p, fd>> \in W
  BY DEF Where, Descr, DescrOf
<1>2. fref[f] = Cardinality(W)
  BY DEF Counts
<1>3. IsFiniteSet(Proc \X Fd)
  BY Finite
<1>4. Cardinality(W) \in Nat /\ (Cardinality(W) = 0 <=> W = {})
  BY <1>3, WhereFinite
<1> HIDE DEF f, W
<1>5. Cardinality(W) > 0
  BY <1>1, <1>4
<1>6. QED
  BY <1>2, <1>5 DEF f

\* filealloc and fdalloc.
LEMMA OpenFileRefs ==
  ASSUME TypeOK, RefInv, NEW p \in Proc, OpenFile(p), th[p].pc \in {"open", "opened", "created"},
         UNCHANGED <<ref, cwd>>, DiskType'
  PROVE  TypeOK' /\ RefInv'
<1> DEFINE t == th[p]
<1>1. t \in Thread /\ Local(t) /\ None \notin Inum /\ "user" \in Stages /\ None \notin File
  BY ThreadAt, Finite DEF Stages
<1>2. /\ t.put = None /\ t.at = None /\ t.dp = None /\ t.ip # None /\ t.ip \in Inum
      /\ Stage(t) # "gone" /\ t.pc \in HasIp \ HasDp
  BY <1>1 DEF Local, Stage, HasIp, HasDp, Puts, Thread, Opt
<1>3. CASE Set(p, PutIp(t, "user")) /\ UNCHANGED files
  BY <1>1, <1>2, <1>3, PutIpLocal, PutIpStep
<1>4. CASE \E f \in File, fd \in Fd :
             /\ fref[f] = 0 /\ ofile[p][fd] = None
             /\ fref'  = [fref EXCEPT ![f] = 1]
             /\ fip'   = [fip EXCEPT ![f] = t.ip]
             /\ ofile' = [ofile EXCEPT ![p][fd] = f]
             /\ Set(p, Idle("user"))
  <2>1. PICK f \in File, fd \in Fd :
             /\ fref[f] = 0 /\ ofile[p][fd] = None
             /\ fref'  = [fref EXCEPT ![f] = 1]
             /\ fip'   = [fip EXCEPT ![f] = t.ip]
             /\ ofile' = [ofile EXCEPT ![p][fd] = f]
             /\ Set(p, Idle("user"))
    BY <1>4
  <2> DEFINE u == Idle("user")
  <2>2. /\ u \in Thread /\ u.pc = "user" /\ u.ret = "user" /\ u.at = None /\ u.dp = None /\ u.ip = None
        /\ u.put = None /\ Set(p, u)
    BY <1>1, <2>1, IdleFacts
  <2> HIDE DEF u
  <2>3. Local(u) /\ Stage(u) # "gone"
    BY <2>2 DEF Local, Stage, Puts, HasDp, HasIp, HasPath
  <2>4. fref' \in [File -> Int] /\ fref'[f] = fref[f] + 1 /\ Same(File, {f}, fref, fref')
    BY <2>1 DEF TypeOK, Same
  <2>5. /\ Counts(Proc \X Fd, File, Descr, fref)' /\ fref' \in [File -> Nat]
        /\ ofile' \in [Proc -> [Fd -> File \cup {None}]] /\ Same(Proc, {p}, ofile, ofile')
    BY <2>1, <2>4, DescrTake DEF RefInv
  <2>6. th' \in [Proc -> Thread] /\ ThreadsOK'
    BY <1>2, <2>2, <2>3, <2>5, AliveStep DEF RefInv
  <2>7. /\ fip' \in [File -> Opt] /\ fip'[f] = t.ip /\ Same(File, {f}, fip, fip')
    <3>1. t.ip \in Opt
      BY <1>1 DEF Thread
    <3>2. QED
      BY <2>1, <3>1 DEF TypeOK, Same
  <2>8. FilesOK'
    BY <1>2, <2>1, <2>4, <2>7 DEF RefInv, FilesOK, Same, TypeOK
  <2>9. Counts(Ptr, Inum, Target, ref)'
    <3> DEFINE e == TargetOf(th, fip, cwd)
               d == TargetOf(th', fip', cwd')
               a == <<p, "ip">>
               b == <<f, "file">>
    <3>1. th'[p] = u /\ Same(Proc, {p}, th, th')
      BY <2>2 DEF TypeOK, Set, Same
    <3>2. fip[f] = None
      BY <2>1 DEF RefInv, FilesOK
    <3>3. Same(Vars, {"ip"}, th[p], u) /\ th[p]["ip"] = t.ip /\ u["ip"] = None
      BY <1>1, <1>2, <2>2, Fields DEF Same, Vars
    <3>4. a \in Ptr /\ e[a] = t.ip /\ d[a] = None
      BY <3>1, <3>3 DEF TargetOf, Ptr
    <3>5. b \in Ptr /\ e[b] = None /\ d[b] = t.ip /\ a # b
      BY <2>7, <3>2 DEF TargetOf, Ptr
    <3>6. Same(Ptr, {a, b}, e, d)
      BY <2>7, <3>1, <3>3 DEF TargetOf, Ptr, Vars, Same
    <3>7. Counts(Ptr, Inum, e, ref) /\ ref \in [Inum -> Nat] /\ e[b] \notin Inum /\ d[a] \notin Inum
      BY <1>1, <3>4, <3>5 DEF RefInv, Target, TypeOK
    <3> HIDE DEF e, d, a, b
    <3>8. Counts(Ptr, Inum, d, ref)
      BY ONLY <3>4, <3>5, <3>6, <3>7, Finite, CountsMove
    <3>9. QED
      BY <3>8 DEF d, Target
  <2>10. TypeOK'
    BY <2>5, <2>6, <2>7 DEF TypeOK, DiskType
  <2>11. QED
    BY <2>5, <2>6, <2>8, <2>9, <2>10 DEF RefInv
<1>5. QED
  BY <1>3, <1>4 DEF OpenFile

LEMMA OpenRefs ==
  ASSUME TypeOK, RefInv, NEW p \in Proc, Open(p)
  PROVE  TypeOK' /\ RefInv'
<1> DEFINE t == th[p]
<1>1. t \in Thread /\ Local(t) /\ t.pc = "open"
  BY ThreadAt DEF Open, At
<1>2. t.ip \in Inum /\ t.pc \in HasIp \ HasDp
  BY <1>1 DEF Local, Stage, HasIp, HasDp, Puts, Thread, Opt
<1>3. CASE Panic("ilock: no type") /\ UNCHANGED <<ref, valid, lock>>
  BY <1>3, PanicStep DEF Panics
<1>4. ASSUME UNCHANGED <<disk, ref, lock, cwd, panicked>>, valid' = valid \cup {t.ip}
      PROVE  DiskType' /\ UNCHANGED <<ref, cwd>>
  BY <1>2, <1>4 DEF TypeOK, DiskType, disk
<1>5. CASE UNCHANGED <<disk, ref, lock, cwd, panicked>> /\ valid' = valid \cup {t.ip} /\ OpenFile(p)
  BY <1>1, <1>4, <1>5, OpenFileRefs
<1>6. CASE /\ UNCHANGED <<disk, ref, lock, cwd, panicked, files>> /\ valid' = valid \cup {t.ip}
           /\ Set(p, PutIp(t, "user"))
  BY <1>1, <1>2, <1>4, <1>6, PutIpLocal, PutIpStep
<1>7. QED
  BY <1>3, <1>5, <1>6 DEF Open, Ilock, Panic, icache

LEMMA OpenedRefs ==
  ASSUME TypeOK, RefInv, NEW p \in Proc, Opened(p)
  PROVE  TypeOK' /\ RefInv'
<1> DEFINE t == th[p]
<1>1. t \in Thread /\ Local(t) /\ t.pc = "opened"
  BY ThreadAt DEF Opened, At
<1>2. t.ip \in Inum /\ t.pc \in HasIp \ HasDp
  BY <1>1 DEF Local, Stage, HasIp, HasDp, Puts, Thread, Opt
<1>3. CASE Panic("ilock: no type") /\ UNCHANGED <<ref, valid, lock>>
  BY <1>3, PanicStep DEF Panics
<1>4. ASSUME UNCHANGED <<disk, ref, lock, cwd, panicked>>, valid' = valid \cup {t.ip}
      PROVE  DiskType' /\ UNCHANGED <<ref, cwd>>
  BY <1>2, <1>4 DEF TypeOK, DiskType, disk
<1>5. CASE UNCHANGED <<disk, ref, lock, cwd, panicked>> /\ valid' = valid \cup {t.ip} /\ OpenFile(p)
  BY <1>1, <1>4, <1>5, OpenFileRefs
<1>6. CASE /\ UNCHANGED <<disk, ref, lock, cwd, panicked, files>> /\ valid' = valid \cup {t.ip}
           /\ Set(p, PutIp(t, "user"))
  BY <1>1, <1>2, <1>4, <1>6, PutIpLocal, PutIpStep
<1>7. QED
  BY <1>3, <1>5, <1>6 DEF Opened, Ilock, Panic, icache

LEMMA CreatedRefs ==
  ASSUME TypeOK, RefInv, NEW p \in Proc, Created(p)
  PROVE  TypeOK' /\ RefInv'
<1> DEFINE t == th[p]
<1>1. t \in Thread /\ Local(t) /\ t.pc = "created"
  BY ThreadAt DEF Created, At
<1>2. t.pc \in HasIp \ HasDp
  BY <1>1 DEF HasIp, HasDp
<1>3. DiskType' /\ UNCHANGED <<ref, cwd>>
  BY DEF Created, TypeOK, DiskType, disk
<1>4. CASE OpenFile(p)
  BY <1>1, <1>3, <1>4, OpenFileRefs
<1>5. CASE Set(p, PutIp(t, "user")) /\ UNCHANGED files
  BY <1>1, <1>2, <1>3, <1>5, PutIpLocal, PutIpStep
<1>6. QED
  BY <1>4, <1>5 DEF Created

LEMMA ChdirRefs ==
  ASSUME TypeOK, RefInv, NEW p \in Proc, Chdir(p)
  PROVE  TypeOK' /\ RefInv'
<1> DEFINE t == th[p]  i == t.ip
<1>1. t \in Thread /\ Local(t) /\ Empties(p) /\ t.pc = "chdir" /\ None \notin Inum /\ "user" \in Stages
  BY ThreadAt DEF Chdir, At, Stages
<1>2. /\ i \in Inum /\ t.pc \in HasIp \ HasDp /\ t.put = None /\ t.at = None /\ t.dp = None
      /\ Stage(t) # "gone" /\ cwd[p] \in Opt
  BY <1>1 DEF Local, Stage, HasIp, HasDp, Puts, Thread, Opt, TypeOK
<1>3. CASE Panic("ilock: no type") /\ UNCHANGED <<ref, valid, lock>>
  BY <1>3, PanicStep DEF Panics
<1>4. ASSUME UNCHANGED <<disk, ref, lock, files, panicked>>, valid' = valid \cup {t.ip}
      PROVE  DiskType' /\ UNCHANGED <<ref, files>>
  BY <1>2, <1>4 DEF TypeOK, DiskType, disk
<1>5. CASE /\ UNCHANGED <<disk, ref, lock, files, panicked, cwd>> /\ valid' = valid \cup {t.ip}
           /\ Set(p, PutIp(t, "user"))
  BY <1>1, <1>2, <1>4, <1>5, PutIpLocal, PutIpStep
<1>6. CASE /\ UNCHANGED <<disk, ref, lock, files, panicked>> /\ valid' = valid \cup {t.ip}
           /\ cwd' = [cwd EXCEPT ![p] = i] /\ Set(p, [Put(t, cwd[p], "user") EXCEPT !.ip = None])
  <2> DEFINE w == Put(t, cwd[p], "user")  u == [w EXCEPT !.ip = None]
  <2>1. /\ w \in Thread /\ w.pc = "iput" /\ w.put = cwd[p] /\ w.ret = "user" /\ w.at = None /\ w.dp = None
        /\ w.path = t.path /\ w.goal = t.goal
    BY <1>1, <1>2, PutFacts
  <2> HIDE DEF w
  <2>2. /\ u \in Thread /\ u.pc = "iput" /\ u.put = cwd[p] /\ u.ret = "user" /\ u.at = None /\ u.dp = None
        /\ u.ip = None /\ u.path = t.path /\ u.goal = t.goal
    BY <2>1 DEF Thread, Opt
  <2>3. Set(p, u)
    BY <1>6 DEF w
  <2> HIDE DEF u
  <2>4. cwd[p] # None
    BY <1>1, <1>2 DEF Empties
  <2>5. Local(u) /\ Stage(u) = "user"
    BY <2>2, <2>4 DEF Local, Stage, Puts, HasDp, HasIp, HasPath
  <2>6. cwd' \in [Proc -> Opt] /\ cwd'[p] = i /\ Same(Proc, {p}, cwd, cwd')
    BY <1>2, <1>6 DEF TypeOK, Same, Opt
  <2>7. th' \in [Proc -> Thread] /\ th'[p] = u /\ Same(Proc, {p}, th, th')
    BY <2>2, <2>3 DEF TypeOK, Set, Same
  <2>8. ThreadsOK'
    <3>1. \A q \in Proc \ {p} : Local(th'[q]) /\ Empties(q)'
      BY <1>6, <2>6, <2>7 DEF RefInv, ThreadsOK, Empties, Same, files
    <3>2. Local(th'[p]) /\ Empties(p)'
      BY <1>1, <1>2, <2>5, <2>6, <2>7 DEF Empties
    <3>3. QED
      BY <3>1, <3>2 DEF ThreadsOK
  <2>9. Counts(Ptr, Inum, Target, ref)'
    <3> DEFINE e == TargetOf(th, fip, cwd)
               d == TargetOf(th', fip', cwd')
               a == <<p, "ip">>
               b == <<p, "cwd">>
               c == <<p, "put">>
               m == [e EXCEPT ![b] = None, ![c] = cwd[p]]
    <3>1. /\ Same(Vars, {"ip", "put"}, th[p], u) /\ th[p]["ip"] = i /\ u["ip"] = None
          /\ th[p]["put"] = None /\ u["put"] = cwd[p]
      BY <1>1, <1>2, <2>2, Fields DEF Same, Vars
    <3>2. a \in Ptr /\ e[a] = i /\ d[a] = None
      BY <2>7, <3>1 DEF TargetOf, Ptr
    <3>3. b \in Ptr /\ e[b] = cwd[p] /\ d[b] = i /\ a # b /\ b # c /\ a # c
      BY <2>6 DEF TargetOf, Ptr
    <3>4. c \in Ptr /\ e[c] = None /\ d[c] = cwd[p]
      BY <2>7, <3>1 DEF TargetOf, Ptr
    <3>5. Same(Ptr, {a, b, c}, e, d)
      BY <1>6, <2>6, <2>7, <3>1 DEF TargetOf, Ptr, Vars, Same, files
    <3>6. Counts(Ptr, Inum, e, ref) /\ ref \in [Inum -> Nat] /\ DOMAIN e = Ptr
      BY DEF RefInv, Target, TypeOK, TargetOf
    <3> HIDE DEF e, d, a, b, c
    <3>7. m[b] = None /\ m[c] = e[b] /\ m[a] = i /\ Same(Ptr, {b, c}, e, m)
      BY <3>2, <3>3, <3>4, <3>6 DEF Same
    <3>8. Same(Ptr, {a, b}, m, d)
      BY <3>2, <3>3, <3>4, <3>5, <3>7 DEF Same
    <3> HIDE DEF m
    <3>9. e[c] \notin Inum /\ m[b] \notin Inum /\ d[a] \notin Inum /\ d[b] = m[a]
      BY <1>1, <3>2, <3>3, <3>4, <3>7
    <3>10. Counts(Ptr, Inum, m, ref)
      BY ONLY <3>3, <3>4, <3>6, <3>7, <3>9, Finite, CountsMove
    <3>11. Counts(Ptr, Inum, d, ref)
      BY ONLY <3>2, <3>3, <3>6, <3>8, <3>9, <3>10, Finite, CountsMove
    <3>12. QED
      BY <1>6, <3>11 DEF d, Target
  <2>10. TypeOK'
    BY <1>4, <1>6, <2>6, <2>7 DEF TypeOK, DiskType, files
  <2>11. QED
    BY <1>6, <2>8, <2>9, <2>10, FilesSame DEF RefInv
<1>7. QED
  BY <1>3, <1>5, <1>6 DEF Chdir, Ilock, Panic, icache

LEMMA DupRefs ==
  ASSUME TypeOK, RefInv, NEW p \in Proc, Dup(p)
  PROVE  TypeOK' /\ RefInv'
<1>1. PICK fd \in Fd, new \in Fd :
       /\ ofile[p][fd] # None /\ ofile[p][new] = None
       /\ ofile' = [ofile EXCEPT ![p][new] = ofile[p][fd]]
       /\ fref'  = [fref EXCEPT ![ofile[p][fd]] = @ + 1]
  BY DEF Dup
<1> DEFINE f == ofile[p][fd]
<1>2. UNCHANGED <<type, nlink, ents, ref, valid, lock, fip, cwd, th, panicked>> /\ th[p].pc = "user"
  BY DEF Dup, At, disk, icache
<1>3. f \in File
  BY <1>1 DEF TypeOK
<1>4. fref' \in [File -> Int] /\ fref'[f] = fref[f] + 1 /\ Same(File, {f}, fref, fref')
  BY <1>1, <1>3 DEF TypeOK, Same
<1>5. ofile' = [ofile EXCEPT ![p][new] = f]
  BY <1>1
<1>6. fref[f] > 0
  BY <1>3, DescrRef DEF RefInv
<1> HIDE DEF f
<1>7. /\ Counts(Proc \X Fd, File, Descr, fref)' /\ fref' \in [File -> Nat]
      /\ ofile' \in [Proc -> [Fd -> File \cup {None}]] /\ Same(Proc, {p}, ofile, ofile')
  BY <1>1, <1>3, <1>4, <1>5, DescrTake DEF RefInv
<1>8. ThreadsOK'
  <2>1. Stage(th[p]) # "gone"
    BY <1>2 DEF Stage, Puts
  <2>2. QED
    BY <1>2, <1>7, <2>1 DEF RefInv, ThreadsOK, Empties, Same
<1>9. FilesOK'
  <2>1. \A g \in File : fip[g] # None <=> fref[g] > 0
    BY DEF RefInv, FilesOK
  <2>2. fref[f] \in Nat /\ fref'[f] > 0 /\ UNCHANGED fip
    BY <1>2, <1>3, <1>4, <1>6 DEF TypeOK
  <2>3. QED
    BY ONLY <1>4, <1>6, <2>1, <2>2 DEF FilesOK, Same
<1>10. TypeOK'
  BY <1>2, <1>7 DEF TypeOK
<1>11. Counts(Ptr, Inum, Target, ref)'
  BY <1>2 DEF RefInv, Target
<1>12. QED
  BY <1>7, <1>8, <1>9, <1>10, <1>11 DEF RefInv

LEMMA FileCloseRefs ==
  ASSUME TypeOK, RefInv, NEW p \in Proc, NEW fd \in Fd, NEW then \in {"user", "exit"},
         th[p].pc = then, FileClose(p, fd, then)
  PROVE  TypeOK' /\ RefInv'
<1> DEFINE t == th[p]  f == ofile[p][fd]
<1>1. t \in Thread /\ Local(t) /\ None \notin Inum /\ then \in Stages
  BY ThreadAt DEF Stages
<1>2. t.put = None /\ t.at = None /\ t.dp = None /\ t.ip = None /\ Stage(t) = then
  BY <1>1 DEF Local, Stage, HasIp, HasDp, Puts
<1>3. /\ UNCHANGED <<type, nlink, ents, ref, valid, lock, cwd, panicked>>
      /\ ofile' = [ofile EXCEPT ![p][fd] = None] /\ fref' = [fref EXCEPT ![f] = @ - 1]
      /\ f \in File
  BY DEF FileClose, disk, icache, TypeOK
<1>4. fref' \in [File -> Int] /\ fref'[f] = fref[f] - 1 /\ Same(File, {f}, fref, fref')
  BY <1>3 DEF TypeOK, Same
<1>5. ofile[p][fd] = f
  OBVIOUS
<1> HIDE DEF f
<1>6. /\ Counts(Proc \X Fd, File, Descr, fref)' /\ fref' \in [File -> Nat] /\ fref[f] > 0
      /\ ofile' \in [Proc -> [Fd -> File \cup {None}]] /\ Same(Proc, {p}, ofile, ofile')
  BY <1>3, <1>4, <1>5, DescrGive DEF RefInv
<1>7. CASE fref[f] = 1 /\ fip' = [fip EXCEPT ![f] = None] /\ Set(p, Put(t, fip[f], then))
  <2> DEFINE u == Put(t, fip[f], then)
  <2>1. fip[f] \in Opt /\ fip[f] # None
    BY <1>3, <1>6 DEF RefInv, FilesOK, TypeOK
  <2>2. /\ u \in Thread /\ u.pc = "iput" /\ u.ret = then /\ u.at = None /\ u.dp = None /\ u.ip = None
        /\ u.put = fip[f] /\ u.path = t.path /\ u.goal = t.goal
    BY <1>1, <1>2, <2>1, PutFacts
  <2>3. Set(p, u)
    BY <1>7
  <2> HIDE DEF u
  <2>4. Local(u) /\ Stage(u) # "gone" /\ Stage(t) # "gone"
    BY <1>2, <2>1, <2>2 DEF Local, Stage, Puts, HasDp, HasIp, HasPath
  <2>5. th' \in [Proc -> Thread] /\ ThreadsOK'
    BY <1>3, <1>6, <2>2, <2>3, <2>4, AliveStep DEF RefInv
  <2>6. fip' \in [File -> Opt] /\ fip'[f] = None /\ Same(File, {f}, fip, fip')
    BY <1>3, <1>7 DEF TypeOK, Same, Opt
  <2>7. FilesOK'
    BY <1>3, <1>4, <1>7, <2>6 DEF RefInv, FilesOK, Same, TypeOK
  <2>8. Counts(Ptr, Inum, Target, ref)'
    <3> DEFINE e == TargetOf(th, fip, cwd)
               d == TargetOf(th', fip', cwd')
               a == <<f, "file">>
               b == <<p, "put">>
    <3>1. th'[p] = u /\ Same(Proc, {p}, th, th')
      BY <2>3 DEF TypeOK, Set, Same
    <3>2. Same(Vars, {"put"}, th[p], u) /\ th[p]["put"] = None /\ u["put"] = fip[f]
      BY <1>1, <1>2, <2>2, Fields DEF Same, Vars
    <3>3. a \in Ptr /\ e[a] = fip[f] /\ d[a] = None
      BY <1>3, <2>6 DEF TargetOf, Ptr
    <3>4. b \in Ptr /\ e[b] = None /\ d[b] = fip[f] /\ a # b
      BY <3>1, <3>2 DEF TargetOf, Ptr
    <3>5. Same(Ptr, {a, b}, e, d)
      BY <1>3, <2>6, <3>1, <3>2 DEF TargetOf, Ptr, Vars, Same
    <3>6. Counts(Ptr, Inum, e, ref) /\ ref \in [Inum -> Nat] /\ e[b] \notin Inum /\ d[a] \notin Inum
      BY <1>1, <3>3, <3>4 DEF RefInv, Target, TypeOK
    <3> HIDE DEF e, d, a, b
    <3>7. Counts(Ptr, Inum, d, ref)
      BY ONLY <3>3, <3>4, <3>5, <3>6, Finite, CountsMove
    <3>8. QED
      BY <1>3, <3>7 DEF d, Target
  <2>9. TypeOK'
    BY <1>3, <1>6, <2>5, <2>6 DEF TypeOK
  <2>10. QED
    BY <1>6, <2>5, <2>7, <2>8, <2>9 DEF RefInv
<1>8. CASE fref[f] # 1 /\ UNCHANGED <<fip, th>>
  <2>1. Stage(t) # "gone"
    BY <1>2
  <2>2. ThreadsOK'
    BY <1>3, <1>6, <1>8, <2>1 DEF RefInv, ThreadsOK, Empties, Same
  <2>3. FilesOK'
    BY <1>3, <1>4, <1>6, <1>8 DEF RefInv, FilesOK, Same, TypeOK
  <2>4. Counts(Ptr, Inum, Target, ref)'
    BY <1>3, <1>8 DEF RefInv, Target
  <2>5. TypeOK'
    BY <1>3, <1>6, <1>8 DEF TypeOK
  <2>6. QED
    BY <1>6, <2>2, <2>3, <2>4, <2>5 DEF RefInv
<1>9. QED
  BY <1>7, <1>8 DEF FileClose, f

LEMMA CloseRefs ==
  ASSUME TypeOK, RefInv, NEW p \in Proc, Close(p)
  PROVE  TypeOK' /\ RefInv'
BY FileCloseRefs DEF Close, At

LEMMA ExitRefs ==
  ASSUME TypeOK, RefInv, NEW p \in Proc, Exit(p)
  PROVE  TypeOK' /\ RefInv'
<1> DEFINE t == th[p]  u == Idle("exit")
<1>1. t \in Thread /\ Local(t) /\ t.pc = "user" /\ "exit" \in Stages
  BY ThreadAt DEF Exit, At, Stages
<1>2. Set(p, u) /\ UNCHANGED <<type, nlink, ents, valid, lock, panicked>> /\ UNCHANGED <<ref, files, cwd>>
  BY DEF Exit, disk, icache
<1>3. /\ u \in Thread /\ u.pc = "exit" /\ u.ret = "user" /\ u.at = None /\ u.dp = None /\ u.ip = None
      /\ u.put = None
  BY <1>1, IdleFacts
<1> HIDE DEF u
<1>4. Local(u) /\ Stage(u) # "gone"
  BY <1>3 DEF Local, Stage, Puts, HasDp, HasIp, HasPath
<1>5. t.put = None /\ t.at = None /\ t.dp = None /\ t.ip = None /\ Stage(t) # "gone"
  BY <1>1 DEF Local, Stage, HasIp, HasDp, Puts
<1>6. DiskType'
  BY <1>2 DEF TypeOK, DiskType
<1>7. QED
  BY <1>2, <1>3, <1>4, <1>5, <1>6, KeepStep

LEMMA ExitCloseRefs ==
  ASSUME TypeOK, RefInv, NEW p \in Proc, ExitClose(p)
  PROVE  TypeOK' /\ RefInv'
<1> DEFINE t == th[p]
<1>1. t \in Thread /\ Local(t) /\ Empties(p) /\ t.pc = "exit" /\ None \notin Inum /\ "gone" \in Stages
  BY ThreadAt DEF ExitClose, At, Stages
<1>2. CASE \E fd \in Fd : FileClose(p, fd, "exit")
  BY <1>1, <1>2, FileCloseRefs
<1>3. CASE /\ \A fd \in Fd : ofile[p][fd] = None
           /\ cwd' = [cwd EXCEPT ![p] = None] /\ Set(p, Put(t, cwd[p], "gone"))
           /\ UNCHANGED <<disk, icache, files, panicked>>
  <2> DEFINE u == Put(t, cwd[p], "gone")
  <2>1. t.put = None /\ t.at = None /\ t.dp = None /\ t.ip = None /\ Stage(t) = "exit"
    BY <1>1 DEF Local, Stage, HasIp, HasDp, Puts
  <2>2. cwd[p] \in Opt /\ cwd[p] # None
    BY <1>1, <2>1 DEF Empties, TypeOK
  <2>3. /\ u \in Thread /\ u.pc = "iput" /\ u.ret = "gone" /\ u.at = None /\ u.dp = None /\ u.ip = None
        /\ u.put = cwd[p] /\ u.path = t.path /\ u.goal = t.goal
    BY <1>1, <2>1, <2>2, PutFacts
  <2>4. Set(p, u)
    BY <1>3
  <2> HIDE DEF u
  <2>5. Local(u) /\ Stage(u) = "gone"
    BY <2>2, <2>3 DEF Local, Stage, Puts, HasDp, HasIp, HasPath
  <2>6. cwd' \in [Proc -> Opt] /\ cwd'[p] = None /\ Same(Proc, {p}, cwd, cwd')
    BY <1>3 DEF TypeOK, Same, Opt
  <2>7. th' \in [Proc -> Thread] /\ th'[p] = u /\ Same(Proc, {p}, th, th')
    BY <2>3, <2>4 DEF TypeOK, Set, Same
  <2>8. ThreadsOK'
    <3>1. \A q \in Proc \ {p} : Local(th'[q]) /\ Empties(q)'
      BY <1>3, <2>6, <2>7 DEF RefInv, ThreadsOK, Empties, Same, files
    <3>2. Local(th'[p]) /\ Empties(p)'
      BY <1>3, <2>5, <2>6, <2>7 DEF Empties, files
    <3>3. QED
      BY <3>1, <3>2 DEF ThreadsOK
  <2>9. Counts(Ptr, Inum, Target, ref)'
    <3> DEFINE e == TargetOf(th, fip, cwd)
               d == TargetOf(th', fip', cwd')
               a == <<p, "cwd">>
               b == <<p, "put">>
    <3>1. Same(Vars, {"put"}, th[p], u) /\ th[p]["put"] = None /\ u["put"] = cwd[p]
      BY <1>1, <2>1, <2>3, Fields DEF Same, Vars
    <3>2. a \in Ptr /\ e[a] = cwd[p] /\ d[a] = None
      BY <2>6 DEF TargetOf, Ptr
    <3>3. b \in Ptr /\ e[b] = None /\ d[b] = cwd[p] /\ a # b
      BY <2>7, <3>1 DEF TargetOf, Ptr
    <3>4. Same(Ptr, {a, b}, e, d)
      BY <1>3, <2>6, <2>7, <3>1 DEF TargetOf, Ptr, Vars, Same, files
    <3>5. Counts(Ptr, Inum, e, ref) /\ ref \in [Inum -> Nat] /\ e[b] \notin Inum /\ d[a] \notin Inum
      BY <1>1, <3>2, <3>3 DEF RefInv, Target, TypeOK
    <3> HIDE DEF e, d, a, b
    <3>6. Counts(Ptr, Inum, d, ref)
      BY ONLY <3>2, <3>3, <3>4, <3>5, Finite, CountsMove
    <3>7. QED
      BY <1>3, <3>6 DEF d, Target, icache
  <2>10. TypeOK'
    BY <1>3, <2>6, <2>7 DEF TypeOK, disk, icache, files
  <2>11. QED
    BY <1>3, <2>8, <2>9, <2>10, FilesSame DEF RefInv
<1>4. QED
  BY <1>2, <1>3 DEF ExitClose

\* The descriptors of a process that stand for f.
FdsOf(o, f) == {fd \in Fd : o[fd] = f}

LEMMA ForkRefs ==
  ASSUME TypeOK, RefInv, NEW p \in Proc, Fork(p)
  PROVE  TypeOK' /\ RefInv'
<1>1. PICK c \in Proc :
       /\ At(c, "gone")
       /\ ofile' = [ofile EXCEPT ![c] = ofile[p]]
       /\ cwd'   = [cwd EXCEPT ![c] = cwd[p]]
       /\ Set(c, Idle("user"))
  BY DEF Fork
<1>2. /\ fref' = [f \in File |-> fref[f] + Cardinality({fd \in Fd : ofile[p][fd] = f})]
      /\ ref'  = [ref EXCEPT ![cwd[p]] = @ + 1] /\ th[p].pc = "user" /\ th[c].pc = "gone"
      /\ UNCHANGED <<type, nlink, ents, valid, lock, fip, panicked>>
  BY <1>1 DEF Fork, At, disk
<1> DEFINE u == Idle("user")  x == cwd[p]
<1>3. /\ u \in Thread /\ u.pc = "user" /\ u.ret = "user" /\ u.at = None /\ u.dp = None /\ u.ip = None
      /\ u.put = None
  <2>1. "user" \in Stages
    BY DEF Stages
  <2>2. QED
    BY <2>1, IdleFacts
<1>4. Set(c, u)
  BY <1>1
<1> HIDE DEF u
<1>5. /\ Local(u) /\ Stage(u) = "user" /\ Stage(th[c]) = "gone" /\ Stage(th[p]) = "user"
  BY <1>2, <1>3 DEF Local, Stage, Puts, HasDp, HasIp, HasPath
<1>6. /\ th[c] \in Thread /\ th[c].at = None /\ th[c].dp = None /\ th[c].ip = None /\ th[c].put = None
      /\ cwd[c] = None /\ \A fd \in Fd : ofile[c][fd] = None
  BY <1>2, <1>5, ThreadAt DEF Local, Puts, HasDp, HasIp, Empties
<1>7. x \in Inum /\ x # None /\ None \notin Inum /\ None \notin File
  BY <1>5, ThreadAt, Finite DEF Empties, TypeOK, Opt
<1> HIDE DEF x
<1>8. cwd' \in [Proc -> Opt] /\ cwd'[c] = x /\ Same(Proc, {c}, cwd, cwd')
  BY <1>1, <1>7 DEF TypeOK, Same, Opt, x
<1>9. th' \in [Proc -> Thread] /\ th'[c] = u /\ Same(Proc, {c}, th, th')
  BY <1>3, <1>4 DEF TypeOK, Set, Same
<1>10. /\ ofile' \in [Proc -> [Fd -> File \cup {None}]] /\ ofile'[c] = ofile[p]
       /\ Same(Proc, {c}, ofile, ofile') /\ ofile[p] \in [Fd -> File \cup {None}]
  BY <1>1 DEF TypeOK, Same
<1>11. ThreadsOK'
  <2>1. \A q \in Proc \ {c} : Local(th'[q]) /\ Empties(q)'
    BY <1>8, <1>9, <1>10 DEF RefInv, ThreadsOK, Empties, Same
  <2>2. Local(th'[c]) /\ Empties(c)'
    BY <1>5, <1>7, <1>8, <1>9 DEF Empties
  <2>3. QED
    BY <2>1, <2>2 DEF ThreadsOK
<1>12. Counts(Ptr, Inum, Target, ref)' /\ ref' \in [Inum -> Nat]
  <2> DEFINE e == TargetOf(th, fip, cwd)
             d == TargetOf(th', fip', cwd')
             s == <<c, "cwd">>
  <2>1. Same(Vars, {}, th[c], u)
    BY <1>3, <1>6, Fields DEF Same, Vars
  <2>2. s \in Ptr /\ e[s] = None /\ d[s] = x
    BY <1>6, <1>8 DEF TargetOf, Ptr
  <2>3. Same(Ptr, {s}, e, d)
    BY <1>2, <1>8, <1>9, <2>1 DEF TargetOf, Ptr, Vars, Same
  <2>4. Counts(Ptr, Inum, e, ref) /\ ref \in [Inum -> Nat] /\ e[s] \notin Inum
    BY <1>7, <2>2 DEF RefInv, Target, TypeOK
  <2>5. ref' \in [Inum -> Int] /\ ref'[x] = ref[x] + 1 /\ Same(Inum, {x}, ref, ref')
    BY <1>2, <1>7, <2>4 DEF Same, x
  <2> HIDE DEF e, d, s
  <2>6. Counts(Ptr, Inum, d, ref') /\ ref' \in [Inum -> Nat]
    BY ONLY <1>7, <2>2, <2>3, <2>4, <2>5, Finite, CountsTake
  <2>7. QED
    BY <2>6 DEF d, Target
<1> DEFINE K(f) == FdsOf(ofile[p], f)
<1>13. ASSUME NEW f \in File
       PROVE  /\ Cardinality(Where(Proc \X Fd, DescrOf(ofile'), f)) = fref[f] + Cardinality(K(f))
              /\ IsFiniteSet(K(f)) /\ Cardinality(K(f)) \in Nat
  <2> DEFINE W == Where(Proc \X Fd, DescrOf(ofile), f)  X == {c} \X K(f)
  <2>1. IsFiniteSet(K(f)) /\ IsFiniteSet({c}) /\ Cardinality({c}) = 1
    BY FilesAssumption, FS_Subset, FS_Singleton DEF FdsOf
  <2>2. Cardinality(K(f)) \in Nat
    BY <2>1, FS_CardinalityType
  <2>3. IsFiniteSet(X) /\ Cardinality(X) = Cardinality(K(f))
    BY <2>1, <2>2, FS_Product
  <2>4. IsFiniteSet(W) /\ Cardinality(W) = fref[f]
    BY Finite, WhereFinite DEF RefInv, Counts, Descr
  <2>5. W \cap X = {}
    BY <1>6, <1>7 DEF Where, DescrOf, FdsOf
  <2>6. Where(Proc \X Fd, DescrOf(ofile'), f) = W \cup X
    BY <1>6, <1>7, <1>10 DEF Where, DescrOf, Same, FdsOf
  <2> HIDE DEF W, X
  <2>7. fref[f] \in Nat
    BY DEF TypeOK
  <2>8. Cardinality(W \cup X) = Cardinality(W) + Cardinality(X) - Cardinality(W \cap X)
    BY <2>3, <2>4, FS_Union
  <2>9. Cardinality(W \cap X) = 0
    BY <2>5, FS_EmptySet
  <2>10. Cardinality(W \cup X) = fref[f] + Cardinality(K(f))
    BY ONLY <2>2, <2>3, <2>4, <2>7, <2>8, <2>9
  <2>11. QED
    BY ONLY <2>1, <2>2, <2>6, <2>10
<1>14. fref' \in [File -> Nat] /\ \A f \in File : fref'[f] = fref[f] + Cardinality(K(f))
  <2>1. \A f \in File : fref'[f] = fref[f] + Cardinality(K(f))
    BY <1>2 DEF FdsOf
  <2>2. \A f \in File : fref[f] \in Nat /\ Cardinality(K(f)) \in Nat
    BY <1>13 DEF TypeOK
  <2>3. DOMAIN fref' = File /\ fref' = [f \in File |-> fref'[f]]
    BY <1>2
  <2>4. \A f \in File : fref'[f] \in Nat
    BY <2>1, <2>2
  <2>5. QED
    BY <2>1, <2>3, <2>4
<1>15. Counts(Proc \X Fd, File, Descr, fref)'
  BY <1>13, <1>14 DEF Counts, Descr
<1>16. FilesOK'
  <2>1. ASSUME NEW f \in File PROVE fref'[f] > 0 <=> fref[f] > 0
    <3>1. CASE K(f) = {}
      <4>1. Cardinality(K(f)) = 0 /\ fref[f] \in Nat
        BY <3>1, FS_EmptySet DEF TypeOK
      <4>2. QED
        BY <1>14, <4>1
    <3>2. CASE K(f) # {}
      <4>1. PICK fd \in Fd : ofile[p][fd] = f
        BY <3>2 DEF FdsOf
      <4>2. fref[f] > 0
        BY <4>1, DescrRef DEF RefInv
      <4>3. fref[f] \in Nat /\ Cardinality(K(f)) \in Nat
        BY <1>13 DEF TypeOK
      <4>4. QED
        BY <1>14, <4>2, <4>3
    <3>3. QED
      BY <3>1, <3>2
  <2>2. QED
    BY <1>2, <2>1 DEF RefInv, FilesOK
<1>17. TypeOK'
  BY <1>2, <1>8, <1>9, <1>10, <1>12, <1>14 DEF TypeOK
<1>18. QED
  BY <1>11, <1>12, <1>15, <1>16, <1>17 DEF RefInv

LEMMA InitRefs ==
  ASSUME Init
  PROVE  TypeOK /\ RefInv
<1>1. PICK p \in Proc :
       /\ th  = [q \in Proc |-> Idle(IF q = p THEN "user" ELSE "gone")]
       /\ cwd = [q \in Proc |-> IF q = p THEN Root ELSE None]
  BY DEF Init
<1>2. \A l \in {"user", "gone"} :
        /\ Idle(l) \in Thread /\ Idle(l).pc = l /\ Idle(l).ret = "user" /\ Idle(l).at = None
        /\ Idle(l).dp = None /\ Idle(l).ip = None /\ Idle(l).put = None
  <2>1. {"user", "gone"} \subseteq Stages
    BY DEF Stages
  <2>2. QED
    BY <2>1, IdleFacts
<1>3. \A q \in Proc : \E l \in {"user", "gone"} : th[q] = Idle(l) /\ (l = "user" <=> q = p)
  BY <1>1
<1>4. TypeOK
  <2>1. DirOf(Root, Root) \in [Name \cup Dots -> Opt] /\ NoEntries \in [Name \cup Dots -> Opt]
    BY Finite DEF DirOf, NoEntries, Opt, Dots
  <2>2. ents \in [Inum -> [Name \cup Dots -> Opt]]
    BY <2>1 DEF Init
  <2>3. th \in [Proc -> Thread]
    BY <1>1, <1>2
  <2>4. cwd \in [Proc -> Opt]
    BY <1>1, Finite DEF Opt
  <2>5. type \in [Inum -> {"free", "file", "dir"}] /\ panicked \in Panics
    BY DEF Init, Panics
  <2>6. nlink \in [Inum -> Int] /\ ref \in [Inum -> Nat] /\ fref \in [File -> Nat]
    BY DEF Init
  <2>7. /\ valid \subseteq Inum /\ lock \in [Inum -> Proc \cup {None}] /\ fip \in [File -> Opt]
        /\ ofile \in [Proc -> [Fd -> File \cup {None}]]
    BY DEF Init, Opt
  <2>8. QED
    BY <2>2, <2>3, <2>4, <2>5, <2>6, <2>7 DEF TypeOK
<1>5. ThreadsOK
  <2> SUFFICES ASSUME NEW q \in Proc PROVE Local(th[q]) /\ Empties(q)
    BY DEF ThreadsOK
  <2>2. PICK l \in {"user", "gone"} : th[q] = Idle(l) /\ (l = "user" <=> q = p)
    BY <1>3
  <2>3. /\ th[q].pc = l /\ th[q].ret = "user" /\ th[q].at = None
        /\ th[q].dp = None /\ th[q].ip = None /\ th[q].put = None
    BY <1>2, <2>2
  <2>4. Stage(th[q]) = l /\ Local(th[q])
    BY <2>3 DEF Local, Stage, Puts, HasDp, HasIp, HasPath
  <2>5. Empties(q)
    BY <1>1, <2>2, <2>4, Finite DEF Empties, Init
  <2>6. QED
    BY <2>4, <2>5
<1>6. Counts(Ptr, Inum, Target, ref)
  <2> DEFINE e == TargetOf(th, fip, cwd)  s == <<p, "cwd">>
  <2>1. s \in Ptr /\ e[s] = Root
    BY <1>1 DEF TargetOf, Ptr
  <2>2. \A q \in Proc, v \in Vars : th[q][v] = None
    BY <1>2, <1>3, Fields DEF Vars
  <2>3. \A r \in Ptr \ {s} : e[r] = None
    BY <1>1, <2>2 DEF TargetOf, Ptr, Vars, Init
  <2> HIDE DEF e, s
  <2>4. Where(Ptr, e, Root) = {s} /\ \A i \in Inum \ {Root} : Where(Ptr, e, i) = {}
    BY <2>1, <2>3, Finite DEF Where
  <2>5. Cardinality({s}) = 1 /\ Cardinality({}) = 0
    BY FS_Singleton, FS_EmptySet
  <2>6. QED
    BY <2>4, <2>5 DEF Counts, Target, e, Init
<1>7. Counts(Proc \X Fd, File, Descr, fref)
  <2>1. \A f \in File : Where(Proc \X Fd, Descr, f) = {}
    BY Finite DEF Where, Descr, DescrOf, Init
  <2>2. QED
    BY <2>1, FS_EmptySet DEF Counts, Init
<1>8. FilesOK
  BY DEF FilesOK, Init
<1>9. QED
  BY <1>4, <1>5, <1>6, <1>7, <1>8 DEF RefInv

LEMMA NextRefs ==
  ASSUME TypeOK, RefInv, [Next]_vars
  PROVE  TypeOK' /\ RefInv'
<1>1. CASE UNCHANGED vars
  <2>1. UNCHANGED <<type, nlink, ents, ref, valid, lock, fref, fip, ofile, cwd, th, panicked>>
    BY <1>1 DEF vars, disk, icache, files
  <2>2. TypeOK'
    BY <2>1 DEF TypeOK
  <2>3. ThreadsOK' /\ FilesOK' /\ Target' = Target /\ Descr' = Descr
    BY <2>1 DEF RefInv, ThreadsOK, Empties, FilesOK, Target, Descr
  <2>4. QED
    BY <2>1, <2>2, <2>3 DEF RefInv, Counts
<1>2. ASSUME NEW p \in Proc, Kernel(p) PROVE TypeOK' /\ RefInv'
  BY <1>2, IputRefs, UnrefRefs, WalkRefs, OpenRefs, CreateRefs, OpenedRefs, CreatedRefs, UnlinkRefs,
     Unlink2Refs, UnlinkBadRefs, Unlink3Refs, LinkRefs, Link2Refs, LinkBadRefs, BadRefs, ChdirRefs,
     ExitCloseRefs DEF Kernel
<1>3. ASSUME NEW p \in Proc, User(p) PROVE TypeOK' /\ RefInv'
  BY <1>3, CallRefs, DupRefs, CloseRefs, ForkRefs, ExitRefs DEF User
<1>4. QED
  BY <1>1, <1>2, <1>3 DEF Next

\* What the processes, their threads and the files are, and that the counts
\* are right, in every state that can be reached.
THEOREM RefInvariance == Spec => [](TypeOK /\ RefInv)
<1>1. Init => TypeOK /\ RefInv
  BY InitRefs
<1>2. TypeOK /\ RefInv /\ [Next]_vars => TypeOK' /\ RefInv'
  BY NextRefs
<1>3. QED
  BY <1>1, <1>2, PTL DEF Spec

\* ip->ref and f->ref are the numbers of pointers, so that iput frees an
\* inode, and fileclose a file, only when nothing refers to it any more.
THEOREM ReferencesCounted == Spec => []RefsCountPointers
<1>1. TypeOK /\ RefInv => RefsCountPointers
  <2> SUFFICES ASSUME TypeOK, RefInv PROVE RefsCountPointers
    OBVIOUS
  <2>1. ASSUME NEW i \in Inum PROVE ref[i] = Cardinality(Pointers(i))
    <3>1. Pointers(i) = Where(Ptr, Target, i)
      BY DEF Pointers, Where, Target, TargetOf, Ptr
    <3>2. QED
      BY <3>1 DEF RefInv, Counts
  <2>2. ASSUME NEW f \in File
        PROVE  fref[f] = Cardinality({pfd \in Proc \X Fd : ofile[pfd[1]][pfd[2]] = f})
    <3>1. {pfd \in Proc \X Fd : ofile[pfd[1]][pfd[2]] = f} = Where(Proc \X Fd, Descr, f)
      BY DEF Where, Descr, DescrOf
    <3>2. QED
      BY <3>1 DEF RefInv, Counts
  <2>3. QED
    BY <2>1, <2>2 DEF RefsCountPointers, RefInv, FilesOK
<1>2. QED
  BY <1>1, RefInvariance, PTL

-----------------------------------------------------------------------------
(* The inductive invariant of the link counts.  It holds of calls whose    *)
(* paths do not ascend: ".." of a directory that was removed may name an   *)
(* inode that is free, or something else by now.                           *)

Plain(pth) == \A k \in 1 .. Len(pth) : pth[k] \in Name \cup {"."}
NoAscent == \A c \in Calls : Plain(c[2]) /\ (c[1] = "link" => Plain(c[3]))

\* A link that is counted and not yet made.
Linked(t) == t.goal = "link2" /\ Stage(t) \in {"walk", "link2", "link_bad", "bad"}
LinkClaim(t)   == IF Linked(t) THEN t.ip ELSE None
UnlinkClaim(t) == IF Stage(t) = "unlink3" THEN t.ip ELSE None

\* Claims on a link of an inode: a name, the ".." of a subdirectory, a link
\* that is being made or removed, and the root's own.
Claim == ((Inum \X Name) \X {"name", "sub"}) \cup (Proc \X {"link", "unlink"}) \cup {<<Root, "root">>}
SubOf(ty, en, d, x) == IF en[d][x] # None /\ ty[en[d][x]] = "dir" THEN d ELSE None
ClaimsOf(ty, en, h) ==
  [s \in Claim |-> IF s[2] = "name" THEN en[s[1][1]][s[1][2]]
                   ELSE IF s[2] = "sub" THEN SubOf(ty, en, s[1][1], s[1][2])
                   ELSE IF s[2] = "link" THEN LinkClaim(h[s[1]])
                   ELSE IF s[2] = "unlink" THEN UnlinkClaim(h[s[1]]) ELSE Root]
Covers(n, c) == \A i \in Inum : n[i] >= Cardinality(Where(Claim, c, i))

\* An inode is freed with its link count and its entries; a file has none.
DiskOK(ty, n, en) ==
  \A i \in Inum : /\ ty[i] = "free" => n[i] = 0
                  /\ ty[i] # "dir" => en[i] = NoEntries
                  /\ ty[i] = "dir" => en[i]["."] = i

\* What a thread refers to is not free, if it is not just being dropped.
Live(t, ty) ==
  /\ t.at # None => ty[t.at] # "free"
  /\ t.dp # None => ty[t.dp] # "free"
  /\ t.ip # None => ty[t.ip] # "free"
  /\ t.pc = "iput" => ty[t.put] # "free"

\* What a thread knows of its inodes, since it has tested or locked them.
Knows(t, ty, en) ==
  /\ Plain(t.path)
  /\ t.dp # None => ty[t.dp] = "dir"
  /\ Linked(t) \/ Stage(t) = "put_ip" => ty[t.ip] = "file"
  /\ Stage(t) = "unlink2" => Head(t.path) \in Name /\ en[t.dp][Head(t.path)] = t.ip

\* The inode that a thread keeps locked.
Held(t) == IF Stage(t) \in {"unlink2", "unlink_bad", "link_bad"} THEN t.dp
           ELSE IF Stage(t) \in {"created", "unlink3"} THEN t.ip ELSE None

LocksOK == \A p \in Proc : Held(th[p]) # None => lock[Held(th[p])] = p
CwdLive(cw, ty) == \A p \in Proc : cw[p] # None => ty[cw[p]] # "free"
FipLive(fi, ty) == \A f \in File : fi[f] # None => ty[fi[f]] # "free"

NameInv ==
  /\ Covers(nlink, ClaimsOf(type, ents, th))
  /\ DiskOK(type, nlink, ents)
  /\ \A p \in Proc : Live(th[p], type) /\ Knows(th[p], type, ents)
  /\ CwdLive(cwd, type) /\ FipLive(fip, type) /\ LocksOK
  /\ AssertionsHold

-----------------------------------------------------------------------------
(* Claims.                                                                 *)

LEMMA ClaimFinite == IsFiniteSet(Claim)
<1>1. \A x : IsFiniteSet({x})
  BY FS_Singleton
<1>2. {"name", "sub"} = {"name"} \cup {"sub"} /\ {"link", "unlink"} = {"link"} \cup {"unlink"}
  OBVIOUS
<1>3. IsFiniteSet({"name"} \cup {"sub"}) /\ IsFiniteSet({"link"} \cup {"unlink"})
  BY <1>1, FS_Union
<1>4. IsFiniteSet({"name", "sub"}) /\ IsFiniteSet({"link", "unlink"})
  BY <1>2, <1>3
<1>5. IsFiniteSet((Inum \X Name) \X {"name", "sub"}) /\ IsFiniteSet(Proc \X {"link", "unlink"})
  BY <1>4, FilesAssumption, FS_Product
<1>6. QED
  BY <1>1, <1>5, FS_Union DEF Claim

\* The claims, slot by slot.
LEMMA ClaimSlots ==
  ASSUME NEW ty, NEW en, NEW h
  PROVE  /\ \A d \in Inum, x \in Name :
              /\ <<<<d, x>>, "name">> \in Claim /\ <<<<d, x>>, "sub">> \in Claim
              /\ ClaimsOf(ty, en, h)[<<<<d, x>>, "name">>] = en[d][x]
              /\ ClaimsOf(ty, en, h)[<<<<d, x>>, "sub">>] = SubOf(ty, en, d, x)
         /\ \A p \in Proc :
              /\ <<p, "link">> \in Claim /\ <<p, "unlink">> \in Claim
              /\ ClaimsOf(ty, en, h)[<<p, "link">>] = LinkClaim(h[p])
              /\ ClaimsOf(ty, en, h)[<<p, "unlink">>] = UnlinkClaim(h[p])
         /\ <<Root, "root">> \in Claim /\ ClaimsOf(ty, en, h)[<<Root, "root">>] = Root
BY DEF ClaimsOf, Claim

LEMMA ClaimsSame ==
  ASSUME NEW ty, NEW en, NEW h, NEW ty2, NEW en2, NEW h2, NEW D,
         \A d \in Inum, x \in Name : <<<<d, x>>, "name">> \in D \/ en2[d][x] = en[d][x],
         \A d \in Inum, x \in Name : <<<<d, x>>, "sub">> \in D \/ SubOf(ty2, en2, d, x) = SubOf(ty, en, d, x),
         \A p \in Proc : <<p, "link">> \in D \/ LinkClaim(h2[p]) = LinkClaim(h[p]),
         \A p \in Proc : <<p, "unlink">> \in D \/ UnlinkClaim(h2[p]) = UnlinkClaim(h[p])
  PROVE  Same(Claim, D, ClaimsOf(ty, en, h), ClaimsOf(ty2, en2, h2))
BY DEF ClaimsOf, Claim, Same

\* A count that covers the claims, and one that counts them.
LEMMA CoversCount ==
  ASSUME NEW n \in [Inum -> Int], NEW c
  PROVE  \E k \in [Inum -> Nat] : /\ Counts(Claim, Inum, c, k)
                                  /\ Covers(n, c) <=> \A i \in Inum : n[i] >= k[i]
<1> DEFINE k == [i \in Inum |-> Cardinality(Where(Claim, c, i))]
<1>1. k \in [Inum -> Nat]
  BY ClaimFinite, WhereFinite
<1>2. Counts(Claim, Inum, c, k) /\ (Covers(n, c) <=> \A i \in Inum : n[i] >= k[i])
  BY DEF Counts, Covers
<1>3. QED
  BY <1>1, <1>2

\* The count goes up, and one claim more.
LEMMA CoversTake ==
  ASSUME NEW n \in [Inum -> Int], NEW m \in [Inum -> Int], NEW c, NEW d, Covers(n, c),
         NEW s \in Claim, NEW x \in Inum, c[s] \notin Inum, d[s] = x, Same(Claim, {s}, c, d),
         m[x] = n[x] + 1, Same(Inum, {x}, n, m)
  PROVE  Covers(m, d)
<1>1. PICK k \in [Inum -> Nat] : Counts(Claim, Inum, c, k) /\ \A i \in Inum : n[i] >= k[i]
  BY CoversCount
<1> DEFINE l == [k EXCEPT ![x] = @ + 1]
<1>2. l \in [Inum -> Int] /\ l[x] = k[x] + 1 /\ Same(Inum, {x}, k, l)
  BY DEF Same
<1>3. \A i \in Inum : m[i] >= l[i]
  BY <1>1, <1>2 DEF Same
<1> HIDE DEF l
<1>4. Counts(Claim, Inum, d, l)
  BY <1>1, <1>2, ClaimFinite, CountsTake
<1>5. QED
  BY <1>3, <1>4 DEF Counts, Covers

\* The count goes down, and one claim less.
LEMMA CoversGive ==
  ASSUME NEW n \in [Inum -> Int], NEW m \in [Inum -> Int], NEW c, NEW d, Covers(n, c),
         NEW s \in Claim, NEW x \in Inum, c[s] = x, d[s] \notin Inum, Same(Claim, {s}, c, d),
         m[x] = n[x] - 1, Same(Inum, {x}, n, m)
  PROVE  Covers(m, d)
<1>1. PICK k \in [Inum -> Nat] : Counts(Claim, Inum, c, k) /\ \A i \in Inum : n[i] >= k[i]
  BY CoversCount
<1> DEFINE l == [k EXCEPT ![x] = @ - 1]
<1>2. l \in [Inum -> Int] /\ l[x] = k[x] - 1 /\ Same(Inum, {x}, k, l)
  BY DEF Same
<1>3. \A i \in Inum : m[i] >= l[i]
  BY <1>1, <1>2 DEF Same
<1> HIDE DEF l
<1>4. Counts(Claim, Inum, d, l)
  BY <1>1, <1>2, ClaimFinite, CountsGive
<1>5. QED
  BY <1>3, <1>4 DEF Counts, Covers

\* A claim moves.
LEMMA CoversMove ==
  ASSUME NEW n \in [Inum -> Int], NEW c, NEW d, Covers(n, c),
         NEW s \in Claim, NEW t \in Claim, s # t, c[t] \notin Inum, d[t] = c[s], d[s] \notin Inum,
         Same(Claim, {s, t}, c, d)
  PROVE  Covers(n, d)
<1>1. PICK k \in [Inum -> Nat] : Counts(Claim, Inum, c, k) /\ \A i \in Inum : n[i] >= k[i]
  BY CoversCount
<1>2. Counts(Claim, Inum, d, k)
  BY <1>1, ClaimFinite, CountsMove
<1>3. QED
  BY <1>1, <1>2 DEF Counts, Covers

\* Claims only fall away.
LEMMA CoversLess ==
  ASSUME NEW n \in [Inum -> Int], NEW c, NEW d, Covers(n, c),
         \A s \in Claim : d[s] = c[s] \/ d[s] \notin Inum
  PROVE  Covers(n, d)
<1>1. ASSUME NEW i \in Inum PROVE n[i] >= Cardinality(Where(Claim, d, i))
  <2>1. Where(Claim, d, i) \subseteq Where(Claim, c, i)
    BY DEF Where
  <2>2. IsFiniteSet(Where(Claim, c, i)) /\ Cardinality(Where(Claim, c, i)) \in Nat
        /\ Cardinality(Where(Claim, d, i)) \in Nat
    BY ClaimFinite, WhereFinite
  <2>3. Cardinality(Where(Claim, d, i)) <= Cardinality(Where(Claim, c, i))
    BY <2>1, <2>2, FS_Subset
  <2>4. n[i] >= Cardinality(Where(Claim, c, i)) /\ n[i] \in Int
    BY DEF Covers
  <2>5. QED
    BY <2>2, <2>3, <2>4
<1>2. QED
  BY <1>1 DEF Covers

\* What is claimed has a link.
LEMMA ClaimedLinks ==
  ASSUME NEW n \in [Inum -> Int], NEW c, Covers(n, c), NEW s \in Claim, NEW i \in Inum, c[s] = i
  PROVE  n[i] > 0
<1>1. Cardinality(Where(Claim, c, i)) \in Nat /\ Cardinality(Where(Claim, c, i)) # 0
  <2>1. s \in Where(Claim, c, i)
    BY DEF Where
  <2>2. QED
    BY <2>1, ClaimFinite, WhereFinite
<1>2. n[i] >= Cardinality(Where(Claim, c, i)) /\ n[i] \in Int
  BY DEF Covers
<1>3. QED
  BY <1>1, <1>2

-----------------------------------------------------------------------------
(* Steps of a thread that leave the disk as it is.                         *)

\* What has a name is not free, nor is the root, nor what is found in a
\* directory.
LEMMA Alive ==
  ASSUME TypeOK, NameInv
  PROVE  /\ type[Root] # "free"
         /\ \A d \in Inum, x \in Name : ents[d][x] # None =>
              ents[d][x] \in Inum /\ nlink[ents[d][x]] > 0 /\ type[ents[d][x]] # "free"
         /\ \A d \in Inum, x \in Name \cup {"."} :
              type[d] = "dir" /\ ents[d][x] # None => ents[d][x] \in Inum /\ type[ents[d][x]] # "free"
<1> DEFINE c == ClaimsOf(type, ents, th)
<1>1. Covers(nlink, c) /\ nlink \in [Inum -> Int] /\ DiskOK(type, nlink, ents) /\ Root \in Inum
  BY Finite DEF TypeOK, NameInv
<1>2. <<Root, "root">> \in Claim /\ c[<<Root, "root">>] = Root
  BY ClaimSlots
<1>3. \A d \in Inum, x \in Name : <<<<d, x>>, "name">> \in Claim /\ c[<<<<d, x>>, "name">>] = ents[d][x]
  BY DEF ClaimsOf, Claim
<1> HIDE DEF c
<1>4. type[Root] # "free"
  <2>1. nlink[Root] > 0
    BY <1>1, <1>2, ClaimedLinks
  <2>2. QED
    BY <1>1, <2>1 DEF DiskOK
<1>5. ASSUME NEW d \in Inum, NEW x \in Name, ents[d][x] # None
      PROVE  ents[d][x] \in Inum /\ nlink[ents[d][x]] > 0 /\ type[ents[d][x]] # "free"
  <2>1. ents[d][x] \in Inum
    BY <1>5 DEF TypeOK, Opt
  <2>2. nlink[ents[d][x]] > 0
    <3> DEFINE s == <<<<d, x>>, "name">>  i == ents[d][x]
    <3>1. s \in Claim /\ c[s] = i /\ i \in Inum
      BY <1>3, <2>1
    <3> HIDE DEF s, i
    <3>2. nlink[i] > 0
      BY ONLY <1>1, <3>1, ClaimedLinks
    <3>3. QED
      BY <3>2 DEF i
  <2>3. QED
    BY <1>1, <2>1, <2>2 DEF DiskOK
<1>6. \A d \in Inum : type[d] = "dir" => ents[d]["."] = d
  BY <1>1 DEF DiskOK
<1>7. QED
  BY <1>4, <1>5, <1>6

LEMMA NameStep ==
  ASSUME TypeOK, NameInv, NEW p \in Proc, NEW u, Set(p, u), UNCHANGED <<type, nlink, ents>>,
         LinkClaim(u) = LinkClaim(th[p]), UnlinkClaim(u) = UnlinkClaim(th[p]),
         Live(u, type), Knows(u, type, ents), CwdLive(cwd', type), FipLive(fip', type),
         LocksOK', AssertionsHold'
  PROVE  NameInv'
<1>1. th'[p] = u /\ Same(Proc, {p}, th, th')
  BY DEF TypeOK, Set, Same
<1>2. Same(Claim, {}, ClaimsOf(type, ents, th), ClaimsOf(type, ents, th'))
  <2>1. \A q \in Proc : LinkClaim(th'[q]) = LinkClaim(th[q]) /\ UnlinkClaim(th'[q]) = UnlinkClaim(th[q])
    BY <1>1 DEF Same
  <2>2. QED
    BY <2>1, ClaimsSame
<1>3. Covers(nlink, ClaimsOf(type, ents, th'))
  BY <1>2, CoversLess DEF NameInv, TypeOK, Same
<1>4. \A q \in Proc : Live(th'[q], type) /\ Knows(th'[q], type, ents)
  BY <1>1 DEF NameInv, Same
<1>5. DiskOK(type, nlink, ents)
  BY DEF NameInv
<1>6. QED
  BY <1>3, <1>4, <1>5 DEF NameInv

LEMMA LockKeep ==
  ASSUME TypeOK, LocksOK, NEW p \in Proc, NEW u, Set(p, u), UNCHANGED lock,
         Held(u) = None \/ Held(u) = Held(th[p])
  PROVE  LocksOK'
<1>1. th'[p] = u /\ Same(Proc, {p}, th, th')
  BY DEF TypeOK, Set, Same
<1>2. QED
  BY <1>1 DEF LocksOK, Same

LEMMA LockTake ==
  ASSUME TypeOK, LocksOK, NEW p \in Proc, NEW u, Set(p, u), NEW d \in Inum, lock[d] = None,
         lock' = [lock EXCEPT ![d] = p], Held(u) = d
  PROVE  LocksOK'
<1>1. th'[p] = u /\ Same(Proc, {p}, th, th') /\ lock'[d] = p /\ Same(Inum, {d}, lock, lock')
  BY DEF TypeOK, Set, Same
<1>2. ASSUME NEW q \in Proc \ {p}, Held(th[q]) # None PROVE lock'[Held(th[q])] = q
  <2>1. lock[Held(th[q])] = q /\ q # None
    BY <1>2, Finite DEF LocksOK
  <2>2. QED
    BY <2>1 DEF TypeOK
<1>3. QED
  BY <1>1, <1>2 DEF LocksOK, Same

LEMMA LockGive ==
  ASSUME TypeOK, LocksOK, NEW p \in Proc, NEW u, Set(p, u), Held(th[p]) # None,
         lock' = [lock EXCEPT ![Held(th[p])] = None], Held(u) = None
  PROVE  LocksOK'
<1>1. th'[p] = u /\ Same(Proc, {p}, th, th')
  BY DEF TypeOK, Set, Same
<1>2. ASSUME NEW q \in Proc \ {p}, Held(th[q]) # None PROVE lock'[Held(th[q])] = q
  <2>1. lock[Held(th[q])] = q /\ lock[Held(th[p])] = p
    BY <1>2 DEF LocksOK
  <2>2. QED
    BY <2>1 DEF TypeOK
<1>3. QED
  BY <1>1, <1>2 DEF LocksOK, Same

\* What a thread knows now.
LEMMA ThreadKnows ==
  ASSUME TypeOK, RefInv, NameInv, NEW p \in Proc
  PROVE  /\ th[p] \in Thread /\ Local(th[p]) /\ Live(th[p], type) /\ Knows(th[p], type, ents)
         /\ Plain(th[p].path) /\ CwdLive(cwd, type) /\ FipLive(fip, type) /\ LocksOK /\ AssertionsHold
BY ThreadAt DEF NameInv, Knows

LEMMA PanicName ==
  ASSUME TypeOK, NameInv, NEW m \in {"no", "ialloc: no inodes"}, Panic(m), UNCHANGED <<ref, valid, lock>>
  PROVE  NameInv'
<1>1. UNCHANGED <<type, nlink, ents, lock, fip, cwd, th>> /\ panicked' \in {"no", "ialloc: no inodes"}
  BY DEF Panic, disk, files
<1>2. QED
  BY <1>1 DEF NameInv, LocksOK, AssertionsHold

\* A system call that puts its inode and is over.
LEMMA PutIpKnows ==
  ASSUME NEW t \in Thread, Local(t), t.pc \in HasIp \ HasDp, Plain(t.path),
         NEW ty, NEW en, ty[t.ip] # "free"
  PROVE  LET u == PutIp(t, "user") IN
         /\ Live(u, ty) /\ Knows(u, ty, en) /\ LinkClaim(u) = None /\ UnlinkClaim(u) = None
         /\ Held(u) = None
<1> DEFINE u == PutIp(t, "user")
<1>1. t.at = None /\ t.dp = None
  BY DEF Local, Stage, HasIp, HasDp, Puts
<1>2. "user" \in Stages
  BY DEF Stages
<1>3. /\ u.pc = "iput" /\ u.put = t.ip /\ u.ret = "user" /\ u.path = t.path
      /\ u.at = None /\ u.dp = None /\ u.ip = None
  BY <1>1, <1>2, PutIpFacts
<1> HIDE DEF u
<1>4. Stage(u) = "user"
  BY <1>3 DEF Stage, Puts
<1>5. Live(u, ty) /\ Knows(u, ty, en) /\ LinkClaim(u) = None /\ UnlinkClaim(u) = None /\ Held(u) = None
  BY <1>3, <1>4 DEF Live, Knows, LinkClaim, UnlinkClaim, Held, Linked
<1>6. QED
  BY <1>5 DEF u

\* A thread that has nothing.
LEMMA IdleKnows ==
  ASSUME NEW l \in {"user", "gone", "exit"}, NEW ty, NEW en
  PROVE  LET u == Idle(l) IN
         /\ Live(u, ty) /\ Knows(u, ty, en) /\ LinkClaim(u) = None /\ UnlinkClaim(u) = None
         /\ Held(u) = None
<1> DEFINE u == Idle(l)
<1>1. l \in Stages
  BY DEF Stages
<1>2. /\ u.pc = l /\ u.ret = "user" /\ u.path = <<>> /\ u.goal = "user"
      /\ u.at = None /\ u.dp = None /\ u.ip = None /\ u.put = None
  BY <1>1, IdleFacts
<1>3. Plain(<<>>)
  BY DEF Plain
<1> HIDE DEF u
<1>4. Stage(u) = l
  BY <1>2 DEF Stage, Puts
<1>5. Live(u, ty) /\ Knows(u, ty, en) /\ LinkClaim(u) = None /\ UnlinkClaim(u) = None /\ Held(u) = None
  BY <1>2, <1>3, <1>4 DEF Live, Knows, LinkClaim, UnlinkClaim, Held, Linked
<1>6. QED
  BY <1>5 DEF u

LEMMA UnrefNames ==
  ASSUME TypeOK, RefInv, NameInv, NEW p \in Proc, Unref(p)
  PROVE  NameInv'
<1> DEFINE t == th[p]  w == [t EXCEPT !.put = None, !.pc = t.ret]
           u == IF w.pc = "put_ip" THEN PutIp(w, "user")
                ELSE IF w.pc \in {"user", "gone"} THEN Idle(w.pc) ELSE w
<1>1. /\ t \in Thread /\ Local(t) /\ Live(t, type) /\ Knows(t, type, ents) /\ Plain(t.path)
      /\ CwdLive(cwd, type) /\ FipLive(fip, type) /\ LocksOK /\ AssertionsHold /\ t.pc = "unref"
  BY ThreadKnows DEF Unref, At
<1>2. Stage(t) = t.ret /\ t.ret \in Stages
  BY <1>1 DEF Stage, Puts, Thread
<1>3. Set(p, u) /\ UNCHANGED <<type, nlink, ents, lock, fip, cwd, panicked>>
  BY DEF Unref, disk, files
<1>4. /\ w \in Thread /\ w.put = None /\ w.pc = t.ret /\ w.ret = t.ret /\ w.at = t.at /\ w.dp = t.dp
      /\ w.ip = t.ip /\ w.path = t.path /\ w.goal = t.goal
  BY <1>1, <1>2 DEF Thread, Opt
<1>5. /\ LinkClaim(u) = LinkClaim(t) /\ UnlinkClaim(u) = UnlinkClaim(t) /\ Live(u, type)
      /\ Knows(u, type, ents) /\ (Held(u) = None \/ Held(u) = Held(t))
  <2> HIDE DEF w
  <2>1. CASE t.ret = "put_ip"
    <3>1. u = PutIp(w, "user") /\ "user" \in Stages
      BY <1>4, <2>1 DEF Stages
    <3>2. /\ u.pc = "iput" /\ u.put = w.ip /\ u.ret = "user" /\ u.path = w.path
          /\ u.at = w.at /\ u.dp = w.dp /\ u.ip = None
      BY <1>4, <3>1, PutIpFacts
    <3> HIDE DEF u
    <3>3. t.at = None /\ t.dp = None /\ type[t.ip] = "file"
      BY <1>1, <1>2, <2>1 DEF Local, HasDp, Knows
    <3>4. Stage(u) = "user"
      BY <3>2 DEF Stage, Puts
    <3>5. Live(u, type) /\ Knows(u, type, ents) /\ LinkClaim(u) = None /\ UnlinkClaim(u) = None /\ Held(u) = None
      BY <1>1, <1>4, <3>2, <3>3, <3>4 DEF Live, Knows, LinkClaim, UnlinkClaim, Held, Linked
    <3>6. LinkClaim(t) = None /\ UnlinkClaim(t) = None
      BY <1>2, <2>1 DEF LinkClaim, UnlinkClaim, Linked
    <3>7. QED
      BY <3>5, <3>6
  <2>2. CASE t.ret \in {"user", "gone"}
    <3>1. u = Idle(t.ret)
      BY <1>4, <2>2
    <3> HIDE DEF u
    <3>2. LinkClaim(t) = None /\ UnlinkClaim(t) = None
      BY <1>2, <2>2 DEF LinkClaim, UnlinkClaim, Linked
    <3>3. QED
      BY <2>2, <3>1, <3>2, IdleKnows
  <2>3. CASE t.ret \notin {"put_ip", "user", "gone"}
    <3>1. u = w
      BY <1>4, <2>3
    <3> HIDE DEF u
    <3>2. Stage(u) = t.ret /\ t.ret \notin Puts
      BY <1>2, <1>4, <3>1 DEF Stage, Puts, Stages
    <3>3. Live(u, type)
      BY <1>1, <1>4, <3>1, <3>2 DEF Live, Puts
    <3>4. Knows(u, type, ents) /\ LinkClaim(u) = LinkClaim(t) /\ UnlinkClaim(u) = UnlinkClaim(t)
          /\ Held(u) = Held(t)
      BY <1>1, <1>2, <1>4, <3>1, <3>2 DEF Knows, LinkClaim, UnlinkClaim, Held, Linked
    <3>5. QED
      BY <3>3, <3>4
  <2>4. QED
    BY <2>1, <2>2, <2>3
<1> HIDE DEF u
<1>6. LocksOK' /\ AssertionsHold' /\ CwdLive(cwd', type) /\ FipLive(fip', type)
  BY <1>1, <1>3, <1>5, LockKeep DEF AssertionsHold
<1>7. QED
  BY <1>3, <1>5, <1>6, NameStep

LEMMA StartWalkNames ==
  ASSUME TypeOK, RefInv, NameInv, NEW p \in Proc, NEW t \in Thread, NEW path, NEW goal,
         Plain(path), StartWalk(p, t, path, goal), Stage(th[p]) # "gone",
         t.dp = None, t.ip # None => type[t.ip] # "free",
         goal = "link2" => type[t.ip] = "file", t.pc \notin Puts
  PROVE  \E u : /\ Set(p, u) /\ Live(u, type) /\ Knows(u, type, ents) /\ Held(u) = None
                /\ UnlinkClaim(u) = None
                /\ LinkClaim(u) = IF goal = "link2" THEN t.ip ELSE None
<1>1. PICK d \in {Root, cwd[p]} :
        Set(p, [t EXCEPT !.pc = "walk", !.path = path, !.goal = goal, !.at = d])
  BY DEF StartWalk
<1> DEFINE u == [t EXCEPT !.pc = "walk", !.path = path, !.goal = goal, !.at = d]
<1>2. d # None /\ type[d] # "free"
  <2>1. cwd[p] # None
    BY ThreadAt DEF Empties
  <2>2. QED
    BY <2>1, Alive, Finite DEF NameInv, CwdLive
<1>3. /\ u.pc = "walk" /\ u.path = path /\ u.goal = goal /\ u.at = d /\ u.dp = None /\ u.ip = t.ip
  BY DEF Thread
<1>4. Set(p, u)
  BY <1>1
<1> HIDE DEF u
<1>5. Stage(u) = "walk"
  BY <1>3 DEF Stage, Puts
<1>6. Live(u, type) /\ Knows(u, type, ents) /\ Held(u) = None /\ UnlinkClaim(u) = None
      /\ LinkClaim(u) = IF goal = "link2" THEN t.ip ELSE None
  BY <1>2, <1>3, <1>5 DEF Live, Knows, LinkClaim, UnlinkClaim, Held, Linked
<1>7. QED
  BY <1>4, <1>6

LEMMA CallNames ==
  ASSUME TypeOK, RefInv, NameInv, NoAscent, NEW p \in Proc, Call(p)
  PROVE  NameInv'
<1> DEFINE t == th[p]
<1>1. /\ t \in Thread /\ Local(t) /\ LocksOK /\ AssertionsHold /\ t.pc = "user"
      /\ CwdLive(cwd, type) /\ FipLive(fip, type)
  BY ThreadKnows DEF Call, At
<1>2. PICK c \in Calls : StartWalk(p, [t EXCEPT !.call = c], c[2], IF c[1] = "mkdir" THEN "create" ELSE c[1])
  BY DEF Call
<1> DEFINE v == [t EXCEPT !.call = c]
           goal == IF c[1] = "mkdir" THEN "create" ELSE c[1]
<1>3. v \in Thread /\ v.dp = t.dp /\ v.ip = t.ip /\ v.pc = t.pc
  BY <1>1 DEF Thread
<1>4. Plain(c[2])
  BY DEF NoAscent
<1>5. goal # "link2"
  <2>1. c[1] \in {"open", "create", "mkdir", "unlink", "link", "chdir"}
    BY FilesAssumption
  <2>2. QED
    BY <2>1
<1>6. /\ t.dp = None /\ t.ip = None /\ t.pc \notin Puts /\ Stage(t) = "user"
  BY <1>1 DEF Local, Stage, Puts, HasDp, HasIp
<1>7. LinkClaim(t) = None /\ UnlinkClaim(t) = None
  BY <1>6 DEF LinkClaim, UnlinkClaim, Linked
<1>8. UNCHANGED <<type, nlink, ents, lock, fip, cwd, panicked>>
  BY DEF Call, disk, files
<1>9. StartWalk(p, v, c[2], goal)
  BY <1>2
<1> HIDE DEF v, goal
<1>10. PICK u : /\ Set(p, u) /\ Live(u, type) /\ Knows(u, type, ents) /\ Held(u) = None
                /\ UnlinkClaim(u) = None /\ LinkClaim(u) = None
  <2>1. v.dp = None /\ v.ip = None /\ v.pc \notin Puts /\ Stage(t) # "gone"
    BY <1>3, <1>6
  <2>2. QED
    BY <1>3, <1>4, <1>5, <1>9, <2>1, StartWalkNames
<1>11. LocksOK' /\ AssertionsHold' /\ CwdLive(cwd', type) /\ FipLive(fip', type)
  BY <1>1, <1>8, <1>10, LockKeep DEF AssertionsHold
<1>12. QED
  BY <1>7, <1>8, <1>10, <1>11, NameStep

\* The path of a plain walk goes on plainly.
LEMMA PlainTail ==
  ASSUME NEW s \in Paths, Plain(s)
  PROVE  Head(s) \in Name \cup {"."} /\ (Len(s) # 1 => Plain(Tail(s)))
<1>1. s \in Seq(Name \cup Dots) /\ s # <<>> /\ Len(s) \in Nat /\ Len(s) # 0
  <2>1. s \in Seq(Name \cup Dots) /\ s # <<>>
    BY DEF Paths
  <2>2. QED
    BY <2>1, EmptySeq
<1>2. Head(s) = s[1] /\ 1 \in 1 .. Len(s)
  BY <1>1
<1>3. Len(Tail(s)) = Len(s) - 1 /\ \A k \in 1 .. Len(Tail(s)) : Tail(s)[k] = s[k + 1]
  BY <1>1, HeadTailProperties
<1>4. \A k \in 1 .. Len(Tail(s)) : k + 1 \in 1 .. Len(s)
  BY <1>1, <1>3
<1>5. QED
  BY <1>2, <1>3, <1>4 DEF Plain

LEMMA WalkNames ==
  ASSUME TypeOK, RefInv, NameInv, NEW p \in Proc, Walk(p)
  PROVE  NameInv'
<1> DEFINE t == th[p]  i == t.at  next == ents[i][Head(t.path)]
           r == IF t.goal = "link2" THEN "bad" ELSE "user"
<1>1. /\ t \in Thread /\ Local(t) /\ Live(t, type) /\ Knows(t, type, ents) /\ Plain(t.path)
      /\ CwdLive(cwd, type) /\ FipLive(fip, type) /\ LocksOK /\ AssertionsHold /\ t.pc = "walk"
  BY ThreadKnows DEF Walk, At
<1>2. /\ i \in Inum /\ i # None /\ t.dp = None /\ Stage(t) = "walk" /\ t.goal \in Goals
      /\ t.pc \notin Puts /\ t.path \in Paths /\ type[i] # "free" /\ (t.ip # None => type[t.ip] # "free")
  BY <1>1 DEF Local, Stage, HasIp, HasDp, HasPath, Puts, Thread, Opt, Live
<1>3. r \in Stages /\ t.goal \in Stages /\ "walk" \in Stages
  BY <1>2 DEF Stages, Goals
<1>4. Head(t.path) \in Name \cup {"."} /\ (Len(t.path) # 1 => Plain(Tail(t.path)))
  BY <1>1, <1>2, PlainTail
<1>5. UNCHANGED <<type, nlink, ents, lock, fip, cwd, panicked>>
  BY <1>2 DEF Walk, Ilock, disk, files
<1>6. LocksOK' => AssertionsHold' /\ CwdLive(cwd', type) /\ FipLive(fip', type)
  BY <1>1, <1>5 DEF AssertionsHold
\* The thread after it.
<1>7. ASSUME NEW u, Set(p, u), LinkClaim(u) = LinkClaim(t), UnlinkClaim(u) = None, Held(u) = None,
             Live(u, type), Knows(u, type, ents)
      PROVE  NameInv'
  <2>1. UnlinkClaim(t) = None
    BY <1>2 DEF UnlinkClaim
  <2>2. LocksOK'
    BY <1>1, <1>5, <1>7, LockKeep
  <2>3. QED
    BY <1>5, <1>6, <1>7, <2>1, <2>2, NameStep
<1>8. CASE Set(p, PutAt(t, r))
  <2> DEFINE u == PutAt(t, r)
  <2>1. /\ u.pc = "iput" /\ u.put = t.at /\ u.ret = r /\ u.at = None /\ u.dp = t.dp
        /\ u.ip = t.ip /\ u.path = t.path /\ u.goal = t.goal
    <3>1. t \in Thread /\ r \in Stages
      BY <1>1, <1>3
    <3>2. QED
      BY ONLY <3>1, PutAtFacts
  <2> HIDE DEF u
  <2>2. Stage(u) = r
    BY <2>1 DEF Stage, Puts
  <2>3. LinkClaim(u) = LinkClaim(t) /\ UnlinkClaim(u) = None /\ Held(u) = None
    BY <1>2, <2>1, <2>2 DEF LinkClaim, UnlinkClaim, Held, Linked
  <2>4. Live(u, type) /\ Knows(u, type, ents)
    BY <1>1, <1>2, <2>1, <2>2 DEF Live, Knows, Linked
  <2>5. QED
    BY <1>7, <1>8, <2>3, <2>4 DEF u
<1>9. CASE type[i] = "dir" /\ Parent(t) /\ Set(p, [t EXCEPT !.pc = t.goal, !.dp = i, !.at = None])
  <2> DEFINE u == [t EXCEPT !.pc = t.goal, !.dp = i, !.at = None]
  <2>1. /\ u.pc = t.goal /\ u.ret = t.ret /\ u.at = None /\ u.dp = i
        /\ u.ip = t.ip /\ u.path = t.path /\ u.goal = t.goal
    BY <1>1, <1>2 DEF Thread
  <2> HIDE DEF u
  <2>2. Stage(u) = t.goal /\ t.goal \in {"create", "unlink", "link2"}
    BY <1>9, <2>1 DEF Stage, Puts, Parent
  <2>3. LinkClaim(u) = LinkClaim(t) /\ UnlinkClaim(u) = None /\ Held(u) = None
    BY <1>2, <2>1, <2>2 DEF LinkClaim, UnlinkClaim, Held, Linked
  <2>4. Live(u, type) /\ Knows(u, type, ents)
    BY <1>1, <1>2, <1>9, <2>1, <2>2 DEF Live, Knows, Linked
  <2>5. QED
    BY <1>7, <1>9, <2>3, <2>4 DEF u
<1>10. CASE /\ type[i] = "dir" /\ ~Parent(t) /\ next # None
            /\ Set(p, [PutAt(t, t.goal) EXCEPT !.ip = next])
  <2> DEFINE w == PutAt(t, t.goal)  u == [w EXCEPT !.ip = next]
  <2>1. /\ w \in Thread /\ w.pc = "iput" /\ w.put = t.at /\ w.ret = t.goal /\ w.at = None /\ w.dp = t.dp
        /\ w.ip = t.ip /\ w.path = t.path /\ w.goal = t.goal
    <3>1. t \in Thread /\ t.goal \in Stages
      BY <1>1, <1>3
    <3>2. QED
      BY ONLY <3>1, PutAtFacts
  <2>2. /\ u.pc = "iput" /\ u.put = t.at /\ u.ret = t.goal /\ u.at = None /\ u.dp = t.dp
        /\ u.ip = next /\ u.path = t.path /\ u.goal = t.goal
    BY <2>1 DEF Thread
  <2>3. type[next] # "free"
    BY <1>2, <1>4, <1>10, Alive
  <2> HIDE DEF u, w
  <2>4. Stage(u) = t.goal /\ t.goal \in {"open", "link", "chdir"}
    BY <1>2, <1>10, <2>2 DEF Stage, Puts, Parent, Goals
  <2>5. LinkClaim(u) = None /\ LinkClaim(t) = None /\ UnlinkClaim(u) = None /\ Held(u) = None
    BY <1>2, <2>2, <2>4 DEF LinkClaim, UnlinkClaim, Held, Linked
  <2>6. Live(u, type) /\ Knows(u, type, ents)
    BY <1>1, <1>2, <2>2, <2>3, <2>4 DEF Live, Knows, Linked
  <2>7. QED
    BY <1>7, <1>10, <2>5, <2>6 DEF u, w
<1>11. CASE /\ type[i] = "dir" /\ Len(t.path) # 1 /\ next # None
            /\ Set(p, [PutAt(t, "walk") EXCEPT !.at = next, !.path = Tail(@)])
  <2> DEFINE w == PutAt(t, "walk")  u == [w EXCEPT !.at = next, !.path = Tail(@)]
  <2>1. /\ w \in Thread /\ w.pc = "iput" /\ w.put = t.at /\ w.ret = "walk" /\ w.at = None /\ w.dp = t.dp
        /\ w.ip = t.ip /\ w.path = t.path /\ w.goal = t.goal
    <3>1. t \in Thread /\ "walk" \in Stages
      BY <1>1, <1>3
    <3>2. QED
      BY ONLY <3>1, PutAtFacts
  <2>2. /\ u.pc = "iput" /\ u.put = t.at /\ u.ret = "walk" /\ u.at = next /\ u.dp = t.dp
        /\ u.ip = t.ip /\ u.path = Tail(t.path) /\ u.goal = t.goal
    BY <2>1 DEF Thread
  <2>3. type[next] # "free"
    BY <1>2, <1>4, <1>11, Alive
  <2> HIDE DEF u, w
  <2>4. Stage(u) = "walk"
    BY <2>2 DEF Stage, Puts
  <2>5. LinkClaim(u) = LinkClaim(t) /\ UnlinkClaim(u) = None /\ Held(u) = None
    BY <1>2, <2>2, <2>4 DEF LinkClaim, UnlinkClaim, Held, Linked
  <2>6. Live(u, type) /\ Knows(u, type, ents)
    BY <1>1, <1>2, <1>4, <1>11, <2>2, <2>3, <2>4 DEF Live, Knows, Linked
  <2>7. QED
    BY <1>7, <1>11, <2>5, <2>6 DEF u, w
<1>12. QED
  BY <1>2, <1>8, <1>9, <1>10, <1>11 DEF Walk, Ilock

\* A step to iput with the inode, after which the call is over.
LEMMA PutIpNames ==
  ASSUME TypeOK, RefInv, NameInv, NEW p \in Proc, Set(p, PutIp(th[p], "user")),
         th[p].pc \in {"open", "opened", "created", "link", "chdir"},
         UNCHANGED <<type, nlink, ents, fip, cwd, panicked>>, LocksOK'
  PROVE  NameInv'
<1> DEFINE t == th[p]  u == PutIp(t, "user")
<1>1. /\ t \in Thread /\ Local(t) /\ Live(t, type) /\ Plain(t.path)
      /\ CwdLive(cwd, type) /\ FipLive(fip, type) /\ AssertionsHold
  BY ThreadKnows
<1>2. t.pc \in HasIp \ HasDp /\ type[t.ip] # "free" /\ Stage(t) = t.pc
  BY <1>1 DEF Local, Stage, HasIp, HasDp, Puts, Live
<1>3. LinkClaim(t) = None /\ UnlinkClaim(t) = None
  BY <1>2 DEF LinkClaim, UnlinkClaim, Linked
<1>4. Live(u, type) /\ Knows(u, type, ents) /\ LinkClaim(u) = None /\ UnlinkClaim(u) = None
  BY <1>1, <1>2, PutIpKnows
<1>5. AssertionsHold' /\ CwdLive(cwd', type) /\ FipLive(fip', type)
  BY <1>1 DEF AssertionsHold
<1>6. Set(p, u)
  OBVIOUS
<1> HIDE DEF u
<1>7. QED
  BY <1>3, <1>4, <1>5, <1>6, NameStep

LEMMA OpenFileNames ==
  ASSUME TypeOK, RefInv, NameInv, NEW p \in Proc, OpenFile(p),
         th[p].pc \in {"open", "opened", "created"},
         UNCHANGED <<type, nlink, ents, cwd, panicked>>,
         ASSUME NEW u, Set(p, u), Held(u) = None PROVE LocksOK'
  PROVE  NameInv'
<1> DEFINE t == th[p]
<1>1. /\ t \in Thread /\ Local(t) /\ Live(t, type) /\ Plain(t.path)
      /\ CwdLive(cwd, type) /\ FipLive(fip, type) /\ AssertionsHold
  BY ThreadKnows
<1>2. t.pc \in HasIp \ HasDp /\ t.ip # None /\ type[t.ip] # "free" /\ Stage(t) = t.pc
  BY <1>1 DEF Local, Stage, HasIp, HasDp, Puts, Live
<1>3. CASE Set(p, PutIp(t, "user")) /\ UNCHANGED files
  <2>1. Held(PutIp(t, "user")) = None
    BY <1>1, <1>2, PutIpKnows
  <2>2. LocksOK'
    BY <1>3, <2>1
  <2>3. QED
    BY <1>3, <2>2, PutIpNames DEF files
<1>4. CASE \E f \in File : fip' = [fip EXCEPT ![f] = t.ip] /\ Set(p, Idle("user"))
  <2>1. FipLive(fip', type)
    BY <1>1, <1>2, <1>4 DEF FipLive, TypeOK
  <2>2. LinkClaim(t) = None /\ UnlinkClaim(t) = None
    BY <1>2 DEF LinkClaim, UnlinkClaim, Linked
  <2> DEFINE u == Idle("user")
  <2>3. /\ Live(u, type) /\ Knows(u, type, ents) /\ LinkClaim(u) = None /\ UnlinkClaim(u) = None
        /\ Held(u) = None
    BY IdleKnows
  <2>4. Set(p, u)
    BY <1>4
  <2> HIDE DEF u
  <2>5. LocksOK' /\ AssertionsHold' /\ CwdLive(cwd', type)
    BY <1>1, <2>3, <2>4 DEF AssertionsHold
  <2>6. QED
    BY <2>1, <2>2, <2>3, <2>4, <2>5, NameStep
<1>5. QED
  BY <1>3, <1>4 DEF OpenFile

LEMMA OpenNames ==
  ASSUME TypeOK, RefInv, NameInv, NEW p \in Proc, Open(p) \/ Opened(p)
  PROVE  NameInv'
<1> DEFINE t == th[p]
<1>1. /\ t \in Thread /\ Local(t) /\ Live(t, type) /\ LocksOK /\ t.pc \in {"open", "opened"}
  BY ThreadKnows DEF Open, Opened, At
<1>2. type[t.ip] # "free"
  BY <1>1 DEF Local, Stage, HasIp, Puts, Live
<1>3. UNCHANGED <<type, nlink, ents, lock, cwd, panicked>>
  BY <1>2 DEF Open, Opened, Ilock, disk
<1>4. ASSUME NEW u, Set(p, u), Held(u) = None PROVE LocksOK'
  BY <1>1, <1>3, <1>4, LockKeep
<1>5. CASE OpenFile(p)
  BY <1>1, <1>3, <1>4, <1>5, OpenFileNames
<1>6. CASE Set(p, PutIp(t, "user")) /\ UNCHANGED files
  <2>1. Held(PutIp(t, "user")) = None
    <3>1. t.pc \in HasIp \ HasDp /\ Plain(t.path)
      BY <1>1, ThreadKnows DEF HasIp, HasDp
    <3>2. QED
      BY <1>1, <1>2, <3>1, PutIpKnows
  <2>2. LocksOK'
    BY <1>4, <1>6, <2>1
  <2>3. QED
    BY <1>1, <1>3, <1>6, <2>2, PutIpNames DEF files
<1>7. QED
  BY <1>2, <1>5, <1>6 DEF Open, Opened, Ilock

LEMMA CreatedNames ==
  ASSUME TypeOK, RefInv, NameInv, NEW p \in Proc, Created(p)
  PROVE  NameInv'
<1> DEFINE t == th[p]
<1>1. /\ t \in Thread /\ Local(t) /\ Live(t, type) /\ LocksOK /\ t.pc = "created" /\ Plain(t.path)
  BY ThreadKnows DEF Created, At
<1>2. type[t.ip] # "free" /\ Held(t) = t.ip /\ t.ip # None /\ t.pc \in HasIp \ HasDp
  BY <1>1 DEF Local, Stage, HasIp, HasDp, Puts, Live, Held
<1>3. UNCHANGED <<type, nlink, ents, cwd, panicked>> /\ lock' = [lock EXCEPT ![t.ip] = None]
  BY DEF Created, disk
<1>4. ASSUME NEW u, Set(p, u), Held(u) = None PROVE LocksOK'
  BY <1>1, <1>2, <1>3, <1>4, LockGive
<1>5. CASE OpenFile(p)
  BY <1>1, <1>3, <1>4, <1>5, OpenFileNames
<1>6. CASE Set(p, PutIp(t, "user")) /\ UNCHANGED files
  <2>1. Held(PutIp(t, "user")) = None
    BY <1>1, <1>2, PutIpKnows
  <2>2. LocksOK'
    BY <1>4, <1>6, <2>1
  <2>3. QED
    BY <1>1, <1>3, <1>6, <2>2, PutIpNames DEF files
<1>7. QED
  BY <1>5, <1>6 DEF Created

LEMMA UnlinkNames ==
  ASSUME TypeOK, RefInv, NameInv, NEW p \in Proc, Unlink(p)
  PROVE  NameInv'
<1> DEFINE t == th[p]  d == t.dp  x == Head(t.path)  i == ents[d][x]
<1>1. /\ t \in Thread /\ Local(t) /\ Live(t, type) /\ Knows(t, type, ents) /\ Plain(t.path)
      /\ CwdLive(cwd, type) /\ FipLive(fip, type) /\ LocksOK /\ AssertionsHold /\ t.pc = "unlink"
  BY ThreadKnows DEF Unlink, At
<1>2. /\ d \in Inum /\ d # None /\ t.at = None /\ t.ip = None /\ Stage(t) = "unlink" /\ t.goal = "unlink"
      /\ t.path \in Paths /\ type[d] = "dir"
  BY <1>1 DEF Local, Stage, HasIp, HasDp, HasPath, Puts, Thread, Opt, Goal, Knows
<1>3. LinkClaim(t) = None /\ UnlinkClaim(t) = None /\ "user" \in Stages
  BY <1>2 DEF LinkClaim, UnlinkClaim, Linked, Stages
<1>4. UNCHANGED <<type, nlink, ents, fip, cwd, panicked>> /\ lock[d] = None
  BY <1>2 DEF Unlink, Ilock, disk, files
<1>5. AssertionsHold' /\ CwdLive(cwd', type) /\ FipLive(fip', type)
  BY <1>1, <1>4 DEF AssertionsHold
<1>6. CASE Set(p, PutDp(t, "user")) /\ UNCHANGED lock
  <2> DEFINE u == PutDp(t, "user")
  <2>1. /\ u.pc = "iput" /\ u.put = d /\ u.ret = "user" /\ u.at = None /\ u.dp = None
        /\ u.ip = None /\ u.path = t.path /\ u.goal = t.goal
    BY <1>1, <1>2, <1>3, PutDpFacts
  <2>2. Set(p, u)
    BY <1>6
  <2> HIDE DEF u
  <2>3. Stage(u) = "user"
    BY <2>1 DEF Stage, Puts
  <2>4. LinkClaim(u) = None /\ UnlinkClaim(u) = None /\ Held(u) = None
    BY <2>1, <2>3 DEF LinkClaim, UnlinkClaim, Held, Linked
  <2>5. Live(u, type) /\ Knows(u, type, ents)
    BY <1>1, <1>2, <2>1, <2>3 DEF Live, Knows, Linked
  <2>6. LocksOK'
    BY <1>1, <1>6, <2>2, <2>4, LockKeep
  <2>7. QED
    BY <1>3, <1>4, <1>5, <2>2, <2>4, <2>5, <2>6, NameStep
<1>7. CASE /\ x \notin Dots /\ i # None /\ lock' = [lock EXCEPT ![d] = p]
           /\ Set(p, [t EXCEPT !.pc = "unlink2", !.ip = i])
  <2> DEFINE u == [t EXCEPT !.pc = "unlink2", !.ip = i]
  <2>1. /\ u.pc = "unlink2" /\ u.at = None /\ u.dp = d
        /\ u.ip = i /\ u.path = t.path /\ u.goal = "unlink"
    BY <1>1, <1>2 DEF Thread
  <2>2. Set(p, u)
    BY <1>7
  <2> HIDE DEF u
  <2>3. Stage(u) = "unlink2"
    BY <2>1 DEF Stage, Puts
  <2>4. LinkClaim(u) = None /\ UnlinkClaim(u) = None /\ Held(u) = d
    BY <2>1, <2>3 DEF LinkClaim, UnlinkClaim, Held, Linked
  <2>5. x \in Name /\ type[i] # "free"
    <3>1. x \in Name \cup Dots
      BY <1>2, PathFacts
    <3>2. QED
      BY <1>2, <1>7, <3>1, Alive
  <2>6. Live(u, type) /\ Knows(u, type, ents)
    BY <1>1, <1>2, <2>1, <2>3, <2>5 DEF Live, Knows, Linked
  <2>7. LocksOK'
    BY <1>1, <1>2, <1>4, <1>7, <2>2, <2>4, LockTake
  <2>8. QED
    BY <1>3, <1>4, <1>5, <2>2, <2>4, <2>6, <2>7, NameStep
<1>8. QED
  BY <1>2, <1>6, <1>7 DEF Unlink, Ilock

LEMMA BadNames ==
  ASSUME TypeOK, RefInv, NameInv, NEW p \in Proc, UnlinkBad(p) \/ LinkBad(p)
  PROVE  NameInv'
<1> DEFINE t == th[p]
           r == IF t.pc = "unlink_bad" THEN "user" ELSE "bad"
           u == PutDp(t, r)
<1>1. /\ t \in Thread /\ Local(t) /\ Live(t, type) /\ Knows(t, type, ents) /\ Plain(t.path)
      /\ CwdLive(cwd, type) /\ FipLive(fip, type) /\ LocksOK /\ AssertionsHold
      /\ t.pc \in {"unlink_bad", "link_bad"}
  BY ThreadKnows DEF UnlinkBad, LinkBad, At
<1>2. /\ t.dp # None /\ t.at = None /\ Stage(t) = t.pc /\ t.goal = Goal(t.pc)
      /\ (t.pc = "unlink_bad" => t.ip = None) /\ (t.pc = "link_bad" => t.ip # None)
  BY <1>1 DEF Local, Stage, HasIp, HasDp, Puts
<1>3. UNCHANGED <<type, nlink, ents, fip, cwd, panicked>> /\ lock' = [lock EXCEPT ![t.dp] = None]
  BY DEF UnlinkBad, LinkBad, disk, files
<1>4. Set(p, u)
  BY DEF UnlinkBad, LinkBad, At
<1>5. /\ u.pc = "iput" /\ u.put = t.dp /\ u.ret = r /\ u.at = None /\ u.dp = None
      /\ u.ip = t.ip /\ u.path = t.path /\ u.goal = t.goal
  <2>1. r \in Stages
    BY DEF Stages
  <2>2. QED
    BY <1>1, <1>2, <2>1, PutDpFacts
<1> HIDE DEF u
<1>6. Stage(u) = r
  BY <1>5 DEF Stage, Puts
<1>7. Held(t) = t.dp /\ Held(u) = None
  BY <1>1, <1>2, <1>6 DEF Held
<1>8. LinkClaim(u) = LinkClaim(t) /\ UnlinkClaim(u) = None /\ UnlinkClaim(t) = None
  BY <1>1, <1>2, <1>5, <1>6 DEF LinkClaim, UnlinkClaim, Linked, Goal
<1>9. Live(u, type) /\ Knows(u, type, ents)
  BY <1>1, <1>2, <1>5, <1>6 DEF Live, Knows, Linked, Goal
<1>10. LocksOK'
  BY <1>1, <1>2, <1>3, <1>4, <1>7, LockGive
<1>11. AssertionsHold' /\ CwdLive(cwd', type) /\ FipLive(fip', type)
  BY <1>1, <1>3 DEF AssertionsHold
<1>12. QED
  BY <1>3, <1>4, <1>8, <1>9, <1>10, <1>11, NameStep

LEMMA ChdirNames ==
  ASSUME TypeOK, RefInv, NameInv, NEW p \in Proc, Chdir(p)
  PROVE  NameInv'
<1> DEFINE t == th[p]  i == t.ip
<1>1. /\ t \in Thread /\ Local(t) /\ Live(t, type) /\ Knows(t, type, ents) /\ Plain(t.path)
      /\ CwdLive(cwd, type) /\ FipLive(fip, type) /\ LocksOK /\ AssertionsHold /\ t.pc = "chdir"
      /\ cwd[p] \in Opt
  BY ThreadKnows DEF Chdir, At, TypeOK
<1>2. /\ i # None /\ type[i] # "free" /\ t.at = None /\ t.dp = None /\ Stage(t) = "chdir"
      /\ t.pc \in HasIp \ HasDp
  BY <1>1 DEF Local, Stage, HasIp, HasDp, Puts, Live
<1>3. UNCHANGED <<type, nlink, ents, fip, lock, panicked>>
  BY <1>2 DEF Chdir, Ilock, disk, files
<1>4. CASE Set(p, PutIp(t, "user")) /\ UNCHANGED cwd
  <2>1. Held(PutIp(t, "user")) = None
    BY <1>1, <1>2, PutIpKnows
  <2>2. LocksOK'
    BY <1>1, <1>3, <1>4, <2>1, LockKeep
  <2>3. QED
    BY <1>1, <1>3, <1>4, <2>2, PutIpNames
<1>5. CASE /\ cwd' = [cwd EXCEPT ![p] = i] /\ Set(p, [Put(t, cwd[p], "user") EXCEPT !.ip = None])
  <2> DEFINE w == Put(t, cwd[p], "user")  u == [w EXCEPT !.ip = None]
  <2>1. /\ w \in Thread /\ w.pc = "iput" /\ w.put = cwd[p] /\ w.ret = "user" /\ w.at = None
        /\ w.dp = None /\ w.path = t.path
    <3>1. "user" \in Stages
      BY DEF Stages
    <3>2. QED
      BY <1>1, <1>2, <3>1, PutFacts
  <2>2. /\ u.pc = "iput" /\ u.put = cwd[p] /\ u.ret = "user" /\ u.at = None /\ u.dp = None
        /\ u.ip = None /\ u.path = t.path
    BY <2>1 DEF Thread
  <2>3. Set(p, u)
    BY <1>5
  <2> HIDE DEF u, w
  <2>4. Stage(u) = "user"
    BY <2>2 DEF Stage, Puts
  <2>5. cwd[p] # None /\ type[cwd[p]] # "free"
    BY <1>1, <1>2, ThreadAt DEF Empties, CwdLive
  <2>6. LinkClaim(u) = None /\ UnlinkClaim(u) = None /\ Held(u) = None
    BY <2>2, <2>4 DEF LinkClaim, UnlinkClaim, Held, Linked
  <2>7. Live(u, type) /\ Knows(u, type, ents)
    BY <1>1, <2>2, <2>4, <2>5 DEF Live, Knows, Linked
  <2>8. LinkClaim(t) = None /\ UnlinkClaim(t) = None
    BY <1>2 DEF LinkClaim, UnlinkClaim, Linked
  <2>9. CwdLive(cwd', type)
    BY <1>1, <1>2, <1>5 DEF CwdLive, TypeOK
  <2>10. LocksOK' /\ AssertionsHold' /\ FipLive(fip', type)
    BY <1>1, <1>3, <2>3, <2>6, LockKeep DEF AssertionsHold
  <2>11. QED
    BY <1>3, <2>3, <2>6, <2>7, <2>8, <2>9, <2>10, NameStep
<1>6. QED
  BY <1>2, <1>4, <1>5 DEF Chdir, Ilock

\* No thread changes.
LEMMA NameKeep ==
  ASSUME NameInv, UNCHANGED <<type, nlink, ents, lock, cwd, th, panicked>>, FipLive(fip', type)
  PROVE  NameInv'
BY DEF NameInv, LocksOK, AssertionsHold

LEMMA DupNames ==
  ASSUME NameInv, NEW p \in Proc, Dup(p)
  PROVE  NameInv'
<1>1. UNCHANGED <<type, nlink, ents, lock, cwd, th, panicked, fip>>
  BY DEF Dup, disk, icache
<1>2. QED
  BY <1>1, NameKeep DEF NameInv

\* A thread without inodes goes on to iput(i), and then to r.
LEMMA PutIdleKnows ==
  ASSUME NEW t \in Thread, Local(t), t.pc \in {"user", "exit"}, Plain(t.path),
         NEW i \in Opt, NEW r \in {"user", "exit", "gone"}, NEW ty, NEW en, ty[i] # "free"
  PROVE  LET u == Put(t, i, r) IN
         /\ Live(u, ty) /\ Knows(u, ty, en) /\ LinkClaim(u) = None /\ UnlinkClaim(u) = None
         /\ Held(u) = None /\ LinkClaim(t) = None /\ UnlinkClaim(t) = None
<1> DEFINE u == Put(t, i, r)
<1>1. t.at = None /\ t.dp = None /\ t.ip = None /\ Stage(t) = t.pc
  BY DEF Local, Stage, HasIp, HasDp, Puts
<1>2. r \in Stages
  BY DEF Stages
<1>3. /\ u.pc = "iput" /\ u.put = i /\ u.ret = r /\ u.path = t.path
      /\ u.at = None /\ u.dp = None /\ u.ip = None
  BY <1>1, <1>2, PutFacts
<1> HIDE DEF u
<1>4. Stage(u) = r
  BY <1>3 DEF Stage, Puts
<1>5. Live(u, ty) /\ Knows(u, ty, en) /\ LinkClaim(u) = None /\ UnlinkClaim(u) = None /\ Held(u) = None
  BY <1>3, <1>4 DEF Live, Knows, LinkClaim, UnlinkClaim, Held, Linked
<1>6. LinkClaim(t) = None /\ UnlinkClaim(t) = None
  BY <1>1 DEF LinkClaim, UnlinkClaim, Linked
<1>7. QED
  BY <1>5, <1>6 DEF u

LEMMA FileCloseNames ==
  ASSUME TypeOK, RefInv, NameInv, NEW p \in Proc, NEW fd \in Fd, NEW r \in {"user", "exit"},
         th[p].pc = r, FileClose(p, fd, r)
  PROVE  NameInv'
<1> DEFINE t == th[p]  f == ofile[p][fd]
<1>1. /\ t \in Thread /\ Local(t) /\ Plain(t.path)
      /\ CwdLive(cwd, type) /\ FipLive(fip, type) /\ LocksOK /\ AssertionsHold
  BY ThreadKnows
<1>2. UNCHANGED <<type, nlink, ents, lock, cwd, panicked>> /\ f \in File
  BY DEF FileClose, disk, icache, TypeOK
<1>3. CASE UNCHANGED <<fip, th>>
  BY <1>1, <1>2, <1>3, NameKeep
<1>4. CASE fref[f] = 1 /\ fip' = [fip EXCEPT ![f] = None] /\ Set(p, Put(t, fip[f], r))
  <2> DEFINE i == fip[f]  u == Put(t, i, r)
  <2>1. i \in Opt /\ type[i] # "free"
    <3>1. fip[f] \in Opt /\ fip[f] # None
      BY <1>2, <1>4 DEF RefInv, FilesOK, TypeOK
    <3>2. QED
      BY <1>1, <1>2, <3>1 DEF FipLive
  <2>2. /\ Live(u, type) /\ Knows(u, type, ents) /\ LinkClaim(u) = None /\ UnlinkClaim(u) = None
        /\ Held(u) = None /\ LinkClaim(t) = None /\ UnlinkClaim(t) = None
    BY <1>1, <2>1, PutIdleKnows
  <2>3. Set(p, u)
    BY <1>4
  <2> HIDE DEF u
  <2>4. FipLive(fip', type)
    BY <1>1, <1>2, <1>4 DEF FipLive, TypeOK
  <2>5. LocksOK' /\ AssertionsHold' /\ CwdLive(cwd', type)
    BY <1>1, <1>2, <2>2, <2>3, LockKeep DEF AssertionsHold
  <2>6. QED
    BY <1>2, <2>2, <2>3, <2>4, <2>5, NameStep
<1>5. QED
  BY <1>3, <1>4 DEF FileClose

LEMMA CloseNames ==
  ASSUME TypeOK, RefInv, NameInv, NEW p \in Proc, Close(p)
  PROVE  NameInv'
BY FileCloseNames DEF Close, At

LEMMA ExitNames ==
  ASSUME TypeOK, RefInv, NameInv, NEW p \in Proc, Exit(p)
  PROVE  NameInv'
<1> DEFINE t == th[p]  u == Idle("exit")
<1>1. /\ t \in Thread /\ Local(t) /\ LocksOK /\ AssertionsHold /\ t.pc = "user"
      /\ CwdLive(cwd, type) /\ FipLive(fip, type)
  BY ThreadKnows DEF Exit, At
<1>2. UNCHANGED <<type, nlink, ents, lock, fip, cwd, panicked>> /\ Set(p, u)
  BY DEF Exit, disk, icache, files
<1>3. LinkClaim(t) = None /\ UnlinkClaim(t) = None
  BY <1>1 DEF LinkClaim, UnlinkClaim, Linked, Stage, Puts
<1>4. /\ Live(u, type) /\ Knows(u, type, ents) /\ LinkClaim(u) = None /\ UnlinkClaim(u) = None
      /\ Held(u) = None
  BY IdleKnows
<1> HIDE DEF u
<1>5. LocksOK' /\ AssertionsHold' /\ CwdLive(cwd', type) /\ FipLive(fip', type)
  BY <1>1, <1>2, <1>4, LockKeep DEF AssertionsHold
<1>6. QED
  BY <1>2, <1>3, <1>4, <1>5, NameStep

LEMMA ExitCloseNames ==
  ASSUME TypeOK, RefInv, NameInv, NEW p \in Proc, ExitClose(p)
  PROVE  NameInv'
<1> DEFINE t == th[p]  u == Put(t, cwd[p], "gone")
<1>1. /\ t \in Thread /\ Local(t) /\ LocksOK /\ AssertionsHold /\ t.pc = "exit" /\ Plain(t.path)
      /\ CwdLive(cwd, type) /\ FipLive(fip, type) /\ cwd[p] \in Opt
  BY ThreadKnows DEF ExitClose, At, TypeOK
<1>2. CASE \E fd \in Fd : FileClose(p, fd, "exit")
  BY <1>1, <1>2, FileCloseNames
<1>3. CASE cwd' = [cwd EXCEPT ![p] = None] /\ Set(p, u) /\ UNCHANGED <<disk, icache, files, panicked>>
  <2>1. UNCHANGED <<type, nlink, ents, lock, fip, panicked>> /\ Set(p, u)
    BY <1>3 DEF disk, icache, files
  <2>2. type[cwd[p]] # "free"
    <3>1. Stage(t) # "gone"
      BY <1>1 DEF Stage, Puts
    <3>2. QED
      BY <1>1, <3>1, ThreadAt DEF Empties, CwdLive
  <2>3. /\ Live(u, type) /\ Knows(u, type, ents) /\ LinkClaim(u) = None /\ UnlinkClaim(u) = None
        /\ Held(u) = None /\ LinkClaim(t) = None /\ UnlinkClaim(t) = None
    BY <1>1, <2>2, PutIdleKnows
  <2> HIDE DEF u
  <2>4. CwdLive(cwd', type)
    BY <1>1, <1>3 DEF CwdLive, TypeOK
  <2>5. LocksOK' /\ AssertionsHold' /\ FipLive(fip', type)
    BY <1>1, <2>1, <2>3, LockKeep DEF AssertionsHold
  <2>6. QED
    BY <2>1, <2>3, <2>4, <2>5, NameStep
<1>4. QED
  BY <1>2, <1>3 DEF ExitClose

LEMMA ForkNames ==
  ASSUME TypeOK, RefInv, NameInv, NEW p \in Proc, Fork(p)
  PROVE  NameInv'
<1> DEFINE u == Idle("user")
<1>1. PICK c \in Proc : th[c].pc = "gone" /\ cwd' = [cwd EXCEPT ![c] = cwd[p]] /\ Set(c, u)
  BY DEF Fork, At
<1>2. /\ LocksOK /\ AssertionsHold /\ CwdLive(cwd, type) /\ FipLive(fip, type) /\ Local(th[c])
  BY ThreadKnows
<1>3. UNCHANGED <<type, nlink, ents, lock, fip, panicked>>
  BY DEF Fork, disk
<1>4. LinkClaim(th[c]) = None /\ UnlinkClaim(th[c]) = None
  BY <1>1, <1>2 DEF LinkClaim, UnlinkClaim, Linked, Stage, Puts
<1>5. /\ Live(u, type) /\ Knows(u, type, ents) /\ LinkClaim(u) = None /\ UnlinkClaim(u) = None
      /\ Held(u) = None
  BY IdleKnows
<1>6. Set(c, u)
  BY <1>1
<1> HIDE DEF u
<1>7. CwdLive(cwd', type)
  BY <1>1, <1>2 DEF CwdLive, TypeOK
<1>8. LocksOK' /\ AssertionsHold' /\ FipLive(fip', type)
  BY <1>2, <1>3, <1>5, <1>6, LockKeep DEF AssertionsHold
<1>9. QED
  BY <1>3, <1>4, <1>5, <1>6, <1>7, <1>8, NameStep

-----------------------------------------------------------------------------
(* Creating.                                                               *)

\* The name is there.
LEMMA CreateOldNames ==
  ASSUME TypeOK, RefInv, NameInv, NEW p \in Proc, Create(p), ents[th[p].dp][Head(th[p].path)] # None
  PROVE  NameInv'
<1> DEFINE t == th[p]  d == t.dp  x == Head(t.path)  old == ents[d][x]
           w == PutDp(t, "opened")  u == [w EXCEPT !.ip = old]
<1>1. /\ t \in Thread /\ Local(t) /\ Live(t, type) /\ Knows(t, type, ents) /\ Plain(t.path)
      /\ CwdLive(cwd, type) /\ FipLive(fip, type) /\ LocksOK /\ AssertionsHold /\ t.pc = "create"
  BY ThreadKnows DEF Create, At
<1>2. /\ d \in Inum /\ d # None /\ t.at = None /\ t.ip = None /\ Stage(t) = "create"
      /\ t.path \in Paths /\ type[d] = "dir"
  BY <1>1 DEF Local, Stage, HasIp, HasDp, HasPath, Puts, Thread, Opt, Knows
<1>3. UNCHANGED <<type, nlink, ents, fip, cwd, lock, panicked>> /\ Set(p, u)
  BY <1>2 DEF Create, disk, files
<1>4. type[old] # "free"
  <2>1. x \in Name \cup {"."}
    BY <1>1, <1>2, PlainTail
  <2>2. QED
    BY <1>2, <2>1, Alive
<1>5. /\ w \in Thread /\ w.pc = "iput" /\ w.put = d /\ w.ret = "opened" /\ w.at = None /\ w.dp = None
      /\ w.path = t.path /\ w.goal = t.goal
  <2>1. "opened" \in Stages
    BY DEF Stages
  <2>2. QED
    BY <1>1, <1>2, <2>1, PutDpFacts
<1>6. /\ u.pc = "iput" /\ u.put = d /\ u.ret = "opened" /\ u.at = None /\ u.dp = None
      /\ u.ip = old /\ u.path = t.path
  BY <1>5 DEF Thread
<1> HIDE DEF u, w
<1>7. Stage(u) = "opened"
  BY <1>6 DEF Stage, Puts
<1>8. /\ LinkClaim(u) = None /\ UnlinkClaim(u) = None /\ Held(u) = None
      /\ LinkClaim(t) = None /\ UnlinkClaim(t) = None
  BY <1>2, <1>7 DEF LinkClaim, UnlinkClaim, Held, Linked
<1>9. Live(u, type) /\ Knows(u, type, ents)
  BY <1>1, <1>2, <1>4, <1>6, <1>7 DEF Live, Knows, Linked
<1>10. LocksOK' /\ AssertionsHold' /\ CwdLive(cwd', type) /\ FipLive(fip', type)
  BY <1>1, <1>3, <1>8, LockKeep DEF AssertionsHold
<1>11. QED
  BY <1>3, <1>8, <1>9, <1>10, NameStep

\* What is free has no name, and only a thread that has just freed it may
\* still refer to it.
LEMMA FreeUnused ==
  ASSUME TypeOK, RefInv, NameInv, NEW i \in Inum, type[i] = "free"
  PROVE  /\ nlink[i] = 0 /\ \A s \in Claim : ClaimsOf(type, ents, th)[s] # i
         /\ i # Root /\ \A d \in Inum, x \in Name : ents[d][x] # i
         /\ \A p \in Proc : LinkClaim(th[p]) # i /\ UnlinkClaim(th[p]) # i
<1> DEFINE c == ClaimsOf(type, ents, th)
<1>1. Covers(nlink, c) /\ nlink \in [Inum -> Int] /\ nlink[i] = 0
  BY DEF NameInv, TypeOK, DiskOK
<1>2. <<Root, "root">> \in Claim /\ c[<<Root, "root">>] = Root
  BY ClaimSlots
<1>3. \A d \in Inum, x \in Name : <<<<d, x>>, "name">> \in Claim /\ c[<<<<d, x>>, "name">>] = ents[d][x]
  BY DEF ClaimsOf, Claim
<1>4. \A p \in Proc : /\ <<p, "link">> \in Claim /\ c[<<p, "link">>] = LinkClaim(th[p])
                     /\ <<p, "unlink">> \in Claim /\ c[<<p, "unlink">>] = UnlinkClaim(th[p])
  BY DEF ClaimsOf, Claim
<1> HIDE DEF c
<1>5. \A s \in Claim : c[s] # i
  BY <1>1, ClaimedLinks
<1>6. QED
  BY <1>1, <1>2, <1>3, <1>4, <1>5 DEF c

\* A new inode i is entered in d as x.
Enter(d, x, i, kind) ==
  /\ type'  = [type EXCEPT ![i] = kind]
  /\ nlink' = [nlink EXCEPT ![i] = 1, ![d] = IF kind = "dir" THEN @ + 1 ELSE @]
  /\ ents'  = [ents EXCEPT ![d][x] = i, ![i] = IF kind = "dir" THEN DirOf(i, d) ELSE NoEntries]

\* The disk and the claims after that.
LEMMA CreateDisk ==
  ASSUME TypeOK, RefInv, NameInv, NEW p \in Proc, NEW u, Set(p, u),
         NEW d \in Inum, NEW x \in Name, NEW i \in Inum, NEW kind \in {"dir", "file"},
         type[i] = "free", type[d] = "dir", ents[d][x] = None,
         Enter(d, x, i, kind),
         LinkClaim(u) = LinkClaim(th[p]), UnlinkClaim(u) = UnlinkClaim(th[p])
  PROVE  /\ Covers(nlink', ClaimsOf(type', ents', th')) /\ DiskOK(type', nlink', ents')
         /\ i # d /\ \A e \in Inum \ {d, i} : ents'[e] = ents[e]
<1>1. i # d /\ nlink[i] = 0 /\ ents[i] = NoEntries /\ \A f \in Inum, y \in Name : ents[f][y] # i
  BY FreeUnused DEF NameInv, DiskOK
<1>2. x # "." /\ x # ".." /\ x \in Name \cup Dots /\ \A y \in Name : y \in Name \cup Dots /\ y \notin Dots
  BY FilesAssumption DEF Dots
<1>3. /\ ents'[d][x] = i /\ (\A y \in Name \cup Dots : y # x => ents'[d][y] = ents[d][y])
      /\ ents'[i] = (IF kind = "dir" THEN DirOf(i, d) ELSE NoEntries)
      /\ \A e \in Inum \ {d, i} : ents'[e] = ents[e]
  BY <1>1, <1>2 DEF TypeOK, Enter
<1>4. \A y \in Name : ents'[i][y] = None /\ ents[i][y] = None
  <2>1. \A y \in Name : NoEntries[y] = None /\ DirOf(i, d)[y] = None
    BY <1>2 DEF NoEntries, DirOf, Dots
  <2>2. QED
    BY <1>1, <1>3, <2>1
<1>5. DirOf(i, d)["."] = i
  BY DEF DirOf, NoEntries, Dots
<1>6. /\ type'[i] = kind /\ \A e \in Inum \ {i} : type'[e] = type[e]
  BY DEF TypeOK, Enter
<1>7. /\ nlink'[i] = 1 /\ nlink'[d] = (IF kind = "dir" THEN nlink[d] + 1 ELSE nlink[d])
      /\ \A e \in Inum \ {i, d} : nlink'[e] = nlink[e]
  BY <1>1 DEF TypeOK, Enter
<1>8. DiskOK(type', nlink', ents')
  <2>1. DiskOK(type, nlink, ents)
    BY DEF NameInv
  <2>2. ASSUME NEW e \in Inum \ {i}
        PROVE  /\ type'[e] = "free" => nlink'[e] = 0 /\ e # d
               /\ type'[e] # "dir" => ents'[e] = NoEntries
               /\ type'[e] = "dir" => ents'[e]["."] = e
    <3>1. CASE e = d
      <4>1. ents'[d]["."] = ents[d]["."] /\ ents[d]["."] = d
        BY <1>2, <1>3, <2>1 DEF DiskOK, Dots
      <4>2. QED
        BY <1>1, <1>6, <3>1, <4>1
    <3>2. CASE e # d
      <4>1. type'[e] = type[e] /\ nlink'[e] = nlink[e] /\ ents'[e] = ents[e]
        BY <1>3, <1>6, <1>7, <3>2
      <4>2. QED
        BY <2>1, <3>2, <4>1 DEF DiskOK
    <3>3. QED
      BY <3>1, <3>2
  <2>3. QED
    BY <1>3, <1>5, <1>6, <2>2 DEF DiskOK
<1> DEFINE c == ClaimsOf(type, ents, th)
           e == ClaimsOf(type', ents', th')
           s == <<<<d, x>>, "name">>
           r == <<<<d, x>>, "sub">>
           m == [c EXCEPT ![s] = i]
           n == [nlink EXCEPT ![i] = 1]
<1>9. /\ s \in Claim /\ r \in Claim /\ s # r /\ c[s] = None /\ c[r] = None /\ e[s] = i
      /\ e[r] = (IF kind = "dir" THEN d ELSE None) /\ DOMAIN c = Claim
  <2>1. /\ s \in Claim /\ r \in Claim /\ c[s] = ents[d][x] /\ c[r] = SubOf(type, ents, d, x)
        /\ e[s] = ents'[d][x] /\ e[r] = SubOf(type', ents', d, x) /\ DOMAIN c = Claim /\ s # r
    BY DEF ClaimsOf, Claim
  <2>2. SubOf(type, ents, d, x) = None /\ SubOf(type', ents', d, x) = IF kind = "dir" THEN d ELSE None
    BY <1>3, <1>6, Finite DEF SubOf
  <2>3. QED
    BY <1>3, <2>1, <2>2
<1>10. Same(Claim, {s, r}, c, e)
  <2>1. \A f \in Inum, y \in Name : <<<<f, y>>, "name">> \in {s, r} \/ ents'[f][y] = ents[f][y]
    BY <1>2, <1>3, <1>4
  <2>2. \A f \in Inum, y \in Name : ents[f][y] # i /\ ents[f][y] \in Inum \cup {None}
    <3>1. \A f \in Inum, y \in Name \cup Dots : ents[f][y] \in Opt
      BY DEF TypeOK
    <3>2. QED
      BY <1>1, <3>1 DEF Opt
  <2>3. \A f \in Inum, y \in Name :
          <<<<f, y>>, "sub">> \in {s, r} \/ SubOf(type', ents', f, y) = SubOf(type, ents, f, y)
    <3>1. ASSUME NEW f \in Inum, NEW y \in Name, f # d \/ y # x
          PROVE  SubOf(type', ents', f, y) = SubOf(type, ents, f, y)
      <4>1. ents'[f][y] = ents[f][y]
        BY <1>2, <1>3, <1>4, <3>1
      <4>2. QED
        BY <1>6, <2>2, <4>1 DEF SubOf
    <3>2. QED
      BY <3>1
  <2>4. \A q \in Proc : LinkClaim(th'[q]) = LinkClaim(th[q]) /\ UnlinkClaim(th'[q]) = UnlinkClaim(th[q])
    BY DEF Set, TypeOK
  <2> HIDE DEF s, r
  <2>5. QED
    BY ONLY <2>1, <2>3, <2>4, ClaimsSame DEF c, e
<1>11. Covers(nlink, c) /\ nlink \in [Inum -> Int]
  BY DEF NameInv, TypeOK
<1>12. n \in [Inum -> Int] /\ n[i] = nlink[i] + 1 /\ Same(Inum, {i}, nlink, n)
  BY <1>1, <1>11 DEF Same
<1> HIDE DEF c, e, s, r
<1>13. m[s] = i /\ Same(Claim, {s}, c, m)
  BY <1>9 DEF Same
<1>14. c[s] \notin Inum
  BY <1>9, Finite
<1>15. nlink' \in [Inum -> Int] /\ Same(Inum, {d}, n, nlink')
       /\ nlink'[d] = (IF kind = "dir" THEN n[d] + 1 ELSE n[d]) /\ DOMAIN n = Inum
  BY <1>1, <1>11, <1>12 DEF Same, Enter
<1> HIDE DEF m, n
<1>16. Covers(n, m)
  BY ONLY <1>9, <1>11, <1>12, <1>13, <1>14, CoversTake
<1>17. Same(Claim, {r}, m, e) /\ m[r] = None
  BY <1>9, <1>10, <1>13 DEF Same
<1>18. Covers(nlink', e)
  <2>1. CASE kind = "dir"
    <3>1. nlink'[d] = n[d] + 1 /\ e[r] = d /\ m[r] \notin Inum
      BY <1>9, <1>15, <1>17, <2>1, Finite
    <3>2. QED
      BY ONLY <1>9, <1>12, <1>15, <1>16, <1>17, <3>1, CoversTake
  <2>2. CASE kind # "dir"
    <3>1. Same(Claim, {}, m, e)
      BY <1>9, <1>17, <2>2 DEF Same
    <3>2. \A f \in Inum : nlink'[f] = n[f]
      BY <1>15, <2>2 DEF Same
    <3>3. Covers(n, e)
      BY <1>12, <1>16, <3>1, CoversLess DEF Same
    <3>4. QED
      BY <3>2, <3>3 DEF Covers
  <2>3. QED
    BY <2>1, <2>2
<1>19. QED
  BY <1>1, <1>3, <1>8, <1>18 DEF e

\* What a thread knows still holds on a disk that has changed elsewhere.
LEMMA KnowsStill ==
  ASSUME NEW t \in Thread, Local(t), NEW ty, NEW en, NEW ty2, NEW en2,
         Live(t, ty), Knows(t, ty, en),
         \A e \in Inum : ty[e] # "free" /\ ty2[e] # ty[e]
                        => e \notin {t.at, t.dp, t.ip} /\ (t.pc = "iput" => e # t.put),
         Stage(t) = "unlink2" => en2[t.dp] = en[t.dp]
  PROVE  Live(t, ty2) /\ Knows(t, ty2, en2)
<1>1. /\ t.at \in Opt /\ t.dp \in Opt /\ t.ip \in Opt /\ t.put \in Opt
      /\ t.pc = "iput" => t.put # None
      /\ Linked(t) \/ Stage(t) = "put_ip" => t.ip # None
  BY DEF Thread, Local, Linked, HasIp, Puts
<1>2. Live(t, ty2)
  BY <1>1 DEF Live, Opt
<1>3. t.dp # None => ty2[t.dp] = "dir"
  BY <1>1 DEF Knows, Opt
<1>4. Linked(t) \/ Stage(t) = "put_ip" => ty2[t.ip] = "file"
  BY <1>1 DEF Knows, Opt
<1>5. QED
  BY <1>2, <1>3, <1>4 DEF Knows

\* Only the thread that made an inode knows of it.
LEMMA CreateNewNames ==
  ASSUME TypeOK, RefInv, NameInv, NEW p \in Proc, Create(p), ents[th[p].dp][Head(th[p].path)] = None
  PROVE  NameInv'
<1> DEFINE t == th[p]  d == t.dp  x == Head(t.path)
           kind == IF t.call[1] = "mkdir" THEN "dir" ELSE "file"
           w == PutDp(t, "created")
<1>1. /\ t \in Thread /\ Local(t) /\ Live(t, type) /\ Knows(t, type, ents) /\ Plain(t.path)
      /\ CwdLive(cwd, type) /\ FipLive(fip, type) /\ LocksOK /\ AssertionsHold /\ t.pc = "create"
  BY ThreadKnows DEF Create, At
<1>2. /\ d \in Inum /\ d # None /\ t.at = None /\ t.ip = None /\ Stage(t) = "create"
      /\ t.path \in Paths /\ type[d] = "dir" /\ lock[d] = None
  BY <1>1 DEF Local, Stage, HasIp, HasDp, HasPath, Puts, Thread, Opt, Knows, Create
<1>3. x \in Name
  <2>1. x \in Name \cup {"."}
    BY <1>1, <1>2, PlainTail
  <2>2. ents[d]["."] # None
    BY <1>2, Finite DEF NameInv, DiskOK
  <2>3. QED
    BY <2>1, <2>2
<1>4. CASE Panic("ialloc: no inodes")
  BY <1>4, PanicName DEF Panic, icache
<1>5. CASE \E i \in {j \in Inum : type[j] = "free"} :
             /\ Enter(d, x, i, kind)
             /\ lock'  = [lock EXCEPT ![i] = p]
             /\ Set(p, [w EXCEPT !.ip = i])
             /\ UNCHANGED <<files, cwd, panicked>>
  <2>1. PICK i \in Inum :
             /\ type[i] = "free"
             /\ Enter(d, x, i, kind)
             /\ lock'  = [lock EXCEPT ![i] = p]
             /\ Set(p, [w EXCEPT !.ip = i])
             /\ UNCHANGED <<files, cwd, panicked>>
    BY <1>5
  <2> DEFINE u == [w EXCEPT !.ip = i]
  <2>2. /\ w \in Thread /\ w.pc = "iput" /\ w.put = d /\ w.ret = "created" /\ w.at = None /\ w.dp = None
        /\ w.path = t.path /\ w.goal = t.goal
    <3>1. "created" \in Stages
      BY DEF Stages
    <3>2. QED
      BY <1>1, <1>2, <3>1, PutDpFacts
  <2>3. /\ u.pc = "iput" /\ u.put = d /\ u.ret = "created" /\ u.at = None /\ u.dp = None
        /\ u.ip = i /\ u.path = t.path
    BY <2>2 DEF Thread
  <2>4. Set(p, u)
    BY <2>1
  <2> HIDE DEF u, w
  <2>5. Stage(u) = "created"
    BY <2>3 DEF Stage, Puts
  <2>6. /\ LinkClaim(u) = None /\ UnlinkClaim(u) = None /\ Held(u) = i
        /\ LinkClaim(t) = None /\ UnlinkClaim(t) = None
    BY <1>2, <2>3, <2>5 DEF LinkClaim, UnlinkClaim, Held, Linked
  <2>7. kind \in {"dir", "file"}
    OBVIOUS
  <2> HIDE DEF kind
  <2>8. /\ Covers(nlink', ClaimsOf(type', ents', th')) /\ DiskOK(type', nlink', ents')
        /\ i # d /\ \A e \in Inum \ {d, i} : ents'[e] = ents[e]
    <3>1. /\ TypeOK /\ RefInv /\ NameInv /\ p \in Proc /\ ents[d][x] = None /\ i \in Inum
          /\ LinkClaim(u) = LinkClaim(th[p]) /\ UnlinkClaim(u) = UnlinkClaim(th[p])
      BY <2>6
    <3> HIDE DEF d, x, t
    <3>2. QED
      BY ONLY <1>2, <1>3, <2>1, <2>4, <2>7, <3>1, CreateDisk
  <2>9. type'[i] # "free" /\ \A e \in Inum \ {i} : type'[e] = type[e]
    BY <2>1, <2>7 DEF TypeOK, Enter
  <2>10. lock'[i] = p /\ \A e \in Inum \ {i} : lock'[e] = lock[e]
    BY <2>1 DEF TypeOK
  <2>11. th'[p] = u /\ \A q \in Proc \ {p} : th'[q] = th[q]
    BY <2>4 DEF Set, TypeOK
  <2>12. Live(u, type') /\ Knows(u, type', ents')
    BY <1>1, <1>2, <2>1, <2>3, <2>5, <2>8, <2>9 DEF Live, Knows, Linked
  <2>13. ASSUME NEW q \in Proc \ {p}
         PROVE  /\ Live(th[q], type') /\ Knows(th[q], type', ents')
                /\ Held(th[q]) # None => Held(th[q]) \in Inum \ {i} /\ lock[Held(th[q])] = q
    <3>1. /\ th[q] \in Thread /\ Local(th[q]) /\ Live(th[q], type) /\ Knows(th[q], type, ents) /\ LocksOK
          /\ q # None
      BY ThreadKnows, Finite
    <3>3. Held(th[q]) # None => Held(th[q]) \in Inum \ {i} /\ lock[Held(th[q])] = q
      BY <2>1, <3>1 DEF Held, LocksOK, Live, Thread, Opt
    <3>4. Stage(th[q]) = "unlink2" => /\ th[q].dp \in Inum \ {d, i}
                                      /\ ents'[th[q].dp] = ents[th[q].dp]
      <4>1. Stage(th[q]) = "unlink2" => th[q].dp \in Inum /\ type[th[q].dp] = "dir" /\ Held(th[q]) = th[q].dp
        BY <3>1 DEF Held, Local, HasDp, Knows, Thread, Opt
      <4>2. th[q].dp \in Inum /\ Held(th[q]) = th[q].dp => th[q].dp # d
        BY <1>2, <3>1, <3>3, Finite
      <4>3. QED
        BY <2>1, <2>8, <4>1, <4>2
    <3>5. \A e \in Inum : type[e] # "free" => type'[e] = type[e]
      BY <2>1, <2>9
    <3>6. Live(th[q], type') /\ Knows(th[q], type', ents')
      BY ONLY <3>1, <3>4, <3>5, KnowsStill
    <3>7. QED
      BY <3>3, <3>6
  <2>14. LocksOK'
    BY <2>6, <2>10, <2>11, <2>13 DEF LocksOK
  <2>15. CwdLive(cwd', type') /\ FipLive(fip', type') /\ AssertionsHold'
    BY <1>1, <2>1, <2>9 DEF CwdLive, FipLive, files, AssertionsHold, TypeOK, Opt
  <2>16. QED
    BY <2>8, <2>11, <2>12, <2>13, <2>14, <2>15 DEF NameInv
<1>6. QED
  BY <1>2, <1>4, <1>5 DEF Create, Enter

LEMMA CreateNames ==
  ASSUME TypeOK, RefInv, NameInv, NEW p \in Proc, Create(p)
  PROVE  NameInv'
BY CreateOldNames, CreateNewNames

-----------------------------------------------------------------------------
(* Unlinking.                                                              *)

\* The entry x of d for i is removed.
Leave(d, x, i) ==
  /\ ents'  = [ents EXCEPT ![d][x] = None]
  /\ nlink' = [nlink EXCEPT ![d] = IF type[i] = "dir" THEN @ - 1 ELSE @]
  /\ UNCHANGED type

\* The link is p's from then on.
LEMMA LeaveDisk ==
  ASSUME TypeOK, RefInv, NameInv, NEW p \in Proc, NEW u, Set(p, u),
         NEW d \in Inum, NEW x \in Name, NEW i \in Inum, type[d] = "dir", ents[d][x] = i,
         Leave(d, x, i), LinkClaim(u) = LinkClaim(th[p]),
         UnlinkClaim(th[p]) = None, UnlinkClaim(u) = i
  PROVE  /\ Covers(nlink', ClaimsOf(type, ents', th')) /\ DiskOK(type, nlink', ents')
         /\ \A e \in Inum \ {d} : ents'[e] = ents[e]
<1>1. x # "." /\ x # ".." /\ x \in Name \cup Dots /\ i # None
  BY FilesAssumption DEF Dots
<1>2. /\ ents'[d][x] = None /\ (\A y \in Name \cup Dots : y # x => ents'[d][y] = ents[d][y])
      /\ \A e \in Inum \ {d} : ents'[e] = ents[e]
  BY <1>1 DEF TypeOK, Leave
<1>3. /\ nlink'[d] = (IF type[i] = "dir" THEN nlink[d] - 1 ELSE nlink[d])
      /\ \A e \in Inum \ {d} : nlink'[e] = nlink[e]
  BY DEF TypeOK, Leave
<1>4. DiskOK(type, nlink', ents')
  <2>1. DiskOK(type, nlink, ents)
    BY DEF NameInv
  <2>2. ents'[d]["."] = d
    <3>1. ents'[d]["."] = ents[d]["."]
      BY <1>1, <1>2 DEF Dots
    <3>2. QED
      BY <2>1, <3>1 DEF DiskOK
  <2>3. QED
    BY <1>2, <1>3, <2>1, <2>2 DEF DiskOK
<1> DEFINE c == ClaimsOf(type, ents, th)
           e == ClaimsOf(type, ents', th')
           s == <<<<d, x>>, "name">>
           r == <<<<d, x>>, "sub">>
           z == <<p, "unlink">>
           m == [c EXCEPT ![s] = None, ![z] = i]
<1>5. /\ s \in Claim /\ r \in Claim /\ z \in Claim /\ s # r /\ s # z /\ r # z /\ DOMAIN c = Claim
      /\ c[s] = i /\ c[z] = None /\ c[r] = (IF type[i] = "dir" THEN d ELSE None)
      /\ e[s] = None /\ e[z] = i /\ e[r] = None
  <2>1. /\ s \in Claim /\ r \in Claim /\ c[s] = ents[d][x] /\ c[r] = SubOf(type, ents, d, x)
        /\ e[s] = ents'[d][x] /\ e[r] = SubOf(type, ents', d, x) /\ DOMAIN c = Claim /\ s # r
    BY DEF ClaimsOf, Claim
  <2>2. SubOf(type, ents', d, x) = None /\ SubOf(type, ents, d, x) = IF type[i] = "dir" THEN d ELSE None
    BY <1>1, <1>2 DEF SubOf
  <2>3. th'[p] = u
    BY DEF Set, TypeOK
  <2>4. z \in Claim /\ c[z] = UnlinkClaim(th[p]) /\ e[z] = UnlinkClaim(th'[p])
    BY DEF ClaimsOf, Claim
  <2>5. s # z /\ r # z
    OBVIOUS
  <2>6. QED
    BY <1>2, <2>1, <2>2, <2>3, <2>4, <2>5
<1>6. Same(Claim, {s, r, z}, c, e)
  <2>1. \A f \in Inum, y \in Name : f # d \/ y # x => ents'[f][y] = ents[f][y]
    BY <1>2
  <2>2. \A f \in Inum, y \in Name :
          <<<<f, y>>, "sub">> \in {s, r, z} \/ SubOf(type, ents', f, y) = SubOf(type, ents, f, y)
    BY <2>1 DEF SubOf
  <2>3. \A f \in Inum, y \in Name : <<<<f, y>>, "name">> \in {s, r, z} \/ ents'[f][y] = ents[f][y]
    BY <2>1
  <2>4. \A q \in Proc : /\ <<q, "link">> \in {s, r, z} \/ LinkClaim(th'[q]) = LinkClaim(th[q])
                        /\ <<q, "unlink">> \in {s, r, z} \/ UnlinkClaim(th'[q]) = UnlinkClaim(th[q])
    BY DEF Set, TypeOK
  <2> HIDE DEF s, r, z
  <2>5. QED
    BY ONLY <2>2, <2>3, <2>4, ClaimsSame DEF c, e
<1>7. Covers(nlink, c) /\ nlink \in [Inum -> Int]
  BY DEF NameInv, TypeOK
<1> HIDE DEF c, e, s, r, z
<1>8. m[s] = None /\ m[z] = c[s] /\ Same(Claim, {s, z}, c, m) /\ m[r] = c[r]
  BY <1>5 DEF Same
<1>9. Same(Claim, {r}, m, e)
  BY <1>5, <1>6, <1>8 DEF Same
<1>10. nlink' \in [Inum -> Int] /\ Same(Inum, {d}, nlink, nlink')
  BY <1>3, <1>7 DEF Leave, Same
<1> HIDE DEF m
<1>11. Covers(nlink, m)
  <2>1. c[z] \notin Inum /\ m[s] \notin Inum
    BY <1>5, <1>8, Finite
  <2>2. QED
    BY ONLY <1>5, <1>7, <1>8, <2>1, CoversMove
<1>12. Covers(nlink', e)
  <2>1. CASE type[i] = "dir"
    <3>1. m[r] = d /\ e[r] \notin Inum /\ nlink'[d] = nlink[d] - 1
      BY <1>3, <1>5, <1>8, <2>1, Finite
    <3>2. QED
      BY ONLY <1>5, <1>7, <1>9, <1>10, <1>11, <3>1, CoversGive
  <2>2. CASE type[i] # "dir"
    <3>1. Same(Claim, {}, m, e)
      BY <1>5, <1>8, <1>9, <2>2 DEF Same
    <3>2. \A f \in Inum : nlink'[f] = nlink[f]
      BY <1>3, <2>2
    <3>3. Covers(nlink, e)
      BY <1>7, <1>11, <3>1, CoversLess DEF Same
    <3>4. QED
      BY <3>2, <3>3 DEF Covers
  <2>3. QED
    BY <2>1, <2>2
<1>13. QED
  BY <1>2, <1>4, <1>12 DEF e

\* Both inodes are locked.
LEMMA Unlink2Names ==
  ASSUME TypeOK, RefInv, NameInv, NEW p \in Proc, Unlink2(p)
  PROVE  NameInv'
<1> DEFINE t == th[p]  d == t.dp  i == t.ip  x == Head(t.path)
<1>1. /\ t \in Thread /\ Local(t) /\ Live(t, type) /\ Knows(t, type, ents) /\ Plain(t.path)
      /\ CwdLive(cwd, type) /\ FipLive(fip, type) /\ LocksOK /\ AssertionsHold /\ t.pc = "unlink2"
  BY ThreadKnows DEF Unlink2, At
<1>2. /\ d \in Inum /\ d # None /\ i \in Inum /\ i # None /\ t.at = None /\ Stage(t) = "unlink2"
      /\ t.goal = "unlink" /\ type[d] = "dir" /\ x \in Name /\ ents[d][x] = i /\ type[i] # "free"
  BY <1>1 DEF Local, Stage, HasIp, HasDp, Puts, Thread, Opt, Knows, Live, Goal
<1>3. /\ Held(t) = d /\ lock[d] = p /\ lock[i] = None /\ p # None
  BY <1>1, <1>2, Finite DEF Held, LocksOK, Unlink2
<1>4. nlink[i] > 0 /\ i # d
  BY <1>2, <1>3, Alive
<1>5. /\ UNCHANGED <<type, files, cwd, panicked>>
      /\ \/ Set(p, PutIp(t, "unlink_bad")) /\ UNCHANGED <<nlink, ents, lock>>
         \/ /\ ents'  = [ents EXCEPT ![d][x] = None]
            /\ nlink' = [nlink EXCEPT ![d] = IF type[i] = "dir" THEN @ - 1 ELSE @]
            /\ lock'  = [lock EXCEPT ![d] = None, ![i] = p]
            /\ Set(p, PutDp(t, "unlink3"))
  <2>1. nlink[i] \in Int
    BY <1>2 DEF TypeOK
  <2>2. ~(nlink[i] < 1)
    BY <1>4, <2>1
  <2>3. QED
    BY <1>2, <2>2 DEF Unlink2
<1>6. LinkClaim(t) = None /\ UnlinkClaim(t) = None /\ "unlink_bad" \in Stages /\ "unlink3" \in Stages
  BY <1>2 DEF LinkClaim, UnlinkClaim, Linked, Stages
<1>7. CASE Set(p, PutIp(t, "unlink_bad")) /\ UNCHANGED <<nlink, ents, lock>>
  <2> DEFINE u == PutIp(t, "unlink_bad")
  <2>1. /\ u.pc = "iput" /\ u.put = i /\ u.ret = "unlink_bad" /\ u.at = None /\ u.dp = d
        /\ u.ip = None /\ u.path = t.path /\ u.goal = t.goal
    BY <1>1, <1>2, <1>6, PutIpFacts
  <2>2. Set(p, u)
    BY <1>7
  <2> HIDE DEF u
  <2>3. Stage(u) = "unlink_bad"
    BY <2>1 DEF Stage, Puts
  <2>4. LinkClaim(u) = None /\ UnlinkClaim(u) = None /\ Held(u) = d
    BY <1>2, <2>1, <2>3 DEF LinkClaim, UnlinkClaim, Held, Linked
  <2>5. Live(u, type) /\ Knows(u, type, ents)
    BY <1>1, <1>2, <2>1, <2>3 DEF Live, Knows, Linked
  <2>6. LocksOK'
    BY <1>1, <1>3, <1>7, <2>2, <2>4, LockKeep
  <2>7. AssertionsHold' /\ CwdLive(cwd', type) /\ FipLive(fip', type)
    BY <1>1, <1>5 DEF AssertionsHold, files
  <2>8. QED
    BY <1>5, <1>6, <1>7, <2>2, <2>4, <2>5, <2>6, <2>7, NameStep
<1>8. CASE /\ ents'  = [ents EXCEPT ![d][x] = None]
           /\ nlink' = [nlink EXCEPT ![d] = IF type[i] = "dir" THEN @ - 1 ELSE @]
           /\ lock'  = [lock EXCEPT ![d] = None, ![i] = p]
           /\ Set(p, PutDp(t, "unlink3"))
  <2> DEFINE u == PutDp(t, "unlink3")
  <2>1. /\ u.pc = "iput" /\ u.put = d /\ u.ret = "unlink3" /\ u.at = None /\ u.dp = None
        /\ u.ip = i /\ u.path = t.path /\ u.goal = t.goal
    BY <1>1, <1>2, <1>6, PutDpFacts
  <2>2. Set(p, u)
    BY <1>8
  <2> HIDE DEF u
  <2>3. Stage(u) = "unlink3"
    BY <2>1 DEF Stage, Puts
  <2>4. LinkClaim(u) = None /\ UnlinkClaim(u) = i /\ Held(u) = i
    BY <1>2, <2>1, <2>3 DEF LinkClaim, UnlinkClaim, Held, Linked
  <2>5. /\ Covers(nlink', ClaimsOf(type, ents', th')) /\ DiskOK(type, nlink', ents')
        /\ \A e \in Inum \ {d} : ents'[e] = ents[e]
    <3>1. Leave(d, x, i)
      BY <1>5, <1>8 DEF Leave
    <3>2. TypeOK /\ RefInv /\ NameInv /\ p \in Proc /\ LinkClaim(u) = LinkClaim(th[p])
          /\ UnlinkClaim(th[p]) = None
      BY <1>6, <2>4
    <3> HIDE DEF d, i, x, t
    <3>3. QED
      BY ONLY <1>2, <2>2, <2>4, <3>1, <3>2, LeaveDisk
  <2>6. Live(u, type) /\ Knows(u, type, ents')
    BY <1>1, <1>2, <2>1, <2>3 DEF Live, Knows, Linked
  <2>7. th'[p] = u /\ \A q \in Proc \ {p} : th'[q] = th[q]
    BY <2>2 DEF Set, TypeOK
  <2>8. lock'[i] = p /\ \A e \in Inum \ {d, i} : lock'[e] = lock[e]
    BY <1>2, <1>8 DEF TypeOK
  <2>9. ASSUME NEW q \in Proc \ {p}
        PROVE  /\ Live(th[q], type) /\ Knows(th[q], type, ents')
               /\ Held(th[q]) # None => Held(th[q]) \in Inum \ {d, i} /\ lock[Held(th[q])] = q
    <3>1. /\ th[q] \in Thread /\ Local(th[q]) /\ Live(th[q], type) /\ Knows(th[q], type, ents) /\ LocksOK
          /\ q # None
      BY ThreadKnows, Finite
    <3>2. Held(th[q]) # None => Held(th[q]) \in Inum \ {d, i} /\ lock[Held(th[q])] = q
      BY <1>3, <3>1 DEF Held, LocksOK, Thread, Opt
    <3>3. Stage(th[q]) = "unlink2" => ents'[th[q].dp] = ents[th[q].dp]
      <4>1. Stage(th[q]) = "unlink2" => Held(th[q]) = th[q].dp /\ th[q].dp # None
        BY <3>1 DEF Held, Local, HasDp
      <4>2. QED
        BY <2>5, <3>2, <4>1
    <3>4. Live(th[q], type) /\ Knows(th[q], type, ents')
      BY ONLY <3>1, <3>3, KnowsStill
    <3>5. QED
      BY <3>2, <3>4
  <2>10. LocksOK'
    BY <2>4, <2>7, <2>8, <2>9 DEF LocksOK
  <2>11. CwdLive(cwd', type) /\ FipLive(fip', type) /\ AssertionsHold'
    BY <1>1, <1>5 DEF files, AssertionsHold
  <2>12. QED
    BY <1>5, <2>5, <2>6, <2>7, <2>9, <2>10, <2>11 DEF NameInv
<1>9. QED
  BY <1>5, <1>7, <1>8

\* A link that was counted and is not made, or is removed, is counted no more.
LEMMA GiveNames ==
  ASSUME TypeOK, RefInv, NameInv, NEW p \in Proc, Set(p, PutIp(th[p], "user")),
         th[p].pc \in {"unlink3", "bad"}, nlink' = [nlink EXCEPT ![th[p].ip] = @ - 1],
         UNCHANGED <<type, ents, fip, cwd, panicked>>, LocksOK'
  PROVE  NameInv'
<1> DEFINE t == th[p]  i == t.ip  u == PutIp(t, "user")
           c == ClaimsOf(type, ents, th)
           e == ClaimsOf(type, ents, th')
           z == IF t.pc = "unlink3" THEN <<p, "unlink">> ELSE <<p, "link">>
<1>1. /\ t \in Thread /\ Local(t) /\ Live(t, type) /\ Plain(t.path)
      /\ CwdLive(cwd, type) /\ FipLive(fip, type) /\ AssertionsHold
  BY ThreadKnows
<1>2. /\ t.pc \in HasIp \ HasDp /\ type[i] # "free" /\ i \in Inum /\ Stage(t) = t.pc
      /\ t.goal = Goal(t.pc)
  BY <1>1 DEF Local, Stage, HasIp, HasDp, Puts, Live, Thread, Opt
<1>3. /\ LinkClaim(t) = (IF t.pc = "bad" THEN i ELSE None)
      /\ UnlinkClaim(t) = (IF t.pc = "unlink3" THEN i ELSE None)
  BY <1>2 DEF LinkClaim, UnlinkClaim, Linked, Goal
<1>4. Live(u, type) /\ Knows(u, type, ents) /\ LinkClaim(u) = None /\ UnlinkClaim(u) = None
  BY <1>1, <1>2, PutIpKnows
<1>5. Set(p, u)
  OBVIOUS
<1> HIDE DEF u
<1>6. th'[p] = u /\ \A q \in Proc \ {p} : th'[q] = th[q]
  BY <1>5 DEF Set, TypeOK
<1>7. z \in Claim /\ c[z] = i /\ e[z] = None
  BY <1>3, <1>4, <1>6 DEF ClaimsOf, Claim
<1>8. Same(Claim, {z}, c, e)
  <2>1. \A f \in Inum, y \in Name : /\ <<<<f, y>>, "name">> \in {z} \/ ents[f][y] = ents[f][y]
                                    /\ <<<<f, y>>, "sub">> \in {z} \/ SubOf(type, ents, f, y) = SubOf(type, ents, f, y)
    OBVIOUS
  <2>2. \A q \in Proc : /\ <<q, "link">> \in {z} \/ LinkClaim(th'[q]) = LinkClaim(th[q])
                        /\ <<q, "unlink">> \in {z} \/ UnlinkClaim(th'[q]) = UnlinkClaim(th[q])
    BY <1>3, <1>4, <1>6
  <2> HIDE DEF z
  <2>3. QED
    BY ONLY <2>1, <2>2, ClaimsSame DEF c, e
<1>9. /\ Covers(nlink, c) /\ nlink \in [Inum -> Int] /\ nlink' \in [Inum -> Int]
      /\ nlink'[i] = nlink[i] - 1 /\ Same(Inum, {i}, nlink, nlink')
  BY <1>2 DEF NameInv, TypeOK, Same
<1> HIDE DEF c, e, z
<1>10. Covers(nlink', e)
  <2>1. e[z] \notin Inum
    BY <1>7, Finite
  <2>2. QED
    BY ONLY <1>2, <1>7, <1>8, <1>9, <2>1, CoversGive
<1>11. DiskOK(type, nlink', ents)
  BY <1>2, <1>9 DEF NameInv, DiskOK, Same
<1>12. \A q \in Proc : Live(th'[q], type) /\ Knows(th'[q], type, ents)
  BY <1>4, <1>6 DEF NameInv
<1>13. AssertionsHold' /\ CwdLive(cwd', type) /\ FipLive(fip', type)
  BY <1>1 DEF AssertionsHold
<1>14. QED
  BY <1>10, <1>11, <1>12, <1>13 DEF NameInv, e

LEMMA Unlink3Names ==
  ASSUME TypeOK, RefInv, NameInv, NEW p \in Proc, Unlink3(p)
  PROVE  NameInv'
<1> DEFINE t == th[p]  i == t.ip  u == PutIp(t, "user")
<1>1. /\ t \in Thread /\ Local(t) /\ Live(t, type) /\ Plain(t.path) /\ LocksOK /\ t.pc = "unlink3"
  BY ThreadKnows DEF Unlink3, At
<1>2. t.pc \in HasIp \ HasDp /\ type[i] # "free" /\ i # None /\ Held(t) = i
  BY <1>1 DEF Local, Stage, HasIp, HasDp, Puts, Live, Held
<1>3. /\ Set(p, u) /\ lock' = [lock EXCEPT ![i] = None] /\ nlink' = [nlink EXCEPT ![i] = @ - 1]
      /\ UNCHANGED <<type, ents, fip, cwd, panicked>>
  BY DEF Unlink3, files
<1>4. Held(u) = None
  BY <1>1, <1>2, PutIpKnows
<1> HIDE DEF u
<1>5. LocksOK'
  BY <1>1, <1>2, <1>3, <1>4, LockGive
<1>6. QED
  BY <1>1, <1>3, <1>5, GiveNames DEF u

LEMMA BadLinkNames ==
  ASSUME TypeOK, RefInv, NameInv, NEW p \in Proc, Bad(p)
  PROVE  NameInv'
<1> DEFINE t == th[p]  i == t.ip  u == PutIp(t, "user")
<1>1. /\ t \in Thread /\ Local(t) /\ Live(t, type) /\ Plain(t.path) /\ LocksOK /\ t.pc = "bad"
  BY ThreadKnows DEF Bad, At
<1>2. t.pc \in HasIp \ HasDp /\ type[i] # "free" /\ i # None
  BY <1>1 DEF Local, Stage, HasIp, HasDp, Puts, Live
<1>3. /\ Set(p, u) /\ UNCHANGED lock /\ nlink' = [nlink EXCEPT ![i] = @ - 1]
      /\ UNCHANGED <<type, ents, fip, cwd, panicked>>
  BY <1>2 DEF Bad, Ilock, files
<1>4. Held(u) = None
  BY <1>1, <1>2, PutIpKnows
<1> HIDE DEF u
<1>5. LocksOK'
  BY <1>1, <1>3, <1>4, LockKeep
<1>6. QED
  BY <1>1, <1>3, <1>5, GiveNames DEF u

-----------------------------------------------------------------------------
(* Linking.                                                                *)

\* A link is counted before it is made.
LEMMA LinkNames ==
  ASSUME TypeOK, RefInv, NameInv, NoAscent, NEW p \in Proc, Link(p)
  PROVE  NameInv'
<1> DEFINE t == th[p]  i == t.ip
<1>1. /\ t \in Thread /\ Local(t) /\ Live(t, type) /\ Plain(t.path) /\ LocksOK /\ t.pc = "link"
      /\ CwdLive(cwd, type) /\ FipLive(fip, type) /\ AssertionsHold
  BY ThreadKnows DEF Link, At
<1>2. /\ t.pc \in HasIp \ HasDp /\ type[i] # "free" /\ i # None /\ i \in Inum /\ t.dp = None
      /\ Stage(t) = "link" /\ t.goal = "link" /\ t.call \in Calls /\ t.call[1] = "link"
      /\ t.pc \notin Puts
  BY <1>1 DEF Local, Stage, HasIp, HasDp, Puts, Live, Thread, Opt, Goal
<1>3. UNCHANGED <<type, ents, lock, fip, cwd, panicked>>
  BY <1>2 DEF Link, Ilock, files
<1>4. CASE Set(p, PutIp(t, "user")) /\ UNCHANGED nlink
  <2>1. Held(PutIp(t, "user")) = None
    BY <1>1, <1>2, PutIpKnows
  <2>2. LocksOK'
    BY <1>1, <1>3, <1>4, <2>1, LockKeep
  <2>3. QED
    BY <1>1, <1>3, <1>4, <2>2, PutIpNames
<1>5. CASE /\ type[i] # "dir" /\ nlink' = [nlink EXCEPT ![i] = @ + 1]
           /\ StartWalk(p, t, t.call[3], "link2")
  <2>1. type[i] = "file"
    BY <1>2, <1>5 DEF TypeOK
  <2>2. Plain(t.call[3])
    BY <1>2 DEF NoAscent
  <2>3. PICK u : /\ Set(p, u) /\ Live(u, type) /\ Knows(u, type, ents) /\ Held(u) = None
                 /\ UnlinkClaim(u) = None /\ LinkClaim(u) = i
    <3>1. StartWalk(p, t, t.call[3], "link2")
      BY <1>5
    <3>2. Stage(th[p]) # "gone"
      BY <1>2
    <3>3. QED
      BY <1>1, <1>2, <2>1, <2>2, <3>1, <3>2, StartWalkNames
  <2> DEFINE c == ClaimsOf(type, ents, th)
             e == ClaimsOf(type, ents, th')
             z == <<p, "link">>
  <2>4. th'[p] = u /\ \A q \in Proc \ {p} : th'[q] = th[q]
    BY <2>3 DEF Set, TypeOK
  <2>5. LinkClaim(t) = None /\ UnlinkClaim(t) = None
    BY <1>2 DEF LinkClaim, UnlinkClaim, Linked
  <2>6. z \in Claim /\ c[z] = None /\ e[z] = i
    BY <2>3, <2>4, <2>5 DEF ClaimsOf, Claim
  <2>7. Same(Claim, {z}, c, e)
    <3>1. \A f \in Inum, y \in Name : /\ <<<<f, y>>, "name">> \in {z} \/ ents[f][y] = ents[f][y]
                                      /\ <<<<f, y>>, "sub">> \in {z} \/ SubOf(type, ents, f, y) = SubOf(type, ents, f, y)
      OBVIOUS
    <3>2. \A q \in Proc : /\ <<q, "link">> \in {z} \/ LinkClaim(th'[q]) = LinkClaim(th[q])
                          /\ <<q, "unlink">> \in {z} \/ UnlinkClaim(th'[q]) = UnlinkClaim(th[q])
      BY <2>3, <2>4, <2>5
    <3> HIDE DEF z
    <3>3. QED
      BY ONLY <3>1, <3>2, ClaimsSame DEF c, e
  <2>8. /\ Covers(nlink, c) /\ nlink \in [Inum -> Int] /\ nlink' \in [Inum -> Int]
        /\ nlink'[i] = nlink[i] + 1 /\ Same(Inum, {i}, nlink, nlink')
    BY <1>2, <1>5 DEF NameInv, TypeOK, Same
  <2> HIDE DEF c, e, z
  <2>9. Covers(nlink', e)
    <3>1. c[z] \notin Inum
      BY <2>6, Finite
    <3>2. QED
      BY ONLY <1>2, <2>6, <2>7, <2>8, <3>1, CoversTake
  <2>10. DiskOK(type, nlink', ents)
    BY <1>2, <2>8 DEF NameInv, DiskOK, Same
  <2>11. \A q \in Proc : Live(th'[q], type) /\ Knows(th'[q], type, ents)
    BY <2>3, <2>4 DEF NameInv
  <2>12. LocksOK' /\ AssertionsHold' /\ CwdLive(cwd', type) /\ FipLive(fip', type)
    BY <1>1, <1>3, <2>3, LockKeep DEF AssertionsHold
  <2>13. QED
    BY <1>3, <2>9, <2>10, <2>11, <2>12 DEF NameInv, e
<1>6. QED
  BY <1>2, <1>4, <1>5 DEF Link, Ilock

\* The name is taken: the link is still counted.
LEMMA Link2OldNames ==
  ASSUME TypeOK, RefInv, NameInv, NEW p \in Proc, Link2(p), ents[th[p].dp][Head(th[p].path)] # None
  PROVE  NameInv'
<1> DEFINE t == th[p]  d == t.dp  x == Head(t.path)  old == ents[d][x]  u == Put(t, old, "link_bad")
<1>1. /\ t \in Thread /\ Local(t) /\ Live(t, type) /\ Knows(t, type, ents) /\ Plain(t.path)
      /\ CwdLive(cwd, type) /\ FipLive(fip, type) /\ LocksOK /\ AssertionsHold /\ t.pc = "link2"
  BY ThreadKnows DEF Link2, At
<1>2. /\ d \in Inum /\ d # None /\ t.at = None /\ t.ip # None /\ Stage(t) = "link2" /\ t.goal = "link2"
      /\ t.path \in Paths /\ type[d] = "dir"
  BY <1>1 DEF Local, Stage, HasIp, HasDp, HasPath, Puts, Thread, Opt, Knows, Goal
<1>3. /\ UNCHANGED <<type, nlink, ents, fip, cwd, panicked>> /\ Set(p, u)
      /\ lock' = [lock EXCEPT ![d] = p] /\ lock[d] = None
  BY <1>2 DEF Link2, Ilock, files
<1>4. old \in Opt /\ type[old] # "free"
  <2>1. x \in Name \cup {"."}
    BY <1>1, <1>2, PlainTail
  <2>2. QED
    BY <1>2, <2>1, Alive DEF Opt
<1>5. /\ u.pc = "iput" /\ u.put = old /\ u.ret = "link_bad" /\ u.at = None /\ u.dp = d
      /\ u.ip = t.ip /\ u.path = t.path /\ u.goal = "link2"
  <2>1. "link_bad" \in Stages
    BY DEF Stages
  <2>2. QED
    BY <1>1, <1>2, <1>4, <2>1, PutFacts
<1> HIDE DEF u
<1>6. Stage(u) = "link_bad"
  BY <1>5 DEF Stage, Puts
<1>7. /\ LinkClaim(u) = LinkClaim(t) /\ UnlinkClaim(u) = None /\ Held(u) = d /\ UnlinkClaim(t) = None
  BY <1>2, <1>5, <1>6 DEF LinkClaim, UnlinkClaim, Held, Linked
<1>8. Live(u, type) /\ Knows(u, type, ents)
  BY <1>1, <1>2, <1>4, <1>5, <1>6 DEF Live, Knows, Linked
<1>9. LocksOK'
  BY <1>1, <1>2, <1>3, <1>7, LockTake
<1>10. AssertionsHold' /\ CwdLive(cwd', type) /\ FipLive(fip', type)
  BY <1>1, <1>3 DEF AssertionsHold
<1>11. QED
  BY <1>3, <1>7, <1>8, <1>9, <1>10, NameStep

\* The link becomes a name.
LEMMA Link2NewNames ==
  ASSUME TypeOK, RefInv, NameInv, NEW p \in Proc, Link2(p), ents[th[p].dp][Head(th[p].path)] = None
  PROVE  NameInv'
<1> DEFINE t == th[p]  d == t.dp  x == Head(t.path)  i == t.ip  u == PutDp(t, "put_ip")
<1>1. /\ t \in Thread /\ Local(t) /\ Live(t, type) /\ Knows(t, type, ents) /\ Plain(t.path)
      /\ CwdLive(cwd, type) /\ FipLive(fip, type) /\ LocksOK /\ AssertionsHold /\ t.pc = "link2"
  BY ThreadKnows DEF Link2, At
<1>2. /\ d \in Inum /\ d # None /\ t.at = None /\ i # None /\ i \in Inum /\ Stage(t) = "link2"
      /\ t.goal = "link2" /\ t.path \in Paths /\ type[d] = "dir" /\ Linked(t) /\ type[i] = "file"
  BY <1>1 DEF Local, Stage, HasIp, HasDp, HasPath, Puts, Thread, Opt, Knows, Goal, Linked
<1>3. /\ UNCHANGED <<type, nlink, fip, cwd, lock, panicked>> /\ Set(p, u)
      /\ ents' = [ents EXCEPT ![d][x] = i] /\ lock[d] = None
  BY <1>2 DEF Link2, Ilock, files
<1>4. x \in Name /\ x # "." /\ x \in Name \cup Dots
  <2>1. x \in Name \cup {"."}
    BY <1>1, <1>2, PlainTail
  <2>2. ents[d]["."] # None
    BY <1>2, Finite DEF NameInv, DiskOK
  <2>3. QED
    BY <2>1, <2>2
<1>5. /\ u.pc = "iput" /\ u.put = d /\ u.ret = "put_ip" /\ u.at = None /\ u.dp = None
      /\ u.ip = i /\ u.path = t.path /\ u.goal = "link2"
  <2>1. "put_ip" \in Stages
    BY DEF Stages
  <2>2. QED
    BY <1>1, <1>2, <2>1, PutDpFacts
<1> HIDE DEF u
<1>6. Stage(u) = "put_ip"
  BY <1>5 DEF Stage, Puts
<1>7. /\ LinkClaim(t) = i /\ LinkClaim(u) = None /\ UnlinkClaim(u) = None /\ Held(u) = None
      /\ UnlinkClaim(t) = None
  BY <1>2, <1>5, <1>6 DEF LinkClaim, UnlinkClaim, Held, Linked
<1>8. /\ ents'[d][x] = i /\ (\A y \in Name \cup Dots : y # x => ents'[d][y] = ents[d][y])
      /\ \A f \in Inum \ {d} : ents'[f] = ents[f]
  BY <1>2, <1>3, <1>4 DEF TypeOK
<1>9. th'[p] = u /\ \A q \in Proc \ {p} : th'[q] = th[q]
  BY <1>3 DEF Set, TypeOK
<1> DEFINE c == ClaimsOf(type, ents, th)
           e == ClaimsOf(type, ents', th')
           s == <<<<d, x>>, "name">>
           z == <<p, "link">>
<1>10. s \in Claim /\ z \in Claim /\ s # z /\ c[s] = None /\ c[z] = i /\ e[s] = i /\ e[z] = None
  <2>1. s \in Claim /\ c[s] = ents[d][x] /\ e[s] = ents'[d][x]
    BY <1>2, <1>4 DEF ClaimsOf, Claim
  <2>2. z \in Claim /\ c[z] = LinkClaim(th[p]) /\ e[z] = LinkClaim(th'[p]) /\ s # z
    BY DEF ClaimsOf, Claim
  <2>3. QED
    BY <1>7, <1>8, <1>9, <2>1, <2>2
<1>11. Same(Claim, {s, z}, c, e)
  <2>1. \A f \in Inum, y \in Name : f # d \/ y # x => ents'[f][y] = ents[f][y]
    BY <1>8
  <2>2. \A f \in Inum, y \in Name :
          <<<<f, y>>, "sub">> \in {s, z} \/ SubOf(type, ents', f, y) = SubOf(type, ents, f, y)
    <3>1. SubOf(type, ents', d, x) = SubOf(type, ents, d, x)
      BY <1>2, <1>8 DEF SubOf
    <3>2. \A f \in Inum, y \in Name : f # d \/ y # x => SubOf(type, ents', f, y) = SubOf(type, ents, f, y)
      BY <2>1 DEF SubOf
    <3>3. QED
      BY <3>1, <3>2
  <2>3. \A f \in Inum, y \in Name : <<<<f, y>>, "name">> \in {s, z} \/ ents'[f][y] = ents[f][y]
    BY <2>1
  <2>4. \A q \in Proc : /\ <<q, "link">> \in {s, z} \/ LinkClaim(th'[q]) = LinkClaim(th[q])
                        /\ <<q, "unlink">> \in {s, z} \/ UnlinkClaim(th'[q]) = UnlinkClaim(th[q])
    BY <1>7, <1>9
  <2> HIDE DEF s, z
  <2>5. QED
    BY ONLY <2>2, <2>3, <2>4, ClaimsSame DEF c, e
<1>12. Covers(nlink, c) /\ nlink \in [Inum -> Int]
  BY DEF NameInv, TypeOK
<1> HIDE DEF c, e, s, z
<1>13. Covers(nlink, e)
  <2>1. c[s] \notin Inum /\ e[z] \notin Inum /\ Same(Claim, {z, s}, c, e) /\ e[s] = c[z]
    BY <1>10, <1>11, Finite DEF Same
  <2>2. QED
    BY ONLY <1>10, <1>12, <2>1, CoversMove
<1>14. DiskOK(type, nlink, ents')
  <2>1. DiskOK(type, nlink, ents)
    BY DEF NameInv
  <2>2. ents'[d]["."] = d
    <3>1. ents'[d]["."] = ents[d]["."]
      BY <1>4, <1>8 DEF Dots
    <3>2. QED
      BY <1>2, <2>1, <3>1 DEF DiskOK
  <2>3. QED
    BY <1>2, <1>8, <2>1, <2>2 DEF DiskOK
<1>15. Live(u, type) /\ Knows(u, type, ents')
  BY <1>1, <1>2, <1>5, <1>6 DEF Live, Knows, Linked
<1>16. ASSUME NEW q \in Proc \ {p} PROVE Live(th[q], type) /\ Knows(th[q], type, ents')
  <2>1. /\ th[q] \in Thread /\ Local(th[q]) /\ Live(th[q], type) /\ Knows(th[q], type, ents) /\ q # None
    BY ThreadKnows, Finite
  <2>2. Stage(th[q]) = "unlink2" => ents'[th[q].dp] = ents[th[q].dp]
    <3>1. Stage(th[q]) = "unlink2" => Held(th[q]) = th[q].dp /\ th[q].dp \in Inum /\ th[q].dp # None
      BY <2>1 DEF Held, Local, HasDp, Thread, Opt
    <3>2. Held(th[q]) # d
      BY <1>1, <1>2, <1>3, <2>1 DEF LocksOK
    <3>3. QED
      BY <1>8, <3>1, <3>2
  <2>3. QED
    BY ONLY <2>1, <2>2, KnowsStill
<1>17. LocksOK' /\ AssertionsHold' /\ CwdLive(cwd', type) /\ FipLive(fip', type)
  BY <1>1, <1>3, <1>7, LockKeep DEF AssertionsHold
<1>18. QED
  BY <1>3, <1>9, <1>13, <1>14, <1>15, <1>16, <1>17 DEF NameInv, e

LEMMA Link2Names ==
  ASSUME TypeOK, RefInv, NameInv, NEW p \in Proc, Link2(p)
  PROVE  NameInv'
BY Link2OldNames, Link2NewNames

-----------------------------------------------------------------------------
(* iput.                                                                   *)

\* The last reference to i is the one that p is about to drop.
LEMMA LastReference ==
  ASSUME TypeOK, RefInv, NEW p \in Proc, NEW i \in Inum, th[p].put = i, ref[i] = 1
  PROVE  /\ \A q \in Proc \ {p} : i \notin {th[q].at, th[q].dp, th[q].ip, th[q].put}
         /\ i \notin {th[p].at, th[p].dp, th[p].ip}
         /\ (\A q \in Proc : cwd[q] # i) /\ (\A f \in File : fip[f] # i)
<1> DEFINE c == TargetOf(th, fip, cwd)  s == <<p, "put">>
<1>1. \A q \in Proc : th[q] \in Thread
  BY DEF TypeOK
<1>2. \A q \in Proc, v \in {"at", "dp", "ip", "put"} : <<q, v>> \in Ptr /\ c[<<q, v>>] = th[q][v]
  BY DEF TargetOf, Ptr
<1>3. \A q \in Proc : <<q, "cwd">> \in Ptr /\ c[<<q, "cwd">>] = cwd[q]
  BY DEF TargetOf, Ptr
<1>4. \A f \in File : <<f, "file">> \in Ptr /\ c[<<f, "file">>] = fip[f]
  BY DEF TargetOf, Ptr
<1>5. \A q \in Proc : /\ th[q]["at"] = th[q].at /\ th[q]["dp"] = th[q].dp
                      /\ th[q]["ip"] = th[q].ip /\ th[q]["put"] = th[q].put
  BY <1>1, Fields
<1>6. Counts(Ptr, Inum, c, ref) /\ s \in Ptr /\ c[s] = i
  BY <1>2, <1>5 DEF RefInv, Target
<1> HIDE DEF c
<1>7. \A r \in Ptr : c[r] = i => r = s
  BY ONLY <1>6, i \in Inum, ref[i] = 1, Finite, CountsOne
<1>8. \A q \in Proc, v \in {"at", "dp", "ip", "put"} : th[q][v] = i => q = p /\ v = "put"
  <2>1. ASSUME NEW q \in Proc, NEW v \in {"at", "dp", "ip", "put"}, th[q][v] = i
        PROVE  q = p /\ v = "put"
    <3>1. <<q, v>> \in Ptr /\ c[<<q, v>>] = i
      BY <1>2, <2>1
    <3>2. <<q, v>> = <<p, "put">>
      BY <1>7, <3>1
    <3>3. QED
      BY <3>2
  <2>2. QED
    BY <2>1
<1>9. (\A q \in Proc : cwd[q] # i) /\ (\A f \in File : fip[f] # i)
  BY <1>3, <1>4, <1>7
<1>10. QED
  BY <1>5, <1>8, <1>9

\* An inode without links and names is freed, and its entries with it.
LEMMA FreeDisk ==
  ASSUME TypeOK, NameInv, NEW p \in Proc, NEW u, Set(p, u), NEW i \in Inum, nlink[i] = 0,
         type' = [type EXCEPT ![i] = "free"], ents' = [ents EXCEPT ![i] = NoEntries],
         LinkClaim(u) = LinkClaim(th[p]), UnlinkClaim(u) = UnlinkClaim(th[p])
  PROVE  Covers(nlink, ClaimsOf(type', ents', th')) /\ DiskOK(type', nlink, ents')
<1>1. /\ type'[i] = "free" /\ ents'[i] = NoEntries
      /\ \A f \in Inum \ {i} : type'[f] = type[f] /\ ents'[f] = ents[f]
  BY DEF TypeOK
<1>2. \A y \in Name : NoEntries[y] = None
  BY DEF NoEntries
<1>3. DiskOK(type', nlink, ents')
  BY <1>1 DEF NameInv, DiskOK
<1> DEFINE c == ClaimsOf(type, ents, th)
           e == ClaimsOf(type', ents', th')
<1>4. Covers(nlink, c) /\ nlink \in [Inum -> Int]
  BY DEF NameInv, TypeOK
<1>5. \A f \in Inum, y \in Name : <<<<f, y>>, "name">> \in Claim /\ c[<<<<f, y>>, "name">>] = ents[f][y]
  BY DEF ClaimsOf, Claim
<1>6. \A f \in Inum, y \in Name : ents[f][y] # i
  <2> HIDE DEF c
  <2>1. \A s \in Claim : c[s] # i
    BY <1>4, ClaimedLinks
  <2>2. QED
    BY <1>5, <2>1
<1>7. \A f \in Inum, y \in Name : ents'[f][y] = ents[f][y] \/ ents'[f][y] = None
  BY <1>1, <1>2
<1>8. \A f \in Inum, y \in Name :
         SubOf(type', ents', f, y) = SubOf(type, ents, f, y) \/ SubOf(type', ents', f, y) = None
  <2>1. \A y \in Name : SubOf(type', ents', i, y) = None
    BY <1>1, <1>2 DEF SubOf
  <2>2. ASSUME NEW f \in Inum \ {i}, NEW y \in Name
        PROVE  SubOf(type', ents', f, y) = SubOf(type, ents, f, y)
    <3>1. ents'[f][y] = ents[f][y] /\ ents[f][y] \in Opt /\ ents[f][y] # i
      BY <1>1, <1>6 DEF TypeOK
    <3>2. QED
      BY <1>1, <3>1 DEF SubOf, Opt
  <2>3. QED
    BY <2>1, <2>2
<1>9. \A q \in Proc : LinkClaim(th'[q]) = LinkClaim(th[q]) /\ UnlinkClaim(th'[q]) = UnlinkClaim(th[q])
  BY DEF Set, TypeOK
<1>10. \A s \in Claim : e[s] = c[s] \/ e[s] \notin Inum
  <2>1. ASSUME NEW f \in Inum, NEW y \in Name, NEW k \in {"name", "sub"}
        PROVE  e[<<<<f, y>>, k>>] = c[<<<<f, y>>, k>>] \/ e[<<<<f, y>>, k>>] \notin Inum
    <3>1. e[<<<<f, y>>, "name">>] = ents'[f][y] /\ c[<<<<f, y>>, "name">>] = ents[f][y]
      BY DEF ClaimsOf, Claim
    <3>2. /\ e[<<<<f, y>>, "sub">>] = SubOf(type', ents', f, y)
          /\ c[<<<<f, y>>, "sub">>] = SubOf(type, ents, f, y)
      BY DEF ClaimsOf, Claim
    <3> HIDE DEF c, e
    <3>3. CASE k = "name"
      BY <1>7, <3>1, <3>3, Finite
    <3>4. CASE k = "sub"
      BY <1>8, <3>2, <3>4, Finite
    <3>5. QED
      BY <3>3, <3>4
  <2>2. ASSUME NEW q \in Proc, NEW k \in {"link", "unlink"} PROVE e[<<q, k>>] = c[<<q, k>>]
    BY <1>9 DEF ClaimsOf, Claim
  <2>3. e[<<Root, "root">>] = c[<<Root, "root">>]
    BY DEF ClaimsOf, Claim
  <2> HIDE DEF c, e
  <2>4. ASSUME NEW s \in Claim PROVE e[s] = c[s] \/ e[s] \notin Inum
    <3>1. CASE s \in (Inum \X Name) \X {"name", "sub"}
      <4>1. PICK f \in Inum, y \in Name, k \in {"name", "sub"} : s = <<<<f, y>>, k>>
        BY <3>1
      <4>2. QED
        BY <2>1, <4>1
    <3>2. CASE s \in Proc \X {"link", "unlink"}
      <4>1. PICK q \in Proc, k \in {"link", "unlink"} : s = <<q, k>>
        BY <3>2
      <4>2. QED
        BY <2>2, <4>1
    <3>3. CASE s = <<Root, "root">>
      BY <2>3, <3>3
    <3>4. QED
      BY <3>1, <3>2, <3>3 DEF Claim
  <2>5. QED
    BY <2>4
<1> HIDE DEF c, e
<1>11. Covers(nlink, e)
  BY <1>4, <1>10, CoversLess
<1>12. QED
  BY <1>3, <1>11 DEF e

LEMMA IputNames ==
  ASSUME TypeOK, RefInv, NameInv, NEW p \in Proc, Iput(p)
  PROVE  NameInv'
<1> DEFINE t == th[p]  i == t.put  u == [t EXCEPT !.pc = "unref"]
<1>1. /\ t \in Thread /\ Local(t) /\ Live(t, type) /\ Knows(t, type, ents) /\ Plain(t.path)
      /\ CwdLive(cwd, type) /\ FipLive(fip, type) /\ LocksOK /\ AssertionsHold /\ t.pc = "iput"
  BY ThreadKnows DEF Iput, At
<1>2. i \in Inum /\ Stage(t) = t.ret
  BY <1>1 DEF Local, Stage, Puts, Thread, Opt
<1>3. /\ u.pc = "unref" /\ u.ret = t.ret /\ u.at = t.at /\ u.dp = t.dp /\ u.ip = t.ip
      /\ u.put = i /\ u.path = t.path /\ u.goal = t.goal
  BY <1>1 DEF Thread
<1>4. Set(p, u) /\ UNCHANGED <<nlink, lock, fip, cwd, panicked>>
  BY DEF Iput, files
<1> HIDE DEF u
<1>5. Stage(u) = Stage(t)
  BY <1>1, <1>3 DEF Stage, Puts
<1>6. LinkClaim(u) = LinkClaim(t) /\ UnlinkClaim(u) = UnlinkClaim(t) /\ Held(u) = Held(t)
  BY <1>3, <1>5 DEF LinkClaim, UnlinkClaim, Held, Linked
<1>7. Live(u, type) /\ Knows(u, type, ents)
  BY <1>1, <1>3, <1>5 DEF Live, Knows, Linked
<1>8. LocksOK' /\ AssertionsHold'
  BY <1>1, <1>4, <1>6, LockKeep DEF AssertionsHold
<1>9. CASE UNCHANGED <<type, ents>>
  BY <1>1, <1>4, <1>6, <1>7, <1>8, <1>9, NameStep
<1>10. CASE /\ nlink[i] = 0 /\ ref[i] = 1
            /\ type' = [type EXCEPT ![i] = "free"] /\ ents' = [ents EXCEPT ![i] = NoEntries]
  <2>1. Covers(nlink, ClaimsOf(type', ents', th')) /\ DiskOK(type', nlink, ents')
    BY <1>2, <1>4, <1>6, <1>10, FreeDisk
  <2>2. /\ \A q \in Proc \ {p} : i \notin {th[q].at, th[q].dp, th[q].ip, th[q].put}
        /\ i \notin {t.at, t.dp, t.ip}
        /\ (\A q \in Proc : cwd[q] # i) /\ (\A f \in File : fip[f] # i)
    BY <1>2, <1>10, LastReference
  <2>3. \A f \in Inum \ {i} : type'[f] = type[f] /\ ents'[f] = ents[f]
    BY <1>10 DEF TypeOK
  <2>4. ASSUME NEW q \in Proc \ {p} PROVE Live(th[q], type') /\ Knows(th[q], type', ents')
    <3>1. th[q] \in Thread /\ Local(th[q]) /\ Live(th[q], type) /\ Knows(th[q], type, ents)
      BY ThreadKnows
    <3>2. \A f \in Inum : type[f] # "free" /\ type'[f] # type[f]
                          => f \notin {th[q].at, th[q].dp, th[q].ip} /\ (th[q].pc = "iput" => f # th[q].put)
      BY <2>2, <2>3
    <3>3. Stage(th[q]) = "unlink2" => ents'[th[q].dp] = ents[th[q].dp]
      <4>1. Stage(th[q]) = "unlink2" => th[q].dp \in Inum
        BY <3>1 DEF Local, HasDp, Thread, Opt
      <4>2. QED
        BY <2>2, <2>3, <4>1
    <3>4. QED
      BY ONLY <3>1, <3>2, <3>3, KnowsStill
  <2>5. Live(u, type') /\ Knows(u, type', ents')
    <3>1. u \in Thread /\ Local(u)
      BY <1>1, <1>3, <1>5 DEF u, Thread, Puts, Local
    <3>2. \A f \in Inum : type[f] # "free" /\ type'[f] # type[f]
                          => f \notin {u.at, u.dp, u.ip} /\ (u.pc = "iput" => f # u.put)
      BY <1>3, <2>2, <2>3
    <3>3. Stage(u) = "unlink2" => ents'[u.dp] = ents[u.dp]
      <4>1. Stage(u) = "unlink2" => u.dp \in Inum
        BY <3>1 DEF Local, HasDp, Thread, Opt
      <4>2. QED
        BY <1>3, <2>2, <2>3, <4>1
    <3>4. QED
      BY ONLY <1>7, <3>1, <3>2, <3>3, KnowsStill
  <2>6. CwdLive(cwd', type') /\ FipLive(fip', type')
    BY <1>1, <1>4, <2>2, <2>3 DEF CwdLive, FipLive, TypeOK, Opt
  <2>7. th'[p] = u /\ \A q \in Proc \ {p} : th'[q] = th[q]
    BY <1>4 DEF Set, TypeOK
  <2>8. QED
    BY <1>4, <1>8, <2>1, <2>4, <2>5, <2>6, <2>7 DEF NameInv
<1>11. QED
  BY <1>9, <1>10 DEF Iput

-----------------------------------------------------------------------------
(* All the steps.                                                          *)

LEMMA InitNames ==
  ASSUME Init
  PROVE  NameInv
<1>1. \A l \in {"user", "gone"} :
         /\ Live(Idle(l), type) /\ Knows(Idle(l), type, ents)
         /\ LinkClaim(Idle(l)) = None /\ UnlinkClaim(Idle(l)) = None /\ Held(Idle(l)) = None
  BY IdleKnows
<1>2. \A q \in Proc : \E l \in {"user", "gone"} : th[q] = Idle(l)
  BY DEF Init
<1>3. \A q \in Proc : /\ Live(th[q], type) /\ Knows(th[q], type, ents)
                      /\ LinkClaim(th[q]) = None /\ UnlinkClaim(th[q]) = None /\ Held(th[q]) = None
  BY <1>1, <1>2
<1>4. DirOf(Root, Root)["."] = Root
  BY DEF DirOf, NoEntries, Dots
<1>5. \A y \in Name : DirOf(Root, Root)[y] = None /\ NoEntries[y] = None
  <2>1. \A y \in Name : y # "." /\ y # ".."
    BY FilesAssumption DEF Dots
  <2>2. QED
    BY <2>1 DEF DirOf, NoEntries, Dots
<1>6. DiskOK(type, nlink, ents)
  BY <1>4 DEF Init, DiskOK
<1>7. \A d \in Inum, y \in Name : ents[d][y] = None
  BY <1>5 DEF Init
<1>8. CwdLive(cwd, type) /\ FipLive(fip, type) /\ LocksOK /\ AssertionsHold
  BY <1>3, Finite DEF Init, CwdLive, FipLive, LocksOK, AssertionsHold
<1>9. Covers(nlink, ClaimsOf(type, ents, th))
  <2> DEFINE c == ClaimsOf(type, ents, th)  s == <<Root, "root">>
  <2>1. s \in Claim /\ c[s] = Root
    BY DEF ClaimsOf, Claim
  <2>2. \A r \in Claim \ {s} : c[r] = None
    BY <1>3, <1>7 DEF ClaimsOf, Claim, SubOf
  <2> HIDE DEF c, s
  <2>3. Where(Claim, c, Root) = {s} /\ \A i \in Inum \ {Root} : Where(Claim, c, i) = {}
    BY <2>1, <2>2, Finite DEF Where
  <2>4. Cardinality({s}) = 1 /\ Cardinality({}) = 0
    BY FS_Singleton, FS_EmptySet
  <2>5. nlink[Root] = 1 /\ \A i \in Inum \ {Root} : nlink[i] = 0
    BY Finite DEF Init
  <2>6. QED
    BY <2>3, <2>4, <2>5 DEF Covers, c
<1>10. QED
  BY <1>3, <1>6, <1>8, <1>9 DEF NameInv

LEMMA NextNames ==
  ASSUME TypeOK, RefInv, NameInv, NoAscent, [Next]_vars
  PROVE  NameInv'
<1>1. CASE UNCHANGED vars
  <2>1. UNCHANGED <<type, nlink, ents, lock, fip, cwd, th, panicked>>
    BY <1>1 DEF vars, disk, icache, files
  <2>2. QED
    BY <2>1 DEF NameInv, LocksOK, AssertionsHold
<1>2. ASSUME NEW p \in Proc, Kernel(p) PROVE NameInv'
  BY <1>2, IputNames, UnrefNames, WalkNames, OpenNames, CreateNames, CreatedNames, UnlinkNames,
     Unlink2Names, BadNames, Unlink3Names, LinkNames, Link2Names, BadLinkNames, ChdirNames,
     ExitCloseNames DEF Kernel
<1>3. ASSUME NEW p \in Proc, User(p) PROVE NameInv'
  BY <1>3, CallNames, DupNames, CloseNames, ForkNames, ExitNames DEF User
<1>4. QED
  BY <1>1, <1>2, <1>3 DEF Next

\* What the links are, what is free and what the threads know of it, in every
\* state that calls without ".." can reach.
THEOREM NameInvariance == ASSUME NoAscent PROVE Spec => []NameInv
<1>1. Init => NameInv
  BY InitNames
<1>2. TypeOK /\ RefInv /\ NameInv /\ [Next]_vars => NameInv'
  BY NextNames
<1>3. QED
  BY <1>1, <1>2, RefInvariance, PTL DEF Spec

\* No lookup, removal or lock meets an inode that was freed or reused under
\* it: the panics of ilock, dirlookup and sys_unlink are not reached
\* (fs.c:298, fs.c:521, sysfile.c:212), as long as no path ascends.
THEOREM AssertionsKept == ASSUME NoAscent PROVE Spec => []AssertionsHold
<1>1. NameInv => AssertionsHold
  BY DEF NameInv
<1>2. QED
  BY <1>1, NameInvariance, PTL

\* iput frees only what no directory names and nothing else refers to
\* (fs.c:338-346), as long as no path ascends.
THEOREM NothingFreedInUse == ASSUME NoAscent PROVE Spec => []NotFreedInUse
<1>1. TypeOK /\ RefInv /\ NameInv => NotFreedInUse
  <2> SUFFICES ASSUME TypeOK, RefInv, NameInv, NEW i \in Inum, type[i] = "free"
               PROVE  /\ \A d \in Inum, x \in Name : ents[d][x] # i
                      /\ \A pv \in Pointers(i) : pv[2] = "put" /\ th[pv[1]].pc = "unref"
    BY DEF NotFreedInUse
  <2>1. \A d \in Inum, x \in Name : ents[d][x] # i
    BY FreeUnused
  <2>2. i # None
    BY Finite
  <2>3. (\A q \in Proc : cwd[q] # i) /\ (\A f \in File : fip[f] # i)
    BY <2>2 DEF NameInv, CwdLive, FipLive
  <2>4. ASSUME NEW q \in Proc, NEW v \in {"at", "dp", "ip", "put"}, th[q][v] = i
        PROVE  v = "put" /\ th[q].pc = "unref"
    <3>1. th[q] \in Thread /\ Local(th[q]) /\ Live(th[q], type)
      BY ThreadKnows
    <3>2. /\ th[q]["at"] = th[q].at /\ th[q]["dp"] = th[q].dp
          /\ th[q]["ip"] = th[q].ip /\ th[q]["put"] = th[q].put
      BY <3>1, Fields
    <3>3. th[q].at # i /\ th[q].dp # i /\ th[q].ip # i
      BY <2>2, <3>1 DEF Live
    <3>4. v = "put" /\ th[q].put = i
      BY <2>4, <3>2, <3>3
    <3>5. th[q].pc \in Puts /\ th[q].pc # "iput"
      BY <2>2, <3>1, <3>4 DEF Live, Local
    <3>6. QED
      BY <3>4, <3>5 DEF Puts
  <2>5. ASSUME NEW pv \in Pointers(i) PROVE pv[2] = "put" /\ th[pv[1]].pc = "unref"
    <3>1. pv \in Proc \X {"at", "dp", "ip", "put"} /\ th[pv[1]][pv[2]] = i
      BY <2>3 DEF Pointers
    <3>2. QED
      BY <2>4, <3>1
  <2>6. QED
    BY <2>1, <2>5
<1>2. QED
  BY <1>1, RefInvariance, NameInvariance, PTL

LEMMA Tagged ==
  ASSUME NEW S, IsFiniteSet(S), NEW k
  PROVE  /\ IsFiniteSet(S \X {k}) /\ Cardinality(S \X {k}) = Cardinality(S)
         /\ Cardinality(S) \in Nat
<1>1. IsFiniteSet({k}) /\ Cardinality({k}) = 1 /\ Cardinality(S) \in Nat
  BY FS_Singleton, FS_CardinalityType
<1>2. IsFiniteSet(S \X {k}) /\ Cardinality(S \X {k}) = Cardinality(S) * Cardinality({k})
  BY ONLY <1>1, IsFiniteSet(S), FS_Product
<1>3. Cardinality(S) * 1 = Cardinality(S)
  BY <1>1
<1>4. QED
  BY <1>1, <1>2, <1>3

LEMMA Apart ==
  ASSUME NEW S, IsFiniteSet(S), NEW T, IsFiniteSet(T), S \cap T = {}
  PROVE  IsFiniteSet(S \cup T) /\ Cardinality(S \cup T) = Cardinality(S) + Cardinality(T)
<1>1. Cardinality(S) \in Nat /\ Cardinality(T) \in Nat /\ Cardinality(S \cap T) = 0
  BY FS_CardinalityType, FS_EmptySet
<1>2. /\ IsFiniteSet(S \cup T)
      /\ Cardinality(S \cup T) = Cardinality(S) + Cardinality(T) - Cardinality(S \cap T)
  BY ONLY IsFiniteSet(S), IsFiniteSet(T), FS_Union
<1>3. Cardinality(S \cup T) = Cardinality(S) + Cardinality(T)
  BY <1>1, <1>2
<1>4. QED
  BY <1>2, <1>3

\* nlink covers the names, the subdirectories and the links on their way
\* (sysfile.c:140, sysfile.c:228-236), as long as no path ascends.
THEOREM NamesKept == ASSUME NoAscent PROVE Spec => []NamesCounted
<1>1. TypeOK /\ RefInv /\ NameInv => NamesCounted
  <2> SUFFICES ASSUME TypeOK, RefInv, NameInv, NEW i \in Inum
               PROVE  nlink[i] >= Cardinality(Names(i)) + Cardinality(Subdirs(i))
                                  + Cardinality(Linking(i)) + Cardinality(Unlinking(i))
    BY DEF NamesCounted
  <2> DEFINE c == ClaimsOf(type, ents, th)
             N == Names(i) \X {"name"}
             D == ({i} \X Subdirs(i)) \X {"sub"}
             L == Linking(i) \X {"link"}
             U == Unlinking(i) \X {"unlink"}
  <2>1. i # None /\ IsFiniteSet(Inum \X Name) /\ IsFiniteSet(Name) /\ IsFiniteSet(Proc)
    BY Finite, FilesAssumption
  <2>2. /\ IsFiniteSet(Names(i)) /\ IsFiniteSet(Subdirs(i)) /\ IsFiniteSet(Linking(i))
        /\ IsFiniteSet(Unlinking(i))
    BY <2>1, FS_Subset DEF Names, Subdirs, Linking, Unlinking
  <2>3. IsFiniteSet({i} \X Subdirs(i)) /\ Cardinality({i} \X Subdirs(i)) = Cardinality(Subdirs(i))
    <3>1. IsFiniteSet({i}) /\ Cardinality({i}) = 1 /\ Cardinality(Subdirs(i)) \in Nat
      BY <2>2, FS_Singleton, FS_CardinalityType
    <3>2. IsFiniteSet({i} \X Subdirs(i))
          /\ Cardinality({i} \X Subdirs(i)) = Cardinality({i}) * Cardinality(Subdirs(i))
      BY ONLY <2>2, <3>1, FS_Product
    <3>3. 1 * Cardinality(Subdirs(i)) = Cardinality(Subdirs(i))
      BY <3>1
    <3>4. QED
      BY <3>1, <3>2, <3>3
  <2>4. /\ IsFiniteSet(N) /\ Cardinality(N) = Cardinality(Names(i)) /\ Cardinality(N) \in Nat
        /\ IsFiniteSet(D) /\ Cardinality(D) = Cardinality(Subdirs(i)) /\ Cardinality(D) \in Nat
        /\ IsFiniteSet(L) /\ Cardinality(L) = Cardinality(Linking(i)) /\ Cardinality(L) \in Nat
        /\ IsFiniteSet(U) /\ Cardinality(U) = Cardinality(Unlinking(i)) /\ Cardinality(U) \in Nat
    BY <2>2, <2>3, Tagged
  <2>5. \A p \in Linking(i) : LinkClaim(th[p]) = i
    <3>1. ASSUME NEW p \in Linking(i) PROVE LinkClaim(th[p]) = i
      <4>1. p \in Proc /\ th[p].ip = i /\ th[p].goal = "link2" /\ th[p].ret # "put_ip"
        BY DEF Linking
      <4>2. Local(th[p])
        BY <4>1, ThreadKnows
      <4>3. Stage(th[p]) \in {"walk", "link2", "link_bad", "bad"}
        BY <2>1, <4>1, <4>2 DEF Local, HasIp, HasDp, Goal, Stage
      <4>4. QED
        BY <4>1, <4>3 DEF LinkClaim, Linked
    <3>2. QED
      BY <3>1
  <2>6. \A p \in Unlinking(i) : UnlinkClaim(th[p]) = i
    <3>1. ASSUME NEW p \in Unlinking(i) PROVE UnlinkClaim(th[p]) = i
      <4>1. p \in Proc /\ th[p].ip = i /\ "unlink3" \in {th[p].pc, th[p].ret}
        BY DEF Unlinking
      <4>2. Local(th[p])
        BY <4>1, ThreadKnows
      <4>3. Stage(th[p]) = "unlink3"
        BY <4>1, <4>2 DEF Local, Stage, Puts
      <4>4. QED
        BY <4>1, <4>3 DEF UnlinkClaim
    <3>2. QED
      BY <3>1
  <2>7. N \subseteq Where(Claim, c, i)
    BY DEF Names, Where, ClaimsOf, Claim
  <2>8. D \subseteq Where(Claim, c, i)
    BY DEF Subdirs, Where, ClaimsOf, Claim, SubOf
  <2>9. L \subseteq Where(Claim, c, i)
    BY <2>5 DEF Linking, Where, ClaimsOf, Claim
  <2>10. U \subseteq Where(Claim, c, i)
    BY <2>6 DEF Unlinking, Where, ClaimsOf, Claim
  <2>11. N \cap D = {} /\ (N \cup D) \cap L = {} /\ (N \cup D \cup L) \cap U = {}
    OBVIOUS
  <2>12. Covers(nlink, c) /\ nlink[i] \in Int
    BY DEF NameInv, TypeOK
  <2>13. IsFiniteSet(Where(Claim, c, i)) /\ Cardinality(Where(Claim, c, i)) \in Nat
    BY ClaimFinite, WhereFinite
  <2> HIDE DEF c, N, D, L, U
  <2>14. IsFiniteSet(N \cup D) /\ Cardinality(N \cup D) = Cardinality(N) + Cardinality(D)
    BY <2>4, <2>11, Apart
  <2>15. IsFiniteSet(N \cup D \cup L) /\ Cardinality(N \cup D \cup L) = Cardinality(N \cup D) + Cardinality(L)
    BY <2>4, <2>11, <2>14, Apart
  <2>16. Cardinality(N \cup D \cup L \cup U) = Cardinality(N \cup D \cup L) + Cardinality(U)
    BY <2>4, <2>11, <2>15, Apart
  <2>17. Cardinality(N \cup D \cup L \cup U) <= Cardinality(Where(Claim, c, i))
    BY <2>7, <2>8, <2>9, <2>10, <2>13, FS_Subset
  <2>18. nlink[i] >= Cardinality(Where(Claim, c, i))
    BY <2>12 DEF Covers
  <2>19. QED
    BY <2>4, <2>12, <2>13, <2>14, <2>15, <2>16, <2>17, <2>18
<1>2. QED
  BY <1>1, RefInvariance, NameInvariance, PTL
=============================================================================
