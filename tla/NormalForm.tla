----------------------------- MODULE NormalForm -----------------------------
(***************************************************************************)
(* The equilibria of a game in normal form (game_theory_algos/normal_form/ *)
(* q1.py): strongly and weakly dominant strategies by recursion over the   *)
(* flat payoffs of the game file, and the pure Nash equilibria by          *)
(* comparing cells of a matrix that is made from them.  Players and        *)
(* strategies count from 0.                                                *)
(***************************************************************************)
EXTENDS Integers, Sequences, SequencesExt, FiniteSets

CONSTANT Game   \* of the games, [strategies, data]: how many each player
                \* has, and the payoffs as they stand in the file

VARIABLE game

Init == game \in Game
Spec == Init /\ [][FALSE]_game

num        == Len(game.strategies)
Players    == [k \in 1 .. num |-> k - 1]
Of(p)      == 0 .. game.strategies[p + 1] - 1
Profiles   == {x \in [1 .. num -> UNION {Of(p) : p \in ToSet(Players)}] :
                 \A k \in 1 .. num : x[k] \in Of(k - 1)}

\* multiplier, and sel_index: where player p's payoff for args is.
RECURSIVE Multiplier(_), Sum(_, _)
Multiplier(k) == IF k = 1 THEN 1 ELSE game.strategies[k - 1] * Multiplier(k - 1)
Sum(args, k) == IF k = 0 THEN 0 ELSE Sum(args, k - 1) + args[k] * Multiplier(k)
SelIndex(p, args) == p + num * Sum(args, num)

\* What the others may play, in the order of the recursion.
Others(p) ==
  FoldLeft(LAMBDA seq, q : FlattenSeq([k \in DOMAIN seq |->
                             [s \in 1 .. game.strategies[q + 1] |-> Append(seq[k], s - 1)]]),
           <<<<>>>>, SelectSeq(Players, LAMBDA q : q # p))

\* p's best strategies when the others play so.
Payoff(p, others, s) == game.data[1 + SelIndex(p, InsertAt(others, p + 1, s))]
Best(p, others) == {s \in Of(p) : \A x \in Of(p) : Payoff(p, others, x) <= Payoff(p, others, s)}

NoEq == -2   \* -sys.maxsize

\* A call at the end of the recursion: the best strategy, if there is only
\* one, and the one found before.
StrongStep(p, eq, others) ==
  LET best == Best(p, others) IN
  IF \E s \in best : best = {s} /\ eq \in {-1, s} THEN CHOOSE s \in best : TRUE ELSE NoEq

StronglyDominant(p) ==
  FoldLeft(LAMBDA eq, others : IF eq = NoEq THEN NoEq ELSE StrongStep(p, eq, others), -1, Others(p))

\* The same with all best strategies, {-1} at first and {} when there is none.
WeaklyDominant(p) ==
  FoldLeft(LAMBDA eq, others : IF eq = {-1} THEN Best(p, others) ELSE eq \cap Best(p, others),
           {-1}, Others(p))

\* make_util_matrix: the cells in the order of the reversed axes, transposed.
RECURSIVE Cell(_, _)
Cell(x, k) == IF k > num THEN 0 ELSE x[k] + game.strategies[k] * Cell(x, k + 1)
UtilMatrix == [x \in Profiles |-> SubSeq(game.data, num * Cell(x, 1) + 1, num * Cell(x, 1) + num)]

\* psne_gen: for each player, check among the profiles that differ there only.
Check(u, x, k) ==
  \A y \in DOMAIN u : (\A j \in 1 .. num : y[j] = x[j] \/ j = k) => u[y][k] <= u[x][k]
Psne(u) == {x \in DOMAIN u : Cardinality({k \in 1 .. num : Check(u, x, k)}) = num}

-----------------------------------------------------------------------------
(* Properties.                                                             *)

\* The flat search and the matrix find what the words say: a strategy is
\* strongly dominant when it is better than each other one whatever the others
\* play, weakly when no other one is ever better; and such strategies make up
\* an equilibrium, in the first case the only one.
EquilibriaAreRight ==
  LET strong == [p \in ToSet(Players) |-> StronglyDominant(p)]
      weak   == [p \in ToSet(Players) |-> WeaklyDominant(p)]
      u      == UtilMatrix
      psne   == Psne(u)
      With(x, p, s) == u[[x EXCEPT ![p + 1] = s]][p + 1] IN
  /\ \A p \in ToSet(Players) : \A s \in Of(p) :
       /\ strong[p] = s <=>
            \A x \in DOMAIN u, t \in Of(p) \ {s} : With(x, p, t) < With(x, p, s)
       /\ s \in weak[p] <=>
            \A x \in DOMAIN u, t \in Of(p) : With(x, p, t) <= With(x, p, s)
  /\ \A x \in DOMAIN u : (\A p \in ToSet(Players) : x[p + 1] \in weak[p]) => x \in psne
  /\ (\A p \in ToSet(Players) : strong[p] # NoEq) => psne = {[k \in 1 .. num |-> strong[k - 1]]}
=============================================================================
