------------------------------ MODULE Notakto -------------------------------
(***************************************************************************)
(* The game of game_theory_algos/alpha_beta_pruning/q2.py: both players    *)
(* mark squares of BOARDS boards with the same mark, a board with three in *)
(* a row is dead, and who kills the last one loses.  maxmin remembers the  *)
(* boards it has valued; alpha_beta_pruning cuts branches off.             *)
(*                                                                         *)
(* The state is a History: the marked squares, whose number says whose     *)
(* turn it is.  A step is update_history.                                  *)
(***************************************************************************)
EXTENDS Integers, FiniteSets, Sequences, SequencesExt, FiniteSetsExt

CONSTANTS BOARDS

Inf == 2   \* beyond every value

VARIABLE marked

Row == {{0, 1, 2}, {3, 4, 5}, {6, 7, 8}, {0, 3, 6}, {1, 4, 7}, {2, 5, 8}, {0, 4, 8}, {2, 4, 6}}

\* is_board_win and check_active_boards.
Active(m) ==
  {b \in 0 .. BOARDS - 1 : \A r \in Row : \E k \in r : 9 * b + k \notin m}

\* get_current_player is 1 or 2; who is to move when the game ends has won.
IsTerminal(m) == Active(m) = {}
IsMax(m) == Cardinality(m) % 2 = 0
TerminalValue(m) == IF IsMax(m) THEN 1 ELSE -1

\* get_valid_actions: the squares of boards that live, first the middles, then
\* the corners, then the others.
Ordered(K) == SetToSortSeq({9 * b + k : b \in 0 .. BOARDS - 1, k \in K}, <)
Order == Ordered({4}) \o Ordered({0, 2, 6, 8}) \o Ordered({1, 3, 5, 7})
ValidActions(m) == SelectSeq(Order, LAMBDA s : s \div 9 \in Active(m) /\ s \notin m)

Init == marked = {}
Move == /\ ~IsTerminal(marked)
        /\ \E k \in DOMAIN ValidActions(marked) : marked' = marked \cup {ValidActions(marked)[k]}
Spec == Init /\ [][Move]_marked

-----------------------------------------------------------------------------
(* The two searches.                                                       *)

\* A variant: the cut looks at the other bound.
Cut_OtherBound(max, value, alpha, beta) == IF max THEN value >= alpha ELSE value <= beta

\* The loop over the actions ends when the other player would not come here.
Cut(max, value, alpha, beta) == IF max THEN value >= beta ELSE value <= alpha

RECURSIVE AlphaBeta(_, _, _, _), Search(_, _, _, _, _, _)
AlphaBeta(m, alpha, beta, max) ==
  IF IsTerminal(m) THEN TerminalValue(m)
  ELSE Search(m, ValidActions(m), IF max THEN -Inf ELSE Inf, alpha, beta, max)
Search(m, actions, value, alpha, beta, max) ==
  IF actions = <<>> THEN value
  ELSE LET child == AlphaBeta(m \cup {Head(actions)}, alpha, beta, ~max)
           v == IF max = (child > value) /\ child # value THEN child ELSE value
           a == IF max THEN Max({alpha, child}) ELSE alpha
           b == IF max THEN beta ELSE Min({beta, child}) IN
       IF Cut(max, v, a, b) THEN v ELSE Search(m, Tail(actions), v, a, b, max)

\* maxmin: value and what is remembered, from the boards that are.
RECURSIVE MaxMin(_, _, _), Values(_, _, _, _, _)
MaxMin(m, max, dict) ==
  IF m \in DOMAIN dict THEN <<dict[m], dict>>
  ELSE IF IsTerminal(m) THEN <<TerminalValue(m), dict>>
  ELSE LET r == Values(m, ValidActions(m), IF max THEN -Inf ELSE Inf, max, dict) IN
       <<r[1], [x \in DOMAIN r[2] \cup {m} |-> IF x = m THEN r[1] ELSE r[2][x]]>>
Values(m, actions, value, max, dict) ==
  IF actions = <<>> THEN <<value, dict>>
  ELSE LET r == MaxMin(m \cup {Head(actions)}, ~max, dict)
           v == IF max THEN Max({value, r[1]}) ELSE Min({value, r[1]}) IN
       Values(m, Tail(actions), v, max, r[2])

-----------------------------------------------------------------------------
(* Properties.                                                             *)

\* The value of the game for player 1.
RECURSIVE Wins(_)
Wins(m) ==
  IF IsTerminal(m) THEN IsMax(m)
  ELSE LET to == {m \cup {ValidActions(m)[k]} : k \in DOMAIN ValidActions(m)} IN
       IF IsMax(m) THEN \E x \in to : Wins(x) ELSE \A x \in to : Wins(x)

\* Both searches find from every position of the game who wins it, with the
\* branches that are cut off and the boards that are remembered.
SearchesAgree ==
  LET value == IF Wins(marked) THEN 1 ELSE -1 IN
  /\ AlphaBeta(marked, -Inf, Inf, IsMax(marked)) = value
  /\ MaxMin(marked, IsMax(marked), <<>>)[1] = value
=============================================================================
