-------------------------------- MODULE Tty --------------------------------
(***************************************************************************)
(* What the console promises: a line may be edited until it is entered;    *)
(* what is entered is read once, in order, and no more than what a reader  *)
(* took is gone.                                                           *)
(***************************************************************************)
EXTENDS Integers, Sequences

CONSTANTS Proc, Char,
          Eof      \* the character that ends a file and is not handed out

VARIABLES line,    \* what is typed and not yet entered
          ready,   \* what is entered and not yet read
          got      \* got[p]: what p's read has

vars == <<line, ready, got>>

Init == line = <<>> /\ ready = <<>> /\ got = [p \in Proc |-> <<>>]

Type(c)  == line' = Append(line, c) /\ UNCHANGED <<ready, got>>
Enter(c) == ready' = ready \o Append(line, c) /\ line' = <<>> /\ UNCHANGED got
Erase(k) == line' = SubSeq(line, 1, Len(line) - k) /\ UNCHANGED <<ready, got>>

\* p takes k characters, and an Eof if it is the first it finds.
Take(p, k) ==
  /\ \A j \in 1 .. k : ready[j] # Eof
  /\ got' = [got EXCEPT ![p] = @ \o SubSeq(ready, 1, k)]
  /\ ready' = SubSeq(ready, k + 1, Len(ready))
  /\ UNCHANGED line

TakeEof(p) ==
  /\ ready # <<>> /\ Head(ready) = Eof /\ got[p] = <<>>
  /\ ready' = Tail(ready)
  /\ UNCHANGED <<line, got>>

Return(p) == got' = [got EXCEPT ![p] = <<>>] /\ UNCHANGED <<line, ready>>

Next ==
  \/ \E c \in Char : Type(c) \/ Enter(c)
  \/ \E k \in 0 .. Len(line) : Erase(k)
  \/ \E p \in Proc : \/ TakeEof(p) \/ Return(p)
                     \/ \E k \in 0 .. Len(ready) : Take(p, k)

Spec == Init /\ [][Next]_vars
=============================================================================
