----------------------------- MODULE ByteQueue -----------------------------
(***************************************************************************)
(* What a pipe promises: a bounded queue of bytes.  Each byte written is   *)
(* read once and in order, and a reader is told the end of file only when  *)
(* nobody can write any more and everything written has been read.         *)
(***************************************************************************)
EXTENDS Naturals, Sequences

CONSTANTS Proc, Byte,
          N            \* the most bytes the queue holds

VARIABLES q,      \* the bytes written and not yet read
          got,    \* got[p]: the bytes that p's read has received
          eof,    \* the processes that are told the end of file
          open    \* somebody may still write

vars == <<q, got, eof, open>>

Init ==
  /\ q = <<>> /\ open = TRUE
  /\ got = [p \in Proc |-> <<>>] /\ eof = {}

Put ==
  /\ open /\ Len(q) < N
  /\ \E b \in Byte : q' = Append(q, b)
  /\ UNCHANGED <<got, eof, open>>

Get(p) ==
  /\ q # <<>>
  /\ got' = [got EXCEPT ![p] = Append(@, Head(q))]
  /\ q' = Tail(q)
  /\ UNCHANGED <<eof, open>>

EndOfFile(p) ==
  /\ q = <<>> /\ ~open
  /\ eof' = eof \cup {p}
  /\ UNCHANGED <<q, got, open>>

\* p's read is over, or p makes another one.
Return(p) ==
  /\ got' = [got EXCEPT ![p] = <<>>]
  /\ eof' = eof \ {p}
  /\ UNCHANGED <<q, open>>

Close ==
  /\ open' = FALSE
  /\ UNCHANGED <<q, got, eof>>

Next == Put \/ Close \/ \E p \in Proc : Get(p) \/ EndOfFile(p) \/ Return(p)

Spec == Init /\ [][Next]_vars
=============================================================================
