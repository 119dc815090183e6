------------------------------- MODULE Console -------------------------------
(***************************************************************************)
(* The console's input of xv6 (console.c): the interrupt that edits and    *)
(* enters lines in a ring buffer, and the processes that read them.  One   *)
(* step is one character of an interrupt, or what a reader does between    *)
(* two waits; both hold cons.lock.  A reader keeps it from its test of     *)
(* p->killed until it sleeps, and kill, which takes ptable.lock alone, may *)
(* come between the two.                                                   *)
(***************************************************************************)
EXTENDS Integers, Sequences

CONSTANTS Proc, None,
          INPUT_BUF, \* characters of the buffer
          WORD,      \* 2^32: the indices wrap around
          Plain,     \* characters that are only themselves
          MaxN       \* bound: characters of one read

\* C('D') and '\n', which enter the line, C('U') and C('H'), which edit it.
Enters == {"^D", "\n"}
Keys   == Plain \cup Enters \cup {"^U", "^H"}

VARIABLES
  buf, r, w, e,  \* input: what is read next, entered up to, typed up to
  pc,            \* pc[p]: "user", "read", "sleep" (it is about to),
                 \* "asleep" on &input.r, "done"
  want,          \* want[p]: n, how much p's read still wants
  got,           \* got[p]: what p's read has copied
  killed         \* the processes with p->killed

vars == <<buf, r, w, e, pc, want, got, killed>>

Init ==
  /\ buf = [k \in 0 .. INPUT_BUF - 1 |-> "0"]
  /\ r = 0 /\ w = 0 /\ e = 0
  /\ pc = [p \in Proc |-> "user"]
  /\ want = [p \in Proc |-> 0] /\ got = [p \in Proc |-> <<>>]
  /\ killed = {}

\* The characters from index a up to b.
Chars(a, b) == [k \in 1 .. (b - a) % WORD |-> buf[((a + k - 1) % WORD) % INPUT_BUF]]

\* Nobody is between its test and its sleep, with cons.lock.
Unlocked == \A p \in Proc : pc[p] # "sleep"

WakeReaders == pc' = [p \in Proc |-> IF pc[p] = "asleep" THEN "read" ELSE pc[p]]

-----------------------------------------------------------------------------
(* consoleintr.                                                            *)

\* C('U') erases back to the last line's end or to what is entered.
KillLine ==
  LET line == Chars(w, e)
      keep == {k \in 0 .. Len(line) : k = 0 \/ line[k] = "\n"} IN
  /\ e' = (w + CHOOSE k \in keep : \A j \in keep : j <= k) % WORD
  /\ UNCHANGED <<buf, r, w, pc, want, got, killed>>

\* A variant: C('H') does not stop at what is entered.
Backspace_PastEntered ==
  /\ e # r
  /\ e' = (e - 1) % WORD
  /\ UNCHANGED <<buf, r, w, pc, want, got, killed>>

Backspace ==
  /\ e # w
  /\ e' = (e - 1) % WORD
  /\ UNCHANGED <<buf, r, w, pc, want, got, killed>>

\* Any other character, while there is room; a full buffer is entered as it is.
Store(c) ==
  /\ (e - r) % WORD < INPUT_BUF
  /\ buf' = [buf EXCEPT ![e % INPUT_BUF] = c]
  /\ e' = (e + 1) % WORD
  /\ IF c \in Enters \/ e' = (r + INPUT_BUF) % WORD
     THEN w' = e' /\ WakeReaders
     ELSE UNCHANGED <<w, pc>>
  /\ UNCHANGED <<r, want, got, killed>>

Intr == Unlocked /\ (KillLine \/ Backspace \/ \E c \in Plain \cup Enters : Store(c))

-----------------------------------------------------------------------------
(* consoleread.                                                            *)

Call(p) ==
  /\ pc[p] = "user" /\ p \notin killed
  /\ \E n \in 0 .. MaxN : want' = [want EXCEPT ![p] = n]
  /\ pc' = [pc EXCEPT ![p] = "read"]
  /\ UNCHANGED <<buf, r, w, e, got, killed>>

\* How many characters the loop copies before it ends, meets C('D') or finds
\* no more.
Copied(p) ==
  LET in == Chars(r, w)
      may == {k \in 0 .. want[p] : /\ k <= Len(in)
                                   /\ \A j \in 1 .. k : in[j] # "^D"
                                   /\ \A j \in 1 .. k - 1 : in[j] # "\n"} IN
  CHOOSE k \in may : \A j \in may : j <= k

\* A C('D') that is not the first character of the read stays for the next.
Read(p) ==
  /\ pc[p] = "read" /\ Unlocked
  /\ LET in == Chars(r, w)
         k == Copied(p)
         ended == k = want[p] \/ (k > 0 /\ in[k] = "\n")
         eof == ~ended /\ k < Len(in)
         first == got[p] = <<>> /\ k = 0
         killedNow == ~ended /\ ~eof /\ p \in killed IN
     /\ r' = (r + IF eof /\ first THEN 1 ELSE k) % WORD
     /\ got' = [got EXCEPT ![p] = @ \o SubSeq(in, 1, k)]
     /\ want' = [want EXCEPT ![p] = @ - k]
     /\ pc' = [pc EXCEPT ![p] = IF ended \/ eof \/ killedNow THEN "done" ELSE "sleep"]
  /\ UNCHANGED <<buf, w, e, killed>>

\* sleep: cons.lock is released as p becomes SLEEPING, under ptable.lock.
Sleep(p) ==
  /\ pc[p] = "sleep"
  /\ pc' = [pc EXCEPT ![p] = "asleep"]
  /\ UNCHANGED <<buf, r, w, e, want, got, killed>>

\* The value is returned; a killed process exits instead of another call.
Return(p) ==
  /\ pc[p] = "done"
  /\ pc' = [pc EXCEPT ![p] = "user"]
  /\ want' = [want EXCEPT ![p] = 0] /\ got' = [got EXCEPT ![p] = <<>>]
  /\ UNCHANGED <<buf, r, w, e, killed>>

\* kill wakes p, which looks at p->killed before it sleeps again; a p that is
\* only about to sleep it does not wake.
Kill(p) ==
  /\ killed' = killed \cup {p}
  /\ pc' = [pc EXCEPT ![p] = IF @ = "asleep" THEN "read" ELSE @]
  /\ UNCHANGED <<buf, r, w, e, want, got>>

Next == Intr \/ \E p \in Proc : Call(p) \/ Read(p) \/ Sleep(p) \/ Return(p) \/ Kill(p)

Spec == Init /\ [][Next]_vars

-----------------------------------------------------------------------------
(* Properties.                                                             *)

\* Nobody sleeps while there is something to read, also when a kill has come
\* between its test and its sleep; and a buffer without room has something to
\* read: typing never stops for good.
ReadersAwake ==
  /\ \A p \in Proc : pc[p] = "asleep" => r = w
  /\ (e - r) % WORD = INPUT_BUF => w # r

Terminal == INSTANCE Tty WITH
  Char <- Keys, Eof <- "^D", line <- Chars(w, e), ready <- Chars(r, w)

\* Lines are edited until they are entered and read once, in order.
ImplementsTty == Terminal!Spec
=============================================================================
