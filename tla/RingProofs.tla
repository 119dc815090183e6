----------------------------- MODULE RingProofs -----------------------------
(***************************************************************************)
(* Proofs about modules Pipe and Console, two ring buffers whose counters  *)
(* wrap around, for any number of processes and every size of the buffer.  *)
(* The pipe is a queue, who closes an end last frees it, and no wakeup is  *)
(* lost; the console hands out lines as they were entered, and no reader   *)
(* sleeps while there is one.                                              *)
(***************************************************************************)
EXTENDS Pipe, FiniteSetTheorems, SequenceTheorems, TLAPS

-----------------------------------------------------------------------------
(* Remainders.                                                             *)

LEMMA DivMod ==
  ASSUME NEW a \in Int, NEW m \in Nat, m > 0
  PROVE  /\ a \div m \in Int /\ a % m \in 0 .. m - 1
         /\ a = (a \div m) * m + (a % m)
OBVIOUS

LEMMA ModUnique ==
  ASSUME NEW m \in Nat, m > 0, NEW q \in Int, NEW d \in Int, NEW r \in 0 .. m - 1,
         NEW s \in 0 .. m - 1, q * m + r = d * m + s
  PROVE  r = s
<1>1. CASE d < q
  <2>1. (q - d - 1) * m >= 0
    BY <1>1
  <2>2. (q - d - 1) * m = q * m - d * m - m
    OBVIOUS
  <2>3. QED
    BY <1>1, <2>1, <2>2
<1>2. CASE q < d
  <2>1. (d - q - 1) * m >= 0
    BY <1>2
  <2>2. (d - q - 1) * m = d * m - q * m - m
    OBVIOUS
  <2>3. QED
    BY <1>2, <2>1, <2>2
<1>3. QED
  BY <1>1, <1>2

LEMMA ModPlus ==
  ASSUME NEW a \in Int, NEW m \in Nat, m > 0, NEW k \in Int
  PROVE  (a + k * m) % m = a % m
<1> DEFINE q == a \div m  r == a % m  d == (a + k * m) \div m  s == (a + k * m) % m
<1>1. /\ q \in Int /\ r \in 0 .. m - 1 /\ a = q * m + r
      /\ d \in Int /\ s \in 0 .. m - 1 /\ a + k * m = d * m + s
  BY DivMod
<1> HIDE DEF q, r, d, s
<1>2. (q + k) * m + r = d * m + s
  BY <1>1
<1>3. r = s
  BY <1>1, <1>2, ModUnique
<1>4. QED
  BY <1>3 DEF r, s

LEMMA ModSame ==
  ASSUME NEW a \in Int, NEW m \in Nat, m > 0, NEW d \in 0 .. m - 1, (a + d) % m = a % m
  PROVE  d = 0
<1> DEFINE q == a \div m  r == a % m  e == (a + d) \div m  s == (a + d) % m
<1>1. /\ q \in Int /\ r \in 0 .. m - 1 /\ a = q * m + r
      /\ e \in Int /\ s \in 0 .. m - 1 /\ a + d = e * m + s /\ s = r
  BY DivMod
<1> HIDE DEF q, r, e, s
<1>2. q * m + d = e * m + 0
  BY <1>1
<1>3. QED
  BY <1>1, <1>2, ModUnique

LEMMA WrapOnce ==
  ASSUME NEW m \in Nat, m > 0, NEW a \in Int, -m <= a, a < 2 * m
  PROVE  a % m = IF a < 0 THEN a + m ELSE IF a < m THEN a ELSE a - m
<1>1. a % m \in 0 .. m - 1 /\ a \div m \in Int /\ a = (a \div m) * m + (a % m)
  BY DivMod
<1>2. CASE a < 0
  <2>1. a + m \in 0 .. m - 1 /\ (-1) * m + (a + m) = a
    BY <1>2
  <2>2. QED
    BY <1>1, <1>2, <2>1, ModUnique
<1>3. CASE 0 <= a /\ a < m
  <2>1. a \in 0 .. m - 1 /\ 0 * m + a = a
    BY <1>3
  <2>2. QED
    BY <1>1, <1>3, <2>1, ModUnique
<1>4. CASE a >= m
  <2>1. a - m \in 0 .. m - 1 /\ 1 * m + (a - m) = a
    BY <1>4
  <2>2. QED
    BY <1>1, <1>4, <2>1, ModUnique
<1>5. QED
  BY <1>2, <1>3, <1>4

-----------------------------------------------------------------------------
(* The counters nread and nwrite.                                          *)

Used == (nwrite - nread) % WORD
Succ(c) == (c + 1) % WORD

CountersOK == nread \in 0 .. WORD - 1 /\ nwrite \in 0 .. WORD - 1

LEMMA Sizes ==
  /\ None \notin Proc /\ None \notin {"nread", "nwrite"}
  /\ PIPESIZE \in Nat /\ PIPESIZE > 0 /\ WORD \in Nat /\ WORD > PIPESIZE
  /\ WORD % PIPESIZE = 0 /\ MaxN \in Nat
BY PipeAssumption

LEMMA Wrap ==
  ASSUME NEW a \in Int, -WORD <= a, a < 2 * WORD
  PROVE  a % WORD = IF a < 0 THEN a + WORD ELSE IF a < WORD THEN a ELSE a - WORD
BY Sizes, WrapOnce

\* What the tests of piperead and pipewrite say of the number of bytes.
LEMMA CounterFacts ==
  ASSUME CountersOK
  PROVE  /\ Used \in 0 .. WORD - 1
         /\ Used = IF nwrite < nread THEN nwrite - nread + WORD ELSE nwrite - nread
         /\ Empty <=> Used = 0
         /\ Full <=> Used = PIPESIZE
<1>1. Used = IF nwrite < nread THEN nwrite - nread + WORD ELSE nwrite - nread
  BY Sizes, Wrap DEF CountersOK, Used
<1>2. (nread + PIPESIZE) % WORD = IF nread + PIPESIZE < WORD THEN nread + PIPESIZE
                                                              ELSE nread + PIPESIZE - WORD
  BY Sizes, Wrap DEF CountersOK
<1>3. Used \in 0 .. WORD - 1
  BY <1>1, Sizes DEF CountersOK
<1>4. Empty <=> Used = 0
  BY <1>1, Sizes DEF CountersOK, Empty
<1>5. Full <=> Used = PIPESIZE
  BY <1>1, <1>2, Sizes DEF CountersOK, Full
<1>6. QED
  BY <1>1, <1>3, <1>4, <1>5

LEMMA SuccFacts ==
  ASSUME NEW c \in 0 .. WORD - 1
  PROVE  Succ(c) \in 0 .. WORD - 1 /\ Succ(c) = IF c + 1 < WORD THEN c + 1 ELSE 0
<1>1. Succ(c) = IF c + 1 < WORD THEN c + 1 ELSE c + 1 - WORD
  BY Sizes, Wrap DEF Succ
<1>2. QED
  BY <1>1, Sizes

\* One byte less, one byte more.
LEMMA GetUsed ==
  ASSUME CountersOK, nread # nwrite, nread' = Succ(nread), nwrite' = nwrite
  PROVE  CountersOK' /\ Used' = Used - 1 /\ Used >= 1
<1>1. nread' \in 0 .. WORD - 1 /\ nread' = IF nread + 1 < WORD THEN nread + 1 ELSE 0
  BY SuccFacts DEF CountersOK
<1>2. CountersOK'
  BY <1>1 DEF CountersOK
<1>3. Used' = IF nwrite' < nread' THEN nwrite' - nread' + WORD ELSE nwrite' - nread'
  <2>1. nwrite' - nread' \in Int /\ -WORD <= nwrite' - nread' /\ nwrite' - nread' < 2 * WORD
    BY <1>2, Sizes DEF CountersOK
  <2>2. (nwrite' - nread') % WORD = IF nwrite' - nread' < 0 THEN nwrite' - nread' + WORD
           ELSE IF nwrite' - nread' < WORD THEN nwrite' - nread' ELSE nwrite' - nread' - WORD
    BY <2>1, Wrap
  <2>3. QED
    BY <1>2, <2>2, Sizes DEF CountersOK, Used
<1>4. QED
  BY <1>1, <1>2, <1>3, CounterFacts, Sizes DEF CountersOK

LEMMA PutUsed ==
  ASSUME CountersOK, Used < PIPESIZE, nwrite' = Succ(nwrite), nread' = nread
  PROVE  CountersOK' /\ Used' = Used + 1
<1>1. nwrite' \in 0 .. WORD - 1 /\ nwrite' = IF nwrite + 1 < WORD THEN nwrite + 1 ELSE 0
  BY SuccFacts DEF CountersOK
<1>2. CountersOK'
  BY <1>1 DEF CountersOK
<1>3. Used' = IF nwrite' < nread' THEN nwrite' - nread' + WORD ELSE nwrite' - nread'
  <2>1. nwrite' - nread' \in Int /\ -WORD <= nwrite' - nread' /\ nwrite' - nread' < 2 * WORD
    BY <1>2, Sizes DEF CountersOK
  <2>2. (nwrite' - nread') % WORD = IF nwrite' - nread' < 0 THEN nwrite' - nread' + WORD
           ELSE IF nwrite' - nread' < WORD THEN nwrite' - nread' ELSE nwrite' - nread' - WORD
    BY <2>1, Wrap
  <2>3. QED
    BY <1>2, <2>2, Sizes DEF CountersOK, Used
<1>4. QED
  BY <1>1, <1>2, <1>3, CounterFacts, Sizes DEF CountersOK

-----------------------------------------------------------------------------
(* Places in the buffer.                                                   *)

Place(k) == (nread + k - 1) % PIPESIZE

\* The counters wrap around at a multiple of PIPESIZE.
LEMMA WordPlace == ASSUME NEW a \in Int PROVE (a + WORD) % PIPESIZE = a % PIPESIZE
<1> DEFINE m == WORD \div PIPESIZE
<1>1. m \in Int /\ WORD = m * PIPESIZE + 0
  BY Sizes, DivMod
<1> HIDE DEF m
<1>2. (a + m * PIPESIZE) % PIPESIZE = a % PIPESIZE
  BY <1>1, Sizes, ModPlus
<1>3. QED
  BY <1>1, <1>2, Sizes

LEMMA PlaceIn == ASSUME CountersOK, NEW k \in Int PROVE Place(k) \in 0 .. PIPESIZE - 1
BY Sizes, DivMod DEF Place, CountersOK

LEMMA PlaceNext ==
  ASSUME CountersOK, NEW k \in Int, nread' = Succ(nread)
  PROVE  Place(k)' = Place(k + 1)
<1>1. nread' = IF nread + 1 < WORD THEN nread + 1 ELSE nread + 1 - WORD
  <2>1. nread \in 0 .. WORD - 1
    BY DEF CountersOK
  <2>2. QED
    BY <2>1, SuccFacts, Sizes
<1>2. (nread + 1 - WORD + k - 1) % PIPESIZE = (nread + k) % PIPESIZE
  <2>1. nread + 1 - WORD + k - 1 \in Int /\ (nread + 1 - WORD + k - 1) + WORD = nread + k
    BY Sizes DEF CountersOK
  <2>2. QED
    BY <2>1, WordPlace
<1>3. nread + (k + 1) - 1 = nread + k /\ nread + 1 + k - 1 = nread + k
  BY Sizes DEF CountersOK
<1>4. QED
  BY <1>1, <1>2, <1>3 DEF Place

LEMMA PlaceWrite == ASSUME CountersOK PROVE nwrite % PIPESIZE = Place(Used + 1)
<1>1. Used = IF nwrite < nread THEN nwrite - nread + WORD ELSE nwrite - nread
  BY CounterFacts
<1>2. CASE nwrite < nread
  <2>1. nread + (Used + 1) - 1 = nwrite + WORD /\ nwrite \in Int
    BY <1>1, <1>2, Sizes DEF CountersOK
  <2>2. QED
    BY <2>1, WordPlace DEF Place
<1>3. CASE nread <= nwrite
  <2>1. nread + (Used + 1) - 1 = nwrite
    BY <1>1, <1>3, Sizes DEF CountersOK
  <2>2. QED
    BY <2>1 DEF Place
<1>4. QED
  BY <1>2, <1>3, Sizes DEF CountersOK

LEMMA PlacesApart ==
  ASSUME CountersOK, NEW k \in Int, NEW m \in Int, k < m, m - k < PIPESIZE
  PROVE  Place(k) # Place(m)
<1>1. nread + k - 1 \in Int /\ m - k \in 0 .. PIPESIZE - 1 /\ m - k # 0
      /\ (nread + k - 1) + (m - k) = nread + m - 1
  BY Sizes DEF CountersOK
<1>2. QED
  BY <1>1, Sizes, ModSame DEF Place

-----------------------------------------------------------------------------
(* The inductive invariant.                                                *)

CallPcs == Pcs \ {"gone", "user", "close", "free"}

LocksOK ==
  /\ \A p \in Proc : pc[p] \in LockedPcs <=> lock = p
  /\ \A p \in Proc : pc[p] = "sched" <=> ptlock = p
  /\ \A p \in Proc : chan[p] # None => pc[p] = "asleep" /\ chan[p] = Own(op[p])

Open(e) == IF e = "read" THEN readopen ELSE writeopen

\* An end is open while somebody has it, and until the last one who had it
\* has closed it.  Who closes the second end is alone, and gives back the page.
EndsOK ==
  /\ \A p \in Proc, e \in Ends : InCall(p, e) => p \in holders[e]
  /\ \A e \in Ends : holders[e] # {} => Open(e)
  /\ \A p \in Proc : pc[p] = "close" => Open(op[p]) /\ holders[op[p]] = {}
  /\ \A p, q \in Proc : pc[p] = "close" /\ pc[q] = "close" /\ op[p] = op[q] => p = q
  /\ \A p, q \in Proc : pc[p] = "free" /\ pc[q] = "free" => p = q
  /\ \A p \in Proc : pc[p] = "free" => ~readopen /\ ~writeopen
  /\ freed => ~readopen /\ ~writeopen /\ \A p \in Proc : pc[p] # "free"

\* What a process knows at its label.
Knows(p) ==
  /\ pc[p] \in CallPcs => i[p] <= n[p]
  /\ InCall(p, "read") => Len(buf[p]) = i[p]
  /\ pc[p] = "copy" => op[p] = "read" /\ (i[p] = 0 => ~Empty \/ ~writeopen)
  /\ pc[p] = "wake_reader" => op[p] = "write" /\ Full /\ readopen
  /\ pc[p] = "sleep" => IF op[p] = "read" THEN Empty /\ writeopen ELSE Full /\ readopen
  /\ pc[p] = "wake" /\ op[p] = "read" /\ n[p] > 0 /\ i[p] = 0 => Empty /\ ~writeopen

\* p sleeps on channel c, or will before anybody can call wakeup; what those
\* who sleep on c wait for is there; somebody is about to wake them.
Sleepy(p, c) == chan[p] = c \/ (pc[p] = "sched" /\ Own(op[p]) = c)
Ready(c) == IF c = "nread" THEN ~Empty \/ ~writeopen ELSE ~Full \/ ~readopen
Heard(c) == (\E p \in Proc : Sleepy(p, c)) /\ Ready(c) => \E q \in Proc : WillWake(q, c)

Base == TypeOK /\ LocksOK /\ EndsOK /\ \A p \in Proc : Knows(p)
IInv == Base /\ Heard("nwrite")

\* A writer that is killed when the buffer is full goes without waking the
\* readers (pipe.c:88), so that they are only sure to be heard of when
\* nobody is killed.
NoKill == killed = {}

-----------------------------------------------------------------------------
(* A process moves between two labels.                                     *)

\* p goes on with its read or write; the ends stay as they are.
Inside(p) ==
  /\ pc[p] \in CallPcs /\ pc'[p] \in CallPcs \cup {"user"}
  /\ \A q \in Proc \ {p} : pc'[q] = pc[q]
  /\ UNCHANGED <<op, n, holders, readopen, writeopen, freed>>

\* No process but p moves.
Alone(p) ==
  \A q \in Proc \ {p} : pc'[q] = pc[q] /\ op'[q] = op[q] /\ n'[q] = n[q] /\ i'[q] = i[q]
                        /\ buf'[q] = buf[q]

InOut(p) == Acquire(p) \/ ReadTest(p) \/ ReadCopy(p) \/ WriteFull(p) \/ WritePut(p)
            \/ WriteEnough(p) \/ WakeReader(p) \/ SleepHandoff(p) \/ SleepSched(p)
            \/ Resume(p) \/ Finish(p)

LEMMA InOutInside == ASSUME TypeOK, NEW p \in Proc, InOut(p) PROVE Inside(p) /\ Alone(p)
<1> USE DEF At, Goto, CallPcs, Pcs, pipe, loc, TypeOK, Inside, Alone
<1>1. CASE Acquire(p) \/ ReadTest(p)
  BY <1>1 DEF Acquire, ReadTest, ReturnError
<1>2. CASE ReadCopy(p)
  BY <1>2 DEF ReadCopy
<1>3. CASE WriteFull(p)
  BY <1>3 DEF WriteFull, ReturnError
<1>4. CASE WritePut(p) \/ WriteEnough(p)
  BY <1>4 DEF WritePut, WriteEnough
<1>5. CASE WakeReader(p) \/ SleepHandoff(p) \/ SleepSched(p) \/ Resume(p) \/ Finish(p)
  BY <1>5 DEF WakeReader, SleepHandoff, SleepSched, Resume, Finish
<1>6. QED
  BY <1>1, <1>2, <1>3, <1>4, <1>5 DEF InOut

-----------------------------------------------------------------------------
(* Locks.                                                                  *)

LEMMA LocksStep ==
  ASSUME TypeOK, LocksOK, NEW p \in Proc, Kernel(p) \/ User(p) PROVE LocksOK'
<1> USE Sizes DEF At, Goto, loc, sleepVars, LocksOK, TypeOK, LockedPcs
<1>1. CASE Acquire(p)
  BY <1>1 DEF Acquire
<1>2. CASE ReadTest(p)
  <2>1. /\ pc[p] = "test" /\ UNCHANGED <<op, sleepVars>> /\ \A q \in Proc \ {p} : pc'[q] = pc[q]
        /\ \/ pc'[p] = "user" /\ lock' = None
           \/ pc'[p] \in {"sleep", "copy"} /\ lock' = lock
    BY <1>2 DEF ReadTest, ReturnError
  <2>2. QED
    BY <2>1
<1>3. CASE ReadCopy(p)
  BY <1>3 DEF ReadCopy
<1>4. CASE WriteFull(p)
  <2>1. /\ pc[p] = "test" /\ UNCHANGED <<op, sleepVars>> /\ \A q \in Proc \ {p} : pc'[q] = pc[q]
        /\ \/ pc'[p] = "user" /\ lock' = None
           \/ pc'[p] = "wake_reader" /\ lock' = lock
    BY <1>4 DEF WriteFull, ReturnError
  <2>2. QED
    BY <2>1
<1>5. CASE WritePut(p)
  BY <1>5 DEF WritePut
<1>6. CASE WriteEnough(p)
  BY <1>6 DEF WriteEnough
<1>7. CASE WakeReader(p)
  BY <1>7 DEF WakeReader, Wakeup
<1>8. CASE SleepHandoff(p)
  BY <1>8 DEF SleepHandoff, TakePtlock
<1>9. CASE SleepSched(p)
  BY <1>9 DEF SleepSched, FallAsleep
<1>10. CASE Resume(p)
  BY <1>10 DEF Resume, Asleep
<1>11. CASE Finish(p)
  BY <1>11 DEF Finish, Wakeup
<1>12. CASE PipeClose(p)
  BY <1>12 DEF PipeClose, Wakeup
<1>13. CASE Free(p)
  BY <1>13 DEF Free
<1>14. CASE Fork(p)
  BY <1>14 DEF Fork, MayCall
<1>15. CASE Exit(p)
  BY <1>15 DEF Exit
<1>16. CASE Gone(p)
  BY <1>16 DEF Gone
<1>17. CASE KillProc(p)
  BY <1>17 DEF KillProc, Kill
<1>18. ASSUME NEW e \in Ends, Call(p, e) PROVE LocksOK'
  BY <1>18 DEF Call, MayCall
<1>19. ASSUME NEW e \in Ends, Close(p, e) PROVE LocksOK'
  <2>1. /\ pc[p] = "user" /\ pc'[p] \in {"user", "close"} /\ UNCHANGED sleepVars /\ lock' = lock
        /\ \A q \in Proc \ {p} : pc'[q] = pc[q] /\ op'[q] = op[q]
    BY <1>19 DEF Close
  <2>2. QED
    BY <2>1
<1>20. QED
  BY <1>1, <1>2, <1>3, <1>4, <1>5, <1>6, <1>7, <1>8, <1>9, <1>10, <1>11, <1>12, <1>13, <1>14,
     <1>15, <1>16, <1>17, <1>18, <1>19 DEF Kernel, User

-----------------------------------------------------------------------------
(* The ends of the pipe.                                                   *)

LEMMA InsideEnds == ASSUME TypeOK, EndsOK, NEW p \in Proc, Inside(p) PROVE EndsOK'
<1>1. UNCHANGED <<op, holders, readopen, writeopen, freed>> /\ \A e \in Ends : Open(e)' = Open(e)
  BY DEF Inside, Open
<1>2. \A q \in Proc : /\ pc'[q] \in {"close", "free"} => pc'[q] = pc[q]
                      /\ \A e \in Ends : InCall(q, e)' => InCall(q, e)
  BY <1>1 DEF Inside, CallPcs, InCall
<1>3. \A q \in Proc : Open(op[q])' = Open(op[q])
  BY <1>1 DEF Open
<1>4. /\ \A q \in Proc, e \in Ends : InCall(q, e)' => q \in holders'[e]
      /\ \A e \in Ends : holders'[e] # {} => Open(e)'
  BY <1>1, <1>2 DEF EndsOK
<1>5. /\ \A q \in Proc : pc'[q] = "close" => Open(op[q])' /\ holders'[op'[q]] = {}
      /\ \A q, r \in Proc : pc'[q] = "close" /\ pc'[r] = "close" /\ op'[q] = op'[r] => q = r
  BY <1>1, <1>2, <1>3 DEF EndsOK
<1>6. /\ \A q, r \in Proc : pc'[q] = "free" /\ pc'[r] = "free" => q = r
      /\ \A q \in Proc : pc'[q] = "free" => ~readopen' /\ ~writeopen'
      /\ freed' => ~readopen' /\ ~writeopen' /\ \A q \in Proc : pc'[q] # "free"
  BY <1>1, <1>2 DEF EndsOK
<1>7. QED
  BY <1>4, <1>5, <1>6 DEF EndsOK

\* The ends stay open or closed, and the page stays.
LEMMA EndsStill ==
  ASSUME EndsOK, UNCHANGED <<readopen, writeopen, freed>>,
         \A q \in Proc, e \in Ends : InCall(q, e)' => q \in holders'[e],
         \A e \in Ends : holders'[e] # {} => Open(e),
         \A q \in Proc : pc'[q] = "close" => Open(op'[q]) /\ holders'[op'[q]] = {},
         \A q, r \in Proc : pc'[q] = "close" /\ pc'[r] = "close" /\ op'[q] = op'[r] => q = r,
         \A q \in Proc : pc'[q] = "free" => pc[q] = "free"
  PROVE  EndsOK'
<1>1. \A e : Open(e)' = IF e = "read" THEN readopen ELSE writeopen
  BY DEF Open
<1>2. /\ \A e \in Ends : holders'[e] # {} => Open(e)'
      /\ \A q \in Proc : pc'[q] = "close" => Open(op[q])' /\ holders'[op'[q]] = {}
  BY <1>1 DEF Open
<1>3. /\ \A q, r \in Proc : pc'[q] = "free" /\ pc'[r] = "free" => q = r
      /\ \A q \in Proc : pc'[q] = "free" => ~readopen' /\ ~writeopen'
      /\ freed' => ~readopen' /\ ~writeopen' /\ \A q \in Proc : pc'[q] # "free"
  BY DEF EndsOK
<1>4. QED
  BY <1>2, <1>3 DEF EndsOK

LEMMA EndsFork == ASSUME TypeOK, EndsOK, NEW p \in Proc, Fork(p) PROVE EndsOK'
<1>1. PICK c \in Proc :
        /\ pc[c] = "gone" /\ pc' = [pc EXCEPT ![c] = "user"]
        /\ holders' = [e \in Ends |-> IF p \in holders[e] THEN holders[e] \cup {c} ELSE holders[e]]
  BY DEF Fork, At, Goto
<1>2. UNCHANGED <<op, readopen, writeopen, freed>> /\ op \in [Proc -> Ends]
  BY DEF Fork, loc, pipe, TypeOK
<1>3. pc'[c] = "user" /\ \A q \in Proc \ {c} : pc'[q] = pc[q]
  BY <1>1 DEF TypeOK
<1>4. \A q \in Proc, e \in Ends : InCall(q, e)' => InCall(q, e)
  BY <1>2, <1>3 DEF InCall
<1>5. \A e \in Ends : (holders[e] \subseteq holders'[e]) /\ (holders[e] = {} => holders'[e] = {})
  BY <1>1
<1>6. /\ \A q \in Proc, e \in Ends : InCall(q, e)' => q \in holders'[e]
      /\ \A e \in Ends : holders'[e] # {} => Open(e)
  BY <1>4, <1>5 DEF EndsOK
<1>7. \A q \in Proc : pc'[q] \in {"close", "free"} => pc'[q] = pc[q]
  BY <1>3
<1>8. \A q \in Proc : pc'[q] = "close" => Open(op'[q]) /\ holders'[op'[q]] = {}
  BY <1>2, <1>5, <1>7 DEF EndsOK
<1>9. \A q, r \in Proc : pc'[q] = "close" /\ pc'[r] = "close" /\ op'[q] = op'[r] => q = r
  BY <1>2, <1>7 DEF EndsOK
<1>10. QED
  BY <1>2, <1>6, <1>7, <1>8, <1>9, EndsStill

LEMMA EndsCall ==
  ASSUME TypeOK, EndsOK, NEW p \in Proc, NEW e \in Ends, Call(p, e) PROVE EndsOK'
<1>1. /\ UNCHANGED <<holders, readopen, writeopen, freed>> /\ p \in holders[e]
      /\ op'[p] = e /\ pc'[p] = "lock"
      /\ \A q \in Proc \ {p} : op'[q] = op[q] /\ pc'[q] = pc[q]
  BY DEF Call, Goto, pipe, TypeOK
<1>2. \A q \in Proc, d \in Ends : InCall(q, d)' => q \in holders'[d]
  <2>1. ASSUME NEW q \in Proc \ {p}, NEW d \in Ends, InCall(q, d)' PROVE q \in holders'[d]
    BY <1>1, <2>1 DEF InCall, EndsOK
  <2>2. ASSUME NEW d \in Ends, InCall(p, d)' PROVE p \in holders'[d]
    BY <1>1, <2>2 DEF InCall
  <2>3. QED
    BY <2>1, <2>2
<1>3. \A q \in Proc : pc'[q] \in {"close", "free"} => q # p /\ pc'[q] = pc[q] /\ op'[q] = op[q]
  BY <1>1
<1>4. /\ \A q \in Proc : pc'[q] = "close" => Open(op'[q]) /\ holders'[op'[q]] = {}
      /\ \A q, r \in Proc : pc'[q] = "close" /\ pc'[r] = "close" /\ op'[q] = op'[r] => q = r
  BY <1>1, <1>3 DEF EndsOK
<1>5. \A d \in Ends : holders'[d] # {} => Open(d)
  BY <1>1 DEF EndsOK
<1>6. QED
  BY <1>1, <1>2, <1>3, <1>4, <1>5, EndsStill

LEMMA EndsClose ==
  ASSUME TypeOK, EndsOK, NEW p \in Proc, NEW e \in Ends, Close(p, e) PROVE EndsOK'
<1>1. /\ UNCHANGED <<readopen, writeopen, freed>> /\ p \in holders[e] /\ pc[p] = "user"
      /\ op'[p] = e /\ pc'[p] = IF holders[e] = {p} THEN "close" ELSE "user"
      /\ \A q \in Proc \ {p} : op'[q] = op[q] /\ pc'[q] = pc[q]
      /\ \A d \in Ends : holders'[d] = IF d = e THEN holders[e] \ {p} ELSE holders[d]
  BY DEF Close, At, Goto, pipe, TypeOK
<1>2. \A q \in Proc, d \in Ends : InCall(q, d)' => q # p /\ InCall(q, d)
  BY <1>1 DEF InCall
<1>3. /\ \A q \in Proc, d \in Ends : InCall(q, d)' => q \in holders'[d]
      /\ \A d \in Ends : holders'[d] # {} => Open(d)
  BY <1>1, <1>2 DEF EndsOK
<1>4. pc'[p] = "close" => Open(e) /\ holders'[e] = {}
  BY <1>1 DEF EndsOK
<1>5. ASSUME NEW q \in Proc \ {p}, pc'[q] = "close"
      PROVE  pc[q] = "close" /\ Open(op[q]) /\ holders'[op[q]] = {} /\ op[q] # e /\ op'[q] = op[q]
  <2>1. pc[q] = "close" /\ Open(op[q]) /\ holders[op[q]] = {} /\ op[q] \in Ends /\ op'[q] = op[q]
    BY <1>1, <1>5 DEF EndsOK, TypeOK
  <2>2. QED
    BY <1>1, <2>1
<1>6. ASSUME NEW q \in Proc, pc'[q] = "close" PROVE Open(op'[q]) /\ holders'[op'[q]] = {}
  <2>1. CASE q = p
    BY <1>1, <1>4, <1>6, <2>1
  <2>2. CASE q # p
    BY <1>5, <1>6, <2>2
  <2>3. QED
    BY <2>1, <2>2
<1>7. ASSUME NEW q \in Proc, NEW r \in Proc, pc'[q] = "close", pc'[r] = "close", op'[q] = op'[r]
      PROVE  q = r
  <2>1. CASE q # p /\ r # p
    BY <1>5, <1>7, <2>1 DEF EndsOK
  <2>2. CASE q = p /\ r # p
    BY <1>1, <1>5, <1>7, <2>2
  <2>3. CASE q # p /\ r = p
    BY <1>1, <1>5, <1>7, <2>3
  <2>4. QED
    BY <2>1, <2>2, <2>3
<1>8. \A q \in Proc : pc'[q] = "free" => pc[q] = "free"
  BY <1>1
<1>9. QED
  BY <1>1, <1>3, <1>6, <1>7, <1>8, EndsStill

LEMMA EndsStep ==
  ASSUME TypeOK, EndsOK, NEW p \in Proc, Kernel(p) \/ User(p) PROVE EndsOK'
<1>1. CASE InOut(p)
  BY <1>1, InOutInside, InsideEnds
<1>2. CASE PipeClose(p)
  BY <1>2 DEF PipeClose, At, Goto, pipe, loc, EndsOK, TypeOK, Ends, Open, InCall
<1>3. CASE Free(p)
  BY <1>3 DEF Free, At, Goto, pipe, loc, EndsOK, TypeOK, Ends, Open, InCall
<1>4. CASE Fork(p)
  BY <1>4, EndsFork
<1>5. CASE Exit(p)
  BY <1>5 DEF Exit, At, Goto, pipe, loc, EndsOK, TypeOK, Ends, Open, InCall
<1>6. CASE Gone(p)
  BY <1>6 DEF Gone, At, Goto, pipe, loc, EndsOK, TypeOK, Ends, Open, InCall
<1>7. CASE KillProc(p)
  BY <1>7 DEF KillProc, At, Goto, pipe, loc, EndsOK, TypeOK, Ends, Open, InCall
<1>8. ASSUME NEW e \in Ends, Call(p, e) PROVE EndsOK'
  BY <1>8, EndsCall
<1>9. ASSUME NEW e \in Ends, Close(p, e) PROVE EndsOK'
  BY <1>9, EndsClose
<1>10. QED
  BY <1>1, <1>2, <1>3, <1>4, <1>5, <1>6, <1>7, <1>8, <1>9 DEF Kernel, User, InOut

-----------------------------------------------------------------------------
(* What a process knows at its label.                                      *)

LEMMA PipeSame ==
  ASSUME UNCHANGED <<nread, nwrite>> PROVE (Empty' = Empty) /\ (Full' = Full) /\ (Used' = Used)
BY DEF Empty, Full, Used

\* The pipe changes only for those who hold its lock, and what the others
\* know outside of the lock is about themselves.
LEMMA OthersKnow ==
  ASSUME TypeOK, LocksOK, LocksOK', NEW p \in Proc, Alone(p), NEW q \in Proc \ {p}, Knows(q),
         \/ UNCHANGED <<nread, nwrite, readopen, writeopen>>
         \/ lock' \in {p, None}
  PROVE  Knows(q)'
<1>1. UNCHANGED <<pc[q], op[q], n[q], i[q], buf[q]>>
  BY DEF Alone
<1>2. InCall(q, "read")' = InCall(q, "read")
  BY <1>1 DEF InCall
<1>3. CASE UNCHANGED <<nread, nwrite, readopen, writeopen>>
  BY <1>1, <1>2, <1>3, PipeSame DEF Knows
<1>4. CASE lock' \in {p, None}
  <2>1. pc[q] \notin LockedPcs
    BY <1>1, <1>4, Sizes DEF LocksOK
  <2>2. QED
    BY <1>1, <1>2, <2>1 DEF Knows, LockedPcs
<1>5. QED
  BY <1>3, <1>4

LEMMA ReadCopyKnows ==
  ASSUME TypeOK, NEW p \in Proc, Knows(p), ReadCopy(p) PROVE Knows(p)'
<1> USE DEF TypeOK
<1>1. /\ pc[p] = "copy" /\ op[p] = "read" /\ i[p] <= n[p] /\ Len(buf[p]) = i[p]
      /\ UNCHANGED <<op, n, nwrite, readopen, writeopen>>
  BY DEF ReadCopy, At, Knows, CallPcs, Pcs, InCall
<1>2. CASE i[p] < n[p] /\ ~Empty
  <2>1. pc' = pc /\ i'[p] = i[p] + 1 /\ buf'[p] = Append(buf[p], data[nread % PIPESIZE])
    BY <1>2 DEF ReadCopy
  <2>2. Len(buf'[p]) = i'[p] /\ i'[p] <= n'[p] /\ i'[p] # 0
    <3>1. n[p] \in Int /\ i[p] \in Nat /\ buf[p] \in Seq(Byte)
      BY Sizes
    <3>2. QED
      BY <1>1, <1>2, <2>1, <3>1
  <2>3. QED
    BY <1>1, <2>1, <2>2 DEF Knows
<1>3. CASE ~(i[p] < n[p] /\ ~Empty)
  <2>1. pc'[p] = "wake" /\ UNCHANGED <<buf, nread, i>>
    BY <1>3 DEF ReadCopy, Goto
  <2>2. i[p] = 0 /\ n[p] > 0 => Empty /\ ~writeopen
    BY <1>1, <1>3, Sizes DEF Knows
  <2>3. QED
    BY <1>1, <2>1, <2>2, PipeSame DEF Knows
<1>4. QED
  BY <1>2, <1>3

LEMMA KnowsStep ==
  ASSUME TypeOK, LocksOK, LocksOK', EndsOK, \A q \in Proc : Knows(q),
         NEW p \in Proc, Kernel(p) \/ User(p)
  PROVE  \A q \in Proc : Knows(q)'
<1> USE DEF At, Goto, TypeOK, pipe, loc
<1>1. ASSUME Alone(p), UNCHANGED <<nread, nwrite, readopen, writeopen>>, Knows(p)'
      PROVE  \A q \in Proc : Knows(q)'
  BY <1>1, OthersKnow
<1>2. ASSUME Alone(p), lock' \in {p, None}, Knows(p)' PROVE \A q \in Proc : Knows(q)'
  BY <1>2, OthersKnow
<1>3. CASE Acquire(p)
  <2>1. Knows(p)'
    BY <1>3 DEF Acquire, Knows, CallPcs, Pcs, InCall
  <2>2. QED
    BY <1>1, <1>3, <2>1, InOutInside DEF Acquire, InOut
<1>4. CASE ReadTest(p)
  <2>1. Knows(p)'
    <3>1. /\ pc[p] = "test" /\ op[p] = "read" /\ Knows(p) /\ UNCHANGED <<pipe, loc>>
          /\ pc'[p] \in {"user", "sleep", "copy"}
          /\ pc'[p] = "sleep" => Empty /\ writeopen
          /\ pc'[p] = "copy" => ~Empty \/ ~writeopen
      BY <1>4 DEF ReadTest, ReturnError
    <3>2. QED
      BY <3>1, PipeSame DEF Knows, CallPcs, Pcs, InCall
  <2>2. QED
    BY <1>1, <1>4, <2>1, InOutInside DEF ReadTest, ReturnError, InOut
<1>5. CASE ReadCopy(p)
  BY <1>2, <1>5, ReadCopyKnows, InOutInside DEF ReadCopy, InOut, LocksOK, LockedPcs
<1>6. CASE WriteFull(p)
  <2>1. Knows(p)'
    BY <1>6, PipeSame DEF WriteFull, ReturnError, Knows, CallPcs, Pcs, InCall
  <2>2. QED
    BY <1>1, <1>6, <2>1, InOutInside DEF WriteFull, ReturnError, InOut
<1>7. CASE WritePut(p)
  <2>1. i'[p] = i[p] + 1 /\ i[p] < n[p] /\ i[p] \in Int /\ n[p] \in Int
    BY <1>7, Sizes DEF WritePut
  <2>2. Knows(p)'
    BY <1>7, <2>1 DEF WritePut, Knows, CallPcs, Pcs, InCall
  <2>3. QED
    BY <1>2, <1>7, <2>2, InOutInside DEF WritePut, InOut, LocksOK, LockedPcs
<1>8. CASE WriteEnough(p) \/ WakeReader(p)
  <2>1. Knows(p)'
    <3>1. /\ UNCHANGED <<pipe, loc>> /\ Knows(p)
          /\ \/ pc[p] = "test" /\ op[p] = "write" /\ pc'[p] = "wake"
             \/ pc[p] = "wake_reader" /\ pc'[p] = "sleep"
      BY <1>8 DEF WriteEnough, WakeReader
    <3>2. QED
      BY <3>1, PipeSame DEF Knows, CallPcs, Pcs, InCall
  <2>2. QED
    BY <1>1, <1>8, <2>1, InOutInside DEF WriteEnough, WakeReader, InOut
<1>9. CASE SleepHandoff(p) \/ SleepSched(p) \/ Resume(p)
  <2>1. Knows(p)'
    BY <1>9 DEF SleepHandoff, SleepSched, Resume, Knows, CallPcs, Pcs, InCall
  <2>2. QED
    BY <1>1, <1>9, <2>1, InOutInside DEF SleepHandoff, SleepSched, Resume, InOut
<1>10. CASE Finish(p)
  <2>1. Knows(p)'
    BY <1>10 DEF Finish, Knows, CallPcs, InCall
  <2>2. QED
    BY <1>1, <1>10, <2>1, InOutInside DEF Finish, InOut
<1>11. CASE PipeClose(p)
  <2>1. Knows(p)' /\ Alone(p) /\ lock' = None
    BY <1>11 DEF PipeClose, Knows, CallPcs, InCall, Alone
  <2>2. QED
    BY <1>2, <2>1
<1>12. CASE Free(p) \/ Exit(p) \/ Gone(p)
  BY <1>1, <1>12 DEF Free, Exit, Gone, Knows, CallPcs, InCall, Alone
<1>13. CASE Fork(p)
  <2>1. PICK c \in Proc : pc[c] = "gone" /\ pc' = [pc EXCEPT ![c] = "user"]
    BY <1>13 DEF Fork
  <2>2. UNCHANGED <<pipe, op, n, i, buf>>
    BY <1>13 DEF Fork
  <2>3. QED
    BY <2>1, <2>2, PipeSame DEF Knows, CallPcs, InCall
<1>14. CASE KillProc(p)
  BY <1>14, PipeSame DEF KillProc, Knows, InCall
<1>15. ASSUME NEW e \in Ends, Call(p, e) PROVE \A q \in Proc : Knows(q)'
  <2>1. PICK k \in 0 .. MaxN : n' = [n EXCEPT ![p] = k]
    BY <1>15 DEF Call
  <2>2. Knows(p)'
    BY <1>15, <2>1, Sizes DEF Call, Knows, InCall
  <2>3. Alone(p)
    BY <1>15, <2>1 DEF Call, Alone
  <2>4. QED
    BY <1>1, <1>15, <2>2, <2>3 DEF Call
<1>16. ASSUME NEW e \in Ends, Close(p, e) PROVE \A q \in Proc : Knows(q)'
  BY <1>1, <1>16 DEF Close, Knows, CallPcs, InCall, Alone
<1>17. QED
  BY <1>3, <1>4, <1>5, <1>6, <1>7, <1>8, <1>9, <1>10, <1>11, <1>12, <1>13, <1>14, <1>15, <1>16
     DEF Kernel, User

-----------------------------------------------------------------------------
(* Wakeups.                                                                *)

Chans == {"nread", "nwrite"}

LEMMA HeardNone == ASSUME NEW c, \A q \in Proc : ~Sleepy(q, c)' PROVE Heard(c)'
BY DEF Heard

LEMMA HeardBy == ASSUME NEW c, NEW p \in Proc, WillWake(p, c)' PROVE Heard(c)'
BY DEF Heard

LEMMA HeardStay ==
  ASSUME NEW c, Heard(c), \A q \in Proc : Sleepy(q, c)' => Sleepy(q, c),
         Ready(c)' => Ready(c), \A q \in Proc : WillWake(q, c) => WillWake(q, c)'
  PROVE  Heard(c)'
BY DEF Heard

\* p falls asleep on no channel, wakes nobody that it was to wake, and leaves
\* the pipe as it is.
LEMMA HeardQuiet ==
  ASSUME TypeOK, NEW c \in Chans, Heard(c), NEW p \in Proc, Alone(p),
         UNCHANGED <<nread, nwrite, readopen, writeopen>>,
         \A q \in Proc : chan'[q] \in {chan[q], None},
         Sleepy(p, c)' => Sleepy(p, c), WillWake(p, c) => WillWake(p, c)'
  PROVE  Heard(c)'
<1>1. Ready(c)' => Ready(c)
  BY PipeSame DEF Ready
<1>2. \A q \in Proc : Sleepy(q, c)' => Sleepy(q, c)
  BY Sizes DEF Sleepy, Alone, Chans
<1>3. \A q \in Proc : WillWake(q, c) => WillWake(q, c)'
  BY DEF WillWake, Alone
<1>4. QED
  BY <1>1, <1>2, <1>3, HeardStay

\* wakeup(c) leaves nobody who sleeps on c, nor somebody who is about to.
LEMMA WakeupNone ==
  ASSUME LocksOK, NEW c \in Chans, Wakeup(c), NEW p \in Proc, pc'[p] # "sched",
         \A q \in Proc \ {p} : pc'[q] = pc[q]
  PROVE  Heard(c)'
<1>1. \A q \in Proc : chan'[q] # c /\ pc'[q] # "sched"
  BY Sizes DEF Wakeup, LocksOK, Chans
<1>2. \A q \in Proc : ~Sleepy(q, c)'
  BY <1>1 DEF Sleepy
<1>3. QED
  BY <1>2, HeardNone

LEMMA HeardInOut ==
  ASSUME Base, LocksOK', NEW c \in Chans, Heard(c), c = "nread" => NoKill, NEW p \in Proc, InOut(p)
  PROVE  Heard(c)'
<1> USE DEF Base, At, Goto, TypeOK, loc, pipe, sleepVars, LockedPcs
<1>1. Alone(p)
  BY InOutInside
<1>2. CASE Acquire(p)
  BY <1>1, <1>2, HeardQuiet DEF Acquire, Sleepy, WillWake
<1>3. CASE ReadTest(p)
  <2>1. /\ UNCHANGED <<chan, nread, nwrite, readopen, writeopen, op>> /\ ~WillWake(p, c)
        /\ pc'[p] # "sched" /\ pc'[p] \in Pcs
    BY <1>3 DEF ReadTest, ReturnError, WillWake, Pcs
  <2>2. QED
    BY <1>1, <2>1, HeardQuiet DEF Sleepy
<1>4. CASE ReadCopy(p)
  <2>1. /\ UNCHANGED <<chan, nwrite, readopen, writeopen, op>> /\ pc'[p] \in {"copy", "wake"}
        /\ op[p] = "read" /\ (Empty => UNCHANGED nread)
    BY <1>4 DEF ReadCopy, Knows
  <2>2. CASE c = "nwrite"
    BY <2>1, <2>2, HeardBy DEF WillWake
  <2>3. CASE c = "nread"
    <3>1. Ready(c)' => Ready(c)
      BY <2>1, <2>3 DEF Ready, Empty
    <3>2. \A q \in Proc : Sleepy(q, c)' => Sleepy(q, c)
      BY <1>1, <2>1 DEF Sleepy, Alone
    <3>3. \A q \in Proc : WillWake(q, c) => WillWake(q, c)'
      BY <1>1, <2>1, <2>3 DEF WillWake, Alone
    <3>4. QED
      BY <3>1, <3>2, <3>3, HeardStay
  <2>4. QED
    BY <2>2, <2>3 DEF Chans
<1>5. CASE WriteFull(p)
  <2>1. /\ UNCHANGED <<chan, nread, nwrite, readopen, writeopen, op>>
        /\ op[p] = "write" /\ pc[p] = "test" /\ pc'[p] \in {"user", "wake_reader"}
        /\ pc'[p] = "user" => ~readopen \/ p \in killed
    BY <1>5 DEF WriteFull, ReturnError
  <2>2. CASE c = "nwrite"
    BY <1>1, <2>1, <2>2, HeardQuiet DEF Sleepy, WillWake
  <2>3. CASE pc'[p] = "wake_reader" /\ c = "nread"
    BY <2>1, <2>3, HeardBy DEF WillWake
  <2>4. CASE ~readopen /\ pc'[p] = "user" /\ c = "nread"
    <3>1. \A q \in Proc : op[q] = "read" => ~(pc[q] = "sched" \/ pc[q] = "asleep")
      BY <2>4 DEF EndsOK, InCall, Open, Ends
    <3>2. \A q \in Proc : ~Sleepy(q, c)
      BY <2>4, <3>1, Sizes DEF Sleepy, LocksOK, Own
    <3>3. \A q \in Proc : ~Sleepy(q, c)'
      BY <1>1, <2>1, <2>4, <3>2 DEF Sleepy, Alone
    <3>4. QED
      BY <3>3, HeardNone
  <2>5. QED
    BY <2>1, <2>2, <2>3, <2>4 DEF NoKill, Chans
<1>6. CASE WritePut(p)
  <2>1. /\ UNCHANGED <<chan, nread, readopen, writeopen, op, pc>>
        /\ op[p] = "write" /\ pc[p] = "test" /\ ~Full
    BY <1>6 DEF WritePut
  <2>2. CASE c = "nread"
    BY <2>1, <2>2, HeardBy DEF WillWake
  <2>3. CASE c = "nwrite"
    BY <2>1, <2>3, HeardStay DEF Ready, Sleepy, WillWake
  <2>4. QED
    BY <2>2, <2>3 DEF Chans
<1>7. CASE WriteEnough(p)
  BY <1>1, <1>7, HeardQuiet DEF WriteEnough, Sleepy, WillWake
<1>8. CASE WakeReader(p)
  <2>1. Wakeup("nread") /\ UNCHANGED <<nread, nwrite, readopen, writeopen, op>> /\ pc'[p] = "sleep"
        /\ pc[p] = "wake_reader" /\ op[p] = "write"
    BY <1>8 DEF WakeReader, Knows
  <2>2. CASE c = "nread"
    BY <1>1, <2>1, <2>2, WakeupNone DEF Alone, Chans
  <2>3. CASE c = "nwrite"
    <3>1. \A q \in Proc : chan'[q] \in {chan[q], None}
      BY <2>1 DEF Wakeup
    <3>2. (Sleepy(p, c)' => Sleepy(p, c)) /\ ~WillWake(p, c)
      BY <2>1, <2>3, <3>1, Sizes DEF Sleepy, WillWake
    <3>3. QED
      BY <1>1, <2>1, <3>1, <3>2, HeardQuiet
  <2>4. QED
    BY <2>2, <2>3 DEF Chans
<1>9. CASE SleepHandoff(p)
  <2>1. UNCHANGED <<chan, nread, nwrite, readopen, writeopen, op>> /\ pc[p] = "sleep"
        /\ pc'[p] = "sched" /\ ~WillWake(p, c)
    BY <1>9 DEF SleepHandoff, TakePtlock, WillWake
  <2>2. CASE c = Own(op[p])
    <3>1. ~Ready(c)
      BY <2>1, <2>2 DEF Knows, Ready, Own, Ends
    <3>2. ~Ready(c)'
      BY <2>1, <3>1, PipeSame DEF Ready
    <3>3. QED
      BY <3>2 DEF Heard
  <2>3. CASE c # Own(op[p])
    BY <1>1, <2>1, <2>3, HeardQuiet DEF Sleepy
  <2>4. QED
    BY <2>2, <2>3
<1>10. CASE SleepSched(p)
  <2>1. UNCHANGED <<nread, nwrite, readopen, writeopen, op>> /\ pc[p] = "sched"
        /\ pc'[p] = "asleep" /\ ~WillWake(p, c) /\ chan' = [chan EXCEPT ![p] = Own(op[p])]
    BY <1>10 DEF SleepSched, FallAsleep, WillWake
  <2>2. Ready(c)' => Ready(c)
    BY <2>1, PipeSame DEF Ready
  <2>3. \A q \in Proc : Sleepy(q, c)' => Sleepy(q, c)
    BY <1>1, <2>1 DEF Sleepy, Alone
  <2>4. \A q \in Proc : WillWake(q, c) => WillWake(q, c)'
    BY <1>1, <2>1 DEF WillWake, Alone
  <2>5. QED
    BY <2>2, <2>3, <2>4, HeardStay
<1>11. CASE Resume(p)
  BY <1>1, <1>11, HeardQuiet DEF Resume, Sleepy, WillWake
<1>12. CASE Finish(p)
  <2>1. UNCHANGED <<nread, nwrite, readopen, writeopen, op>> /\ pc[p] = "wake"
        /\ pc'[p] = "user" /\ Wakeup(Other(op[p])) /\ op[p] \in Ends
    BY <1>12 DEF Finish
  <2>2. CASE c = Other(op[p])
    BY <1>1, <2>1, <2>2, WakeupNone DEF Alone
  <2>3. CASE c # Other(op[p])
    <3>1. \A q \in Proc : chan'[q] \in {chan[q], None}
      BY <2>1 DEF Wakeup
    <3>2. (Sleepy(p, c)' => Sleepy(p, c)) /\ ~WillWake(p, c)
      BY <2>1, <2>3, <3>1, Sizes DEF Sleepy, WillWake, Other, Chans
    <3>3. QED
      BY <1>1, <2>1, <3>1, <3>2, HeardQuiet
  <2>4. QED
    BY <2>2, <2>3
<1>13. QED
  BY <1>2, <1>3, <1>4, <1>5, <1>6, <1>7, <1>8, <1>9, <1>10, <1>11, <1>12 DEF InOut

LEMMA HeardStep ==
  ASSUME Base, LocksOK', NEW c \in Chans, Heard(c), c = "nread" => NoKill,
         NEW p \in Proc, Kernel(p) \/ User(p)
  PROVE  Heard(c)'
<1> USE DEF Base, At, Goto, TypeOK, loc, pipe, sleepVars
<1>1. CASE InOut(p)
  BY <1>1, HeardInOut
<1>2. CASE PipeClose(p)
  <2>1. /\ pc[p] = "close" /\ pc'[p] \in {"user", "free"} /\ Alone(p) /\ op' = op
        /\ UNCHANGED <<nread, nwrite>> /\ Wakeup(Other(op[p])) /\ op[p] \in Ends
        /\ op[p] = "read" => writeopen' = writeopen
        /\ op[p] = "write" => readopen' = readopen
    BY <1>2 DEF PipeClose, Alone
  <2>2. CASE c = Other(op[p])
    BY <2>1, <2>2, WakeupNone DEF Alone
  <2>3. CASE c # Other(op[p])
    <3>1. \A q \in Proc : chan'[q] \in {chan[q], None}
      BY <2>1 DEF Wakeup
    <3>2. Ready(c)' => Ready(c)
      BY <2>1, <2>3, PipeSame DEF Ready, Other, Ends, Chans
    <3>3. \A q \in Proc : Sleepy(q, c)' => Sleepy(q, c)
      BY <2>1, <3>1, Sizes DEF Sleepy, Alone, Chans
    <3>4. \A q \in Proc : WillWake(q, c) => WillWake(q, c)'
      BY <2>1 DEF WillWake, Alone
    <3>5. QED
      BY <3>2, <3>3, <3>4, HeardStay
  <2>4. QED
    BY <2>2, <2>3
<1>3. CASE Free(p) \/ Exit(p) \/ Gone(p)
  <2>1. /\ Alone(p) /\ UNCHANGED <<chan, nread, nwrite, readopen, writeopen, op>>
        /\ pc[p] \in {"free", "user"} /\ pc'[p] \in {"user", "gone"}
    BY <1>3 DEF Free, Exit, Gone, Alone
  <2>2. QED
    BY <2>1, HeardQuiet DEF Sleepy, WillWake
<1>4. CASE Fork(p)
  <2>1. PICK k \in Proc : pc[k] = "gone" /\ pc' = [pc EXCEPT ![k] = "user"]
    BY <1>4 DEF Fork
  <2>2. Alone(k) /\ UNCHANGED <<chan, nread, nwrite, readopen, writeopen, op>>
    BY <1>4, <2>1 DEF Fork, Alone
  <2>3. QED
    BY <2>1, <2>2, HeardQuiet DEF Sleepy, WillWake
<1>5. CASE KillProc(p)
  <2>1. /\ Alone(p) /\ UNCHANGED <<nread, nwrite, readopen, writeopen, op, pc>>
        /\ \A q \in Proc : chan'[q] \in {chan[q], None}
    BY <1>5 DEF KillProc, Kill, Alone
  <2>2. QED
    BY <2>1, Sizes, HeardQuiet DEF Sleepy, WillWake, Chans
<1>6. ASSUME NEW e \in Ends, Call(p, e) \/ Close(p, e) PROVE Heard(c)'
  <2>1. /\ Alone(p) /\ UNCHANGED <<chan, nread, nwrite, readopen, writeopen>>
        /\ pc[p] = "user" /\ pc'[p] \in {"user", "lock", "close"}
    <3>1. CASE Call(p, e)
      <4>1. PICK k \in 0 .. MaxN : n' = [n EXCEPT ![p] = k]
        BY <3>1 DEF Call
      <4>2. QED
        BY <3>1, <4>1 DEF Call, MayCall, Alone
    <3>2. CASE Close(p, e)
      BY <3>2 DEF Close, Alone
    <3>3. QED
      BY <1>6, <3>1, <3>2
  <2>2. QED
    BY <2>1, HeardQuiet DEF Sleepy, WillWake
<1>7. QED
  BY <1>1, <1>2, <1>3, <1>4, <1>5, <1>6 DEF Kernel, User, InOut

-----------------------------------------------------------------------------
(* Types.                                                                  *)

Data  == data \in [0 .. PIPESIZE - 1 -> Byte] /\ CountersOK /\ Used <= PIPESIZE
Reads == buf \in [Proc -> Seq(Byte)] /\ \A p \in Proc : Len(buf[p]) <= MaxN

LEMMA TypeParts == TypeOK => Data /\ Reads
BY DEF TypeOK, Data, Reads, CountersOK, Used

\* Nothing is written to, and a read copies no more than it was asked for.
LEMMA CopyTypes ==
  ASSUME TypeOK, NEW p \in Proc, Knows(p), ReadCopy(p) PROVE Data' /\ Reads' /\ i'[p] <= MaxN
<1> USE DEF TypeOK
<1>1. CASE i[p] < n[p] /\ ~Empty
  <2>1. /\ UNCHANGED <<data, nwrite>> /\ nread' = Succ(nread) /\ nread # nwrite
        /\ i' = [i EXCEPT ![p] = @ + 1]
        /\ buf' = [buf EXCEPT ![p] = Append(@, data[nread % PIPESIZE])]
    BY <1>1 DEF ReadCopy, Succ, Empty
  <2>2. CountersOK' /\ Used' = Used - 1 /\ Used \in Int
    BY <2>1, GetUsed, CounterFacts, TypeParts DEF Data
  <2>3. Data'
    <3>1. Used <= PIPESIZE /\ PIPESIZE \in Int
      BY TypeParts, Sizes DEF Data
    <3>2. Used' <= PIPESIZE
      BY <2>2, <3>1
    <3>3. QED
      BY <2>1, <2>2, <3>2 DEF Data
  <2>4. data[nread % PIPESIZE] \in Byte
    <3>1. Place(1) = nread % PIPESIZE
      BY Sizes DEF Place
    <3>2. QED
      BY <3>1, PlaceIn, TypeParts DEF Data
  <2>5. Len(buf[p]) = i[p] /\ i[p] \in Int /\ n[p] \in 0 .. MaxN /\ MaxN \in Int
    BY Sizes DEF Knows, InCall, ReadCopy, At
  <2>6. buf'[p] \in Seq(Byte) /\ Len(buf'[p]) = i[p] + 1
    <3>1. buf[p] \in Seq(Byte) /\ buf'[p] = Append(buf[p], data[nread % PIPESIZE])
      BY <2>1
    <3>2. QED
      BY <2>4, <2>5, <3>1, AppendProperties
  <2>7. Reads'
    BY <1>1, <2>1, <2>5, <2>6 DEF Reads
  <2>8. QED
    BY <1>1, <2>1, <2>3, <2>5, <2>7
<1>2. CASE ~(i[p] < n[p] /\ ~Empty)
  <2>1. UNCHANGED <<data, nread, nwrite, buf, i>>
    BY <1>2 DEF ReadCopy
  <2>2. i[p] <= MaxN
    BY Sizes
  <2>3. QED
    BY <2>1, <2>2, TypeParts, PipeSame DEF Data, Reads, CountersOK
<1>3. QED
  BY <1>1, <1>2

LEMMA PutTypes == ASSUME TypeOK, NEW p \in Proc, WritePut(p) PROVE Data'
<1>1. nread' = nread /\ nwrite' = Succ(nwrite) /\ ~Full
  BY DEF WritePut, Succ
<1>2. CountersOK /\ Used <= PIPESIZE /\ Used \in Int /\ PIPESIZE \in Int
  BY TypeParts, CounterFacts, Sizes DEF Data
<1>3. Used < PIPESIZE
  BY <1>1, <1>2, CounterFacts
<1>4. CountersOK' /\ Used' <= PIPESIZE
  BY <1>1, <1>2, <1>3, PutUsed
<1>5. data' \in [0 .. PIPESIZE - 1 -> Byte]
  BY TypeParts DEF WritePut, Data
<1>6. QED
  BY <1>4, <1>5 DEF Data

Rest ==
  /\ readopen \in BOOLEAN /\ writeopen \in BOOLEAN /\ freed \in BOOLEAN
  /\ lock \in Proc \cup {None} /\ ptlock \in Proc \cup {None}
  /\ holders \in [Ends -> SUBSET Proc]
  /\ pc \in [Proc -> Pcs] /\ op \in [Proc -> Ends]
  /\ n \in [Proc -> 0 .. MaxN] /\ i \in [Proc -> 0 .. MaxN]
  /\ chan \in [Proc -> {"nread", "nwrite", None}]
  /\ dying \subseteq Proc /\ killed \subseteq Proc /\ calls \in 0 .. MaxCalls

LEMMA TypeJoin == TypeOK <=> Data /\ Reads /\ Rest
BY DEF TypeOK, Data, Reads, Rest, CountersOK, Used

LEMMA TypeNext == ASSUME Data', Reads', Rest' PROVE TypeOK'
BY DEF TypeOK, Data, Reads, Rest, CountersOK, Used

LEMMA InOutRest ==
  ASSUME TypeOK, NEW p \in Proc, Knows(p), InOut(p) PROVE Rest'
<1> USE DEF At, Goto, loc, pipe, sleepVars, Pcs
<1>1. Rest
  BY TypeJoin
<1>2. CASE Acquire(p) \/ ReadTest(p) \/ WriteFull(p) \/ WriteEnough(p)
  BY <1>1, <1>2 DEF Acquire, ReadTest, WriteFull, ReturnError, WriteEnough, Rest
<1>3. CASE ReadCopy(p)
  <2>1. UNCHANGED <<readopen, writeopen, freed, lock, holders, op, n, dying, calls, sleepVars>>
        /\ pc' \in [Proc -> Pcs]
    BY <1>1, <1>3 DEF ReadCopy, Rest
  <2>2. i' \in [Proc -> 0 .. MaxN]
    <3>1. i' = i \/ (i' = [i EXCEPT ![p] = i[p] + 1] /\ i'[p] = i[p] + 1)
      BY <1>1, <1>3 DEF ReadCopy, Rest
    <3>2. i[p] \in Nat /\ i'[p] <= MaxN /\ MaxN \in Nat
      BY <1>1, <1>3, CopyTypes, Sizes DEF Rest
    <3>3. QED
      BY <1>1, <3>1, <3>2 DEF Rest
  <2>3. QED
    BY <1>1, <2>1, <2>2 DEF Rest
<1>4. CASE WritePut(p)
  BY <1>1, <1>4, Sizes DEF WritePut, Rest
<1>5. CASE WakeReader(p) \/ Finish(p)
  BY <1>1, <1>5 DEF WakeReader, Finish, Wakeup, Rest
<1>6. CASE SleepHandoff(p) \/ SleepSched(p) \/ Resume(p)
  BY <1>1, <1>6 DEF SleepHandoff, SleepSched, Resume, TakePtlock, FallAsleep, Rest, Own
<1>7. QED
  BY <1>2, <1>3, <1>4, <1>5, <1>6 DEF InOut

LEMMA InOutTypes ==
  ASSUME TypeOK, NEW p \in Proc, Knows(p), InOut(p) PROVE Data' /\ Reads'
<1>1. Data /\ Reads
  BY TypeParts
<1>2. CASE ReadCopy(p)
  BY <1>2, CopyTypes
<1>3. CASE WritePut(p)
  BY <1>1, <1>3, PutTypes DEF WritePut, Reads
<1>4. CASE ~ReadCopy(p) /\ ~WritePut(p)
  <2>1. UNCHANGED <<data, nread, nwrite, buf>>
    BY <1>4 DEF InOut, Acquire, ReadTest, ReturnError, WriteFull, WriteEnough, WakeReader,
                SleepHandoff, SleepSched, Resume, Finish, pipe, loc
  <2>2. QED
    BY <1>1, <2>1, PipeSame DEF Data, Reads, CountersOK
<1>5. QED
  BY <1>2, <1>3, <1>4

LEMMA TypeStep ==
  ASSUME TypeOK, NEW p \in Proc, Knows(p), Kernel(p) \/ User(p) PROVE TypeOK'
<1> USE DEF At, Goto, loc, pipe, sleepVars, Pcs
<1>1. Data /\ Reads /\ Rest
  BY TypeJoin
<1>2. ASSUME UNCHANGED <<data, nread, nwrite, buf>>, Rest' PROVE TypeOK'
  BY <1>1, <1>2, PipeSame, TypeNext DEF Data, Reads, CountersOK
<1>3. CASE InOut(p)
  BY <1>3, InOutRest, InOutTypes, TypeNext
<1>4. CASE PipeClose(p)
  <2>1. UNCHANGED <<data, nread, nwrite, buf, freed, lock, holders, loc, dying, calls>>
        /\ Wakeup(Other(op[p])) /\ readopen' \in BOOLEAN /\ writeopen' \in BOOLEAN
        /\ pc' \in [Proc -> Pcs]
    BY <1>1, <1>4 DEF PipeClose, Rest
  <2>2. QED
    BY <1>1, <1>2, <2>1 DEF Wakeup, Rest
<1>5. CASE Free(p) \/ Exit(p) \/ Gone(p)
  BY <1>1, <1>2, <1>5 DEF Free, Exit, Gone, Rest
<1>6. MaxCalls \in Nat
  BY PipeAssumption
<1>7. CASE Fork(p)
  <2>1. PICK c \in Proc : pc' = [pc EXCEPT ![c] = "user"]
        /\ holders' = [e \in Ends |-> IF p \in holders[e] THEN holders[e] \cup {c} ELSE holders[e]]
    BY <1>7 DEF Fork
  <2>2. pc' \in [Proc -> Pcs] /\ holders' \in [Ends -> SUBSET Proc]
    BY <1>1, <2>1 DEF Rest
  <2>3. QED
    BY <1>1, <1>2, <1>6, <1>7, <2>2 DEF Fork, MayCall, Rest
<1>8. CASE KillProc(p)
  <2>1. UNCHANGED <<data, nread, nwrite, buf, readopen, writeopen, freed, lock, holders, pc, op,
                    n, i, dying, ptlock>>
        /\ killed' = killed \cup {p} /\ chan' = [chan EXCEPT ![p] = None] /\ calls' = calls + 1
        /\ calls < MaxCalls
    BY <1>8 DEF KillProc, Kill, MayCall
  <2>2. QED
    BY <1>1, <1>2, <1>6, <2>1 DEF Rest
<1>9. ASSUME NEW e \in Ends, Call(p, e) PROVE TypeOK'
  <2>1. PICK k \in 0 .. MaxN : n' = [n EXCEPT ![p] = k]
    BY <1>9 DEF Call
  <2>2. Rest'
    BY <1>1, <1>6, <1>9, <2>1, Sizes DEF Call, MayCall, Rest
  <2>3. Reads'
    BY <1>1, <1>9, Sizes DEF Call, Reads
  <2>4. Data'
    BY <1>1, <1>9, PipeSame DEF Call, Data, CountersOK
  <2>5. QED
    BY <2>2, <2>3, <2>4, TypeNext
<1>10. ASSUME NEW e \in Ends, Close(p, e) PROVE TypeOK'
  BY <1>1, <1>2, <1>6, <1>10 DEF Close, MayCall, Rest
<1>11. QED
  BY <1>3, <1>4, <1>5, <1>7, <1>8, <1>9, <1>10 DEF Kernel, User, InOut

-----------------------------------------------------------------------------
(* The invariant holds, and what follows from it.                          *)

LEMMA InitBase == ASSUME Init PROVE Base /\ (\A c \in Chans : Heard(c)) /\ killed = {}
<1>1. PICK b \in Byte : data = [k \in 0 .. PIPESIZE - 1 |-> b]
  BY DEF Init
<1>2. PICK p \in Proc : /\ holders = [e \in Ends |-> {p}]
                        /\ pc = [q \in Proc |-> IF q = p THEN "user" ELSE "gone"]
  BY DEF Init
<1>3. \A q \in Proc : pc[q] \in {"user", "gone"} /\ chan[q] = None
  BY <1>2 DEF Init, SleepInit
<1>4. TypeOK
  <2>1. Used = 0 /\ CountersOK
    <3>1. CountersOK
      BY Sizes DEF Init, CountersOK
    <3>2. QED
      BY <3>1, CounterFacts DEF Init, Empty
  <2>2. Data
    BY <1>1, <2>1, Sizes DEF Data
  <2>3. Reads
    BY Sizes DEF Init, Reads
  <2>4. Rest
    <3>1. 0 \in 0 .. MaxN /\ 0 \in 0 .. MaxCalls
      BY PipeAssumption
    <3>2. QED
      BY <1>2, <3>1 DEF Init, SleepInit, Rest, Ends, Pcs
  <2>5. QED
    BY <2>2, <2>3, <2>4, TypeJoin
<1>5. LocksOK
  BY <1>3, Sizes DEF LocksOK, Init, SleepInit, LockedPcs
<1>6. EndsOK
  BY <1>2, <1>3 DEF EndsOK, Init, InCall, Open
<1>7. \A q \in Proc : Knows(q)
  BY <1>3 DEF Knows, CallPcs, InCall
<1>8. \A c \in Chans : Heard(c)
  BY <1>3, Sizes DEF Chans, Heard, Sleepy
<1>9. QED
  BY <1>4, <1>5, <1>6, <1>7, <1>8 DEF Base, Init, SleepInit

LEMMA BaseStep == ASSUME Base, [Next]_vars PROVE Base'
<1>1. ASSUME NEW p \in Proc, Kernel(p) \/ User(p) PROVE Base'
  BY <1>1, TypeStep, LocksStep, EndsStep, KnowsStep DEF Base
<1>2. CASE UNCHANGED vars
  <2>1. UNCHANGED <<data, nread, nwrite, readopen, writeopen, freed, lock, holders, pc, op, n, i,
                    buf, dying, calls, ptlock, chan, killed>>
    BY <1>2 DEF vars, pipe, loc, sleepVars
  <2>2. TypeOK'
    BY <2>1 DEF Base, TypeOK
  <2>3. LocksOK' /\ EndsOK'
    BY <2>1 DEF Base, LocksOK, EndsOK, InCall, Open
  <2>4. \A p \in Proc : Knows(p)'
    BY <2>1, PipeSame DEF Base, Knows, InCall
  <2>5. QED
    BY <2>2, <2>3, <2>4 DEF Base
<1>3. QED
  BY <1>1, <1>2 DEF Next

LEMMA HeardNext ==
  ASSUME Base, NEW c \in Chans, Heard(c), c = "nread" => NoKill, [Next]_vars PROVE Heard(c)'
<1>1. ASSUME NEW p \in Proc, Kernel(p) \/ User(p) PROVE Heard(c)'
  BY <1>1, LocksStep, HeardStep DEF Base
<1>2. CASE UNCHANGED vars
  <2>1. UNCHANGED <<nread, nwrite, readopen, writeopen, pc, op, chan>>
    BY <1>2 DEF vars, pipe, loc, sleepVars
  <2>2. QED
    BY <2>1, PipeSame, HeardStay DEF Ready, Sleepy, WillWake
<1>3. QED
  BY <1>1, <1>2 DEF Next

\* Every variable of the pipe has its type, the buffer never holds more than
\* PIPESIZE bytes although nread and nwrite only grow and wrap around
\* (pipe.c:84 and 107), p->lock is held exactly where piperead and pipewrite
\* say so, an end is open while somebody has it, and a process that has tested
\* the pipe still knows what it saw.
THEOREM PipeInvariance == Spec => []Base
<1>1. Init => Base
  BY InitBase
<1>2. Base /\ [Next]_vars => Base'
  BY BaseStep
<1>3. QED
  BY <1>1, <1>2, PTL DEF Spec

THEOREM TypeCorrect == Spec => []TypeOK
<1>1. Base => TypeOK
  BY DEF Base
<1>2. QED
  BY <1>1, PipeInvariance, PTL

\* A writer that sleeps on a full pipe is not forgotten: once there is room,
\* or no reader is left, a process that is still in piperead or pipeclose is
\* about to wake it, whoever is killed in between (pipe.c:70 and 117).
THEOREM WritersHeard == Spec => []WritersAwaited
<1>1. Init => Heard("nwrite")
  BY InitBase DEF Chans
<1>2. Base /\ Heard("nwrite") /\ [Next]_vars => Heard("nwrite")'
  BY HeardNext DEF Chans
<1>3. Heard("nwrite") => WritersAwaited
  BY DEF Heard, WritersAwaited, Sleepy, Ready
<1>4. QED
  BY <1>1, <1>2, <1>3, PipeInvariance, PTL DEF Spec

LEMMA KilledOnly == Spec => [](killed \subseteq Killable)
<1>1. Init => killed \subseteq Killable
  BY DEF Init, SleepInit
<1>2. killed \subseteq Killable /\ [Next]_vars => (killed \subseteq Killable)'
  <2>1. ASSUME killed \subseteq Killable, NEW p \in Proc, Kernel(p) \/ User(p)
        PROVE  killed' \subseteq Killable
    BY <2>1 DEF Kernel, User, Acquire, ReadTest, ReadCopy, WriteFull, WritePut, WriteEnough,
         WakeReader, SleepHandoff, SleepSched, Resume, Finish, PipeClose, Free, Fork, Exit, Gone,
         KillProc, Call, Close, Wakeup, TakePtlock, FallAsleep, Kill, sleepVars
  <2>2. QED
    BY <2>1 DEF Next, vars, sleepVars
<1>3. QED
  BY <1>1, <1>2, PTL DEF Spec

\* Readers are not forgotten either when nobody is killed.  A writer that is
\* killed when the buffer is full goes without the wakeup (pipe.c:86), so
\* that this needs its hypothesis.
THEOREM NobodyForgotten == ASSUME Killable = {} PROVE Spec => []NoLostWakeup
<1>1. Init => Heard("nread")
  BY InitBase DEF Chans
<1>2. killed \subseteq Killable /\ Base /\ Heard("nread") /\ [Next]_vars => Heard("nread")'
  BY HeardNext DEF Chans, NoKill
<1>3. Heard("nread") => ReadersAwaited
  BY DEF Heard, ReadersAwaited, Sleepy, Ready
<1>4. WritersAwaited /\ ReadersAwaited => NoLostWakeup
  BY DEF NoLostWakeup
<1>5. QED
  BY <1>1, <1>2, <1>3, <1>4, PipeInvariance, KilledOnly, WritersHeard, PTL DEF Spec

\* The page of a pipe is given back when nobody has an end of it and nobody
\* is in a call on it: neither inside the lock nor asleep, nor on the way to
\* close it (pipe.c:72).
THEOREM PageUnused == Spec => []FreedIsUnused
<1>1. Base => FreedIsUnused
  <2>1. SUFFICES ASSUME Base, freed PROVE FreedIsUnused
    BY DEF FreedIsUnused
  <2>2. \A e \in Ends : ~Open(e) /\ holders[e] = {}
    BY <2>1 DEF Base, EndsOK, Open
  <2>3. \A p \in Proc : pc[p] \notin {"close", "free"} /\ op[p] \in Ends
    BY <2>1, <2>2 DEF Base, EndsOK, TypeOK
  <2>4. \A p \in Proc : ~InCall(p, op[p])
    BY <2>1, <2>2, <2>3 DEF Base, EndsOK
  <2>5. QED
    BY <2>2, <2>3, <2>4 DEF FreedIsUnused, InCall
<1>2. QED
  BY <1>1, PipeInvariance, PTL

-----------------------------------------------------------------------------
(* The pipe implements a bounded queue of bytes.                           *)

\* The rest of what the queue sees of the pipe.
Got == [p \in Proc |-> IF InCall(p, "read") THEN buf[p] ELSE <<>>]
Eof == {p \in Proc : pc[p] = "wake" /\ op[p] = "read" /\ n[p] > 0 /\ i[p] = 0}
View == <<Buffered, Got, Eof, writeopen>>

LEMMA TupleSeq ==
  ASSUME NEW S, NEW m \in Nat, NEW f \in [1 .. m -> S] PROVE f \in Seq(S) /\ Len(f) = m
<1>1. f \in Seq(S)
  BY SeqDef
<1>2. Len(f) \in Nat /\ DOMAIN f = 1 .. Len(f) /\ DOMAIN f = 1 .. m
  BY <1>1, LenProperties
<1>3. QED
  BY <1>1, <1>2

LEMMA BufferedSeq ==
  ASSUME Data
  PROVE  /\ Buffered \in Seq(Byte) /\ Len(Buffered) = Used /\ Used \in Nat
         /\ \A k \in 1 .. Used : Buffered[k] = data[Place(k)]
<1>1. Used \in Nat
  BY CounterFacts, Sizes DEF Data
<1>2. Buffered = [k \in 1 .. Used |-> data[Place(k)]]
  BY DEF Buffered, Used, Place
<1>3. \A k \in 1 .. Used : data[Place(k)] \in Byte
  BY PlaceIn DEF Data
<1>4. Buffered \in [1 .. Used -> Byte]
  BY <1>2, <1>3
<1>5. Buffered \in Seq(Byte) /\ Len(Buffered) = Used
  BY <1>1, <1>4, TupleSeq
<1>6. QED
  BY <1>1, <1>2, <1>5

LEMMA BufferedNext ==
  ASSUME Data'
  PROVE  /\ Buffered' \in Seq(Byte) /\ Len(Buffered') = Used' /\ Used' \in Nat
         /\ \A k \in 1 .. Used' : Buffered'[k] = data'[Place(k)']
<1>1. Used' \in Nat
  <2>1. Used' = (nwrite' - nread') % WORD /\ nwrite' - nread' \in Int
    BY Sizes DEF Used, Data, CountersOK
  <2>2. QED
    BY <2>1, DivMod, Sizes
<1>2. Buffered' = [k \in 1 .. Used' |-> data'[Place(k)']]
  BY DEF Buffered, Used, Place
<1>3. \A k \in 1 .. Used' : data'[Place(k)'] \in Byte
  <2>1. ASSUME NEW k \in Int PROVE Place(k)' \in 0 .. PIPESIZE - 1
    <3>1. nread' + k - 1 \in Int
      BY Sizes DEF Data, CountersOK
    <3>2. QED
      BY <3>1, DivMod, Sizes DEF Place
  <2>2. QED
    BY <2>1 DEF Data
<1>4. Buffered' \in [1 .. Used' -> Byte]
  BY <1>2, <1>3
<1>5. Buffered' \in Seq(Byte) /\ Len(Buffered') = Used'
  BY <1>1, <1>4, TupleSeq
<1>6. QED
  BY <1>1, <1>2, <1>5

LEMMA SameBytes == ASSUME UNCHANGED <<data, nread, nwrite>> PROVE Buffered' = Buffered
BY DEF Buffered

\* A byte is read: the oldest one.
LEMMA GetBytes ==
  ASSUME Data, Data', nread # nwrite, nread' = Succ(nread), UNCHANGED <<data, nwrite>>
  PROVE  Buffered # <<>> /\ Buffered' = Tail(Buffered) /\ Head(Buffered) = data[nread % PIPESIZE]
<1>1. Used' = Used - 1 /\ Used >= 1
  BY GetUsed DEF Data
<1>2. /\ Buffered \in Seq(Byte) /\ Len(Buffered) = Used /\ Used \in Nat
      /\ \A k \in 1 .. Used : Buffered[k] = data[Place(k)]
  BY BufferedSeq
<1>3. /\ Buffered' \in Seq(Byte) /\ Len(Buffered') = Used'
      /\ \A k \in 1 .. Used' : Buffered'[k] = data'[Place(k)']
  BY BufferedNext
<1>4. Buffered # <<>> /\ Head(Buffered) = Buffered[1]
  BY <1>1, <1>2
<1>5. /\ Tail(Buffered) \in Seq(Byte) /\ Len(Tail(Buffered)) = Used - 1
      /\ \A k \in 1 .. Used - 1 : Tail(Buffered)[k] = Buffered[k + 1]
  BY <1>2, <1>4, HeadTailProperties
<1>6. \A k \in 1 .. Used - 1 : Buffered'[k] = Tail(Buffered)[k]
  <2>1. TAKE k \in 1 .. Used - 1
  <2>2. k \in Int /\ k \in 1 .. Used' /\ k + 1 \in 1 .. Used
    BY <1>1, <1>2
  <2>3. Place(k)' = Place(k + 1)
    BY <2>2, PlaceNext DEF Data
  <2>4. QED
    BY <1>2, <1>3, <1>5, <2>2, <2>3
<1>7. Buffered' = Tail(Buffered)
  BY <1>1, <1>3, <1>5, <1>6, SeqEqual
<1>8. Place(1) = nread % PIPESIZE
  BY Sizes DEF Place, Data, CountersOK
<1>9. QED
  BY <1>1, <1>2, <1>4, <1>7, <1>8

\* A byte is written: behind all others, and over none of them.
LEMMA PutBytes ==
  ASSUME Data, Data', Used < PIPESIZE, nwrite' = Succ(nwrite), nread' = nread,
         NEW b \in Byte, data' = [data EXCEPT ![nwrite % PIPESIZE] = b]
  PROVE  Buffered' = Append(Buffered, b)
<1>1. Used' = Used + 1
  BY PutUsed DEF Data
<1>2. /\ Buffered \in Seq(Byte) /\ Len(Buffered) = Used /\ Used \in Nat
      /\ \A k \in 1 .. Used : Buffered[k] = data[Place(k)]
  BY BufferedSeq
<1>3. /\ Buffered' \in Seq(Byte) /\ Len(Buffered') = Used'
      /\ \A k \in 1 .. Used' : Buffered'[k] = data'[Place(k)']
  BY BufferedNext
<1>4. /\ Append(Buffered, b) \in Seq(Byte) /\ Len(Append(Buffered, b)) = Used + 1
      /\ \A k \in 1 .. Used : Append(Buffered, b)[k] = Buffered[k]
      /\ Append(Buffered, b)[Used + 1] = b
  BY <1>2, AppendProperties
<1>5. nwrite % PIPESIZE = Place(Used + 1) /\ Place(Used + 1) \in 0 .. PIPESIZE - 1
  BY <1>2, PlaceWrite, PlaceIn DEF Data
<1>6. \A k \in 1 .. Used + 1 : Buffered'[k] = Append(Buffered, b)[k]
  <2>1. TAKE k \in 1 .. Used + 1
  <2>2. k \in Int /\ k \in 1 .. Used' /\ Place(k)' = Place(k) /\ Place(k) \in 0 .. PIPESIZE - 1
    BY <1>1, <1>2, PlaceIn DEF Place, Data
  <2>3. CASE k = Used + 1
    BY <1>3, <1>4, <1>5, <2>2, <2>3 DEF Data
  <2>4. CASE k # Used + 1
    <3>1. k \in 1 .. Used /\ k < Used + 1 /\ Used + 1 - k < PIPESIZE /\ Used + 1 \in Int
      BY <1>2, <2>4, Sizes
    <3>2. Place(k) # Place(Used + 1)
      <4>1. CountersOK /\ k \in Int
        BY <2>2 DEF Data
      <4>2. PICK m \in Int : m = Used + 1
        BY <3>1
      <4>3. k < m /\ m - k < PIPESIZE
        BY <1>2, <3>1, <4>2, Sizes
      <4>4. Place(k) # Place(m)
        BY <4>1, <4>3, PlacesApart
      <4>5. QED
        BY <4>2, <4>4
    <3>3. data'[Place(k)] = data[Place(k)]
      BY <1>5, <2>2, <3>2 DEF Data
    <3>4. QED
      BY <1>2, <1>3, <1>4, <2>2, <3>1, <3>3
  <2>5. QED
    BY <2>3, <2>4
<1>7. QED
  BY <1>1, <1>3, <1>4, <1>6, SeqEqual

LEMMA ViewAlone ==
  ASSUME NEW p \in Proc, Alone(p), NEW q \in Proc \ {p}
  PROVE  Got'[q] = Got[q] /\ (q \in Eof' <=> q \in Eof)
BY DEF Alone, Got, Eof, InCall

\* p sees what it saw, or starts anew.
LEMMA ViewSame ==
  ASSUME NEW p \in Proc, Alone(p), Got'[p] = Got[p], p \in Eof' <=> p \in Eof
  PROVE  Got' = Got /\ Eof' = Eof
<1>1. \A q \in Proc : Got'[q] = Got[q] /\ (q \in Eof' <=> q \in Eof)
  BY ViewAlone
<1>2. Got' = Got
  <2>1. Got = [q \in Proc |-> Got[q]] /\ Got' = [q \in Proc |-> Got'[q]]
    BY DEF Got
  <2>2. QED
    BY <1>1, <2>1
<1>3. Eof' = Eof
  <2>1. Eof \subseteq Proc /\ Eof' \subseteq Proc
    BY DEF Eof
  <2>2. QED
    BY <1>1, <2>1
<1>4. QED
  BY <1>2, <1>3

LEMMA ViewReturn ==
  ASSUME NEW p \in Proc, Alone(p), Got'[p] = <<>>, p \notin Eof',
         UNCHANGED <<data, nread, nwrite, writeopen>>
  PROVE  Fifo!Return(p)
<1>1. \A q \in Proc \ {p} : Got'[q] = Got[q] /\ (q \in Eof' <=> q \in Eof)
  BY ViewAlone
<1>2. Got' = [Got EXCEPT ![p] = <<>>]
  <2>1. Got = [q \in Proc |-> Got[q]] /\ Got' = [q \in Proc |-> Got'[q]]
    BY DEF Got
  <2>2. QED
    BY <1>1, <2>1
<1>3. Eof' = Eof \ {p}
  <2>1. Eof \subseteq Proc /\ Eof' \subseteq Proc
    BY DEF Eof
  <2>2. QED
    BY <1>1, <2>1
<1>4. Buffered' = Buffered /\ writeopen' = writeopen
  BY SameBytes
<1>5. QED
  BY <1>2, <1>3, <1>4 DEF Fifo!Return, Got, Eof

LEMMA CopyView ==
  ASSUME Base, Base', NEW p \in Proc, ReadCopy(p) PROVE [Fifo!Next]_View
<1> USE DEF Base, TypeOK, At
<1>1. Alone(p) /\ Data /\ Data'
  BY InOutInside, TypeParts, CopyTypes DEF InOut
<1>2. pc[p] = "copy" /\ op[p] = "read" /\ UNCHANGED <<data, nwrite, op, n, writeopen>>
  BY DEF ReadCopy, Knows
<1>3. InCall(p, "read") /\ Got[p] = buf[p] /\ p \notin Eof
  BY <1>2 DEF InCall, Got, Eof
<1>4. CASE i[p] < n[p] /\ ~Empty
  <2>1. /\ nread' = Succ(nread) /\ nread # nwrite /\ pc' = pc
        /\ buf'[p] = Append(buf[p], data[nread % PIPESIZE])
    BY <1>4 DEF ReadCopy, Succ, Empty
  <2>2. Buffered # <<>> /\ Buffered' = Tail(Buffered) /\ Head(Buffered) = data[nread % PIPESIZE]
    BY <1>1, <1>2, <2>1, GetBytes
  <2>3. Got'[p] = Append(Got[p], Head(Buffered)) /\ p \notin Eof'
    BY <1>2, <1>3, <2>1, <2>2 DEF Got, InCall, Eof
  <2>4. Got' = [Got EXCEPT ![p] = Append(@, Head(Buffered))]
    <3>1. Got = [q \in Proc |-> Got[q]] /\ Got' = [q \in Proc |-> Got'[q]]
      BY DEF Got
    <3>2. QED
      BY <1>1, <2>3, <3>1, ViewAlone
  <2>5. Eof' = Eof
    <3>1. Eof \subseteq Proc /\ Eof' \subseteq Proc
      BY DEF Eof
    <3>2. Eof' \subseteq Proc \ {p} /\ Eof \subseteq Proc \ {p}
      BY <1>3, <2>3, <3>1
    <3>3. \A q \in Proc \ {p} : q \in Eof' <=> q \in Eof
      BY <1>1, ViewAlone
    <3>4. QED
      BY <3>2, <3>3
  <2>6. Fifo!Get(p)
    BY <1>2, <2>2, <2>4, <2>5 DEF Fifo!Get, Got, Eof
  <2>7. QED
    BY <2>6 DEF Fifo!Next
<1>5. CASE ~(i[p] < n[p] /\ ~Empty)
  <2>1. pc'[p] = "wake" /\ UNCHANGED <<buf, nread, i>>
    BY <1>5 DEF ReadCopy, Goto
  <2>2. Buffered' = Buffered /\ Got'[p] = Got[p]
    BY <1>2, <1>3, <2>1, SameBytes DEF Got, InCall
  <2>3. Got' = Got
    <3>1. Got = [q \in Proc |-> Got[q]] /\ Got' = [q \in Proc |-> Got'[q]]
      BY DEF Got
    <3>2. QED
      BY <1>1, <2>2, <3>1, ViewAlone
  <2>4. CASE p \notin Eof'
    BY <1>1, <1>2, <1>3, <2>2, <2>4, ViewSame DEF View
  <2>5. CASE p \in Eof'
    <3>1. Empty /\ ~writeopen
      <4>1. n[p] > 0 /\ i[p] = 0
        BY <1>2, <2>1, <2>5 DEF Eof
      <4>2. QED
        BY <1>2, <1>5, <4>1, Sizes DEF Knows
    <3>2. Buffered = <<>>
      <4>1. Used = 0
        BY <1>1, <3>1, CounterFacts DEF Data
      <4>2. QED
        BY <1>1, <4>1, BufferedSeq, EmptySeq
    <3>3. Eof' = Eof \cup {p}
      <4>1. Eof \subseteq Proc /\ Eof' \subseteq Proc
        BY DEF Eof
      <4>2. QED
        BY <1>1, <2>5, <4>1, ViewAlone
    <3>4. Fifo!EndOfFile(p)
      BY <1>2, <2>2, <2>3, <3>1, <3>2, <3>3 DEF Fifo!EndOfFile, Got, Eof
    <3>5. QED
      BY <3>4 DEF Fifo!Next
  <2>6. QED
    BY <2>4, <2>5
<1>6. QED
  BY <1>4, <1>5

LEMMA PutView ==
  ASSUME Base, NEW p \in Proc, WritePut(p) PROVE [Fifo!Next]_View
<1> USE DEF Base, TypeOK, At
<1>1. Alone(p) /\ Data /\ Data'
  BY InOutInside, TypeParts, PutTypes DEF InOut
<1>2. /\ pc[p] = "test" /\ op[p] = "write" /\ ~Full /\ nwrite' = Succ(nwrite)
      /\ UNCHANGED <<pc, op, nread, writeopen>>
  BY DEF WritePut, Succ
<1>3. PICK b \in Byte : data' = [data EXCEPT ![nwrite % PIPESIZE] = b]
  BY DEF WritePut
<1>4. Used < PIPESIZE /\ Len(Buffered) = Used
  BY <1>1, <1>2, CounterFacts, BufferedSeq, Sizes DEF Data
<1>5. Buffered' = Append(Buffered, b)
  BY <1>1, <1>2, <1>3, <1>4, PutBytes
<1>6. Got' = Got /\ Eof' = Eof
  <2>1. Got'[p] = Got[p] /\ p \notin Eof' /\ p \notin Eof
    BY <1>2 DEF Got, Eof, InCall
  <2>2. QED
    BY <1>1, <2>1, ViewSame
<1>7. writeopen
  BY <1>2 DEF EndsOK, InCall, Open, Ends
<1>8. Fifo!Put
  BY <1>2, <1>4, <1>5, <1>6, <1>7 DEF Fifo!Put, Got, Eof
<1>9. QED
  BY <1>8 DEF Fifo!Next

\* The steps that neither get nor put a byte, nor close an end.
LEMMA QuietView ==
  ASSUME Base, NEW p \in Proc, Alone(p), UNCHANGED <<data, nread, nwrite, writeopen>>,
         \/ Got'[p] = <<>> /\ p \notin Eof'
         \/ Got'[p] = Got[p] /\ (p \in Eof' <=> p \in Eof)
  PROVE  [Fifo!Next]_View
<1>1. CASE Got'[p] = <<>> /\ p \notin Eof'
  BY <1>1, ViewReturn DEF Fifo!Next
<1>2. CASE Got'[p] = Got[p] /\ (p \in Eof' <=> p \in Eof)
  BY <1>2, ViewSame, SameBytes DEF View
<1>3. QED
  BY <1>1, <1>2

LEMMA StepView ==
  ASSUME Base, Base', NEW p \in Proc, Kernel(p) \/ User(p) PROVE [Fifo!Next]_View
<1> USE DEF Base, TypeOK, At, Goto, loc, pipe
<1>1. ASSUME Alone(p), UNCHANGED <<data, nread, nwrite, writeopen>>, pc'[p] = "user"
      PROVE  [Fifo!Next]_View
  BY <1>1, QuietView DEF Got, Eof, InCall
<1>2. ASSUME Alone(p), UNCHANGED <<data, nread, nwrite, writeopen, buf, op>>,
             pc[p] \in CallPcs \ {"wake"}, pc'[p] \in CallPcs,
             pc'[p] = "wake" => op[p] = "write"
      PROVE  [Fifo!Next]_View
  BY <1>2, QuietView DEF Got, Eof, InCall, CallPcs
<1>3. CASE ReadCopy(p)
  BY <1>3, CopyView
<1>4. CASE WritePut(p)
  BY <1>4, PutView
<1>5. CASE Acquire(p) \/ WriteEnough(p) \/ WakeReader(p)
  BY <1>2, <1>5, InOutInside DEF Acquire, WriteEnough, WakeReader, InOut, CallPcs, Pcs
<1>6. CASE SleepHandoff(p) \/ SleepSched(p) \/ Resume(p)
  BY <1>2, <1>6, InOutInside DEF SleepHandoff, SleepSched, Resume, InOut, CallPcs, Pcs
<1>7. CASE ReadTest(p) \/ WriteFull(p)
  <2>1. /\ UNCHANGED <<pipe, loc>> /\ Alone(p) /\ pc[p] = "test"
        /\ pc'[p] \in {"user", "sleep", "copy", "wake_reader"}
    BY <1>7, InOutInside DEF ReadTest, WriteFull, ReturnError, InOut
  <2>2. QED
    BY <1>1, <1>2, <2>1 DEF CallPcs, Pcs
<1>8. CASE Finish(p)
  BY <1>1, <1>8, InOutInside DEF Finish, InOut
<1>9. CASE PipeClose(p)
  <2>1. /\ pc[p] = "close" /\ pc'[p] \in {"user", "free"} /\ Alone(p)
        /\ UNCHANGED <<data, nread, nwrite, loc>> /\ writeopen' \in {writeopen, FALSE}
    BY <1>9 DEF PipeClose, Alone
  <2>2. Got' = Got /\ Eof' = Eof /\ Buffered' = Buffered
    BY <2>1, ViewSame, SameBytes DEF Got, Eof, InCall
  <2>3. CASE writeopen' = writeopen
    BY <2>2, <2>3 DEF View
  <2>4. CASE ~writeopen'
    <3>1. Fifo!Close
      BY <2>1, <2>2, <2>4 DEF Fifo!Close, Got, Eof
    <3>2. QED
      BY <3>1 DEF Fifo!Next
  <2>5. QED
    BY <2>1, <2>3, <2>4
<1>10. CASE Free(p) \/ Exit(p) \/ Gone(p) \/ \E e \in Ends : Close(p, e)
  <2>1. /\ pc[p] \in {"user", "free"} /\ pc'[p] \in {"user", "gone", "close"} /\ Alone(p)
        /\ UNCHANGED <<data, nread, nwrite, writeopen>>
    <3>1. CASE Free(p) \/ Exit(p) \/ Gone(p)
      BY <3>1 DEF Free, Exit, Gone, Alone
    <3>2. CASE \E e \in Ends : Close(p, e)
      BY <3>2 DEF Close, Alone
    <3>3. QED
      BY <1>10, <3>1, <3>2
  <2>2. QED
    BY <2>1, QuietView DEF Got, Eof, InCall
<1>11. CASE Fork(p)
  <2>1. PICK c \in Proc : pc[c] = "gone" /\ pc' = [pc EXCEPT ![c] = "user"]
    BY <1>11 DEF Fork
  <2>2. Alone(c) /\ UNCHANGED <<data, nread, nwrite, writeopen>>
    BY <1>11, <2>1 DEF Fork, Alone
  <2>3. QED
    BY <2>1, <2>2, QuietView DEF Got, Eof, InCall
<1>12. CASE KillProc(p)
  <2>1. Alone(p) /\ UNCHANGED <<data, nread, nwrite, writeopen, pc, op, n, i, buf>>
    BY <1>12 DEF KillProc, Alone
  <2>2. QED
    BY <2>1, QuietView DEF Got, Eof, InCall
<1>13. ASSUME NEW e \in Ends, Call(p, e) PROVE [Fifo!Next]_View
  <2>1. PICK k \in 0 .. MaxN : n' = [n EXCEPT ![p] = k]
    BY <1>13 DEF Call
  <2>2. /\ Alone(p) /\ UNCHANGED <<data, nread, nwrite, writeopen>>
        /\ pc'[p] = "lock" /\ buf'[p] = <<>>
    BY <1>13, <2>1 DEF Call, MayCall, Alone
  <2>3. QED
    BY <2>2, QuietView DEF Got, Eof
<1>14. QED
  BY <1>3, <1>4, <1>5, <1>6, <1>7, <1>8, <1>9, <1>10, <1>11, <1>12, <1>13 DEF Kernel, User

LEMMA NextView == ASSUME Base, Base', [Next]_vars PROVE [Fifo!Next]_View
<1>1. ASSUME NEW p \in Proc, Kernel(p) \/ User(p) PROVE [Fifo!Next]_View
  BY <1>1, StepView
<1>2. CASE UNCHANGED vars
  <2>1. UNCHANGED <<data, nread, nwrite, writeopen, pc, op, n, i, buf>>
    BY <1>2 DEF vars, pipe, loc
  <2>2. QED
    BY <2>1, SameBytes DEF View, Got, Eof, InCall
<1>3. QED
  BY <1>1, <1>2 DEF Next

LEMMA InitView == ASSUME Init PROVE Fifo!Init
<1>1. \A p \in Proc : pc[p] \in {"user", "gone"}
  BY DEF Init
<1>2. Got = [p \in Proc |-> <<>>] /\ Eof = {}
  BY <1>1 DEF Got, Eof, InCall
<1>3. Buffered = <<>>
  <2>1. Data /\ Empty
    BY InitBase, TypeParts DEF Base, Init, Empty
  <2>2. Used = 0
    BY <2>1, CounterFacts DEF Data
  <2>3. QED
    BY <2>1, <2>2, BufferedSeq, EmptySeq
<1>4. QED
  BY <1>2, <1>3 DEF Fifo!Init, Got, Eof, Init

\* A pipe is a bounded queue: whoever reads, writes, forks, closes and is
\* killed, each byte comes out once and in the order in which it was put in,
\* none is put over one that has not been read, and a read is told the end of
\* the file only when no writer is left and everything has been read
\* (pipe.c:93 and 116), also when the counters have wrapped around.
THEOREM PipeIsQueue == Spec => ImplementsByteQueue
<1> DEFINE V == <<Buffered, [p \in Proc |-> IF InCall(p, "read") THEN buf[p] ELSE <<>>],
                  {p \in Proc : pc[p] = "wake" /\ op[p] = "read" /\ n[p] > 0 /\ i[p] = 0},
                  writeopen>>
<1>1. Base /\ Base' /\ [Next]_vars => [Fifo!Next]_V
  BY NextView DEF View, Got, Eof
<1>2. Spec => Fifo!Init /\ [][Fifo!Next]_V
  <2> HIDE DEF V
  <2>1. QED
    BY <1>1, InitView, PipeInvariance, PTL DEF Spec
<1>3. QED
  BY <1>2, PTL DEF ImplementsByteQueue, Fifo!Spec, Fifo!vars

-----------------------------------------------------------------------------
(* The largest element of a set of numbers.                                *)

\* Induction up to n, for a set: it would otherwise be mapped one to one into
\* itself without its 0.
LEMMA UpTo ==
  ASSUME NEW h \in Nat, NEW U \in SUBSET (0 .. h), 0 \in U, \A l \in U : l < h => l + 1 \in U
  PROVE  h \in U
<1> SUFFICES ASSUME h \notin U PROVE FALSE
  OBVIOUS
<1> DEFINE f == [l \in U |-> l + 1]
<1>1. IsFiniteSet(0 .. h)
  BY FS_Interval
<1>2. IsFiniteSet(U)
  BY <1>1, FS_Subset
<1>3. IsFiniteSet(U \ {0}) /\ Cardinality(U \ {0}) = Cardinality(U) - 1
  BY <1>2, FS_RemoveElement
<1>4. Cardinality(U) \in Nat
  BY <1>2, FS_CardinalityType
<1>5. f \in [U -> U \ {0}]
  OBVIOUS
<1>6. \E x, y \in U : x # y /\ f[x] = f[y]
  <2> DEFINE V == U \ {0}
  <2>1. IsFiniteSet(V) /\ Cardinality(V) < Cardinality(U) /\ f \in [U -> V]
    BY <1>3, <1>4, <1>5
  <2> HIDE DEF f, V
  <2>2. QED
    BY ONLY <1>2, <2>1, FS_PigeonHole
<1>7. QED
  BY <1>6

LEMMA LargestExists ==
  ASSUME NEW h \in Nat, NEW S \in SUBSET (0 .. h), S # {}
  PROVE  \E k \in S : \A j \in S : j <= k
<1> DEFINE U == {l \in 0 .. h + 1 : \E s \in S : s >= l}
<1>1. 0 \in U
  <2>1. PICK s \in S : TRUE
    OBVIOUS
  <2>2. s >= 0 /\ 0 \in 0 .. h + 1
    OBVIOUS
  <2>3. QED
    BY <2>2
<1>0. h + 1 \notin U /\ U \in SUBSET (0 .. h + 1) /\ h + 1 \in Nat
  OBVIOUS
<1>2. PICK l \in U : l < h + 1 /\ l + 1 \notin U
  <2> HIDE DEF U
  <2>1. QED
    BY <1>0, <1>1, UpTo
<1>3. l + 1 \in 0 .. h + 1
  BY <1>2
<1>4. \A s \in S : s < l + 1
  BY <1>2, <1>3
<1>5. QED
  BY <1>2, <1>4

-----------------------------------------------------------------------------
(* The console.                                                            *)

CONSTANTS INPUT_BUF, INDICES, Plain, MaxRead
VARIABLES input, inR, inW, inE, reader, want, got, dead

C == INSTANCE Console WITH
  WORD <- INDICES, MaxN <- MaxRead,
  buf <- input, r <- inR, w <- inW, e <- inE, pc <- reader, killed <- dead

\* The buffer's size divides the number of values of an index, and both are
\* there for the code to choose: 128 and 2^32.
ConsoleSizes ==
  /\ INPUT_BUF \in Nat /\ INPUT_BUF > 0
  /\ INDICES \in Nat /\ INDICES > INPUT_BUF /\ INDICES % INPUT_BUF = 0
  /\ MaxRead \in Nat

Index    == 0 .. INDICES - 1
Key      == C!Keys \cup {"0"}
Cells    == [0 .. INPUT_BUF - 1 -> Key]
Count(a, b) == (b - a) % INDICES
Plus(a, k)  == (a + k) % INDICES
Cell(k)     == k % INPUT_BUF

\* The characters from index a up to b, with the buffer as a parameter.
Text(cells, a, b) == [k \in 1 .. Count(a, b) |-> cells[Cell(a + k - 1)]]

LEMMA CountFacts ==
  ASSUME ConsoleSizes, NEW a \in Index, NEW b \in Index
  PROVE  /\ Count(a, b) \in Index /\ Count(a, b) \in Nat
         /\ Count(a, b) = IF b < a THEN b - a + INDICES ELSE b - a
<1>1. Count(a, b) = IF b - a < 0 THEN b - a + INDICES
                    ELSE IF b - a < INDICES THEN b - a ELSE b - a - INDICES
  BY WrapOnce DEF Count, Index, ConsoleSizes
<1>2. QED
  BY <1>1 DEF Index, ConsoleSizes

LEMMA PlusFacts ==
  ASSUME ConsoleSizes, NEW a \in Index, NEW k \in Index
  PROVE  /\ Plus(a, k) \in Index
         /\ Plus(a, k) = IF a + k < INDICES THEN a + k ELSE a + k - INDICES
         /\ Count(a, Plus(a, k)) = k
<1>1. Plus(a, k) = IF a + k < 0 THEN a + k + INDICES
                   ELSE IF a + k < INDICES THEN a + k ELSE a + k - INDICES
  BY WrapOnce DEF Plus, Index, ConsoleSizes
<1>2. Plus(a, k) \in Index /\ Plus(a, k) = IF a + k < INDICES THEN a + k ELSE a + k - INDICES
  BY <1>1 DEF Index, ConsoleSizes
<1>3. Count(a, Plus(a, k)) = IF Plus(a, k) < a THEN Plus(a, k) - a + INDICES ELSE Plus(a, k) - a
  BY <1>2, CountFacts
<1>4. QED
  BY <1>2, <1>3 DEF Index, ConsoleSizes

LEMMA CountPlus ==
  ASSUME ConsoleSizes, NEW a \in Index, NEW b \in Index, NEW k \in 0 .. Count(a, b)
  PROVE  k \in Index /\ Plus(a, k) \in Index /\ Count(Plus(a, k), b) = Count(a, b) - k
<1>1. Count(a, b) \in Index /\ Count(a, b) = IF b < a THEN b - a + INDICES ELSE b - a
  BY CountFacts
<1>2. k \in Index
  BY <1>1 DEF Index, ConsoleSizes
<1>3. Plus(a, k) \in Index /\ Plus(a, k) = IF a + k < INDICES THEN a + k ELSE a + k - INDICES
  BY <1>2, PlusFacts
<1>4. Count(Plus(a, k), b) = IF b < Plus(a, k) THEN b - Plus(a, k) + INDICES ELSE b - Plus(a, k)
  BY <1>3, CountFacts
<1>5. QED
  BY <1>1, <1>2, <1>3, <1>4 DEF Index, ConsoleSizes

LEMMA PlusCount ==
  ASSUME ConsoleSizes, NEW a \in Index, NEW b \in Index
  PROVE  Plus(a, Count(a, b)) = b
<1>1. Count(a, b) \in Index /\ Count(a, b) = IF b < a THEN b - a + INDICES ELSE b - a
  BY CountFacts
<1>2. Plus(a, Count(a, b)) = IF a + Count(a, b) < INDICES THEN a + Count(a, b)
                             ELSE a + Count(a, b) - INDICES
  BY <1>1, PlusFacts
<1>3. QED
  BY <1>1, <1>2 DEF Index, ConsoleSizes

\* Where a character is does not depend on how often the index has wrapped.
LEMMA CellWrap ==
  ASSUME ConsoleSizes, NEW x \in Int
  PROVE  Cell(x) \in 0 .. INPUT_BUF - 1 /\ Cell(x % INDICES) = Cell(x)
<1> DEFINE m == INDICES \div INPUT_BUF  q == x \div INDICES  y == x % INDICES
<1>1. m \in Int /\ INDICES = m * INPUT_BUF + 0
  BY DivMod DEF ConsoleSizes
<1>2. q \in Int /\ y \in Int /\ x = q * INDICES + y
  BY DivMod DEF ConsoleSizes
<1>3. Cell(x) \in 0 .. INPUT_BUF - 1
  BY DivMod DEF ConsoleSizes, Cell
<1> HIDE DEF m, q, y
<1>4. x = y + (q * m) * INPUT_BUF /\ q * m \in Int
  BY <1>1, <1>2 DEF ConsoleSizes
<1>5. (y + (q * m) * INPUT_BUF) % INPUT_BUF = y % INPUT_BUF
  BY <1>2, <1>4, ModPlus DEF ConsoleSizes
<1>6. QED
  BY <1>3, <1>4, <1>5 DEF Cell, y

LEMMA CellPlus ==
  ASSUME ConsoleSizes, NEW a \in Index, NEW k \in Index, NEW j \in Int
  PROVE  Cell(Plus(a, k) + j) = Cell(a + k + j)
<1>1. Plus(a, k) \in Int /\ Plus(a, k) + j \in Int /\ a + k + j \in Int
      /\ Plus(a, k) = IF a + k < INDICES THEN a + k ELSE a + k - INDICES
  BY PlusFacts DEF Index, ConsoleSizes
<1>2. CASE a + k < INDICES
  BY <1>1, <1>2
<1>3. CASE a + k >= INDICES
  <2> DEFINE m == INDICES \div INPUT_BUF  x == Plus(a, k) + j
  <2>1. m \in Int /\ INDICES = m * INPUT_BUF + 0
    BY DivMod DEF ConsoleSizes
  <2>2. x \in Int /\ a + k + j = x + INDICES
    BY <1>1, <1>3 DEF Index, ConsoleSizes
  <2> HIDE DEF m, x
  <2>3. (x + m * INPUT_BUF) % INPUT_BUF = x % INPUT_BUF /\ m * INPUT_BUF = INDICES
    BY <2>1, <2>2, ModPlus DEF ConsoleSizes
  <2>4. QED
    BY <2>2, <2>3 DEF Cell, x
<1>4. QED
  BY <1>1, <1>2, <1>3 DEF Index, ConsoleSizes

LEMMA CellsApart ==
  ASSUME ConsoleSizes, NEW x \in Int, NEW d \in 1 .. INPUT_BUF - 1
  PROVE  Cell(x + d) # Cell(x)
<1>1. INPUT_BUF \in Nat /\ INPUT_BUF > 0 /\ d \in 0 .. INPUT_BUF - 1 /\ d # 0
  BY DEF ConsoleSizes
<1>2. QED
  BY <1>1, ModSame DEF Cell

-----------------------------------------------------------------------------
(* Texts: what the buffer holds from one index up to another.              *)

LEMMA TextFacts ==
  ASSUME ConsoleSizes, NEW cells \in Cells, NEW a \in Index, NEW b \in Index
  PROVE  /\ Text(cells, a, b) \in Seq(Key) /\ Len(Text(cells, a, b)) = Count(a, b)
         /\ \A k \in 1 .. Count(a, b) : Text(cells, a, b)[k] = cells[Cell(a + k - 1)]
<1>1. Count(a, b) \in Nat
  BY CountFacts
<1>2. \A k \in 1 .. Count(a, b) : cells[Cell(a + k - 1)] \in Key
  <2>1. TAKE k \in 1 .. Count(a, b)
  <2>2. a + k - 1 \in Int
    BY <1>1 DEF Index, ConsoleSizes
  <2>3. QED
    BY <2>2, CellWrap DEF Cells
<1>3. QED
  BY <1>1, <1>2 DEF Text

LEMMA TextFront ==
  ASSUME ConsoleSizes, NEW cells \in Cells, NEW a \in Index, NEW b \in Index,
         NEW k \in 0 .. Count(a, b)
  PROVE  Text(cells, a, Plus(a, k)) = SubSeq(Text(cells, a, b), 1, k)
<1> DEFINE s == Text(cells, a, b)  t == Text(cells, a, Plus(a, k))  u == SubSeq(s, 1, k)
<1>1. Count(a, b) \in Nat /\ k \in Index /\ Plus(a, k) \in Index /\ Count(a, Plus(a, k)) = k
  BY CountFacts, CountPlus, PlusFacts
<1>2. /\ s \in Seq(Key) /\ Len(s) = Count(a, b)
      /\ \A j \in 1 .. Count(a, b) : s[j] = cells[Cell(a + j - 1)]
  BY TextFacts
<1>3. t \in Seq(Key) /\ Len(t) = k /\ \A j \in 1 .. k : t[j] = cells[Cell(a + j - 1)]
  <2> DEFINE d == Plus(a, k)  m == Count(a, d)
  <2> HIDE DEF d
  <2>1. d \in Index
    BY <1>1 DEF d
  <2>2. /\ Text(cells, a, d) \in Seq(Key) /\ Len(Text(cells, a, d)) = m
        /\ \A j \in 1 .. m : Text(cells, a, d)[j] = cells[Cell(a + j - 1)]
    BY <2>1, TextFacts
  <2>3. m = k
    BY <1>1 DEF d
  <2> HIDE DEF m
  <2>4. QED
    BY <2>2, <2>3 DEF d
<1> HIDE DEF s, t
<1>4. u \in Seq(Key) /\ Len(u) = k /\ \A j \in 1 .. k : u[j] = s[j]
  <2>1. \A j \in 1 .. k : s[j] \in Key
    BY <1>1, <1>2
  <2>2. QED
    BY <1>1, <2>1, SubSeqProperties
<1> HIDE DEF u
<1>5. t = u
  BY <1>1, <1>2, <1>3, <1>4, SeqEqual
<1>6. QED
  BY <1>5 DEF s, t, u

LEMMA TextBack ==
  ASSUME ConsoleSizes, NEW cells \in Cells, NEW a \in Index, NEW b \in Index,
         NEW k \in 0 .. Count(a, b)
  PROVE  Text(cells, Plus(a, k), b) = SubSeq(Text(cells, a, b), k + 1, Len(Text(cells, a, b)))
<1> DEFINE s == Text(cells, a, b)  t == Text(cells, Plus(a, k), b)  h == Count(a, b)
           u == SubSeq(s, k + 1, Len(s))
<1>1. h \in Nat /\ k \in Index /\ Plus(a, k) \in Index /\ Count(Plus(a, k), b) = h - k
  BY CountFacts, CountPlus
<1>2. /\ s \in Seq(Key) /\ Len(s) = h /\ \A j \in 1 .. h : s[j] = cells[Cell(a + j - 1)]
  BY TextFacts
<1>3. /\ t \in Seq(Key) /\ Len(t) = h - k
      /\ \A j \in 1 .. h - k : t[j] = cells[Cell(Plus(a, k) + j - 1)]
  <2> DEFINE d == Plus(a, k)  m == Count(d, b)
  <2> HIDE DEF d
  <2>1. d \in Index
    BY <1>1 DEF d
  <2>2. /\ Text(cells, d, b) \in Seq(Key) /\ Len(Text(cells, d, b)) = m
        /\ \A j \in 1 .. m : Text(cells, d, b)[j] = cells[Cell(d + j - 1)]
    BY <2>1, TextFacts
  <2>3. m = h - k
    BY <1>1 DEF d
  <2> HIDE DEF m
  <2>4. QED
    BY <2>2, <2>3 DEF d
<1>4. \A j \in 1 .. h - k : t[j] = s[k + j]
  <2>1. TAKE j \in 1 .. h - k
  <2>2. k + j \in 1 .. h /\ j - 1 \in Int /\ a + k + (j - 1) = a + (k + j) - 1
        /\ Plus(a, k) + (j - 1) = Plus(a, k) + j - 1
    BY <1>1 DEF Index, ConsoleSizes
  <2>3. Cell(Plus(a, k) + (j - 1)) = Cell(a + k + (j - 1))
    BY <1>1, <2>2, CellPlus
  <2>4. QED
    BY <1>2, <1>3, <2>2, <2>3
<1> HIDE DEF s, t, h
<1>5. /\ u \in Seq(Key) /\ Len(u) = h - k /\ \A j \in 1 .. h - k : u[j] = s[k + j]
  <2>1. \A j \in k + 1 .. h : s[j] \in Key
    BY <1>1, <1>2
  <2>2. k + 1 \in Int /\ h \in Int /\ k \in 0 .. h
    BY <1>1 DEF h
  <2> DEFINE v == SubSeq(s, k + 1, h)
  <2>3. /\ v \in Seq(Key) /\ Len(v) = IF k + 1 <= h THEN h - (k + 1) + 1 ELSE 0
        /\ \A j \in 1 .. h - (k + 1) + 1 : v[j] = s[(k + 1) + j - 1]
    BY <2>1, <2>2, SubSeqProperties
  <2> HIDE DEF v
  <2>4. v \in Seq(Key) /\ Len(v) = h - k /\ \A j \in 1 .. h - k : v[j] = s[k + j]
    <3>1. h - (k + 1) + 1 = h - k /\ h - k \in Nat /\ (k + 1 <= h \/ h - k = 0)
      BY <2>2, <1>1
    <3>2. \A j \in 1 .. h - k : (k + 1) + j - 1 = k + j
      BY <2>2
    <3>3. QED
      BY <2>3, <3>1, <3>2
  <2>5. QED
    BY <1>2, <2>4 DEF v
<1> HIDE DEF u
<1>6. t = u
  BY <1>1, <1>3, <1>4, <1>5, SeqEqual
<1>7. QED
  BY <1>6 DEF s, t, u

LEMMA TextJoin ==
  ASSUME ConsoleSizes, NEW cells \in Cells, NEW a \in Index, NEW b \in Index, NEW d \in Index,
         Count(a, b) + Count(b, d) = Count(a, d)
  PROVE  Text(cells, a, d) = Text(cells, a, b) \o Text(cells, b, d)
<1> DEFINE s == Text(cells, a, b)  t == Text(cells, b, d)  u == Text(cells, a, d)
           m == Count(a, b)  h == Count(b, d)
<1>1. m \in Index /\ m \in Nat /\ h \in Nat /\ Plus(a, m) = b
  BY CountFacts, PlusCount
<1>2. s \in Seq(Key) /\ Len(s) = m /\ \A j \in 1 .. m : s[j] = cells[Cell(a + j - 1)]
  BY TextFacts
<1>3. t \in Seq(Key) /\ Len(t) = h /\ \A j \in 1 .. h : t[j] = cells[Cell(b + j - 1)]
  BY TextFacts
<1>4. u \in Seq(Key) /\ Len(u) = m + h /\ \A j \in 1 .. m + h : u[j] = cells[Cell(a + j - 1)]
  BY TextFacts
<1> HIDE DEF s, t, u, m, h
<1>5. \A j \in 1 .. m + h : u[j] = IF j <= m THEN s[j] ELSE t[j - m]
  <2>1. TAKE j \in 1 .. m + h
  <2>2. CASE j <= m
    BY <1>1, <1>2, <1>4, <2>2
  <2>3. CASE j > m
    <3>1. j - m \in 1 .. h /\ j - m - 1 \in Int /\ a + m + (j - m - 1) = a + j - 1
          /\ b + (j - m - 1) = b + (j - m) - 1
      BY <1>1, <2>3 DEF Index, ConsoleSizes
    <3>2. Cell(Plus(a, m) + (j - m - 1)) = Cell(a + m + (j - m - 1))
      BY <1>1, <3>1, CellPlus
    <3>3. t[j - m] = cells[Cell(b + (j - m) - 1)] /\ u[j] = cells[Cell(a + j - 1)]
      BY <1>3, <1>4, <3>1
    <3>4. Cell(b + (j - m) - 1) = Cell(a + j - 1)
      BY <1>1, <3>1, <3>2
    <3>5. u[j] = t[j - m] /\ ~(j <= m)
      BY <3>3, <3>4, <2>3, <1>1
    <3>6. QED
      BY <3>5
  <2>4. QED
    BY <1>1, <2>2, <2>3
<1>6. /\ s \o t \in Seq(Key) /\ Len(s \o t) = m + h
      /\ \A j \in 1 .. m + h : (s \o t)[j] = IF j <= m THEN s[j] ELSE t[j - m]
  BY <1>2, <1>3, ConcatProperties
<1> DEFINE v == s \o t
<1> HIDE DEF v
<1>7. u = v
  <2>1. /\ v \in Seq(Key) /\ Len(v) = m + h
        /\ \A j \in 1 .. m + h : v[j] = IF j <= m THEN s[j] ELSE t[j - m]
    BY <1>6 DEF v
  <2>2. QED
    BY <1>1, <1>4, <1>5, <2>1, SeqEqual
<1>8. QED
  BY <1>7 DEF s, t, u, v

\* A character is stored behind the others, and over none of them.
LEMMA TextPut ==
  ASSUME ConsoleSizes, NEW cells \in Cells, NEW a \in Index, NEW b \in Index, NEW c \in Key,
         Count(a, b) < INPUT_BUF
  PROVE  /\ [cells EXCEPT ![Cell(b)] = c] \in Cells
         /\ Plus(b, 1) \in Index /\ Count(a, Plus(b, 1)) = Count(a, b) + 1
         /\ Text([cells EXCEPT ![Cell(b)] = c], a, Plus(b, 1)) = Append(Text(cells, a, b), c)
<1> DEFINE dells == [cells EXCEPT ![Cell(b)] = c]  h == Count(a, b)
           s == Text(cells, a, b)  t == Text(dells, a, Plus(b, 1))
<1>1. h \in Nat /\ h \in Index /\ Plus(a, h) = b /\ h = IF b < a THEN b - a + INDICES ELSE b - a
  BY CountFacts, PlusCount
<1>2. Cell(b) \in 0 .. INPUT_BUF - 1 /\ dells \in Cells /\ dells[Cell(b)] = c
      /\ \A l \in 0 .. INPUT_BUF - 1 : l # Cell(b) => dells[l] = cells[l]
  <2>1. Cell(b) \in 0 .. INPUT_BUF - 1
    BY CellWrap DEF Index, ConsoleSizes
  <2>2. QED
    BY <2>1 DEF Cells
<1>3. /\ 1 \in Index /\ Plus(b, 1) \in Index
      /\ Plus(b, 1) = IF b + 1 < INDICES THEN b + 1 ELSE b + 1 - INDICES
  <2>1. 1 \in Index
    BY DEF Index, ConsoleSizes
  <2>2. QED
    BY <2>1, PlusFacts
<1>4. Count(a, Plus(b, 1)) = h + 1
  <2>1. Count(a, Plus(b, 1)) = IF Plus(b, 1) < a THEN Plus(b, 1) - a + INDICES ELSE Plus(b, 1) - a
    BY <1>3, CountFacts
  <2>2. QED
    BY <1>1, <1>3, <2>1 DEF Index, ConsoleSizes
<1>5. Cell(a + h) = Cell(b)
  <2>1. Cell(Plus(a, h) + 0) = Cell(a + h + 0)
    BY <1>1, CellPlus
  <2>2. QED
    BY <1>1, <2>1 DEF Index, ConsoleSizes
<1>6. \A k \in 1 .. h : /\ Cell(a + k - 1) # Cell(b) /\ Cell(a + k - 1) \in 0 .. INPUT_BUF - 1
                        /\ dells[Cell(a + k - 1)] = cells[Cell(a + k - 1)]
  <2>1. TAKE k \in 1 .. h
  <2>2. a + k - 1 \in Int /\ h - (k - 1) \in 1 .. INPUT_BUF - 1 + 1 /\ h - (k - 1) \in 1 .. h
        /\ (a + k - 1) + (h - (k - 1)) = a + h
    BY <1>1 DEF Index, ConsoleSizes
  <2>3. h - (k - 1) \in 1 .. INPUT_BUF - 1
    BY <1>1, <2>2 DEF ConsoleSizes
  <2>4. Cell((a + k - 1) + (h - (k - 1))) # Cell(a + k - 1)
    BY <2>2, <2>3, CellsApart
  <2>5. Cell(a + k - 1) \in 0 .. INPUT_BUF - 1
    BY <2>2, CellWrap
  <2>6. QED
    BY <1>2, <1>5, <2>2, <2>4, <2>5
<1>7. s \in Seq(Key) /\ Len(s) = h /\ \A j \in 1 .. h : s[j] = cells[Cell(a + j - 1)]
  BY TextFacts
<1>8. /\ t \in Seq(Key) /\ Len(t) = h + 1
      /\ \A j \in 1 .. h + 1 : t[j] = dells[Cell(a + j - 1)]
  <2> HIDE DEF dells, h
  <2>1. QED
    BY <1>2, <1>3, <1>4, TextFacts
<1> DEFINE v == Append(s, c)
<1> HIDE DEF s, t, h
<1>9. /\ v \in Seq(Key) /\ Len(v) = h + 1 /\ v[h + 1] = c
       /\ \A j \in 1 .. h : v[j] = s[j]
  BY <1>7
<1> HIDE DEF v, dells
<1>10. t = v
  <2>1. \A j \in 1 .. h + 1 : t[j] = v[j]
    <3>1. TAKE j \in 1 .. h + 1
    <3>2. CASE j \in 1 .. h
      BY <1>6, <1>7, <1>8, <1>9, <3>2
    <3>3. CASE j = h + 1
      <4>1. a + (h + 1) - 1 = a + h
        BY <1>1 DEF Index
      <4>2. QED
        BY <1>1, <1>2, <1>5, <1>8, <1>9, <3>3, <4>1
    <3>4. QED
      BY <1>1, <3>2, <3>3
  <2>2. QED
    BY <1>1, <1>8, <1>9, <2>1, SeqEqual
<1>11. QED
  BY <1>2, <1>3, <1>4, <1>10 DEF dells, h, s, t, v

LEMMA TextIs ==
  ASSUME ConsoleSizes, NEW cells \in Cells, NEW a \in Index, NEW b \in Index
  PROVE  [k \in 1 .. (b - a) % INDICES |-> cells[((a + k - 1) % INDICES) % INPUT_BUF]]
           = Text(cells, a, b)
<1>1. Count(a, b) \in Nat /\ Count(a, b) = (b - a) % INDICES
  BY CountFacts DEF Count
<1>2. \A k \in 1 .. Count(a, b) : ((a + k - 1) % INDICES) % INPUT_BUF = Cell(a + k - 1)
  <2>1. TAKE k \in 1 .. Count(a, b)
  <2>2. a + k - 1 \in Int
    BY <1>1 DEF Index, ConsoleSizes
  <2>3. QED
    BY <2>2, CellWrap DEF Cell
<1>3. QED
  BY <1>1, <1>2 DEF Text

-----------------------------------------------------------------------------
(* The invariant of the console.                                           *)

\* What the program's variables are.  The buffer has room for what is entered
\* and what is not; when it is full, all of it is entered.
ConsoleOK ==
  /\ input \in Cells /\ inR \in Index /\ inW \in Index /\ inE \in Index
  /\ reader \in [Proc -> {"user", "read", "sleep", "asleep", "done"}]
  /\ want \in [Proc -> Nat] /\ got \in [Proc -> Seq(Key)]
  /\ Count(inR, inW) + Count(inW, inE) <= INPUT_BUF
  /\ Count(inR, inW) + Count(inW, inE) = INPUT_BUF => inW = inE

SleepersOK == \A p \in Proc : reader[p] \in {"sleep", "asleep"} => inR = inW

ConsoleInv == ConsoleOK /\ SleepersOK

Line  == Text(input, inW, inE)
Entered == Text(input, inR, inW)

LEMMA CharsAre ==
  ASSUME ConsoleSizes, ConsoleOK
  PROVE  C!Chars(inW, inE) = Line /\ C!Chars(inR, inW) = Entered
BY TextIs DEF ConsoleOK, C!Chars, Line, Entered

LEMMA CharsWillBe ==
  ASSUME ConsoleSizes, ConsoleOK'
  PROVE  C!Chars(inW, inE)' = Line' /\ C!Chars(inR, inW)' = Entered'
BY TextIs DEF ConsoleOK, C!Chars, Line, Entered

LEMMA LineFacts ==
  ASSUME ConsoleSizes, ConsoleOK
  PROVE  /\ Line \in Seq(Key) /\ Len(Line) = Count(inW, inE)
         /\ Entered \in Seq(Key) /\ Len(Entered) = Count(inR, inW)
         /\ Count(inW, inE) \in Nat /\ Count(inR, inW) \in Nat
         /\ Count(inR, inE) = Count(inR, inW) + Count(inW, inE)
<1>1. /\ Line \in Seq(Key) /\ Len(Line) = Count(inW, inE)
      /\ Entered \in Seq(Key) /\ Len(Entered) = Count(inR, inW)
  BY TextFacts DEF ConsoleOK, Line, Entered
<1>2. /\ Count(inW, inE) = IF inE < inW THEN inE - inW + INDICES ELSE inE - inW
      /\ Count(inR, inW) = IF inW < inR THEN inW - inR + INDICES ELSE inW - inR
      /\ Count(inR, inE) = IF inE < inR THEN inE - inR + INDICES ELSE inE - inR
      /\ Count(inW, inE) \in Nat /\ Count(inR, inW) \in Nat
  BY CountFacts DEF ConsoleOK
<1>3. Count(inR, inE) = Count(inR, inW) + Count(inW, inE)
  BY <1>2 DEF ConsoleOK, Index, ConsoleSizes
<1>4. QED
  BY <1>1, <1>2, <1>3

\* A step of the terminal, or none.
TtyStep == C!Terminal!Next \/ UNCHANGED <<Line, Entered, got>>

-----------------------------------------------------------------------------
(* Characters that are typed.                                              *)

\* Erasing all but k characters of the line.
LEMMA EraseStep ==
  ASSUME ConsoleSizes, ConsoleInv, NEW k \in 0 .. Len(Line), inE' = Plus(inW, k),
         UNCHANGED <<input, inR, inW, reader, want, got, dead>>
  PROVE  ConsoleInv' /\ TtyStep
<1>1. /\ Line \in Seq(Key) /\ Len(Line) = Count(inW, inE)
      /\ Count(inW, inE) \in Nat /\ Count(inR, inW) \in Nat
  BY LineFacts DEF ConsoleInv
<1>2. input \in Cells /\ inR \in Index /\ inW \in Index /\ inE \in Index
  BY DEF ConsoleInv, ConsoleOK
<1>3. k \in Index /\ k \in 0 .. Count(inW, inE)
  BY <1>1, <1>2, CountPlus
<1>4. inE' \in Index /\ Count(inW, inE') = k
  BY <1>2, <1>3, PlusFacts
<1>5. Count(inR, inW)' = Count(inR, inW) /\ Count(inW, inE)' = k /\ k \in Nat
  BY <1>4, <1>3 DEF Count
<1>6. ConsoleOK'
  <2>1. Count(inR, inW)' + Count(inW, inE)' <= INPUT_BUF
    BY <1>1, <1>3, <1>5 DEF ConsoleInv, ConsoleOK, ConsoleSizes
  <2>2. ASSUME Count(inR, inW)' + Count(inW, inE)' = INPUT_BUF PROVE inW' = inE'
    <3>1. k = Count(inW, inE) /\ inW = inE
      BY <1>1, <1>3, <1>5, <2>2 DEF ConsoleInv, ConsoleOK, ConsoleSizes
    <3>2. QED
      BY <3>1, <1>2, PlusCount
  <2>3. QED
    BY <1>4, <2>1, <2>2 DEF ConsoleInv, ConsoleOK
<1>7. SleepersOK'
  BY DEF ConsoleInv, SleepersOK
<1>8. Line' = SubSeq(Line, 1, k) /\ Entered' = Entered
  <2>1. Line' = Text(input, inW, Plus(inW, k))
    BY DEF Line
  <2>2. Text(input, inW, Plus(inW, k)) = SubSeq(Text(input, inW, inE), 1, k)
    BY <1>2, <1>3, TextFront
  <2>3. QED
    BY <2>1, <2>2 DEF Line, Entered
<1>9. C!Terminal!Erase(Len(Line) - k)
  <2>1. Len(Line) - (Len(Line) - k) = k
    BY <1>1, <1>3
  <2>2. /\ C!Chars(inW, inE) = Line /\ C!Chars(inR, inW) = Entered
        /\ C!Chars(inW, inE)' = Line' /\ C!Chars(inR, inW)' = Entered'
    BY <1>6, CharsAre, CharsWillBe DEF ConsoleInv
  <2>3. QED
    BY <1>8, <2>1, <2>2 DEF C!Terminal!Erase
<1>10. C!Terminal!Next
  <2>1. Len(Line) - k \in 0 .. Len(Line) /\ C!Chars(inW, inE) = Line
    BY <1>1, <1>3, CharsAre DEF ConsoleInv
  <2>2. QED
    BY <1>9, <2>1 DEF C!Terminal!Next
<1>11. QED
  BY <1>6, <1>7, <1>10 DEF ConsoleInv, TtyStep

LEMMA KillLineStep ==
  ASSUME ConsoleSizes, ConsoleInv, C!KillLine
  PROVE  ConsoleInv' /\ TtyStep
<1> DEFINE keep == {k \in 0 .. Len(Line) : k = 0 \/ Line[k] = "\n"}
           m == CHOOSE k \in keep : \A j \in keep : j <= k
<1>1. Line = C!Chars(inW, inE) /\ Len(Line) \in Nat
  BY CharsAre, LineFacts DEF ConsoleInv
<1>2. inE' = (inW + m) % INDICES /\ UNCHANGED <<input, inR, inW, reader, want, got, dead>>
  BY <1>1 DEF C!KillLine
<1>3. m \in keep
  <2>1. keep \in SUBSET (0 .. Len(Line)) /\ keep # {}
    BY <1>1
  <2> HIDE DEF keep
  <2>2. \E k \in keep : \A j \in keep : j <= k
    BY <1>1, <2>1, LargestExists
  <2>3. QED
    BY <2>2
<1>4. m \in 0 .. Len(Line)
  BY <1>3
<1> HIDE DEF m
<1>5. inE' = Plus(inW, m)
  BY <1>2 DEF Plus
<1>6. QED
  BY <1>2, <1>4, <1>5, EraseStep

LEMMA BackspaceStep ==
  ASSUME ConsoleSizes, ConsoleInv, C!Backspace
  PROVE  ConsoleInv' /\ TtyStep
<1>1. /\ inE # inW /\ inE' = (inE - 1) % INDICES
      /\ UNCHANGED <<input, inR, inW, reader, want, got, dead>>
  BY DEF C!Backspace
<1>2. inW \in Index /\ inE \in Index
  BY DEF ConsoleInv, ConsoleOK
<1> DEFINE h == Count(inW, inE)
<1>3. /\ h \in Nat /\ h \in Index /\ Len(Line) = h
      /\ h = IF inE < inW THEN inE - inW + INDICES ELSE inE - inW
  BY <1>2, CountFacts, LineFacts DEF ConsoleInv
<1>4. (inE - 1) % INDICES = IF inE - 1 < 0 THEN inE - 1 + INDICES ELSE inE - 1
  <2>1. (inE - 1) % INDICES = IF inE - 1 < 0 THEN inE - 1 + INDICES
                              ELSE IF inE - 1 < INDICES THEN inE - 1 ELSE inE - 1 - INDICES
    BY <1>2, WrapOnce DEF Index, ConsoleSizes
  <2>2. QED
    BY <1>2, <2>1 DEF Index, ConsoleSizes
<1> HIDE DEF h
<1>5. h - 1 \in Index /\ h - 1 \in 0 .. Len(Line)
  BY <1>1, <1>2, <1>3 DEF Index, ConsoleSizes
<1>6. Plus(inW, h - 1) = IF inW + (h - 1) < INDICES THEN inW + (h - 1) ELSE inW + (h - 1) - INDICES
  BY <1>2, <1>5, PlusFacts
<1>7. inE' = Plus(inW, h - 1)
  BY <1>1, <1>2, <1>3, <1>4, <1>6 DEF Index, ConsoleSizes
<1>8. QED
  BY <1>1, <1>5, <1>7, EraseStep

LEMMA StoreStep ==
  ASSUME ConsoleSizes, ConsoleInv, C!Unlocked, NEW c \in Plain \cup C!Enters, C!Store(c)
  PROVE  ConsoleInv' /\ TtyStep
<1> DEFINE h == Count(inR, inW)  m == Count(inW, inE)
           full == inE' = (inR + INPUT_BUF) % INDICES
<1>1. /\ (inE - inR) % INDICES < INPUT_BUF
      /\ input' = [input EXCEPT ![inE % INPUT_BUF] = c] /\ inE' = (inE + 1) % INDICES
      /\ UNCHANGED <<inR, want, got, dead>>
  BY DEF C!Store
<1>2. /\ input \in Cells /\ inR \in Index /\ inW \in Index /\ inE \in Index
      /\ h + m <= INPUT_BUF /\ c \in Key /\ c \in C!Keys
      /\ reader \in [Proc -> {"user", "read", "sleep", "asleep", "done"}]
  BY DEF ConsoleInv, ConsoleOK, Key, C!Keys
<1>3. /\ Line \in Seq(Key) /\ Len(Line) = m /\ m \in Nat
      /\ Entered \in Seq(Key) /\ Len(Entered) = h /\ h \in Nat
      /\ Count(inR, inE) = h + m /\ h + m < INPUT_BUF
  <2>1. Count(inR, inE) < INPUT_BUF
    BY <1>1 DEF Count
  <2>2. QED
    BY <2>1, LineFacts DEF ConsoleInv
<1>4. input' = [input EXCEPT ![Cell(inE)] = c] /\ inE' = Plus(inE, 1)
  BY <1>1 DEF Cell, Plus
<1>5. /\ input' \in Cells /\ inE' \in Index /\ Count(inR, inE') = h + m + 1
      /\ Text(input', inR, inE') = Append(Text(input, inR, inE), c)
  <2>1. Count(inR, inE) < INPUT_BUF
    BY <1>3
  <2>2. /\ input' \in Cells /\ inE' \in Index /\ Count(inR, inE') = Count(inR, inE) + 1
        /\ Text(input', inR, inE') = Append(Text(input, inR, inE), c)
    <3>1. /\ [input EXCEPT ![Cell(inE)] = c] \in Cells /\ Plus(inE, 1) \in Index
          /\ Count(inR, Plus(inE, 1)) = Count(inR, inE) + 1
          /\ Text([input EXCEPT ![Cell(inE)] = c], inR, Plus(inE, 1)) = Append(Text(input, inR, inE), c)
      BY <1>2, <2>1, TextPut
    <3>2. QED
      BY ONLY <1>4, <3>1
  <2>3. QED
    BY <1>3, <2>2
<1>6. /\ Count(inW, inE') = m + 1 /\ Text(input', inW, inE') = Append(Line, c)
  <2>1. Count(inW, inE) < INPUT_BUF
    BY <1>3 DEF ConsoleSizes
  <2>2. /\ Count(inW, Plus(inE, 1)) = Count(inW, inE) + 1
        /\ Text([input EXCEPT ![Cell(inE)] = c], inW, Plus(inE, 1)) = Append(Text(input, inW, inE), c)
    BY <1>2, <2>1, TextPut
  <2>3. Count(inW, inE') = Count(inW, inE) + 1 /\ Text(input', inW, inE') = Append(Text(input, inW, inE), c)
    BY ONLY <1>4, <2>2
  <2>4. QED
    BY <2>3 DEF Line
\* What was entered is where it was.
<1>7. Text(input', inR, inW) = Entered
  <2>1. /\ h \in 0 .. Count(inR, inE) /\ h \in 0 .. Count(inR, inE') /\ Plus(inR, h) = inW
    BY <1>2, <1>3, <1>5, PlusCount
  <2>2. /\ Text(input, inR, inW) = SubSeq(Text(input, inR, inE), 1, h)
    BY <1>2, <2>1, TextFront
  <2>3. /\ Text(input', inR, inW) = SubSeq(Text(input', inR, inE'), 1, h)
    <3> HIDE DEF h, m
    <3>1. Text(input', inR, Plus(inR, h)) = SubSeq(Text(input', inR, inE'), 1, h)
      BY <1>2, <1>5, <2>1, TextFront
    <3>2. QED
      BY <2>1, <3>1
  <2> DEFINE s == Text(input, inR, inE)
  <2>4. s \in Seq(Key) /\ Len(s) = h + m
    BY <1>2, <1>3, TextFacts
  <2> HIDE DEF s
  <2>5. SubSeq(Append(s, c), 1, h) = SubSeq(s, 1, h)
    BY <1>2, <1>3, <2>4
  <2>6. QED
    BY <1>5, <2>2, <2>3, <2>5 DEF Entered, s
<1>8. full <=> h + m + 1 = INPUT_BUF
  <2>1. INPUT_BUF \in Index /\ Count(inR, Plus(inR, INPUT_BUF)) = INPUT_BUF
    BY <1>2, PlusFacts DEF Index, ConsoleSizes
  <2>2. Plus(inR, Count(inR, inE')) = inE'
    BY <1>2, <1>5, PlusCount
  <2>3. QED
    BY <1>5, <2>1, <2>2 DEF Plus
<1>9. CASE c \in C!Enters \/ full
  <2>1. inW' = inE' /\ C!WakeReaders
    BY <1>9 DEF C!Store
  <2>2. /\ reader' \in [Proc -> {"user", "read", "sleep", "asleep", "done"}]
        /\ \A p \in Proc : reader'[p] \notin {"sleep", "asleep"}
    BY <1>2, <2>1 DEF C!WakeReaders, C!Unlocked
  <2>3. Count(inE', inE') = 0
    BY <1>5, CountFacts DEF Index, ConsoleSizes
  <2>4. ConsoleOK'
    <3>1. /\ Count(inR, inW)' = h + m + 1 /\ Count(inW, inE)' = 0
      BY <1>1, <1>5, <2>1, <2>3 DEF Count
    <3>2. Count(inR, inW)' + Count(inW, inE)' <= INPUT_BUF
      BY <1>3, <3>1 DEF ConsoleSizes
    <3>3. QED
      BY <1>1, <1>2, <1>5, <2>1, <2>2, <3>2 DEF ConsoleInv, ConsoleOK
  <2>5. SleepersOK'
    BY <2>2 DEF SleepersOK
  <2>6. Line' = <<>> /\ Entered' = Entered \o Append(Line, c)
    <3>1. Line' = Text(input', inE', inE')
      BY <2>1 DEF Line
    <3>2. Text(input', inE', inE') = <<>>
      <4>1. /\ Text(input', inE', inE') \in Seq(Key) /\ Len(Text(input', inE', inE')) = 0
        BY <1>5, <2>3, TextFacts
      <4>2. QED
        BY <4>1
    <3>3. Entered' = Text(input', inR, inE')
      BY <1>1, <2>1 DEF Entered
    <3>4. Count(inR, inW) + Count(inW, inE') = Count(inR, inE')
      BY <1>3, <1>5, <1>6
    <3>5. Text(input', inR, inE') = Text(input', inR, inW) \o Text(input', inW, inE')
      <4>1. input' \in Cells /\ inR \in Index /\ inW \in Index /\ inE' \in Index
        BY <1>2, <1>5
      <4>2. QED
        BY ONLY ConsoleSizes, <3>4, <4>1, TextJoin
    <3>6. QED
      BY <1>6, <1>7, <3>1, <3>2, <3>3, <3>5
  <2>7. C!Terminal!Enter(c)
    <3>1. /\ C!Chars(inW, inE) = Line /\ C!Chars(inR, inW) = Entered
          /\ C!Chars(inW, inE)' = Line' /\ C!Chars(inR, inW)' = Entered'
      BY <2>4, CharsAre, CharsWillBe DEF ConsoleInv
    <3>2. QED
      BY <1>1, <2>6, <3>1 DEF C!Terminal!Enter
  <2>8. QED
    BY <1>2, <2>4, <2>5, <2>7 DEF ConsoleInv, TtyStep, C!Terminal!Next
<1>10. CASE ~(c \in C!Enters \/ full)
  <2>1. UNCHANGED <<inW, reader>>
    BY <1>10 DEF C!Store
  <2>2. /\ Count(inR, inW)' = h /\ Count(inW, inE)' = m + 1
    BY <1>1, <1>6, <2>1 DEF Count
  <2>3. Count(inR, inW)' + Count(inW, inE)' < INPUT_BUF
    BY <1>3, <1>8, <1>10, <2>2 DEF ConsoleSizes
  <2>4. ConsoleOK'
    <3>1. /\ Count(inR, inW)' + Count(inW, inE)' <= INPUT_BUF
          /\ Count(inR, inW)' + Count(inW, inE)' # INPUT_BUF
      BY <1>3, <2>2, <2>3 DEF ConsoleSizes
    <3>2. QED
      BY <1>1, <1>2, <1>5, <2>1, <3>1 DEF ConsoleInv, ConsoleOK
  <2>5. SleepersOK'
    BY <1>1, <2>1 DEF ConsoleInv, SleepersOK
  <2>6. Line' = Append(Line, c) /\ Entered' = Entered
    BY <1>1, <1>6, <1>7, <2>1 DEF Line, Entered
  <2>7. C!Terminal!Type(c)
    <3>1. /\ C!Chars(inW, inE) = Line /\ C!Chars(inR, inW) = Entered
          /\ C!Chars(inW, inE)' = Line' /\ C!Chars(inR, inW)' = Entered'
      BY <2>4, CharsAre, CharsWillBe DEF ConsoleInv
    <3>2. QED
      BY <1>1, <2>6, <3>1 DEF C!Terminal!Type
  <2>8. QED
    BY <1>2, <2>4, <2>5, <2>7 DEF ConsoleInv, TtyStep, C!Terminal!Next
<1>11. QED
  BY <1>9, <1>10

-----------------------------------------------------------------------------
(* Readers.                                                                *)

\* A reader moves the index of what is read next by k.
LEMMA ReadMoves ==
  ASSUME ConsoleSizes, ConsoleOK, NEW k \in 0 .. Len(Entered), inR' = Plus(inR, k),
         UNCHANGED <<input, inW, inE>>,
         reader' \in [Proc -> {"user", "read", "sleep", "asleep", "done"}],
         want' \in [Proc -> Nat], got' \in [Proc -> Seq(Key)]
  PROVE  /\ ConsoleOK' /\ Line' = Line /\ Entered' = SubSeq(Entered, k + 1, Len(Entered))
         /\ k = Len(Entered) => inR' = inW'
<1> DEFINE h == Count(inR, inW)  m == Count(inW, inE)
<1>1. /\ input \in Cells /\ inR \in Index /\ inW \in Index /\ inE \in Index
      /\ h + m <= INPUT_BUF /\ (h + m = INPUT_BUF => inW = inE)
      /\ h \in Nat /\ m \in Nat /\ Len(Entered) = h
  BY LineFacts DEF ConsoleOK
<1>2. k \in 0 .. Count(inR, inW) /\ k \in Index /\ inR' \in Index /\ Count(inR', inW) = h - k
  BY <1>1, CountPlus
<1>3. Count(inR, inW)' = h - k /\ Count(inW, inE)' = m
  BY <1>2 DEF Count
<1>4. ConsoleOK'
  <2>1. h - k + m <= INPUT_BUF /\ (h - k + m = INPUT_BUF => inW = inE)
    BY <1>1, <1>2 DEF ConsoleSizes
  <2>2. QED
    BY <1>1, <1>2, <1>3, <2>1 DEF ConsoleOK
<1>5. Entered' = SubSeq(Entered, k + 1, Len(Entered))
  <2>1. Entered' = Text(input, Plus(inR, k), inW)
    BY DEF Entered
  <2>2. QED
    BY <1>1, <1>2, <2>1, TextBack DEF Entered
<1>6. ASSUME k = Len(Entered) PROVE inR' = inW'
  BY <1>1, <1>6, PlusCount
<1>7. QED
  BY <1>4, <1>5, <1>6 DEF Line

LEMMA ReadStep ==
  ASSUME ConsoleSizes, ConsoleInv, NEW p \in Proc, C!Read(p)
  PROVE  ConsoleInv' /\ TtyStep
<1> DEFINE may == {k \in 0 .. want[p] : /\ k <= Len(Entered)
                                        /\ \A j \in 1 .. k : Entered[j] # "^D"
                                        /\ \A j \in 1 .. k - 1 : Entered[j] # "\n"}
           k == C!Copied(p)
           ended == k = want[p] \/ (k > 0 /\ Entered[k] = "\n")
           eof == ~ended /\ k < Len(Entered)
           first == got[p] = <<>> /\ k = 0
           killedNow == ~ended /\ ~eof /\ p \in dead
           d == IF eof /\ first THEN 1 ELSE k
<1>1. /\ Entered = C!Chars(inR, inW) /\ Entered \in Seq(Key) /\ Len(Entered) \in Nat
      /\ Line = C!Chars(inW, inE) /\ want[p] \in Nat /\ got[p] \in Seq(Key)
      /\ want \in [Proc -> Nat] /\ got \in [Proc -> Seq(Key)]
      /\ reader \in [Proc -> {"user", "read", "sleep", "asleep", "done"}] /\ inR \in Index
  BY CharsAre, LineFacts DEF ConsoleInv, ConsoleOK
<1>2. /\ inR' = (inR + d) % INDICES
      /\ got' = [got EXCEPT ![p] = @ \o SubSeq(Entered, 1, k)]
      /\ want' = [want EXCEPT ![p] = @ - k]
      /\ reader' = [reader EXCEPT ![p] = IF ended \/ eof \/ killedNow THEN "done" ELSE "sleep"]
      /\ UNCHANGED <<input, inW, inE, dead>>
  <2> HIDE DEF k
  <2>1. QED
    BY <1>1 DEF C!Read, k
<1>3. k \in may /\ \A j \in may : j <= k
  <2>1. k = CHOOSE l \in may : \A j \in may : j <= l
    BY <1>1 DEF C!Copied
  <2>2. may \in SUBSET (0 .. want[p]) /\ 0 \in may
    BY <1>1
  <2> HIDE DEF may, k
  <2>3. \E l \in may : \A j \in may : j <= l
    BY <1>1, <2>2, LargestExists
  <2>4. QED
    BY <2>1, <2>3
<1> HIDE DEF k
<1>4. /\ k \in Nat /\ k <= want[p] /\ k <= Len(Entered) /\ \A j \in 1 .. k : Entered[j] # "^D"
  BY <1>1, <1>3
\* A C('D') that is the first character is taken alone.
<1>5. ASSUME eof, first PROVE Entered # <<>> /\ Head(Entered) = "^D" /\ Len(Entered) >= 1
  <2>1. k = 0 /\ want[p] >= 1 /\ Len(Entered) >= 1
    BY <1>1, <1>4, <1>5
  <2>2. 1 \notin may
    BY <1>3, <2>1
  <2>3. Entered[1] = "^D"
    <3>1. 1 \in 0 .. want[p] /\ 1 <= Len(Entered) /\ 1 .. 1 - 1 = {} /\ \A j \in 1 .. 1 : j = 1
      BY <1>1, <2>1
    <3> HIDE DEF may
    <3>2. 1 \in may \/ \E j \in 1 .. 1 : Entered[j] = "^D"
      BY <3>1 DEF may
    <3>3. QED
      BY <2>2, <3>1, <3>2
  <2>4. QED
    BY <1>1, <2>1, <2>3
<1>6. d \in 0 .. Len(Entered) /\ inR' = Plus(inR, d)
  BY <1>1, <1>2, <1>4, <1>5 DEF Plus
<1>7. /\ reader' \in [Proc -> {"user", "read", "sleep", "asleep", "done"}] /\ want' \in [Proc -> Nat]
      /\ SubSeq(Entered, 1, k) \in Seq(Key) /\ got' \in [Proc -> Seq(Key)]
  <2>1. SubSeq(Entered, 1, k) \in Seq(Key)
    <3>1. \A j \in 1 .. k : Entered[j] \in Key
      BY <1>1, <1>4
    <3>2. QED
      BY <1>4, <3>1, SubSeqProperties
  <2>2. got[p] \o SubSeq(Entered, 1, k) \in Seq(Key)
    BY <1>1, <2>1, ConcatProperties
  <2>3. want[p] - k \in Nat
    BY <1>1, <1>4
  <2> HIDE DEF ended, eof, killedNow, d
  <2>4. QED
    BY <1>1, <1>2, <2>1, <2>2, <2>3
<1>8. /\ ConsoleOK' /\ Line' = Line /\ Entered' = SubSeq(Entered, d + 1, Len(Entered))
      /\ d = Len(Entered) => inR' = inW'
  <2> HIDE DEF d
  <2>1. QED
    BY <1>2, <1>6, <1>7, ReadMoves DEF ConsoleInv
<1>9. SleepersOK'
  <2>1. SUFFICES ASSUME NEW q \in Proc, reader'[q] \in {"sleep", "asleep"} PROVE inR' = inW'
    BY DEF SleepersOK
  <2>2. CASE q = p
    <3>1. ~ended /\ ~eof
      BY <1>1, <1>2, <2>1, <2>2
    <3>2. k = Len(Entered) /\ d = k
      BY <1>1, <1>4, <3>1
    <3>3. QED
      BY <1>2, <1>8, <2>2, <3>1, <3>2
  <2>3. CASE q # p
    <3>1. inR = inW
      BY <1>1, <1>2, <2>1, <2>3 DEF ConsoleInv, SleepersOK
    <3>2. Len(Entered) = 0
      <4>1. /\ Len(Entered) = Count(inR, inW)
            /\ Count(inR, inW) = IF inW < inR THEN inW - inR + INDICES ELSE inW - inR
        BY LineFacts, CountFacts DEF ConsoleInv, ConsoleOK
      <4>2. QED
        BY <3>1, <4>1, <1>1 DEF Index, ConsoleSizes
    <3>3. d = Len(Entered)
      BY <1>6, <3>2
    <3>4. QED
      BY <1>2, <1>8, <3>1, <3>3
  <2>4. QED
    BY <2>2, <2>3
<1>10. /\ C!Chars(inW, inE)' = Line' /\ C!Chars(inR, inW)' = Entered'
  BY <1>8, CharsWillBe
<1>11. CASE eof /\ first
  <2>1. d = 1 /\ k = 0
    BY <1>11
  <2>2. SubSeq(Entered, 1, k) = <<>> /\ got[p] \o <<>> = got[p]
    BY <1>1, <2>1, SubSeqEmpty, ConcatEmptySeq
  <2>3. got' = got
    BY <1>1, <1>2, <2>2
  <2>4. Entered' = Tail(Entered)
    BY <1>1, <1>5, <1>8, <1>11, <2>1, TailIsSubSeq
  <2>5. C!Terminal!TakeEof(p)
    BY <1>1, <1>5, <1>8, <1>10, <1>11, <2>3, <2>4 DEF C!Terminal!TakeEof
  <2>6. QED
    BY <1>8, <1>9, <2>5 DEF ConsoleInv, TtyStep, C!Terminal!Next
<1>12. CASE ~(eof /\ first)
  <2>1. d = k
    BY <1>12
  <2>2. C!Terminal!Take(p, k)
    BY <1>1, <1>2, <1>4, <1>8, <1>10, <2>1 DEF C!Terminal!Take
  <2>3. k \in 0 .. Len(C!Chars(inR, inW))
    BY <1>1, <1>4
  <2>4. QED
    BY <1>8, <1>9, <2>2, <2>3 DEF ConsoleInv, TtyStep, C!Terminal!Next
<1>13. QED
  BY <1>11, <1>12

LEMMA OtherStep ==
  ASSUME ConsoleSizes, ConsoleInv, NEW p \in Proc, C!Call(p) \/ C!Sleep(p) \/ C!Return(p) \/ C!Kill(p)
  PROVE  ConsoleInv' /\ TtyStep
<1>1. UNCHANGED <<input, inR, inW, inE>>
  BY DEF C!Call, C!Sleep, C!Return, C!Kill
<1>2. /\ Line' = Line /\ Entered' = Entered
      /\ Count(inR, inW)' = Count(inR, inW) /\ Count(inW, inE)' = Count(inW, inE)
  BY <1>1 DEF Line, Entered, Count
<1>3. /\ reader' \in [Proc -> {"user", "read", "sleep", "asleep", "done"}]
      /\ want' \in [Proc -> Nat] /\ got' \in [Proc -> Seq(Key)]
  <2>1. <<>> \in Seq(Key) /\ 0 \in Nat /\ 0 .. MaxRead \subseteq Nat
    BY DEF ConsoleSizes
  <2>2. QED
    BY <2>1 DEF ConsoleInv, ConsoleOK, C!Call, C!Sleep, C!Return, C!Kill
<1>4. ConsoleOK'
  BY <1>1, <1>2, <1>3 DEF ConsoleInv, ConsoleOK
<1>5. SleepersOK'
  BY <1>1 DEF ConsoleInv, ConsoleOK, SleepersOK, C!Call, C!Sleep, C!Return, C!Kill
<1>6. C!Chars(inW, inE) = Line /\ C!Chars(inR, inW) = Entered
      /\ C!Chars(inW, inE)' = Line' /\ C!Chars(inR, inW)' = Entered'
  BY <1>4, CharsAre, CharsWillBe DEF ConsoleInv
<1>7. CASE C!Call(p) \/ C!Sleep(p) \/ C!Kill(p)
  BY <1>2, <1>4, <1>5, <1>7 DEF ConsoleInv, TtyStep, C!Call, C!Sleep, C!Kill
<1>8. CASE C!Return(p)
  <2>1. C!Terminal!Return(p)
    BY <1>2, <1>6, <1>8 DEF C!Return, C!Terminal!Return
  <2>2. QED
    BY <1>4, <1>5, <2>1 DEF ConsoleInv, TtyStep, C!Terminal!Next
<1>9. QED
  BY <1>7, <1>8

LEMMA ConsoleStep ==
  ASSUME ConsoleSizes, ConsoleInv, [C!Next]_C!vars
  PROVE  ConsoleInv' /\ TtyStep
<1>1. CASE C!Intr
  BY <1>1, KillLineStep, BackspaceStep, StoreStep DEF C!Intr
<1>2. ASSUME NEW p \in Proc, C!Call(p) \/ C!Read(p) \/ C!Sleep(p) \/ C!Return(p) \/ C!Kill(p)
      PROVE  ConsoleInv' /\ TtyStep
  BY <1>2, ReadStep, OtherStep
<1>3. CASE UNCHANGED C!vars
  BY <1>3 DEF C!vars, ConsoleInv, ConsoleOK, SleepersOK, TtyStep, Line, Entered, Text, Count
<1>4. QED
  BY <1>1, <1>2, <1>3 DEF C!Next

LEMMA ConsoleBegins ==
  ASSUME ConsoleSizes, C!Init
  PROVE  ConsoleInv /\ Line = <<>> /\ Entered = <<>>
<1>1. /\ inR = 0 /\ inW = 0 /\ inE = 0 /\ input = [k \in 0 .. INPUT_BUF - 1 |-> "0"]
      /\ reader = [p \in Proc |-> "user"] /\ want = [p \in Proc |-> 0]
      /\ got = [p \in Proc |-> <<>>]
  BY DEF C!Init
<1>2. 0 \in Index /\ Count(0, 0) = 0 /\ input \in Cells
  <2>1. 0 \in Index
    BY DEF Index, ConsoleSizes
  <2>2. Count(0, 0) = IF 0 < 0 THEN 0 - 0 + INDICES ELSE 0 - 0
    BY <2>1, CountFacts
  <2>3. QED
    BY <1>1, <2>1, <2>2 DEF Cells, Key
<1>3. ConsoleOK
  BY <1>1, <1>2 DEF ConsoleOK, ConsoleSizes
<1>4. SleepersOK
  BY <1>1 DEF SleepersOK
<1>5. Line = <<>> /\ Entered = <<>>
  BY <1>1, <1>2, <1>3, LineFacts
<1>6. QED
  BY <1>3, <1>4, <1>5 DEF ConsoleInv

\* The indices of the console's buffer are in order and no more than the
\* buffer's size apart, and nobody sleeps, or is about to, while there is
\* something to read.
THEOREM ConsoleInvariance == ASSUME ConsoleSizes PROVE C!Spec => []ConsoleInv
<1>1. C!Init => ConsoleInv
  BY ConsoleBegins
<1>2. ConsoleInv /\ [C!Next]_C!vars => ConsoleInv'
  BY ConsoleStep
<1>3. QED
  BY <1>1, <1>2, PTL DEF C!Spec

\* console.c:204, console.c:245: a reader that sleeps has nothing to read, also
\* one whose kill came between its test and its sleep; and a buffer without room
\* for more has something to read.
THEOREM ConsoleReadersAwake == ASSUME ConsoleSizes PROVE C!Spec => []C!ReadersAwake
<1>1. ConsoleInv => C!ReadersAwake
  <2> SUFFICES ASSUME ConsoleInv PROVE C!ReadersAwake
    OBVIOUS
  <2>1. ASSUME (inE - inR) % INDICES = INPUT_BUF PROVE inW # inR
    <3>1. Count(inR, inW) + Count(inW, inE) = INPUT_BUF
      BY <2>1, LineFacts DEF ConsoleInv, Count
    <3>2. inW = inE /\ inR \in Index /\ inW \in Index
      BY <3>1 DEF ConsoleInv, ConsoleOK
    <3>3. ASSUME inW = inR PROVE FALSE
      <4>1. Count(inR, inW) = 0 /\ Count(inW, inE) = 0
        BY <3>2, <3>3, CountFacts DEF Index, ConsoleSizes
      <4>2. QED
        BY <3>1, <4>1 DEF ConsoleSizes
    <3>4. QED
      BY <3>3
  <2>2. QED
    BY <2>1 DEF ConsoleInv, SleepersOK, C!ReadersAwake
<1>2. QED
  BY <1>1, ConsoleInvariance, PTL

\* console.c: lines are edited until they are entered and read once, in
\* order, whatever the indices have wrapped.
THEOREM ConsoleIsTty == ASSUME ConsoleSizes PROVE C!Spec => C!ImplementsTty
<1>1. C!Init => C!Terminal!Init
  <2> SUFFICES ASSUME C!Init PROVE C!Terminal!Init
    OBVIOUS
  <2>1. ConsoleInv /\ Line = <<>> /\ Entered = <<>> /\ got = [p \in Proc |-> <<>>]
    BY ConsoleBegins DEF C!Init
  <2>2. C!Chars(inW, inE) = Line /\ C!Chars(inR, inW) = Entered
    BY <2>1, CharsAre DEF ConsoleInv
  <2>3. QED
    BY <2>1, <2>2 DEF C!Terminal!Init
<1>2. ConsoleInv /\ [C!Next]_C!vars => [C!Terminal!Next]_C!Terminal!vars
  <2> SUFFICES ASSUME ConsoleInv, [C!Next]_C!vars PROVE [C!Terminal!Next]_C!Terminal!vars
    OBVIOUS
  <2>1. ConsoleInv' /\ TtyStep
    BY ConsoleStep
  <2>2. /\ C!Chars(inW, inE) = Line /\ C!Chars(inR, inW) = Entered
        /\ C!Chars(inW, inE)' = Line' /\ C!Chars(inR, inW)' = Entered'
    BY <2>1, CharsAre, CharsWillBe DEF ConsoleInv
  <2>3. QED
    BY <2>1, <2>2 DEF TtyStep, C!Terminal!vars
<1>3. C!Init => ConsoleInv
  BY ConsoleBegins
<1>4. ConsoleInv /\ [C!Next]_C!vars => ConsoleInv'
  BY ConsoleStep
<1>5. QED
  BY <1>1, <1>2, <1>3, <1>4, PTL DEF C!Spec, C!ImplementsTty, C!Terminal!Spec
=============================================================================
