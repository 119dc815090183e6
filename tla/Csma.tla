-------------------------------- MODULE Csma --------------------------------
(***************************************************************************)
(* Nodes that send each other messages over sound, as in networks_lab3:    *)
(* they sense the carrier, send, and repeat what is not acknowledged.      *)
(* Waiting times and how long a window stays open are arbitrary.  Sounds   *)
(* that overlap, or that are heard in part, are noise, of which a node may *)
(* hear any bits and any number of them: an acknowledgement is four bits   *)
(* without a checksum, and that of a frame leaves out its MACs.            *)
(***************************************************************************)
EXTENDS Integers, Sequences, FiniteSetsExt

CONSTANTS Node,       \* rec.MAC of each: from 1 to 3
          Messages,   \* Messages[n]: the destMACs that n's user has typed
          WINDOW,      \* what a window is long enough for: sounds
  None

VARIABLES
  initQ,   \* InitQueue, messages as <<number, destMAC>>
  sendQ,   \* SendQueue
  pc,      \* "sense", "clear", "send", "wait", "listen", "reply", "ack", "gone"
  tx,      \* tx[n]: what n is sending, or None
  ear,     \* ear[n]: those whose sound n has heard from its beginning
  heard,   \* heard[n]: what n has heard in its window
  back,    \* back[n]: whom n is to acknowledge
  printed, \* the <<receiver, sender, number>> of [RECVD]
  mistaken \* noise has been taken for an acknowledgement or for a frame

queues == <<initQ, sendQ>>
vars   == <<queues, pc, tx, ear, heard, back, printed, mistaken>>

Init ==
  /\ initQ = [n \in Node |-> [k \in DOMAIN Messages[n] |-> <<k, Messages[n][k]>>]]
  /\ sendQ = [n \in Node |-> <<>>]
  /\ pc = [n \in Node |-> "sense"]
  /\ tx = [n \in Node |-> None] /\ ear = [n \in Node |-> {}] /\ heard = [n \in Node |-> <<>>]
  /\ back = [n \in Node |-> 0] /\ printed = {} /\ mistaken = FALSE

Goto(n, l) == pc' = [pc EXCEPT ![n] = l]
Sending == {n \in Node : tx[n] # None}
Hearing(m) == pc[m] \in {"wait", "listen"}
Noise == [kind |-> "noise"]

\* A sound begins: it makes noise of the others, and they of it.
Begin(n, x) ==
  /\ \A m \in Node : Hearing(m) => Len(heard[m]) < WINDOW
  /\ tx' = IF Sending = {} THEN [tx EXCEPT ![n] = x]
           ELSE [m \in Node |-> IF m \in Sending \cup {n} THEN Noise ELSE None]
  /\ ear' = [m \in Node |-> IF Hearing(m) THEN ear[m] \cup {n} ELSE ear[m]]

\* It ends.
End(n) ==
  /\ tx' = [tx EXCEPT ![n] = None]
  /\ ear' = [m \in Node |-> ear[m] \ {n}]
Ended(n) ==
  [m \in Node |-> IF Hearing(m) THEN Append(heard[m], IF n \in ear[m] THEN tx[n] ELSE Noise)
                  ELSE <<>>]

\* What was heard by the end of a window.
Caught(n) == IF Sending = {} THEN heard[n] ELSE Append(heard[n], Noise)
Close(n) == heard' = [heard EXCEPT ![n] = <<>>] /\ ear' = [ear EXCEPT ![n] = {}]

\* on_key_event, in a thread of its own.
OnKeyEvent(n) ==
  /\ pc[n] # "gone" /\ initQ[n] # <<>>
  /\ sendQ' = [sendQ EXCEPT ![n] = Append(@, Head(initQ[n]))]
  /\ initQ' = [initQ EXCEPT ![n] = Tail(@)]
  /\ UNCHANGED <<pc, tx, ear, heard, back, printed, mistaken>>

\* carrierSense, and what the loop does then.  Of a frame that is under way
\* enough may still be heard.
CarrierSense(n) ==
  /\ pc[n] = "sense"
  /\ IF Sending # {}
     THEN /\ Goto(n, "listen")
          /\ \E found \in SUBSET {m \in Sending : tx[m].kind = "frame"} : ear' = [ear EXCEPT ![n] = found]
     ELSE sendQ[n] # <<>> /\ Goto(n, "clear") /\ UNCHANGED ear
  /\ UNCHANGED <<queues, tx, heard, back, printed, mistaken>>

\* A broadcast becomes a message to the first other MAC of 1 and 2.
Dest(n, dest) == IF dest = 0 THEN Min({1, 2} \ {n}) ELSE dest

\* sendMsg of the first message of the queue.
Send(n) ==
  /\ pc[n] = "clear"
  /\ LET msg == Head(sendQ[n])  dest == Dest(n, msg[2]) IN
     /\ sendQ' = [sendQ EXCEPT ![n] = <<<<msg[1], dest>>>> \o Tail(@)]
     /\ Begin(n, [kind |-> "frame", from |-> n, to |-> dest, msg |-> msg[1]])
  /\ Goto(n, "send")
  /\ UNCHANGED <<initQ, heard, back, printed, mistaken>>

\* The message has been sent: waitACK.
Sent(n) ==
  /\ pc[n] = "send"
  /\ End(n) /\ heard' = Ended(n)
  /\ Goto(n, "wait")
  /\ UNCHANGED <<queues, back, printed, mistaken>>

\* Whether waitACK can find four bits in what it has heard, those of an
\* acknowledgement of dest.  Noise may be none of them, or some, or all.
Ack(n, dest) == [kind |-> "ack", from |-> dest, to |-> n]
Has(h, x)    == \E k \in DOMAIN h : h[k] = x
Acknowledged(n, dest) ==
  LET h == Caught(n)  right == {k \in DOMAIN h : h[k] = Ack(n, dest)} IN
  IF h = <<Ack(n, dest)>> THEN {TRUE}
  ELSE IF /\ Has(h, Noise)
          /\ \A k \in DOMAIN h \ right : h[k] = Noise
          /\ \A j, k \in right : j = k
       THEN BOOLEAN ELSE {FALSE}

WaitAck(n) ==
  /\ pc[n] = "wait"
  /\ LET dest == Head(sendQ[n])[2]  h == Caught(n) IN
     \E ok \in Acknowledged(n, dest) :
       /\ sendQ' = IF ok THEN [sendQ EXCEPT ![n] = Tail(@)] ELSE sendQ
       /\ mistaken' = (mistaken \/ (ok /\ Has(h, Noise) /\ ~Has(h, Ack(n, dest))))
  /\ Close(n) /\ Goto(n, "sense")
  /\ UNCHANGED <<initQ, tx, back, printed>>

\* getInfo of what listenMsg has heard: the first preamble counts.  Without
\* one it fails, and noise may hold one or not: with a frame that is not for n
\* or that the checksum refuses, or with one that passes for a frame.
Found(n) ==
  LET h == Caught(n)
      first == {k \in DOMAIN h : h[k].kind # "ack" /\ \A j \in 1 .. k - 1 : h[j].kind = "ack"}
      after == IF \E k \in first : h[k].kind = "frame" THEN first ELSE DOMAIN h IN
  {h[k] : k \in {k \in after : h[k].kind = "frame"}}
    \cup (IF \E k \in first : h[k].kind = "frame" THEN {}
          ELSE IF first = {} THEN {None} ELSE {None, Noise})

IsFor(n, x) == x # None /\ x.kind = "frame" /\ x.to = n

\* A message for n is printed, of one that was typed or not, and is to be
\* acknowledged.
Receive(n, from, msgs) ==
  /\ printed' = printed \cup {<<n, from, k>> : k \in msgs}
  /\ back' = [back EXCEPT ![n] = from]
  /\ Goto(n, "reply")

ListenMsg(n) ==
  /\ pc[n] = "listen"
  /\ \E x \in Found(n) :
       \/ IsFor(n, x) /\ Receive(n, x.from, {x.msg}) /\ UNCHANGED mistaken
       \/ /\ ~IsFor(n, x)
          /\ Goto(n, IF x = None THEN "gone" ELSE "sense")
          /\ UNCHANGED <<printed, back, mistaken>>
       \/ x = Noise /\ (\E mac \in 0 .. 3 : Receive(n, mac, {})) /\ mistaken' = TRUE
  /\ Close(n)
  /\ UNCHANGED <<queues, tx>>

\* sendACK.
SendAck(n) ==
  /\ pc[n] = "reply"
  /\ Begin(n, [kind |-> "ack", from |-> n, to |-> back[n]])
  /\ back' = [back EXCEPT ![n] = 0]
  /\ Goto(n, "ack")
  /\ UNCHANGED <<queues, heard, printed, mistaken>>

SentAck(n) ==
  /\ pc[n] = "ack"
  /\ End(n) /\ heard' = Ended(n)
  /\ Goto(n, "sense")
  /\ UNCHANGED <<queues, back, printed, mistaken>>

Next ==
  \E n \in Node :
    \/ OnKeyEvent(n) \/ CarrierSense(n) \/ Send(n) \/ Sent(n) \/ WaitAck(n)
    \/ ListenMsg(n) \/ SendAck(n) \/ SentAck(n)

Spec == Init /\ [][Next]_vars

-----------------------------------------------------------------------------
\* What was reported as [SENT] has been printed by the node that it was for.
SentIsReceived ==
  \A n \in Node : \A k \in DOMAIN Messages[n] :
    (\A j \in DOMAIN initQ[n] : initQ[n][j][1] # k) /\ (\A j \in DOMAIN sendQ[n] : sendQ[n][j][1] # k)
    => <<Dest(n, Messages[n][k]), n, k>> \in printed

\* While no node takes noise for an acknowledgement or for a frame, a message
\* that its sender reports as [SENT] has been printed by the node it was for:
\* no acknowledgement counts for another message or for another node, whatever
\* is repeated, collides or is cut off.  main.py:80.
AnsweredMeansReceived == ~mistaken => SentIsReceived
=============================================================================
