----------------------------- MODULE Hub_proofs -----------------------------
(***************************************************************************)
(* Theorems about Hub for any set of connections and any capacities.       *)
(***************************************************************************)
EXTENDS Hub, SequenceTheorems, TLAPS

USE HubAssumption

\* A channel is a sequence of events: what sending and receiving do to it.
LEMMA Queues ==
  ASSUME NEW q \in Seq(Events), NEW e \in Events
  PROVE  /\ Append(q, e) \in Seq(Events) /\ Len(Append(q, e)) = Len(q) + 1
         /\ Len(q) \in Nat
         /\ q # <<>> => /\ Head(q) \in Events /\ Tail(q) \in Seq(Events)
                       /\ Len(q) > 0 /\ Len(Tail(q)) = Len(q) - 1
<1>1. Append(q, e) \in Seq(Events) /\ Len(Append(q, e)) = Len(q) + 1 /\ Len(q) \in Nat
  BY AppendProperties, LenProperties
<1>2. q # <<>> => Head(q) \in Events /\ Tail(q) \in Seq(Events) /\ Len(Tail(q)) = Len(q) - 1
  BY HeadTailProperties
<1>3. q # <<>> => Len(q) > 0
  BY EmptySeq, LenProperties
<1> QED BY <1>1, <1>2, <1>3

-----------------------------------------------------------------------------
(* The inductive invariant *)

\* A client is in the map only between its registration and the end of its
\* readPump's deferred call, and its channel is open exactly so long.
MapInv ==
  /\ event = 0 => todo = {}
  /\ \A c \in Clients :
       /\ c \in clients => closes[c] = 0 /\ reader[c] \in {"read", "unregister"}
       /\ closes[c] <= 1
       /\ reader[c] \in {"none", "register"} => closes[c] = 0

\* The broadcast channel holds only accepted events,
\* and writePump writes only events it took.
TypeInv ==
  /\ TypeOK
  /\ Len(broadcast) <= accepted
  /\ \A c \in Clients : writer[c] = "write" => hand[c] \in Events

HubInv == TypeInv /\ MapInv

LEMMA HubInit == Init => HubInv
BY DEF Init, HubInv, TypeInv, TypeOK, MapInv, ReaderPC, WriterPC

LEMMA HubNext == HubInv /\ [Next]_vars => HubInv'
<1> SUFFICES ASSUME HubInv, [Next]_vars PROVE HubInv'
  OBVIOUS
<1> USE DEF run, pumps
<1>1. CASE BroadcastEvent
  <2>1. TypeInv'
    <3>1. broadcast \in Seq(Events) /\ accepted + 1 \in Events
      BY DEF HubInv, TypeInv, TypeOK, Events
    <3>2. /\ Append(broadcast, accepted + 1) \in Seq(Events)
          /\ Len(Append(broadcast, accepted + 1)) = Len(broadcast) + 1
          /\ Len(broadcast) \in Nat
      BY <3>1, Queues
    <3>3. CASE Len(broadcast) < BroadcastCap
      <4>1. /\ broadcast' \in Seq(Events) /\ Len(broadcast') = Len(broadcast) + 1
            /\ accepted' = accepted + 1
        BY <1>1, <3>2, <3>3 DEF BroadcastEvent
      <4>2. /\ accepted' \in Nat /\ published' \in Nat
            /\ Len(broadcast') <= accepted' /\ Len(broadcast') <= BroadcastCap
        BY <1>1, <3>2, <3>3, <4>1 DEF BroadcastEvent, HubInv, TypeInv, TypeOK
      <4> QED BY <1>1, <4>1, <4>2 DEF BroadcastEvent, HubInv, TypeInv, TypeOK
    <3>4. CASE ~(Len(broadcast) < BroadcastCap)
      BY <1>1, <3>4 DEF BroadcastEvent, HubInv, TypeInv, TypeOK
    <3> QED BY <3>3, <3>4
  <2>2. MapInv'
    BY <1>1 DEF BroadcastEvent, HubInv, MapInv
  <2> QED BY <2>1, <2>2 DEF HubInv
<1>2. ASSUME NEW c \in Clients, Register(c) PROVE HubInv'
  <2>1. Taken \in Nat
    BY Queues DEF Taken, HubInv, TypeInv, TypeOK, Events
  <2>2. TypeInv'
    BY <1>2, <2>1 DEF Register, HubInv, TypeInv, TypeOK, MapInv, ReaderPC, WriterPC
  <2>3. MapInv'
    BY <1>2 DEF Register, HubInv, TypeInv, TypeOK, MapInv
  <2> QED BY <2>2, <2>3 DEF HubInv
<1>3. ASSUME NEW c \in Clients, Unregister(c) PROVE HubInv'
  <2>1. TypeInv'
    <3>1. CASE c \in clients
      <4>1. todo' \subseteq clients' /\ clients' \subseteq Clients
        BY <1>3, <3>1 DEF Unregister, Drop, HubInv, TypeInv, TypeOK, MapInv
      <4>2. closes' \in [Clients -> Nat] /\ reader' \in [Clients -> ReaderPC]
        BY <1>3, <3>1 DEF Unregister, Drop, HubInv, TypeInv, TypeOK, ReaderPC
      <4> QED BY <1>3, <4>1, <4>2 DEF Unregister, HubInv, TypeInv, TypeOK
    <3>2. CASE c \notin clients
      BY <1>3, <3>2 DEF Unregister, Drop, HubInv, TypeInv, TypeOK, MapInv, ReaderPC
    <3> QED BY <3>1, <3>2
  <2>2. MapInv'
    BY <1>3 DEF Unregister, Drop, HubInv, TypeInv, TypeOK, MapInv
  <2> QED BY <2>1, <2>2 DEF HubInv
<1>4. CASE TakeEvent
  <2>1. TypeInv'
    BY <1>4, Queues DEF TakeEvent, HubInv, TypeInv, TypeOK, Events
  <2>2. event' # 0
    BY <1>4, Queues DEF TakeEvent, HubInv, TypeInv, TypeOK, Events
  <2>3. MapInv'
    BY <1>4, <2>2 DEF TakeEvent, HubInv, MapInv
  <2> QED BY <2>1, <2>3 DEF HubInv
<1>5. ASSUME NEW c \in Clients, Deliver(c) PROVE HubInv'
  <2>1. CASE Len(send[c]) < SendCap
    <3>1. event \in Events
      BY <1>5 DEF Deliver, HubInv, TypeInv, TypeOK, Events
    <3>2. Append(send[c], event) \in Seq(Events) /\ Len(Append(send[c], event)) <= SendCap
      BY <2>1, <3>1, Queues DEF HubInv, TypeInv, TypeOK
    <3>3. TypeInv'
      BY <1>5, <2>1, <3>2 DEF Deliver, HubInv, TypeInv, TypeOK
    <3>4. MapInv'
      BY <1>5, <2>1 DEF Deliver, HubInv, MapInv
    <3> QED BY <3>3, <3>4 DEF HubInv
  <2>2. CASE ~(Len(send[c]) < SendCap)
    <3>1. TypeInv'
      BY <1>5, <2>2 DEF Deliver, DropSlow, HubInv, TypeInv, TypeOK
    <3>2. c \in clients
      BY <1>5 DEF Deliver, HubInv, TypeInv, TypeOK
    <3>3. MapInv'
      BY <1>5, <2>2, <3>2 DEF Deliver, DropSlow, HubInv, TypeInv, TypeOK, MapInv
    <3> QED BY <3>1, <3>3 DEF HubInv
  <2> QED BY <2>1, <2>2
<1>6. CASE EndFanOut
  BY <1>6 DEF EndFanOut, HubInv, TypeInv, TypeOK, MapInv
<1>7. ASSUME NEW c \in Clients, ServeWs(c) \/ ReadFail(c) \/ ReaderClose(c) PROVE HubInv'
  <2>1. TypeInv'
    BY <1>7 DEF ServeWs, ReadFail, ReaderClose, ReaderStep, HubInv, TypeInv, TypeOK,
                ReaderPC
  <2>2. MapInv'
    BY <1>7 DEF ServeWs, ReadFail, ReaderClose, ReaderStep, HubInv, TypeInv, TypeOK,
                MapInv, ReaderPC
  <2> QED BY <2>1, <2>2 DEF HubInv
<1>8. ASSUME NEW c \in Clients, PeerLost(c) PROVE HubInv'
  BY <1>8 DEF PeerLost, HubInv, TypeInv, TypeOK, MapInv
<1>9. ASSUME NEW c \in Clients, WriterTake(c) PROVE HubInv'
  <2>1. Head(send[c]) \in Events /\ Tail(send[c]) \in Seq(Events)
        /\ Len(Tail(send[c])) <= SendCap
    BY <1>9, Queues DEF WriterTake, HubInv, TypeInv, TypeOK, Events
  <2> DEFINE e == Head(send[c])
             q == Tail(send[c])
  <2>4. e \in Nat
    BY <2>1 DEF Events
  <2>5. hand' = [hand EXCEPT ![c] = e] /\ send' = [send EXCEPT ![c] = q]
    BY <1>9 DEF WriterTake
  <2> HIDE DEF e, q
  <2>6. TypeOK'
    BY <1>9, <2>1, <2>4, <2>5 DEF e, q, WriterTake, WriterStep, HubInv, TypeInv, TypeOK,
                                  WriterPC
  <2>2. TypeInv'
    BY <1>9, <2>1, <2>5, <2>6 DEF e, WriterTake, WriterStep, HubInv, TypeInv, TypeOK
  <2>3. MapInv'
    BY <1>9 DEF WriterTake, HubInv, MapInv
  <2> QED BY <2>2, <2>3 DEF HubInv
<1>10. ASSUME NEW c \in Clients, WriterWrite(c) PROVE HubInv'
  <2>1. writer[c] = "write" /\ Append(got[c], hand[c]) \in Seq(Events)
    BY <1>10, Queues DEF WriterWrite, WriterStep, HubInv, TypeInv, TypeOK
  <2>2. TypeInv'
    <3> DEFINE g == Append(got[c], hand[c])
    <3>1. g \in Seq(Events)
      BY <2>1
    <3>2. \/ UNCHANGED <<got, hand>> /\ WriterStep(c, "write", "close")
          \/ /\ WriterStep(c, "write", "wait")
             /\ got' = [got EXCEPT ![c] = g] /\ hand' = [hand EXCEPT ![c] = 0]
      BY <1>10 DEF WriterWrite
    <3> HIDE DEF g
    <3>3. /\ got' \in [Clients -> Seq(Events)] /\ hand' \in [Clients -> Nat]
          /\ writer' \in [Clients -> WriterPC]
      <4>1. got \in [Clients -> Seq(Events)] /\ hand \in [Clients -> Nat]
        BY DEF HubInv, TypeInv, TypeOK
      <4>2. got' \in [Clients -> Seq(Events)]
        BY <3>1, <3>2, <4>1, Zenon
      <4>3. hand' \in [Clients -> Nat]
        BY <3>2, <4>1
      <4>4. writer' \in [Clients -> WriterPC]
        BY <3>2 DEF WriterStep, HubInv, TypeInv, TypeOK, WriterPC
      <4> QED BY <4>2, <4>3, <4>4
    <3>4. \A d \in Clients : writer'[d] = "write" => hand'[d] = hand[d] /\ writer[d] = "write"
      BY <3>2 DEF WriterStep, HubInv, TypeInv, TypeOK
    <3> QED BY <1>10, <3>3, <3>4 DEF WriterWrite, HubInv, TypeInv, TypeOK
  <2>3. MapInv'
    BY <1>10 DEF WriterWrite, HubInv, MapInv
  <2> QED BY <2>2, <2>3 DEF HubInv
<1>11. ASSUME NEW c \in Clients, WriterStop(c) \/ WriterClose(c) PROVE HubInv'
  BY <1>11 DEF WriterStop, WriterClose, WriterStep, HubInv, TypeInv, TypeOK, MapInv, WriterPC
<1>12. CASE UNCHANGED vars
  BY <1>12 DEF vars, HubInv, TypeInv, TypeOK, MapInv
<1> QED
  BY <1>1, <1>2, <1>3, <1>4, <1>5, <1>6, <1>7, <1>8, <1>9, <1>10, <1>11, <1>12
  DEF Next, HubStep, FanOut, ReaderNext, WriterNext

\* No channel operation panics.  A client Run may still visit in its range loop
\* is in the map, and one in the map was never closed, so neither a send nor a
\* close finds the channel closed.
THEOREM ChannelsNeverPanic == Spec => NoChannelPanic
<1>1. HubInv /\ HubInv' => \A c \in Clients : closes[c] # 0 => closes'[c] <= closes[c]
  BY DEF HubInv, TypeInv, TypeOK, MapInv
<1>2. HubInv /\ [Next]_vars =>
        \A c \in Clients : closes[c] # 0 => Len(send'[c]) <= Len(send[c])
  <2> SUFFICES ASSUME HubInv, [Next]_vars, NEW c \in Clients,
                      closes[c] # 0, ~(Len(send'[c]) <= Len(send[c]))
               PROVE  FALSE
    OBVIOUS
  <2>1. Len(send[c]) \in Nat
    BY Queues DEF HubInv, TypeInv, TypeOK, Events
  <2>2. send' # send
    BY <2>1
  <2>3. \A d \in Clients : ~WriterTake(d)
    <3> SUFFICES ASSUME NEW d \in Clients, WriterTake(d) PROVE FALSE
      OBVIOUS
    <3>1. Len(Tail(send[d])) = Len(send[d]) - 1 /\ Len(send[d]) \in Nat
      BY Queues DEF WriterTake, HubInv, TypeInv, TypeOK, Events
    <3>2. send'[c] = IF c = d THEN Tail(send[d]) ELSE send[c]
      BY DEF WriterTake, HubInv, TypeInv, TypeOK
    <3> QED BY <2>1, <3>1, <3>2
  <2>4. \E d \in Clients : Deliver(d)
    <3> USE <2>2, <2>3
    <3>1. UNCHANGED vars => FALSE
      BY DEF vars
    <3>2. ~BroadcastEvent /\ ~TakeEvent /\ ~EndFanOut
      BY DEF BroadcastEvent, TakeEvent, EndFanOut
    <3>3. \A d \in Clients : ~Register(d) /\ ~Unregister(d) /\ ~ServeWs(d) /\ ~PeerLost(d)
      BY DEF Register, Unregister, ServeWs, PeerLost
    <3>4. \A d \in Clients : ~ReaderNext(d) /\ ~WriterNext(d)
      BY DEF ReaderNext, ReadFail, ReaderClose, WriterNext, WriterWrite, WriterStop,
             WriterClose
    <3> QED BY <3>1, <3>2, <3>3, <3>4 DEF Next, HubStep, FanOut
  <2>5. PICK d \in Clients : Deliver(d)
    BY <2>4
  <2>6. d = c
    BY <2>2, <2>5, <2>1 DEF Deliver, HubInv, TypeInv, TypeOK
  <2> QED BY <2>5, <2>6 DEF Deliver, HubInv, TypeInv, TypeOK, MapInv
<1>3. HubInv /\ HubInv' /\ [Next]_vars =>
        [\A c \in Clients : closes[c] # 0 =>
           closes'[c] <= closes[c] /\ Len(send'[c]) <= Len(send[c])]_vars
  BY <1>1, <1>2
<1> QED BY <1>3, HubInit, HubNext, PTL DEF Spec, NoChannelPanic

-----------------------------------------------------------------------------
(* Gapless streams *)

\* The events of s are numbered on from n.
Numbered(s, n) == \A i \in 1 .. Len(s) : s[i] = n + i

LEMMA NumberedAppend ==
  ASSUME NEW s \in Seq(Events), NEW n \in Nat, Numbered(s, n), NEW e \in Events, e = n + Len(s) + 1
  PROVE  Numbered(Append(s, e), n)
<1>1. Len(s) \in Nat /\ Len(Append(s, e)) = Len(s) + 1
  BY Queues
<1>2. /\ \A i \in 1 .. Len(s) : Append(s, e)[i] = s[i]
      /\ Append(s, e)[Len(s) + 1] = e
  BY AppendProperties
<1>3. ASSUME NEW i \in 1 .. Len(s) + 1 PROVE Append(s, e)[i] = n + i
  <2>1. CASE i = Len(s) + 1
    BY <1>1, <1>2, <2>1
  <2>2. CASE i # Len(s) + 1
    <3>1. i \in 1 .. Len(s)
      BY <1>1, <2>2
    <3> QED
      BY <1>2, <3>1 DEF Numbered
  <2> QED
    BY <2>1, <2>2
<1> QED
  BY <1>1, <1>3 DEF Numbered

LEMMA NumberedTail ==
  ASSUME NEW s \in Seq(Events), NEW n \in Nat, Numbered(s, n), s # <<>>
  PROVE  Head(s) = n + 1 /\ Numbered(Tail(s), n + 1)
<1>1. Len(s) \in Nat \ {0} /\ Len(Tail(s)) = Len(s) - 1
  BY EmptySeq, HeadTailProperties
<1>2. \A i \in 1 .. Len(Tail(s)) : Tail(s)[i] = s[i + 1]
  BY HeadTailProperties
<1>3. Head(s) = s[1]
  BY <1>1
<1>4. ASSUME NEW i \in 1 .. Len(Tail(s)) PROVE Tail(s)[i] = (n + 1) + i
  <2>1. i + 1 \in 1 .. Len(s)
    BY <1>1
  <2> QED
    BY <1>2, <2>1 DEF Numbered
<1> QED
  BY <1>1, <1>3, <1>4 DEF Numbered

LEMMA NumberedJoin ==
  ASSUME NEW s \in Seq(Events), NEW t \in Seq(Events), NEW n \in Nat,
         Numbered(s, n), Numbered(t, n + Len(s))
  PROVE  /\ s \o t \in Seq(Events) /\ Len(s \o t) = Len(s) + Len(t)
         /\ Numbered(s \o t, n)
<1>1. Len(s) \in Nat /\ Len(t) \in Nat
  BY LenProperties
<1>2. /\ s \o t \in Seq(Events) /\ Len(s \o t) = Len(s) + Len(t)
      /\ \A i \in 1 .. Len(s) + Len(t) :
           (s \o t)[i] = IF i <= Len(s) THEN s[i] ELSE t[i - Len(s)]
  BY ConcatProperties
<1>3. ASSUME NEW i \in 1 .. Len(s) + Len(t) PROVE (s \o t)[i] = n + i
  <2>1. CASE i <= Len(s)
    <3>1. i \in 1 .. Len(s)
      BY <1>1, <2>1
    <3> QED
      BY <1>2, <2>1, <3>1 DEF Numbered
  <2>2. CASE ~(i <= Len(s))
    <3>1. i - Len(s) \in 1 .. Len(t)
      BY <1>1, <2>2
    <3>2. t[i - Len(s)] = (n + Len(s)) + (i - Len(s))
      BY <3>1 DEF Numbered
    <3> QED
      BY <1>1, <1>2, <2>2, <3>2
  <2> QED
    BY <2>1, <2>2
<1> QED
  BY <1>2, <1>3 DEF Numbered

\* The last event written to client c, whether writePump holds one more, and
\* the last one a client in the map must have been sent.
Written(c) == joined[c] + Len(got[c])
InHand(c) == IF hand[c] = 0 THEN 0 ELSE 1
Due(c) == IF c \in todo THEN Taken - 1 ELSE Taken

\* What was written, what is in hand and what is queued go on from each other,
\* and reach as far as Run has come.
StreamOf(c) ==
  /\ Numbered(got[c], joined[c])
  /\ hand[c] # 0 => hand[c] = Written(c) + 1
  /\ Numbered(send[c], Written(c) + InHand(c))
  /\ c \in clients => Written(c) + InHand(c) + Len(send[c]) = Due(c)
  /\ writer[c] \in {"none", "wait"} => hand[c] = 0
  /\ reader[c] \in {"none", "register"} =>
       got[c] = <<>> /\ send[c] = <<>> /\ hand[c] = 0 /\ writer[c] = "none"

StreamInv ==
  /\ Numbered(broadcast, Taken)
  /\ event # 0 => event = Taken
  /\ \A c \in Clients : StreamOf(c)

LEMMA StreamInit == Init => StreamInv
<1> SUFFICES ASSUME Init PROVE StreamInv
  OBVIOUS
<1>1. \A n : Numbered(<<>>, n)
  BY DEF Numbered
<1>2. ASSUME NEW c \in Clients PROVE StreamOf(c)
  BY <1>1, <1>2 DEF Init, StreamOf
<1> QED
  BY <1>1, <1>2 DEF Init, StreamInv

\* What the arithmetic needs to know.
LEMMA StreamTypes ==
  ASSUME HubInv
  PROVE  /\ Taken \in Nat /\ Len(broadcast) \in Nat /\ accepted \in Nat
         /\ broadcast \in Seq(Events)
         /\ \A c \in Clients :
              /\ got[c] \in Seq(Events) /\ send[c] \in Seq(Events)
              /\ Len(got[c]) \in Nat /\ Len(send[c]) \in Nat
              /\ joined[c] \in Nat /\ hand[c] \in Nat
              /\ Written(c) \in Nat /\ InHand(c) \in Nat
<1>1. /\ broadcast \in Seq(Events) /\ accepted \in Nat /\ Len(broadcast) <= accepted
      /\ \A c \in Clients : /\ got[c] \in Seq(Events) /\ send[c] \in Seq(Events)
                            /\ joined[c] \in Nat /\ hand[c] \in Nat
  BY DEF HubInv, TypeInv, TypeOK
<1>2. Len(broadcast) \in Nat /\ \A c \in Clients : Len(got[c]) \in Nat /\ Len(send[c]) \in Nat
  BY <1>1, LenProperties
<1> QED
  BY <1>1, <1>2 DEF Taken, Written, InHand

\* A step that leaves a client's events alone and asks nothing new of it.
LEMMA StreamKept ==
  ASSUME NEW c \in Clients, StreamOf(c),
         got'[c] = got[c], send'[c] = send[c], hand'[c] = hand[c], joined'[c] = joined[c],
         c \in clients' => c \in clients /\ Due(c)' = Due(c),
         writer'[c] = writer[c] \/ writer'[c] \notin {"none", "wait"},
         reader'[c] \notin {"none", "register"}
           \/ (reader[c] \in {"none", "register"} /\ writer'[c] = writer[c])
  PROVE  StreamOf(c)'
<1>1. Written(c)' = Written(c) /\ InHand(c)' = InHand(c)
  BY DEF Written, InHand
<1> QED
  BY <1>1 DEF StreamOf, Numbered

\* The same for a step that makes the writer leave its loop.
LEMMA StreamLeft ==
  ASSUME NEW c \in Clients, StreamOf(c),
         got'[c] = got[c], send'[c] = send[c], hand'[c] = hand[c], joined'[c] = joined[c],
         c \in clients' => c \in clients /\ Due(c)' = Due(c),
         writer'[c] \in {"close", "gone"}, reader'[c] \notin {"none", "register"}
  PROVE  StreamOf(c)'
<1>1. Written(c)' = Written(c) /\ InHand(c)' = InHand(c)
  BY DEF Written, InHand
<1> QED
  BY <1>1 DEF StreamOf, Numbered

LEMMA StreamNext ==
  ASSUME HubInv, HubInv', StreamInv, [Next]_vars
  PROVE  StreamInv'
<1> USE DEF run, pumps
<1>0. \A c \in Clients : StreamOf(c)
  BY DEF StreamInv
<1>1. CASE BroadcastEvent
  <2>1. Taken' = Taken /\ Numbered(broadcast', Taken)
    <3>1. CASE Len(broadcast) < BroadcastCap
      <4>1. accepted + 1 \in Events /\ accepted + 1 = Taken + Len(broadcast) + 1
        BY StreamTypes DEF Taken, Events
      <4>2. broadcast' = Append(broadcast, accepted + 1) /\ accepted' = accepted + 1
        BY <1>1, <3>1 DEF BroadcastEvent
      <4>3. Len(broadcast') = Len(broadcast) + 1
        BY <4>1, <4>2, StreamTypes, Queues
      <4>4. Numbered(broadcast', Taken)
        BY <4>1, <4>2, StreamTypes, NumberedAppend DEF StreamInv
      <4> QED
        BY <4>2, <4>3, <4>4, StreamTypes DEF Taken
    <3>2. CASE ~(Len(broadcast) < BroadcastCap)
      BY <1>1, <3>2 DEF BroadcastEvent, Taken, StreamInv
    <3> QED
      BY <3>1, <3>2
  <2>2. ASSUME NEW c \in Clients PROVE StreamOf(c)'
    BY <1>0, <1>1, <2>1, StreamKept DEF BroadcastEvent, Due
  <2>3. event' = event
    BY <1>1 DEF BroadcastEvent
  <2> QED
    BY <2>1, <2>2, <2>3 DEF StreamInv
<1>2. ASSUME UNCHANGED <<broadcast, accepted, event>>, \A c \in Clients : StreamOf(c)'
      PROVE  StreamInv'
  BY <1>2 DEF StreamInv, Taken
<1>3. ASSUME NEW x \in Clients, Register(x) PROVE StreamInv'
  <2>1. /\ UNCHANGED <<broadcast, accepted, event, todo, got, hand, send>> /\ Taken' = Taken
        /\ reader[x] = "register" /\ x \notin todo
    BY <1>3 DEF Register, Taken, HubInv, MapInv
  <2>2. StreamOf(x)'
    <3>1. /\ joined'[x] = Taken /\ writer'[x] = "wait" /\ reader'[x] = "read"
          /\ got'[x] = <<>> /\ send'[x] = <<>> /\ hand'[x] = 0
      BY <1>0, <1>3, <2>1 DEF Register, StreamOf, HubInv, TypeInv, TypeOK
    <3>2. Written(x)' = Taken /\ InHand(x)' = 0 /\ Due(x)' = Taken
      BY <2>1, <3>1, StreamTypes DEF Written, InHand, Due
    <3> QED
      BY <3>1, <3>2, StreamTypes DEF StreamOf, Numbered
  <2>3. ASSUME NEW c \in Clients, c # x PROVE StreamOf(c)'
    <3>1. /\ joined'[c] = joined[c] /\ reader'[c] = reader[c] /\ writer'[c] = writer[c]
          /\ c \in clients' => c \in clients
      BY <1>3, <2>3 DEF Register, HubInv, TypeInv, TypeOK
    <3> QED
      BY <1>0, <2>1, <3>1, StreamKept DEF Due
  <2> QED
    BY <1>2, <2>1, <2>2, <2>3
<1>4. ASSUME NEW x \in Clients, Unregister(x) PROVE StreamInv'
  <2>1. /\ UNCHANGED <<broadcast, accepted, event, todo, got, hand, send, joined, writer>>
        /\ Taken' = Taken /\ clients' \subseteq clients
    BY <1>4 DEF Unregister, Drop, Taken
  <2>2. ASSUME NEW c \in Clients PROVE StreamOf(c)'
    <3>1. reader'[c] = reader[c] \/ reader'[c] = "close"
      BY <1>4 DEF Unregister, HubInv, TypeInv, TypeOK
    <3> QED
      BY <1>0, <2>1, <3>1, StreamKept DEF Due
  <2> QED
    BY <1>2, <2>1, <2>2
<1>5. CASE TakeEvent
  <2>1. /\ broadcast # <<>> /\ event' = Head(broadcast) /\ broadcast' = Tail(broadcast)
        /\ todo = {} /\ todo' = clients
        /\ UNCHANGED <<accepted, clients, got, hand, send, joined, reader, writer>>
    BY <1>5 DEF TakeEvent, HubInv, MapInv
  <2>2. Len(broadcast') = Len(broadcast) - 1
    BY <2>1, StreamTypes, HeadTailProperties
  <2>3. Taken' = Taken + 1
    BY <2>1, <2>2, StreamTypes DEF Taken
  <2>4. event' = Taken' /\ Numbered(broadcast', Taken')
    BY <2>1, <2>3, StreamTypes, NumberedTail DEF StreamInv
  <2>5. ASSUME NEW c \in Clients PROVE StreamOf(c)'
    <3>1. c \in clients' => Due(c)' = Due(c)
      BY <2>1, <2>3, StreamTypes DEF Due
    <3> QED
      BY <1>0, <2>1, <3>1, StreamKept
  <2> QED
    BY <2>4, <2>5 DEF StreamInv
<1>6. ASSUME NEW x \in Clients, Deliver(x) PROVE StreamInv'
  <2>1. /\ UNCHANGED <<broadcast, accepted, event, got, hand, joined, reader, writer>>
        /\ Taken' = Taken /\ event = Taken /\ event \in Events
        /\ x \in todo /\ x \in clients /\ todo' = todo \ {x} /\ clients' \subseteq clients
    BY <1>6 DEF Deliver, DropSlow, Taken, StreamInv, HubInv, TypeInv, TypeOK, Events
  <2>2. CASE Len(send[x]) < SendCap
    <3>1. send' = [send EXCEPT ![x] = Append(@, event)] /\ clients' = clients
      BY <1>6, <2>2 DEF Deliver
    <3>2. send'[x] = Append(send[x], event)
      BY <3>1 DEF HubInv, TypeInv, TypeOK
    <3>3. Written(x)' = Written(x) /\ InHand(x)' = InHand(x) /\ Due(x)' = Taken
      BY <2>1 DEF Written, InHand, Due
    <3>4. Written(x) + InHand(x) + Len(send[x]) = Taken - 1
      BY <1>0, <2>1 DEF StreamOf, Due
    <3>5. event = (Written(x) + InHand(x)) + Len(send[x]) + 1
      BY <2>1, <3>4, StreamTypes
    <3>6. Written(x) + InHand(x) \in Nat /\ Numbered(send[x], Written(x) + InHand(x))
      BY <1>0, StreamTypes DEF StreamOf
    <3>7. Numbered(send'[x], Written(x) + InHand(x))
      BY <2>1, <3>2, <3>5, <3>6, StreamTypes, NumberedAppend
    <3>8. Len(send'[x]) = Len(send[x]) + 1
      BY <2>1, <3>2, StreamTypes, Queues
    <3>9. Written(x) + InHand(x) + Len(send'[x]) = Taken
      <4>1. /\ Written(x) \in Nat /\ InHand(x) \in Nat /\ Len(send[x]) \in Nat
            /\ Taken \in Nat
        BY StreamTypes
      <4> QED
        BY <3>4, <3>8, <4>1
    <3>10. reader[x] \notin {"none", "register"}
      BY <2>1 DEF HubInv, MapInv
    <3>11. StreamOf(x)'
      BY <1>0, <2>1, <3>3, <3>7, <3>9, <3>10 DEF StreamOf, Numbered
    <3>12. ASSUME NEW c \in Clients, c # x PROVE StreamOf(c)'
      <4>1. send'[c] = send[c] /\ Due(c)' = Due(c)
        BY <2>1, <3>1, <3>12 DEF Due, HubInv, TypeInv, TypeOK
      <4> QED
        BY <1>0, <2>1, <3>1, <4>1, StreamKept
    <3> QED
      BY <1>2, <2>1, <3>11, <3>12
  <2>3. CASE ~(Len(send[x]) < SendCap)
    <3>1. send' = send /\ clients' = clients \ {x}
      BY <1>6, <2>3 DEF Deliver, DropSlow
    <3>2. ASSUME NEW c \in Clients PROVE StreamOf(c)'
      <4>1. c \in clients' => c \in clients /\ Due(c)' = Due(c)
        BY <2>1, <3>1 DEF Due
      <4> QED
        BY <1>0, <2>1, <3>1, <4>1, StreamKept
    <3> QED
      BY <1>2, <2>1, <3>2
  <2> QED
    BY <2>2, <2>3
<1>7. CASE EndFanOut
  <2>1. /\ UNCHANGED <<broadcast, accepted, todo, clients, got, hand, send, joined, reader, writer>>
        /\ Taken' = Taken /\ event' = 0
    BY <1>7 DEF EndFanOut, Taken
  <2>2. ASSUME NEW c \in Clients PROVE StreamOf(c)'
    BY <1>0, <2>1, StreamKept DEF Due
  <2> QED
    BY <2>1, <2>2 DEF StreamInv
<1>8. ASSUME NEW x \in Clients, ServeWs(x) \/ ReadFail(x) \/ ReaderClose(x) \/ PeerLost(x)
      PROVE  StreamInv'
  <2>1. /\ UNCHANGED <<broadcast, accepted, event, todo, clients, got, hand, send, joined, writer>>
        /\ Taken' = Taken
    BY <1>8 DEF ServeWs, ReadFail, ReaderClose, PeerLost, Taken
  <2>2. ASSUME NEW c \in Clients PROVE StreamOf(c)'
    <3>1. \/ reader'[c] = reader[c] \/ reader'[c] \in {"unregister", "gone"}
          \/ reader[c] = "none"
      BY <1>8 DEF ServeWs, ReadFail, ReaderClose, PeerLost, ReaderStep, HubInv, TypeInv, TypeOK
    <3> QED
      BY <1>0, <2>1, <3>1, StreamKept DEF Due
  <2> QED
    BY <1>2, <2>1, <2>2
<1>9. ASSUME NEW x \in Clients, WriterTake(x) PROVE StreamInv'
  <2>1. /\ UNCHANGED <<broadcast, accepted, event, todo, clients, got, joined, reader>>
        /\ Taken' = Taken /\ send[x] # <<>> /\ writer[x] = "wait"
    BY <1>9 DEF WriterTake, WriterStep, Taken
  <2>2. hand'[x] = Head(send[x]) /\ send'[x] = Tail(send[x]) /\ writer'[x] = "write"
    BY <1>9 DEF WriterTake, WriterStep, HubInv, TypeInv, TypeOK
  <2>3. /\ hand[x] = 0 /\ InHand(x) = 0 /\ reader[x] \notin {"none", "register"}
        /\ Numbered(send[x], Written(x))
    BY <1>0, <2>1, StreamTypes DEF StreamOf, InHand
  <2>4. hand'[x] = Written(x) + 1 /\ Numbered(send'[x], Written(x) + 1)
    BY <2>1, <2>2, <2>3, StreamTypes, NumberedTail
  <2>5. Written(x)' = Written(x) /\ InHand(x)' = 1 /\ Due(x)' = Due(x)
    BY <2>1, <2>4, StreamTypes DEF Written, InHand, Due
  <2>6. Len(send'[x]) = Len(send[x]) - 1
    BY <2>1, <2>2, StreamTypes, HeadTailProperties
  <2>7. x \in clients' => Written(x) + 1 + Len(send'[x]) = Due(x)
    <3>1. x \in clients => Written(x) + 0 + Len(send[x]) = Due(x)
      BY <1>0, <2>3 DEF StreamOf
    <3> QED
      BY <2>1, <2>6, <3>1, StreamTypes
  <2>8. StreamOf(x)'
    BY <1>0, <2>1, <2>2, <2>3, <2>4, <2>5, <2>7 DEF StreamOf, Numbered
  <2>9. ASSUME NEW c \in Clients, c # x PROVE StreamOf(c)'
    <3>1. send'[c] = send[c] /\ hand'[c] = hand[c] /\ writer'[c] = writer[c] /\ Due(c)' = Due(c)
      BY <1>9, <2>1, <2>9 DEF WriterTake, WriterStep, Due, HubInv, TypeInv, TypeOK
    <3> QED
      BY <1>0, <2>1, <3>1, StreamKept
  <2> QED
    BY <1>2, <2>1, <2>8, <2>9
<1>10. ASSUME NEW x \in Clients, WriterWrite(x) PROVE StreamInv'
  <2>1. /\ UNCHANGED <<broadcast, accepted, event, todo, clients, send, joined, reader>>
        /\ Taken' = Taken /\ writer[x] = "write"
    BY <1>10 DEF WriterWrite, WriterStep, Taken
  <2>2. hand[x] \in Events /\ hand[x] # 0 /\ reader[x] \notin {"none", "register"}
    BY <1>0, <2>1 DEF HubInv, TypeInv, Events, StreamOf
  <2>3. ASSUME NEW c \in Clients, c # x PROVE StreamOf(c)'
    <3>1. got'[c] = got[c] /\ hand'[c] = hand[c] /\ writer'[c] = writer[c] /\ Due(c)' = Due(c)
      BY <1>10, <2>1, <2>3 DEF WriterWrite, WriterStep, Due, HubInv, TypeInv, TypeOK
    <3> QED
      BY <1>0, <2>1, <3>1, StreamKept
  <2>4. CASE UNCHANGED <<got, hand>> /\ WriterStep(x, "write", "close")
    <3>1. writer'[x] = "close" /\ Due(x)' = Due(x)
      BY <2>1, <2>4 DEF WriterStep, Due, HubInv, TypeInv, TypeOK
    <3>2. StreamOf(x)'
      BY <1>0, <2>1, <2>2, <2>4, <3>1, StreamLeft
    <3> QED
      BY <1>2, <2>1, <2>3, <3>2
  <2>5. CASE /\ WriterStep(x, "write", "wait")
             /\ got' = [got EXCEPT ![x] = Append(@, hand[x])]
             /\ hand' = [hand EXCEPT ![x] = 0]
    <3>1. got'[x] = Append(got[x], hand[x]) /\ hand'[x] = 0
      BY <2>5 DEF HubInv, TypeInv, TypeOK
    <3>2. InHand(x) = 1 /\ hand[x] = Written(x) + 1 /\ Numbered(got[x], joined[x])
      BY <1>0, <2>2 DEF InHand, StreamOf
    <3>3. Numbered(got'[x], joined[x])
      <4>1. hand[x] = joined[x] + Len(got[x]) + 1
        BY <3>2 DEF Written
      <4> QED
        BY <2>2, <3>1, <3>2, <4>1, StreamTypes, NumberedAppend
    <3>4. Len(got'[x]) = Len(got[x]) + 1
      BY <2>2, <3>1, StreamTypes, Queues
    <3>5. Written(x)' = Written(x) + 1 /\ InHand(x)' = 0 /\ Due(x)' = Due(x)
      BY <2>1, <3>1, <3>4, StreamTypes DEF Written, InHand, Due
    <3>6. Numbered(send[x], Written(x) + 1)
          /\ (x \in clients => Written(x) + 1 + Len(send[x]) = Due(x))
      BY <1>0, <3>2 DEF StreamOf
    <3>7. Written(x) + 1 + 0 = Written(x) + 1
      BY StreamTypes
    <3>8. Written(x)' + InHand(x)' = Written(x) + 1
      BY <3>5, <3>7
    <3>9. /\ Numbered(send'[x], Written(x)' + InHand(x)')
          /\ x \in clients' => Written(x)' + InHand(x)' + Len(send'[x]) = Due(x)'
      BY <2>1, <3>5, <3>6, <3>8
    <3>10. Numbered(got'[x], joined'[x])
      BY <2>1, <3>3
    <3>11. StreamOf(x)'
      BY <2>1, <2>2, <3>1, <3>9, <3>10 DEF StreamOf, Numbered
    <3> QED
      BY <1>2, <2>1, <2>3, <3>11
  <2> QED
    BY <1>10, <2>4, <2>5 DEF WriterWrite
<1>11. ASSUME NEW x \in Clients, WriterStop(x) \/ WriterClose(x) PROVE StreamInv'
  <2>1. /\ UNCHANGED <<broadcast, accepted, event, todo, clients, got, hand, send, joined, reader>>
        /\ Taken' = Taken /\ writer[x] \in {"wait", "close"}
    BY <1>11 DEF WriterStop, WriterClose, WriterStep, Taken
  <2>2. ASSUME NEW c \in Clients PROVE StreamOf(c)'
    <3>1. writer'[c] = writer[c] \/ (c = x /\ writer'[c] \in {"close", "gone"})
      BY <1>11 DEF WriterStop, WriterClose, WriterStep, HubInv, TypeInv, TypeOK
    <3>2. reader[x] \notin {"none", "register"}
      BY <1>0, <2>1 DEF StreamOf
    <3>3. Due(c)' = Due(c) /\ (c \in clients' => c \in clients)
      BY <2>1 DEF Due
    <3>4. CASE writer'[c] = writer[c]
      BY <1>0, <2>1, <3>3, <3>4, StreamKept
    <3>5. CASE c = x /\ writer'[c] \in {"close", "gone"}
      BY <1>0, <2>1, <3>2, <3>3, <3>5, StreamLeft
    <3> QED
      BY <3>1, <3>4, <3>5
  <2> QED
    BY <1>2, <2>1, <2>2
<1>12. CASE UNCHANGED vars
  <2>1. ASSUME NEW c \in Clients PROVE StreamOf(c)'
    BY <1>0, <1>12, StreamKept DEF vars, Due, Taken
  <2> QED
    BY <1>2, <1>12, <2>1 DEF vars
<1> QED
  BY <1>1, <1>3, <1>4, <1>5, <1>6, <1>7, <1>8, <1>9, <1>10, <1>11, <1>12
  DEF Next, HubStep, FanOut, ReaderNext, WriterNext

\* The parts of a client's stream put together are the stream.
LEMMA StreamJoined ==
  ASSUME HubInv, NEW c \in Clients, StreamOf(c)
  PROVE  /\ Len(Stream(c)) = Len(got[c]) + InHand(c) + Len(send[c])
         /\ Numbered(Stream(c), joined[c])
<1> DEFINE h == IF hand[c] = 0 THEN <<>> ELSE <<hand[c]>>
<1>1. h \in Seq(Events) /\ Len(h) = InHand(c) /\ Numbered(h, joined[c] + Len(got[c]))
  <2>1. CASE hand[c] = 0
    BY <2>1 DEF InHand, Numbered
  <2>2. CASE hand[c] # 0
    <3>1. hand[c] \in Events /\ hand[c] = joined[c] + Len(got[c]) + 1
      BY <2>2, StreamTypes DEF Events, StreamOf, Written
    <3>2. h = <<hand[c]>> /\ Len(<<hand[c]>>) = 1 /\ <<hand[c]>>[1] = hand[c]
      BY <2>2
    <3> QED
      BY <2>2, <3>1, <3>2 DEF InHand, Numbered
  <2> QED
    BY <2>1, <2>2
<1>2. /\ got[c] \in Seq(Events) /\ send[c] \in Seq(Events) /\ joined[c] \in Nat
      /\ Len(got[c]) \in Nat /\ Len(send[c]) \in Nat /\ InHand(c) \in Nat
  BY StreamTypes
<1>3. /\ Numbered(got[c], joined[c])
      /\ Numbered(send[c], joined[c] + (Len(got[c]) + InHand(c)))
  BY <1>2 DEF StreamOf, Written
<1> HIDE DEF h
<1>4. /\ got[c] \o h \in Seq(Events) /\ Len(got[c] \o h) = Len(got[c]) + InHand(c)
      /\ Numbered(got[c] \o h, joined[c])
  BY <1>1, <1>2, <1>3, NumberedJoin
<1>5. /\ Len((got[c] \o h) \o send[c]) = Len(got[c] \o h) + Len(send[c])
      /\ Numbered((got[c] \o h) \o send[c], joined[c])
  BY <1>2, <1>3, <1>4, NumberedJoin
<1>6. Stream(c) = (got[c] \o h) \o send[c]
  BY DEF Stream, h
<1> QED
  BY <1>4, <1>5, <1>6

\* Whatever the capacities, the peers and the order of Run's choices, no client
\* misses an event in the middle of its stream or gets one twice.
THEOREM StreamsComplete == Spec => []StreamComplete
<1>1. HubInv /\ HubInv' /\ StreamInv /\ [Next]_vars => StreamInv'
  BY StreamNext
<1>2. HubInv /\ StreamInv => StreamComplete
  <2> SUFFICES ASSUME HubInv, StreamInv, NEW c \in Clients
               PROVE  /\ \A i \in 1 .. Len(Stream(c)) : Stream(c)[i] = joined[c] + i
                      /\ c \in clients =>
                           Len(Stream(c)) = (IF c \in todo THEN Taken - 1 ELSE Taken) - joined[c]
    BY DEF StreamComplete
  <2>1. StreamOf(c)
    BY DEF StreamInv
  <2>2. /\ Len(Stream(c)) = Len(got[c]) + InHand(c) + Len(send[c])
        /\ Numbered(Stream(c), joined[c])
    BY <2>1, StreamJoined
  <2>3. c \in clients => (joined[c] + Len(got[c])) + InHand(c) + Len(send[c]) = Due(c)
    BY <2>1 DEF StreamOf, Written
  <2>4. Due(c) \in Int
    BY StreamTypes DEF Due
  <2>5. c \in clients => Len(Stream(c)) = Due(c) - joined[c]
    <3>1. /\ joined[c] \in Nat /\ Len(got[c]) \in Nat /\ InHand(c) \in Nat
          /\ Len(send[c]) \in Nat
      BY StreamTypes
    <3> QED
      BY <2>2, <2>3, <2>4, <3>1
  <2> QED
    BY <2>2, <2>5 DEF Numbered, Due
<1> QED
  BY <1>1, <1>2, StreamInit, HubInit, HubNext, PTL DEF Spec

=============================================================================
