-------------------------------- MODULE Hub --------------------------------
(***************************************************************************)
(* The WebSocket hub of internal/handlers/websocket.go: the goroutine      *)
(* Hub.Run, which alone owns the map of clients and alone sends on and     *)
(* closes their channels; per connection the goroutine of ServeWs and then *)
(* readPump and writePump; and the request handlers that call              *)
(* BroadcastEvent.                                                         *)
(*                                                                         *)
(* Accepted events are numbered in the order the broadcast channel took    *)
(* them, so a client's stream of events is a sequence of numbers.          *)
(***************************************************************************)
EXTENDS Naturals, Sequences

CONSTANTS
  Clients,       \* connections
  SendCap,       \* capacity of a client's channel (256 in the code)
  BroadcastCap,  \* capacity of the broadcast channel (256 in the code)
  MaxEvents      \* bound on the events handlers publish

ASSUME HubAssumption ==
  SendCap \in Nat \ {0} /\ BroadcastCap \in Nat \ {0} /\ MaxEvents \in Nat

VARIABLES
  broadcast,  \* the hub's broadcast channel
  accepted,   \* events that entered it so far
  published,  \* BroadcastEvent calls so far
  clients,    \* the map h.clients
  event,      \* the event Run is fanning out, 0 while it is in its select
  todo,       \* clients the range loop has still to visit
  send,       \* each client's channel
  closes,     \* how often each client's channel was closed
  conn,       \* each connection: "none", "open", "dead"
  reader,     \* ServeWs, then readPump
  writer,     \* writePump
  hand,       \* the event writePump is writing, 0 for none
  got,        \* events written to the connection
  joined      \* the last event Run had taken when the client was registered

run == <<clients, event, todo>>
pumps == <<conn, reader, writer, hand, got>>
vars == <<broadcast, accepted, published, run, send, closes, pumps, joined>>

ReaderPC == {"none", "register", "read", "unregister", "close", "gone"}
WriterPC == {"none", "wait", "write", "close", "gone"}

Events == Nat \ {0}

TypeOK ==
  /\ broadcast \in Seq(Events) /\ accepted \in Nat /\ published \in Nat
  /\ clients \subseteq Clients /\ todo \subseteq clients /\ event \in Nat
  /\ send \in [Clients -> Seq(Events)] /\ Len(broadcast) <= BroadcastCap
  /\ \A c \in Clients : Len(send[c]) <= SendCap
  /\ closes \in [Clients -> Nat]
  /\ conn \in [Clients -> {"none", "open", "dead"}]
  /\ reader \in [Clients -> ReaderPC] /\ writer \in [Clients -> WriterPC]
  /\ hand \in [Clients -> Nat] /\ got \in [Clients -> Seq(Events)]
  /\ joined \in [Clients -> Nat]

Init ==
  /\ broadcast = <<>> /\ accepted = 0 /\ published = 0
  /\ clients = {} /\ event = 0 /\ todo = {}
  /\ send = [c \in Clients |-> <<>>]
  /\ closes = [c \in Clients |-> 0]
  /\ conn = [c \in Clients |-> "none"]
  /\ reader = [c \in Clients |-> "none"] /\ writer = [c \in Clients |-> "none"]
  /\ hand = [c \in Clients |-> 0]
  /\ got = [c \in Clients |-> <<>>]
  /\ joined = [c \in Clients |-> 0]

\* The last event Run has taken from the broadcast channel.
Taken == accepted - Len(broadcast)

-----------------------------------------------------------------------------
(* BroadcastEvent, in a request handler *)

\* A full broadcast channel drops the event instead of blocking the handler.
BroadcastEvent ==
  /\ published < MaxEvents
  /\ published' = published + 1
  /\ IF Len(broadcast) < BroadcastCap
       THEN /\ accepted' = accepted + 1
            /\ broadcast' = Append(broadcast, accepted + 1)
       ELSE UNCHANGED <<accepted, broadcast>>
  /\ UNCHANGED <<run, send, closes, pumps, joined>>

-----------------------------------------------------------------------------
(* Hub.Run: in its select (event = 0), or ranging over the clients *)

\* Faulty variants: a client is closed without being looked up in the map, a
\* slow client misses the event instead of being closed.
CloseUnchecked(c) ==
  /\ clients' = clients \ {c}
  /\ closes' = [closes EXCEPT ![c] = @ + 1]
SkipSlow(c) == UNCHANGED <<clients, closes>>

\* case client := <-h.register; ServeWs goes on to start the pumps.
Register(c) ==
  /\ event = 0 /\ reader[c] = "register"
  /\ clients' = clients \cup {c}
  /\ joined' = [joined EXCEPT ![c] = Taken]
  /\ reader' = [reader EXCEPT ![c] = "read"]
  /\ writer' = [writer EXCEPT ![c] = "wait"]
  /\ UNCHANGED <<broadcast, accepted, published, event, todo, send, closes,
                 conn, hand, got>>

\* The body of case client := <-h.unregister: a client no longer in the map
\* was closed before.
Drop(c) ==
  IF c \in clients
    THEN /\ clients' = clients \ {c}
         /\ closes' = [closes EXCEPT ![c] = @ + 1]
    ELSE UNCHANGED <<clients, closes>>

Unregister(c) ==
  /\ event = 0 /\ reader[c] = "unregister"
  /\ Drop(c)
  /\ reader' = [reader EXCEPT ![c] = "close"]
  /\ UNCHANGED <<broadcast, accepted, published, event, todo, send, conn,
                 writer, hand, got, joined>>

\* case message := <-h.broadcast, and the start of the range loop.
TakeEvent ==
  /\ event = 0 /\ broadcast # <<>>
  /\ event' = Head(broadcast) /\ broadcast' = Tail(broadcast)
  /\ todo' = clients
  /\ UNCHANGED <<accepted, published, clients, send, closes, pumps, joined>>

\* The default case of the inner select: the channel of a slow client is full.
DropSlow(c) ==
  /\ clients' = clients \ {c}
  /\ closes' = [closes EXCEPT ![c] = @ + 1]

Deliver(c) ==
  /\ event # 0 /\ c \in todo
  /\ todo' = todo \ {c}
  /\ IF Len(send[c]) < SendCap
       THEN /\ send' = [send EXCEPT ![c] = Append(@, event)]
            /\ UNCHANGED <<clients, closes>>
       ELSE DropSlow(c) /\ UNCHANGED send
  /\ UNCHANGED <<broadcast, accepted, published, event, pumps, joined>>

EndFanOut ==
  /\ event # 0 /\ todo = {}
  /\ event' = 0
  /\ UNCHANGED <<broadcast, accepted, published, clients, todo, send, closes,
                 pumps, joined>>

-----------------------------------------------------------------------------
(* ServeWs and readPump *)

ReaderStep(c, from, to) == reader[c] = from /\ reader' = [reader EXCEPT ![c] = to]

\* The upgrade succeeded; the goroutine blocks on the register channel.
ServeWs(c) ==
  /\ ReaderStep(c, "none", "register")
  /\ conn' = [conn EXCEPT ![c] = "open"]
  /\ UNCHANGED <<broadcast, accepted, published, run, send, closes, writer,
                 hand, got, joined>>

\* The peer closes, breaks, floods or misses its pong deadline.
PeerLost(c) ==
  /\ conn[c] = "open"
  /\ conn' = [conn EXCEPT ![c] = "dead"]
  /\ UNCHANGED <<broadcast, accepted, published, run, send, closes, reader,
                 writer, hand, got, joined>>

\* Faulty variant: the deferred unregister is missing.
ReadFailSilently(c) ==
  /\ conn[c] = "dead" /\ ReaderStep(c, "read", "close")
  /\ UNCHANGED <<broadcast, accepted, published, run, send, closes, conn,
                 writer, hand, got, joined>>

\* ReadMessage fails; the deferred call blocks on the unregister channel.
ReadFail(c) ==
  /\ conn[c] = "dead" /\ ReaderStep(c, "read", "unregister")
  /\ UNCHANGED <<broadcast, accepted, published, run, send, closes, conn,
                 writer, hand, got, joined>>

ReaderClose(c) ==
  /\ ReaderStep(c, "close", "gone")
  /\ conn' = [conn EXCEPT ![c] = "dead"]
  /\ UNCHANGED <<broadcast, accepted, published, run, send, closes, writer,
                 hand, got, joined>>

-----------------------------------------------------------------------------
(* writePump *)

WriterStep(c, from, to) == writer[c] = from /\ writer' = [writer EXCEPT ![c] = to]

\* A closed channel still yields what it holds.
WriterTake(c) ==
  /\ send[c] # <<>> /\ WriterStep(c, "wait", "write")
  /\ hand' = [hand EXCEPT ![c] = Head(send[c])]
  /\ send' = [send EXCEPT ![c] = Tail(@)]
  /\ UNCHANGED <<broadcast, accepted, published, run, closes, conn, reader, got,
                 joined>>

\* The event is written, or the write fails and the pump returns.
WriterWrite(c) ==
  /\ \/ /\ conn[c] = "open" /\ WriterStep(c, "write", "wait")
        /\ got' = [got EXCEPT ![c] = Append(@, hand[c])]
        /\ hand' = [hand EXCEPT ![c] = 0]
     \/ /\ conn[c] = "dead" /\ WriterStep(c, "write", "close")
        /\ UNCHANGED <<got, hand>>
  /\ UNCHANGED <<broadcast, accepted, published, run, send, closes, conn, reader,
                 joined>>

\* The channel is closed and drained, or the ping of the ticker fails.
WriterStop(c) ==
  /\ (closes[c] > 0 /\ send[c] = <<>>) \/ conn[c] = "dead"
  /\ WriterStep(c, "wait", "close")
  /\ UNCHANGED <<broadcast, accepted, published, run, send, closes, conn, reader,
                 hand, got, joined>>

WriterClose(c) ==
  /\ WriterStep(c, "close", "gone")
  /\ conn' = [conn EXCEPT ![c] = "dead"]
  /\ UNCHANGED <<broadcast, accepted, published, run, send, closes, reader, hand,
                 got, joined>>

-----------------------------------------------------------------------------
FanOut == EndFanOut \/ \E c \in Clients : Deliver(c)
HubStep == TakeEvent \/ FanOut \/ \E c \in Clients : Register(c) \/ Unregister(c)
ReaderNext(c) == ReadFail(c) \/ ReaderClose(c)
WriterNext(c) == WriterTake(c) \/ WriterWrite(c) \/ WriterStop(c) \/ WriterClose(c)

Next ==
  \/ BroadcastEvent \/ HubStep
  \/ \E c \in Clients : ServeWs(c) \/ PeerLost(c) \/ ReaderNext(c) \/ WriterNext(c)

Spec == Init /\ [][Next]_vars

\* Goroutines that can run do; a Go select that is often ready for a case
\* takes it some time; the writer's ticker fires.  Nobody has to connect,
\* publish, or hang up.
FairSpec ==
  /\ Spec
  /\ WF_vars(FanOut) /\ WF_vars(HubStep)
  /\ \A c \in Clients : /\ SF_vars(Register(c)) /\ SF_vars(Unregister(c))
                        /\ WF_vars(ReaderNext(c)) /\ WF_vars(WriterNext(c))

-----------------------------------------------------------------------------
(* Properties *)

\* Closing a closed channel and sending on one panic, which would end the
\* process: once either of the two places that close a client's channel has
\* closed it, nothing closes it again and Run sends nothing more on it.
NoChannelPanic ==
  [][\A c \in Clients : closes[c] # 0 =>
       closes'[c] <= closes[c] /\ Len(send'[c]) <= Len(send[c])]_vars

\* What was written, is being written and is queued for a client.
Stream(c) == got[c] \o (IF hand[c] = 0 THEN <<>> ELSE <<hand[c]>>) \o send[c]

\* A client in the map has, without gap or repetition and in order, every event
\* Run has taken since it was registered, and one that left the map a gapless
\* part of them: being slow costs a client its connection, never an event in
\* the middle.
StreamComplete ==
  \A c \in Clients :
    /\ \A i \in 1 .. Len(Stream(c)) : Stream(c)[i] = joined[c] + i
    /\ c \in clients =>
         Len(Stream(c)) = (IF c \in todo THEN Taken - 1 ELSE Taken) - joined[c]

\* A connection that died, and one whose client Run dropped for being slow, is
\* cleaned up: hung up, out of the map, both pumps gone.
CleanedUp ==
  \A c \in Clients :
    conn[c] = "dead" \/ closes[c] > 0 ~>
      /\ conn[c] = "dead" /\ c \notin clients
      /\ reader[c] = "gone" /\ writer[c] = "gone"

=============================================================================
