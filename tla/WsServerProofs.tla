--------------------------- MODULE WsServerProofs ---------------------------
(***************************************************************************)
(* Proofs about the WebSocket server, for any number of connections,       *)
(* users, models and replicas: its rooms, the types of its state, the life *)
(* of a connection, presence, and the delivery of room events.             *)
(***************************************************************************)
EXTENDS WsServer, TLAPS

(* h has the fields of Hub.                                                *)
IsHub(h) == DOMAIN h = {"current", "members", "wire", "view", "got", "audience"}

(* Rooms and currentModelId as a handler finds them and must leave them.   *)
Consistent(h) ==
    /\ IsHub(h)
    /\ h.members \in [Models -> SUBSET Conns]
    /\ h.current \in [Conns -> Models \cup {NoModel}]
    /\ \A c \in Conns, m \in Models : c \in h.members[m] <=> h.current[c] = m
    /\ \A c \in Conns, m \in Models :
          c \in h.members[m] => <<User[c], m>> \in Access

(* A local broadcast changes what clients saw, not where they are.         *)
LEMMA LocalKeepsRooms ==
    ASSUME NEW h, IsHub(h), NEW p, NEW m, NEW msg, NEW x
    PROVE  LET k == broadcastToLocalRoom(h, p, m, msg, x)
           IN IsHub(k) /\ k.members = h.members /\ k.current = h.current
<1> DEFINE k == broadcastToLocalRoom(h, p, m, msg, x)
<1>1. CASE msg.event = "USER_JOINED"
  <2>1. PICK v : k = [h EXCEPT !.view = v]
    BY <1>1 DEF broadcastToLocalRoom
  <2> QED BY <2>1 DEF IsHub
<1>2. CASE msg.event = "USER_LEFT"
  <2>1. PICK v : k = [h EXCEPT !.view = v]
    BY <1>2 DEF broadcastToLocalRoom
  <2> QED BY <2>1 DEF IsHub
<1>3. CASE msg.event \notin {"USER_JOINED", "USER_LEFT"}
  <2>1. PICK v : k = [h EXCEPT !.got = v]
    BY <1>3 DEF broadcastToLocalRoom
  <2> QED BY <2>1 DEF IsHub
<1> QED BY <1>1, <1>2, <1>3

(* Neither does the publication to the other replicas.                     *)
LEMMA BroadcastKeepsRooms ==
    ASSUME NEW h, IsHub(h), NEW c, NEW m, NEW msg
    PROVE  LET k == broadcast(h, c, m, msg)
           IN IsHub(k) /\ k.members = h.members /\ k.current = h.current
<1> DEFINE g == broadcastToLocalRoom(h, Proc[c], m, msg, c)
           k == broadcast(h, c, m, msg)
<1>1. IsHub(g) /\ g.members = h.members /\ g.current = h.current
  BY LocalKeepsRooms
<1>2. k = Publish(g, Proc[c], m, msg)
  BY DEF broadcast
<1> HIDE DEF g, k
<1>3. \E v : k = [g EXCEPT !.wire = v]
  BY <1>2 DEF Publish
<1>4. IsHub(k) /\ k.members = g.members /\ k.current = g.current
  BY <1>1, <1>3 DEF IsHub
<1> QED BY <1>1, <1>4 DEF k

(* A broadcast keeps rooms and currentModelId consistent.                  *)
LEMMA BroadcastConsistent ==
    ASSUME NEW h, Consistent(h), NEW c, NEW m, NEW msg
    PROVE  Consistent(broadcast(h, c, m, msg))
  BY BroadcastKeepsRooms DEF Consistent

(* Leaving a room, be it the current one or not, keeps them consistent,    *)
(* and leaves no current model if it was the current one.                  *)
LEMMA LeaveConsistent ==
    ASSUME NEW h, Consistent(h), NEW c \in Conns, NEW m \in Models
    PROVE  LET k == leaveRoom(h, c, m)
           IN /\ Consistent(k)
              /\ h.current[c] = m => k.current[c] = NoModel
<1> DEFINE k == leaveRoom(h, c, m)
<1>1. CASE \A d \in h.members[m] : Proc[d] # Proc[c]
  <2>1. k = h /\ c \notin h.members[m]
    BY <1>1 DEF leaveRoom
  <2> QED BY <2>1 DEF Consistent
<1>2. CASE ~ \A d \in h.members[m] : Proc[d] # Proc[c]
  <2> DEFINE mem == [h.members EXCEPT ![m] = @ \ {c}]
             cur == [h.current EXCEPT ![c] = IF @ = m THEN NoModel ELSE @]
             g == [h EXCEPT !.members[m] = @ \ {c},
                            !.current[c] = IF @ = m THEN NoModel ELSE @,
                            !.view[c] = IF c \in h.members[m] THEN {} ELSE @,
                            !.audience = [e \in Event |->
                               IF c \in h.members[m] THEN @[e] \ {c} ELSE @[e]]]
  <2>1. k = broadcast(g, c, m, Left(User[c]))
    BY <1>2 DEF leaveRoom
  <2>2. IsHub(g) /\ g.members = mem /\ g.current = cur
    BY DEF Consistent, IsHub
  <2> HIDE DEF g
  <2>3. Consistent(g)
    BY <2>2, ConstantsOK DEF Consistent
  <2>4. h.current[c] = m => g.current[c] = NoModel
    BY <2>2 DEF Consistent
  <2>6. Consistent(k) /\ k.current = g.current
    BY <2>1, <2>3, BroadcastConsistent, BroadcastKeepsRooms DEF Consistent
  <2> QED BY <2>4, <2>6
<1> QED BY <1>1, <1>2

(* Entering an authorised room from no room keeps them consistent.         *)
LEMMA EnterConsistent ==
    ASSUME NEW h, Consistent(h), NEW c \in Conns, NEW m \in Models,
           h.current[c] = NoModel, <<User[c], m>> \in Access
    PROVE  Consistent(EnterRoom(h, c, m))
<1> DEFINE g == [h EXCEPT !.current[c] = m, !.members[m] = @ \cup {c}]
<1> DEFINE mem == [h.members EXCEPT ![m] = @ \cup {c}]
           cur == [h.current EXCEPT ![c] = m]
<1>1. IsHub(g) /\ g.members = mem /\ g.current = cur
  BY DEF Consistent, IsHub
<1> HIDE DEF g
<1>2. Consistent(g)
  BY <1>1, ConstantsOK DEF Consistent
<1>3. EnterRoom(h, c, m) = broadcast(g, c, m, Joined(User[c]))
  BY DEF EnterRoom, g
<1> QED BY <1>2, <1>3, BroadcastConsistent

(* So does an authorised join from wherever the connection was.            *)
LEMMA JoinConsistent ==
    ASSUME NEW h, Consistent(h), NEW c \in Conns, NEW m \in Models,
           <<User[c], m>> \in Access
    PROVE  Consistent(joinRoom(h, c, m))
<1>1. CASE h.current[c] = m
  BY <1>1 DEF joinRoom
<1>2. CASE h.current[c] # m /\ h.current[c] = NoModel
  BY <1>2, EnterConsistent DEF joinRoom
<1>3. CASE h.current[c] # m /\ h.current[c] # NoModel
  <2> DEFINE g == leaveRoom(h, c, h.current[c])
  <2>1. h.current[c] \in Models
    BY <1>3 DEF Consistent
  <2>2. Consistent(g) /\ g.current[c] = NoModel
    BY <2>1, LeaveConsistent
  <2> HIDE DEF g
  <2>3. joinRoom(h, c, m) = EnterRoom(g, c, m)
    BY <1>3 DEF joinRoom, g
  <2> QED BY <2>2, <2>3, EnterConsistent
<1> QED BY <1>1, <1>2, <1>3

-----------------------------------------------------------------------------
(* The steps of the server.                                                *)

(* A handler that computed a consistent hub leaves one.                    *)
LEMMA HubStep ==
    ASSUME NEW h, Consistent(h), SetHub(h)  PROVE Consistent(Hub)'
<1>1. members' = h.members /\ current' = h.current
  BY DEF SetHub
<1> QED BY <1>1 DEF Consistent, IsHub, Hub

(* Whether the broadcasts reach Redis or not.                              *)
LEMMA PublishStep ==
    ASSUME NEW h, Consistent(h), SetAndPublish(h)  PROVE Consistent(Hub)'
<1>1. PICK w : SetHub([h EXCEPT !.wire = w])
  BY DEF SetAndPublish
<1> DEFINE k == [h EXCEPT !.wire = w]
<1>2. Consistent(k)
  BY DEF Consistent, IsHub
<1> HIDE DEF k
<1> QED BY <1>1, <1>2, HubStep DEF k

(* A step that does not touch the rooms keeps them consistent.             *)
LEMMA HubSame ==
    ASSUME Consistent(Hub), UNCHANGED roomVars  PROVE Consistent(Hub)'
  BY DEF Consistent, IsHub, Hub, roomVars

(* Only authorised connections join.                                       *)
LEMMA RequestStep ==
    ASSUME Consistent(Hub), NEW c \in Conns, NEW m \in Models,
           requestJoinRoom(c, m)
    PROVE  Consistent(Hub)'
<1>1. PICK authorized \in authorizeModelAccess(c, m) :
         SetAndPublish(IF authorized /\ sock[c] = "open" THEN joinRoom(Hub, c, m)
                                                        ELSE Hub)
  BY DEF requestJoinRoom
<1>2. authorized => <<User[c], m>> \in Access
  BY DEF authorizeModelAccess
<1>3. CASE authorized /\ sock[c] = "open"
  <2>1. Consistent(joinRoom(Hub, c, m))
    BY <1>2, <1>3, JoinConsistent
  <2> QED BY <1>1, <1>3, <2>1, PublishStep
<1>4. CASE ~(authorized /\ sock[c] = "open")
  BY <1>1, <1>4, PublishStep
<1> QED BY <1>3, <1>4

(* Cleanup leaves the current room.                                        *)
LEMMA CleanupStep ==
    ASSUME Consistent(Hub), NEW c \in Conns, cleanup(c)
    PROVE  Consistent(Hub)'
<1>1. CASE current[c] = NoModel
  BY <1>1, PublishStep DEF cleanup
<1>2. CASE current[c] # NoModel
  <2>1. current[c] \in Models
    BY <1>2 DEF Consistent, Hub
  <2>2. Consistent(leaveRoom(Hub, c, current[c]))
    BY <2>1, LeaveConsistent
  <2> QED BY <1>2, <2>2, PublishStep DEF cleanup
<1> QED BY <1>1, <1>2

(* So does every message of a client.                                      *)
LEMMA MessageStep ==
    ASSUME Consistent(Hub), NEW c \in Conns, NEW msg \in Message,
           processMessage(c, msg)
    PROVE  Consistent(Hub)'
<1>1. CASE msg.event \in {"JOIN_MODEL", "PONG"}
  BY <1>1, HubSame DEF processMessage
<1>2. CASE msg.event = "LEAVE_MODEL"
  <2>1. msg.model \in Models
    BY <1>2 DEF Message
  <2>2. Consistent(leaveRoom(Hub, c, msg.model))
    BY <2>1, LeaveConsistent
  <2> QED BY <1>2, <2>2, PublishStep DEF processMessage
<1>3. CASE msg.event = "ROOM_EVENT"
  <2> DEFINE h == broadcast(Hub, c, current[c], Relay(events + 1))
             to(w) == {d \in members[current[c]] \ {c} :
                         sock[d] = "open" /\ (w = wire => Proc[d] = Proc[c])}
             k(w) == [h EXCEPT !.wire = w, !.audience[events + 1] = to(w)]
  <2>1. (\E w : SetHub(k(w))) \/ UNCHANGED roomVars
    BY <1>3 DEF processMessage, relay
  <2>2. Consistent(h)
    BY BroadcastConsistent
  <2> HIDE DEF h, to
  <2>3. ASSUME NEW w  PROVE Consistent(k(w))
    BY <2>2 DEF Consistent, IsHub
  <2> HIDE DEF k
  <2> QED BY <2>1, <2>3, HubStep, HubSame
<1> QED BY <1>1, <1>2, <1>3 DEF Message

(* What the rooms' invariant needs to know of the other variables: queued  *)
(* messages are messages, and a replica drains a queue of its own that is  *)
(* not empty.                                                              *)
QueueInv ==
    /\ initial \in [Conns -> Models \cup {NoModel}]
    /\ pending \in [Conns -> Seq(Message)]
    /\ loop \in [Procs -> Conns \cup {NoConn}]
    /\ phase \in [Conns -> Phase]
    /\ \A c \in Conns : phase[c] = "authorizing" => initial[c] # NoModel
    /\ \A c \in Conns, p \in Procs :
          loop[p] = c => Proc[c] = p /\ pending[c] # <<>>

(* A connection that becomes ready is drained if it has queued messages.   *)
LEMMA ReadyQueue ==
    ASSUME QueueInv, NEW c \in Conns, BecomeReady(c), UNCHANGED <<initial, pending>>
    PROVE  QueueInv'
  BY ConstantsOK DEF QueueInv, BecomeReady, Phase

(* Every step keeps the queues' invariant.                                 *)
LEMMA NextQueue ==
    ASSUME QueueInv, [Next]_vars  PROVE QueueInv'
<1> USE DEF connVars
<1>0. UNCHANGED <<phase, initial, pending, loop>> => QueueInv'
  BY DEF QueueInv
<1>1. CASE UNCHANGED vars
  BY <1>0, <1>1 DEF vars
<1>2. ASSUME NEW c \in Conns, connect(c)  PROVE QueueInv'
  BY <1>2 DEF QueueInv, connect, Phase
<1>3. ASSUME NEW c \in Conns, NEW msg \in Message, on_message(c, msg)
      PROVE  QueueInv'
  <2>1. UNCHANGED <<phase, initial, loop>>
    BY <1>3 DEF on_message
  <2>2. pending' \in [Conns -> Seq(Message)]
        /\ \A d \in Conns : d # c => pending'[d] = pending[d]
    <3>1. pending[c] \in Seq(Message)
      BY DEF QueueInv
    <3>2. Append(pending[c], msg) \in Seq(Message)
      BY <3>1
    <3> QED BY <1>3, <3>2 DEF on_message, QueueInv
  <2>3. \A p \in Procs : loop[p] # c
    BY <1>3, ConstantsOK DEF on_message, Free, QueueInv
  <2> QED BY <2>1, <2>2, <2>3 DEF QueueInv
<1>4. ASSUME NEW c \in Conns, subscribed_ok(c)  PROVE QueueInv'
  <2>1. CASE initial[c] = NoModel
    BY <1>4, <2>1, ReadyQueue DEF subscribed_ok
  <2>2. CASE initial[c] # NoModel
    BY <1>4, <2>2 DEF QueueInv, subscribed_ok, Phase
  <2> QED BY <2>1, <2>2
<1>5. ASSUME NEW c \in Conns, subscribe_fails(c)  PROVE QueueInv'
  BY <1>5 DEF QueueInv, subscribe_fails, Phase
<1>6. ASSUME NEW c \in Conns, initial_join(c)  PROVE QueueInv'
  BY <1>6, ReadyQueue DEF initial_join
<1>7. ASSUME NEW c \in Conns, drain(c)  PROVE QueueInv'
  <2>1. Proc[c] \in Procs /\ pending[c] \in Seq(Message) /\ pending[c] # <<>>
    BY <1>7, ConstantsOK DEF drain, QueueInv
  <2>2. Tail(pending[c]) \in Seq(Message)
    BY <2>1
  <2>3. pending' \in [Conns -> Seq(Message)]
    BY <1>7, <2>2 DEF drain, QueueInv
  <2>4. \A d \in Conns, p \in Procs :
           loop'[p] = d => Proc[d] = p /\ pending'[d] # <<>>
    BY <1>7, <2>1, ConstantsOK DEF drain, QueueInv
  <2> QED BY <1>7, <2>1, <2>3, <2>4 DEF drain, QueueInv
<1>8. ASSUME NEW c \in Conns,
             \/ closing(c) \/ on_close(c) \/ on_error(c) \/ heartbeat(c)
             \/ pong_timeout(c) \/ \E m \in Models : join_answered(c, m)
      PROVE  QueueInv'
  BY <1>0, <1>8 DEF closing, on_close, on_error, heartbeat, pong_timeout,
     join_answered
<1>9. ASSUME \/ \E p \in Procs : pmessage(p)
             \/ \E m \in Models : publish_room_event(m)
      PROVE  QueueInv'
  BY <1>0, <1>9 DEF pmessage, publish_room_event
<1> QED
  BY <1>1, <1>2, <1>3, <1>4, <1>5, <1>6, <1>7, <1>8, <1>9
  DEF Next, Client, Handler

(* Every step keeps rooms and currentModelId consistent.                   *)
LEMMA NextConsistent ==
    ASSUME QueueInv, Consistent(Hub), [Next]_vars  PROVE Consistent(Hub)'
<1>1. CASE UNCHANGED vars
  BY <1>1, HubSame DEF vars
<1>2. ASSUME NEW c \in Conns,
             \/ connect(c) \/ closing(c) \/ subscribed_ok(c) \/ subscribe_fails(c)
      PROVE  Consistent(Hub)'
  BY <1>2, HubSame DEF connect, closing, subscribed_ok, subscribe_fails
<1>3. ASSUME NEW c \in Conns, NEW msg \in Message, on_message(c, msg)
      PROVE  Consistent(Hub)'
  BY <1>3, MessageStep, HubSame DEF on_message
<1>4. ASSUME NEW c \in Conns, drain(c)  PROVE Consistent(Hub)'
  <2>1. Proc[c] \in Procs /\ pending[c] \in Seq(Message) /\ pending[c] # <<>>
    BY <1>4, ConstantsOK DEF drain, QueueInv
  <2>2. Head(pending[c]) \in Message
    BY <2>1
  <2> QED BY <1>4, <2>2, MessageStep DEF drain
<1>5. ASSUME NEW c \in Conns, initial_join(c)  PROVE Consistent(Hub)'
  <2>1. initial[c] \in Models
    BY <1>5 DEF initial_join, QueueInv
  <2> QED BY <1>5, <2>1, RequestStep DEF initial_join
<1>6. ASSUME NEW c \in Conns, NEW m \in Models, join_answered(c, m)
      PROVE  Consistent(Hub)'
  BY <1>6, RequestStep DEF join_answered
<1>7. ASSUME NEW c \in Conns,
             on_close(c) \/ on_error(c) \/ heartbeat(c) \/ pong_timeout(c)
      PROVE  Consistent(Hub)'
  BY <1>7, CleanupStep, HubSame
     DEF on_close, NoCleanup, on_error, heartbeat, pong_timeout
<1>8. ASSUME NEW p \in Procs, pmessage(p)  PROVE Consistent(Hub)'
  <2> DEFINE env == Head(wire[p])
             h == [Hub EXCEPT !.wire[p] = Tail(@)]
             k == broadcastToLocalRoom(h, p, env.model, env.message, NoConn)
  <2>1. SetHub(h) \/ SetHub(k)
    BY <1>8 DEF pmessage
  <2>2. Consistent(h)
    BY DEF Consistent, IsHub
  <2> HIDE DEF h, env
  <2>3. Consistent(k)
    BY <2>2, LocalKeepsRooms DEF Consistent
  <2> HIDE DEF k
  <2> QED BY <2>1, <2>2, <2>3, HubStep
<1>9. ASSUME NEW m \in Models, publish_room_event(m)  PROVE Consistent(Hub)'
  <2> DEFINE h == Publish(Hub, "api", m, Relay(events + 1))
             to(w) == {d \in members[m] : sock[d] = "open" /\ w # wire}
             k(w) == [h EXCEPT !.wire = w, !.audience[events + 1] = to(w)]
  <2>1. \E w : SetHub(k(w))
    BY <1>9 DEF publish_room_event
  <2>2. Consistent(h)
    <3>1. \E v : h = [Hub EXCEPT !.wire = v]
      BY DEF Publish
    <3> HIDE DEF h
    <3> QED BY <3>1 DEF Consistent, IsHub
  <2> HIDE DEF h, to
  <2>3. ASSUME NEW w  PROVE Consistent(k(w))
    BY <2>2 DEF Consistent, IsHub
  <2> HIDE DEF k
  <2> QED BY <2>1, <2>3, HubStep
<1> QED
  BY <1>1, <1>2, <1>3, <1>4, <1>5, <1>6, <1>7, <1>8, <1>9
  DEF Next, Client, Handler

(* The rooms are consistent in every reachable state.                      *)
LEMMA AlwaysConsistent == Spec => []Consistent(Hub)
<1>1. Init => QueueInv /\ Consistent(Hub)
  BY ConstantsOK DEF Init, QueueInv, Phase, Consistent, IsHub, Hub
<1>2. QueueInv /\ Consistent(Hub) /\ [Next]_vars => QueueInv' /\ Consistent(Hub)'
  BY NextQueue, NextConsistent
<1> QED BY <1>1, <1>2, PTL DEF Spec

(***************************************************************************)
(* The rooms and the connections' currentModelId always agree.             *)
(***************************************************************************)
THEOREM RoomsCorrect == Spec => []RoomsAgree
<1>1. Consistent(Hub) => RoomsAgree
  BY DEF Consistent, Hub, RoomsAgree
<1> QED BY <1>1, AlwaysConsistent, PTL

(***************************************************************************)
(* Nobody is in a room without having been authorised for its model.       *)
(***************************************************************************)
THEOREM JoinsFailClosed == Spec => []OnlyAuthorized
<1>1. Consistent(Hub) => OnlyAuthorized
  BY DEF Consistent, Hub, OnlyAuthorized
<1> QED BY <1>1, AlwaysConsistent, PTL

-----------------------------------------------------------------------------
(* What the handlers' broadcasts do to the fields of the hub.              *)

HubTypes(h) ==
    /\ IsHub(h)
    /\ h.members \in [Models -> SUBSET Conns]
    /\ h.current \in [Conns -> Models \cup {NoModel}]
    /\ h.wire \in [Procs -> Seq(Envelope)]
    /\ h.view \in [Conns -> SUBSET Users]
    /\ h.got \in [Conns -> [Event -> Nat]]
    /\ h.audience \in [Event -> SUBSET Conns]

Hearers(mem, p, m, x) ==
    {d \in mem[m] : Proc[d] = p /\ sock[d] = "open"} \ {x}
Packet(p, m, msg) == [origin |-> p, model |-> m, message |-> msg]
AppendToAll(wir, env) == [p \in Procs |-> Append(wir[p], env)]
Heard(vw, to, msg) ==
    CASE msg.event = "USER_JOINED" ->
           [d \in Conns |-> IF d \in to THEN vw[d] \cup {msg.user} ELSE vw[d]]
      [] msg.event = "USER_LEFT" ->
           [d \in Conns |-> IF d \in to THEN vw[d] \ {msg.user} ELSE vw[d]]
      [] OTHER -> vw
Received(g, to, msg) ==
    IF msg.event \in {"USER_JOINED", "USER_LEFT"} THEN g
    ELSE [d \in Conns |->
            IF d \in to THEN [g[d] EXCEPT ![msg.id] = @ + 1] ELSE g[d]]

LEMMA NoticeKinds ==
    /\ \A u \in Users : /\ Joined(u) \in Notice /\ Left(u) \in Notice
                        /\ Joined(u).event = "USER_JOINED" /\ Joined(u).user = u
                        /\ Left(u).event = "USER_LEFT" /\ Left(u).user = u
    /\ \A e \in Event : /\ Relay(e) \in Notice
                        /\ Relay(e).event = "ROOM_EVENT" /\ Relay(e).id = e
    /\ \A msg \in Notice :
          \/ \E u \in Users : msg = Joined(u)
          \/ \E u \in Users : msg = Left(u)
          \/ \E e \in Event : msg = Relay(e)
<1>1. ASSUME NEW msg \in Notice
      PROVE  \/ \E u \in Users : msg = Joined(u)
             \/ \E u \in Users : msg = Left(u)
             \/ \E e \in Event : msg = Relay(e)
  <2>1. CASE msg \in [event : {"ROOM_EVENT"}, id : Event]
    BY <2>1 DEF Relay
  <2>2. CASE msg \in [event : {"USER_JOINED", "USER_LEFT"}, user : Users]
    BY <2>2 DEF Joined, Left
  <2> QED BY <1>1, <2>1, <2>2 DEF Notice
<1> QED BY <1>1 DEF Notice, Joined, Left, Relay

LEMMA LocalEffect ==
    ASSUME NEW h, HubTypes(h), NEW p, NEW m, NEW msg, NEW x
    PROVE  LET k  == broadcastToLocalRoom(h, p, m, msg, x)
               to == Hearers(h.members, p, m, x)
           IN  /\ IsHub(k)
               /\ k.members = h.members /\ k.current = h.current
               /\ k.wire = h.wire /\ k.audience = h.audience
               /\ k.view = Heard(h.view, to, msg)
               /\ k.got = Received(h.got, to, msg)
<1> DEFINE k  == broadcastToLocalRoom(h, p, m, msg, x)
           to == Hearers(h.members, p, m, x)
<1>0. IsHub(h)
  BY DEF HubTypes
<1>1. CASE msg.event = "USER_JOINED"
  <2>1. k = [h EXCEPT !.view = Heard(h.view, to, msg)]
    BY <1>1 DEF broadcastToLocalRoom, Heard, Hearers
  <2>2. Received(h.got, to, msg) = h.got
    BY <1>1 DEF Received
  <2> HIDE DEF k, to
  <2> QED BY <1>0, <2>1, <2>2 DEF IsHub, k, to
<1>2. CASE msg.event = "USER_LEFT"
  <2>1. k = [h EXCEPT !.view = Heard(h.view, to, msg)]
    BY <1>2 DEF broadcastToLocalRoom, Heard, Hearers
  <2>2. Received(h.got, to, msg) = h.got
    BY <1>2 DEF Received
  <2> HIDE DEF k, to
  <2> QED BY <1>0, <2>1, <2>2 DEF IsHub, k, to
<1>3. CASE msg.event \notin {"USER_JOINED", "USER_LEFT"}
  <2>1. k = [h EXCEPT !.got = Received(h.got, to, msg)]
    <3> DEFINE joined == [h EXCEPT !.view = [d \in Conns |->
                   IF d \in to THEN @[d] \cup {msg.user} ELSE @[d]]]
               left == [h EXCEPT !.view = [d \in Conns |->
                   IF d \in to THEN @[d] \ {msg.user} ELSE @[d]]]
               f     == [d \in Conns |->
                   IF d \in to THEN [h.got[d] EXCEPT ![msg.id] = @ + 1]
                               ELSE h.got[d]]
               event == [h EXCEPT !.got = f]
    <3>1. k = event
      <4>1. msg.event # "USER_JOINED" /\ msg.event # "USER_LEFT"
        BY <1>3
      <4>2. k = CASE msg.event = "USER_JOINED" -> joined
                  [] msg.event = "USER_LEFT" -> left
                  [] OTHER -> event
        BY Zenon DEF broadcastToLocalRoom, Hearers
      <4> HIDE DEF k, joined, left, event
      <4> QED BY <4>1, <4>2
    <3>2. Received(h.got, to, msg)
             = [d \in Conns |->
                   IF d \in to THEN [h.got[d] EXCEPT ![msg.id] = @ + 1]
                               ELSE h.got[d]]
      BY <1>3 DEF Received
    <3>3. Received(h.got, to, msg) = f
      BY <3>2, Zenon
    <3> HIDE DEF f, k
    <3> QED BY <3>1, <3>3
  <2>2. Heard(h.view, to, msg) = h.view
    BY <1>3 DEF Heard
  <2> HIDE DEF k, to
  <2> QED BY <1>0, <2>1, <2>2 DEF IsHub, k, to
<1> QED BY <1>1, <1>2, <1>3

LEMMA BroadcastEffect ==
    ASSUME NEW h, HubTypes(h), NEW c, NEW m, NEW msg
    PROVE  LET k  == broadcast(h, c, m, msg)
               to == Hearers(h.members, Proc[c], m, c)
           IN  /\ IsHub(k)
               /\ k.members = h.members /\ k.current = h.current
               /\ k.wire = AppendToAll(h.wire, Packet(Proc[c], m, msg))
               /\ k.audience = h.audience
               /\ k.view = Heard(h.view, to, msg)
               /\ k.got = Received(h.got, to, msg)
<1> DEFINE g == broadcastToLocalRoom(h, Proc[c], m, msg, c)
           k == broadcast(h, c, m, msg)
           to == Hearers(h.members, Proc[c], m, c)
<1>1. /\ IsHub(g) /\ g.members = h.members /\ g.current = h.current
      /\ g.wire = h.wire /\ g.audience = h.audience
      /\ g.view = Heard(h.view, to, msg)
      /\ g.got = Received(h.got, to, msg)
  BY LocalEffect
<1>2. k = Publish(g, Proc[c], m, msg)
  BY DEF broadcast
<1> HIDE DEF g, k, to
<1>3. k = [g EXCEPT !.wire = AppendToAll(g.wire, Packet(Proc[c], m, msg))]
  BY <1>2 DEF Publish, AppendToAll, Packet
<1>4. /\ IsHub(k) /\ k.members = g.members /\ k.current = g.current
      /\ k.audience = g.audience /\ k.view = g.view /\ k.got = g.got
      /\ k.wire = AppendToAll(g.wire, Packet(Proc[c], m, msg))
  BY <1>1, <1>3 DEF IsHub
<1> QED BY <1>1, <1>4 DEF k, to

(* Types of what a broadcast leaves.                                       *)
LEMMA HeardTypes ==
    ASSUME NEW vw \in [Conns -> SUBSET Users], NEW to, NEW msg \in Notice,
           NEW g \in [Conns -> [Event -> Nat]]
    PROVE  /\ Heard(vw, to, msg) \in [Conns -> SUBSET Users]
           /\ Received(g, to, msg) \in [Conns -> [Event -> Nat]]
<1>1. CASE \E u \in Users : msg = Joined(u) \/ msg = Left(u)
  BY <1>1, NoticeKinds DEF Heard, Received
<1>2. CASE \E e \in Event : msg = Relay(e)
  BY <1>2, NoticeKinds DEF Heard, Received
<1> QED BY <1>1, <1>2, NoticeKinds

LEMMA WireTypes ==
    ASSUME NEW wir \in [Procs -> Seq(Envelope)], NEW env \in Envelope
    PROVE  /\ AppendToAll(wir, env) \in [Procs -> Seq(Envelope)]
           /\ \A p \in Procs :
                 /\ Len(wir[p]) \in Nat
                 /\ Len(AppendToAll(wir, env)[p]) = Len(wir[p]) + 1
                 /\ AppendToAll(wir, env)[p][Len(wir[p]) + 1] = env
                 /\ \A i \in 1 .. Len(wir[p]) :
                       AppendToAll(wir, env)[p][i] = wir[p][i]
  BY DEF AppendToAll

LEMMA PacketType ==
    ASSUME NEW p \in Procs \cup {"api"}, NEW m \in Models, NEW msg \in Notice
    PROVE  Packet(p, m, msg) \in Envelope
  BY DEF Packet, Envelope

LEMMA BroadcastTypes ==
    ASSUME NEW h, HubTypes(h), NEW c \in Conns, NEW m \in Models,
           NEW msg \in Notice
    PROVE  HubTypes(broadcast(h, c, m, msg))
<1>1. Packet(Proc[c], m, msg) \in Envelope
  BY PacketType, ConstantsOK
<1>2. AppendToAll(h.wire, Packet(Proc[c], m, msg)) \in [Procs -> Seq(Envelope)]
  BY <1>1, WireTypes DEF HubTypes
<1>3. \A to : /\ Heard(h.view, to, msg) \in [Conns -> SUBSET Users]
              /\ Received(h.got, to, msg) \in [Conns -> [Event -> Nat]]
  BY HeardTypes DEF HubTypes
<1> DEFINE k == broadcast(h, c, m, msg)
           to == Hearers(h.members, Proc[c], m, c)
<1>4. /\ IsHub(k)
      /\ k.members = h.members /\ k.current = h.current
      /\ k.wire = AppendToAll(h.wire, Packet(Proc[c], m, msg))
      /\ k.audience = h.audience
      /\ k.view = Heard(h.view, to, msg)
      /\ k.got = Received(h.got, to, msg)
  BY BroadcastEffect
<1> HIDE DEF k, to
<1>5. HubTypes(k)
  BY <1>2, <1>3, <1>4 DEF HubTypes
<1> QED BY <1>5 DEF k

(* What a leave does, when there is a room on this replica to leave.       *)
LeftHub(h, c, m) ==
    [h EXCEPT !.members[m] = @ \ {c},
              !.current[c] = IF @ = m THEN NoModel ELSE @,
              !.view[c] = IF c \in h.members[m] THEN {} ELSE @,
              !.audience = [e \in Event |->
                  IF c \in h.members[m] THEN @[e] \ {c} ELSE @[e]]]

LEMMA LeaveCases ==
    ASSUME NEW h, HubTypes(h), NEW c \in Conns, NEW m \in Models
    PROVE  LET g == LeftHub(h, c, m) IN
           /\ HubTypes(g)
           /\ g.members = [h.members EXCEPT ![m] = @ \ {c}]
           /\ g.current = [h.current EXCEPT ![c] = IF @ = m THEN NoModel ELSE @]
           /\ g.wire = h.wire /\ g.got = h.got
           /\ g.view = [h.view EXCEPT ![c] = IF c \in h.members[m] THEN {} ELSE @]
           /\ g.audience = [e \in Event |-> IF c \in h.members[m]
                                THEN h.audience[e] \ {c} ELSE h.audience[e]]
           /\ \/ leaveRoom(h, c, m) = h /\ c \notin h.members[m]
              \/ leaveRoom(h, c, m) = broadcast(g, c, m, Left(User[c]))
<1> DEFINE g == LeftHub(h, c, m)
<1>1. /\ IsHub(g)
      /\ g.members = [h.members EXCEPT ![m] = @ \ {c}]
      /\ g.current = [h.current EXCEPT ![c] = IF @ = m THEN NoModel ELSE @]
      /\ g.wire = h.wire /\ g.got = h.got
      /\ g.view = [h.view EXCEPT ![c] = IF c \in h.members[m] THEN {} ELSE @]
      /\ g.audience = [e \in Event |-> IF c \in h.members[m]
                           THEN h.audience[e] \ {c} ELSE h.audience[e]]
  BY DEF LeftHub, HubTypes, IsHub
<1>2. \/ leaveRoom(h, c, m) = h /\ c \notin h.members[m]
      \/ leaveRoom(h, c, m) = broadcast(g, c, m, Left(User[c]))
  BY DEF leaveRoom, LeftHub
<1> HIDE DEF g
<1>3. HubTypes(g)
  BY <1>1 DEF HubTypes
<1> QED BY <1>1, <1>2, <1>3 DEF g

EnteredHub(h, c, m) ==
    [h EXCEPT !.current[c] = m, !.members[m] = @ \cup {c}]

LEMMA EnterCase ==
    ASSUME NEW h, HubTypes(h), NEW c \in Conns, NEW m \in Models
    PROVE  LET g == EnteredHub(h, c, m) IN
           /\ HubTypes(g)
           /\ g.members = [h.members EXCEPT ![m] = @ \cup {c}]
           /\ g.current = [h.current EXCEPT ![c] = m]
           /\ g.wire = h.wire /\ g.got = h.got
           /\ g.view = h.view /\ g.audience = h.audience
           /\ EnterRoom(h, c, m) = broadcast(g, c, m, Joined(User[c]))
<1> DEFINE g == EnteredHub(h, c, m)
<1>1. /\ IsHub(g)
      /\ g.members = [h.members EXCEPT ![m] = @ \cup {c}]
      /\ g.current = [h.current EXCEPT ![c] = m]
      /\ g.wire = h.wire /\ g.got = h.got
      /\ g.view = h.view /\ g.audience = h.audience
  BY DEF EnteredHub, HubTypes, IsHub
<1>2. EnterRoom(h, c, m) = broadcast(g, c, m, Joined(User[c]))
  BY DEF EnterRoom, EnteredHub
<1> HIDE DEF g
<1>3. HubTypes(g)
  BY <1>1 DEF HubTypes
<1> QED BY <1>1, <1>2, <1>3 DEF g

LEMMA LeaveTypes ==
    ASSUME NEW h, HubTypes(h), NEW c \in Conns, NEW m \in Models
    PROVE  HubTypes(leaveRoom(h, c, m))
<1>1. User[c] \in Users
  BY ConstantsOK
<1>2. HubTypes(broadcast(LeftHub(h, c, m), c, m, Left(User[c])))
  BY <1>1, LeaveCases, NoticeKinds, BroadcastTypes
<1>3. leaveRoom(h, c, m) \in {h, broadcast(LeftHub(h, c, m), c, m, Left(User[c]))}
  BY DEF leaveRoom, LeftHub
<1> QED BY <1>2, <1>3

LEMMA EnterTypes ==
    ASSUME NEW h, HubTypes(h), NEW c \in Conns, NEW m \in Models
    PROVE  HubTypes(EnterRoom(h, c, m))
<1>1. User[c] \in Users
  BY ConstantsOK
<1>2. HubTypes(broadcast(EnteredHub(h, c, m), c, m, Joined(User[c])))
  BY <1>1, EnterCase, NoticeKinds, BroadcastTypes
<1>3. EnterRoom(h, c, m) = broadcast(EnteredHub(h, c, m), c, m, Joined(User[c]))
  BY DEF EnterRoom, EnteredHub
<1> QED BY <1>2, <1>3

(* A join is a leave, if need be, and an entry from no room.               *)
LEMMA JoinCases ==
    ASSUME NEW h, HubTypes(h), Consistent(h), NEW c \in Conns, NEW m \in Models
    PROVE  \/ joinRoom(h, c, m) = h
           \/ h.current[c] = NoModel /\ joinRoom(h, c, m) = EnterRoom(h, c, m)
           \/ \E n \in Models :
                 LET g == leaveRoom(h, c, n) IN
                 /\ HubTypes(g) /\ Consistent(g) /\ g.current[c] = NoModel
                 /\ joinRoom(h, c, m) = EnterRoom(g, c, m)
<1>1. CASE h.current[c] = m
  BY <1>1 DEF joinRoom
<1>2. CASE h.current[c] # m /\ h.current[c] = NoModel
  BY <1>2 DEF joinRoom
<1>3. CASE h.current[c] # m /\ h.current[c] # NoModel
  <2> DEFINE n == h.current[c]
             g == leaveRoom(h, c, n)
  <2>1. n \in Models
    BY <1>3 DEF HubTypes
  <2>2. joinRoom(h, c, m) = EnterRoom(g, c, m)
    BY <1>3 DEF joinRoom
  <2>3. HubTypes(g)
    BY <2>1, LeaveTypes
  <2>4. Consistent(g) /\ g.current[c] = NoModel
    BY <2>1, LeaveConsistent
  <2> HIDE DEF g, n
  <2> QED BY <2>1, <2>2, <2>3, <2>4 DEF g
<1> QED BY <1>1, <1>2, <1>3

LEMMA JoinTypes ==
    ASSUME NEW h, HubTypes(h), Consistent(h), NEW c \in Conns, NEW m \in Models
    PROVE  HubTypes(joinRoom(h, c, m))
<1>1. ASSUME NEW n \in Models, HubTypes(leaveRoom(h, c, n)),
             joinRoom(h, c, m) = EnterRoom(leaveRoom(h, c, n), c, m)
      PROVE  HubTypes(joinRoom(h, c, m))
  <2> DEFINE g == leaveRoom(h, c, n)
  <2>1. HubTypes(g) /\ joinRoom(h, c, m) = EnterRoom(g, c, m)
    BY <1>1
  <2> HIDE DEF g
  <2> QED BY <2>1, EnterTypes
<1> QED BY <1>1, JoinCases, EnterTypes

-----------------------------------------------------------------------------
(* The steps of the rooms.                                                 *)
SocksClose == \A d \in Conns : sock'[d] = "open" => sock[d] = "open"

Leaves(c, m) == /\ SetAndPublish(leaveRoom(Hub, c, m))
                /\ events' = events /\ SocksClose
Enters(c, m) == /\ <<User[c], m>> \in Access /\ sock[c] = "open"
                /\ SetAndPublish(joinRoom(Hub, c, m))
                /\ events' = events /\ SocksClose
RoomsStay    == UNCHANGED <<roomVars, events>>

RoomStep ==
    \/ RoomsStay
    \/ \E c \in Conns, m \in Models : Leaves(c, m) \/ Enters(c, m)
    \/ \E c \in Conns : relay(c) /\ SocksClose
    \/ \E m \in Models : publish_room_event(m)
    \/ \E p \in Procs : pmessage(p)

LEMMA HubStays == SetAndPublish(Hub) => UNCHANGED roomVars
<1> SUFFICES ASSUME NEW w \in Published(Hub), SetHub([Hub EXCEPT !.wire = w])
             PROVE  UNCHANGED roomVars
  BY DEF SetAndPublish
<1>1. w = wire
  BY DEF Published, Hub
<1> QED BY <1>1 DEF SetHub, Hub, roomVars

LEMMA RequestRooms ==
    ASSUME NEW c \in Conns, NEW m \in Models, requestJoinRoom(c, m),
           UNCHANGED <<sock, events>>
    PROVE  RoomStep
<1>1. PICK authorized \in authorizeModelAccess(c, m) :
         SetAndPublish(IF authorized /\ sock[c] = "open" THEN joinRoom(Hub, c, m)
                                                        ELSE Hub)
  BY DEF requestJoinRoom
<1>2. authorized => <<User[c], m>> \in Access
  BY DEF authorizeModelAccess
<1>3. CASE authorized /\ sock[c] = "open"
  BY <1>1, <1>2, <1>3 DEF RoomStep, Enters, SocksClose
<1>4. CASE ~(authorized /\ sock[c] = "open")
  BY <1>1, <1>4, HubStays DEF RoomStep, RoomsStay
<1> QED BY <1>3, <1>4

LEMMA CleanupRooms ==
    ASSUME Consistent(Hub), NEW c \in Conns, cleanup(c), SocksClose,
           events' = events
    PROVE  RoomStep
<1>1. CASE current[c] = NoModel
  BY <1>1, HubStays DEF cleanup, RoomStep, RoomsStay
<1>2. CASE current[c] # NoModel
  <2>1. current[c] \in Models
    BY <1>2 DEF Consistent, Hub
  <2> QED BY <1>2, <2>1 DEF cleanup, RoomStep, Leaves
<1> QED BY <1>1, <1>2

LEMMA MessageRooms ==
    ASSUME NEW c \in Conns, NEW msg \in Message, processMessage(c, msg),
           UNCHANGED sock
    PROVE  RoomStep
<1>1. CASE msg.event \in {"JOIN_MODEL", "PONG"}
  BY <1>1 DEF processMessage, RoomStep, RoomsStay
<1>2. CASE msg.event = "LEAVE_MODEL"
  <2>1. msg.model \in Models
    BY <1>2 DEF Message
  <2> QED BY <1>2, <2>1 DEF processMessage, RoomStep, Leaves, SocksClose
<1>3. CASE msg.event = "ROOM_EVENT"
  BY <1>3 DEF processMessage, RoomStep, SocksClose
<1> QED BY <1>1, <1>2, <1>3 DEF Message

LEMMA HeadOfQueue ==
    ASSUME QueueInv, NEW c \in Conns, loop[Proc[c]] = c
    PROVE  Head(pending[c]) \in Message
<1>1. Proc[c] \in Procs /\ pending[c] \in Seq(Message) /\ pending[c] # <<>>
  BY ConstantsOK DEF QueueInv
<1> QED BY <1>1

(* Every step is one of them; a socket opens only while the rooms stay.    *)
LEMMA NextRooms ==
    ASSUME QueueInv, Consistent(Hub), sock \in [Conns -> Sock], [Next]_vars
    PROVE  RoomStep /\ (SocksClose \/ \E c \in Conns : connect(c))
<1>1. CASE UNCHANGED vars
  BY <1>1 DEF vars, connVars, RoomStep, RoomsStay, SocksClose
<1>2. ASSUME NEW c \in Conns, connect(c)
      PROVE  RoomStep /\ (SocksClose \/ \E d \in Conns : connect(d))
  BY <1>2 DEF connect, RoomStep, RoomsStay
<1>3. ASSUME NEW c \in Conns, closing(c) \/ subscribed_ok(c) \/ subscribe_fails(c)
      PROVE  RoomStep /\ SocksClose
  BY <1>3 DEF closing, subscribed_ok, subscribe_fails, RoomStep, RoomsStay,
     SocksClose
<1>4. ASSUME NEW c \in Conns, NEW msg \in Message, on_message(c, msg)
      PROVE  RoomStep /\ SocksClose
  BY <1>4, MessageRooms DEF on_message, SocksClose, RoomStep, RoomsStay
<1>5. ASSUME NEW c \in Conns, drain(c)  PROVE RoomStep /\ SocksClose
  BY <1>5, HeadOfQueue, MessageRooms DEF drain, SocksClose
<1>6. ASSUME NEW c \in Conns, initial_join(c)  PROVE RoomStep /\ SocksClose
  <2>1. initial[c] \in Models
    BY <1>6 DEF initial_join, QueueInv
  <2> QED BY <1>6, <2>1, RequestRooms DEF initial_join, SocksClose
<1>7. ASSUME NEW c \in Conns, NEW m \in Models, join_answered(c, m)
      PROVE  RoomStep /\ SocksClose
  BY <1>7, RequestRooms DEF join_answered, SocksClose
<1>8. ASSUME NEW c \in Conns,
             on_close(c) \/ on_error(c) \/ heartbeat(c) \/ pong_timeout(c)
      PROVE  RoomStep /\ SocksClose
  <2>1. SocksClose /\ events' = events
    BY <1>8 DEF on_close, on_error, heartbeat, pong_timeout, SocksClose
  <2>2. cleanup(c) \/ UNCHANGED roomVars
    BY <1>8 DEF on_close, NoCleanup, on_error, heartbeat, pong_timeout
  <2> QED BY <2>1, <2>2, CleanupRooms DEF RoomStep, RoomsStay
<1>9. ASSUME \/ \E p \in Procs : pmessage(p)
             \/ \E m \in Models : publish_room_event(m)
      PROVE  RoomStep /\ SocksClose
  BY <1>9 DEF pmessage, publish_room_event, connVars, RoomStep, SocksClose
<1> QED
  BY <1>1, <1>2, <1>3, <1>4, <1>5, <1>6, <1>7, <1>8, <1>9
  DEF Next, Client, Handler

-----------------------------------------------------------------------------
(* Types.                                                                  *)
LEMMA SetTypes ==
    ASSUME NEW h, HubTypes(h), SetHub(h)  PROVE HubTypes(Hub)'
<1>1. /\ current' = h.current /\ members' = h.members /\ wire' = h.wire
      /\ view' = h.view /\ got' = h.got /\ audience' = h.audience
  BY DEF SetHub
<1> QED BY <1>1 DEF HubTypes, IsHub, Hub

LEMMA PublishTypes ==
    ASSUME HubTypes(Hub), NEW h, HubTypes(h), SetAndPublish(h)
    PROVE  HubTypes(Hub)'
<1>1. PICK w \in Published(h) : SetHub([h EXCEPT !.wire = w])
  BY DEF SetAndPublish
<1> DEFINE k == [h EXCEPT !.wire = w]
<1>2. w \in [Procs -> Seq(Envelope)]
  BY DEF Published, HubTypes, Hub
<1>3. HubTypes(k)
  BY <1>2 DEF HubTypes, IsHub
<1> HIDE DEF k
<1> QED BY <1>1, <1>3, SetTypes DEF k

(* The fields after an event is relayed or published.                      *)
EventHub(h, w, e, a) == [h EXCEPT !.wire = w, !.audience[e] = a]

LEMMA EventFields ==
    ASSUME NEW h, HubTypes(h), NEW w, NEW e \in Event, NEW a,
           SetHub(EventHub(h, w, e, a))
    PROVE  /\ current' = h.current /\ members' = h.members /\ wire' = w
           /\ view' = h.view /\ got' = h.got
           /\ audience' = [h.audience EXCEPT ![e] = a]
<1> DEFINE k == EventHub(h, w, e, a)
<1>1. /\ k.current = h.current /\ k.members = h.members /\ k.wire = w
      /\ k.view = h.view /\ k.got = h.got
      /\ k.audience = [h.audience EXCEPT ![e] = a]
  BY DEF HubTypes, IsHub, EventHub
<1>2. SetHub(k)
  OBVIOUS
<1> HIDE DEF k
<1> QED BY <1>1, <1>2 DEF SetHub

LEMMA RelayFields ==
    ASSUME HubTypes(Hub), events \in 0 .. MaxEvents, NEW c \in Conns, relay(c)
    PROVE  \/ RoomsStay
           \/ \E m \in Models, e \in Event :
              \E w \in {wire, AppendToAll(wire, Packet(Proc[c], m, Relay(e)))} :
                 /\ m = current[c] /\ e = events + 1 /\ events' = e
                 /\ w = wire => "redis" \in Enabled
                 /\ UNCHANGED <<current, members, view>> /\ wire' = w
                 /\ got' = Received(got, Hearers(members, Proc[c], m, c), Relay(e))
                 /\ audience' = [audience EXCEPT ![e] =
                       {d \in members[m] \ {c} :
                          sock[d] = "open" /\ (w = wire => Proc[d] = Proc[c])}]
<1> SUFFICES ASSUME ~RoomsStay
             PROVE  \E m \in Models, e \in Event :
              \E w \in {wire, AppendToAll(wire, Packet(Proc[c], m, Relay(e)))} :
                 /\ m = current[c] /\ e = events + 1 /\ events' = e
                 /\ w = wire => "redis" \in Enabled
                 /\ UNCHANGED <<current, members, view>> /\ wire' = w
                 /\ got' = Received(got, Hearers(members, Proc[c], m, c), Relay(e))
                 /\ audience' = [audience EXCEPT ![e] =
                       {d \in members[m] \ {c} :
                          sock[d] = "open" /\ (w = wire => Proc[d] = Proc[c])}]
  OBVIOUS
<1> DEFINE m == current[c]
           e == events + 1
           h == broadcast(Hub, c, m, Relay(e))
           a(w) == {d \in members[m] \ {c} :
                      sock[d] = "open" /\ (w = wire => Proc[d] = Proc[c])}
<1>1. /\ current[c] # NoModel /\ events < MaxEvents /\ events' = e
      /\ \E w \in Published(h) :
            SetHub([h EXCEPT !.wire = w, !.audience[e] = a(w)])
  BY DEF relay, RoomsStay
<1>2. m \in Models /\ e \in Event
  BY <1>1, ConstantsOK DEF HubTypes, Hub, Event
<1> DEFINE to == Hearers(members, Proc[c], m, c)
           full == AppendToAll(wire, Packet(Proc[c], m, Relay(e)))
<1>3. /\ h.members = members /\ h.current = current /\ h.wire = full
      /\ h.audience = audience /\ h.view = view
      /\ h.got = Received(got, to, Relay(e))
  <2>1. /\ h.members = Hub.members /\ h.current = Hub.current
        /\ h.wire = AppendToAll(Hub.wire, Packet(Proc[c], m, Relay(e)))
        /\ h.audience = Hub.audience
        /\ h.view = Heard(Hub.view, Hearers(Hub.members, Proc[c], m, c), Relay(e))
        /\ h.got = Received(Hub.got, Hearers(Hub.members, Proc[c], m, c), Relay(e))
    BY BroadcastEffect
  <2>2. Heard(view, to, Relay(e)) = view
    BY <1>2, NoticeKinds DEF Heard
  <2> HIDE DEF h
  <2> QED BY <2>1, <2>2 DEF Hub
<1>4. HubTypes(h)
  BY <1>2, NoticeKinds, BroadcastTypes
<1>5. PICK w \in Published(h) :
         SetHub([h EXCEPT !.wire = w, !.audience[e] = a(w)])
  BY <1>1
<1> HIDE DEF h, a
<1>6. /\ current' = h.current /\ members' = h.members /\ wire' = w
      /\ view' = h.view /\ got' = h.got
      /\ audience' = [h.audience EXCEPT ![e] = a(w)]
  <2> HIDE DEF e
  <2>1. SetHub(EventHub(h, w, e, a(w)))
    BY <1>5 DEF EventHub
  <2> QED BY <2>1, <1>2, <1>4, <1>5, EventFields
<1>7. w \in {wire, full} /\ (w = wire => "redis" \in Enabled)
  <2>1. w = full \/ (w = wire /\ "redis" \in Enabled)
    BY <1>3, <1>5 DEF Published
  <2>2. full # wire
    <3>1. Proc[c] \in Procs /\ Packet(Proc[c], m, Relay(e)) \in Envelope
      BY <1>2, ConstantsOK, PacketType, NoticeKinds
    <3>2. wire \in [Procs -> Seq(Envelope)]
      BY DEF HubTypes, Hub
    <3>3. /\ Len(full[Proc[c]]) = Len(wire[Proc[c]]) + 1
          /\ Len(wire[Proc[c]]) \in Nat
      BY <3>1, <3>2, WireTypes
    <3> HIDE DEF full
    <3> QED BY <3>3
  <2> QED BY <2>1, <2>2
<1>8. audience' = [audience EXCEPT ![e] = {d \in members[m] \ {c} :
                       sock[d] = "open" /\ (w = wire => Proc[d] = Proc[c])}]
  BY <1>3, <1>6 DEF a
<1>9. /\ m = current[c] /\ e = events + 1 /\ events' = e
      /\ w = wire => "redis" \in Enabled
      /\ UNCHANGED <<current, members, view>> /\ wire' = w
      /\ got' = Received(got, to, Relay(e))
  BY <1>1, <1>3, <1>6, <1>7
<1> HIDE DEF m, e
<1>10. \E v \in {wire, full} : v = w
  BY <1>7
<1> QED BY <1>2, <1>8, <1>9, <1>10

LEMMA PublishFields ==
    ASSUME HubTypes(Hub), events \in 0 .. MaxEvents, NEW m \in Models,
           publish_room_event(m)
    PROVE  \E e \in Event :
           \E w \in {wire, AppendToAll(wire, Packet("api", m, Relay(e)))} :
              /\ e = events + 1 /\ events' = e
              /\ UNCHANGED <<current, members, view, got>> /\ wire' = w
              /\ audience' = [audience EXCEPT ![e] =
                    {d \in members[m] : sock[d] = "open" /\ w # wire}]
<1> DEFINE e == events + 1
           full == AppendToAll(wire, Packet("api", m, Relay(e)))
           h == Publish(Hub, "api", m, Relay(e))
           a(w) == {d \in members[m] : sock[d] = "open" /\ w # wire}
<1>1. /\ events' = e /\ e \in Event
      /\ \E w \in Published(h) :
            SetHub([h EXCEPT !.wire = w, !.audience[e] = a(w)])
  <2>1. e \in Event
    BY ConstantsOK DEF publish_room_event, Event
  <2>2. /\ events' = e
        /\ \E w \in Published(h) :
              SetHub([h EXCEPT !.wire = w, !.audience[e] = a(w)])
    BY DEF publish_room_event
  <2> QED BY <2>1, <2>2
<1>2. h = [Hub EXCEPT !.wire = full]
  BY DEF Publish, AppendToAll, Packet, Hub
<1>3. full \in [Procs -> Seq(Envelope)]
  BY <1>1, PacketType, NoticeKinds, WireTypes DEF HubTypes, Hub
<1> HIDE DEF h, full
<1>4. /\ HubTypes(h) /\ h.wire = full
      /\ h.members = members /\ h.current = current
      /\ h.audience = audience /\ h.view = view /\ h.got = got
  BY <1>2, <1>3 DEF HubTypes, IsHub, Hub
<1>5. PICK w \in Published(h) :
         SetHub([h EXCEPT !.wire = w, !.audience[e] = a(w)])
  BY <1>1
<1> HIDE DEF a
<1>6. /\ current' = h.current /\ members' = h.members /\ wire' = w
      /\ view' = h.view /\ got' = h.got
      /\ audience' = [h.audience EXCEPT ![e] = a(w)]
  <2> HIDE DEF e
  <2>1. SetHub(EventHub(h, w, e, a(w)))
    BY <1>5 DEF EventHub
  <2>2. e \in Event /\ HubTypes(h)
    BY <1>1, <1>4
  <2> QED BY <2>1, <2>2, EventFields
<1>7. w \in {wire, full}
  BY <1>4, <1>5 DEF Published
<1> QED BY <1>1, <1>4, <1>6, <1>7 DEF a, full

(* A replica handles the first message: another's for its clients in the   *)
(* room, its own not again.                                                *)
LEMMA PmessageFields ==
    ASSUME HubTypes(Hub), NEW p \in Procs, pmessage(p)
    PROVE  LET env == Head(wire[p])
               to  == Hearers(members, p, env.model, NoConn)
           IN  /\ wire[p] # <<>> /\ env \in Envelope
               /\ wire' = [wire EXCEPT ![p] = Tail(@)]
               /\ wire' \in [Procs -> Seq(Envelope)]
               /\ UNCHANGED <<current, members, audience, events, sock>>
               /\ env.origin = p => UNCHANGED <<view, got>>
               /\ env.origin # p => /\ view' = Heard(view, to, env.message)
                                    /\ got' = Received(got, to, env.message)
<1> DEFINE env == Head(wire[p])
           to == Hearers(members, p, env.model, NoConn)
           wir == [wire EXCEPT ![p] = Tail(@)]
           h == [Hub EXCEPT !.wire[p] = Tail(@)]
           k == broadcastToLocalRoom(h, p, env.model, env.message, NoConn)
<1>1. /\ wire[p] # <<>> /\ SetHub(IF env.origin = p THEN h ELSE k)
      /\ UNCHANGED <<events, sock>>
  BY DEF pmessage, connVars
<1>2. wire \in [Procs -> Seq(Envelope)]
  BY DEF HubTypes, Hub
<1>3. env \in Envelope /\ Tail(wire[p]) \in Seq(Envelope)
  BY <1>1, <1>2
<1>4. wir \in [Procs -> Seq(Envelope)]
  BY <1>2, <1>3
<1> HIDE DEF env
<1>5. /\ HubTypes(h) /\ h.wire = wir
      /\ h.members = members /\ h.current = current
      /\ h.audience = audience /\ h.view = view /\ h.got = got
  BY <1>4 DEF HubTypes, IsHub, Hub
<1> HIDE DEF h
<1>6. /\ k.members = h.members /\ k.current = h.current
      /\ k.wire = h.wire /\ k.audience = h.audience
      /\ k.view = Heard(h.view, to, env.message)
      /\ k.got = Received(h.got, to, env.message)
  BY <1>5, LocalEffect
<1> HIDE DEF k, to
<1>7. CASE env.origin = p
  BY <1>1, <1>3, <1>4, <1>5, <1>7 DEF SetHub, env
<1>8. CASE env.origin # p
  BY <1>1, <1>3, <1>4, <1>5, <1>6, <1>8 DEF SetHub, env, to
<1> QED BY <1>7, <1>8 DEF to, env

-----------------------------------------------------------------------------
(* Types of the connections.                                               *)
RestTypes ==
    /\ sock \in [Conns -> Sock]
    /\ joins \in [Conns -> [Models -> Nat]]
    /\ registered \subseteq Conns /\ subscribed \subseteq Conns
    /\ gauge \in Int
    /\ beat \in [Conns -> Beat]
    /\ sent \in 0 .. MaxSent
    /\ events \in 0 .. MaxEvents

Types == QueueInv /\ RestTypes /\ HubTypes(Hub)

LEMMA RoomStepTypes ==
    ASSUME HubTypes(Hub), Consistent(Hub), events \in 0 .. MaxEvents, RoomStep
    PROVE  HubTypes(Hub)' /\ events' \in 0 .. MaxEvents
<1>1. CASE RoomsStay
  BY <1>1 DEF RoomsStay, roomVars, HubTypes, IsHub, Hub
<1>2. ASSUME NEW c \in Conns, NEW m \in Models, Leaves(c, m)
      PROVE  HubTypes(Hub)' /\ events' \in 0 .. MaxEvents
  BY <1>2, LeaveTypes, PublishTypes DEF Leaves
<1>3. ASSUME NEW c \in Conns, NEW m \in Models, Enters(c, m)
      PROVE  HubTypes(Hub)' /\ events' \in 0 .. MaxEvents
  BY <1>3, JoinTypes, PublishTypes DEF Enters
<1>4. ASSUME NEW c \in Conns, relay(c), ~ RoomsStay
      PROVE  HubTypes(Hub)' /\ events' \in 0 .. MaxEvents
  <2>1. PICK m \in Models, e \in Event :
          \E w \in {wire, AppendToAll(wire, Packet(Proc[c], m, Relay(e)))} :
             /\ m = current[c] /\ e = events + 1 /\ events' = e
             /\ w = wire => "redis" \in Enabled
             /\ UNCHANGED <<current, members, view>> /\ wire' = w
             /\ got' = Received(got, Hearers(members, Proc[c], m, c), Relay(e))
             /\ audience' = [audience EXCEPT ![e] =
                   {d \in members[m] \ {c} :
                      sock[d] = "open" /\ (w = wire => Proc[d] = Proc[c])}]
    BY <1>4, RelayFields
  <2>2. wire' \in [Procs -> Seq(Envelope)]
    <3>1. Packet(Proc[c], m, Relay(e)) \in Envelope
      BY ConstantsOK, PacketType, NoticeKinds
    <3>2. wire' \in {wire, AppendToAll(wire, Packet(Proc[c], m, Relay(e)))}
      BY <2>1
    <3>3. wire \in [Procs -> Seq(Envelope)]
      BY DEF HubTypes, Hub
    <3> QED BY <3>1, <3>2, <3>3, WireTypes
  <2>3. got' \in [Conns -> [Event -> Nat]]
    <3>1. got \in [Conns -> [Event -> Nat]] /\ view \in [Conns -> SUBSET Users]
      BY DEF HubTypes, Hub
    <3>2. got' = Received(got, Hearers(members, Proc[c], m, c), Relay(e))
      BY <2>1
    <3> QED BY <3>1, <3>2, HeardTypes, NoticeKinds
  <2>4. audience' \in [Event -> SUBSET Conns]
    <3>1. PICK a \in SUBSET Conns : audience' = [audience EXCEPT ![e] = a]
      <4>1. \E w : audience' = [audience EXCEPT ![e] =
                   {d \in members[m] \ {c} :
                      sock[d] = "open" /\ (w = wire => Proc[d] = Proc[c])}]
        BY <2>1
      <4>2. members[m] \subseteq Conns
        BY DEF HubTypes, Hub
      <4> QED BY <4>1, <4>2
    <3> QED BY <3>1 DEF HubTypes, Hub
  <2>5. /\ UNCHANGED <<current, members, view>> /\ events' \in 0 .. MaxEvents
    <3>1. UNCHANGED <<current, members, view>> /\ events' = e
      BY <2>1
    <3> QED BY <3>1, ConstantsOK DEF Event
  <2> QED BY <2>2, <2>3, <2>4, <2>5 DEF HubTypes, IsHub, Hub
<1>5. ASSUME NEW m \in Models, publish_room_event(m)
      PROVE  HubTypes(Hub)' /\ events' \in 0 .. MaxEvents
  <2>1. PICK e \in Event :
          \E w \in {wire, AppendToAll(wire, Packet("api", m, Relay(e)))} :
             /\ e = events + 1 /\ events' = e
             /\ UNCHANGED <<current, members, view, got>> /\ wire' = w
             /\ audience' = [audience EXCEPT ![e] =
                   {d \in members[m] : sock[d] = "open" /\ w # wire}]
    BY <1>5, PublishFields
  <2>2. wire' \in [Procs -> Seq(Envelope)]
    <3>1. Packet("api", m, Relay(e)) \in Envelope
      BY PacketType, NoticeKinds
    <3> QED BY <2>1, <3>1, WireTypes DEF HubTypes, Hub
  <2>3. audience' \in [Event -> SUBSET Conns]
    <3>1. PICK a \in SUBSET Conns : audience' = [audience EXCEPT ![e] = a]
      <4>1. \E w : audience' = [audience EXCEPT ![e] =
                      {d \in members[m] : sock[d] = "open" /\ w # wire}]
        BY <2>1
      <4>2. members[m] \subseteq Conns
        BY DEF HubTypes, Hub
      <4> QED BY <4>1, <4>2
    <3> QED BY <3>1 DEF HubTypes, Hub
  <2>4. UNCHANGED <<current, members, view, got>> /\ events' \in 0 .. MaxEvents
    <3>1. UNCHANGED <<current, members, view, got>> /\ events' = e
      BY <2>1
    <3> QED BY <3>1, ConstantsOK DEF Event
  <2> QED BY <2>2, <2>3, <2>4 DEF HubTypes, IsHub, Hub
<1>6. ASSUME NEW p \in Procs, pmessage(p)
      PROVE  HubTypes(Hub)' /\ events' \in 0 .. MaxEvents
  <2> DEFINE env == Head(wire[p])
             to  == Hearers(members, p, env.model, NoConn)
  <2>1. /\ env \in Envelope
        /\ wire' \in [Procs -> Seq(Envelope)]
        /\ UNCHANGED <<current, members, audience, events>>
        /\ env.origin = p => UNCHANGED <<view, got>>
        /\ env.origin # p => /\ view' = Heard(view, to, env.message)
                             /\ got' = Received(got, to, env.message)
    BY <1>6, PmessageFields
  <2>2. view' \in [Conns -> SUBSET Users] /\ got' \in [Conns -> [Event -> Nat]]
    <3>1. view \in [Conns -> SUBSET Users] /\ got \in [Conns -> [Event -> Nat]]
      BY DEF HubTypes, Hub
    <3>2. env.message \in Notice
      BY <2>1 DEF Envelope
    <3> HIDE DEF env, to
    <3>3. /\ Heard(view, to, env.message) \in [Conns -> SUBSET Users]
          /\ Received(got, to, env.message) \in [Conns -> [Event -> Nat]]
      BY <3>1, <3>2, HeardTypes
    <3> QED BY <2>1, <3>1, <3>3
  <2> QED BY <2>1, <2>2 DEF HubTypes, IsHub, Hub
<1> QED BY <1>1, <1>2, <1>3, <1>4, <1>5, <1>6 DEF RoomStep

LEMMA MessageRest ==
    ASSUME RestTypes, NEW c \in Conns, NEW msg \in Message,
           processMessage(c, msg)
    PROVE  joins' \in [Conns -> [Models -> Nat]] /\ beat' \in [Conns -> Beat]
<1>1. CASE msg.event = "JOIN_MODEL"
  <2>1. msg.model \in Models
    BY <1>1 DEF Message
  <2> QED BY <1>1, <2>1 DEF processMessage, RestTypes
<1>2. CASE msg.event = "PONG"
  BY <1>2 DEF processMessage, RestTypes, Beat
<1>3. CASE msg.event \in {"LEAVE_MODEL", "ROOM_EVENT"}
  BY <1>3 DEF processMessage, RestTypes
<1> QED BY <1>1, <1>2, <1>3 DEF Message

LEMMA NextTypes ==
    ASSUME Types, Consistent(Hub), [Next]_vars
    PROVE  Types'
<1>0. MaxSent \in Nat /\ MaxEvents \in Nat
  BY ConstantsOK
<1>1. RoomStep
  BY NextRooms DEF Types, RestTypes
<1>2. QueueInv' /\ HubTypes(Hub)' /\ events' \in 0 .. MaxEvents
  BY <1>1, NextQueue, RoomStepTypes DEF Types, RestTypes
<1> SUFFICES /\ sock' \in [Conns -> Sock]
             /\ joins' \in [Conns -> [Models -> Nat]]
             /\ registered' \subseteq Conns /\ subscribed' \subseteq Conns
             /\ gauge' \in Int
             /\ beat' \in [Conns -> Beat]
             /\ sent' \in 0 .. MaxSent
  BY <1>2 DEF Types, RestTypes
<1>3. RestTypes
  BY DEF Types
<1>4. CASE UNCHANGED vars
  BY <1>3, <1>4 DEF vars, connVars, hubVars, RestTypes
<1>5. ASSUME NEW c \in Conns, \/ connect(c) \/ closing(c) \/ subscribed_ok(c)
                              \/ subscribe_fails(c)
      PROVE  /\ sock' \in [Conns -> Sock]
             /\ joins' \in [Conns -> [Models -> Nat]]
             /\ registered' \subseteq Conns /\ subscribed' \subseteq Conns
             /\ gauge' \in Int
             /\ beat' \in [Conns -> Beat]
             /\ sent' \in 0 .. MaxSent
  BY <1>3, <1>5 DEF RestTypes, connect, closing, subscribed_ok,
     subscribe_fails, BecomeReady, hubVars, Sock, Beat
<1>6. ASSUME NEW c \in Conns, NEW msg \in Message, on_message(c, msg)
      PROVE  /\ sock' \in [Conns -> Sock]
             /\ joins' \in [Conns -> [Models -> Nat]]
             /\ registered' \subseteq Conns /\ subscribed' \subseteq Conns
             /\ gauge' \in Int
             /\ beat' \in [Conns -> Beat]
             /\ sent' \in 0 .. MaxSent
  <2>1. joins' \in [Conns -> [Models -> Nat]] /\ beat' \in [Conns -> Beat]
    BY <1>3, <1>6, MessageRest DEF on_message, RestTypes
  <2> QED BY <1>0, <1>3, <1>6, <2>1 DEF on_message, RestTypes, hubVars
<1>7. ASSUME NEW c \in Conns, drain(c)
      PROVE  /\ sock' \in [Conns -> Sock]
             /\ joins' \in [Conns -> [Models -> Nat]]
             /\ registered' \subseteq Conns /\ subscribed' \subseteq Conns
             /\ gauge' \in Int
             /\ beat' \in [Conns -> Beat]
             /\ sent' \in 0 .. MaxSent
  <2>1. joins' \in [Conns -> [Models -> Nat]] /\ beat' \in [Conns -> Beat]
    BY <1>3, <1>7, HeadOfQueue, MessageRest DEF drain, Types
  <2> QED BY <1>3, <1>7, <2>1 DEF drain, RestTypes, hubVars
<1>8. ASSUME NEW c \in Conns, \/ initial_join(c)
                              \/ \E m \in Models : join_answered(c, m)
      PROVE  /\ sock' \in [Conns -> Sock]
             /\ joins' \in [Conns -> [Models -> Nat]]
             /\ registered' \subseteq Conns /\ subscribed' \subseteq Conns
             /\ gauge' \in Int
             /\ beat' \in [Conns -> Beat]
             /\ sent' \in 0 .. MaxSent
  <2>1. joins' \in [Conns -> [Models -> Nat]]
    <3>1. CASE joins' = joins
      BY <1>3, <3>1 DEF RestTypes
    <3>2. ASSUME NEW m \in Models, join_answered(c, m)
          PROVE  joins' \in [Conns -> [Models -> Nat]]
      <4>1. joins[c][m] - 1 \in Nat
        BY <1>3, <3>2 DEF RestTypes, join_answered
      <4> QED BY <1>3, <3>2, <4>1 DEF RestTypes, join_answered
    <3> QED BY <1>8, <3>1, <3>2 DEF initial_join
  <2> QED BY <1>3, <1>8, <2>1 DEF RestTypes, initial_join, join_answered,
          BecomeReady, hubVars, Beat
<1>9. ASSUME NEW c \in Conns,
             on_close(c) \/ on_error(c) \/ heartbeat(c) \/ pong_timeout(c)
      PROVE  /\ sock' \in [Conns -> Sock]
             /\ joins' \in [Conns -> [Models -> Nat]]
             /\ registered' \subseteq Conns /\ subscribed' \subseteq Conns
             /\ gauge' \in Int
             /\ beat' \in [Conns -> Beat]
             /\ sent' \in 0 .. MaxSent
  <2>1. /\ sock' \in [Conns -> Sock] /\ UNCHANGED <<joins, sent>>
        /\ \/ cleanup(c)
           \/ UNCHANGED hubVars /\ beat' \in [Conns -> Beat]
    BY <1>3, <1>9 DEF RestTypes, on_close, on_error, heartbeat, pong_timeout,
       NoCleanup, Sock, Beat
  <2>2. cleanup(c) => /\ beat' \in [Conns -> Beat] /\ gauge' \in Int
                      /\ registered' \subseteq Conns
                      /\ subscribed' \subseteq Conns
    BY <1>3 DEF RestTypes, cleanup, Beat
  <2> QED BY <1>3, <2>1, <2>2 DEF RestTypes, hubVars
<1>10. ASSUME \/ \E p \in Procs : pmessage(p)
              \/ \E m \in Models : publish_room_event(m)
      PROVE  /\ sock' \in [Conns -> Sock]
             /\ joins' \in [Conns -> [Models -> Nat]]
             /\ registered' \subseteq Conns /\ subscribed' \subseteq Conns
             /\ gauge' \in Int
             /\ beat' \in [Conns -> Beat]
             /\ sent' \in 0 .. MaxSent
  BY <1>3, <1>10 DEF RestTypes, pmessage, publish_room_event, connVars, hubVars
<1> QED
  BY <1>4, <1>5, <1>6, <1>7, <1>8, <1>9, <1>10
  DEF Next, Client, Handler

LEMMA InitTypes == Init => Types /\ Consistent(Hub)
<1> SUFFICES ASSUME Init  PROVE Types /\ Consistent(Hub)
  OBVIOUS
<1>1. QueueInv /\ Consistent(Hub)
  BY ConstantsOK DEF Init, QueueInv, Phase, Consistent, IsHub, Hub
<1>2. RestTypes
  BY ConstantsOK DEF Init, RestTypes, Sock, Beat
<1>3. HubTypes(Hub)
  BY DEF Init, HubTypes, IsHub, Hub
<1> QED BY <1>1, <1>2, <1>3 DEF Types

LEMMA AlwaysTypes == Spec => [](Types /\ Consistent(Hub))
<1>1. Types /\ Consistent(Hub) /\ [Next]_vars => Types' /\ Consistent(Hub)'
  BY NextTypes, NextConsistent DEF Types
<1> QED BY <1>1, InitTypes, PTL DEF Spec

(***************************************************************************)
(* The state of every connection and replica stays within its types.       *)
(***************************************************************************)
THEOREM StateIsTyped == Spec => []TypeOK
<1>1. Types => TypeOK
  BY DEF Types, QueueInv, RestTypes, HubTypes, Hub, TypeOK
<1> QED BY <1>1, AlwaysTypes, PTL

-----------------------------------------------------------------------------
(* From a connection's subscription to its cleanup.                        *)
Early == {"none", "subscribing", "refused"}
Life(c) ==
    /\ sock[c] = "none" => phase[c] = "none"
    /\ phase[c] \in Early => /\ current[c] = NoModel /\ c \notin registered
                             /\ \A m \in Models : joins[c][m] = 0
    /\ sock[c] = "open" /\ phase[c] \notin Early => c \in subscribed
    /\ current[c] # NoModel \/ c \in registered => c \in subscribed
    /\ \A p \in Procs : loop[p] = c => phase[c] = "ready"
LifeInv == \A c \in Conns : Life(c)

(* Handlers of a connection change currentModelId of this connection only. *)
MovesOnly(h, k, c) ==
    \A d \in Conns : d # c => k.current[d] = h.current[d]

LEMMA LeaveMoves ==
    ASSUME NEW h, HubTypes(h), NEW c \in Conns, NEW m \in Models
    PROVE  LET k == leaveRoom(h, c, m)
           IN /\ HubTypes(k) /\ MovesOnly(h, k, c)
              /\ k.current[c] \in {h.current[c], NoModel}
<1> DEFINE g == LeftHub(h, c, m)
           k == leaveRoom(h, c, m)
<1>1. HubTypes(g) /\ g.current = [h.current EXCEPT ![c] = IF @ = m THEN NoModel ELSE @]
      /\ (k = h \/ k = broadcast(g, c, m, Left(User[c])))
  <2>1. HubTypes(g)
    BY LeaveCases
  <2>2. g.current = [h.current EXCEPT ![c] = IF @ = m THEN NoModel ELSE @]
    BY DEF LeftHub, HubTypes, IsHub
  <2>3. k = h \/ k = broadcast(g, c, m, Left(User[c]))
    BY DEF leaveRoom, LeftHub
  <2> QED BY <2>1, <2>2, <2>3
<1> HIDE DEF g
<1>2. broadcast(g, c, m, Left(User[c])).current = g.current
  BY <1>1, BroadcastEffect
<1>3. HubTypes(k)
  BY LeaveTypes
<1>4. k.current = h.current \/ k.current = g.current
  BY <1>1, <1>2
<1> HIDE DEF k
<1>5. MovesOnly(h, k, c) /\ k.current[c] \in {h.current[c], NoModel}
  BY <1>1, <1>4 DEF HubTypes, MovesOnly
<1> QED BY <1>3, <1>5 DEF k

LEMMA EnterMoves ==
    ASSUME NEW h, HubTypes(h), NEW c \in Conns, NEW m \in Models
    PROVE  LET k == EnterRoom(h, c, m)
           IN HubTypes(k) /\ MovesOnly(h, k, c)
<1> DEFINE g == EnteredHub(h, c, m)
           k == EnterRoom(h, c, m)
<1>1. HubTypes(g) /\ g.current = [h.current EXCEPT ![c] = m]
      /\ k = broadcast(g, c, m, Joined(User[c]))
  <2>1. HubTypes(g)
    BY EnterCase
  <2>2. g.current = [h.current EXCEPT ![c] = m]
    BY DEF EnteredHub, HubTypes, IsHub
  <2>3. k = broadcast(g, c, m, Joined(User[c]))
    BY DEF EnterRoom, EnteredHub
  <2> QED BY <2>1, <2>2, <2>3
<1> HIDE DEF g
<1>2. broadcast(g, c, m, Joined(User[c])).current = g.current
  BY <1>1, BroadcastEffect
<1>3. HubTypes(k)
  BY EnterTypes
<1>4. k.current = g.current
  BY <1>1, <1>2
<1> HIDE DEF k
<1> QED BY <1>1, <1>3, <1>4 DEF HubTypes, MovesOnly, k

LEMMA JoinMoves ==
    ASSUME NEW h, HubTypes(h), Consistent(h), NEW c \in Conns, NEW m \in Models
    PROVE  LET k == joinRoom(h, c, m)
           IN HubTypes(k) /\ MovesOnly(h, k, c)
<1>1. HubTypes(joinRoom(h, c, m))
  BY JoinTypes
<1>2. MovesOnly(h, h, c)
  BY DEF MovesOnly
<1>3. ASSUME NEW n \in Models,
             joinRoom(h, c, m) = EnterRoom(leaveRoom(h, c, n), c, m)
      PROVE  MovesOnly(h, joinRoom(h, c, m), c)
  <2> DEFINE g == leaveRoom(h, c, n)
  <2>1. HubTypes(g) /\ MovesOnly(h, g, c)
    BY LeaveMoves
  <2>2. joinRoom(h, c, m) = EnterRoom(g, c, m)
    BY <1>3
  <2> HIDE DEF g
  <2>3. MovesOnly(g, EnterRoom(g, c, m), c)
    BY <2>1, EnterMoves
  <2> QED BY <2>1, <2>2, <2>3 DEF MovesOnly
<1>4. MovesOnly(h, EnterRoom(h, c, m), c)
  BY EnterMoves
<1>5. \/ joinRoom(h, c, m) = h
      \/ joinRoom(h, c, m) = EnterRoom(h, c, m)
      \/ \E n \in Models : joinRoom(h, c, m) = EnterRoom(leaveRoom(h, c, n), c, m)
  BY JoinCases
<1> QED BY <1>1, <1>2, <1>3, <1>4, <1>5

CurrentStays(c) == \A d \in Conns : d # c => current'[d] = current[d]

LEMMA PublishMoves ==
    ASSUME NEW h, HubTypes(h), SetAndPublish(h), NEW c, MovesOnly(Hub, h, c)
    PROVE  current' = h.current /\ CurrentStays(c)
<1>1. current' = h.current
  BY DEF SetAndPublish, SetHub, HubTypes, IsHub
<1> QED BY <1>1 DEF MovesOnly, CurrentStays, Hub

LEMMA RequestMoves ==
    ASSUME Types, Consistent(Hub), NEW c \in Conns, NEW m \in Models,
           requestJoinRoom(c, m)
    PROVE  CurrentStays(c) /\ (sock[c] # "open" => current' = current)
<1>1. SetAndPublish(Hub) => current' = current
  BY HubStays DEF roomVars
<1>2. SetAndPublish(joinRoom(Hub, c, m)) => CurrentStays(c)
  BY JoinMoves, PublishMoves DEF Types
<1>3. current' = current => CurrentStays(c)
  BY DEF CurrentStays
<1>4. \/ SetAndPublish(Hub)
      \/ SetAndPublish(joinRoom(Hub, c, m)) /\ sock[c] = "open"
  BY DEF requestJoinRoom
<1> QED BY <1>1, <1>2, <1>3, <1>4

LEMMA CleanupMoves ==
    ASSUME Types, Consistent(Hub), NEW c \in Conns, cleanup(c)
    PROVE  CurrentStays(c) /\ current'[c] = NoModel
<1>1. CASE current[c] = NoModel
  <2>1. current' = current
    BY <1>1, HubStays DEF cleanup, roomVars
  <2> QED BY <1>1, <2>1 DEF CurrentStays
<1>2. CASE current[c] # NoModel
  <2> DEFINE m == current[c]
             k == leaveRoom(Hub, c, m)
  <2>1. m \in Models /\ SetAndPublish(k)
    BY <1>2 DEF Consistent, Hub, cleanup
  <2>2. Hub.current[c] = m
    BY DEF Hub
  <2> HIDE DEF m
  <2>3. HubTypes(k) /\ MovesOnly(Hub, k, c) /\ k.current[c] = NoModel
    BY <2>1, <2>2, LeaveMoves, LeaveConsistent DEF Types
  <2> HIDE DEF k
  <2> QED BY <2>1, <2>3, PublishMoves
<1> QED BY <1>1, <1>2

LEMMA MessageMoves ==
    ASSUME Types, Consistent(Hub), NEW c \in Conns, NEW msg \in Message,
           processMessage(c, msg)
    PROVE  /\ CurrentStays(c) /\ current'[c] \in {current[c], NoModel}
           /\ \A d \in Conns : d # c => joins'[d] = joins[d]
<1>1. CASE msg.event = "JOIN_MODEL"
  BY <1>1 DEF processMessage, roomVars, CurrentStays, Types, RestTypes
<1>2. CASE msg.event = "LEAVE_MODEL"
  <2> DEFINE k == leaveRoom(Hub, c, msg.model)
  <2>1. msg.model \in Models /\ SetAndPublish(k) /\ joins' = joins
    BY <1>2 DEF Message, processMessage
  <2>2. HubTypes(k) /\ MovesOnly(Hub, k, c)
        /\ k.current[c] \in {Hub.current[c], NoModel}
    BY <2>1, LeaveMoves DEF Types
  <2> HIDE DEF k
  <2>3. current' = k.current /\ CurrentStays(c)
    BY <2>1, <2>2, PublishMoves
  <2> QED BY <2>1, <2>2, <2>3 DEF Hub
<1>3. CASE msg.event = "ROOM_EVENT"
  <2>1. relay(c) /\ joins' = joins
    BY <1>3 DEF processMessage
  <2>2. current' = current
    <3>1. CASE RoomsStay
      BY <3>1 DEF RoomsStay, roomVars
    <3>2. CASE ~RoomsStay
      BY <2>1, <3>2, RelayFields DEF Types, RestTypes
    <3> QED BY <3>1, <3>2
  <2> QED BY <2>1, <2>2 DEF CurrentStays
<1>4. CASE msg.event = "PONG"
  BY <1>4 DEF processMessage, roomVars, CurrentStays
<1> QED BY <1>1, <1>2, <1>3, <1>4 DEF Message

LEMMA LifeOfOthers ==
    ASSUME LifeInv, NEW c \in Conns, CurrentStays(c),
           \A d \in Conns : d # c =>
               /\ sock'[d] = sock[d] /\ phase'[d] = phase[d]
               /\ joins'[d] = joins[d]
               /\ d \in registered' <=> d \in registered
               /\ d \in subscribed' <=> d \in subscribed
               /\ \A p \in Procs : loop'[p] = d => loop[p] = d,
           Life(c)'
    PROVE  LifeInv'
<1>1. ASSUME NEW d \in Conns, d # c  PROVE Life(d)'
  BY <1>1 DEF LifeInv, Life, CurrentStays
<1> QED BY <1>1 DEF LifeInv

LEMMA NextLife ==
    ASSUME Types, Consistent(Hub), LifeInv, [Next]_vars
    PROVE  LifeInv'
<1>0. /\ sock \in [Conns -> Sock] /\ phase \in [Conns -> Phase]
      /\ joins \in [Conns -> [Models -> Nat]]
      /\ loop \in [Procs -> Conns \cup {NoConn}]
      /\ \A c \in Conns : Proc[c] \in Procs /\ c # NoConn
  BY ConstantsOK DEF Types, QueueInv, RestTypes
<1>1. CASE UNCHANGED vars
  BY <1>1 DEF vars, connVars, hubVars, roomVars, LifeInv, Life
<1>2. ASSUME NEW c \in Conns, connect(c)  PROVE LifeInv'
  <2>1. Life(c)'
    BY <1>0, <1>2 DEF connect, LifeInv, Life, hubVars, roomVars, Early
  <2> QED BY <1>0, <1>2, <2>1, LifeOfOthers
          DEF connect, hubVars, roomVars, CurrentStays
<1>3. ASSUME NEW c \in Conns, subscribed_ok(c)  PROVE LifeInv'
  <2>1. Life(c)'
    BY <1>0, <1>3
       DEF subscribed_ok, BecomeReady, LifeInv, Life, roomVars, Early, Free
  <2>2. \A d \in Conns, p \in Procs : d # c => (loop'[p] = d => loop[p] = d)
    BY <1>0, <1>3 DEF subscribed_ok, BecomeReady
  <2>3. \A d \in Conns : d # c => /\ sock'[d] = sock[d] /\ phase'[d] = phase[d]
                                  /\ joins'[d] = joins[d]
                                  /\ d \in registered' <=> d \in registered
                                  /\ d \in subscribed' <=> d \in subscribed
    BY <1>0, <1>3 DEF subscribed_ok, BecomeReady
  <2>4. CurrentStays(c)
    BY <1>3 DEF subscribed_ok, roomVars, CurrentStays
  <2> QED BY <2>1, <2>2, <2>3, <2>4, LifeOfOthers
<1>4. ASSUME NEW c \in Conns, subscribe_fails(c)  PROVE LifeInv'
  <2>1. Life(c)'
    BY <1>0, <1>4
       DEF subscribe_fails, LifeInv, Life, roomVars, hubVars, Early
  <2> QED BY <1>0, <1>4, <2>1, LifeOfOthers
          DEF subscribe_fails, roomVars, hubVars, CurrentStays
<1>5. ASSUME NEW c \in Conns, closing(c)  PROVE LifeInv'
  <2>1. Life(c)'
    BY <1>0, <1>5 DEF closing, LifeInv, Life, roomVars, hubVars
  <2> QED BY <1>0, <1>5, <2>1, LifeOfOthers
          DEF closing, roomVars, hubVars, CurrentStays
<1>6. ASSUME NEW c \in Conns, NEW msg \in Message, on_message(c, msg)
      PROVE  LifeInv'
  <2>1. UNCHANGED <<sock, phase, registered, subscribed, loop>>
    BY <1>6 DEF on_message, hubVars
  <2>2. CASE phase[c] = "ready"
    <3>1. /\ CurrentStays(c) /\ current'[c] \in {current[c], NoModel}
          /\ \A d \in Conns : d # c => joins'[d] = joins[d]
      BY <1>6, <2>2, MessageMoves DEF on_message
    <3>2. Life(c)'
      BY <2>1, <2>2, <3>1 DEF LifeInv, Life, Early
    <3> QED BY <2>1, <3>1, <3>2, LifeOfOthers
  <2>3. CASE phase[c] # "ready"
    BY <1>6, <2>1, <2>3 DEF on_message, roomVars, LifeInv, Life
  <2> QED BY <2>2, <2>3
<1>7. ASSUME NEW c \in Conns, drain(c)  PROVE LifeInv'
  <2>1. UNCHANGED <<sock, phase, registered, subscribed>>
    BY <1>7 DEF drain, hubVars
  <2>2. /\ CurrentStays(c) /\ current'[c] \in {current[c], NoModel}
        /\ \A d \in Conns : d # c => joins'[d] = joins[d]
    BY <1>7, HeadOfQueue, MessageMoves DEF drain, Types
  <2>3. phase[c] = "ready"
    BY <1>0, <1>7 DEF drain, LifeInv, Life
  <2>4. Life(c)'
    BY <2>1, <2>2, <2>3 DEF LifeInv, Life, Early
  <2>5. \A d \in Conns, p \in Procs : d # c => (loop'[p] = d => loop[p] = d)
    BY <1>0, <1>7 DEF drain
  <2> QED BY <2>1, <2>2, <2>4, <2>5, LifeOfOthers
<1>8. ASSUME NEW c \in Conns, initial_join(c)  PROVE LifeInv'
  <2>1. initial[c] \in Models
    BY <1>8 DEF initial_join, Types, QueueInv
  <2>2. CurrentStays(c) /\ (sock[c] # "open" => current' = current)
    BY <1>8, <2>1, RequestMoves DEF initial_join
  <2>3. UNCHANGED <<sock, joins, registered, subscribed>> /\ BecomeReady(c)
        /\ phase[c] = "authorizing"
    BY <1>8 DEF initial_join, hubVars
  <2>4. /\ phase'[c] = "ready"
        /\ \A d \in Conns : d # c => phase'[d] = phase[d]
        /\ \A d \in Conns, p \in Procs : d # c => (loop'[p] = d => loop[p] = d)
    BY <1>0, <2>3 DEF BecomeReady
  <2>5. Life(c)'
    BY <2>2, <2>3, <2>4 DEF LifeInv, Life, Early
  <2> QED BY <2>2, <2>3, <2>4, <2>5, LifeOfOthers
<1>9. ASSUME NEW c \in Conns, NEW m \in Models, join_answered(c, m)
      PROVE  LifeInv'
  <2>1. CurrentStays(c) /\ (sock[c] # "open" => current' = current)
    BY <1>9, RequestMoves DEF join_answered
  <2>2. /\ UNCHANGED <<sock, phase, registered, subscribed, loop>>
        /\ \A d \in Conns : d # c => joins'[d] = joins[d]
    BY <1>9 DEF join_answered, hubVars
  <2>3. phase[c] \notin Early
    BY <1>0, <1>9 DEF join_answered, LifeInv, Life
  <2>4. Life(c)'
    BY <2>1, <2>2, <2>3 DEF LifeInv, Life
  <2> QED BY <2>1, <2>2, <2>4, LifeOfOthers
<1>10. ASSUME NEW c \in Conns, cleanup(c), sock'[c] # "open",
              sock'[c] = "none" => sock[c] = "none",
              \A d \in Conns : d # c => sock'[d] = sock[d],
              UNCHANGED <<phase, joins, loop>>
       PROVE  LifeInv'
  <2>1. CurrentStays(c) /\ current'[c] = NoModel
    BY <1>10, CleanupMoves
  <2>2. /\ registered' = registered \ {c} /\ subscribed' = subscribed \ {c}
    BY <1>10 DEF cleanup
  <2>3. Life(c)'
    BY <1>10, <2>1, <2>2 DEF LifeInv, Life
  <2> QED BY <1>10, <2>1, <2>2, <2>3, LifeOfOthers
<1>11. ASSUME NEW c \in Conns,
              on_close(c) \/ on_error(c) \/ heartbeat(c) \/ pong_timeout(c)
       PROVE  LifeInv'
  <2>1. UNCHANGED <<phase, joins, loop>>
    BY <1>11 DEF on_close, on_error, heartbeat, pong_timeout
  <2>2. /\ \A d \in Conns : d # c => sock'[d] = sock[d]
        /\ sock'[c] = "none" => sock[c] = "none"
        /\ sock'[c] = "open" => sock[c] = "open"
    BY <1>0, <1>11 DEF on_close, on_error, heartbeat, pong_timeout
  <2>3. CASE cleanup(c) /\ sock'[c] # "open"
    BY <1>10, <2>1, <2>2, <2>3
  <2>4. CASE UNCHANGED <<current, registered, subscribed>>
    <3>1. Life(c)'
      BY <2>1, <2>2, <2>4 DEF LifeInv, Life
    <3> QED BY <2>1, <2>2, <2>4, <3>1, LifeOfOthers DEF CurrentStays
  <2> QED BY <1>0, <1>11, <2>3, <2>4 DEF on_close, NoCleanup, on_error,
          heartbeat, pong_timeout, roomVars, hubVars
<1>12. ASSUME \/ \E p \in Procs : pmessage(p)
              \/ \E m \in Models : publish_room_event(m)
       PROVE  LifeInv'
  <2>1. UNCHANGED <<sock, phase, joins, registered, subscribed, loop>>
    BY <1>12 DEF pmessage, publish_room_event, connVars, hubVars
  <2>2. current' = current
    BY <1>12, PmessageFields, PublishFields DEF Types, RestTypes
  <2> QED BY <2>1, <2>2 DEF LifeInv, Life
<1> QED
  BY <1>1, <1>2, <1>3, <1>4, <1>5, <1>6, <1>7, <1>8, <1>9, <1>11, <1>12
  DEF Next, Client, Handler

ServerInv == Types /\ Consistent(Hub) /\ LifeInv

LEMMA AlwaysServer == Spec => []ServerInv
<1>1. Init => LifeInv
  BY ConstantsOK DEF Init, LifeInv, Life, Early
<1>2. ServerInv /\ [Next]_vars => ServerInv'
  BY NextTypes, NextConsistent, NextLife DEF ServerInv, Types
<1> QED BY <1>1, <1>2, InitTypes, PTL DEF Spec, ServerInv

(***************************************************************************)
(* No connection is registered or in a room without its Redis subscription *)
(* (the "race condition fix" of the connect handler).                      *)
(***************************************************************************)
THEOREM ActiveHearsModelEvents == Spec => []ActiveIsSubscribed
<1>1. ServerInv => ActiveIsSubscribed
  BY DEF ServerInv, LifeInv, Life, ActiveIsSubscribed
<1> QED BY <1>1, AlwaysServer, PTL

-----------------------------------------------------------------------------
(* Presence.  Connections that receive messages.                           *)
Open == {d \in Conns : sock[d] = "open"}

(* USER_LEFT of u in room m, to be handled by replica p after message i.   *)
LeftFor(w, i, m, u, p) ==
    \E j \in i + 1 .. Len(w) : /\ w[j].model = m /\ w[j].origin # p
                               /\ w[j].message = Left(u)

(* Who has joined elsewhere is still there, or will be seen to have left.  *)
JoinsHold(mem, wir) ==
    \A p \in Procs, u \in Users : \A i \in 1 .. Len(wir[p]) :
        wir[p][i].message = Joined(u) /\ wir[p][i].origin # p =>
            \/ \E c \in mem[wir[p][i].model] : User[c] = u /\ Proc[c] # p
            \/ LeftFor(wir[p], i, wir[p][i].model, u, p)

(* So is everybody whom a client shows; it shows nobody outside rooms.     *)
ViewsHold(op, mem, wir, vw) ==
    \A m \in Models, d \in Conns, u \in Users :
        d \in mem[m] /\ d \in op /\ u \in vw[d] =>
            \/ \E c \in mem[m] : User[c] = u
            \/ LeftFor(wir[Proc[d]], 0, m, u, Proc[d])
ViewsInRooms(mem, vw) ==
    \A d \in Conns : (\A m \in Models : d \notin mem[m]) => vw[d] = {}

GhostFree(op, mem, wir, vw) ==
    JoinsHold(mem, wir) /\ ViewsHold(op, mem, wir, vw) /\ ViewsInRooms(mem, vw)

RoomTypes(mem, wir, vw) ==
    /\ mem \in [Models -> SUBSET Conns]
    /\ wir \in [Procs -> Seq(Envelope)]
    /\ vw \in [Conns -> SUBSET Users]
    /\ \A d \in Conns, m, n \in Models : d \in mem[m] /\ d \in mem[n] => m = n

(* What was going to be seen still is, after one more message.             *)
LEMMA LeftForMore ==
    ASSUME NEW wir \in [Procs -> Seq(Envelope)], NEW env \in Envelope,
           NEW p \in Procs, NEW i \in Nat, NEW m, NEW u
    PROVE  /\ LeftFor(wir[p], i, m, u, p)
                 => LeftFor(AppendToAll(wir, env)[p], i, m, u, p)
           /\ env.origin # p /\ env.model = m /\ env.message = Left(u)
              /\ i <= Len(wir[p])
                 => LeftFor(AppendToAll(wir, env)[p], i, m, u, p)
<1> DEFINE w == wir[p]
           v == AppendToAll(wir, env)[p]
<1>1. /\ Len(w) \in Nat /\ Len(v) = Len(w) + 1 /\ v[Len(w) + 1] = env
      /\ \A k \in 1 .. Len(w) : v[k] = w[k]
  BY WireTypes
<1> HIDE DEF w, v
<1>2. ASSUME LeftFor(w, i, m, u, p)  PROVE LeftFor(v, i, m, u, p)
  <2>1. PICK j \in i + 1 .. Len(w) : /\ w[j].model = m /\ w[j].origin # p
                                     /\ w[j].message = Left(u)
    BY <1>2 DEF LeftFor
  <2>2. j \in 1 .. Len(w) /\ j \in i + 1 .. Len(v)
    BY <1>1
  <2> QED BY <1>1, <2>1, <2>2 DEF LeftFor
<1>3. ASSUME env.origin # p, env.model = m, env.message = Left(u), i <= Len(w)
      PROVE  LeftFor(v, i, m, u, p)
  <2>1. Len(w) + 1 \in i + 1 .. Len(v)
    BY <1>1, <1>3
  <2> QED BY <1>1, <1>3, <2>1 DEF LeftFor
<1> QED BY <1>2, <1>3 DEF w, v

(* A connection leaves a room.                                             *)
LEMMA LeaveGhostFree ==
    ASSUME NEW op, NEW mem, NEW wir, NEW vw, RoomTypes(mem, wir, vw),
           GhostFree(op, mem, wir, vw), NEW c \in Conns, NEW m \in Models
    PROVE  LET mem2 == [mem EXCEPT ![m] = @ \ {c}]
               vw1  == [vw EXCEPT ![c] = IF c \in mem[m] THEN {} ELSE @]
               to   == {d \in mem2[m] : Proc[d] = Proc[c] /\ d \in op} \ {c}
               env  == Packet(Proc[c], m, Left(User[c]))
           IN GhostFree(op, mem2, AppendToAll(wir, env),
                        Heard(vw1, to, Left(User[c])))
<1> DEFINE mem2 == [mem EXCEPT ![m] = @ \ {c}]
           vw1  == [vw EXCEPT ![c] = IF c \in mem[m] THEN {} ELSE @]
           to   == {d \in mem2[m] : Proc[d] = Proc[c] /\ d \in op} \ {c}
           env  == Packet(Proc[c], m, Left(User[c]))
           wir2 == AppendToAll(wir, env)
           vw2  == Heard(vw1, to, Left(User[c]))
<1>1. /\ User[c] \in Users /\ Proc[c] \in Procs
      /\ \A d \in Conns : Proc[d] \in Procs
  BY ConstantsOK
<1>2. /\ env \in Envelope /\ env.origin = Proc[c] /\ env.model = m
      /\ env.message = Left(User[c])
  BY <1>1, PacketType, NoticeKinds DEF Packet
<1>3. /\ \A d \in Conns : /\ vw2[d] \subseteq vw[d]
                          /\ d \in to => User[c] \notin vw2[d]
      /\ c \in mem[m] => vw2[c] = {}
  <2>1. vw1 \in [Conns -> SUBSET Users]
        /\ \A d \in Conns : vw1[d] = IF d = c /\ c \in mem[m] THEN {} ELSE vw[d]
    BY DEF RoomTypes
  <2>2. \A d \in Conns :
           vw2[d] = IF d \in to THEN vw1[d] \ {User[c]} ELSE vw1[d]
    <3> HIDE DEF vw1, to
    <3> QED BY <1>1, NoticeKinds DEF Heard
  <2> HIDE DEF vw2, vw1, to
  <2> QED BY <2>1, <2>2
<1>4. /\ \A n \in Models : mem2[n] = IF n = m THEN mem[m] \ {c} ELSE mem[n]
      /\ \A d \in Conns : d \in to <=> /\ d \in mem[m] /\ d # c /\ d \in op
                                       /\ Proc[d] = Proc[c]
  BY DEF RoomTypes
<1>5. \A p \in Procs :
         /\ Len(wir[p]) \in Nat /\ Len(wir2[p]) = Len(wir[p]) + 1
         /\ wir2[p][Len(wir[p]) + 1] = env
         /\ \A i \in 1 .. Len(wir[p]) : wir2[p][i] = wir[p][i]
  BY <1>2, WireTypes DEF RoomTypes
<1>6. \A p \in Procs, i \in Nat : \A n, u :
         /\ LeftFor(wir[p], i, n, u, p) => LeftFor(wir2[p], i, n, u, p)
         /\ Proc[c] # p /\ n = m /\ u = User[c] /\ i <= Len(wir[p])
               => LeftFor(wir2[p], i, n, u, p)
  <2> HIDE DEF env
  <2> QED BY <1>2, LeftForMore DEF RoomTypes
<1>7. \A d \in Conns, n \in Models : d \in mem[n] /\ d \notin mem2[n]
                                        => d = c /\ n = m
  BY <1>4
<1>a. \A p \in Procs : \A i \in 1 .. Len(wir[p]) :
         wir[p][i] \in Envelope /\ wir[p][i].model \in Models
  <2>1. \A p \in Procs : wir[p] \in Seq(Envelope)
    BY DEF RoomTypes
  <2>2. \A p \in Procs : \A i \in 1 .. Len(wir[p]) : wir[p][i] \in Envelope
    BY <2>1
  <2> QED BY <2>2 DEF Envelope
<1>b. mem \in [Models -> SUBSET Conns]
  BY DEF RoomTypes
<1> HIDE DEF mem2, vw1, to, env, wir2, vw2
<1>8. JoinsHold(mem2, wir2)
  <2> SUFFICES ASSUME NEW p \in Procs, NEW u \in Users,
                      NEW i \in 1 .. Len(wir2[p]),
                      wir2[p][i].message = Joined(u), wir2[p][i].origin # p
               PROVE  \/ \E d \in mem2[wir2[p][i].model] :
                            User[d] = u /\ Proc[d] # p
                      \/ LeftFor(wir2[p], i, wir2[p][i].model, u, p)
    BY DEF JoinsHold
  <2>1. i \in 1 .. Len(wir[p]) /\ wir2[p][i] = wir[p][i]
    <3>1. i # Len(wir[p]) + 1
      BY <1>1, <1>2, <1>5, NoticeKinds
    <3> QED BY <1>5, <3>1
  <2> DEFINE n == wir[p][i].model
  <2>2. \/ \E d \in mem[n] : User[d] = u /\ Proc[d] # p
        \/ LeftFor(wir[p], i, n, u, p)
    BY <2>1 DEF GhostFree, JoinsHold
  <2>3. n \in Models /\ i \in Nat /\ i <= Len(wir[p])
    BY <1>5, <1>a, <2>1
  <2>4. wir2[p][i].model = n
    BY <2>1
  <2> HIDE DEF n
  <2>5. CASE LeftFor(wir[p], i, n, u, p)
    BY <1>6, <2>3, <2>4, <2>5
  <2>6. ASSUME NEW d \in mem[n], User[d] = u, Proc[d] # p
        PROVE  \/ \E x \in mem2[n] : User[x] = u /\ Proc[x] # p
               \/ LeftFor(wir2[p], i, n, u, p)
    <3>1. d \in Conns
      BY <1>b, <2>3
    <3>2. CASE d \in mem2[n]
      BY <2>6, <3>2
    <3>3. CASE d \notin mem2[n]
      BY <1>6, <1>7, <2>3, <2>6, <3>1, <3>3
    <3> QED BY <3>2, <3>3
  <2> QED BY <2>2, <2>4, <2>5, <2>6
<1>9. ViewsHold(op, mem2, wir2, vw2)
  <2> SUFFICES ASSUME NEW n \in Models, NEW d \in Conns, NEW u \in Users,
                      d \in mem2[n], d \in op, u \in vw2[d]
               PROVE  \/ \E x \in mem2[n] : User[x] = u
                      \/ LeftFor(wir2[Proc[d]], 0, n, u, Proc[d])
    BY DEF ViewsHold
  <2>1. d \in mem[n] /\ u \in vw[d] /\ Proc[d] \in Procs
    BY <1>1, <1>3, <1>4
  <2>2. \/ \E x \in mem[n] : User[x] = u
        \/ LeftFor(wir[Proc[d]], 0, n, u, Proc[d])
    BY <2>1 DEF GhostFree, ViewsHold
  <2>3. CASE LeftFor(wir[Proc[d]], 0, n, u, Proc[d])
    BY <1>6, <2>1, <2>3
  <2>4. ASSUME NEW x \in mem[n], User[x] = u, x \notin mem2[n]
        PROVE  LeftFor(wir2[Proc[d]], 0, n, u, Proc[d])
    <3>1. x = c /\ n = m /\ u = User[c] /\ d # c
      BY <1>4, <1>7, <1>b, <2>4
    <3>2. d \notin to
      BY <1>3, <3>1
    <3>3. Proc[d] # Proc[c]
      BY <1>4, <2>1, <3>1, <3>2
    <3>4. 0 <= Len(wir[Proc[d]])
      BY <1>5, <2>1
    <3> QED BY <1>6, <2>1, <3>1, <3>3, <3>4
  <2> QED BY <2>2, <2>3, <2>4
<1>10. ViewsInRooms(mem2, vw2)
  <2> SUFFICES ASSUME NEW d \in Conns, \A n \in Models : d \notin mem2[n]
               PROVE  vw2[d] = {}
    BY DEF ViewsInRooms
  <2>1. CASE d = c /\ c \in mem[m]
    BY <1>3, <2>1
  <2>2. CASE ~ (d = c /\ c \in mem[m])
    <3>1. \A n \in Models : d \notin mem[n]
      BY <1>7, <2>2
    <3>2. vw[d] = {}
      BY <3>1 DEF GhostFree, ViewsInRooms
    <3> QED BY <1>3, <3>2
  <2> QED BY <2>1, <2>2
<1>11. GhostFree(op, mem2, wir2, vw2)
  BY <1>8, <1>9, <1>10 DEF GhostFree
<1> QED BY <1>11 DEF mem2, vw1, to, env, wir2, vw2

(* An entry from no room.                                                  *)
LEMMA EnterGhostFree ==
    ASSUME NEW op, NEW mem, NEW wir, NEW vw, RoomTypes(mem, wir, vw),
           GhostFree(op, mem, wir, vw), NEW c \in Conns, NEW m \in Models,
           \A n \in Models : c \notin mem[n]
    PROVE  LET mem2 == [mem EXCEPT ![m] = @ \cup {c}]
               to   == {d \in mem2[m] : Proc[d] = Proc[c] /\ d \in op} \ {c}
               env  == Packet(Proc[c], m, Joined(User[c]))
           IN GhostFree(op, mem2, AppendToAll(wir, env),
                        Heard(vw, to, Joined(User[c])))
<1> DEFINE mem2 == [mem EXCEPT ![m] = @ \cup {c}]
           to   == {d \in mem2[m] : Proc[d] = Proc[c] /\ d \in op} \ {c}
           env  == Packet(Proc[c], m, Joined(User[c]))
           wir2 == AppendToAll(wir, env)
           vw2  == Heard(vw, to, Joined(User[c]))
<1>1. /\ User[c] \in Users /\ Proc[c] \in Procs
      /\ \A d \in Conns : Proc[d] \in Procs
  BY ConstantsOK
<1>2. /\ env \in Envelope /\ env.origin = Proc[c] /\ env.model = m
      /\ env.message = Joined(User[c])
  BY <1>1, PacketType, NoticeKinds DEF Packet
<1>3. \A d \in Conns :
         vw2[d] = IF d \in to THEN vw[d] \cup {User[c]} ELSE vw[d]
  <2> HIDE DEF to
  <2> QED BY <1>1, NoticeKinds DEF Heard
<1>4. /\ \A n \in Models : mem2[n] = IF n = m THEN mem[m] \cup {c} ELSE mem[n]
      /\ \A d \in to : d \in mem[m] /\ d # c
  BY DEF RoomTypes
<1>5. \A p \in Procs :
         /\ Len(wir[p]) \in Nat /\ Len(wir2[p]) = Len(wir[p]) + 1
         /\ wir2[p][Len(wir[p]) + 1] = env
         /\ \A i \in 1 .. Len(wir[p]) : wir2[p][i] = wir[p][i]
  BY <1>2, WireTypes DEF RoomTypes
<1>6. \A p \in Procs, i \in Nat : \A n, u :
         LeftFor(wir[p], i, n, u, p) => LeftFor(wir2[p], i, n, u, p)
  <2> HIDE DEF env
  <2> QED BY <1>2, LeftForMore DEF RoomTypes
<1>7. \A n \in Models : mem[n] \subseteq mem2[n]
  BY <1>4
<1>a. \A p \in Procs : \A i \in 1 .. Len(wir[p]) :
         wir[p][i] \in Envelope /\ wir[p][i].model \in Models
  <2>1. \A p \in Procs : wir[p] \in Seq(Envelope)
    BY DEF RoomTypes
  <2>2. \A p \in Procs : \A i \in 1 .. Len(wir[p]) : wir[p][i] \in Envelope
    BY <2>1
  <2> QED BY <2>2 DEF Envelope
<1>b. /\ mem \in [Models -> SUBSET Conns]
      /\ \A d \in Conns, n, k \in Models : d \in mem[n] /\ d \in mem[k] => n = k
  BY DEF RoomTypes
<1> HIDE DEF mem2, to, env, wir2, vw2
<1>8. JoinsHold(mem2, wir2)
  <2> SUFFICES ASSUME NEW p \in Procs, NEW u \in Users,
                      NEW i \in 1 .. Len(wir2[p]),
                      wir2[p][i].message = Joined(u), wir2[p][i].origin # p
               PROVE  \/ \E d \in mem2[wir2[p][i].model] :
                            User[d] = u /\ Proc[d] # p
                      \/ LeftFor(wir2[p], i, wir2[p][i].model, u, p)
    BY DEF JoinsHold
  <2>1. CASE i = Len(wir[p]) + 1
    <3>1. User[c] = u
      BY <1>1, <1>2, <1>5, <2>1, NoticeKinds
    <3> QED BY <1>2, <1>4, <1>5, <2>1, <3>1
  <2>2. CASE i # Len(wir[p]) + 1
    <3>1. i \in 1 .. Len(wir[p]) /\ wir2[p][i] = wir[p][i]
      BY <1>5, <2>2
    <3> DEFINE n == wir[p][i].model
    <3>2. \/ \E d \in mem[n] : User[d] = u /\ Proc[d] # p
          \/ LeftFor(wir[p], i, n, u, p)
      BY <3>1 DEF GhostFree, JoinsHold
    <3>3. n \in Models /\ i \in Nat /\ wir2[p][i].model = n
      BY <1>5, <1>a, <3>1
    <3> HIDE DEF n
    <3> QED BY <1>6, <1>7, <3>2, <3>3
  <2> QED BY <2>1, <2>2
<1>9. ViewsHold(op, mem2, wir2, vw2)
  <2> SUFFICES ASSUME NEW n \in Models, NEW d \in Conns, NEW u \in Users,
                      d \in mem2[n], d \in op, u \in vw2[d]
               PROVE  \/ \E x \in mem2[n] : User[x] = u
                      \/ LeftFor(wir2[Proc[d]], 0, n, u, Proc[d])
    BY DEF ViewsHold
  <2>1. CASE u \in vw[d]
    <3>1. d \in mem[n]
      <4>1. vw[c] = {}
        BY DEF GhostFree, ViewsInRooms
      <4> QED BY <1>4, <2>1, <4>1
    <3>2. \/ \E x \in mem[n] : User[x] = u
          \/ LeftFor(wir[Proc[d]], 0, n, u, Proc[d])
      BY <2>1, <3>1 DEF GhostFree, ViewsHold
    <3> QED BY <1>1, <1>6, <1>7, <3>2
  <2>2. CASE u \notin vw[d]
    <3>1. u = User[c] /\ d \in mem[m] /\ d # c
      BY <1>3, <1>4, <2>2
    <3>2. n = m
      BY <1>4, <1>b, <3>1
    <3> QED BY <1>4, <3>1, <3>2
  <2> QED BY <2>1, <2>2
<1>10. ViewsInRooms(mem2, vw2)
  <2> SUFFICES ASSUME NEW d \in Conns, \A n \in Models : d \notin mem2[n]
               PROVE  vw2[d] = {}
    BY DEF ViewsInRooms
  <2>1. \A n \in Models : d \notin mem[n]
    BY <1>7
  <2>2. vw[d] = {} /\ d \notin to
    BY <1>4, <2>1 DEF GhostFree, ViewsInRooms
  <2> QED BY <1>3, <2>2
<1>11. GhostFree(op, mem2, wir2, vw2)
  BY <1>8, <1>9, <1>10 DEF GhostFree
<1> QED BY <1>11 DEF mem2, to, env, wir2, vw2

(* An event changes nobody's presence.                                     *)
LEMMA EventGhostFree ==
    ASSUME NEW op, NEW mem, NEW wir, NEW vw, RoomTypes(mem, wir, vw),
           GhostFree(op, mem, wir, vw), NEW m \in Models, NEW e \in Event,
           NEW q \in Procs \cup {"api"}
    PROVE  GhostFree(op, mem, AppendToAll(wir, Packet(q, m, Relay(e))), vw)
<1> DEFINE env  == Packet(q, m, Relay(e))
           wir2 == AppendToAll(wir, env)
<1>1. \A d \in Conns : Proc[d] \in Procs
  BY ConstantsOK
<1>2. env \in Envelope /\ env.message = Relay(e)
  BY PacketType, NoticeKinds DEF Packet
<1>5. \A p \in Procs :
         /\ Len(wir[p]) \in Nat /\ Len(wir2[p]) = Len(wir[p]) + 1
         /\ wir2[p][Len(wir[p]) + 1] = env
         /\ \A i \in 1 .. Len(wir[p]) : wir2[p][i] = wir[p][i]
  BY <1>2, WireTypes DEF RoomTypes
<1>6. \A p \in Procs, i \in Nat : \A n, u :
         LeftFor(wir[p], i, n, u, p) => LeftFor(wir2[p], i, n, u, p)
  <2> HIDE DEF env
  <2> QED BY <1>2, LeftForMore DEF RoomTypes
<1> HIDE DEF env, wir2
<1>8. JoinsHold(mem, wir2)
  <2> SUFFICES ASSUME NEW p \in Procs, NEW u \in Users,
                      NEW i \in 1 .. Len(wir2[p]),
                      wir2[p][i].message = Joined(u), wir2[p][i].origin # p
               PROVE  \/ \E d \in mem[wir2[p][i].model] :
                            User[d] = u /\ Proc[d] # p
                      \/ LeftFor(wir2[p], i, wir2[p][i].model, u, p)
    BY DEF JoinsHold
  <2>1. i \in 1 .. Len(wir[p]) /\ wir2[p][i] = wir[p][i] /\ i \in Nat
    <3>1. i # Len(wir[p]) + 1
      BY <1>2, <1>5, NoticeKinds
    <3> QED BY <1>5, <3>1
  <2> QED BY <1>6, <2>1 DEF GhostFree, JoinsHold
<1>9. ViewsHold(op, mem, wir2, vw)
  BY <1>1, <1>6 DEF GhostFree, ViewsHold
<1> QED BY <1>8, <1>9 DEF GhostFree, env, wir2

(* A replica handles its first message.                                    *)
LEMMA HandledGhostFree ==
    ASSUME NEW op, NEW mem, NEW wir, NEW vw, RoomTypes(mem, wir, vw),
           GhostFree(op, mem, wir, vw), NEW p \in Procs, wir[p] # <<>>,
           NEW vw2 \in [Conns -> SUBSET Users], NEW to,
           to = {d \in mem[Head(wir[p]).model] : Proc[d] = p /\ d \in op}
                    \ {NoConn},
           Head(wir[p]).origin = p => vw2 = vw,
           Head(wir[p]).origin # p =>
               vw2 = Heard(vw, to, Head(wir[p]).message)
    PROVE  GhostFree(op, mem, [wir EXCEPT ![p] = Tail(@)], vw2)
<1> DEFINE env  == Head(wir[p])
           wir2 == [wir EXCEPT ![p] = Tail(@)]
           w    == wir[p]
           v    == wir2[p]
<1>1. /\ \A d \in Conns : Proc[d] \in Procs /\ d # NoConn
  BY ConstantsOK
<1>2. /\ Len(w) \in Nat /\ Len(w) >= 1 /\ w[1] = env /\ Len(v) = Len(w) - 1
      /\ \A i \in 1 .. Len(v) : v[i] = w[i + 1]
      /\ \A q \in Procs : q # p => wir2[q] = wir[q]
      /\ env \in Envelope
  <2>1. w \in Seq(Envelope) /\ w # <<>> /\ v = Tail(w)
    BY DEF RoomTypes
  <2>2. \A q \in Procs : q # p => wir2[q] = wir[q]
    BY DEF RoomTypes
  <2> HIDE DEF w, v, wir2
  <2>3. /\ Len(w) \in Nat /\ Len(w) >= 1 /\ w[1] = Head(w)
        /\ Len(v) = Len(w) - 1 /\ \A i \in 1 .. Len(v) : v[i] = w[i + 1]
        /\ Head(w) \in Envelope
    BY <2>1
  <2> QED BY <2>2, <2>3 DEF w
<1>3. \A i \in Nat : \A n, u : LeftFor(w, i + 1, n, u, p) => LeftFor(v, i, n, u, p)
  <2> SUFFICES ASSUME NEW i \in Nat, NEW n, NEW u, LeftFor(w, i + 1, n, u, p)
               PROVE  LeftFor(v, i, n, u, p)
    OBVIOUS
  <2> HIDE DEF w, v
  <2>1. PICK j \in i + 1 + 1 .. Len(w) : /\ w[j].model = n /\ w[j].origin # p
                                         /\ w[j].message = Left(u)
    BY DEF LeftFor
  <2>2. j - 1 \in i + 1 .. Len(v) /\ v[j - 1] = w[j]
    BY <1>2
  <2> QED BY <2>1, <2>2 DEF LeftFor
<1>4. /\ env.model \in Models /\ env.message \in Notice
      /\ mem \in [Models -> SUBSET Conns] /\ vw \in [Conns -> SUBSET Users]
      /\ \A d \in Conns, n, k \in Models : d \in mem[n] /\ d \in mem[k] => n = k
  BY <1>2 DEF RoomTypes, Envelope
<1>5. \A d \in Conns : d \in to <=> d \in mem[env.model] /\ Proc[d] = p /\ d \in op
  BY <1>1
<1>6. \A d \in Conns, u \in Users :
         u \in vw2[d] /\ u \notin vw[d] =>
             d \in to /\ env.origin # p /\ env.message = Joined(u)
  <2> SUFFICES ASSUME NEW d \in Conns, NEW u \in Users,
                      u \in vw2[d], u \notin vw[d]
               PROVE  d \in to /\ env.origin # p /\ env.message = Joined(u)
    OBVIOUS
  <2>1. env.origin # p /\ vw2 = Heard(vw, to, env.message)
    OBVIOUS
  <2> HIDE DEF env
  <2>2. CASE \E x \in Users : env.message = Joined(x)
    BY <2>1, <2>2, NoticeKinds DEF Heard
  <2>3. CASE \E x \in Users : env.message = Left(x)
    BY <2>1, <2>3, NoticeKinds DEF Heard
  <2>4. CASE \E e \in Event : env.message = Relay(e)
    BY <2>1, <2>4, NoticeKinds DEF Heard
  <2> QED BY <1>4, <2>2, <2>3, <2>4, NoticeKinds
<1>7. \A d \in Conns, u \in Users :
         env.origin # p /\ env.message = Left(u) /\ d \in to => u \notin vw2[d]
  <2> HIDE DEF env
  <2> SUFFICES ASSUME NEW d \in Conns, NEW u \in Users,
                      env.origin # p, env.message = Left(u), d \in to
               PROVE  u \notin vw2[d]
    OBVIOUS
  <2>1. vw2 = Heard(vw, to, env.message)
    BY DEF env
  <2> QED BY <2>1, NoticeKinds DEF Heard
<1> HIDE DEF env, wir2, w, v
<1>8. JoinsHold(mem, wir2)
  <2> SUFFICES ASSUME NEW q \in Procs, NEW u \in Users,
                      NEW i \in 1 .. Len(wir2[q]),
                      wir2[q][i].message = Joined(u), wir2[q][i].origin # q
               PROVE  \/ \E d \in mem[wir2[q][i].model] :
                            User[d] = u /\ Proc[d] # q
                      \/ LeftFor(wir2[q], i, wir2[q][i].model, u, q)
    BY DEF JoinsHold
  <2>1. CASE q # p
    BY <1>2, <2>1 DEF GhostFree, JoinsHold
  <2>2. CASE q = p
    <3>1. /\ i + 1 \in 1 .. Len(w) /\ i \in Nat /\ v[i] = w[i + 1]
          /\ v = wir2[q] /\ w = wir[q]
      BY <1>2, <2>2 DEF v, w
    <3>2. \/ \E d \in mem[w[i + 1].model] : User[d] = u /\ Proc[d] # p
          \/ LeftFor(w, i + 1, w[i + 1].model, u, p)
      BY <2>2, <3>1 DEF GhostFree, JoinsHold
    <3> QED BY <1>3, <2>2, <3>1, <3>2
  <2> QED BY <2>1, <2>2
<1>9. ViewsHold(op, mem, wir2, vw2)
  <2> SUFFICES ASSUME NEW n \in Models, NEW d \in Conns, NEW u \in Users,
                      d \in mem[n], d \in op, u \in vw2[d]
               PROVE  \/ \E x \in mem[n] : User[x] = u
                      \/ LeftFor(wir2[Proc[d]], 0, n, u, Proc[d])
    BY DEF ViewsHold
  <2>1. CASE u \in vw[d]
    <3>1. \/ \E x \in mem[n] : User[x] = u
          \/ LeftFor(wir[Proc[d]], 0, n, u, Proc[d])
      BY <2>1 DEF GhostFree, ViewsHold
    <3>2. CASE Proc[d] # p
      BY <1>1, <1>2, <3>1, <3>2
    <3>3. ASSUME Proc[d] = p, LeftFor(w, 0, n, u, p)
          PROVE  LeftFor(v, 0, n, u, p)
      <4>1. PICK j \in 0 + 1 .. Len(w) : /\ w[j].model = n /\ w[j].origin # p
                                         /\ w[j].message = Left(u)
        BY <3>3 DEF LeftFor
      <4>2. j # 1
        <5>1. j = 1 => d \in to /\ env.origin # p /\ env.message = Left(u)
          BY <1>2, <1>5, <3>3, <4>1
        <5> QED BY <1>7, <5>1
      <4>3. j \in 0 + 1 + 1 .. Len(w)
        BY <1>2, <4>2
      <4>4. LeftFor(w, 0 + 1, n, u, p)
        BY <4>1, <4>3 DEF LeftFor
      <4> QED BY <1>3, <4>4
    <3> QED BY <3>1, <3>2, <3>3 DEF w, v
  <2>2. CASE u \notin vw[d]
    <3>1. d \in to /\ env.origin # p /\ env.message = Joined(u)
      BY <1>6, <2>2
    <3>2. Proc[d] = p /\ n = env.model
      BY <1>4, <1>5, <3>1
    <3>3. \/ \E x \in mem[n] : User[x] = u
          \/ LeftFor(w, 1, n, u, p)
      <4>1. 1 \in 1 .. Len(w)
        BY <1>2
      <4> QED BY <1>2, <3>1, <3>2, <4>1 DEF GhostFree, JoinsHold, w
    <3>4. LeftFor(w, 0 + 1, n, u, p) => LeftFor(v, 0, n, u, p)
      BY <1>3
    <3> QED BY <3>2, <3>3, <3>4 DEF v
  <2> QED BY <2>1, <2>2
<1>10. ViewsInRooms(mem, vw2)
  <2> SUFFICES ASSUME NEW d \in Conns, \A n \in Models : d \notin mem[n]
               PROVE  vw2[d] = {}
    BY DEF ViewsInRooms
  <2>1. vw[d] = {} /\ d \notin to
    BY <1>4, <1>5 DEF GhostFree, ViewsInRooms
  <2>2. vw2[d] \subseteq Users
    OBVIOUS
  <2> QED BY <1>6, <2>1, <2>2
<1> QED BY <1>8, <1>9, <1>10 DEF GhostFree, wir2

-----------------------------------------------------------------------------
(* Presence through the handlers.                                          *)
Ghosts(h) == GhostFree(Open, h.members, h.wire, h.view)

LEMMA HubRooms ==
    ASSUME NEW h, HubTypes(h), Consistent(h)
    PROVE  RoomTypes(h.members, h.wire, h.view)
<1>1. \A d \in Conns, m, n \in Models :
         d \in h.members[m] /\ d \in h.members[n] => m = n
  BY DEF Consistent
<1> QED BY <1>1 DEF HubTypes, RoomTypes

LEMMA LeaveGhosts ==
    ASSUME NEW h, HubTypes(h), Consistent(h), Ghosts(h),
           NEW c \in Conns, NEW m \in Models
    PROVE  Ghosts(leaveRoom(h, c, m))
<1> DEFINE g   == LeftHub(h, c, m)
           env == Packet(Proc[c], m, Left(User[c]))
           k   == broadcast(g, c, m, Left(User[c]))
           mem2 == [h.members EXCEPT ![m] = @ \ {c}]
           vw1 == [h.view EXCEPT ![c] = IF c \in h.members[m] THEN {} ELSE @]
           to  == {d \in mem2[m] : Proc[d] = Proc[c] /\ d \in Open} \ {c}
<1>1. GhostFree(Open, mem2, AppendToAll(h.wire, env),
                Heard(vw1, to, Left(User[c])))
  BY HubRooms, LeaveGhostFree DEF Ghosts
<1>2. /\ HubTypes(g) /\ g.members = mem2 /\ g.view = vw1 /\ g.wire = h.wire
      /\ leaveRoom(h, c, m) = h \/ leaveRoom(h, c, m) = k
  <2>1. HubTypes(g)
    BY LeaveCases
  <2>2. g.members = mem2 /\ g.view = vw1 /\ g.wire = h.wire
    BY DEF LeftHub, HubTypes, IsHub
  <2>3. leaveRoom(h, c, m) = h \/ leaveRoom(h, c, m) = k
    BY DEF leaveRoom, LeftHub
  <2> QED BY <2>1, <2>2, <2>3
<1>3. Hearers(mem2, Proc[c], m, c) = to
  <2>1. mem2[m] \subseteq Conns
    BY DEF HubTypes
  <2> HIDE DEF mem2
  <2> QED BY <2>1 DEF Hearers, Open
<1> HIDE DEF g, mem2, vw1, to, env
<1>4. /\ k.members = g.members
      /\ k.wire = AppendToAll(g.wire, env)
      /\ k.view = Heard(g.view, Hearers(g.members, Proc[c], m, c), Left(User[c]))
  BY <1>2, BroadcastEffect DEF env
<1> HIDE DEF k
<1>5. Ghosts(k)
  BY <1>1, <1>2, <1>3, <1>4 DEF Ghosts
<1> QED BY <1>2, <1>5

LEMMA EnterGhosts ==
    ASSUME NEW h, HubTypes(h), Consistent(h), Ghosts(h),
           NEW c \in Conns, NEW m \in Models, h.current[c] = NoModel
    PROVE  Ghosts(EnterRoom(h, c, m))
<1> DEFINE g   == EnteredHub(h, c, m)
           env == Packet(Proc[c], m, Joined(User[c]))
           k   == broadcast(g, c, m, Joined(User[c]))
           mem2 == [h.members EXCEPT ![m] = @ \cup {c}]
           to  == {d \in mem2[m] : Proc[d] = Proc[c] /\ d \in Open} \ {c}
<1>0. \A n \in Models : c \notin h.members[n]
  BY ConstantsOK DEF Consistent
<1>1. GhostFree(Open, mem2, AppendToAll(h.wire, env),
                Heard(h.view, to, Joined(User[c])))
  BY <1>0, HubRooms, EnterGhostFree DEF Ghosts
<1>2. /\ HubTypes(g) /\ g.members = mem2 /\ g.view = h.view /\ g.wire = h.wire
      /\ EnterRoom(h, c, m) = k
  <2>1. HubTypes(g)
    BY EnterCase
  <2>2. g.members = mem2 /\ g.view = h.view /\ g.wire = h.wire
    BY DEF EnteredHub, HubTypes, IsHub
  <2>3. EnterRoom(h, c, m) = k
    BY DEF EnterRoom, EnteredHub
  <2> QED BY <2>1, <2>2, <2>3
<1>3. Hearers(mem2, Proc[c], m, c) = to
  <2>1. mem2[m] \subseteq Conns
    BY DEF HubTypes
  <2> HIDE DEF mem2
  <2> QED BY <2>1 DEF Hearers, Open
<1> HIDE DEF g, mem2, to, env
<1>4. /\ k.members = g.members
      /\ k.wire = AppendToAll(g.wire, env)
      /\ k.view = Heard(g.view, Hearers(g.members, Proc[c], m, c), Joined(User[c]))
  BY <1>2, BroadcastEffect DEF env
<1> HIDE DEF k
<1>5. Ghosts(k)
  BY <1>1, <1>2, <1>3, <1>4 DEF Ghosts
<1> QED BY <1>2, <1>5

LEMMA JoinGhosts ==
    ASSUME NEW h, HubTypes(h), Consistent(h), Ghosts(h),
           NEW c \in Conns, NEW m \in Models
    PROVE  Ghosts(joinRoom(h, c, m))
<1>1. ASSUME NEW n \in Models,
             HubTypes(leaveRoom(h, c, n)), Consistent(leaveRoom(h, c, n)),
             leaveRoom(h, c, n).current[c] = NoModel,
             joinRoom(h, c, m) = EnterRoom(leaveRoom(h, c, n), c, m)
      PROVE  Ghosts(joinRoom(h, c, m))
  <2> DEFINE g == leaveRoom(h, c, n)
  <2>1. HubTypes(g) /\ Consistent(g) /\ g.current[c] = NoModel
        /\ joinRoom(h, c, m) = EnterRoom(g, c, m) /\ Ghosts(g)
    BY <1>1, LeaveGhosts
  <2> HIDE DEF g
  <2> QED BY <2>1, EnterGhosts
<1>2. h.current[c] = NoModel => Ghosts(EnterRoom(h, c, m))
  BY EnterGhosts
<1> QED BY <1>1, <1>2, JoinCases

(* Who closes, or opens outside all rooms, matters to nobody's presence.   *)
LEMMA OpenGhostFree ==
    ASSUME NEW op, NEW op2, NEW mem, NEW wir, NEW vw,
           GhostFree(op, mem, wir, vw),
           \A d \in Conns, m \in Models : d \in op2 /\ d \in mem[m] => d \in op
    PROVE  GhostFree(op2, mem, wir, vw)
  BY DEF GhostFree, ViewsHold

(* While Redis accepts every publication, it has what the handlers sent.   *)
LEMMA PublishGhosts ==
    ASSUME "redis" \notin Enabled, NEW h, HubTypes(h), Ghosts(h),
           SetAndPublish(h)
    PROVE  GhostFree(Open, members', wire', view')
<1>1. PICK w \in Published(h) : SetHub([h EXCEPT !.wire = w])
  BY DEF SetAndPublish
<1>2. w = h.wire
  BY DEF Published
<1>3. members' = h.members /\ wire' = h.wire /\ view' = h.view
  BY <1>1, <1>2 DEF SetHub, HubTypes, IsHub
<1> QED BY <1>3 DEF Ghosts

LEMMA RoomGhosts ==
    ASSUME "redis" \notin Enabled, ServerInv, Ghosts(Hub), RoomStep
    PROVE  GhostFree(Open, members', wire', view')
<1>0. /\ HubTypes(Hub) /\ Consistent(Hub) /\ events \in 0 .. MaxEvents
      /\ RoomTypes(members, wire, view)
      /\ GhostFree(Open, members, wire, view)
  <2>1. HubTypes(Hub) /\ Consistent(Hub) /\ events \in 0 .. MaxEvents
    BY DEF ServerInv, Types, RestTypes
  <2>2. RoomTypes(Hub.members, Hub.wire, Hub.view)
    BY <2>1, HubRooms
  <2> QED BY <2>1, <2>2 DEF Hub, Ghosts
<1>1. CASE RoomsStay
  BY <1>0, <1>1 DEF RoomsStay, roomVars
<1>2. ASSUME NEW c \in Conns, NEW m \in Models, Leaves(c, m)
      PROVE  GhostFree(Open, members', wire', view')
  <2> DEFINE k == leaveRoom(Hub, c, m)
  <2>1. HubTypes(k) /\ Ghosts(k) /\ SetAndPublish(k)
    BY <1>0, <1>2, LeaveTypes, LeaveGhosts DEF Leaves
  <2> HIDE DEF k
  <2> QED BY <2>1, PublishGhosts
<1>3. ASSUME NEW c \in Conns, NEW m \in Models, Enters(c, m)
      PROVE  GhostFree(Open, members', wire', view')
  <2> DEFINE k == joinRoom(Hub, c, m)
  <2>1. HubTypes(k) /\ Ghosts(k) /\ SetAndPublish(k)
    BY <1>0, <1>3, JoinTypes, JoinGhosts DEF Enters
  <2> HIDE DEF k
  <2> QED BY <2>1, PublishGhosts
<1>4. ASSUME NEW q \in Procs \cup {"api"}, NEW m \in Models, NEW e \in Event,
             UNCHANGED <<members, view>>,
             wire' \in {wire, AppendToAll(wire, Packet(q, m, Relay(e)))}
      PROVE  GhostFree(Open, members', wire', view')
  <2>1. GhostFree(Open, members, AppendToAll(wire, Packet(q, m, Relay(e))), view)
    BY <1>0, EventGhostFree
  <2> QED BY <1>0, <1>4, <2>1
<1>5. ASSUME NEW c \in Conns, relay(c), ~ RoomsStay
      PROVE  GhostFree(Open, members', wire', view')
  <2>1. Proc[c] \in Procs
    BY ConstantsOK
  <2>2. \E m \in Models, e \in Event :
           /\ UNCHANGED <<members, view>>
           /\ wire' \in {wire, AppendToAll(wire, Packet(Proc[c], m, Relay(e)))}
    <3>1. PICK m \in Models, e \in Event :
            \E w \in {wire, AppendToAll(wire, Packet(Proc[c], m, Relay(e)))} :
               UNCHANGED <<members, view>> /\ wire' = w
      BY <1>0, <1>5, RelayFields
    <3> QED BY <3>1
  <2> QED BY <1>4, <2>1, <2>2
<1>6. ASSUME NEW m \in Models, publish_room_event(m)
      PROVE  GhostFree(Open, members', wire', view')
  <2>1. \E e \in Event :
           /\ UNCHANGED <<members, view>>
           /\ wire' \in {wire, AppendToAll(wire, Packet("api", m, Relay(e)))}
    <3>1. PICK e \in Event :
            \E w \in {wire, AppendToAll(wire, Packet("api", m, Relay(e)))} :
               UNCHANGED <<members, view>> /\ wire' = w
      BY <1>0, <1>6, PublishFields
    <3> QED BY <3>1
  <2> QED BY <1>4, <2>1
<1>7. ASSUME NEW p \in Procs, pmessage(p)
      PROVE  GhostFree(Open, members', wire', view')
  <2> DEFINE env == Head(wire[p])
             to  == Hearers(members, p, env.model, NoConn)
             op  == {d \in members[env.model] : Proc[d] = p /\ d \in Open}
                       \ {NoConn}
  <2>1. /\ wire[p] # <<>> /\ env \in Envelope
        /\ wire' = [wire EXCEPT ![p] = Tail(@)]
        /\ UNCHANGED <<current, members, audience, events, sock>>
        /\ env.origin = p => UNCHANGED <<view, got>>
        /\ env.origin # p => view' = Heard(view, to, env.message)
    BY <1>0, <1>7, PmessageFields
  <2>2. members[env.model] \subseteq Conns
    BY <1>0, <2>1 DEF RoomTypes, Envelope
  <2>3. to = op
    <3> HIDE DEF env
    <3> QED BY <2>2 DEF Hearers, Open
  <2>4. view' \in [Conns -> SUBSET Users]
    <3>1. HubTypes(Hub)'
      BY <1>0, <1>7, RoomStepTypes DEF RoomStep
    <3> QED BY <3>1 DEF HubTypes, Hub
  <2>5. PICK v \in [Conns -> SUBSET Users] : v = view'
    BY <2>4
  <2>6. GhostFree(Open, members, [wire EXCEPT ![p] = Tail(@)], v)
    <3>1. PICK x : x = to
      OBVIOUS
    <3>2. /\ x = op /\ (env.origin = p => v = view)
          /\ env.origin # p => v = Heard(view, x, env.message)
      BY <2>1, <2>3, <2>5, <3>1
    <3> QED BY <1>0, <2>1, <3>2, HandledGhostFree
  <2> QED BY <2>1, <2>5, <2>6
<1> QED BY <1>1, <1>2, <1>3, <1>5, <1>6, <1>7 DEF RoomStep

(* A socket opens outside all rooms.                                       *)
LEMMA OpensOutside ==
    ASSUME ServerInv, [Next]_vars
    PROVE  \A d \in Conns, m \in Models :
              d \in Open' /\ d \in members'[m] => d \in Open
<1>1. SocksClose \/ \E c \in Conns : connect(c)
  BY NextRooms DEF ServerInv, Types, RestTypes
<1>2. CASE SocksClose
  BY <1>2 DEF SocksClose, Open
<1>3. ASSUME NEW c \in Conns, connect(c)
      PROVE  \A d \in Conns, m \in Models :
                d \in Open' /\ d \in members'[m] => d \in Open
  <2>1. members' = members /\ sock[c] = "none"
        /\ sock' = [sock EXCEPT ![c] = "open"]
    BY <1>3 DEF connect, roomVars
  <2>2. \A m \in Models : c \notin members[m]
    <3>1. current[c] = NoModel
      BY <2>1 DEF ServerInv, LifeInv, Life, Early
    <3> QED BY <3>1, ConstantsOK DEF ServerInv, Consistent, Hub
  <2>3. sock \in [Conns -> Sock]
    BY DEF ServerInv, Types, RestTypes
  <2> QED BY <2>1, <2>2, <2>3 DEF Open
<1> QED BY <1>1, <1>2, <1>3

LEMMA NextGhosts ==
    ASSUME "redis" \notin Enabled, ServerInv, Ghosts(Hub), [Next]_vars
    PROVE  Ghosts(Hub)'
<1>1. RoomStep
  BY NextRooms DEF ServerInv, Types, RestTypes
<1>2. GhostFree(Open, members', wire', view')
  BY <1>1, RoomGhosts
<1>3. \A d \in Conns, m \in Models :
         d \in Open' /\ d \in members'[m] => d \in Open
  BY OpensOutside
<1>4. GhostFree(Open', members', wire', view')
  <2>1. \A op, op2, mem, wir, vw :
           GhostFree(op, mem, wir, vw)
           /\ (\A d \in Conns, m \in Models :
                  d \in op2 /\ d \in mem[m] => d \in op)
           => GhostFree(op2, mem, wir, vw)
    BY OpenGhostFree
  <2> QED BY <1>2, <1>3, <2>1
<1> QED BY <1>4 DEF Ghosts, Hub

(***************************************************************************)
(* As long as Redis accepts the publications, presence shows no ghosts:    *)
(* once all messages are handled, every user a client shows in its room    *)
(* has a connection there, through joins, leaves and cleanups on any       *)
(* number of replicas whose messages cross.                                *)
(***************************************************************************)
THEOREM PresenceHasNoGhosts ==
    ASSUME "redis" \notin Enabled
    PROVE  Spec => []NoGhosts
<1>1. Init => Ghosts(Hub)
  BY DEF Init, Ghosts, Hub, GhostFree, JoinsHold, ViewsHold, ViewsInRooms
<1>2. ServerInv /\ Ghosts(Hub) /\ [Next]_vars => Ghosts(Hub)'
  BY NextGhosts
<1>3. ServerInv /\ Ghosts(Hub) => NoGhosts
  <2> SUFFICES ASSUME ServerInv, Ghosts(Hub), \A p \in Procs : wire[p] = <<>>,
                      NEW m \in Models, NEW d \in members[m], sock[d] = "open",
                      NEW u \in view[d]
               PROVE  \E c \in members[m] : u = User[c]
    BY DEF NoGhosts
  <2>1. d \in Conns /\ u \in Users /\ Proc[d] \in Procs
    BY ConstantsOK DEF ServerInv, Types, HubTypes, Hub
  <2>2. ~ LeftFor(wire[Proc[d]], 0, m, u, Proc[d])
    BY <2>1 DEF LeftFor
  <2> QED BY <2>1, <2>2 DEF Ghosts, Hub, GhostFree, ViewsHold, Open
<1> QED BY <1>1, <1>2, <1>3, AlwaysServer, PTL DEF Spec

-----------------------------------------------------------------------------
(* Delivery.  A message to a replica carries an event that its clients     *)
(* have not received, and is the only one of the queue that carries it.    *)
OnceOnWire(wir, g, n) ==
    \A p \in Procs, e \in Event : \A i \in 1 .. Len(wir[p]) :
        wir[p][i].message = Relay(e) =>
            /\ e <= n
            /\ \A j \in 1 .. Len(wir[p]) : wir[p][j].message = Relay(e) => j = i
            /\ wir[p][i].origin # p =>
                  \A d \in Conns : Proc[d] = p => g[d][e] = 0

GotOnce(g, n) ==
    \A d \in Conns, e \in Event : g[d][e] \in {0, 1} /\ (e > n => g[d][e] = 0)

(* Event e is going to be delivered to connection d.                       *)
Coming(mem, w, e, d) ==
    \E i \in 1 .. Len(w) : /\ w[i].message = Relay(e) /\ w[i].origin # Proc[d]
                           /\ d \in mem[w[i].model]

(* Nobody of the audience has left the rooms; who is open has the event or *)
(* will have it.                                                           *)
Served(op, mem, wir, g, aud, n) ==
    \A e \in Event : \A d \in aud[e] :
        /\ e <= n
        /\ \E m \in Models : d \in mem[m]
        /\ d \in op => g[d][e] = 1 \/ Coming(mem, wir[Proc[d]], e, d)

Once(op, mem, wir, g, aud, n) ==
    OnceOnWire(wir, g, n) /\ GotOnce(g, n) /\ Served(op, mem, wir, g, aud, n)

EventTypes(mem, wir, g, aud) ==
    /\ mem \in [Models -> SUBSET Conns]
    /\ wir \in [Procs -> Seq(Envelope)]
    /\ g \in [Conns -> [Event -> Nat]]
    /\ aud \in [Event -> SUBSET Conns]
    /\ \A d \in Conns, m, n \in Models : d \in mem[m] /\ d \in mem[n] => m = n

LEMMA ComingMore ==
    ASSUME NEW wir \in [Procs -> Seq(Envelope)], NEW env \in Envelope,
           NEW p \in Procs, NEW mem, NEW e, NEW d
    PROVE  /\ Coming(mem, wir[p], e, d)
                 => Coming(mem, AppendToAll(wir, env)[p], e, d)
           /\ env.message = Relay(e) /\ env.origin # Proc[d]
              /\ d \in mem[env.model]
                 => Coming(mem, AppendToAll(wir, env)[p], e, d)
<1> DEFINE w == wir[p]
           v == AppendToAll(wir, env)[p]
<1>1. /\ Len(w) \in Nat /\ Len(v) = Len(w) + 1 /\ v[Len(w) + 1] = env
      /\ \A k \in 1 .. Len(w) : v[k] = w[k]
  BY WireTypes
<1> HIDE DEF w, v
<1>2. Coming(mem, w, e, d) => Coming(mem, v, e, d)
  <2> SUFFICES ASSUME NEW i \in 1 .. Len(w), w[i].message = Relay(e),
                      w[i].origin # Proc[d], d \in mem[w[i].model]
               PROVE  Coming(mem, v, e, d)
    BY DEF Coming
  <2>1. i \in 1 .. Len(v) /\ v[i] = w[i]
    BY <1>1
  <2> QED BY <2>1 DEF Coming
<1>3. ASSUME env.message = Relay(e), env.origin # Proc[d], d \in mem[env.model]
      PROVE  Coming(mem, v, e, d)
  <2>1. Len(w) + 1 \in 1 .. Len(v)
    BY <1>1
  <2> QED BY <1>1, <1>3, <2>1 DEF Coming
<1> QED BY <1>2, <1>3 DEF w, v

(* Presence messages carry no events.                                      *)
LEMMA PresenceOnce ==
    ASSUME NEW op, NEW mem, NEW wir, NEW g, NEW aud, NEW n,
           EventTypes(mem, wir, g, aud), Once(op, mem, wir, g, aud, n),
           NEW env \in Envelope, \A e \in Event : env.message # Relay(e)
    PROVE  Once(op, mem, AppendToAll(wir, env), g, aud, n)
<1> DEFINE wir2 == AppendToAll(wir, env)
<1>1. \A d \in Conns : Proc[d] \in Procs
  BY ConstantsOK
<1>2. \A p \in Procs :
         /\ Len(wir[p]) \in Nat /\ Len(wir2[p]) = Len(wir[p]) + 1
         /\ wir2[p][Len(wir[p]) + 1] = env
         /\ \A i \in 1 .. Len(wir[p]) : wir2[p][i] = wir[p][i]
  <2>1. wir \in [Procs -> Seq(Envelope)]
    BY DEF EventTypes
  <2> QED BY <2>1, WireTypes
<1>3. \A p \in Procs : \A e, d : Coming(mem, wir[p], e, d)
                                => Coming(mem, wir2[p], e, d)
  BY ComingMore DEF EventTypes
<1> HIDE DEF wir2
<1>4. OnceOnWire(wir2, g, n)
  <2> SUFFICES ASSUME NEW p \in Procs, NEW e \in Event,
                      NEW i \in 1 .. Len(wir2[p]),
                      wir2[p][i].message = Relay(e)
               PROVE  /\ e <= n
                      /\ \A j \in 1 .. Len(wir2[p]) :
                            wir2[p][j].message = Relay(e) => j = i
                      /\ wir2[p][i].origin # p =>
                            \A d \in Conns : Proc[d] = p => g[d][e] = 0
    BY DEF OnceOnWire
  <2>1. \A j \in 1 .. Len(wir2[p]) : wir2[p][j].message = Relay(e) =>
           j \in 1 .. Len(wir[p]) /\ wir2[p][j] = wir[p][j]
    BY <1>2
  <2> QED BY <2>1 DEF Once, OnceOnWire
<1>5. Served(op, mem, wir2, g, aud, n)
  BY <1>1, <1>3 DEF Once, Served, EventTypes
<1> QED BY <1>4, <1>5 DEF Once, wir2

(* Whoever leaves a room leaves its audiences.                             *)
LEMMA LeaveOnce ==
    ASSUME NEW op, NEW mem, NEW wir, NEW g, NEW aud, NEW n,
           EventTypes(mem, wir, g, aud), Once(op, mem, wir, g, aud, n),
           NEW c \in Conns, NEW m \in Models
    PROVE  LET mem2 == [mem EXCEPT ![m] = @ \ {c}]
               aud2 == [e \in Event |-> IF c \in mem[m] THEN aud[e] \ {c}
                                                        ELSE aud[e]]
           IN EventTypes(mem2, wir, g, aud2) /\ Once(op, mem2, wir, g, aud2, n)
<1> DEFINE mem2 == [mem EXCEPT ![m] = @ \ {c}]
           aud2 == [e \in Event |-> IF c \in mem[m] THEN aud[e] \ {c}
                                                    ELSE aud[e]]
<1>1. /\ \A k \in Models : mem2[k] = IF k = m THEN mem[m] \ {c} ELSE mem[k]
      /\ mem2 \in [Models -> SUBSET Conns]
      /\ aud2 \in [Event -> SUBSET Conns]
      /\ \A e \in Event : aud2[e] \subseteq aud[e]
      /\ c \in mem[m] => \A e \in Event : c \notin aud2[e]
  BY DEF EventTypes
<1>2. \A d \in Conns, k \in Models : d \in mem[k] =>
          d \in mem2[k] \/ (d = c /\ c \in mem[m])
  BY <1>1
<1>3. \A k \in Models : mem2[k] \subseteq mem[k]
  BY <1>1
<1>4. \A p \in Procs : \A i \in 1 .. Len(wir[p]) : wir[p][i].model \in Models
  <2>1. \A p \in Procs : wir[p] \in Seq(Envelope)
    BY DEF EventTypes
  <2>2. \A p \in Procs : \A i \in 1 .. Len(wir[p]) : wir[p][i] \in Envelope
    BY <2>1
  <2> QED BY <2>2 DEF Envelope
<1>5. \A d \in Conns : Proc[d] \in Procs
  BY ConstantsOK
<1> HIDE DEF mem2, aud2
<1>6. EventTypes(mem2, wir, g, aud2)
  BY <1>1, <1>3 DEF EventTypes
<1>7. Served(op, mem2, wir, g, aud2, n)
  <2> SUFFICES ASSUME NEW e \in Event, NEW d \in aud2[e]
               PROVE  /\ e <= n
                      /\ \E k \in Models : d \in mem2[k]
                      /\ d \in op => \/ g[d][e] = 1
                                     \/ Coming(mem2, wir[Proc[d]], e, d)
    BY DEF Served
  <2>1. d \in Conns /\ d \in aud[e] /\ ~ (d = c /\ c \in mem[m])
    BY <1>1
  <2>2. \A k \in Models : d \in mem[k] => d \in mem2[k]
    BY <1>2, <2>1
  <2>3. Coming(mem, wir[Proc[d]], e, d) => Coming(mem2, wir[Proc[d]], e, d)
    BY <1>4, <1>5, <2>1, <2>2 DEF Coming
  <2> QED BY <2>1, <2>2, <2>3 DEF Once, Served
<1> QED BY <1>6, <1>7 DEF Once, mem2, aud2

LEMMA EnterOnce ==
    ASSUME NEW op, NEW mem, NEW wir, NEW g, NEW aud, NEW n,
           EventTypes(mem, wir, g, aud), Once(op, mem, wir, g, aud, n),
           NEW c \in Conns, NEW m \in Models, \A k \in Models : c \notin mem[k]
    PROVE  LET mem2 == [mem EXCEPT ![m] = @ \cup {c}]
           IN EventTypes(mem2, wir, g, aud) /\ Once(op, mem2, wir, g, aud, n)
<1> DEFINE mem2 == [mem EXCEPT ![m] = @ \cup {c}]
<1>1. /\ \A k \in Models : mem2[k] = IF k = m THEN mem[m] \cup {c} ELSE mem[k]
      /\ mem2 \in [Models -> SUBSET Conns]
      /\ \A k \in Models : mem[k] \subseteq mem2[k]
  BY DEF EventTypes
<1>4. \A p \in Procs : \A i \in 1 .. Len(wir[p]) : wir[p][i].model \in Models
  <2>1. \A p \in Procs : wir[p] \in Seq(Envelope)
    BY DEF EventTypes
  <2>2. \A p \in Procs : \A i \in 1 .. Len(wir[p]) : wir[p][i] \in Envelope
    BY <2>1
  <2> QED BY <2>2 DEF Envelope
<1>5. \A d \in Conns : Proc[d] \in Procs
  BY ConstantsOK
<1> HIDE DEF mem2
<1>6. EventTypes(mem2, wir, g, aud)
  BY <1>1 DEF EventTypes
<1>7. \A d \in Conns : \A e : Coming(mem, wir[Proc[d]], e, d)
                             => Coming(mem2, wir[Proc[d]], e, d)
  BY <1>1, <1>4, <1>5 DEF Coming
<1>8. Served(op, mem2, wir, g, aud, n)
  BY <1>1, <1>7 DEF Once, Served, EventTypes
<1> QED BY <1>6, <1>8 DEF Once, mem2

(* A new event: the connections in to receive it at once, the others of    *)
(* its audience by the message that q sends, if it is sent.                *)
NewEvent(mem, wir, g, e, m, q, to, g2, wir2, a) ==
    /\ to \subseteq Conns /\ a \subseteq Conns
    /\ \A d \in to : Proc[d] = q
    /\ \A d \in Conns, x \in Event :
          g2[d][x] = IF d \in to /\ x = e THEN g[d][x] + 1 ELSE g[d][x]
    /\ wir2 \in {wir, AppendToAll(wir, Packet(q, m, Relay(e)))}
    /\ \A d \in a : /\ d \in mem[m]
                    /\ d \in to \/ (wir2 # wir /\ Proc[d] # q)

LEMMA NewEventOnce ==
    ASSUME NEW op, NEW mem, NEW wir, NEW g, NEW aud, NEW n \in Nat,
           EventTypes(mem, wir, g, aud), Once(op, mem, wir, g, aud, n),
           NEW e \in Event, e = n + 1, NEW m \in Models,
           NEW q \in Procs \cup {"api"}, NEW to, NEW g2, NEW wir2, NEW a,
           NewEvent(mem, wir, g, e, m, q, to, g2, wir2, a),
           NEW aud2, aud2 = [aud EXCEPT ![e] = a]
    PROVE  Once(op, mem, wir2, g2, aud2, e)
<1>0. /\ to \subseteq Conns /\ a \subseteq Conns
      /\ \A d \in to : Proc[d] = q
      /\ \A d \in Conns, x \in Event :
            g2[d][x] = IF d \in to /\ x = e THEN g[d][x] + 1 ELSE g[d][x]
      /\ wir2 \in {wir, AppendToAll(wir, Packet(q, m, Relay(e)))}
      /\ \A d \in a : /\ d \in mem[m]
                      /\ d \in to \/ (wir2 # wir /\ Proc[d] # q)
  BY DEF NewEvent
<1> DEFINE env  == Packet(q, m, Relay(e))
           full == AppendToAll(wir, env)
<1>1. /\ \A d \in Conns : Proc[d] \in Procs
      /\ n \in Nat /\ e \in Int /\ \A x \in Event : x \in Int
  BY ConstantsOK DEF Event
<1>2. env \in Envelope /\ env.origin = q /\ env.model = m
      /\ env.message = Relay(e)
  BY PacketType, NoticeKinds DEF Packet
<1>3. \A p \in Procs :
         /\ Len(wir[p]) \in Nat /\ Len(full[p]) = Len(wir[p]) + 1
         /\ full[p][Len(wir[p]) + 1] = env
         /\ \A i \in 1 .. Len(wir[p]) : full[p][i] = wir[p][i]
  <2>1. wir \in [Procs -> Seq(Envelope)] /\ env \in Envelope
    BY <1>2 DEF EventTypes
  <2> HIDE DEF env
  <2> QED BY <2>1 DEF AppendToAll
<1>4. /\ \A p \in Procs : \A x, d : Coming(mem, wir[p], x, d)
                                  => Coming(mem, wir2[p], x, d)
      /\ \A p \in Procs : \A d : wir2 # wir /\ q # Proc[d] /\ d \in mem[m]
                                  => Coming(mem, wir2[p], e, d)
  <2> HIDE DEF env
  <2>1. wir2 = wir \/ wir2 = full
    BY <1>0 DEF env
  <2> QED BY <1>2, <2>1, ComingMore DEF EventTypes
<1>5. \A x, y \in Event : Relay(x) = Relay(y) => x = y
  BY NoticeKinds
<1>6. /\ aud2 \in [Event -> SUBSET Conns] /\ aud2[e] = a
      /\ \A x \in Event : x # e => aud2[x] = aud[x]
  BY <1>0 DEF EventTypes
<1>7. \A d \in Conns : g[d][e] = 0 /\ (d \in to => g2[d][e] = 1)
  BY <1>0, <1>1 DEF Once, GotOnce
<1>8. wir2 = wir \/ wir2 = full
  BY <1>0
<1> HIDE DEF env, full
<1>9. OnceOnWire(wir2, g2, e)
  <2> SUFFICES ASSUME NEW p \in Procs, NEW x \in Event,
                      NEW i \in 1 .. Len(wir2[p]),
                      wir2[p][i].message = Relay(x)
               PROVE  /\ x <= e
                      /\ \A j \in 1 .. Len(wir2[p]) :
                            wir2[p][j].message = Relay(x) => j = i
                      /\ wir2[p][i].origin # p =>
                            \A d \in Conns : Proc[d] = p => g2[d][x] = 0
    BY DEF OnceOnWire
  <2>1. \A j \in 1 .. Len(wir[p]) : wir[p][j].message = Relay(x) => x <= n
    BY DEF Once, OnceOnWire
  <2>2. \A j \in 1 .. Len(wir2[p]) :
           \/ j \in 1 .. Len(wir[p]) /\ wir2[p][j] = wir[p][j]
           \/ j = Len(wir[p]) + 1 /\ wir2[p][j] = env
    BY <1>3, <1>8
  <2>3. CASE x = e
    <3>1. \A j \in 1 .. Len(wir2[p]) : wir2[p][j].message = Relay(x) =>
             j = Len(wir[p]) + 1 /\ wir2[p][j] = env
      <4>1. n \in Nat /\ x = n + 1 /\ ~ (x <= n)
        BY <1>1, <2>3
      <4> QED BY <2>1, <2>2, <4>1
    <3>2. q # p => \A d \in Conns : Proc[d] = p => g2[d][x] = 0
      BY <1>0, <1>7, <2>3
    <3> QED BY <1>1, <1>2, <2>3, <3>1, <3>2
  <2>4. CASE x # e
    <3>1. \A j \in 1 .. Len(wir2[p]) : wir2[p][j].message = Relay(x) =>
             j \in 1 .. Len(wir[p]) /\ wir2[p][j] = wir[p][j]
      BY <1>2, <1>5, <2>2, <2>4
    <3>2. \A d \in Conns : g2[d][x] = g[d][x]
      BY <1>0, <2>4
    <3>3. x <= e
      <4>1. x <= n /\ x \in Int
        BY <1>1, <2>1, <3>1
      <4> QED BY <1>1, <4>1
    <3>4. \A k \in 1 .. Len(wir[p]) :
             wir[p][k].message = Relay(x) =>
                /\ \A j \in 1 .. Len(wir[p]) :
                      wir[p][j].message = Relay(x) => j = k
                /\ wir[p][k].origin # p =>
                      \A d \in Conns : Proc[d] = p => g[d][x] = 0
      BY DEF Once, OnceOnWire
    <3>5. i \in 1 .. Len(wir[p]) /\ wir2[p][i] = wir[p][i]
      BY <3>1
    <3>6. /\ \A j \in 1 .. Len(wir[p]) : wir[p][j].message = Relay(x) => j = i
          /\ wir[p][i].origin # p =>
                \A d \in Conns : Proc[d] = p => g[d][x] = 0
      BY <3>4, <3>5
    <3>7. \A j \in 1 .. Len(wir2[p]) : wir2[p][j].message = Relay(x) => j = i
      BY <3>1, <3>6
    <3> QED BY <3>2, <3>3, <3>5, <3>6, <3>7
  <2> QED BY <2>3, <2>4
<1>10. GotOnce(g2, e)
  <2> SUFFICES ASSUME NEW d \in Conns, NEW x \in Event
               PROVE  g2[d][x] \in {0, 1} /\ (x > e => g2[d][x] = 0)
    BY DEF GotOnce
  <2>1. g[d][x] \in {0, 1} /\ (x > n => g[d][x] = 0)
    BY DEF Once, GotOnce
  <2>2. CASE x = e
    BY <1>0, <1>1, <1>7, <2>1, <2>2
  <2>3. CASE x # e
    <3>1. g2[d][x] = g[d][x]
      BY <1>0, <2>3
    <3>2. x \in Int /\ (x > e => x > n)
      BY <1>1
    <3> QED BY <2>1, <3>1, <3>2
  <2> QED BY <2>2, <2>3
<1>11. Served(op, mem, wir2, g2, aud2, e)
  <2> SUFFICES ASSUME NEW x \in Event, NEW d \in aud2[x]
               PROVE  /\ x <= e
                      /\ \E k \in Models : d \in mem[k]
                      /\ d \in op => \/ g2[d][x] = 1
                                     \/ Coming(mem, wir2[Proc[d]], x, d)
    BY DEF Served
  <2>1. d \in Conns /\ Proc[d] \in Procs
    BY <1>1, <1>6
  <2>2. CASE x = e
    BY <1>0, <1>1, <1>4, <1>6, <1>7, <2>1, <2>2
  <2>3. CASE x # e
    <3>1. d \in aud[x] /\ g2[d][x] = g[d][x]
      BY <1>0, <1>6, <2>1, <2>3
    <3>2. x <= n /\ (\E k \in Models : d \in mem[k])
          /\ (d \in op => g[d][x] = 1 \/ Coming(mem, wir[Proc[d]], x, d))
      BY <3>1 DEF Once, Served
    <3> QED BY <1>1, <1>4, <2>1, <3>1, <3>2
  <2> QED BY <2>2, <2>3
<1> QED BY <1>9, <1>10, <1>11 DEF Once

(* A replica handles its first message.                                    *)
LEMMA HandledOnce ==
    ASSUME NEW op, NEW mem, NEW wir, NEW g, NEW aud, NEW n \in Nat,
           EventTypes(mem, wir, g, aud), Once(op, mem, wir, g, aud, n),
           NEW p \in Procs, wir[p] # <<>>, NEW g2, NEW to,
           to = {d \in mem[Head(wir[p]).model] : Proc[d] = p /\ d \in op}
                    \ {NoConn},
           Head(wir[p]).origin = p => g2 = g,
           Head(wir[p]).origin # p =>
               g2 = Received(g, to, Head(wir[p]).message)
    PROVE  Once(op, mem, [wir EXCEPT ![p] = Tail(@)], g2, aud, n)
<1> DEFINE env  == Head(wir[p])
           wir2 == [wir EXCEPT ![p] = Tail(@)]
           w    == wir[p]
           v    == wir2[p]
<1>1. \A d \in Conns : Proc[d] \in Procs /\ d # NoConn
  BY ConstantsOK
<1>2. /\ Len(w) \in Nat /\ Len(w) >= 1 /\ w[1] = env /\ Len(v) = Len(w) - 1
      /\ \A i \in 1 .. Len(v) : v[i] = w[i + 1]
      /\ \A q \in Procs : q # p => wir2[q] = wir[q]
      /\ env \in Envelope
  <2>1. w \in Seq(Envelope) /\ w # <<>> /\ v = Tail(w)
    BY DEF EventTypes
  <2>2. \A q \in Procs : q # p => wir2[q] = wir[q]
    BY DEF EventTypes
  <2> HIDE DEF w, v, wir2
  <2>3. /\ Len(w) \in Nat /\ Len(w) >= 1 /\ w[1] = Head(w)
        /\ Len(v) = Len(w) - 1 /\ \A i \in 1 .. Len(v) : v[i] = w[i + 1]
        /\ Head(w) \in Envelope
    BY <2>1
  <2> QED BY <2>2, <2>3 DEF w
<1>3. env.model \in Models /\ env.message \in Notice
  BY <1>2 DEF Envelope
<1>4. to \in SUBSET Conns
      /\ \A d \in Conns : d \in to <=> /\ d \in mem[env.model] /\ Proc[d] = p
                                       /\ d \in op
  BY <1>1, <1>3 DEF EventTypes
<1>5. \A d \in Conns, x \in Event :
         g2[d][x] = IF d \in to /\ env.origin # p /\ env.message = Relay(x)
                    THEN g[d][x] + 1 ELSE g[d][x]
  <2>0. g \in [Conns -> [Event -> Nat]]
    BY DEF EventTypes
  <2> HIDE DEF env
  <2>1. CASE env.origin = p
    BY <2>1 DEF env
  <2>2. ASSUME env.origin # p, NEW u \in Users,
               env.message = Joined(u) \/ env.message = Left(u)
        PROVE  \A d \in Conns, x \in Event :
                  g2[d][x] = IF d \in to /\ env.origin # p
                                /\ env.message = Relay(x)
                             THEN g[d][x] + 1 ELSE g[d][x]
    <3>1. g2 = g
      BY <2>2, NoticeKinds DEF Received, env
    <3> QED BY <2>2, <3>1, NoticeKinds
  <2>3. ASSUME env.origin # p, NEW e \in Event, env.message = Relay(e)
        PROVE  \A d \in Conns, x \in Event :
                  g2[d][x] = IF d \in to /\ env.origin # p
                                /\ env.message = Relay(x)
                             THEN g[d][x] + 1 ELSE g[d][x]
    <3>1. g2 = [d \in Conns |-> IF d \in to THEN [g[d] EXCEPT ![e] = @ + 1]
                                            ELSE g[d]]
      BY <2>3, NoticeKinds DEF Received, env
    <3>2. \A x \in Event : env.message = Relay(x) <=> x = e
      BY <2>3, NoticeKinds
    <3> QED BY <2>0, <2>3, <3>1, <3>2
  <2> QED BY <1>3, <2>1, <2>2, <2>3, NoticeKinds
<1>6. \A x \in Event : env.message = Relay(x) =>
         /\ x <= n
         /\ \A i \in 1 .. Len(v) : v[i].message # Relay(x)
         /\ env.origin # p => \A d \in Conns : Proc[d] = p => g[d][x] = 0
  <2> SUFFICES ASSUME NEW x \in Event, env.message = Relay(x)
               PROVE  /\ x <= n
                      /\ \A i \in 1 .. Len(v) : v[i].message # Relay(x)
                      /\ env.origin # p =>
                            \A d \in Conns : Proc[d] = p => g[d][x] = 0
    OBVIOUS
  <2>1. 1 \in 1 .. Len(w) /\ w[1].message = Relay(x)
    BY <1>2
  <2>2. /\ x <= n
        /\ \A j \in 1 .. Len(w) : w[j].message = Relay(x) => j = 1
        /\ w[1].origin # p => \A d \in Conns : Proc[d] = p => g[d][x] = 0
    BY <2>1 DEF Once, OnceOnWire
  <2> HIDE DEF w, v, env
  <2>3. \A i \in 1 .. Len(v) : i + 1 \in 1 .. Len(w) /\ i + 1 # 1
    BY <1>2
  <2> QED BY <1>2, <2>2, <2>3
<1>7. \A d \in Conns, x \in Event : g[d][x] \in {0, 1} /\ (x > n => g[d][x] = 0)
  BY DEF Once, GotOnce
<1> HIDE DEF env, wir2, w, v
<1>8. OnceOnWire(wir2, g2, n)
  <2> SUFFICES ASSUME NEW q \in Procs, NEW x \in Event,
                      NEW i \in 1 .. Len(wir2[q]),
                      wir2[q][i].message = Relay(x)
               PROVE  /\ x <= n
                      /\ \A j \in 1 .. Len(wir2[q]) :
                            wir2[q][j].message = Relay(x) => j = i
                      /\ wir2[q][i].origin # q =>
                            \A d \in Conns : Proc[d] = q => g2[d][x] = 0
    BY DEF OnceOnWire
  <2>1. CASE q # p
    <3>1. wir2[q] = wir[q]
      BY <1>2, <2>1
    <3>2. \A d \in Conns : Proc[d] = q => g2[d][x] = g[d][x]
      BY <1>4, <1>5, <2>1
    <3> QED BY <3>1, <3>2 DEF Once, OnceOnWire
  <2>2. CASE q = p
    <3>1. /\ \A j \in 1 .. Len(v) : j + 1 \in 1 .. Len(w) /\ v[j] = w[j + 1]
          /\ v = wir2[q] /\ w = wir[q]
      BY <1>2, <2>2 DEF v, w
    <3>2. /\ x <= n
          /\ \A j \in 1 .. Len(w) : w[j].message = Relay(x) => j = i + 1
          /\ w[i + 1].origin # p =>
                \A d \in Conns : Proc[d] = p => g[d][x] = 0
      BY <2>2, <3>1 DEF Once, OnceOnWire
    <3>3. \A j \in 1 .. Len(v) : v[j].message = Relay(x) => j = i
      <4> SUFFICES ASSUME NEW j \in 1 .. Len(v), v[j].message = Relay(x)
                   PROVE  j = i
        OBVIOUS
      <4>1. j + 1 = i + 1
        BY <3>1, <3>2
      <4> QED BY <3>1, <4>1
    <3>4. env.message # Relay(x)
      BY <1>6, <3>1
    <3>5. \A d \in Conns : g2[d][x] = g[d][x]
      BY <1>5, <3>4
    <3> QED BY <2>2, <3>1, <3>2, <3>3, <3>5
  <2> QED BY <2>1, <2>2
<1>9. GotOnce(g2, n)
  <2> SUFFICES ASSUME NEW d \in Conns, NEW x \in Event
               PROVE  g2[d][x] \in {0, 1} /\ (x > n => g2[d][x] = 0)
    BY DEF GotOnce
  <2>1. CASE d \in to /\ env.origin # p /\ env.message = Relay(x)
    <3>1. g[d][x] = 0 /\ x <= n /\ n \in Nat /\ x \in Int
      BY <1>4, <1>6, <2>1 DEF Event
    <3>2. g2[d][x] = 1
      BY <1>5, <2>1, <3>1
    <3> QED BY <3>1, <3>2
  <2>2. CASE ~ (d \in to /\ env.origin # p /\ env.message = Relay(x))
    BY <1>5, <1>7, <2>2
  <2> QED BY <2>1, <2>2
<1>10. Served(op, mem, wir2, g2, aud, n)
  <2> SUFFICES ASSUME NEW x \in Event, NEW d \in aud[x], d \in op
               PROVE  g2[d][x] = 1 \/ Coming(mem, wir2[Proc[d]], x, d)
    BY DEF Once, Served
  <2>1. d \in Conns /\ Proc[d] \in Procs
    BY <1>1 DEF EventTypes
  <2>2. CASE g[d][x] = 1
    <3>1. ~ (d \in to /\ env.origin # p /\ env.message = Relay(x))
      <4>1. d \in to => Proc[d] = p
        BY <1>4, <2>1
      <4> QED BY <1>6, <2>1, <2>2, <4>1
    <3> QED BY <1>5, <2>1, <2>2, <3>1
  <2>3. CASE Coming(mem, wir[Proc[d]], x, d) /\ Proc[d] # p
    BY <1>2, <2>1, <2>3
  <2>4. CASE Coming(mem, w, x, d) /\ Proc[d] = p
    <3>1. PICK i \in 1 .. Len(w) : /\ w[i].message = Relay(x)
                                   /\ w[i].origin # p
                                   /\ d \in mem[w[i].model]
      BY <2>4 DEF Coming
    <3>2. CASE i = 1
      <4>1. d \in to /\ env.origin # p /\ env.message = Relay(x)
        BY <1>2, <1>4, <2>1, <2>4, <3>1, <3>2
      <4>2. g[d][x] = 0
        BY <1>6, <2>1, <2>4, <4>1
      <4> QED BY <1>5, <2>1, <4>1, <4>2
    <3>3. CASE i # 1
      <4>1. i - 1 \in 1 .. Len(v) /\ i - 1 + 1 = i
        BY <1>2, <3>3
      <4>2. v[i - 1] = w[i]
        BY <1>2, <4>1
      <4>3. Coming(mem, v, x, d)
        BY <2>4, <3>1, <4>1, <4>2 DEF Coming
      <4> QED BY <2>4, <4>3 DEF v
    <3> QED BY <3>2, <3>3
  <2> QED BY <2>1, <2>2, <2>3, <2>4 DEF Once, Served, w
<1> QED BY <1>8, <1>9, <1>10 DEF Once, wir2

-----------------------------------------------------------------------------
(* Delivery through the handlers: whether Redis takes their publications   *)
(* or keeps the queues that it had.                                        *)
Delivers(h, w) == Once(Open, h.members, w, h.got, h.audience, events)
Safely(h) == Delivers(h, wire) /\ Delivers(h, h.wire)

LEMMA HubEvents ==
    ASSUME NEW h, HubTypes(h), Consistent(h),
           NEW w \in [Procs -> Seq(Envelope)]
    PROVE  EventTypes(h.members, w, h.got, h.audience)
<1>1. \A d \in Conns, m, n \in Models :
         d \in h.members[m] /\ d \in h.members[n] => m = n
  BY DEF Consistent
<1> QED BY <1>1 DEF HubTypes, EventTypes

LEMMA LeaveDelivers ==
    ASSUME NEW h, HubTypes(h), Consistent(h), HubTypes(Hub), Safely(h),
           NEW c \in Conns, NEW m \in Models
    PROVE  Safely(leaveRoom(h, c, m))
<1> DEFINE g    == LeftHub(h, c, m)
           env  == Packet(Proc[c], m, Left(User[c]))
           k    == broadcast(g, c, m, Left(User[c]))
           mem2 == [h.members EXCEPT ![m] = @ \ {c}]
           aud2 == [e \in Event |-> IF c \in h.members[m]
                                    THEN h.audience[e] \ {c} ELSE h.audience[e]]
<1>1. /\ wire \in [Procs -> Seq(Envelope)] /\ h.wire \in [Procs -> Seq(Envelope)]
      /\ User[c] \in Users /\ Proc[c] \in Procs
  BY ConstantsOK DEF HubTypes, Hub
<1>2. \A w \in {wire, h.wire} :
         /\ EventTypes(mem2, w, h.got, aud2)
         /\ Once(Open, mem2, w, h.got, aud2, events)
  <2> TAKE w \in {wire, h.wire}
  <2>1. EventTypes(h.members, w, h.got, h.audience)
    BY <1>1, HubEvents
  <2>2. Once(Open, h.members, w, h.got, h.audience, events)
    BY DEF Safely, Delivers
  <2> QED BY <2>1, <2>2, LeaveOnce
<1>3. env \in Envelope /\ \A e \in Event : env.message # Relay(e)
  BY <1>1, PacketType, NoticeKinds DEF Packet
<1>4. Once(Open, mem2, AppendToAll(h.wire, env), h.got, aud2, events)
  <2> HIDE DEF mem2, aud2, env
  <2> QED BY <1>2, <1>3, PresenceOnce
<1>5. /\ HubTypes(g) /\ g.members = mem2 /\ g.wire = h.wire /\ g.got = h.got
      /\ g.audience = aud2
      /\ leaveRoom(h, c, m) = h \/ leaveRoom(h, c, m) = k
  <2>1. HubTypes(g)
    BY LeaveCases
  <2>2. /\ g.members = mem2 /\ g.wire = h.wire /\ g.got = h.got
        /\ g.audience = aud2
    BY DEF LeftHub, HubTypes, IsHub
  <2>3. leaveRoom(h, c, m) = h \/ leaveRoom(h, c, m) = k
    BY DEF leaveRoom, LeftHub
  <2> QED BY <2>1, <2>2, <2>3
<1> HIDE DEF g, mem2, aud2, env
<1>6. /\ k.members = g.members /\ k.audience = g.audience
      /\ k.wire = AppendToAll(g.wire, env)
      /\ k.got = Received(g.got, Hearers(g.members, Proc[c], m, c),
                          Left(User[c]))
  BY <1>5, BroadcastEffect DEF env
<1>7. k.got = h.got
  BY <1>1, <1>5, <1>6, NoticeKinds DEF Received
<1> HIDE DEF k
<1>8. Safely(k)
  BY <1>2, <1>4, <1>5, <1>6, <1>7 DEF Safely, Delivers
<1> QED BY <1>5, <1>8

LEMMA EnterDelivers ==
    ASSUME NEW h, HubTypes(h), Consistent(h), HubTypes(Hub), Safely(h),
           NEW c \in Conns, NEW m \in Models, h.current[c] = NoModel
    PROVE  Safely(EnterRoom(h, c, m))
<1> DEFINE g    == EnteredHub(h, c, m)
           env  == Packet(Proc[c], m, Joined(User[c]))
           k    == broadcast(g, c, m, Joined(User[c]))
           mem2 == [h.members EXCEPT ![m] = @ \cup {c}]
<1>0. \A n \in Models : c \notin h.members[n]
  BY ConstantsOK DEF Consistent
<1>1. /\ wire \in [Procs -> Seq(Envelope)] /\ h.wire \in [Procs -> Seq(Envelope)]
      /\ User[c] \in Users /\ Proc[c] \in Procs
  BY ConstantsOK DEF HubTypes, Hub
<1>2. \A w \in {wire, h.wire} :
         /\ EventTypes(mem2, w, h.got, h.audience)
         /\ Once(Open, mem2, w, h.got, h.audience, events)
  <2> TAKE w \in {wire, h.wire}
  <2>1. EventTypes(h.members, w, h.got, h.audience)
    BY <1>1, HubEvents
  <2>2. Once(Open, h.members, w, h.got, h.audience, events)
    BY DEF Safely, Delivers
  <2> QED BY <1>0, <2>1, <2>2, EnterOnce
<1>3. env \in Envelope /\ \A e \in Event : env.message # Relay(e)
  BY <1>1, PacketType, NoticeKinds DEF Packet
<1>4. Once(Open, mem2, AppendToAll(h.wire, env), h.got, h.audience, events)
  <2> HIDE DEF mem2, env
  <2> QED BY <1>2, <1>3, PresenceOnce
<1>5. /\ HubTypes(g) /\ g.members = mem2 /\ g.wire = h.wire /\ g.got = h.got
      /\ g.audience = h.audience
      /\ EnterRoom(h, c, m) = k
  <2>1. HubTypes(g)
    BY EnterCase
  <2>2. /\ g.members = mem2 /\ g.wire = h.wire /\ g.got = h.got
        /\ g.audience = h.audience
    BY DEF EnteredHub, HubTypes, IsHub
  <2>3. EnterRoom(h, c, m) = k
    BY DEF EnterRoom, EnteredHub
  <2> QED BY <2>1, <2>2, <2>3
<1> HIDE DEF g, mem2, env
<1>6. /\ k.members = g.members /\ k.audience = g.audience
      /\ k.wire = AppendToAll(g.wire, env)
      /\ k.got = Received(g.got, Hearers(g.members, Proc[c], m, c),
                          Joined(User[c]))
  BY <1>5, BroadcastEffect DEF env
<1>7. k.got = h.got
  BY <1>1, <1>5, <1>6, NoticeKinds DEF Received
<1> HIDE DEF k
<1>8. Safely(k)
  BY <1>2, <1>4, <1>5, <1>6, <1>7 DEF Safely, Delivers
<1> QED BY <1>5, <1>8

LEMMA JoinDelivers ==
    ASSUME NEW h, HubTypes(h), Consistent(h), HubTypes(Hub), Safely(h),
           NEW c \in Conns, NEW m \in Models
    PROVE  Safely(joinRoom(h, c, m))
<1>1. ASSUME NEW n \in Models,
             HubTypes(leaveRoom(h, c, n)), Consistent(leaveRoom(h, c, n)),
             leaveRoom(h, c, n).current[c] = NoModel,
             joinRoom(h, c, m) = EnterRoom(leaveRoom(h, c, n), c, m)
      PROVE  Safely(joinRoom(h, c, m))
  <2> DEFINE g == leaveRoom(h, c, n)
  <2>1. HubTypes(g) /\ Consistent(g) /\ g.current[c] = NoModel
        /\ joinRoom(h, c, m) = EnterRoom(g, c, m) /\ Safely(g)
    BY <1>1, LeaveDelivers
  <2> HIDE DEF g
  <2> QED BY <2>1, EnterDelivers
<1>2. h.current[c] = NoModel => Safely(EnterRoom(h, c, m))
  BY EnterDelivers
<1> QED BY <1>1, <1>2, JoinCases

(* What will be true of the sockets that are open now.                     *)
AfterStep == Once(Open, members', wire', got', audience', events')

LEMMA PublishDelivers ==
    ASSUME NEW h, HubTypes(h), Safely(h), SetAndPublish(h), events' = events
    PROVE  AfterStep
<1>1. PICK w \in Published(h) : SetHub([h EXCEPT !.wire = w])
  BY DEF SetAndPublish
<1>2. w \in {wire, h.wire}
  BY DEF Published
<1>3. /\ members' = h.members /\ wire' = w /\ got' = h.got
      /\ audience' = h.audience
  BY <1>1 DEF SetHub, HubTypes, IsHub
<1> QED BY <1>2, <1>3 DEF Safely, Delivers, AfterStep

LEMMA RelayDelivers ==
    ASSUME ServerInv, Delivers(Hub, wire), NEW c \in Conns, relay(c), ~ RoomsStay
    PROVE  AfterStep
<1>0. /\ HubTypes(Hub) /\ Consistent(Hub) /\ events \in 0 .. MaxEvents
      /\ MaxEvents \in Nat
  BY ConstantsOK DEF ServerInv, Types, RestTypes
<1>1. PICK m \in Models, e \in Event :
         \E w \in {wire, AppendToAll(wire, Packet(Proc[c], m, Relay(e)))} :
            /\ m = current[c] /\ e = events + 1 /\ events' = e
            /\ w = wire => "redis" \in Enabled
            /\ UNCHANGED <<current, members, view>> /\ wire' = w
            /\ got' = Received(got, Hearers(members, Proc[c], m, c), Relay(e))
            /\ audience' = [audience EXCEPT ![e] =
                  {d \in members[m] \ {c} :
                     sock[d] = "open" /\ (w = wire => Proc[d] = Proc[c])}]
  BY <1>0, RelayFields
<1> DEFINE to == Hearers(members, Proc[c], m, c)
           a  == {d \in members[m] \ {c} :
                     sock[d] = "open" /\ (wire' = wire => Proc[d] = Proc[c])}
<1>2. /\ e = events + 1 /\ events' = e /\ members' = members
      /\ wire' \in {wire, AppendToAll(wire, Packet(Proc[c], m, Relay(e)))}
      /\ got' = Received(got, to, Relay(e))
      /\ audience' = [audience EXCEPT ![e] = a]
  BY <1>1
<1>3. /\ members \in [Models -> SUBSET Conns] /\ got \in [Conns -> [Event -> Nat]]
      /\ wire \in [Procs -> Seq(Envelope)] /\ view \in [Conns -> SUBSET Users]
  BY <1>0 DEF HubTypes, Hub
<1>4. EventTypes(members, wire, got, audience)
      /\ Once(Open, members, wire, got, audience, events)
  <2>1. EventTypes(Hub.members, wire, Hub.got, Hub.audience)
    BY <1>0, <1>3, HubEvents
  <2> QED BY <2>1 DEF Delivers, Hub
<1>5. /\ to \in SUBSET Conns /\ a \in SUBSET Conns
      /\ \A d \in to : Proc[d] = Proc[c]
      /\ \A d \in a : d \in members[m]
                      /\ (d \in to \/ (wire' # wire /\ Proc[d] # Proc[c]))
  BY <1>3 DEF Hearers
<1>6. got' \in [Conns -> [Event -> Nat]]
      /\ \A d \in Conns, x \in Event :
            got'[d][x] = IF d \in to /\ x = e THEN got[d][x] + 1 ELSE got[d][x]
  <2> HIDE DEF to, a
  <2>1. got' = [d \in Conns |-> IF d \in to THEN [got[d] EXCEPT ![e] = @ + 1]
                                            ELSE got[d]]
    BY <1>2, NoticeKinds DEF Received
  <2> QED BY <1>3, <2>1
<1>7. Proc[c] \in Procs \cup {"api"} /\ events \in Nat
  BY <1>0, ConstantsOK
<1> HIDE DEF to, a
<1>8. PICK g2, wir2, aud2 : g2 = got' /\ wir2 = wire' /\ aud2 = audience'
  OBVIOUS
<1>9. PICK to2, a2 : to2 = to /\ a2 = a
  OBVIOUS
<1>10. NewEvent(members, wire, got, e, m, Proc[c], to2, g2, wir2, a2)
  BY <1>2, <1>5, <1>6, <1>8, <1>9 DEF NewEvent
<1>11. aud2 = [audience EXCEPT ![e] = a2]
  BY <1>2, <1>8, <1>9
<1>12. Once(Open, members, wir2, g2, aud2, e)
  BY <1>2, <1>4, <1>7, <1>10, <1>11, NewEventOnce
<1> QED BY <1>2, <1>8, <1>12 DEF AfterStep

LEMMA ApiDelivers ==
    ASSUME ServerInv, Delivers(Hub, wire), NEW m \in Models,
           publish_room_event(m)
    PROVE  AfterStep
<1>0. /\ HubTypes(Hub) /\ Consistent(Hub) /\ events \in 0 .. MaxEvents
      /\ MaxEvents \in Nat
  BY ConstantsOK DEF ServerInv, Types, RestTypes
<1>1. PICK e \in Event :
         \E w \in {wire, AppendToAll(wire, Packet("api", m, Relay(e)))} :
            /\ e = events + 1 /\ events' = e
            /\ UNCHANGED <<current, members, view, got>> /\ wire' = w
            /\ audience' = [audience EXCEPT ![e] =
                  {d \in members[m] : sock[d] = "open" /\ w # wire}]
  BY <1>0, PublishFields
<1> DEFINE a == {d \in members[m] : sock[d] = "open" /\ wire' # wire}
<1>2. /\ e = events + 1 /\ events' = e /\ members' = members /\ got' = got
      /\ wire' \in {wire, AppendToAll(wire, Packet("api", m, Relay(e)))}
      /\ audience' = [audience EXCEPT ![e] = a]
  BY <1>1
<1>3. /\ members \in [Models -> SUBSET Conns]
      /\ wire \in [Procs -> Seq(Envelope)]
      /\ \A d \in Conns : Proc[d] # "api"
  BY <1>0, ConstantsOK DEF HubTypes, Hub
<1>4. EventTypes(members, wire, got, audience)
      /\ Once(Open, members, wire, got, audience, events)
  <2>1. EventTypes(Hub.members, wire, Hub.got, Hub.audience)
    BY <1>0, <1>3, HubEvents
  <2> QED BY <2>1 DEF Delivers, Hub
<1>5. /\ a \in SUBSET Conns
      /\ \A d \in a : d \in members[m] /\ wire' # wire /\ Proc[d] # "api"
  BY <1>3
<1>6. events \in Nat
  BY <1>0
<1> HIDE DEF a
<1>7. PICK wir2, aud2, a2 : wir2 = wire' /\ aud2 = audience' /\ a2 = a
  OBVIOUS
<1>8. NewEvent(members, wire, got, e, m, "api", {}, got, wir2, a2)
  BY <1>2, <1>5, <1>7 DEF NewEvent
<1>9. aud2 = [audience EXCEPT ![e] = a2]
  BY <1>2, <1>7
<1>10. Once(Open, members, wir2, got, aud2, e)
  <2>1. PICK to, q, g2 : to = {} /\ q = "api" /\ g2 = got
    OBVIOUS
  <2>2. NewEvent(members, wire, got, e, m, q, to, g2, wir2, a2)
        /\ q \in Procs \cup {"api"}
    BY <1>8, <2>1
  <2>3. Once(Open, members, wir2, g2, aud2, e)
    BY <1>2, <1>4, <1>6, <1>9, <2>2, NewEventOnce
  <2> QED BY <2>1, <2>3
<1> QED BY <1>2, <1>7, <1>10 DEF AfterStep

LEMMA HandledDelivers ==
    ASSUME ServerInv, Delivers(Hub, wire), NEW p \in Procs, pmessage(p)
    PROVE  AfterStep
<1>0. HubTypes(Hub) /\ Consistent(Hub) /\ events \in Nat
  BY ConstantsOK DEF ServerInv, Types, RestTypes
<1> DEFINE env == Head(wire[p])
           to  == Hearers(members, p, env.model, NoConn)
           op  == {d \in members[env.model] : Proc[d] = p /\ d \in Open}
                     \ {NoConn}
<1>1. /\ wire[p] # <<>> /\ env \in Envelope
      /\ wire' = [wire EXCEPT ![p] = Tail(@)]
      /\ UNCHANGED <<members, audience, events>>
      /\ env.origin = p => got' = got
      /\ env.origin # p => got' = Received(got, to, env.message)
  BY <1>0, PmessageFields
<1>2. EventTypes(members, wire, got, audience)
      /\ Once(Open, members, wire, got, audience, events)
  <2>1. wire \in [Procs -> Seq(Envelope)]
    BY <1>0 DEF HubTypes, Hub
  <2>2. EventTypes(Hub.members, wire, Hub.got, Hub.audience)
    BY <1>0, <2>1, HubEvents
  <2> QED BY <2>2 DEF Delivers, Hub
<1>3. to = op
  <2>1. members[env.model] \subseteq Conns
    BY <1>1, <1>2 DEF EventTypes, Envelope
  <2> HIDE DEF env
  <2> QED BY <2>1 DEF Hearers, Open
<1>4. PICK g2, x : g2 = got' /\ x = to
  OBVIOUS
<1>5. /\ x = op /\ (env.origin = p => g2 = got)
      /\ env.origin # p => g2 = Received(got, x, env.message)
  BY <1>1, <1>3, <1>4
<1>6. Once(Open, members, [wire EXCEPT ![p] = Tail(@)], g2, audience, events)
  BY <1>0, <1>1, <1>2, <1>5, HandledOnce
<1> QED BY <1>1, <1>4, <1>6 DEF AfterStep

LEMMA RoomDelivers ==
    ASSUME ServerInv, Delivers(Hub, wire), RoomStep
    PROVE  AfterStep
<1>0. HubTypes(Hub) /\ Consistent(Hub) /\ Safely(Hub)
  BY DEF ServerInv, Types, Safely, Hub
<1>1. CASE RoomsStay
  BY <1>1 DEF RoomsStay, roomVars, Delivers, Hub, AfterStep
<1>2. ASSUME NEW c \in Conns, NEW m \in Models, Leaves(c, m)
      PROVE  AfterStep
  <2> DEFINE k == leaveRoom(Hub, c, m)
  <2>1. HubTypes(k) /\ Safely(k) /\ SetAndPublish(k) /\ events' = events
    BY <1>0, <1>2, LeaveTypes, LeaveDelivers DEF Leaves
  <2> HIDE DEF k
  <2> QED BY <2>1, PublishDelivers
<1>3. ASSUME NEW c \in Conns, NEW m \in Models, Enters(c, m)
      PROVE  AfterStep
  <2> DEFINE k == joinRoom(Hub, c, m)
  <2>1. HubTypes(k) /\ Safely(k) /\ SetAndPublish(k) /\ events' = events
    BY <1>0, <1>3, JoinTypes, JoinDelivers DEF Enters
  <2> HIDE DEF k
  <2> QED BY <2>1, PublishDelivers
<1> QED BY <1>1, <1>2, <1>3, RelayDelivers, ApiDelivers, HandledDelivers
        DEF RoomStep

(* Who closes, or opens outside all rooms, is in no audience.              *)
LEMMA OpenOnce ==
    ASSUME NEW op, NEW op2, NEW mem, NEW wir, NEW g, NEW aud, NEW n,
           aud \in [Event -> SUBSET Conns], Once(op, mem, wir, g, aud, n),
           \A d \in Conns, m \in Models : d \in op2 /\ d \in mem[m] => d \in op
    PROVE  Once(op2, mem, wir, g, aud, n)
<1> SUFFICES ASSUME NEW e \in Event, NEW d \in aud[e]
             PROVE  /\ e <= n
                    /\ \E m \in Models : d \in mem[m]
                    /\ d \in op2 => g[d][e] = 1 \/ Coming(mem, wir[Proc[d]], e, d)
  BY DEF Once, Served
<1>1. /\ d \in Conns /\ e <= n /\ \E m \in Models : d \in mem[m]
      /\ d \in op => g[d][e] = 1 \/ Coming(mem, wir[Proc[d]], e, d)
  BY DEF Once, Served
<1> QED BY <1>1

LEMMA NextDelivers ==
    ASSUME ServerInv, Delivers(Hub, wire), [Next]_vars
    PROVE  Delivers(Hub, wire)'
<1>1. AfterStep
  BY NextRooms, RoomDelivers DEF ServerInv, Types, RestTypes
<1>2. \A d \in Conns, m \in Models :
         d \in Open' /\ d \in members'[m] => d \in Open
  BY OpensOutside
<1>3. audience' \in [Event -> SUBSET Conns]
  <2>1. Types'
    BY NextTypes DEF ServerInv
  <2> QED BY <2>1 DEF Types, HubTypes, Hub
<1>4. Once(Open', members', wire', got', audience', events')
  <2>1. \A op, op2, mem, wir, g, aud, n :
           /\ aud \in [Event -> SUBSET Conns] /\ Once(op, mem, wir, g, aud, n)
           /\ \A d \in Conns, m \in Models :
                 d \in op2 /\ d \in mem[m] => d \in op
           => Once(op2, mem, wir, g, aud, n)
    BY OpenOnce
  <2> QED BY <1>1, <1>2, <1>3, <2>1 DEF AfterStep
<1> QED BY <1>4 DEF Delivers, Hub

(***************************************************************************)
(* Whatever fails, no client receives a room event twice, and once all     *)
(* messages are handled every client that stayed in the room has it, if    *)
(* Redis took the event or the sender is on the client's replica.          *)
(***************************************************************************)
THEOREM EventsArriveOnce == Spec => []DeliveredOnce
<1>1. Init => Delivers(Hub, wire)
  <2> SUFFICES ASSUME Init  PROVE Delivers(Hub, wire)
    OBVIOUS
  <2>1. /\ \A p \in Procs : Len(wire[p]) = 0
        /\ \A d \in Conns, e \in Event : got[d][e] = 0
        /\ \A e \in Event : audience[e] = {}
    BY DEF Init
  <2>2. 1 .. 0 = {}
    OBVIOUS
  <2> QED BY <2>1, <2>2 DEF Delivers, Hub, Once, OnceOnWire, GotOnce, Served
<1>2. ServerInv /\ Delivers(Hub, wire) /\ [Next]_vars => Delivers(Hub, wire)'
  BY NextDelivers
<1>3. ServerInv /\ Delivers(Hub, wire) => DeliveredOnce
  <2> SUFFICES ASSUME ServerInv, Delivers(Hub, wire)  PROVE DeliveredOnce
    OBVIOUS
  <2>1. \A d \in Conns, e \in Event : got[d][e] <= 1
    BY DEF Delivers, Hub, Once, GotOnce
  <2>2. ASSUME \A p \in Procs : wire[p] = <<>>,
               NEW e \in Event, NEW d \in audience[e], sock[d] = "open"
        PROVE  got[d][e] = 1
    <3>1. d \in Conns /\ Proc[d] \in Procs
      BY ConstantsOK DEF ServerInv, Types, HubTypes, Hub
    <3>2. ~ Coming(members, wire[Proc[d]], e, d)
      BY <2>2, <3>1 DEF Coming
    <3> QED BY <2>2, <3>1, <3>2 DEF Delivers, Hub, Once, Served, Open
  <2> QED BY <2>1, <2>2 DEF DeliveredOnce
<1> QED BY <1>1, <1>2, <1>3, AlwaysServer, PTL DEF Spec

=============================================================================
