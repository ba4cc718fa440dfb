------------------------------ MODULE WsServer ------------------------------
(***************************************************************************)
(* apps/ws-server/src/server.js: the life of a WebSocket connection (Redis *)
(* subscription, authorised joins, readiness gate, heartbeat, cleanup),    *)
(* the rooms of one model, and the fan-out of room events to the other     *)
(* replicas over Redis.  A replica is a single-threaded event loop: what   *)
(* runs between two awaits or callbacks is one step, except that the       *)
(* messages queued before readiness are drained one by one while `loop'    *)
(* keeps the replica's other callbacks waiting.                            *)
(***************************************************************************)
EXTENDS Integers, Sequences, FiniteSets

CONSTANTS
    Conns,                \* WebSocket connections
    Users,                \* users
    Models,               \* models with a room
    Procs,                \* ws-server replicas
    User,                 \* User[c]: the token's subject
    Proc,                 \* Proc[c]: the replica c is connected to
    Access,               \* <<user, model>> pairs the API authorises
    MAX_PENDING_MESSAGES,
    MaxSent,              \* bound: messages the clients send
    MaxEvents,            \* bound: events broadcast to rooms
    Enabled,              \* optional events: see OptionalEvents
    NoModel, NoConn

VARIABLES
    sock,        \* socket.readyState; "none" before the upgrade
    phase,       \* how far the connect handler has come
    initial,     \* the model_id of the connect URL
    pending,     \* pendingMessages
    joins,       \* JOIN_MODEL authorisations in flight, per model
    current,     \* currentModelId
    members,     \* rooms (of all replicas)
    registered,  \* userConnections
    subscribed,  \* connections with a Redis subscriber on model_events
    gauge,       \* ws_connected_clients
    beat,        \* heartbeatTimer and pongTimer
    loop,        \* the connection whose queue the replica is draining
    wire,        \* ws:room messages each replica has not handled yet
    view,        \* users each client saw join its room and not leave it
    got,         \* times each client received each event
    audience,    \* history: clients present since the event was sent, if it was
    sent, events \* counters for the bounds

connVars == <<sock, phase, initial, pending, joins, beat>>
hubVars  == <<registered, subscribed, gauge>>
roomVars == <<current, members, wire, view, got, audience>>
vars == <<connVars, hubVars, roomVars, loop, sent, events>>

Sock  == {"none", "open", "closing", "closed"}
Phase == {"none", "subscribing", "authorizing", "ready", "refused"}
Beat  == {"off", "idle", "pinged"}
Event == 1 .. MaxEvents

Message == [event : {"JOIN_MODEL", "LEAVE_MODEL"}, model : Models]
             \cup [event : {"ROOM_EVENT", "PONG"}, model : {NoModel}]
Notice  == [event : {"USER_JOINED", "USER_LEFT"}, user : Users]
             \cup [event : {"ROOM_EVENT"}, id : Event]
Envelope == [origin : Procs \cup {"api"}, model : Models, message : Notice]

(* The API or Redis unreachable, a subscription refused, a socket error,   *)
(* the heartbeat's timers, clients that disconnect.                        *)
OptionalEvents == {"api", "redis", "subscribe", "error", "heartbeat", "close"}

ASSUME ConstantsOK ==
    /\ User \in [Conns -> Users]
    /\ Proc \in [Conns -> Procs]
    /\ Access \subseteq Users \X Models
    /\ MAX_PENDING_MESSAGES \in Nat /\ MaxSent \in Nat /\ MaxEvents \in Nat
    /\ Enabled \subseteq OptionalEvents
    /\ NoModel \notin Models /\ NoConn \notin Conns /\ "api" \notin Procs

TypeOK ==
    /\ sock \in [Conns -> Sock]
    /\ phase \in [Conns -> Phase]
    /\ initial \in [Conns -> Models \cup {NoModel}]
    /\ pending \in [Conns -> Seq(Message)]
    /\ joins \in [Conns -> [Models -> Nat]]
    /\ current \in [Conns -> Models \cup {NoModel}]
    /\ members \in [Models -> SUBSET Conns]
    /\ registered \subseteq Conns
    /\ subscribed \subseteq Conns
    /\ gauge \in Int
    /\ beat \in [Conns -> Beat]
    /\ loop \in [Procs -> Conns \cup {NoConn}]
    /\ wire \in [Procs -> Seq(Envelope)]
    /\ view \in [Conns -> SUBSET Users]
    /\ got \in [Conns -> [Event -> Nat]]
    /\ audience \in [Event -> SUBSET Conns]
    /\ sent \in 0 .. MaxSent
    /\ events \in 0 .. MaxEvents

Init ==
    /\ sock = [c \in Conns |-> "none"]
    /\ phase = [c \in Conns |-> "none"]
    /\ initial = [c \in Conns |-> NoModel]
    /\ pending = [c \in Conns |-> <<>>]
    /\ joins = [c \in Conns |-> [m \in Models |-> 0]]
    /\ current = [c \in Conns |-> NoModel]
    /\ members = [m \in Models |-> {}]
    /\ registered = {}
    /\ subscribed = {}
    /\ gauge = 0
    /\ beat = [c \in Conns |-> "off"]
    /\ loop = [p \in Procs |-> NoConn]
    /\ wire = [p \in Procs |-> <<>>]
    /\ view = [c \in Conns |-> {}]
    /\ got = [c \in Conns |-> [e \in Event |-> 0]]
    /\ audience = [e \in Event |-> {}]
    /\ sent = 0
    /\ events = 0

-----------------------------------------------------------------------------
(* Room broadcasts.  A value h of the record Hub stands for roomVars, so   *)
(* that a handler that leaves one room and joins another is a composition. *)

Hub == [current |-> current, members |-> members, wire |-> wire,
        view |-> view, got |-> got, audience |-> audience]

SetHub(h) ==
    /\ current' = h.current /\ members' = h.members /\ wire' = h.wire
    /\ view' = h.view /\ got' = h.got /\ audience' = h.audience

(* What a handler's broadcasts leave in Redis: nothing if it rejects them; *)
(* the rejection is logged, and this replica's clients have them anyway.   *)
Published(h) == {h.wire} \cup (IF "redis" \in Enabled THEN {wire} ELSE {})

SetAndPublish(h) == \E w \in Published(h) : SetHub([h EXCEPT !.wire = w])

Joined(u) == [event |-> "USER_JOINED", user |-> u]
Left(u)   == [event |-> "USER_LEFT", user |-> u]
Relay(e)  == [event |-> "ROOM_EVENT", id |-> e]

(* Deliver to the open members of room m on replica p, except one.         *)
broadcastToLocalRoom(h, p, m, msg, exclude) ==
    LET to == {d \in h.members[m] : Proc[d] = p /\ sock[d] = "open"} \ {exclude}
    IN CASE msg.event = "USER_JOINED" ->
              [h EXCEPT !.view = [d \in Conns |->
                  IF d \in to THEN @[d] \cup {msg.user} ELSE @[d]]]
         [] msg.event = "USER_LEFT" ->
              [h EXCEPT !.view = [d \in Conns |->
                  IF d \in to THEN @[d] \ {msg.user} ELSE @[d]]]
         [] OTHER ->
              [h EXCEPT !.got = [d \in Conns |->
                  IF d \in to THEN [h.got[d] EXCEPT ![msg.id] = @ + 1]
                              ELSE h.got[d]]]

(* PUBLISH: every replica's subscriber will see the envelope, its origin's *)
(* own included.                                                           *)
Publish(h, origin, m, msg) ==
    [h EXCEPT !.wire = [p \in Procs |->
        Append(@[p], [origin |-> origin, model |-> m, message |-> msg])]]

(* Mutant: a room without members on this replica is not published to.     *)
broadcast_if_occupied(h, c, m, msg) ==
    IF \A d \in h.members[m] : Proc[d] # Proc[c] THEN h
    ELSE Publish(broadcastToLocalRoom(h, Proc[c], m, msg, c), Proc[c], m, msg)

broadcast(h, c, m, msg) ==
    Publish(broadcastToLocalRoom(h, Proc[c], m, msg, c), Proc[c], m, msg)

(* Nothing happens if this replica has no such room; a room with members   *)
(* hears USER_LEFT even from a connection that was not in it.              *)
leaveRoom(h, c, m) ==
    IF \A d \in h.members[m] : Proc[d] # Proc[c] THEN h
    ELSE broadcast([h EXCEPT !.members[m] = @ \ {c},
                             !.current[c] = IF @ = m THEN NoModel ELSE @,
                             !.view[c] = IF c \in h.members[m] THEN {} ELSE @,
                             !.audience = [e \in Event |->
                                 IF c \in h.members[m] THEN @[e] \ {c} ELSE @[e]]],
                   c, m, Left(User[c]))

EnterRoom(h, c, m) ==
    broadcast([h EXCEPT !.current[c] = m, !.members[m] = @ \cup {c}],
              c, m, Joined(User[c]))

(* Mutant: the room joined before is not left.                             *)
joinRoomKeepsOld(h, c, m) ==
    IF h.current[c] = m THEN h ELSE EnterRoom(h, c, m)

joinRoom(h, c, m) ==
    IF h.current[c] = m THEN h
    ELSE EnterRoom(IF h.current[c] = NoModel THEN h
                   ELSE leaveRoom(h, c, h.current[c]), c, m)

-----------------------------------------------------------------------------
(* The connect handler.                                                    *)

Free(c) == loop[Proc[c]] = NoConn

(* Upgrade with a valid token; the dedicated subscriber starts to          *)
(* subscribe.  (An invalid token is closed at once and leaves no trace.)   *)
connect(c) ==
    /\ Free(c) /\ sock[c] = "none"
    /\ sock' = [sock EXCEPT ![c] = "open"]
    /\ phase' = [phase EXCEPT ![c] = "subscribing"]
    /\ \E m \in Models \cup {NoModel} : initial' = [initial EXCEPT ![c] = m]
    /\ UNCHANGED <<pending, joins, beat, hubVars, roomVars, loop, sent, events>>

(* startHeartbeat; connectionReady = true; drain what was queued.          *)
BecomeReady(c) ==
    /\ phase' = [phase EXCEPT ![c] = "ready"]
    /\ beat' = [beat EXCEPT ![c] = "idle"]
    /\ loop' = [loop EXCEPT ![Proc[c]] = IF pending[c] = <<>> THEN NoConn ELSE c]

(* The subscription is confirmed: register, and authorise the initial      *)
(* model, if any, before becoming ready.                                   *)
subscribed_ok(c) ==
    /\ Free(c) /\ phase[c] = "subscribing"
    /\ subscribed' = subscribed \cup {c}
    /\ registered' = registered \cup {c}
    /\ gauge' = gauge + 1
    /\ IF initial[c] = NoModel
       THEN BecomeReady(c)
       ELSE phase' = [phase EXCEPT ![c] = "authorizing"] /\ UNCHANGED <<beat, loop>>
    /\ UNCHANGED <<sock, initial, pending, joins, roomVars, sent, events>>

(* Mutant: the connection is registered although subscribing failed.       *)
subscribe_fails_open(c) ==
    /\ "subscribe" \in Enabled
    /\ Free(c) /\ phase[c] = "subscribing"
    /\ registered' = registered \cup {c}
    /\ gauge' = gauge + 1
    /\ BecomeReady(c)
    /\ UNCHANGED <<sock, initial, pending, joins, subscribed, roomVars, sent,
                   events>>

(* The subscription fails: the connection is closed, never registered.     *)
subscribe_fails(c) ==
    /\ "subscribe" \in Enabled
    /\ Free(c) /\ phase[c] = "subscribing"
    /\ phase' = [phase EXCEPT ![c] = "refused"]
    /\ sock' = [sock EXCEPT ![c] = IF @ = "open" THEN "closing" ELSE @]
    /\ UNCHANGED <<initial, pending, joins, beat, hubVars, roomVars, loop,
                   sent, events>>

(* Mutant: an unreachable API does not stop the join.                      *)
authorize_fails_open(c, m) ==
    {(<<User[c], m>> \in Access)} \cup (IF "api" \in Enabled THEN {TRUE} ELSE {})

(* What authorizeModelAccess may answer: the API's rule, or "no" if it is  *)
(* unreachable or late.                                                    *)
authorizeModelAccess(c, m) ==
    {(<<User[c], m>> \in Access)} \cup (IF "api" \in Enabled THEN {FALSE} ELSE {})

(* The answer arrives: join if authorised and still connected.             *)
requestJoinRoom(c, m) ==
    \E authorized \in authorizeModelAccess(c, m) :
        SetAndPublish(IF authorized /\ sock[c] = "open" THEN joinRoom(Hub, c, m)
                                                      ELSE Hub)

initial_join(c) ==
    /\ Free(c) /\ phase[c] = "authorizing"
    /\ requestJoinRoom(c, initial[c])
    /\ BecomeReady(c)
    /\ UNCHANGED <<sock, initial, pending, joins, hubVars, sent, events>>

(* Mutant: a request is answered a second time, by its timeout.            *)
join_answered_again(c, m) ==
    /\ Free(c) /\ sock[c] = "open"
    /\ joins' = [joins EXCEPT ![c][m] = @ - 1]
    /\ requestJoinRoom(c, m)
    /\ UNCHANGED <<sock, phase, initial, pending, beat, hubVars, loop,
                   sent, events>>

join_answered(c, m) ==
    /\ Free(c) /\ joins[c][m] > 0
    /\ joins' = [joins EXCEPT ![c][m] = @ - 1]
    /\ requestJoinRoom(c, m)
    /\ UNCHANGED <<sock, phase, initial, pending, beat, hubVars, loop,
                   sent, events>>

-----------------------------------------------------------------------------
(* Messages of the client.                                                 *)

(* A relayed event, unless the throttle or the validation drops it.        *)
relay(c) ==
    \/ /\ current[c] # NoModel /\ events < MaxEvents
       /\ events' = events + 1
       /\ LET m == current[c]
              h == broadcast(Hub, c, m, Relay(events + 1))
          IN \E w \in Published(h) :
               SetHub([h EXCEPT !.wire = w, !.audience[events + 1] =
                   {d \in members[m] \ {c} :
                       sock[d] = "open" /\ (w = wire => Proc[d] = Proc[c])}])
    \/ UNCHANGED <<events, roomVars>>

processMessage(c, msg) ==
    CASE msg.event = "JOIN_MODEL" ->
           /\ joins' = [joins EXCEPT ![c][msg.model] = @ + 1]
           /\ UNCHANGED <<roomVars, beat, events>>
      [] msg.event = "LEAVE_MODEL" ->
           /\ SetAndPublish(leaveRoom(Hub, c, msg.model))
           /\ UNCHANGED <<joins, beat, events>>
      [] msg.event = "ROOM_EVENT" ->
           relay(c) /\ UNCHANGED <<joins, beat>>
      [] msg.event = "PONG" ->
           /\ beat' = [beat EXCEPT ![c] = IF @ = "pinged" THEN "idle" ELSE @]
           /\ UNCHANGED <<joins, roomVars, events>>

(* socket.on('message'): queue until ready, process afterwards.            *)
on_message(c, msg) ==
    /\ Free(c) /\ sock[c] = "open" /\ sent < MaxSent
    /\ sent' = sent + 1
    /\ IF phase[c] = "ready"
       THEN processMessage(c, msg) /\ UNCHANGED pending
       ELSE /\ pending' = IF Len(pending[c]) >= MAX_PENDING_MESSAGES THEN pending
                          ELSE [pending EXCEPT ![c] = Append(@, msg)]
            /\ UNCHANGED <<joins, roomVars, beat, events>>
    /\ UNCHANGED <<sock, phase, initial, hubVars, loop>>

drain(c) ==
    /\ loop[Proc[c]] = c
    /\ processMessage(c, Head(pending[c]))
    /\ pending' = [pending EXCEPT ![c] = Tail(@)]
    /\ loop' = [loop EXCEPT ![Proc[c]] = IF Tail(pending[c]) = <<>>
                                         THEN NoConn ELSE c]
    /\ UNCHANGED <<sock, phase, initial, hubVars, sent>>

-----------------------------------------------------------------------------
(* Closing.                                                                *)

(* Stops the timers, leaves the room, forgets the connection, quits its    *)
(* subscriber, and counts it out: on every call.                           *)
cleanup(c) ==
    /\ beat' = [beat EXCEPT ![c] = "off"]
    /\ SetAndPublish(IF current[c] = NoModel THEN Hub
                     ELSE leaveRoom(Hub, c, current[c]))
    /\ registered' = registered \ {c}
    /\ subscribed' = subscribed \ {c}
    /\ gauge' = gauge - 1

NoCleanup(c) == UNCHANGED <<beat, roomVars, hubVars>>

(* The peer starts the closing handshake, or the connection breaks.        *)
closing(c) ==
    /\ "close" \in Enabled
    /\ Free(c) /\ sock[c] = "open"
    /\ sock' = [sock EXCEPT ![c] = "closing"]
    /\ UNCHANGED <<phase, initial, pending, joins, beat, hubVars, roomVars, loop,
                   sent, events>>

(* The 'close' event: its listener exists only once the connection is ready. *)
on_close(c) ==
    /\ Free(c) /\ sock[c] = "closing"
    /\ sock' = [sock EXCEPT ![c] = "closed"]
    /\ IF phase[c] = "ready" THEN cleanup(c) ELSE NoCleanup(c)
    /\ UNCHANGED <<phase, initial, pending, joins, loop, sent, events>>

(* An 'error' event: ws is closing by then; 'close' follows.               *)
on_error(c) ==
    /\ "error" \in Enabled
    /\ Free(c) /\ sock[c] = "open" /\ phase[c] = "ready"
    /\ sock' = [sock EXCEPT ![c] = "closing"]
    /\ cleanup(c)
    /\ UNCHANGED <<phase, initial, pending, joins, loop, sent, events>>

(* Mutant: the heartbeat does not look at the socket's state.              *)
heartbeat_blind(c) ==
    /\ "heartbeat" \in Enabled
    /\ Free(c) /\ beat[c] = "idle" /\ sock[c] = "open"
    /\ beat' = [beat EXCEPT ![c] = "pinged"]
    /\ UNCHANGED <<sock, phase, initial, pending, joins, hubVars, roomVars, loop,
                   sent, events>>

(* The interval (30 s, longer than the pong timeout of 10 s): forget a     *)
(* socket that is not open any more, else PING and arm the pong timer.     *)
heartbeat(c) ==
    /\ "heartbeat" \in Enabled
    /\ Free(c) /\ beat[c] = "idle"
    /\ IF sock[c] # "open"
       THEN cleanup(c)
       ELSE /\ beat' = [beat EXCEPT ![c] = "pinged"]
            /\ UNCHANGED <<roomVars, hubVars>>
    /\ UNCHANGED <<sock, phase, initial, pending, joins, loop, sent, events>>

(* No PONG within 10 s: close the socket and clean up.                     *)
pong_timeout(c) ==
    /\ Free(c) /\ beat[c] = "pinged"
    /\ sock' = [sock EXCEPT ![c] = IF @ = "open" THEN "closing" ELSE @]
    /\ cleanup(c)
    /\ UNCHANGED <<phase, initial, pending, joins, loop, sent, events>>

-----------------------------------------------------------------------------
(* Redis.                                                                  *)

(* Mutant: a replica handles its own broadcasts again.                     *)
pmessage_echo(p) ==
    /\ loop[p] = NoConn /\ wire[p] # <<>>
    /\ LET env == Head(wire[p])
           h   == [Hub EXCEPT !.wire[p] = Tail(@)]
       IN SetHub(broadcastToLocalRoom(h, p, env.model, env.message, NoConn))
    /\ UNCHANGED <<connVars, hubVars, loop, sent, events>>

(* roomSubscriber.on('pmessage'): skip the replica's own broadcasts.       *)
pmessage(p) ==
    /\ loop[p] = NoConn /\ wire[p] # <<>>
    /\ LET env == Head(wire[p])
           h   == [Hub EXCEPT !.wire[p] = Tail(@)]
       IN SetHub(IF env.origin = p THEN h
                 ELSE broadcastToLocalRoom(h, p, env.model, env.message, NoConn))
    /\ UNCHANGED <<connVars, hubVars, loop, sent, events>>

(* publish_room_event of the API (an annotation was created or updated).   *)
publish_room_event(m) ==
    /\ events < MaxEvents
    /\ events' = events + 1
    /\ LET h == Publish(Hub, "api", m, Relay(events + 1))
       IN \E w \in Published(h) :
            SetHub([h EXCEPT !.wire = w, !.audience[events + 1] =
                {d \in members[m] : sock[d] = "open" /\ w # wire}])
    /\ UNCHANGED <<connVars, hubVars, loop, sent>>

-----------------------------------------------------------------------------
Handler(c) ==
    \/ subscribed_ok(c) \/ subscribe_fails(c) \/ initial_join(c) \/ drain(c)
    \/ \E m \in Models : join_answered(c, m)

Client(c) ==
    \/ connect(c)
    \/ \E msg \in Message : on_message(c, msg)
    \/ closing(c)

Next ==
    \/ \E c \in Conns : \/ Client(c)
                        \/ Handler(c)
                        \/ on_close(c) \/ on_error(c)
                        \/ heartbeat(c) \/ pong_timeout(c)
    \/ \E p \in Procs : pmessage(p)
    \/ \E m \in Models : publish_room_event(m)

Spec == Init /\ [][Next]_vars

(* Timers fire and an authorisation is answered or times out (3 s); a      *)
(* subscription, a client and a 'close' event may take for ever.           *)
Fairness ==
    \A c \in Conns : /\ WF_vars(heartbeat(c))
                     /\ WF_vars(pong_timeout(c))
                     /\ WF_vars(initial_join(c))
                     /\ WF_vars(drain(c))

FairSpec == Spec /\ Fairness

-----------------------------------------------------------------------------
(* Properties.                                                             *)

(***************************************************************************)
(* A connection is in the room of its currentModelId and in no other,      *)
(* through switches, leaves of other rooms, answers that arrive late and   *)
(* repeated cleanups: rooms and currentModelId are updated separately.     *)
(***************************************************************************)
RoomsAgree == \A c \in Conns, m \in Models : c \in members[m] <=> current[c] = m

(***************************************************************************)
(* Joins fail closed: whoever is in a room was authorised by the API, even *)
(* if the API was unreachable at times.                                    *)
(***************************************************************************)
OnlyAuthorized ==
    \A m \in Models : \A c \in members[m] : <<User[c], m>> \in Access

(***************************************************************************)
(* An active connection receives model events: it is registered, or in a   *)
(* room, only while its Redis subscription is confirmed (server.js's       *)
(* "race condition fix").                                                  *)
(***************************************************************************)
ActiveIsSubscribed ==
    \A c \in Conns :
        c \in registered \/ current[c] # NoModel => c \in subscribed

(***************************************************************************)
(* Presence shows no ghosts: once the replicas have handled all messages,  *)
(* every user a client still shows in its room has a connection there.     *)
(***************************************************************************)
NoGhosts ==
    (\A p \in Procs : wire[p] = <<>>) =>
        \A m \in Models : \A d \in members[m] :
            sock[d] = "open" => view[d] \subseteq {User[c] : c \in members[m]}

(***************************************************************************)
(* Room events, relayed or published by the API, are received exactly once *)
(* by every client that stays in the room, and never twice by anybody.  If *)
(* Redis rejects the publication, the clients of the sender's replica are  *)
(* still served.                                                           *)
(***************************************************************************)
DeliveredOnce ==
    /\ \A d \in Conns, e \in Event : got[d][e] <= 1
    /\ (\A p \in Procs : wire[p] = <<>>) =>
          \A e \in Event : \A d \in audience[e] :
              sock[d] = "open" => got[d][e] = 1

(***************************************************************************)
(* A connection that is gone is forgotten, also if it closed before its    *)
(* 'close' listener was attached.                                          *)
(***************************************************************************)
ClosedIsForgotten ==
    \A c \in Conns :
        c \in registered /\ sock[c] # "open"
            ~> c \notin registered /\ current[c] = NoModel

(***************************************************************************)
(* ws_connected_clients is the number of currently connected clients.      *)
(***************************************************************************)
GaugeIsExact == gauge = Cardinality(registered)

=============================================================================
