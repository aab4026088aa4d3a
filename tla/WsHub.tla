------------------------------- MODULE WsHub -------------------------------
(***************************************************************************)
(* The pub/sub hub of ws/hub.go: clients that join rooms, broadcasts to a  *)
(* room, and the goroutine that writes a client's queue to its connection. *)
(*                                                                         *)
(* The hub's maps have a lock, but Broadcast only takes a reference to the *)
(* room's map under it and ranges over the live map after the unlock, while*)
(* Register, JoinRoom and Unregister write to it.                          *)
(***************************************************************************)
EXTENDS Naturals, Sequences

CONSTANTS
  Clients,    \* bound: the connections that register
  Rooms,      \* the rooms
  Broadcasts, \* bound: the calls of Broadcast, one message each
  QueueSize   \* capacity of each client's send channel: 256 for all of them in
              \* the code, but nothing depends on its being the same for all

ASSUME HubAssumption == QueueSize \in [Clients -> Nat \ {0}]

VARIABLES
  members,  \* h.rooms: the clients in each room; an empty room is deleted
  mapOf,    \* which map object h.rooms[room] is: a room emptied and filled
            \* again has a new one
  clients,  \* h.clients
  joined,   \* client.rooms of each client
  handler,  \* where the goroutine that reads each connection stands
  conn,     \* the connections that are open
  queue,    \* the send channel of each client
  closed,   \* the send channels that are closed
  pump,     \* the clients whose writePump runs
  received, \* the messages written to each connection, in order
  bc,       \* where each broadcast stands
  room,     \* the room it is for
  ranged,   \* the map object it ranges over; 0 for the nil map
  initial,  \* the clients in the room when it took the map
  visited,  \* the clients the range has produced
  current,  \* the client it is about to send to, if any
  earlier,  \* history: the broadcasts that had returned when it started
  crashed   \* the process died

hubVars    == <<members, mapOf, clients, joined>>
clientVars == <<handler, conn, closed>>
castVars   == <<bc, room, ranged, initial, visited, current, earlier>>
vars == <<hubVars, clientVars, castVars, queue, pump, received, crashed>>
-----------------------------------------------------------------------------
Init ==
  /\ members = [r \in Rooms |-> {}]
  /\ mapOf = [r \in Rooms |-> 0]
  /\ clients = {}
  /\ joined = [c \in Clients |-> {}]
  /\ handler = [c \in Clients |-> "new"]
  /\ conn = Clients
  /\ queue = [c \in Clients |-> <<>>]
  /\ closed = {}
  /\ pump = {}
  /\ received = [c \in Clients |-> <<>>]
  /\ bc = [b \in Broadcasts |-> "idle"]
  /\ room \in [Broadcasts -> Rooms]
  /\ ranged = [b \in Broadcasts |-> 0]
  /\ initial = [b \in Broadcasts |-> {}]
  /\ visited = [b \in Broadcasts |-> {}]
  /\ current = [b \in Broadcasts |-> {}]
  /\ earlier = [b \in Broadcasts |-> {}]
  /\ crashed = FALSE

\* h.rooms[r][c] = true: the map is made when the room has none.
AddTo(r, c) ==
  /\ members' = [members EXCEPT ![r] = @ \cup {c}]
  /\ mapOf' = IF members[r] = {} THEN [mapOf EXCEPT ![r] = @ + 1] ELSE mapOf
  /\ joined' = [joined EXCEPT ![c] = @ \cup {r}]
-----------------------------------------------------------------------------
(***************************************************************************)
(* The handler of a connection.                                            *)
(***************************************************************************)
Register(c, r) ==
  /\ handler[c] = "new"
  /\ handler' = [handler EXCEPT ![c] = "joining"]
  /\ AddTo(r, c)
  /\ clients' = clients \cup {c}
  /\ pump' = pump \cup {c}
  /\ UNCHANGED <<conn, closed, castVars, queue, received, crashed>>

\* AllMetricsWSHandler joins a room per server before it reads.
JoinRoom(c, r) ==
  /\ handler[c] = "joining"
  /\ r \notin joined[c]
  /\ AddTo(r, c)
  /\ UNCHANGED <<clients, clientVars, castVars, queue, pump, received, crashed>>

\* The client or the network drops the connection, or ws.CloseUser closes it.
ConnectionDies(c) ==
  /\ c \in conn
  /\ conn' = conn \ {c}
  /\ UNCHANGED <<hubVars, handler, closed, castVars, queue, pump, received, crashed>>

\* Mutant of Unregister: the client leaves only one of its rooms.
UnregisterOneRoom(c) ==
  /\ handler[c] = "joining"
  /\ c \notin conn
  /\ handler' = [handler EXCEPT ![c] = "leaving"]
  /\ \E r \in joined[c] : members' = [members EXCEPT ![r] = @ \ {c}]
  /\ clients' = clients \ {c}
  /\ UNCHANGED <<mapOf, joined, conn, closed, castVars, queue, pump, received, crashed>>

\* ReadPump's ReadMessage fails, and its deferred Unregister runs.
Unregister(c) ==
  /\ handler[c] = "joining"
  /\ c \notin conn
  /\ handler' = [handler EXCEPT ![c] = "leaving"]
  /\ members' = [r \in Rooms |-> members[r] \ {c}]
  /\ clients' = clients \ {c}
  /\ UNCHANGED <<mapOf, joined, conn, closed, castVars, queue, pump, received, crashed>>

\* close(client.send), after the unlock.
CloseSend(c) ==
  /\ handler[c] = "leaving"
  /\ handler' = [handler EXCEPT ![c] = "gone"]
  /\ closed' = closed \cup {c}
  /\ UNCHANGED <<hubVars, conn, castVars, queue, pump, received, crashed>>
-----------------------------------------------------------------------------
(***************************************************************************)
(* writePump.                                                              *)
(***************************************************************************)

\* Mutant of WriteMessage: a goroutine per message, so any of the messages that
\* wait may be written first.
WriteMessageConcurrently(c) ==
  /\ c \in pump \cap conn
  /\ \E i \in 1..Len(queue[c]) :
       /\ received' = [received EXCEPT ![c] = Append(@, queue[c][i])]
       /\ queue' = [queue EXCEPT ![c] = SubSeq(@, 1, i - 1) \o SubSeq(@, i + 1, Len(@))]
  /\ UNCHANGED <<hubVars, clientVars, castVars, pump, crashed>>

\* The messages of a client are written one after another, the oldest first.
WriteMessage(c) ==
  /\ c \in pump \cap conn
  /\ queue[c] # <<>>
  /\ received' = [received EXCEPT ![c] = Append(@, Head(queue[c]))]
  /\ queue' = [queue EXCEPT ![c] = Tail(@)]
  /\ UNCHANGED <<hubVars, clientVars, castVars, pump, crashed>>

\* The write fails, or the closed channel is drained; the connection closes.
PumpReturns(c) ==
  /\ c \in pump
  /\ IF queue[c] # <<>> THEN c \notin conn ELSE c \in closed
  /\ queue' = [queue EXCEPT ![c] = IF @ = <<>> THEN @ ELSE Tail(@)]
  /\ pump' = pump \ {c}
  /\ conn' = conn \ {c}
  /\ UNCHANGED <<hubVars, handler, closed, castVars, received, crashed>>
-----------------------------------------------------------------------------
(***************************************************************************)
(* Broadcast.                                                              *)
(***************************************************************************)

\* The clients in the map that broadcast b ranges over.  A map that its room
\* has dropped was empty when it was dropped, and nothing is added to it.
Ranged(b) == IF ranged[b] = mapOf[room[b]] THEN members[room[b]] ELSE {}

\* Mutant of TakeRoom: the broadcast goes to the clients of every room.
TakeAllClients(b) ==
  /\ bc[b] = "idle"
  /\ bc' = [bc EXCEPT ![b] = "send"]
  /\ \E c \in clients : current' = [current EXCEPT ![b] = {c}] /\ visited' = [visited EXCEPT ![b] = {c}]
  /\ UNCHANGED <<hubVars, clientVars, room, ranged, initial, earlier, queue, pump, received, crashed>>

\* clients := h.rooms[room], under the read lock.
TakeRoom(b) ==
  /\ bc[b] = "idle"
  /\ bc' = [bc EXCEPT ![b] = "range"]
  /\ ranged' = [ranged EXCEPT ![b] = IF members[room[b]] = {} THEN 0 ELSE mapOf[room[b]]]
  /\ initial' = [initial EXCEPT ![b] = members[room[b]]]
  /\ earlier' = [earlier EXCEPT ![b] = {a \in Broadcasts : bc[a] = "done"}]
  /\ UNCHANGED <<hubVars, clientVars, room, visited, current, queue, pump, received, crashed>>

\* for client := range clients: an entry added after the start may be produced
\* or skipped, an entry removed before it is reached is not produced.
RangeNext(b) ==
  /\ bc[b] = "range"
  /\ \E c \in Ranged(b) \ visited[b] :
       /\ current' = [current EXCEPT ![b] = {c}]
       /\ visited' = [visited EXCEPT ![b] = @ \cup {c}]
  /\ bc' = [bc EXCEPT ![b] = "send"]
  /\ UNCHANGED <<hubVars, clientVars, room, ranged, initial, earlier, queue, pump, received, crashed>>

RangeEnds(b) ==
  /\ bc[b] = "range"
  /\ initial[b] \cap Ranged(b) \subseteq visited[b]
  /\ bc' = [bc EXCEPT ![b] = "done"]
  /\ UNCHANGED <<hubVars, clientVars, room, ranged, initial, visited, current, earlier, queue,
                 pump, received, crashed>>

\* Mutant of Send: a slow client ends the broadcast.
SendOrReturn(b) ==
  \E c \in current[b] :
    /\ bc[b] = "send"
    /\ c \notin closed
    /\ bc' = [bc EXCEPT ![b] = IF Len(queue[c]) < QueueSize[c] THEN "range" ELSE "done"]
    /\ queue' = IF Len(queue[c]) < QueueSize[c] THEN [queue EXCEPT ![c] = Append(@, b)] ELSE queue
    /\ current' = [current EXCEPT ![b] = {}]
    /\ UNCHANGED <<hubVars, clientVars, room, ranged, initial, visited, earlier, pump,
                   received, crashed>>

\* The select: enqueue, or drop the message when the queue is full.
Send(b) ==
  \E c \in current[b] :
    /\ bc[b] = "send"
    /\ c \notin closed
    /\ bc' = [bc EXCEPT ![b] = "range"]
    /\ queue' = IF Len(queue[c]) < QueueSize[c] THEN [queue EXCEPT ![c] = Append(@, b)] ELSE queue
    /\ current' = [current EXCEPT ![b] = {}]
    /\ UNCHANGED <<hubVars, clientVars, room, ranged, initial, visited, earlier, pump,
                   received, crashed>>

\* A send on a closed channel panics.  gin recovers a panic in a handler; in a
\* collector or a scan's goroutine it ends the process.
SendPanics(b) ==
  /\ bc[b] = "send"
  /\ current[b] \subseteq closed
  /\ bc' = [bc EXCEPT ![b] = "panicked"]
  /\ current' = [current EXCEPT ![b] = {}]
  /\ crashed' \in BOOLEAN
  /\ UNCHANGED <<hubVars, clientVars, room, ranged, initial, visited, earlier, queue, pump, received>>

\* Data race: the range reads a map that a handler is writing.  The runtime may
\* detect it, and ends the process; otherwise the range goes on as above.
MapRace(b) ==
  /\ bc[b] = "range" /\ ranged[b] # 0
  /\ \E c \in Clients :
       \/ handler[c] = "new"
       \/ handler[c] = "joining" /\ (c \in Ranged(b) => c \notin conn)
  /\ crashed' = TRUE
  /\ UNCHANGED <<hubVars, clientVars, castVars, queue, pump, received>>
-----------------------------------------------------------------------------
Handle(c) ==
  \/ \E r \in Rooms : Register(c, r) \/ JoinRoom(c, r)
  \/ ConnectionDies(c) \/ Unregister(c) \/ CloseSend(c)

WritePump(c) == WriteMessage(c) \/ PumpReturns(c)

Broadcast(b) ==
  TakeRoom(b) \/ RangeNext(b) \/ RangeEnds(b) \/ Send(b) \/ SendPanics(b) \/ MapRace(b)

Next ==
  \/ \E c \in Clients : ~ crashed /\ (Handle(c) \/ WritePump(c))
  \/ \E b \in Broadcasts : ~ crashed /\ Broadcast(b)

Spec == Init /\ [][Next]_vars

\* A handler that left its rooms closes the channel, and a write to a dead
\* connection fails; a write to a live one may take for ever.
FairSpec ==
  /\ Spec
  /\ \A c \in Clients : WF_vars(~ crashed /\ CloseSend(c)) /\ WF_vars(~ crashed /\ PumpReturns(c))
-----------------------------------------------------------------------------
(***************************************************************************)
(* Properties.                                                             *)
(***************************************************************************)

\* Every variable has its type; no queue exceeds its capacity.
TypeOK ==
  /\ members \in [Rooms -> SUBSET Clients]
  /\ mapOf \in [Rooms -> Nat]
  /\ clients \subseteq Clients
  /\ joined \in [Clients -> SUBSET Rooms]
  /\ handler \in [Clients -> {"new", "joining", "leaving", "gone"}]
  /\ conn \subseteq Clients
  /\ queue \in [Clients -> Seq(Broadcasts)]
  /\ \A c \in Clients : Len(queue[c]) <= QueueSize[c]
  /\ closed \subseteq Clients
  /\ pump \subseteq Clients
  /\ received \in [Clients -> Seq(Broadcasts)]
  /\ bc \in [Broadcasts -> {"idle", "range", "send", "done", "panicked"}]
  /\ room \in [Broadcasts -> Rooms]
  /\ ranged \in [Broadcasts -> Nat]
  /\ initial \in [Broadcasts -> SUBSET Clients]
  /\ visited \in [Broadcasts -> SUBSET Clients]
  /\ current \in [Broadcasts -> SUBSET Clients]
  /\ earlier \in [Broadcasts -> SUBSET Broadcasts]
  /\ crashed \in BOOLEAN

\* The two indexes of the hub agree: a room lists exactly the registered clients
\* that joined it, so a client whose channel is closed is in no room.
IndexesAgree ==
  \A r \in Rooms, c \in Clients : c \in members[r] <=> c \in clients /\ r \in joined[c]

\* No message reaches, or waits for, a client that never joined its room.
OnlyMembersReceive ==
  \A c \in Clients :
    /\ \A i \in 1..Len(queue[c]) : room[queue[c][i]] \in joined[c]
    /\ \A i \in 1..Len(received[c]) : room[received[c][i]] \in joined[c]

\* A broadcast that returns has tried every client that was in the room from its
\* start to its end, however the room changed under the range.
RangeIsComplete ==
  \A b \in Broadcasts :
    bc[b] = "done" => initial[b] \cap members[room[b]] \subseteq visited[b]

\* A client receives a message once, and two messages in the order of their
\* broadcasts when the first had returned before the second started.
InOrder ==
  \A c \in Clients : \A i, j \in 1..Len(received[c]) :
    i < j => /\ received[c][i] # received[c][j]
             /\ received[c][j] \notin earlier[received[c][i]]

\* The goroutine that writes to a client ends after the client has left.
PumpEnds ==
  \A c \in Clients : handler[c] = "leaving" ~> c \notin pump \/ crashed

\* "Broadcast sends a message to all clients in a room": also when it ends in a
\* panic on one of them, it has tried those that stayed in the room.
BroadcastReachesRoom ==
  \A b \in Broadcasts :
    bc[b] \in {"done", "panicked"} => initial[b] \cap members[room[b]] \subseteq visited[b]
=============================================================================
