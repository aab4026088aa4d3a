---------------------------- MODULE WsHubProofs ----------------------------
(***************************************************************************)
(* Safety of the hub for any number of clients, rooms and broadcasts and   *)
(* any queue capacity: the indexes agree, nothing leaks between rooms, and *)
(* a range over a map that changes under it misses nobody who stays, and   *)
(* a client receives successive broadcasts in their order.                 *)
(***************************************************************************)
EXTENDS WsHub, TLAPS

\* A client is registered exactly while its handler may join rooms or read.
RegisteredIsServed ==
  \A c \in Clients :
    /\ c \in clients <=> handler[c] = "joining"
    /\ handler[c] = "new" => joined[c] = {}

\* The clients a broadcast saw, or is about to send to, joined its room.
AimedAtMembers ==
  \A b \in Broadcasts : \A c \in initial[b] \cup current[b] : room[b] \in joined[c]

\* When the room has another map than the one a broadcast ranges over, none of
\* the clients it saw is in the room any more.
OldMapIsEmpty ==
  \A b \in Broadcasts :
    /\ ranged[b] <= mapOf[room[b]]
    /\ bc[b] \in {"range", "send"} /\ ranged[b] # mapOf[room[b]] =>
         initial[b] \cap members[room[b]] = {}

IInv ==
  /\ TypeOK /\ IndexesAgree /\ RegisteredIsServed
  /\ AimedAtMembers /\ OnlyMembersReceive
  /\ OldMapIsEmpty /\ RangeIsComplete
-----------------------------------------------------------------------------
\* The initial states satisfy the invariant.
LEMMA InitIInv == Init => IInv
<1> SUFFICES ASSUME Init PROVE IInv
  OBVIOUS
<1> DEFINE empty == <<>>
<1>a. empty \in Seq(Broadcasts) /\ Len(empty) = 0
  OBVIOUS
<1>b. queue = [c \in Clients |-> empty] /\ received = [c \in Clients |-> empty]
  BY DEF Init
<1>c. /\ queue \in [Clients -> Seq(Broadcasts)] /\ received \in [Clients -> Seq(Broadcasts)]
      /\ \A c \in Clients : Len(queue[c]) <= QueueSize[c]
  <2> HIDE DEF empty
  <2> QED
    BY <1>a, <1>b, HubAssumption
<1>1. TypeOK
  BY <1>c DEF Init, TypeOK
<1> QED
  BY <1>1 DEF Init, IInv, IndexesAgree, RegisteredIsServed, AimedAtMembers, OnlyMembersReceive,
              OldMapIsEmpty, RangeIsComplete

\* A queue that loses its head stays a queue of broadcasts, and shorter.
LEMMA TailType ==
  ASSUME NEW S, NEW q \in Seq(S), q # <<>>
  PROVE  /\ Tail(q) \in Seq(S) /\ Head(q) \in S
         /\ Len(Tail(q)) = Len(q) - 1
         /\ \A i \in 1..Len(Tail(q)) : Tail(q)[i] = q[i + 1]
  OBVIOUS

\* A queue that gets one more message keeps the others in place.
LEMMA AppendType ==
  ASSUME NEW S, NEW q \in Seq(S), NEW e \in S
  PROVE  /\ Append(q, e) \in Seq(S)
         /\ Len(q) \in Nat /\ Len(Append(q, e)) = Len(q) + 1
         /\ \A i \in 1..Len(q) : Append(q, e)[i] = q[i]
         /\ Append(q, e)[Len(q) + 1] = e
  OBVIOUS

\* Joining a room, by registering or later, preserves the invariant.
LEMMA JoinStep ==
  ASSUME IInv, NEW c \in Clients, NEW r \in Rooms, Register(c, r) \/ JoinRoom(c, r)
  PROVE  IInv'
<1> USE DEF IInv, TypeOK
<1>1. /\ r \notin joined[c] /\ c \notin members[r]
      /\ clients' = clients \cup {c} /\ c \in clients'
      /\ handler'[c] = "joining" /\ \A d \in Clients : d # c => handler'[d] = handler[d]
      /\ handler' \in [Clients -> {"new", "joining", "leaving", "gone"}]
      /\ c \notin clients => joined[c] = {}
      /\ UNCHANGED <<conn, closed, castVars, queue, received, crashed>>
      /\ AddTo(r, c)
      /\ pump' \subseteq Clients
  <2>1. CASE Register(c, r)
    <3>1. handler[c] = "new" /\ joined[c] = {} /\ c \notin clients
      BY <2>1 DEF Register, RegisteredIsServed
    <3>2. c \notin members[r]
      BY <3>1 DEF IndexesAgree
    <3> QED
      BY <2>1, <3>1, <3>2 DEF Register
  <2>2. CASE JoinRoom(c, r)
    <3>1. handler[c] = "joining" /\ c \in clients /\ r \notin joined[c]
      BY <2>2 DEF JoinRoom, RegisteredIsServed
    <3>2. c \notin members[r]
      BY <3>1 DEF IndexesAgree
    <3> QED
      BY <2>2, <3>1, <3>2 DEF JoinRoom, clientVars
  <2> QED
    BY <2>1, <2>2
<1>2. /\ members'[r] = members[r] \cup {c}
      /\ joined'[c] = joined[c] \cup {r}
      /\ \A q \in Rooms : q # r => members'[q] = members[q] /\ mapOf'[q] = mapOf[q]
      /\ \A d \in Clients : d # c => joined'[d] = joined[d]
      /\ mapOf'[r] = IF members[r] = {} THEN mapOf[r] + 1 ELSE mapOf[r]
      /\ members' \in [Rooms -> SUBSET Clients]
      /\ joined' \in [Clients -> SUBSET Rooms]
      /\ mapOf' \in [Rooms -> Nat]
  BY <1>1 DEF AddTo
<1>3. TypeOK'
  BY <1>1, <1>2 DEF castVars
<1>4. IndexesAgree'
  <2> SUFFICES ASSUME NEW q \in Rooms, NEW d \in Clients
               PROVE  d \in members'[q] <=> d \in clients' /\ q \in joined'[d]
    BY DEF IndexesAgree
  <2>1. d \in members[q] <=> d \in clients /\ q \in joined[d]
    BY DEF IndexesAgree
  <2> QED
    BY <1>1, <1>2, <2>1
<1>5. RegisteredIsServed'
  BY <1>1, <1>2 DEF RegisteredIsServed
<1>6. \A d \in Clients : joined[d] \subseteq joined'[d]
  BY <1>2
<1>7. AimedAtMembers' /\ OnlyMembersReceive'
  BY <1>1, <1>6 DEF AimedAtMembers, OnlyMembersReceive, castVars
<1>8. \A b \in Broadcasts : room[b] = r => c \notin initial[b]
  BY <1>1 DEF AimedAtMembers
<1>9. RangeIsComplete'
  <2> SUFFICES ASSUME NEW b \in Broadcasts, bc[b] = "done"
               PROVE  initial[b] \cap members'[room[b]] \subseteq visited[b]
    BY <1>1 DEF RangeIsComplete, castVars
  <2>1. initial[b] \cap members[room[b]] \subseteq visited[b] /\ room[b] \in Rooms
    BY DEF RangeIsComplete
  <2>2. CASE room[b] = r
    BY <1>2, <1>8, <2>1, <2>2
  <2>3. CASE room[b] # r
    BY <1>2, <2>1, <2>3
  <2> QED
    BY <2>2, <2>3
<1>10. OldMapIsEmpty'
  <2> SUFFICES ASSUME NEW b \in Broadcasts
               PROVE  /\ ranged[b] <= mapOf'[room[b]]
                      /\ bc[b] \in {"range", "send"} /\ ranged[b] # mapOf'[room[b]] =>
                           initial[b] \cap members'[room[b]] = {}
    BY <1>1 DEF OldMapIsEmpty, castVars
  <2>1. ranged[b] <= mapOf[room[b]] /\ ranged[b] \in Nat /\ mapOf[room[b]] \in Nat
    BY DEF OldMapIsEmpty
  <2>2. CASE room[b] # r
    BY <1>2, <2>1, <2>2 DEF OldMapIsEmpty
  <2>3. CASE room[b] = r /\ members[r] = {}
    BY <1>2, <1>8, <2>1, <2>3
  <2>4. CASE room[b] = r /\ members[r] # {}
    BY <1>2, <1>8, <2>1, <2>4 DEF OldMapIsEmpty
  <2> QED
    BY <2>2, <2>3, <2>4
<1> QED
  BY <1>3, <1>4, <1>5, <1>7, <1>9, <1>10

\* The other steps of a handler preserve it.
LEMMA HandlerStep ==
  ASSUME IInv, NEW c \in Clients, ConnectionDies(c) \/ Unregister(c) \/ CloseSend(c)
  PROVE  IInv'
<1> USE DEF IInv, TypeOK, hubVars, clientVars, castVars
<1>1. CASE ConnectionDies(c)
  BY <1>1 DEF ConnectionDies, IndexesAgree, RegisteredIsServed, AimedAtMembers,
              OnlyMembersReceive, OldMapIsEmpty, RangeIsComplete
<1>2. CASE CloseSend(c)
  BY <1>2 DEF CloseSend, IndexesAgree, RegisteredIsServed, AimedAtMembers,
              OnlyMembersReceive, OldMapIsEmpty, RangeIsComplete
<1>3. CASE Unregister(c)
  <2>1. /\ \A r \in Rooms : members'[r] = members[r] \ {c}
        /\ clients' = clients \ {c}
        /\ handler' = [handler EXCEPT ![c] = "leaving"]
        /\ UNCHANGED <<mapOf, joined, conn, closed, castVars, queue, pump, received, crashed>>
    BY <1>3 DEF Unregister
  <2>2. TypeOK'
    BY <1>3 DEF Unregister
  <2>3. IndexesAgree' /\ RegisteredIsServed'
    BY <2>1 DEF IndexesAgree, RegisteredIsServed
  <2>4. AimedAtMembers' /\ OnlyMembersReceive'
    BY <2>1 DEF AimedAtMembers, OnlyMembersReceive
  <2>5. OldMapIsEmpty' /\ RangeIsComplete'
    BY <2>1 DEF OldMapIsEmpty, RangeIsComplete
  <2> QED
    BY <2>2, <2>3, <2>4, <2>5
<1> QED
  BY <1>1, <1>2, <1>3

\* The steps of writePump preserve it.
LEMMA PumpStep ==
  ASSUME IInv, NEW c \in Clients, WritePump(c)
  PROVE  IInv'
<1> USE DEF IInv, TypeOK, hubVars, clientVars, castVars
<1>1. UNCHANGED <<hubVars, handler, closed, castVars, crashed>> /\ pump' \subseteq Clients
      /\ conn' \subseteq Clients
  BY DEF WritePump, WriteMessage, PumpReturns
<1>2. /\ \A d \in Clients : d # c => queue'[d] = queue[d] /\ received'[d] = received[d]
      /\ \/ queue'[c] = queue[c]
         \/ queue[c] # <<>> /\ queue'[c] = Tail(queue[c])
      /\ \/ received'[c] = received[c]
         \/ queue[c] # <<>> /\ received'[c] = Append(received[c], Head(queue[c]))
      /\ queue' \in [Clients -> Seq(Broadcasts)] /\ received' \in [Clients -> Seq(Broadcasts)]
  <2> DEFINE q == queue[c]
  <2>1. q \in Seq(Broadcasts) /\ received[c] \in Seq(Broadcasts)
    OBVIOUS
  <2>2. q # <<>> => Tail(q) \in Seq(Broadcasts) /\ Append(received[c], Head(q)) \in Seq(Broadcasts)
    BY <2>1, TailType
  <2>3. CASE WriteMessage(c)
    BY <2>1, <2>2, <2>3 DEF WriteMessage
  <2>4. CASE PumpReturns(c)
    <3> DEFINE rest == IF q = <<>> THEN q ELSE Tail(q)
    <3>1. rest \in Seq(Broadcasts) /\ (rest = q \/ (q # <<>> /\ rest = Tail(q)))
      BY <2>1, <2>2
    <3>2. queue' = [queue EXCEPT ![c] = rest] /\ received' = received
      BY <2>4 DEF PumpReturns
    <3> HIDE DEF rest
    <3>3. queue' \in [Clients -> Seq(Broadcasts)] /\ queue'[c] = rest
      BY <3>1, <3>2
    <3>4. \A d \in Clients : d # c => queue'[d] = queue[d]
      BY <3>2
    <3> QED
      BY <3>1, <3>2, <3>3, <3>4
  <2> QED
    BY <2>3, <2>4 DEF WritePump
<1>3. Len(queue'[c]) <= QueueSize[c]
  BY <1>2, TailType, HubAssumption
<1>4. TypeOK'
  BY <1>1, <1>2, <1>3
<1>5. OnlyMembersReceive'
  <2>0. queue[c] \in Seq(Broadcasts)
        /\ \A i \in 1..Len(queue[c]) : room[queue[c][i]] \in joined[c]
    BY DEF OnlyMembersReceive
  <2>1. \A i \in 1..Len(queue'[c]) : room[queue'[c][i]] \in joined[c]
    <3>1. CASE queue'[c] = queue[c]
      BY <2>0, <3>1
    <3>2. CASE queue[c] # <<>> /\ queue'[c] = Tail(queue[c])
      <4>1. /\ Len(queue'[c]) = Len(queue[c]) - 1
            /\ \A i \in 1..Len(queue'[c]) : queue'[c][i] = queue[c][i + 1]
        BY <2>0, <3>2, TailType
      <4>2. Len(queue[c]) \in Nat
        BY <2>0
      <4>3. \A i \in 1..Len(queue'[c]) : i + 1 \in 1..Len(queue[c])
        BY <4>1, <4>2
      <4> QED
        BY <2>0, <4>1, <4>3
    <3> QED
      BY <1>2, <3>1, <3>2
  <2>2. queue[c] # <<>> => room[Head(queue[c])] \in joined[c]
    BY <2>0
  <2>3. \A i \in 1..Len(received'[c]) : room[received'[c][i]] \in joined[c]
    <3> DEFINE rc == received[c]
    <3>1. rc \in Seq(Broadcasts) /\ \A i \in 1..Len(rc) : room[rc[i]] \in joined[c]
      BY DEF OnlyMembersReceive
    <3>2. CASE received'[c] = rc
      BY <3>1, <3>2
    <3>3. CASE queue[c] # <<>> /\ received'[c] = Append(rc, Head(queue[c]))
      <4> DEFINE e == Head(queue[c])
      <4>1. e \in Broadcasts /\ room[e] \in joined[c]
        BY <2>0, <2>2, <3>3, TailType
      <4>2. /\ Len(rc) \in Nat /\ Len(received'[c]) = Len(rc) + 1
            /\ \A i \in 1..Len(rc) : received'[c][i] = rc[i]
            /\ received'[c][Len(rc) + 1] = e
        BY <3>1, <3>3, <4>1, AppendType
      <4>3. ASSUME NEW i \in 1..Len(received'[c]) PROVE room[received'[c][i]] \in joined[c]
        <5>1. i \in 1..Len(rc) \/ i = Len(rc) + 1
          BY <4>2
        <5> QED
          BY <3>1, <4>1, <4>2, <5>1
      <4> QED
        BY <4>3
    <3> QED
      BY <1>2, <3>2, <3>3
  <2> QED
    BY <1>1, <1>2, <2>1, <2>3 DEF OnlyMembersReceive
<1> QED
  BY <1>1, <1>4, <1>5 DEF IndexesAgree, RegisteredIsServed, AimedAtMembers, OldMapIsEmpty,
                          RangeIsComplete

\* The steps of Broadcast preserve it.
LEMMA BroadcastStep ==
  ASSUME IInv, NEW b \in Broadcasts, Broadcast(b)
  PROVE  IInv'
<1> USE DEF IInv, TypeOK, hubVars, clientVars
<1>1. CASE MapRace(b)
  BY <1>1 DEF MapRace, castVars, IndexesAgree, RegisteredIsServed, AimedAtMembers,
              OnlyMembersReceive, OldMapIsEmpty, RangeIsComplete
<1>2. CASE TakeRoom(b)
  <2>1. TypeOK'
    BY <1>2 DEF TakeRoom
  <2>2. OldMapIsEmpty'
    BY <1>2 DEF TakeRoom, OldMapIsEmpty
  <2>3. AimedAtMembers'
    BY <1>2 DEF TakeRoom, AimedAtMembers, IndexesAgree
  <2> QED
    BY <1>2, <2>1, <2>2, <2>3 DEF TakeRoom, IndexesAgree, RegisteredIsServed,
                                  OnlyMembersReceive, RangeIsComplete
<1>3. CASE RangeNext(b)
  <2>1. PICK c \in Ranged(b) : current' = [current EXCEPT ![b] = {c}]
                               /\ visited' = [visited EXCEPT ![b] = @ \cup {c}]
    BY <1>3 DEF RangeNext
  <2>2. c \in members[room[b]] /\ c \in Clients
    BY <2>1 DEF Ranged
  <2>3. TypeOK'
    BY <1>3, <2>1, <2>2 DEF RangeNext
  <2>4. AimedAtMembers'
    BY <1>3, <2>1, <2>2 DEF RangeNext, AimedAtMembers, IndexesAgree
  <2>5. RangeIsComplete' /\ OldMapIsEmpty'
    <3>1. bc' = [bc EXCEPT ![b] = "send"] /\ bc[b] = "range"
          /\ UNCHANGED <<members, mapOf, room, ranged, initial>>
      BY <1>3 DEF RangeNext
    <3>2. \A a \in Broadcasts : bc'[a] = "done" => bc[a] = "done" /\ visited'[a] = visited[a]
      BY <2>1, <3>1
    <3> QED
      BY <3>1, <3>2 DEF RangeIsComplete, OldMapIsEmpty
  <2> QED
    BY <1>3, <2>3, <2>4, <2>5 DEF RangeNext, IndexesAgree, RegisteredIsServed, OnlyMembersReceive
<1>4. CASE RangeEnds(b)
  <2>1. initial[b] \cap members[room[b]] \subseteq visited[b]
    BY <1>4 DEF RangeEnds, Ranged, OldMapIsEmpty
  <2>2. RangeIsComplete'
    BY <1>4, <2>1 DEF RangeEnds, RangeIsComplete
  <2> QED
    BY <1>4, <2>2 DEF RangeEnds, IndexesAgree, RegisteredIsServed, AimedAtMembers,
                      OnlyMembersReceive, OldMapIsEmpty
<1>5. CASE Send(b)
  <2>1. PICK c \in current[b] :
          /\ bc' = [bc EXCEPT ![b] = "range"]
          /\ queue' = IF Len(queue[c]) < QueueSize[c] THEN [queue EXCEPT ![c] = Append(@, b)]
                      ELSE queue
          /\ current' = [current EXCEPT ![b] = {}]
          /\ bc[b] = "send"
          /\ UNCHANGED <<hubVars, clientVars, room, ranged, initial, visited, earlier, pump,
                         received, crashed>>
    BY <1>5 DEF Send
  <2>2. c \in Clients /\ room[b] \in joined[c]
    BY DEF AimedAtMembers
  <2>5. /\ queue[c] \in Seq(Broadcasts) /\ Append(queue[c], b) \in Seq(Broadcasts)
        /\ Len(Append(queue[c], b)) = Len(queue[c]) + 1 /\ Len(queue[c]) \in Nat
    BY <2>2
  <2>6. /\ queue' \in [Clients -> Seq(Broadcasts)]
        /\ \A d \in Clients : d # c => queue'[d] = queue[d]
        /\ \/ queue'[c] = queue[c]
           \/ Len(queue[c]) < QueueSize[c] /\ queue'[c] = Append(queue[c], b)
    BY <2>1, <2>2, <2>5
  <2>7. Len(queue'[c]) <= QueueSize[c]
    BY <2>2, <2>5, <2>6, HubAssumption
  <2>3. TypeOK'
    BY <2>1, <2>6, <2>7
  <2>8. \A i \in 1..Len(queue'[c]) : room[queue'[c][i]] \in joined[c]
    <3> DEFINE q == queue[c]
    <3>1. q \in Seq(Broadcasts) /\ \A i \in 1..Len(q) : room[q[i]] \in joined[c]
      BY <2>2 DEF OnlyMembersReceive
    <3>2. CASE queue'[c] = q
      BY <3>1, <3>2
    <3>3. CASE queue'[c] = Append(q, b)
      <4>1. /\ Len(q) \in Nat /\ Len(queue'[c]) = Len(q) + 1
            /\ \A i \in 1..Len(q) : queue'[c][i] = q[i]
            /\ queue'[c][Len(q) + 1] = b
        BY <3>1, <3>3, AppendType
      <4>2. ASSUME NEW i \in 1..Len(queue'[c]) PROVE room[queue'[c][i]] \in joined[c]
        <5>1. i \in 1..Len(q) \/ i = Len(q) + 1
          BY <4>1
        <5> QED
          BY <2>2, <3>1, <4>1, <5>1
      <4> QED
        BY <4>2
    <3> QED
      BY <2>6, <3>2, <3>3
  <2>4. OnlyMembersReceive'
    BY <2>1, <2>6, <2>8 DEF OnlyMembersReceive
  <2> QED
    BY <2>1, <2>3, <2>4 DEF IndexesAgree, RegisteredIsServed, AimedAtMembers, OldMapIsEmpty,
                            RangeIsComplete
<1>6. CASE SendPanics(b)
  <2>1. TypeOK'
    BY <1>6 DEF SendPanics
  <2> QED
    BY <1>6, <2>1 DEF SendPanics, IndexesAgree, RegisteredIsServed, AimedAtMembers,
                      OnlyMembersReceive, OldMapIsEmpty, RangeIsComplete
<1> QED
  BY <1>1, <1>2, <1>3, <1>4, <1>5, <1>6 DEF Broadcast

\* The invariant holds in every reachable state.
LEMMA Inductive == Spec => []IInv
<1>1. IInv /\ [Next]_vars => IInv'
  <2> SUFFICES ASSUME IInv, [Next]_vars PROVE IInv'
    OBVIOUS
  <2>1. CASE UNCHANGED vars
    BY <2>1 DEF vars, hubVars, clientVars, castVars, IInv, TypeOK, IndexesAgree,
                RegisteredIsServed, AimedAtMembers, OnlyMembersReceive, OldMapIsEmpty,
                RangeIsComplete
  <2> QED
    BY <2>1, JoinStep, HandlerStep, PumpStep, BroadcastStep DEF Next, Handle
<1> QED
  BY <1>1, InitIInv, PTL DEF Spec

\* h.rooms, h.clients and client.rooms never disagree.
THEOREM HubIndexed == Spec => []IndexesAgree
<1>1. IInv => IndexesAgree
  BY DEF IInv
<1> QED
  BY <1>1, Inductive, PTL

\* A message stays in its room.
THEOREM NoLeak == Spec => []OnlyMembersReceive
<1>1. IInv => OnlyMembersReceive
  BY DEF IInv
<1> QED
  BY <1>1, Inductive, PTL

\* A broadcast that returns has tried every client that stayed in the room.
THEOREM RangeCovers == Spec => []RangeIsComplete
<1>1. IInv => RangeIsComplete
  BY DEF IInv
<1> QED
  BY <1>1, Inductive, PTL

\* No queue exceeds its capacity, and every variable keeps its type.
THEOREM HubTyped == Spec => []TypeOK
<1>1. IInv => TypeOK
  BY DEF IInv
<1> QED
  BY <1>1, Inductive, PTL
-----------------------------------------------------------------------------
(***************************************************************************)
(* The order of a client's messages.                                       *)
(***************************************************************************)
\* y may follow x: they differ, and y had not returned before x started.
MayFollow(x, y) == x # y /\ y \notin earlier[x]

\* What was written to a connection and then what waits for it, in one row.
StreamOrdered ==
  \A c \in Clients :
    /\ \A i, j \in 1..Len(received[c]) : i < j => MayFollow(received[c][i], received[c][j])
    /\ \A i, j \in 1..Len(queue[c]) : i < j => MayFollow(queue[c][i], queue[c][j])
    /\ \A i \in 1..Len(received[c]), j \in 1..Len(queue[c]) : MayFollow(received[c][i], queue[c][j])

\* The broadcast has started, has had the client, and is not about to send to it.
Tried(b, c) == bc[b] # "idle" /\ c \in visited[b] /\ c \notin current[b]

\* A message is in a stream only after its range has produced the client.
StreamTried ==
  \A c \in Clients :
    /\ \A i \in 1..Len(received[c]) : Tried(received[c][i], c)
    /\ \A i \in 1..Len(queue[c]) : Tried(queue[c][i], c)

\* What a broadcast is about to send to was produced, and what is earlier has returned.
RangeProgress ==
  \A b \in Broadcasts :
    /\ current[b] \subseteq visited[b]
    /\ \A a \in earlier[b] : bc[a] = "done"

\* Together with IInv they are inductive.
OrderInv == StreamOrdered /\ StreamTried /\ RangeProgress

\* A step of a broadcast that leaves the streams alone preserves it when it
\* undoes nothing that was tried and moves earlier only where it had not started.
LEMMA OrderKept ==
  ASSUME IInv, OrderInv, UNCHANGED <<queue, received>>, RangeProgress',
         \A b \in Broadcasts, c \in Clients : Tried(b, c) => Tried(b, c)' /\ earlier'[b] = earlier[b]
  PROVE  OrderInv'
<1> USE DEF OrderInv, IInv, TypeOK
<1>1. ASSUME NEW c \in Clients, NEW i \in 1..Len(received[c])
      PROVE  received[c][i] \in Broadcasts /\ Tried(received[c][i], c)
  <2>1. received[c] \in Seq(Broadcasts)
    OBVIOUS
  <2>2. Tried(received[c][i], c)
    BY Zenon DEF StreamTried
  <2> QED BY <2>1, <2>2
<1>2. ASSUME NEW c \in Clients, NEW i \in 1..Len(queue[c])
      PROVE  queue[c][i] \in Broadcasts /\ Tried(queue[c][i], c)
  BY DEF StreamTried
<1>3. StreamTried'
  BY <1>1, <1>2 DEF StreamTried
<1>4. ASSUME NEW c \in Clients, NEW x \in Broadcasts, NEW y \in Broadcasts, Tried(x, c), MayFollow(x, y)
      PROVE  MayFollow(x, y)'
  BY <1>4 DEF MayFollow
<1>5. StreamOrdered'
  <2> SUFFICES ASSUME NEW c \in Clients
               PROVE  /\ \A i, j \in 1..Len(received[c]) :
                           i < j => MayFollow(received[c][i], received[c][j])'
                      /\ \A i, j \in 1..Len(queue[c]) : i < j => MayFollow(queue[c][i], queue[c][j])'
                      /\ \A i \in 1..Len(received[c]), j \in 1..Len(queue[c]) :
                           MayFollow(received[c][i], queue[c][j])'
    BY DEF StreamOrdered, MayFollow
  <2> QED
    BY <1>1, <1>2, <1>4 DEF StreamOrdered
<1> QED
  BY <1>3, <1>5

\* Nothing was sent yet.
LEMMA OrderInit == Init => OrderInv
<1> SUFFICES ASSUME Init PROVE OrderInv
  OBVIOUS
<1>1. \A c \in Clients : Len(received[c]) = 0 /\ Len(queue[c]) = 0
  BY DEF Init
<1>2. StreamOrdered /\ StreamTried
  BY <1>1 DEF StreamOrdered, StreamTried
<1>3. RangeProgress
  BY DEF Init, RangeProgress
<1> QED
  BY <1>2, <1>3 DEF OrderInv

\* The steps of a handler touch neither a stream nor a broadcast.
LEMMA HandlerOrder ==
  ASSUME IInv, OrderInv, NEW c \in Clients, Handle(c)
  PROVE  OrderInv'
<1>1. UNCHANGED <<queue, received, castVars>>
  BY DEF Handle, Register, JoinRoom, ConnectionDies, Unregister, CloseSend
<1>2. RangeProgress'
  BY <1>1 DEF OrderInv, RangeProgress, castVars
<1>3. \A b \in Broadcasts, d \in Clients : Tried(b, d) => Tried(b, d)' /\ earlier'[b] = earlier[b]
  BY <1>1 DEF Tried, castVars
<1> QED
  BY <1>1, <1>2, <1>3, OrderKept

\* writePump takes the head of the queue to the end of what was received, so
\* the row of both stays as it was, or loses the message that fails.
LEMMA PumpOrder ==
  ASSUME IInv, OrderInv, NEW c \in Clients, WritePump(c)
  PROVE  OrderInv'
<1> USE DEF OrderInv, IInv, TypeOK
<1> DEFINE q == queue[c]
           rc == received[c]
<1>1. q \in Seq(Broadcasts) /\ rc \in Seq(Broadcasts) /\ Len(q) \in Nat /\ Len(rc) \in Nat
  OBVIOUS
<1>2. UNCHANGED castVars /\ \A d \in Clients : d # c => queue'[d] = queue[d] /\ received'[d] = received[d]
  BY DEF WritePump, WriteMessage, PumpReturns
<1>3. RangeProgress'
  BY <1>2 DEF RangeProgress, castVars
<1>5. /\ \A i, j \in 1..Len(rc) : i < j => MayFollow(rc[i], rc[j])
      /\ \A i, j \in 1..Len(q) : i < j => MayFollow(q[i], q[j])
      /\ \A i \in 1..Len(rc), j \in 1..Len(q) : MayFollow(rc[i], q[j])
      /\ \A i \in 1..Len(rc) : Tried(rc[i], c)
      /\ \A i \in 1..Len(q) : Tried(q[i], c)
  BY DEF StreamOrdered, StreamTried
<1> DEFINE Row(r, p) ==
      /\ \A i, j \in 1..Len(r) : i < j => MayFollow(r[i], r[j])
      /\ \A i, j \in 1..Len(p) : i < j => MayFollow(p[i], p[j])
      /\ \A i \in 1..Len(r), j \in 1..Len(p) : MayFollow(r[i], p[j])
      /\ \A i \in 1..Len(r) : Tried(r[i], c)
      /\ \A i \in 1..Len(p) : Tried(p[i], c)
<1>6. Row(rc, q)
  BY <1>5
<1>7. q # <<>> => Row(rc, Tail(q)) /\ Row(Append(rc, Head(q)), Tail(q))
  <2> SUFFICES ASSUME q # <<>> PROVE Row(rc, Tail(q)) /\ Row(Append(rc, Head(q)), Tail(q))
    OBVIOUS
  <2> DEFINE t == Tail(q)
             h == Head(q)
             a == Append(rc, h)
  <2>1. /\ Len(t) = Len(q) - 1 /\ \A j \in 1..Len(t) : t[j] = q[j + 1] /\ j + 1 \in 1..Len(q)
        /\ 1 \in 1..Len(q) /\ h = q[1] /\ h \in Broadcasts
    BY <1>1, TailType
  <2>2. /\ Len(a) = Len(rc) + 1 /\ \A i \in 1..Len(rc) : a[i] = rc[i]
        /\ a[Len(rc) + 1] = h
    BY <1>1, <2>1, AppendType
  <2> HIDE DEF t, h, a
  <2>3. /\ \A i, j \in 1..Len(t) : i < j => MayFollow(t[i], t[j])
        /\ \A i \in 1..Len(rc), j \in 1..Len(t) : MayFollow(rc[i], t[j])
        /\ \A i \in 1..Len(t) : Tried(t[i], c)
    <3>1. \A i, j \in 1..Len(t) : i < j => i + 1 < j + 1
      BY <1>1, <2>1
    <3>2. \A i, j \in 1..Len(t) : i < j => MayFollow(q[i + 1], q[j + 1])
      BY <1>5, <2>1, <3>1
    <3> QED
      BY <1>5, <2>1, <3>2
  <2>4. \A i \in 1..Len(a) : (i \in 1..Len(rc) /\ a[i] = rc[i]) \/ (i = Len(rc) + 1 /\ a[i] = q[1])
    BY <1>1, <2>1, <2>2
  <2>5. \A i, j \in 1..Len(a) : i < j => MayFollow(a[i], a[j])
    <3> SUFFICES ASSUME NEW i \in 1..Len(a), NEW j \in 1..Len(a), i < j
                 PROVE  MayFollow(a[i], a[j])
      OBVIOUS
    <3>1. i \in 1..Len(rc) /\ a[i] = rc[i]
      BY <1>1, <2>2, <2>4
    <3> QED
      BY <1>5, <2>1, <2>4, <3>1
  <2>6. \A i \in 1..Len(a), j \in 1..Len(t) : MayFollow(a[i], t[j])
    <3> SUFFICES ASSUME NEW i \in 1..Len(a), NEW j \in 1..Len(t)
                 PROVE  MayFollow(a[i], t[j])
      OBVIOUS
    <3>1. t[j] = q[j + 1] /\ j + 1 \in 1..Len(q) /\ 1 < j + 1
      BY <1>1, <2>1
    <3> QED
      BY <1>5, <2>1, <2>4, <3>1
  <2>7. \A i \in 1..Len(a) : Tried(a[i], c)
    BY <1>5, <2>1, <2>4
  <2>8. Row(rc, t) /\ Row(a, t)
    BY <1>5, <2>3, <2>5, <2>6, <2>7
  <2> QED
    BY <2>8 DEF t, h, a
<1>8. Row(received'[c], queue'[c])
  <2>1. \/ queue'[c] = q /\ received'[c] = rc
        \/ q # <<>> /\ queue'[c] = Tail(q) /\ received'[c] = rc
        \/ q # <<>> /\ queue'[c] = Tail(q) /\ received'[c] = Append(rc, Head(q))
    BY DEF WritePump, WriteMessage, PumpReturns
  <2> HIDE DEF Row
  <2> QED
    BY <1>6, <1>7, <2>1
<1>9. \A d \in Clients :
        /\ \A i, j \in 1..Len(received'[d]) : i < j => MayFollow(received'[d][i], received'[d][j])
        /\ \A i, j \in 1..Len(queue'[d]) : i < j => MayFollow(queue'[d][i], queue'[d][j])
        /\ \A i \in 1..Len(received'[d]), j \in 1..Len(queue'[d]) :
             MayFollow(received'[d][i], queue'[d][j])
        /\ \A i \in 1..Len(received'[d]) : Tried(received'[d][i], d)
        /\ \A i \in 1..Len(queue'[d]) : Tried(queue'[d][i], d)
  <2> SUFFICES ASSUME NEW d \in Clients, d # c
               PROVE  /\ \A i, j \in 1..Len(received[d]) : i < j => MayFollow(received[d][i], received[d][j])
                      /\ \A i, j \in 1..Len(queue[d]) : i < j => MayFollow(queue[d][i], queue[d][j])
                      /\ \A i \in 1..Len(received[d]), j \in 1..Len(queue[d]) :
                           MayFollow(received[d][i], queue[d][j])
                      /\ \A i \in 1..Len(received[d]) : Tried(received[d][i], d)
                      /\ \A i \in 1..Len(queue[d]) : Tried(queue[d][i], d)
    BY <1>2, <1>8
  <2> QED
    BY DEF StreamOrdered, StreamTried
<1>10. StreamOrdered' /\ StreamTried'
  BY <1>2, <1>9 DEF StreamOrdered, StreamTried, MayFollow, Tried, castVars
<1> QED
  BY <1>3, <1>10

\* A broadcast that sends enqueues itself once for a client, behind broadcasts
\* that were not after it.
LEMMA SendOrder ==
  ASSUME IInv, OrderInv, NEW b \in Broadcasts, Send(b)
  PROVE  OrderInv'
<1> USE DEF OrderInv, IInv, TypeOK
<1>1. PICK c \in current[b] :
        /\ bc' = [bc EXCEPT ![b] = "range"]
        /\ queue' = IF Len(queue[c]) < QueueSize[c] THEN [queue EXCEPT ![c] = Append(@, b)] ELSE queue
        /\ current' = [current EXCEPT ![b] = {}]
        /\ bc[b] = "send"
        /\ UNCHANGED <<visited, earlier, received>>
  BY DEF Send
<1>2. c \in Clients /\ c \in visited[b]
  BY DEF RangeProgress
<1>3. RangeProgress'
  BY <1>1 DEF RangeProgress
<1>4. /\ \A a \in Broadcasts, d \in Clients : Tried(a, d) => Tried(a, d)' /\ earlier'[a] = earlier[a]
      /\ Tried(b, c)'
  BY <1>1, <1>2 DEF Tried
<1>5. CASE queue' = queue
  BY <1>1, <1>3, <1>4, <1>5, OrderKept
<1>6. CASE queue' = [queue EXCEPT ![c] = Append(@, b)]
  <2> DEFINE q == queue[c]
             a == Append(q, b)
  <2>1. /\ q \in Seq(Broadcasts) /\ Len(q) \in Nat /\ Len(a) = Len(q) + 1
        /\ \A i \in 1..Len(q) : a[i] = q[i]
        /\ a[Len(q) + 1] = b
    BY <1>2, AppendType
  <2>2. queue'[c] = a /\ \A d \in Clients : d # c => queue'[d] = queue[d]
    BY <1>2, <1>6
  <2>3. ASSUME NEW x \in Broadcasts, Tried(x, c) PROVE MayFollow(x, b)
    BY <1>1, <2>3 DEF Tried, MayFollow, RangeProgress
  <2>4. /\ \A i \in 1..Len(q) : q[i] \in Broadcasts /\ Tried(q[i], c) /\ MayFollow(q[i], b)
        /\ \A i \in 1..Len(received[c]) :
             received[c][i] \in Broadcasts /\ Tried(received[c][i], c) /\ MayFollow(received[c][i], b)
    BY <1>2, <2>3 DEF StreamTried
  <2> HIDE DEF a
  <2>5. \A i \in 1..Len(a) : (i \in 1..Len(q) /\ a[i] = q[i]) \/ (i = Len(q) + 1 /\ a[i] = b)
    BY <2>1
  <2>6. \A i, j \in 1..Len(a) : i < j => MayFollow(a[i], a[j])
    <3> SUFFICES ASSUME NEW i \in 1..Len(a), NEW j \in 1..Len(a), i < j PROVE MayFollow(a[i], a[j])
      OBVIOUS
    <3>1. i \in 1..Len(q)
      BY <2>1
    <3>2. a[i] = q[i]
      BY <2>1, <3>1
    <3> QED
      BY <1>2, <2>4, <2>5, <3>1, <3>2 DEF StreamOrdered
  <2>7. \A i \in 1..Len(received[c]), j \in 1..Len(a) : MayFollow(received[c][i], a[j])
    BY <1>2, <2>4, <2>5 DEF StreamOrdered
  <2>8. \A d \in Clients :
          /\ \A i, j \in 1..Len(received[d]) : i < j => MayFollow(received[d][i], received[d][j])
          /\ \A i, j \in 1..Len(queue'[d]) : i < j => MayFollow(queue'[d][i], queue'[d][j])
          /\ \A i \in 1..Len(received[d]), j \in 1..Len(queue'[d]) :
               MayFollow(received[d][i], queue'[d][j])
    BY <2>2, <2>6, <2>7 DEF StreamOrdered
  <2>9. StreamOrdered'
    <3> DEFINE Follows(x, y) == x # y /\ y \notin earlier[x]
    <3>1. \A d \in Clients :
            /\ \A i, j \in 1..Len(received[d]) : i < j => Follows(received[d][i], received[d][j])
            /\ \A i, j \in 1..Len(queue'[d]) : i < j => Follows(queue'[d][i], queue'[d][j])
            /\ \A i \in 1..Len(received[d]), j \in 1..Len(queue'[d]) :
                 Follows(received[d][i], queue'[d][j])
      BY <2>8 DEF MayFollow
    <3>2. received' = received /\ earlier' = earlier
      BY <1>1
    <3> QED
      BY <3>1, <3>2 DEF StreamOrdered, MayFollow
  <2> DEFINE TriedNow(x, d) == bc'[x] # "idle" /\ d \in visited'[x] /\ d \notin current'[x]
  <2>10. ASSUME NEW d \in Clients
         PROVE  /\ \A i \in 1..Len(received[d]) : TriedNow(received[d][i], d)
                /\ \A i \in 1..Len(queue'[d]) : TriedNow(queue'[d][i], d)
    <3>1. \A x \in Broadcasts : Tried(x, d) => TriedNow(x, d)
      BY <1>4 DEF Tried
    <3>2. TriedNow(b, c)
      BY <1>4 DEF Tried
    <3> HIDE DEF TriedNow
    <3>3. \A i \in 1..Len(received[d]) : TriedNow(received[d][i], d)
      <4>1. \A i \in 1..Len(received[d]) : Tried(received[d][i], d)
        BY Zenon DEF StreamTried
      <4>2. received[d] \in Seq(Broadcasts)
        OBVIOUS
      <4> QED BY <3>1, <4>1, <4>2
    <3>4. ASSUME NEW i \in 1..Len(queue'[d]) PROVE TriedNow(queue'[d][i], d)
      <4>1. CASE d = c
        BY <2>2, <2>4, <2>5, <3>1, <3>2, <4>1
      <4>2. CASE d # c
        BY <2>2, <3>1, <4>2 DEF StreamTried
      <4> QED
        BY <4>1, <4>2
    <3> QED
      BY <3>3, <3>4
  <2>11. StreamTried'
    BY <1>1, <2>10 DEF StreamTried, Tried
  <2> QED
    BY <1>3, <2>9, <2>11
<1> QED
  BY <1>1, <1>5, <1>6

\* The other steps of a broadcast send nothing; a range produces a client it had
\* not produced, and what had returned when it started is fixed at its start.
LEMMA BroadcastOrder ==
  ASSUME IInv, OrderInv, NEW b \in Broadcasts, Broadcast(b)
  PROVE  OrderInv'
<1> USE DEF OrderInv, IInv, TypeOK
<1> DEFINE Kept == \A a \in Broadcasts, d \in Clients :
                     Tried(a, d) => Tried(a, d)' /\ earlier'[a] = earlier[a]
<1>1. CASE Send(b)
  BY <1>1, SendOrder
<1>2. CASE TakeRoom(b)
  <2>1. RangeProgress'
    BY <1>2 DEF TakeRoom, RangeProgress
  <2>2. Kept
    BY <1>2 DEF TakeRoom, Tried
  <2> QED
    BY <1>2, <2>1, <2>2, OrderKept DEF TakeRoom
<1>3. CASE RangeNext(b)
  <2>1. PICK c \in Ranged(b) \ visited[b] :
          /\ current' = [current EXCEPT ![b] = {c}]
          /\ visited' = [visited EXCEPT ![b] = @ \cup {c}]
          /\ bc' = [bc EXCEPT ![b] = "send"] /\ bc[b] = "range"
          /\ UNCHANGED <<earlier, queue, received>>
    BY <1>3 DEF RangeNext
  <2>2. RangeProgress'
    BY <2>1 DEF RangeProgress
  <2>3. Kept
    BY <2>1 DEF Tried
  <2> QED
    BY <2>1, <2>2, <2>3, OrderKept
<1>4. CASE RangeEnds(b)
  <2>1. RangeProgress'
    BY <1>4 DEF RangeEnds, RangeProgress
  <2>2. Kept
    BY <1>4 DEF RangeEnds, Tried
  <2> QED
    BY <1>4, <2>1, <2>2, OrderKept DEF RangeEnds
<1>5. CASE SendPanics(b)
  <2>1. RangeProgress'
    BY <1>5 DEF SendPanics, RangeProgress
  <2>2. Kept
    BY <1>5 DEF SendPanics, Tried
  <2> QED
    BY <1>5, <2>1, <2>2, OrderKept DEF SendPanics
<1>6. CASE MapRace(b)
  <2>1. RangeProgress'
    BY <1>6 DEF MapRace, RangeProgress, castVars
  <2>2. Kept
    BY <1>6 DEF MapRace, Tried, castVars
  <2> QED
    BY <1>6, <2>1, <2>2, OrderKept DEF MapRace
<1> QED
  BY <1>1, <1>2, <1>3, <1>4, <1>5, <1>6 DEF Broadcast

\* The order of the streams is kept in every reachable state.
LEMMA OrderInductive == Spec => [](IInv /\ OrderInv)
<1>1. IInv /\ OrderInv /\ [Next]_vars => OrderInv'
  <2> SUFFICES ASSUME IInv, OrderInv, [Next]_vars PROVE OrderInv'
    OBVIOUS
  <2>1. CASE UNCHANGED vars
    <3>1. UNCHANGED <<queue, received, castVars>>
      BY <2>1 DEF vars
    <3>2. RangeProgress'
      BY <3>1 DEF OrderInv, RangeProgress, castVars
    <3>3. \A b \in Broadcasts, d \in Clients : Tried(b, d) => Tried(b, d)' /\ earlier'[b] = earlier[b]
      BY <3>1 DEF Tried, castVars
    <3> QED
      BY <3>1, <3>2, <3>3, OrderKept
  <2> QED
    BY <2>1, HandlerOrder, PumpOrder, BroadcastOrder DEF Next
<1> QED
  BY <1>1, Inductive, OrderInit, PTL DEF Spec

\* A client receives a message once, and two messages in the order of their
\* broadcasts when the first had returned before the second started.
THEOREM DeliveredInOrder == Spec => []InOrder
<1>1. IInv /\ OrderInv => InOrder
  BY DEF OrderInv, StreamOrdered, MayFollow, InOrder
<1> QED
  BY <1>1, OrderInductive, PTL
=============================================================================
