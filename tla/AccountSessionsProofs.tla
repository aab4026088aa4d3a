----------------------- MODULE AccountSessionsProofs -----------------------
(***************************************************************************)
(* Safety of the WebSocket registry, for every set of accounts, sockets    *)
(* and calls.  The invariant says who holds a connection at each moment:   *)
(* the registry, a closer, or nobody because it is closed.                 *)
(***************************************************************************)
EXTENDS AccountSessions, TLAPS

\* A call that is not in its closing loop holds no connection.
HandsEmpty == \A r \in Requests : pc[r] # "close" => doomed[r] = {}

\* Only upgraded connections are open, and those of a handler that returned
\* are closed.
OpenIsUpgraded == \A s \in open : socket[s] \in {"upgraded", "serving"}

\* What a call has to cut off belonged to its account and had been tracked.
DueIsTracked ==
  \A r \in Requests : \A s \in due[r] :
    socket[s] \in {"serving", "ended"} /\ Owner[s] = target[r]

\* Nothing is due before the row changes, and all of it has left the registry
\* once the call has disconnected its account.
DueIsTaken ==
  \A r \in Requests :
    /\ pc[r] \in {"idle", "load", "save"} => due[r] = {}
    /\ pc[r] \in {"close", "done"} => due[r] \cap sessions = {}

\* During a sweep every account that is not active has lapsed; the suspects
\* left after the query are among them; and between sweeps nothing is doomed.
SweepKnows ==
  /\ sweep # "wait" => {u \in Users : account[u] # "active"} \subseteq lapsed
  /\ sweep = "close" => suspects \subseteq lapsed
  /\ sweep # "close" => doomed[Sweeper] = {}

IInv ==
  /\ TypeOK
  /\ HandsEmpty /\ OpenIsUpgraded /\ RegistryIsLive /\ NoSocketEscapes
  /\ DueIsTracked /\ DueIsTaken
  /\ SweepKnows /\ SweepIsJustified
-----------------------------------------------------------------------------
\* The initial states satisfy the invariant.
LEMMA InitIInv == Init => IInv
  BY SessionsAssumption
  DEF Init, IInv, TypeOK, HandsEmpty, OpenIsUpgraded, RegistryIsLive, NoSocketEscapes,
      DueIsTracked, DueIsTaken, SweepKnows, SweepIsJustified, Closers, Sweeper

\* Every step of every handler and of the sweeper preserves the types.
LEMMA TypeStep == TypeOK /\ [Next]_vars => TypeOK'
<1> SUFFICES ASSUME TypeOK, [Next]_vars PROVE TypeOK'
  OBVIOUS
<1> USE SessionsAssumption DEF TypeOK, Closers, accountVars, callVars, socketVars, sweepVars
<1>1. ASSUME NEW s \in Sockets, Serve(s) PROVE TypeOK'
  BY <1>1 DEF Serve, Authenticate, AbandonUpgrade, UpgradeConn, Track, HangUp, EndSession
<1>2. ASSUME NEW r \in Requests, Call(r) PROVE TypeOK'
  <2>1. CASE AuthorizeProfile(r)
    BY <2>1 DEF AuthorizeProfile, Goto
  <2>2. CASE LoadUser(r)
    BY <2>2 DEF LoadUser, Goto
  <2>3. CASE LoadFails(r)
    BY <2>3 DEF LoadFails, Goto
  <2>4. CASE SaveUser(r)
    BY <2>4 DEF SaveUser, SavedStatus, SetAccount, Goto, OwnedBy
  <2>5. CASE DeleteRow(r)
    BY <2>5 DEF DeleteRow, SetAccount, Goto, OwnedBy
  <2>6. CASE WriteFails(r)
    BY <2>6 DEF WriteFails, Goto
  <2>7. CASE DisconnectUserSockets(r)
    BY <2>7 DEF DisconnectUserSockets, Doom, Goto, OwnedBy
  <2>8. CASE CloseSockets(r)
    BY <2>8 DEF CloseSockets, CloseDoomed, Goto
  <2> QED
    BY <1>2, <2>1, <2>2, <2>3, <2>4, <2>5, <2>6, <2>7, <2>8 DEF Call
<1>3. CASE Sweep
  <2>1. CASE TrackedUserIDs \/ QueryFails \/ QueryActive \/ SweepEnds
    BY <2>1 DEF TrackedUserIDs, QueryFails, QueryActive, SweepEnds
  <2>2. CASE SweepClose
    BY <2>2 DEF SweepClose, CloseDoomed
  <2>3. ASSUME NEW u \in Users, SweepUser(u) PROVE TypeOK'
    BY <2>3 DEF SweepUser, Doom, OwnedBy
  <2> QED
    BY <1>3, <2>1, <2>2, <2>3 DEF Sweep, SweepAnswered
<1>4. CASE UNCHANGED vars
  BY <1>4 DEF vars
<1> QED
  BY <1>1, <1>2, <1>3, <1>4 DEF Next

\* A WebSocket handler's own steps preserve the invariant.
LEMMA ServeStep ==
  ASSUME IInv, TypeOK', NEW s \in Sockets, Serve(s) PROVE IInv'
<1> USE SessionsAssumption DEF IInv, TypeOK, Closers, accountVars, callVars, sweepVars
<1>1. HandsEmpty' /\ SweepKnows' /\ SweepIsJustified'
  BY DEF HandsEmpty, SweepKnows, SweepIsJustified, Serve, Authenticate, AbandonUpgrade,
         UpgradeConn, Track, HangUp, EndSession
<1>2. OpenIsUpgraded'
  BY DEF OpenIsUpgraded, Serve, Authenticate, AbandonUpgrade, UpgradeConn, Track, HangUp,
         EndSession
<1>3. RegistryIsLive'
  BY DEF RegistryIsLive, Serve, Authenticate, AbandonUpgrade, UpgradeConn, Track, HangUp,
         EndSession
<1>4. NoSocketEscapes'
  BY DEF NoSocketEscapes, OpenIsUpgraded, Serve, Authenticate, AbandonUpgrade, UpgradeConn,
         Track, HangUp, EndSession
<1>5. DueIsTracked'
  BY DEF DueIsTracked, Serve, Authenticate, AbandonUpgrade, UpgradeConn, Track, HangUp,
         EndSession
<1>6. DueIsTaken'
  BY DEF DueIsTaken, DueIsTracked, Serve, Authenticate, AbandonUpgrade, UpgradeConn, Track,
         HangUp, EndSession
<1> QED
  BY <1>1, <1>2, <1>3, <1>4, <1>5, <1>6

\* The steps that change an account, up to the disconnection, preserve it.
LEMMA CallStep ==
  ASSUME IInv, TypeOK', NEW r \in Requests, Call(r) PROVE IInv'
<1> USE SessionsAssumption DEF IInv, TypeOK, Closers, accountVars, callVars, socketVars, sweepVars
<1>1. CASE AuthorizeProfile(r) \/ LoadUser(r) \/ LoadFails(r) \/ WriteFails(r)
  <2>1. UNCHANGED <<accountVars, socketVars, sessions, op, target, due, doomed, sweepVars>>
    BY <1>1 DEF AuthorizeProfile, LoadUser, LoadFails, WriteFails
  <2>2. PICK to \in {"load", "save", "done"} :
          pc[r] \in {"idle", "load", "save"} /\ pc' = [pc EXCEPT ![r] = to]
    BY <1>1 DEF AuthorizeProfile, LoadUser, LoadFails, WriteFails, Goto
  <2>3. /\ \A q \in Requests : q # r => pc'[q] = pc[q]
        /\ pc'[r] \in {"load", "save", "done"}
    BY <2>2
  <2>4. due[r] = {} /\ doomed[r] = {}
    BY <2>2 DEF DueIsTaken, HandsEmpty
  <2>5. HandsEmpty' /\ DueIsTaken'
    BY <2>1, <2>3, <2>4 DEF HandsEmpty, DueIsTaken
  <2> QED
    BY <2>1, <2>5 DEF HandsEmpty, OpenIsUpgraded, RegistryIsLive, NoSocketEscapes, DueIsTracked,
                DueIsTaken, SweepKnows, SweepIsJustified
<1>2. CASE SaveUser(r) \/ DeleteRow(r)
  <2>1. /\ UNCHANGED <<socketVars, sessions, op, target, doomed, sweepVars>>
        /\ pc[r] \in {"idle", "save"} /\ pc'[r] \in {"disconnect", "done"}
        /\ \A q \in Requests : q # r => pc'[q] = pc[q] /\ due'[q] = due[q]
        /\ due'[r] \subseteq sessions \cap OwnedBy(target[r])
        /\ pc'[r] = "done" => due'[r] = {}
    BY <1>2 DEF SaveUser, DeleteRow, Goto
  <2>2. lapsed \subseteq lapsed' /\ \A u \in Users : account'[u] # "active" =>
          account[u] # "active" \/ u \in lapsed'
    BY <1>2 DEF SaveUser, DeleteRow, SetAccount, SavedStatus
  <2>3. DueIsTracked' /\ DueIsTaken'
    BY <2>1 DEF DueIsTracked, DueIsTaken, RegistryIsLive, OwnedBy
  <2>4. SweepKnows' /\ SweepIsJustified'
    BY <2>1, <2>2 DEF SweepKnows, SweepIsJustified
  <2>5. HandsEmpty'
    BY <2>1 DEF HandsEmpty
  <2> QED
    BY <2>1, <2>3, <2>4, <2>5 DEF OpenIsUpgraded, RegistryIsLive, NoSocketEscapes
<1>3. CASE DisconnectUserSockets(r)
  <2>1. /\ UNCHANGED <<accountVars, socketVars, target, due, sweepVars>>
        /\ pc[r] = "disconnect" /\ pc'[r] = "close"
        /\ \A q \in Requests : q # r => pc'[q] = pc[q]
        /\ doomed[r] = {} /\ doomed'[r] = sessions \cap OwnedBy(target[r])
        /\ \A c \in Closers : c # r => doomed'[c] = doomed[c]
        /\ sessions' = sessions \ OwnedBy(target[r])
    BY <1>3 DEF DisconnectUserSockets, Doom, Goto, HandsEmpty
  <2>2. NoSocketEscapes'
    BY <2>1 DEF NoSocketEscapes, OwnedBy
  <2>3. DueIsTaken' /\ DueIsTracked'
    BY <2>1 DEF DueIsTaken, DueIsTracked, OwnedBy
  <2> QED
    BY <2>1, <2>2, <2>3 DEF HandsEmpty, OpenIsUpgraded, RegistryIsLive, SweepKnows,
                            SweepIsJustified
<1>4. CASE CloseSockets(r)
  <2>1. /\ UNCHANGED <<accountVars, socket, sessions, target, due, sweepVars>>
        /\ pc[r] = "close" /\ pc'[r] = "done"
        /\ \A q \in Requests : q # r => pc'[q] = pc[q]
        /\ doomed'[r] = {} /\ open' = open \ doomed[r]
        /\ \A c \in Closers : c # r => doomed'[c] = doomed[c]
    BY <1>4 DEF CloseSockets, CloseDoomed, Goto
  <2>2. NoSocketEscapes'
    BY <2>1 DEF NoSocketEscapes
  <2> QED
    BY <2>1, <2>2 DEF HandsEmpty, OpenIsUpgraded, RegistryIsLive, DueIsTracked, DueIsTaken,
                      SweepKnows, SweepIsJustified
<1> QED
  BY <1>1, <1>2, <1>3, <1>4 DEF Call

\* The sweeper's steps preserve it.
LEMMA SweepStep == ASSUME IInv, TypeOK', Sweep PROVE IInv'
<1> USE SessionsAssumption DEF IInv, TypeOK, Closers, accountVars, callVars, socketVars, sweepVars
<1>1. CASE TrackedUserIDs \/ QueryFails \/ QueryActive \/ SweepEnds
  <2>1. UNCHANGED <<account, socketVars, sessions, callVars, doomed>>
    BY <1>1 DEF TrackedUserIDs, QueryFails, QueryActive, SweepEnds
  <2>2. SweepKnows' /\ SweepIsJustified'
    BY <1>1 DEF SweepKnows, SweepIsJustified, TrackedUserIDs, QueryFails, QueryActive, SweepEnds
  <2> QED
    BY <2>1, <2>2 DEF HandsEmpty, OpenIsUpgraded, RegistryIsLive, NoSocketEscapes,
                      DueIsTracked, DueIsTaken
<1>2. ASSUME NEW u \in Users, SweepUser(u) PROVE IInv'
  <2>1. /\ UNCHANGED <<accountVars, socketVars, callVars, sweep>>
        /\ sweep = "close" /\ u \in suspects /\ suspects' \subseteq suspects
        /\ doomed[Sweeper] = {} /\ doomed'[Sweeper] = sessions \cap OwnedBy(u)
        /\ \A r \in Requests : doomed'[r] = doomed[r]
        /\ sessions' = sessions \ OwnedBy(u)
    BY <1>2 DEF SweepUser, Doom
  <2>2. NoSocketEscapes'
    BY <2>1 DEF NoSocketEscapes, OwnedBy
  <2>3. SweepKnows' /\ SweepIsJustified'
    BY <2>1 DEF SweepKnows, SweepIsJustified, OwnedBy
  <2> QED
    BY <2>1, <2>2, <2>3 DEF HandsEmpty, OpenIsUpgraded, RegistryIsLive, DueIsTracked, DueIsTaken
<1>3. CASE SweepClose
  <2>1. /\ UNCHANGED <<accountVars, callVars, sweepVars, sessions, socket>>
        /\ open' = open \ doomed[Sweeper] /\ doomed'[Sweeper] = {}
        /\ \A r \in Requests : doomed'[r] = doomed[r]
    BY <1>3 DEF SweepClose, CloseDoomed
  <2>2. NoSocketEscapes'
    BY <2>1 DEF NoSocketEscapes
  <2> QED
    BY <2>1, <2>2 DEF HandsEmpty, OpenIsUpgraded, RegistryIsLive, DueIsTracked, DueIsTaken,
                      SweepKnows, SweepIsJustified
<1> QED
  BY <1>1, <1>2, <1>3 DEF Sweep, SweepAnswered

\* The invariant holds in every reachable state.
LEMMA Inductive == Spec => []IInv
<1>1. IInv /\ [Next]_vars => IInv'
  <2> SUFFICES ASSUME IInv, [Next]_vars PROVE IInv'
    OBVIOUS
  <2>1. TypeOK'
    BY TypeStep DEF IInv
  <2>2. CASE UNCHANGED vars
    BY <2>2, <2>1 DEF vars, accountVars, callVars, socketVars, sweepVars, IInv, HandsEmpty,
      OpenIsUpgraded, RegistryIsLive, NoSocketEscapes, DueIsTracked, DueIsTaken, SweepKnows,
      SweepIsJustified
  <2> QED
    BY <2>1, <2>2, ServeStep, CallStep, SweepStep DEF Next
<1> QED
  BY <1>1, InitIInv, PTL DEF Spec

\* Every variable keeps its type, for any accounts, sockets and calls.
THEOREM TypeCorrect == Spec => []TypeOK
<1>1. IInv => TypeOK
  BY DEF IInv
<1> QED
  BY <1>1, Inductive, PTL

\* The registry and the closers together account for every open connection
\* that a handler serves: none can survive a deactivation unseen.
THEOREM NothingEscapes == Spec => []NoSocketEscapes
<1>1. IInv => NoSocketEscapes
  BY DEF IInv
<1> QED
  BY <1>1, Inductive, PTL

\* Track and the deferred release keep the registry to live handlers.
THEOREM RegistryBounded == Spec => []RegistryIsLive
<1>1. IInv => RegistryIsLive
  BY DEF IInv
<1> QED
  BY <1>1, Inductive, PTL

\* UpdateUser and DeleteUser answer only when what they found registered is
\* closed or in another closer's hands.
THEOREM ResponseAfterCut == Spec => []CutBeforeResponse
<1>1. IInv => CutBeforeResponse
  <2> SUFFICES ASSUME IInv, NEW r \in Requests, pc[r] = "done", NEW s \in due[r] \cap open
               PROVE  \E c \in Closers \ {r} : s \in doomed[c]
    BY DEF CutBeforeResponse
  <2>1. socket[s] = "serving"
    BY DEF IInv, TypeOK, OpenIsUpgraded, DueIsTracked
  <2>2. s \notin sessions
    BY DEF IInv, DueIsTaken
  <2>3. doomed[r] = {}
    BY DEF IInv, HandsEmpty
  <2> QED
    BY <2>1, <2>2, <2>3 DEF IInv, NoSocketEscapes
<1> QED
  BY <1>1, Inductive, PTL

\* The sweeper never disconnects an account that stayed active.
THEOREM SweepJustified == Spec => []SweepIsJustified
<1>1. IInv => SweepIsJustified
  BY DEF IInv
<1> QED
  BY <1>1, Inductive, PTL
=============================================================================
