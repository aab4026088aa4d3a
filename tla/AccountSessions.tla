--------------------------- MODULE AccountSessions ---------------------------
(***************************************************************************)
(* Accounts and the WebSockets they hold open: the rows of users, the      *)
(* registry of ws/sessions.go, the endpoints that change an account, the   *)
(* WebSocket handlers, and the sweeper of handlers/ws_sessions.go.         *)
(*                                                                         *)
(* The registry has a mutex, so each access to it is one action.  Nothing  *)
(* orders a handler's statements against another handler's: an account is  *)
(* loaded, changed in memory and saved as a whole row, and its sockets are *)
(* disconnected afterwards.                                                *)
(***************************************************************************)
CONSTANTS
  Users,      \* the accounts
  Sockets,    \* bound: the WebSockets that clients may open
  Owner,      \* the account that each of them authenticates as
  Requests,   \* bound: the calls that change an account
  Operations  \* what they may ask for

Sweeper == "sweeper"

ASSUME SessionsAssumption ==
  /\ Sweeper \notin Requests
  /\ Owner \in [Sockets -> Users]
  /\ Operations \subseteq {"deactivate", "reactivate", "edit", "delete", "profile", "sso"}

VARIABLES
  account,  \* per account: "active", "inactive" or "deleted"
  socket,   \* where the handler of each WebSocket stands
  open,     \* the upgraded connections that are not closed
  sessions, \* the registry
  pc,       \* where the handler of each call stands
  op,       \* what the call asks for
  target,   \* the account it is about
  isActive, \* the IsActive column of its local models.User
  doomed,   \* per closer: the connections its CloseUser is about to close
  sweep,    \* where the sweeper stands
  suspects, \* the accounts the sweep still has to look at, or to close
  due,      \* history: the sockets registered when a call ended an account
  lapsed    \* history: the accounts that were not active at some time since
            \* the current sweep began

accountVars == <<account, lapsed>>
callVars    == <<pc, op, target, isActive, due>>
socketVars  == <<socket, open>>
sweepVars   == <<sweep, suspects>>
vars == <<accountVars, socketVars, sessions, callVars, doomed, sweepVars>>
-----------------------------------------------------------------------------
Closers == Requests \cup {Sweeper}

OwnedBy(u) == {s \in Sockets : Owner[s] = u}

Init ==
  /\ account \in [Users -> {"active", "inactive"}]
  /\ lapsed = {}
  /\ socket = [s \in Sockets |-> "new"]
  /\ open = {}
  /\ sessions = {}
  /\ pc = [r \in Requests |-> "idle"]
  /\ op \in [Requests -> Operations]
  /\ target \in [Requests -> Users]
  /\ isActive = [r \in Requests |-> FALSE]
  /\ due = [r \in Requests |-> {}]
  /\ doomed = [c \in Closers |-> {}]
  /\ sweep = "wait"
  /\ suspects = {}

Goto(r, from, to) == pc[r] = from /\ pc' = [pc EXCEPT ![r] = to]

\* The row of account u changes; lapsed remembers that it is not active.
SetAccount(u, status) ==
  /\ account' = [account EXCEPT ![u] = status]
  /\ lapsed' = IF status = "active" THEN lapsed ELSE lapsed \cup {u}
-----------------------------------------------------------------------------
(***************************************************************************)
(* The registry.                                                           *)
(***************************************************************************)

\* Mutant of Doom: the connections are forgotten, not handed over to be closed.
ForgetUser(c, u) ==
  /\ doomed' = [doomed EXCEPT ![c] = {}]
  /\ sessions' = sessions \ OwnedBy(u)

\* CloseUser, under the lock: take the user's connections out of the registry.
Doom(c, u) ==
  /\ doomed' = [doomed EXCEPT ![c] = sessions \cap OwnedBy(u)]
  /\ sessions' = sessions \ OwnedBy(u)

\* CloseUser, after the unlock: close them.
CloseDoomed(c) ==
  /\ open' = open \ doomed[c]
  /\ doomed' = [doomed EXCEPT ![c] = {}]
  /\ UNCHANGED <<sessions, socket>>
-----------------------------------------------------------------------------
(***************************************************************************)
(* A WebSocket handler.                                                    *)
(***************************************************************************)

\* middleware.Auth reads the account; a call it refuses has no effect and is
\* left out.
Authenticate(s) ==
  /\ socket[s] = "new"
  /\ account[Owner[s]] = "active"
  /\ socket' = [socket EXCEPT ![s] = "authorized"]
  /\ UNCHANGED <<accountVars, open, sessions, callVars, doomed, sweepVars>>

\* What the handler looks up first is missing, or the handshake fails.
AbandonUpgrade(s) ==
  /\ socket[s] = "authorized"
  /\ socket' = [socket EXCEPT ![s] = "ended"]
  /\ UNCHANGED <<accountVars, open, sessions, callVars, doomed, sweepVars>>

UpgradeConn(s) ==
  /\ socket[s] = "authorized"
  /\ socket' = [socket EXCEPT ![s] = "upgraded"]
  /\ open' = open \cup {s}
  /\ UNCHANGED <<accountVars, sessions, callVars, doomed, sweepVars>>

Track(s) ==
  /\ socket[s] = "upgraded"
  /\ socket' = [socket EXCEPT ![s] = "serving"]
  /\ sessions' = sessions \cup {s}
  /\ UNCHANGED <<accountVars, open, callVars, doomed, sweepVars>>

\* The client goes away.
HangUp(s) ==
  /\ s \in open
  /\ open' = open \ {s}
  /\ UNCHANGED <<accountVars, socket, sessions, callVars, doomed, sweepVars>>

\* Mutant of EndSession: the handler returns without the deferred release.
EndUnreleased(s) ==
  /\ socket[s] = "serving"
  /\ s \notin open
  /\ socket' = [socket EXCEPT ![s] = "ended"]
  /\ UNCHANGED <<accountVars, open, sessions, callVars, doomed, sweepVars>>

\* The read loop of a closed connection returns and the handler releases it.
EndSession(s) ==
  /\ socket[s] = "serving"
  /\ s \notin open
  /\ socket' = [socket EXCEPT ![s] = "ended"]
  /\ sessions' = sessions \ {s}
  /\ UNCHANGED <<accountVars, open, callVars, doomed, sweepVars>>
-----------------------------------------------------------------------------
(***************************************************************************)
(* The calls that change an account.                                       *)
(***************************************************************************)

\* The caller of UpdateProfile passes middleware.Auth.
AuthorizeProfile(r) ==
  /\ op[r] = "profile"
  /\ account[target[r]] = "active"
  /\ Goto(r, "idle", "load")
  /\ UNCHANGED <<accountVars, socketVars, sessions, op, target, isActive, due, doomed, sweepVars>>

\* First(&user) and the changes the body asks for.  A call for an account that
\* is gone is refused without effect and left out.
LoadUser(r) ==
  /\ op[r] # "delete"
  /\ account[target[r]] # "deleted"
  /\ Goto(r, IF op[r] = "profile" THEN "load" ELSE "idle", "save")
  /\ isActive' = [isActive EXCEPT ![r] =
       CASE op[r] = "deactivate" -> FALSE
         [] op[r] = "reactivate" -> TRUE
         [] OTHER -> account[target[r]] = "active"]
  /\ UNCHANGED <<accountVars, socketVars, sessions, op, target, due, doomed, sweepVars>>

LoadFails(r) ==
  /\ account[target[r]] = "deleted"
  /\ Goto(r, "load", "done")
  /\ UNCHANGED <<accountVars, socketVars, sessions, op, target, isActive, due, doomed, sweepVars>>

\* gorm's Save writes every column of the local copy.  A row that is gone is
\* inserted again, and a zero IsActive then takes the column's default, true.
SavedStatus(r) ==
  IF account[target[r]] = "deleted" \/ isActive[r] THEN "active" ELSE "inactive"

\* UpdateUser disconnects an account it leaves inactive; UpdateProfile and
\* syncOIDCUser disconnect nobody.
SaveUser(r) ==
  LET cut == SavedStatus(r) = "inactive" /\ op[r] \notin {"profile", "sso"}
  IN  /\ Goto(r, "save", IF cut THEN "disconnect" ELSE "done")
      /\ SetAccount(target[r], SavedStatus(r))
      /\ due' = [due EXCEPT ![r] = IF cut THEN sessions \cap OwnedBy(target[r]) ELSE {}]
      /\ UNCHANGED <<socketVars, sessions, op, target, isActive, doomed, sweepVars>>

\* Mutant of DeleteRow: the response is sent without DisconnectUserSockets.
DeleteRowOnly(r) ==
  /\ op[r] = "delete"
  /\ Goto(r, "idle", "done")
  /\ SetAccount(target[r], "deleted")
  /\ due' = [due EXCEPT ![r] = sessions \cap OwnedBy(target[r])]
  /\ UNCHANGED <<socketVars, sessions, op, target, isActive, doomed, sweepVars>>

\* DeleteUser's grants are rows of other tables, which nothing here reads.
DeleteRow(r) ==
  /\ op[r] = "delete"
  /\ Goto(r, "idle", "disconnect")
  /\ SetAccount(target[r], "deleted")
  /\ due' = [due EXCEPT ![r] = sessions \cap OwnedBy(target[r])]
  /\ UNCHANGED <<socketVars, sessions, op, target, isActive, doomed, sweepVars>>

\* The database refuses the statement: an error, or a grant made meanwhile.
WriteFails(r) ==
  /\ \/ Goto(r, "save", "done")
     \/ op[r] = "delete" /\ Goto(r, "idle", "done")
  /\ UNCHANGED <<accountVars, socketVars, sessions, op, target, isActive, due, doomed, sweepVars>>

DisconnectUserSockets(r) ==
  /\ Goto(r, "disconnect", "close")
  /\ Doom(r, target[r])
  /\ UNCHANGED <<accountVars, socketVars, op, target, isActive, due, sweepVars>>

CloseSockets(r) ==
  /\ Goto(r, "close", "done")
  /\ CloseDoomed(r)
  /\ UNCHANGED <<accountVars, op, target, isActive, due, sweepVars>>
-----------------------------------------------------------------------------
(***************************************************************************)
(* The sweeper: one goroutine, a round per tick.                           *)
(***************************************************************************)
TrackedUserIDs ==
  /\ sweep = "wait"
  /\ sessions # {}
  /\ sweep' = "query"
  /\ suspects' = {Owner[s] : s \in sessions}
  /\ lapsed' = {u \in Users : account[u] # "active"}
  /\ UNCHANGED <<account, socketVars, sessions, callVars, doomed>>

\* One query for the accounts that are active; the others are to be closed.
QueryActive ==
  /\ sweep = "query"
  /\ sweep' = "close"
  /\ suspects' = {u \in suspects : account[u] # "active"}
  /\ UNCHANGED <<accountVars, socketVars, sessions, callVars, doomed>>

\* Mutant of QueryFails: an error is taken for an empty answer.
QueryFailsAsEmpty ==
  /\ sweep = "query"
  /\ sweep' = "close"
  /\ UNCHANGED <<suspects, accountVars, socketVars, sessions, callVars, doomed>>

\* A database error skips the round.
QueryFails ==
  /\ sweep = "query"
  /\ sweep' = "wait"
  /\ suspects' = {}
  /\ UNCHANGED <<accountVars, socketVars, sessions, callVars, doomed>>

SweepUser(u) ==
  /\ sweep = "close"
  /\ u \in suspects
  /\ doomed[Sweeper] = {}
  /\ Doom(Sweeper, u)
  /\ suspects' = suspects \ {u}
  /\ UNCHANGED <<accountVars, socketVars, callVars, sweep>>

SweepClose ==
  /\ doomed[Sweeper] # {}
  /\ CloseDoomed(Sweeper)
  /\ UNCHANGED <<accountVars, callVars, sweepVars>>

\* Mutant of SweepEnds: the goroutine returns after one round.
SweepOnce ==
  /\ sweep = "close"
  /\ suspects = {} /\ doomed[Sweeper] = {}
  /\ sweep' = "stopped"
  /\ UNCHANGED <<suspects, accountVars, socketVars, sessions, callVars, doomed>>

SweepEnds ==
  /\ sweep = "close"
  /\ suspects = {} /\ doomed[Sweeper] = {}
  /\ sweep' = "wait"
  /\ UNCHANGED <<suspects, accountVars, socketVars, sessions, callVars, doomed>>
-----------------------------------------------------------------------------
Serve(s) ==
  \/ Authenticate(s) \/ AbandonUpgrade(s) \/ UpgradeConn(s) \/ Track(s)
  \/ HangUp(s) \/ EndSession(s)

Call(r) ==
  \/ AuthorizeProfile(r) \/ LoadUser(r) \/ LoadFails(r) \/ SaveUser(r)
  \/ DeleteRow(r) \/ WriteFails(r)
  \/ DisconnectUserSockets(r) \/ CloseSockets(r)

SweepAnswered == QueryActive \/ SweepClose \/ SweepEnds \/ \E u \in Users : SweepUser(u)

Sweep == TrackedUserIDs \/ QueryFails \/ SweepAnswered

Next == (\E s \in Sockets : Serve(s)) \/ (\E r \in Requests : Call(r)) \/ Sweep

Spec == Init /\ [][Next]_vars

\* A handler that upgraded its connection goes on to track it, a call goes on
\* to its end, the ticker keeps ticking, and the database does not fail every
\* round of the sweeper.
FairSpec ==
  /\ Spec
  /\ \A s \in Sockets : WF_vars(Track(s))
  /\ \A r \in Requests : WF_vars(CloseSockets(r))
  /\ WF_vars(TrackedUserIDs)
  /\ SF_vars(SweepAnswered)
-----------------------------------------------------------------------------
(***************************************************************************)
(* Properties.                                                             *)
(***************************************************************************)

\* Every variable has its type.
TypeOK ==
  /\ account \in [Users -> {"active", "inactive", "deleted"}]
  /\ lapsed \subseteq Users
  /\ socket \in [Sockets -> {"new", "authorized", "upgraded", "serving", "ended"}]
  /\ open \subseteq Sockets
  /\ sessions \subseteq Sockets
  /\ pc \in [Requests -> {"idle", "load", "save", "disconnect", "close", "done"}]
  /\ op \in [Requests -> Operations]
  /\ target \in [Requests -> Users]
  /\ isActive \in [Requests -> BOOLEAN]
  /\ due \in [Requests -> SUBSET Sockets]
  /\ doomed \in [Closers -> SUBSET Sockets]
  /\ sweep \in {"wait", "query", "close"}
  /\ suspects \subseteq Users

\* An open connection that a handler serves can always be reached: it is in the
\* registry, or somebody who took it out is about to close it.
NoSocketEscapes ==
  \A s \in open : socket[s] = "serving" => s \in sessions \/ \E c \in Closers : s \in doomed[c]

\* The registry holds no connection whose handler has returned, so it does not
\* grow for the life of the process.
RegistryIsLive == \A s \in sessions : socket[s] = "serving"

\* When the response to a deactivation or a deletion is sent, each socket that
\* was registered when the row changed is closed, or another closer has it in
\* hand.
CutBeforeResponse ==
  \A r \in Requests : pc[r] = "done" =>
    \A s \in due[r] \cap open : \E c \in Closers \ {r} : s \in doomed[c]

\* The sweeper cuts off only accounts that were inactive or gone at some time
\* since it listed them: a failing database never disconnects anyone.
SweepIsJustified == \A s \in doomed[Sweeper] : Owner[s] \in lapsed

\* An account that stays deactivated or deleted ends up without an open socket,
\* also when a socket was registered after the account was disconnected.
OutcastsAreCutOff ==
  \A s \in Sockets :
    s \in open /\ account[Owner[s]] # "active" ~>
      s \notin open \/ account[Owner[s]] = "active"

\* DeleteUser answers "user permanently deleted": no later step brings the
\* account back.
DeletedStaysDeleted ==
  [][\A u \in Users : account[u] = "deleted" => account'[u] = "deleted"]_vars

\* The comment in OIDCCallback: a deactivated account must not be re-admitted
\* through SSO.  So the step that makes it active again serves another call.
NotReadmittedBySSO ==
  [][\A r \in Requests :
       op[r] = "sso" /\ pc'[r] # pc[r] /\ account[target[r]] = "inactive" =>
         account'[target[r]] # "active"]_vars
=============================================================================
