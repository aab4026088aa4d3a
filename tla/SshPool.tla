------------------------------ MODULE SshPool ------------------------------
(***************************************************************************)
(* The pool of SSH connections of ssh/client.go and the operations of the  *)
(* handlers on it: one client per server row, found or dialed by           *)
(* GetOrCreate, used under the client's own mutex, closed by Remove, and   *)
(* probed every 30 seconds by a ticker.                                    *)
(*                                                                         *)
(* The pool's lock covers each access to the map and nothing between two:  *)
(* a dial, a save of the row or a probe runs unlocked, and other callers   *)
(* remove and replace the entry meanwhile.                                 *)
(***************************************************************************)
CONSTANTS
  Callers,    \* bound: the goroutines that use the pool, one operation each
  Conns,      \* bound: the connections that are ever dialed
  Probes,     \* bound: the probe goroutines alive at once
  Servers,    \* the IDs of server rows
  Temp,       \* the ID 0 of connection tests, which has no row
  Hosts,      \* the addresses a row or a test may name
  Operations, \* the operations callers perform
  None        \* no connection, no host, no caller

Slots == Servers \cup {Temp}

\* The callers by what they do with a connection: RunCommand by a handler,
\* RunCommandTimeout by the agent, the metrics collector, a terminal (which
\* reconnects once), a reboot, a connection test; and those that only remove.
Users    == {"run", "timed", "collect", "terminal", "reboot"}
Removers == {"disconnect", "delete"}

ASSUME PoolAssumption ==
  /\ None \notin Conns \cup Hosts \cup Callers
  /\ Temp \notin Servers
  /\ Operations \subseteq Users \cup Removers \cup {"update", "test"}

VARIABLES
  row,      \* the host of each server's row; None when it is deleted
  pool,     \* the pooled connection of each ID
  link,     \* state of each connection; "dead": the transport has gone
  peer,     \* the host each connection was dialed to
  owner,    \* the ID each connection was dialed for
  mu,       \* the caller that holds each client's mutex
  task,     \* each caller: operation, step, ID, its copy of the host, client
  probe,    \* each probe goroutine: step, ID, the client it probes
  displaced \* history: the connections a store has overwritten in the pool

connVars == <<link, peer, owner>>
vars == <<row, pool, connVars, mu, task, probe, displaced>>

Idle == [op |-> "none", pc |-> "idle", server |-> Temp, host |-> None, conn |-> None]
NoProbe == [pc |-> "idle", server |-> Temp, conn |-> None]
-----------------------------------------------------------------------------
Init ==
  /\ row \in [Servers -> Hosts]
  /\ pool = [s \in Slots |-> None]
  /\ link = [k \in Conns |-> "unused"]
  /\ peer = [k \in Conns |-> None]
  /\ owner = [k \in Conns |-> Temp]
  /\ mu = [k \in Conns |-> None]
  /\ task = [t \in Callers |-> Idle]
  /\ probe = [p \in Probes |-> NoProbe]
  /\ displaced = {}

At(t, step) == task[t].pc = step

Goto(t, step) == task' = [task EXCEPT ![t].pc = step]
-----------------------------------------------------------------------------
(***************************************************************************)
(* The beginning of a request.                                             *)
(***************************************************************************)
\* db.DB.First: the caller works on its copy of the row from here on.
Load(t, op, s) ==
  /\ At(t, "idle")
  /\ op \in Operations \cap (Users \cup {"update"})
  /\ row[s] # None
  /\ task' = [task EXCEPT ![t] =
       [op |-> op, pc |-> IF op = "update" THEN "remove" ELSE "lookup",
        server |-> s, host |-> row[s], conn |-> None]]
  /\ UNCHANGED <<row, pool, connVars, mu, probe, displaced>>

\* DisconnectServer and DeleteServer begin with Remove, without the row.
Drop(t, op, s) ==
  /\ At(t, "idle")
  /\ op \in Operations \cap Removers
  /\ task' = [task EXCEPT ![t] =
       [op |-> op, pc |-> "remove", server |-> s, host |-> None, conn |-> None]]
  /\ UNCHANGED <<row, pool, connVars, mu, probe, displaced>>

\* TestK8s: the temp ID 0 and the host of the request.
TestConnection(t, h) ==
  /\ At(t, "idle")
  /\ "test" \in Operations
  /\ task' = [task EXCEPT ![t] =
       [op |-> "test", pc |-> "remove", server |-> Temp, host |-> h, conn |-> None]]
  /\ UNCHANGED <<row, pool, connVars, mu, probe, displaced>>
-----------------------------------------------------------------------------
(***************************************************************************)
(* GetOrCreate.                                                            *)
(***************************************************************************)
\* What a caller does when it gets no client, or its session or command
\* fails: the collector clears the pool, a terminal reconnects once.
Failed(r) ==
  CASE r.op = "collect"  -> [r EXCEPT !.pc = "remove"]
    [] r.op = "terminal" -> [r EXCEPT !.pc = "remove", !.op = "reconnect"]
    [] OTHER             -> [r EXCEPT !.pc = "done"]

Lookup(t) ==
  /\ At(t, "lookup")
  /\ LET k == pool[task[t].server] IN
     task' = [task EXCEPT ![t].pc = IF k = None THEN "dial" ELSE "lock",
                          ![t].conn = k]
  /\ UNCHANGED <<row, pool, connVars, mu, probe, displaced>>

\* NewClient: dial, handshake and authentication to the caller's host.
Dial(t) ==
  /\ At(t, "dial")
  /\ \E k \in Conns :
       /\ link[k] = "unused"
       /\ link' = [link EXCEPT ![k] = "open"]
       /\ peer' = [peer EXCEPT ![k] = task[t].host]
       /\ owner' = [owner EXCEPT ![k] = task[t].server]
       /\ task' = [task EXCEPT ![t].pc = "store", ![t].conn = k]
  /\ UNCHANGED <<row, pool, mu, probe, displaced>>

\* Variant: NewClient's error is not returned: GetOrCreate goes on with a nil client.
DialFailsUnchecked(t) ==
  /\ At(t, "dial")
  /\ Goto(t, "store")
  /\ UNCHANGED <<row, pool, connVars, mu, probe, displaced>>

DialFails(t) ==
  /\ At(t, "dial")
  /\ task' = [task EXCEPT ![t] = Failed(@)]
  /\ UNCHANGED <<row, pool, connVars, mu, probe, displaced>>

\* pool[serverID] = c, whatever is there.
Store(t) ==
  /\ At(t, "store")
  /\ displaced' = displaced \cup ({pool[task[t].server]} \ {None})
  /\ pool' = [pool EXCEPT ![task[t].server] = task[t].conn]
  /\ Goto(t, "lock")
  /\ UNCHANGED <<row, connVars, mu, probe>>
-----------------------------------------------------------------------------
(***************************************************************************)
(* RunCommand, RunCommandTimeout and NewSession of a client.               *)
(***************************************************************************)
Lock(t) ==
  /\ At(t, "lock")
  /\ mu[task[t].conn] = None
  /\ mu' = [mu EXCEPT ![task[t].conn] = t]
  /\ Goto(t, "session")
  /\ UNCHANGED <<row, pool, connVars, probe, displaced>>

\* defer c.mu.Unlock().
Unlock(t) == mu' = [mu EXCEPT ![task[t].conn] = None]

\* A live connection grants a session. A command runs under the mutex; a
\* terminal and a reboot only take their session under it.
OpenSession(t) ==
  /\ At(t, "session")
  /\ link[task[t].conn] = "open"
  /\ \/ /\ task[t].op \in {"run", "timed", "collect", "test"}
        /\ Goto(t, "command")
        /\ UNCHANGED mu
     \/ /\ task[t].op \in {"terminal", "reconnect"}
        /\ Goto(t, "done")
        /\ Unlock(t)
     \/ /\ task[t].op = "reboot"
        /\ Goto(t, "remove")
        /\ Unlock(t)
  /\ UNCHANGED <<row, pool, connVars, probe, displaced>>

\* Variant: NewSession and RunCommand return a session error without unlocking.
SessionFailsKeepsLock(t) ==
  /\ At(t, "session")
  /\ task' = [task EXCEPT ![t] = Failed(@)]
  /\ UNCHANGED <<row, pool, connVars, mu, probe, displaced>>

\* A dead or closed connection refuses; a live one may (MaxSessions).
SessionFails(t) ==
  /\ At(t, "session")
  /\ task' = [task EXCEPT ![t] = Failed(@)]
  /\ Unlock(t)
  /\ UNCHANGED <<row, pool, connVars, probe, displaced>>

CommandEnds(t) ==
  /\ At(t, "command")
  /\ link[task[t].conn] = "open"
  /\ Goto(t, "done")
  /\ Unlock(t)
  /\ UNCHANGED <<row, pool, connVars, probe, displaced>>

\* A non-zero exit, or the connection has gone under the command.
CommandFails(t) ==
  /\ At(t, "command")
  /\ task' = [task EXCEPT ![t] = Failed(@)]
  /\ Unlock(t)
  /\ UNCHANGED <<row, pool, connVars, probe, displaced>>

\* time.After fires first: the session is closed, the connection is not.
CommandTimesOut(t) ==
  /\ At(t, "command")
  /\ task[t].op = "timed"
  /\ task' = [task EXCEPT ![t] = Failed(@)]
  /\ Unlock(t)
  /\ UNCHANGED <<row, pool, connVars, probe, displaced>>
-----------------------------------------------------------------------------
(***************************************************************************)
(* Remove, and what its callers do next.                                   *)
(***************************************************************************)
\* Variant: Remove closes the client and keeps the entry.
RemoveKeepsEntry(s) ==
  /\ UNCHANGED pool
  /\ link' = [k \in Conns |-> IF k = pool[s] THEN "closed" ELSE link[k]]

\* Variant: Remove deletes the entry and does not close the client.
RemoveWithoutClose(s) ==
  /\ pool' = [pool EXCEPT ![s] = None]
  /\ UNCHANGED link

\* c.Close() and delete(pool, serverID), in one critical section.
Remove(s) ==
  /\ pool' = [pool EXCEPT ![s] = None]
  /\ link' = [k \in Conns |-> IF k = pool[s] THEN "closed" ELSE link[k]]

AfterRemove(op) ==
  CASE op \in {"test", "reconnect"} -> "lookup"
    [] op = "update"                -> "save"
    [] op = "delete"                -> "delete"
    [] OTHER                        -> "done"

CallRemove(t) ==
  /\ At(t, "remove")
  /\ Remove(task[t].server)
  /\ Goto(t, AfterRemove(task[t].op))
  /\ UNCHANGED <<row, peer, owner, mu, probe, displaced>>

\* UpdateServer: db.DB.Save after the removal, with the host of the request.
\* Save inserts the row when a DeleteServer has taken it away.
SaveRow(t) ==
  /\ At(t, "save")
  /\ \E h \in Hosts : row' = [row EXCEPT ![task[t].server] = h]
  /\ Goto(t, "done")
  /\ UNCHANGED <<pool, connVars, mu, probe, displaced>>

\* DeleteServer: the transaction, which may be rolled back.
DeleteRow(t) ==
  /\ At(t, "delete")
  /\ \/ row' = [row EXCEPT ![task[t].server] = None]
     \/ UNCHANGED row
  /\ Goto(t, "done")
  /\ UNCHANGED <<pool, connVars, mu, probe, displaced>>
-----------------------------------------------------------------------------
(***************************************************************************)
(* The ticker: a goroutine per pooled client opens a session; when it      *)
(* cannot, it removes the entry of that ID.                                *)
(***************************************************************************)
StartProbe(p, s) ==
  /\ probe[p].pc = "idle"
  /\ pool[s] # None
  /\ probe' = [probe EXCEPT ![p] = [pc |-> "probing", server |-> s, conn |-> pool[s]]]
  /\ UNCHANGED <<row, pool, connVars, mu, task, displaced>>

ProbeOpens(p) ==
  /\ probe[p].pc = "probing"
  /\ link[probe[p].conn] = "open"
  /\ probe' = [probe EXCEPT ![p] = NoProbe]
  /\ UNCHANGED <<row, pool, connVars, mu, task, displaced>>

\* Variant: The ticker's goroutine only logs a failed probe.
ProbeFailsSilently(p) ==
  /\ probe[p].pc = "probing"
  /\ probe' = [probe EXCEPT ![p] = NoProbe]
  /\ UNCHANGED <<row, pool, connVars, mu, task, displaced>>

ProbeFails(p) ==
  /\ probe[p].pc = "probing"
  /\ probe' = [probe EXCEPT ![p].pc = "removing"]
  /\ UNCHANGED <<row, pool, connVars, mu, task, displaced>>

ProbeRemoves(p) ==
  /\ probe[p].pc = "removing"
  /\ Remove(probe[p].server)
  /\ probe' = [probe EXCEPT ![p] = NoProbe]
  /\ UNCHANGED <<row, peer, owner, mu, task, displaced>>

\* The server, the network or a keep-alive ends a connection.
ConnectionDies(k) ==
  /\ link[k] = "open"
  /\ link' = [link EXCEPT ![k] = "dead"]
  /\ UNCHANGED <<row, pool, peer, owner, mu, task, probe, displaced>>
-----------------------------------------------------------------------------
Call(t) ==
  \/ \E s \in Servers, op \in Operations : Load(t, op, s) \/ Drop(t, op, s)
  \/ \E h \in Hosts : TestConnection(t, h)
  \/ Lookup(t) \/ Dial(t) \/ DialFails(t) \/ Store(t)
  \/ Lock(t) \/ OpenSession(t) \/ SessionFails(t)
  \/ CommandEnds(t) \/ CommandFails(t) \/ CommandTimesOut(t)
  \/ CallRemove(t) \/ SaveRow(t) \/ DeleteRow(t)

Probe(p) ==
  (\E s \in Slots : StartProbe(p, s)) \/ ProbeOpens(p) \/ ProbeFails(p) \/ ProbeRemoves(p)

Next == (\E t \in Callers : Call(t)) \/ (\E p \in Probes : Probe(p))
        \/ (\E k \in Conns : ConnectionDies(k))

Spec == Init /\ [][Next]_vars

\* A goroutine gets the mutex in turn; a session is granted or refused, for
\* TCP keep-alive ends a silent connection; the timer fires; a command whose
\* connection has gone returns (a command on a live one may run for ever).
\* The ticker never stops, so every pooled client is probed again.
CallerFairness(t) ==
  /\ SF_vars(Lock(t))
  /\ WF_vars(OpenSession(t) \/ SessionFails(t))
  /\ WF_vars(CommandTimesOut(t))
  /\ WF_vars(CommandFails(t) /\ link[task[t].conn] # "open")

FairSpec ==
  /\ Spec
  /\ \A t \in Callers : CallerFairness(t)
  /\ \A s \in Slots : SF_vars(\E p \in Probes : StartProbe(p, s))
  /\ \A p \in Probes : WF_vars(ProbeOpens(p) \/ ProbeFails(p)) /\ WF_vars(ProbeRemoves(p))
-----------------------------------------------------------------------------
Steps == {"idle", "lookup", "dial", "store", "lock", "session", "command",
          "remove", "save", "delete", "done"}

HasClient == {"store", "lock", "session", "command"}

\* Types, and: nothing is pooled or used before it is dialed, so no caller
\* goes on with the nil client of a failed NewClient.
TypeOK ==
  /\ row \in [Servers -> Hosts \cup {None}]
  /\ pool \in [Slots -> Conns \cup {None}]
  /\ link \in [Conns -> {"unused", "open", "dead", "closed"}]
  /\ peer \in [Conns -> Hosts \cup {None}]
  /\ owner \in [Conns -> Slots]
  /\ mu \in [Conns -> Callers \cup {None}]
  /\ task \in [Callers -> [op: Operations \cup {"none", "reconnect"}, pc: Steps,
                           server: Slots, host: Hosts \cup {None}, conn: Conns \cup {None}]]
  /\ probe \in [Probes -> [pc: {"idle", "probing", "removing"}, server: Slots,
                           conn: Conns \cup {None}]]
  /\ displaced \subseteq Conns
  /\ \A s \in Slots : pool[s] # None => link[pool[s]] # "unused"
  /\ \A t \in Callers : task[t].pc \in HasClient =>
       task[t].conn \in Conns /\ link[task[t].conn] # "unused"

\* The pool never hands out a client that Remove has closed, whoever removes,
\* stores and probes meanwhile (client.go 204-233).
PoolIsNotClosed == \A s \in Slots : pool[s] # None => link[pool[s]] # "closed"

\* A client that is pooled for one ID was dialed for that ID and is pooled for
\* no other: a stale store or removal never crosses servers (client.go 218-233).
PoolIsByServer == \A s \in Slots : pool[s] # None => owner[pool[s]] = s

\* At most one caller at a time opens a session or runs a command on a client,
\* and a caller that does so holds the client's mutex; every path that leaves
\* RunCommand, RunCommandTimeout or NewSession has released it, so a mutex is
\* held only by such a caller (client.go 131-191).
Working(t) == task[t].pc \in {"session", "command"}
MutexIsHeldByWorker ==
  \A t \in Callers, k \in Conns : mu[k] = t <=> Working(t) /\ task[t].conn = k

\* An open connection is in the pool, or a caller is about to put it there, or
\* a later store has overwritten it: displacement is the only way the code
\* loses a connection without closing it (client.go 218-233).
LostOnlyByDisplacement ==
  \A k \in Conns : link[k] = "open" =>
    \/ \E s \in Slots : pool[s] = k
    \/ \E t \in Callers : At(t, "store") /\ task[t].conn = k
    \/ k \in displaced

\* A pooled client whose transport has gone does not stay: the ticker or a
\* caller removes or replaces it (client.go 29-61).
DeadIsRemoved ==
  \A s \in Slots, k \in Conns :
    (pool[s] = k /\ link[k] = "dead") ~> (pool[s] # k)

\* RunCommandTimeout gives the client back although the command never ends
\* (client.go 154-184).
TimedCallReturns ==
  \A t \in Callers, k \in Conns :
    (mu[k] = t /\ task[t].op = "timed") ~> (mu[k] # t)

\* Whoever waits for, or hangs on, a connection that has gone or was closed
\* gets away from it: a disconnect frees the callers behind a hung command
\* (client.go 131-191).
GoneFreesCallers ==
  \A t \in Callers, k \in Conns :
    LET stuck == task[t].pc \in {"lock", "session", "command"} /\ task[t].conn = k
    IN  (stuck /\ link[k] \in {"dead", "closed"}) ~> ~stuck
-----------------------------------------------------------------------------
\* kubectl.go 880: "Use a temp server ID (0) for test connections, but remove
\* any existing stale one first". A test that runs commands runs them on the
\* host it was asked to test.
TestReachesItsHost ==
  \A t \in Callers :
    (task[t].op = "test" /\ At(t, "command")) => peer[task[t].conn] = task[t].host

\* servers.go 281: "Remove stale SSH connection". Once no update is under way,
\* the pooled connection of a server is to the host of its row.
UpdateLeavesNoStale ==
  \A s \in Servers :
    (pool[s] # None /\ row[s] # None
       /\ ~\E t \in Callers : task[t].op = "update" /\ task[t].pc \in {"remove", "save"})
    => peer[pool[s]] = row[s]

\* client.go 52: "Connection is likely dead, remove it". What a probe removes
\* from the pool is the connection it probed.
ProbeRemovesWhatItProbed ==
  [][\A p \in Probes :
       ProbeRemoves(p) => pool[probe[p].server] \in {None, probe[p].conn}]_vars

\* servers.go 445: "Remove from SSH pool (closes connection)". When a
\* disconnect has been answered, nobody uses the pool and the server is not
\* in it, no connection to it is left open.
DisconnectCloses ==
  \A s \in Servers :
    /\ \A t \in Callers : task[t].pc \in {"idle", "done"}
    /\ \E t \in Callers : task[t].op = "disconnect" /\ At(t, "done") /\ task[t].server = s
    /\ pool[s] = None
    => ~\E k \in Conns : owner[k] = s /\ link[k] = "open"
=============================================================================
