-------------------------- MODULE MetricsCollector --------------------------
(***************************************************************************)
(* The per-server collector goroutines of metrics/collector.go, with the   *)
(* handlers and the desktop app's shutdown that start and stop them.       *)
(*                                                                         *)
(* collectorsMu covers the map of cancel functions. Nothing covers a       *)
(* collection: a cancelled goroutine finishes the one it is in, writing    *)
(* samples and the server's status on the way, and when the ticker and the *)
(* cancellation are both ready, select takes either.                       *)
(***************************************************************************)
CONSTANTS
  Servers,    \* the servers that have a row at the start
  Goroutines, \* bound: the goroutines that ever run StartCollector
  Callers,    \* bound: the requests that start or stop collectors
  Operations, \* the operations they perform
  None        \* no goroutine

ASSUME CollectorAssumption ==
  /\ None \notin Goroutines
  /\ Operations \subseteq {"test", "disconnect", "delete"}

VARIABLES
  rows,       \* the servers that have a row
  status,     \* the status column of each row
  samples,    \* the servers with rows in the metrics table
  collectors, \* the goroutine whose cancel function the map holds
  cancelled,  \* the goroutines whose context is cancelled
  pc,         \* where each goroutine stands
  server,     \* the server it collects: none yet, or one
  existing,   \* the servers StartAllExisting has still to start
  step,       \* where each request stands: operation, step and server
  db,         \* the database connection: open or closed
  shutdown,   \* where OnShutdown stands
  late,       \* history: the goroutines that wrote to the closed database
  owed,       \* history: the goroutines whose collection had read the row when
              \* the server was deleted, until that collection ends
  strays      \* history: the goroutines that stored a sample of a deleted
              \* server and owed none

dbVars == <<rows, status, samples>>
mapVars == <<collectors, cancelled>>
runVars == <<pc, server>>
histories == <<late, owed, strays>>
vars == <<dbVars, mapVars, runVars, existing, step, db, shutdown, histories>>

NoRequest == [op |-> "none", at |-> "idle", server |-> {}]
-----------------------------------------------------------------------------
\* Both programs start with `go metrics.StartAllExisting()`, which reads the
\* rows once.
Init ==
  /\ rows = Servers
  /\ status \in [Servers -> {"unknown", "online", "offline"}]
  /\ samples = {}
  /\ collectors = [s \in Servers |-> None]
  /\ cancelled = {}
  /\ pc = [g \in Goroutines |-> "none"]
  /\ server = [g \in Goroutines |-> {}]
  /\ existing = Servers
  /\ step = [t \in Callers |-> NoRequest]
  /\ db = "open"
  /\ shutdown = "no"
  /\ late = {}
  /\ owed = {}
  /\ strays = {}

\* go StartCollector(server): the goroutine exists, and has done nothing.
Spawn(g, s) ==
  /\ pc[g] = "none"
  /\ pc' = [pc EXCEPT ![g] = "spawned"]
  /\ server' = [server EXCEPT ![g] = {s}]

StartAllExisting(g, s) ==
  /\ s \in existing
  /\ existing' = existing \ {s}
  /\ Spawn(g, s)
  /\ UNCHANGED <<dbVars, mapVars, step, db, shutdown, histories>>
-----------------------------------------------------------------------------
(***************************************************************************)
(* A collector.                                                            *)
(***************************************************************************)
On(g, s) == s \in server[g]

\* It has read the row of s and has not stored what the collection yields.
Reading(g, s) == On(g, s) /\ pc[g] \in {"sampling", "storing"}

\* Variant: the collector that was running is not cancelled.
RegisterOnly(g, s) ==
  /\ pc[g] = "spawned"
  /\ On(g, s)
  /\ collectors' = [collectors EXCEPT ![s] = g]
  /\ pc' = [pc EXCEPT ![g] = "collecting"]
  /\ UNCHANGED <<dbVars, cancelled, server, existing, step, db, shutdown, histories>>

\* StartCollector cancels the collector that runs and takes its place; the
\* first collection follows at once.
Register(g, s) ==
  /\ pc[g] = "spawned"
  /\ On(g, s)
  /\ cancelled' = cancelled \cup ({collectors[s]} \ {None})
  /\ collectors' = [collectors EXCEPT ![s] = g]
  /\ pc' = [pc EXCEPT ![g] = "collecting"]
  /\ UNCHANGED <<dbVars, server, existing, step, db, shutdown, histories>>

\* Variant: the collection uses the row the collector was started with.
CollectStaleRow(g, s) ==
  /\ pc[g] = "collecting"
  /\ On(g, s)
  /\ pc' = [pc EXCEPT ![g] = "sampling"]
  /\ UNCHANGED <<dbVars, mapVars, server, existing, step, db, shutdown, histories>>

\* collect reads the row again; without one (or without a database) it ends.
Collect(g, s) ==
  /\ pc[g] = "collecting"
  /\ On(g, s)
  /\ pc' = [pc EXCEPT ![g] =
       IF db = "open" /\ s \in rows THEN "sampling" ELSE "waiting"]
  /\ UNCHANGED <<dbVars, mapVars, server, existing, step, db, shutdown, histories>>

\* The script has run on the server, or the cluster has answered; what it
\* printed may hold no sample.
Sampled(g) ==
  /\ pc[g] = "sampling"
  /\ \E next \in {"storing", "failed", "waiting"} :
       /\ pc' = [pc EXCEPT ![g] = next]
       /\ owed' = IF next = "storing" THEN owed ELSE owed \ {g}
  /\ UNCHANGED <<dbVars, mapVars, server, existing, step, db, shutdown, late, strays>>

\* A statement on the closed database fails, and its error is not looked at.
Writes(g) == late' = IF db = "closed" THEN late \cup {g} ELSE late

\* db.DB.Create(&m).
StoreSample(g, s) ==
  /\ pc[g] = "storing"
  /\ On(g, s)
  /\ samples' = IF db = "open" THEN samples \cup {s} ELSE samples
  /\ pc' = [pc EXCEPT ![g] = "online"]
  /\ owed' = owed \ {g}
  /\ strays' = IF db = "open" /\ s \notin rows /\ g \notin owed THEN strays \cup {g} ELSE strays
  /\ Writes(g)
  /\ UNCHANGED <<rows, status, mapVars, server, existing, step, db, shutdown>>

\* UPDATE servers SET status = v WHERE id = s: no row, no effect.
SetStatus(s, v) ==
  status' = IF db = "open" /\ s \in rows THEN [status EXCEPT ![s] = v] ELSE status

UpdateStatus(g, s) ==
  /\ pc[g] \in {"online", "failed"}
  /\ On(g, s)
  /\ SetStatus(s, IF pc[g] = "online" THEN "online" ELSE "offline")
  /\ pc' = [pc EXCEPT ![g] = "waiting"]
  /\ Writes(g)
  /\ UNCHANGED <<rows, samples, mapVars, server, existing, step, db, shutdown, owed, strays>>

\* case <-ticker.C, which may be taken when the context is cancelled too.
Tick(g) ==
  /\ pc[g] = "waiting"
  /\ pc' = [pc EXCEPT ![g] = "collecting"]
  /\ UNCHANGED <<dbVars, mapVars, server, existing, step, db, shutdown, histories>>

\* Variant: the loop does not look at its context.
IgnoreDone(g) == FALSE /\ Tick(g)

\* Variant: the goroutine returns after a collection, cancelled or not.
ReturnUncancelled(g) ==
  /\ pc[g] = "waiting"
  /\ pc' = [pc EXCEPT ![g] = "ended"]
  /\ UNCHANGED <<dbVars, mapVars, server, existing, step, db, shutdown, histories>>

\* case <-ctx.Done().
Done(g) ==
  /\ pc[g] = "waiting"
  /\ g \in cancelled
  /\ pc' = [pc EXCEPT ![g] = "ended"]
  /\ UNCHANGED <<dbVars, mapVars, server, existing, step, db, shutdown, histories>>
-----------------------------------------------------------------------------
(***************************************************************************)
(* The handlers.                                                           *)
(***************************************************************************)
Request(t, op, s) ==
  /\ step[t] = NoRequest
  /\ shutdown \in {"no", "stopped"}
  /\ op \in Operations
  /\ op = "test" => s \in rows
  /\ step' = [step EXCEPT ![t] = [op |-> op, at |-> "begun", server |-> {s}]]
  /\ UNCHANGED <<dbVars, mapVars, runVars, existing, db, shutdown, histories>>

Handles(t, op, at, s) == step[t] = [op |-> op, at |-> at, server |-> {s}]

Advance(t, at) == step' = [step EXCEPT ![t].at = at]

\* TestServerConnection, when the connection works: online, and a new
\* collector so that data flows immediately.
MarkOnline(t, s) ==
  /\ Handles(t, "test", "begun", s)
  /\ SetStatus(s, "online")
  /\ Advance(t, "starting")
  /\ UNCHANGED <<rows, samples, mapVars, runVars, existing, db, shutdown, histories>>

StartCollector(t, s, g) ==
  /\ Handles(t, "test", "starting", s)
  /\ Spawn(g, s)
  /\ Advance(t, "done")
  /\ UNCHANGED <<dbVars, mapVars, existing, db, shutdown, histories>>

TestFails(t, s) ==
  /\ Handles(t, "test", "begun", s)
  /\ SetStatus(s, "offline")
  /\ Advance(t, "done")
  /\ UNCHANGED <<rows, samples, mapVars, runVars, existing, db, shutdown, histories>>

\* DisconnectServer and RebootServer: StopCollector, then the status.
StopCollector(t, s) ==
  /\ Handles(t, "disconnect", "begun", s)
  /\ cancelled' = cancelled \cup ({collectors[s]} \ {None})
  /\ collectors' = [collectors EXCEPT ![s] = None]
  /\ Advance(t, "stopped")
  /\ UNCHANGED <<dbVars, runVars, existing, db, shutdown, histories>>

MarkOffline(t, s) ==
  /\ Handles(t, "disconnect", "stopped", s)
  /\ SetStatus(s, "offline")
  /\ Advance(t, "done")
  /\ UNCHANGED <<rows, samples, mapVars, runVars, existing, db, shutdown, histories>>

\* DeleteServer: one transaction takes the metrics and the row. The collector
\* is left alone. A rollback changes nothing.
DeleteServer(t, s) ==
  /\ Handles(t, "delete", "begun", s)
  /\ \/ /\ db = "open"
        /\ samples' = samples \ {s}
        /\ rows' = rows \ {s}
        /\ owed' = owed \cup {g \in Goroutines : Reading(g, s)}
     \/ UNCHANGED <<samples, rows, owed>>
  /\ Advance(t, "done")
  /\ UNCHANGED <<status, mapVars, runVars, existing, db, shutdown, late, strays>>
-----------------------------------------------------------------------------
(***************************************************************************)
(* OnShutdown: metrics.StopAll, then the HTTP server (which waits at most  *)
(* three seconds for requests), then the database.                         *)
(***************************************************************************)
StopAll ==
  /\ shutdown = "no"
  /\ cancelled' = cancelled \cup ({collectors[s] : s \in Servers} \ {None})
  /\ collectors' = [s \in Servers |-> None]
  /\ shutdown' = "stopped"
  /\ UNCHANGED <<dbVars, runVars, existing, step, db, histories>>

StopHTTP ==
  /\ shutdown = "stopped"
  /\ shutdown' = "closing"
  /\ UNCHANGED <<dbVars, mapVars, runVars, existing, step, db, histories>>

CloseDB ==
  /\ shutdown = "closing"
  /\ shutdown' = "closed"
  /\ db' = "closed"
  /\ UNCHANGED <<dbVars, mapVars, runVars, existing, step, histories>>
-----------------------------------------------------------------------------
Collector(g) ==
  \/ \E s \in Servers :
       Register(g, s) \/ Collect(g, s) \/ StoreSample(g, s) \/ UpdateStatus(g, s)
  \/ Sampled(g) \/ Tick(g) \/ Done(g)

Handler(t) ==
  \E s \in Servers :
    \/ \E op \in Operations : Request(t, op, s)
    \/ MarkOnline(t, s) \/ TestFails(t, s)
    \/ \E g \in Goroutines : StartCollector(t, s, g)
    \/ StopCollector(t, s) \/ MarkOffline(t, s) \/ DeleteServer(t, s)

Next ==
  \/ \E g \in Goroutines : Collector(g)
  \/ \E g \in Goroutines, s \in Servers : StartAllExisting(g, s)
  \/ \E t \in Callers : Handler(t)
  \/ StopAll \/ StopHTTP \/ CloseDB

Spec == Init /\ [][Next]_vars

\* Goroutines run; a select whose two cases are ready time and again takes
\* each of them in the end (the runtime chooses at random). Nothing says that
\* a script on a server ends: RunCommand has no timeout.
CollectorFairness(g) ==
  /\ \A s \in Servers : WF_vars(Register(g, s)) /\ WF_vars(Collect(g, s))
       /\ WF_vars(StoreSample(g, s)) /\ WF_vars(UpdateStatus(g, s))
  /\ SF_vars(Done(g))

FairSpec == Spec /\ \A g \in Goroutines : CollectorFairness(g)
-----------------------------------------------------------------------------
\* Types, and: a goroutine has one server, and leaves its loop only when it is
\* cancelled (collector.go 124-153).
TypeOK ==
  /\ rows \subseteq Servers
  /\ status \in [Servers -> {"unknown", "online", "offline"}]
  /\ samples \subseteq Servers
  /\ collectors \in [Servers -> Goroutines \cup {None}]
  /\ cancelled \subseteq Goroutines
  /\ pc \in [Goroutines -> {"none", "spawned", "collecting", "sampling", "storing",
                            "online", "failed", "waiting", "ended"}]
  /\ server \in [Goroutines -> SUBSET Servers]
  /\ existing \subseteq Servers
  /\ step \in [Callers -> [op: Operations \cup {"none"}, server: SUBSET Servers,
                           at: {"idle", "begun", "starting", "stopped", "done"}]]
  /\ db \in {"open", "closed"}
  /\ shutdown \in {"no", "stopped", "closing", "closed"}
  /\ late \subseteq Goroutines
  /\ owed \subseteq Goroutines
  /\ strays \subseteq Goroutines
  /\ \A g \in Goroutines : pc[g] = "none" <=> server[g] = {}
  /\ \A g \in Goroutines : \A r, s \in server[g] : r = s
  /\ \A g \in Goroutines : pc[g] = "ended" => g \in cancelled

\* However starts, restarts and stops interleave, a server has at most one
\* collector that is not on its way out, and it is the one the map can cancel:
\* no goroutine collects for ever out of StopCollector's and StopAll's reach
\* (collector.go 126-174).
Running(g) == pc[g] \notin {"none", "spawned"} /\ g \notin cancelled
MapHoldsTheRunning ==
  \A s \in Servers, g \in Goroutines :
    collectors[s] = g <=> Running(g) /\ On(g, s)

\* A deleted server keeps its collector, which goes on ticking, and any number
\* of collectors may be started on it afterwards.  It still gets at most one
\* sample from each collection that had read the row when the delete committed,
\* and none from any other: what a delete leaves behind is bounded by the
\* collections under way (collector.go 187-192 and 302-319, servers.go 296-346).
OnlyOwedSamples == strays = {}

\* A cancelled collector ends, unless the script it runs never does
\* (collector.go 145-163).
CancelledEnds ==
  \A g \in Goroutines : g \in cancelled ~> (pc[g] = "ended" \/ [](pc[g] = "sampling"))
-----------------------------------------------------------------------------
\* collector.go 165-166: StopAll is "Used on desktop-app shutdown so background
\* goroutines don't keep writing after the DB closes".
NoWriteAfterClose == late = {}

\* servers.go 451: "Update DB status to offline", answered with "server
\* disconnected", status "offline". After a disconnect a server without a
\* collector, and with no test of its connection, is not shown online.
DisconnectedIsOffline ==
  \A s \in Servers :
    ( /\ \E t \in Callers : Handles(t, "disconnect", "done", s)
      /\ s \in rows
      /\ collectors[s] = None
      /\ ~\E t \in Callers : step[t].op = "test"
      /\ existing = {} /\ \A g \in Goroutines : pc[g] # "spawned"
      /\ db = "open" )
    => status[s] # "online"

\* servers.go 345: "server and all associated data permanently deleted".
DeletedLeavesNothing == samples \subseteq rows
=============================================================================
