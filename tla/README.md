# Verification of infra-eye

infra-eye is a Go server (also packed as a desktop program) with a React
frontend. It watches servers over SSH, databases and brokers over the network
and Kubernetes clusters through kubectl, syncs its own tables from a Git
repository, and lets an LLM propose commands that a person approves. Its web
console shows all of that, and has a page of tools that compute in the browser. This
directory holds TLA+ modules of the parts where steps of several actors meet,
TLC configurations that model-check them, and proofs that TLAPS checks.

All paths below are relative to `src/backend/internal/` unless they start with
`src/`. "External" marks what is not in the repository (the database, git,
an SSH server, the network) and is modelled from how the code uses it.

## 1. Inventory

### The parts and how they meet

| Part | State it keeps | Operations | Meets others through |
|---|---|---|---|
| Agent runs (`handlers/agent.go`) | rows of `agent_runs`, `agent_steps` | create, approve, reject, cancel, delete; the turn loop | LLM clients, SSH pool, MCP bridge; several requests on one run |
| LLM clients (`agent/`) | none | one exchange | called by the turn loop |
| Accounts and sessions (`handlers/users.go`, `accounts.go`, `auth.go`, `oidc.go`, `ws_sessions.go`, `ws/sessions.go`, `middleware/auth.go`) | rows of `users`; the registry of WebSockets | login, edit, deactivate, delete, single sign-on; track, close, sweep | every WebSocket handler |
| WebSocket hub (`ws/hub.go`) | two maps of rooms and clients, a queue per client | register, join, unregister, broadcast | collectors, scans and log followers broadcast; handlers subscribe |
| SSH pool (`ssh/client.go`) | a client per server ID, a mutex per client | get or dial, run, run with a timeout, session, remove, probe | almost every handler, the collectors, the agent |
| known_hosts (`ssh/knownhosts.go`) | a file | load, check, append | each dial; the operator edits the file |
| Metrics collectors (`metrics/collector.go`) | a cancel function per server; rows of `metrics`, `servers.status` | start, collect, stop, stop all | test, disconnect, delete; the desktop's shutdown; the SSH pool |
| Git-sync (`gitsync/`) | a working copy; rows of `servers`, `alert_rules`, `git_sync_runs` | clone or pull, parse, reconcile in one transaction | the handlers that edit the same rows; a manual sync beside the scheduled one |
| Healing engine (`healing/engine.go`) | a time per rule in memory; `healing_actions` | evaluate, run the remediation | SSH pool, alert notifier |
| MCP bridge (`handlers/mcp.go`, `mcp/`) | a session, pending requests, a kubeconfig file, a sidecar process | initialise, call, read the stream, reset | agent and chat handlers; the stream's reader goroutine |
| Resources (`resources/`) | rows of `resource_metrics` | probe, query, collect | tunnels through the SSH pool |
| Security scans (`audit/`, `handlers/audit.go`, `codeaudit.go`) | rows per scan | start, store the outcome | deletion of what is scanned; the hub |
| Kubernetes views (`handlers/kubectl.go`, `k8s*.go`) | port-forward sessions, caches | forward, stop, list | child processes |
| Folders and grants | rows | move, grant | — |
| Alerts, logs, views, chat, seed, configuration, updater | little or none | request and answer | — |
| Developer tools (`src/frontend/src/pages/DevTools.tsx`, `utils/`) | per tool: input, result, error, busy, copied | edit, click, clear, copy, switch tool; an awaited computation ends | `crypto.subtle`, a DNS resolver; nothing of the server |
| Console pages (`src/frontend/src/pages/`, `components/storage/`, `k8s/`, `database/`, `hooks/`) | per page: the answers it shows (slots), flags, a selection | load, command, select, leave, timer, key | every route of the API; the permissions of `hooks/usePermission.ts` mirror the routes' roles |
| Rest of the frontend: cluster explorer, Redis, agent canvas, chat, terminals, login, layout | caches, trees, streams | — | the API and its websockets |

### Which behaviours are hard

* **Whole-row saves.** gorm's `Save` writes every column of a row that was
  loaded earlier and inserts the row when it is gone. Runs, steps, accounts,
  servers and rules are all saved this way, with no version column.
* **Work between two statements.** The LLM, a remote command, a dial, a
  handshake and a collection take seconds to minutes between a read and the
  write that rests on it.
* **A lock around an access, not around a decision.** The pool, the hub and
  the registry lock each access to their maps; what was looked up is stale
  when it is used.
* **Cancellation without waiting.** Collectors are cancelled and not awaited.
* **Crash and restart.** A turn, a command or a Git process in progress ends
  with the process.
* **Transactions that interleave.** Git-sync's transactions run at READ
  COMMITTED, statement by statement, with row locks.
* **Handlers are closures.** A React handler goes on after its `await` with the
  selection of the render it was clicked in; answers arrive in any order,
  after another selection, or after the page was left.
* **Two tables of rights.** What a page offers (`usePermission`) and what a route
  answers (`RequireRole`) are written apart.

### What makes each modelled part correct

* *Agent*: a person decides on each action once and what ran is on record;
  the turn budget holds; a run that is running is driven by somebody.
* *Accounts*: whoever was deactivated or deleted loses every connection, those
  still in the handshake included; nobody else is cut off.
* *Hub*: indexes agree; a message stays in its room, reaches who stayed in it,
  once and in order.
* *Pool*: no closed or foreign client is handed out; every path gives the
  client's mutex back; dead clients leave.
* *known_hosts*: nothing is accepted off the record, and later connections are
  checked against the record.
* *Collectors*: one per server, and within reach of `StopCollector`.
* *Git-sync*: after a success the tables mirror the files; what people made or
  fixed by hand is left alone; each run ends.
* *Developer tools*: what is shown answers the latest click; a spinner ends; the
  algorithms agree with what they compute about (addresses, calendars, texts,
  manifests, certificate bundles).
* *Console*: once everything is answered, a page shows what is selected with
  all that its user did; no form is sent twice; no spinner stays; what is
  offered is permitted.

`PROJECT.json` lists every component with its status, and under "hazards" the
forty places where these things could go wrong.

## 2. The modules

Each component has a module with its state, actions and properties, an `MC`
module with the definitions its configurations need, and a `Proofs` module.
`AgentApproval` is the abstract specification that `AgentRun` refines. An action
is one step that no other actor can interleave with: a statement of the
database, an access under a lock, a send. Operators whose comment begins with
"Mutant" or "Variant" are deliberately wrong forms of the action below them;
`PROJECT.json` says which property each one breaks. They are in no `Next`.

### AgentRun, AgentApproval — `handlers/agent.go`

`run` and `steps` are the rows of one run (the handlers of different runs share
nothing); `finCopy`, `stepCopy` and `seen` are what a handler's local variables
hold and later write back; `pc` is where each request's handler stands; `ran`
is the history of executed tools. `Start` has an action per endpoint;
`Work` has one per statement: reading the step, refusing or running the tool,
saving the step, saving the run, and the turn loop `doAgentTurn` with its three
outcomes (a tool, an unknown tool, a final answer) and its failures. `Insertable`
and `Saved` are the database: the unique index on (run, step number), the
foreign key that Postgres enforces and the desktop's SQLite does not
(`ForeignKeys`), and `Save`'s insertion of a missing row. `Restart` drops the
handlers in progress; an approval it cut off keeps the mark `dropped`, so that a
property can tell it from one that went on. An answer of the LLM is a nondeterministic choice.

`AgentApproval` says what the comment at the top of `agent.go` promises: a fresh
proposal, one decision on it, the tool run at most once and only when
approved, then thinking again or the end. The mapping is at the end of
`AgentRun`: a step that a handler has decided and not yet saved counts as
decided. The code keeps to the protocol while its requests come one at a time,
which is how the page calls it, and nothing in the server sees to; what becomes of
the promise when they overlap is `RanIsDecided`: two approvals that overlap may both run the tool (section 5),
but once one of them went on, its step is never up for decision again.

### AccountSessions — `handlers/users.go`, `accounts.go`, `oidc.go`, `ws_sessions.go`, `ws/sessions.go`

`account` is the row's status, `sessions` the registry, `open` the connections.
A WebSocket handler authenticates, upgrades, tracks the connection, serves it
and releases it. A call that changes an account loads the row, saves or
deletes it, and then calls `CloseUser`, which takes the user's entries out
under the lock (`Doom`) and closes them one by one after it. The sweeper lists the
tracked users, queries which are active, and closes the others. `due` and
`lapsed` are histories for the properties. `SavedStatus` is gorm's `Save`.

### WsHub — `ws/hub.go`

`members`, `clients` and `joined` are the maps. `Broadcast` takes a reference to
a room's map under the read lock and ranges over the live map after it;
`mapOf` numbers the map objects of a room, since a room that was emptied and filled
again has another map than the one a broadcast still ranges over. `QueueSize` is
what room each client's queue has. A send to a
channel that `Unregister` has closed panics. A concurrent map read and write
may end the process (`MapRace`), or go on: both are in the model.

### SshPool — `ssh/client.go` and its callers

`pool` maps a server ID, or the ID 0 of connection tests, to a connection;
`link`, `peer` and `owner` say whether that is alive, to which host and
for which ID it was dialled; `mu` is each client's mutex; `row` is the host in the
servers table. A caller looks up, dials and stores without a lock in between,
then locks the client, opens a session and runs its command; callers differ
in what they do on failure. Probes look the client up, try it, and remove the
entry by ID. `ConnectionDies` is external. A command on a live connection may
hang; `RunCommandTimeout` gives the client back after its timer.

### KnownHosts — `ssh/knownhosts.go`

A connection loads the file, is presented a key, and under `knownHostsMu`
accepts a key that it loaded, rejects another one, or appends the key of an unknown
address. `LineFor` names the remote IP address as well, as `appendKnownHost`
does. The operator may take lines out. The module's own names (`HostsSpec`, `LoadLines`, ...) let
`SshProofs` extend it together with `SshPool`.

### MetricsCollector — `metrics/collector.go`, `handlers/servers.go`, `src/backend/cmd/desktop/app.go`

`collectors` is the map of cancel functions. A goroutine registers (cancelling
the one it replaces), collects, stores the sample, updates the status and
waits for its ticker or its context; when both are ready it takes either.
Requests test, disconnect and delete servers. `StopHTTP`, `StopAll` and `CloseDB` are
the desktop's shutdown. Two histories serve the properties: `owed` holds the collections that had read the row of a
server when it was deleted, each of which may still store its sample, and `strays` the samples
of deleted servers from any other collection; `late` records writes after the shutdown.

### GitSync — `gitsync/*.go`, `handlers/gitsync.go`, `alerts.go`, `servers.go`

`head` is the branch, `tree` the working copy that all syncs share, `gitLock`
git's index lock, `rows` the committed rows, `writes` what each transaction has
written, `job` where each sync stands. A sync updates the working copy (git
removes and writes the files one at a time), parses both files, and reconciles
servers and then rules in one transaction: per entry a lookup by name and a
create, update or skip, then the deletion of the managed rows that are not
listed. `View`, `Free` and `BlockedBy` are Postgres: a statement sees committed
rows and its own transaction's, and waits for rows that another one wrote. Editors are
the handlers that create, save, delete and replace rows; `draft` is the
row an editor has loaded. `Save` is the edit of a server or a rule, which takes the row
from Git (`git_managed = false`); `SaveCluster` is `DisconnectCluster` and
`ReconnectCluster` (`handlers/kubectl.go:911`), which write the whole row as they loaded it, and `UpdateServerPreferences`
(`servers.go:591`) writes name and description alone: both leave `git_managed` as it is. The folder column, the counters of a run and the
redaction of credentials are left out. Each file lists a name once: for a
name listed twice the model would take the entries in either order, and the
code takes them in the file's.

### DevTools, DevToolResults, NetTools, TextTools, K8sTools, CodecTools — `src/frontend/src/pages/DevTools.tsx` and `utils/`

`DevTools` is the page: the mounted tool (`tab`) with its `useState` values, the
computations under way (`tasks`) and their numbers. The 23 tools fall into three
groups by when they compute: with the input (`Derived`, a memo or a value of the render), at a click
(`Button`), or at a click and later (`Await`). `Guarded`, `EditDropsError`,
`StartDropsError`, `Clearable` say what else they differ in. `Edit`, `Click`, `Start`, `Respond`,
`ClearAll`, `Copy`, `CopyTimer`, `SwitchTool` are the handlers; what a tool computes is the
parameter `Computes`.

`DevToolResults` gives that parameter: an operator for each tool, over
`NetTools` (IPv4 and IPv6 arithmetic, the subnet split, the CIDR match), `TextTools`
(line diff, cron and its calendar, certificate bundles), `K8sTools` (the
manifest cleaner, Ingress to Gateway) and `CodecTools` (SSH key blobs, DER).
An input is what the tool's parser makes of the text. Widths (bits of an
address, lengths of months, sizes of keys) are constants, so that a calendar
of five days or four-bit addresses reach every branch. `Outcomes` is "a result or a failure".

### Console, PageParts, InventoryPages, ServerPages, AdminPages, OverviewPages — `src/frontend/src/pages/`, `components/`, `hooks/`

A page is a record (`PageParts`): its *loads* (which slots they set, when they run, which
spinner they raise, which answers a guard drops), its *commands* (what
they change, and what their handler does about the slots once they succeeded: reload, patch, put in the
answer, leave), and its *views*: who is offered which handler, under which flags not.
The four modules of pages translate twenty-six of them, a definition per handler and per view.
`InventoryPages` has the lists of servers, resources and clusters, the panels of a database and
of Kafka within `ResourceDetail`, and the dialogs of a cluster, each of which is a page of its own to the model: what
it shows lives as long as it is open. A handler that awaits the lists it loads anew (`awaits`) keeps its
flag up until they were answered; one that empties a slot before it asks (`clears`) shows nothing
meanwhile. A load may run other loads once it was answered (`reloads` of a `Load`): the dashboard's `loadData`
awaits the servers and the metrics, and then loads the history and the panels of the range it was itself
started with (`pages/Dashboard.tsx:253`), at the mount, on its refresh button and on Ctrl+R.

`Console` runs such a description: `page` and `slot` are what is looked at, `here`,
`sel`, `shown`, `up` the page's state, `calls` the requests under way in the order of
their start, `data` what the user's commands have done at the server, `answered`
those the page was told of. `Mount`, `Leave`, `Select`, `OpenTab`, `Reopen`, `Poll`, `Click`, `PressKey` and
`Do` are the user and the timers; `Serve` serves, refuses or loses a request, at any time and
in any order; `Answer` is the rest of the handler after its `await`, with the
selection of the render it was clicked in; `AnswerLead` is that of a load of other slots whose answer starts a
load of this one. Only the loads and the commands
of one slot at a time are looked at: handlers of different slots share
nothing but flags, and a behaviour starts at any page and slot. What a page has to be like for
the theorems of section 4 is stated at the end of the module (`GuardedPages`, `ReportingPages`,
`FollowingPages`), and `MCConsole` assumes it of the twenty-six pages, so that TLC evaluates it.
`TypeOK` says what a request record is; the order in which the loads of one event are sent, and in which commands go
on after the page is left, is any (`SetToSeq`), and the commands that are left each keep their own effect.
`excused` is a history for the properties: what is shown was overtaken by the answer of an
older request, was left by a failed load, or is not reloaded by the command
that changed it. What is on the
server through others is not in the model: the properties are about what the
user did and chose himself.

## 3. The runs

Run one with `tlc -workers 2 -config <cfg> <module>`. The runs keep to the
properties that say most; type correctness and other invariants that section 4 proves for all values
of the constants are not checked again.

| Run | States | What it shows |
|---|---|---|
| `agent_serial` (`AgentRunSerial.cfg`) | 6 k | Six requests, one at a time, no restart, four turns: `ImplementsApproval` (the refinement of `AgentApproval`) |
| `agent_concurrent` (`AgentRunConcurrent.cfg`) | 787 k | Four requests, two at once, one restart, no foreign keys: `ExecutedDidRun`, `NoStrandedRun`, `RanIsDecided`, `DecisionsAreFinal`, and the liveness `RunSettles` |
| `accounts` (`AccountSessions.cfg`) | 839 k | Two accounts, a socket each, two calls of any kind, the sweeper: `NoSocketEscapes`, `CutBeforeResponse`, `SweepIsJustified`, and the liveness `OutcastsAreCutOff` |
| `ws_hub` (`WsHub.cfg`) | 1.6 M (with symmetry) | Two clients, one with a queue of one and one with a queue of two, two rooms, two broadcasts: `IndexesAgree`, `OnlyMembersReceive`, `RangeIsComplete`, `InOrder` |
| `ssh_pool` (`SshPool.cfg`) | 120 k | Two callers of every kind on one server, two connections, a probe: `PoolIsNotClosed`, `LostOnlyByDisplacement`, and the liveness `DeadIsRemoved`, `GoneFreesCallers` |
| `known_hosts` (`KnownHosts.cfg`) | 13 k | Three connections to a machine with two names: `AcceptedIsRecorded`, `LaterIsChecked` |
| `metrics` (`Metrics.cfg`) | 116 k | Two collector goroutines, two requests, the shutdown: `MapHoldsTheRunning`, `OnlyOwedSamples`, and the liveness `CancelledEnds` |
| `git_sync` (`GitSync.cfg`) | 364 k | Two syncs one after another of any of four commits (a file missing, invalid, or changed), an edit before, between or after: `MirrorsFile`, `EmergencyFixStays` |
| `git_sync_concurrent` (`GitSyncConcurrent.cfg`) | 144 k | A scheduled and a manual sync of two servers at once, an edit at any moment: `HandmadeUntouched`, `SyncNeverAdopts`, and the liveness `RunEnds` |
| `devtools` (`DevTools.cfg`) | 20 667 | Every tool with the inputs that reach each branch, two computations under way: `ShownIsLatest`, `AddressToolsAgree`, `DiffRebuildsBoth`, `CronNextRuns`, `ManifestsAreConverted`, `ChainIsDiagnosed`, and the liveness `BusyEnds` |
| `console` (`Console.cfg`) | 394 226 | Twenty-six pages and dialogs, each slot with two requests under way, two commands, two selections, failures and losses: `SettledShowsOwn`, `SettledShowsSelection`, `FlagsAreTrue`, `OfferedIsPermitted`, and the liveness `FlagsEnd` |
| `agent_rejected_ran` (`AgentRejectedDidNotRun.cfg`) | violation | `RejectedDidNotRun`: see section 5 |

Each property of a passing run is broken by a mutant of the code's
translation under that run's own configuration ("mutants" in `PROJECT.json`), so
each one depends on the code and the bounds reach what it is about.
`CHECK_DEADLOCK FALSE` everywhere but in `devtools`: each instance has a fixed number of requests,
connections, syncs or commands, and may stop when they are done.

### Bounds and why they are enough

Every bound is a constant marked "bound" in its module. Requests, callers and
editors perform one operation each; the races of this code need two actors,
or three counting the one that set the scene (a run that exists, a pooled
client), and the bounds have these. `AgentRunConcurrent` has two requests at
a time after any two earlier ones, and `MaxTurns = 2`, so that the turn limit is
reached. `WsHub` has a queue that fills, of the client with one place, and a queue in which the messages of
both broadcasts wait behind each other, of the client with two. `GitSync`'s commits have an
entry that changes, one that leaves, a file that is missing or has a mistake in it,
and a rule that names a server; `GitSyncConcurrent` lists two servers, so
that two transactions take the same row locks in opposite orders. A page's
hazards need two requests of one slot (the older one answered last, a command
beside a reload), two commands (the second reported before the first one's
reload) and two selections; `MaxCalls`, `MaxCommands` and `Keys` allow these. For `DevTools` the
inputs are chosen so that each tool succeeds, fails and takes each branch, and two
computations overlap (`MaxTasks`). The safety
properties with a theorem (section 4) do not rest on the bounds at all.

Symmetry is used only in runs without liveness properties, over sets of
requests, or of clients, rooms and broadcasts, that the specification
treats alike.

### Fairness
* `Console`: weak fairness of serving and of delivering the oldest request: the axios client sets
  no timeout (`src/frontend/src/api/client.ts`), so that every request is answered or fails is an
  assumption on the browser, the network and the server. Nothing is assumed
  of the user, and `FlagsEnd` allows for one who keeps selecting other servers,
  whose cleanup drops the answer that would lower the spinner.
* `DevTools`: weak fairness of the end of computations and of the copy timer: promises of
  `crypto.subtle` and of the Jsonnet evaluator settle, and so does the DNS request or its failure.

* `AgentRun`: weak fairness of each handler's next statement. Everything a
  turn waits for has a timeout: 90 s for Claude (`agent/claude.go:99`), the local
  LLM's client (`agent/localllm.go:184`), 30 s for `RunCommandTimeout`, 10 s for the
  dial (`ssh/client.go:101`), 60 s for the MCP client (`handlers/mcp.go:25`).
  Nothing is assumed of persons. `RunSettles` exempts two cases in which the
  code does not settle: a restart, and a deletion that leaves a gap in the step
  numbers (section 5).
* `AccountSessions`: weak fairness of tracking an upgraded connection, of closing
  what is doomed and of the sweeper's listing; strong fairness of a sweep whose query
  succeeds, that is, the query does not fail for ever.
* `SshPool`: strong fairness of a caller's `Lock` (Go's mutex hands over to
  a waiter), weak fairness of granting or refusing a session (TCP keep-alive ends
  a dead transport), of the timer, of the end of a command whose connection has
  gone, and strong fairness of starting a probe (a ticker). None for the end of a
  command on a live connection.
* `MetricsCollector`: weak fairness of a goroutine's steps and strong fairness of
  `Done`, since select picks at random among ready cases. None for the script's
  answer: it may hang, and `CancelledEnds` says so.
* `GitSync`: weak fairness of a sync's next step: `runGit` is killed after two
  minutes, and a statement is answered once the locks it waits for are free.
  None for commits by people, edits, or aborted transactions.

## 4. The proofs

`tlapm <module>` checks a module; each states `THEOREM Spec => []P` (or
`[][A]_vars`) for every value of the constants that its assumption allows. Those
marked † say of which pages they hold; the rules are explained below the table.

| Module | Theorems | Inductive invariant, beside the types |
|---|---|---|
| `AgentRunProofs` | `TypeCorrect`, `FinishedCorrect`, `NothingStranded`, `RecordTrue`, `BudgetKept`, `DecisionsFinal`, `RanDecided` | `TurnLeft`: a turn that passed the limit has a number left; `VersionsAgree` and `RowsUnique`: the copies and the row of a step agree on what never changes, and a number has one row; `CopiesDecided`: a copy about to be saved carries a decision; `VersionsDidRun`: no copy claims an execution that did not happen; `CopiesUnfinished`, `RunIsDriven`: a run in status running has a handler inside `doAgentTurn`. For `RanDecided` also `RanIsKnown`: what ran is a step that was numbered; its argument is `CopiesDecided`, since the saves that overlap write copies with a decision |
| `AccountSessionsProofs` | `TypeCorrect`, `NothingEscapes`, `RegistryBounded`, `ResponseAfterCut`, `SweepJustified` | `HandsEmpty`: a call outside its closing loop holds no connection; `OpenIsUpgraded`; `DueIsTracked`, `DueIsTaken`: what a call has to cut off had been tracked, and has left the registry once it disconnected the account; `SweepKnows`: the suspects of a sweep have lapsed |
| `WsHubProofs` | `HubTyped`, `HubIndexed`, `NoLeak`, `RangeCovers`, `DeliveredInOrder` | `RegisteredIsServed`, `AimedAtMembers`: whom a broadcast saw joined its room; `OldMapIsEmpty`: when the room has another map than the one a broadcast ranges over, none of those it saw at its start is in the room. For the order also `OrderInv`: each stream is ordered, a broadcast is in the streams only of clients it has tried, and one that ended before another began tries nobody any more |
| `SshProofs`, of `SshPool` | `PoolTyped`, `NoClosedClient`, `NoForeignClient`, `MutexReleased`, `NothingElseLost` | `Dialed`: nothing is pooled or used before it is dialled; `StoreIsFresh`: a client about to be stored is not closed, was dialled for the caller's server, and is in no slot and in no other caller's hands |
| `SshProofs`, of `KnownHosts` | `HostsTyped`, `NothingUnrecorded`, `LaterChecked` | `FileIsRecorded`: the file and every loaded copy hold lines that were written |
| `MetricsCollectorProofs` | `CollectorTyped`, `OneCollector`, `DeletedOwed` | `CancelledHasRegistered`: a goroutine is cancelled through the map only, so after it registered. For `DeletedOwed` also `ReadersOwe`: every collection that has read the row of a deleted server was counted when it was deleted |
| `DevToolsProofs` | `AlwaysIInv`, `AlwaysShownIsLatest`, `AlwaysBusyMeansUnderWay` | `OneUnderWay`: a guarded tool has one computation at most, the last one started; `BusyForAReason`, `Counted` |
| `GitSyncProofs` | `TypeCorrect`, `HandmadeSafe`, `NothingAdopted` | `IdsFresh`: ids come from the sequence, one per row; `Locked`: two transactions write different rows; `HandmadeApart`: no sync has a row made by hand among what it found, wrote or dooms; `AdoptsNone`: what a transaction will commit takes over no unmanaged row |
| `ConsoleProofs` | `ConsoleTyped`; `FlagsTrue`†, `OwnShown`†, `SelectionShown`† | `Consistent`: every request is a load or a command of the slot, and a served command's effect is the server's. For the flags `FlagsInv`: a request that may be dropped lowers its own spinner only; each raised flag has a request that lowers it (`HaveCalls`), and the flag of what is submitted once has exactly one (`AreSingle`). For the user's own changes `OwnInv`: what a command reported is in what is shown, in the answer of every request that may still be shown, or in that of a load started later. For the selection `SelInv`: a load of the selection is under way wherever another one is shown, and behind every load of another one |

Why the strengthening is needed, in a few examples. *The turn budget* is
checked against a count that is stale at the insertion; what keeps it is that the
step number is the count plus one and the database refuses a second step of that
number, so the proof maps rows to numbers in 1..MaxTurns one to one (`RowsUnique`, with
the cardinality theorems of the library). *`MapHoldsTheRunning`* is not inductive
alone: a goroutine that is cancelled before it registers would register later
uncancelled by anybody; `CancelledHasRegistered` excludes it. *`HandmadeUntouched`* is an
action property of the commit; it follows because no step between the lookup
and the commit can bring a hand-made row's id into the transaction, and
because ids are never reused.
*`SyncNeverAdopts`* is one of the commit, too: people may take a row from Git
between the sync's lookup and its update by id, but the update leaves git_managed as the row
has it, and from then to the commit the row is locked (`AdoptsNone`). *`SettledShowsOwn`* speaks of a page with nothing under way, and what makes it
true is what was still under way before: a reload that a command starts is behind every load that was
asked before the command, so that if an older answer arrives after it, it was overtaken
(`excused`), and if it arrives before, the reload will replace it. A load that fails excuses, a load
that is dropped has a successor: hence the rule that what a cleanup drops starts anew with the new selection. *`FlagHasCall`* needs the same, and
that a handler that awaits its reloads hands its flag over to them (`StartedKeeps`). *`OneSubmission`* follows
because the button is disabled while the flag is up, provided the flag is up as long as
the request is under way, and that is `AreSingle`: no second request may lower it. *`InOrder`* is about what a stream holds; a message is added to its end
by a broadcast that has not returned, which is therefore earlier than none of those
that the stream holds, and that it is added once takes the range's set of visited clients (`StreamTried`).

The assumptions are the named `ASSUME`s of the modules: types of the constants
and distinctness of the special values. TLC evaluates them in every run. No theorem
assumes anything of the order or the number of requests, syncs, edits or restarts. The hypotheses
of the theorems marked † say how a page is written, and the twenty-six pages are written so:

* `GuardedPages`: whoever awaits his reloads starts some, no command calls a load of which only the latest
  answer counts, what the cleanup of an effect drops is started anew by the effect; and the flag of a handler that is to be
  submitted once disables its button and is raised by nothing that leaves the button enabled.
* `ReportingPages`: a command reloads, patches or replaces what it changes, leaves the page, or
  is one that brings other slots up to date only (the folders' deletion, which counts as excused); and what a cleanup
  drops is started anew, as above.
* `FollowingPages`: a slot that has a selection is loaded when the selection changes, unless it is one of
  the slots that stay (section 5), no key asks for another, no other load leads to a load of it, and no command reloads it for the selection it was
  clicked in (the rows of `DataGrid` do; the property leaves them out once a row was saved).

`MCConsole` has their conjunction as the assumption `PagesKeepTheRules`. So the theorems hold of
those pages with any number of requests and commands under way and of selections, and of every page to come that keeps the rules.

TLC has checked each of the inductive invariants on the instances of the runs, too, and that of `Console` (`TypeOK`,
`Consistent`, `FlagsInv`, `OwnInv`, `SelInv`) also with three requests under way and one command.

Two runs restrict how the system is used. The code enforces neither restriction, so these runs say what holds while
they are kept, no theorem rests on them, and section 5 has what happens otherwise:

* `agent_serial`: at most one request about a run in flight, and no restart. The code
  takes no lock on a run; the page that calls it waits for each answer, but a second
  tab or a second person does not.
* `git_sync`: every sync is the ticker's, which runs them in one goroutine, and people
  edit between the syncs (`Overlap = FALSE`); no file lists a name twice, which `parse.go`
  accepts, and none asks for a value that gorm replaces with the column's default (`OnInsert`).
  `MirrorsFile` moreover says nothing of tables in which two managed rows have one name: no unique index forbids
  them.

Only model-checked:

* the liveness properties, since fairness and ENABLED are outside what these proofs treat;
* the results of the developer tools (`DevToolResults`), on the inputs of the run: they are
  recursive definitions over sequences and numbers, and to prove them for every
  input takes an induction over data that the provers cannot instantiate;
* the refinement `ImplementsApproval` and the two properties of `git_sync`, which hold under the restrictions above;
* `OfferedIsPermitted` (`Console`): it compares the tables of the pages with the permissions, and no step
  changes either, so that the run's pages are all there is to it.

## 5. Divergences and further properties

The run `agent_rejected_ran` shows that the code does not do what it says
("findings" in `PROJECT.json`). The modules state further properties that
the code does not keep. TLC answers each with a counterexample, under a configuration
of its own or under the component's with the constants that the table names.

| Property (module) | Configuration, or what to change in the component's | What happens |
|---|---|---|
| `RejectedDidNotRun` (AgentRun) | `AgentRejectedDidNotRun.cfg` | A rejection saves the step that it read before an approval ran the tool: the LLM is told "it was not executed" (`handlers/agent.go:118`) |
| `ToolRunsOnce` (AgentRun) | `AgentRunConcurrent`, with or without the restart | Two approvals both find the step pending and both run its tool (`agent.go:562-577`); or the process stops after the tool ran and before the step is saved, and the step, pending again, is approved a second time (`agent.go:408`) |
| `AwaitsOneStep` (AgentRun) | `AgentRunConcurrent` | A cancellation rejects the step that a turn has just inserted; the turn then saves the run as awaiting approval, with nothing pending. A restart between the insertion and that save leaves a step pending in a run that does not await it |
| `TerminalIsFinal` (AgentRun) | `AgentRunConcurrent` | A request that loaded the run before another one ended it writes the whole row back (`agent.go:581`) |
| `AwaitedStepExists` (AgentRun) | `AgentRunConcurrent`, with `Operations = {"approve", "reject"}`, `MaxTurns = 3`, `ForeignKeys = TRUE` | Two overlapping decisions count the same steps; the second insertion is refused by the unique index, its error ignored (`agent.go:336`), and the run awaits a step that is not there |
| `BroadcastReachesRoom` (WsHub) | `WsHubReachesRoom.cfg` | A client leaves between the range and the send: the send on its closed channel panics, and the rest of the room gets nothing |
| `DeletedStaysDeleted` (AccountSessions) | `AccountDeletedStaysDeleted.cfg` | `UpdateProfile` saves a row that was deleted since it was loaded, and gorm inserts it |
| `NotReadmittedBySSO` (AccountSessions) | `AccountSessions`, with one user, `deactivate` and `sso` | A login's save of the role writes back an `is_active` from before the deactivation |
| `TestReachesItsHost` (SshPool) | `SshPool`, with two hosts and `test` | Two connection tests share the pool's ID 0: one uses the other's client |
| `UpdateLeavesNoStale` (SshPool) | `SshUpdateLeavesNoStale.cfg` | A caller that read the row before an update pools a client of the old host after the update's removal |
| `ProbeRemovesWhatItProbed` (SshPool) | `SshPool`, with `timed`, `terminal`, `disconnect` | A probe removes by ID a client that replaced the one it probed |
| `DisconnectCloses` (SshPool) | `SshPool`, with three callers, `timed` and `disconnect` | Two callers dial; the overwritten client outlives a disconnect |
| `OneKeyPerAddress` (KnownHosts) | `KnownHostsOneKey.cfg` | Two first connections overlap, and each records its own key |
| `NoWriteAfterClose` (MetricsCollector) | `MetricsNoWriteAfterClose.cfg` | A collection in progress at `StopAll` writes after the database is closed |
| `DisconnectedIsOffline` (MetricsCollector) | `Metrics`, with one goroutine and one caller | A collection in progress at a disconnect marks the server online afterwards |
| `DeletedLeavesNothing` (MetricsCollector) | the same | A collection in progress at a deletion stores a sample of the deleted server |
| `EmergencyFixStays` (GitSync) | `GitSyncFixReverted.cfg` | A save by hand between a sync's lookup and its update is overwritten |
| `NameIsIdentity` (GitSync) | `GitSyncConcurrent`, with `Commits <- Servers`, `Tables <- Empty`, `FirstId = 1`, no editors; or as it is | Two syncs at once each create the row of one entry; or a change of preferences (`servers.go:616`) gives a managed row the name of another. The renamed row stays with Git, and the next sync deletes it |
| `NeverAdopted` (GitSync) | `GitSyncConcurrent`, with `Editors = {u1, u2}` | `DisconnectCluster` and `ReconnectCluster` save every column of a row they loaded before an edit took it from Git (`handlers/kubectl.go:911-948`): `git_managed` is set again, and the next sync overwrites the edit |
| `DeletesOnlyUnlisted` (GitSync) | `GitSyncConcurrent`, with `Commits <- Servers` | A sync reads the working copy while another rewrites it, takes the file for missing, and deletes |
| `MissingFileChangesNothing` (GitSync) | `GitSyncMissingFile.cfg` | A commit without `servers.yaml` deletes the managed servers, although `parse.go:53` says there is "nothing to reconcile" |
| `EnabledAsWritten` (GitSync) | `GitSync`, with `OnInsert <- DefaultOn`, `Commits <- Off` | `enabled: false` is inserted as the column's default, true |
| `RuleServerExists` (GitSync) | `GitSync`, with `Commits <- Leaves` | A server that leaves the file is deleted without the rules that people pointed at it |
| `GatewayServesTheSame` (DevToolResults) | `DevTools` | `convertIngress` makes one route of all rules (`ingressToGateway.ts:162`): each of two hosts gets the other's paths as well, and the any-host rules beside a named host serve only that host. `GatewayKeepsRoutes`, which the run checks, says what is kept of every Ingress: no path and no listener of a named host is lost, and with one host nothing is added |
| `HistoryIsOfTheRange` (Console) | `ConsoleHistory.cfg` | Ctrl+R reloads the dashboard with the range of the first render (`Dashboard.tsx:296`), although its history is "for the current time range" (`:215`) |

The console has further divergences, which the statements of its checked properties
name as exceptions (paths below `src/frontend/src/`):

* `SettledShowsSelection` exempts `Stays`. A link to another server keeps
  `ServerDetail` mounted; its effect (`pages/ServerDetail.tsx:392`) loads the server, the metrics and the
  logs anew, while the accounts, the Kubernetes accounts, the network data, the log
  sources and the access list stay those of the old server, and the commands in
  their rows go to the new one. So does the disk analysis of `StoragePanel`. In `components/database/DataGrid.tsx`
  the rows of the table that was left stay, with their buttons, until the new one's are there: a deletion
  clicked meanwhile goes to the new table with the old row's key (`:129`), and a row saved in one table
  reloads that table (`:119`) over the one that was selected since.
* `SettledShowsOwn` and `SettledShowsSelection` exempt what was overtaken by an
  older answer (`excused`): only the storage panels and the scans drop superseded
  answers. `StoragePanel`'s `reloadInventory` (`:188`) is not among the guarded ones; the answer of
  `handleSavePreferences` for one server lands on the next; and deleting a folder
  (`hooks/useFolders.ts:37`) leaves the rows that were in it as they were shown.
* `OfferedIsPermitted` exempts `RefusedThough`: handlers that somebody is offered
  and the route refuses him. Interns see no figures on the dashboard, since its
  `loadData` asks for `/api/resources` first, which is refused. Interns may open the page of a resource and
  can load nothing on it, trainees nothing in its database and Kafka panels, and DevOps are offered the deletion of a
  cluster (`pages/Kubernetes.tsx:82`), which only administrators may do.
* `FlagsAreTrue` speaks of the handlers that have a flag. `AlertRules.saveRule`, `AuditCode.saveRepo` and
  others have none and may be submitted twice, as may a statement: Ctrl+Enter in `components/database/SqlConsole.tsx:62`
  does not look at the flag that disables the button. The flags of the dialogs of a port forward and of a new cluster go with
  the dialog, which may be closed and opened again while the request is under way; `AlertRules.parseXml` lowers the spinner of a load.
* `FlagsEnd` allows for answers that keep being dropped, `BusyEnds` for the hash tool on a page
  without HTTPS, which awaits `crypto.subtle` outside of a try (`pages/DevTools.tsx:1398`).
  `ShownIsLatest` is about the tools that refuse clicks while busy; the SSH key, JWT
  and Jsonnet tools show whichever computation ended last.

Two facts are in the statements of checked properties and not in a
configuration. After a restart a run can stay in status running for ever: nothing at startup resumes
or fails it (`NoStrandedRun` and `RunSettles` say "unless the server restarted"). And when
`DeleteAgentRun` removes steps while a turn is between its count and its
insertion, the next number can be one that is taken; the insertion of an unknown
tool's step is refused again and again, and the turn loop asks the LLM for as long
as it names unknown tools (`StepsLost` in `RunSettles`).

Some properties are stated and hold, but are outside the runs, which keep to the
ones that say most: the modules' `TypeOK`, `TurnBudget` and `FinishedIffTerminal` (AgentRun),
`RegistryIsLive` (AccountSessions), `PoolIsByServer` and `MutexIsHeldByWorker` (SshPool) and
`BusyMeansUnderWay` (DevTools) are theorems of section 4; `ToolRunsOnce`, `AwaitsOneStep` and `TerminalIsFinal` (AgentRun) hold
with the constants of `agent_serial`; `PumpEnds` (WsHub) and `TimedCallReturns` (SshPool) hold on the instances above.

## 6. Not modelled

* **Healing, the MCP bridge, resources, security scans, port-forwards, folders
  and grants, the updater**: in the plan below.
* **LLM and database clients, kubectl and broker queries**: I/O; they keep
  no state that outlives the request.
* **Views, chat, logs, alert delivery**: read-only queries or one call per request.
* **Start-up, routing, seed, configuration**: run once, in order.
* **Rest of the frontend** (`K8sResourceExplorer` but for its port forwards, `RedisBrowser`, whose save
  also moves the selection, `Agent`, `AIAssistant`, terminals, `Login`, `Layout`, `VPN`): trees of views over cached queries, streams that are
  appended to, a canvas that draws what AgentRun keeps, a simulation on timers. In the plan below.
* Inside the console's pages: the lines that arrive on websockets, form fields before they are
  saved, filters and charts, the layout of the infrastructure map. Inside the tools: the
  parsers of JSON, YAML and Jsonnet, digests and signatures (libraries), wording and colours.
* **`src/backend/node_modules`**: third-party code.
* Inside the modelled parts: password hashing, OIDC discovery, the parsing
  of the LLM's answer and of the script's output, wording and logging.

## 7. Plan

Done, in the order of importance: AgentRun with AgentApproval, AccountSessions,
WsHub, SshPool, KnownHosts, MetricsCollector, GitSync, DevTools and Console, each with its proofs.
Next:

1. **McpSession** (`handlers/mcp.go`): session, pending requests, the stream's reader,
   the handshake under `mcpInitMutex`, retries. Properties: an answer reaches the
   request that asked for it; a reader resets only its own session; a
   pending request is released on every path; a caller returns. Theorems: pending
   ids are unique; the map holds only requests that wait.
2. **Healing** (`healing/engine.go`): evaluation, the cooldown per rule, the remediation,
   the record, a restart. Properties: a recorded action ran; within a
   cooldown a rule's command is not repeated on a server; the loop goes on.
3. **KubeconfigSync** (`mcp/config_manager.go`): concurrent writers of one temporary
   file and a reader; the file that is read is one that somebody wrote whole.
4. **AgentSystem**: AgentRun composed with SshPool, so that the tool step is a
   timed command on a pooled client: a hung connection ends a turn and does
   not strand it.
5. **ServerLifecycle**: SshPool and MetricsCollector composed over one servers table:
   what a delete or a disconnect leaves behind.
6. **DialResource, ResourceCollector, SecurityScan, PortForward, AccessGrants**: small
   modules for the late dial, the overlapping ticks, the scan of a deleted
   repository, the failed port-forward and the unguarded create-if-missing.
7. **Updater, lineTee**: the swap with its rollback under a crash; the version order
   and the line splitter as operators against reference definitions.

8. **ExplorerPages** (`K8sResourceExplorer.tsx` with its watch stream, `RedisBrowser.tsx`, `Agent.tsx`): pages for `Console`; **Streams**:
   the websockets of `ServerDetail` and `Layout`, with the reconnect after a cleanup.

Abstract specifications worth stating: a *registry* (what is in it is served, what
left it is closed), which AccountSessions and SshPool would refine; a *single
worker per key*, which MetricsCollector would refine; a *mirror* (the managed rows
are those of some commit), which GitSync refines when syncs do not overlap.

Theorems next: `SweepIsJustified`'s
counterpart for the calls that disconnect an account; the *mirror* above as a
module of its own, refined by syncs that do not overlap.
