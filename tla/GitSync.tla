------------------------------ MODULE GitSync ------------------------------
(***************************************************************************)
(* Infrastructure-as-Code sync: gitsync/sync.go, git.go, parse.go and      *)
(* reconcile.go, with the handlers that edit the same rows.                *)
(*                                                                         *)
(* The scheduled sync runs in one goroutine; a manual one runs in its      *)
(* request, and nothing keeps the two apart. They share the working copy,  *)
(* and their transactions interleave statement by statement, as on the     *)
(* Postgres of the server: each statement sees what is committed and what  *)
(* its own transaction wrote, and waits for the rows another one wrote.    *)
(* Entries name no folder, and the run's counters are left out.            *)
(***************************************************************************)
EXTENDS Integers

CONSTANTS
  Syncs,        \* bound: the calls of RunSync
  Scheduled,    \* those of the ticker's goroutine, one after another
  Editors,      \* bound: the requests that edit a server or a rule
  ServerNames,
  RuleNames,
  Bodies,       \* the other columns of a row, as a file or a person writes them
  OnInsert,     \* the body gorm inserts: a zero value becomes the column's default
  Commits,      \* what the branch may hold: a file for each kind
  Tables,       \* the rows that earlier syncs and people may have left
  FirstId,      \* the next id then
  Overlap,      \* whether people edit while a sync runs
  None          \* no sync

Kinds == {"server", "rule"}
Names == [server |-> ServerNames, rule |-> RuleNames]

\* An entry of servers.yaml or alert-rules.yaml; server is the rule's "server:",
\* if it has one.
Entry == [name : ServerNames \cup RuleNames, body : Bodies,
          server : SUBSET ServerNames]

\* A file: missing, with a mistake in it, or what it lists.
File == [is : {"missing", "invalid", "valid"}, entries : SUBSET Entry]
Missing == [is |-> "missing", entries |-> {}]

\* ref is the rule's server_id, 0 for all servers; live is deleted_at IS NULL, managed git_managed.
Row == [id : Nat, kind : Kinds, name : ServerNames \cup RuleNames, body : Bodies,
        ref : Nat, managed : BOOLEAN, live : BOOLEAN]

ASSUME GitSyncAssumption ==
  /\ Scheduled \subseteq Syncs
  /\ None \notin Syncs
  /\ Commits \subseteq [Kinds -> File]
  /\ \A c \in Commits, k \in Kinds : c[k].is # "valid" => c[k].entries = {}
  /\ OnInsert \in [Kinds -> [Bodies -> Bodies]]
  /\ FirstId \in Nat \ {0}
  /\ \A table \in Tables : \A r \in table :
       /\ r \in Row
       /\ r.id \in 1 .. FirstId - 1
       /\ \A q \in table : q.id = r.id => q = r
  /\ Overlap \in BOOLEAN

VARIABLES
  head,      \* the commit the branch points at
  cloned,    \* whether WorkDir has a .git
  tree,      \* the two files in WorkDir
  fetchHead, \* the commit FETCH_HEAD points at
  gitLock,   \* who holds .git/index.lock
  rows,      \* the committed rows of the servers and alert_rules tables
  nextId,
  writes,    \* the rows each transaction has written and not committed
  run,       \* the status of each sync's GitSyncRun
  job,       \* where each sync stands, and what it has read
  draft,     \* the row each editor has loaded
  edits      \* history: the editors that are done, the rows they created, and those
             \* they took from Git with a save

gitVars == <<head, cloned, tree, fetchHead, gitLock>>
editVars == <<draft, edits>>
vars == <<gitVars, rows, nextId, writes, run, job, editVars>>

NoJob == [at |-> "idle", kind |-> "server", target |-> [k \in Kinds |-> Missing],
          parsed |-> [k \in Kinds |-> {}], todo |-> {}, doomed |-> {},
          entry |-> {}, found |-> {}, ids |-> [n \in ServerNames |-> 0],
          conflict |-> FALSE]
-----------------------------------------------------------------------------
(***************************************************************************)
(* Init, and the rest of the world.                                        *)
(***************************************************************************)
\* No sync is running; an earlier one may have left its working copy.
Init ==
  /\ head \in Commits
  /\ cloned \in BOOLEAN
  /\ tree \in IF cloned THEN Commits ELSE {[k \in Kinds |-> Missing]}
  /\ fetchHead = head
  /\ gitLock = None
  /\ rows \in Tables
  /\ nextId = FirstId
  /\ writes = [s \in Syncs |-> {}]
  /\ run = [s \in Syncs |-> "none"]
  /\ job = [s \in Syncs |-> NoJob]
  /\ draft = [u \in Editors |-> {}]
  /\ edits = [done |-> {}, made |-> {}, saved |-> {}]

\* Somebody pushes to the branch.
Push ==
  /\ head' \in Commits
  /\ UNCHANGED <<cloned, tree, fetchHead, gitLock, rows, nextId, writes, run, job, editVars>>
-----------------------------------------------------------------------------
(***************************************************************************)
(* A sync.                                                                 *)
(***************************************************************************)
At(s, a) == job[s].at = a
Running(s) == job[s].at \notin {"idle", "done"}

\* The run is saved with its status, whatever RunSync returns from.
End(s, status) ==
  /\ run' = [run EXCEPT ![s] = status]
  /\ job' = [job EXCEPT ![s].at = "done"]

Fail(s) ==
  /\ End(s, "failed")
  /\ UNCHANGED <<head, cloned, tree, fetchHead, rows, nextId, editVars>>

\* The ticker's goroutine runs one sync at a time; a request starts its own.
Begin(s) ==
  /\ At(s, "idle")
  /\ Overlap \/ \A u \in Editors : draft[u] = {}
  /\ s \in Scheduled => \A t \in Scheduled : ~Running(t)
  /\ run' = [run EXCEPT ![s] = "running"]
  /\ job' = [job EXCEPT ![s].at = "stat"]
  /\ UNCHANGED <<gitVars, rows, nextId, writes, editVars>>

\* No repository is configured, or its URL or branch is not valid.
NotConfigured(s) ==
  /\ At(s, "stat")
  /\ Fail(s)
  /\ UNCHANGED <<gitLock, writes>>
-----------------------------------------------------------------------------
(***************************************************************************)
(* The working copy.                                                       *)
(***************************************************************************)
Stat(s) ==
  /\ At(s, "stat")
  /\ job' = [job EXCEPT ![s].at = IF cloned THEN "fetch" ELSE "clear"]
  /\ UNCHANGED <<gitVars, rows, nextId, writes, run, editVars>>

\* os.RemoveAll(WorkDir), whoever is at work in it.
Clear(s) ==
  /\ At(s, "clear")
  /\ cloned' = FALSE
  /\ tree' = [k \in Kinds |-> Missing]
  /\ gitLock' = None
  /\ job' = [job EXCEPT ![s].at = "clone"]
  /\ UNCHANGED <<head, fetchHead, rows, nextId, writes, run, editVars>>

\* git clone: .git is there first, the files follow. It refuses a directory that
\* is not empty.
Clone(s) ==
  /\ At(s, "clone")
  /\ ~cloned
  /\ cloned' = TRUE
  /\ fetchHead' = head
  /\ gitLock' = s
  /\ job' = [job EXCEPT ![s].at = "checkout", ![s].target = head]
  /\ UNCHANGED <<head, tree, rows, nextId, writes, run, editVars>>

\* git fetch --depth 1 origin branch
Fetch(s) ==
  /\ At(s, "fetch")
  /\ cloned
  /\ fetchHead' = head
  /\ job' = [job EXCEPT ![s].at = "reset"]
  /\ UNCHANGED <<head, cloned, tree, gitLock, rows, nextId, writes, run, editVars>>

\* git reset --hard FETCH_HEAD takes the index lock, or fails when it is taken.
Reset(s) ==
  /\ At(s, "reset")
  /\ cloned
  /\ gitLock = None
  /\ gitLock' = s
  /\ job' = [job EXCEPT ![s].at = "checkout", ![s].target = fetchHead]
  /\ UNCHANGED <<head, cloned, tree, fetchHead, rows, nextId, writes, run, editVars>>

\* git replaces a file by unlinking it and writing another.
Unlink(s, k) ==
  /\ At(s, "checkout")
  /\ gitLock = s
  /\ tree[k] \notin {Missing, job[s].target[k]}
  /\ tree' = [tree EXCEPT ![k] = Missing]
  /\ UNCHANGED <<head, cloned, fetchHead, gitLock, rows, nextId, writes, run, job, editVars>>

WriteFile(s, k) ==
  /\ At(s, "checkout")
  /\ gitLock = s
  /\ tree[k] = Missing
  /\ job[s].target[k] # Missing
  /\ tree' = [tree EXCEPT ![k] = job[s].target[k]]
  /\ UNCHANGED <<head, cloned, fetchHead, gitLock, rows, nextId, writes, run, job, editVars>>

CheckedOut(s) ==
  /\ At(s, "checkout")
  /\ gitLock = s
  /\ tree = job[s].target
  /\ gitLock' = None
  /\ job' = [job EXCEPT ![s].at = "read_server"]
  /\ UNCHANGED <<head, cloned, tree, fetchHead, rows, nextId, writes, run, editVars>>

\* Variant: a reset waits for the lock, without a limit.
GitFailsButReset(s) ==
  /\ job[s].at \in {"clone", "fetch", "checkout"}
  /\ Fail(s)
  /\ gitLock' \in {gitLock, IF gitLock = s THEN None ELSE gitLock}
  /\ UNCHANGED writes

\* A git command fails, or the two minutes are over and it is killed; a killed
\* one leaves its lock file behind.
GitFails(s) ==
  /\ job[s].at \in {"clone", "fetch", "reset", "checkout"}
  /\ Fail(s)
  /\ gitLock' \in {gitLock, IF gitLock = s THEN None ELSE gitLock}
  /\ UNCHANGED writes
-----------------------------------------------------------------------------
(***************************************************************************)
(* The files.                                                              *)
(***************************************************************************)
Reading == [read_server |-> "server", read_rule |-> "rule"]

\* parseServers, then parseAlertRules; a missing file lists nothing.
Parse(s) ==
  /\ job[s].at \in DOMAIN Reading
  /\ LET k == Reading[job[s].at]
     IN  /\ tree[k].is # "invalid"
         /\ job' = [job EXCEPT
              ![s].parsed[k] = tree[k].entries,
              ![s].at = IF k = "server" THEN "read_rule" ELSE "entries",
              ![s].todo = IF k = "server" THEN {} ELSE job[s].parsed["server"]]
  /\ UNCHANGED <<gitVars, rows, nextId, writes, run, editVars>>

ParseFails(s) ==
  /\ job[s].at \in DOMAIN Reading
  /\ tree[Reading[job[s].at]].is = "invalid"
  /\ Fail(s)
  /\ UNCHANGED <<gitLock, writes>>
-----------------------------------------------------------------------------
(***************************************************************************)
(* The transaction.                                                        *)
(***************************************************************************)
InTx(s) == job[s].at \in {"entries", "create", "update", "sweep", "resolve", "commit"}

\* What a statement of the transaction sees.
View(s) == {r \in rows : \A w \in writes[s] : w.id # r.id} \cup writes[s]
Live(s, k) == {r \in View(s) : r.live /\ r.kind = k}

\* Rows that another transaction has written are locked.
Free(s, ids) == \A t \in Syncs \ {s} : \A w \in writes[t] : w.id \notin ids

Put(s, r) == writes' = [writes EXCEPT ![s] = {w \in @ : w.id # r.id} \cup {r}]

\* First orders by primary key.
FirstNamed(s, k, n) ==
  {r \in Live(s, k) : r.name = n /\ \A q \in Live(s, k) : q.name = n => r.id <= q.id}

\* "server:" resolved to an ID, 0 without one.
Ref(s, e) == IF e.server = {} THEN 0 ELSE job[s].ids[CHOOSE n \in e.server : TRUE]
Unresolved(s, e) == e.server # {} /\ Ref(s, e) = 0

\* What an update writes; git_managed is not among its columns.
Updated(r, e, ref) == [r EXCEPT !.body = e.body, !.ref = ref]

Created(id, k, e, ref) ==
  [id |-> id, kind |-> k, name |-> e.name, body |-> OnInsert[k][e.body], ref |-> ref,
   managed |-> TRUE, live |-> TRUE]

Seen(s, k) == {e.name : e \in job[s].parsed[k]}

\* An entry that needs no statement of its own; a conflict is put on record.
Skip(s, e, conflict) ==
  /\ job' = [job EXCEPT ![s].todo = @ \ {e}, ![s].conflict = @ \/ conflict]
  /\ UNCHANGED <<gitVars, rows, nextId, writes, run, editVars>>

\* reconcileAlertRules begins with the IDs of the servers there are; of two with
\* one name, either.
Resolve(s) ==
  /\ At(s, "resolve")
  /\ \E ids \in [ServerNames -> {0} \cup {r.id : r \in Live(s, "server")}] :
       /\ \A n \in ServerNames :
            LET named == {r.id : r \in {q \in Live(s, "server") : q.name = n}}
            IN  IF named = {} THEN ids[n] = 0 ELSE ids[n] \in named
       /\ job' = [job EXCEPT ![s].ids = ids, ![s].at = "entries",
                             ![s].todo = job[s].parsed["rule"]]
  /\ UNCHANGED <<gitVars, rows, nextId, writes, run, editVars>>

\* Variant: a row is taken for managed whoever made it.
LookUpAny(s, e) ==
  LET k == job[s].kind
      found == FirstNamed(s, k, e.name)
  IN  /\ At(s, "entries")
      /\ e \in job[s].todo
      /\ \/ Unresolved(s, e) /\ Skip(s, e, TRUE)
         \/ /\ ~Unresolved(s, e)
            /\ job' = [job EXCEPT ![s].entry = {e}, ![s].found = found,
                                  ![s].at = IF found = {} THEN "create" ELSE "update"]
            /\ UNCHANGED <<gitVars, rows, nextId, writes, run, editVars>>

\* Variant: a rule that moved to another server counts as unchanged.
LookUpIgnoresServer(s, e) ==
  LET k == job[s].kind
      found == FirstNamed(s, k, e.name)
      handmade == \E r \in found : ~r.managed
      unchanged == \E r \in found : r.managed /\ r = Updated(r, e, r.ref)
  IN  /\ At(s, "entries")
      /\ e \in job[s].todo
      /\ \/ (Unresolved(s, e) \/ handmade) /\ Skip(s, e, TRUE)
         \/ ~Unresolved(s, e) /\ unchanged /\ Skip(s, e, FALSE)
         \/ /\ ~Unresolved(s, e) /\ ~handmade /\ ~unchanged
            /\ job' = [job EXCEPT ![s].entry = {e}, ![s].found = found,
                                  ![s].at = IF found = {} THEN "create" ELSE "update"]
            /\ UNCHANGED <<gitVars, rows, nextId, writes, run, editVars>>

\* One entry: its server is resolved, its row looked up by name, and then it is
\* created, updated, or skipped.
LookUp(s, e) ==
  LET k == job[s].kind
      found == FirstNamed(s, k, e.name)
      handmade == \E r \in found : ~r.managed
      unchanged == \E r \in found : r.managed /\ r = Updated(r, e, Ref(s, e))
  IN  /\ At(s, "entries")
      /\ e \in job[s].todo
      /\ \/ (Unresolved(s, e) \/ handmade) /\ Skip(s, e, TRUE)
         \/ ~Unresolved(s, e) /\ unchanged /\ Skip(s, e, FALSE)
         \/ /\ ~Unresolved(s, e) /\ ~handmade /\ ~unchanged
            /\ job' = [job EXCEPT ![s].entry = {e}, ![s].found = found,
                                  ![s].at = IF found = {} THEN "create" ELSE "update"]
            /\ UNCHANGED <<gitVars, rows, nextId, writes, run, editVars>>

\* The entry in hand is done with.
Settled(s) == job' = [job EXCEPT ![s].at = "entries", ![s].todo = @ \ job[s].entry,
                                ![s].entry = {}, ![s].found = {}]

Create(s, e) ==
  /\ At(s, "create")
  /\ e \in job[s].entry
  /\ Put(s, Created(nextId, job[s].kind, e, Ref(s, e)))
  /\ nextId' = nextId + 1
  /\ Settled(s)
  /\ UNCHANGED <<gitVars, rows, run, editVars>>

\* Variant: an update marks the row as managed.
UpdateAdopts(s, e) ==
  /\ At(s, "update")
  /\ e \in job[s].entry
  /\ \E old \in job[s].found :
       /\ Free(s, {old.id})
       /\ IF \E r \in Live(s, job[s].kind) : r.id = old.id
          THEN \E r \in Live(s, job[s].kind) :
                 r.id = old.id /\ Put(s, [Updated(r, e, Ref(s, e)) EXCEPT !.managed = TRUE])
          ELSE UNCHANGED writes
  /\ Settled(s)
  /\ UNCHANGED <<gitVars, rows, nextId, run, editVars>>

\* UPDATE ... WHERE id = ? AND deleted_at IS NULL: by the ID of the row looked up,
\* whatever it holds by now.
Update(s, e) ==
  /\ At(s, "update")
  /\ e \in job[s].entry
  /\ \E old \in job[s].found :
       /\ Free(s, {old.id})
       /\ IF \E r \in Live(s, job[s].kind) : r.id = old.id
          THEN \E r \in Live(s, job[s].kind) : r.id = old.id /\ Put(s, Updated(r, e, Ref(s, e)))
          ELSE UNCHANGED writes
  /\ Settled(s)
  /\ UNCHANGED <<gitVars, rows, nextId, run, editVars>>

\* The managed rows whose names are not in the file.
List(s) ==
  /\ At(s, "entries")
  /\ job[s].todo = {}
  /\ job' = [job EXCEPT ![s].at = "sweep",
       ![s].doomed = {r.id : r \in {q \in Live(s, job[s].kind) :
                                      q.managed /\ q.name \notin Seen(s, job[s].kind)}}]
  /\ UNCHANGED <<gitVars, rows, nextId, writes, run, editVars>>

\* Each is soft-deleted by its ID.
Delete(s, i) ==
  /\ At(s, "sweep")
  /\ i \in job[s].doomed
  /\ Free(s, {i})
  /\ IF \E r \in Live(s, job[s].kind) : r.id = i
     THEN \E r \in Live(s, job[s].kind) : r.id = i /\ Put(s, [r EXCEPT !.live = FALSE])
     ELSE UNCHANGED writes
  /\ job' = [job EXCEPT ![s].doomed = @ \ {i}]
  /\ UNCHANGED <<gitVars, rows, nextId, run, editVars>>

\* After the servers the rules, after the rules the commit.
Swept(s) ==
  /\ At(s, "sweep")
  /\ job[s].doomed = {}
  /\ job' = [job EXCEPT ![s].at = IF job[s].kind = "server" THEN "resolve" ELSE "commit",
                        ![s].kind = "rule"]
  /\ UNCHANGED <<gitVars, rows, nextId, writes, run, editVars>>

Commit(s) ==
  /\ At(s, "commit")
  /\ rows' = View(s)
  /\ writes' = [writes EXCEPT ![s] = {}]
  /\ End(s, IF job[s].conflict THEN "partial" ELSE "success")
  /\ UNCHANGED <<gitVars, nextId, editVars>>

\* Variant: the transaction is not rolled back.
AbortKeeps(s) ==
  /\ InTx(s)
  /\ Fail(s)
  /\ UNCHANGED <<gitLock, writes>>

\* A statement or the commit fails, and the transaction is rolled back.
Abort(s) ==
  /\ InTx(s)
  /\ writes' = [writes EXCEPT ![s] = {}]
  /\ Fail(s)
  /\ UNCHANGED gitLock

\* The rows a sync waits for.
WaitsFor(s) ==
  IF At(s, "update") THEN {r.id : r \in job[s].found}
  ELSE IF At(s, "sweep") THEN job[s].doomed ELSE {}

BlockedBy(s, t) == t # s /\ \E w \in writes[t] : w.id \in WaitsFor(s)

\* Postgres fails one of two transactions that wait for each other.
DeadlockDetected(s) ==
  /\ \E t \in Syncs : BlockedBy(s, t) /\ BlockedBy(t, s)
  /\ Abort(s)
-----------------------------------------------------------------------------
(***************************************************************************)
(* The handlers. Each is one request; a statement waits for locked rows.   *)
(***************************************************************************)
MayEdit(u) == u \notin edits.done /\ (Overlap \/ \A s \in Syncs : ~Running(s))
Unlocked(ids) == \A t \in Syncs : \A w \in writes[t] : w.id \notin ids

Edited(u, made, saved) ==
  edits' = [done |-> edits.done \cup {u}, made |-> edits.made \cup made,
            saved |-> edits.saved \cup saved]
NotEdited == UNCHANGED <<gitVars, writes, run, job>>

\* The servers a rule may name in server_id: all, or one.
Refs(k) == {0} \cup {r.id : r \in {q \in rows : k = "rule" /\ q.kind = "server" /\ q.live}}

Handmade(id, k, n, b, ref) ==
  [id |-> id, kind |-> k, name |-> n, body |-> OnInsert[k][b], ref |-> ref,
   managed |-> FALSE, live |-> TRUE]

\* CreateServer, CreateAlertRule
CreateRow(u, k, n, b) ==
  /\ MayEdit(u)
  /\ draft[u] = {}
  /\ \E ref \in Refs(k) : rows' = rows \cup {Handmade(nextId, k, n, b, ref)}
  /\ nextId' = nextId + 1
  /\ Edited(u, {nextId}, {nextId})
  /\ UNCHANGED draft
  /\ NotEdited

\* UpdateServer, UpdateAlertRule, DisconnectCluster and ReconnectCluster load the
\* row ...
Load(u, r) ==
  /\ MayEdit(u)
  /\ draft[u] = {}
  /\ r.live
  /\ draft' = [draft EXCEPT ![u] = {r}]
  /\ UNCHANGED <<rows, nextId, edits>>
  /\ NotEdited

\* Variant: the manual edit leaves the row to Git-sync.
SaveManaged(u, n, b) ==
  /\ MayEdit(u)
  /\ \E r \in draft[u] :
       /\ n \in Names[r.kind]
       /\ Unlocked({r.id})
       /\ \E ref \in Refs(r.kind) :
            rows' = {q \in rows : q.id # r.id}
                    \cup {[r EXCEPT !.name = n, !.body = b, !.ref = ref]}
  /\ Edited(u, {}, {r.id : r \in draft[u]})
  /\ draft' = [draft EXCEPT ![u] = {}]
  /\ UNCHANGED nextId
  /\ NotEdited

\* ... and the first two save every column of it, unmanaged; gorm inserts a row
\* that is gone.
Save(u, n, b) ==
  /\ MayEdit(u)
  /\ \E r \in draft[u] :
       /\ n \in Names[r.kind]
       /\ Unlocked({r.id})
       /\ \E ref \in Refs(r.kind) :
            rows' = {q \in rows : q.id # r.id}
                    \cup {[r EXCEPT !.name = n, !.body = b, !.ref = ref, !.managed = FALSE]}
  /\ Edited(u, {}, {r.id : r \in draft[u]})
  /\ draft' = [draft EXCEPT ![u] = {}]
  /\ UNCHANGED nextId
  /\ NotEdited

\* The last two set k8s_connected, a column that no file has, and save every other
\* column as they loaded it, git_managed too: whatever was saved in between is
\* overwritten, and a row that was taken from Git since may be Git's again.
SaveCluster(u) ==
  /\ MayEdit(u)
  /\ \E r \in draft[u] :
       /\ r.kind = "server"
       /\ Unlocked({r.id})
       /\ rows' = {q \in rows : q.id # r.id} \cup {r}
       /\ edits' = [edits EXCEPT !.done = @ \cup {u},
                                !.saved = IF r.managed THEN @ \ {r.id} ELSE @]
  /\ draft' = [draft EXCEPT ![u] = {}]
  /\ UNCHANGED nextId
  /\ NotEdited

\* UpdateServerPreferences sets a server's name, tags and description by its ID and
\* leaves the row to Git; TestServerConnection and the collector set its os like this.
UpdateServerPreferences(u, r, n, b) ==
  /\ MayEdit(u)
  /\ draft[u] = {}
  /\ r.kind = "server" /\ r.live
  /\ Unlocked({r.id})
  /\ rows' = (rows \ {r}) \cup {[r EXCEPT !.name = n, !.body = b]}
  /\ Edited(u, {}, {})
  /\ UNCHANGED <<nextId, draft>>
  /\ NotEdited

\* DeleteServer, with the server's rules; DeleteAlertRule.
DeleteRow(u, r) ==
  LET gone == {q \in rows : q.id = r.id \/ (r.kind = "server" /\ q.ref = r.id)}
  IN  /\ MayEdit(u)
      /\ draft[u] = {}
      /\ Unlocked({q.id : q \in gone})
      /\ rows' = rows \ gone
      /\ Edited(u, {}, {})
      /\ UNCHANGED <<nextId, draft>>
      /\ NotEdited

\* Every rule is deleted and the rules of the request are inserted: here, one.
BatchUpdateAlertRules(u, n, b) ==
  LET rules == {q \in rows : q.kind = "rule"}
  IN  /\ MayEdit(u)
      /\ draft[u] = {}
      /\ Unlocked({q.id : q \in rules})
      /\ \E ref \in Refs("rule") :
           rows' = (rows \ rules) \cup {Handmade(nextId, "rule", n, b, ref)}
      /\ nextId' = nextId + 1
      /\ Edited(u, {nextId}, {nextId})
      /\ UNCHANGED draft
      /\ NotEdited

Edit(u) ==
  \/ \E k \in Kinds, b \in Bodies : \E n \in Names[k] : CreateRow(u, k, n, b)
  \/ \E r \in rows : Load(u, r)
  \/ \E r \in rows : DeleteRow(u, r)
  \/ \E n \in ServerNames \cup RuleNames, b \in Bodies : Save(u, n, b)
  \/ SaveCluster(u)
  \/ \E r \in rows, n \in ServerNames, b \in Bodies : UpdateServerPreferences(u, r, n, b)
  \/ \E n \in RuleNames, b \in Bodies : BatchUpdateAlertRules(u, n, b)
-----------------------------------------------------------------------------
(***************************************************************************)
(* The specification.                                                      *)
(***************************************************************************)
Git(s) ==
  \/ Stat(s) \/ Clear(s) \/ Clone(s) \/ Fetch(s) \/ Reset(s)
  \/ (\E k \in Kinds : Unlink(s, k) \/ WriteFile(s, k))
  \/ CheckedOut(s) \/ GitFails(s)

Reconcile(s) ==
  \/ Resolve(s) \/ List(s) \/ Swept(s) \/ Commit(s) \/ DeadlockDetected(s)
  \/ (\E e \in job[s].todo : LookUp(s, e))
  \/ (\E e \in job[s].entry : Create(s, e) \/ Update(s, e))
  \/ (\E i \in job[s].doomed : Delete(s, i))

Proceed(s) == Git(s) \/ Parse(s) \/ ParseFails(s) \/ Reconcile(s)

Sync(s) == Begin(s) \/ NotConfigured(s) \/ Proceed(s) \/ Abort(s)

Next ==
  \/ Push
  \/ \E s \in Syncs : Sync(s)
  \/ \E u \in Editors : Edit(u)

Spec == Init /\ [][Next]_vars

\* RunSync goes on: git is killed after two minutes, and a statement is answered
\* once the locks it waits for are free. No statement need fail, except to break a
\* deadlock, and nobody need start a sync, push or edit.
Fairness == \A s \in Syncs : WF_vars(Proceed(s))
FairSpec == Spec /\ Fairness
-----------------------------------------------------------------------------
(***************************************************************************)
(* Properties.                                                             *)
(***************************************************************************)
\* Types: the rows, and where each sync stands; a transaction ends with its sync.
TypeOK ==
  /\ head \in Commits /\ fetchHead \in Commits
  /\ cloned \in BOOLEAN
  /\ tree \in [Kinds -> File]
  /\ gitLock \in Syncs \cup {None}
  /\ rows \subseteq Row
  /\ nextId \in Nat \ {0}
  /\ writes \in [Syncs -> SUBSET Row]
  /\ run \in [Syncs -> {"none", "running", "success", "partial", "failed"}]
  /\ job \in [Syncs ->
       [at : {"idle", "stat", "clear", "clone", "fetch", "reset", "checkout", "read_server",
              "read_rule", "entries", "create", "update", "sweep", "resolve", "commit", "done"},
        kind : Kinds, target : [Kinds -> File], parsed : [Kinds -> SUBSET Entry],
        todo : SUBSET Entry, doomed : SUBSET Nat, entry : SUBSET Entry,
        found : SUBSET Row, ids : [ServerNames -> Nat], conflict : BOOLEAN]]
  /\ \A s \in Syncs : (run[s] = "running" <=> Running(s)) /\ (writes[s] # {} => InTx(s))
  /\ draft \in [Editors -> SUBSET Row]
  /\ edits \in [done : SUBSET Editors, made : SUBSET Nat, saved : SUBSET Nat]

Committed(s) == At(s, "commit") /\ run'[s] \in {"success", "partial"}

\* Row r of the tables says what entry e says.
Shows(r, e) ==
  /\ r.name = e.name /\ r.body = e.body
  /\ IF e.server = {} THEN r.ref = 0
     ELSE \E q \in rows : q.id = r.ref /\ q.kind = "server" /\ q.live /\ q.name \in e.server

Managed(k) == {r \in rows : r.live /\ r.managed /\ r.kind = k}

\* Names identify the managed rows.  Two syncs at once, and a change of preferences
\* that gives a server the name of another, make two of one name.
NameIsIdentity ==
  \A k \in Kinds : \A q, r \in Managed(k) : q.name = r.name => q = r

\* Whatever people did between the syncs and earlier syncs left behind, but for two
\* managed rows of one name, when one ends in success (reconcile.go) each entry of
\* the commit's files has one managed row that says the same, its server the one of
\* that name now, and there are no other managed rows.
MirrorsFile ==
  [][\A s \in Syncs : Committed(s) /\ run'[s] = "success" /\ NameIsIdentity =>
       \A k \in Kinds :
         LET entries == job[s].target[k].entries
         IN  /\ \A e \in entries : (\E r \in Managed(k) : Shows(r, e))'
             /\ (\A r \in Managed(k) : \E e \in entries : Shows(r, e))'
             /\ (\A q, r \in Managed(k) : q.name = r.name => q = r)']_vars

\* Once people have saved a row by hand, no commit of a sync changes it
\* (GitManaged = false in UpdateServer and UpdateAlertRule), unless a cluster
\* save that had loaded it before has put the old row back.
EmergencyFixStays ==
  [][\A s \in Syncs : Committed(s) => {r \in rows : r.id \in edits.saved /\ r.live} \subseteq rows']_vars

\* A row made by hand is never changed nor deleted by a sync, however its
\* statements interleave with another sync's and with people's (reconcile.go's
\* case !existing.GitManaged and its git_managed = true).
HandmadeUntouched ==
  [][\A s \in Syncs : Committed(s) => {r \in rows : r.id \in edits.made} \subseteq rows']_vars

\* No commit of a sync makes an unmanaged row a managed one, although it updates
\* by id a row that it looked up earlier, people save rows by hand and cluster
\* saves put old rows back meanwhile (reconcile.go's updates leave git_managed).
SyncNeverAdopts ==
  [][\A s \in Syncs : Committed(s) =>
       \A r \in rows, q \in rows' : q.id = r.id /\ ~r.managed => ~q.managed]_vars

\* No step makes an unmanaged row a managed one.  DisconnectCluster and
\* ReconnectCluster do, when the row was taken from Git after they loaded it.
NeverAdopted ==
  [][\A r \in rows, q \in rows' : q.id = r.id /\ ~r.managed => ~q.managed]_vars

\* A sync deletes a managed server only if the branch has held a file without it:
\* here, the names that every commit lists stay.
DeletesOnlyUnlisted ==
  [][\A r \in rows, q \in rows' :
       /\ q.id = r.id /\ r.kind = "server" /\ r.live
       /\ \A c \in Commits : \E e \in c["server"].entries : e.name = r.name
       => q.live]_vars

\* A sync of a commit that has no servers.yaml leaves the servers alone.
MissingFileChangesNothing ==
  [][\A s \in Syncs : Committed(s) /\ job[s].target["server"] = Missing =>
       Managed("server") \subseteq rows']_vars

\* A rule is enabled when its entry says so.
EnabledAsWritten ==
  [][\A s \in Syncs : Committed(s) =>
       \A e \in job[s].target["rule"].entries :
         (\A r \in Managed("rule") : r.name = e.name => r.body = e.body)']_vars

\* After a sync no rule is left pointing to a server that it deleted.
RuleServerExists ==
  \A r \in rows : r.kind = "rule" /\ r.live /\ r.ref # 0 =>
    \E q \in rows : q.id = r.ref /\ q.kind = "server" /\ q.live

\* A sync that has begun ends, and its run says how.
RunEnds == \A s \in Syncs : (run[s] = "running") ~> (run[s] \in {"success", "partial", "failed"})
=============================================================================
