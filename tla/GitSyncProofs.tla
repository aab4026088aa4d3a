--------------------------- MODULE GitSyncProofs ---------------------------
(***************************************************************************)
(* What no sync does to rows made or unmanaged by hand, for any syncs,     *)
(* edits and files, and however their statements interleave.               *)
(***************************************************************************)
EXTENDS GitSync, TLAPS

Places == {"idle", "stat", "clear", "clone", "fetch", "reset", "checkout", "read_server",
           "read_rule", "entries", "create", "update", "sweep", "resolve", "commit", "done"}

Job == [at : Places, kind : Kinds, target : [Kinds -> File], parsed : [Kinds -> SUBSET Entry],
        todo : SUBSET Entry, doomed : SUBSET Nat, entry : SUBSET Entry,
        found : SUBSET Row, ids : [ServerNames -> Nat], conflict : BOOLEAN]

\* The remote branch and the working copy.
GitTyped ==
  /\ head \in Commits /\ fetchHead \in Commits
  /\ cloned \in BOOLEAN
  /\ tree \in [Kinds -> File]
  /\ gitLock \in Syncs \cup {None}

Statuses == {"none", "running", "success", "partial", "failed"}
TxPlaces == {"entries", "create", "update", "sweep", "resolve", "commit"}

\* A run is running while its sync is, and its transaction within it.
RunTyped ==
  /\ run \in [Syncs -> Statuses]
  /\ \A s \in Syncs : run[s] = "running" <=> Running(s)
  /\ \A s \in Syncs : writes[s] # {} => job[s].at \in TxPlaces

\* The tables, the jobs and the requests.
Typed ==
  /\ rows \subseteq Row
  /\ nextId \in Nat \ {0}
  /\ writes \in [Syncs -> SUBSET Row]
  /\ job \in [Syncs -> Job]
  /\ draft \in [Editors -> SUBSET Row]
  /\ edits \in [done : SUBSET Editors, made : SUBSET Nat, saved : SUBSET Nat]

\* Ids come from the sequence; the rows have one each.
IdsFresh ==
  /\ \A r \in rows : r.id < nextId
  /\ \A r, q \in rows : r.id = q.id => r = q
  /\ \A s \in Syncs : \A w \in writes[s] : w.id < nextId
  /\ \A s \in Syncs : \A f \in job[s].found : f.id < nextId
  /\ \A s \in Syncs : \A i \in job[s].doomed : i < nextId
  /\ \A u \in Editors : \A r \in draft[u] : r.id < nextId
  /\ \A i \in edits.made : i < nextId

\* Two transactions write different rows, and one transaction has one version of each.
Locked ==
  /\ \A s, t \in Syncs : \A v \in writes[s], w \in writes[t] : v.id = w.id => s = t
  /\ \A s \in Syncs : \A v, w \in writes[s] : v.id = w.id => v = w

\* A row made by hand is unmanaged, so is every draft of it, which a cluster save
\* would put back, and no sync has it in hand.
HandmadeApart ==
  /\ \A r \in rows : r.id \in edits.made => ~r.managed
  /\ \A u \in Editors : \A r \in draft[u] : r.id \in edits.made => ~r.managed
  /\ \A s \in Syncs : \A w \in writes[s] : w.id \notin edits.made
  /\ \A s \in Syncs : \A f \in job[s].found : f.id \notin edits.made
  /\ \A s \in Syncs : \A i \in job[s].doomed : i \notin edits.made

\* What a transaction will commit adopts no row.
AdoptsNone ==
  \A s \in Syncs : \A w \in writes[s] : \A r \in rows : w.id = r.id /\ w.managed => r.managed

Safe == IdsFresh /\ Locked /\ HandmadeApart /\ AdoptsNone
IInv == GitTyped /\ RunTyped /\ Typed /\ Safe
-----------------------------------------------------------------------------
\* The initial states satisfy the invariant.
LEMMA InitInv == Init => IInv
  <1> SUFFICES ASSUME Init PROVE IInv  OBVIOUS
  <1> USE GitSyncAssumption DEF Init
  <1>1. NoJob \in Job
    BY DEF NoJob, Job, Places, Kinds, File, Missing
  <1>2. Typed  BY <1>1 DEF Typed
  <1>3. \A s \in Syncs : job[s].found = {} /\ job[s].doomed = {}
    BY DEF NoJob
  <1>4. IdsFresh  BY <1>3 DEF IdsFresh, Row
  <1>5. GitTyped  BY DEF GitTyped, Missing, File
  <1>6. RunTyped  BY DEF RunTyped, Statuses, Running, NoJob
  <1>7. QED
    BY <1>2, <1>3, <1>4, <1>5, <1>6 DEF IInv, Safe, Locked, HandmadeApart, AdoptsNone

\* A sync's step sets its own job.
LEMMA JobStep ==
  ASSUME job \in [Syncs -> Job], NEW s \in Syncs, NEW j \in Job, job' = [job EXCEPT ![s] = j]
  PROVE  /\ job' \in [Syncs -> Job]
         /\ job'[s] = j
         /\ \A t \in Syncs : t # s => job'[t] = job[t]
  OBVIOUS

\* A job that moves on keeps the rest.
LEMMA Moved ==
  ASSUME NEW k \in Job, NEW a \in Places
  PROVE  LET j == [k EXCEPT !.at = a]
         IN  j \in Job /\ j.at = a /\ j.found = k.found /\ j.doomed = k.doomed
  BY DEF Job

\* The run's status follows its sync.
LEMMA RunStep ==
  ASSUME IInv, NEW s \in Syncs, NEW j \in Job, job' = [job EXCEPT ![s] = j],
         NEW v \in Statuses, run' = [run EXCEPT ![s] = v],
         v = "running" <=> j.at \notin {"idle", "done"},
         \A t \in Syncs : t # s => writes'[t] = writes[t],
         writes'[s] # {} => j.at \in TxPlaces
  PROVE  RunTyped'
  <1>1. \A t \in Syncs : t # s => job'[t] = job[t] /\ run'[t] = run[t]
    BY JobStep DEF IInv, RunTyped, Typed
  <1>2. job'[s] = j /\ run'[s] = v /\ run' \in [Syncs -> Statuses]
    BY JobStep DEF IInv, RunTyped, Typed
  <1>3. QED  BY <1>1, <1>2 DEF IInv, RunTyped, Running

\* A step that reads no more rows and writes none, or drops what it wrote.
LEMMA QuietStep ==
  ASSUME IInv, NEW s \in Syncs, NEW j \in Job, job' = [job EXCEPT ![s] = j],
         j.found \subseteq job[s].found, j.doomed \subseteq job[s].doomed,
         writes' = writes \/ writes' = [writes EXCEPT ![s] = {}],
         writes'[s] # {} => j.at \in TxPlaces,
         NEW v \in Statuses, run' = [run EXCEPT ![s] = v],
         v = "running" <=> j.at \notin {"idle", "done"},
         GitTyped', UNCHANGED <<rows, nextId, draft, edits>>
  PROVE  IInv'
  <1>1. /\ job' \in [Syncs -> Job]
        /\ \A t \in Syncs : job'[t].found \subseteq job[t].found
        /\ \A t \in Syncs : job'[t].doomed \subseteq job[t].doomed
    BY JobStep DEF IInv, Typed
  <1>2. /\ writes' \in [Syncs -> SUBSET Row]
        /\ \A t \in Syncs : writes'[t] \subseteq writes[t]
        /\ \A t \in Syncs : t # s => writes'[t] = writes[t]
    BY DEF IInv, Typed
  <1>3. Typed'  BY <1>1, <1>2 DEF IInv, Typed
  <1>4. IdsFresh'  BY <1>1, <1>2 DEF IInv, Safe, IdsFresh
  <1>5. Locked'  BY <1>2 DEF IInv, Safe, Locked
  <1>6. HandmadeApart'  BY <1>1, <1>2 DEF IInv, Safe, HandmadeApart
  <1>7. AdoptsNone'  BY <1>2 DEF IInv, Safe, AdoptsNone
  <1>8. RunTyped'  BY <1>2, RunStep
  <1>9. QED  BY <1>3, <1>4, <1>5, <1>6, <1>7, <1>8 DEF IInv, Safe

\* What a transaction sees has ids from the sequence; a managed row was not made
\* by hand, and a row it may update is the committed one or its own version.
LEMMA ViewFacts ==
  ASSUME IInv, NEW s \in Syncs
  PROVE  /\ View(s) \subseteq Row
         /\ \A r \in View(s) : r.id < nextId
         /\ \A r \in View(s) : r.managed => r.id \notin edits.made
         /\ \A r \in View(s), q \in rows : r.id = q.id /\ r.managed => q.managed
  BY DEF IInv, Typed, Safe, IdsFresh, HandmadeApart, AdoptsNone, View

\* A row is written that the transaction may write.
LEMMA PutStep ==
  ASSUME IInv, NEW s \in Syncs, NEW w \in Row, Put(s, w), Free(s, {w.id}),
         NEW j \in Job, job' = [job EXCEPT ![s] = j],
         j.found \subseteq job[s].found, j.doomed \subseteq job[s].doomed,
         nextId' \in {nextId, nextId + 1}, w.id < nextId',
         w.id \notin edits.made,
         \A r \in rows : w.id = r.id /\ w.managed => r.managed,
         j.at \in TxPlaces, run[s] = "running",
         GitTyped', UNCHANGED <<rows, run, draft, edits>>
  PROVE  IInv'
  <1>1. /\ job' \in [Syncs -> Job]
        /\ \A t \in Syncs : job'[t].found \subseteq job[t].found
        /\ \A t \in Syncs : job'[t].doomed \subseteq job[t].doomed
    BY JobStep DEF IInv, Typed
  <1>2. /\ writes' \in [Syncs -> SUBSET Row]
        /\ writes'[s] = {v \in writes[s] : v.id # w.id} \cup {w}
        /\ \A t \in Syncs : t # s => writes'[t] = writes[t]
    BY DEF IInv, Typed, Put
  <1>3. /\ nextId' \in Nat \ {0} /\ nextId <= nextId'  BY DEF IInv, Typed
  <1>4. Typed'  BY <1>1, <1>2, <1>3 DEF IInv, Typed
  <1>5. IdsFresh'
    <2> USE DEF IInv, Typed, Safe, IdsFresh
    <2>1. \A i \in Nat : i < nextId => i < nextId'  BY <1>3
    <2>2. (\A t \in Syncs : \A v \in writes[t] : v.id < nextId)'
      BY <1>2, <2>1 DEF Row
    <2>3. (\A t \in Syncs : \A f \in job[t].found : f.id < nextId)'
      BY <1>1, <2>1 DEF Row, Job
    <2>4. (\A t \in Syncs : \A i \in job[t].doomed : i < nextId)'
      BY <1>1, <2>1 DEF Job
    <2>5. QED  BY <2>1, <2>2, <2>3, <2>4 DEF Row
  <1>6. Locked'  BY <1>2 DEF IInv, Typed, Safe, Locked, Free
  <1>7. HandmadeApart'
    BY <1>1, <1>2 DEF IInv, Safe, HandmadeApart
  <1>8. AdoptsNone'  BY <1>2 DEF IInv, Safe, AdoptsNone
  <1>9. RunTyped'
    <2>1. j.at \notin {"idle", "done"}  BY DEF TxPlaces
    <2>2. run' = [run EXCEPT ![s] = "running"]  BY DEF IInv, RunTyped
    <2>3. QED  BY <1>2, <2>1, <2>2, RunStep DEF Statuses
  <1>10. QED  BY <1>4, <1>5, <1>6, <1>7, <1>8, <1>9 DEF IInv, Safe
-----------------------------------------------------------------------------
\* A step outside the database and the jobs.
LEMMA StillStep ==
  ASSUME IInv, GitTyped', UNCHANGED <<rows, nextId, writes, run, job, editVars>>
  PROVE  IInv'
  <1> USE DEF IInv, Safe, editVars
  <1>1. Typed'  BY DEF Typed
  <1>2. RunTyped'  BY DEF RunTyped, Running
  <1>3. Safe'  BY DEF IdsFresh, Locked, HandmadeApart, AdoptsNone
  <1>4. QED  BY <1>1, <1>2, <1>3

\* A sync that moves on without touching a row.
LEMMA MoveStep ==
  ASSUME IInv, NEW s \in Syncs, Running(s), NEW a \in Places \ {"idle", "done"},
         job' = [job EXCEPT ![s].at = a],
         writes[s] # {} => a \in TxPlaces,
         GitTyped', UNCHANGED <<rows, nextId, writes, run, editVars>>
  PROVE  IInv'
  <1> DEFINE j == [job[s] EXCEPT !.at = a]
  <1>1. j \in Job /\ j.at = a /\ j.found = job[s].found /\ j.doomed = job[s].doomed
    BY DEF IInv, Typed, Job
  <1>2. job' = [job EXCEPT ![s] = j]  OBVIOUS
  <1>3. run[s] = "running" /\ run' = [run EXCEPT ![s] = "running"]
    BY DEF IInv, RunTyped
  <1> HIDE DEF j
  <1>4. QED  BY <1>1, <1>2, <1>3, QuietStep DEF editVars, Statuses

\* The same for a sync that settles which commit it checks out.
LEMMA CheckoutStep ==
  ASSUME IInv, NEW s \in Syncs, Running(s), NEW a \in Places \ {"idle", "done"},
         NEW target \in [Kinds -> File],
         job' = [job EXCEPT ![s].at = a, ![s].target = target],
         writes[s] # {} => a \in TxPlaces,
         GitTyped', UNCHANGED <<rows, nextId, writes, run, editVars>>
  PROVE  IInv'
  <1> DEFINE j == [job[s] EXCEPT !.at = a, !.target = target]
  <1>1. j \in Job /\ j.at = a /\ j.found = job[s].found /\ j.doomed = job[s].doomed
    BY DEF IInv, Typed, Job
  <1>2. job' = [job EXCEPT ![s] = j]  OBVIOUS
  <1>3. run[s] = "running" /\ run' = [run EXCEPT ![s] = "running"]
    BY DEF IInv, RunTyped
  <1> HIDE DEF j
  <1>4. QED  BY <1>1, <1>2, <1>3, QuietStep DEF editVars, Statuses

\* A sync that ends drops what its transaction wrote, or has committed it.
LEMMA EndStep ==
  ASSUME IInv, NEW s \in Syncs, NEW v \in Statuses \ {"running"}, End(s, v),
         writes'[s] = {}, writes' = writes \/ writes' = [writes EXCEPT ![s] = {}],
         GitTyped', UNCHANGED <<rows, nextId, draft, edits>>
  PROVE  IInv'
  <1> DEFINE j == [job[s] EXCEPT !.at = "done"]
  <1>1. "done" \in Places  BY DEF Places
  <1>2. j \in Job /\ j.at = "done" /\ j.found = job[s].found /\ j.doomed = job[s].doomed
    BY <1>1, Moved DEF IInv, Typed
  <1>3. job' = [job EXCEPT ![s] = j] /\ run' = [run EXCEPT ![s] = v]  BY DEF End
  <1> HIDE DEF j
  <1>4. QED  BY <1>2, <1>3, QuietStep

\* A sync that fails, within its transaction or outside it.
LEMMA FailStep ==
  ASSUME IInv, NEW s \in Syncs, Fail(s), gitLock' \in Syncs \cup {None},
         writes' = [writes EXCEPT ![s] = {}] \/ (writes' = writes /\ job[s].at \notin TxPlaces)
  PROVE  IInv'
  <1>1. End(s, "failed") /\ UNCHANGED <<rows, nextId, draft, edits>>
    BY DEF Fail, editVars
  <1>2. GitTyped'  BY DEF Fail, GitTyped, IInv
  <1>3. writes'[s] = {} /\ (writes' = writes \/ writes' = [writes EXCEPT ![s] = {}])
    BY DEF IInv, Typed, RunTyped
  <1>4. QED  BY <1>1, <1>2, <1>3, EndStep DEF Statuses
-----------------------------------------------------------------------------
\* Begin: the run's row is there, and nothing has been read.
LEMMA BeginStep ==
  ASSUME IInv, NEW s \in Syncs, Begin(s)
  PROVE  IInv'
  <1> DEFINE j == [job[s] EXCEPT !.at = "stat"]
  <1>1. "stat" \in Places  BY DEF Places
  <1>2. j \in Job /\ j.at = "stat" /\ j.found = job[s].found /\ j.doomed = job[s].doomed
    BY <1>1 DEF IInv, Typed, Job
  <1>3. job' = [job EXCEPT ![s] = j] /\ run' = [run EXCEPT ![s] = "running"]
    BY DEF Begin
  <1>4. GitTyped' /\ UNCHANGED <<rows, nextId, writes, draft, edits>>
    BY DEF Begin, IInv, GitTyped, gitVars, editVars
  <1>5. writes'[s] = {}
    BY <1>4 DEF Begin, At, IInv, Typed, RunTyped, TxPlaces
  <1> HIDE DEF j
  <1>6. QED  BY <1>2, <1>3, <1>4, <1>5, QuietStep DEF Statuses

\* The steps in the working copy leave the tables alone.
LEMMA GitStep ==
  ASSUME IInv, NEW s \in Syncs, Git(s)
  PROVE  IInv'
  <1> USE DEF At
  <1>0. /\ Commits \subseteq [Kinds -> File]
        /\ head \in [Kinds -> File] /\ fetchHead \in [Kinds -> File]
        /\ GitTyped
    BY GitSyncAssumption DEF IInv, GitTyped
  <1>1. /\ {"stat", "fetch", "clear", "clone", "reset", "checkout", "read_server"}
             \subseteq Places \ {"idle", "done"}
        /\ {"stat", "fetch", "clear", "clone", "reset", "checkout", "read_server"}
             \cap TxPlaces = {}
    BY DEF Places, TxPlaces
  <1>2. Missing \in File  BY DEF Missing, File
  <1>3. ASSUME job[s].at \in {"stat", "fetch", "clear", "clone", "reset", "checkout"}
        PROVE  Running(s) /\ writes[s] = {}
    BY <1>1, <1>3 DEF Running, IInv, RunTyped, Typed
  <1>4. CASE Stat(s)
    <2>1. GitTyped' /\ UNCHANGED <<rows, nextId, writes, run, editVars>>
      BY <1>0, <1>4 DEF Stat, gitVars, GitTyped
    <2>2. CASE cloned
      <3>1. job' = [job EXCEPT ![s].at = "fetch"]  BY <1>4, <2>2 DEF Stat
      <3>2. QED  BY <1>1, <1>3, <1>4, <2>1, <3>1, MoveStep DEF Stat
    <2>3. CASE ~cloned
      <3>1. job' = [job EXCEPT ![s].at = "clear"]  BY <1>4, <2>3 DEF Stat
      <3>2. QED  BY <1>1, <1>3, <1>4, <2>1, <3>1, MoveStep DEF Stat
    <2>4. QED  BY <2>2, <2>3
  <1>5. CASE Clear(s)
    <2>1. GitTyped'  BY <1>0, <1>2, <1>5 DEF Clear, GitTyped
    <2>2. QED  BY <1>1, <1>3, <1>5, <2>1, MoveStep DEF Clear
  <1>6. CASE Clone(s)
    <2>1. GitTyped'  BY <1>0, <1>6 DEF Clone, GitTyped
    <2>2. QED  BY <1>0, <1>1, <1>3, <1>6, <2>1, CheckoutStep DEF Clone
  <1>7. CASE Fetch(s)
    <2>1. GitTyped'  BY <1>0, <1>7 DEF Fetch, GitTyped
    <2>2. QED  BY <1>1, <1>3, <1>7, <2>1, MoveStep DEF Fetch
  <1>8. CASE Reset(s)
    <2>1. GitTyped'  BY <1>0, <1>8 DEF Reset, GitTyped
    <2>2. QED  BY <1>0, <1>1, <1>3, <1>8, <2>1, CheckoutStep DEF Reset
  <1>9. ASSUME NEW k \in Kinds, Unlink(s, k) \/ WriteFile(s, k)
        PROVE  IInv'
    <2>1. job[s].target[k] \in File  BY DEF IInv, Typed, Job
    <2>2. GitTyped'  BY <1>0, <1>2, <1>9, <2>1 DEF Unlink, WriteFile, GitTyped
    <2>3. QED  BY <1>9, <2>2, StillStep DEF Unlink, WriteFile
  <1>10. CASE CheckedOut(s)
    <2>1. GitTyped'  BY <1>0, <1>10 DEF CheckedOut, GitTyped
    <2>2. QED  BY <1>1, <1>3, <1>10, <2>1, MoveStep DEF CheckedOut
  <1>11. CASE GitFails(s)
    <2>1. gitLock' \in Syncs \cup {None}  BY <1>0, <1>11 DEF GitFails, GitTyped
    <2>2. job[s].at \notin TxPlaces  BY <1>1, <1>11 DEF GitFails
    <2>3. QED  BY <1>11, <2>1, <2>2, FailStep DEF GitFails
  <1>12. QED  BY <1>4, <1>5, <1>6, <1>7, <1>8, <1>9, <1>10, <1>11 DEF Git

\* Reading a file, or failing to, leaves the tables alone.
LEMMA ParseStep ==
  ASSUME IInv, NEW s \in Syncs, Parse(s) \/ ParseFails(s)
  PROVE  IInv'
  <1>1. {"read_server", "read_rule"} \cap TxPlaces = {} /\ DOMAIN Reading = {"read_server", "read_rule"}
    BY DEF TxPlaces, Reading
  <1>2. CASE ParseFails(s)
    <2>1. gitLock' \in Syncs \cup {None} /\ job[s].at \notin TxPlaces
      BY <1>1, <1>2 DEF ParseFails, IInv, GitTyped
    <2>2. QED  BY <1>2, <2>1, FailStep DEF ParseFails
  <1>3. CASE Parse(s)
    <2>1. job[s].at \in {"read_server", "read_rule"}  BY <1>1, <1>3 DEF Parse
    <2>2. PICK k \in Kinds, a \in {"read_rule", "entries"}, todo \in SUBSET Entry :
            job' = [job EXCEPT ![s].parsed[k] = tree[k].entries, ![s].at = a, ![s].todo = todo]
      <3>1. job[s].parsed["server"] \in SUBSET Entry  BY DEF IInv, Typed, Job, Kinds
      <3>2. CASE job[s].at = "read_server"
        <4>1. Reading[job[s].at] = "server"  BY <3>2 DEF Reading
        <4>2. job' = [job EXCEPT ![s].parsed["server"] = tree["server"].entries,
                                 ![s].at = "read_rule", ![s].todo = {}]
          BY <1>3, <4>1 DEF Parse
        <4>3. QED  BY <4>2 DEF Kinds
      <3>3. CASE job[s].at = "read_rule"
        <4>1. Reading[job[s].at] = "rule"  BY <3>3 DEF Reading
        <4>2. job' = [job EXCEPT ![s].parsed["rule"] = tree["rule"].entries,
                                 ![s].at = "entries", ![s].todo = job[s].parsed["server"]]
          BY <1>3, <4>1 DEF Parse
        <4>3. QED  BY <3>1, <4>2 DEF Kinds
      <3>4. QED  BY <2>1, <3>2, <3>3
    <2>3. tree[k].entries \in SUBSET Entry  BY DEF IInv, GitTyped, File
    <2>4. a \in Places /\ a \notin {"idle", "done"}  BY DEF Places
    <2> DEFINE parsed == [job[s].parsed EXCEPT ![k] = tree[k].entries]
               j == [job[s] EXCEPT !.parsed = parsed, !.at = a, !.todo = todo]
    <2>3a. parsed \in [Kinds -> SUBSET Entry]  BY <2>3 DEF IInv, Typed, Job
    <2>3b. job' = [job EXCEPT ![s] = j]  BY <2>2
    <2> HIDE DEF parsed
    <2>5. /\ j \in Job /\ j.at = a
          /\ j.found = job[s].found /\ j.doomed = job[s].doomed
      <3>1. job[s] \in Job  BY DEF IInv, Typed
      <3>2. QED  BY <2>3a, <2>4, <3>1 DEF Job
    <2>6. job' = [job EXCEPT ![s] = j]  BY <2>3b
    <2>7. writes'[s] = {} /\ UNCHANGED <<rows, nextId, writes, run, draft, edits>>
      BY <1>1, <1>3, <2>1 DEF Parse, editVars, IInv, RunTyped, Typed
    <2>8. run[s] = "running" /\ run' = [run EXCEPT ![s] = "running"]
      BY <2>1, <2>7 DEF IInv, RunTyped, Running
    <2>9. GitTyped'  BY <1>3 DEF Parse, gitVars, IInv, GitTyped
    <2> HIDE DEF j
    <2>10. QED  BY <2>4, <2>5, <2>6, <2>7, <2>8, <2>9, QuietStep DEF Statuses
  <1>4. QED  BY <1>2, <1>3
-----------------------------------------------------------------------------
\* Resolving the servers, skipping an entry and passing to the next table read no
\* row that a later statement writes.
LEMMA ResolveStep ==
  ASSUME IInv, NEW s \in Syncs, Resolve(s)
  PROVE  IInv'
  <1>0. {0} \cup {r.id : r \in Live(s, "server")} \subseteq Nat
    BY ViewFacts DEF Live, Row
  <1>1. PICK ids \in [ServerNames -> Nat] :
          job' = [job EXCEPT ![s].ids = ids, ![s].at = "entries", ![s].todo = job[s].parsed["rule"]]
    BY <1>0 DEF Resolve
  <1> DEFINE todo == job[s].parsed["rule"]
             j == [job[s] EXCEPT !.ids = ids, !.at = "entries", !.todo = todo]
  <1>2. "entries" \in Places /\ "entries" \in TxPlaces /\ "rule" \in Kinds
    BY DEF Places, TxPlaces, Kinds
  <1>3. todo \in SUBSET Entry  BY <1>2 DEF IInv, Typed, Job
  <1>4. job' = [job EXCEPT ![s] = j]  BY <1>1
  <1> HIDE DEF todo
  <1>3a. j \in Job /\ j.at = "entries" /\ j.found = job[s].found /\ j.doomed = job[s].doomed
    BY <1>2, <1>3 DEF IInv, Typed, Job
  <1>5. GitTyped' /\ UNCHANGED <<rows, nextId, writes, run, draft, edits>>
    BY DEF Resolve, gitVars, editVars, IInv, GitTyped
  <1>6. run[s] = "running" /\ run' = [run EXCEPT ![s] = "running"]
    BY <1>5 DEF Resolve, At, IInv, RunTyped, Running
  <1> HIDE DEF j
  <1>7. QED  BY <1>2, <1>3a, <1>4, <1>5, <1>6, QuietStep DEF Statuses

\* An entry that is skipped.
LEMMA SkipStep ==
  ASSUME IInv, NEW s \in Syncs, NEW e \in Entry, NEW c \in BOOLEAN, At(s, "entries"), Skip(s, e, c)
  PROVE  IInv'
  <1> DEFINE j == [job[s] EXCEPT !.todo = @ \ {e}, !.conflict = @ \/ c]
  <1>1. /\ j \in Job /\ j.at = job[s].at
        /\ j.found = job[s].found /\ j.doomed = job[s].doomed
    BY DEF IInv, Typed, Job
  <1>2. job' = [job EXCEPT ![s] = j]  BY DEF Skip
  <1>3. GitTyped' /\ UNCHANGED <<rows, nextId, writes, run, draft, edits>>
    BY DEF Skip, gitVars, editVars, IInv, GitTyped
  <1>4. run[s] = "running" /\ run' = [run EXCEPT ![s] = "running"]
    BY <1>3 DEF At, IInv, RunTyped, Running
  <1>5. j.at \in TxPlaces /\ j.at \notin {"idle", "done"}
    BY <1>1 DEF TxPlaces, At
  <1> HIDE DEF j
  <1>6. QED  BY <1>1, <1>2, <1>3, <1>4, <1>5, QuietStep DEF Statuses

\* The servers are done, or the rules.
LEMMA SweptStep ==
  ASSUME IInv, NEW s \in Syncs, Swept(s)
  PROVE  IInv'
  <1>1. PICK a \in {"resolve", "commit"} : job' = [job EXCEPT ![s].at = a, ![s].kind = "rule"]
    BY DEF Swept
  <1> DEFINE j == [job[s] EXCEPT !.at = a, !.kind = "rule"]
  <1>2. a \in Places /\ a \in TxPlaces /\ "rule" \in Kinds /\ a \notin {"idle", "done"}
    BY DEF Places, TxPlaces, Kinds
  <1>3. j \in Job /\ j.at = a /\ j.found = job[s].found /\ j.doomed = job[s].doomed
    BY <1>2 DEF IInv, Typed, Job
  <1>4. job' = [job EXCEPT ![s] = j]  BY <1>1
  <1>5. GitTyped' /\ UNCHANGED <<rows, nextId, writes, run, draft, edits>>
    BY DEF Swept, gitVars, editVars, IInv, GitTyped
  <1>6. run[s] = "running" /\ run' = [run EXCEPT ![s] = "running"]
    BY <1>5 DEF Swept, At, IInv, RunTyped, Running
  <1> HIDE DEF j
  <1>7. QED  BY <1>2, <1>3, <1>4, <1>5, <1>6, QuietStep DEF Statuses

\* A statement that reads rows: those it will update or delete are managed, so
\* nobody made them by hand.
LEMMA ReadStep ==
  ASSUME IInv, NEW s \in Syncs, NEW j \in Job, job' = [job EXCEPT ![s] = j],
         \A f \in j.found : f.id < nextId /\ f.id \notin edits.made,
         \A i \in j.doomed : i < nextId /\ i \notin edits.made,
         job[s].at = "entries", j.at \in TxPlaces,
         UNCHANGED <<gitVars, rows, nextId, writes, run, editVars>>
  PROVE  IInv'
  <1> USE DEF gitVars, editVars
  <1>1. /\ job' \in [Syncs -> Job] /\ job'[s] = j
        /\ \A t \in Syncs : t # s => job'[t] = job[t]
    BY JobStep DEF IInv, Typed
  <1>2. Typed'  BY <1>1 DEF IInv, Typed
  <1>3. IdsFresh'  BY <1>1 DEF IInv, Safe, IdsFresh
  <1>4. Locked'  BY DEF IInv, Safe, Locked
  <1>5. HandmadeApart'  BY <1>1 DEF IInv, Safe, HandmadeApart
  <1>6. AdoptsNone'  BY DEF IInv, Safe, AdoptsNone
  <1>7. RunTyped'
    <2>1. run[s] = "running" /\ run' = [run EXCEPT ![s] = "running"]
      BY DEF IInv, RunTyped, Running
    <2>2. j.at \notin {"idle", "done"}  BY DEF TxPlaces
    <2>3. QED  BY <2>1, <2>2, RunStep DEF Statuses
  <1>8. GitTyped'  BY DEF IInv, GitTyped
  <1>9. QED  BY <1>2, <1>3, <1>4, <1>5, <1>6, <1>7, <1>8 DEF IInv, Safe

\* One entry's row is looked up by name.
LEMMA LookUpStep ==
  ASSUME IInv, NEW s \in Syncs, NEW e \in job[s].todo, LookUp(s, e)
  PROVE  IInv'
  <1> DEFINE found == FirstNamed(s, job[s].kind, e.name)
             handmade == \E r \in found : ~r.managed
  <1>1. e \in Entry /\ At(s, "entries")  BY DEF LookUp, IInv, Typed, Job
  <1>2. CASE \E c \in BOOLEAN : Skip(s, e, c)
    BY <1>1, <1>2, SkipStep
  <1>3. ASSUME ~handmade, NEW a \in {"create", "update"},
               job' = [job EXCEPT ![s].entry = {e}, ![s].found = found, ![s].at = a],
               UNCHANGED <<gitVars, rows, nextId, writes, run, editVars>>
        PROVE  IInv'
    <2>1. found \subseteq View(s)  BY DEF FirstNamed, Live
    <2>2. /\ found \in SUBSET Row
          /\ \A f \in found : f.id < nextId /\ f.id \notin edits.made
      BY <1>3, <2>1, ViewFacts
    <2> HIDE DEF found, handmade
    <2> DEFINE j == [job[s] EXCEPT !.entry = {e}, !.found = found, !.at = a]
    <2>3. a \in Places /\ a \in TxPlaces  BY DEF Places, TxPlaces
    <2>4. j \in Job /\ j.at = a /\ j.found = found /\ j.doomed = job[s].doomed
      BY <1>1, <2>2, <2>3 DEF IInv, Typed, Job
    <2>5. job' = [job EXCEPT ![s] = j]  BY <1>3
    <2>6. \A i \in j.doomed : i < nextId /\ i \notin edits.made
      BY <2>4 DEF IInv, Safe, IdsFresh, HandmadeApart
    <2>7. \A f \in j.found : f.id < nextId /\ f.id \notin edits.made
      BY <2>2, <2>4
    <2> HIDE DEF j
    <2>8. QED  BY <1>1, <1>3, <2>3, <2>4, <2>5, <2>6, <2>7, ReadStep DEF At
  <1>4. \/ \E c \in BOOLEAN : Skip(s, e, c)
        \/ /\ ~handmade
           /\ \E a \in {"create", "update"} :
                job' = [job EXCEPT ![s].entry = {e}, ![s].found = found, ![s].at = a]
           /\ UNCHANGED <<gitVars, rows, nextId, writes, run, editVars>>
    <2>1. CASE found = {}  BY <2>1 DEF LookUp
    <2>2. CASE found # {}  BY <2>2 DEF LookUp
    <2>3. QED  BY <2>1, <2>2
  <1>5. QED  BY <1>2, <1>3, <1>4

\* The managed rows that the file does not list.
LEMMA ListStep ==
  ASSUME IInv, NEW s \in Syncs, List(s)
  PROVE  IInv'
  <1> DEFINE doomed == {r.id : r \in {q \in Live(s, job[s].kind) :
                                        q.managed /\ q.name \notin Seen(s, job[s].kind)}}
             j == [job[s] EXCEPT !.at = "sweep", !.doomed = doomed]
  <1>1. /\ doomed \in SUBSET Nat
        /\ \A i \in doomed : i < nextId /\ i \notin edits.made
    BY ViewFacts DEF Live, Row
  <1>2. "sweep" \in Places /\ "sweep" \in TxPlaces  BY DEF Places, TxPlaces
  <1>3. job' = [job EXCEPT ![s] = j]  BY DEF List
  <1> HIDE DEF doomed
  <1>4. j \in Job /\ j.at = "sweep" /\ j.found = job[s].found /\ j.doomed = doomed
    BY <1>1, <1>2 DEF IInv, Typed, Job
  <1>5. \A f \in j.found : f.id < nextId /\ f.id \notin edits.made
    BY <1>4 DEF IInv, Safe, IdsFresh, HandmadeApart
  <1>6. job[s].at = "entries" /\ UNCHANGED <<gitVars, rows, nextId, writes, run, editVars>>
    BY DEF List, At
  <1> HIDE DEF j
  <1>7. QED  BY <1>1, <1>2, <1>3, <1>4, <1>5, <1>6, ReadStep
-----------------------------------------------------------------------------
\* Settling an entry sets the sync's job.
LEMMA SettledStep ==
  ASSUME IInv, NEW s \in Syncs, Settled(s)
  PROVE  \E j \in Job : /\ job' = [job EXCEPT ![s] = j]
                        /\ j.at = "entries" /\ j.found = {} /\ j.doomed = job[s].doomed
  <1> DEFINE j == [job[s] EXCEPT !.at = "entries", !.todo = @ \ job[s].entry,
                                 !.entry = {}, !.found = {}]
  <1>1. "entries" \in Places  BY DEF Places
  <1>2. j \in Job /\ j.at = "entries" /\ j.found = {} /\ j.doomed = job[s].doomed
    BY <1>1 DEF IInv, Typed, Job
  <1>3. job' = [job EXCEPT ![s] = j]  BY DEF Settled
  <1>4. QED  BY <1>2, <1>3

\* The server that an entry of a rule names, or none.
LEMMA RefTyped ==
  ASSUME IInv, NEW s \in Syncs, NEW e \in job[s].entry
  PROVE  Ref(s, e) \in Nat /\ e \in Entry
  <1>1. e \in Entry /\ job[s].ids \in [ServerNames -> Nat]  BY DEF IInv, Typed, Job
  <1>2. e.server # {} => (CHOOSE n \in e.server : TRUE) \in ServerNames
    BY <1>1 DEF Entry
  <1>3. QED  BY <1>1, <1>2 DEF Ref

\* A row is created under a new id.
LEMMA CreateStep ==
  ASSUME IInv, NEW s \in Syncs, NEW e \in job[s].entry, Create(s, e)
  PROVE  IInv'
  <1> DEFINE w == Created(nextId, job[s].kind, e, Ref(s, e))
  <1>1. PICK j \in Job : /\ job' = [job EXCEPT ![s] = j]
                         /\ j.at = "entries" /\ j.found = {} /\ j.doomed = job[s].doomed
    BY SettledStep DEF Create
  <1>2. job[s].kind \in Kinds /\ OnInsert[job[s].kind][e.body] \in Bodies
    BY RefTyped, GitSyncAssumption DEF IInv, Typed, Job, Entry
  <1>3. w \in Row /\ w.id = nextId
    BY RefTyped, <1>2 DEF Created, Row, Entry, IInv, Typed
  <1>4. Put(s, w) /\ nextId' = nextId + 1 /\ UNCHANGED <<gitVars, rows, run, editVars>>
    BY DEF Create
  <1> HIDE DEF w
  <1>5. /\ Free(s, {w.id}) /\ w.id \notin edits.made /\ \A r \in rows : w.id # r.id
    BY <1>3 DEF IInv, Safe, IdsFresh, Free, Typed, Row
  <1>6. nextId' \in {nextId, nextId + 1} /\ w.id < nextId'
    BY <1>3, <1>4 DEF IInv, Typed
  <1>7. job[s].at = "create" /\ "entries" \in TxPlaces  BY DEF Create, At, TxPlaces
  <1>8. run[s] = "running"  BY <1>7 DEF IInv, RunTyped, Running
  <1>9. GitTyped' /\ UNCHANGED <<rows, run, draft, edits>>
    BY <1>4 DEF IInv, GitTyped, gitVars, editVars
  <1>10. QED  BY <1>1, <1>3, <1>4, <1>5, <1>6, <1>7, <1>8, <1>9, PutStep

\* A row of the transaction's view, changed but for its id and its management.
LEMMA RewriteStep ==
  ASSUME IInv, NEW s \in Syncs, NEW k \in Kinds, NEW r \in Live(s, k), NEW w \in Row,
         w.id = r.id, w.managed = r.managed, Put(s, w), Free(s, {r.id}),
         r.id \notin edits.made,
         NEW j \in Job, job' = [job EXCEPT ![s] = j],
         j.found \subseteq job[s].found, j.doomed \subseteq job[s].doomed,
         j.at \in TxPlaces, job[s].at \in TxPlaces,
         UNCHANGED <<gitVars, rows, nextId, run, editVars>>
  PROVE  IInv'
  <1>1. r \in View(s)  BY DEF Live
  <1>2. w.id < nextId /\ \A q \in rows : w.id = q.id /\ w.managed => q.managed
    BY <1>1, ViewFacts
  <1>3. run[s] = "running"  BY DEF IInv, RunTyped, Running, TxPlaces
  <1>4. GitTyped' /\ UNCHANGED <<rows, run, draft, edits>>
    BY DEF IInv, GitTyped, gitVars, editVars
  <1>5. nextId' \in {nextId, nextId + 1} /\ w.id < nextId'  BY <1>2
  <1>6. QED  BY <1>2, <1>3, <1>4, <1>5, PutStep

\* A statement that finds its row gone.
LEMMA GoneStep ==
  ASSUME IInv, NEW s \in Syncs, NEW j \in Job, job' = [job EXCEPT ![s] = j],
         j.found \subseteq job[s].found, j.doomed \subseteq job[s].doomed,
         j.at \in TxPlaces, job[s].at \in TxPlaces,
         UNCHANGED <<gitVars, rows, nextId, writes, run, editVars>>
  PROVE  IInv'
  <1>1. run[s] = "running" /\ run' = [run EXCEPT ![s] = "running"]
    BY DEF IInv, RunTyped, Running, TxPlaces
  <1>2. j.at \notin {"idle", "done"}  BY DEF TxPlaces
  <1>3. GitTyped' /\ UNCHANGED <<rows, nextId, draft, edits>>
    BY DEF IInv, GitTyped, gitVars, editVars
  <1>4. QED  BY <1>1, <1>2, <1>3, QuietStep DEF Statuses

\* The row looked up is updated, if it is still there.
LEMMA UpdateStep ==
  ASSUME IInv, NEW s \in Syncs, NEW e \in job[s].entry, Update(s, e)
  PROVE  IInv'
  <1>1. PICK j \in Job : /\ job' = [job EXCEPT ![s] = j]
                         /\ j.at = "entries" /\ j.found = {} /\ j.doomed = job[s].doomed
    BY SettledStep DEF Update
  <1>2. /\ job[s].at \in TxPlaces /\ j.at \in TxPlaces /\ job[s].kind \in Kinds
        /\ UNCHANGED <<gitVars, rows, nextId, run, editVars>>
    BY <1>1 DEF Update, At, TxPlaces, IInv, Typed, Job
  <1>3. CASE UNCHANGED writes
    BY <1>1, <1>2, <1>3, GoneStep
  <1>4. ASSUME NEW old \in job[s].found, NEW r \in Live(s, job[s].kind), Free(s, {old.id}),
               r.id = old.id, Put(s, Updated(r, e, Ref(s, e)))
        PROVE  IInv'
    <2> DEFINE w == Updated(r, e, Ref(s, e))
    <2>1. r \in Row /\ r.id \notin edits.made
      BY <1>4, ViewFacts DEF Live, IInv, Safe, HandmadeApart
    <2>2. w \in Row /\ w.id = r.id /\ w.managed = r.managed
      BY <2>1, RefTyped DEF Updated, Row, Entry
    <2>3. Put(s, w) /\ Free(s, {r.id})  BY <1>4
    <2> HIDE DEF w
    <2>4. QED  BY <1>1, <1>2, <2>1, <2>2, <2>3, RewriteStep
  <1>5. QED  BY <1>3, <1>4 DEF Update

\* A listed row is deleted, if it is still there.
LEMMA DeleteStep ==
  ASSUME IInv, NEW s \in Syncs, NEW i \in job[s].doomed, Delete(s, i)
  PROVE  IInv'
  <1> DEFINE j == [job[s] EXCEPT !.doomed = @ \ {i}]
  <1>1. /\ j \in Job /\ j.at = job[s].at
        /\ j.found = job[s].found /\ j.doomed \subseteq job[s].doomed
    BY DEF IInv, Typed, Job
  <1>2. job' = [job EXCEPT ![s] = j]  BY DEF Delete
  <1> HIDE DEF j
  <1>3. /\ job[s].at \in TxPlaces /\ j.at \in TxPlaces /\ job[s].kind \in Kinds
        /\ UNCHANGED <<gitVars, rows, nextId, run, editVars>>
    BY <1>1 DEF Delete, At, TxPlaces, IInv, Typed, Job
  <1>4. CASE UNCHANGED writes
    BY <1>1, <1>2, <1>3, <1>4, GoneStep
  <1>5. ASSUME NEW r \in Live(s, job[s].kind), Free(s, {i}), r.id = i,
               Put(s, [r EXCEPT !.live = FALSE])
        PROVE  IInv'
    <2> DEFINE w == [r EXCEPT !.live = FALSE]
    <2>1. r \in Row /\ r.id \notin edits.made
      BY <1>5, ViewFacts DEF Live, IInv, Safe, HandmadeApart
    <2>2. w \in Row /\ w.id = r.id /\ w.managed = r.managed
      BY <2>1 DEF Row
    <2>3. Put(s, w) /\ Free(s, {r.id})  BY <1>5
    <2> HIDE DEF w
    <2>4. QED  BY <1>1, <1>2, <1>3, <2>1, <2>2, <2>3, RewriteStep
  <1>6. QED  BY <1>4, <1>5 DEF Delete

\* A commit replaces the rows that the transaction wrote, and no others.
LEMMA CommitStep ==
  ASSUME IInv, NEW s \in Syncs, Commit(s)
  PROVE  IInv'
  <1> DEFINE j == [job[s] EXCEPT !.at = "done"]
  <1>1. PICK v \in {"partial", "success"} : End(s, v)  BY DEF Commit
  <1>2. "done" \in Places  BY DEF Places
  <1>3. j \in Job /\ j.at = "done" /\ j.found = job[s].found /\ j.doomed = job[s].doomed
    BY <1>2, Moved DEF IInv, Typed
  <1>4. job' = [job EXCEPT ![s] = j] /\ run' = [run EXCEPT ![s] = v]  BY <1>1 DEF End
  <1> HIDE DEF j
  <1>5. /\ job' \in [Syncs -> Job]
        /\ \A t \in Syncs : job'[t].found = job[t].found /\ job'[t].doomed = job[t].doomed
    BY <1>3, <1>4, JobStep DEF IInv, Typed
  <1>6. /\ rows' = View(s) /\ writes' = [writes EXCEPT ![s] = {}]
        /\ UNCHANGED <<gitVars, nextId, draft, edits>>
    BY DEF Commit, editVars
  <1>7. /\ writes' \in [Syncs -> SUBSET Row] /\ writes'[s] = {}
        /\ \A t \in Syncs : t # s => writes'[t] = writes[t]
    BY <1>6 DEF IInv, Typed
  <1>8. GitTyped'  BY <1>6 DEF IInv, GitTyped, gitVars
  <1>9. RunTyped'
    <2>1. v \in Statuses /\ v # "running"  BY DEF Statuses
    <2>2. QED  BY <1>3, <1>4, <1>7, <2>1, RunStep
  <1>10. Typed'  BY <1>5, <1>6, <1>7, ViewFacts DEF IInv, Typed
  <1>11. IdsFresh'
    <2>1. \A r, q \in View(s) : r.id = q.id => r = q
      BY DEF View, IInv, Safe, IdsFresh, Locked
    <2>2. QED  BY <1>5, <1>6, <1>7, <2>1, ViewFacts DEF IInv, Safe, IdsFresh
  <1>12. Locked'  BY <1>7 DEF IInv, Safe, Locked
  <1>13. HandmadeApart'
    <2>1. \A r \in View(s) : r.id \in edits.made => ~r.managed  BY ViewFacts
    <2>2. QED  BY <1>5, <1>6, <1>7, <2>1 DEF IInv, Safe, HandmadeApart
  <1>14. AdoptsNone'
    <2>1. ASSUME NEW t \in Syncs, t # s, NEW w \in writes[t], NEW r \in View(s), w.id = r.id
          PROVE  r \in rows
      BY <2>1 DEF View, IInv, Safe, Locked
    <2>2. QED  BY <1>6, <1>7, <2>1 DEF IInv, Safe, AdoptsNone
  <1>15. QED
    BY <1>8, <1>9, <1>10, <1>11, <1>12, <1>13, <1>14 DEF IInv, Safe

\* A rollback drops what the transaction wrote.
LEMMA AbortStep ==
  ASSUME IInv, NEW s \in Syncs, Abort(s)
  PROVE  IInv'
  <1>1. gitLock' \in Syncs \cup {None}  BY DEF Abort, IInv, GitTyped
  <1>2. Fail(s) /\ writes' = [writes EXCEPT ![s] = {}]  BY DEF Abort
  <1>3. QED  BY <1>1, <1>2, FailStep

\* Every step of a sync.
LEMMA SyncStep ==
  ASSUME IInv, NEW s \in Syncs, Sync(s)
  PROVE  IInv'
  <1>1. CASE Begin(s)  BY <1>1, BeginStep
  <1>2. CASE NotConfigured(s)
    <2>1. gitLock' \in Syncs \cup {None} /\ job[s].at \notin TxPlaces
      BY <1>2 DEF NotConfigured, At, TxPlaces, IInv, GitTyped
    <2>2. QED  BY <1>2, <2>1, FailStep DEF NotConfigured
  <1>3. CASE Git(s)  BY <1>3, GitStep
  <1>4. CASE Parse(s) \/ ParseFails(s)  BY <1>4, ParseStep
  <1>5. CASE Reconcile(s)
    <2>1. CASE Resolve(s)  BY <2>1, ResolveStep
    <2>2. CASE List(s)  BY <2>2, ListStep
    <2>3. CASE Swept(s)  BY <2>3, SweptStep
    <2>4. CASE Commit(s)  BY <2>4, CommitStep
    <2>5. CASE DeadlockDetected(s)  BY <2>5, AbortStep DEF DeadlockDetected
    <2>6. CASE \E e \in job[s].todo : LookUp(s, e)  BY <2>6, LookUpStep
    <2>7. CASE \E e \in job[s].entry : Create(s, e) \/ Update(s, e)
      BY <2>7, CreateStep, UpdateStep
    <2>8. CASE \E i \in job[s].doomed : Delete(s, i)  BY <2>8, DeleteStep
    <2>9. QED
      BY <1>5, <2>1, <2>2, <2>3, <2>4, <2>5, <2>6, <2>7, <2>8 DEF Reconcile
  <1>6. CASE Abort(s)  BY <1>6, AbortStep
  <1>7. QED  BY <1>1, <1>2, <1>3, <1>4, <1>5, <1>6 DEF Sync, Proceed
-----------------------------------------------------------------------------
\* A request that takes rows away, and adds at most one: a new one, or one of its
\* own draft, unmanaged or of a row nobody made by hand; none of those that it
\* replaces is locked.
LEMMA ReplaceStep ==
  ASSUME IInv, NEW u \in Editors, NotEdited,
         NEW gone \in SUBSET Nat, Unlocked(gone),
         NEW new \in SUBSET Row, \A n \in new : n.id \in gone,
         \A n \in new : n.managed => n.id < nextId /\ n.id \notin edits.made,
         \A m, n \in new : m = n,
         rows' = {r \in rows : r.id \notin gone} \cup new,
         nextId' \in {nextId, nextId + 1}, \A n \in new : n.id < nextId',
         draft' = draft \/ draft' = [draft EXCEPT ![u] = {}],
         edits' \in [done : SUBSET Editors, made : SUBSET Nat, saved : SUBSET Nat],
         NEW made \in SUBSET Nat, edits'.made = edits.made \cup made,
         \A i \in made : i = nextId /\ i < nextId'
  PROVE  IInv'
  <1> USE DEF NotEdited
  <1>1. /\ nextId' \in Nat \ {0} /\ nextId <= nextId'
        /\ \A i \in Nat : i < nextId => i < nextId'
    BY DEF IInv, Typed
  <1>2. \A i \in Nat : i < nextId /\ i \in edits'.made => i \in edits.made
    BY DEF IInv, Typed
  <1>3. /\ draft' \in [Editors -> SUBSET Row]
        /\ \A v \in Editors : draft'[v] \subseteq draft[v]
    BY DEF IInv, Typed
  <1>4. Typed'  BY <1>1, <1>3 DEF IInv, Typed
  <1>5. GitTyped' /\ RunTyped'
    BY DEF IInv, GitTyped, RunTyped, Running, gitVars
  <1>6. IdsFresh'
    <2> USE DEF IInv, Typed, Safe, IdsFresh
    <2>1. (\A r \in rows : r.id < nextId)'  BY <1>1 DEF Row
    <2>2. (\A r, q \in rows : r.id = q.id => r = q)'  OBVIOUS
    <2>3. (\A s \in Syncs : \A w \in writes[s] : w.id < nextId)'  BY <1>1 DEF Row
    <2>4. (\A s \in Syncs : \A f \in job[s].found : f.id < nextId)'  BY <1>1 DEF Row, Job
    <2>5. (\A s \in Syncs : \A i \in job[s].doomed : i < nextId)'  BY <1>1 DEF Job
    <2>6. (\A v \in Editors : \A r \in draft[v] : r.id < nextId)'  BY <1>1, <1>3 DEF Row
    <2>7. (\A i \in edits.made : i < nextId)'  BY <1>1
    <2>8. QED  BY <2>1, <2>2, <2>3, <2>4, <2>5, <2>6, <2>7
  <1>7. Locked'  BY DEF IInv, Safe, Locked
  <1>8. HandmadeApart'
    <2> USE DEF IInv, Typed, Safe, IdsFresh, HandmadeApart
    <2>1. (\A r \in rows : r.id \in edits.made => ~r.managed)'  BY <1>2 DEF Row
    <2>2. (\A v \in Editors : \A r \in draft[v] : r.id \in edits.made => ~r.managed)'
      BY <1>2, <1>3 DEF Row
    <2>3. (\A s \in Syncs : \A w \in writes[s] : w.id \notin edits.made)'  BY <1>2 DEF Row
    <2>4. (\A s \in Syncs : \A f \in job[s].found : f.id \notin edits.made)'
      BY <1>2 DEF Row, Job
    <2>5. (\A s \in Syncs : \A i \in job[s].doomed : i \notin edits.made)'  BY <1>2 DEF Job
    <2>6. QED  BY <2>1, <2>2, <2>3, <2>4, <2>5
  <1>9. AdoptsNone'  BY DEF IInv, Safe, AdoptsNone, Unlocked
  <1>10. QED  BY <1>4, <1>5, <1>6, <1>7, <1>8, <1>9 DEF IInv, Safe

\* The same for a request that leaves its row unmanaged.
LEMMA EditStep ==
  ASSUME IInv, NEW u \in Editors, NotEdited,
         NEW gone \in SUBSET Nat, Unlocked(gone),
         NEW new \in SUBSET Row, \A n \in new : n.id \in gone /\ ~n.managed,
         \A m, n \in new : m = n,
         rows' = {r \in rows : r.id \notin gone} \cup new,
         nextId' \in {nextId, nextId + 1}, \A n \in new : n.id < nextId',
         draft' = draft \/ draft' = [draft EXCEPT ![u] = {}],
         NEW made \in SUBSET Nat, NEW saved \in SUBSET Nat, Edited(u, made, saved),
         \A i \in made : i = nextId /\ i < nextId'
  PROVE  IInv'
  <1>1. /\ edits' \in [done : SUBSET Editors, made : SUBSET Nat, saved : SUBSET Nat]
        /\ edits'.made = edits.made \cup made
    BY DEF Edited, IInv, Typed
  <1>2. QED  BY <1>1, ReplaceStep

\* A row made by hand is typed, unmanaged, and has the next id.
LEMMA HandmadeTyped ==
  ASSUME IInv, NEW k \in Kinds, NEW n \in Names[k], NEW b \in Bodies, NEW ref \in Refs(k)
  PROVE  LET r == Handmade(nextId, k, n, b, ref)
         IN  r \in Row /\ r.id = nextId /\ ~r.managed
  <1>1. n \in ServerNames \cup RuleNames  BY DEF Names, Kinds
  <1>2. ref \in Nat  BY DEF Refs, IInv, Typed, Row
  <1>3. nextId \in Nat /\ OnInsert[k][b] \in Bodies  BY GitSyncAssumption DEF IInv, Typed
  <1>4. QED  BY <1>1, <1>2, <1>3 DEF Handmade, Row

\* CreateServer and CreateAlertRule add a row.
LEMMA CreateRowStep ==
  ASSUME IInv, NEW u \in Editors, NEW k \in Kinds, NEW n \in Names[k], NEW b \in Bodies,
         CreateRow(u, k, n, b)
  PROVE  IInv'
  <1>1. PICK ref \in Refs(k) : rows' = rows \cup {Handmade(nextId, k, n, b, ref)}
    BY DEF CreateRow
  <1> DEFINE new == {Handmade(nextId, k, n, b, ref)}
  <1>2. new \in SUBSET Row /\ \A r \in new : r.id = nextId /\ ~r.managed
    BY HandmadeTyped
  <1>3. nextId \in Nat /\ nextId' = nextId + 1  BY DEF CreateRow, IInv, Typed
  <1>4. rows' = {r \in rows : r.id \notin {nextId}} \cup new
    BY <1>1, <1>3 DEF IInv, Safe, IdsFresh, Typed, Row
  <1>5. Unlocked({nextId})  BY <1>3 DEF Unlocked, IInv, Safe, IdsFresh, Typed, Row
  <1>6. \A p, q \in new : p = q  OBVIOUS
  <1>7. NotEdited /\ draft' = draft /\ Edited(u, {nextId}, {nextId})  BY DEF CreateRow
  <1>8. /\ \A r \in new : r.id < nextId' /\ r.id \in {nextId}
        /\ \A i \in {nextId} : i = nextId /\ i < nextId'
        /\ {nextId} \in SUBSET Nat
    BY <1>2, <1>3
  <1> HIDE DEF new
  <1>9. QED  BY <1>2, <1>3, <1>4, <1>5, <1>6, <1>7, <1>8, EditStep

\* BatchUpdateAlertRules replaces every rule.
LEMMA BatchStep ==
  ASSUME IInv, NEW u \in Editors, NEW n \in RuleNames, NEW b \in Bodies,
         BatchUpdateAlertRules(u, n, b)
  PROVE  IInv'
  <1>1. PICK ref \in Refs("rule") :
          rows' = (rows \ {q \in rows : q.kind = "rule"})
                  \cup {Handmade(nextId, "rule", n, b, ref)}
    BY DEF BatchUpdateAlertRules
  <1> DEFINE new == {Handmade(nextId, "rule", n, b, ref)}
             gone == {q.id : q \in {r \in rows : r.kind = "rule"}} \cup {nextId}
  <1>2. "rule" \in Kinds /\ n \in Names["rule"]  BY DEF Kinds, Names
  <1>3. new \in SUBSET Row /\ \A r \in new : r.id = nextId /\ ~r.managed
    BY <1>2, HandmadeTyped
  <1>4. nextId \in Nat /\ nextId' = nextId + 1  BY DEF BatchUpdateAlertRules, IInv, Typed
  <1>5. gone \in SUBSET Nat  BY <1>4 DEF IInv, Typed, Row
  <1>6. rows' = {r \in rows : r.id \notin gone} \cup new
    <2>1. \A r \in rows : r.id \in gone <=> r.kind = "rule"
      BY <1>4 DEF IInv, Safe, IdsFresh, Typed, Row
    <2>2. QED  BY <1>1, <2>1
  <1>7. Unlocked(gone)
    BY <1>4 DEF BatchUpdateAlertRules, Unlocked, IInv, Safe, IdsFresh, Typed, Row
  <1>8. \A p, q \in new : p = q  OBVIOUS
  <1>9. NotEdited /\ draft' = draft /\ Edited(u, {nextId}, {nextId})
    BY DEF BatchUpdateAlertRules
  <1>10. /\ \A r \in new : r.id < nextId' /\ r.id \in gone
         /\ \A i \in {nextId} : i = nextId /\ i < nextId'
         /\ {nextId} \in SUBSET Nat
    BY <1>3, <1>4
  <1> HIDE DEF new, gone
  <1>11. QED  BY <1>3, <1>4, <1>5, <1>6, <1>7, <1>8, <1>9, <1>10, EditStep

\* Loading a row leaves the tables as they are.
LEMMA LoadStep ==
  ASSUME IInv, NEW u \in Editors, NEW r \in rows, Load(u, r)
  PROVE  IInv'
  <1>1. /\ draft' \in [Editors -> SUBSET Row]
        /\ \A v \in Editors : \A q \in draft'[v] : q \in draft[v] \/ q = r
    BY DEF Load, IInv, Typed
  <1>2. UNCHANGED <<gitVars, writes, run, job, rows, nextId, edits>>  BY DEF Load, NotEdited
  <1>3. Typed'  BY <1>1, <1>2 DEF IInv, Typed
  <1>4. GitTyped' /\ RunTyped'  BY <1>2 DEF IInv, GitTyped, RunTyped, Running, gitVars
  <1>5. IdsFresh'  BY <1>1, <1>2 DEF IInv, Safe, IdsFresh
  <1>6. HandmadeApart'  BY <1>1, <1>2 DEF IInv, Safe, HandmadeApart
  <1>7. Locked' /\ AdoptsNone'  BY <1>2 DEF IInv, Safe, Locked, AdoptsNone
  <1>8. QED  BY <1>3, <1>4, <1>5, <1>6, <1>7 DEF IInv, Safe

\* Saving a draft leaves the row unmanaged.
LEMMA SaveStep ==
  ASSUME IInv, NEW u \in Editors, NEW n \in ServerNames \cup RuleNames, NEW b \in Bodies,
         Save(u, n, b)
  PROVE  IInv'
  <1>0. PICK r \in draft[u] :
          /\ Unlocked({r.id})
          /\ \E ref \in Refs(r.kind) :
               rows' = {q \in rows : q.id # r.id}
                       \cup {[r EXCEPT !.name = n, !.body = b, !.ref = ref, !.managed = FALSE]}
    BY DEF Save
  <1>1. PICK ref \in Refs(r.kind) :
          rows' = {q \in rows : q.id # r.id}
                     \cup {[r EXCEPT !.name = n, !.body = b, !.ref = ref, !.managed = FALSE]}
    BY <1>0
  <1> DEFINE new == {[r EXCEPT !.name = n, !.body = b, !.ref = ref, !.managed = FALSE]}
             saved == {q.id : q \in draft[u]}
  <1>2. r \in Row /\ r.id < nextId  BY DEF IInv, Typed, Safe, IdsFresh
  <1>3. ref \in Nat  BY DEF Refs, IInv, Typed, Row
  <1>4. new \in SUBSET Row /\ \A q \in new : q.id = r.id /\ ~q.managed
    BY <1>2, <1>3 DEF Row
  <1>5. {r.id} \in SUBSET Nat /\ saved \in SUBSET Nat  BY <1>2 DEF IInv, Typed, Row
  <1>6. rows' = {q \in rows : q.id \notin {r.id}} \cup new  BY <1>1
  <1>7. \A p, q \in new : p = q  OBVIOUS
  <1>8. /\ NotEdited /\ nextId' = nextId /\ Edited(u, {}, saved)
        /\ draft' = [draft EXCEPT ![u] = {}]
    BY DEF Save
  <1>9. /\ \A q \in new : q.id \in {r.id} /\ ~q.managed /\ q.id < nextId'
        /\ nextId' \in {nextId, nextId + 1} /\ Unlocked({r.id})
        /\ {} \in SUBSET Nat /\ \A i \in {} : i = nextId /\ i < nextId'
    BY <1>0, <1>2, <1>4, <1>8
  <1> HIDE DEF new, saved
  <1>10. QED  BY <1>4, <1>5, <1>6, <1>7, <1>8, <1>9, EditStep

\* Saving a draft as it was loaded may leave the row managed, but not one that
\* somebody made by hand.
LEMMA SaveClusterStep ==
  ASSUME IInv, NEW u \in Editors, SaveCluster(u)
  PROVE  IInv'
  <1>1. PICK r \in draft[u] :
          /\ Unlocked({r.id})
          /\ rows' = {q \in rows : q.id # r.id} \cup {r}
          /\ edits' = [edits EXCEPT !.done = @ \cup {u},
                                   !.saved = IF r.managed THEN @ \ {r.id} ELSE @]
    BY DEF SaveCluster
  <1> DEFINE new == {r}
  <1>2. /\ r \in Row /\ r.id < nextId
        /\ r.managed => r.id \notin edits.made
    BY DEF IInv, Typed, Safe, IdsFresh, HandmadeApart
  <1>3. new \in SUBSET Row /\ {r.id} \in SUBSET Nat  BY <1>2 DEF Row
  <1>4. rows' = {q \in rows : q.id \notin {r.id}} \cup new  BY <1>1
  <1>5. /\ edits' \in [done : SUBSET Editors, made : SUBSET Nat, saved : SUBSET Nat]
        /\ edits'.made = edits.made \cup {}
    BY <1>1 DEF IInv, Typed
  <1>6. NotEdited /\ nextId' = nextId /\ draft' = [draft EXCEPT ![u] = {}]
    BY DEF SaveCluster
  <1>7. /\ \A n \in new : n.id \in {r.id} /\ n.id < nextId'
        /\ \A n \in new : n.managed => n.id < nextId /\ n.id \notin edits.made
        /\ \A m, n \in new : m = n
        /\ nextId' \in {nextId, nextId + 1}
        /\ {} \in SUBSET Nat /\ \A i \in {} : i = nextId /\ i < nextId'
    BY <1>2, <1>6
  <1> HIDE DEF new
  <1>8. QED  BY <1>1, <1>3, <1>4, <1>5, <1>6, <1>7, ReplaceStep

\* A change of preferences leaves the row with whoever manages it.
LEMMA PreferencesStep ==
  ASSUME IInv, NEW u \in Editors, NEW r \in rows, NEW n \in ServerNames, NEW b \in Bodies,
         UpdateServerPreferences(u, r, n, b)
  PROVE  IInv'
  <1> DEFINE w == [r EXCEPT !.name = n, !.body = b]
             new == {w}
  <1>1. /\ r \in Row /\ r.id < nextId
        /\ r.managed => r.id \notin edits.made
    BY DEF IInv, Typed, Safe, IdsFresh, HandmadeApart
  <1>2. w \in Row /\ w.id = r.id /\ w.managed = r.managed  BY <1>1 DEF Row
  <1>3. NotEdited /\ nextId' = nextId /\ draft' = draft /\ Edited(u, {}, {}) /\ Unlocked({r.id})
    BY DEF UpdateServerPreferences
  <1>4. rows' = {q \in rows : q.id \notin {r.id}} \cup new
    <2>1. rows' = (rows \ {r}) \cup new  BY DEF UpdateServerPreferences
    <2>2. \A q \in rows : q.id = r.id <=> q = r  BY DEF IInv, Safe, IdsFresh
    <2> HIDE DEF new
    <2>3. QED  BY <2>1, <2>2
  <1> HIDE DEF w
  <1>5. new \in SUBSET Row /\ {r.id} \in SUBSET Nat  BY <1>1, <1>2 DEF Row
  <1>6. /\ edits' \in [done : SUBSET Editors, made : SUBSET Nat, saved : SUBSET Nat]
        /\ edits'.made = edits.made \cup {}
    BY <1>3 DEF Edited, IInv, Typed
  <1>7. /\ \A m \in new : m.id \in {r.id} /\ m.id < nextId'
        /\ \A m \in new : m.managed => m.id < nextId /\ m.id \notin edits.made
        /\ \A m, q \in new : m = q
        /\ nextId' \in {nextId, nextId + 1}
        /\ {} \in SUBSET Nat /\ \A i \in {} : i = nextId /\ i < nextId'
    BY <1>1, <1>2, <1>3
  <1> HIDE DEF new
  <1>8. QED  BY <1>3, <1>4, <1>5, <1>6, <1>7, ReplaceStep

\* DeleteServer and DeleteAlertRule take rows away.
LEMMA DeleteRowStep ==
  ASSUME IInv, NEW u \in Editors, NEW r \in rows, DeleteRow(u, r)
  PROVE  IInv'
  <1> DEFINE rowsGone == {q \in rows : q.id = r.id \/ (r.kind = "server" /\ q.ref = r.id)}
             gone == {q.id : q \in rowsGone}
  <1>1. gone \in SUBSET Nat  BY DEF IInv, Typed, Row
  <1>2. rows' = {q \in rows : q.id \notin gone} \cup {}
    BY DEF DeleteRow, IInv, Safe, IdsFresh
  <1>3. Unlocked(gone) /\ NotEdited /\ nextId' = nextId /\ draft' = draft /\ Edited(u, {}, {})
    BY DEF DeleteRow
  <1>4. /\ nextId' \in {nextId, nextId + 1}
        /\ {} \in SUBSET Nat /\ {} \in SUBSET Row
        /\ \A i \in {} : i = nextId /\ i < nextId'
        /\ \A n \in {} : n.id \in gone /\ ~n.managed /\ n.id < nextId'
        /\ \A m, n \in {} : m = n
    BY <1>3
  <1> HIDE DEF gone
  <1>5. QED  BY <1>1, <1>2, <1>3, <1>4, EditStep
-----------------------------------------------------------------------------
\* Every step preserves the invariant.
LEMMA Inductive == IInv /\ [Next]_vars => IInv'
  <1> SUFFICES ASSUME IInv, [Next]_vars PROVE IInv'  OBVIOUS
  <1>1. CASE UNCHANGED vars
    <2>1. GitTyped'  BY <1>1 DEF vars, gitVars, IInv, GitTyped
    <2>2. QED  BY <1>1, <2>1, StillStep DEF vars
  <1>2. CASE Push
    <2>1. GitTyped'  BY <1>2 DEF Push, IInv, GitTyped
    <2>2. QED  BY <1>2, <2>1, StillStep DEF Push
  <1>3. ASSUME NEW s \in Syncs, Sync(s) PROVE IInv'  BY <1>3, SyncStep
  <1>4. ASSUME NEW u \in Editors, Edit(u) PROVE IInv'
    BY <1>4, CreateRowStep, LoadStep, DeleteRowStep, SaveStep, SaveClusterStep,
       PreferencesStep, BatchStep DEF Edit
  <1>5. QED  BY <1>1, <1>2, <1>3, <1>4 DEF Next

\* The invariant holds throughout.
LEMMA Invariant == Spec => []IInv
  BY InitInv, Inductive, PTL DEF Spec

\* The variables keep their types, and a transaction ends with its sync.
THEOREM TypeCorrect == Spec => []TypeOK
  <1>1. IInv => TypeOK
    <2> SUFFICES ASSUME IInv PROVE TypeOK  OBVIOUS
    <2>1. \A s \in Syncs : InTx(s) <=> job[s].at \in TxPlaces  BY DEF InTx, TxPlaces
    <2>2. QED
      BY <2>1 DEF IInv, GitTyped, RunTyped, Typed, TypeOK, Job, Places, Statuses
  <1>2. QED  BY <1>1, Invariant, PTL

\* A sync's run is a success, or partial, only by its commit.
LEMMA CommittedIsCommit ==
  ASSUME IInv, Next, NEW s \in Syncs, Committed(s)
  PROVE  Commit(s)
  <1>1. run[s] = "running" /\ run \in [Syncs -> Statuses] /\ job[s].at = "commit"
    BY DEF Committed, At, IInv, RunTyped, Running
  <1>2. run'[s] \in {"success", "partial"}  BY DEF Committed
  <1>3. ~Push  BY <1>1, <1>2 DEF Push
  <1>4. ASSUME NEW u \in Editors, Edit(u) PROVE FALSE
    <2>1. run' = run
      BY <1>4 DEF Edit, CreateRow, Load, DeleteRow, Save, SaveCluster, UpdateServerPreferences,
                  BatchUpdateAlertRules, NotEdited
    <2>2. QED  BY <1>1, <1>2, <2>1
  <1>5. ASSUME NEW t \in Syncs, Sync(t) PROVE Commit(s)
    <2>1. t = s
      <3>1. SUFFICES ASSUME t # s PROVE run'[s] = run[s]  BY <1>1, <1>2
      <3>2. CASE Begin(t) \/ NotConfigured(t) \/ Parse(t) \/ ParseFails(t) \/ Abort(t)
        BY <1>1, <3>1, <3>2 DEF Begin, NotConfigured, Parse, ParseFails, Abort, Fail, End
      <3>3. CASE Git(t)
        BY <1>1, <3>1, <3>3 DEF Git, Stat, Clear, Clone, Fetch, Reset, Unlink, WriteFile,
                                CheckedOut, GitFails, Fail, End
      <3>4. CASE Reconcile(t)
        BY <1>1, <3>1, <3>4 DEF Reconcile, Resolve, List, Swept, Commit, DeadlockDetected, Abort,
                                LookUp, Skip, Create, Update, Delete, Fail, End
      <3>5. QED  BY <1>5, <3>2, <3>3, <3>4 DEF Sync, Proceed
    <2>2. ~Abort(s) /\ ~DeadlockDetected(s)
      BY <1>1, <1>2 DEF DeadlockDetected, Abort, Fail, End
    <2>3. ~Git(s)
      BY <1>1 DEF Git, Stat, Clear, Clone, Fetch, Reset, Unlink, WriteFile, CheckedOut, GitFails, At
    <2>4. ~(Begin(s) \/ NotConfigured(s) \/ Parse(s) \/ ParseFails(s))
      BY <1>1 DEF Begin, NotConfigured, Parse, ParseFails, Reading, At
    <2>5. QED
      BY <1>1, <1>5, <2>1, <2>2, <2>3, <2>4
         DEF Sync, Proceed, Reconcile, Resolve, List, Swept, LookUp, Create, Update, Delete, At
  <1>6. QED  BY <1>3, <1>4, <1>5 DEF Next

\* A row made by hand is never changed nor deleted by a sync, whatever the files,
\* and however syncs and edits interleave.
THEOREM HandmadeSafe == Spec => HandmadeUntouched
  <1> DEFINE A == \A s \in Syncs :
       Committed(s) => {r \in rows : r.id \in edits.made} \subseteq rows'
  <1>1. IInv /\ [Next]_vars => [A]_vars
    <2> SUFFICES ASSUME IInv, Next, NEW s \in Syncs, Committed(s)
                 PROVE  {r \in rows : r.id \in edits.made} \subseteq rows'
      BY DEF A
    <2>1. rows' = View(s)  BY CommittedIsCommit DEF Commit
    <2>2. QED  BY <2>1 DEF View, IInv, Safe, HandmadeApart
  <1>2. QED  BY <1>1, Invariant, PTL DEF Spec, HandmadeUntouched

\* No commit of a sync makes an unmanaged row a managed one, although what it
\* updates it looked up earlier, and people and cluster saves have written since.
THEOREM NothingAdopted == Spec => SyncNeverAdopts
  <1> DEFINE A == \A s \in Syncs : Committed(s) =>
       \A r \in rows, q \in rows' : q.id = r.id /\ ~r.managed => ~q.managed
  <1>1. IInv /\ [Next]_vars => [A]_vars
    <2> SUFFICES ASSUME IInv, Next, NEW s \in Syncs, Committed(s),
                        NEW r \in rows, NEW q \in rows', q.id = r.id, ~r.managed
                 PROVE  ~q.managed
      BY DEF A
    <2>1. rows' = View(s)  BY CommittedIsCommit DEF Commit
    <2>2. QED  BY <2>1, ViewFacts
  <1>2. QED  BY <1>1, Invariant, PTL DEF Spec, SyncNeverAdopts
=============================================================================
