------------------------------- MODULE Console -------------------------------
(***************************************************************************)
(* One page of the web console in the browser, and the server it talks to.   *)
(* The page is one of Pages (see PageParts), looked at through one of its    *)
(* slots: the loads that set it and the commands that change what it shows.  *)
(*                                                                           *)
(* Requests are served and answered in any order.  What the server knows is  *)
(* the set of the effects of this user's commands; what a slot shows is the  *)
(* set of effects in the answer it came from.  A handler is a closure of the *)
(* render it was clicked in: the selection it uses, and the loads it calls   *)
(* afterwards use, is the one of that moment.                                *)
(***************************************************************************)
EXTENDS PageParts, SequencesExt

CONSTANTS Pages,        \* the pages
          Keys,         \* what may be selected on a page with a selection
          Nothing,      \* a slot that shows nothing
          MaxCalls,     \* bound on the requests under way
          MaxCommands   \* bound on the commands of one behaviour

ASSUME ConsoleAssumption ==
  /\ MaxCalls \in Nat \ {0} /\ MaxCommands \in Nat /\ Keys # {}
  /\ Pages \subseteq PageRecord
  /\ \A p \in Pages : IsFiniteSet(p.loads)

VARIABLES page, slot,   \* what is looked at: a page's name and one of its slots
          here,         \* the page is mounted
          sel,          \* its selection
          shown,        \* what the slot shows: of which selection, which effects
          up,           \* the flags that are up
          calls,        \* the requests under way, in the order of their start
          data,         \* the server: the effects on each selection
          answered,     \* the effects the page was told of
          issued,       \* the number of commands so far
          excused       \* what is shown was overtaken or is not brought up to date, or the last load failed

vars == <<page, slot, here, sel, shown, up, calls, data, answered, issued, excused>>

-----------------------------------------------------------------------------
(* The part of a page that has to do with a slot, as tables in which what is *)
(* mounted, started and offered is looked up.                                *)

Slots(p) == UNION ({l.sets : l \in p.loads} \cup {c.changes : c \in p.commands})

LoadsOn(p, s)    == {l \in p.loads : s \in l.sets}
CommandsOn(p, s) == {c \in p.commands : s \in c.changes}

\* The loads that set a slot, and those that run one of them when they were answered.
Leads(p, s)    == {l \in p.loads : s \notin l.sets /\ \E m \in LoadsOn(p, s) : m.name \in l.reloads}
LoadsFor(p, s) == LoadsOn(p, s) \cup Leads(p, s)

PAGES    == [n \in {p.name : p \in Pages} |-> CHOOSE p \in Pages : p.name = n]
LOADS    == [n \in DOMAIN PAGES |-> [s \in Slots(PAGES[n]) |-> [w \in Ways |-> {l \in LoadsFor(PAGES[n], s) : w \in l.ways}]]]
COMMANDS == [n \in DOMAIN PAGES |-> [s \in Slots(PAGES[n]) |-> CommandsOn(PAGES[n], s)]]
VIEWS    == [n \in DOMAIN PAGES |-> [h \in {x.name : x \in PAGES[n].loads \cup PAGES[n].commands} |->
               {b \in PAGES[n].views : b.does = h}]]

\* The selection that a page starts with.
First == CHOOSE k \in Keys : TRUE
Keyed == slot \in PAGES[page].keyed
Spins(l, w) == IF w \in l.spins THEN {l.spinner} \ {None} ELSE {}
Offered(h)  == \E b \in VIEWS[page][h] :
                 /\ b.unless \cap up = {}
                 /\ b.where = "shown"   => shown # Nothing
                 /\ b.where = "missing" => shown = Nothing

\* A request: what its handler does, what it is asked about, the flags that its answer lowers (also those of a
\* command that awaits it), whether it is tied to the effect that started it.
Does(h) == [h EXCEPT !.name = None]
Request(h, isLoad, k, n, w, also) ==
  [h |-> Does(h), loads |-> isLoad, of |-> k, no |-> n,
   lowers |-> ({IF isLoad THEN h.spinner ELSE h.flag} \cup also) \ {None},
   tied |-> isLoad /\ h.guard = "alive" /\ w \in {"mount", "select"},
   answer |-> "sent", got |-> {}, dropped |-> FALSE, late |-> FALSE, gone |-> FALSE]
Told(c) == slot \in (IF c.loads THEN c.h.sets ELSE c.h.replaces)    \* its answer is what is shown

\* Loads start: those of the same handler that only the latest may answer are dropped.
Started(q, loads, k, w, also) ==
  [i \in 1..Len(q) |->
     IF q[i].loads /\ q[i].h.guard = "latest" /\ q[i].h \in {Does(l) : l \in loads} THEN [q[i] EXCEPT !.dropped = TRUE] ELSE q[i]]
  \o SetToSeq({Request(l, TRUE, k, 0, w, also) : l \in loads})
Spinning(loads, w) == UNION {Spins(l, w) : l \in loads}

Room == Len(calls) < MaxCalls

-----------------------------------------------------------------------------
(* What the user does, and timers *)

Mount(k) ==
  /\ ~here
  /\ k = IF ~Keyed THEN sel ELSE IF PAGES[page].starts THEN First ELSE k
  /\ here' = TRUE /\ sel' = k /\ shown' = Nothing /\ excused' = FALSE
  /\ LET loads == LOADS[page][slot]["mount"] IN
       /\ Len(calls) + Cardinality(loads) <= MaxCalls
       /\ calls' = Started(calls, loads, k, "mount", {})
       /\ up' = Spinning(loads, "mount")
  /\ UNCHANGED <<page, slot, data, answered, issued>>

\* The page is unmounted: answers to loads are of no use any more, commands still have their effect (each its
\* own, and in any order).
Unmounts(q) ==
  /\ here' = FALSE /\ shown' = Nothing /\ up' = {} /\ excused' = FALSE
  /\ calls' = SetToSeq({[q[i] EXCEPT !.gone = TRUE] : i \in {j \in 1..Len(q) : ~q[j].loads}})
Leave ==
  /\ here
  /\ Unmounts(calls)
  /\ UNCHANGED <<page, slot, sel, data, answered, issued>>

\* Mutant: the effect asks about the selection of the render before.
SelectBefore(k) ==
  /\ here /\ Keyed /\ k # sel /\ Room /\ PAGES[page].holds \cap up = {}
  /\ sel' = k
  /\ LET loads == LOADS[page][slot]["select"]
     IN /\ calls' = Started(calls, loads, sel, "select", {})
        /\ up' = up \cup Spinning(loads, "select")
        /\ shown' = IF \E l \in loads : slot \in l.clears THEN Nothing ELSE shown
  /\ UNCHANGED <<page, slot, here, data, answered, issued, excused>>
\* Another server, range or mode: the page stays mounted, the cleanup of an effect drops what it started.
Select(k) ==
  /\ here /\ Keyed /\ k # sel /\ Room /\ PAGES[page].holds \cap up = {}
  /\ sel' = k
  /\ LET loads == LOADS[page][slot]["select"]
         kept  == [i \in 1..Len(calls) |->
                     IF calls[i].tied THEN [calls[i] EXCEPT !.dropped = TRUE] ELSE calls[i]]
     IN /\ calls' = Started(kept, loads, k, "select", {})
        /\ up' = up \cup Spinning(loads, "select")
        /\ shown' = IF \E l \in loads : slot \in l.clears THEN Nothing ELSE shown
  /\ UNCHANGED <<page, slot, here, data, answered, issued, excused>>

\* A load is started by opening a tab, by a timer, by a click or by a key.
StartLoad(w, k) ==
  /\ here /\ Room
  /\ \E l \in LOADS[page][slot][w] :
       /\ w = "open"  => shown = Nothing /\ l.spinner \notin up
       /\ w = "click" => Offered(l.name)
       /\ calls' = Started(calls, {l}, k, w, {})
       /\ up' = up \cup Spins(l, w)
  /\ UNCHANGED <<page, slot, here, sel, shown, data, answered, issued, excused>>
OpenTab == StartLoad("open", sel)
Reopen  == StartLoad("reopen", sel)
Poll    == StartLoad("poll", sel)
Click   == StartLoad("click", sel)
PressKey == StartLoad("key", First)  \* the listener is the first render's

Do ==
  /\ here /\ Room /\ issued < MaxCommands
  /\ issued' = issued + 1
  /\ \E c \in COMMANDS[page][slot] :
       /\ Offered(c.name)
       /\ calls' = Append(calls, Request(c, FALSE, sel, issued + 1, "click", {}))
       /\ up' = up \cup ({c.flag} \ {None})
       /\ shown' = IF slot \in c.clears THEN Nothing ELSE shown
  /\ UNCHANGED <<page, slot, here, sel, data, answered, excused>>

-----------------------------------------------------------------------------
(* The server *)

\* A request is refused or lost, or it is served; a command may have its effect and its answer be lost.
Serve(i) ==
  /\ i \in 1..Len(calls) /\ calls[i].answer = "sent"
  /\ \E r \in {"ok", "failed"}, hit \in BOOLEAN :
       /\ r = "ok" => hit
       /\ calls[i].loads => hit = (r = "ok")
       /\ data' = IF hit /\ ~calls[i].loads THEN [data EXCEPT ![calls[i].of] = @ \cup {calls[i].no}] ELSE data
       /\ calls' = [calls EXCEPT ![i].answer = r, ![i].got = IF r = "ok" /\ Told(calls[i]) THEN data'[calls[i].of] ELSE {}]
  /\ UNCHANGED <<page, slot, here, sel, shown, up, answered, issued, excused>>

-----------------------------------------------------------------------------
(* The answer arrives *)

\* Once something newer was answered, what was asked before it is late.
Overtaken(q, n) == [j \in 1..Len(q) |-> IF j < n /\ Told(q[j]) THEN [q[j] EXCEPT !.late = TRUE] ELSE q[j]]
Shows(k, d)     == [of |-> k, data |-> d]

\* Dropped by its guard: not even the spinner is lowered.
AnswerDropped(i, c) ==
  /\ c.loads /\ c.dropped
  /\ calls' = RemoveAt(calls, i)
  /\ UNCHANGED <<page, slot, here, sel, shown, up, data, answered, issued, excused>>

\* Mutant: the spinner is lowered at the end of the try block, which a failure does not reach.
AnswerLoadInTry(i, c) ==
  /\ c.loads /\ ~c.dropped /\ Told(c)
  /\ up' = IF c.answer = "ok" THEN up \ c.lowers ELSE up
  /\ calls' = RemoveAt(Overtaken(calls, i), i)
  /\ IF c.answer = "ok"
     THEN shown' = Shows(c.of, c.got) /\ excused' = c.late
     ELSE shown' = (IF slot \in c.h.forgets THEN Nothing ELSE shown) /\ excused' = TRUE
  /\ UNCHANGED <<page, slot, here, sel, data, answered, issued>>
AnswerLoad(i, c) ==
  /\ c.loads /\ ~c.dropped /\ Told(c)
  /\ up' = up \ c.lowers
  /\ calls' = RemoveAt(Overtaken(calls, i), i)
  /\ IF c.answer = "ok"
     THEN shown' = Shows(c.of, c.got) /\ excused' = c.late
     ELSE shown' = (IF slot \in c.h.forgets THEN Nothing ELSE shown) /\ excused' = TRUE
  /\ UNCHANGED <<page, slot, here, sel, data, answered, issued>>

\* The loads that a handler runs when it was answered.
\* Mutant: none, and what was there before stays on the screen.
NoReloads(c) == {}
Reloads(c) == {l \in LOADS[page][slot]["call"] : l.name \in c.h.reloads}

\* A load of other slots was answered: it runs those of this one, about what it was asked about itself.
AnswerLead(i, c) ==
  /\ c.loads /\ ~c.dropped /\ ~Told(c)
  /\ IF c.answer = "ok"
     THEN /\ calls' = Started(RemoveAt(calls, i), Reloads(c), c.of, "call", {})
          /\ up' = (up \cup Spinning(Reloads(c), "call")) \ c.lowers
          /\ UNCHANGED excused
     ELSE calls' = RemoveAt(calls, i) /\ up' = up \ c.lowers /\ excused' = TRUE
  /\ UNCHANGED <<page, slot, here, sel, shown, data, answered, issued>>

\* Mutant: so is the flag.
CommandEndsInTry(i, c) ==
  /\ ~c.loads /\ (c.gone \/ c.answer = "failed")
  /\ calls' = RemoveAt(calls, i)
  /\ UNCHANGED <<page, slot, here, sel, shown, up, data, answered, issued, excused>>
\* The page is gone, or the command failed: nothing of it is shown.
CommandEnds(i, c) ==
  /\ ~c.loads /\ (c.gone \/ c.answer = "failed")
  /\ calls' = RemoveAt(calls, i)
  /\ up' = IF c.gone THEN up ELSE up \ c.lowers
  /\ UNCHANGED <<page, slot, here, sel, shown, data, answered, issued, excused>>

\* Deleting a folder moves the rows of another slot out of it, and only the folders are loaded anew.
Elsewhere(c) ==
  c.h.reloads # {} /\ slot \notin UNION {l.sets : l \in {x \in PAGES[page].loads : x.name \in c.h.reloads}}

\* The handler goes on where it awaited the answer; its finally lowers the flag.
CommandSucceeds(i, c) ==
  /\ ~c.loads /\ ~c.gone /\ c.answer = "ok"
  /\ answered' = [answered EXCEPT ![c.of] = @ \cup {c.no}]
  /\ IF c.h.leaves THEN Unmounts(RemoveAt(calls, i)) ELSE
       LET loads   == Reloads(c)
           patched == slot \in c.h.patches
           said    == slot \in c.h.replaces
           rest    == RemoveAt(IF patched \/ said \/ Elsewhere(c) THEN Overtaken(calls, Len(calls) + 1) ELSE calls, i)
       IN /\ shown' = CASE said    -> Shows(c.of, c.got)
                        [] patched /\ shown # Nothing -> [shown EXCEPT !.data = @ \cup {c.no}]
                        [] OTHER   -> shown
          /\ excused' = (excused \/ (said /\ (c.late \/ c.of # sel)) \/ Elsewhere(c))
          /\ calls' = Started(rest, loads, c.of, "call", IF c.h.awaits THEN c.lowers ELSE {})
          /\ up' = (up \cup Spinning(loads, "call")) \ (IF c.h.awaits THEN {} ELSE c.lowers)
          /\ UNCHANGED here
  /\ UNCHANGED <<page, slot, sel, data, issued>>

Answer(i) ==
  /\ i \in 1..Len(calls) /\ calls[i].answer # "sent"
  /\ \/ AnswerDropped(i, calls[i]) \/ AnswerLoad(i, calls[i]) \/ AnswerLead(i, calls[i])
     \/ CommandEnds(i, calls[i]) \/ CommandSucceeds(i, calls[i])

-----------------------------------------------------------------------------
Init ==
  /\ page \in DOMAIN PAGES /\ slot \in Slots(PAGES[page])
  /\ here = FALSE /\ sel = First /\ shown = Nothing /\ up = {}
  /\ calls = <<>> /\ data = [k \in Keys |-> {}] /\ answered = [k \in Keys |-> {}]
  /\ issued = 0 /\ excused = FALSE

Next ==
  \/ Leave \/ OpenTab \/ Reopen \/ Poll \/ Click \/ PressKey \/ Do
  \/ \E k \in Keys : Mount(k) \/ Select(k)
  \/ \E i \in 1..MaxCalls : Serve(i) \/ Answer(i)

\* Every request is served or fails, and its answer is delivered.
Spec == Init /\ [][Next]_vars /\ WF_vars(Serve(1)) /\ WF_vars(Answer(1))

-----------------------------------------------------------------------------
(* What the pages owe their user *)

CallRecord == [h : LoadRecord \cup CommandRecord, loads : BOOLEAN, of : Keys, no : Nat, lowers : SUBSET Word,
               tied : BOOLEAN, answer : {"sent", "ok", "failed"}, got : SUBSET Nat,
               dropped : BOOLEAN, late : BOOLEAN, gone : BOOLEAN]
TypeOK ==
  /\ page \in DOMAIN PAGES /\ slot \in Slots(PAGES[page])
  /\ here \in BOOLEAN /\ sel \in Keys
  /\ shown \in [of : Keys, data : SUBSET Nat] \cup {Nothing}
  /\ up \subseteq Word
  /\ calls \in Seq(CallRecord)
  /\ data \in [Keys -> SUBSET Nat] /\ answered \in [Keys -> SUBSET Nat]
  /\ issued \in Nat /\ excused \in BOOLEAN

Settled == here /\ \A i \in 1..Len(calls) : calls[i].gone
At(p, s) == page = p /\ slot = s

(* A page on which everything was answered shows the user's own changes: what a command reported as done   *)
(* is in the data on the screen (handlers end with a reload or a patch of the state), unless answers        *)
(* overtook each other or a load failed.  A patch must not be undone by the reload of another command.      *)
SettledShowsOwn ==
  Settled /\ shown # Nothing /\ shown.of = sel /\ ~excused => answered[sel] \subseteq shown.data

\* Slots that stay when another server is selected: their effects do not run for a new :id.  And the
\* dashboard's history after Ctrl+R, whose listener has the range of the first render.  And a table while a row
\* of another one is saved: the handler reloads the table it was started in.
Stays == \/ page = "ServerDetail" /\ slot \in {"logSources", "osAccounts", "k8sAccounts", "netInfo", "accessList"}
         \/ At("StoragePanel", "analysis")
         \/ At("Dashboard", "history")
         \/ At("DataGrid", "rows") /\ issued > 0

(* A settled page shows what is selected: the effects on [id], [fleetRange] and the panels' fetch reload    *)
(* after a change, and what was asked before it, guarded or not, does not get the last word unless it       *)
(* overtook.                                                                                               *)
SettledShowsSelection ==
  Settled /\ shown # Nothing /\ ~excused /\ ~Stays => shown.of = sel

(* What Dashboard.tsx says of its history: fetched "for the current time range ... whenever the range       *)
(* changes".  The code does not keep it: see Stays.                                                         *)
HistoryIsOfTheRange ==
  Settled /\ At("Dashboard", "history") /\ shown # Nothing /\ ~excused => shown.of = sel

(* The handlers whose button is disabled while they run are under way at most once: a double click saves,   *)
(* syncs, reboots or scans once.                                                                           *)
OneSubmission ==
  \A i, j \in 1..Len(calls) :
     (i # j /\ ~calls[i].loads /\ ~calls[j].loads /\ ~calls[i].gone /\ ~calls[j].gone /\ calls[i].h.once)
       => calls[i].h # calls[j].h

(* A spinner or a disabled button always has a request under way whose answer ends it: every handler's      *)
(* finally lowers its flag, and the requests whose answer a guard drops have a successor.                   *)
FlagHasCall ==
  \A f \in up : \E i \in 1..Len(calls) : ~calls[i].dropped /\ ~calls[i].gone /\ f \in calls[i].lowers

\* A flag that is up says what is under way, and what is under way at most once says so.
FlagsAreTrue == OneSubmission /\ FlagHasCall

(* And it ends: no flag stays up for good, unless the user keeps dropping the answers that would lower it.  *)
Flags(p, s) == SetToSeq(({l.spinner : l \in LoadsFor(p, s)} \cup {c.flag : c \in CommandsOn(p, s)}) \ {None})
FLAGS   == [n \in DOMAIN PAGES |-> [s \in Slots(PAGES[n]) |-> Flags(PAGES[n], s)]]
IsUp(n) == n <= Len(FLAGS[page][slot]) /\ FLAGS[page][slot][n] \in up
Drops    == \E i \in 1..Len(calls) : calls[i].dropped
FlagsEnd == \A n \in 1..4 : IsUp(n) ~> (~IsUp(n) \/ Drops)

(* Whoever is offered a handler, or has it run for him, is let in by the route it calls: usePermission and  *)
(* RequireRole agree, but for these.                                                                       *)
RefusedThough ==
  { <<"Resources", "deleteResource">>, <<"IacSync", "saveSettings">>, <<"AlertRules", "parseXml">>,
    <<"AuditCode", "saveRepo">>, <<"AuditCode", "deleteRepo">>, <<"AuditCode", "saveToolPath">>,
    <<"AuditCode", "scan">>, <<"AuditDast", "saveDockerPath">>, <<"AuditDast", "runDastScan">>,
    <<"Dashboard", "loadData">>, <<"ResourceDetail", "loadResource">>, <<"ResourceDetail", "loadAccess">>,
    <<"ResourceDetail", "loadAudit">>, <<"ResourceDetail", "probe">>, <<"SchemaTree", "loadSchema">>,
    <<"DataGrid", "loadRows">>, <<"SqlConsole", "runQuery">>, <<"KafkaBrowser", "loadLists">>,
    <<"KafkaBrowser", "selectTopic">>, <<"KafkaBrowser", "loadMessages">>, <<"Kubernetes", "handleDelete">>,
    <<"ServerDetail", "handleReboot">>, <<"ServerDetail", "handleSavePreferences">>,
    <<"ServerDetail", "handlePurgeMetrics">>, <<"ServerDetail", "handleDeleteServer">>,
    <<"ServerDetail", "runDiagnostics">>, <<"ServerDetail", "clearLogs">>, <<"ServerDetail", "initTerminal">> }
OfferedIsPermitted ==
  \A p \in {PAGES[page]} :
    /\ \A h \in p.loads \cup p.commands, b \in p.views :
         (b.does = h.name /\ <<p.name, h.name>> \notin RefusedThough) => can[p.sees] \cap can[b.to] \subseteq h.route
    /\ \A l \in {x \in p.loads : <<p.name, x.name>> \notin RefusedThough} :
         can[p.sees] \cap can[l.to] \subseteq l.route

-----------------------------------------------------------------------------
(* What a slot s of a page p has to be like for this.  The theorems of ConsoleProofs rest on it. *)

\* The loads that a command runs when it succeeded.
Called(p, s, c) == {l \in LoadsFor(p, s) : "call" \in l.ways /\ l.name \in c.reloads}

\* The flags of the commands that are to be submitted once.
OnceFlags(p, s) == {c.flag : c \in {x \in CommandsOn(p, s) : x.once}}

\* A flag that is up is lowered: who awaits his reloads has some, what a cleanup drops
\* starts anew, and no command runs a load of which only the latest counts.
FlagsAreLowered(p, s) ==
  /\ \A c \in CommandsOn(p, s) :
       /\ c.awaits /\ ~c.leaves => Called(p, s, c) # {}
       /\ \A l \in Called(p, s, c) : l.guard # "latest"
  /\ \A l \in LoadsFor(p, s) :
       l.guard = "alive" /\ l.ways \cap {"mount", "select"} # {} /\ s \in p.keyed => "select" \in l.ways

\* The flag of a command that is to be submitted once is nobody else's, or of
\* commands that it disables as well, and one answer lowers it.
OnceIsGuarded(p, s) ==
  \A f \in OnceFlags(p, s) :
    /\ f # None
    /\ \A l \in LoadsFor(p, s) : l.spinner # f
    /\ \A c \in CommandsOn(p, s) : c.flag = f =>
         /\ \A b \in p.views : b.does = c.name => f \in b.unless
         /\ c.awaits => \A l, m \in Called(p, s, c) : l = m

\* A command ends with what it brought about on the screen, or on its way there, or
\* the page is not brought up to date and counts as such.
CommandsAreShown(p, s) ==
  \A c \in CommandsOn(p, s) :
    \/ c.leaves
    \/ s \in c.patches \cup c.replaces
    \/ \E l \in Called(p, s, c) : s \in l.sets
    \/ c.reloads # {} /\ \A l \in LoadsOn(p, s) : l.name \notin c.reloads

\* The slots that stay when another selection is made (Stays).
Staying == {<<"ServerDetail", x>> : x \in {"logSources", "osAccounts", "k8sAccounts", "netInfo", "accessList"}}
           \cup {<<"StoragePanel", "analysis">>, <<"Dashboard", "history">>}

\* The others follow the selection, and only it: what they ask for then is not asked for later.
SelectionIsLoaded(p, s) ==
  s \in p.keyed /\ <<p.name, s>> \notin Staying =>
    /\ Leads(p, s) = {}
    /\ \E l \in LoadsOn(p, s) : "select" \in l.ways
    /\ \A l \in LoadsOn(p, s) : "key" \notin l.ways
    /\ <<p.name, s>> # <<"DataGrid", "rows">> =>
         \A c \in CommandsOn(p, s) : c.leaves \/ Called(p, s, c) = {}

GuardedPages   == \A p \in Pages : \A s \in Slots(p) : FlagsAreLowered(p, s) /\ OnceIsGuarded(p, s)
ReportingPages == \A p \in Pages : \A s \in Slots(p) : FlagsAreLowered(p, s) /\ CommandsAreShown(p, s)
FollowingPages == \A p \in Pages : \A s \in Slots(p) : SelectionIsLoaded(p, s)
=============================================================================
