------------------------------ MODULE PageParts ------------------------------
(***************************************************************************)
(* What the pages of the web console are described with.  A page keeps its   *)
(* state in slots (useState values that hold something the server told it),  *)
(* in flags (loading, saving, the id of the row being tested, ...) and, for  *)
(* some pages, in a selection (the :id of the route, a range, a source).     *)
(* A load asks the server and replaces slots with the answer; a command      *)
(* changes something at the server and does what its handler does about the  *)
(* slots afterwards; a view says which of them it offers, to whom, and under *)
(* which flags it does not.  Console runs such a description.                *)
(***************************************************************************)
EXTENDS TLC, Naturals, Sequences, FiniteSets

None == "none"

Roles     == {"admin", "devops", "trainee", "intern"}
Operators == {"admin", "devops"}
Viewers   == {"admin", "devops", "trainee"}
Admins    == {"admin"}

\* Who is granted a permission (usePermission.ts).
\* Mutant: who may manage servers may delete them.
canDelete == [ p \in {"manage-servers", "use-terminal", "use-kubectl", "use-ai", "use-agent", "manage-alerts",
                      "manage-resources", "manage-gitsync", "manage-code-audit", "delete-server"} |-> Operators ]
    @@ [ p \in {"manage-users"} |-> Admins ]
    @@ [ p \in {"view-alerts", "view-audit"} |-> Viewers ]
    @@ [ p \in {"view-settings", "anyone"} |-> Roles ]
can == [ p \in {"manage-servers", "use-terminal", "use-kubectl", "use-ai", "use-agent", "manage-alerts",
                "manage-resources", "manage-gitsync", "manage-code-audit"} |-> Operators ]
    @@ [ p \in {"delete-server", "manage-users"} |-> Admins ]
    @@ [ p \in {"view-alerts", "view-audit"} |-> Viewers ]
    @@ [ p \in {"view-settings", "anyone"} |-> Roles ]

(* A load runs in some of these ways: when the page is mounted, when the     *)
(* selection changes, when a tab is opened for the first time ("open", only  *)
(* while nothing is shown) or whenever it is opened ("reopen"), by a timer,  *)
(* by a click, by a key whose listener dates from the mount, or called by    *)
(* another handler.  reloads: the loads of other slots that it runs when it  *)
(* was answered.  spins: the ways that raise its spinner.  guard: what drops an   *)
(* answer: the cleanup of the effect that started it ("alive"), or a later   *)
(* start ("latest").  forgets: the slots that a failure empties; clears:     *)
(* those that are emptied when another selection starts it.  to: whom it     *)
(* runs for by itself; route: whom the server answers.                       *)
Ways == {"mount", "select", "open", "reopen", "poll", "click", "key", "call"}
Load(r) == r @@ [ways |-> {"mount", "call"}, reloads |-> {}, spinner |-> None, spins |-> Ways, guard |-> None,
                 forgets |-> {}, clears |-> {}, to |-> "anyone", route |-> Roles]

(* A command changes what the slots in "changes" show of the server.  After  *)
(* it succeeded it runs the loads in "reloads", adds its effect to the slots *)
(* in "patches", puts the answer itself into those in "replaces", or leaves  *)
(* the page.  Its flag is raised while it is under way, and until the loads  *)
(* are answered too where the handler awaits them.  clears: the slots that   *)
(* are emptied when it starts.  once: the code means no second one to be     *)
(* started before the first is answered.                                     *)
Command(r) == r @@ [changes |-> {}, reloads |-> {}, patches |-> {}, replaces |-> {}, clears |-> {}, leaves |-> FALSE,
                    flag |-> None, awaits |-> FALSE, once |-> FALSE, route |-> Operators]

(* What a view offers: a handler, to those with a permission, unless one of  *)
(* the flags in "unless" is up (disabled, or hidden): always, or only where  *)
(* the data is shown (a row's button), or only where it is not (Retry).      *)
Button(h, permission, unless)    == [does |-> h, to |-> permission, unless |-> unless, where |-> "always"]
RowButton(h, permission, unless) == [Button(h, permission, unless) EXCEPT !.where = "shown"]
Retry(h, permission, unless)     == [Button(h, permission, unless) EXCEPT !.where = "missing"]

\* Names of pages, slots, flags and handlers; None is one.
Word == STRING \cup {None}
LoadRecord == [name : Word, sets : SUBSET Word, ways : SUBSET Ways, reloads : SUBSET Word, spinner : Word,
               spins : SUBSET Ways, guard : {None, "alive", "latest"}, forgets : SUBSET Word, clears : SUBSET Word,
               to : Word, route : SUBSET Roles]
CommandRecord == [name : Word, changes : SUBSET Word, reloads : SUBSET Word, patches : SUBSET Word,
                  replaces : SUBSET Word, clears : SUBSET Word, leaves : BOOLEAN, flag : Word,
                  awaits : BOOLEAN, once : BOOLEAN, route : SUBSET Roles]
ViewRecord == [does : Word, to : Word, unless : SUBSET Word, where : {"always", "shown", "missing"}]
PageRecord == [name : Word, sees : Word, keyed : SUBSET Word, starts : BOOLEAN, holds : SUBSET Word,
               loads : SUBSET LoadRecord, commands : SUBSET CommandRecord, views : SUBSET ViewRecord]

\* A page: to whom it is linked, the slots with a selection, whether that is a state of the page (and starts
\* anew with it), the flags that hold the selection, and its parts.
Page(r) == r @@ [sees |-> "anyone", keyed |-> {}, starts |-> FALSE, holds |-> {}, loads |-> {}, commands |-> {}, views |-> {}]
=============================================================================
