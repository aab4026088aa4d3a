------------------------------- MODULE DevTools -------------------------------
(***************************************************************************)
(* The developer tools page (pages/DevTools.tsx): one tool is mounted at a   *)
(* time, with an input and what it shows of it.  What each tool computes is  *)
(* a parameter here (DevToolResults gives it); what the tools differ in      *)
(* otherwise is when they compute, what an edit takes away, and whether a    *)
(* click is refused while an earlier one is being answered.                  *)
(* A tool switch unmounts the tool: its state is gone, and the computations  *)
(* still under way set nothing.                                             *)
(***************************************************************************)
EXTENDS Outcomes, Integers, FiniteSets

CONSTANTS Inputs(_),    \* what may be typed into a tool
          Default(_),   \* what is in it when it is mounted
          Computes(_, _), \* what a tool computes from an input
          Empty,        \* the empty input
          Nothing,      \* no result, no error
          MaxTasks      \* bound on the computations started by one mounted tool

ASSUME DevToolsAssumption == MaxTasks \in Nat \ {0}

VARIABLES tab,          \* the mounted tool
          input, result, error, busy,   \* its useState values
          copied, timers,               \* the "copied" mark and the timers that end it
          tasks,        \* computations under way: what they were started with, and their number
          started,      \* computations started since the mount
          ended,        \* the latest of those that have ended
          secure        \* the page is served over HTTPS: crypto.subtle is there

vars == <<tab, input, result, error, busy, copied, timers, tasks, started, ended, secure>>

-----------------------------------------------------------------------------
(* The tools *)

\* The result follows the input (a useMemo or a value of the render).
Derived == {"epoch", "cron", "jwt", "k8s-units", "cidr", "subnet-split", "cidr-match", "ipv6", "docker-image"}
\* A click computes it at once.
Button  == {"json", "base64", "yaml-json", "k8s-clean", "ingress2gateway", "uuid", "diff"}
\* A click starts a computation that ends later, with the input it was started with.
Await   == {"hash", "cert-decode", "cert-chain", "ssh-key", "jwt-encode", "jsonnet", "dns"}
TOOLS   == Derived \cup Button \cup Await

\* Tools that refuse a click while busy; the jsonnet button does too, but not
\* its key; the others are never busy.
Guarded == {"hash", "cert-decode", "cert-chain", "dns"}
Busies  == Guarded \cup {"jsonnet"}

\* What an edit, and what a start, take away.
EditDropsError  == (Button \ {"uuid", "diff"}) \cup {"cert-decode", "jwt-encode", "jsonnet", "dns"}
StartDropsError == {"jsonnet", "dns"}

\* The tools that cannot do without crypto.subtle, those whose result can be
\* copied as a whole, and those with a button that empties the panel.
NeedCrypto == {"hash", "jwt-encode", "cert-decode", "cert-chain", "ssh-key"}
Copyable   == {"json", "base64", "yaml-json", "jwt-encode", "k8s-clean", "ingress2gateway", "jsonnet",
               "subnet-split", "uuid"}
Clearable  == (Button \cup Await) \ {"jwt-encode", "dns", "uuid"}

\* What each tool makes of each input, as a table; nothing of the empty one.
Results == [t \in TOOLS |-> [x \in Inputs(t) |-> IF x = Empty THEN Failed ELSE Computes(t, x)]]
Outcome(t, in) == IF t \in NeedCrypto /\ ~secure THEN Failed ELSE Results[t][in]
Shown(in, no, v) == [of |-> in, no |-> no, value |-> v]

-----------------------------------------------------------------------------
(* The page *)

\* A tool's component is mounted anew: a derived result is there at once.
Mount(t) ==
  /\ tab' = t
  /\ input' = Default(t)
  /\ LET o == Outcome(t, Default(t)) IN
       result' = IF t \in Derived /\ o.ok THEN Shown(Default(t), 0, o.value) ELSE Nothing
  /\ error' = Nothing
  /\ busy' = FALSE /\ copied' = FALSE /\ timers' = 0
  /\ tasks' = {} /\ started' = 0 /\ ended' = 0
  /\ UNCHANGED secure

Init ==
  /\ tab = "json" /\ input = Default("json")
  /\ result = Nothing /\ error = Nothing
  /\ busy = FALSE /\ copied = FALSE /\ timers = 0
  /\ tasks = {} /\ started = 0 /\ ended = 0
  /\ secure \in BOOLEAN

SwitchTool(t) == t # tab /\ Mount(t)

\* A computation that ended at once: its result or its error is shown.
ShowAtOnce(x, o) ==
  IF o.ok THEN result' = Shown(x, 0, o.value) /\ error' = Nothing
          ELSE result' = Nothing /\ error' = IF x = Empty THEN Nothing ELSE [of |-> x]

\* Typing: a derived result follows, or an error takes its place.
Edit(x) ==
  /\ x # input
  /\ input' = x
  /\ IF tab \in Derived THEN ShowAtOnce(x, Outcome(tab, x))
     ELSE /\ result' = IF tab = "hash" THEN Nothing ELSE result
          /\ error' = IF tab \in EditDropsError THEN Nothing ELSE error
  /\ UNCHANGED <<tab, busy, copied, timers, tasks, started, ended, secure>>

\* A click that computes at once: what was shown is replaced, also by an error.
Click ==
  /\ tab \in Button /\ input # Empty
  /\ ShowAtOnce(input, Outcome(tab, input))
  /\ UNCHANGED <<tab, input, busy, copied, timers, tasks, started, ended, secure>>

\* Mutant of Start: a click is not refused while an earlier one is being answered.
StartAgain ==
  /\ tab \in Await /\ input # Empty
  /\ started < MaxTasks
  /\ started' = started + 1
  /\ busy' = (tab \in Busies)
  /\ error' = error
  /\ tasks' = tasks \cup {[in |-> input, no |-> started + 1]}
  /\ UNCHANGED <<tab, input, result, copied, timers, ended, secure>>

\* A click that starts a computation.  The hash tool awaits crypto.subtle
\* outside of any try: where it is missing the click ends with the tool busy.
Start ==
  /\ tab \in Await /\ input # Empty
  /\ tab \in Guarded => ~busy
  /\ started < MaxTasks
  /\ started' = started + 1
  /\ busy' = (tab \in Busies)
  /\ error' = IF tab \in StartDropsError THEN Nothing ELSE error
  /\ tasks' = IF tab = "hash" /\ ~secure THEN tasks ELSE tasks \cup {[in |-> input, no |-> started + 1]}
  /\ UNCHANGED <<tab, input, result, copied, timers, ended, secure>>

\* What an answer sets: an SSH key inspection that throws sets nothing, and a
\* chain that cannot be read is a result of its own kind.
ShowAnswer(k, o) ==
  IF o.ok THEN /\ result' = Shown(k.in, k.no, o.value)
               /\ error' = IF tab \in StartDropsError THEN error ELSE Nothing
  ELSE IF tab = "ssh-key" THEN UNCHANGED <<result, error>>
  ELSE IF tab = "cert-chain" THEN result' = Shown(k.in, k.no, Nothing) /\ UNCHANGED error
  ELSE result' = Nothing /\ error' = [of |-> k.in]

\* Mutant of Respond: a computation that fails leaves the tool busy.
RespondWithoutFinally(k) ==
  /\ tasks' = tasks \ {k}
  /\ busy' = (busy /\ ~Outcome(tab, k.in).ok)
  /\ ended' = IF k.no > ended THEN k.no ELSE ended
  /\ ShowAnswer(k, Outcome(tab, k.in))
  /\ UNCHANGED <<tab, input, copied, timers, started, secure>>

\* It ends, in any order.
Respond(k) ==
  /\ tasks' = tasks \ {k}
  /\ busy' = FALSE
  /\ ended' = IF k.no > ended THEN k.no ELSE ended
  /\ ShowAnswer(k, Outcome(tab, k.in))
  /\ UNCHANGED <<tab, input, copied, timers, started, secure>>

\* Mutant of ClearAll: the spinner goes too.
ClearBusy ==
  /\ tab \in Clearable
  /\ input' = Empty /\ result' = Nothing /\ error' = Nothing /\ busy' = FALSE
  /\ UNCHANGED <<tab, copied, timers, tasks, started, ended, secure>>

\* The clear button empties the panel; a computation under way goes on.
ClearAll ==
  /\ tab \in Clearable
  /\ input' = Empty /\ result' = Nothing /\ error' = Nothing
  /\ UNCHANGED <<tab, busy, copied, timers, tasks, started, ended, secure>>

\* Every copy sets a timer of its own, and each timer ends the mark.
Copy ==
  /\ tab \in Copyable /\ result # Nothing
  /\ timers < 2
  /\ copied' = TRUE /\ timers' = timers + 1
  /\ UNCHANGED <<tab, input, result, error, busy, tasks, started, ended, secure>>

CopyTimer ==
  /\ timers > 0
  /\ copied' = FALSE /\ timers' = timers - 1
  /\ UNCHANGED <<tab, input, result, error, busy, tasks, started, ended, secure>>

Next ==
  \/ \E t \in TOOLS : SwitchTool(t)
  \/ \E x \in Inputs(tab) : Edit(x)
  \/ Click \/ Start \/ ClearAll \/ Copy \/ CopyTimer
  \/ \E k \in tasks : Respond(k)

\* Promises settle and timers fire, as long as the tool stays mounted.
Fairness == WF_vars(\E k \in tasks : Respond(k)) /\ WF_vars(CopyTimer)

Spec == Init /\ [][Next]_vars /\ Fairness
-----------------------------------------------------------------------------
(* Properties *)

\* What a tool that refuses overlapping clicks shows was computed by the latest
\* click that has been answered, never by an earlier one: a slow answer does
\* not replace a newer one (the guards of the await tools; the other three let
\* computations overlap, and show whichever ended last).
ShownIsLatest == tab \in Guarded /\ result # Nothing => result.no = ended

\* A tool that is busy has a computation that will end it, unless the hash tool
\* lost its exception; and a guarded tool is busy as long as one is under way
\* (setBusy and setLoading around each await).
BusyMeansUnderWay ==
  /\ busy /\ tab # "jsonnet" => tasks # {} \/ (tab = "hash" /\ ~secure)
  /\ tab \in Guarded /\ tasks # {} => busy /\ \A j, k \in tasks : j = k

\* The spinner ends: every computation is answered or the tool is left (all the
\* tools but the hash tool on an insecure origin).
BusyEnds == (busy /\ (secure \/ tab # "hash")) ~> ~busy
=============================================================================
