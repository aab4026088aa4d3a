---------------------------- MODULE DevToolsProofs ----------------------------
(***************************************************************************)
(* Whatever the tools compute and however many computations overlap, a tool *)
(* that refuses clicks while busy shows the answer of the latest click that  *)
(* was answered, and is busy exactly while one is under way.                 *)
(***************************************************************************)
EXTENDS DevTools, TLAPS

\* A guarded tool has one computation at most, the last one started.
OneUnderWay ==
  tab \in Guarded =>
    /\ \A j, k \in tasks : j = k
    /\ \A k \in tasks : k.no = started
    /\ tasks # {} => busy

\* It is busy for a reason, and only the tools with a spinner are.
BusyForAReason ==
  /\ busy => tab \in Busies
  /\ tab \in Guarded /\ busy => tasks # {} \/ (tab = "hash" /\ ~secure)

Counted == started \in Nat /\ ended \in Nat /\ \A k \in tasks : k.no \in Nat /\ k.no <= started

\* Together they are inductive: a guarded tool starts a computation when none
\* is under way, so the one that ends is the latest.
IInv ==
  /\ ended <= started
  /\ Counted
  /\ OneUnderWay
  /\ BusyForAReason
  /\ ShownIsLatest

Unmoved == <<tab, result, busy, tasks, started, ended, secure>>

-----------------------------------------------------------------------------
\* The groups of tools do not meet (TOOLS in DevTools.tsx).
LEMMA GroupsApart ==
  /\ Guarded \cap Derived = {}
  /\ Guarded \cap Button = {}
  /\ Guarded \subseteq Busies
  /\ "hash" \in Guarded /\ "jsonnet" \notin Guarded /\ "ssh-key" \notin Guarded
  /\ Busies = Guarded \cup {"jsonnet"}
BY DEF Guarded, Derived, Button, Busies

\* What is shown knows the click it answers.
LEMMA ShownNo == ASSUME NEW x, NEW n, NEW v PROVE Shown(x, n, v).no = n
BY DEF Shown

LEMMA InitIInv == ASSUME Init PROVE IInv
<1>1. busy = FALSE /\ tasks = {} /\ result = Nothing /\ started = 0 /\ ended = 0  BY DEF Init
<1>2. Counted /\ ended <= started  BY <1>1 DEF Counted
<1>3. OneUnderWay  BY <1>1 DEF OneUnderWay
<1>4. BusyForAReason  BY <1>1 DEF BusyForAReason
<1>5. ShownIsLatest  BY <1>1 DEF ShownIsLatest
<1> QED BY <1>2, <1>3, <1>4, <1>5 DEF IInv

LEMMA UnmovedIInv == ASSUME IInv, UNCHANGED Unmoved PROVE IInv'
BY DEF Unmoved, IInv, Counted, OneUnderWay, BusyForAReason, ShownIsLatest

LEMMA MountIInv == ASSUME NEW t, Mount(t) PROVE IInv'
<1>1. tasks' = {} /\ busy' = FALSE /\ started' = 0 /\ ended' = 0 /\ tab' = t  BY DEF Mount
<1>2. ShownIsLatest'
  <2>1. result' = Nothing \/ result'.no = 0
    <3>1. result' = IF t \in Derived /\ Outcome(t, Default(t)).ok
                      THEN Shown(Default(t), 0, Outcome(t, Default(t)).value) ELSE Nothing
      BY DEF Mount
    <3> QED BY <3>1, ShownNo
  <2> QED BY <1>1, <2>1 DEF ShownIsLatest
<1>3. Counted' /\ (ended <= started)'  BY <1>1 DEF Counted
<1>4. OneUnderWay'  BY <1>1 DEF OneUnderWay
<1>5. BusyForAReason'  BY <1>1 DEF BusyForAReason
<1> QED BY <1>2, <1>3, <1>4, <1>5 DEF IInv

LEMMA EditIInv == ASSUME IInv, NEW x, Edit(x) PROVE IInv'
<1>1. UNCHANGED <<tab, busy, tasks, started, ended, secure>>  BY DEF Edit
<1>2. tab \in Guarded => result' \in {Nothing, result}  BY GroupsApart DEF Edit
<1> QED BY <1>1, <1>2 DEF IInv, Counted, OneUnderWay, BusyForAReason, ShownIsLatest

LEMMA ClickIInv == ASSUME IInv, Click PROVE IInv'
<1>1. UNCHANGED <<tab, busy, tasks, started, ended, secure>> /\ tab \notin Guarded
  BY GroupsApart DEF Click
<1> QED BY <1>1 DEF IInv, Counted, OneUnderWay, BusyForAReason, ShownIsLatest

\* A guarded tool is not busy here, so nothing is under way.
LEMMA StartIInv == ASSUME IInv, Start PROVE IInv'
<1> DEFINE task == [in |-> input, no |-> started + 1]
<1>1. /\ started' = started + 1 /\ UNCHANGED <<tab, result, ended, secure>>
      /\ busy' = (tab \in Busies)
      /\ tasks' = IF tab = "hash" /\ ~secure THEN tasks ELSE tasks \cup {task}
  BY DEF Start
<1>2. task.no = started + 1  OBVIOUS
<1>3. tab \in Guarded => tasks = {}  BY DEF Start, IInv, OneUnderWay
<1> HIDE DEF task
<1>4. started' \in Nat /\ ended' \in Nat /\ ended' <= started'  BY <1>1 DEF IInv, Counted
<1>5. Counted'
  <2> SUFFICES ASSUME NEW k \in tasks' PROVE k.no \in Nat /\ k.no <= started'
    BY <1>4 DEF Counted
  <2>1. CASE k \in tasks  BY <2>1, <1>1 DEF IInv, Counted
  <2>2. CASE k = task  BY <2>2, <1>1, <1>2, <1>4
  <2> QED BY <2>1, <2>2, <1>1
<1>6. OneUnderWay'
  <2> SUFFICES ASSUME tab \in Guarded
               PROVE  (\A j, k \in tasks' : j = k /\ k.no = started') /\ (tasks' # {} => busy')
    BY <1>1 DEF OneUnderWay
  <2>1. tasks' \subseteq {task}  BY <1>1, <1>3
  <2>2. busy'  BY <1>1, GroupsApart
  <2> QED BY <2>1, <2>2, <1>1, <1>2
<1>7. BusyForAReason'
  <2>1. busy' => tab' \in Busies  BY <1>1
  <2>2. tasks' # {} \/ (tab' = "hash" /\ ~secure')  BY <1>1
  <2> QED BY <2>1, <2>2 DEF BusyForAReason
<1>8. ShownIsLatest'  BY <1>1 DEF IInv, ShownIsLatest
<1> QED BY <1>4, <1>5, <1>6, <1>7, <1>8 DEF IInv

\* The only computation of a guarded tool is the last one started.
LEMMA RespondIInv == ASSUME IInv, NEW k \in tasks, Respond(k) PROVE IInv'
<1> DEFINE o == Outcome(tab, k.in)
<1>1. /\ tasks' = tasks \ {k} /\ busy' = FALSE /\ UNCHANGED <<tab, started, secure>>
      /\ ended' = IF k.no > ended THEN k.no ELSE ended
      /\ ShowAnswer(k, o)
  BY DEF Respond
<1>2. k.no \in Nat /\ k.no <= started /\ ended <= started /\ ended \in Nat /\ started \in Nat
  BY DEF IInv, Counted
<1>3. ended' \in Nat /\ ended' <= started'  BY <1>1, <1>2
<1>4. Counted'  BY <1>1, <1>3 DEF IInv, Counted
<1>5. ASSUME tab \in Guarded PROVE tasks' = {} /\ ended' = k.no
  <2>1. tasks' = {}  BY <1>1, <1>5 DEF IInv, OneUnderWay
  <2>2. k.no = started  BY <1>5 DEF IInv, OneUnderWay
  <2> QED BY <2>1, <2>2, <1>1, <1>2
<1>6. ASSUME tab \in Guarded PROVE result' = Nothing \/ result'.no = k.no
  <2>1. tab # "ssh-key"  BY <1>6, GroupsApart
  <2>2. \/ result' = Shown(k.in, k.no, o.value)
        \/ result' = Shown(k.in, k.no, Nothing)
        \/ result' = Nothing
    BY <1>1, <2>1 DEF ShowAnswer
  <2> QED BY <2>2, ShownNo
<1>7. OneUnderWay'  BY <1>1, <1>5 DEF OneUnderWay
<1>8. BusyForAReason'  BY <1>1 DEF BusyForAReason
<1>9. ShownIsLatest'  BY <1>1, <1>5, <1>6 DEF ShownIsLatest
<1> QED BY <1>3, <1>4, <1>7, <1>8, <1>9 DEF IInv

LEMMA ClearAllIInv == ASSUME IInv, ClearAll PROVE IInv'
<1>1. UNCHANGED <<tab, busy, tasks, started, ended, secure>> /\ result' = Nothing  BY DEF ClearAll
<1> QED BY <1>1 DEF IInv, Counted, OneUnderWay, BusyForAReason, ShownIsLatest

LEMMA NextIInv == ASSUME IInv, [Next]_vars PROVE IInv'
<1>1. ASSUME NEW t \in TOOLS, SwitchTool(t) PROVE IInv'  BY <1>1, MountIInv DEF SwitchTool
<1>2. ASSUME NEW x \in Inputs(tab), Edit(x) PROVE IInv'  BY <1>2, EditIInv
<1>3. CASE Click  BY <1>3, ClickIInv
<1>4. CASE Start  BY <1>4, StartIInv
<1>5. CASE ClearAll  BY <1>5, ClearAllIInv
<1>6. CASE Copy  BY <1>6, UnmovedIInv DEF Copy, Unmoved
<1>7. CASE CopyTimer  BY <1>7, UnmovedIInv DEF CopyTimer, Unmoved
<1>8. ASSUME NEW k \in tasks, Respond(k) PROVE IInv'  BY <1>8, RespondIInv
<1>9. CASE UNCHANGED vars  BY <1>9, UnmovedIInv DEF vars, Unmoved
<1> QED BY <1>1, <1>2, <1>3, <1>4, <1>5, <1>6, <1>7, <1>8, <1>9 DEF Next

\* The strengthened invariant holds always.
THEOREM AlwaysIInv == Spec => []IInv
<1>1. Init => IInv  BY InitIInv
<1>2. IInv /\ [Next]_vars => IInv'  BY NextIInv
<1> QED BY <1>1, <1>2, PTL DEF Spec

\* A slow answer never replaces a newer one, in any tool that refuses clicks
\* while busy, for every input, every outcome and any number of computations.
THEOREM AlwaysShownIsLatest == Spec => []ShownIsLatest
<1>1. IInv => ShownIsLatest  BY DEF IInv
<1> QED BY AlwaysIInv, <1>1, PTL

\* A busy tool has a computation that ends it, but for the hash tool where
\* crypto.subtle is missing; and a guarded tool is busy while one is under way.
THEOREM AlwaysBusyMeansUnderWay == Spec => []BusyMeansUnderWay
<1>1. IInv => BusyMeansUnderWay
  BY GroupsApart DEF IInv, OneUnderWay, BusyForAReason, BusyMeansUnderWay
<1> QED BY AlwaysIInv, <1>1, PTL
=============================================================================
