--------------------------- MODULE AgentApproval ---------------------------
(***************************************************************************)
(* What an agent run promises its operator (the comment that opens         *)
(* handlers/agent.go): it proposes one action at a time, runs it only      *)
(* after that proposal was approved, at most once, and goes on until the   *)
(* run ends.  AgentRun implements this when its requests are served one at *)
(* a time.                                                                 *)
(***************************************************************************)
EXTENDS Naturals

CONSTANT Proposals  \* the identities of proposed actions

VARIABLES
  phase,    \* "none", "thinking", "waiting", "ended" or "gone"
  current,  \* the proposals that wait for a decision: none or one
  executed, \* the proposals whose tool has run
  refused   \* the proposals recorded as rejected

avars == <<phase, current, executed, refused>>

Init ==
  /\ phase = "none"
  /\ current = {} /\ executed = {} /\ refused = {}

Begin ==
  /\ phase = "none"
  /\ phase' = "thinking"
  /\ UNCHANGED <<current, executed, refused>>

\* A fresh action: never one that has already run or been rejected.
Propose ==
  /\ phase = "thinking"
  /\ \E p \in Proposals \ (executed \cup refused) : current' = {p}
  /\ phase' = "waiting"
  /\ UNCHANGED <<executed, refused>>

\* The tool runs, or the call is refused before it reaches the tool.
Approve ==
  /\ phase = "waiting"
  /\ executed' \in {executed, executed \cup current}
  /\ current' = {}
  /\ phase' = "thinking"
  /\ UNCHANGED refused

Reject ==
  /\ phase = "waiting"
  /\ refused' = refused \cup current
  /\ current' = {}
  /\ phase' = "thinking"
  /\ UNCHANGED executed

End ==
  /\ phase = "thinking"
  /\ phase' = "ended"
  /\ UNCHANGED <<current, executed, refused>>

\* Deleting the run erases its record; what has run has run.
Delete ==
  /\ phase \in {"thinking", "waiting", "ended"}
  /\ phase' = "gone"
  /\ current' = {} /\ refused' = {}
  /\ UNCHANGED executed

Next == Begin \/ Propose \/ Approve \/ Reject \/ End \/ Delete

Spec == Init /\ [][Next]_avars
=============================================================================
