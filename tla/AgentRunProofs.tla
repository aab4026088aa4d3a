--------------------------- MODULE AgentRunProofs ---------------------------
(***************************************************************************)
(* What holds of AgentRun for every set of requests, every turn limit and  *)
(* every number of requests in flight, restarts included.                  *)
(***************************************************************************)
EXTENDS AgentRun, FiniteSetTheorems, TLAPS

\* The versions of a step: its row, and the copies of it that handlers hold.
Versions == steps \cup {stepCopy[r] : r \in Requests} \cup {NoStep}

\* Versions of one step agree on what never changes, and keys are spent once; so
\* a Save replaces the row it was read from and no other.
VersionsAgree ==
  /\ \A v \in Versions : v.id < nextId
  /\ \A v, w \in Versions : v.id = w.id => v.num = w.num /\ v.kind = w.kind

\* idx_run_step: one row for each number.  Rows are numbered from 1, and so is
\* the copy that a handler is going to save.
RowsUnique ==
  /\ \A s, t \in steps : s.num = t.num => s = t
  /\ \A s \in steps : s.num >= 1
  /\ \A r \in Requests :
       pc[r] \in {"approve", "reject", "execute", "save_step"} => stepCopy[r].num >= 1

\* A turn that goes on has a number left.
TurnLeft == \A r \in Requests : pc[r] = "llm" => seen[r] < MaxTurns

\* Only the handler that deletes a run can hold a copy of a finished one.
CopiesUnfinished ==
  \A r \in Requests : finCopy[r] =>
    pc[r] \in {"delete_steps", "delete_run", "done", "dropped"}

\* A copy about to be saved carries its decision.
CopiesDecided ==
  \A r \in Requests : pc[r] = "save_step" => stepCopy[r].status # "pending_approval"

\* A version that says a tool was executed tells the truth.
VersionsDidRun ==
  \A v \in Versions : v.kind = "tool" /\ v.status = "executed" =>
    \E r \in Requests : <<r, v.id>> \in ran

\* A run in status running has a handler inside doAgentTurn.
RunIsDriven ==
  run.status = "running" /\ restarts = 0 =>
    \E r \in Requests : pc[r] \in {"turn", "llm", "save_completed", "save_awaiting"}
-----------------------------------------------------------------------------
USE AgentAssumption

\* The absence of a step or of a run is one of their values.
LEMMA NoStepType == NoStep \in Step /\ NoRun \in Run
  BY DEF NoStep, NoRun, Step, Run, Absent, Active, Terminal

\* A finite table has a number of rows.
LEMMA CardinalityIsNat == ASSUME IsFiniteSet(steps) PROVE Cardinality(steps) \in Nat
  BY FS_CardinalityType

\* A row can be added to, put in place of another in, or mapped over the table.
LEMMA TableFinite ==
  ASSUME IsFiniteSet(steps), NEW row
  PROVE  /\ IsFiniteSet(Inserted(row))
         /\ IsFiniteSet(Saved(row))
         /\ IsFiniteSet({IF s.status = "pending_approval" THEN [s EXCEPT !.status = "rejected"]
                         ELSE s : s \in steps})
<1>1. IsFiniteSet(steps \cup {row})
  BY FS_AddElement
<1>2. IsFiniteSet({s \in steps : s.id # row.id} \cup {row})
  BY FS_AddElement, FS_Subset
<1>3. IsFiniteSet({IF s.status = "pending_approval" THEN [s EXCEPT !.status = "rejected"]
                   ELSE s : s \in steps})
  <2> DEFINE G(s) == IF s.status = "pending_approval" THEN [s EXCEPT !.status = "rejected"] ELSE s
  <2>1. IsFiniteSet({G(s) : s \in steps})
    <3> DEFINE f == [s \in steps |-> G(s)]
    <3> HIDE DEF G
    <3>1. f \in Surjection(steps, {G(s) : s \in steps})
      BY DEF Surjection
    <3> QED
      BY <3>1, FS_Surjection DEF ExistsSurjection
  <2> QED BY <2>1
<1> QED BY <1>1, <1>2, <1>3 DEF Inserted, Saved

-----------------------------------------------------------------------------
(***************************************************************************)
(* Type correctness.                                                       *)
(***************************************************************************)
\* The types are inductive together with what keeps the step numbers in range.
BaseInv == TypeOK /\ IsFiniteSet(steps) /\ TurnLeft

\* Every step of every handler keeps the types, the table finite and a number
\* left for the turn in progress.
LEMMA BaseStep == BaseInv /\ [Next]_vars => BaseInv'
<1> SUFFICES ASSUME BaseInv, [Next]_vars PROVE BaseInv'
  OBVIOUS
<1> USE DEF BaseInv, TypeOK, TurnLeft, Run, Step, Labels, Active, Terminal, Absent, dbVars, Goto
<1>1. ASSUME NEW r \in Requests, CreateAgentRun(r) PROVE BaseInv'
  BY <1>1 DEF CreateAgentRun, SaveRun
<1>2. ASSUME NEW r \in Requests, ApproveAgentStep(r) \/ RejectAgentStep(r) PROVE BaseInv'
  <2>1. PICK op \in {"approve", "reject"} : LoadRunForStep(r, op)
    BY <1>2 DEF ApproveAgentStep, RejectAgentStep
  <2>2. /\ UNCHANGED <<dbVars, seen, ran, restarts>>
        /\ pc' = [pc EXCEPT ![r] = op]
        /\ finCopy' \in [Requests -> BOOLEAN]
    BY <2>1 DEF LoadRunForStep, LoadRun
  <2>3. stepCopy' \in [Requests -> Step]
    BY <2>1 DEF LoadRunForStep, Pending
  <2> QED BY <2>2, <2>3
<1>3. ASSUME NEW r \in Requests, CancelAgentRun(r) \/ DeleteAgentRun(r) PROVE BaseInv'
  BY <1>3 DEF CancelAgentRun, DeleteAgentRun, LoadRun
<1>4. ASSUME NEW r \in Requests, ReadStepToApprove(r) PROVE BaseInv'
  BY <1>4 DEF ReadStepToApprove
<1>5. ASSUME NEW r \in Requests, ReadStepToReject(r) PROVE BaseInv'
  BY <1>5 DEF ReadStepToReject
<1>6. ASSUME NEW r \in Requests, StepNotPending(r) PROVE BaseInv'
  BY <1>6, NoStepType DEF StepNotPending
<1>7. ASSUME NEW r \in Requests, RefuseTool(r) PROVE BaseInv'
  BY <1>7 DEF RefuseTool
<1>8. ASSUME NEW r \in Requests, RunTool(r) PROVE BaseInv'
  BY <1>8 DEF RunTool
<1>9. ASSUME NEW r \in Requests, SaveStep(r) PROVE BaseInv'
  <2>1. steps' \subseteq Step
    BY <1>9 DEF SaveStep, Saved, Inserted
  <2>2. IsFiniteSet(steps')
    BY <1>9, TableFinite DEF SaveStep
  <2> QED BY <1>9, <2>1, <2>2, NoStepType DEF SaveStep
<1>10. ASSUME NEW r \in Requests, SaveRunning(r) PROVE BaseInv'
  BY <1>10 DEF SaveRunning, SaveRun
<1>11. ASSUME NEW r \in Requests, ReadSteps(r) PROVE BaseInv'
  BY <1>11, CardinalityIsNat DEF ReadSteps
<1>12. ASSUME NEW r \in Requests, FailAgentRun(r) PROVE BaseInv'
  BY <1>12 DEF FailAgentRun, SaveRun
<1>13. ASSUME NEW r \in Requests,
              ProposeAnswer(r) \/ ProposeUnknownTool(r) \/ ProposeTool(r)
       PROVE  BaseInv'
  <2>1. PICK k \in {"tool", "unknown_tool", "final_answer"},
             st \in {"pending_approval", "executed", "failed"} : CreateStep(r, k, st)
    BY <1>13 DEF ProposeAnswer, ProposeUnknownTool, ProposeTool
  <2> DEFINE row == [id |-> nextId, num |-> seen[r] + 1, kind |-> k, status |-> st]
  <2>2. pc[r] = "llm"
    BY <1>13 DEF ProposeAnswer, ProposeUnknownTool, ProposeTool
  <2>3. row \in Step
    BY <2>2
  <2>4. /\ steps' = Inserted(row)
        /\ nextId' \in {nextId, nextId + 1}
        /\ seen' = [seen EXCEPT ![r] = 0]
    BY <2>1 DEF CreateStep
  <2>5. /\ UNCHANGED <<run, finCopy, stepCopy, ran, restarts>>
        /\ \E l \in Labels \ {"llm"} : pc' = [pc EXCEPT ![r] = l]
    BY <1>13 DEF ProposeAnswer, ProposeUnknownTool, ProposeTool
  <2>6. IsFiniteSet(steps')
    <3> HIDE DEF row
    <3> QED BY <2>4, TableFinite
  <2>7. steps' \subseteq Step
    BY <2>3, <2>4 DEF Inserted
  <2>8. nextId' \in Nat /\ seen' \in [Requests -> 0..MaxTurns] /\ pc' \in [Requests -> Labels]
    BY <2>4, <2>5
  <2>9. ASSUME NEW q \in Requests, pc'[q] = "llm" PROVE seen'[q] < MaxTurns
    BY <2>4, <2>5, <2>9
  <2> QED BY <2>5, <2>6, <2>7, <2>8, <2>9
<1>14. ASSUME NEW r \in Requests, SaveCompleted(r) \/ SaveAwaiting(r) PROVE BaseInv'
  <2>1. CASE SaveCompleted(r)
    BY <2>1 DEF SaveCompleted, SaveRun
  <2>2. CASE SaveAwaiting(r)
    BY <2>2 DEF SaveAwaiting, SaveRun
  <2> QED BY <1>14, <2>1, <2>2
<1>15. ASSUME NEW r \in Requests, RejectPendingSteps(r) PROVE BaseInv'
  <2>1. steps' \subseteq Step
    BY <1>15 DEF RejectPendingSteps
  <2>2. IsFiniteSet(steps')
    BY <1>15, TableFinite DEF RejectPendingSteps
  <2> QED BY <1>15, <2>1, <2>2 DEF RejectPendingSteps
<1>16. ASSUME NEW r \in Requests, SaveCancelled(r) PROVE BaseInv'
  BY <1>16 DEF SaveCancelled, SaveRun
<1>17. ASSUME NEW r \in Requests, DeleteSteps(r) PROVE BaseInv'
  BY <1>17, FS_EmptySet DEF DeleteSteps
<1>18. ASSUME NEW r \in Requests, DeleteRun(r) PROVE BaseInv'
  BY <1>18 DEF DeleteRun
<1>19. CASE Restart
  BY <1>19, NoStepType DEF Restart, InFlight
<1>20. CASE UNCHANGED vars
  BY <1>20 DEF vars
<1> QED
  BY <1>1, <1>2, <1>3, <1>4, <1>5, <1>6, <1>7, <1>8, <1>9, <1>10, <1>11, <1>12,
     <1>13, <1>14, <1>15, <1>16, <1>17, <1>18, <1>19, <1>20 DEF Next, Start, Work

\* The empty database has the right types.
LEMMA BaseInit == Init => BaseInv
  BY NoStepType, FS_EmptySet DEF Init, BaseInv, TypeOK, TurnLeft, Labels

\* Every variable keeps its type, and no step is numbered beyond maxAgentTurns,
\* in every run of the handlers.
THEOREM TypeCorrect == Spec => []TypeOK
<1>1. BaseInv => TypeOK
  BY DEF BaseInv
<1> QED BY <1>1, BaseInit, BaseStep, PTL DEF Spec
-----------------------------------------------------------------------------
(***************************************************************************)
(* The table of steps: keys, numbers and decisions.                        *)
(***************************************************************************)
\* What the steps of the table and the handlers' copies of them agree on.
TableInv == VersionsAgree /\ RowsUnique /\ CopiesDecided

\* Two versions of one step.
SameStep(v, w) == v.id = w.id /\ v.num = w.num /\ v.kind = w.kind

\* Agreement is kept when every new version is a version of a known step.
LEMMA DerivedAgree ==
  ASSUME VersionsAgree, nextId \in Nat, nextId' \in {nextId, nextId + 1},
         \A v \in Versions : v.id \in Nat,
         \A v \in Versions' : \E u \in Versions : SameStep(v, u)
  PROVE  VersionsAgree'
<1>1. ASSUME NEW v \in Versions' PROVE v.id < nextId'
  <2>1. PICK u \in Versions : SameStep(v, u)
    OBVIOUS
  <2> QED BY <2>1 DEF SameStep, VersionsAgree
<1>2. ASSUME NEW v \in Versions', NEW w \in Versions', v.id = w.id
      PROVE  v.num = w.num /\ v.kind = w.kind
  <2>1. PICK u \in Versions : SameStep(v, u)
    OBVIOUS
  <2>2. PICK x \in Versions : SameStep(w, x)
    OBVIOUS
  <2>3. u.id = x.id
    BY <1>2, <2>1, <2>2 DEF SameStep
  <2>4. u.num = x.num /\ u.kind = x.kind
    BY <2>3 DEF VersionsAgree
  <2> QED BY <2>1, <2>2, <2>4 DEF SameStep
<1> QED BY <1>1, <1>2 DEF VersionsAgree

\* Rows and copies are steps.
LEMMA VersionsTyped == ASSUME BaseInv PROVE Versions \subseteq Step
  BY NoStepType DEF BaseInv, TypeOK, Versions

\* Insertions respect the two unique indexes, whole-row saves keep key, number
\* and kind, and a copy is saved only with its decision.
LEMMA TableStep == BaseInv /\ BaseInv' /\ TableInv /\ [Next]_vars => TableInv'
<1> SUFFICES ASSUME BaseInv, BaseInv', TableInv, [Next]_vars PROVE TableInv'
  OBVIOUS
<1>0. /\ steps \subseteq Step
      /\ stepCopy \in [Requests -> Step]
      /\ nextId \in Nat
      /\ pc \in [Requests -> Labels]
      /\ Versions \subseteq Step
      /\ \A v \in Versions : v.id \in Nat
  BY VersionsTyped DEF BaseInv, TypeOK, Step
<1> USE DEF TableInv
<1>1. ASSUME UNCHANGED <<steps, nextId>>, NEW r \in Requests, NEW v \in Versions,
             stepCopy' = [stepCopy EXCEPT ![r] = v]
      PROVE  VersionsAgree'
  <2>1. \A w \in Versions' : w \in Versions
    BY <1>0, <1>1 DEF Versions
  <2> QED BY <2>1, <1>0, <1>1, DerivedAgree DEF SameStep
<1>2. ASSUME UNCHANGED <<steps, nextId>>, NEW r \in Requests,
             NEW st, stepCopy' = [stepCopy EXCEPT ![r].status = st]
      PROVE  VersionsAgree'
  <2>1. ASSUME NEW w \in Versions' PROVE \E u \in Versions : SameStep(w, u)
    <3>1. CASE w \in Versions
      BY <3>1 DEF SameStep
    <3>2. CASE w = [stepCopy[r] EXCEPT !.status = st]
      <4>1. stepCopy[r] \in Versions /\ stepCopy[r] \in Step
        BY <1>0 DEF Versions
      <4> QED BY <3>2, <4>1 DEF SameStep, Step
    <3> QED BY <3>1, <3>2, <1>0, <1>2 DEF Versions
  <2> QED BY <2>1, <1>0, <1>2, DerivedAgree
<1>3. ASSUME UNCHANGED <<steps, nextId, stepCopy>> PROVE VersionsAgree'
  BY <1>3 DEF VersionsAgree, Versions
\* The insertion of a row that doAgentTurn creates.
<1>4. ASSUME NEW r \in Requests, NEW k \in {"tool", "unknown_tool", "final_answer"},
             NEW st \in {"pending_approval", "executed", "failed"},
             CreateStep(r, k, st), UNCHANGED stepCopy,
             NEW l \in Labels \ {"approve", "reject", "execute", "save_step"},
             pc' = [pc EXCEPT ![r] = l]
      PROVE  TableInv'
  <2> DEFINE row == [id |-> nextId, num |-> seen[r] + 1, kind |-> k, status |-> st]
  <2>1. row \in [id : {nextId}, num : Nat \ {0}, kind : {k}, status : {st}]
    BY DEF BaseInv, TypeOK
  <2>2. CASE ~Insertable(row)
    <3>1. UNCHANGED <<steps, nextId, stepCopy>>
      BY <1>4, <2>2 DEF CreateStep, Inserted
    <3> QED BY <3>1, <1>0, <1>3, <1>4 DEF RowsUnique, CopiesDecided
  <2>3. CASE Insertable(row)
    <3>1. steps' = steps \cup {row} /\ nextId' = nextId + 1
      BY <1>4, <2>3 DEF CreateStep, Inserted
    <3>2. \A s \in steps : s.num # row.num
      BY <2>3 DEF Insertable
    <3> HIDE DEF row
    <3>3. Versions' = Versions \cup {row}
      BY <3>1, <1>4 DEF Versions
    <3>4. \A v \in Versions : v.id < nextId /\ v.id # row.id
      BY <2>1, <1>0 DEF VersionsAgree
    <3>5. VersionsAgree'
      <4>1. \A v \in Versions' : v.id < nextId'
        BY <3>1, <3>3, <3>4, <2>1, <1>0
      <4>2. \A v, w \in Versions' : v.id = w.id => v.num = w.num /\ v.kind = w.kind
        BY <3>3, <3>4 DEF VersionsAgree
      <4> QED BY <4>1, <4>2 DEF VersionsAgree
    <3>6. RowsUnique'
      BY <3>1, <3>2, <2>1, <1>0, <1>4 DEF RowsUnique
    <3> QED BY <3>5, <3>6, <1>0, <1>4 DEF CopiesDecided
  <2> QED BY <2>2, <2>3
\* The save of a decided copy.
<1>5. ASSUME NEW r \in Requests, SaveStep(r) PROVE TableInv'
  <2> DEFINE row == stepCopy[r]
  <2>1. /\ pc[r] = "save_step" /\ pc' = [pc EXCEPT ![r] = "save_running"]
        /\ steps' = Saved(row) /\ nextId' = nextId
        /\ stepCopy' = [stepCopy EXCEPT ![r] = NoStep]
    BY <1>5 DEF SaveStep, Goto
  <2>2. row \in Versions /\ row \in Step /\ row.num >= 1
    BY <2>1, <1>0 DEF Versions, RowsUnique
  <2> HIDE DEF row
  <2>3. steps' \subseteq steps \cup {row}
    BY <2>1 DEF Saved, Inserted
  <2>4. VersionsAgree'
    <3>1. \A w \in Versions' : w \in Versions
      BY <2>1, <2>2, <2>3, <1>0 DEF Versions
    <3> QED BY <3>1, <2>1, <1>0, DerivedAgree DEF SameStep
  <2>5. \A s, t \in steps' : s.num = t.num => s = t
    <3>1. CASE \E s \in steps : s.id = row.id
      <4>1. PICK old \in steps : old.id = row.id
        BY <3>1
      <4>2. old.num = row.num
        BY <4>1, <2>2 DEF VersionsAgree, Versions
      <4>3. \A s \in steps : s.id # row.id => s.num # row.num
        BY <4>1, <4>2 DEF RowsUnique
      <4>4. steps' = {s \in steps : s.id # row.id} \cup {row}
        BY <2>1, <3>1 DEF Saved
      <4> QED BY <4>3, <4>4 DEF RowsUnique
    <3>2. CASE ~ \E s \in steps : s.id = row.id
      BY <2>1, <3>2 DEF Saved, Inserted, Insertable, RowsUnique
    <3> QED BY <3>1, <3>2
  <2> QED BY <2>1, <2>2, <2>3, <2>4, <2>5, <1>0 DEF RowsUnique, CopiesDecided
\* The cancellation rejects what is pending.
<1>6. ASSUME NEW r \in Requests, RejectPendingSteps(r) PROVE TableInv'
  <2> DEFINE G(s) == IF s.status = "pending_approval" THEN [s EXCEPT !.status = "rejected"]
                     ELSE s
  <2>1. /\ pc' = [pc EXCEPT ![r] = "save_cancelled"]
        /\ UNCHANGED <<nextId, stepCopy>>
        /\ steps' = {G(s) : s \in steps}
    BY <1>6 DEF RejectPendingSteps, Goto
  <2>2. \A s \in steps : SameStep(G(s), s)
    BY <1>0 DEF SameStep, Step
  <2> HIDE DEF G
  <2>3. VersionsAgree'
    <3>1. \A w \in Versions' : \E u \in Versions : SameStep(w, u)
      BY <2>1, <2>2 DEF Versions, SameStep
    <3> QED BY <3>1, <2>1, <1>0, DerivedAgree
  <2>4. RowsUnique'
    <3>1. \A s \in steps : G(s).num = s.num
      BY <2>2 DEF SameStep
    <3> QED BY <3>1, <2>1, <1>0 DEF RowsUnique
  <2> QED BY <2>1, <2>3, <2>4, <1>0 DEF CopiesDecided
<1>7. ASSUME NEW r \in Requests, DeleteSteps(r) PROVE TableInv'
  <2>1. \A w \in Versions' : w \in Versions
    BY <1>7 DEF DeleteSteps, Versions
  <2>2. VersionsAgree'
    BY <2>1, <1>0, <1>7, DerivedAgree DEF SameStep, DeleteSteps, dbVars
  <2> QED BY <2>2, <1>0, <1>7 DEF DeleteSteps, Goto, RowsUnique, CopiesDecided
\* Everything else only moves the copies.
<1>8. ASSUME NEW r \in Requests, NEW op, LoadRunForStep(r, op), op \in {"approve", "reject"}
      PROVE  TableInv'
  <2>1. PICK s \in Pending : stepCopy' = [stepCopy EXCEPT ![r] = s]
    BY <1>8 DEF LoadRunForStep
  <2>2. UNCHANGED <<steps, nextId>> /\ pc' = [pc EXCEPT ![r] = op]
    BY <1>8 DEF LoadRunForStep, LoadRun, dbVars, Goto
  <2>3. s \in steps /\ s \in Versions
    BY DEF Pending, Versions
  <2>4. VersionsAgree'
    BY <2>1, <2>2, <2>3, <1>1
  <2> QED BY <2>1, <2>2, <2>3, <2>4, <1>0, <1>8 DEF RowsUnique, CopiesDecided
<1>9. ASSUME NEW r \in Requests, StepNotPending(r) PROVE TableInv'
  <2>1. /\ UNCHANGED <<steps, nextId>> /\ pc' = [pc EXCEPT ![r] = "done"]
        /\ stepCopy' = [stepCopy EXCEPT ![r] = NoStep]
    BY <1>9 DEF StepNotPending, dbVars, Goto
  <2>2. VersionsAgree'
    BY <2>1, <1>1 DEF Versions
  <2> QED BY <2>1, <2>2, <1>0 DEF RowsUnique, CopiesDecided
<1>10. ASSUME NEW r \in Requests, ReadStepToReject(r) \/ RefuseTool(r) \/ RunTool(r)
       PROVE  TableInv'
  <2>1. /\ UNCHANGED <<steps, nextId>> /\ pc' = [pc EXCEPT ![r] = "save_step"]
        /\ pc[r] \in {"reject", "execute"}
        /\ \E st \in {"rejected", "executed", "failed"} :
             stepCopy' = [stepCopy EXCEPT ![r].status = st]
    BY <1>10 DEF ReadStepToReject, RefuseTool, RunTool, dbVars, Goto
  <2>2. VersionsAgree'
    BY <2>1, <1>2
  <2> QED BY <2>1, <2>2, <1>0 DEF RowsUnique, CopiesDecided, Step
<1>11. ASSUME NEW r \in Requests,
              ProposeAnswer(r) \/ ProposeUnknownTool(r) \/ ProposeTool(r)
       PROVE  TableInv'
  BY <1>11, <1>4 DEF ProposeAnswer, ProposeUnknownTool, ProposeTool, Goto, Labels
<1>12. ASSUME UNCHANGED <<steps, nextId, stepCopy>>,
              \A r \in Requests : \/ pc'[r] = pc[r]
                                  \/ pc[r] = "approve" /\ pc'[r] = "execute"
                                  \/ pc'[r] \notin {"approve", "reject", "execute", "save_step"}
       PROVE  TableInv'
  BY <1>12, <1>3, <1>0 DEF RowsUnique, CopiesDecided
<1>13. CASE Restart
  <2>1. \A w \in Versions' : w \in Versions
    BY <1>13, <1>0 DEF Restart, Versions, dbVars
  <2>2. VersionsAgree'
    BY <2>1, <1>0, <1>13, DerivedAgree DEF SameStep, Restart, dbVars
  <2> QED BY <2>2, <1>0, <1>13 DEF Restart, InFlight, dbVars, RowsUnique, CopiesDecided
<1>14. ASSUME NEW r \in Requests, ReadStepToApprove(r) PROVE TableInv'
  BY <1>14, <1>12, <1>0 DEF ReadStepToApprove, Goto, dbVars
<1>15. ASSUME NEW r \in Requests,
              \/ CreateAgentRun(r) \/ CancelAgentRun(r) \/ DeleteAgentRun(r)
              \/ SaveRunning(r) \/ ReadSteps(r) \/ FailAgentRun(r) \/ SaveCompleted(r)
              \/ SaveAwaiting(r) \/ SaveCancelled(r) \/ DeleteRun(r)
       PROVE  TableInv'
  <2>1. /\ UNCHANGED <<steps, nextId, stepCopy>>
        /\ \E l \in Labels \ {"approve", "reject", "execute", "save_step"} :
             pc' = [pc EXCEPT ![r] = l]
    BY <1>15 DEF CreateAgentRun, CancelAgentRun, DeleteAgentRun, LoadRun, SaveRunning,
         ReadSteps, FailAgentRun, SaveCompleted, SaveAwaiting, SaveCancelled, DeleteRun,
         Goto, dbVars, Labels
  <2> QED BY <2>1, <1>12, <1>0
<1>16. CASE UNCHANGED vars
  BY <1>16, <1>12 DEF vars
<1> QED
  BY <1>5, <1>6, <1>7, <1>8, <1>9, <1>10, <1>11, <1>13, <1>14, <1>15, <1>16
  DEF Next, Start, Work, ApproveAgentStep, RejectAgentStep

-----------------------------------------------------------------------------
(***************************************************************************)
(* The row of the run.                                                     *)
(***************************************************************************)
\* The row of the run and the handlers that drive it.
RunInv == CopiesUnfinished /\ FinishedIffTerminal /\ RunIsDriven

\* Whoever finishes the run sets both its status and finished_at, and whoever
\* leaves doAgentTurn leaves the run in another status than running.
LEMMA RunStep == BaseInv /\ RunInv /\ [Next]_vars => RunInv'
<1> SUFFICES ASSUME BaseInv, RunInv, [Next]_vars PROVE RunInv'
  OBVIOUS
<1>0. /\ pc \in [Requests -> Labels] /\ finCopy \in [Requests -> BOOLEAN]
      /\ run \in Run /\ restarts \in Nat
  BY DEF BaseInv, TypeOK
<1> USE <1>0 DEF RunInv, CopiesUnfinished, FinishedIffTerminal, RunIsDriven, Goto, dbVars,
        Terminal, Active, Absent, Run, SaveRun
<1> DEFINE Driving == {"turn", "llm", "save_completed", "save_awaiting"}
\* A handler that moves on and writes neither the run nor its copy.
<1>1. ASSUME NEW r \in Requests, NEW l, UNCHANGED <<run, finCopy, restarts>>,
             pc' = [pc EXCEPT ![r] = l], pc[r] # "idle",
             pc[r] \in {"delete_steps", "delete_run", "done", "dropped"} =>
               l \in {"delete_steps", "delete_run", "done", "dropped"},
             pc[r] \in Driving => l \in Driving
      PROVE  RunInv'
  BY <1>1
<1>2. ASSUME NEW r \in Requests, NEW st \in {"failed", "completed", "cancelled"},
             SaveRun(st, TRUE), UNCHANGED finCopy, pc[r] \notin {"delete_steps", "delete_run"},
             pc' = [pc EXCEPT ![r] = "done"]
      PROVE  RunInv'
  BY <1>2
<1>3. ASSUME NEW r \in Requests, CreateAgentRun(r) PROVE RunInv'
  BY <1>3 DEF CreateAgentRun
<1>4. ASSUME NEW r \in Requests, NEW op, NEW next,
             \/ LoadRun(r, op, {"awaiting_approval"}, next)
             \/ LoadRun(r, op, Active, next)
             \/ LoadRun(r, op, Active \cup Terminal, next) /\ next = "delete_steps"
      PROVE  RunInv'
  <2>1. /\ UNCHANGED <<run, restarts>> /\ pc[r] = "idle" /\ pc' = [pc EXCEPT ![r] = next]
        /\ finCopy' = [finCopy EXCEPT ![r] = run.finished]
        /\ run.status \in Active \/ next = "delete_steps"
    BY <1>4 DEF LoadRun
  <2> QED BY <2>1
<1>5. ASSUME NEW r \in Requests,
              \/ ApproveAgentStep(r) \/ RejectAgentStep(r)
              \/ CancelAgentRun(r) \/ DeleteAgentRun(r)
       PROVE  RunInv'
  BY <1>5, <1>4 DEF ApproveAgentStep, RejectAgentStep, LoadRunForStep, CancelAgentRun,
     DeleteAgentRun
<1>6. ASSUME NEW r \in Requests,
              ReadStepToApprove(r) \/ ReadStepToReject(r) \/ StepNotPending(r)
       PROVE  RunInv'
  <2>1. /\ UNCHANGED <<run, finCopy, restarts>> /\ pc[r] \in {"approve", "reject"}
        /\ \E l \in Labels : pc' = [pc EXCEPT ![r] = l]
    BY <1>6 DEF ReadStepToApprove, ReadStepToReject, StepNotPending, Labels
  <2> QED BY <2>1, <1>1
<1>7. ASSUME NEW r \in Requests, RefuseTool(r) \/ RunTool(r) \/ SaveStep(r) PROVE RunInv'
  <2>1. /\ UNCHANGED <<run, finCopy, restarts>> /\ pc[r] \in {"execute", "save_step"}
        /\ \E l \in Labels : pc' = [pc EXCEPT ![r] = l]
    BY <1>7 DEF RefuseTool, RunTool, SaveStep, Labels
  <2> QED BY <2>1, <1>1
<1>8. ASSUME NEW r \in Requests, SaveRunning(r) PROVE RunInv'
  BY <1>8 DEF SaveRunning
<1>9. ASSUME NEW r \in Requests, ReadSteps(r) PROVE RunInv'
  BY <1>9, <1>1 DEF ReadSteps
<1>10. ASSUME NEW r \in Requests,
              FailAgentRun(r) \/ SaveCompleted(r) \/ SaveCancelled(r)
       PROVE  RunInv'
  <2>1. /\ UNCHANGED finCopy /\ pc[r] \in Driving \cup {"save_cancelled"}
        /\ pc' = [pc EXCEPT ![r] = "done"]
        /\ \E st \in {"failed", "completed", "cancelled"} : SaveRun(st, TRUE)
    BY <1>10 DEF FailAgentRun, SaveCompleted, SaveCancelled
  <2> QED BY <2>1, <1>2
<1>11. ASSUME NEW r \in Requests,
              ProposeAnswer(r) \/ ProposeUnknownTool(r) \/ ProposeTool(r)
       PROVE  RunInv'
  <2>1. /\ UNCHANGED <<run, finCopy, restarts>> /\ pc[r] = "llm"
        /\ \E l \in Driving : pc' = [pc EXCEPT ![r] = l]
    BY <1>11 DEF ProposeAnswer, ProposeUnknownTool, ProposeTool
  <2> QED BY <2>1, <1>1
<1>12. ASSUME NEW r \in Requests, SaveAwaiting(r) PROVE RunInv'
  BY <1>12 DEF SaveAwaiting
<1>13. ASSUME NEW r \in Requests, RejectPendingSteps(r) \/ DeleteSteps(r) PROVE RunInv'
  BY <1>13, <1>1 DEF RejectPendingSteps, DeleteSteps
<1>14. ASSUME NEW r \in Requests, DeleteRun(r) PROVE RunInv'
  <2>1. /\ UNCHANGED <<finCopy, restarts>> /\ pc[r] = "delete_run"
        /\ pc' = [pc EXCEPT ![r] = "done"]
        /\ run' = run \/ run' = [status |-> "deleted", finished |-> FALSE]
    BY <1>14 DEF DeleteRun
  <2> QED BY <2>1
<1>15. CASE Restart
  BY <1>15 DEF Restart, InFlight
<1>16. CASE UNCHANGED vars
  BY <1>16 DEF vars
<1> QED
  BY <1>3, <1>5, <1>6, <1>7, <1>8, <1>9, <1>10, <1>11, <1>12, <1>13, <1>14, <1>15, <1>16
  DEF Next, Start, Work

-----------------------------------------------------------------------------
(***************************************************************************)
(* The record of what ran.                                                 *)
(***************************************************************************)
\* Only ApproveAgentStep writes status executed, after the call of the tool.
LEMMA RecordStep == BaseInv /\ VersionsDidRun /\ [Next]_vars => VersionsDidRun'
<1> SUFFICES ASSUME BaseInv, VersionsDidRun, [Next]_vars,
                    NEW v \in Versions', v.kind = "tool", v.status = "executed"
             PROVE  \E q \in Requests : <<q, v.id>> \in ran'
  BY DEF VersionsDidRun
<1>0. /\ steps \subseteq Step /\ stepCopy \in [Requests -> Step]
      /\ pc \in [Requests -> Labels]
  BY DEF BaseInv, TypeOK
<1>1. ran \subseteq ran'
  BY DEF Next, Start, Work, vars, CreateAgentRun, ApproveAgentStep, RejectAgentStep,
     LoadRunForStep, CancelAgentRun, DeleteAgentRun, LoadRun, ReadStepToApprove,
     ReadStepToReject, StepNotPending, RefuseTool, RunTool, SaveStep, SaveRunning,
     ReadSteps, FailAgentRun, ProposeAnswer, SaveCompleted, ProposeUnknownTool,
     ProposeTool, SaveAwaiting, RejectPendingSteps, SaveCancelled, DeleteSteps,
     DeleteRun, Restart
\* A version that was there before is recorded already.
<1>2. CASE v \in Versions
  BY <1>1, <1>2 DEF VersionsDidRun
<1>3. ASSUME v \notin Versions, NEW r \in Requests, RunTool(r)
      PROVE  \E q \in Requests : <<q, v.id>> \in ran'
  <2>1. v = stepCopy'[r] /\ v.id = stepCopy[r].id
    BY <1>0, <1>3 DEF RunTool, Versions, dbVars, Step
  <2> QED BY <2>1, <1>3 DEF RunTool
\* No other step makes a version that says a tool was executed.
<1>4. ASSUME v \notin Versions, NEW r \in Requests, ReadStepToReject(r) \/ RefuseTool(r)
      PROVE  FALSE
  <2>1. PICK st \in {"rejected", "failed"} :
          UNCHANGED steps /\ stepCopy' = [stepCopy EXCEPT ![r].status = st]
    BY <1>4 DEF ReadStepToReject, RefuseTool, dbVars
  <2> QED BY <2>1, <1>0, <1>4 DEF Versions, Step
<1>5. ASSUME v \notin Versions, NEW r \in Requests,
             ProposeAnswer(r) \/ ProposeUnknownTool(r) \/ ProposeTool(r)
      PROVE  FALSE
  <2>1. PICK row \in [id : {nextId}, num : {seen[r] + 1},
                      kind : {"tool", "unknown_tool", "final_answer"},
                      status : {"pending_approval", "executed", "failed"}] :
          /\ row.kind = "tool" => row.status = "pending_approval"
          /\ steps' = Inserted(row) /\ UNCHANGED stepCopy
    BY <1>5 DEF ProposeAnswer, ProposeUnknownTool, ProposeTool, CreateStep
  <2> QED BY <2>1, <1>5 DEF Inserted, Versions
<1>6. ASSUME v \notin Versions, NEW r \in Requests, SaveStep(r) PROVE FALSE
  BY <1>6, <1>0 DEF SaveStep, Saved, Inserted, Versions
<1>7. ASSUME v \notin Versions, NEW r \in Requests, RejectPendingSteps(r) PROVE FALSE
  <2>1. PICK s \in steps : v = IF s.status = "pending_approval"
                               THEN [s EXCEPT !.status = "rejected"] ELSE s
    BY <1>7 DEF RejectPendingSteps, Versions
  <2> QED BY <2>1, <1>0, <1>7 DEF Versions, Step
<1>8. ASSUME NEW r \in Requests,
             \/ ApproveAgentStep(r) \/ RejectAgentStep(r) \/ StepNotPending(r)
             \/ DeleteSteps(r)
      PROVE  v \in Versions
  BY <1>8, <1>0 DEF ApproveAgentStep, RejectAgentStep, LoadRunForStep, LoadRun,
     StepNotPending, DeleteSteps, Pending, Versions, dbVars
<1>9. CASE Restart
  BY <1>9, <1>0, <1>2 DEF Restart, Versions, dbVars
<1>10. ASSUME UNCHANGED <<steps, stepCopy>> PROVE v \in Versions
  BY <1>10 DEF Versions
<1>11. ASSUME NEW r \in Requests,
              \/ CreateAgentRun(r) \/ CancelAgentRun(r) \/ DeleteAgentRun(r)
              \/ ReadStepToApprove(r) \/ SaveRunning(r) \/ ReadSteps(r)
              \/ FailAgentRun(r) \/ SaveCompleted(r) \/ SaveAwaiting(r)
              \/ SaveCancelled(r) \/ DeleteRun(r)
       PROVE  v \in Versions
  BY <1>11, <1>10 DEF CreateAgentRun, CancelAgentRun, DeleteAgentRun, LoadRun,
     ReadStepToApprove, SaveRunning, ReadSteps, FailAgentRun, SaveCompleted, SaveAwaiting,
     SaveCancelled, DeleteRun, dbVars
<1>12. CASE UNCHANGED vars
  BY <1>12, <1>10, <1>2 DEF vars
<1> QED
  BY <1>2, <1>3, <1>4, <1>5, <1>6, <1>7, <1>8, <1>9, <1>11, <1>12 DEF Next, Start, Work
-----------------------------------------------------------------------------
(***************************************************************************)
(* The invariant and what follows from it.                                 *)
(***************************************************************************)
\* The four parts hold in every reachable state.
LEMMA Inductive == Spec => [](BaseInv /\ TableInv /\ RunInv /\ VersionsDidRun)
<1>1. Init => BaseInv /\ TableInv /\ RunInv /\ VersionsDidRun
  <2> SUFFICES ASSUME Init PROVE TableInv /\ RunInv /\ VersionsDidRun
    BY BaseInit
  <2>1. \A v \in Versions : v = NoStep
    BY DEF Init, Versions
  <2> QED
    BY <2>1 DEF Init, NoStep, NoRun, TableInv, RunInv, VersionsDidRun, VersionsAgree,
       RowsUnique, CopiesDecided, CopiesUnfinished, FinishedIffTerminal, RunIsDriven, Terminal
<1> QED
  BY <1>1, BaseStep, TableStep, RunStep, RecordStep, PTL DEF Spec

\* finished_at is set on a run exactly when it is over, however handlers overlap.
THEOREM FinishedCorrect == Spec => []FinishedIffTerminal
<1>1. RunInv => FinishedIffTerminal
  BY DEF RunInv
<1> QED BY <1>1, Inductive, PTL

\* Only a restart of the server can strand a run in status running.
THEOREM NothingStranded == Spec => []NoStrandedRun
<1>1. RunInv => NoStrandedRun
  BY DEF RunInv, RunIsDriven, NoStrandedRun, InFlight
<1> QED BY <1>1, Inductive, PTL

\* A tool step on record as executed did run.
THEOREM RecordTrue == Spec => []ExecutedDidRun
<1>1. VersionsDidRun => ExecutedDidRun
  BY DEF VersionsDidRun, ExecutedDidRun, Versions
<1> QED BY <1>1, Inductive, PTL

\* However many requests add steps at once, a run has at most maxAgentTurns.
THEOREM BudgetKept == Spec => []TurnBudget
<1>1. BaseInv /\ TableInv => TurnBudget
  <2> SUFFICES ASSUME BaseInv, TableInv PROVE Cardinality(steps) <= MaxTurns
    BY DEF TurnBudget
  <2> DEFINE number == [s \in steps |-> s.num]
  <2>1. number \in Injection(steps, 1..MaxTurns)
    BY DEF BaseInv, TypeOK, TableInv, RowsUnique, Step, Injection, IsInjective
  <2>2. IsFiniteSet(1..MaxTurns) /\ Cardinality(1..MaxTurns) = MaxTurns
    BY FS_Interval
  <2> QED BY <2>1, <2>2, FS_Injection DEF ExistsInjection
<1> QED BY <1>1, Inductive, PTL

-----------------------------------------------------------------------------
(***************************************************************************)
(* Decisions.                                                              *)
(***************************************************************************)
\* A row that is pending and was not there before is the one that a turn inserts,
\* under a fresh key.
LEMMA PendingIsFresh ==
  ASSUME BaseInv, TableInv, [Next]_vars,
         NEW t \in steps', t \notin steps, t.status = "pending_approval"
  PROVE  t.id = nextId /\ ran' = ran
<1>1. ASSUME NEW r \in Requests,
             ProposeAnswer(r) \/ ProposeUnknownTool(r) \/ ProposeTool(r)
      PROVE  t.id = nextId /\ ran' = ran
  BY <1>1 DEF ProposeAnswer, ProposeUnknownTool, ProposeTool, CreateStep, Inserted
<1>2. ASSUME NEW r \in Requests, SaveStep(r) PROVE FALSE
  BY <1>2 DEF SaveStep, Saved, Inserted, Goto, TableInv, CopiesDecided
<1>3. ASSUME NEW r \in Requests, RejectPendingSteps(r) PROVE FALSE
  <2>1. PICK u \in steps : t = IF u.status = "pending_approval"
                               THEN [u EXCEPT !.status = "rejected"] ELSE u
    BY <1>3 DEF RejectPendingSteps
  <2> QED BY <2>1 DEF BaseInv, TypeOK, Step
<1>4. ASSUME NEW r \in Requests,
             \/ CreateAgentRun(r) \/ ApproveAgentStep(r) \/ RejectAgentStep(r)
             \/ CancelAgentRun(r) \/ DeleteAgentRun(r) \/ ReadStepToApprove(r)
             \/ ReadStepToReject(r) \/ StepNotPending(r) \/ RefuseTool(r) \/ RunTool(r)
             \/ SaveRunning(r) \/ ReadSteps(r) \/ FailAgentRun(r) \/ SaveCompleted(r)
             \/ SaveAwaiting(r) \/ SaveCancelled(r) \/ DeleteSteps(r) \/ DeleteRun(r)
      PROVE  FALSE
  BY <1>4 DEF CreateAgentRun, ApproveAgentStep, RejectAgentStep, LoadRunForStep,
     CancelAgentRun, DeleteAgentRun, LoadRun, ReadStepToApprove, ReadStepToReject,
     StepNotPending, RefuseTool, RunTool, SaveRunning, ReadSteps, FailAgentRun,
     SaveCompleted, SaveAwaiting, SaveCancelled, DeleteSteps, DeleteRun, dbVars
<1>5. ~ (Restart \/ UNCHANGED vars)
  BY DEF Restart, vars, dbVars
<1> QED BY <1>1, <1>2, <1>3, <1>4, <1>5 DEF Next, Start, Work

\* A decided step is never pending again.
THEOREM DecisionsFinal == Spec => DecisionsAreFinal
<1>1. ASSUME BaseInv, TableInv, [Next]_vars, NEW s \in steps, NEW t \in steps',
             s.id = t.id, s.status # "pending_approval", t.status = "pending_approval"
      PROVE  FALSE
  <2>1. \A u \in steps : u.id = s.id => u = s
    BY <1>1 DEF TableInv, VersionsAgree, RowsUnique, Versions
  <2>2. t \notin steps
    BY <1>1, <2>1
  <2>3. t.id = nextId
    BY <1>1, <2>2, PendingIsFresh
  <2>4. s.id < nextId /\ s.id \in Nat /\ nextId \in Nat
    BY <1>1 DEF TableInv, VersionsAgree, Versions, BaseInv, TypeOK, Step
  <2> QED BY <1>1, <2>3, <2>4
<1>2. BaseInv /\ TableInv /\ [Next]_vars =>
        [\A s \in steps, t \in steps' :
           s.id = t.id /\ s.status # "pending_approval" => t.status # "pending_approval"]_vars
  BY <1>1
<1> QED BY <1>2, Inductive, PTL DEF Spec, DecisionsAreFinal

\* Only steps that were inserted have run, so a fresh key belongs to none of them.
RanIsKnown == \A e \in ran : e[2] < nextId

\* Which requests may still have to save the outcome of a tool they ran.
RanInv == RanIsKnown /\ RanIsDecided

\* Keys only grow, and a tool runs for a step that was inserted.
LEMMA KnownStep ==
  ASSUME BaseInv, TableInv, RanIsKnown, [Next]_vars
  PROVE  /\ RanIsKnown'
         /\ \A e \in ran' : \/ e \in ran
                            \/ RunTool(e[1]) /\ e[1] \in Requests /\ e[2] = stepCopy[e[1]].id
<1>0. nextId \in Nat /\ stepCopy \in [Requests -> Step] /\ ran \subseteq Requests \X Nat
  BY DEF BaseInv, TypeOK
<1>1. nextId' \in {nextId, nextId + 1}
  BY DEF Next, Start, Work, vars, CreateAgentRun, ApproveAgentStep, RejectAgentStep,
     LoadRunForStep, CancelAgentRun, DeleteAgentRun, LoadRun, ReadStepToApprove,
     ReadStepToReject, StepNotPending, RefuseTool, RunTool, SaveStep, SaveRunning,
     ReadSteps, FailAgentRun, ProposeAnswer, SaveCompleted, ProposeUnknownTool,
     ProposeTool, SaveAwaiting, RejectPendingSteps, SaveCancelled, DeleteSteps,
     DeleteRun, Restart, CreateStep, dbVars
<1>2. ran' = ran \/ \E r \in Requests : RunTool(r)
  BY DEF Next, Start, Work, vars, CreateAgentRun, ApproveAgentStep, RejectAgentStep,
     LoadRunForStep, CancelAgentRun, DeleteAgentRun, LoadRun, ReadStepToApprove,
     ReadStepToReject, StepNotPending, RefuseTool, SaveStep, SaveRunning,
     ReadSteps, FailAgentRun, ProposeAnswer, SaveCompleted, ProposeUnknownTool,
     ProposeTool, SaveAwaiting, RejectPendingSteps, SaveCancelled, DeleteSteps,
     DeleteRun, Restart
<1>3. ASSUME NEW e \in ran', e \notin ran
      PROVE  RunTool(e[1]) /\ e[1] \in Requests /\ e[2] = stepCopy[e[1]].id
  <2>1. PICK r \in Requests : RunTool(r)
    BY <1>2, <1>3
  <2>2. e = <<r, stepCopy[r].id>>
    BY <1>3, <2>1 DEF RunTool
  <2> QED BY <2>1, <2>2
<1>4. ASSUME NEW e \in ran' PROVE e[2] < nextId'
  <2>1. CASE e \in ran
    BY <2>1, <1>0, <1>1 DEF RanIsKnown
  <2>2. CASE e \notin ran
    <3>1. stepCopy[e[1]] \in Versions /\ stepCopy[e[1]] \in Step /\ e[2] = stepCopy[e[1]].id
      BY <1>0, <1>3, <2>2 DEF Versions
    <3>2. e[2] < nextId /\ e[2] \in Nat
      BY <3>1 DEF TableInv, VersionsAgree, Step
    <3> QED BY <3>2, <1>0, <1>1
  <2> QED BY <2>1, <2>2
<1> QED BY <1>3, <1>4 DEF RanIsKnown

\* An approval that ran a tool leaves the place where it saves the step only by
\* saving it, or because a restart cuts it off; a request cut off stays so.
LEMMA SaverMoves ==
  ASSUME BaseInv, [Next]_vars, NEW r \in Requests, pc[r] \in {"save_step", "dropped"}
  PROVE  \/ SaveStep(r) /\ pc[r] = "save_step"
         \/ pc'[r] = pc[r] /\ stepCopy'[r].id = stepCopy[r].id /\ pc[r] = "save_step"
         \/ pc'[r] = "dropped"
<1>0. pc \in [Requests -> Labels] /\ stepCopy \in [Requests -> Step]
  BY DEF BaseInv, TypeOK
<1>1. CASE Restart
  BY <1>1, <1>0 DEF Restart, InFlight
<1>2. CASE UNCHANGED vars
  BY <1>2 DEF vars
<1>3. ASSUME NEW q \in Requests, q # r, Start(q) \/ Work(q)
      PROVE  pc'[r] = pc[r] /\ stepCopy'[r] = stepCopy[r]
  <2>1. Start(q) => pc'[r] = pc[r] /\ stepCopy'[r] = stepCopy[r]
    BY <1>0, <1>3 DEF Start, CreateAgentRun, ApproveAgentStep, RejectAgentStep,
       LoadRunForStep, CancelAgentRun, DeleteAgentRun, LoadRun, Goto, dbVars
  <2>2. Work(q) => pc'[r] = pc[r] /\ stepCopy'[r] = stepCopy[r]
    BY <1>0, <1>3 DEF Work, ReadStepToApprove, ReadStepToReject, StepNotPending, RefuseTool,
       RunTool, SaveStep, SaveRunning, ReadSteps, FailAgentRun, ProposeAnswer, SaveCompleted,
       ProposeUnknownTool, ProposeTool, SaveAwaiting, RejectPendingSteps, SaveCancelled,
       DeleteSteps, DeleteRun, CreateStep, Goto, dbVars
  <2> QED BY <1>3, <2>1, <2>2
<1>4. ~ Start(r)
  BY DEF Start, CreateAgentRun, ApproveAgentStep, RejectAgentStep, LoadRunForStep,
     CancelAgentRun, DeleteAgentRun, LoadRun, Goto
<1>5. Work(r) => SaveStep(r) /\ pc[r] = "save_step"
  BY DEF Work, ReadStepToApprove, ReadStepToReject, StepNotPending, RefuseTool,
     RunTool, SaveStep, SaveRunning, ReadSteps, FailAgentRun, ProposeAnswer, SaveCompleted,
     ProposeUnknownTool, ProposeTool, SaveAwaiting, RejectPendingSteps, SaveCancelled,
     DeleteSteps, DeleteRun, OutOfTurns, Goto
<1> QED BY <1>1, <1>2, <1>3, <1>4, <1>5 DEF Next

\* A tool that ran stays decided: the save puts its outcome in place of the
\* pending row, and new pending rows have fresh keys.
LEMMA RanStep == BaseInv /\ TableInv /\ RanInv /\ [Next]_vars => RanInv'
<1> SUFFICES ASSUME BaseInv, TableInv, RanInv, [Next]_vars PROVE RanInv'
  OBVIOUS
<1>0. /\ pc \in [Requests -> Labels] /\ stepCopy \in [Requests -> Step]
      /\ steps \subseteq Step /\ nextId \in Nat /\ ran \subseteq Requests \X Nat
  BY DEF BaseInv, TypeOK
<1>1. ASSUME NEW s \in Pending', NEW r \in Requests, <<r, s.id>> \in ran'
      PROVE  \/ pc'[r] = "save_step" /\ stepCopy'[r].id = s.id
             \/ pc'[r] = "dropped"
  <2>0. s \in steps' /\ s.status = "pending_approval"
    BY DEF Pending
  <2>1. CASE s \notin steps
    <3>1. s.id = nextId /\ ran' = ran
      BY <2>0, <2>1, PendingIsFresh
    <3>2. <<r, s.id>>[2] < nextId
      BY <3>1, <1>1 DEF RanInv, RanIsKnown
    <3> QED BY <3>1, <3>2, <1>0
  <2>2. CASE s \in steps /\ <<r, s.id>> \notin ran
    <3>1. RunTool(r) /\ s.id = stepCopy[r].id
      <4> DEFINE e == <<r, s.id>>
      <4>1. RunTool(e[1]) /\ e[2] = stepCopy[e[1]].id
        BY <1>1, <2>2, KnownStep DEF RanInv
      <4> QED BY <4>1
    <3>2. pc'[r] = "save_step" /\ stepCopy'[r].id = stepCopy[r].id
      BY <1>0, <3>1 DEF RunTool, Goto, Step
    <3> QED BY <3>1, <3>2
  <2>3. CASE s \in steps /\ <<r, s.id>> \in ran
    <3>1. \/ pc[r] = "save_step" /\ stepCopy[r].id = s.id
          \/ pc[r] = "dropped"
      BY <2>0, <2>3 DEF RanInv, RanIsDecided, Pending
    <3>2. CASE SaveStep(r) /\ pc[r] = "save_step"
      <4>1. steps' = {u \in steps : u.id # s.id} \cup {stepCopy[r]}
        BY <2>3, <3>1, <3>2 DEF SaveStep, Saved
      <4>2. s = stepCopy[r]
        BY <2>0, <4>1
      <4> QED BY <2>0, <3>2, <4>2 DEF TableInv, CopiesDecided
    <3> QED BY <3>1, <3>2, SaverMoves
  <2> QED BY <2>1, <2>2, <2>3
<1> QED BY <1>1, KnownStep DEF RanInv, RanIsDecided

\* Once an approval went on after it ran a tool, the step of that tool is never
\* pending again, for any number of overlapping requests: only an approval that
\* overlaps it, or a restart before its save, can run the tool a second time.
THEOREM RanDecided == Spec => []RanIsDecided
<1>1. Init => RanInv
  BY DEF Init, RanInv, RanIsKnown, RanIsDecided, Pending
<1>2. RanInv => RanIsDecided
  BY DEF RanInv
<1> QED BY <1>1, <1>2, RanStep, Inductive, PTL DEF Spec
=============================================================================
