------------------------------ MODULE AgentRun ------------------------------
(***************************************************************************)
(* One agent run of handlers/agent.go: the row of agent_runs, its rows of  *)
(* agent_steps, and the HTTP requests that create the run, approve or      *)
(* reject a proposed step, cancel the run or delete it.                    *)
(*                                                                         *)
(* No handler takes a lock.  Every handler loads the run into a local      *)
(* copy, and later writes the WHOLE row back with Save, so each database   *)
(* statement is an action of its own and the local copy is state.  A       *)
(* request serves one call; a restart of the server drops the requests in  *)
(* flight and keeps the database.                                          *)
(***************************************************************************)
EXTENDS Naturals, FiniteSets

CONSTANTS
  Requests,      \* the HTTP requests the clients may send
  Operations,    \* the endpoints they call, besides the creation of the run
  MaxTurns,      \* maxAgentTurns (25 in the code)
  MaxInFlight,   \* bound: how many requests the clients have open at once
  RestartBudget, \* bound: how often the server process may restart
  ForeignKeys    \* TRUE: the database enforces fk_agent_runs_steps (Postgres);
                 \* FALSE: it does not (SQLite opened by the desktop app)

ASSUME AgentAssumption ==
  /\ Operations \subseteq {"approve", "reject", "cancel", "delete"}
  /\ MaxTurns \in Nat \ {0}
  /\ MaxInFlight \in Nat
  /\ RestartBudget \in Nat
  /\ ForeignKeys \in BOOLEAN

VARIABLES
  run,      \* the row of agent_runs
  steps,    \* the rows of agent_steps of this run
  nextId,   \* the next primary key of agent_steps
  pc,       \* where each request's handler stands
  finCopy,  \* FinishedAt of each handler's local models.AgentRun: the only
            \* column it writes back without setting it
  stepCopy, \* each handler's local models.AgentStep
  seen,     \* len(steps), as each handler last read it in doAgentTurn
  ran,      \* history: <<r, id>> when request r ran the tool of step id
  restarts  \* how often the server has restarted

dbVars == <<run, steps, nextId>>
vars == <<run, steps, nextId, pc, finCopy, stepCopy, seen, ran, restarts>>
-----------------------------------------------------------------------------
Active   == {"running", "awaiting_approval"}
Terminal == {"completed", "failed", "cancelled"}
Absent   == {"none", "deleted"}

Run  == [status : Active \cup Terminal \cup Absent, finished : BOOLEAN]
Step == [id : Nat, num : 0..MaxTurns, kind : {"tool", "unknown_tool", "final_answer"},
         status : {"pending_approval", "rejected", "executed", "failed"}]

NoRun  == [status |-> "none", finished |-> FALSE]
NoStep == [id |-> 0, num |-> 0, kind |-> "tool", status |-> "failed"]

Labels == {"idle", "approve", "reject", "execute", "save_step", "save_running",
           "turn", "llm", "save_awaiting", "save_completed", "cancel_steps",
           "save_cancelled", "delete_steps", "delete_run", "done", "dropped"}

Init ==
  /\ run = NoRun
  /\ steps = {}
  /\ nextId = 1
  /\ pc = [r \in Requests |-> "idle"]
  /\ finCopy = [r \in Requests |-> FALSE]
  /\ stepCopy = [r \in Requests |-> NoStep]
  /\ seen = [r \in Requests |-> 0]
  /\ ran = {}
  /\ restarts = 0

Pending  == {s \in steps : s.status = "pending_approval"}
InFlight == {r \in Requests : pc[r] \notin {"idle", "done", "dropped"}}
-----------------------------------------------------------------------------
(***************************************************************************)
(* The database, as gorm drives it.                                        *)
(***************************************************************************)

\* Mutant of Insertable: the unique index on the step number is not there.
InsertableWithoutIndex(row) == ForeignKeys => run.status \notin Absent

\* An INSERT into agent_steps is refused by the unique index idx_run_step and,
\* where foreign keys are enforced, when the run is gone.  No caller looks at
\* the error.
Insertable(row) ==
  /\ \A s \in steps : s.num # row.num
  /\ ForeignKeys => run.status \notin Absent

Inserted(row) == IF Insertable(row) THEN steps \cup {row} ELSE steps

\* Save(&step): UPDATE by primary key and, when no row matched, INSERT.
Saved(row) ==
  IF \E s \in steps : s.id = row.id
  THEN {s \in steps : s.id # row.id} \cup {row}
  ELSE Inserted(row)

\* doAgentTurn's db.DB.Create(&step): a fresh primary key, and the number
\* len(steps) + 1 from the length this request read before it called the LLM.
CreateStep(r, kind, status) ==
  LET row == [id |-> nextId, num |-> seen[r] + 1, kind |-> kind, status |-> status]
  IN  /\ steps' = Inserted(row)
      /\ nextId' = IF Insertable(row) THEN nextId + 1 ELSE nextId
      /\ seen' = [seen EXCEPT ![r] = 0]

\* Save(run): the whole row from the local copy, inserted again if it is gone.
SaveRun(status, finished) == run' = [status |-> status, finished |-> finished]

Goto(r, from, to) ==
  /\ pc[r] = from
  /\ pc' = [pc EXCEPT ![r] = to]
-----------------------------------------------------------------------------
(***************************************************************************)
(* The start of a request.  Calls refused before they touch the database   *)
(* (unknown run, another user's run, a status that does not match) have no *)
(* effect and are left out.                                                *)
(***************************************************************************)
CreateAgentRun(r) ==
  /\ run.status = "none"
  /\ Cardinality(InFlight) < MaxInFlight
  /\ Goto(r, "idle", "turn")
  /\ SaveRun("running", FALSE)
  /\ UNCHANGED <<steps, nextId, finCopy, stepCopy, seen, ran, restarts>>

\* loadOwnedAgentRun and the status check of the handler that called it.
LoadRun(r, op, statuses, next) ==
  /\ op \in Operations
  /\ run.status \in statuses
  /\ Cardinality(InFlight) < MaxInFlight
  /\ Goto(r, "idle", next)
  /\ finCopy' = [finCopy EXCEPT ![r] = run.finished]
  /\ UNCHANGED <<dbVars, seen, ran, restarts>>

\* The path of an approval or a rejection names a step.  One that is already
\* decided when the call arrives is refused without effect and left out.
LoadRunForStep(r, op) ==
  /\ LoadRun(r, op, {"awaiting_approval"}, op)
  /\ \E s \in Pending : stepCopy' = [stepCopy EXCEPT ![r] = s]

ApproveAgentStep(r) == LoadRunForStep(r, "approve")
RejectAgentStep(r)  == LoadRunForStep(r, "reject")

CancelAgentRun(r)   == LoadRun(r, "cancel", Active, "cancel_steps") /\ UNCHANGED stepCopy
DeleteAgentRun(r)   == LoadRun(r, "delete", Active \cup Terminal, "delete_steps")
                       /\ UNCHANGED stepCopy

\* The step of the path is read again; 404 or 409 when it is gone or decided.
ReadStepToApprove(r) ==
  /\ stepCopy[r] \in Pending
  /\ Goto(r, "approve", "execute")
  /\ UNCHANGED <<dbVars, finCopy, stepCopy, seen, ran, restarts>>

ReadStepToReject(r) ==
  /\ stepCopy[r] \in Pending
  /\ Goto(r, "reject", "save_step")
  /\ stepCopy' = [stepCopy EXCEPT ![r].status = "rejected"]
  /\ UNCHANGED <<dbVars, finCopy, seen, ran, restarts>>

StepNotPending(r) ==
  /\ stepCopy[r] \notin Pending
  /\ \E label \in {"approve", "reject"} : Goto(r, label, "done")
  /\ stepCopy' = [stepCopy EXCEPT ![r] = NoStep]
  /\ UNCHANGED <<dbVars, finCopy, seen, ran, restarts>>
-----------------------------------------------------------------------------
(***************************************************************************)
(* The decision on a step.                                                 *)
(***************************************************************************)

\* Mutant of RefuseTool: a refused call is recorded as executed.
RefuseToolAsExecuted(r) ==
  /\ Goto(r, "execute", "save_step")
  /\ stepCopy' = [stepCopy EXCEPT ![r].status = "executed"]
  /\ UNCHANGED <<dbVars, finCopy, seen, ran, restarts>>

\* executeAgentStep refuses the call before it reaches the tool: arguments
\* that do not parse, another server's id, a server row that is gone, an SSH
\* connection that fails.
RefuseTool(r) ==
  /\ Goto(r, "execute", "save_step")
  /\ stepCopy' = [stepCopy EXCEPT ![r].status = "failed"]
  /\ UNCHANGED <<dbVars, finCopy, seen, ran, restarts>>

\* Mutant of RunTool: a tool that failed leaves its step pending, to try again.
RunToolRetryable(r) ==
  /\ Goto(r, "execute", "save_step")
  /\ \E outcome \in {"executed", "pending_approval"} :
       stepCopy' = [stepCopy EXCEPT ![r].status = outcome]
  /\ ran' = ran \cup {<<r, stepCopy[r].id>>}
  /\ UNCHANGED <<dbVars, finCopy, seen, restarts>>

\* The tool runs, over SSH or MCP; its outcome is recorded in the local copy.
RunTool(r) ==
  /\ Goto(r, "execute", "save_step")
  /\ \E outcome \in {"executed", "failed"} :
       stepCopy' = [stepCopy EXCEPT ![r].status = outcome]
  /\ ran' = ran \cup {<<r, stepCopy[r].id>>}
  /\ UNCHANGED <<dbVars, finCopy, seen, restarts>>

\* Mutant of SaveStep: the decision is never written.
SaveStepForgotten(r) ==
  /\ Goto(r, "save_step", "save_running")
  /\ stepCopy' = [stepCopy EXCEPT ![r] = NoStep]
  /\ UNCHANGED <<dbVars, finCopy, seen, ran, restarts>>

SaveStep(r) ==
  /\ Goto(r, "save_step", "save_running")
  /\ steps' = Saved(stepCopy[r])
  /\ stepCopy' = [stepCopy EXCEPT ![r] = NoStep]
  /\ UNCHANGED <<run, nextId, finCopy, seen, ran, restarts>>

\* Mutant of SaveRunning: only the status column is updated.
SaveRunningStatusOnly(r) ==
  /\ Goto(r, "save_running", "turn")
  /\ run' = [run EXCEPT !.status = "running"]
  /\ UNCHANGED <<steps, nextId, finCopy, stepCopy, seen, ran, restarts>>

SaveRunning(r) ==
  /\ Goto(r, "save_running", "turn")
  /\ SaveRun("running", finCopy[r])
  /\ UNCHANGED <<steps, nextId, finCopy, stepCopy, seen, ran, restarts>>
-----------------------------------------------------------------------------
(***************************************************************************)
(* doAgentTurn: read the steps, call the LLM, act on what it answers.      *)
(***************************************************************************)
\* Mutant of ReadSteps: the limit is off by one.
ReadStepsOneMore(r) ==
  /\ Cardinality(steps) <= MaxTurns
  /\ Goto(r, "turn", "llm")
  /\ seen' = [seen EXCEPT ![r] = Cardinality(steps)]
  /\ UNCHANGED <<dbVars, finCopy, stepCopy, ran, restarts>>

ReadSteps(r) ==
  /\ Cardinality(steps) < MaxTurns
  /\ Goto(r, "turn", "llm")
  /\ seen' = [seen EXCEPT ![r] = Cardinality(steps)]
  /\ UNCHANGED <<dbVars, finCopy, stepCopy, ran, restarts>>

OutOfTurns(r) == pc[r] = "turn" /\ Cardinality(steps) >= MaxTurns

\* Mutant of FailAgentRun: the handler returns and leaves the run as it is.
ReturnWithoutFailing(r) ==
  /\ \/ OutOfTurns(r) /\ Goto(r, "turn", "done")
     \/ Goto(r, "llm", "done")
  /\ seen' = [seen EXCEPT ![r] = 0]
  /\ UNCHANGED <<dbVars, finCopy, stepCopy, ran, restarts>>

\* failAgentRun: no turns left, the server or the user is gone, or the LLM
\* call failed.
FailAgentRun(r) ==
  /\ \/ OutOfTurns(r) /\ Goto(r, "turn", "done")
     \/ Goto(r, "llm", "done")
  /\ SaveRun("failed", TRUE)
  /\ seen' = [seen EXCEPT ![r] = 0]
  /\ UNCHANGED <<steps, nextId, finCopy, stepCopy, ran, restarts>>

ProposeAnswer(r) ==
  /\ Goto(r, "llm", "save_completed")
  /\ CreateStep(r, "final_answer", "executed")
  /\ UNCHANGED <<run, finCopy, stepCopy, ran, restarts>>

SaveCompleted(r) ==
  /\ Goto(r, "save_completed", "done")
  /\ SaveRun("completed", TRUE)
  /\ UNCHANGED <<steps, nextId, finCopy, stepCopy, seen, ran, restarts>>

\* A tool that is not offered: recorded as failed, and another turn at once.
ProposeUnknownTool(r) ==
  /\ Goto(r, "llm", "turn")
  /\ CreateStep(r, "unknown_tool", "failed")
  /\ UNCHANGED <<run, finCopy, stepCopy, ran, restarts>>

\* Mutant of ProposeTool: the tool is called without waiting for an approval.
ProposeToolUnasked(r) ==
  /\ Goto(r, "llm", "execute")
  /\ CreateStep(r, "tool", "pending_approval")
  /\ stepCopy' = [stepCopy EXCEPT ![r] = [id |-> nextId, num |-> seen[r] + 1,
                                          kind |-> "tool", status |-> "failed"]]
  /\ UNCHANGED <<run, finCopy, ran, restarts>>

ProposeTool(r) ==
  /\ Goto(r, "llm", "save_awaiting")
  /\ CreateStep(r, "tool", "pending_approval")
  /\ UNCHANGED <<run, finCopy, stepCopy, ran, restarts>>

SaveAwaiting(r) ==
  /\ Goto(r, "save_awaiting", "done")
  /\ SaveRun("awaiting_approval", finCopy[r])
  /\ UNCHANGED <<steps, nextId, finCopy, stepCopy, seen, ran, restarts>>
-----------------------------------------------------------------------------
(***************************************************************************)
(* CancelAgentRun and DeleteAgentRun: two statements each.                 *)
(***************************************************************************)
\* Mutant of RejectPendingSteps: the pending step survives the cancellation.
KeepPendingSteps(r) ==
  /\ Goto(r, "cancel_steps", "save_cancelled")
  /\ UNCHANGED <<dbVars, finCopy, stepCopy, seen, ran, restarts>>

RejectPendingSteps(r) ==
  /\ Goto(r, "cancel_steps", "save_cancelled")
  /\ steps' = {IF s.status = "pending_approval" THEN [s EXCEPT !.status = "rejected"]
               ELSE s : s \in steps}
  /\ UNCHANGED <<run, nextId, finCopy, stepCopy, seen, ran, restarts>>

SaveCancelled(r) ==
  /\ Goto(r, "save_cancelled", "done")
  /\ SaveRun("cancelled", TRUE)
  /\ UNCHANGED <<steps, nextId, finCopy, stepCopy, seen, ran, restarts>>

DeleteSteps(r) ==
  /\ Goto(r, "delete_steps", "delete_run")
  /\ steps' = {}
  /\ UNCHANGED <<run, nextId, finCopy, stepCopy, seen, ran, restarts>>

\* The foreign key refuses to delete a run that has steps again.
DeleteRun(r) ==
  /\ Goto(r, "delete_run", "done")
  /\ run' = IF ForeignKeys /\ steps # {} THEN run
            ELSE [status |-> "deleted", finished |-> FALSE]
  /\ UNCHANGED <<steps, nextId, finCopy, stepCopy, seen, ran, restarts>>

\* The process stops and starts again: the requests in flight are dropped
\* unanswered, and nothing resumes a run.
Restart ==
  /\ restarts < RestartBudget
  /\ restarts' = restarts + 1
  /\ pc' = [r \in Requests |-> IF r \in InFlight THEN "dropped" ELSE pc[r]]
  /\ stepCopy' = [r \in Requests |-> NoStep]
  /\ seen' = [r \in Requests |-> 0]
  /\ UNCHANGED <<dbVars, finCopy, ran>>
-----------------------------------------------------------------------------
Start(r) ==
  \/ CreateAgentRun(r)
  \/ ApproveAgentStep(r)
  \/ RejectAgentStep(r)
  \/ CancelAgentRun(r)
  \/ DeleteAgentRun(r)

Work(r) ==
  \/ ReadStepToApprove(r) \/ ReadStepToReject(r) \/ StepNotPending(r)
  \/ RefuseTool(r) \/ RunTool(r) \/ SaveStep(r) \/ SaveRunning(r)
  \/ ReadSteps(r) \/ FailAgentRun(r)
  \/ ProposeAnswer(r) \/ SaveCompleted(r)
  \/ ProposeUnknownTool(r) \/ ProposeTool(r) \/ SaveAwaiting(r)
  \/ RejectPendingSteps(r) \/ SaveCancelled(r)
  \/ DeleteSteps(r) \/ DeleteRun(r)

Next == (\E r \in Requests : Start(r) \/ Work(r)) \/ Restart

Spec == Init /\ [][Next]_vars

\* A handler that started goes on: every call it makes is bounded by a timeout.
FairSpec == Spec /\ \A r \in Requests : WF_vars(Work(r))
-----------------------------------------------------------------------------
(***************************************************************************)
(* Properties.                                                             *)
(***************************************************************************)

\* Every variable has its type; a step's number stays within the turn budget.
TypeOK ==
  /\ run \in Run
  /\ steps \subseteq Step
  /\ nextId \in Nat
  /\ pc \in [Requests -> Labels]
  /\ finCopy \in [Requests -> BOOLEAN]
  /\ stepCopy \in [Requests -> Step]
  /\ seen \in [Requests -> 0..MaxTurns]
  /\ ran \subseteq Requests \X Nat
  /\ restarts \in Nat

\* A run never records more than maxAgentTurns steps, however many requests
\* count the steps and then add one at the same time.
TurnBudget == Cardinality(steps) <= MaxTurns

\* finished_at is set exactly on a completed, failed or cancelled run, however
\* the whole-row saves of overlapping requests overwrite each other.
FinishedIffTerminal == run.finished <=> run.status \in Terminal

\* A step whose decision is recorded never becomes pending again, so a stale
\* save cannot put a decided action in front of the operator once more.
DecisionsAreFinal ==
  [][\A s \in steps, t \in steps' :
       s.id = t.id /\ s.status # "pending_approval" => t.status # "pending_approval"]_vars

\* A tool step recorded as executed did run: the log never claims an action
\* that was refused, rejected or lost.
ExecutedDidRun ==
  \A s \in steps : s.kind = "tool" /\ s.status = "executed" =>
    \E r \in Requests : <<r, s.id>> \in ran

\* A tool that ran is up for decision again only while the approval that ran it
\* has yet to save the step, or because a restart cut that approval off.  Once
\* an approval went on, no interleaving and no later save brings its step back:
\* a second run takes a second approval that overlaps the first, or a crash.
RanIsDecided ==
  \A s \in Pending, r \in Requests : <<r, s.id>> \in ran =>
    \/ pc[r] = "save_step" /\ stepCopy[r].id = s.id
    \/ pc[r] = "dropped"

\* A run left in status running has a handler that still drives it, unless the
\* server restarted: no interleaving of decisions, cancellations and deletions
\* strands it.
NoStrandedRun ==
  run.status = "running" /\ restarts = 0 => InFlight # {}

\* Every run that is running comes to wait for a decision or ends.  A restart may
\* strand it; and once a deletion in its midst has removed steps that an insertion
\* counted, the next step number may be one that is taken: doAgentTurn then
\* records nothing and asks the LLM again for as long as it names unknown tools.
StepsLost == Cardinality(steps) < nextId - 1
RunSettles ==
  run.status = "running" ~> run.status # "running" \/ restarts > 0 \/ StepsLost

\* What follows down to AwaitedStepExists one would like to hold and the code does
\* not keep it: requests that overlap or a restart break each of them.

\* Between requests, a run awaits approval exactly when one step is pending:
\* there is something to decide, and only one thing.
AwaitsOneStep ==
  InFlight = {} =>
    /\ Cardinality(Pending) <= 1
    /\ run.status = "awaiting_approval" <=> Pending # {}

\* Approving runs a tool at most once: not when two approvals both find the step
\* pending, nor when a restart comes between the tool and the save.
ToolRunsOnce ==
  \A e, f \in ran : e[2] = f[2] => e = f

\* A run that ended stays as it ended; only its deletion follows: not when an
\* overlapping request writes back the whole row it loaded before.
TerminalIsFinal ==
  [][run.status \in Terminal => run' = run \/ run'.status = "deleted"]_vars

\* buildMessageHistory tells the LLM of a rejected step that it "was not
\* executed".  So once every request is answered, no step on record as rejected
\* has run.
RejectedDidNotRun ==
  InFlight = {} =>
    \A s \in steps : s.status = "rejected" =>
      \A r \in Requests : <<r, s.id>> \notin ran

\* doAgentTurn's comment: a turn leaves a pending step to decide, or the run is
\* over.  So a run that nobody is working on never awaits a step it lacks.
AwaitedStepExists ==
  InFlight = {} /\ restarts = 0 /\ run.status = "awaiting_approval" => Pending # {}
-----------------------------------------------------------------------------
(***************************************************************************)
(* Refinement of AgentApproval.                                            *)
(***************************************************************************)
\* Steps whose decision a handler has taken and not yet recorded.
Deciding == {stepCopy[r].id : r \in {q \in Requests : pc[q] = "save_step"
                                       /\ stepCopy[q].status # "rejected"}}
Undecided == {s.id : s \in Pending} \ Deciding

Phase ==
  IF run.status = "none" THEN "none"
  ELSE IF run.status = "deleted" \/ \E r \in Requests : pc[r] = "delete_run" THEN "gone"
  ELSE IF run.status \in Terminal THEN "ended"
  ELSE IF run.status = "awaiting_approval" /\ Undecided # {} THEN "waiting"
  ELSE "thinking"

Current  == IF Phase = "waiting" THEN Undecided ELSE {}
Executed == {e[2] : e \in ran}
Refused  == {s.id : s \in {q \in steps : q.status = "rejected"}}

Approval == INSTANCE AgentApproval WITH
  Proposals <- 1..MaxTurns, phase <- Phase, current <- Current,
  executed <- Executed, refused <- Refused

\* Served one request at a time, the handlers implement the approval protocol.
\* The code does not serialise requests: this says what the handlers promise when
\* nothing overlaps, and the overlaps above are where they break it.
ImplementsApproval == Approval!Spec
=============================================================================
