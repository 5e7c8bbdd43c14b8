------------------------------ MODULE AgentRun ------------------------------
(***************************************************************************)
(* One agent run: the request that creates it and starts AgentRunWorkflow, *)
(* the workflow and the attempts of its activities, cancel requests, and   *)
(* the row of agent_runs that they all read and later overwrite.  An       *)
(* attempt that outlives its timeout has failed for the workflow and goes  *)
(* on in the worker, beside its successors.  The row is committed CREATED  *)
(* by create_agent_run_activity, or QUEUED by the API, which starts the    *)
(* workflow first and queues the run itself in the same transaction.       *)
(***************************************************************************)
EXTENDS Integers, FiniteSets

CONSTANTS
  AgentCancels,     \* cancel requests
  MaxAgentFaults    \* bound: attempts that die or time out, results and signals lost

ASSUME AgentRunAssumption == MaxAgentFaults \in Nat

VARIABLES
  agentOrigin,    \* who creates the run: "api" or "activity"
  agentNests,     \* run_until_complete works inside a running loop
  agentCreate,    \* the creating request
  agentRow,       \* the committed status, "absent" before
  agentWf,        \* where the workflow is
  agentTries,     \* attempts of the current activity
  agentCopy,      \* the status the running attempt has read
  agentOk,        \* the agent loop's success
  agentSignal,    \* _cancel_requested
  agentCancel,    \* what each cancel request is about to write
  agentLate,      \* attempts that outlived their timeout and still run
  agentRuns,      \* history: executions of the agent loop
  agentStale,     \* history: a late attempt overwrote a status it had not read
  agentFaults     \* bound used up

agentAttempt == <<agentTries, agentCopy, agentOk>>
agentLateVars == <<agentLate, agentRuns, agentStale>>
agentVars == <<agentOrigin, agentNests, agentCreate, agentRow, agentWf, agentAttempt,
               agentLateVars, agentSignal, agentCancel, agentFaults>>
agentFixed == <<agentOrigin, agentNests>>

AgentStatuses ==
  {"created", "queued", "running", "completed", "failed", "cancelling", "cancelled"}

\* Seeded slip: a failed run may be failed again.
Mut_FailedAgain ==
  { <<"created", "queued">>, <<"queued", "running">>, <<"queued", "cancelled">>,
    <<"running", "completed">>, <<"running", "failed">>, <<"failed", "failed">>,
    <<"running", "cancelling">>, <<"running", "cancelled">>,
    <<"cancelling", "cancelled">> }

\* _VALID_TRANSITIONS; start() takes QUEUED through STARTING to RUNNING.
AgentTransitions ==
  { <<"created", "queued">>, <<"queued", "running">>, <<"queued", "cancelled">>,
    <<"running", "completed">>, <<"running", "failed">>,
    <<"running", "cancelling">>, <<"running", "cancelled">>,
    <<"cancelling", "cancelled">> }

\* No attempt is running; its loop has been executed and the row is read next.
NoCopy == "none"
Executed == "executed"

AgentInit ==
  /\ agentOrigin \in {"api", "activity"} /\ agentNests \in BOOLEAN
  /\ agentCreate = "idle" /\ agentRow = "absent" /\ agentWf = "idle"
  /\ agentTries = 0 /\ agentCopy = NoCopy /\ agentOk = FALSE
  /\ agentSignal = FALSE /\ agentCancel = [c \in AgentCancels |-> "idle"]
  /\ agentLate = {} /\ agentRuns = 0 /\ agentStale = FALSE /\ agentFaults = 0

----------------------------------------------------------------------------
(* The creating side.                                                      *)

\* create_agent_run_activity commits the run, and a client starts its workflow.
CreateByActivity ==
  /\ agentOrigin = "activity" /\ agentCreate = "idle"
  /\ agentCreate' = "closed" /\ agentRow' = "created" /\ agentWf' = "queue"
  /\ UNCHANGED <<agentFixed, agentAttempt, agentLateVars, agentSignal, agentCancel,
                 agentFaults>>

\* POST /agent-runs: the run is flushed, not committed, and the workflow starts.
StartByRequest ==
  /\ agentOrigin = "api" /\ agentCreate = "idle"
  /\ agentCreate' = "started" /\ agentWf' = "queue"
  /\ UNCHANGED <<agentFixed, agentRow, agentAttempt, agentLateVars, agentSignal,
                 agentCancel, agentFaults>>

\* QueueAgentRunHandler in the same session, then the commit.
CommitRequest ==
  /\ agentCreate = "started" /\ agentCreate' = "closed" /\ agentRow' = "queued"
  /\ UNCHANGED <<agentFixed, agentWf, agentAttempt, agentLateVars, agentSignal,
                 agentCancel, agentFaults>>

AgentFault == agentFaults < MaxAgentFaults /\ agentFaults' = agentFaults + 1

\* The request fails after the workflow was started: nothing is committed.
RollBackRequest ==
  /\ AgentFault /\ agentCreate = "started" /\ agentCreate' = "closed"
  /\ UNCHANGED <<agentFixed, agentRow, agentWf, agentAttempt, agentLateVars,
                 agentSignal, agentCancel>>

----------------------------------------------------------------------------
(* A cancel request reads the row, signals the workflow and commits.       *)

AgentCancelTarget(force) == IF force THEN "cancelled" ELSE "cancelling"

ReadForCancel(c, force) ==
  /\ agentCancel[c] = "idle" /\ <<agentRow, AgentCancelTarget(force)>> \in AgentTransitions
  /\ agentCancel' = [agentCancel EXCEPT ![c] = AgentCancelTarget(force)]
  /\ \/ agentSignal' = TRUE /\ UNCHANGED agentFaults
     \/ AgentFault /\ UNCHANGED agentSignal
  /\ UNCHANGED <<agentFixed, agentCreate, agentRow, agentWf, agentAttempt, agentLateVars>>

CommitCancel(c) ==
  /\ agentCancel[c] \in {"cancelled", "cancelling"}
  /\ agentRow' = agentCancel[c] /\ agentCancel' = [agentCancel EXCEPT ![c] = "done"]
  /\ UNCHANGED <<agentFixed, agentCreate, agentWf, agentAttempt, agentLateVars,
                 agentSignal, agentFaults>>

----------------------------------------------------------------------------
(* The workflow and the attempts of its activities.                        *)

LifecycleSteps == {"queue", "start", "cancel", "report"}
ActivitySteps == LifecycleSteps \cup {"loop"}

\* maximum_attempts
AgentAttempts(step) == IF step = "loop" THEN 2 ELSE 3

\* The status an activity writes: queue, start, cancel(force), fail; the loop
\* activity completes or fails the run itself.
Target(step, ok) ==
  CASE step = "queue"  -> "queued"
    [] step = "start"  -> "running"
    [] step = "cancel" -> "cancelled"
    [] step = "report" -> "failed"
    [] step = "loop"   -> IF ok THEN "completed" ELSE "failed"

\* What the workflow does once the activity has answered.
AfterStep(step) ==
  CASE step = "queue"  -> "start"
    [] step = "start"  -> IF agentSignal THEN "cancel" ELSE "loop"
    [] step = "cancel" -> "cancelled"
    [] step = "report" -> "failed"
    [] step = "loop"   -> IF agentOk THEN "completed" ELSE "report"

\* Seeded slip: one attempt more than maximum_attempts.
Mut_AttemptsLeftOneMore == agentTries <= AgentAttempts(agentWf)

AttemptsLeft == agentTries < AgentAttempts(agentWf)

\* A handler reads the row first thing, that of the loop activity after the loop.
MayRead(step, copy) == copy = (IF step = "loop" THEN Executed ELSE NoCopy)

\* The attempt raises: the run is missing, or the transition is refused.
AttemptFails ==
  /\ agentTries' = agentTries + 1 /\ agentCopy' = NoCopy
  /\ UNCHANGED <<agentFixed, agentCreate, agentRow, agentWf, agentOk, agentLate, agentStale,
                 agentSignal, agentCancel>>

ReadRun ==
  /\ agentWf \in ActivitySteps /\ AttemptsLeft /\ MayRead(agentWf, agentCopy)
  /\ IF <<agentRow, Target(agentWf, agentOk)>> \in AgentTransitions
     THEN /\ agentCopy' = agentRow
          /\ UNCHANGED <<agentFixed, agentCreate, agentRow, agentWf, agentTries, agentOk,
                         agentLate, agentStale, agentSignal, agentCancel>>
     ELSE AttemptFails
  /\ UNCHANGED <<agentRuns, agentFaults>>

\* execute_agent_loop_activity runs the whole loop; execute_sync raises
\* RuntimeError where a loop may not run inside the worker's.
ExecuteLoop(ok) ==
  /\ agentWf = "loop" /\ AttemptsLeft /\ agentCopy = NoCopy
  /\ IF agentNests
     THEN /\ agentCopy' = Executed /\ agentOk' = ok /\ agentRuns' = agentRuns + 1
          /\ UNCHANGED <<agentFixed, agentCreate, agentRow, agentWf, agentTries, agentLate,
                         agentStale, agentSignal, agentCancel>>
     ELSE AttemptFails /\ UNCHANGED agentRuns
  /\ UNCHANGED agentFaults

\* The commit writes the status over whatever the row has become since; the
\* answer reaches the workflow, or is lost and the activity tried again.
CommitRun ==
  /\ agentCopy \in AgentStatuses
  /\ agentRow' = Target(agentWf, agentOk) /\ agentCopy' = NoCopy
  /\ \/ agentWf' = AfterStep(agentWf) /\ agentTries' = 0 /\ UNCHANGED agentFaults
     \/ AgentFault /\ agentTries' = agentTries + 1 /\ UNCHANGED agentWf
  /\ UNCHANGED <<agentFixed, agentCreate, agentOk, agentLateVars, agentSignal,
                 agentCancel>>

\* The worker dies in an attempt.
LoseAttempt == AgentFault /\ agentCopy # NoCopy /\ AttemptFails /\ UNCHANGED agentRuns

\* The last attempt has failed: the workflow fails and leaves the row as it is.
GiveUp ==
  /\ agentWf \in ActivitySteps /\ ~AttemptsLeft
  /\ agentWf' = "error"
  /\ UNCHANGED <<agentFixed, agentCreate, agentRow, agentAttempt, agentLateVars,
                 agentSignal, agentCancel, agentFaults>>

----------------------------------------------------------------------------
(* Attempts that outlive start_to_close_timeout, numbered by the fault.    *)

OutliveTimeout ==
  /\ AgentFault /\ agentWf \in ActivitySteps /\ AttemptsLeft
  /\ agentLate' = agentLate \cup
       {[no |-> agentFaults', step |-> agentWf, copy |-> agentCopy, ok |-> agentOk]}
  /\ agentTries' = agentTries + 1 /\ agentCopy' = NoCopy
  /\ UNCHANGED <<agentFixed, agentCreate, agentRow, agentWf, agentOk, agentRuns, agentStale,
                 agentSignal, agentCancel>>

lateUnchanged == <<agentFixed, agentCreate, agentWf, agentAttempt, agentSignal, agentCancel,
                   agentFaults>>

\* The late attempt a goes on as b, or is over.
GoesOn(a, b) == agentLate' = (agentLate \ {a}) \cup {b}
IsOver(a) == agentLate' = agentLate \ {a}

LateExecute(a, ok) ==
  /\ a.step = "loop" /\ a.copy = NoCopy
  /\ IF agentNests
     THEN GoesOn(a, [a EXCEPT !.copy = Executed, !.ok = ok]) /\ agentRuns' = agentRuns + 1
     ELSE IsOver(a) /\ UNCHANGED agentRuns
  /\ UNCHANGED <<lateUnchanged, agentRow, agentStale>>

LateRead(a) ==
  /\ MayRead(a.step, a.copy)
  /\ IF <<agentRow, Target(a.step, a.ok)>> \in AgentTransitions
     THEN GoesOn(a, [a EXCEPT !.copy = agentRow])
     ELSE IsOver(a)
  /\ UNCHANGED <<lateUnchanged, agentRow, agentRuns, agentStale>>

LateCommit(a) ==
  /\ a.copy \in AgentStatuses
  /\ agentRow' = Target(a.step, a.ok) /\ IsOver(a)
  /\ agentStale' = (agentStale \/ a.copy # agentRow)
  /\ UNCHANGED <<lateUnchanged, agentRuns>>

AgentNext ==
  \/ CreateByActivity \/ StartByRequest \/ CommitRequest \/ RollBackRequest
  \/ \E c \in AgentCancels :
       (\E force \in BOOLEAN : ReadForCancel(c, force)) \/ CommitCancel(c)
  \/ ReadRun \/ (\E ok \in BOOLEAN : ExecuteLoop(ok)) \/ CommitRun \/ LoseAttempt \/ GiveUp
  \/ OutliveTimeout
  \/ \E a \in agentLate :
       (\E ok \in BOOLEAN : LateExecute(a, ok)) \/ LateRead(a) \/ LateCommit(a)

AgentSpec == AgentInit /\ [][AgentNext]_agentVars

----------------------------------------------------------------------------
(* Properties.                                                             *)

AgentTypeOK ==
  /\ agentOrigin \in {"api", "activity"} /\ agentNests \in BOOLEAN
  /\ agentCreate \in {"idle", "started", "closed"}
  /\ agentRow \in AgentStatuses \cup {"absent"}
  /\ agentWf \in ActivitySteps \cup {"idle", "completed", "cancelled", "failed", "error"}
  /\ agentTries \in 0..3 /\ agentCopy \in AgentStatuses \cup {NoCopy, Executed}
  /\ agentOk \in BOOLEAN /\ agentSignal \in BOOLEAN
  /\ agentCancel \in [AgentCancels -> {"idle", "cancelled", "cancelling", "done"}]
  /\ agentLate \subseteq [no : 1..MaxAgentFaults, step : ActivitySteps,
                          copy : AgentStatuses \cup {NoCopy, Executed}, ok : BOOLEAN]
  /\ agentRuns \in Nat /\ agentStale \in BOOLEAN /\ agentFaults \in 0..MaxAgentFaults

(* The workflow returns the status "failed", which its docstring and its   *)
(* last branch announce, only where a late attempt has written over a      *)
(* status it had not read: by the time it runs fail_agent_run_activity the *)
(* loop activity has committed FAILED, a cancel request may have           *)
(* overwritten that, and nothing but such a write brings back a row that   *)
(* may fail.                                                               *)
FailureReportNeedsStaleWrite == agentWf = "failed" => agentStale

(* The agent loop, with its provider and tool calls, runs at most twice,   *)
(* those of attempts that outlived their timeout included.                 *)
ExecutionsBounded == agentRuns <= 2

(* agents/api/router.py: "Create a new agent run and schedule its          *)
(* execution": where the loop can run inside the worker's, the workflow of *)
(* a run that exists does not end without having executed it.              *)
CreatedRunIsExecuted ==
  /\ agentNests /\ agentRow # "absent"
  /\ agentWf \in {"completed", "cancelled", "failed", "error"}
  => agentRuns > 0
============================================================================
