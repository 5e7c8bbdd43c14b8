---------------------------- MODULE Orchestrator ----------------------------
(***************************************************************************)
(* EvaluationOrchestrator: a run executed inside the process.  execute_run *)
(* queues and plans the run, starts it, lets the executor go through its   *)
(* stages and finalizes it; pause_run, resume_run and cancel_run come      *)
(* between any two of its awaits and load the run from the repository      *)
(* themselves.  A repository that keeps the aggregate hands every caller   *)
(* the same object; one that maps rows hands out copies, without the       *)
(* checkpoint.                                                             *)
(***************************************************************************)
EXTENDS EvaluationRun

CONSTANTS MaxOrchItems,        \* bound on the items of the plan
          MaxOrchExecutions    \* bound: the first execution and the resumed ones

ASSUME OrchestratorAssumption ==
  MaxOrchItems \in Nat /\ MaxOrchExecutions \in Nat \ {0}

VARIABLES
  orchShared,       \* the repository hands out the aggregate itself
  orchItems,        \* steps of the plan, one per row of the dataset
  orchRow,          \* the run in the repository
  orchCheckpoint,   \* a checkpoint of the run is in the checkpoint repository
  orchExec          \* the executions: where each is, its object, its items

orchVars == <<orchShared, orchItems, orchRow, orchCheckpoint, orchExec>>

OrchExecutions == 1..MaxOrchExecutions
OrchPlaces == {"idle", "plan", "invoke", "score", "finish", "done", "raised"}

OrchInit ==
  /\ orchShared \in BOOLEAN /\ orchItems \in 0..MaxOrchItems
  /\ orchRow = NewRun /\ orchCheckpoint = FALSE
  /\ orchExec = [x \in OrchExecutions |->
       [at |-> "idle", run |-> NewRun, item |-> 0, answered |-> 0, counted |-> 0]]

\* The object execution x works on.
RunOf(x) == IF orchShared THEN orchRow ELSE orchExec[x].run

\* x goes to place p and saves run.
MoveAndSave(x, p, run) ==
  /\ orchRow' = run
  /\ orchExec' = [orchExec EXCEPT ![x].at = p, ![x].run = run]
  /\ UNCHANGED <<orchShared, orchItems, orchCheckpoint>>

\* An exception within execute_run's try fails the run; when that transition is
\* refused too, its own exception leaves execute_run.
FailExecution(x) ==
  IF CanFail(RunOf(x))
  THEN MoveAndSave(x, "done", Fail(RunOf(x)))
  ELSE /\ orchExec' = [orchExec EXCEPT ![x].at = "raised"]
       /\ UNCHANGED <<orchShared, orchItems, orchRow, orchCheckpoint>>

ExecuteRun ==
  /\ orchExec[1].at = "idle" /\ MoveAndSave(1, "plan", Queue(orchRow))

\* Planning fails, or start() is refused.
PlanRaises(x) == orchExec[x].at = "plan" /\ FailExecution(x)

StartExecution(x) ==
  /\ orchExec[x].at = "plan"
  /\ IF CanStart(RunOf(x), orchItems)
     THEN MoveAndSave(x, IF orchItems = 0 THEN "score" ELSE "invoke",
                      Start(RunOf(x), orchItems))
     ELSE FailExecution(x)

\* A step that fails is counted and the stage goes on.  The context the stages
\* hold is never the one that cancel_run replaces: no step is skipped.
InvokeStep(x, ok) ==
  LET e == orchExec[x]
      one == IF ok THEN 1 ELSE 0
  IN  /\ e.at = "invoke"
      /\ orchExec' = [orchExec EXCEPT ![x] =
           [at |-> IF e.item + 1 = orchItems THEN "score" ELSE "invoke",
            run |-> e.run, item |-> e.item + 1,
            answered |-> e.answered + one, counted |-> e.counted + one]]
      /\ UNCHANGED <<orchShared, orchItems, orchRow, orchCheckpoint>>

\* Seeded slip: the plan has steps for metric dispatch as well, and the
\* executor adds their successes to the items that succeeded.
Mut_ScoreCountsAgain(x) ==
  /\ orchExec[x].at = "score"
  /\ orchExec' = [orchExec EXCEPT ![x].at = "finish", ![x].counted = @ + orchItems]
  /\ UNCHANGED <<orchShared, orchItems, orchRow, orchCheckpoint>>

\* Metric dispatch, aggregation and persistence.  The executor sums the items
\* of all stages, but every step of a plan is a provider step: these stages
\* find nothing to do and add nothing.
ScoreStages(x) ==
  /\ orchExec[x].at = "score"
  /\ orchExec' = [orchExec EXCEPT ![x].at = "finish"]
  /\ UNCHANGED <<orchShared, orchItems, orchRow, orchCheckpoint>>

\* _finalize_run of an execution no stage of which raised.  It sets
\* items_completed first; a refused complete() leaves execute_run, and the run
\* is not saved.
Finalize(x) ==
  LET counted == [RunOf(x) EXCEPT !.completed = orchExec[x].counted]
  IN  /\ orchExec[x].at = "finish"
      /\ IF CanComplete(counted)
         THEN MoveAndSave(x, "done", Complete(counted))
         ELSE /\ orchExec' = [orchExec EXCEPT ![x].at = "raised", ![x].run = counted]
              /\ orchRow' = IF orchShared THEN counted ELSE orchRow
              /\ UNCHANGED <<orchShared, orchItems, orchCheckpoint>>

----------------------------------------------------------------------------
(* Commands, and a caller that writes checkpoints.                         *)

CommandRun(run) ==
  orchRow' = run /\ UNCHANGED <<orchShared, orchItems, orchCheckpoint, orchExec>>

PauseCommand ==
  /\ orchRow.status = "running" /\ CanTransition(orchRow, "paused", FALSE, FALSE)
  /\ CommandRun(MoveTo(orchRow, "paused"))

CancelCommand(force) ==
  /\ orchRow.status \notin TerminalStatuses /\ CanCancel(orchRow, force)
  /\ CommandRun(Cancel(orchRow, force))

\* CheckpointManager, which no part of the orchestrator calls.
WriteCheckpoint ==
  /\ orchRow.status = "running" /\ ~orchCheckpoint /\ orchCheckpoint' = TRUE
  /\ UNCHANGED <<orchShared, orchItems, orchRow, orchExec>>

\* Only the shared aggregate still has its checkpoint.  The run is executed
\* anew, beside an execution that was never stopped.
ResumeCommand(x) ==
  /\ orchExec[x].at = "idle" /\ x > 1 /\ orchExec[x - 1].at # "idle"
  /\ orchRow.status = "paused" /\ orchCheckpoint
  /\ CanTransition(orchRow, "running", FALSE, orchShared)
  /\ MoveAndSave(x, "plan", MoveTo(orchRow, "running"))

OrchNext ==
  \/ ExecuteRun \/ PauseCommand \/ WriteCheckpoint
  \/ \E force \in BOOLEAN : CancelCommand(force)
  \/ \E x \in OrchExecutions :
       \/ PlanRaises(x) \/ StartExecution(x) \/ ScoreStages(x) \/ Finalize(x)
       \/ ResumeCommand(x)
       \/ \E ok \in BOOLEAN : InvokeStep(x, ok)

OrchSpec == OrchInit /\ [][OrchNext]_orchVars

----------------------------------------------------------------------------
(* Properties.                                                             *)

OrchTypeOK ==
  /\ orchShared \in BOOLEAN /\ orchItems \in Nat /\ orchCheckpoint \in BOOLEAN
  /\ orchRow \in Runs
  /\ orchExec \in [OrchExecutions ->
       [at : OrchPlaces, run : Runs, item : Nat, answered : Nat, counted : Nat]]

(* A COMPLETED run was completed by an execution that got an answer from   *)
(* the provider for every item, and by the first one: the executor reports *)
(* SUCCESS whatever fails inside a stage, so all rests on complete()'s     *)
(* guard and on no other stage adding to the items that succeeded; and     *)
(* start() refuses the run that resume_run has just moved to RUNNING.      *)
CompletedMeansAnswered ==
  orchRow.status = "completed" =>
    orchExec[1].at = "done" /\ orchExec[1].answered = orchItems
============================================================================
