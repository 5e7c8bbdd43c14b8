---------------------------- MODULE RunAggregate ----------------------------
(***************************************************************************)
(* What the lifecycle of one evaluation run promises when every operation  *)
(* is applied to the latest run: one aggregate, one operation at a time.   *)
(* EvaluationWorkflow is shown to implement this specification as long as  *)
(* nothing else writes the run while an activity holds its copy.           *)
(***************************************************************************)
EXTENDS EvaluationRun

CONSTANT MaxCount      \* bound on the item counters an operation is given

ASSUME MaxCountAssumption == MaxCount \in Nat

VARIABLES run,         \* the aggregate
          checkpoint   \* a RunCheckpoint has been saved

aggregateVars == <<run, checkpoint>>

AggregateTypeOK == run \in Runs /\ checkpoint \in BOOLEAN

AggregateInit == run = NewRun /\ checkpoint = FALSE

QueueRun == run' = Queue(run) /\ UNCHANGED checkpoint

StartRun(n) == CanStart(run, n) /\ run' = Start(run, n) /\ UNCHANGED checkpoint

\* A progress command carries cumulative totals, which the handler takes as they are.
UpdateRunProgress(c, f) ==
  run' = UpdateProgress(run, c, f) /\ UNCHANGED checkpoint

CompleteRun == CanComplete(run) /\ run' = Complete(run) /\ UNCHANGED checkpoint

FailRun == CanFail(run) /\ run' = Fail(run) /\ UNCHANGED checkpoint

CancelRun(force) ==
  CanCancel(run, force) /\ run' = Cancel(run, force) /\ UNCHANGED checkpoint

FinalizeIntegrity == run' = SetIntegrity(run) /\ UNCHANGED checkpoint

PauseRun ==
  /\ CanTransition(run, "paused", FALSE, checkpoint)
  /\ run' = MoveTo(run, "paused")
  /\ UNCHANGED checkpoint

ResumeRun ==
  /\ CanTransition(run, "running", FALSE, checkpoint)
  /\ run' = MoveTo(run, "running")
  /\ UNCHANGED checkpoint

TimeoutRun ==
  /\ CanTransition(run, "timedout", FALSE, checkpoint)
  /\ run' = MoveTo(run, "timedout")
  /\ UNCHANGED checkpoint

SaveCheckpoint == checkpoint' = TRUE /\ UNCHANGED run

AggregateNext ==
  \/ QueueRun
  \/ \E n \in 0 .. MaxCount : StartRun(n)
  \/ \E c, f \in 0 .. MaxCount : UpdateRunProgress(c, f)
  \/ CompleteRun
  \/ FailRun
  \/ \E force \in BOOLEAN : CancelRun(force)
  \/ FinalizeIntegrity
  \/ PauseRun
  \/ ResumeRun
  \/ TimeoutRun
  \/ SaveCheckpoint

AggregateSpec == AggregateInit /\ [][AggregateNext]_aggregateVars

-----------------------------------------------------------------------------
\* No operation moves a run out of a terminal status (docs STATE_MACHINE.md:
\* "No operation can transition a run out of a terminal state").
TerminalStatusKept ==
  [][run.status \in TerminalStatuses => run'.status = run.status]_aggregateVars

\* The counters only grow, and a failed item is always counted as completed:
\* the item-by-item recording of progress deltas keeps both.
ProgressMonotone ==
  [][/\ run'.completed >= run.completed
     /\ run'.failed >= run.failed
     /\ run.failed <= run.completed => run'.failed <= run'.completed]_aggregateVars

\* A run is only moved to COMPLETED when every item has been processed, also
\* when a cancellation was under way.
CompletedOnlyWhenAllItems ==
  [][run.status # "completed" /\ run'.status = "completed"
       => run.completed >= run.total]_aggregateVars
=============================================================================
