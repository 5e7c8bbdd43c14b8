---------------------------- MODULE EvaluationRun ----------------------------
(***************************************************************************)
(* The EvaluationRun aggregate: its lifecycle state machine and the        *)
(* operations the command handlers apply to it.  A run is a record         *)
(*   status     the RunStatus                                              *)
(*   total      items_total, completed  items_completed, failed items_failed *)
(*   integrity  verdict, trace_data, provenance and fingerprint are set    *)
(* An operation is a pair: CanX says that the method returns, X what the   *)
(* aggregate then is.  A method that raises leaves no saved run behind:    *)
(* every caller drops the aggregate with the exception.                    *)
(***************************************************************************)
EXTENDS Integers

RunStatuses ==
  {"created", "queued", "starting", "running", "paused", "cancelling",
   "completed", "failed", "timedout", "cancelled"}

TerminalStatuses == {"completed", "failed", "timedout", "cancelled"}

Runs == [status : RunStatuses, total : Nat, completed : Nat, failed : Nat,
         integrity : BOOLEAN]

\* A freshly constructed aggregate.
NewRun == [status |-> "created", total |-> 0, completed |-> 0, failed |-> 0,
           integrity |-> FALSE]

-----------------------------------------------------------------------------
\* The transition table, without its guards.
ValidTransitions ==
  { <<"created", "queued">>,
    <<"queued", "starting">>,       <<"queued", "cancelled">>,
    <<"starting", "running">>,      <<"starting", "failed">>,
    <<"running", "paused">>,        <<"running", "cancelling">>,
    <<"running", "completed">>,     <<"running", "failed">>,
    <<"running", "timedout">>,      <<"running", "cancelled">>,
    <<"paused", "running">>,        <<"paused", "cancelling">>,
    <<"cancelling", "completed">>,  <<"cancelling", "cancelled">>,
    <<"cancelling", "failed">> }

\* The transitions guarded by _require_all_items_completed, by
\* _require_items_completed_or_force and by _require_checkpoint_for_resume.
NeedsAllItems == { <<"running", "completed">> }

NeedsAllItemsOrForce ==
  { <<"queued", "cancelled">>, <<"running", "cancelled">>,
    <<"cancelling", "completed">>, <<"cancelling", "cancelled">> }

NeedsCheckpoint == { <<"paused", "running">> }

AllItemsCompleted(run) == run.completed >= run.total

GuardsPass(run, target, force, checkpoint) ==
  LET step == <<run.status, target>>
  IN  /\ step \in NeedsAllItems => AllItemsCompleted(run)
      /\ step \in NeedsAllItemsOrForce => AllItemsCompleted(run) \/ force
      /\ step \in NeedsCheckpoint => checkpoint

\* RunStateMachine.transition succeeds: a terminal status only moves to itself.
CanTransition(run, target, force, checkpoint) ==
  \/ run.status \in TerminalStatuses /\ target = run.status
  \/ /\ run.status \notin TerminalStatuses
     /\ <<run.status, target>> \in ValidTransitions
     /\ GuardsPass(run, target, force, checkpoint)

MoveTo(run, target) == [run EXCEPT !.status = target]

-----------------------------------------------------------------------------
\* queue() never raises: when the transition is refused the run is unchanged.
Queue(run) ==
  IF CanTransition(run, "queued", FALSE, FALSE) THEN MoveTo(run, "queued") ELSE run

\* start(total_items): STARTING and then RUNNING, both must succeed.
CanStart(run, n) ==
  LET sized == [run EXCEPT !.total = n]
  IN  /\ CanTransition(sized, "starting", FALSE, FALSE)
      /\ CanTransition(MoveTo(sized, "starting"), "running", FALSE, FALSE)

Start(run, n) == [run EXCEPT !.total = n, !.status = "running"]

CanComplete(run) == CanTransition(run, "completed", FALSE, FALSE)
Complete(run)    == MoveTo(run, "completed")

CanFail(run) == CanTransition(run, "failed", FALSE, FALSE)
Fail(run)    == MoveTo(run, "failed")

\* cancel(force) goes to CANCELLED when forced and to CANCELLING otherwise.
CancelTarget(force) == IF force THEN "cancelled" ELSE "cancelling"
CanCancel(run, force) == CanTransition(run, CancelTarget(force), force, FALSE)
Cancel(run, force)    == MoveTo(run, CancelTarget(force))

\* Seeded slip: the difference without its max.
Mut_ExcessSigned(x, y) == x - y

\* max(x - y, 0)
Excess(x, y) == IF x > y THEN x - y ELSE 0

\* Seeded slip: the cumulative totals are added instead of their excess.
Mut_UpdateProgressAdds(run, c, f) ==
  [run EXCEPT !.completed = @ + c, !.failed = @ + f]

\* Seeded slip: a failed item is taken back from the completed ones.
Mut_UpdateProgressTakesBack(run, c, f) ==
  LET failedDelta  == Excess(f, run.failed)
      successDelta == Excess(Excess(c, run.completed), failedDelta)
  IN  [run EXCEPT !.completed = @ + successDelta - failedDelta, !.failed = @ + failedDelta]

\* UpdateRunProgressHandler: the command carries cumulative totals, only their
\* excess over the persisted counters is recorded, item by item:
\* record_item_failure counts the item as completed too.
UpdateProgress(run, c, f) ==
  LET failedDelta  == Excess(f, run.failed)
      successDelta == Excess(Excess(c, run.completed), failedDelta)
  IN  [run EXCEPT !.completed = @ + successDelta + failedDelta,
                  !.failed    = @ + failedDelta]

\* finalize_run_integrity_activity sets the four integrity fields.
SetIntegrity(run) == [run EXCEPT !.integrity = TRUE]
=============================================================================
