------------------------- MODULE RunAggregate_proofs -------------------------
(***************************************************************************)
(* Proofs about the run aggregate, for counters of any size.               *)
(***************************************************************************)
EXTENDS RunAggregate, TLAPS

\* What update_progress makes of a run: both counters grow, by as much as the
\* failures at least, and nothing else changes.
LEMMA UpdateProgressGrows ==
  ASSUME NEW r \in Runs, NEW c \in Nat, NEW f \in Nat
  PROVE  /\ UpdateProgress(r, c, f) \in Runs
         /\ UpdateProgress(r, c, f).status = r.status
         /\ UpdateProgress(r, c, f).completed >= r.completed
         /\ UpdateProgress(r, c, f).failed >= r.failed
         /\ UpdateProgress(r, c, f).completed - r.completed
              >= UpdateProgress(r, c, f).failed - r.failed
<1> DEFINE failures  == Excess(f, r.failed)
           successes == Excess(Excess(c, r.completed), failures)
           done      == r.completed + successes + failures
           lost      == r.failed + failures
<1>1. UpdateProgress(r, c, f) = [r EXCEPT !.completed = done, !.failed = lost]
  BY DEF UpdateProgress
<1>2. failures \in Nat /\ Excess(c, r.completed) \in Nat
  BY DEF Excess, Runs
<1> HIDE DEF failures
<1>3. successes \in Nat
  BY <1>2 DEF Excess
<1> HIDE DEF successes
<1>4. /\ done \in Nat /\ lost \in Nat
      /\ done >= r.completed /\ lost >= r.failed
      /\ done - r.completed >= lost - r.failed
  BY <1>2, <1>3 DEF Runs
<1> HIDE DEF done, lost
<1> QED BY <1>1, <1>4 DEF Runs

\* Every other operation leaves the item counters alone.
LEMMA MoveTyped ==
  ASSUME NEW r \in Runs, NEW target \in RunStatuses
  PROVE  /\ MoveTo(r, target) \in Runs
         /\ MoveTo(r, target).status = target
         /\ MoveTo(r, target).completed = r.completed
         /\ MoveTo(r, target).failed = r.failed
BY DEF MoveTo, Runs

\* A terminal run can only be moved to the status it has.
LEMMA TerminalStays ==
  ASSUME NEW r \in Runs, r.status \in TerminalStatuses,
         NEW target, NEW force, NEW saved, CanTransition(r, target, force, saved)
  PROVE  target = r.status
BY DEF CanTransition

\* One step of the aggregate, seen from the run it starts with.
Kept ==
  /\ run.status \in TerminalStatuses => run'.status = run.status
  /\ run'.completed >= run.completed /\ run'.failed >= run.failed
  /\ run.failed <= run.completed => run'.failed <= run'.completed
  /\ run.status # "completed" /\ run'.status = "completed" => run.completed >= run.total

\* A permitted transition, COMPLETED only with all items.
LEMMA MoveKeeps ==
  ASSUME NEW target \in RunStatuses, NEW force, NEW saved,
         run \in Runs, CanTransition(run, target, force, saved), run' = MoveTo(run, target),
         target = "completed" /\ run.status # target => run.completed >= run.total
  PROVE  run' \in Runs /\ Kept
<1>1. run.completed \in Nat /\ run.failed \in Nat
  BY DEF Runs
<1>2. /\ run' \in Runs /\ run'.status = target
      /\ run'.completed = run.completed /\ run'.failed = run.failed
  BY MoveTyped
<1>3. run.status \in TerminalStatuses => target = run.status
  BY TerminalStays
<1> QED BY <1>1, <1>2, <1>3 DEF Kept

\* A step that changes neither status nor item counters.
LEMMA QuietKeeps ==
  ASSUME run \in Runs, run'.status = run.status,
         run'.completed = run.completed, run'.failed = run.failed
  PROVE  Kept
<1>1. run.completed \in Nat /\ run.failed \in Nat
  BY DEF Runs
<1> QED BY <1>1 DEF Kept

LEMMA StepKeeps ==
  ASSUME run \in Runs, AggregateNext
  PROVE  run' \in Runs /\ Kept
<1>0. run.completed \in Nat /\ run.failed \in Nat /\ run.total \in Nat
  BY DEF Runs
<1>1. CASE QueueRun
  <2>1. CASE CanTransition(run, "queued", FALSE, FALSE)
    BY <1>1, <2>1, MoveKeeps DEF QueueRun, Queue, RunStatuses
  <2>2. CASE ~CanTransition(run, "queued", FALSE, FALSE)
    BY <1>1, <2>2, QuietKeeps DEF QueueRun, Queue
  <2> QED BY <2>1, <2>2
<1>2. ASSUME NEW n \in 0 .. MaxCount, StartRun(n)
      PROVE  run' \in Runs /\ Kept
  <2>1. n \in Nat /\ run' = Start(run, n)
    BY <1>2, MaxCountAssumption DEF StartRun
  <2>2. /\ run' \in Runs /\ run'.status = "running"
        /\ run'.completed = run.completed /\ run'.failed = run.failed
    BY <2>1 DEF Start, Runs, RunStatuses
  <2>3. run.status \notin TerminalStatuses
    <3> DEFINE sized == [run EXCEPT !.total = n]
    <3>1. sized \in Runs /\ sized.status = run.status
      BY <2>1 DEF Runs
    <3>2. CanTransition(sized, "starting", FALSE, FALSE)
      BY <1>2 DEF StartRun, CanStart
    <3> HIDE DEF sized
    <3> QED BY <3>1, <3>2, TerminalStays DEF TerminalStatuses
  <2> QED BY <1>0, <2>1, <2>2, <2>3 DEF Kept
<1>3. ASSUME NEW c \in 0 .. MaxCount, NEW f \in 0 .. MaxCount, UpdateRunProgress(c, f)
      PROVE  run' \in Runs /\ Kept
  <2>1. c \in Nat /\ f \in Nat /\ run' = UpdateProgress(run, c, f)
    BY <1>3, MaxCountAssumption DEF UpdateRunProgress
  <2>2. /\ run' \in Runs /\ run'.status = run.status
        /\ run'.completed >= run.completed /\ run'.failed >= run.failed
        /\ run'.completed - run.completed >= run'.failed - run.failed
    BY <2>1, UpdateProgressGrows
  <2>3. run'.completed \in Nat /\ run'.failed \in Nat
    BY <2>2 DEF Runs
  <2> QED BY <1>0, <2>1, <2>2, <2>3 DEF Kept
<1>4. CASE CompleteRun
  <2>1. run' = MoveTo(run, "completed") /\ CanTransition(run, "completed", FALSE, FALSE)
    BY <1>4 DEF CompleteRun, Complete, CanComplete
  <2>2. run.status # "completed" => run.completed >= run.total
    <3>1. SUFFICES ASSUME run.status # "completed"
                   PROVE  AllItemsCompleted(run)
      BY DEF AllItemsCompleted
    <3>2. /\ <<run.status, "completed">> \in ValidTransitions
          /\ GuardsPass(run, "completed", FALSE, FALSE)
      BY <2>1, <3>1 DEF CanTransition
    <3>3. run.status \in {"running", "cancelling"}
      BY <3>2 DEF ValidTransitions
    <3> QED BY <3>2, <3>3 DEF GuardsPass, NeedsAllItems, NeedsAllItemsOrForce
  <2> QED BY <2>1, <2>2, MoveKeeps DEF RunStatuses
<1>5. CASE FailRun
  BY <1>5, MoveKeeps DEF FailRun, Fail, CanFail, RunStatuses
<1>6. ASSUME NEW force \in BOOLEAN, CancelRun(force)
      PROVE  run' \in Runs /\ Kept
  <2> DEFINE target == CancelTarget(force)
  <2>1. target \in RunStatuses /\ target # "completed"
    BY DEF CancelTarget, RunStatuses
  <2>2. run' = MoveTo(run, target) /\ CanTransition(run, target, force, FALSE)
    BY <1>6 DEF CancelRun, Cancel, CanCancel
  <2> HIDE DEF target
  <2> QED BY <2>1, <2>2, MoveKeeps
<1>7. CASE FinalizeIntegrity
  <2>1. /\ run' \in Runs /\ run'.status = run.status
        /\ run'.completed = run.completed /\ run'.failed = run.failed
    BY <1>7 DEF FinalizeIntegrity, SetIntegrity, Runs
  <2> QED BY <2>1, QuietKeeps
<1>8. CASE PauseRun
  BY <1>8, MoveKeeps DEF PauseRun, RunStatuses
<1>9. CASE ResumeRun
  BY <1>9, MoveKeeps DEF ResumeRun, RunStatuses
<1>10. CASE TimeoutRun
  BY <1>10, MoveKeeps DEF TimeoutRun, RunStatuses
<1>11. CASE SaveCheckpoint
  BY <1>11, QuietKeeps DEF SaveCheckpoint
<1> QED
  BY <1>1, <1>2, <1>3, <1>4, <1>5, <1>6, <1>7, <1>8, <1>9, <1>10, <1>11 DEF AggregateNext

LEMMA CheckpointTyped ==
  ASSUME checkpoint \in BOOLEAN, AggregateNext
  PROVE  checkpoint' \in BOOLEAN
BY DEF AggregateNext, QueueRun, StartRun, UpdateRunProgress, CompleteRun, FailRun, CancelRun,
       FinalizeIntegrity, PauseRun, ResumeRun, TimeoutRun, SaveCheckpoint

LEMMA InitTyped == AggregateInit => AggregateTypeOK
<1>1. NewRun \in Runs
  BY DEF NewRun, Runs, RunStatuses
<1> QED BY <1>1 DEF AggregateInit, AggregateTypeOK

\* The aggregate stays well-formed under every sequence of its operations.
THEOREM AggregateTyped == AggregateSpec => []AggregateTypeOK
<1>1. AggregateTypeOK /\ [AggregateNext]_aggregateVars => AggregateTypeOK'
  BY StepKeeps, CheckpointTyped DEF aggregateVars, AggregateTypeOK
<1> QED BY <1>1, InitTyped, PTL DEF AggregateSpec

\* No operation of the aggregate moves a run out of a terminal status.
THEOREM TerminalKept == AggregateSpec => TerminalStatusKept
<1>1. AggregateTypeOK /\ [AggregateNext]_aggregateVars
      => [run.status \in TerminalStatuses => run'.status = run.status]_aggregateVars
  BY StepKeeps DEF Kept, AggregateTypeOK
<1> QED BY <1>1, AggregateTyped, PTL DEF AggregateSpec, TerminalStatusKept

\* The counters only grow, and failed items stay counted among the completed.
THEOREM ProgressGrows == AggregateSpec => ProgressMonotone
<1>1. AggregateTypeOK /\ [AggregateNext]_aggregateVars
      => [/\ run'.completed >= run.completed
          /\ run'.failed >= run.failed
          /\ run.failed <= run.completed => run'.failed <= run'.completed]_aggregateVars
  BY StepKeeps DEF Kept, AggregateTypeOK
<1> QED BY <1>1, AggregateTyped, PTL DEF AggregateSpec, ProgressMonotone

\* A run becomes COMPLETED only when all of its items are counted.
THEOREM CompletedWhenAllItems == AggregateSpec => CompletedOnlyWhenAllItems
<1>1. AggregateTypeOK /\ [AggregateNext]_aggregateVars
      => [run.status # "completed" /\ run'.status = "completed"
            => run.completed >= run.total]_aggregateVars
  BY StepKeeps DEF Kept, AggregateTypeOK
<1> QED BY <1>1, AggregateTyped, PTL DEF AggregateSpec, CompletedOnlyWhenAllItems
=============================================================================
