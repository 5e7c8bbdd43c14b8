---------------------- MODULE EvaluationWorkflow_proofs ----------------------
(***************************************************************************)
(* Proofs about EvaluationWorkflow, for every number of items, attempts,   *)
(* worker slots, cancel requests and faults.  First the types and the      *)
(* order of finalization, then the durable records and the provider calls  *)
(* behind what the workflow counts, both for the concurrent system; last,  *)
(* for runs whose transactions do not overlap (OneAtATime), the agreement  *)
(* of row and workflow, and the refinement of RunAggregate.                *)
(***************************************************************************)
EXTENDS EvaluationWorkflow, TLAPS, FiniteSetTheorems

-----------------------------------------------------------------------------
(* Operations on the aggregate. *)

\* Every operation of the aggregate yields a well-formed run.
LEMMA ApplyTyped ==
  ASSUME NEW p \in Attempts, NEW run \in Runs
  PROVE  Apply(p, run) \in Runs
<1>1. TotalItems \in Nat
  BY EvaluationWorkflowAssumption DEF TotalItems, NewRun
<1>2. Excess(p.f, run.failed) \in Nat
  BY DEF Excess, Runs, Attempts
<1>3. Excess(Excess(p.c, run.completed), Excess(p.f, run.failed)) \in Nat
  BY <1>2 DEF Excess, Runs, Attempts
<1>4. UpdateProgress(run, p.c, p.f) \in Runs
  <2> DEFINE failures  == Excess(p.f, run.failed)
             successes == Excess(Excess(p.c, run.completed), failures)
             done      == run.completed + successes + failures
             lost      == run.failed + failures
  <2>1. UpdateProgress(run, p.c, p.f) = [run EXCEPT !.completed = done, !.failed = lost]
    BY DEF UpdateProgress
  <2>2. failures \in Nat /\ successes \in Nat
    BY <1>2, <1>3
  <2> HIDE DEF failures, successes
  <2>3. done \in Nat /\ lost \in Nat
    BY <2>2 DEF Runs
  <2> HIDE DEF done, lost
  <2> QED BY <2>1, <2>3 DEF Runs
<1>5. Queue(run) \in Runs /\ SetIntegrity(run) \in Runs /\ Cancel(run, TRUE) \in Runs
  BY DEF Queue, SetIntegrity, Cancel, CancelTarget, MoveTo, Runs, RunStatuses
<1>6. Start(run, TotalItems) \in Runs /\ Complete(run) \in Runs /\ Fail(run) \in Runs
  BY <1>1 DEF Start, Complete, Fail, MoveTo, Runs, RunStatuses
<1> QED
  BY <1>4, <1>5, <1>6 DEF Apply

\* A store of well-formed runs leaves a well-formed row, and its status is that
\* of the aggregate or that of the row.
LEMMA WrittenTyped ==
  ASSUME NEW base \in Runs, NEW run \in Runs, NEW r \in Runs,
         NEW w \in Written(base, run, r)
  PROVE  w \in Runs /\ w.status \in {run.status, r.status}
BY DEF Written, Changed, Runs

\* Only fail and complete bring a run to FAILED or COMPLETED.
LEMMA ApplyEnds ==
  ASSUME NEW p \in Attempts, NEW run \in Runs,
         Apply(p, run).status \in {"completed", "failed"}
  PROVE  p.act \in {"fail", "complete"} \/ run.status \in {"completed", "failed"}
BY DEF Apply, Queue, SetIntegrity, Cancel, CancelTarget, MoveTo, Start, UpdateProgress,
       Runs

LEMMA CancelTyped ==
  ASSUME NEW run \in Runs, NEW force \in BOOLEAN
  PROVE  Cancel(run, force) \in Runs
         /\ Cancel(run, force).status \notin {"completed", "failed"}
BY DEF Cancel, CancelTarget, MoveTo, Runs, RunStatuses

-----------------------------------------------------------------------------
(* The workflow's control. *)

LEMMA TotalItemsTyped == TotalItems \in 0 .. NumItems /\ NumItems \in Nat
BY EvaluationWorkflowAssumption DEF TotalItems, NewRun

LEMMA NewRunTyped == NewRun \in Runs
BY DEF NewRun, Runs, RunStatuses

\* What follows a result of the current activity is a workflow state; an
\* activity that works on an item has one.
LEMMA AfterActivityTyped ==
  ASSUME NEW w \in Workflows, NEW ok \in BOOLEAN,
         w.pc \in {"execute", "persist"} => w.item # 0
  PROVE  /\ AfterActivity(w, ok) \in Workflows
         /\ AfterActivity(w, ok).pc \in {"execute", "persist"} => AfterActivity(w, ok).item # 0
         /\ AfterActivity(w, ok).pc # "none"
         /\ AfterActivity(w, ok).pc \in {"fail", "complete"} => w.pc = "finalize"
<1>1. 1 \in 1 .. MaxAttempts
  BY EvaluationWorkflowAssumption
<1>2. \A v \in Workflows, act \in Activities \cup WorkflowEnds :
        /\ Activity(v, act) \in Workflows
        /\ Activity(v, act).pc = act /\ Activity(v, act).item = v.item
  BY <1>1 DEF Activity, Workflows
<1>3. /\ LoopHead(w) \in Workflows
      /\ LoopHead(w).pc \in {"finalize", "cancel", "execute"}
      /\ LoopHead(w).pc = "execute" => LoopHead(w).item # 0
  <2>1. CASE w.item = TotalItems
    BY <1>2, <2>1 DEF LoopHead, Activities, RunActivities
  <2>2. CASE w.item < TotalItems /\ w.cancel
    <3>1. w.item # TotalItems
      BY <2>2, TotalItemsTyped DEF Workflows
    <3> QED BY <1>2, <2>2, <3>1 DEF LoopHead, Activities, RunActivities
  <2>3. CASE w.item # TotalItems /\ ~(w.item < TotalItems /\ w.cancel)
    <3> DEFINE v == [w EXCEPT !.item = @ + 1]
    <3>1. v \in Workflows /\ v.item # 0
      BY <2>3, TotalItemsTyped DEF Workflows
    <3>2. LoopHead(w) = Activity(v, "execute")
      BY <2>3 DEF LoopHead
    <3> HIDE DEF v
    <3>3. "execute" \in Activities
      BY DEF Activities
    <3> QED BY <1>2, <3>1, <3>2, <3>3
  <2> QED BY <2>1, <2>2, <2>3
<1>4. CASE w.pc = "execute"
  <2> DEFINE lost == IF ok THEN w.failed ELSE w.failed + 1
             done == w.completed + 1
             v == [w EXCEPT !.completed = done, !.failed = lost]
  <2>1. v \in Workflows /\ v.item = w.item
    <3>1. lost \in Nat /\ done \in Nat
      BY DEF Workflows
    <3> HIDE DEF lost, done
    <3> QED BY <3>1 DEF Workflows
  <2>2. AfterActivity(w, ok) = Activity(v, IF ok /\ HasMetrics THEN "persist" ELSE "progress")
    BY <1>4 DEF AfterActivity, AfterItem
  <2> HIDE DEF v
  <2> QED BY SMTT(30), <1>2, <1>4, <2>1, <2>2 DEF Activities, RunActivities
<1>5. CASE w.pc # "execute"
  <2> HIDE DEF Workflows
  <2>1. CASE w.pc \in {"start", "progress", "recover"}
    <3>1. AfterActivity(w, ok) = LoopHead(w)
      BY <2>1 DEF AfterActivity
    <3> QED BY <1>3, <3>1
  <2>2. CASE w.pc \notin {"start", "progress", "recover"}
    BY <1>2, <1>5, <2>2 DEF AfterActivity, Activities, RunActivities, WorkflowEnds
  <2> QED BY <2>1, <2>2
<1> QED BY <1>4, <1>5

\* What follows a failure of the current activity is a workflow state, never the
\* terminal transition.
LEMMA AfterFailureTyped ==
  ASSUME NEW w \in Workflows
  PROVE  /\ AfterFailure(w) \in Workflows
         /\ AfterFailure(w).pc \in {"recover", "error"}
<1>1. 1 \in 1 .. MaxAttempts
  BY EvaluationWorkflowAssumption
<1>2. CASE w.pc \in {"execute", "persist", "progress"}
  <2> DEFINE done == w.completed + 1
             lost == w.failed + 1
  <2>1. done \in Nat /\ lost \in Nat
    BY DEF Workflows
  <2>2. AfterFailure(w) = Activity([w EXCEPT !.completed = done, !.failed = lost], "recover")
    BY <1>2 DEF AfterFailure
  <2> HIDE DEF done, lost
  <2> QED BY <1>1, <2>1, <2>2 DEF Activity, Workflows, Activities, RunActivities
<1>3. CASE w.pc \notin {"execute", "persist", "progress"}
  BY <1>1, <1>3 DEF AfterFailure, Activity, Workflows, WorkflowEnds
<1> QED BY <1>2, <1>3

\* The attempt a workflow state waits for.
LEMMA ScheduledTyped ==
  ASSUME NEW w \in Workflows
  PROVE  /\ Scheduled(w) \in Attempts
         /\ Scheduled(w).act = IF w.pc \in Activities THEN w.pc ELSE "none"
         /\ Scheduled(w).stage = "new"
         /\ Scheduled(w).run = NewRun
         /\ w.pc \in Activities => Scheduled(w).item = w.item
BY NewRunTyped, TotalItemsTyped
   DEF Scheduled, Attempt, Idle, Attempts, Workflows, Stages

LEMMA IdleTyped == Idle \in Attempts /\ Idle.act = "none" /\ Idle.run = NewRun
BY NewRunTyped, TotalItemsTyped DEF Idle, Attempt, Attempts, Stages

-----------------------------------------------------------------------------
(* The inductive invariant. *)

Ends == {"completed", "failed"}

\* The current slot runs the activity the workflow waits for, and an activity
\* that works on an item has one.
CurrentOK ==
  /\ proc[cur].act = IF wf.pc \in Activities THEN wf.pc ELSE "none"
  /\ wf.pc \in {"execute", "persist"} => wf.item # 0
  /\ \A s \in Slots : proc[s].act \in {"execute", "persist"} => proc[s].item # 0

\* Whatever could lead to a terminal status exists only after finalization:
\* the terminal activities, and every copy of the run in that status.
FinalizedOK ==
  /\ row.status \in Ends => finalized
  /\ wf.pc \in {"fail", "complete"} => finalized
  /\ \A s \in Slots : /\ proc[s].act \in {"fail", "complete"} => finalized
                      /\ proc[s].act = "finalize" /\ proc[s].stage = "stored" => finalized
                      /\ proc[s].run.status \in Ends => finalized
  /\ \A c \in Cancellers : cancels[c].run.status \in Ends => finalized

IInv == TypeOK /\ CurrentOK /\ FinalizedOK

LEMMA InitInv == Init => IInv
<1> SUFFICES ASSUME Init PROVE IInv
  OBVIOUS
<1> USE DEF Init
<1>1. wf \in Workflows
  BY EvaluationWorkflowAssumption, TotalItemsTyped DEF Workflows
<1>2. proc \in [Slots -> Attempts] /\ \A t \in Slots : proc[t] = Idle
  BY IdleTyped
<1>3. cancels \in [Cancellers -> CancelRequests]
      /\ \A c \in Cancellers : cancels[c].run = NewRun
  BY NewRunTyped DEF CancelRequests
<1>4. TypeOK
  <2>1. durable \in [ItemIds -> 0 .. NumItems] /\ evidence \in [Items -> 0 .. NumItems]
    BY TotalItemsTyped
  <2>2. calls \in [Items -> Nat] /\ faults \in 0 .. MaxFaults
    BY EvaluationWorkflowAssumption
  <2>3. row \in Runs /\ cur \in Slots /\ lock \in Cancellers \cup {NoLock}
        /\ metricRows \subseteq ItemIds
    BY NewRunTyped
  <2> QED BY <1>1, <1>2, <1>3, <2>1, <2>2, <2>3 DEF TypeOK
<1>5. CurrentOK
  BY <1>2, IdleTyped DEF CurrentOK, Activities, RunActivities
<1>6. FinalizedOK
  BY <1>2, <1>3, IdleTyped DEF FinalizedOK, NewRun, Ends
<1> QED BY <1>4, <1>5, <1>6 DEF IInv

\* The parts of the invariant that the end of an attempt concerns.
AttemptsOK ==
  /\ wf \in Workflows /\ proc \in [Slots -> Attempts] /\ cur \in Slots
  /\ CurrentOK /\ FinalizedOK

\* Temporal's next attempt, or the failure of the activity, keeps it.
LEMMA NextAttemptKeeps ==
  ASSUME IInv, NEW n \in Slots, NextAttempt(proc, n),
         UNCHANGED <<row, cancels, finalized>>
  PROVE  AttemptsOK'
<1> USE DEF IInv, TypeOK
<1>1. /\ wf' \in Workflows
      /\ wf'.pc \in {wf.pc, "recover", "error"}
      /\ wf'.pc = wf.pc => wf'.item = wf.item
  <2>1. CASE wf.attempt < MaxAttempts
    BY <2>1, EvaluationWorkflowAssumption DEF NextAttempt, Workflows
  <2>2. CASE ~(wf.attempt < MaxAttempts)
    <3>1. wf' = AfterFailure(wf)
      BY <2>2 DEF NextAttempt
    <3>2. wf.pc \notin {"recover", "error"} => wf'.pc # wf.pc
      BY <3>1, AfterFailureTyped
    <3>3. wf'.item = wf.item
      BY <3>1 DEF AfterFailure, Activity, Workflows
    <3> QED BY <3>1, <3>2, <3>3, AfterFailureTyped
  <2> QED BY <2>1, <2>2
<1>2. proc' = [proc EXCEPT ![n] = Scheduled(wf')] /\ cur' = n
  BY DEF NextAttempt
<1>3. proc' \in [Slots -> Attempts]
  BY <1>1, <1>2, ScheduledTyped
<1>4. proc'[n] = Scheduled(wf') /\ \A t \in Slots \ {n} : proc'[t] = proc[t]
  BY <1>2
<1>5. CurrentOK'
  BY <1>1, <1>2, <1>4, ScheduledTyped DEF CurrentOK, Activities, RunActivities, WorkflowEnds
<1>6. FinalizedOK'
  BY <1>1, <1>2, <1>4, ScheduledTyped DEF FinalizedOK, NewRun, Ends
<1> QED BY <1>1, <1>2, <1>3, <1>5, <1>6 DEF AttemptsOK

\* An attempt that is not the current one leaves its slot.
LEMMA LateAttemptKeeps ==
  ASSUME IInv, NEW s \in Slots, s # cur,
         proc' = [proc EXCEPT ![s] = Idle],
         UNCHANGED <<wf, cur, row, cancels, finalized>>
  PROVE  AttemptsOK'
<1> USE DEF IInv, TypeOK
<1>1. proc' \in [Slots -> Attempts]
  BY IdleTyped
<1>2. proc'[s] = Idle /\ \A t \in Slots \ {s} : proc'[t] = proc[t]
  OBVIOUS
<1>3. CurrentOK'
  BY <1>2, IdleTyped DEF CurrentOK
<1>4. FinalizedOK'
  BY <1>2, IdleTyped DEF FinalizedOK, NewRun, Ends
<1> QED BY <1>1, <1>3, <1>4 DEF AttemptsOK

LEMMA RaiseKeeps ==
  ASSUME IInv, NEW s \in Slots, Raise(s), UNCHANGED <<row, cancels, finalized>>
  PROVE  AttemptsOK'
<1>1. CASE s = cur
  BY <1>1, NextAttemptKeeps DEF Raise
<1>2. CASE s # cur
  BY <1>2, LateAttemptKeeps DEF Raise
<1> QED BY <1>1, <1>2

\* A result keeps it, provided finalize only returns once it has committed.
LEMMA ReturnKeeps ==
  ASSUME IInv, NEW s \in Slots, NEW ok \in BOOLEAN, Return(s, ok),
         s = cur /\ wf.pc = "finalize" => finalized,
         UNCHANGED <<row, cancels, finalized>>
  PROVE  AttemptsOK'
<1> USE DEF IInv, TypeOK
<1>1. CASE s # cur
  BY <1>1, LateAttemptKeeps DEF Return
<1>2. CASE s = cur
  <2>1. /\ wf' = AfterActivity(wf, ok)
        /\ proc' = [proc EXCEPT ![s] = Scheduled(wf')]
        /\ cur' = cur
    BY <1>2 DEF Return
  <2>2. /\ wf' \in Workflows
        /\ wf'.pc \in {"execute", "persist"} => wf'.item # 0
        /\ wf'.pc \in {"fail", "complete"} => wf.pc = "finalize"
    BY <2>1, AfterActivityTyped DEF CurrentOK
  <2>3. proc'[s] = Scheduled(wf') /\ \A t \in Slots \ {s} : proc'[t] = proc[t]
    BY <2>1
  <2>4. proc' \in [Slots -> Attempts]
    BY <2>1, <2>2, ScheduledTyped
  <2>5. CurrentOK'
    BY <1>2, <2>1, <2>2, <2>3, ScheduledTyped DEF CurrentOK, Activities, RunActivities
  <2>6. FinalizedOK'
    BY <1>2, <2>1, <2>2, <2>3, ScheduledTyped DEF FinalizedOK, NewRun, Ends
  <2> QED BY <2>1, <2>2, <2>4, <2>5, <2>6 DEF AttemptsOK
<1> QED BY <1>1, <1>2

\* A step that only moves an attempt to another stage, and perhaps notes the
\* evidence it found, keeps the invariant.
LEMMA StageKeeps ==
  ASSUME IInv, NEW s \in Slots, NEW stage \in Stages \ {"stored"}, NEW found \in 0 .. NumItems,
         proc' = [proc EXCEPT ![s].stage = stage, ![s].found = found],
         UNCHANGED <<wf, cur, row, cancels, finalized>>
  PROVE  AttemptsOK'
<1> USE DEF IInv
<1> DEFINE p == [proc[s] EXCEPT !.stage = stage, !.found = found]
<1>1. p \in Attempts /\ p.act = proc[s].act /\ p.item = proc[s].item
      /\ p.stage # "stored" /\ p.run = proc[s].run
  BY DEF TypeOK, Attempts
<1>2. proc' = [proc EXCEPT ![s] = p]
  BY DEF TypeOK
<1> HIDE DEF p
<1>3. proc' \in [Slots -> Attempts]
      /\ proc'[s] = p /\ \A t \in Slots \ {s} : proc'[t] = proc[t]
  BY <1>1, <1>2 DEF TypeOK
<1>4. CurrentOK'
  BY <1>1, <1>3 DEF CurrentOK, TypeOK
<1>5. FinalizedOK'
  BY <1>1, <1>3 DEF FinalizedOK, TypeOK
<1> QED BY <1>3, <1>4, <1>5 DEF AttemptsOK, TypeOK

\* Reach leaves the evidence alone.
LEMMA ReachKeeps ==
  ASSUME IInv, NEW s \in Slots, NEW stage \in Stages \ {"stored"}, Reach(s, stage),
         UNCHANGED <<wf, cur, row, cancels, finalized>>
  PROVE  AttemptsOK'
<1>1. proc[s].found \in 0 .. NumItems
  BY DEF IInv, TypeOK, Attempts
<1>2. proc' = [proc EXCEPT ![s].stage = stage, ![s].found = proc[s].found]
  BY DEF Reach, IInv, TypeOK, Attempts
<1> QED BY <1>1, <1>2, StageKeeps

\* An attempt that works on an item works on one of the run's items.
LEMMA ItemOfAttempt ==
  ASSUME IInv, NEW s \in Slots, proc[s].act \in {"execute", "persist"}
  PROVE  proc[s].item \in Items /\ IdOf(s) \in ItemIds
<1>1. proc[s] \in Attempts /\ proc[s].item # 0
  BY DEF IInv, CurrentOK, TypeOK
<1>2. PICK i : i = proc[s].item
  OBVIOUS
<1>3. i \in 0 .. TotalItems /\ i # 0
  BY <1>1, <1>2 DEF Attempts
<1>4. i \in Items
  BY <1>3, TotalItemsTyped DEF Items
<1> QED BY <1>2, <1>4 DEF IdOf, ItemIds

\* Every step of an attempt keeps the invariant.
LEMMA AttemptStepKeeps ==
  ASSUME IInv, NEW s \in Slots, AttemptStep(s)
  PROVE  IInv'
<1> USE DEF IInv
<1>1. CASE LoadRun(s)
  <2>1. /\ UNCHANGED <<row, api, cancels, lock, durable, metricRows, calls, faults,
                        evidence, finalized>>
        /\ proc[s].act \in RunActivities
    BY <1>1 DEF LoadRun, At
  <2>2. CASE CanApply(proc[s].act, row)
    <3> DEFINE p == [proc[s] EXCEPT !.stage = "loaded", !.base = row,
                                    !.run = Apply(proc[s], row)]
    <3>1. proc' = [proc EXCEPT ![s] = p] /\ UNCHANGED <<wf, cur>>
      BY <1>1, <2>2 DEF LoadRun, TypeOK
    <3>2. Apply(proc[s], row) \in Runs
      BY ApplyTyped DEF TypeOK
    <3>3. p \in Attempts /\ p.act = proc[s].act /\ p.item = proc[s].item
          /\ p.stage = "loaded" /\ p.run = Apply(proc[s], row)
      BY <3>2 DEF TypeOK, Attempts, Stages
    <3> HIDE DEF p
    <3>4. proc' \in [Slots -> Attempts]
          /\ proc'[s] = p /\ \A t \in Slots \ {s} : proc'[t] = proc[t]
      BY <3>1, <3>3 DEF TypeOK
    <3>5. TypeOK'
      BY <2>1, <3>1, <3>4 DEF TypeOK
    <3>6. CurrentOK'
      BY <3>1, <3>3, <3>4 DEF CurrentOK, TypeOK
    <3>7. FinalizedOK'
      <4>1. p.run.status \in Ends => finalized
        BY <3>3, ApplyEnds DEF FinalizedOK, TypeOK, Ends
      <4> QED BY <2>1, <3>1, <3>3, <3>4, <4>1 DEF FinalizedOK, TypeOK
    <3> QED BY <3>5, <3>6, <3>7
  <2>3. CASE ~CanApply(proc[s].act, row)
    BY <1>1, <2>1, <2>3, RaiseKeeps DEF LoadRun, AttemptsOK, TypeOK
  <2> QED BY <2>2, <2>3
<1>2. CASE LoadMissing(s)
  <2>1. faults' \in 0 .. MaxFaults
    BY <1>2, EvaluationWorkflowAssumption DEF LoadMissing, Fault, TypeOK
  <2> QED BY <1>2, <2>1, RaiseKeeps DEF LoadMissing, AttemptsOK, TypeOK
<1>3. CASE StoreRun(s)
  <2> DEFINE p == [proc[s] EXCEPT !.stage = "stored", !.base = NewRun, !.run = NewRun]
  <2>1. /\ proc' = [proc EXCEPT ![s] = p]
        /\ row' \in Written(proc[s].base, proc[s].run, row)
        /\ finalized' = (finalized \/ proc[s].act = "finalize")
        /\ UNCHANGED <<api, wf, cur, cancels, lock, durable, metricRows, calls,
                        faults, evidence>>
    BY <1>3 DEF StoreRun, TypeOK
  <2>2. row' \in Runs /\ row'.status \in {proc[s].run.status, row.status}
    BY <2>1, WrittenTyped DEF TypeOK, Attempts
  <2>3. p \in Attempts /\ p.act = proc[s].act /\ p.item = proc[s].item
        /\ p.stage = "stored" /\ p.run = NewRun
    BY NewRunTyped DEF TypeOK, Attempts, Stages
  <2> HIDE DEF p
  <2>4. proc' \in [Slots -> Attempts]
        /\ proc'[s] = p /\ \A t \in Slots \ {s} : proc'[t] = proc[t]
    BY <2>1, <2>3 DEF TypeOK
  <2>5. finalized' \in BOOLEAN
    BY <2>1
  <2>6. TypeOK'
    BY <2>1, <2>2, <2>4, <2>5 DEF TypeOK
  <2>7. CurrentOK'
    BY <2>1, <2>3, <2>4 DEF CurrentOK, TypeOK
  <2>8. FinalizedOK'
    <3>1. NewRun.status \notin Ends
      BY DEF NewRun, Ends
    <3>2. finalized => finalized'
      BY <2>1
    <3>3. proc'[s].run = NewRun /\ (proc'[s].act = "finalize" => finalized')
      BY <2>1, <2>3, <2>4
    <3> QED BY <2>1, <2>2, <2>3, <2>4, <3>1, <3>2, <3>3 DEF FinalizedOK
  <2> QED BY <2>6, <2>7, <2>8
<1>4. CASE ReturnRun(s)
  <2>1. s = cur /\ wf.pc = "finalize" => finalized
    BY <1>4 DEF ReturnRun, At, CurrentOK, FinalizedOK, Activities, RunActivities
  <2> QED BY <1>4, <2>1, ReturnKeeps DEF ReturnRun, AttemptsOK, TypeOK
<1>5. CASE LookUp(s)
  <2>1. IdOf(s) \in ItemIds
    BY <1>5, ItemOfAttempt DEF LookUp, At
  <2>2. AttemptsOK'
    <3>1. CASE DurableSchema /\ durable[IdOf(s)] # 0
      <4>1. durable[IdOf(s)] \in 0 .. NumItems
        BY <2>1 DEF TypeOK
      <4> QED BY <1>5, <3>1, <4>1, StageKeeps DEF LookUp, Stages
    <3>2. CASE ~(DurableSchema /\ durable[IdOf(s)] # 0)
      BY <1>5, <3>2, ReachKeeps DEF LookUp, Stages
    <3> QED BY <3>1, <3>2
  <2> QED BY <1>5, <2>2 DEF LookUp, AttemptsOK, TypeOK
<1>6. CASE CallProvider(s)
  <2>1. proc[s].item \in Items
    BY <1>6, ItemOfAttempt DEF CallProvider, At
  <2>2. calls' \in [Items -> Nat]
    BY <1>6, <2>1 DEF CallProvider, TypeOK
  <2>3. proc[s].item \in 0 .. NumItems
    BY <2>1 DEF Items
  <2>4. AttemptsOK'
    BY <1>6, <2>3, StageKeeps, ReachKeeps DEF CallProvider, Stages
  <2> QED BY <1>6, <2>2, <2>4 DEF CallProvider, AttemptsOK, TypeOK
<1>7. CASE RecordExecution(s)
  <2>1. proc[s].item \in 0 .. NumItems
    BY <1>7, ItemOfAttempt DEF RecordExecution, At, Items
  <2>2. durable' \in [ItemIds -> 0 .. NumItems]
    BY <1>7, <2>1 DEF RecordExecution, TypeOK
  <2>3. AttemptsOK'
    BY <1>7, ReachKeeps DEF RecordExecution, Stages
  <2> QED BY <1>7, <2>2, <2>3 DEF RecordExecution, AttemptsOK, TypeOK
<1>8. CASE ReturnItem(s)
  <2>1. proc[s].act = "execute" /\ proc[s].item \in Items
    BY <1>8, ItemOfAttempt DEF ReturnItem, At
  <2>2. s = cur => wf.pc # "finalize"
    BY <2>1 DEF CurrentOK
  <2>3. evidence' \in [Items -> 0 .. NumItems]
    BY <1>8, <2>1 DEF ReturnItem, TypeOK, Attempts
  <2>4. faults' \in 0 .. MaxFaults
    <3>1. faults' = faults \/ Fault("metrics")
      BY <1>8 DEF ReturnItem
    <3> QED BY <3>1, EvaluationWorkflowAssumption DEF Fault, TypeOK
  <2>5. AttemptsOK'
    BY <1>8, <2>2, ReturnKeeps DEF ReturnItem
  <2> QED BY <1>8, <2>3, <2>4, <2>5 DEF ReturnItem, AttemptsOK, TypeOK
<1>9. CASE PersistMetrics(s)
  <2>1. IdOf(s) \in ItemIds /\ proc[s].act = "persist"
    BY <1>9, ItemOfAttempt DEF PersistMetrics, At
  <2>2. metricRows' \subseteq ItemIds
    BY <1>9, <2>1 DEF PersistMetrics, TypeOK
  <2> DEFINE p == [proc[s] EXCEPT !.stage = "stored"]
  <2>3. p \in Attempts /\ p.act = "persist" /\ p.item = proc[s].item
        /\ p.run = proc[s].run
    BY <2>1 DEF TypeOK, Attempts, Stages
  <2>4. proc' = [proc EXCEPT ![s] = p]
    BY <1>9 DEF PersistMetrics, Reach, TypeOK
  <2> HIDE DEF p
  <2>5. proc' \in [Slots -> Attempts]
        /\ proc'[s] = p /\ \A t \in Slots \ {s} : proc'[t] = proc[t]
    BY <2>3, <2>4 DEF TypeOK
  <2>6. UNCHANGED <<row, api, wf, cur, cancels, lock, durable, calls, faults,
                    evidence, finalized>>
    BY <1>9 DEF PersistMetrics
  <2>7. TypeOK'
    BY <2>2, <2>5, <2>6 DEF TypeOK
  <2>8. CurrentOK'
    BY <2>1, <2>3, <2>5, <2>6 DEF CurrentOK, TypeOK
  <2>9. FinalizedOK'
    BY <2>1, <2>3, <2>5, <2>6 DEF FinalizedOK, TypeOK
  <2> QED BY <2>7, <2>8, <2>9
<1>10. CASE RecordConflict(s)
  <2>1. AttemptsOK'
    BY <1>10, RaiseKeeps DEF RecordConflict
  <2> QED BY <1>10, <2>1 DEF RecordConflict, AttemptsOK, TypeOK
<1> QED
  BY <1>1, <1>2, <1>3, <1>4, <1>5, <1>6, <1>7, <1>8, <1>9, <1>10 DEF AttemptStep

\* So does every fault of an attempt.
LEMMA AttemptFaultKeeps ==
  ASSUME IInv, NEW s \in Slots, AttemptFault(s)
  PROVE  IInv'
<1> USE DEF IInv
<1>1. faults' \in 0 .. MaxFaults
  BY EvaluationWorkflowAssumption
     DEF AttemptFault, DatabaseError, Crash, Stall, Fault, TypeOK
<1>2. CASE DatabaseError(s)
  <2>1. AttemptsOK'
    BY <1>2, RaiseKeeps, ReachKeeps DEF DatabaseError, Stages
  <2> QED BY <1>1, <1>2, <2>1 DEF DatabaseError, AttemptsOK, TypeOK
<1>3. CASE Crash(s)
  BY <1>1, <1>3, RaiseKeeps DEF Crash, AttemptsOK, TypeOK
<1>4. CASE Stall(s)
  <2>1. AttemptsOK'
    BY <1>4, NextAttemptKeeps DEF Stall
  <2> QED BY <1>1, <1>4, <2>1 DEF Stall, AttemptsOK, TypeOK
<1> QED BY <1>2, <1>3, <1>4 DEF AttemptFault

\* The creating request and the cancel requests keep it too.
LEMMA RequestKeeps ==
  ASSUME IInv,
         \/ ScheduleWorkflow \/ CommitCreate \/ AbortCreate
         \/ \E c \in Cancellers, force \in BOOLEAN : CancelLoad(c, force)
         \/ \E c \in Cancellers : CancelStep(c) \/ CancelAbort(c)
  PROVE  IInv'
<1> USE DEF IInv
<1>1. CASE ScheduleWorkflow
  <2>1. wf' \in Workflows /\ wf'.pc = "queue"
    <3>1. wf' = [wf EXCEPT !.pc = "queue", !.attempt = 1]
      BY <1>1 DEF ScheduleWorkflow, Activity
    <3>2. 1 \in 1 .. MaxAttempts /\ "queue" \in Activities
      BY EvaluationWorkflowAssumption DEF Activities, RunActivities
    <3> QED BY <3>1, <3>2 DEF Workflows, TypeOK
  <2>2. /\ proc' \in [Slots -> Attempts]
        /\ proc'[cur] = Scheduled(wf') /\ \A t \in Slots \ {cur} : proc'[t] = proc[t]
    BY <1>1, <2>1, ScheduledTyped DEF ScheduleWorkflow, TypeOK
  <2>3. UNCHANGED <<row, cur, cancels, lock, durable, metricRows, calls, faults,
                    evidence, finalized>> /\ api' = "scheduled"
    BY <1>1 DEF ScheduleWorkflow
  <2>4. TypeOK'
    BY <2>1, <2>2, <2>3 DEF TypeOK
  <2>5. CurrentOK'
    BY <2>1, <2>2, <2>3, ScheduledTyped DEF CurrentOK, TypeOK, Activities, RunActivities
  <2>6. FinalizedOK'
    BY <2>1, <2>2, <2>3, ScheduledTyped DEF FinalizedOK, TypeOK, NewRun, Ends
  <2> QED BY <2>4, <2>5, <2>6
<1>2. CASE CommitCreate
  <2>1. Queue(row) \in Runs /\ (Queue(row).status \in Ends => row.status \in Ends)
    BY DEF Queue, MoveTo, Runs, RunStatuses, TypeOK, Ends
  <2> QED BY <1>2, <2>1 DEF CommitCreate, TypeOK, CurrentOK, FinalizedOK
<1>3. CASE AbortCreate
  BY <1>3, EvaluationWorkflowAssumption
     DEF AbortCreate, Fault, TypeOK, CurrentOK, FinalizedOK
<1>4. ASSUME NEW c \in Cancellers, NEW force \in BOOLEAN, CancelLoad(c, force)
      PROVE  IInv'
  <2>1. /\ cancels' \in [Cancellers -> CancelRequests]
        /\ \A d \in Cancellers : cancels'[d].run.status \in Ends
                                  => cancels[d].run.status \in Ends
    BY <1>4, CancelTyped DEF CancelLoad, CancelRequests, TypeOK, Ends
  <2> QED BY <1>4, <2>1 DEF CancelLoad, TypeOK, CurrentOK, FinalizedOK
<1>5. ASSUME NEW c \in Cancellers, CancelFlush(c)
      PROVE  IInv'
  <2>1. PICK w \in Written(cancels[c].base, cancels[c].run, row) :
          cancels' = [cancels EXCEPT ![c].stage = "flushed", ![c].run = w]
    BY <1>5 DEF CancelFlush
  <2>2. w \in Runs /\ w.status \in {cancels[c].run.status, row.status}
    BY WrittenTyped DEF TypeOK, CancelRequests
  <2>3. cancels' \in [Cancellers -> CancelRequests]
        /\ cancels'[c].run = w /\ \A d \in Cancellers \ {c} : cancels'[d] = cancels[d]
    BY <2>1, <2>2 DEF TypeOK, CancelRequests
  <2> QED BY <1>5, <2>2, <2>3 DEF CancelFlush, TypeOK, CurrentOK, FinalizedOK
<1>6. ASSUME NEW c \in Cancellers, CancelSignal(c)
      PROVE  IInv'
  <2>1. cancels' \in [Cancellers -> CancelRequests]
        /\ \A d \in Cancellers : cancels'[d].run = cancels[d].run
    BY <1>6 DEF CancelSignal, TypeOK, CancelRequests
  <2>2. wf' \in Workflows /\ wf'.pc = wf.pc /\ wf'.item = wf.item
    BY <1>6 DEF CancelSignal, TypeOK, Workflows
  <2>3. faults' \in 0 .. MaxFaults
    BY <1>6, EvaluationWorkflowAssumption DEF CancelSignal, Fault, TypeOK
  <2> QED BY <1>6, <2>1, <2>2, <2>3 DEF CancelSignal, TypeOK, CurrentOK, FinalizedOK
<1>7. ASSUME NEW c \in Cancellers, CancelCommit(c)
      PROVE  IInv'
  <2>1. cancels' \in [Cancellers -> CancelRequests]
        /\ \A d \in Cancellers : cancels'[d].run \in {cancels[d].run, NewRun}
    BY <1>7, NewRunTyped DEF CancelCommit, EndRequest, TypeOK, CancelRequests
  <2>2. row' \in Runs
    BY <1>7 DEF CancelCommit, TypeOK, CancelRequests
  <2> QED BY <1>7, <2>1, <2>2 
     DEF CancelCommit, TypeOK, CurrentOK, FinalizedOK, NewRun, Ends
<1>8. ASSUME NEW c \in Cancellers, CancelAbort(c)
      PROVE  IInv'
  <2>1. cancels' \in [Cancellers -> CancelRequests]
        /\ \A d \in Cancellers : cancels'[d].run \in {cancels[d].run, NewRun}
    BY <1>8, NewRunTyped DEF CancelAbort, EndRequest, TypeOK, CancelRequests
  <2>2. faults' \in 0 .. MaxFaults /\ lock' \in Cancellers \cup {NoLock}
    BY <1>8, EvaluationWorkflowAssumption DEF CancelAbort, Fault, TypeOK
  <2> QED BY <1>8, <2>1, <2>2 
     DEF CancelAbort, TypeOK, CurrentOK, FinalizedOK, NewRun, Ends
<1> QED
  BY <1>1, <1>2, <1>3, <1>4, <1>5, <1>6, <1>7, <1>8 DEF CancelStep

\* Every step keeps it.
LEMMA IInvStep ==
  ASSUME IInv, [Next]_vars
  PROVE  IInv'
<1>1. CASE UNCHANGED vars
  <2>1. TypeOK'
    BY <1>1 DEF vars, IInv, TypeOK
  <2>2. CurrentOK'
    BY <1>1 DEF vars, IInv, CurrentOK
  <2>3. FinalizedOK'
    BY <1>1 DEF vars, IInv, FinalizedOK
  <2> QED BY <2>1, <2>2, <2>3 DEF IInv
<1>2. CASE Next
  BY <1>1, <1>2, AttemptStepKeeps, AttemptFaultKeeps, RequestKeeps DEF Next
<1> QED BY <1>1, <1>2

\* Type correctness and the invariant behind FinalizedBeforeTerminal, for the
\* concurrent system with all of its faults.
THEOREM Invariance == Spec => []IInv
BY InitInv, IInvStep, PTL DEF Spec

\* A run becomes COMPLETED or FAILED only after a finalize activity committed,
\* whatever attempts stall, crash or store stale copies and whoever cancels.
THEOREM FinalizedFirst == Spec => []FinalizedBeforeTerminal
<1>1. IInv => FinalizedBeforeTerminal
  BY DEF IInv, FinalizedOK, FinalizedBeforeTerminal, Ends
<1> QED BY <1>1, Invariance, PTL

\* Every variable keeps its type.
THEOREM TypeCorrect == Spec => []TypeOK
<1>1. IInv => TypeOK
  BY DEF IInv
<1> QED BY <1>1, Invariance, PTL

-----------------------------------------------------------------------------
(* How an attempt ends, for the invariants below. *)

\* The slots that are not n are left alone.
OthersStay(n) == \A t \in Slots \ {n} : proc'[t] = proc[t]

\* A failed attempt is followed by the activity's next one, or its attempts are
\* exhausted and the except block or the failed execution follows.
Continued ==
  /\ wf'.item = wf.item
  /\ \/ /\ wf.attempt < MaxAttempts /\ wf'.attempt = wf.attempt + 1
        /\ wf'.pc = wf.pc /\ wf'.completed = wf.completed /\ wf'.failed = wf.failed
     \/ wf' = AfterFailure(wf) /\ wf'.pc \in {"recover", "error"}

LEMMA NextAttemptShape ==
  ASSUME IInv, NEW n \in Slots, NextAttempt(proc, n)
  PROVE  /\ cur' = n /\ proc'[n] = Scheduled(wf') /\ OthersStay(n)
         /\ wf' \in Workflows /\ Continued
<1> USE DEF IInv, TypeOK
<1>1. cur' = n /\ proc'[n] = Scheduled(wf') /\ OthersStay(n)
  BY DEF NextAttempt, OthersStay
<1>2. CASE wf.attempt < MaxAttempts
  BY <1>1, <1>2, EvaluationWorkflowAssumption DEF NextAttempt, Workflows, Continued
<1>3. CASE ~(wf.attempt < MaxAttempts)
  <2>1. wf' = AfterFailure(wf)
    BY <1>3 DEF NextAttempt
  <2>2. wf'.item = wf.item
    BY <2>1 DEF AfterFailure, Activity, Workflows
  <2> QED BY <1>1, <2>1, <2>2, AfterFailureTyped DEF Continued
<1> QED BY <1>2, <1>3

LEMMA RaiseShape ==
  ASSUME IInv, NEW s \in Slots, Raise(s)
  PROVE  /\ OthersStay(s)
         /\ s = cur => cur' = cur /\ proc'[s] = Scheduled(wf') /\ wf' \in Workflows /\ Continued
         /\ s # cur => proc'[s] = Idle /\ UNCHANGED <<wf, cur>>
<1>1. CASE s = cur
  BY <1>1, NextAttemptShape DEF Raise
<1>2. CASE s # cur
  BY <1>2 DEF Raise, OthersStay, IInv, TypeOK
<1> QED BY <1>1, <1>2

LEMMA ReturnShape ==
  ASSUME IInv, NEW s \in Slots, NEW ok \in BOOLEAN, Return(s, ok)
  PROVE  /\ OthersStay(s) /\ cur' = cur
         /\ s = cur => /\ proc'[s] = Scheduled(wf') /\ wf' = AfterActivity(wf, ok)
                       /\ wf' \in Workflows
         /\ s # cur => proc'[s] = Idle /\ wf' = wf
<1>1. CASE s = cur
  BY <1>1, AfterActivityTyped DEF Return, OthersStay, IInv, TypeOK, CurrentOK
<1>2. CASE s # cur
  BY <1>2 DEF Return, OthersStay, IInv, TypeOK
<1> QED BY <1>1, <1>2

LEMMA ScheduledFields ==
  ASSUME NEW w \in Workflows
  PROVE  /\ Scheduled(w).act = IF w.pc \in Activities THEN w.pc ELSE "none"
         /\ Scheduled(w).stage = "new" /\ Scheduled(w).found = 0
         /\ Scheduled(w).base = NewRun /\ Scheduled(w).run = NewRun
         /\ w.pc \in Activities => /\ Scheduled(w).item = w.item
                                   /\ Scheduled(w).c = w.completed /\ Scheduled(w).f = w.failed
BY DEF Scheduled, Attempt, Idle

\* persist follows a successful execution of the same item, and nothing else.
LEMMA PersistFollows ==
  ASSUME NEW w \in Workflows, NEW ok \in BOOLEAN, AfterActivity(w, ok).pc = "persist"
  PROVE  w.pc = "execute" /\ ok /\ AfterActivity(w, ok).item = w.item
<1>1. \A v, act : Activity(v, act).pc = act => act = Activity(v, act).pc
  OBVIOUS
<1>2. LoopHead(w).pc # "persist"
  BY DEF LoopHead, Activity, Workflows
<1> QED BY <1>2 DEF AfterActivity, AfterItem, Activity, Workflows

\* After the signal the loop is left before the next item, whichever attempts of
\* the current one are still under way.
THEOREM CancelHeededByLoop == Spec => CancelStopsNewItems
<1>1. ASSUME NEW w \in Workflows, NEW ok \in BOOLEAN, w.cancel
      PROVE  AfterActivity(w, ok).item = w.item
  <2>1. LoopHead(w).item = w.item
    BY <1>1, TotalItemsTyped DEF LoopHead, Activity, Workflows
  <2> QED BY <2>1 DEF AfterActivity, AfterItem, Activity, Workflows
<1>2. ASSUME IInv, [Next]_vars
      PROVE  [wf.cancel => wf'.item = wf.item]_vars
  <2>1. CASE UNCHANGED vars
    BY <2>1
  <2>2. CASE \E s \in Slots : Raise(s)
    BY <1>2, <2>2, RaiseShape DEF Continued
  <2>3. CASE \E n \in Slots : NextAttempt(proc, n)
    BY <1>2, <2>3, NextAttemptShape DEF Continued
  <2>4. CASE \E s \in Slots, ok \in BOOLEAN : Return(s, ok)
    <3>1. PICK s \in Slots, ok \in BOOLEAN : Return(s, ok)
      BY <2>4
    <3>2. s # cur => wf' = wf
      BY <1>2, <3>1, ReturnShape
    <3>3. s = cur => wf' = AfterActivity(wf, ok)
      BY <1>2, <3>1, ReturnShape
    <3> QED BY <1>1, <1>2, <3>2, <3>3 DEF IInv, TypeOK
  <2>5. CASE wf'.item = wf.item
    BY <2>5
  <2>6. \/ \E s \in Slots : AttemptStep(s) \/ AttemptFault(s)
        \/ ScheduleWorkflow \/ CommitCreate \/ AbortCreate
        \/ \E c \in Cancellers, force \in BOOLEAN : CancelLoad(c, force)
        \/ \E c \in Cancellers : CancelStep(c) \/ CancelAbort(c)
        \/ UNCHANGED vars
    BY <1>2 DEF Next
  <2>7. CASE \E s \in Slots : AttemptStep(s)
    BY <2>2, <2>4, <2>5, <2>7
       DEF AttemptStep, LoadRun, LoadMissing, StoreRun, ReturnRun, LookUp, CallProvider,
           RecordExecution, RecordConflict, ReturnItem, PersistMetrics
  <2>8. CASE \E s \in Slots : AttemptFault(s)
    BY <2>2, <2>3, <2>5, <2>8 DEF AttemptFault, DatabaseError, Crash, Stall
  <2>9. CASE ScheduleWorkflow
    BY <1>2, <2>5, <2>9 DEF ScheduleWorkflow, Activity, IInv, TypeOK, Workflows
  <2>10. CASE \E c \in Cancellers : CancelSignal(c)
    BY <1>2, <2>5, <2>10 DEF CancelSignal, IInv, TypeOK, Workflows
  <2> QED
    BY <2>1, <2>5, <2>6, <2>7, <2>8, <2>9, <2>10
       DEF CommitCreate, AbortCreate, CancelLoad, CancelStep, CancelFlush, CancelCommit,
           CancelAbort
<1> QED BY <1>2, Invariance, PTL DEF Spec, CancelStopsNewItems

-----------------------------------------------------------------------------
(* Durable records. *)

\* What an attempt has in hand is recorded under its item's id, or is the
\* result of its own call.
AttemptRests(p) ==
  /\ p.act = "execute" /\ p.found # 0 => ItemId[p.found] = ItemId[p.item]
  /\ p.act = "execute" /\ p.stage \in {"recorded", "ok"} => durable[ItemId[p.item]] # 0
  /\ p.act = "persist" => durable[ItemId[p.item]] # 0

RecordOK ==
  /\ \A k \in ItemIds : durable[k] # 0 => ItemId[durable[k]] = k
  /\ \A k \in metricRows : durable[k] # 0
  /\ \A i \in Items : evidence[i] # 0 => /\ durable[ItemId[i]] # 0
                                         /\ ItemId[evidence[i]] = ItemId[i]
  /\ wf.pc = "persist" => durable[ItemId[wf.item]] # 0
  /\ wf.pc \in Activities => proc[cur].item = wf.item
  /\ \A s \in Slots : AttemptRests(proc[s])

\* The parts the end of an attempt concerns.
RestsOK ==
  /\ wf.pc = "persist" => durable[ItemId[wf.item]] # 0
  /\ wf.pc \in Activities => proc[cur].item = wf.item
  /\ \A s \in Slots : AttemptRests(proc[s])

LEMMA IdleRests == AttemptRests(Idle)
BY DEF AttemptRests, Idle, Attempt

LEMMA ScheduledRests ==
  ASSUME NEW w \in Workflows, w.pc = "persist" => durable[ItemId[w.item]] # 0
  PROVE  AttemptRests(Scheduled(w))
BY ScheduledFields DEF AttemptRests, Activities, RunActivities

LEMMA RaiseRests ==
  ASSUME IInv, RecordOK, NEW s \in Slots, Raise(s), UNCHANGED durable
  PROVE  RestsOK'
<1>1. CASE s # cur
  BY <1>1, RaiseShape, IdleRests
     DEF RestsOK, RecordOK, OthersStay, AttemptRests, IInv, TypeOK
<1>2. CASE s = cur
  <2>1. wf'.pc = "persist" => durable[ItemId[wf'.item]] # 0
    BY <1>2, RaiseShape DEF Continued, RecordOK
  <2>2. AttemptRests(proc'[s]) /\ (wf'.pc \in Activities => proc'[cur'].item = wf'.item)
    <3>1. PICK w : w = wf'
      OBVIOUS
    <3> QED BY <1>2, <2>1, <3>1, RaiseShape, ScheduledRests, ScheduledFields
  <2>3. \A t \in Slots \ {s} : AttemptRests(proc[t])' <=> AttemptRests(proc[t])
    BY RaiseShape DEF OthersStay, AttemptRests
  <2> QED BY <2>1, <2>2, <2>3 DEF RestsOK, RecordOK, AttemptRests
<1> QED BY <1>1, <1>2

LEMMA NextAttemptRests ==
  ASSUME IInv, RecordOK, NEW n \in Slots, NextAttempt(proc, n), UNCHANGED durable
  PROVE  RestsOK'
<1>1. wf'.pc = "persist" => durable[ItemId[wf'.item]] # 0
  BY NextAttemptShape DEF Continued, RecordOK
<1>2. AttemptRests(proc'[n]) /\ (wf'.pc \in Activities => proc'[cur'].item = wf'.item)
  <2>1. PICK w : w = wf'
    OBVIOUS
  <2> QED BY <1>1, <2>1, NextAttemptShape, ScheduledRests, ScheduledFields
<1>3. \A t \in Slots \ {n} : AttemptRests(proc[t])' <=> AttemptRests(proc[t])
  BY NextAttemptShape DEF OthersStay, AttemptRests
<1> QED BY <1>1, <1>2, <1>3 DEF RestsOK, RecordOK, AttemptRests

\* A result keeps it: before persist is scheduled the execution was recorded.
LEMMA ReturnRests ==
  ASSUME IInv, RecordOK, NEW s \in Slots, NEW ok \in BOOLEAN, Return(s, ok), UNCHANGED durable,
         wf.pc = "execute" /\ s = cur /\ ok => durable[ItemId[wf.item]] # 0
  PROVE  RestsOK'
<1>1. CASE s # cur
  BY <1>1, ReturnShape, IdleRests
     DEF RestsOK, RecordOK, OthersStay, AttemptRests, IInv, TypeOK
<1>2. CASE s = cur
  <2>1. wf'.pc = "persist" => durable[ItemId[wf'.item]] # 0
    BY <1>2, ReturnShape, PersistFollows DEF IInv, TypeOK
  <2>2. AttemptRests(proc'[s]) /\ (wf'.pc \in Activities => proc'[cur'].item = wf'.item)
    <3>1. PICK w : w = wf'
      OBVIOUS
    <3> QED BY <1>2, <2>1, <3>1, ReturnShape, ScheduledRests, ScheduledFields
  <2>3. \A t \in Slots \ {s} : AttemptRests(proc[t])' <=> AttemptRests(proc[t])
    BY ReturnShape DEF OthersStay, AttemptRests
  <2> QED BY <2>1, <2>2, <2>3 DEF RestsOK, RecordOK, AttemptRests
<1> QED BY <1>1, <1>2

LEMMA RestsSuffice ==
  ASSUME RecordOK, RestsOK', UNCHANGED <<durable, metricRows, evidence>>
  PROVE  RecordOK'
BY DEF RecordOK, RestsOK

\* An attempt that goes on keeps it, if what it has then rests on the records.
LEMMA StageRests ==
  ASSUME IInv, RecordOK, NEW s \in Slots, UNCHANGED <<wf, cur>>, OthersStay(s),
         proc'[s].act = proc[s].act, proc'[s].item = proc[s].item,
         AttemptRests(proc[s])', proc' \in [Slots -> Attempts],
         \A k \in ItemIds : durable[k] # 0 => durable'[k] # 0
  PROVE  RestsOK'
<1> USE DEF IInv, TypeOK
<1>1. \A t \in Slots : proc[t].act \in {"execute", "persist"} => ItemId[proc[t].item] \in ItemIds
  BY ItemOfAttempt DEF IdOf
<1>2. wf.pc = "persist" => ItemId[wf.item] \in ItemIds
  BY TotalItemsTyped DEF CurrentOK, Workflows, Items, ItemIds
<1>3. \A t \in Slots \ {s} : AttemptRests(proc[t])'
  BY <1>1 DEF OthersStay, RecordOK, AttemptRests
<1>4. wf'.pc \in Activities => proc'[cur'].item = wf'.item
  BY DEF OthersStay, RecordOK
<1>5. wf'.pc = "persist" => durable'[ItemId[wf'.item]] # 0
  BY <1>2 DEF RecordOK
<1> QED BY <1>3, <1>4, <1>5 DEF RestsOK, AttemptRests

\* Reach only moves the stage of the attempt.
LEMMA ReachShape ==
  ASSUME IInv, NEW s \in Slots, NEW stage \in Stages, Reach(s, stage)
  PROVE  /\ OthersStay(s) /\ proc' \in [Slots -> Attempts]
         /\ proc'[s].act = proc[s].act /\ proc'[s].item = proc[s].item
         /\ proc'[s].found = proc[s].found /\ proc'[s].stage = stage
BY DEF Reach, OthersStay, IInv, TypeOK, Attempts

\* Every step of an attempt keeps the records in order.
LEMMA AttemptStepRests ==
  ASSUME IInv, RecordOK, DurableSchema, NEW s \in Slots, AttemptStep(s)
  PROVE  RecordOK'
<1> USE DEF IInv, TypeOK
<1>0. /\ proc[s].act \in {"execute", "persist"} =>
           proc[s].item \in Items /\ IdOf(s) \in ItemIds /\ IdOf(s) = ItemId[proc[s].item]
      /\ AttemptRests(proc[s])
  BY ItemOfAttempt DEF IdOf, RecordOK
<1>1. CASE LoadRun(s)
  <2>1. UNCHANGED <<durable, metricRows, evidence>> /\ proc[s].act \in RunActivities
    BY <1>1 DEF LoadRun, At
  <2>2. CASE CanApply(proc[s].act, row)
    <3>1. /\ UNCHANGED <<wf, cur>> /\ OthersStay(s) /\ proc'[s].act = proc[s].act
          /\ proc'[s].item = proc[s].item /\ proc'[s].found = proc[s].found
      BY <1>1, <2>2 DEF LoadRun, OthersStay, Attempts
    <3>2. AttemptRests(proc[s])'
      BY <2>1, <3>1 DEF AttemptRests, RunActivities
    <3>3. proc' \in [Slots -> Attempts]
      BY <1>1, AttemptStepKeeps DEF AttemptStep
    <3> QED BY <2>1, <3>1, <3>2, <3>3, StageRests, RestsSuffice
  <2>3. CASE ~CanApply(proc[s].act, row)
    BY <1>1, <2>1, <2>3, RaiseRests, RestsSuffice DEF LoadRun
  <2> QED BY <2>2, <2>3
<1>2. CASE LoadMissing(s)
  BY <1>2, RaiseRests, RestsSuffice DEF LoadMissing
<1>3. CASE StoreRun(s)
  <2>1. UNCHANGED <<durable, metricRows, evidence>> /\ proc[s].act \in RunActivities
    BY <1>3 DEF StoreRun, At
  <2>2. /\ UNCHANGED <<wf, cur>> /\ OthersStay(s) /\ proc'[s].act = proc[s].act
        /\ proc'[s].item = proc[s].item /\ proc'[s].found = proc[s].found
    BY <1>3 DEF StoreRun, OthersStay, Attempts
  <2>3. AttemptRests(proc[s])'
    BY <2>1, <2>2 DEF AttemptRests, RunActivities
  <2>4. proc' \in [Slots -> Attempts]
    BY <1>3, AttemptStepKeeps DEF AttemptStep
  <2> QED BY <2>1, <2>2, <2>3, <2>4, StageRests, RestsSuffice
<1>4. CASE ReturnRun(s)
  <2>1. s = cur => wf.pc # "execute"
    BY <1>4 DEF ReturnRun, At, CurrentOK, Activities, RunActivities
  <2> QED BY <1>4, <2>1, ReturnRests, RestsSuffice DEF ReturnRun
<1>5. CASE LookUp(s)
  <2>1. UNCHANGED <<wf, cur, durable, metricRows, evidence>> /\ proc[s].act = "execute"
    BY <1>5 DEF LookUp, At
  <2>2. proc' \in [Slots -> Attempts]
    BY <1>5, AttemptStepKeeps DEF AttemptStep
  <2>3. CASE durable[IdOf(s)] # 0
    <3>1. /\ OthersStay(s) /\ proc'[s].act = proc[s].act /\ proc'[s].item = proc[s].item
          /\ proc'[s].found = durable[IdOf(s)]
      BY <1>5, <2>3 DEF LookUp, OthersStay, Attempts
    <3>2. ItemId[durable[IdOf(s)]] = IdOf(s)
      BY <1>0, <2>1, <2>3 DEF RecordOK
    <3>3. AttemptRests(proc[s])'
      BY <1>0, <2>1, <2>3, <3>1, <3>2 DEF AttemptRests
    <3> QED BY <2>1, <2>2, <3>1, <3>3, StageRests, RestsSuffice
  <2>4. CASE ~(durable[IdOf(s)] # 0)
    <3>1. PICK stage \in {"ok", "looked"} :
            Reach(s, stage) /\ (stage = "ok" => IdOf(s) \in metricRows)
      BY <1>5, <2>4 DEF LookUp
    <3>2. stage = "looked"
      BY <2>4, <3>1 DEF RecordOK
    <3>3. AttemptRests(proc[s])'
      BY <1>0, <2>1, <3>1, <3>2, ReachShape DEF AttemptRests, Stages
    <3> QED BY <2>1, <2>2, <3>1, <3>3, ReachShape, StageRests, RestsSuffice DEF Stages
  <2> QED BY <2>3, <2>4
<1>6. CASE CallProvider(s)
  <2>1. UNCHANGED <<wf, cur, durable, metricRows, evidence>> /\ proc[s].act = "execute"
    BY <1>6 DEF CallProvider, At
  <2>2. proc' \in [Slots -> Attempts]
    BY <1>6, AttemptStepKeeps DEF AttemptStep
  <2>3. CASE proc' = [proc EXCEPT ![s].stage = "called", ![s].found = proc[s].item]
    <3>1. /\ OthersStay(s) /\ proc'[s].act = proc[s].act /\ proc'[s].item = proc[s].item
          /\ proc'[s].found = proc[s].item /\ proc'[s].stage = "called"
      BY <2>3 DEF OthersStay, Attempts
    <3>2. AttemptRests(proc[s])'
      BY <2>1, <3>1 DEF AttemptRests
    <3> QED BY <2>1, <2>2, <3>1, <3>2, StageRests, RestsSuffice
  <2>4. CASE Reach(s, "bad")
    <3>1. AttemptRests(proc[s])'
      BY <1>0, <2>1, <2>4, ReachShape DEF AttemptRests, Stages
    <3> QED BY <2>1, <2>2, <2>4, <3>1, ReachShape, StageRests, RestsSuffice DEF Stages
  <2> QED BY <1>6, <2>3, <2>4 DEF CallProvider
<1>7. CASE RecordExecution(s)
  <2>1. /\ UNCHANGED <<wf, cur, metricRows, evidence>> /\ proc[s].act = "execute"
        /\ Reach(s, "recorded") /\ durable' = [durable EXCEPT ![IdOf(s)] = proc[s].item]
    BY <1>7 DEF RecordExecution, At
  <2>2. proc' \in [Slots -> Attempts]
    BY <1>7, AttemptStepKeeps DEF AttemptStep
  <2>3. /\ \A k \in ItemIds : durable[k] # 0 => durable'[k] # 0
        /\ durable'[IdOf(s)] # 0
        /\ \A k \in ItemIds : durable'[k] # 0 => ItemId[durable'[k]] = k
    BY <1>0, <2>1 DEF RecordOK, Items
  <2>4. AttemptRests(proc[s])'
    BY <1>0, <2>1, <2>3, ReachShape DEF AttemptRests, Stages
  <2>5. RestsOK'
    BY <2>1, <2>2, <2>3, <2>4, ReachShape, StageRests DEF Stages
  <2>6. \A i \in Items : ItemId[i] \in ItemIds
    BY DEF ItemIds
  <2> QED BY <2>1, <2>3, <2>5, <2>6 DEF RecordOK, RestsOK
<1>8. CASE ReturnItem(s)
  <2>1. UNCHANGED <<durable, metricRows>> /\ proc[s].act = "execute"
    BY <1>8 DEF ReturnItem, At
  <2>2. s = cur => wf.pc = "execute" /\ proc[s].item = wf.item
    BY <2>1 DEF CurrentOK, RecordOK, Activities, RunActivities
  <2>3. CASE (At(s, {"execute"}, "recorded") \/ At(s, {"execute"}, "ok")) /\ Return(s, TRUE)
             /\ evidence' = IF s = cur THEN [evidence EXCEPT ![proc[s].item] = proc[s].found]
                                       ELSE evidence
    <3>1. durable[ItemId[proc[s].item]] # 0
      BY <1>0, <2>3 DEF At, AttemptRests
    <3>2. RestsOK'
      BY <2>1, <2>2, <2>3, <3>1, ReturnRests
    <3>3. \A i \in Items : evidence'[i] # 0 => durable[ItemId[i]] # 0
                                               /\ ItemId[evidence'[i]] = ItemId[i]
      BY <1>0, <2>1, <2>3, <3>1 DEF RecordOK, AttemptRests
    <3> QED BY <2>1, <3>2, <3>3 DEF RecordOK, RestsOK
  <2>4. CASE Return(s, FALSE) /\ UNCHANGED evidence
    BY <2>1, <2>4, ReturnRests, RestsSuffice
  <2> QED BY <1>8, <2>3, <2>4 DEF ReturnItem
<1>9. CASE PersistMetrics(s)
  <2>1. /\ UNCHANGED <<wf, cur, durable, evidence>> /\ proc[s].act = "persist"
        /\ Reach(s, "stored") /\ metricRows' = metricRows \cup {IdOf(s)}
    BY <1>9 DEF PersistMetrics, At
  <2>2. durable[IdOf(s)] # 0
    BY <1>0, <2>1 DEF AttemptRests
  <2>3. AttemptRests(proc[s])'
    BY <1>0, <2>1, ReachShape DEF AttemptRests, Stages
  <2>4. RestsOK'
    BY <2>1, <2>3, ReachShape, StageRests DEF Stages
  <2> QED BY <2>1, <2>2, <2>4 DEF RecordOK, RestsOK
<1>10. CASE RecordConflict(s)
  BY <1>10, RaiseRests, RestsSuffice DEF RecordConflict
<1> QED
  BY <1>1, <1>2, <1>3, <1>4, <1>5, <1>6, <1>7, <1>8, <1>9, <1>10 DEF AttemptStep

\* So does every fault, and every request.
LEMMA AttemptFaultRests ==
  ASSUME IInv, RecordOK, NEW s \in Slots, AttemptFault(s)
  PROVE  RecordOK'
<1> USE DEF IInv, TypeOK
<1>1. CASE DatabaseError(s)
  <2>1. UNCHANGED <<durable, metricRows, evidence>>
    BY <1>1 DEF DatabaseError
  <2>2. CASE Raise(s)
    BY <2>1, <2>2, RaiseRests, RestsSuffice
  <2>3. CASE At(s, {"execute"}, "new") /\ Reach(s, "bad") /\ UNCHANGED <<wf, cur>>
    <3>1. AttemptRests(proc[s])'
      BY <2>1, <2>3, ReachShape DEF RecordOK, AttemptRests, Stages, At
    <3> QED BY <2>1, <2>3, <3>1, ReachShape, StageRests, RestsSuffice DEF Stages
  <2> QED BY <1>1, <2>2, <2>3 DEF DatabaseError
<1>2. CASE Crash(s)
  BY <1>2, RaiseRests, RestsSuffice DEF Crash
<1>3. CASE Stall(s)
  BY <1>3, NextAttemptRests, RestsSuffice DEF Stall
<1> QED BY <1>1, <1>2, <1>3 DEF AttemptFault

LEMMA RequestRests ==
  ASSUME IInv, RecordOK,
         \/ ScheduleWorkflow \/ CommitCreate \/ AbortCreate
         \/ \E c \in Cancellers, force \in BOOLEAN : CancelLoad(c, force)
         \/ \E c \in Cancellers : CancelStep(c) \/ CancelAbort(c)
  PROVE  RecordOK'
<1> USE DEF IInv, TypeOK
<1>1. UNCHANGED <<cur, durable, metricRows, evidence>>
  BY DEF ScheduleWorkflow, CommitCreate, AbortCreate, CancelLoad, CancelStep, CancelFlush,
         CancelSignal, CancelCommit, CancelAbort
<1>2. CASE ScheduleWorkflow
  <2>1. wf' \in Workflows
    BY <1>2, RequestKeeps
  <2>2. wf'.pc = "queue" /\ OthersStay(cur) /\ proc'[cur] = Scheduled(wf')
    BY <1>2 DEF ScheduleWorkflow, Activity, Workflows, OthersStay
  <2>3. AttemptRests(proc'[cur]) /\ proc'[cur].item = wf'.item
    <3>1. PICK w : w = wf'
      OBVIOUS
    <3> QED BY <2>1, <2>2, <3>1, ScheduledRests, ScheduledFields DEF Activities, RunActivities
  <2>4. \A t \in Slots \ {cur} : AttemptRests(proc[t])' <=> AttemptRests(proc[t])
    BY <1>1, <2>2 DEF OthersStay, AttemptRests
  <2>5. RestsOK'
    BY <1>1, <2>2, <2>3, <2>4 DEF RestsOK, RecordOK, AttemptRests
  <2> QED BY <1>1, <2>5, RestsSuffice
<1>3. CASE ~ScheduleWorkflow
  <2>1. UNCHANGED proc /\ wf'.pc = wf.pc /\ wf'.item = wf.item
    BY <1>3 DEF CommitCreate, AbortCreate, CancelLoad, CancelStep, CancelFlush,
         CancelSignal, CancelCommit, CancelAbort, Workflows
  <2> QED BY <1>1, <2>1 DEF RecordOK, AttemptRests
<1> QED BY <1>2, <1>3

\* With the item_executions table, every accepted success and every metric row
\* rests on a durable execution record of the item's id, whatever crashes,
\* stalls, duplicated attempts and cancel requests happen.
THEOREM SuccessIsDurable == Spec => []SuccessRestsOnRecord
<1> DEFINE Inv == IInv /\ (DurableSchema => RecordOK)
<1>1. Init => Inv
  <2> SUFFICES ASSUME Init PROVE RecordOK
    BY InitInv
  <2>1. \A s \in Slots : proc[s] = Idle
    BY DEF Init
  <2>2. /\ \A k \in ItemIds : durable[k] = 0
        /\ metricRows = {} /\ wf.pc = "none"
        /\ \A i \in Items : evidence[i] = 0
    BY DEF Init
  <2> QED BY <2>1, <2>2, IdleRests DEF RecordOK, Activities, RunActivities
<1>2. Inv /\ [Next]_vars => Inv'
  <2> SUFFICES ASSUME Inv, [Next]_vars PROVE Inv'
    OBVIOUS
  <2>1. CASE UNCHANGED vars
    BY <2>1, IInvStep DEF vars, RecordOK, AttemptRests
  <2>2. CASE \E s \in Slots : AttemptStep(s)
    BY <2>2, AttemptStepKeeps, AttemptStepRests
  <2>3. CASE \E s \in Slots : AttemptFault(s)
    BY <2>3, AttemptFaultKeeps, AttemptFaultRests
  <2>4. CASE \/ ScheduleWorkflow \/ CommitCreate \/ AbortCreate
             \/ \E c \in Cancellers, force \in BOOLEAN : CancelLoad(c, force)
             \/ \E c \in Cancellers : CancelStep(c) \/ CancelAbort(c)
    BY <2>4, RequestKeeps, RequestRests
  <2> QED BY <2>1, <2>2, <2>3, <2>4 DEF Next
<1>3. Inv => SuccessRestsOnRecord
  BY DEF RecordOK, SuccessRestsOnRecord
<1> QED BY <1>1, <1>2, <1>3, PTL DEF Spec

-----------------------------------------------------------------------------
(* Provider calls. *)

\* The attempts that may still call the provider for item i.
Pending(i) == {s \in Slots : proc[s].act = "execute" /\ proc[s].item = i
                             /\ proc[s].stage \in {"new", "looked"}}

\* The attempts of item i scheduled so far, or the most there can be.
Due(i) == IF i > wf.item THEN 0
          ELSE IF i = wf.item /\ wf.pc = "execute" THEN wf.attempt ELSE MaxAttempts

\* No attempt calls twice: the calls made and the calls to come fit the attempts.
CallsOK(i) == IsFiniteSet(Pending(i)) /\ calls[i] + Cardinality(Pending(i)) <= Due(i)

\* How a step may change the pending attempts of an item: none is added, or one
\* for an attempt newly counted, or one is spent on a call.
Fewer(i) == Pending(i)' \subseteq Pending(i) /\ calls'[i] = calls[i] /\ Due(i)' >= Due(i)
OneMore(i) == /\ \E n \in Slots : Pending(i)' \subseteq Pending(i) \cup {n}
              /\ calls'[i] = calls[i] /\ Due(i)' >= Due(i) + 1
OneSpent(i) == /\ \E s \in Pending(i) : Pending(i)' \subseteq Pending(i) \ {s}
               /\ calls'[i] = calls[i] + 1 /\ Due(i)' = Due(i)

LEMMA DueTyped ==
  ASSUME wf \in Workflows, NEW i \in Items
  PROVE  Due(i) \in Nat /\ Due(i) <= MaxAttempts
BY EvaluationWorkflowAssumption DEF Due, Workflows

LEMMA CallsCounted ==
  ASSUME NEW i \in Items, IInv, wf' \in Workflows, CallsOK(i),
         Fewer(i) \/ OneMore(i) \/ OneSpent(i)
  PROVE  CallsOK(i)'
<1>0. calls[i] \in Nat
  BY DEF IInv, TypeOK
<1>1. Due(i) \in Nat
  BY DueTyped DEF IInv, TypeOK
<1>2. Due(i)' \in Nat
  BY EvaluationWorkflowAssumption DEF Due, Workflows, Items
<1>3. PICK P : P = Pending(i)
  OBVIOUS
<1>4. PICK Q : Q = Pending(i)'
  OBVIOUS
<1>5. IsFiniteSet(P) /\ Cardinality(P) \in Nat /\ calls[i] + Cardinality(P) <= Due(i)
  BY <1>3, FS_CardinalityType DEF CallsOK
<1>6. CASE Fewer(i)
  <2>1. Q \subseteq P
    BY <1>3, <1>4, <1>6 DEF Fewer
  <2>2. IsFiniteSet(Q) /\ Cardinality(Q) \in Nat /\ Cardinality(Q) <= Cardinality(P)
    BY <1>5, <2>1, FS_Subset, FS_CardinalityType
  <2>3. calls'[i] + Cardinality(Q) <= Due(i)'
    BY <1>0, <1>1, <1>2, <1>5, <1>6, <2>2 DEF Fewer
  <2> QED BY <1>4, <2>2, <2>3 DEF CallsOK
<1>7. CASE OneMore(i)
  <2>1. PICK n \in Slots : Q \subseteq P \cup {n}
    BY <1>3, <1>4, <1>7 DEF OneMore
  <2>2. IsFiniteSet(P \cup {n}) /\ Cardinality(P \cup {n}) \in Nat
        /\ Cardinality(P \cup {n}) <= Cardinality(P) + 1
    <3>1. IsFiniteSet(P \cup {n})
          /\ Cardinality(P \cup {n}) = IF n \in P THEN Cardinality(P) ELSE Cardinality(P) + 1
      BY <1>5, FS_AddElement
    <3> QED BY <1>5, <3>1
  <2>3. IsFiniteSet(Q) /\ Cardinality(Q) \in Nat /\ Cardinality(Q) <= Cardinality(P \cup {n})
    BY <2>1, <2>2, FS_Subset, FS_CardinalityType
  <2>4. calls'[i] + Cardinality(Q) <= Due(i)'
    BY <1>0, <1>1, <1>2, <1>5, <1>7, <2>2, <2>3 DEF OneMore
  <2> QED BY <1>4, <2>3, <2>4 DEF CallsOK
<1>8. CASE OneSpent(i)
  <2>1. PICK s \in P : Q \subseteq P \ {s}
    BY <1>3, <1>4, <1>8 DEF OneSpent
  <2>2. IsFiniteSet(P \ {s}) /\ Cardinality(P \ {s}) = Cardinality(P) - 1
    BY <1>5, FS_RemoveElement
  <2>3. IsFiniteSet(Q) /\ Cardinality(Q) \in Nat /\ Cardinality(Q) <= Cardinality(P) - 1
    BY <2>1, <2>2, FS_Subset, FS_CardinalityType
  <2>4. calls'[i] + Cardinality(Q) <= Due(i)'
    BY <1>0, <1>1, <1>2, <1>5, <1>8, <2>3 DEF OneSpent
  <2> QED BY <1>4, <2>3, <2>4 DEF CallsOK
<1> QED BY <1>6, <1>7, <1>8

LEMMA NextAttemptCounted ==
  ASSUME IInv, NEW n \in Slots, NextAttempt(proc, n), UNCHANGED calls, NEW i \in Items
  PROVE  Fewer(i) \/ OneMore(i)
<1> USE DEF IInv, TypeOK
<1>1. Pending(i)' \subseteq Pending(i) \cup {n}
  BY NextAttemptShape DEF OthersStay, Pending
<1>2. wf'.pc # "execute" \/ wf'.item # i => Pending(i)' \subseteq Pending(i)
  <2>1. PICK w : w = wf'
    OBVIOUS
  <2>2. wf'.pc # "execute" \/ wf'.item # i => proc'[n].act # "execute" \/ proc'[n].item # i
    BY <2>1, NextAttemptShape, ScheduledFields DEF Activities, RunActivities
  <2> QED BY <2>2, NextAttemptShape DEF OthersStay, Pending
<1>3. CASE wf'.pc = wf.pc /\ wf'.attempt = wf.attempt + 1 /\ wf'.item = wf.item
  <2>1. CASE wf.pc = "execute" /\ wf.item = i
    BY <1>1, <1>3, <2>1 DEF OneMore, Due, Workflows, Items
  <2>2. CASE ~(wf.pc = "execute" /\ wf.item = i)
    <3>1. Due(i)' = Due(i)
      BY <1>3, <2>2 DEF Due
    <3> QED BY <1>2, <1>3, <2>2, <3>1, DueTyped DEF Fewer
  <2> QED BY <2>1, <2>2
<1>4. CASE wf'.pc \in {"recover", "error"} /\ wf'.item = wf.item
  <2>1. Due(i)' >= Due(i)
    BY <1>4, EvaluationWorkflowAssumption DEF Due, Workflows, Items
  <2> QED BY <1>2, <1>4, <2>1 DEF Fewer
<1> QED BY <1>3, <1>4, NextAttemptShape DEF Continued

\* An item's execution is scheduled once, by the head of the loop.
LEMMA ExecuteFollows ==
  ASSUME NEW w \in Workflows, NEW ok \in BOOLEAN
  PROVE  LET v == AfterActivity(w, ok)
         IN  IF v.pc = "execute" THEN v.item = w.item + 1 /\ v.attempt = 1
                                 ELSE v.item = w.item
<1>1. LET v == LoopHead(w)
      IN  IF v.pc = "execute" THEN v.item = w.item + 1 /\ v.attempt = 1
                              ELSE v.item = w.item
  BY TotalItemsTyped DEF LoopHead, Activity, Workflows
<1> QED BY <1>1 DEF AfterActivity, AfterItem, Activity, Workflows

LEMMA ReturnCounted ==
  ASSUME IInv, NEW s \in Slots, NEW ok \in BOOLEAN, Return(s, ok), UNCHANGED calls,
         NEW i \in Items
  PROVE  Fewer(i) \/ OneMore(i)
<1> USE DEF IInv, TypeOK
<1>1. CASE s # cur
  <2>1. Pending(i)' \subseteq Pending(i)
    BY <1>1, ReturnShape, IdleTyped DEF OthersStay, Pending
  <2>2. Due(i)' = Due(i)
    BY <1>1, ReturnShape DEF Due
  <2> QED BY <2>1, <2>2, DueTyped DEF Fewer
<1>2. CASE s = cur
  <2>1. Pending(i)' \subseteq Pending(i) \cup {s}
    BY ReturnShape DEF OthersStay, Pending
  <2>2. wf'.pc # "execute" \/ wf'.item # i => Pending(i)' \subseteq Pending(i)
    <3>1. PICK w : w = wf'
      OBVIOUS
    <3>2. wf'.pc # "execute" \/ wf'.item # i => proc'[s].act # "execute" \/ proc'[s].item # i
      BY <1>2, <3>1, ReturnShape, ScheduledFields DEF Activities, RunActivities
    <3> QED BY <3>2, ReturnShape DEF OthersStay, Pending
  <2>3. IF wf'.pc = "execute" THEN wf'.item = wf.item + 1 /\ wf'.attempt = 1
                              ELSE wf'.item = wf.item
    BY <1>2, ReturnShape, ExecuteFollows
  <2>4. CASE wf'.pc = "execute" /\ wf'.item = i
    <3>1. Due(i)' >= Due(i) + 1
      BY <2>3, <2>4, TotalItemsTyped DEF Due, Workflows, Items
    <3> QED BY <2>1, <3>1 DEF OneMore
  <2>5. CASE ~(wf'.pc = "execute" /\ wf'.item = i)
    <3>1. Due(i)' >= Due(i)
      <4>1. wf \in Workflows /\ wf' \in Workflows /\ i \in Nat /\ wf.item \in Nat
        BY <1>2, ReturnShape, TotalItemsTyped DEF Workflows, Items
      <4>2. Due(i) \in Nat /\ Due(i) <= MaxAttempts
        BY DueTyped
      <4>3. CASE i > wf.item
        <5>1. Due(i) = 0
          BY <4>3 DEF Due
        <5>2. Due(i)' \in Nat
          BY <4>1, EvaluationWorkflowAssumption DEF Due, Workflows
        <5> QED BY <5>1, <5>2
      <4>4. CASE ~(i > wf.item)
        <5>1. Due(i)' = MaxAttempts
          BY <2>3, <2>5, <4>1, <4>4 DEF Due
        <5> QED BY <4>2, <5>1, EvaluationWorkflowAssumption
      <4> QED BY <4>3, <4>4
    <3> QED BY <2>2, <2>5, <3>1 DEF Fewer
  <2> QED BY <2>4, <2>5
<1> QED BY <1>1, <1>2

LEMMA RaiseCounted ==
  ASSUME IInv, NEW s \in Slots, Raise(s), UNCHANGED calls, NEW i \in Items
  PROVE  Fewer(i) \/ OneMore(i)
<1>1. CASE s # cur
  <2>1. Pending(i)' \subseteq Pending(i)
    BY <1>1, RaiseShape, IdleTyped DEF OthersStay, Pending
  <2>2. Due(i)' = Due(i)
    BY <1>1, RaiseShape DEF Due
  <2> QED BY <2>1, <2>2, DueTyped DEF Fewer, IInv, TypeOK
<1>2. CASE s = cur
  BY <1>2, NextAttemptCounted DEF Raise
<1> QED BY <1>1, <1>2

\* An attempt that moves on is not pending if it was not.
LEMMA MoveCounted ==
  ASSUME IInv, NEW s \in Slots, OthersStay(s), UNCHANGED <<wf, calls>>, NEW i \in Items,
         s \in Pending(i)' => s \in Pending(i)
  PROVE  Fewer(i)
<1>1. Pending(i)' \subseteq Pending(i)
  BY DEF OthersStay, Pending
<1>2. Due(i)' = Due(i)
  BY DEF Due
<1> QED BY <1>1, <1>2, DueTyped DEF Fewer, IInv, TypeOK

LEMMA AttemptStepCounted ==
  ASSUME IInv, NEW s \in Slots, AttemptStep(s), NEW i \in Items
  PROVE  Fewer(i) \/ OneMore(i) \/ OneSpent(i)
<1> USE DEF IInv, TypeOK
<1>1. CASE LoadRun(s)
  <2>1. UNCHANGED calls /\ proc[s].act \in RunActivities
    BY <1>1 DEF LoadRun, At
  <2>2. CASE CanApply(proc[s].act, row)
    <3>1. UNCHANGED wf /\ OthersStay(s) /\ proc'[s].stage = "loaded"
      BY <1>1, <2>2 DEF LoadRun, OthersStay, Attempts
    <3> QED BY <2>1, <3>1, MoveCounted DEF Pending
  <2> QED BY <1>1, <2>1, <2>2, RaiseCounted DEF LoadRun
<1>2. CASE LoadMissing(s)
  BY <1>2, RaiseCounted DEF LoadMissing
<1>3. CASE StoreRun(s)
  <2>1. UNCHANGED <<wf, calls>> /\ OthersStay(s) /\ proc'[s].stage = "stored"
    BY <1>3 DEF StoreRun, OthersStay, Attempts
  <2> QED BY <2>1, MoveCounted DEF Pending
<1>4. CASE ReturnRun(s)
  BY <1>4, ReturnCounted DEF ReturnRun
<1>5. CASE LookUp(s)
  <2>1. UNCHANGED <<wf, calls>> /\ proc[s].act = "execute" /\ proc[s].stage = "new"
    BY <1>5 DEF LookUp, At
  <2>2. OthersStay(s) /\ proc'[s].item = proc[s].item
    BY <1>5 DEF LookUp, Reach, OthersStay, Attempts
  <2> QED BY <2>1, <2>2, MoveCounted DEF Pending
<1>6. CASE CallProvider(s)
  <2>1. /\ UNCHANGED wf /\ proc[s].act = "execute" /\ proc[s].stage = "looked"
        /\ calls' = [calls EXCEPT ![proc[s].item] = @ + 1]
        /\ proc[s].item \in Items
    BY <1>6, ItemOfAttempt DEF CallProvider, At
  <2>2. OthersStay(s) /\ proc'[s].item = proc[s].item /\ proc'[s].stage \in {"called", "bad"}
    BY <1>6 DEF CallProvider, Reach, OthersStay, Attempts
  <2>3. Pending(i)' \subseteq Pending(i) \ {s}
    BY <2>2 DEF Pending, OthersStay
  <2>4. Due(i)' = Due(i) /\ Due(i) \in Nat
    BY <2>1, DueTyped DEF Due
  <2>5. CASE proc[s].item = i
    BY <2>1, <2>3, <2>4, <2>5 DEF OneSpent, Pending
  <2>6. CASE proc[s].item # i
    BY <2>1, <2>3, <2>4, <2>6 DEF Fewer
  <2> QED BY <2>5, <2>6
<1>7. CASE RecordExecution(s)
  <2>1. UNCHANGED <<wf, calls>> /\ OthersStay(s) /\ proc'[s].stage = "recorded"
    BY <1>7, ReachShape DEF RecordExecution, Stages
  <2> QED BY <2>1, MoveCounted DEF Pending
<1>8. CASE ReturnItem(s)
  BY <1>8, ReturnCounted DEF ReturnItem
<1>9. CASE PersistMetrics(s)
  <2>1. UNCHANGED <<wf, calls>> /\ OthersStay(s) /\ proc'[s].stage = "stored"
    BY <1>9, ReachShape DEF PersistMetrics, Stages
  <2> QED BY <2>1, MoveCounted DEF Pending
<1>10. CASE RecordConflict(s)
  BY <1>10, RaiseCounted DEF RecordConflict
<1> QED
  BY <1>1, <1>2, <1>3, <1>4, <1>5, <1>6, <1>7, <1>8, <1>9, <1>10 DEF AttemptStep

LEMMA AttemptFaultCounted ==
  ASSUME IInv, NEW s \in Slots, AttemptFault(s), NEW i \in Items
  PROVE  Fewer(i) \/ OneMore(i)
<1>1. CASE DatabaseError(s)
  <2>1. CASE Raise(s)
    BY <1>1, <2>1, RaiseCounted DEF DatabaseError
  <2>2. CASE Reach(s, "bad") /\ UNCHANGED wf
    BY <1>1, <2>2, ReachShape, MoveCounted DEF DatabaseError, Pending, Stages
  <2> QED BY <1>1, <2>1, <2>2 DEF DatabaseError
<1>2. CASE Crash(s)
  BY <1>2, RaiseCounted DEF Crash
<1>3. CASE Stall(s)
  BY <1>3, NextAttemptCounted DEF Stall
<1> QED BY <1>1, <1>2, <1>3 DEF AttemptFault

LEMMA RequestCounted ==
  ASSUME IInv, NEW i \in Items,
         \/ ScheduleWorkflow \/ CommitCreate \/ AbortCreate
         \/ \E c \in Cancellers, force \in BOOLEAN : CancelLoad(c, force)
         \/ \E c \in Cancellers : CancelStep(c) \/ CancelAbort(c)
  PROVE  Fewer(i)
<1> USE DEF IInv, TypeOK
<1>1. UNCHANGED <<cur, calls>>
  BY DEF ScheduleWorkflow, CommitCreate, AbortCreate, CancelLoad, CancelStep, CancelFlush,
         CancelSignal, CancelCommit, CancelAbort
<1>2. CASE ScheduleWorkflow
  <2>1. wf' \in Workflows
    BY <1>2, RequestKeeps
  <2>2. wf'.pc = "queue" /\ wf'.item = wf.item /\ OthersStay(cur) /\ proc'[cur] = Scheduled(wf')
    BY <1>2 DEF ScheduleWorkflow, Activity, Workflows, OthersStay
  <2>3. proc'[cur].act = "queue"
    <3>1. PICK w : w = wf'
      OBVIOUS
    <3> QED BY <2>1, <2>2, <3>1, ScheduledFields DEF Activities, RunActivities
  <2>4. Pending(i)' \subseteq Pending(i)
    BY <2>2, <2>3 DEF Pending, OthersStay
  <2>5. Due(i)' >= Due(i)
    BY <2>2, EvaluationWorkflowAssumption DEF Due, Workflows, Items
  <2> QED BY <1>1, <2>4, <2>5 DEF Fewer
<1>3. CASE ~ScheduleWorkflow
  <2>1. UNCHANGED proc /\ wf'.pc = wf.pc /\ wf'.item = wf.item /\ wf'.attempt = wf.attempt
    BY <1>3 DEF CommitCreate, AbortCreate, CancelLoad, CancelStep, CancelFlush,
         CancelSignal, CancelCommit, CancelAbort, Workflows
  <2>2. Pending(i)' = Pending(i) /\ Due(i)' = Due(i)
    BY <2>1 DEF Pending, Due
  <2> QED BY <1>1, <2>2, DueTyped DEF Fewer
<1> QED BY <1>2, <1>3

\* The provider is called at most MaxAttempts times for an item, however many
\* attempts crash, stall and go on beside their successors, or are repeated.
THEOREM CallsBounded == Spec => []ProviderCallBound
<1> DEFINE Inv == IInv /\ \A i \in Items : CallsOK(i)
<1>1. Init => Inv
  <2> SUFFICES ASSUME Init, NEW i \in Items PROVE CallsOK(i)
    BY InitInv
  <2>1. Pending(i) = {} /\ calls[i] = 0
    BY IdleTyped DEF Init, Pending
  <2>2. Due(i) \in Nat
    BY InitInv, DueTyped DEF IInv, TypeOK
  <2> QED BY <2>1, <2>2, FS_EmptySet DEF CallsOK
<1>2. Inv /\ [Next]_vars => Inv'
  <2> SUFFICES ASSUME Inv, [Next]_vars PROVE Inv'
    OBVIOUS
  <2>0. IInv'
    BY IInvStep
  <2> SUFFICES ASSUME NEW i \in Items PROVE CallsOK(i)'
    BY <2>0
  <2>1. CASE UNCHANGED vars
    <3>1. Pending(i)' = Pending(i) /\ Due(i)' = Due(i)
      BY <2>1 DEF vars, Pending, Due
    <3> QED BY <2>1, <3>1 DEF vars, CallsOK
  <2>2. CASE \E s \in Slots : AttemptStep(s)
    BY <2>2, <2>0, AttemptStepCounted, CallsCounted DEF IInv, TypeOK
  <2>3. CASE \E s \in Slots : AttemptFault(s)
    BY <2>3, <2>0, AttemptFaultCounted, CallsCounted DEF IInv, TypeOK
  <2>4. CASE \/ ScheduleWorkflow \/ CommitCreate \/ AbortCreate
             \/ \E c \in Cancellers, force \in BOOLEAN : CancelLoad(c, force)
             \/ \E c \in Cancellers : CancelStep(c) \/ CancelAbort(c)
    BY <2>4, <2>0, RequestCounted, CallsCounted DEF IInv, TypeOK
  <2> QED BY <2>1, <2>2, <2>3, <2>4 DEF Next
<1>3. Inv => ProviderCallBound
  <2> SUFFICES ASSUME Inv, NEW i \in Items PROVE calls[i] <= MaxAttempts
    BY DEF ProviderCallBound
  <2>1. PICK P : P = Pending(i)
    OBVIOUS
  <2>2. Cardinality(P) \in Nat /\ calls[i] + Cardinality(P) <= Due(i)
    BY <2>1, FS_CardinalityType DEF CallsOK
  <2> QED BY <2>2, DueTyped, EvaluationWorkflowAssumption DEF IInv, TypeOK
<1> QED BY <1>1, <1>2, <1>3, PTL DEF Spec

-----------------------------------------------------------------------------
(* One transaction at a time: no attempt outlives its timeout and no request *)
(* cancels the run.                                                          *)

OneAtATime == Cancellers = {} /\ "stall" \notin FaultKinds

\* Only the current slot runs an attempt, scheduled with the workflow's totals.
Alone ==
  /\ \A s \in Slots \ {cur} : proc[s] = Idle
  /\ wf.pc \in Activities => proc[cur].c = wf.completed /\ proc[cur].f = wf.failed

\* A loaded copy is the row with the attempt's operation applied to it.
CopyOK ==
  proc[cur].act \in RunActivities =>
    /\ proc[cur].stage \in {"loaded", "stored"} => api = "committed"
    /\ proc[cur].stage = "loaded" => /\ proc[cur].base = row
                                     /\ proc[cur].run = Apply(proc[cur], row)
                                     /\ CanApply(proc[cur].act, row)

\* An item counts once when its execution returns and at most once more when a
\* later activity of it fails.
TotalsOK(w) ==
  /\ w.failed <= w.completed
  /\ w.completed <= 2 * w.item
  /\ w.pc = "execute" => w.completed <= 2 * w.item - 2
  /\ w.pc \in {"persist", "progress"} => w.completed <= 2 * w.item - 1

\* The row's counters are totals the workflow once had.
CountersOK ==
  /\ row.failed <= row.completed
  /\ row.failed <= wf.failed /\ row.completed <= wf.completed
  /\ row.completed - row.failed <= wf.completed - wf.failed
  /\ TotalsOK(wf)

\* A terminal activity that has stored the run left its status in the row.
OutcomeOK ==
  /\ proc[cur].stage = "stored" => /\ proc[cur].act = "complete" => row.status = "completed"
                                   /\ proc[cur].act = "fail" => row.status = "failed"
                                   /\ proc[cur].act = "cancel" => row.status = "cancelled"
  /\ wf.pc \in {"completed", "failed", "cancelled"} => row.status = wf.pc /\ api = "committed"

\* An attempt that has looked its item up found nothing and nothing came since.
LookedOK ==
  proc[cur].act = "execute" /\ proc[cur].stage = "looked" =>
    /\ DurableSchema => durable[IdOf(cur)] = 0
    /\ UuidItems => IdOf(cur) \notin metricRows

SInv == Alone /\ CopyOK /\ CountersOK /\ OutcomeOK /\ LookedOK

LEMMA AfterActivityTotals ==
  ASSUME NEW w \in Workflows, NEW ok \in BOOLEAN, TotalsOK(w),
         w.pc \in {"execute", "persist"} => w.item # 0
  PROVE  LET v == AfterActivity(w, ok)
         IN  /\ TotalsOK(v)
             /\ w.completed <= v.completed /\ w.failed <= v.failed
             /\ w.completed - w.failed <= v.completed - v.failed
<1>0. w.item \in Nat /\ w.completed \in Nat /\ w.failed \in Nat /\ TotalItems \in Nat
      /\ w.item <= TotalItems
  BY TotalItemsTyped DEF Workflows
<1>1. ASSUME NEW v, v = LoopHead(w)
      PROVE  /\ TotalsOK(v)
             /\ v.completed = w.completed /\ v.failed = w.failed
  BY <1>0, <1>1 DEF LoopHead, Activity, Workflows, TotalsOK
<1>2. ASSUME NEW v, v = AfterActivity(w, ok), w.pc \in {"start", "progress", "recover"}
      PROVE  v = LoopHead(w)
  BY <1>2 DEF AfterActivity
<1>3. ASSUME NEW v, v = AfterActivity(w, ok), w.pc = "execute"
      PROVE  /\ TotalsOK(v)
             /\ w.completed <= v.completed /\ w.failed <= v.failed
             /\ w.completed - w.failed <= v.completed - v.failed
  <2>1. /\ v.item = w.item /\ v.completed = w.completed + 1
        /\ v.failed = IF ok THEN w.failed ELSE w.failed + 1
        /\ v.pc \in {"persist", "progress"}
    BY <1>3 DEF AfterActivity, AfterItem, Activity, Workflows
  <2> QED BY <1>0, <1>3, <2>1 DEF TotalsOK
<1>4. ASSUME NEW v, v = AfterActivity(w, ok),
             w.pc \notin {"start", "progress", "recover", "execute"}
      PROVE  /\ TotalsOK(v) /\ v.completed = w.completed /\ v.failed = w.failed
  <2>1. /\ v.item = w.item /\ v.completed = w.completed /\ v.failed = w.failed
        /\ v.pc # "execute" /\ v.pc # "persist"
        /\ v.pc = "progress" => w.pc = "persist"
    BY <1>4 DEF AfterActivity, Activity, Workflows
  <2> QED BY <1>0, <1>4, <2>1 DEF TotalsOK
<1> QED BY <1>0, <1>1, <1>2, <1>3, <1>4

LEMMA AfterFailureTotals ==
  ASSUME NEW w \in Workflows, TotalsOK(w)
  PROVE  LET v == AfterFailure(w)
         IN  /\ TotalsOK(v)
             /\ w.completed <= v.completed /\ w.failed <= v.failed
             /\ w.completed - w.failed <= v.completed - v.failed
<1>0. w.item \in Nat /\ w.completed \in Nat /\ w.failed \in Nat
  BY TotalItemsTyped DEF Workflows
<1> QED BY <1>0 DEF AfterFailure, Activity, Workflows, TotalsOK

\* The current attempt ends, and the workflow goes on to its next activity, its
\* next attempt or its end.
LEMMA EndKeeps ==
  ASSUME IInv, SInv, UNCHANGED <<row, api, cur>>, OthersStay(cur),
         proc'[cur] = Scheduled(wf'), wf' \in Workflows,
         Continued \/ \E ok \in BOOLEAN : wf' = AfterActivity(wf, ok),
         wf'.pc \in {"completed", "failed", "cancelled"}
           => row.status = wf'.pc /\ api = "committed"
  PROVE  SInv'
<1> USE DEF IInv, TypeOK, SInv
<1>1. /\ proc'[cur].stage = "new"
      /\ wf'.pc \in Activities => proc'[cur].c = wf'.completed /\ proc'[cur].f = wf'.failed
  <2>1. PICK w : w = wf'
    OBVIOUS
  <2> QED BY <2>1, ScheduledFields
<1>2. Alone'
  BY <1>1 DEF Alone, OthersStay
<1>3. CopyOK'
  BY <1>1 DEF CopyOK
<1>4. OutcomeOK'
  BY <1>1 DEF OutcomeOK
<1>5. LookedOK'
  BY <1>1 DEF LookedOK
<1>6. /\ TotalsOK(wf')
      /\ wf.completed <= wf'.completed /\ wf.failed <= wf'.failed
      /\ wf.completed - wf.failed <= wf'.completed - wf'.failed
  <2>1. CASE wf' = AfterFailure(wf)
    BY <2>1, AfterFailureTotals DEF CountersOK
  <2>2. CASE \E ok \in BOOLEAN : wf' = AfterActivity(wf, ok)
    BY <2>2, AfterActivityTotals DEF CountersOK, CurrentOK
  <2>3. CASE /\ wf'.item = wf.item /\ wf'.pc = wf.pc
             /\ wf'.completed = wf.completed /\ wf'.failed = wf.failed
    BY <2>3 DEF CountersOK, TotalsOK, Workflows
  <2> QED BY <2>1, <2>2, <2>3 DEF Continued
<1>7. CountersOK'
  <2>1. TotalsOK(wf)'
    BY <1>6 DEF TotalsOK
  <2> QED BY <1>6, <2>1 DEF CountersOK, Runs, Workflows
<1> QED BY <1>2, <1>3, <1>4, <1>5, <1>7

LEMMA RaiseAlone ==
  ASSUME IInv, SInv, NEW s \in Slots, proc[s].act # "none", Raise(s), UNCHANGED <<row, api>>
  PROVE  SInv'
<1>1. s = cur
  BY IdleTyped DEF SInv, Alone
<1>2. wf'.pc \notin {"completed", "failed", "cancelled"}
  <2>1. wf.pc \in Activities
    BY <1>1 DEF IInv, CurrentOK
  <2>2. wf.pc \notin {"completed", "failed", "cancelled"}
    BY <2>1 DEF Activities, RunActivities
  <2> QED BY <1>1, <2>2, RaiseShape DEF Continued
<1> QED BY <1>1, <1>2, RaiseShape, EndKeeps

LEMMA ReturnAlone ==
  ASSUME IInv, SInv, NEW s \in Slots, proc[s].act # "none", NEW ok \in BOOLEAN,
         Return(s, ok), UNCHANGED <<row, api>>,
         proc[s].act = "execute" \/ proc[s].stage = "stored"
  PROVE  SInv'
<1>1. s = cur
  BY IdleTyped DEF SInv, Alone
<1>2. wf.pc = proc[s].act /\ wf.pc \in Activities
  BY <1>1 DEF IInv, CurrentOK
<1>3. ASSUME wf'.pc \in {"completed", "failed", "cancelled"}
      PROVE  row.status = wf'.pc /\ api = "committed"
  <2>1. wf' = AfterActivity(wf, ok)
    BY <1>1, ReturnShape
  <2>2. LoopHead(wf).pc \notin {"completed", "failed", "cancelled"}
    BY DEF LoopHead, Activity, Workflows, IInv, TypeOK
  <2>3. /\ wf.pc \in {"complete", "fail", "cancel"}
        /\ wf'.pc = CASE wf.pc = "complete" -> "completed"
                      [] wf.pc = "fail" -> "failed" [] OTHER -> "cancelled"
    BY <1>2, <1>3, <2>1, <2>2
       DEF AfterActivity, AfterItem, Activity, Workflows, IInv, TypeOK, Activities, RunActivities
  <2> QED BY <1>1, <1>2, <2>3 DEF SInv, OutcomeOK, CopyOK, RunActivities
<1> QED BY <1>1, <1>3, ReturnShape, EndKeeps

\* UpdateProgress with totals of the workflow's makes them the row's.
LEMMA ProgressApplied ==
  ASSUME NEW r \in Runs, NEW c \in Nat, NEW f \in Nat, f <= c,
         r.failed <= f, r.completed <= c, r.failed <= r.completed,
         r.completed - r.failed <= c - f
  PROVE  /\ UpdateProgress(r, c, f).completed = c /\ UpdateProgress(r, c, f).failed = f
         /\ UpdateProgress(r, c, f).status = r.status
<1>1. Excess(f, r.failed) = f - r.failed /\ Excess(c, r.completed) = c - r.completed
  BY DEF Excess, Runs
<1>2. Excess(c - r.completed, f - r.failed) = (c - r.completed) - (f - r.failed)
  BY DEF Excess, Runs
<1> QED BY <1>1, <1>2 DEF UpdateProgress, Runs

\* A store writes what the operation made of the row.
LEMMA StoreWrites ==
  ASSUME IInv, SInv, NEW s \in Slots, StoreRun(s)
  PROVE  /\ s = cur /\ proc[cur].act \in RunActivities
         /\ CanApply(proc[cur].act, row) /\ row' = Apply(proc[cur], row)
         /\ wf.pc = proc[cur].act
<1>1. proc[s].act \in RunActivities /\ proc[s].stage = "loaded"
      /\ row' \in Written(proc[s].base, proc[s].run, row)
  BY DEF StoreRun, At
<1>2. s = cur
  BY <1>1, IdleTyped DEF SInv, Alone, RunActivities
<1>3. proc[s].base = row /\ proc[s].run = Apply(proc[s], row) /\ CanApply(proc[s].act, row)
  BY <1>1, <1>2 DEF SInv, CopyOK
<1>4. Apply(proc[s], row) \in Runs
  BY ApplyTyped DEF IInv, TypeOK
<1>5. ASSUME NEW a \in Runs, NEW b \in Runs PROVE Written(b, a, b) = {a}
  <2>1. \A x, y : Changed(x, y, x) = y
    BY DEF Changed
  <2>2. [status |-> a.status, total |-> a.total, completed |-> a.completed,
         failed |-> a.failed, integrity |-> a.integrity] = a
    BY DEF Runs
  <2> QED BY <2>1, <2>2 DEF Written
<1>6. row' = Apply(proc[s], row)
  BY <1>1, <1>3, <1>4, <1>5 DEF IInv, TypeOK
<1> QED BY <1>1, <1>2, <1>3, <1>6 DEF IInv, CurrentOK, RunActivities

\* What the operations do to the counters and the status.
LEMMA ApplyCounters ==
  ASSUME NEW p \in Attempts, NEW r \in Runs
  PROVE  /\ p.act \in RunActivities \ {"progress", "recover"} =>
              /\ Apply(p, r).completed = r.completed /\ Apply(p, r).failed = r.failed
         /\ p.act \in {"progress", "recover"} => Apply(p, r) = UpdateProgress(r, p.c, p.f)
         /\ p.act = "complete" => Apply(p, r).status = "completed"
         /\ p.act = "fail" => Apply(p, r).status = "failed"
         /\ p.act = "cancel" => Apply(p, r).status = "cancelled"
BY DEF Apply, RunActivities, Queue, Start, Cancel, CancelTarget, SetIntegrity, Fail, Complete,
       MoveTo, Runs

LEMMA StoreAlone ==
  ASSUME IInv, SInv, NEW s \in Slots, StoreRun(s)
  PROVE  SInv'
<1> USE DEF IInv, TypeOK
<1>1. /\ s = cur /\ proc[cur].act \in RunActivities /\ row' = Apply(proc[cur], row)
      /\ wf.pc = proc[cur].act
  BY StoreWrites
<1>2. /\ UNCHANGED <<api, wf, cur, durable, metricRows>>
      /\ OthersStay(cur) /\ proc'[cur].act = proc[cur].act /\ proc'[cur].item = proc[cur].item
      /\ proc'[cur].stage = "stored" /\ proc'[cur].c = proc[cur].c /\ proc'[cur].f = proc[cur].f
  BY <1>1 DEF StoreRun, OthersStay, Attempts
<1>3. api = "committed"
  BY <1>1 DEF StoreRun, At, SInv, CopyOK
<1>4. Alone'
  BY <1>2 DEF SInv, Alone, OthersStay
<1>5. CopyOK'
  BY <1>2, <1>3 DEF CopyOK
<1>6. LookedOK'
  BY <1>2 DEF LookedOK
<1>7. OutcomeOK'
  BY <1>1, <1>2, ApplyCounters DEF OutcomeOK, RunActivities
<1>8. CountersOK'
  <2>1. proc[cur].c = wf.completed /\ proc[cur].f = wf.failed
    BY <1>1 DEF SInv, Alone, Activities
  <2>2. CASE proc[cur].act \in {"progress", "recover"}
    <3>1. row'.completed = wf.completed /\ row'.failed = wf.failed
      BY <1>1, <2>1, <2>2, ApplyCounters, ProgressApplied DEF SInv, CountersOK, TotalsOK, Workflows
    <3> QED BY <1>2, <3>1 DEF SInv, CountersOK, TotalsOK, Workflows
  <2>3. CASE proc[cur].act \notin {"progress", "recover"}
    <3>1. row'.completed = row.completed /\ row'.failed = row.failed
      BY <1>1, <2>3, ApplyCounters
    <3> QED BY <1>2, <3>1 DEF SInv, CountersOK, TotalsOK
  <2> QED BY <2>2, <2>3
<1> QED BY <1>4, <1>5, <1>6, <1>7, <1>8 DEF SInv

\* Steps of an item's execution leave the row and the workflow alone.
LEMMA ItemStepAlone ==
  ASSUME IInv, SInv, NEW s \in Slots, proc[s].act \in {"execute", "persist"},
         UNCHANGED <<row, api, wf, cur>>, OthersStay(s),
         proc'[s].act = proc[s].act, proc'[s].item = proc[s].item,
         proc'[s].c = proc[s].c, proc'[s].f = proc[s].f,
         proc'[s].act = "execute" /\ proc'[s].stage = "looked" =>
           /\ DurableSchema => durable'[IdOf(s)] = 0
           /\ UuidItems => IdOf(s) \notin metricRows'
  PROVE  SInv'
<1>1. s = cur
  BY IdleTyped DEF SInv, Alone
<1>2. Alone'
  BY <1>1 DEF SInv, Alone, OthersStay
<1>3. CopyOK'
  BY <1>1 DEF CopyOK, RunActivities
<1>4. LookedOK'
  BY <1>1 DEF LookedOK, IdOf
<1>5. OutcomeOK'
  BY <1>1 DEF SInv, OutcomeOK
<1>6. CountersOK'
  BY DEF SInv, CountersOK, TotalsOK
<1> QED BY <1>2, <1>3, <1>4, <1>5, <1>6 DEF SInv

LEMMA ReachTotals ==
  ASSUME IInv, NEW s \in Slots, NEW stage \in Stages, Reach(s, stage)
  PROVE  proc'[s].c = proc[s].c /\ proc'[s].f = proc[s].f
BY DEF Reach, IInv, TypeOK, Attempts

LEMMA AttemptStepAlone ==
  ASSUME IInv, SInv, NEW s \in Slots, AttemptStep(s)
  PROVE  SInv'
<1> USE DEF IInv, TypeOK
<1>0. proc[s].act # "none" => s = cur
  BY IdleTyped DEF SInv, Alone
<1>1. CASE LoadRun(s)
  <2>1. UNCHANGED <<row, api, durable, metricRows>> /\ proc[s].act \in RunActivities
        /\ api = "committed"
    BY <1>1 DEF LoadRun, At, Visible
  <2>2. CASE CanApply(proc[s].act, row)
    <3>1. /\ UNCHANGED <<wf, cur>> /\ OthersStay(s) /\ proc'[s].act = proc[s].act
          /\ proc'[s].item = proc[s].item /\ proc'[s].c = proc[s].c /\ proc'[s].f = proc[s].f
          /\ proc'[s].stage = "loaded" /\ proc'[s].base = row
          /\ proc'[s].run = Apply(proc[s], row)
      BY <1>1, <2>2 DEF LoadRun, OthersStay, Attempts
    <3>2. s = cur
      BY <1>0, <2>1 DEF RunActivities
    <3>3. proc'[s].run = Apply(proc'[s], row)
      BY <3>1 DEF Apply
    <3>4. Alone'
      BY <3>1, <3>2 DEF SInv, Alone, OthersStay
    <3>5. CopyOK'
      BY <2>1, <2>2, <3>1, <3>2, <3>3 DEF CopyOK
    <3>6. LookedOK' /\ OutcomeOK'
      BY <2>1, <3>1, <3>2 DEF LookedOK, SInv, OutcomeOK
    <3>7. CountersOK'
      BY <2>1, <3>1 DEF SInv, CountersOK, TotalsOK
    <3> QED BY <3>4, <3>5, <3>6, <3>7 DEF SInv
  <2>3. CASE ~CanApply(proc[s].act, row)
    <3>1. Raise(s) /\ proc[s].act # "none"
      BY <1>1, <2>1, <2>3 DEF LoadRun, RunActivities
    <3> QED BY <2>1, <3>1, RaiseAlone
  <2> QED BY <2>2, <2>3
<1>2. CASE LoadMissing(s)
  <2>1. Raise(s) /\ proc[s].act # "none" /\ UNCHANGED <<row, api>>
    BY <1>2 DEF LoadMissing, At, RunActivities
  <2> QED BY <2>1, RaiseAlone
<1>3. CASE StoreRun(s)
  BY <1>3, StoreAlone
<1>4. CASE ReturnRun(s)
  <2>1. Return(s, TRUE) /\ proc[s].act # "none" /\ proc[s].stage = "stored"
        /\ UNCHANGED <<row, api>>
    BY <1>4 DEF ReturnRun, At, RunActivities
  <2> QED BY <2>1, ReturnAlone
<1>5. CASE LookUp(s)
  <2>1. /\ UNCHANGED <<row, api, wf, cur, durable, metricRows>> /\ proc[s].act = "execute"
        /\ OthersStay(s) /\ proc'[s].act = proc[s].act /\ proc'[s].item = proc[s].item
        /\ proc'[s].c = proc[s].c /\ proc'[s].f = proc[s].f
    BY <1>5 DEF LookUp, At, Reach, OthersStay, Attempts
  <2>2. proc'[s].stage = "looked" => /\ DurableSchema => durable'[IdOf(s)] = 0
                                     /\ UuidItems => IdOf(s) \notin metricRows'
    <3>1. CASE DurableSchema /\ durable[IdOf(s)] # 0
      BY <1>5, <3>1 DEF LookUp, Attempts
    <3>2. CASE ~(DurableSchema /\ durable[IdOf(s)] # 0)
      <4>1. PICK stage \in {"ok", "looked"} :
              Reach(s, stage) /\ (stage = "looked" => ~(UuidItems /\ IdOf(s) \in metricRows))
        BY <1>5, <3>2 DEF LookUp
      <4> QED BY <2>1, <3>2, <4>1, ReachShape DEF Stages
    <3> QED BY <3>1, <3>2
  <2> QED BY <2>1, <2>2, ItemStepAlone
<1>6. CASE CallProvider(s)
  <2>1. /\ UNCHANGED <<row, api, wf, cur, durable, metricRows>> /\ proc[s].act = "execute"
        /\ OthersStay(s) /\ proc'[s].act = proc[s].act /\ proc'[s].item = proc[s].item
        /\ proc'[s].c = proc[s].c /\ proc'[s].f = proc[s].f
        /\ proc'[s].stage \in {"called", "bad"}
    BY <1>6 DEF CallProvider, At, Reach, OthersStay, Attempts
  <2> QED BY <2>1, ItemStepAlone
<1>7. CASE RecordExecution(s)
  <2>1. /\ UNCHANGED <<row, api, wf, cur>> /\ proc[s].act = "execute" /\ Reach(s, "recorded")
    BY <1>7 DEF RecordExecution, At
  <2> QED BY <2>1, ReachShape, ReachTotals, ItemStepAlone DEF Stages
<1>8. CASE ReturnItem(s)
  <2>1. proc[s].act = "execute" /\ UNCHANGED <<row, api>>
        /\ (Return(s, TRUE) \/ Return(s, FALSE))
    BY <1>8 DEF ReturnItem, At
  <2> QED BY <2>1, ReturnAlone
<1>9. CASE PersistMetrics(s)
  <2>1. /\ UNCHANGED <<row, api, wf, cur>> /\ proc[s].act = "persist" /\ Reach(s, "stored")
    BY <1>9 DEF PersistMetrics, At
  <2> QED BY <2>1, ReachShape, ReachTotals, ItemStepAlone DEF Stages
<1>10. CASE RecordConflict(s)
  <2>1. Raise(s) /\ proc[s].act # "none" /\ UNCHANGED <<row, api>>
    BY <1>10 DEF RecordConflict, At
  <2> QED BY <2>1, RaiseAlone
<1> QED
  BY <1>1, <1>2, <1>3, <1>4, <1>5, <1>6, <1>7, <1>8, <1>9, <1>10 DEF AttemptStep

LEMMA AttemptFaultAlone ==
  ASSUME IInv, SInv, OneAtATime, NEW s \in Slots, AttemptFault(s)
  PROVE  SInv'
<1> USE DEF IInv, TypeOK
<1>1. CASE DatabaseError(s)
  <2>1. UNCHANGED <<row, api, durable, metricRows>> /\ proc[s].act # "none"
    BY <1>1 DEF DatabaseError, At, RunActivities
  <2>2. CASE Raise(s)
    BY <2>1, <2>2, RaiseAlone
  <2>3. CASE At(s, {"execute"}, "new") /\ Reach(s, "bad") /\ UNCHANGED <<wf, cur>>
    BY <2>1, <2>3, ReachShape, ReachTotals, ItemStepAlone DEF Stages, At
  <2> QED BY <1>1, <2>2, <2>3 DEF DatabaseError
<1>2. CASE Crash(s)
  <2>1. Raise(s) /\ proc[s].act # "none" /\ UNCHANGED <<row, api>>
    BY <1>2 DEF Crash, WorkflowLive, CurrentOK, Activities, RunActivities
  <2> QED BY <2>1, RaiseAlone
<1>3. CASE Stall(s)
  BY <1>3 DEF Stall, Fault, OneAtATime
<1> QED BY <1>1, <1>2, <1>3 DEF AttemptFault

LEMMA RequestAlone ==
  ASSUME IInv, SInv, OneAtATime,
         \/ ScheduleWorkflow \/ CommitCreate \/ AbortCreate
         \/ \E c \in Cancellers, force \in BOOLEAN : CancelLoad(c, force)
         \/ \E c \in Cancellers : CancelStep(c) \/ CancelAbort(c)
  PROVE  SInv'
<1> USE DEF IInv, TypeOK
<1>1. CASE ScheduleWorkflow
  <2>1. wf' \in Workflows
    BY <1>1, RequestKeeps
  <2>2. /\ wf'.pc = "queue" /\ wf'.item = wf.item /\ OthersStay(cur)
        /\ wf'.completed = wf.completed /\ wf'.failed = wf.failed
        /\ proc'[cur] = Scheduled(wf') /\ UNCHANGED <<row, cur, durable, metricRows>>
    BY <1>1 DEF ScheduleWorkflow, Activity, Workflows, OthersStay
  <2>3. proc'[cur].act = "queue" /\ proc'[cur].stage = "new"
        /\ proc'[cur].c = wf'.completed /\ proc'[cur].f = wf'.failed
    <3>1. PICK w : w = wf'
      OBVIOUS
    <3> QED BY <2>1, <2>2, <3>1, ScheduledFields DEF Activities, RunActivities
  <2>4. Alone' /\ CopyOK' /\ LookedOK' /\ OutcomeOK'
    BY <2>2, <2>3 DEF SInv, Alone, OthersStay, CopyOK, LookedOK, OutcomeOK
  <2>5. CountersOK'
    BY <2>2 DEF SInv, CountersOK, TotalsOK, Workflows
  <2> QED BY <2>4, <2>5 DEF SInv
<1>2. CASE CommitCreate
  <2>1. /\ api = "scheduled" /\ row' = Queue(row) /\ api' = "committed"
        /\ UNCHANGED <<wf, proc, cur, durable, metricRows>>
    BY <1>2 DEF CommitCreate
  <2>2. row'.completed = row.completed /\ row'.failed = row.failed
    BY <2>1 DEF Queue, MoveTo, Runs
  <2>3. Alone' /\ LookedOK'
    BY <2>1 DEF SInv, Alone, LookedOK, IdOf
  <2>4. proc[cur].act \in RunActivities => proc[cur].stage \notin {"loaded", "stored"}
    BY <2>1 DEF SInv, CopyOK
  <2>5. CopyOK'
    BY <2>1, <2>4 DEF CopyOK
  <2>6. OutcomeOK'
    BY <2>1, <2>4 DEF SInv, OutcomeOK, RunActivities
  <2>7. CountersOK'
    BY <2>1, <2>2 DEF SInv, CountersOK, TotalsOK
  <2> QED BY <2>3, <2>5, <2>6, <2>7 DEF SInv
<1>3. CASE AbortCreate
  <2>1. /\ api = "scheduled" /\ UNCHANGED <<row, wf, proc, cur, durable, metricRows>>
    BY <1>3 DEF AbortCreate
  <2>2. Alone' /\ LookedOK' /\ CountersOK'
    BY <2>1 DEF SInv, Alone, LookedOK, IdOf, CountersOK, TotalsOK
  <2>3. CopyOK'
    BY <2>1 DEF SInv, CopyOK
  <2>4. OutcomeOK'
    BY <2>1 DEF SInv, OutcomeOK
  <2> QED BY <2>2, <2>3, <2>4 DEF SInv
<1> QED BY <1>1, <1>2, <1>3 DEF OneAtATime

LEMMA SerialStep ==
  ASSUME IInv, SInv, OneAtATime, [Next]_vars
  PROVE  SInv'
<1>1. CASE UNCHANGED vars
  <2>1. Alone' /\ CopyOK'
    BY <1>1 DEF vars, SInv, Alone, CopyOK
  <2>2. CountersOK' /\ OutcomeOK'
    BY <1>1 DEF vars, SInv, CountersOK, TotalsOK, OutcomeOK
  <2>3. LookedOK'
    BY <1>1 DEF vars, SInv, LookedOK, IdOf
  <2> QED BY <2>1, <2>2, <2>3 DEF SInv
<1>2. CASE Next
  BY <1>1, <1>2, AttemptStepAlone, AttemptFaultAlone, RequestAlone DEF Next
<1> QED BY <1>1, <1>2

LEMMA SerialInit ==
  ASSUME Init
  PROVE  SInv
<1>1. /\ \A s \in Slots : proc[s] = Idle
      /\ wf.pc = "none" /\ wf.item = 0 /\ wf.completed = 0 /\ wf.failed = 0
      /\ row.completed = 0 /\ row.failed = 0 /\ cur \in Slots
  BY DEF Init, NewRun
<1>2. Idle.act = "none" /\ Idle.stage = "new"
  BY DEF Idle, Attempt
<1> QED
  BY <1>1, <1>2
     DEF SInv, Alone, CopyOK, CountersOK, TotalsOK, OutcomeOK, LookedOK, Activities,
         RunActivities

\* The invariant of the serial system.
THEOREM SerialInvariance == OneAtATime /\ Spec => [](IInv /\ SInv)
<1>1. Init => IInv /\ SInv
  BY InitInv, SerialInit
<1>2. OneAtATime /\ IInv /\ SInv /\ [Next]_vars => IInv' /\ SInv'
  BY IInvStep, SerialStep
<1>3. CASE OneAtATime
  BY <1>1, <1>2, <1>3, PTL DEF Spec
<1> QED BY <1>3

\* Retried progress updates and exhausted activities never put the persisted
\* counters ahead of the workflow's, nor a failed item beyond the completed.
THEOREM ProgressBehind == OneAtATime /\ Spec => []ProgressNeverAhead
<1>1. IInv /\ SInv => ProgressNeverAhead
  BY DEF SInv, CountersOK, ProgressNeverAhead
<1> QED BY <1>1, SerialInvariance, PTL

\* A workflow that ends has its outcome in the row.
THEOREM OutcomeInRow == OneAtATime /\ Spec => []OutcomeRecorded
<1>1. IInv /\ SInv => OutcomeRecorded
  BY DEF SInv, OutcomeOK, OutcomeRecorded
<1> QED BY <1>1, SerialInvariance, PTL

\* An item whose execution is recorded is not sent to the provider again.
THEOREM RecordedNotCalled == OneAtATime /\ Spec => NoCallAfterRecord
<1>1. ASSUME IInv, SInv, [Next]_vars
      PROVE  [\A i \in Items : calls'[i] # calls[i] =>
                /\ DurableSchema => durable[ItemId[i]] = 0
                /\ UuidItems => ItemId[i] \notin metricRows]_vars
  <2>1. CASE UNCHANGED vars
    BY <2>1
  <2>2. CASE \E s \in Slots : CallProvider(s)
    <3>1. PICK s \in Slots : CallProvider(s)
      BY <2>2
    <3>2. /\ proc[s].act = "execute" /\ proc[s].stage = "looked"
          /\ calls' = [calls EXCEPT ![proc[s].item] = @ + 1]
      BY <3>1 DEF CallProvider, At
    <3>3. s = cur
      BY <1>1, <3>2, IdleTyped DEF SInv, Alone
    <3>4. /\ DurableSchema => durable[ItemId[proc[s].item]] = 0
          /\ UuidItems => ItemId[proc[s].item] \notin metricRows
      BY <1>1, <3>2, <3>3 DEF SInv, LookedOK, IdOf
    <3> QED BY <1>1, <3>2, <3>4 DEF IInv, TypeOK
  <2>3. CASE ~\E s \in Slots : CallProvider(s)
    <3>1. UNCHANGED calls
      BY <1>1, <2>3
         DEF vars, Next, AttemptStep, AttemptFault, LoadRun, LoadMissing, StoreRun, ReturnRun,
             LookUp, RecordExecution, RecordConflict, ReturnItem, PersistMetrics,
             DatabaseError, Crash, Stall, ScheduleWorkflow, CommitCreate, AbortCreate,
             CancelLoad, CancelStep, CancelFlush, CancelSignal, CancelCommit, CancelAbort
    <3> QED BY <3>1
  <2> QED BY <2>2, <2>3
<1> QED BY <1>1, SerialInvariance, PTL DEF Spec, NoCallAfterRecord

-----------------------------------------------------------------------------
(* Refinement: with one transaction at a time every committed change of the  *)
(* row is one operation of the aggregate.                                    *)

\* The instance's operations are the aggregate's.
LEMMA SameTransitions ==
  ASSUME NEW r, NEW target, NEW force, NEW checkpoint
  PROVE  /\ Aggregate!CanTransition(r, target, force, checkpoint)
              <=> CanTransition(r, target, force, checkpoint)
         /\ Aggregate!MoveTo(r, target) = MoveTo(r, target)
BY DEF Aggregate!CanTransition, CanTransition, Aggregate!MoveTo, MoveTo,
       Aggregate!GuardsPass, GuardsPass, Aggregate!ValidTransitions, ValidTransitions,
       Aggregate!NeedsAllItems, NeedsAllItems, Aggregate!NeedsAllItemsOrForce,
       NeedsAllItemsOrForce, Aggregate!NeedsCheckpoint, NeedsCheckpoint,
       Aggregate!AllItemsCompleted, AllItemsCompleted, Aggregate!TerminalStatuses,
       TerminalStatuses

LEMMA SameOperations ==
  ASSUME NEW r
  PROVE  /\ Aggregate!Queue(r) = Queue(r)
         /\ \A n : Aggregate!CanStart(r, n) <=> CanStart(r, n)
         /\ \A n : Aggregate!Start(r, n) = Start(r, n)
         /\ Aggregate!CanCancel(r, TRUE) <=> CanCancel(r, TRUE)
         /\ Aggregate!Cancel(r, TRUE) = Cancel(r, TRUE)
         /\ Aggregate!CanFail(r) <=> CanFail(r)
         /\ Aggregate!Fail(r) = Fail(r)
         /\ Aggregate!CanComplete(r) <=> CanComplete(r)
         /\ Aggregate!Complete(r) = Complete(r)
         /\ Aggregate!SetIntegrity(r) = SetIntegrity(r)
         /\ \A c, f : Aggregate!UpdateProgress(r, c, f) = UpdateProgress(r, c, f)
<1>1. Aggregate!Queue(r) = Queue(r)
  BY SameTransitions DEF Aggregate!Queue, Queue
<1>2. \A n : Aggregate!CanStart(r, n) <=> CanStart(r, n)
  <2> SUFFICES ASSUME NEW n PROVE Aggregate!CanStart(r, n) <=> CanStart(r, n)
    OBVIOUS
  <2>1. PICK sized : sized = [r EXCEPT !.total = n]
    OBVIOUS
  <2>2. /\ Aggregate!CanTransition(sized, "starting", FALSE, FALSE)
             <=> CanTransition(sized, "starting", FALSE, FALSE)
        /\ Aggregate!MoveTo(sized, "starting") = MoveTo(sized, "starting")
        /\ Aggregate!CanTransition(MoveTo(sized, "starting"), "running", FALSE, FALSE)
             <=> CanTransition(MoveTo(sized, "starting"), "running", FALSE, FALSE)
    BY SameTransitions
  <2> QED BY <2>1, <2>2, Zenon DEF Aggregate!CanStart, CanStart
<1>3. /\ \A n : Aggregate!Start(r, n) = Start(r, n)
      /\ Aggregate!SetIntegrity(r) = SetIntegrity(r)
      /\ \A c, f : Aggregate!UpdateProgress(r, c, f) = UpdateProgress(r, c, f)
  BY DEF Aggregate!Start, Start, Aggregate!SetIntegrity, SetIntegrity,
         Aggregate!UpdateProgress, UpdateProgress, Aggregate!Excess, Excess
<1>4. /\ Aggregate!CanCancel(r, TRUE) <=> CanCancel(r, TRUE)
      /\ Aggregate!Cancel(r, TRUE) = Cancel(r, TRUE)
  BY SameTransitions
     DEF Aggregate!CanCancel, CanCancel, Aggregate!Cancel, Cancel, Aggregate!CancelTarget,
         CancelTarget
<1>5. /\ Aggregate!CanFail(r) <=> CanFail(r)
      /\ Aggregate!Fail(r) = Fail(r)
      /\ Aggregate!CanComplete(r) <=> CanComplete(r)
      /\ Aggregate!Complete(r) = Complete(r)
  BY SameTransitions
     DEF Aggregate!CanFail, CanFail, Aggregate!Fail, Fail, Aggregate!CanComplete, CanComplete,
         Aggregate!Complete, Complete
<1> QED BY <1>1, <1>2, <1>3, <1>4, <1>5

\* What an attempt stores, applied to the row it loaded, is one operation.
LEMMA StoreIsOperation ==
  ASSUME IInv, SInv, NEW s \in Slots, StoreRun(s)
  PROVE  Aggregate!AggregateNext
<1>1. /\ proc[cur].act \in RunActivities /\ wf.pc = proc[cur].act
      /\ CanApply(proc[cur].act, row) /\ row' = Apply(proc[cur], row)
  BY StoreWrites
<1>2. CASE proc[cur].act = "queue"
  BY <1>1, <1>2, SameOperations DEF Apply, Aggregate!AggregateNext, Aggregate!QueueRun
<1>3. CASE proc[cur].act = "start"
  <2>1. TotalItems \in 0 .. 2 * NumItems
    BY TotalItemsTyped
  <2>2. Aggregate!StartRun(TotalItems)
    BY <1>1, <1>3, SameOperations DEF Apply, CanApply, Aggregate!StartRun
  <2> QED BY <2>1, <2>2 DEF Aggregate!AggregateNext
<1>4. CASE proc[cur].act = "cancel"
  <2>1. Aggregate!CancelRun(TRUE)
    BY <1>1, <1>4, SameOperations DEF Apply, CanApply, Aggregate!CancelRun
  <2> QED BY <2>1 DEF Aggregate!AggregateNext
<1>5. CASE proc[cur].act = "fail"
  BY <1>1, <1>5, SameOperations DEF Apply, CanApply, Aggregate!FailRun, Aggregate!AggregateNext
<1>6. CASE proc[cur].act = "complete"
  BY <1>1, <1>6, SameOperations DEF Apply, CanApply, Aggregate!CompleteRun, Aggregate!AggregateNext
<1>7. CASE proc[cur].act = "finalize"
  BY <1>1, <1>7, SameOperations DEF Apply, Aggregate!FinalizeIntegrity, Aggregate!AggregateNext
<1>8. CASE proc[cur].act \in {"progress", "recover"}
  <2> DEFINE c == proc[cur].c
             f == proc[cur].f
  <2>1. c = wf.completed /\ f = wf.failed
    BY <1>1 DEF SInv, Alone, Activities
  <2>2. f <= c /\ c \in 0 .. 2 * NumItems /\ f \in 0 .. 2 * NumItems
    BY <2>1, TotalItemsTyped DEF SInv, CountersOK, TotalsOK, IInv, TypeOK, Workflows
  <2>3. row' = UpdateProgress(row, c, f)
    BY <1>1, <1>8 DEF Apply
  <2>4. Aggregate!UpdateRunProgress(c, f)
    BY <2>2, <2>3, SameOperations DEF Aggregate!UpdateRunProgress
  <2> QED BY <2>2, <2>4 DEF Aggregate!AggregateNext
<1> QED BY <1>1, <1>2, <1>3, <1>4, <1>5, <1>6, <1>7, <1>8 DEF RunActivities

\* The detailed system implements the aggregate: whatever activities are retried,
\* crash or fail, a step of it is one operation on the committed row or leaves
\* the row as it is.
THEOREM WorkflowImplementsAggregate == OneAtATime /\ Spec => ImplementsAggregate
<1>1. Init => Aggregate!AggregateInit
  BY DEF Init, Aggregate!AggregateInit, NewRun, Aggregate!NewRun
<1>2. ASSUME OneAtATime, IInv, SInv, [Next]_vars
      PROVE  [Aggregate!AggregateNext]_(Aggregate!aggregateVars)
  <2>1. CASE \E s \in Slots : StoreRun(s)
    BY <1>2, <2>1, StoreIsOperation
  <2>2. CASE CommitCreate
    BY <2>2, SameOperations DEF CommitCreate, Aggregate!QueueRun, Aggregate!AggregateNext
  <2>3. CASE ~CommitCreate /\ ~\E s \in Slots : StoreRun(s)
    <3>1. UNCHANGED row
      BY <1>2, <2>3
         DEF vars, Next, AttemptStep, AttemptFault, LoadRun, LoadMissing, ReturnRun,
             LookUp, CallProvider, RecordExecution, RecordConflict, ReturnItem, PersistMetrics,
             DatabaseError, Crash, Stall, ScheduleWorkflow, AbortCreate, OneAtATime
    <3> QED BY <3>1 DEF Aggregate!aggregateVars
  <2> QED BY <2>1, <2>2, <2>3
<1>3. CASE OneAtATime
  BY <1>1, <1>2, <1>3, SerialInvariance, PTL DEF Spec, ImplementsAggregate, Aggregate!AggregateSpec
<1> QED BY <1>3
=============================================================================
