------------------------- MODULE EvaluationWorkflow -------------------------
(***************************************************************************)
(* One evaluation run from the API request that creates (or retries) it to *)
(* its terminal status: the creating request, the Temporal workflow, the   *)
(* activity attempts that worker processes execute, and API requests that  *)
(* cancel the run, all sharing the run's row in the database.              *)
(*                                                                         *)
(* A database transaction is a load of the row (find_by_id), a change of   *)
(* the loaded aggregate, and a store (merge, flush, commit).  Between load *)
(* and store other transactions may commit.  save() merges the whole       *)
(* aggregate back: columns that differ from the row as the merge finds it  *)
(* are written, so a store may write the whole stale copy, or, when the    *)
(* merge saw an older row, only the columns the operation changed.         *)
(*                                                                         *)
(* Temporal is external: it runs an activity at most MaxAttempts times,    *)
(* starts a new attempt when one raises, crashes or misses its deadline,   *)
(* and a late attempt keeps running in its worker.                         *)
(***************************************************************************)
EXTENDS EvaluationRun, FiniteSets

CONSTANTS
  NumItems,        \* number of dataset items of the run
  ItemId,          \* ItemId[i]: the id of item i (item_id, or its index)
  Origin,          \* "create" or "retry": the request that schedules the run
  DurableSchema,   \* the item_executions table exists
  UuidItems,       \* run and item ids are UUIDs
  HasMetrics,      \* the requested metrics resolve to at least one metric
  MaxAttempts,     \* maximum_attempts of the retry policies
  Slots,           \* worker slots an attempt can run in
  Cancellers,      \* API requests that cancel the run
  FaultKinds,      \* which faults the environment may inject
  MaxFaults        \* how many of them

Items == 1 .. NumItems
ItemIds == {ItemId[i] : i \in Items}

AllFaultKinds ==
  {"db",       \* a transient database error makes an attempt raise
   "crash",    \* the worker of an attempt dies; Temporal times the attempt out
   "stall",    \* an attempt misses its deadline but keeps running
   "metrics",  \* metric evaluation raises
   "abort",    \* an API request dies and its transaction is rolled back
   "commit",   \* an attempt runs before the creating request has committed
   "signal"}   \* the cancel signal cannot be delivered

ASSUME EvaluationWorkflowAssumption ==
  /\ NumItems \in Nat
  /\ Origin \in {"create", "retry"}
  /\ DurableSchema \in BOOLEAN /\ UuidItems \in BOOLEAN /\ HasMetrics \in BOOLEAN
  /\ MaxAttempts \in Nat \ {0}
  /\ MaxFaults \in Nat
  /\ FaultKinds \subseteq AllFaultKinds
  /\ Slots # {}
  /\ DOMAIN ItemId = Items

VARIABLES
  row,        \* the committed row of the run
  api,        \* the creating request: "inserted", "scheduled", "committed", "aborted"
  wf,         \* the workflow: pc, item, completed, failed, cancel, attempt
  proc,       \* proc[s]: the attempt running in slot s
  cur,        \* the slot of the attempt Temporal is waiting for
  cancels,    \* cancels[c]: stage, loaded and changed run of an API cancel
  lock,       \* the cancel request holding the row lock, or NoLock
  durable,    \* durable[k]: item whose execution is recorded under id k, or 0
  metricRows, \* ids whose metric results are persisted
  calls,      \* calls[i]: provider calls made for item i
  faults,     \* faults injected so far
  evidence,   \* history: evidence[i] is what item i's accepted success rests on
  finalized   \* history: a finalize attempt has committed

vars == <<row, api, wf, proc, cur, cancels, lock, durable, metricRows, calls,
          faults, evidence, finalized>>

NoLock == "no lock"

\* Activities that load and store the run's row.
RunActivities == {"queue", "start", "progress", "recover", "cancel",
                  "finalize", "fail", "complete"}
Activities == RunActivities \cup {"execute", "persist"}

\* How a workflow execution ends; "error" is a failed workflow execution.
WorkflowEnds == {"completed", "failed", "cancelled", "error"}

Stages == {"new", "loaded", "stored",                       \* row transactions
           "looked", "called", "recorded", "ok", "bad"}     \* item execution

\* An attempt; "recover" is update_progress called from the except block.
\* c and f are the totals it was scheduled with, base and run the row it loaded
\* and what the handler made of it.
Attempt(act, item, c, f) ==
  [act |-> act, stage |-> "new", item |-> item, c |-> c, f |-> f,
   base |-> NewRun, run |-> NewRun, found |-> 0]

Idle == Attempt("none", 0, 0, 0)

\* total_items of the workflow input.  create_run passes the dataset's length;
\* retry_run passes items_total of the run it has just constructed.
TotalItems == IF Origin = "create" THEN NumItems ELSE NewRun.total

Visible == api = "committed"
WorkflowLive == wf.pc \in Activities

Workflows ==
  [pc : {"none"} \cup Activities \cup WorkflowEnds, item : 0 .. TotalItems,
   completed : Nat, failed : Nat, cancel : BOOLEAN, attempt : 1 .. MaxAttempts]

Attempts ==
  [act : {"none"} \cup Activities, stage : Stages, item : 0 .. TotalItems,
   c : Nat, f : Nat, base : Runs, run : Runs, found : 0 .. NumItems]

CancelRequests ==
  [stage : {"idle", "rejected", "loaded", "flushed", "signalled", "done", "aborted"},
   base : Runs, run : Runs]

TypeOK ==
  /\ row \in Runs
  /\ api \in {"inserted", "scheduled", "committed", "aborted"}
  /\ wf \in Workflows
  /\ proc \in [Slots -> Attempts]
  /\ cur \in Slots
  /\ cancels \in [Cancellers -> CancelRequests]
  /\ lock \in Cancellers \cup {NoLock}
  /\ durable \in [ItemIds -> 0 .. NumItems]
  /\ metricRows \subseteq ItemIds
  /\ calls \in [Items -> Nat]
  /\ faults \in 0 .. MaxFaults
  /\ evidence \in [Items -> 0 .. NumItems]
  /\ finalized \in BOOLEAN

Init ==
  /\ row = NewRun
  /\ api = "inserted"
  /\ wf = [pc |-> "none", item |-> 0, completed |-> 0, failed |-> 0,
           cancel |-> FALSE, attempt |-> 1]
  /\ proc = [s \in Slots |-> Idle]
  /\ cur \in Slots
  /\ cancels = [c \in Cancellers |-> [stage |-> "idle", base |-> NewRun, run |-> NewRun]]
  /\ lock = NoLock
  /\ durable = [k \in ItemIds |-> 0]
  /\ metricRows = {}
  /\ calls = [i \in Items |-> 0]
  /\ faults = 0
  /\ evidence = [i \in Items |-> 0]
  /\ finalized = FALSE

Fault(kind) == kind \in FaultKinds /\ faults < MaxFaults /\ faults' = faults + 1

-----------------------------------------------------------------------------
(* The workflow's control: what follows a result or a failure of the       *)
(* current activity.                                                       *)

Activity(w, act) == [w EXCEPT !.pc = act, !.attempt = 1]

\* Seeded slip: the loop never looks at the cancel flag.
Mut_LoopHeadIgnoresCancel(w) ==
  IF w.item < TotalItems THEN Activity([w EXCEPT !.item = @ + 1], "execute")
                         ELSE Activity(w, "finalize")

\* Seeded slip: one item too many.
Mut_LoopHeadOffByOne(w) ==
  CASE w.item > TotalItems -> Activity(w, "finalize")
    [] w.item <= TotalItems /\ w.cancel -> Activity(w, "cancel")
    [] OTHER -> Activity([w EXCEPT !.item = @ + 1], "execute")

\* Head of the item loop: the cancel flag is looked at before every item.
LoopHead(w) ==
  CASE w.item = TotalItems -> Activity(w, "finalize")
    [] w.item < TotalItems /\ w.cancel -> Activity(w, "cancel")
    [] OTHER -> Activity([w EXCEPT !.item = @ + 1], "execute")

\* execute_item_activity returned; ok is FALSE when its result says failed.
AfterItem(w, ok) ==
  Activity([w EXCEPT !.completed = @ + 1, !.failed = IF ok THEN @ ELSE @ + 1],
           IF ok /\ HasMetrics THEN "persist" ELSE "progress")

\* Seeded slip: the terminal activity is scheduled before finalization.
Mut_AfterActivityTerminalFirst(w, ok) ==
  CASE w.pc = "queue" -> Activity(w, "start")
    [] w.pc \in {"start", "progress", "recover"} ->
         LET n == LoopHead(w)
         IN  IF n.pc = "finalize"
             THEN Activity(w, IF w.failed = TotalItems THEN "fail" ELSE "complete")
             ELSE n
    [] w.pc = "execute" -> AfterItem(w, ok)
    [] w.pc = "persist" -> Activity(w, "progress")
    [] w.pc \in {"fail", "complete"} -> Activity(w, "finalize")
    [] w.pc = "finalize" -> Activity(w, IF w.failed = TotalItems THEN "failed" ELSE "completed")
    [] OTHER -> Activity(w, "cancelled")

AfterActivity(w, ok) ==
  CASE w.pc = "queue" -> Activity(w, "start")
    [] w.pc \in {"start", "progress", "recover"} -> LoopHead(w)
    [] w.pc = "execute" -> AfterItem(w, ok)
    [] w.pc = "persist" -> Activity(w, "progress")
    [] w.pc = "finalize" -> Activity(w, IF w.failed = TotalItems THEN "fail" ELSE "complete")
    [] w.pc = "fail" -> Activity(w, "failed")
    [] w.pc = "complete" -> Activity(w, "completed")
    [] OTHER -> Activity(w, "cancelled")

\* Seeded slip: an exhausted activity outside the try block is ignored.
Mut_AfterFailureSwallowed(w) ==
  IF w.pc \in {"execute", "persist", "progress"}
  THEN Activity([w EXCEPT !.completed = @ + 1, !.failed = @ + 1], "recover")
  ELSE AfterActivity(w, TRUE)

\* An activity inside the try block exhausted its attempts: the except block
\* counts the item as failed and completed, whether or not AfterItem already
\* counted it.  Anywhere else the exception fails the workflow.
AfterFailure(w) ==
  IF w.pc \in {"execute", "persist", "progress"}
  THEN Activity([w EXCEPT !.completed = @ + 1, !.failed = @ + 1], "recover")
  ELSE Activity(w, "error")

\* The attempt the workflow waits for in state w.
Scheduled(w) ==
  IF w.pc \in Activities THEN Attempt(w.pc, w.item, w.completed, w.failed) ELSE Idle

-----------------------------------------------------------------------------
(* Attempts: how Temporal reacts to their end. *)

\* Seeded slip: the retry policy allows one attempt more.
Mut_NextAttemptOneMore(procs, n) ==
  /\ cur' = n
  /\ IF wf.attempt <= MaxAttempts
     THEN wf' = [wf EXCEPT !.attempt = @ + 1]
     ELSE wf' = AfterFailure(wf)
  /\ proc' = [procs EXCEPT ![n] = Scheduled(wf')]

\* Seeded slip: activities are scheduled without a retry policy.
Mut_NextAttemptNone(procs, n) ==
  /\ cur' = n
  /\ wf' = AfterFailure(wf)
  /\ proc' = [procs EXCEPT ![n] = Scheduled(wf')]

\* Slot n takes the next attempt of the current activity, or, after the last
\* one, of whatever the workflow does next.
NextAttempt(procs, n) ==
  /\ cur' = n
  /\ IF wf.attempt < MaxAttempts
     THEN wf' = [wf EXCEPT !.attempt = @ + 1]
     ELSE wf' = AfterFailure(wf)
  /\ proc' = [procs EXCEPT ![n] = Scheduled(wf')]

\* The attempt in slot s ends with an exception.
Raise(s) ==
  IF s = cur
  THEN NextAttempt(proc, s)
  ELSE /\ proc' = [proc EXCEPT ![s] = Idle]
       /\ UNCHANGED <<wf, cur>>

\* The attempt in slot s returns; only the current attempt's result counts.
Return(s, ok) ==
  IF s = cur
  THEN /\ wf' = AfterActivity(wf, ok)
       /\ proc' = [proc EXCEPT ![s] = Scheduled(wf')]
       /\ UNCHANGED cur
  ELSE /\ proc' = [proc EXCEPT ![s] = Idle]
       /\ UNCHANGED <<wf, cur>>

At(s, acts, stage) == proc[s].act \in acts /\ proc[s].stage = stage

Reach(s, stage) == proc' = [proc EXCEPT ![s].stage = stage]

-----------------------------------------------------------------------------
(* The creating request. *)

\* create_run / retry_run: the row is flushed, then the workflow is started,
\* before the request's transaction commits.
ScheduleWorkflow ==
  /\ api = "inserted"
  /\ api' = "scheduled"
  /\ wf' = Activity(wf, "queue")
  /\ proc' = [proc EXCEPT ![cur] = Scheduled(wf')]
  /\ UNCHANGED <<row, cur, cancels, lock, durable, metricRows, calls, faults,
                 evidence, finalized>>

\* The request queues the run, sets its workflow id and commits.
CommitCreate ==
  /\ api = "scheduled"
  /\ api' = "committed"
  /\ row' = Queue(row)
  /\ UNCHANGED <<wf, proc, cur, cancels, lock, durable, metricRows, calls, faults,
                 evidence, finalized>>

\* The request dies after start_workflow: get_db_session rolls the row back.
AbortCreate ==
  /\ api = "scheduled"
  /\ Fault("abort")
  /\ api' = "aborted"
  /\ UNCHANGED <<row, wf, proc, cur, cancels, lock, durable, metricRows, calls,
                 evidence, finalized>>

-----------------------------------------------------------------------------
(* Activities that change the row. *)

CanApply(act, run) ==
  CASE act = "start"    -> CanStart(run, TotalItems)
    [] act = "cancel"   -> CanCancel(run, TRUE)
    [] act = "fail"     -> CanFail(run)
    [] act = "complete" -> CanComplete(run)
    [] OTHER            -> TRUE

\* Seeded slip: finalization moves the run to its terminal status itself.
Mut_ApplyFinalizeCompletes(p, run) ==
  CASE p.act = "queue"    -> Queue(run)
    [] p.act = "start"    -> Start(run, TotalItems)
    [] p.act = "cancel"   -> Cancel(run, TRUE)
    [] p.act = "finalize" -> Complete(SetIntegrity(run))
    [] p.act = "fail"     -> Fail(run)
    [] p.act = "complete" -> Complete(run)
    [] OTHER              -> UpdateProgress(run, p.c, p.f)

Apply(p, run) ==
  CASE p.act = "queue"    -> Queue(run)
    [] p.act = "start"    -> Start(run, TotalItems)
    [] p.act = "cancel"   -> Cancel(run, TRUE)
    [] p.act = "finalize" -> SetIntegrity(run)
    [] p.act = "fail"     -> Fail(run)
    [] p.act = "complete" -> Complete(run)
    [] OTHER              -> UpdateProgress(run, p.c, p.f)

\* A column of the store: the operation's value if it changed it, else the row's.
Changed(before, after, stored) == IF after # before THEN after ELSE stored

\* What a store makes of the committed row r: the whole aggregate, or r with
\* the columns in which the aggregate differs from the row it was loaded from.
Written(base, run, r) ==
  { run,
    [status    |-> Changed(base.status, run.status, r.status),
     total     |-> Changed(base.total, run.total, r.total),
     completed |-> Changed(base.completed, run.completed, r.completed),
     failed    |-> Changed(base.failed, run.failed, r.failed),
     integrity |-> Changed(base.integrity, run.integrity, r.integrity)] }

\* find_by_id and the handler's change of the aggregate.
LoadRun(s) ==
  /\ At(s, RunActivities, "new")
  /\ Visible
  /\ IF CanApply(proc[s].act, row)
     THEN /\ proc' = [proc EXCEPT ![s].stage = "loaded", ![s].base = row,
                                  ![s].run = Apply(proc[s], row)]
          /\ UNCHANGED <<wf, cur>>
     ELSE Raise(s)
  /\ UNCHANGED <<row, api, cancels, lock, durable, metricRows, calls, faults,
                 evidence, finalized>>

\* The row is not visible: NotFoundError.  That an attempt comes before the
\* commit of the creating request is counted as a fault.
LoadMissing(s) ==
  /\ At(s, RunActivities, "new")
  /\ ~Visible
  /\ IF api = "aborted" THEN UNCHANGED faults ELSE Fault("commit")
  /\ Raise(s)
  /\ UNCHANGED <<row, api, cancels, lock, durable, metricRows, calls, evidence, finalized>>

\* save() and commit: waits for the row lock a cancel request may hold.  The
\* attempt's copy of the run ends with its session.
StoreRun(s) ==
  /\ At(s, RunActivities, "loaded")
  /\ lock = NoLock
  /\ row' \in Written(proc[s].base, proc[s].run, row)
  /\ proc' = [proc EXCEPT ![s].stage = "stored", ![s].base = NewRun, ![s].run = NewRun]
  /\ finalized' = (finalized \/ proc[s].act = "finalize")
  /\ UNCHANGED <<api, wf, cur, cancels, lock, durable, metricRows, calls, faults, evidence>>

\* The committed activity reports back.
ReturnRun(s) ==
  /\ At(s, RunActivities \cup {"persist"}, "stored")
  /\ Return(s, TRUE)
  /\ UNCHANGED <<row, api, cancels, lock, durable, metricRows, calls, faults,
                 evidence, finalized>>

-----------------------------------------------------------------------------
(* Activities that execute an item and persist its metrics. *)

IdOf(s) == ItemId[proc[s].item]

\* Seeded slip: the durable record is not consulted.
Mut_LookUpNoDurable(s) ==
  /\ At(s, {"execute"}, "new")
  /\ Reach(s, "looked")
  /\ UNCHANGED <<row, api, wf, cur, cancels, lock, durable, metricRows, calls,
                 faults, evidence, finalized>>

\* The idempotency lookups: a durable execution of this id is reused; failing
\* that, metric rows persisted under UUID ids stand for the whole result.
LookUp(s) ==
  /\ At(s, {"execute"}, "new")
  /\ \/ /\ DurableSchema /\ durable[IdOf(s)] # 0
        /\ proc' = [proc EXCEPT ![s].stage = "recorded", ![s].found = durable[IdOf(s)]]
     \/ /\ ~(DurableSchema /\ durable[IdOf(s)] # 0)
        /\ Reach(s, IF UuidItems /\ IdOf(s) \in metricRows THEN "ok" ELSE "looked")
  /\ UNCHANGED <<row, api, wf, cur, cancels, lock, durable, metricRows, calls,
                 faults, evidence, finalized>>

\* ItemExecutor.execute: a provider exception becomes a failed result.
CallProvider(s) ==
  /\ At(s, {"execute"}, "looked")
  /\ calls' = [calls EXCEPT ![proc[s].item] = @ + 1]
  /\ \/ proc' = [proc EXCEPT ![s].stage = "called", ![s].found = proc[s].item]
     \/ Reach(s, "bad")
  /\ UNCHANGED <<row, api, wf, cur, cancels, lock, durable, metricRows, faults,
                 evidence, finalized>>

\* Seeded slip: the execution is reported without being recorded.
Mut_RecordNothing(s) ==
  /\ At(s, {"execute"}, "called")
  /\ Reach(s, "recorded")
  /\ UNCHANGED <<row, api, wf, cur, cancels, lock, durable, metricRows, calls,
                 faults, evidence, finalized>>

\* _write_durable_execution: upsert under (run_id, item_id), own transaction.
RecordExecution(s) ==
  /\ At(s, {"execute"}, "called")
  /\ durable' = IF DurableSchema THEN [durable EXCEPT ![IdOf(s)] = proc[s].item]
                                 ELSE durable
  /\ Reach(s, "recorded")
  /\ UNCHANGED <<row, api, wf, cur, cancels, lock, metricRows, calls,
                 faults, evidence, finalized>>

\* The upsert looked before another attempt of the item committed its record: the
\* insert violates the primary key and the attempt raises.
RecordConflict(s) ==
  /\ At(s, {"execute"}, "called")
  /\ DurableSchema /\ durable[IdOf(s)] # 0
  /\ Raise(s)
  /\ UNCHANGED <<row, api, cancels, lock, durable, metricRows, calls, faults,
                 evidence, finalized>>

\* The activity returns: with its metrics, with the provider's failure, or with
\* a failure made of an exception that metric evaluation raised.
ReturnItem(s) ==
  /\ \/ /\ At(s, {"execute"}, "recorded") \/ At(s, {"execute"}, "ok")
        /\ Return(s, TRUE)
        /\ evidence' = IF s = cur THEN [evidence EXCEPT ![proc[s].item] = proc[s].found]
                                  ELSE evidence
        /\ UNCHANGED faults
     \/ /\ At(s, {"execute"}, "bad")
        /\ Return(s, FALSE)
        /\ UNCHANGED <<evidence, faults>>
     \/ /\ At(s, {"execute"}, "recorded")
        /\ Fault("metrics")
        /\ Return(s, FALSE)
        /\ UNCHANGED evidence
  /\ UNCHANGED <<row, api, cancels, lock, durable, metricRows, calls, finalized>>

\* persist_metric_results_activity: upsert by (run_id, item_id, metric_name).
PersistMetrics(s) ==
  /\ At(s, {"persist"}, "new")
  /\ metricRows' = metricRows \cup {IdOf(s)}
  /\ Reach(s, "stored")
  /\ UNCHANGED <<row, api, wf, cur, cancels, lock, durable, calls, faults,
                 evidence, finalized>>

-----------------------------------------------------------------------------
(* Faults of an attempt. *)

\* A transient database error before anything is committed.  Most make the
\* attempt raise; in the metric-row lookup it becomes a failed result.
DatabaseError(s) ==
  /\ s = cur
  /\ Fault("db")
  /\ \/ /\ \/ At(s, RunActivities \cup {"persist", "execute"}, "new")
           \/ At(s, RunActivities, "loaded")
           \/ DurableSchema /\ At(s, {"execute"}, "called")
        /\ Raise(s)
     \/ /\ UuidItems /\ At(s, {"execute"}, "new")
        /\ Reach(s, "bad")
        /\ UNCHANGED <<wf, cur>>
  /\ UNCHANGED <<row, api, cancels, lock, durable, metricRows, calls, evidence, finalized>>

\* The worker dies; what the attempt has committed stays, its result is lost.
Crash(s) ==
  /\ s = cur /\ WorkflowLive
  /\ Fault("crash")
  /\ Raise(s)
  /\ UNCHANGED <<row, api, cancels, lock, durable, metricRows, calls, evidence, finalized>>

\* The attempt misses its start-to-close timeout but goes on in its slot, while
\* Temporal starts the next attempt in another one.
Stall(s) ==
  /\ s = cur /\ WorkflowLive
  /\ Fault("stall")
  /\ \E n \in Slots \ {s} : proc[n] = Idle /\ NextAttempt(proc, n)
  /\ UNCHANGED <<row, api, cancels, lock, durable, metricRows, calls, evidence, finalized>>

-----------------------------------------------------------------------------
(* API requests that cancel the run. *)

\* cancel_run: ownership check, load and aggregate.cancel(force); 404 or 409
\* when there is no run or the transition is refused.
CancelLoad(c, force) ==
  /\ cancels[c].stage = "idle"
  /\ cancels' = [cancels EXCEPT ![c] =
       IF Visible /\ CanCancel(row, force)
       THEN [stage |-> "loaded", base |-> row, run |-> Cancel(row, force)]
       ELSE [@ EXCEPT !.stage = "rejected"]]
  /\ UNCHANGED <<row, api, wf, proc, cur, lock, durable, metricRows, calls, faults,
                 evidence, finalized>>

\* save() flushes the UPDATE: the row is locked until the request commits.
CancelFlush(c) ==
  /\ cancels[c].stage = "loaded"
  /\ lock = NoLock
  /\ lock' = c
  /\ \E w \in Written(cancels[c].base, cancels[c].run, row) :
       cancels' = [cancels EXCEPT ![c].stage = "flushed", ![c].run = w]
  /\ UNCHANGED <<row, api, wf, proc, cur, durable, metricRows, calls, faults,
                 evidence, finalized>>

\* The workflow is signalled; every error of the signal is swallowed, that the
\* workflow has already ended included.
CancelSignal(c) ==
  /\ cancels[c].stage = "flushed"
  /\ cancels' = [cancels EXCEPT ![c].stage = "signalled"]
  /\ \/ /\ wf' = [wf EXCEPT !.cancel = @ \/ WorkflowLive]
        /\ UNCHANGED faults
     \/ Fault("signal") /\ UNCHANGED wf
  /\ UNCHANGED <<row, api, proc, cur, lock, durable, metricRows, calls, evidence, finalized>>

\* The request's copy of the run ends with its session.
EndRequest(c, stage) ==
  cancels' = [cancels EXCEPT ![c] = [stage |-> stage, base |-> NewRun, run |-> NewRun]]

\* get_db_session commits when the response has been built.
CancelCommit(c) ==
  /\ cancels[c].stage = "signalled"
  /\ EndRequest(c, "done")
  /\ row' = cancels[c].run
  /\ lock' = NoLock
  /\ UNCHANGED <<api, wf, proc, cur, durable, metricRows, calls, faults, evidence, finalized>>

\* The request dies: its transaction is rolled back, a signal stays delivered.
CancelAbort(c) ==
  /\ cancels[c].stage \in {"loaded", "flushed", "signalled"}
  /\ Fault("abort")
  /\ EndRequest(c, "aborted")
  /\ lock' = IF lock = c THEN NoLock ELSE lock
  /\ UNCHANGED <<row, api, wf, proc, cur, durable, metricRows, calls, evidence, finalized>>

-----------------------------------------------------------------------------
\* Everything has ended: no workflow, no attempt, no request in progress.
Ended ==
  /\ api \in {"committed", "aborted"} /\ wf.pc \in WorkflowEnds
  /\ \A s \in Slots : proc[s].act = "none"
  /\ \A c \in Cancellers : cancels[c].stage \in {"rejected", "done", "aborted"}

AttemptStep(s) ==
  \/ LoadRun(s) \/ LoadMissing(s) \/ StoreRun(s) \/ ReturnRun(s)
  \/ LookUp(s) \/ CallProvider(s) \/ RecordExecution(s) \/ RecordConflict(s)
  \/ ReturnItem(s) \/ PersistMetrics(s)

AttemptFault(s) == DatabaseError(s) \/ Crash(s) \/ Stall(s)

CancelStep(c) == CancelFlush(c) \/ CancelSignal(c) \/ CancelCommit(c)

Next ==
  \/ ScheduleWorkflow \/ CommitCreate \/ AbortCreate
  \/ \E s \in Slots : AttemptStep(s) \/ AttemptFault(s)
  \/ \E c \in Cancellers, force \in BOOLEAN : CancelLoad(c, force)
  \/ \E c \in Cancellers : CancelStep(c) \/ CancelAbort(c)
  \/ Ended /\ UNCHANGED vars

Spec == Init /\ [][Next]_vars

\* Workers poll, Temporal dispatches and API requests end; no fault is owed.
Fairness ==
  /\ WF_vars(ScheduleWorkflow) /\ WF_vars(CommitCreate)
  /\ \A s \in Slots : WF_vars(AttemptStep(s))
  /\ \A c \in Cancellers : WF_vars(CancelStep(c))

FairSpec == Spec /\ Fairness

-----------------------------------------------------------------------------
(* What holds whatever the environment does. *)

\* A run is COMPLETED or FAILED only after a finalize_run_integrity_activity
\* has committed: workflow.py schedules the terminal transition after it, and
\* no stale attempt or cancel request can bring a terminal status earlier.
FinalizedBeforeTerminal == row.status \in {"completed", "failed"} => finalized

\* "A provider result must never be reported as complete without a durable
\* record": an item the workflow accepted as successful has a record under its
\* id, and so does every id with metric rows; when ids are not shared the
\* evidence is the item's own provider call.
SuccessRestsOnRecord ==
  DurableSchema =>
    /\ \A i \in Items :
         evidence[i] # 0 => /\ durable[ItemId[i]] # 0
                            /\ ItemId[evidence[i]] = ItemId[i]
    /\ \A k \in metricRows : durable[k] # 0

\* The provider is called at most once per attempt, so at most maximum_attempts
\* times for an item, whatever crashes, stalls and errors happen.
ProviderCallBound == \A i \in Items : calls[i] <= MaxAttempts

\* Once the cancel signal has been delivered no further item is started.
CancelStopsNewItems == [][wf.cancel => wf'.item = wf.item]_vars

-----------------------------------------------------------------------------
(* What holds while one transaction at a time touches the row: no attempt    *)
(* outlives its timeout and no request cancels the run.                      *)

\* The persisted counters never run ahead of the workflow's own, and a failed
\* item is always a completed one, however often progress updates are retried.
ProgressNeverAhead ==
  /\ row.completed <= wf.completed /\ row.failed <= wf.failed
  /\ row.failed <= row.completed

\* The workflow's outcome is the row's: it never reports a result the row does
\* not show.
OutcomeRecorded ==
  wf.pc \in {"completed", "failed", "cancelled"} => row.status = wf.pc

\* Retries reuse recorded executions: the provider is not called for an item
\* once its execution is recorded (or, on UUID ids, its metric rows are).
NoCallAfterRecord ==
  [][\A i \in Items : calls'[i] # calls[i] =>
        /\ DurableSchema => durable[ItemId[i]] = 0
        /\ UuidItems => ItemId[i] \notin metricRows]_vars

\* Every committed change of the row is one operation of the aggregate applied
\* to the latest row.
Aggregate == INSTANCE RunAggregate
  WITH run <- row, checkpoint <- FALSE, MaxCount <- 2 * NumItems

ImplementsAggregate == Aggregate!AggregateSpec

\* While no activity fails MaxAttempts times, nothing is lost and no request
\* dies, the run reaches a terminal status.
RunEnds == <>[](row.status \in TerminalStatuses)

-----------------------------------------------------------------------------
(* What the documentation says and the code does not keep. *)

\* STATE_MACHINE.md: "Terminal states are immutable. No operation can
\* transition a run out of a terminal state."
TerminalImmutable ==
  [][row.status \in TerminalStatuses => row'.status = row.status]_vars

\* workflow.py: lifecycle activities "are idempotent state transitions - safe
\* to retry for transient DB errors", so fewer faults than attempts never fail
\* the workflow.
LifecycleRetrySafe == faults < MaxAttempts => wf.pc # "error"

\* FAILURE_HANDLING.md: "All items failed (0% success rate) | Run marked as
\* FAILED".
AllFailedMeansFailed ==
  row.status = "completed" => \E i \in Items : evidence[i] # 0
=============================================================================
