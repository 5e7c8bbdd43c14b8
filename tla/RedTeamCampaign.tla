-------------------------- MODULE RedTeamCampaign --------------------------
(***************************************************************************)
(* One red-team attack run: the API requests that start, cancel, complete  *)
(* or fail it, the workflow of a single activity, and the attempts of that *)
(* activity, each of which runs the adaptive campaign loop, records its    *)
(* rounds durably, and finalizes the run's row.                            *)
(*                                                                         *)
(* Row transactions are loads and stores as in EvaluationWorkflow: save()  *)
(* merges a whole aggregate, without lock or version check.  A round is    *)
(* its number and its kind, and an answered target call uses the tokens    *)
(* that CallTokens gives for the two; one that raises uses none.  The      *)
(* duration budget may be found exhausted at any loop head, because each   *)
(* attempt starts a clock of its own.                                      *)
(***************************************************************************)
EXTENDS Integers, Sequences, FiniteSets

CONSTANTS
  MaxRounds,       \* max_rounds (and max_attacks) of the budget
  MaxTokens,       \* max_total_tokens of the budget
  CallTokens,      \* what the answered call of each round uses, by its kind
  DearestCall,     \* the most of them
  MaxAttempts,     \* maximum_attempts of the retry policy
  Slots,           \* worker slots an attempt can run in
  Requests,        \* API requests that start, cancel, complete or fail the run
  RoundKinds,      \* the kinds of rounds the target lets happen
  FaultKinds,      \* which faults the environment may inject
  MaxFaults        \* how many of them

AllRoundKinds ==
  {"plain",   \* answered, effectiveness below the threshold
   "hit",     \* answered, effectiveness at the threshold: stop early
   "error"}   \* the target call raised

AnsweredKinds == AllRoundKinds \ {"error"}

AllFaultKinds ==
  {"db",         \* a database error in an attempt
   "crash",      \* the worker of an attempt dies; Temporal times the attempt out
   "stall",      \* an attempt misses its deadline but keeps running
   "setup",      \* the campaign cannot be built: definitions, providers, judge
   "judge",      \* mutation or evaluation of a round raises
   "abort",      \* an API request dies, and its transaction with it
   "schedule",   \* start_workflow raises, whether or not the workflow started
   "signal"}     \* the cancel signal cannot be delivered

ASSUME RedTeamCampaignAssumption ==
  /\ MaxRounds \in Nat /\ MaxTokens \in Nat /\ MaxAttempts \in Nat \ {0}
  /\ MaxFaults \in Nat
  /\ DearestCall \in Nat /\ CallTokens \in [1 .. MaxRounds -> [AnsweredKinds -> 0 .. DearestCall]]
  /\ RoundKinds \subseteq AllRoundKinds /\ FaultKinds \subseteq AllFaultKinds
  /\ Slots # {}

VARIABLES
  row,         \* the committed attack_runs row
  durable,     \* red_team_rounds: durable[n], the kind of round n, or NoRound
  wf,          \* the workflow: how it stands, and the attempt Temporal is at
  proc,        \* proc[s]: the attempt running in slot s
  cur,         \* the slot of the attempt Temporal waits for
  req,         \* req[q]: operation, stage, loaded and changed run of a request
  faults,      \* faults injected so far
  overlapped,  \* history: two attempts of the run were active at once
  reopened,    \* history: a start that came second reopened a run or its workflow
  unpersisted  \* history: an attempt failed to persist its metric results

vars == <<row, durable, wf, proc, cur, req, faults, overlapped, reopened, unpersisted>>

TerminalStatuses == {"completed", "failed", "cancelled"}
AttackStatuses == {"created", "queued", "running"} \cup TerminalStatuses

\* CampaignState once the loop has ended; "completed" is COMPLETED as well as
\* BUDGET_EXHAUSTED, which only differ in the status that is reported.
CampaignEnds == {"completed", "failed", "cancelled"}

NoRound == "none"
Rounds == [number : 1 .. MaxRounds, kind : AllRoundKinds]

\* campaign_results of the run.
Results == [given : BOOLEAN, rounds : Seq(Rounds)]
NoResults == [given |-> FALSE, rounds |-> <<>>]

AttackRuns == [status : AttackStatuses, done : Nat, failed : Nat, results : Results]
NewRun == [status |-> "created", done |-> 0, failed |-> 0, results |-> NoResults]

Stages == {"idle", "new", "loading", "running", "executed", "upserting", "finished",
           "persisted", "finalizing", "failing", "marking", "returning"}

\* An attempt: the status it loaded, the campaign's rounds, the round at hand
\* and whether its number was free, how the campaign ended, whether the attempt
\* was told of a cancel, and the row it loaded and changed.  late is
\* history: the row was terminal when the attempt was scheduled.
Attempts ==
  [stage : Stages, status : AttackStatuses, rounds : Seq(Rounds),
   kind : AllRoundKinds \cup {NoRound}, free : BOOLEAN, state : CampaignEnds \cup {NoRound},
   told : BOOLEAN, base : AttackRuns, run : AttackRuns, late : BOOLEAN]

Idle == [stage |-> "idle", status |-> "created", rounds |-> <<>>, kind |-> NoRound,
         free |-> FALSE, state |-> NoRound, told |-> FALSE, base |-> NewRun,
         run |-> NewRun, late |-> FALSE]

IsTerminal(run) == run.status \in TerminalStatuses

\* The attempt Temporal schedules now.
NewAttempt == [Idle EXCEPT !.stage = "new", !.late = IsTerminal(row)]

Operations == {"start", "cancel", "complete", "fail"}

ApiRequests ==
  [op : Operations \cup {"none"}, stage : {"idle", "loaded", "committed", "undoing", "undone",
                             "done", "rejected", "aborted"},
   base : AttackRuns, run : AttackRuns]

TypeOK ==
  /\ row \in AttackRuns
  /\ durable \in [1 .. MaxRounds -> AllRoundKinds \cup {NoRound}]
  /\ wf \in [pc : {"none", "running", "error"} \cup CampaignEnds, attempt : 1 .. MaxAttempts]
  /\ proc \in [Slots -> Attempts]
  /\ cur \in Slots
  /\ req \in [Requests -> ApiRequests]
  /\ faults \in 0 .. MaxFaults
  /\ overlapped \in BOOLEAN /\ reopened \in BOOLEAN /\ unpersisted \in BOOLEAN

Init ==
  /\ row = NewRun
  /\ durable = [n \in 1 .. MaxRounds |-> NoRound]
  /\ wf = [pc |-> "none", attempt |-> 1]
  /\ proc = [s \in Slots |-> Idle]
  /\ cur \in Slots
  /\ req = [q \in Requests |-> [op |-> "none", stage |-> "idle",
                                base |-> NewRun, run |-> NewRun]]
  /\ faults = 0
  /\ overlapped = FALSE /\ reopened = FALSE /\ unpersisted = FALSE

Fault(kind) == kind \in FaultKinds /\ faults < MaxFaults /\ faults' = faults + 1

-----------------------------------------------------------------------------
(* The AttackRun entity and its repository. *)

\* cancel_attack_run does nothing to a cancelled run, but does not refuse it.
CanApply(op, run) ==
  CASE op = "start"    -> run.status \in {"created", "queued"}
    [] op = "complete" -> run.status = "running"
    [] op = "cancel"   -> ~IsTerminal(run) \/ run.status = "cancelled"
    [] op = "fail"     -> ~IsTerminal(run)

Target(op) ==
  CASE op = "start"    -> "running"
    [] op = "complete" -> "completed"
    [] op = "cancel"   -> "cancelled"
    [] op = "fail"     -> "failed"

Apply(op, run) == [run EXCEPT !.status = Target(op)]

\* What a store makes of the committed row r: every column of the merged
\* aggregate, or only those in which it differs from the row it was loaded from.
Changed(before, after, stored) == IF after # before THEN after ELSE stored

Written(base, run, r) ==
  { run,
    [status  |-> Changed(base.status, run.status, r.status),
     done    |-> Changed(base.done, run.done, r.done),
     failed  |-> Changed(base.failed, run.failed, r.failed),
     results |-> Changed(base.results, run.results, r.results)] }

-----------------------------------------------------------------------------
(* The campaign loop: AdaptiveCampaignEngine and CampaignBudget. *)

OfKind(rounds, kinds) == {i \in DOMAIN rounds : rounds[i].kind \in kinds}

TokensUsed(round) ==
  IF round.kind = "error" THEN 0 ELSE CallTokens[round.number][round.kind]

\* record_round adds up what the recorded rounds have used.
TokensOf(rounds) ==
  LET upTo[i \in 0 .. Len(rounds)] ==
        IF i = 0 THEN 0 ELSE upTo[i - 1] + TokensUsed(rounds[i])
  IN  upTo[Len(rounds)]

\* Seeded slip: the budget is overdrawn by one round.
Mut_WithinLimitsOneMore(rounds) ==
  Len(rounds) <= MaxRounds - 1 /\ TokensOf(rounds) <= MaxTokens

\* is_within_limits knows the rounds so far, not what the next one will use.
WithinLimits(rounds) == Len(rounds) < MaxRounds /\ TokensOf(rounds) < MaxTokens

\* _should_stop_early after the last of the rounds: the threshold is met, or the
\* last three rounds have failed.
StopsEarly(rounds) ==
  LET n == Len(rounds)
  IN  \/ n > 0 /\ rounds[n].kind = "hit"
      \/ n >= 3 /\ \A i \in n - 2 .. n : rounds[i].kind = "error"

\* The durable rounds up to number n, in the order of their numbers.
RoundsUpTo ==
  LET upTo[n \in 0 .. MaxRounds] ==
        IF n = 0 THEN <<>>
        ELSE IF durable[n] = NoRound THEN upTo[n - 1]
        ELSE Append(upTo[n - 1], [number |-> n, kind |-> durable[n]])
  IN  upTo

DurableRounds == RoundsUpTo[MaxRounds]

\* Seeded slip: the replay forgets the round that ended the campaign.
Mut_ReplayedStopsBefore(rounds) ==
  IF OfKind(rounds, {"hit"}) = {} THEN rounds
  ELSE LET first == CHOOSE i \in OfKind(rounds, {"hit"}) :
                      \A j \in OfKind(rounds, {"hit"}) : i <= j
       IN  SubSeq(rounds, 1, first - 1)

\* The rounds a resumed campaign starts from: replay stops at the first round
\* that stops a campaign early (failed rounds are never durable).
Replayed(rounds) ==
  IF OfKind(rounds, {"hit"}) = {} THEN rounds
  ELSE LET first == CHOOSE i \in OfKind(rounds, {"hit"}) :
                      \A j \in OfKind(rounds, {"hit"}) : i <= j
       IN  SubSeq(rounds, 1, first)

\* p when its loop is over.
LoopOver(p) == [p EXCEPT !.stage = "finished",
                         !.state = IF p.told THEN "cancelled" ELSE "completed"]

-----------------------------------------------------------------------------
(* Attempts: how Temporal reacts to their end. *)

Active(s, stage) == proc[s].stage = stage

Awaited(s) == s = cur /\ wf.pc = "running"

\* Slot n takes the next attempt; after the last one the workflow fails.
NextAttempt(procs, n) ==
  /\ cur' = n
  /\ IF wf.attempt < MaxAttempts
     THEN /\ wf' = [wf EXCEPT !.attempt = @ + 1]
          /\ proc' = [procs EXCEPT ![n] = NewAttempt]
     ELSE /\ wf' = [wf EXCEPT !.pc = "error"]
          /\ proc' = [procs EXCEPT ![n] = Idle]

\* The attempt in slot s ends with an exception.
Raise(s) ==
  IF Awaited(s)
  THEN NextAttempt(proc, s)
  ELSE /\ proc' = [proc EXCEPT ![s] = Idle]
       /\ UNCHANGED <<wf, cur>>

\* The attempt in slot s returns a result of the given status.
Return(s, status) ==
  /\ wf' = IF Awaited(s) THEN [wf EXCEPT !.pc = status] ELSE wf
  /\ proc' = [proc EXCEPT ![s] = Idle]
  /\ UNCHANGED cur

Becomes(s, p) == proc' = [proc EXCEPT ![s] = p]

-----------------------------------------------------------------------------
(* red_team_campaign_activity: building the campaign. *)

LoadStatus(s) ==
  /\ Active(s, "new")
  /\ Becomes(s, [proc[s] EXCEPT !.stage = "loading", !.status = row.status])
  /\ UNCHANGED <<row, durable, wf, cur, req, faults, overlapped, reopened, unpersisted>>

\* Seeded slip: a terminal run without durable rounds is campaigned again.
Mut_LoadRoundsAlwaysRuns(s) ==
  /\ Active(s, "loading")
  /\ Becomes(s, [proc[s] EXCEPT !.stage = "running", !.rounds = Replayed(DurableRounds)])
  /\ UNCHANGED <<row, durable, wf, cur, req, faults, overlapped, reopened, unpersisted>>

\* The durable rounds are loaded and replayed.  A terminal run is not campaigned
\* again: its result is rebuilt from them or, if there are none, refused.
LoadRounds(s) ==
  LET terminal == proc[s].status \in TerminalStatuses
      replayed == [proc[s] EXCEPT !.rounds = Replayed(DurableRounds)]
  IN  /\ Active(s, "loading")
      /\ \/ /\ ~terminal
            /\ Becomes(s, [replayed EXCEPT !.stage = "running"])
            /\ UNCHANGED <<wf, cur>>
         \/ /\ terminal /\ DurableRounds # <<>>
            /\ Becomes(s, [replayed EXCEPT !.stage = "finished", !.state = proc[s].status])
            /\ UNCHANGED <<wf, cur>>
         \/ /\ terminal /\ DurableRounds = <<>>
            /\ Return(s, proc[s].status)
      /\ UNCHANGED <<row, durable, req, faults, overlapped, reopened, unpersisted>>

\* Definitions, providers or judge cannot be resolved: the run is failed.
SetupFails(s) ==
  /\ Active(s, "loading")
  /\ Fault("setup")
  /\ Becomes(s, [proc[s] EXCEPT !.stage = "failing"])
  /\ UNCHANGED <<row, durable, wf, cur, req, overlapped, reopened, unpersisted>>

-----------------------------------------------------------------------------
(* run_campaign: the loop. *)

\* The target is called for the next round.
CallTarget(s, kind) ==
  /\ Active(s, "running")
  /\ WithinLimits(proc[s].rounds) /\ ~proc[s].told
  /\ Becomes(s, [proc[s] EXCEPT !.stage = "executed", !.kind = kind])
  /\ UNCHANGED <<row, durable, wf, cur, req, faults, overlapped, reopened, unpersisted>>

\* p with its round recorded in the campaign: the loop goes on or stops early.
Recorded(p) ==
  LET more == [p EXCEPT !.rounds = Append(@, [number |-> Len(@) + 1, kind |-> p.kind]),
                        !.kind = NoRound, !.free = FALSE]
  IN  IF StopsEarly(more.rounds) THEN LoopOver(more)
                                 ELSE [more EXCEPT !.stage = "running"]

\* A failed round is not durable; it goes straight into the campaign.
RecordFailedRound(s) ==
  /\ Active(s, "executed")
  /\ proc[s].kind = "error"
  /\ Becomes(s, Recorded(proc[s]))
  /\ UNCHANGED <<row, durable, wf, cur, req, faults, overlapped, reopened, unpersisted>>

NextNumber(s) == Len(proc[s].rounds) + 1

\* upsert() looks for a row of this number,
FindCheckpoint(s) ==
  /\ Active(s, "executed")
  /\ proc[s].kind # "error"
  /\ Becomes(s, [proc[s] EXCEPT !.stage = "upserting",
                                !.free = durable[NextNumber(s)] = NoRound])
  /\ UNCHANGED <<row, durable, wf, cur, req, faults, overlapped, reopened, unpersisted>>

\* and updates it, or inserts one if it is still missing.  An insert that comes
\* second violates the primary key, and the attempt raises.
WriteCheckpoint(s) ==
  /\ Active(s, "upserting")
  /\ IF proc[s].free /\ durable[NextNumber(s)] # NoRound
     THEN Raise(s) /\ UNCHANGED durable
     ELSE /\ durable' = [durable EXCEPT ![NextNumber(s)] = proc[s].kind]
          /\ Becomes(s, Recorded(proc[s]))
          /\ UNCHANGED <<wf, cur>>
  /\ UNCHANGED <<row, req, faults, overlapped, reopened, unpersisted>>

\* The loop head finds a budget exhausted; that of the duration may be so anytime.
EndLoop(s) ==
  /\ Active(s, "running")
  /\ Becomes(s, LoopOver(proc[s]))
  /\ UNCHANGED <<row, durable, wf, cur, req, faults, overlapped, reopened, unpersisted>>

\* Mutation, evaluation or judge raise: the engine fails the campaign, and the
\* activity goes on with its result.
CampaignFails(s) ==
  /\ Active(s, "running") \/ Active(s, "executed")
  /\ Fault("judge")
  /\ Becomes(s, [proc[s] EXCEPT !.stage = "finished", !.state = "failed", !.kind = NoRound])
  /\ UNCHANGED <<row, durable, wf, cur, req, overlapped, reopened, unpersisted>>

\* _check_cancelled drops the round and ends the loop.
AbandonRound(s) ==
  /\ Active(s, "running") \/ Active(s, "executed")
  /\ proc[s].told
  /\ Becomes(s, [proc[s] EXCEPT !.stage = "finished", !.state = "cancelled", !.kind = NoRound])
  /\ UNCHANGED <<row, durable, wf, cur, req, faults, overlapped, reopened, unpersisted>>

-----------------------------------------------------------------------------
(* red_team_campaign_activity: persisting the result. *)

\* delete-then-insert of the metric rows, one transaction.
PersistMetrics(s) ==
  /\ Active(s, "finished")
  /\ Becomes(s, [proc[s] EXCEPT !.stage = "persisted"])
  /\ UNCHANGED <<row, durable, wf, cur, req, faults, overlapped, reopened, unpersisted>>

\* Seeded slip: a run that is not running any more is counted again.
Mut_FinalizedTwice(p, run) ==
  [run EXCEPT !.done = @ + Len(p.rounds),
              !.failed = @ + Cardinality(OfKind(p.rounds, {"error"})),
              !.status = IF run.status # "running" THEN @
                         ELSE IF p.told THEN "cancelled" ELSE "completed",
              !.results = [given |-> TRUE, rounds |-> p.rounds]]

\* The row of a running run is moved to its terminal status and its counters are
\* raised round by round; the results are recorded in any case.
Finalized(p, run) ==
  LET counted == [run EXCEPT !.done = @ + Len(p.rounds),
                             !.failed = @ + Cardinality(OfKind(p.rounds, {"error"})),
                             !.status = IF p.told THEN "cancelled" ELSE "completed"]
  IN  [(IF run.status = "running" THEN counted ELSE run) EXCEPT
         !.results = [given |-> TRUE, rounds |-> p.rounds]]

FinalizeLoad(s) ==
  /\ Active(s, "persisted")
  /\ Becomes(s, [proc[s] EXCEPT !.stage = "finalizing", !.base = row,
                                !.run = Finalized(proc[s], row)])
  /\ UNCHANGED <<row, durable, wf, cur, req, faults, overlapped, reopened, unpersisted>>

\* Seeded slip: the session of _finalize_run ends without a commit.
Mut_FinalizeStoreNoCommit(s) ==
  /\ Active(s, "finalizing")
  /\ row' = row
  /\ Becomes(s, [proc[s] EXCEPT !.stage = "returning", !.base = NewRun, !.run = NewRun])
  /\ UNCHANGED <<durable, wf, cur, req, faults, overlapped, reopened, unpersisted>>

FinalizeStore(s) ==
  /\ Active(s, "finalizing")
  /\ row' \in Written(proc[s].base, proc[s].run, row)
  /\ Becomes(s, [proc[s] EXCEPT !.stage = "returning", !.base = NewRun, !.run = NewRun])
  /\ UNCHANGED <<durable, wf, cur, req, faults, overlapped, reopened, unpersisted>>

\* _fail_run: a running run is failed, any other is left alone.
FailLoad(s) ==
  /\ Active(s, "failing")
  /\ Becomes(s, IF row.status = "running"
                THEN [proc[s] EXCEPT !.stage = "marking", !.state = "failed", !.base = row,
                                     !.run = Apply("fail", row)]
                ELSE [proc[s] EXCEPT !.stage = "returning", !.state = "failed"])
  /\ UNCHANGED <<row, durable, wf, cur, req, faults, overlapped, reopened, unpersisted>>

FailStore(s) ==
  /\ Active(s, "marking")
  /\ row' \in Written(proc[s].base, proc[s].run, row)
  /\ Becomes(s, [proc[s] EXCEPT !.stage = "returning", !.base = NewRun, !.run = NewRun])
  /\ UNCHANGED <<durable, wf, cur, req, faults, overlapped, reopened, unpersisted>>

ReturnResult(s) ==
  /\ Active(s, "returning")
  /\ Return(s, proc[s].state)
  /\ UNCHANGED <<row, durable, req, faults, overlapped, reopened, unpersisted>>

-----------------------------------------------------------------------------
(* Faults of an attempt. *)

\* Errors of the durable rounds, of the metric rows and of _fail_run raise; one
\* in finalization has the run failed.
DatabaseError(s) ==
  /\ Fault("db")
  /\ Active(s, "finished") => proc[s].rounds # <<>>
  /\ \/ /\ proc[s].stage \in {"new", "loading", "upserting", "finished", "failing", "marking"}
        /\ Raise(s)
     \/ /\ proc[s].stage \in {"persisted", "finalizing"}
        /\ Becomes(s, [proc[s] EXCEPT !.stage = "failing", !.base = NewRun, !.run = NewRun])
        /\ UNCHANGED <<wf, cur>>
  /\ unpersisted' = (unpersisted \/ Active(s, "finished"))
  /\ UNCHANGED <<row, durable, req, overlapped, reopened>>

\* The worker dies; what is committed stays.
Crash(s) ==
  /\ proc[s].stage # "idle"
  /\ Fault("crash")
  /\ Raise(s)
  /\ UNCHANGED <<row, durable, req, overlapped, reopened, unpersisted>>

\* The attempt misses its deadline but goes on; the next one starts elsewhere.
Stall(s) ==
  /\ Awaited(s)
  /\ Fault("stall")
  /\ \E n \in Slots \ {s} : proc[n] = Idle /\ NextAttempt(proc, n)
  /\ overlapped' = TRUE
  /\ UNCHANGED <<row, durable, req, reopened, unpersisted>>

\* A cancelled workflow's attempt may be told of it: CancelledError ends it at
\* an await, unless something under the await swallows it.
TellCancelled(s) ==
  /\ wf.pc = "cancelled" /\ proc[s].stage # "idle" /\ ~proc[s].told
  /\ \/ Becomes(s, Idle)
     \/ /\ proc[s].stage \in {"running", "executed", "upserting", "finished"}
        /\ Becomes(s, [proc[s] EXCEPT !.told = TRUE])
  /\ UNCHANGED <<row, durable, wf, cur, req, faults, overlapped, reopened, unpersisted>>

-----------------------------------------------------------------------------
(* API requests on the run. *)

\* Request q goes on without the run it worked on, or has ended.
Proceed(q, stage) ==
  req' = [req EXCEPT ![q] = [op |-> @.op, stage |-> stage, base |-> NewRun, run |-> NewRun]]

End(q, stage) ==
  req' = [req EXCEPT ![q] = [op |-> "none", stage |-> stage, base |-> NewRun, run |-> NewRun]]

\* The request loads the run and changes it; a refused change ends it.
LoadRequest(q, op) ==
  /\ req[q].stage = "idle"
  /\ IF ~CanApply(op, row) THEN End(q, "rejected")
     ELSE req' = [req EXCEPT ![q] = [op |-> op, stage |-> "loaded", base |-> row,
                                     run |-> Apply(op, row)]]
  /\ UNCHANGED <<row, durable, wf, proc, cur, faults, overlapped, reopened, unpersisted>>

\* start and cancel commit before they turn to Temporal; a run that is cancelled
\* already is not saved.
CommitRequest(q) ==
  /\ req[q].stage = "loaded"
  /\ row' \in IF req[q].run = req[q].base THEN {row}
             ELSE Written(req[q].base, req[q].run, row)
  /\ IF req[q].op \in {"start", "cancel"} THEN Proceed(q, "committed") ELSE End(q, "done")
  /\ reopened' = (reopened \/ (req[q].op = "start" /\ IsTerminal(row)))
  /\ UNCHANGED <<durable, wf, proc, cur, faults, overlapped, unpersisted>>

\* The workflow id is taken while the workflow runs, and free again after that.
WorkflowStarts ==
  /\ wf' = [pc |-> "running", attempt |-> 1]
  /\ overlapped' = (overlapped \/ \E s \in Slots : proc[s].stage # "idle")
  /\ reopened' = (reopened \/ wf.pc # "none")
  /\ \E n \in Slots : /\ proc[n] = Idle
                      /\ cur' = n
                      /\ proc' = [proc EXCEPT ![n] = NewAttempt]

StartWorkflow(q) ==
  /\ req[q].op = "start" /\ req[q].stage = "committed"
  /\ \/ wf.pc # "running" /\ WorkflowStarts /\ End(q, "done") /\ UNCHANGED faults
     \/ /\ wf.pc = "running"
        /\ Proceed(q, "undoing")
        /\ UNCHANGED <<wf, proc, cur, faults, overlapped, reopened>>
     \/ /\ Fault("schedule")
        /\ Proceed(q, "undoing")
        /\ \/ wf.pc # "running" /\ WorkflowStarts
           \/ UNCHANGED <<wf, proc, cur, overlapped, reopened>>
  /\ UNCHANGED <<row, durable, unpersisted>>

\* The workflow could not be scheduled: the run is failed, unless it is terminal.
UndoLoad(q) ==
  /\ req[q].stage = "undoing"
  /\ IF ~CanApply("fail", row) THEN End(q, "done")
     ELSE req' = [req EXCEPT ![q].stage = "undone", ![q].base = row,
                             ![q].run = Apply("fail", row)]
  /\ UNCHANGED <<row, durable, wf, proc, cur, faults, overlapped, reopened, unpersisted>>

UndoCommit(q) ==
  /\ req[q].stage = "undone"
  /\ row' \in Written(req[q].base, req[q].run, row)
  /\ End(q, "done")
  /\ UNCHANGED <<durable, wf, proc, cur, faults, overlapped, reopened, unpersisted>>

\* The workflow cancels the activity it waits for and returns "cancelled"; the
\* attempt itself is not stopped by that.
SignalCancel(q) ==
  /\ req[q].op = "cancel" /\ req[q].stage = "committed"
  /\ End(q, "done")
  /\ \/ /\ wf' = IF wf.pc = "running" THEN [wf EXCEPT !.pc = "cancelled"] ELSE wf
        /\ UNCHANGED faults
     \/ Fault("signal") /\ UNCHANGED wf
  /\ UNCHANGED <<row, durable, proc, cur, overlapped, reopened, unpersisted>>

AbortRequest(q) ==
  /\ req[q].stage \in {"loaded", "committed", "undoing", "undone"}
  /\ Fault("abort")
  /\ End(q, "aborted")
  /\ UNCHANGED <<row, durable, wf, proc, cur, overlapped, reopened, unpersisted>>

-----------------------------------------------------------------------------
AttemptStep(s) ==
  \/ LoadStatus(s) \/ LoadRounds(s) \/ FindCheckpoint(s) \/ AbandonRound(s)
  \/ \E kind \in RoundKinds : CallTarget(s, kind)
  \/ RecordFailedRound(s) \/ WriteCheckpoint(s) \/ EndLoop(s)
  \/ PersistMetrics(s) \/ FinalizeLoad(s) \/ FinalizeStore(s)
  \/ FailLoad(s) \/ FailStore(s) \/ ReturnResult(s)

AttemptFault(s) ==
  \/ SetupFails(s) \/ CampaignFails(s) \/ DatabaseError(s) \/ Crash(s) \/ Stall(s)
  \/ TellCancelled(s)

RequestStep(q) ==
  \/ \E op \in Operations : LoadRequest(q, op)
  \/ CommitRequest(q) \/ StartWorkflow(q) \/ UndoLoad(q) \/ UndoCommit(q) \/ SignalCancel(q)

\* Every request has been answered and no attempt runs.
Ended ==
  /\ \A q \in Requests : req[q].stage \in {"done", "rejected", "aborted"}
  /\ \A s \in Slots : proc[s].stage = "idle"

Next ==
  \/ \E s \in Slots : AttemptStep(s) \/ AttemptFault(s)
  \/ \E q \in Requests : RequestStep(q) \/ AbortRequest(q)
  \/ Ended /\ UNCHANGED vars

Spec == Init /\ [][Next]_vars

-----------------------------------------------------------------------------
\* README.md: "terminal campaigns reconstruct without re-executing providers".
\* An attempt scheduled when the run was terminal never reaches the target, unless
\* a start request then writes its stale RUNNING over the terminal status.
TerminalNotReexecuted ==
  ~reopened =>
    \A s \in Slots : proc[s].late => proc[s].stage \notin {"executed", "upserting"}

\* A workflow that returns its activity's result leaves a terminal run behind,
\* whatever other attempts and requests write: only a workflow that failed or was
\* cancelled may leave the run RUNNING.
ResultMeansTerminal ==
  wf.pc \in {"completed", "failed"} /\ ~reopened => IsTerminal(row)

\* No campaign has more rounds than the budget, nor more tokens than one call that
\* began within it can add, although each attempt counts anew from the rounds it
\* replays.  Attempts that overlap, and those of a workflow started once more, can
\* leave rounds behind that cost more than that: failed rounds are not durable, so
\* that the numbers of an attempt run behind those of an earlier one.
BudgetHeld ==
  \A s \in Slots :
    LET rounds == proc[s].rounds
    IN  /\ Len(rounds) <= MaxRounds
        /\ ~overlapped /\ ~reopened =>
             TokensOf(rounds) = 0 \/ TokensOf(rounds) < MaxTokens + DearestCall

\* "every round checkpointed to PostgreSQL; campaigns resume from last completed
\* round": while attempts do not overlap, the run is started once and no round was
\* skipped by a failed one, the target is not called for a round that is durable.
NoGaps == \A n \in 2 .. MaxRounds : durable[n] # NoRound => durable[n - 1] # NoRound

ResumeSkipsDurable ==
  [][\A s \in Slots :
       /\ ~overlapped /\ ~reopened /\ NoGaps
       /\ proc[s].stage = "running" /\ proc'[s].stage = "executed"
       => durable[NextNumber(s)] = NoRound]_vars

\* The recorded results of a terminal run contain every durable round of it, also
\* when they are rebuilt by an attempt that comes after the run has ended.
ResultsHoldDurable ==
  ~overlapped /\ ~reopened /\ row.results.given =>
    \A n \in 1 .. MaxRounds : durable[n] # NoRound =>
      \E i \in DOMAIN row.results.rounds :
        row.results.rounds[i] = [number |-> n, kind |-> durable[n]]

\* Finalization may run more than once, but counts the rounds of one campaign.
CountedOnce ==
  ~overlapped /\ ~reopened => row.failed <= row.done /\ row.done <= MaxRounds

-----------------------------------------------------------------------------
(* What the comments say and the code does not keep. *)

\* campaign_engine.py and activities.py: when metric persistence fails, the retry
\* "re-persists the already-produced provider results without re-invoking any
\* provider".
RetryInvokesNoProvider ==
  [][\A s \in Slots : unpersisted => ~(/\ proc[s].stage = "running"
                                       /\ proc'[s].stage = "executed")]_vars
=============================================================================
