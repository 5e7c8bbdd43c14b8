----------------------------- MODULE RunRequests ----------------------------
(***************************************************************************)
(* Several invocations of the evaluation gate with one idempotency key,    *)
(* and what create_run, the database and the Temporal server make of them. *)
(*                                                                         *)
(* The request looks the key up, inserts its run, starts the workflow that *)
(* the key names, saves the run's workflow id, answers, and commits behind *)
(* its answer.  Temporal admits one open workflow of an id, and another    *)
(* one once that has closed.  Runs are named by the gate that asked for    *)
(* them; what a run goes through is EvaluationWorkflow's subject.          *)
(***************************************************************************)
EXTENDS Integers, FiniteSets

CONSTANT Gates   \* the invocations: CI jobs and their retries

ASSUME RunRequestsAssumption == "none" \notin Gates

VARIABLES
  gateAt,     \* the process: "idle", "waiting", "polling", or how it exited
  watched,    \* the run that a gate was told to watch, or "none"
  requestAt,  \* its request on the server
  keyRuns,    \* the committed runs with the key's workflow id: their status
  openFlow,   \* the run whose workflow is open, or "none"
  found,      \* history: the runs committed when a request looked the key up
  finished    \* history: the runs whose workflow had closed when one started its own

gateVars == <<gateAt, watched, requestAt, keyRuns, openFlow, found, finished>>

Exits == {"passed", "usage error", "run failed", "timed out", "crashed"}
RunEndings == {"completed", "failed", "cancelled"}

GateInit ==
  /\ gateAt = [g \in Gates |-> "idle"] /\ watched = [g \in Gates |-> "none"]
  /\ requestAt = [g \in Gates |-> "none"]
  /\ keyRuns = [g \in Gates |-> "absent"] /\ openFlow = "none"
  /\ found = [g \in Gates |-> {}] /\ finished = [g \in Gates |-> {}]

\* find_by_workflow_id sees what is committed.
RunsOfKey == {g \in Gates : keyRuns[g] # "absent"}

\* The workflows that were started and have closed, run found or not.
Closed == {g \in Gates : requestAt[g] \in {"started", "answered", "done", "orphaned"}}
          \ {openFlow}

-----------------------------------------------------------------------------
(* The gate.                                                               *)

Trigger(g) ==
  /\ gateAt[g] = "idle" /\ gateAt' = [gateAt EXCEPT ![g] = "waiting"]
  /\ requestAt' = [requestAt EXCEPT ![g] = "received"]
  /\ UNCHANGED <<watched, keyRuns, openFlow, found, finished>>

\* An answer later than 30 seconds is a TimeoutError, which nobody catches.
StopsWaiting(g) ==
  /\ gateAt[g] = "waiting" /\ gateAt' = [gateAt EXCEPT ![g] = "crashed"]
  /\ UNCHANGED <<watched, requestAt, keyRuns, openFlow, found, finished>>

\* With no threshold, and the command line admits none, a completed run passes.
Verdict(status) ==
  CASE status = "completed" -> "passed"
    [] status \in {"failed", "cancelled"} -> "run failed"
    [] OTHER -> "polling"

\* A run that is not, or not yet, committed is answered with 404, which the
\* polling loop does not catch either.
Poll(g) ==
  /\ gateAt[g] = "polling"
  /\ LET status == keyRuns[watched[g]] IN
     \/ status = "absent" /\ gateAt' = [gateAt EXCEPT ![g] = "crashed"]
     \/ status \in RunEndings /\ gateAt' = [gateAt EXCEPT ![g] = Verdict(status)]
     \/ status \in {"queued", "running"} /\ gateAt' = [gateAt EXCEPT ![g] = "timed out"]
  /\ UNCHANGED <<watched, requestAt, keyRuns, openFlow, found, finished>>

-----------------------------------------------------------------------------
(* create_run.                                                             *)

\* What the gate makes of an answer, if it still waits for it.
Told(g, next, run) ==
  IF gateAt[g] = "waiting"
  THEN gateAt' = [gateAt EXCEPT ![g] = next] /\ watched' = [watched EXCEPT ![g] = run]
  ELSE UNCHANGED <<gateAt, watched>>

\* More rows than one raise MultipleResultsFound.
LookUp(g) ==
  /\ requestAt[g] = "received" /\ found' = [found EXCEPT ![g] = RunsOfKey]
  /\ \/ RunsOfKey = {} /\ requestAt' = [requestAt EXCEPT ![g] = "looked up"]
        /\ UNCHANGED <<gateAt, watched>>
     \/ \E run \in RunsOfKey :
          /\ RunsOfKey = {run} /\ requestAt' = [requestAt EXCEPT ![g] = "refused"]
          /\ Told(g, Verdict(keyRuns[run]), run)
     \/ /\ Cardinality(RunsOfKey) > 1 /\ requestAt' = [requestAt EXCEPT ![g] = "refused"]
        /\ Told(g, "usage error", "none")
  /\ UNCHANGED <<keyRuns, openFlow, finished>>

\* Seeded slip: the workflow is named after the run, also when there is a key.
Mut_MayStartOwnName(g) == TRUE

MayStart(g) == openFlow = "none"

StartWorkflow(g) ==
  /\ requestAt[g] = "looked up" /\ MayStart(g)
  /\ openFlow' = g /\ finished' = [finished EXCEPT ![g] = Closed]
  /\ requestAt' = [requestAt EXCEPT ![g] = "started"]
  /\ UNCHANGED <<gateAt, watched, keyRuns, found>>

\* The workflow is open already, or Temporal cannot be reached: neither is a
\* BaseError, so that the request fails and rolls back.
RefuseStart(g) ==
  /\ requestAt[g] = "looked up"
  /\ requestAt' = [requestAt EXCEPT ![g] = "refused"]
  /\ Told(g, "usage error", "none")
  /\ UNCHANGED <<keyRuns, openFlow, found, finished>>

\* Queueing or saving the run fails once its workflow is open.
RollBack(g) ==
  /\ requestAt[g] = "started" /\ requestAt' = [requestAt EXCEPT ![g] = "orphaned"]
  /\ Told(g, "usage error", "none")
  /\ UNCHANGED <<keyRuns, openFlow, found, finished>>

Answer(g) ==
  /\ requestAt[g] = "started" /\ requestAt' = [requestAt EXCEPT ![g] = "answered"]
  /\ Told(g, "polling", g)
  /\ UNCHANGED <<keyRuns, openFlow, found, finished>>

\* get_db_session commits when the answer has been sent, or fails to.
CommitRun(g) ==
  /\ requestAt[g] = "answered"
  /\ \/ /\ requestAt' = [requestAt EXCEPT ![g] = "done"]
        /\ keyRuns' = [keyRuns EXCEPT ![g] = "queued"]
     \/ requestAt' = [requestAt EXCEPT ![g] = "orphaned"] /\ UNCHANGED keyRuns
  /\ UNCHANGED <<gateAt, watched, openFlow, found, finished>>

-----------------------------------------------------------------------------
(* The workflow, as far as the requests see it.                            *)

\* Its activities find the run only when that is committed.
FlowRuns ==
  /\ openFlow # "none" /\ keyRuns[openFlow] = "queued"
  /\ keyRuns' = [keyRuns EXCEPT ![openFlow] = "running"]
  /\ UNCHANGED <<gateAt, watched, requestAt, openFlow, found, finished>>

FlowEnds ==
  /\ openFlow # "none" /\ keyRuns[openFlow] = "running" /\ openFlow' = "none"
  /\ \E status \in RunEndings : keyRuns' = [keyRuns EXCEPT ![openFlow] = status]
  /\ UNCHANGED <<gateAt, watched, requestAt, found, finished>>

\* Attempts run out, or the execution times out: the run stays as it is.
FlowDies ==
  /\ openFlow # "none" /\ openFlow' = "none"
  /\ UNCHANGED <<gateAt, watched, requestAt, keyRuns, found, finished>>

GateNext ==
  \/ \E g \in Gates :
       \/ Trigger(g) \/ StopsWaiting(g) \/ Poll(g)
       \/ LookUp(g) \/ StartWorkflow(g) \/ RefuseStart(g) \/ RollBack(g)
       \/ Answer(g) \/ CommitRun(g)
  \/ FlowRuns \/ FlowEnds \/ FlowDies

GateSpec == GateInit /\ [][GateNext]_gateVars

-----------------------------------------------------------------------------
(* Properties.                                                             *)

GateTypeOK ==
  /\ gateAt \in [Gates -> {"idle", "waiting", "polling"} \cup Exits]
  /\ watched \in [Gates -> Gates \cup {"none"}]
  /\ requestAt \in [Gates -> {"none", "received", "looked up", "refused", "started",
                              "answered", "done", "orphaned"}]
  /\ keyRuns \in [Gates -> {"absent", "queued", "running"} \cup RunEndings]
  /\ openFlow \in Gates \cup {"none"}

\* Two runs share the key only through one window: one of them was scheduled by a
\* request that had looked the key up before the other was committed, and only
\* when the other's workflow had closed.  A key that names one run answers with it.
DuplicatesOnlyInWindow ==
  /\ \A a, b \in RunsOfKey :
       a # b => \/ a \in finished[b] \ found[b]
                \/ b \in finished[a] \ found[a]
  /\ \A g \in Gates : found[g] # {} => watched[g] \in found[g] \cup {"none"}

-----------------------------------------------------------------------------
\* What create_run says and the code does not keep: "a repeated key returns the
\* previously created run instead of scheduling a duplicate, enabling safe CI/CD
\* retries".
RepeatedKeyNeverDuplicates == Cardinality(RunsOfKey) <= 1
=============================================================================
