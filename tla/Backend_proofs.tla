--------------------------- MODULE Backend_proofs ---------------------------
(***************************************************************************)
(* Proofs about the components that work in the background of the API: the *)
(* agent run workflow, the agent loop inside it and the pipeline           *)
(* orchestrator, for any number of cancel requests, faults, tool calls,    *)
(* items and executions; with the event bus, the types of all of them.     *)
(***************************************************************************)
EXTENDS MCBackend, EventBus_proofs

-----------------------------------------------------------------------------
(* Agent runs: AgentRun. *)

(* A run the API creates is QUEUED when it is first visible, and the       *)
(* workflow's first activity takes a CREATED run only.  Nothing happens    *)
(* before the run is created.                                              *)
OriginDecides ==
  /\ agentCreate = "idle" => agentWf = "idle"
  /\ agentWf = "idle" => agentLate = {} /\ agentCopy = NoCopy
  /\ IF agentOrigin = "api"
     THEN /\ agentWf \in {"idle", "queue", "error"} /\ agentRow # "created"
          /\ agentCopy = NoCopy /\ agentRuns = 0
          /\ \A a \in agentLate : a.step = "queue" /\ a.copy = NoCopy
     ELSE agentCreate # "started"

(* What an attempt has read is a status its activity may change.           *)
Legal(copy, step, ok) == copy \in AgentStatuses => <<copy, Target(step, ok)>> \in AgentTransitions
ReadsLegal ==
  /\ Legal(agentCopy, agentWf, agentOk)
  /\ \A a \in agentLate : Legal(a.copy, a.step, a.ok)

(* What a failed run may still become while its workflow reports it.       *)
FailedStays ==
  ~agentStale =>
    /\ agentWf # "failed"
    /\ agentWf = "report" =>
         agentRow \in {"failed", "cancelling", "cancelled"} /\ agentCopy = NoCopy

(* An attempt in progress is one the retry policy allows.                  *)
CopyHeld ==
  /\ agentCopy # NoCopy => agentWf \in ActivitySteps /\ AttemptsLeft
  /\ agentCopy = Executed => agentWf = "loop"
  /\ agentWf = "loop" => agentTries <= 2

(* Every execution of the loop belongs to an attempt of its activity, and  *)
(* so does every one that a late attempt may still begin.                  *)
Unexecuted == {a \in agentLate : a.step = "loop" /\ a.copy = NoCopy}
RunsCounted ==
  /\ IsFiniteSet(agentLate)
  /\ agentWf \in {"idle", "queue", "start", "cancel", "cancelled"} =>
       agentRuns = 0 /\ Unexecuted = {}
  /\ agentWf = "loop" =>
       agentRuns + Cardinality(Unexecuted)
         <= agentTries + (IF agentCopy = NoCopy THEN 0 ELSE 1)
  /\ agentRuns + Cardinality(Unexecuted) <= 2

AgentInv ==
  AgentTypeOK /\ OriginDecides /\ ReadsLegal /\ FailedStays /\ CopyHeld /\ RunsCounted

LEMMA AgentInitInv == AgentInit => AgentInv
<1> SUFFICES ASSUME AgentInit PROVE AgentInv
  OBVIOUS
<1>1. AgentTypeOK
  <2>1. agentTries \in 0..3 /\ agentFaults \in 0..MaxAgentFaults /\ agentRuns \in Nat
    BY AgentRunAssumption DEF AgentInit
  <2> QED  BY <2>1 DEF AgentInit, AgentTypeOK
<1>2. OriginDecides /\ ReadsLegal /\ FailedStays /\ CopyHeld
  BY DEF AgentInit, OriginDecides, ReadsLegal, Legal, FailedStays, CopyHeld, NoCopy, Executed,
         AgentStatuses
<1>3. RunsCounted
  <2>1. agentLate = {} /\ Unexecuted = {} /\ agentRuns = 0 /\ agentWf = "idle"
    BY DEF AgentInit, Unexecuted
  <2> QED  BY <2>1, FS_EmptySet DEF RunsCounted
<1> QED  BY <1>1, <1>2, <1>3 DEF AgentInv

(* The statuses on either side of a transition.                            *)
LEMMA TransitionsTyped ==
  /\ \A s, t : <<s, t>> \in AgentTransitions => s \in AgentStatuses /\ t \in AgentStatuses
  /\ \A s : <<s, "queued">> \in AgentTransitions => s = "created"
  /\ \A s : <<s, "failed">> \in AgentTransitions => s = "running"
  /\ \A s, t : <<s, t>> \in AgentTransitions /\ s \in {"failed", "cancelling", "cancelled"}
               => t = "cancelled"
<1>1. \A s, t : <<s, t>> \in AgentTransitions => s \in AgentStatuses /\ t \in AgentStatuses
  BY DEF AgentTransitions, AgentStatuses
<1>2. \A s : <<s, "queued">> \in AgentTransitions => s = "created"
  BY DEF AgentTransitions
<1>3. \A s : <<s, "failed">> \in AgentTransitions => s = "running"
  BY DEF AgentTransitions
<1>4. \A s, t : <<s, t>> \in AgentTransitions /\ s \in {"failed", "cancelling", "cancelled"}
               => t = "cancelled"
  BY DEF AgentTransitions
<1> QED  BY <1>1, <1>2, <1>3, <1>4

(* What an activity writes is a status.                                    *)
LEMMA TargetTyped ==
  \A step \in ActivitySteps, ok \in BOOLEAN : Target(step, ok) \in AgentStatuses
BY DEF Target, ActivitySteps, LifecycleSteps, AgentStatuses

(* One more fault, where the bound allows it.                              *)
LEMMA FaultTyped ==
  ASSUME AgentTypeOK, AgentFault
  PROVE  agentFaults' \in 0..MaxAgentFaults /\ agentFaults' \in 1..MaxAgentFaults
BY AgentRunAssumption DEF AgentTypeOK, AgentFault

(* The late attempts that may still begin the loop are few.                *)
LEMMA UnexecutedFinite ==
  ASSUME AgentInv
  PROVE  IsFiniteSet(Unexecuted) /\ Cardinality(Unexecuted) \in Nat
<1>1. Unexecuted \subseteq agentLate /\ IsFiniteSet(agentLate)
  BY DEF AgentInv, RunsCounted, Unexecuted
<1> QED  BY <1>1, FS_Subset, FS_CardinalityType

LEMMA CreationKeepsInv ==
  ASSUME AgentInv, CreateByActivity \/ StartByRequest \/ CommitRequest \/ RollBackRequest
  PROVE  AgentInv'
<1> USE DEF AgentInv, agentFixed, agentAttempt, agentLateVars
<1>0. UNCHANGED <<agentOrigin, agentTries, agentCopy, agentOk, agentLate, agentRuns, agentStale>>
      /\ Unexecuted' = Unexecuted
  BY DEF CreateByActivity, StartByRequest, CommitRequest, RollBackRequest, Unexecuted
<1>1. AgentTypeOK'
  <2>1. agentFaults' \in 0..MaxAgentFaults
    BY FaultTyped DEF CreateByActivity, StartByRequest, CommitRequest, RollBackRequest, AgentTypeOK
  <2> QED  BY <1>0, <2>1 DEF CreateByActivity, StartByRequest, CommitRequest, RollBackRequest,
              AgentTypeOK, AgentStatuses, LifecycleSteps, ActivitySteps
<1>2. CASE CreateByActivity \/ StartByRequest
  <2>1. agentWf' = "queue" /\ agentWf = "idle" /\ agentCreate' # "idle"
    BY <1>2 DEF CreateByActivity, StartByRequest, OriginDecides
  <2>2. agentCopy = NoCopy /\ agentRuns = 0 /\ agentLate = {} /\ Unexecuted = {}
    BY <1>2, <2>1 DEF OriginDecides, RunsCounted
  <2>3. OriginDecides'
    BY <1>0, <1>2, <2>1, <2>2 DEF CreateByActivity, StartByRequest, OriginDecides
  <2>4. ReadsLegal' /\ FailedStays' /\ CopyHeld'
    BY <1>0, <2>1, <2>2 DEF ReadsLegal, Legal, FailedStays, CopyHeld, NoCopy, Executed, AgentStatuses
  <2>5. RunsCounted'
    BY <1>0, <2>1, <2>2 DEF RunsCounted
  <2> QED  BY <1>1, <2>3, <2>4, <2>5
<1>3. CASE CommitRequest \/ RollBackRequest
  <2>1. UNCHANGED agentWf
    BY <1>3 DEF CommitRequest, RollBackRequest
  <2>2. agentOrigin = "api"
    BY <1>3 DEF CommitRequest, RollBackRequest, OriginDecides, AgentTypeOK
  <2>3. OriginDecides'
    BY <1>0, <1>3, <2>1, <2>2 DEF CommitRequest, RollBackRequest, OriginDecides
  <2>4. agentWf \notin {"report", "failed"}
    BY <2>2 DEF OriginDecides
  <2>5. ReadsLegal' /\ FailedStays' /\ CopyHeld'
    BY <1>0, <2>1, <2>4 DEF ReadsLegal, Legal, FailedStays, CopyHeld, AttemptsLeft, AgentAttempts
  <2>6. RunsCounted'
    BY <1>0, <2>1 DEF RunsCounted
  <2> QED  BY <1>1, <2>3, <2>5, <2>6
<1> QED  BY <1>2, <1>3

LEMMA CancelKeepsInv ==
  ASSUME AgentInv, NEW c \in AgentCancels,
         (\E force \in BOOLEAN : ReadForCancel(c, force)) \/ CommitCancel(c)
  PROVE  AgentInv'
<1> USE DEF AgentInv, agentFixed, agentAttempt, agentLateVars
<1>1. /\ UNCHANGED <<agentOrigin, agentNests, agentCreate, agentWf, agentTries, agentCopy>>
      /\ UNCHANGED <<agentOk, agentLate, agentRuns, agentStale>>
  BY DEF ReadForCancel, CommitCancel
<1>2. agentRow' = agentRow \/ agentRow' \in {"cancelled", "cancelling"}
  BY DEF ReadForCancel, CommitCancel
<1>3. agentCancel' \in [AgentCancels -> {"idle", "cancelled", "cancelling", "done"}]
  BY DEF ReadForCancel, CommitCancel, AgentCancelTarget, AgentTypeOK
<1>4. agentFaults' \in 0..MaxAgentFaults
  <2>1. agentFaults' = agentFaults \/ AgentFault
    BY ZenonT(30) DEF ReadForCancel, CommitCancel
  <2> QED  BY <2>1, FaultTyped DEF AgentTypeOK
<1>0. agentSignal' \in BOOLEAN
  <2>1. agentSignal' = TRUE \/ agentSignal' = agentSignal
    BY ZenonT(30) DEF ReadForCancel, CommitCancel
  <2> QED  BY <2>1 DEF AgentTypeOK
<1>5. AgentTypeOK'
  BY <1>0, <1>1, <1>2, <1>3, <1>4 DEF AgentTypeOK, AgentStatuses
<1>6. OriginDecides' /\ ReadsLegal' /\ FailedStays' /\ CopyHeld'
  BY <1>1, <1>2 DEF OriginDecides, ReadsLegal, Legal, FailedStays, CopyHeld, AttemptsLeft,
                    AgentAttempts
<1>7. RunsCounted'
  BY <1>1 DEF RunsCounted, Unexecuted
<1> QED  BY <1>5, <1>6, <1>7

(* An attempt that fails while the policy allows it.                       *)
LEMMA FailedAttemptKeepsInv ==
  ASSUME AgentInv, AttemptFails, AttemptsLeft, agentWf \in ActivitySteps,
         UNCHANGED agentRuns, agentFaults' \in 0..MaxAgentFaults
  PROVE  AgentInv'
<1> USE DEF AgentInv, agentFixed
<1>1. agentTries \in Nat /\ agentTries' = agentTries + 1 /\ agentTries' <= AgentAttempts(agentWf)
  BY DEF AttemptFails, AttemptsLeft, AgentAttempts, AgentTypeOK
<1>2. /\ agentCopy' = NoCopy /\ agentWf' = agentWf /\ Unexecuted' = Unexecuted
      /\ UNCHANGED <<agentLate, agentStale, agentRow, agentCreate, agentOrigin, agentOk>>
  BY DEF AttemptFails, Unexecuted
<1>3. AgentTypeOK'
  BY <1>1 DEF AttemptFails, AgentTypeOK, AgentAttempts
<1>4. OriginDecides' /\ ReadsLegal' /\ FailedStays'
  BY <1>2 DEF OriginDecides, ReadsLegal, Legal, FailedStays, NoCopy, AgentStatuses
<1>5. CopyHeld'
  BY <1>1, <1>2 DEF CopyHeld, AgentAttempts, NoCopy, Executed
<1>6. RunsCounted'
  <2>1. agentWf = "loop" => agentRuns + Cardinality(Unexecuted) <= agentTries + 1
    BY UnexecutedFinite DEF RunsCounted, AgentTypeOK
  <2> QED  BY <1>1, <1>2, <2>1 DEF RunsCounted
<1> QED  BY <1>3, <1>4, <1>5, <1>6

LEMMA ReadRunKeepsInv ==
  ASSUME AgentInv, ReadRun
  PROVE  AgentInv'
<1> USE DEF AgentInv, agentFixed
<1>1. AttemptsLeft /\ agentWf \in ActivitySteps /\ MayRead(agentWf, agentCopy)
      /\ UNCHANGED <<agentRuns, agentFaults>>
  BY DEF ReadRun
<1>2. CASE <<agentRow, Target(agentWf, agentOk)>> \in AgentTransitions
  <2>1. /\ agentCopy' = agentRow
        /\ UNCHANGED <<agentOrigin, agentNests, agentCreate, agentRow, agentWf, agentTries>>
        /\ UNCHANGED <<agentOk, agentLate, agentStale, agentSignal, agentCancel>>
    BY <1>2 DEF ReadRun
  <2>2. agentRow \in AgentStatuses
    BY <1>2, TransitionsTyped
  <2>3. AgentTypeOK'
    BY <1>1, <2>1, <2>2 DEF AgentTypeOK
  <2>4. agentStale \/ agentWf # "report"
    BY <1>2, TransitionsTyped DEF FailedStays, Target
  <2>5. agentOrigin # "api"
    BY <1>1, <1>2, TransitionsTyped DEF OriginDecides, Target, ActivitySteps, LifecycleSteps
  <2>6. OriginDecides' /\ FailedStays'
    BY <1>1, <2>1, <2>4, <2>5 DEF OriginDecides, FailedStays, ActivitySteps, LifecycleSteps
  <2>7. ReadsLegal'
    BY <1>2, <2>1 DEF ReadsLegal, Legal
  <2>8. CopyHeld'
    BY <1>1, <2>1, <2>2 DEF CopyHeld, AgentStatuses, Executed, AttemptsLeft, AgentAttempts
  <2>9. RunsCounted'
    <3>1. agentCopy # NoCopy \/ agentWf # "loop"
      BY <1>1 DEF MayRead, Executed, NoCopy
    <3>2. agentCopy' # NoCopy /\ Unexecuted' = Unexecuted
      BY <2>1, <2>2 DEF NoCopy, AgentStatuses, Unexecuted
    <3> QED  BY <1>1, <2>1, <3>1, <3>2 DEF RunsCounted
  <2> QED  BY <2>3, <2>6, <2>7, <2>8, <2>9
<1>3. CASE <<agentRow, Target(agentWf, agentOk)>> \notin AgentTransitions
  <2>1. AttemptFails
    BY <1>3 DEF ReadRun
  <2> QED  BY <1>1, <2>1, FailedAttemptKeepsInv DEF AgentTypeOK
<1> QED  BY <1>2, <1>3

LEMMA LoopKeepsInv ==
  ASSUME AgentInv, NEW ok \in BOOLEAN, ExecuteLoop(ok)
  PROVE  AgentInv'
<1> USE DEF AgentInv, agentFixed
<1>1. agentWf = "loop" /\ AttemptsLeft /\ agentCopy = NoCopy /\ UNCHANGED agentFaults
  BY DEF ExecuteLoop
<1>2. CASE agentNests
  <2>1. /\ agentCopy' = Executed /\ agentOk' = ok /\ agentRuns' = agentRuns + 1
        /\ UNCHANGED <<agentOrigin, agentNests, agentCreate, agentRow, agentWf, agentTries>>
        /\ UNCHANGED <<agentLate, agentStale, agentSignal, agentCancel>>
    BY <1>2 DEF ExecuteLoop
  <2>2. PICK u : u = Cardinality(Unexecuted)
    OBVIOUS
  <2>3. /\ agentTries \in Nat /\ agentRuns \in Nat /\ agentTries < 2 /\ u \in Nat
        /\ agentRuns + u <= agentTries
    BY <1>1, <2>2, UnexecutedFinite DEF AgentTypeOK, AttemptsLeft, AgentAttempts, RunsCounted
  <2>4. AgentTypeOK'
    BY <1>1, <2>1, <2>3 DEF AgentTypeOK
  <2>5. OriginDecides' /\ FailedStays' /\ ReadsLegal'
    BY <1>1, <2>1 DEF OriginDecides, FailedStays, ReadsLegal, Legal, Executed, AgentStatuses
  <2>6. CopyHeld'
    BY <1>1, <2>1, <2>3 DEF CopyHeld, AttemptsLeft, AgentAttempts, Executed, ActivitySteps
  <2>7. RunsCounted'
    <3>1. Unexecuted' = Unexecuted /\ agentCopy' # NoCopy
      BY <2>1 DEF Unexecuted, Executed, NoCopy
    <3>2. agentRuns + 1 + u <= agentTries + 1 /\ agentRuns + 1 + u <= 2
      BY <2>3
    <3> QED  BY <1>1, <2>1, <2>2, <3>1, <3>2 DEF RunsCounted
  <2> QED  BY <2>4, <2>5, <2>6, <2>7
<1>3. CASE ~agentNests
  BY <1>1, <1>3, FailedAttemptKeepsInv DEF ExecuteLoop, AgentTypeOK, ActivitySteps
<1> QED  BY <1>2, <1>3 DEF AgentTypeOK

LEMMA CommitKeepsInv ==
  ASSUME AgentInv, CommitRun
  PROVE  AgentInv'
<1> USE DEF AgentInv, agentFixed, agentLateVars
<1>1. /\ agentCopy # NoCopy /\ agentWf \in ActivitySteps /\ AttemptsLeft
      /\ agentOrigin # "api" /\ (agentStale \/ agentWf # "report")
  BY DEF CommitRun, CopyHeld, OriginDecides, FailedStays, AgentStatuses, NoCopy
<1>2. /\ agentRow' = Target(agentWf, agentOk) /\ agentCopy' = NoCopy /\ Unexecuted' = Unexecuted
      /\ UNCHANGED <<agentOrigin, agentNests, agentCreate, agentOk, agentSignal, agentCancel>>
      /\ UNCHANGED <<agentLate, agentRuns, agentStale>>
  BY DEF CommitRun, Unexecuted
<1>3. agentRow' \in AgentStatuses
  BY <1>1, <1>2, TargetTyped DEF AgentTypeOK
<1>4. PICK u : u = Cardinality(Unexecuted)
  OBVIOUS
<1>5. /\ agentTries \in Nat /\ agentTries + 1 <= AgentAttempts(agentWf) /\ agentRuns \in Nat
      /\ u \in Nat /\ agentRuns + u <= 2 /\ agentTries \in 0..3
      /\ agentWf = "loop" => agentRuns + u <= agentTries + 1
  BY <1>1, <1>4, UnexecutedFinite DEF AttemptsLeft, AgentAttempts, AgentTypeOK, RunsCounted
<1>6. ReadsLegal'
  BY <1>2 DEF ReadsLegal, Legal, NoCopy, AgentStatuses
<1>7. CASE agentWf' = AfterStep(agentWf) /\ agentTries' = 0 /\ UNCHANGED agentFaults
  <2>1. agentWf' \in {"start", "cancel", "loop", "cancelled", "completed", "report", "failed"}
    BY <1>1, <1>7 DEF AfterStep, ActivitySteps, LifecycleSteps
  <2>2. AgentTypeOK'
    BY <1>2, <1>3, <1>7, <2>1 DEF AgentTypeOK, ActivitySteps, LifecycleSteps
  <2>3. OriginDecides'
    BY <1>1, <1>2, <2>1 DEF OriginDecides, ActivitySteps, LifecycleSteps
  <2>4. FailedStays'
    BY <1>1, <1>2, <1>7, <2>1 DEF FailedStays, AfterStep, Target, ActivitySteps, LifecycleSteps
  <2>5. CopyHeld'
    BY <1>2, <1>7 DEF CopyHeld, NoCopy, Executed
  <2>6. RunsCounted'
    <3>1. agentWf' \in {"start", "cancel", "loop", "cancelled"} => agentRuns = 0 /\ Unexecuted = {}
      BY <1>1, <1>7 DEF RunsCounted, AfterStep, ActivitySteps, LifecycleSteps
    <3>2. Unexecuted = {} => u = 0
      BY <1>4, FS_EmptySet
    <3> QED  BY <1>2, <1>4, <1>5, <1>7, <2>1, <3>1, <3>2 DEF RunsCounted
  <2> QED  BY <1>6, <2>2, <2>3, <2>4, <2>5, <2>6
<1>8. CASE AgentFault /\ agentTries' = agentTries + 1 /\ UNCHANGED agentWf
  <2>1. AgentTypeOK'
    BY <1>2, <1>3, <1>5, <1>8, FaultTyped DEF AgentTypeOK, AgentAttempts
  <2>2. OriginDecides' /\ FailedStays'
    BY <1>1, <1>2, <1>8 DEF OriginDecides, FailedStays, ActivitySteps, LifecycleSteps
  <2>3. CopyHeld'
    BY <1>1, <1>2, <1>5, <1>8 DEF CopyHeld, NoCopy, Executed, AgentAttempts
  <2>4. RunsCounted'
    BY <1>2, <1>4, <1>5, <1>8 DEF RunsCounted
  <2> QED  BY <1>6, <2>1, <2>2, <2>3, <2>4
<1> QED  BY <1>7, <1>8 DEF CommitRun

LEMMA EndKeepsInv ==
  ASSUME AgentInv, LoseAttempt \/ GiveUp
  PROVE  AgentInv'
<1> USE DEF AgentInv, agentFixed, agentAttempt, agentLateVars
<1>1. CASE LoseAttempt
  <2>1. AttemptsLeft /\ agentWf \in ActivitySteps /\ AttemptFails /\ UNCHANGED agentRuns
    BY <1>1 DEF LoseAttempt, CopyHeld
  <2>2. agentFaults' \in 0..MaxAgentFaults
    BY <1>1, FaultTyped DEF LoseAttempt
  <2> QED  BY <2>1, <2>2, FailedAttemptKeepsInv
<1>2. CASE GiveUp
  <2>1. /\ agentWf' = "error" /\ Unexecuted' = Unexecuted
        /\ UNCHANGED <<agentOrigin, agentNests, agentCreate, agentRow, agentTries, agentCopy>>
        /\ UNCHANGED <<agentOk, agentLate, agentRuns, agentStale, agentSignal, agentCancel,
                       agentFaults>>
    BY <1>2 DEF GiveUp, Unexecuted
  <2>2. agentCopy = NoCopy
    BY <1>2 DEF GiveUp, CopyHeld
  <2>3. AgentTypeOK'
    BY <2>1 DEF AgentTypeOK
  <2>4. agentCreate # "idle" /\ agentWf # "idle"
    BY <1>2 DEF GiveUp, OriginDecides, ActivitySteps, LifecycleSteps
  <2>5. OriginDecides' /\ FailedStays' /\ ReadsLegal'
    BY <2>1, <2>2, <2>4 DEF OriginDecides, FailedStays, ReadsLegal, Legal, NoCopy, AgentStatuses
  <2>6. CopyHeld' /\ RunsCounted'
    BY <2>1, <2>2 DEF CopyHeld, RunsCounted, NoCopy, Executed
  <2> QED  BY <2>3, <2>5, <2>6
<1> QED  BY <1>1, <1>2

(* An attempt more that the workflow no longer waits for.                  *)
LEMMA OutliveKeepsInv ==
  ASSUME AgentInv, OutliveTimeout
  PROVE  AgentInv'
<1> USE DEF AgentInv, agentFixed
<1>1. PICK a : a = [no |-> agentFaults', step |-> agentWf, copy |-> agentCopy, ok |-> agentOk]
  OBVIOUS
<1>2. /\ AgentFault /\ agentWf \in ActivitySteps /\ AttemptsLeft
      /\ agentLate' = agentLate \cup {a} /\ agentTries' = agentTries + 1 /\ agentCopy' = NoCopy
      /\ UNCHANGED <<agentOrigin, agentNests, agentCreate, agentRow, agentWf, agentOk>>
      /\ UNCHANGED <<agentRuns, agentStale, agentSignal, agentCancel>>
  BY <1>1 DEF OutliveTimeout
<1>3. a.step = agentWf /\ a.copy = agentCopy /\ a.ok = agentOk
  BY <1>1
<1>4. AgentTypeOK'
  <2>1. a \in [no : 1..MaxAgentFaults, step : ActivitySteps,
               copy : AgentStatuses \cup {NoCopy, Executed}, ok : BOOLEAN]
    BY <1>1, <1>2, FaultTyped DEF AgentTypeOK
  <2>2. agentTries' \in 0..3 /\ agentFaults' \in 0..MaxAgentFaults
    BY <1>2, FaultTyped DEF AttemptsLeft, AgentAttempts, AgentTypeOK
  <2> QED  BY <1>2, <2>1, <2>2 DEF AgentTypeOK
<1>5. OriginDecides' /\ FailedStays'
  BY <1>2, <1>3 DEF OriginDecides, FailedStays, ActivitySteps, LifecycleSteps
<1>6. ReadsLegal'
  BY <1>2, <1>3 DEF ReadsLegal, Legal, NoCopy, AgentStatuses
<1>7. CopyHeld'
  BY <1>2 DEF CopyHeld, AttemptsLeft, AgentAttempts, AgentTypeOK, NoCopy, Executed
<1>8. RunsCounted'
  <2>1. IsFiniteSet(agentLate')
    BY <1>2, FS_AddElement DEF RunsCounted
  <2>2. PICK u, v : u = Cardinality(Unexecuted) /\ v = Cardinality(Unexecuted')
    OBVIOUS
  <2>3. IsFiniteSet(Unexecuted) /\ u \in Nat /\ agentRuns \in Nat /\ agentTries \in Nat
        /\ agentTries < AgentAttempts(agentWf)
    BY <1>2, <2>2, UnexecutedFinite DEF AttemptsLeft, AgentTypeOK
  <2>4. CASE agentWf = "loop" /\ agentCopy = NoCopy
    <3>1. Unexecuted' = Unexecuted \cup {a}
      BY <1>2, <1>3, <2>4 DEF Unexecuted
    <3>2. v \in Nat /\ v <= u + 1
      <4>1. CASE a \in Unexecuted
        <5>1. Unexecuted' = Unexecuted
          BY <3>1, <4>1
        <5> QED  BY <2>2, <2>3, <5>1
      <4>2. CASE a \notin Unexecuted
        <5>1. Cardinality(Unexecuted \cup {a}) = Cardinality(Unexecuted) + 1
          BY <2>3, <4>2, FS_AddElement
        <5> QED  BY <2>2, <2>3, <3>1, <5>1
      <4> QED  BY <4>1, <4>2
    <3>3. agentRuns + u <= agentTries /\ agentTries < 2
      BY <2>2, <2>3, <2>4 DEF RunsCounted, AgentAttempts
    <3>4. agentRuns + v <= agentTries + 1 /\ agentRuns + v <= 2
      BY <2>3, <3>2, <3>3
    <3> QED  BY <1>2, <2>1, <2>2, <2>4, <3>4 DEF RunsCounted
  <2>5. CASE ~(agentWf = "loop" /\ agentCopy = NoCopy)
    <3>1. Unexecuted' = Unexecuted
      BY <1>2, <1>3, <2>5 DEF Unexecuted
    <3> QED  BY <1>2, <2>1, <2>3, <2>5, <3>1 DEF RunsCounted
  <2> QED  BY <2>4, <2>5
<1> QED  BY <1>4, <1>5, <1>6, <1>7, <1>8

(* A late attempt goes on, or is over: nothing the workflow sees changes,  *)
(* and only the beginning of the loop is counted.                          *)
LEMMA LateKeepsInv ==
  ASSUME AgentInv, NEW a \in agentLate,
         (\E ok \in BOOLEAN : LateExecute(a, ok)) \/ LateRead(a)
  PROVE  AgentInv'
<1> USE DEF AgentInv, agentFixed, agentAttempt, lateUnchanged
<1>1. /\ UNCHANGED <<agentOrigin, agentNests, agentCreate, agentRow, agentWf, agentTries>>
      /\ UNCHANGED <<agentCopy, agentOk, agentStale, agentSignal, agentCancel, agentFaults>>
  BY DEF LateExecute, LateRead
<1> DEFINE Types == [no : 1..MaxAgentFaults, step : ActivitySteps,
                     copy : AgentStatuses \cup {NoCopy, Executed}, ok : BOOLEAN]
<1>2. a \in Types
  BY DEF AgentTypeOK
<1>3. \/ agentLate' = agentLate \ {a}
      \/ \E b \in Types : /\ agentLate' = (agentLate \ {a}) \cup {b} /\ b.step = a.step
                          /\ b.copy # NoCopy /\ Legal(b.copy, b.step, b.ok)
                          /\ agentOrigin = "api" => FALSE
  <2>1. ASSUME NEW ok \in BOOLEAN, LateExecute(a, ok), agentNests
        PROVE  \E b \in Types : /\ agentLate' = (agentLate \ {a}) \cup {b} /\ b.step = a.step
                                /\ b.copy # NoCopy /\ Legal(b.copy, b.step, b.ok)
                                /\ agentOrigin = "api" => FALSE
    <3>1. PICK b : b = [a EXCEPT !.copy = Executed, !.ok = ok]
      OBVIOUS
    <3>2. b \in Types /\ b.step = a.step /\ b.copy = Executed
      BY <1>2, <3>1
    <3>3. agentLate' = (agentLate \ {a}) \cup {b} /\ a.step = "loop"
      BY <2>1, <3>1 DEF LateExecute, GoesOn
    <3>4. agentOrigin = "api" => FALSE
      BY <3>3 DEF OriginDecides
    <3> QED  BY <3>2, <3>3, <3>4 DEF Legal, Executed, NoCopy, AgentStatuses
  <2>2. ASSUME LateRead(a), <<agentRow, Target(a.step, a.ok)>> \in AgentTransitions
        PROVE  \E b \in Types : /\ agentLate' = (agentLate \ {a}) \cup {b} /\ b.step = a.step
                                /\ b.copy # NoCopy /\ Legal(b.copy, b.step, b.ok)
                                /\ agentOrigin = "api" => FALSE
    <3>1. PICK b : b = [a EXCEPT !.copy = agentRow]
      OBVIOUS
    <3>2. agentRow \in AgentStatuses
      BY <2>2, TransitionsTyped
    <3>3. b \in Types /\ b.step = a.step /\ b.copy = agentRow /\ b.ok = a.ok
      BY <1>2, <3>1, <3>2
    <3>4. agentLate' = (agentLate \ {a}) \cup {b}
      BY <2>2, <3>1 DEF LateRead, GoesOn
    <3>5. agentOrigin = "api" => FALSE
      BY <2>2, TransitionsTyped DEF OriginDecides, Target
    <3> QED  BY <2>2, <3>2, <3>3, <3>4, <3>5 DEF Legal, NoCopy, AgentStatuses
  <2> QED  BY <2>1, <2>2 DEF LateExecute, LateRead, IsOver
<1>4. agentLate' \subseteq Types
  BY <1>3 DEF AgentTypeOK
<1>5. agentRuns' \in Nat
  <2>1. PICK k : k = agentRuns
    OBVIOUS
  <2>2. k \in Nat /\ (agentRuns' = k \/ agentRuns' = k + 1)
    BY <2>1 DEF LateExecute, LateRead, AgentTypeOK
  <2> QED  BY <2>2
<1>6. AgentTypeOK'
  BY <1>1, <1>4, <1>5 DEF AgentTypeOK
<1>7. OriginDecides'
  <2>1. agentOrigin = "api" => agentLate' \subseteq agentLate
    BY <1>3
  <2>2. agentOrigin = "api" => agentRuns' = agentRuns
    BY DEF LateExecute, LateRead, OriginDecides
  <2>3. agentWf # "idle"
    BY DEF OriginDecides
  <2> QED  BY <1>1, <2>1, <2>2, <2>3 DEF OriginDecides
<1>8. ReadsLegal'
  BY <1>1, <1>3 DEF ReadsLegal
<1>9. FailedStays' /\ CopyHeld'
  BY <1>1 DEF FailedStays, CopyHeld, AttemptsLeft, AgentAttempts
<1>10. RunsCounted'
  <2>1. IsFiniteSet(agentLate')
    <3>1. IsFiniteSet(agentLate \ {a})
      BY FS_RemoveElement DEF RunsCounted
    <3> QED  BY <1>3, <3>1, FS_AddElement
  <2>2. Unexecuted' = Unexecuted \ {a}
    BY <1>3 DEF Unexecuted
  <2>3. PICK u, v : u = Cardinality(Unexecuted) /\ v = Cardinality(Unexecuted')
    OBVIOUS
  <2>4. IsFiniteSet(Unexecuted) /\ u \in Nat /\ agentRuns \in Nat /\ agentTries \in Nat
    BY <2>3, UnexecutedFinite DEF AgentTypeOK
  <2>5. v \in Nat /\ v <= u /\ (a \in Unexecuted => v = u - 1)
    <3>1. CASE a \in Unexecuted
      <4>1. Cardinality(Unexecuted \ {a}) = Cardinality(Unexecuted) - 1 /\ u > 0
        BY <2>3, <2>4, <3>1, FS_RemoveElement, FS_EmptySet
      <4> QED  BY <2>2, <2>3, <2>4, <4>1
    <3>2. CASE a \notin Unexecuted
      <4>1. Unexecuted' = Unexecuted
        BY <2>2, <3>2
      <4> QED  BY <2>3, <2>4, <3>2, <4>1
    <3> QED  BY <3>1, <3>2
  <2>6. agentRuns' = agentRuns \/ (agentRuns' = agentRuns + 1 /\ a \in Unexecuted)
    BY DEF LateExecute, LateRead, Unexecuted
  <2>7. agentRuns' + v <= agentRuns + u /\ agentRuns' \in Nat
    BY <2>4, <2>5, <2>6
  <2>8. Unexecuted = {} => Unexecuted' = {} /\ agentRuns' = agentRuns
    BY <2>2, <2>6
  <2>9. /\ agentWf = "loop" => agentRuns + u <= agentTries + (IF agentCopy = NoCopy THEN 0 ELSE 1)
        /\ agentRuns + u <= 2
    BY <2>3 DEF RunsCounted
  <2>10. /\ agentWf = "loop" => agentRuns' + v <= agentTries + (IF agentCopy = NoCopy THEN 0 ELSE 1)
         /\ agentRuns' + v <= 2
    <3>1. PICK k, l, n, w : /\ k = agentRuns /\ l = agentRuns' /\ n = agentTries
                            /\ w = (IF agentCopy = NoCopy THEN 0 ELSE 1)
      OBVIOUS
    <3>2. k \in Nat /\ l \in Nat /\ n \in Nat /\ u \in Nat /\ v \in Nat /\ w \in Nat
          /\ l + v <= k + u
      BY <2>4, <2>5, <2>7, <3>1
    <3>3. (agentWf = "loop" => k + u <= n + w) /\ k + u <= 2
      BY <2>9, <3>1
    <3>4. (agentWf = "loop" => l + v <= n + w) /\ l + v <= 2
      BY <3>2, <3>3
    <3> QED  BY <3>1, <3>4
  <2> QED  BY <1>1, <2>1, <2>3, <2>8, <2>10 DEF RunsCounted
<1> QED  BY <1>6, <1>7, <1>8, <1>9, <1>10

(* A late attempt commits: over what it has read, and then as its activity *)
(* may, or over something else.                                            *)
LEMMA LateCommitKeepsInv ==
  ASSUME AgentInv, NEW a \in agentLate, LateCommit(a)
  PROVE  AgentInv'
<1> USE DEF AgentInv, agentFixed, agentAttempt, lateUnchanged
<1>1. /\ UNCHANGED <<agentOrigin, agentNests, agentCreate, agentWf, agentTries, agentRuns>>
      /\ UNCHANGED <<agentCopy, agentOk, agentSignal, agentCancel, agentFaults>>
      /\ agentLate' = agentLate \ {a} /\ agentRow' = Target(a.step, a.ok)
      /\ a.copy \in AgentStatuses
  BY DEF LateCommit, IsOver
<1>2. agentStale' \in BOOLEAN /\ (~agentStale' => ~agentStale /\ a.copy = agentRow)
  BY DEF LateCommit, AgentTypeOK
<1>3. agentRow' \in AgentStatuses
  BY <1>1, TargetTyped DEF AgentTypeOK
<1>4. AgentTypeOK'
  BY <1>1, <1>2, <1>3 DEF AgentTypeOK
<1>5. agentOrigin # "api"
  BY <1>1 DEF OriginDecides, NoCopy, AgentStatuses
<1>6. OriginDecides' /\ ReadsLegal' /\ CopyHeld'
  BY <1>1, <1>5 DEF OriginDecides, ReadsLegal, CopyHeld, AttemptsLeft, AgentAttempts
<1>7. FailedStays'
  <2>1. ~agentStale' => <<agentRow, agentRow'>> \in AgentTransitions
    BY <1>1, <1>2 DEF ReadsLegal, Legal
  <2> QED  BY <1>1, <1>2, <2>1, TransitionsTyped DEF FailedStays
<1>8. RunsCounted'
  <2>1. Unexecuted' = Unexecuted
    BY <1>1 DEF Unexecuted, NoCopy, AgentStatuses
  <2>2. IsFiniteSet(agentLate')
    BY <1>1, FS_RemoveElement DEF RunsCounted
  <2> QED  BY <1>1, <2>1, <2>2 DEF RunsCounted
<1> QED  BY <1>4, <1>6, <1>7, <1>8

LEMMA AgentStepInv == AgentInv /\ [AgentNext]_agentVars => AgentInv'
<1> SUFFICES ASSUME AgentInv, [AgentNext]_agentVars PROVE AgentInv'
  OBVIOUS
<1>1. CASE UNCHANGED agentVars
  BY <1>1 DEF agentVars, agentFixed, agentAttempt, agentLateVars, AgentInv, AgentTypeOK,
              OriginDecides, ReadsLegal, Legal, FailedStays, CopyHeld, RunsCounted, Unexecuted,
              AttemptsLeft, AgentAttempts
<1>2. CASE AgentNext
  BY <1>2, CreationKeepsInv, CancelKeepsInv, ReadRunKeepsInv, LoopKeepsInv, CommitKeepsInv,
     EndKeepsInv, OutliveKeepsInv, LateKeepsInv, LateCommitKeepsInv DEF AgentNext
<1> QED  BY <1>1, <1>2

LEMMA AgentAlways == AgentSpec => []AgentInv
BY AgentInitInv, AgentStepInv, PTL DEF AgentSpec

(* The variables of the agent run model keep their types.                  *)
THEOREM AgentTyped == AgentSpec => []AgentTypeOK
<1>1. AgentInv => AgentTypeOK
  BY DEF AgentInv
<1> QED  BY <1>1, AgentAlways, PTL

(* For any number of cancel requests, late attempts and other faults the   *)
(* workflow returns "failed" only after a late attempt's merge wrote over  *)
(* a status it had not read.                                               *)
THEOREM FailureNeedsStaleWrite == AgentSpec => []FailureReportNeedsStaleWrite
<1>1. AgentInv => FailureReportNeedsStaleWrite
  BY DEF AgentInv, FailedStays, FailureReportNeedsStaleWrite
<1> QED  BY <1>1, AgentAlways, PTL

(* The loop runs twice at most, whatever outlives its timeout.             *)
THEOREM ExecutionsStayBounded == AgentSpec => []ExecutionsBounded
<1>1. AgentInv => ExecutionsBounded
  <2> SUFFICES ASSUME AgentInv PROVE agentRuns <= 2
    BY DEF ExecutionsBounded
  <2>1. PICK u : u = Cardinality(Unexecuted)
    OBVIOUS
  <2>2. u \in Nat /\ agentRuns \in Nat /\ agentRuns + u <= 2
    BY <2>1, UnexecutedFinite DEF AgentInv, AgentTypeOK, RunsCounted
  <2> QED  BY <2>2
<1> QED  BY <1>1, AgentAlways, PTL

(* That a run the API creates is not executed does not depend on the order *)
(* in which its request's commit and the workflow's attempts come: it is   *)
(* so in every behaviour.                                                  *)
THEOREM ApiRunsNeverExecute == AgentSpec => [](agentOrigin = "api" => agentRuns = 0)
<1>1. AgentInv => (agentOrigin = "api" => agentRuns = 0)
  BY DEF AgentInv, OriginDecides
<1> QED  BY <1>1, AgentAlways, PTL

-----------------------------------------------------------------------------
(* The pipeline orchestrator: Orchestrator. *)

Resumed == OrchExecutions \ {1}
First == orchExec[1]

(* A resumed execution is refused its start: by then the run has left      *)
(* QUEUED for good.                                                        *)
ResumedRefused ==
  \A x \in Resumed :
    /\ orchExec[x].at \in {"idle", "plan", "done", "raised"}
    /\ ~orchShared /\ orchExec[x].at = "plan" => orchExec[x].run.status = "running"
QueuedFirst ==
  First.at = "idle" \/ orchRow.status \in {"created", "queued"} =>
    \A x \in Resumed : orchExec[x].at = "idle"

(* What the first execution counts is what it was answered, once per item. *)
AnswersCounted ==
  /\ First.counted = First.answered /\ First.answered <= First.item
  /\ First.item <= orchItems
  /\ First.at \in {"idle", "plan"} => First.item = 0
  /\ First.at = "invoke" => First.item < orchItems

(* The run that the first execution completes is of the size of the plan.  *)
SizeKept ==
  First.at \in {"invoke", "score", "finish"} =>
    /\ RunOf(1).total = orchItems
    /\ ~orchShared => First.run.status = "running"

OrchInv ==
  /\ OrchTypeOK /\ ResumedRefused /\ QueuedFirst /\ AnswersCounted /\ SizeKept
  /\ CompletedMeansAnswered

LEMMA FirstExecution == 1 \in OrchExecutions
BY OrchestratorAssumption DEF OrchExecutions

(* The state machine, as far as the argument needs it.                     *)
LEMMA Transitions ==
  ASSUME NEW run \in Runs
  PROVE  /\ \A n \in Nat : CanStart(run, n) => run.status = "queued"
         /\ CanFail(run) => run.status \in {"starting", "running", "cancelling", "failed"}
         /\ CanComplete(run) => run.status = "completed" \/ run.completed >= run.total
         /\ Queue(run) \in Runs /\ Queue(run).status \in {run.status, "queued"}
         /\ Queue(run).status = "completed" => run.status = "completed"
         /\ Queue(run).total = run.total
<1>1. \A n \in Nat : CanStart(run, n) => run.status = "queued"
  BY DEF CanStart, CanTransition, ValidTransitions, TerminalStatuses, Runs, MoveTo
<1>2. CanFail(run) => run.status \in {"starting", "running", "cancelling", "failed"}
  BY DEF CanFail, CanTransition, ValidTransitions, TerminalStatuses
<1>3. CanComplete(run) => run.status = "completed" \/ run.completed >= run.total
  BY DEF CanComplete, CanTransition, ValidTransitions, TerminalStatuses, GuardsPass,
         NeedsAllItems, NeedsAllItemsOrForce, AllItemsCompleted
<1>4. /\ Queue(run) \in Runs /\ Queue(run).status \in {run.status, "queued"}
      /\ Queue(run).status = "completed" => run.status = "completed"
      /\ Queue(run).total = run.total
  BY DEF Queue, MoveTo, Runs, RunStatuses
<1> QED  BY <1>1, <1>2, <1>3, <1>4

LEMMA MoveTyped ==
  ASSUME NEW run \in Runs, NEW target \in RunStatuses
  PROVE  /\ MoveTo(run, target) \in Runs /\ MoveTo(run, target).status = target
         /\ MoveTo(run, target).total = run.total
BY DEF MoveTo, Runs

LEMMA OrchInitInv == OrchInit => OrchInv
<1> SUFFICES ASSUME OrchInit PROVE OrchInv
  OBVIOUS
<1>1. NewRun \in Runs /\ NewRun.status = "created"
  BY DEF NewRun, Runs, RunStatuses
<1>2. /\ orchItems \in Nat
      /\ orchExec = [x \in OrchExecutions |->
           [at |-> "idle", run |-> NewRun, item |-> 0, answered |-> 0, counted |-> 0]]
      /\ orchRow = NewRun
  BY OrchestratorAssumption DEF OrchInit
<1>3. OrchTypeOK
  <2>1. orchShared \in BOOLEAN /\ orchCheckpoint \in BOOLEAN
    BY DEF OrchInit
  <2>2. orchExec \in [OrchExecutions ->
          [at : OrchPlaces, run : Runs, item : Nat, answered : Nat, counted : Nat]]
    BY <1>1, <1>2 DEF OrchPlaces
  <2> QED  BY <1>1, <1>2, <2>1, <2>2 DEF OrchTypeOK
<1>4. First = [at |-> "idle", run |-> NewRun, item |-> 0, answered |-> 0, counted |-> 0]
  BY <1>2, FirstExecution DEF First
<1>5. ResumedRefused /\ QueuedFirst
  BY <1>2 DEF ResumedRefused, QueuedFirst, Resumed
<1>6. AnswersCounted /\ SizeKept
  BY <1>2, <1>4 DEF AnswersCounted, SizeKept
<1>7. CompletedMeansAnswered
  BY <1>1, <1>2 DEF CompletedMeansAnswered
<1> QED  BY <1>3, <1>5, <1>6, <1>7 DEF OrchInv

(* Facts about the state before a step.                                    *)
LEMMA OrchTyped ==
  ASSUME OrchInv, NEW x \in OrchExecutions
  PROVE  /\ RunOf(x) \in Runs /\ orchRow \in Runs /\ orchItems \in Nat
         /\ orchExec[x].item \in Nat /\ orchExec[x].answered \in Nat
         /\ orchExec[x].counted \in Nat
BY DEF OrchInv, OrchTypeOK, RunOf

(* A command writes the row and nothing else.                              *)
LEMMA CommandKeepsInv ==
  ASSUME OrchInv, NEW run \in Runs, CommandRun(run), run.total = orchRow.total,
         run.status \notin {"created", "queued", "completed"}
  PROVE  OrchInv'
<1> USE DEF OrchInv, CommandRun
<1>1. OrchTypeOK'
  BY DEF OrchTypeOK
<1>2. ResumedRefused' /\ QueuedFirst' /\ AnswersCounted'
  BY DEF ResumedRefused, QueuedFirst, AnswersCounted, First
<1>3. SizeKept'
  BY DEF SizeKept, First, RunOf
<1>4. CompletedMeansAnswered'
  BY DEF CompletedMeansAnswered
<1> QED  BY <1>1, <1>2, <1>3, <1>4

LEMMA CommandsKeepInv ==
  ASSUME OrchInv, PauseCommand \/ WriteCheckpoint \/ \E force \in BOOLEAN : CancelCommand(force)
  PROVE  OrchInv'
<1>0. orchRow \in Runs
  BY DEF OrchInv, OrchTypeOK
<1>1. CASE PauseCommand
  <2>1. MoveTo(orchRow, "paused") \in Runs /\ MoveTo(orchRow, "paused").status = "paused"
        /\ MoveTo(orchRow, "paused").total = orchRow.total
    BY <1>0, MoveTyped DEF RunStatuses
  <2> QED  BY <1>1, <2>1, CommandKeepsInv DEF PauseCommand
<1>2. CASE WriteCheckpoint
  BY <1>2 DEF WriteCheckpoint, OrchInv, OrchTypeOK, ResumedRefused, QueuedFirst,
     AnswersCounted, SizeKept, CompletedMeansAnswered, First, RunOf
<1>3. ASSUME NEW force \in BOOLEAN, CancelCommand(force)
      PROVE  OrchInv'
  <2>1. /\ Cancel(orchRow, force) \in Runs /\ Cancel(orchRow, force).total = orchRow.total
        /\ Cancel(orchRow, force).status \in {"cancelled", "cancelling"}
    BY <1>0, MoveTyped DEF Cancel, CancelTarget, RunStatuses
  <2> QED  BY <1>3, <2>1, CommandKeepsInv DEF CancelCommand
<1> QED  BY <1>1, <1>2, <1>3

(* A step of a resumed execution.                                          *)
LEMMA ResumedKeepsInv ==
  ASSUME OrchInv, NEW x \in Resumed,
         \/ PlanRaises(x) \/ StartExecution(x) \/ ScoreStages(x) \/ Finalize(x)
         \/ ResumeCommand(x)
         \/ \E ok \in BOOLEAN : InvokeStep(x, ok)
  PROVE  OrchInv'
<1> USE DEF OrchInv
<1>0. x \in OrchExecutions /\ x # 1 /\ 1 \in OrchExecutions
  BY FirstExecution DEF Resumed
<1>1. orchExec[x].at \in {"idle", "plan", "done", "raised"}
  BY DEF ResumedRefused
<1>2. CASE ResumeCommand(x)
  <2>1. orchRow \in Runs /\ orchRow.status = "paused" /\ orchExec[x].at = "idle"
    BY <1>2 DEF ResumeCommand, OrchTypeOK
  <2> DEFINE run == MoveTo(orchRow, "running")
  <2>2. run \in Runs /\ run.status = "running" /\ run.total = orchRow.total
    BY <2>1, MoveTyped DEF RunStatuses
  <2>3. /\ orchRow' = run
        /\ orchExec' = [orchExec EXCEPT ![x].at = "plan", ![x].run = run]
        /\ UNCHANGED <<orchShared, orchItems, orchCheckpoint>>
    BY <1>2 DEF ResumeCommand, MoveAndSave
  <2> HIDE DEF run
  <2>4. /\ orchExec'[x].at = "plan" /\ orchExec'[x].run = run
        /\ \A y \in OrchExecutions : y # x => orchExec'[y] = orchExec[y]
    BY <1>0, <2>3 DEF OrchTypeOK
  <2>5. OrchTypeOK'
    BY <2>2, <2>3 DEF OrchTypeOK, OrchPlaces
  <2>6. First.at # "idle"
    <3>1. x - 1 \in OrchExecutions /\ orchExec[x - 1].at # "idle"
      BY <1>0, <1>2, OrchestratorAssumption DEF ResumeCommand, OrchExecutions
    <3> QED  BY <3>1 DEF QueuedFirst, Resumed, First
  <2>7. ResumedRefused' /\ QueuedFirst'
    BY <1>0, <2>2, <2>3, <2>4, <2>6 DEF ResumedRefused, QueuedFirst, First, Resumed
  <2>8. AnswersCounted' /\ SizeKept' /\ CompletedMeansAnswered'
    BY <1>0, <2>2, <2>3, <2>4 DEF AnswersCounted, SizeKept, CompletedMeansAnswered, First, RunOf
  <2> QED  BY <2>5, <2>7, <2>8
<1>3. CASE PlanRaises(x) \/ StartExecution(x)
  <2>1. orchExec[x].at = "plan"
    BY <1>3 DEF PlanRaises, StartExecution
  <2>2. orchRow.status \notin {"created", "queued"} /\ First.at # "idle"
    BY <2>1 DEF QueuedFirst
  <2>3. RunOf(x).status # "queued" /\ RunOf(x) \in Runs /\ orchItems \in Nat
    BY <1>0, <2>1, <2>2, OrchTyped DEF RunOf, ResumedRefused
  <2>4. FailExecution(x)
    BY <1>3, <2>3, Transitions DEF PlanRaises, StartExecution
  <2>5. CASE CanFail(RunOf(x))
    <3> DEFINE run == Fail(RunOf(x))
    <3>1. run \in Runs /\ run.status = "failed" /\ run.total = RunOf(x).total
      BY <2>3, MoveTyped DEF Fail, RunStatuses
    <3>2. /\ orchRow' = run
          /\ orchExec' = [orchExec EXCEPT ![x].at = "done", ![x].run = run]
          /\ UNCHANGED <<orchShared, orchItems, orchCheckpoint>>
      BY <2>4, <2>5 DEF FailExecution, MoveAndSave
    <3> HIDE DEF run
    <3>3. /\ orchExec'[x].at = "done"
          /\ \A y \in OrchExecutions : y # x => orchExec'[y] = orchExec[y]
      BY <1>0, <3>2 DEF OrchTypeOK
    <3>4. OrchTypeOK'
      BY <3>1, <3>2 DEF OrchTypeOK, OrchPlaces
    <3>5. ResumedRefused' /\ QueuedFirst'
      BY <1>0, <2>2, <3>1, <3>2, <3>3 DEF ResumedRefused, QueuedFirst, First, Resumed
    <3>6. AnswersCounted' /\ SizeKept' /\ CompletedMeansAnswered'
      BY <1>0, <3>1, <3>2, <3>3
         DEF AnswersCounted, SizeKept, CompletedMeansAnswered, First, RunOf
    <3> QED  BY <3>4, <3>5, <3>6
  <2>6. CASE ~CanFail(RunOf(x))
    <3>1. /\ orchExec' = [orchExec EXCEPT ![x].at = "raised"]
          /\ UNCHANGED <<orchShared, orchItems, orchRow, orchCheckpoint>>
      BY <2>4, <2>6 DEF FailExecution
    <3>2. /\ orchExec'[x].at = "raised"
          /\ \A y \in OrchExecutions : y # x => orchExec'[y] = orchExec[y]
      BY <1>0, <3>1 DEF OrchTypeOK
    <3>3. OrchTypeOK'
      BY <3>1 DEF OrchTypeOK, OrchPlaces
    <3>4. ResumedRefused' /\ QueuedFirst'
      BY <1>0, <2>2, <3>1, <3>2 DEF ResumedRefused, QueuedFirst, First, Resumed
    <3>5. AnswersCounted' /\ SizeKept' /\ CompletedMeansAnswered'
      BY <1>0, <3>1, <3>2
         DEF AnswersCounted, SizeKept, CompletedMeansAnswered, First, RunOf
    <3> QED  BY <3>3, <3>4, <3>5
  <2> QED  BY <2>5, <2>6
<1> QED  BY <1>1, <1>2, <1>3 DEF ScoreStages, Finalize, InvokeStep

(* A step of the first execution that changes only its own record, its row *)
(* and its counts.                                                         *)
LEMMA FirstMoves ==
  ASSUME OrchInv, NEW e, NEW written \in Runs,
         e \in [at : OrchPlaces, run : Runs, item : Nat, answered : Nat, counted : Nat],
         orchExec' = [orchExec EXCEPT ![1] = e], orchRow' = written,
         UNCHANGED <<orchShared, orchItems, orchCheckpoint>>,
         e.at # "idle", First.at = "idle" \/ written.status \notin {"created", "queued"}
                        \/ written.status = orchRow.status
  PROVE  OrchTypeOK' /\ ResumedRefused' /\ QueuedFirst' /\ First' = e
<1> USE DEF OrchInv
<1>1. First' = e /\ \A y \in Resumed : orchExec'[y] = orchExec[y]
  BY FirstExecution DEF OrchTypeOK, First, Resumed
<1>2. OrchTypeOK'
  BY DEF OrchTypeOK
<1>3. ResumedRefused'
  BY <1>1 DEF ResumedRefused, Resumed
<1>4. QueuedFirst'
  BY <1>1 DEF QueuedFirst, Resumed
<1> QED  BY <1>1, <1>2, <1>3, <1>4

LEMMA FirstFailsKeepsInv ==
  ASSUME OrchInv, First.at = "plan", FailExecution(1)
  PROVE  OrchInv'
<1> USE DEF OrchInv
<1>0. /\ First \in [at : OrchPlaces, run : Runs, item : Nat, answered : Nat, counted : Nat]
      /\ RunOf(1) \in Runs /\ orchRow \in Runs
  BY FirstExecution, OrchTyped DEF OrchTypeOK, First
<1>1. CASE CanFail(RunOf(1))
  <2> DEFINE run == Fail(RunOf(1))
             e == [First EXCEPT !.at = "done", !.run = run]
  <2>1. run \in Runs /\ run.status = "failed"
    BY <1>0, MoveTyped DEF Fail, RunStatuses
  <2>2. orchRow' = run /\ orchExec' = [orchExec EXCEPT ![1] = e]
        /\ UNCHANGED <<orchShared, orchItems, orchCheckpoint>>
    BY <1>1, FirstExecution DEF FailExecution, MoveAndSave, First, OrchTypeOK
  <2> HIDE DEF run
  <2>3. e \in [at : OrchPlaces, run : Runs, item : Nat, answered : Nat, counted : Nat]
        /\ e.at = "done" /\ e.item = First.item /\ e.answered = First.answered
        /\ e.counted = First.counted
    BY <1>0, <2>1 DEF OrchPlaces
  <2> HIDE DEF e
  <2>4. OrchTypeOK' /\ ResumedRefused' /\ QueuedFirst' /\ First' = e
    BY <2>1, <2>2, <2>3, FirstMoves
  <2>5. AnswersCounted' /\ SizeKept' /\ CompletedMeansAnswered'
    BY <2>1, <2>2, <2>3, <2>4 DEF AnswersCounted, SizeKept, CompletedMeansAnswered
  <2> QED  BY <2>4, <2>5
<1>2. CASE ~CanFail(RunOf(1))
  <2> DEFINE e == [First EXCEPT !.at = "raised"]
  <2>1. orchRow' = orchRow /\ orchExec' = [orchExec EXCEPT ![1] = e]
        /\ UNCHANGED <<orchShared, orchItems, orchCheckpoint>>
    BY <1>2, FirstExecution DEF FailExecution, First, OrchTypeOK
  <2>2. e \in [at : OrchPlaces, run : Runs, item : Nat, answered : Nat, counted : Nat]
        /\ e.at = "raised" /\ e.item = First.item /\ e.answered = First.answered
        /\ e.counted = First.counted
    BY <1>0 DEF OrchPlaces
  <2> HIDE DEF e
  <2>3. OrchTypeOK' /\ ResumedRefused' /\ QueuedFirst' /\ First' = e
    BY <1>0, <2>1, <2>2, FirstMoves
  <2>4. orchRow.status # "completed"
    BY DEF CompletedMeansAnswered, First
  <2>5. AnswersCounted' /\ SizeKept' /\ CompletedMeansAnswered'
    BY <2>1, <2>2, <2>3, <2>4 DEF AnswersCounted, SizeKept, CompletedMeansAnswered
  <2> QED  BY <2>3, <2>5
<1> QED  BY <1>1, <1>2

LEMMA ExecuteKeepsInv ==
  ASSUME OrchInv, ExecuteRun
  PROVE  OrchInv'
<1> USE DEF OrchInv
<1> DEFINE run == Queue(orchRow)
           e == [First EXCEPT !.at = "plan", !.run = run]
<1>0. /\ First \in [at : OrchPlaces, run : Runs, item : Nat, answered : Nat, counted : Nat]
      /\ orchRow \in Runs /\ First.at = "idle"
  BY FirstExecution DEF OrchTypeOK, First, ExecuteRun
<1>1. run \in Runs /\ (run.status = "completed" => orchRow.status = "completed")
  BY <1>0, Transitions
<1>2. orchRow' = run /\ orchExec' = [orchExec EXCEPT ![1] = e]
      /\ UNCHANGED <<orchShared, orchItems, orchCheckpoint>>
  BY FirstExecution DEF ExecuteRun, MoveAndSave, First, OrchTypeOK
<1> HIDE DEF run
<1>3. e \in [at : OrchPlaces, run : Runs, item : Nat, answered : Nat, counted : Nat]
      /\ e.at = "plan" /\ e.item = First.item /\ e.answered = First.answered
      /\ e.counted = First.counted
  BY <1>0, <1>1 DEF OrchPlaces
<1> HIDE DEF e
<1>4. OrchTypeOK' /\ ResumedRefused' /\ QueuedFirst' /\ First' = e
  BY <1>0, <1>1, <1>2, <1>3, FirstMoves
<1>5. orchRow.status # "completed"
  BY <1>0 DEF CompletedMeansAnswered, First
<1>6. AnswersCounted' /\ SizeKept' /\ CompletedMeansAnswered'
  BY <1>0, <1>1, <1>2, <1>3, <1>4, <1>5 DEF AnswersCounted, SizeKept, CompletedMeansAnswered
<1> QED  BY <1>4, <1>6

LEMMA FirstStartsKeepsInv ==
  ASSUME OrchInv, StartExecution(1)
  PROVE  OrchInv'
<1> USE DEF OrchInv
<1>0. /\ First \in [at : OrchPlaces, run : Runs, item : Nat, answered : Nat, counted : Nat]
      /\ RunOf(1) \in Runs /\ orchItems \in Nat /\ First.at = "plan"
  BY FirstExecution, OrchTyped DEF OrchTypeOK, First, StartExecution
<1>1. CASE CanStart(RunOf(1), orchItems)
  <2> DEFINE run == Start(RunOf(1), orchItems)
             place == IF orchItems = 0 THEN "score" ELSE "invoke"
             e == [First EXCEPT !.at = place, !.run = run]
  <2>1. run \in Runs /\ run.status = "running" /\ run.total = orchItems
    BY <1>0 DEF Start, Runs, RunStatuses
  <2>2. orchRow' = run /\ orchExec' = [orchExec EXCEPT ![1] = e]
        /\ UNCHANGED <<orchShared, orchItems, orchCheckpoint>>
    BY <1>1, FirstExecution DEF StartExecution, MoveAndSave, First, OrchTypeOK
  <2> HIDE DEF run
  <2>3. e \in [at : OrchPlaces, run : Runs, item : Nat, answered : Nat, counted : Nat]
        /\ e.at = place /\ e.item = First.item /\ e.answered = First.answered
        /\ e.counted = First.counted /\ e.run = run
    BY <1>0, <2>1 DEF OrchPlaces
  <2> HIDE DEF e
  <2>4. OrchTypeOK' /\ ResumedRefused' /\ QueuedFirst' /\ First' = e
    BY <2>1, <2>2, <2>3, FirstMoves
  <2>5. RunOf(1)' = run
    BY <2>2, <2>3, <2>4 DEF RunOf, First
  <2>6. AnswersCounted'
    BY <1>0, <2>2, <2>3, <2>4 DEF AnswersCounted
  <2>7. SizeKept' /\ CompletedMeansAnswered'
    BY <2>1, <2>2, <2>3, <2>4, <2>5 DEF SizeKept, CompletedMeansAnswered
  <2> QED  BY <2>4, <2>6, <2>7
<1>2. CASE ~CanStart(RunOf(1), orchItems)
  BY <1>0, <1>2, FirstFailsKeepsInv DEF StartExecution
<1> QED  BY <1>1, <1>2

(* The stages touch no row.                                                *)
LEMMA FirstStagesKeepInv ==
  ASSUME OrchInv, ScoreStages(1) \/ \E ok \in BOOLEAN : InvokeStep(1, ok)
  PROVE  OrchInv'
<1> USE DEF OrchInv
<1>0. /\ First \in [at : OrchPlaces, run : Runs, item : Nat, answered : Nat, counted : Nat]
      /\ orchRow \in Runs /\ orchItems \in Nat /\ First.at \in {"score", "invoke"}
  BY FirstExecution DEF OrchTypeOK, First, ScoreStages, InvokeStep
<1>1. orchRow.status # "completed"
  BY <1>0 DEF CompletedMeansAnswered, First
<1>2. SUFFICES ASSUME NEW e,
        e \in [at : OrchPlaces, run : Runs, item : Nat, answered : Nat, counted : Nat],
        orchExec' = [orchExec EXCEPT ![1] = e], e.run = First.run,
        UNCHANGED <<orchShared, orchItems, orchRow, orchCheckpoint>>,
        e.at \in {"invoke", "score", "finish"}, e.counted = e.answered, e.answered <= e.item,
        e.item <= orchItems, e.at = "invoke" => e.item < orchItems
      PROVE OrchInv'
  <2>1. CASE ScoreStages(1)
    <3> DEFINE e == [First EXCEPT !.at = "finish"]
    <3>1. orchExec' = [orchExec EXCEPT ![1] = e] /\ First.at = "score"
          /\ UNCHANGED <<orchShared, orchItems, orchRow, orchCheckpoint>>
      BY <2>1, FirstExecution DEF ScoreStages, First, OrchTypeOK
    <3>2. e \in [at : OrchPlaces, run : Runs, item : Nat, answered : Nat, counted : Nat]
          /\ e.run = First.run /\ e.at = "finish" /\ e.counted = First.counted
          /\ e.answered = First.answered /\ e.item = First.item
      BY <1>0 DEF OrchPlaces
    <3> QED  BY <1>2, <3>1, <3>2 DEF AnswersCounted
  <2>2. ASSUME NEW ok \in BOOLEAN, InvokeStep(1, ok) PROVE OrchInv'
    <3> DEFINE one == IF ok THEN 1 ELSE 0
               place == IF First.item + 1 = orchItems THEN "score" ELSE "invoke"
               e == [at |-> place, run |-> First.run, item |-> First.item + 1,
                     answered |-> First.answered + one, counted |-> First.counted + one]
    <3>1. orchExec' = [orchExec EXCEPT ![1] = e] /\ First.at = "invoke"
          /\ UNCHANGED <<orchShared, orchItems, orchRow, orchCheckpoint>>
      BY <2>2 DEF InvokeStep, First
    <3>2. First.counted = First.answered /\ First.answered <= First.item
          /\ First.item < orchItems
      BY <1>0, <3>1 DEF AnswersCounted
    <3>3. one \in Nat /\ one <= 1
      OBVIOUS
    <3>4. place \in OrchPlaces /\ place \in {"invoke", "score"}
          /\ (place = "invoke" => First.item + 1 # orchItems)
      BY DEF OrchPlaces
    <3> HIDE DEF one, place
    <3>5. /\ e.run = First.run /\ e.at = place /\ e.counted = First.counted + one
          /\ e.answered = First.answered + one /\ e.item = First.item + 1
      BY <1>0
    <3>6. e \in [at : OrchPlaces, run : Runs, item : Nat, answered : Nat, counted : Nat]
      <4>1. /\ First.item + 1 \in Nat /\ First.answered + one \in Nat
            /\ First.counted + one \in Nat
        BY <1>0, <3>3
      <4> QED  BY <1>0, <3>4, <4>1
    <3> HIDE DEF e
    <3>7. /\ e.counted = e.answered /\ e.answered <= e.item /\ e.item <= orchItems
          /\ (e.at = "invoke" => e.item < orchItems)
      BY <1>0, <3>2, <3>3, <3>4, <3>5
    <3> QED  BY <1>2, <3>1, <3>4, <3>5, <3>6, <3>7
  <2> QED  BY <2>1, <2>2
<1>3. OrchTypeOK' /\ ResumedRefused' /\ QueuedFirst' /\ First' = e
  BY <1>0, <1>2, FirstMoves
<1>4. AnswersCounted'
  BY <1>2, <1>3 DEF AnswersCounted
<1>5. SizeKept'
  <2>1. RunOf(1)' = RunOf(1)
    BY <1>2, <1>3 DEF RunOf, First
  <2> QED  BY <1>0, <1>2, <1>3, <2>1 DEF SizeKept
<1>6. CompletedMeansAnswered'
  BY <1>1, <1>2 DEF CompletedMeansAnswered
<1> QED  BY <1>3, <1>4, <1>5, <1>6

(* The first execution completes the run only if every item was answered.  *)
LEMMA FinalizeKeepsInv ==
  ASSUME OrchInv, Finalize(1)
  PROVE  OrchInv'
<1> USE DEF OrchInv
<1> DEFINE counted == [RunOf(1) EXCEPT !.completed = First.counted]
<1>0. /\ First \in [at : OrchPlaces, run : Runs, item : Nat, answered : Nat, counted : Nat]
      /\ RunOf(1) \in Runs /\ orchRow \in Runs /\ orchItems \in Nat /\ First.at = "finish"
  BY FirstExecution, OrchTyped DEF OrchTypeOK, First, Finalize
<1>1. orchRow.status # "completed"
  BY <1>0 DEF CompletedMeansAnswered, First
<1>2. /\ counted \in Runs /\ counted.status = RunOf(1).status
      /\ counted.completed = First.counted /\ counted.total = orchItems
  BY <1>0 DEF Runs, SizeKept
<1>3. counted.status # "completed"
  BY <1>0, <1>1, <1>2 DEF SizeKept, RunOf, First
<1>4. CASE CanComplete(counted)
  <2> DEFINE run == Complete(counted)
             e == [First EXCEPT !.at = "done", !.run = run]
  <2>1. run \in Runs /\ run.status = "completed"
    BY <1>2, MoveTyped DEF Complete, RunStatuses
  <2>2. First.answered = orchItems
    <3>1. First.counted >= orchItems
      BY <1>2, <1>3, <1>4, Transitions
    <3> QED  BY <1>0, <3>1 DEF AnswersCounted
  <2>3. orchRow' = run /\ orchExec' = [orchExec EXCEPT ![1] = e]
        /\ UNCHANGED <<orchShared, orchItems, orchCheckpoint>>
    BY <1>4, FirstExecution DEF Finalize, MoveAndSave, First, OrchTypeOK
  <2> HIDE DEF run, counted
  <2>4. e \in [at : OrchPlaces, run : Runs, item : Nat, answered : Nat, counted : Nat]
        /\ e.at = "done" /\ e.item = First.item /\ e.answered = First.answered
        /\ e.counted = First.counted
    BY <1>0, <2>1 DEF OrchPlaces
  <2> HIDE DEF e
  <2>5. OrchTypeOK' /\ ResumedRefused' /\ QueuedFirst' /\ First' = e
    BY <2>1, <2>3, <2>4, FirstMoves
  <2>6. AnswersCounted' /\ SizeKept'
    BY <2>3, <2>4, <2>5 DEF AnswersCounted, SizeKept
  <2>7. CompletedMeansAnswered'
    BY <2>2, <2>3, <2>4, <2>5 DEF CompletedMeansAnswered, First
  <2> QED  BY <2>5, <2>6, <2>7
<1>5. CASE ~CanComplete(counted)
  <2> DEFINE written == IF orchShared THEN counted ELSE orchRow
             e == [First EXCEPT !.at = "raised", !.run = counted]
  <2>1. orchRow' = written /\ orchExec' = [orchExec EXCEPT ![1] = e]
        /\ UNCHANGED <<orchShared, orchItems, orchCheckpoint>>
    BY <1>5, FirstExecution DEF Finalize, First, OrchTypeOK
  <2> HIDE DEF counted
  <2>2. e \in [at : OrchPlaces, run : Runs, item : Nat, answered : Nat, counted : Nat]
        /\ e.at = "raised" /\ e.item = First.item /\ e.answered = First.answered
        /\ e.counted = First.counted
    BY <1>0, <1>2 DEF OrchPlaces
  <2> HIDE DEF e
  <2>3. written \in Runs /\ written.status = orchRow.status
    BY <1>0, <1>2 DEF RunOf
  <2> HIDE DEF written
  <2>4. OrchTypeOK' /\ ResumedRefused' /\ QueuedFirst' /\ First' = e
    BY <2>1, <2>2, <2>3, FirstMoves
  <2>5. AnswersCounted' /\ SizeKept' /\ CompletedMeansAnswered'
    BY <1>1, <2>1, <2>2, <2>3, <2>4 DEF AnswersCounted, SizeKept, CompletedMeansAnswered
  <2> QED  BY <2>4, <2>5
<1> QED  BY <1>4, <1>5

LEMMA OrchStepInv == OrchInv /\ [OrchNext]_orchVars => OrchInv'
<1> SUFFICES ASSUME OrchInv, [OrchNext]_orchVars PROVE OrchInv'
  OBVIOUS
<1>1. CASE UNCHANGED orchVars
  BY <1>1 DEF orchVars, OrchInv, OrchTypeOK, ResumedRefused, QueuedFirst, AnswersCounted,
              SizeKept, CompletedMeansAnswered, First, RunOf
<1>2. CASE ExecuteRun
  BY <1>2, ExecuteKeepsInv
<1>3. CASE PauseCommand \/ WriteCheckpoint \/ \E force \in BOOLEAN : CancelCommand(force)
  BY <1>3, CommandsKeepInv
<1>4. ASSUME NEW x \in OrchExecutions,
             \/ PlanRaises(x) \/ StartExecution(x) \/ ScoreStages(x) \/ Finalize(x)
             \/ ResumeCommand(x)
             \/ \E ok \in BOOLEAN : InvokeStep(x, ok)
      PROVE  OrchInv'
  <2>1. CASE x \in Resumed
    BY <1>4, <2>1, ResumedKeepsInv
  <2>2. CASE x = 1
    <3>1. ~ResumeCommand(1)
      BY DEF ResumeCommand
    <3>2. PlanRaises(1) => First.at = "plan" /\ FailExecution(1)
      BY DEF PlanRaises, First
    <3> QED  BY <1>4, <2>2, <3>1, <3>2, FirstFailsKeepsInv, FirstStartsKeepsInv,
             FirstStagesKeepInv, FinalizeKeepsInv
  <2> QED  BY <2>1, <2>2 DEF Resumed
<1> QED  BY <1>1, <1>2, <1>3, <1>4 DEF OrchNext

LEMMA OrchAlways == OrchSpec => []OrchInv
BY OrchInitInv, OrchStepInv, PTL DEF OrchSpec

(* The variables of the orchestrator model keep their types.               *)
THEOREM OrchestratorTyped == OrchSpec => []OrchTypeOK
<1>1. OrchInv => OrchTypeOK
  BY DEF OrchInv
<1> QED  BY <1>1, OrchAlways, PTL

(* For a plan of any size and any number of resumed executions, a run is   *)
(* COMPLETED only by an execution to which the provider answered every     *)
(* item.                                                                   *)
THEOREM CompletionAnswered == OrchSpec => []CompletedMeansAnswered
<1>1. OrchInv => CompletedMeansAnswered
  BY DEF OrchInv
<1> QED  BY <1>1, OrchAlways, PTL

-----------------------------------------------------------------------------
(* The agent loop: AgentLoop. *)

TrailSteps == {"llm", "result", "blank", "answer"}
SentMessages == {"calls", "result", "error"}

LoopTyped ==
  /\ LoopTypeOK
  /\ loopTools \in BOOLEAN /\ loopRecorded \in BOOLEAN /\ loopCancel \in BOOLEAN
  /\ loopLlm \in Nat /\ loopToolRuns \in Nat /\ loopSteps \in Nat /\ loopLate \in Nat
  /\ loopBatch \in Seq({"proper", "malformed"})
  /\ loopSent \in Seq(SentMessages) /\ loopTrail \in Seq(TrailSteps)

(* The one call that may begin late is a tool, and the loop ends after it. *)
LateOnce == loopLate = 0 \/ (loopLate = 1 /\ loopCancel /\ loopAt \in {"tool", "done"})

(* The recorder is behind the loop by the tool that runs, and knows of a   *)
(* completed run only what it was told at the end.                         *)
UnderWay == IF loopAt = "tool" THEN 1 ELSE 0
Followed ==
  loopRecorded =>
    /\ loopStatus = IF loopAt = "done" THEN loopEnd ELSE "completed"
    /\ loopEnd # "failed" =>
         /\ CountOf(loopTrail, {"llm"}) = loopLlm
         /\ CountOf(loopTrail, {"result", "blank"}) + UnderWay = loopToolRuns
         /\ CountOf(loopSent, {"result", "error"}) + UnderWay = loopToolRuns
         /\ CountOf(loopTrail, {"answer"}) = IF loopEnd = "completed" THEN 1 ELSE 0

LoopInv == LoopTyped /\ LateOnce /\ Followed

LEMMA CountOfEmpty == \A kinds : CountOf(<<>>, kinds) = 0
<1> SUFFICES ASSUME NEW kinds PROVE CountOf(<<>>, kinds) = 0
  OBVIOUS
<1>1. {i \in DOMAIN <<>> : <<>>[i] \in kinds} = {}
  OBVIOUS
<1> QED  BY <1>1, FS_EmptySet DEF CountOf

(* One step more counts where it belongs.                                  *)
LEMMA CountOfAppend ==
  ASSUME NEW S, NEW q \in Seq(S), NEW x \in S, NEW kinds
  PROVE  /\ CountOf(Append(q, x), kinds) = CountOf(q, kinds) + (IF x \in kinds THEN 1 ELSE 0)
         /\ CountOf(q, kinds) \in Nat
<1> DEFINE p == Append(q, x)
           C(s) == {i \in DOMAIN s : s[i] \in kinds}
<1>1. /\ p \in Seq(S) /\ Len(p) = Len(q) + 1 /\ Len(q) \in Nat
      /\ \A i \in 1 .. Len(q) : p[i] = q[i]
      /\ p[Len(q) + 1] = x
  BY AppendProperties, LenProperties
<1>2. DOMAIN p = 1 .. Len(p) /\ DOMAIN q = 1 .. Len(q)
  BY <1>1, LenProperties
<1> HIDE DEF p
<1>3. C(p) = IF x \in kinds THEN C(q) \cup {Len(q) + 1} ELSE C(q)
  BY <1>1, <1>2
<1>4. Len(q) + 1 \notin C(q) /\ C(q) \in SUBSET (1 .. Len(q))
  BY <1>1, <1>2
<1>5. IsFiniteSet(C(q)) /\ Cardinality(C(q)) \in Nat
  <2>1. IsFiniteSet(1 .. Len(q))
    BY <1>1, FS_Interval
  <2> HIDE DEF C
  <2> QED  BY <1>4, <2>1, FS_Subset, FS_CardinalityType
<1>6. Cardinality(C(q) \cup {Len(q) + 1}) = Cardinality(C(q)) + 1
  <2> HIDE DEF C
  <2> QED  BY <1>4, <1>5, FS_AddElement
<1>7. CountOf(p, kinds) = Cardinality(C(p)) /\ CountOf(q, kinds) = Cardinality(C(q))
  BY DEF CountOf
<1>8. CountOf(p, kinds) = CountOf(q, kinds) + (IF x \in kinds THEN 1 ELSE 0)
  <2> HIDE DEF C
  <2> QED  BY <1>3, <1>5, <1>6, <1>7
<1>9. CountOf(q, kinds) \in Nat
  <2> HIDE DEF C
  <2> QED  BY <1>5, <1>7
<1> QED  BY <1>8, <1>9 DEF p

LEMMA CountOfType ==
  ASSUME NEW S, NEW q \in Seq(S), NEW kinds
  PROVE  CountOf(q, kinds) \in Nat
<1>1. CASE S = {}
  <2>1. q = <<>>
    BY <1>1, LenProperties, EmptySeq, SeqDef
  <2> QED  BY <2>1, CountOfEmpty
<1>2. CASE S # {}
  BY <1>2, CountOfAppend
<1> QED  BY <1>1, <1>2

LEMMA AnswerAppended ==
  ASSUME NEW q \in Seq(TrailSteps)
  PROVE  q \o <<"llm", "answer">> = Append(Append(q, "llm"), "answer")
<1> DEFINE a == q \o <<"llm", "answer">>
           b == Append(Append(q, "llm"), "answer")
           T == TrailSteps
<1>1. "llm" \in T /\ "answer" \in T
  BY DEF TrailSteps
<1>2. /\ <<"llm", "answer">> \in Seq(T) /\ Len(<<"llm", "answer">>) = 2
      /\ <<"llm", "answer">>[1] = "llm" /\ <<"llm", "answer">>[2] = "answer"
  BY <1>1
<1>3. a \in Seq(T) /\ Len(a) = Len(q) + 2 /\ Len(q) \in Nat
      /\ \A i \in 1 .. Len(q) + 2 : a[i] = IF i <= Len(q) THEN q[i]
                                           ELSE <<"llm", "answer">>[i - Len(q)]
  BY <1>2, ConcatProperties, LenProperties
<1>4. /\ b \in Seq(T) /\ Len(b) = Len(q) + 2
      /\ \A i \in 1 .. Len(q) : b[i] = q[i]
      /\ b[Len(q) + 1] = "llm" /\ b[Len(q) + 2] = "answer"
  <2>1. /\ Append(q, "llm") \in Seq(T) /\ Len(Append(q, "llm")) = Len(q) + 1
        /\ \A i \in 1 .. Len(q) : Append(q, "llm")[i] = q[i]
        /\ Append(q, "llm")[Len(q) + 1] = "llm"
    BY <1>1, AppendProperties
  <2> QED  BY <1>1, <1>3, <2>1, AppendProperties
<1> HIDE DEF a, b
<1>5. \A i \in 1 .. Len(a) : a[i] = b[i]
  <2> SUFFICES ASSUME NEW i \in 1 .. Len(a) PROVE a[i] = b[i]
    OBVIOUS
  <2>1. i \in 1 .. Len(q) \/ i = Len(q) + 1 \/ i = Len(q) + 2
    BY <1>3
  <2> QED  BY <1>2, <1>3, <1>4, <2>1
<1>6. a = b
  BY <1>3, <1>4, <1>5, SeqEqual
<1> QED  BY <1>6 DEF a, b

LEMMA LoopInitInv == LoopInit => LoopInv
<1> SUFFICES ASSUME LoopInit PROVE LoopInv
  OBVIOUS
<1>1. /\ <<>> \in Seq({"proper", "malformed"}) /\ <<>> \in Seq(SentMessages)
      /\ <<>> \in Seq(TrailSteps)
  BY EmptySeq
<1>2. LoopTyped
  BY <1>1 DEF LoopInit, LoopTyped, LoopTypeOK
<1>3. LateOnce
  BY DEF LoopInit, LateOnce
<1>4. Followed
  BY CountOfEmpty DEF LoopInit, Followed, UnderWay
<1> QED  BY <1>2, <1>3, <1>4 DEF LoopInv

(* The loop ends without having done anything more.                        *)
LEMMA EndKeepsLoop ==
  ASSUME LoopInv, loopAt \in {"head", "llm"},
         NEW status \in {"failed", "cancelled", "max_steps_reached"}, End(status),
         UNCHANGED <<loopTools, loopRecorded, loopBatch, loopSent, loopSteps,
                     loopToolRuns, loopCancel, loopLate, loopTrail>>,
         loopLlm' = loopLlm \/ (status = "failed" /\ loopLlm' = loopLlm + 1)
  PROVE  LoopInv'
<1> USE DEF LoopInv, End
<1>1. LoopTyped'
  BY DEF LoopTyped, LoopTypeOK
<1>2. LateOnce'
  BY DEF LateOnce
<1>3. Followed'
  BY DEF Followed, UnderWay, StatusOnEnd, LoopTyped, LoopTypeOK
<1> QED  BY <1>1, <1>2, <1>3

LEMMA AskingKeepsLoop ==
  ASSUME LoopInv, LoopTop \/ ProviderRaises \/ FinalAnswer
  PROVE  LoopInv'
<1> USE DEF LoopInv
<1>1. CASE LoopTop
  <2>1. CASE ~StepsLeft \/ loopCancel
    <3>1. /\ loopAt = "head" /\ loopLlm' = loopLlm
          /\ UNCHANGED <<loopTools, loopRecorded, loopBatch, loopSent, loopSteps,
                         loopToolRuns, loopCancel, loopLate, loopTrail>>
      BY <1>1, <2>1 DEF LoopTop
    <3>2. \E status \in {"failed", "cancelled", "max_steps_reached"} : End(status)
      BY <1>1, <2>1 DEF LoopTop
    <3> QED  BY <3>1, <3>2, EndKeepsLoop
  <2>2. CASE StepsLeft /\ ~loopCancel
    <3>1. /\ loopAt = "head" /\ loopAt' = "llm" /\ loopLate' = loopLate
          /\ UNCHANGED <<loopEnd, loopStatus, loopTools, loopRecorded, loopBatch, loopSent,
                         loopSteps, loopLlm, loopToolRuns, loopCancel, loopTrail>>
      BY <1>1, <2>2 DEF LoopTop, GoOn, Late, LoopTyped
    <3> QED  BY <3>1 DEF LoopTyped, LoopTypeOK, LateOnce, Followed, UnderWay
  <2> QED  BY <2>1, <2>2
<1>2. CASE ProviderRaises
  <2>1. /\ loopAt = "llm" /\ loopLlm' = loopLlm /\ End("failed")
        /\ UNCHANGED <<loopTools, loopRecorded, loopBatch, loopSent, loopSteps,
                       loopToolRuns, loopCancel, loopLate, loopTrail>>
    BY <1>2 DEF ProviderRaises
  <2> QED  BY <2>1, EndKeepsLoop
<1>3. CASE FinalAnswer
  <2>1. /\ loopAt = "llm" /\ loopAt' = "done" /\ loopEnd' = "completed"
        /\ loopLlm' = loopLlm + 1 /\ loopStatus' = loopStatus
        /\ UNCHANGED <<loopTools, loopRecorded, loopBatch, loopSent, loopSteps, loopToolRuns,
                       loopCancel, loopLate>>
    BY <1>3 DEF FinalAnswer, End, StatusOnEnd
  <2>2. loopTrail' = IF loopRecorded THEN Append(Append(loopTrail, "llm"), "answer")
                     ELSE loopTrail
    BY <1>3, AnswerAppended DEF FinalAnswer, LoopTyped
  <2>3. "llm" \in TrailSteps /\ "answer" \in TrailSteps
    BY DEF TrailSteps
  <2>4. /\ Append(loopTrail, "llm") \in Seq(TrailSteps)
        /\ Append(Append(loopTrail, "llm"), "answer") \in Seq(TrailSteps)
    BY <2>3, AppendProperties DEF LoopTyped
  <2>5. \A kinds : /\ CountOf(Append(Append(loopTrail, "llm"), "answer"), kinds)
                        = CountOf(loopTrail, kinds) + (IF "llm" \in kinds THEN 1 ELSE 0)
                                                    + (IF "answer" \in kinds THEN 1 ELSE 0)
                   /\ CountOf(loopTrail, kinds) \in Nat
    <3> SUFFICES ASSUME NEW kinds
                 PROVE  /\ CountOf(Append(Append(loopTrail, "llm"), "answer"), kinds)
                            = CountOf(loopTrail, kinds) + (IF "llm" \in kinds THEN 1 ELSE 0)
                                                        + (IF "answer" \in kinds THEN 1 ELSE 0)
                        /\ CountOf(loopTrail, kinds) \in Nat
      OBVIOUS
    <3>1. /\ CountOf(Append(loopTrail, "llm"), kinds)
               = CountOf(loopTrail, kinds) + (IF "llm" \in kinds THEN 1 ELSE 0)
          /\ CountOf(loopTrail, kinds) \in Nat
      BY <2>3, CountOfAppend DEF LoopTyped
    <3>2. CountOf(Append(Append(loopTrail, "llm"), "answer"), kinds)
            = CountOf(Append(loopTrail, "llm"), kinds) + (IF "answer" \in kinds THEN 1 ELSE 0)
      BY <2>3, <2>4, CountOfAppend
    <3> QED  BY <3>1, <3>2
  <2>6. LoopTyped'
    BY <2>1, <2>2, <2>4 DEF LoopTyped, LoopTypeOK
  <2>7. LateOnce'
    BY <2>1 DEF LateOnce
  <2>8. Followed'
    <3> SUFFICES ASSUME loopRecorded PROVE Followed'
      BY <2>1 DEF Followed
    <3>1. /\ CountOf(loopTrail', {"llm"}) = CountOf(loopTrail, {"llm"}) + 1
          /\ CountOf(loopTrail', {"result", "blank"}) = CountOf(loopTrail, {"result", "blank"})
          /\ CountOf(loopTrail', {"answer"}) = CountOf(loopTrail, {"answer"}) + 1
      BY <2>2, <2>5
    <3> QED  BY <2>1, <3>1 DEF Followed, UnderWay, LoopTyped, LoopTypeOK
  <2> QED  BY <2>6, <2>7, <2>8
<1> QED  BY <1>1, <1>2, <1>3

LEMMA CallKeepsLoop ==
  ASSUME LoopInv, NEW batch \in Batches, ToolsCalled(batch)
  PROVE  LoopInv'
<1> USE DEF LoopInv
<1>1. CASE loopRecorded /\ Contains(batch, "malformed")
  BY <1>1, EndKeepsLoop DEF ToolsCalled
<1>2. CASE ~(loopRecorded /\ Contains(batch, "malformed"))
  <2>1. /\ loopAt = "llm" /\ loopAt' = "batch" /\ loopLlm' = loopLlm + 1
        /\ loopBatch' = batch /\ loopSent' = Append(loopSent, "calls")
        /\ loopTrail' = IF loopRecorded THEN Append(loopTrail, "llm") ELSE loopTrail
        /\ UNCHANGED <<loopEnd, loopStatus, loopTools, loopRecorded, loopSteps, loopToolRuns,
                       loopCancel, loopLate>>
    BY <1>2 DEF ToolsCalled, GoOn, Record
  <2>2. batch \in Seq({"proper", "malformed"}) /\ batch # <<>>
    BY AgentLoopAssumption, SeqDef DEF Batches, BoundedSeq, SeqOf
  <2>3. "llm" \in TrailSteps /\ "calls" \in SentMessages
    BY DEF TrailSteps, SentMessages
  <2>4. LoopTyped'
    BY <2>1, <2>2, <2>3, AppendProperties DEF LoopTyped, LoopTypeOK
  <2>5. LateOnce'
    BY <2>1 DEF LateOnce
  <2>6. Followed'
    <3> SUFFICES ASSUME loopRecorded PROVE Followed'
      BY <2>1 DEF Followed
    <3>1. /\ CountOf(loopTrail', {"llm"}) = CountOf(loopTrail, {"llm"}) + 1
          /\ CountOf(loopTrail', {"result", "blank"}) = CountOf(loopTrail, {"result", "blank"})
          /\ CountOf(loopTrail', {"answer"}) = CountOf(loopTrail, {"answer"})
          /\ CountOf(loopSent', {"result", "error"}) = CountOf(loopSent, {"result", "error"})
      <4>1. /\ loopTrail' = Append(loopTrail, "llm") /\ loopSent' = Append(loopSent, "calls")
            /\ loopTrail \in Seq(TrailSteps) /\ loopSent \in Seq(SentMessages)
        BY <2>1 DEF LoopTyped
      <4>2. \A kinds : /\ CountOf(loopTrail, kinds) \in Nat
                       /\ CountOf(loopSent, kinds) \in Nat
        BY <4>1, CountOfType
      <4>3. \A kinds : /\ CountOf(loopTrail', kinds)
                            = CountOf(loopTrail, kinds) + (IF "llm" \in kinds THEN 1 ELSE 0)
                       /\ CountOf(loopSent', kinds)
                            = CountOf(loopSent, kinds) + (IF "calls" \in kinds THEN 1 ELSE 0)
        BY <2>3, <4>1, CountOfAppend
      <4> QED  BY <4>2, <4>3
    <3> QED  BY <2>1, <3>1 DEF Followed, UnderWay, LoopTyped, LoopTypeOK
  <2> QED  BY <2>4, <2>5, <2>6
<1> QED  BY <1>1, <1>2

LEMMA ToolsKeepLoop ==
  ASSUME LoopInv, ToolStarts \/ (\E outcome \in {"result", "error"} : ToolReturns(outcome))
  PROVE  LoopInv'
<1> USE DEF LoopInv
<1>1. CASE ToolStarts
  <2>1. /\ loopAt = "batch" /\ loopAt' = "tool" /\ loopToolRuns' = loopToolRuns + 1
        /\ loopSteps' = loopSteps + 1 /\ loopLate' = loopLate + (IF loopCancel THEN 1 ELSE 0)
        /\ UNCHANGED <<loopEnd, loopStatus, loopTools, loopRecorded, loopBatch, loopSent,
                       loopLlm, loopCancel, loopTrail>>
    BY <1>1 DEF ToolStarts, GoOn, Late
  <2>2. LoopTyped' /\ LateOnce'
    BY <2>1 DEF LoopTyped, LoopTypeOK, LateOnce
  <2>3. /\ CountOf(loopTrail, {"result", "blank"}) \in Nat
        /\ CountOf(loopSent, {"result", "error"}) \in Nat
    BY CountOfType DEF LoopTyped
  <2>4. Followed'
    BY <2>1, <2>3 DEF Followed, UnderWay
  <2> QED  BY <2>2, <2>4
<1>2. ASSUME NEW outcome \in {"result", "error"}, ToolReturns(outcome)
      PROVE  LoopInv'
  <2> DEFINE step == IF outcome = "error" THEN "blank" ELSE outcome
  <2>1. /\ loopAt = "tool" /\ loopBatch' = Tail(loopBatch)
        /\ loopSent' = Append(loopSent, outcome)
        /\ loopTrail' = IF loopRecorded THEN Append(loopTrail, step) ELSE loopTrail
        /\ AfterTool
        /\ UNCHANGED <<loopTools, loopRecorded, loopSteps, loopLlm, loopToolRuns, loopCancel,
                       loopLate>>
    BY <1>2 DEF ToolReturns, ToolRecord, Record
  <2>2. \/ /\ loopCancel /\ loopAt' = "done" /\ loopEnd' = "cancelled"
           /\ loopStatus' = IF loopRecorded THEN "cancelled" ELSE loopStatus
        \/ /\ ~loopCancel /\ loopAt' = (IF Len(loopBatch) = 1 THEN "head" ELSE "batch")
           /\ UNCHANGED <<loopEnd, loopStatus>>
    BY <2>1 DEF AfterTool, End, GoOn, StatusOnEnd
  <2>3. /\ loopBatch' \in Seq({"proper", "malformed"})
        /\ loopAt' = "batch" => loopBatch' # <<>>
    <3>1. loopBatch \in Seq({"proper", "malformed"}) /\ loopBatch # <<>>
      BY <2>1 DEF LoopTyped, LoopTypeOK
    <3>2. /\ loopBatch' \in Seq({"proper", "malformed"}) /\ Len(loopBatch) \in Nat
          /\ Len(loopBatch') = Len(loopBatch) - 1
      BY <2>1, <3>1, HeadTailProperties, LenProperties
    <3>3. loopAt' = "batch" => Len(loopBatch) # 1
      BY <2>2
    <3>4. loopBatch' = <<>> => Len(loopBatch') = 0
      BY EmptySeq
    <3> QED  BY <3>2, <3>3, <3>4
  <2>4. step \in TrailSteps /\ outcome \in SentMessages
    BY DEF TrailSteps, SentMessages
  <2>5. LoopTyped'
    <3>1. loopSent' \in Seq(SentMessages) /\ loopTrail' \in Seq(TrailSteps)
      <4> HIDE DEF step
      <4> QED  BY <2>1, <2>4, AppendProperties DEF LoopTyped
    <3> QED  BY <2>1, <2>2, <2>3, <3>1 DEF LoopTyped, LoopTypeOK
  <2>6. LateOnce'
    BY <2>1, <2>2 DEF LateOnce, LoopTyped
  <2>7. Followed'
    <3> SUFFICES ASSUME loopRecorded PROVE Followed'
      BY <2>1 DEF Followed
    <3>1. /\ CountOf(loopTrail', {"llm"}) = CountOf(loopTrail, {"llm"})
          /\ CountOf(loopTrail', {"result", "blank"}) = CountOf(loopTrail, {"result", "blank"}) + 1
          /\ CountOf(loopTrail', {"answer"}) = CountOf(loopTrail, {"answer"})
          /\ CountOf(loopSent', {"result", "error"}) = CountOf(loopSent, {"result", "error"}) + 1
      <4>1. /\ loopTrail' = Append(loopTrail, step) /\ loopSent' = Append(loopSent, outcome)
            /\ loopTrail \in Seq(TrailSteps) /\ loopSent \in Seq(SentMessages)
        BY <2>1 DEF LoopTyped
      <4>2. step \in {"result", "blank"} /\ step \notin {"llm"} /\ step \notin {"answer"}
        OBVIOUS
      <4> HIDE DEF step
      <4>3. \A kinds : /\ CountOf(loopTrail, kinds) \in Nat
                       /\ CountOf(loopSent, kinds) \in Nat
        BY <4>1, CountOfType
      <4>4. \A kinds : /\ CountOf(loopTrail', kinds)
                            = CountOf(loopTrail, kinds) + (IF step \in kinds THEN 1 ELSE 0)
                       /\ CountOf(loopSent', kinds)
                            = CountOf(loopSent, kinds) + (IF outcome \in kinds THEN 1 ELSE 0)
        BY <2>4, <4>1, CountOfAppend
      <4> QED  BY <4>2, <4>3, <4>4
    <3>2. /\ CountOf(loopTrail, {"result", "blank"}) \in Nat
          /\ CountOf(loopSent, {"result", "error"}) \in Nat
      BY CountOfType DEF LoopTyped
    <3> QED  BY <2>1, <2>2, <3>1, <3>2 DEF Followed, UnderWay, LoopTyped, LoopTypeOK
  <2> QED  BY <2>5, <2>6, <2>7
<1> QED  BY <1>1, <1>2

LEMMA LoopStepInv == LoopInv /\ [LoopNext]_loopVars => LoopInv'
<1> SUFFICES ASSUME LoopInv, [LoopNext]_loopVars PROVE LoopInv'
  OBVIOUS
<1>1. CASE UNCHANGED loopVars
  BY <1>1 DEF loopVars, LoopInv, LoopTyped, LoopTypeOK, LateOnce, Followed, UnderWay
<1>2. CASE CancelSet
  BY <1>2 DEF CancelSet, LoopInv, LoopTyped, LoopTypeOK, LateOnce, Followed, UnderWay
<1>3. CASE LoopStep
  BY <1>3, AskingKeepsLoop, CallKeepsLoop, ToolsKeepLoop DEF LoopStep
<1> QED  BY <1>1, <1>2, <1>3 DEF LoopNext

LEMMA LoopAlways == LoopSpec => []LoopInv
BY LoopInitInv, LoopStepInv, PTL DEF LoopSpec

(* AgentLoop.execute notices a cancellation at the head of its loop and    *)
(* after every tool: whatever batches the model asks for, at most one call *)
(* begins once the event is set.                                           *)
THEOREM CancellationHeeded == LoopSpec => []CancelHeeded
<1>1. LoopInv => CancelHeeded
  BY DEF LoopInv, LateOnce, CancelHeeded
<1> QED  BY <1>1, LoopAlways, PTL

(* TrajectoryRecorder agrees with the result of the loop on the status, on *)
(* the calls that were made and on whether there is an answer, for any     *)
(* number of steps and batches of any size.                                *)
THEOREM TrajectoryFollows == LoopSpec => []TrajectoryAgrees
<1>1. LoopInv => TrajectoryAgrees
  <2> SUFFICES ASSUME LoopInv, loopRecorded, loopAt = "done"
               PROVE  /\ loopStatus = loopEnd
                      /\ loopEnd # "failed" =>
                           /\ CountOf(loopTrail, {"llm"}) = loopLlm
                           /\ CountOf(loopTrail, {"result", "blank"}) = loopToolRuns
                           /\ CountOf(loopSent, {"result", "error"}) = loopToolRuns
                           /\ (CountOf(loopTrail, {"answer"}) = 1) = (loopEnd = "completed")
    BY DEF TrajectoryAgrees
  <2>1. LoopTyped /\ Followed
    BY DEF LoopInv
  <2>2. /\ CountOf(loopTrail, {"result", "blank"}) \in Nat
        /\ CountOf(loopSent, {"result", "error"}) \in Nat
    BY <2>1, CountOfType DEF LoopTyped
  <2> QED  BY <2>1, <2>2 DEF Followed, UnderWay
<1> QED  BY <1>1, LoopAlways, PTL

-----------------------------------------------------------------------------
(* The components together: MCBackend. *)

BackendInv == part \in Parts /\ BusInv /\ AgentInv /\ OrchInv /\ LoopInv

(* A step of one component leaves what is known of the others alone.       *)
LEMMA BackendStepInv == BackendInv /\ [BackendNext]_backendVars => BackendInv'
<1> SUFFICES ASSUME BackendInv, [BackendNext]_backendVars PROVE BackendInv'
  OBVIOUS
<1>1. /\ [BusNext]_busVars /\ [AgentNext]_agentVars /\ [OrchNext]_orchVars
      /\ [LoopNext]_loopVars /\ part' = part
  BY DEF BackendNext, BusPart, AgentPart, OrchestratorPart, LoopPart, WorkflowPart, backendVars
<1> QED  BY <1>1, BusStepInv, AgentStepInv, OrchStepInv, LoopStepInv DEF BackendInv

(* Every variable of the bus, the agent run, the orchestrator and the loop *)
(* keeps its type while any part moves.                                    *)
THEOREM BackendTyped == BackendSpec => []BackendTypeOK
<1>1. BackendInit => BackendInv
  BY BusInitInv, AgentInitInv, OrchInitInv, LoopInitInv DEF BackendInit, BackendInv
<1>2. BackendInv => BackendTypeOK
  BY DEF BackendInv, BackendTypeOK, BusInv, AgentInv, OrchInv, LoopInv, LoopTyped
<1> QED  BY <1>1, <1>2, BackendStepInv, PTL DEF BackendSpec
=============================================================================
