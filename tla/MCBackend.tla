------------------------------ MODULE MCBackend ------------------------------
(***************************************************************************)
(* The components that work in the background of the API, checked in one   *)
(* run, and the evaluation workflow once more under its fairness.  They    *)
(* share no state, so that nothing is learnt from their interleavings:     *)
(* part names the one that moves, and the others stay in their initial     *)
(* states.                                                                 *)
(***************************************************************************)
EXTENDS EventBus, AgentRun, Orchestrator, AgentLoop, EvaluationWorkflow

VARIABLE part

Parts == {"bus", "agent", "orchestrator", "loop", "workflow"}

\* Two items were sent with the same id.
SharedIds == [i \in Items |-> 1]

backendVars == <<part, busVars, agentVars, orchVars, loopVars, vars>>

BackendInit ==
  /\ part \in Parts
  /\ BusInit /\ AgentInit /\ OrchInit /\ LoopInit /\ Init
  /\ part # "agent" => agentOrigin = "api" /\ agentNests
  /\ part # "orchestrator" => orchShared /\ orchItems = 0
  /\ part # "loop" => loopTools /\ loopRecorded

BusPart(A) ==
  part = "bus" /\ A /\ UNCHANGED <<part, agentVars, orchVars, loopVars, vars>>
AgentPart ==
  part = "agent" /\ AgentNext /\ UNCHANGED <<part, busVars, orchVars, loopVars, vars>>
OrchestratorPart ==
  part = "orchestrator" /\ OrchNext /\ UNCHANGED <<part, busVars, agentVars, loopVars, vars>>
LoopPart(A) ==
  part = "loop" /\ A /\ UNCHANGED <<part, busVars, agentVars, orchVars, vars>>
WorkflowPart(A) ==
  part = "workflow" /\ A /\ UNCHANGED <<part, busVars, agentVars, orchVars, loopVars>>

BackendNext ==
  BusPart(BusNext) \/ AgentPart \/ OrchestratorPart \/ LoopPart(LoopNext) \/ WorkflowPart(Next)

\* Each component's own fairness, while it is the one that moves.
BackendSpec ==
  /\ BackendInit /\ [][BackendNext]_backendVars
  /\ WF_backendVars(BusPart(ConsumerStep))
  /\ WF_backendVars(LoopPart(LoopStep))
  /\ WF_backendVars(WorkflowPart(ScheduleWorkflow)) /\ WF_backendVars(WorkflowPart(CommitCreate))
  /\ \A s \in Slots : WF_backendVars(WorkflowPart(AttemptStep(s)))
  /\ \A c \in Cancellers : WF_backendVars(WorkflowPart(CancelStep(c)))

(* Every component's variables have their types (the workflow's are those  *)
(* of its own runs).                                                       *)
BackendTypeOK == part \in Parts /\ BusTypeOK /\ AgentTypeOK /\ OrchTypeOK /\ LoopTypeOK

(* The run of an evaluation workflow that moves comes to an end.           *)
WorkflowRunEnds == part = "workflow" => RunEnds
==============================================================================
