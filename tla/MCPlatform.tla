----------------------------- MODULE MCPlatform -----------------------------
(***************************************************************************)
(* The components that serve requests, and the life of the process they    *)
(* run in, checked in one run.  They share no state, so that nothing is    *)
(* learnt from their interleavings: part names the one that moves, and the *)
(* others stay in their initial states.                                    *)
(***************************************************************************)
EXTENDS RunAggregate, Definitions, Startup, Identity, Tenant, CampaignLoop, RunRequests,
        RuntimeCoordinator, TLC

VARIABLE part

Parts == {"aggregate", "definitions", "registry", "startup", "identity", "tenant", "campaign", "gate",
          "runtime"}

-----------------------------------------------------------------------------
(* Instances.                                                              *)

MCNames == <<"database", "event_bus", "temporal_client", "temporal_worker">>

\* InfrastructureServices._register_*_services
AppGraph ==
  [n \in {"database", "event_bus", "temporal_client", "temporal_worker"} |->
     CASE n = "database" -> {}
       [] n = "event_bus" -> {"database"}
       [] n = "temporal_client" -> {"database"}
       [] n = "temporal_worker" -> {"temporal_client"}]

\* The application's graph, and all graphs of three services.
MCDependsOn ==
  LET three == {"database", "event_bus", "temporal_client"} IN
  {AppGraph} \cup
  {g @@ ("temporal_worker" :> {}) : g \in [three -> SUBSET (three \cup {"unregistered"})]}

\* _subscribe goes through one group of handlers after the other.
MCPlan == << [type |-> "started", handler |-> "audit"],
             [type |-> "completed", handler |-> "audit"],
             [type |-> "completed", handler |-> "webhooks"] >>

\* With a threshold of eight tenths a success stops the campaign, and every
\* round behind the fifth moves the phase of the others.
MCCampResults ==
  { [verdict |-> "SUCCESS", score |-> 9, failed |-> FALSE],
    [verdict |-> "FAILURE", score |-> 0, failed |-> FALSE],
    [verdict |-> "INCONCLUSIVE", score |-> 7, failed |-> FALSE],
    [verdict |-> "INCONCLUSIVE", score |-> 0, failed |-> TRUE] }

Symmetric == Permutations(Requests)

-----------------------------------------------------------------------------
platformVars == <<part, aggregateVars, defVars, startupVars, idVars, tenVars, campVars, gateVars, vars>>

PlatformInit ==
  /\ part \in Parts
  /\ AggregateInit /\ DefInit /\ StartupInit /\ IdInit /\ TenantInit /\ CampInit /\ GateInit
  /\ Init
  /\ part # "definitions" => defKind = "agent"
  /\ part # "registry" => regGraph = AppGraph

AggregatePart ==
  /\ part = "aggregate" /\ AggregateNext
  /\ UNCHANGED <<part, defVars, startupVars, idVars, tenVars, campVars, gateVars, vars>>
DefinitionsPart ==
  /\ part = "definitions" /\ DefNext
  /\ UNCHANGED <<part, aggregateVars, startupVars, idVars, tenVars, campVars, gateVars, vars>>
RegistryPart ==
  /\ part = "registry" /\ RegNext
  /\ UNCHANGED <<part, aggregateVars, defVars, appState, joined, busState,
                 idVars, tenVars, campVars, gateVars, vars>>
StartupPart ==
  /\ part = "startup" /\ StartupNext
  /\ UNCHANGED <<part, aggregateVars, defVars, idVars, tenVars, campVars, gateVars, vars>>
IdentityPart ==
  /\ part = "identity" /\ IdNext
  /\ UNCHANGED <<part, aggregateVars, defVars, startupVars, tenVars, campVars, gateVars, vars>>
TenantPart ==
  /\ part = "tenant" /\ TenantNext
  /\ UNCHANGED <<part, aggregateVars, defVars, startupVars, idVars, campVars, gateVars, vars>>
CampaignPart ==
  /\ part = "campaign" /\ CampNext
  /\ UNCHANGED <<part, aggregateVars, defVars, startupVars, idVars, tenVars, gateVars, vars>>
GatePart ==
  /\ part = "gate" /\ GateNext
  /\ UNCHANGED <<part, aggregateVars, defVars, startupVars, idVars, tenVars, campVars, vars>>

RuntimePart ==
  /\ part = "runtime" /\ Next
  /\ UNCHANGED <<part, aggregateVars, defVars, startupVars, idVars, tenVars, campVars, gateVars>>

PlatformNext ==
  \/ AggregatePart \/ DefinitionsPart \/ RegistryPart \/ StartupPart
  \/ IdentityPart \/ TenantPart \/ CampaignPart \/ GatePart \/ RuntimePart

PlatformSpec == PlatformInit /\ [][PlatformNext]_platformVars

(* Every component's variables have their types, those of the runtime      *)
(* coordinator apart, which a proof of its own covers.                     *)
PlatformTypeOK ==
  /\ part \in Parts
  /\ AggregateTypeOK /\ DefinitionsTypeOK /\ StartupTypeOK /\ IdTypeOK /\ TenantTypeOK
  /\ CampTypeOK /\ GateTypeOK
=============================================================================
