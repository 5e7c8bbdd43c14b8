--------------------------- MODULE ServiceRegistry ---------------------------
(***************************************************************************)
(* The kernel's ServiceRegistry: services registered one after another     *)
(* with the names they depend on, started in dependency order and stopped  *)
(* in the reverse order.  A start or stop that raises is swallowed; the    *)
(* other services are started or stopped all the same.                     *)
(***************************************************************************)
EXTENDS Integers, Sequences, FiniteSets, SequencesExt

CONSTANTS
  Names,           \* names of services in the order of registration
  DependsOn,       \* the registries considered: functions from names to the
                   \* names they depend on, registered or not
  MaxRegFaults     \* bound: starts and stops that raise

Registered == Range(Names)

ASSUME ServiceRegistryAssumption ==
  /\ Names \in Seq(Registered) /\ IsInjective(Names)
  /\ \A g \in DependsOn : DOMAIN g = Registered
  /\ MaxRegFaults \in Nat

VARIABLES
  regGraph,      \* depends_on of every entry
  regPhase,      \* what the registry is doing
  regOrder,      \* what start_all or stop_all has still to go through
  regUp,         \* services whose start() returned and stop() has not
  regHealthy,    \* entries with healthy set
  regTried,      \* history: services whose start() or stop() has been awaited
  regFaults      \* bound used up

regVars == <<regGraph, regPhase, regOrder, regUp, regHealthy, regTried, regFaults>>

----------------------------------------------------------------------------
(* _resolve_start_order.                                                   *)

\* Seeded slip: names nobody registered are counted as well.
Mut_InDegreeUnknown(g, n) == Cardinality(g[n])

\* Dependencies on names nobody registered are not counted.
InDegree(g, n) == Cardinality(g[n] \cap Registered)

\* What a loop over the graph collects: these names, in the order of
\* registration.
InOrder(names) ==
  LET upTo[i \in 0 .. Len(Names)] ==
        IF i = 0 THEN <<>>
        ELSE IF Names[i] \in names THEN Append(upTo[i - 1], Names[i]) ELSE upTo[i - 1]
  IN  upTo[Len(Names)]

\* The services whose last open dependency was the one placed last.
ReleasedBy(g, placed) ==
  InOrder({n \in Registered :
             /\ placed[Len(placed)] \in g[n]
             /\ Cardinality(g[n] \cap Range(placed)) = InDegree(g, n)})

\* The first in the queue is placed; a queue that has run dry ends the search.
PlaceNext(g, search) ==
  IF search.queue = <<>> THEN search
  ELSE LET order == Append(search.order, Head(search.queue))
       IN  [order |-> order, queue |-> Tail(search.queue) \o ReleasedBy(g, order)]

\* The order and the queue after one turn for every service.
Placing(g) ==
  LET turn[i \in 0 .. Len(Names)] ==
        IF i = 0
        THEN [order |-> <<>>, queue |-> InOrder({n \in Registered : InDegree(g, n) = 0})]
        ELSE PlaceNext(g, turn[i - 1])
  IN  turn[Len(Names)]

StartOrder(g) == Placing(g).order

\* "Circular dependency detected in service graph": ValueError.
Circular(g) == Len(StartOrder(g)) # Len(Names)

----------------------------------------------------------------------------
RegInit ==
  /\ regGraph \in DependsOn
  /\ regPhase = "registered" /\ regOrder = <<>>
  /\ regUp = {} /\ regHealthy = {} /\ regTried = {} /\ regFaults = 0

StartAll ==
  /\ regPhase = "registered"
  /\ IF Circular(regGraph)
     THEN regPhase' = "refused" /\ UNCHANGED regOrder
     ELSE regPhase' = "starting" /\ regOrder' = StartOrder(regGraph)
  /\ UNCHANGED <<regGraph, regUp, regHealthy, regTried, regFaults>>

RegFault == regFaults < MaxRegFaults /\ regFaults' = regFaults + 1


ServiceStarts ==
  /\ regPhase = "starting" /\ regOrder # <<>>
  /\ regUp' = regUp \cup {Head(regOrder)} /\ regHealthy' = regHealthy \cup {Head(regOrder)}
  /\ regTried' = regTried \cup {Head(regOrder)} /\ regOrder' = Tail(regOrder)
  /\ UNCHANGED <<regGraph, regPhase, regFaults>>

\* start() raises: the entry is not healthy, its dependents are started next.
StartRaises ==
  /\ RegFault /\ regPhase = "starting" /\ regOrder # <<>>
  /\ regHealthy' = regHealthy \ {Head(regOrder)}
  /\ regTried' = regTried \cup {Head(regOrder)} /\ regOrder' = Tail(regOrder)
  /\ UNCHANGED <<regGraph, regPhase, regUp>>

AllStarted ==
  /\ regPhase = "starting" /\ regOrder = <<>>
  /\ regPhase' = "started"
  /\ UNCHANGED <<regGraph, regOrder, regUp, regHealthy, regTried, regFaults>>

StopAll ==
  /\ regPhase = "started"
  /\ regPhase' = "stopping" /\ regOrder' = Reverse(StartOrder(regGraph)) /\ regTried' = {}
  /\ UNCHANGED <<regGraph, regUp, regHealthy, regFaults>>

\* Every service is stopped, also one that never came up.
ServiceStops ==
  /\ regPhase = "stopping" /\ regOrder # <<>>
  /\ regUp' = regUp \ {Head(regOrder)} /\ regHealthy' = regHealthy \ {Head(regOrder)}
  /\ regTried' = regTried \cup {Head(regOrder)} /\ regOrder' = Tail(regOrder)
  /\ UNCHANGED <<regGraph, regPhase, regFaults>>

\* stop() raises: the entry keeps its healthy flag.
StopRaises ==
  /\ RegFault /\ regPhase = "stopping" /\ regOrder # <<>>
  /\ regTried' = regTried \cup {Head(regOrder)} /\ regOrder' = Tail(regOrder)
  /\ UNCHANGED <<regGraph, regPhase, regUp, regHealthy>>

AllStopped ==
  /\ regPhase = "stopping" /\ regOrder = <<>>
  /\ regPhase' = "stopped"
  /\ UNCHANGED <<regGraph, regOrder, regUp, regHealthy, regTried, regFaults>>

RegNext ==
  \/ StartAll \/ ServiceStarts \/ StartRaises \/ AllStarted
  \/ StopAll \/ ServiceStops \/ StopRaises \/ AllStopped

RegSpec == RegInit /\ [][RegNext]_regVars

----------------------------------------------------------------------------
(* Properties.                                                             *)

RegTypeOK ==
  /\ DOMAIN regGraph = Registered
  /\ regPhase \in {"registered", "refused", "starting", "started", "stopping", "stopped"}
  /\ regOrder \in Seq(Registered)
  /\ regUp \subseteq Registered /\ regHealthy \subseteq Registered
  /\ regTried \subseteq Registered /\ regFaults \in 0 .. MaxRegFaults

\* A cycle of registered services: some of them each depend on one of them.
Cyclic(g) == \E s \in SUBSET Registered : s # {} /\ \A n \in s : g[n] \cap s # {}

(* The registry refuses to start exactly the graphs that have a cycle, a   *)
(* service that depends on itself included; dependencies on services that  *)
(* were never registered refuse nothing.  When a service is started, the   *)
(* start of everything it depends on has been awaited; when one is         *)
(* stopped, the stop of everything that depends on it has been.  Every     *)
(* service gets its turn in both, whatever raises.                         *)
StartOrderSound ==
  /\ regPhase = "refused" => Cyclic(regGraph)
  /\ regPhase \notin {"registered", "refused"} => ~Cyclic(regGraph)
  /\ regPhase = "starting" =>
       \A n \in regTried : regGraph[n] \cap Registered \subseteq regTried
  /\ regPhase = "stopping" =>
       \A n \in Registered : regGraph[n] \cap regTried # {} => n \in regTried
  /\ regPhase \in {"started", "stopped"} => regTried = Registered
=============================================================================
