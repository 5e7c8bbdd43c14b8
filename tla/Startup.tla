------------------------------- MODULE Startup -------------------------------
(***************************************************************************)
(* The life of the backend process: the lifespan function initializes the  *)
(* bootstrap, starts the four services of the registry and stops them at   *)
(* shutdown.  The subscribers of the event bus are registered by a task of *)
(* their own, which the bootstrap schedules and nobody awaits, so it runs  *)
(* beside the start of the services and beside the consumers.  A handler   *)
(* always returns here; its failures are EventBus's matter.                *)
(***************************************************************************)
EXTENDS ServiceRegistry

CONSTANTS
  Plan,           \* the subscribe() calls of _subscribe: event types and handlers
  MaxPublished    \* bound: events published per type

EventTypes == {Plan[i].type : i \in DOMAIN Plan}
Subscribers == {Plan[i].handler : i \in DOMAIN Plan}

ASSUME StartupAssumption ==
  /\ Plan \in Seq([type : EventTypes, handler : Subscribers])
  /\ MaxPublished \in Nat

VARIABLES
  life,        \* the lifespan function
  engine,      \* the database engine
  client,      \* TemporalClientFactory._client is set
  worker,      \* TemporalWorkerLifecycle: "none", "created", "running"
  joined,      \* subscribe() calls begun, Len(Plan) + 1 once the last has returned
  listening,   \* the bus's _running
  subs,        \* _subscriptions of each event type
  task,        \* the consumer task of each event type
  nth,         \* the place of the handler it calls next
  stream,      \* events published to each type's stream
  delivered    \* the last one the consumer group has read, -1 without a group

busState == <<listening, subs, task, nth, stream, delivered>>
appState == <<life, engine, client, worker>>
startupVars == <<regVars, appState, joined, busState>>

StartupInit ==
  /\ RegInit
  /\ life = "init" /\ engine = "none" /\ client = FALSE /\ worker = "none"
  /\ joined = 0 /\ listening = FALSE
  /\ subs = [t \in EventTypes |-> <<>>] /\ task = [t \in EventTypes |-> "none"]
  /\ nth = [t \in EventTypes |-> 1]
  /\ stream = [t \in EventTypes |-> 0] /\ delivered = [t \in EventTypes |-> -1]

----------------------------------------------------------------------------
(* Bootstrap.initialize and start, up to the first await: the engine is    *)
(* created, _subscribe is scheduled, and the registry resolves its order.  *)
(* No service other than the engine is initialized.                        *)
Boot ==
  /\ life = "init" /\ StartAll
  /\ life' = "starting" /\ engine' = "created"
  /\ UNCHANGED <<client, worker, joined, busState>>

\* The consumers of these types, unless they have one already.
WithConsumers(types) ==
  [t \in EventTypes |-> IF t \in types /\ task[t] = "none" THEN "new" ELSE task[t]]

\* Seeded slip: subscribe() starts the consumer whether the bus runs or not.
Mut_SubscribeIgnoresRunning == WithConsumers({Plan[joined].type})

\* What subscribe() does when its consumer group has been created.
AfterSubscribe == IF listening THEN WithConsumers({Plan[joined].type}) ELSE task

\* From one await of _subscribe to the next: the previous subscribe() returns
\* and the next one appends its handler.
SubscribeNext ==
  /\ life # "init" /\ joined <= Len(Plan) /\ joined' = joined + 1
  /\ task' = IF joined > 0 THEN AfterSubscribe ELSE task
  /\ subs' = IF joined < Len(Plan)
             THEN [subs EXCEPT ![Plan[joined + 1].type] = Append(@, Plan[joined + 1].handler)]
             ELSE subs
  /\ UNCHANGED <<regVars, appState, listening, nth, stream, delivered>>

----------------------------------------------------------------------------
(* start() of the services.                                                *)

Turn(phase, name) == regPhase = phase /\ regOrder # <<>> /\ Head(regOrder) = name

\* DatabaseEngine.start: SELECT 1.
StartDatabase ==
  /\ Turn("starting", "database") /\ (ServiceStarts \/ StartRaises)
  /\ UNCHANGED <<appState, joined, busState>>

StartEventBus ==
  /\ Turn("starting", "event_bus") /\ ServiceStarts
  /\ listening' = TRUE /\ task' = WithConsumers({t \in EventTypes : subs[t] # <<>>})
  /\ UNCHANGED <<appState, joined, subs, nth, stream, delivered>>

\* TemporalClientFactory.start connects.
StartTemporalClient ==
  /\ Turn("starting", "temporal_client")
  /\ \/ ServiceStarts /\ client' = TRUE
     \/ StartRaises /\ UNCHANGED client
  /\ UNCHANGED <<life, engine, worker, joined, busState>>

\* TemporalWorkerLifecycle.start returns at once when initialize() has not
\* created a worker.
StartTemporalWorker ==
  /\ Turn("starting", "temporal_worker") /\ ServiceStarts
  /\ worker' = IF worker = "created" THEN "running" ELSE worker
  /\ UNCHANGED <<life, engine, client, joined, busState>>

\* lifespan asks for the Temporal client, which raises if it is not connected;
\* nothing is stopped then.
Serve ==
  /\ AllStarted
  /\ life' = IF client THEN "serving" ELSE "aborted"
  /\ UNCHANGED <<engine, client, worker, joined, busState>>

----------------------------------------------------------------------------
(* Shutdown.                                                               *)

Shutdown ==
  /\ life = "serving" /\ StopAll
  /\ life' = "stopping"
  /\ UNCHANGED <<engine, client, worker, joined, busState>>

StopTemporalWorker ==
  /\ Turn("stopping", "temporal_worker") /\ ServiceStops
  /\ worker' = IF worker = "running" THEN "created" ELSE worker
  /\ UNCHANGED <<life, engine, client, joined, busState>>

StopTemporalClient ==
  /\ Turn("stopping", "temporal_client") /\ ServiceStops
  /\ client' = FALSE
  /\ UNCHANGED <<life, engine, worker, joined, busState>>

\* Every consumer is cancelled at the await it is at, and awaited.
StopEventBus ==
  /\ Turn("stopping", "event_bus") /\ ServiceStops
  /\ listening' = FALSE /\ task' = [t \in EventTypes |-> "none"]
  /\ UNCHANGED <<appState, joined, subs, nth, stream, delivered>>

\* The engine is forgotten after dispose(), which may raise.
StopDatabase ==
  /\ Turn("stopping", "database")
  /\ \/ ServiceStops /\ engine' = "none"
     \/ StopRaises /\ UNCHANGED engine
  /\ UNCHANGED <<life, client, worker, joined, busState>>

Exit ==
  /\ AllStopped
  /\ life' = "down"
  /\ UNCHANGED <<engine, client, worker, joined, busState>>

----------------------------------------------------------------------------
(* The event bus meanwhile.                                                *)

\* Any process may publish at any time.
PublishTo(t) ==
  /\ stream[t] < MaxPublished
  /\ stream' = [stream EXCEPT ![t] = @ + 1]
  /\ UNCHANGED <<regVars, appState, joined, listening, subs, task, nth, delivered>>

\* A new consumer creates its group behind what has been published.
Listen(t) ==
  /\ task[t] = "new" /\ task' = [task EXCEPT ![t] = "read"]
  /\ delivered' = [delivered EXCEPT ![t] = IF @ = -1 THEN stream[t] ELSE @]
  /\ UNCHANGED <<regVars, appState, joined, listening, subs, nth, stream>>

ReadNext(t) ==
  /\ task[t] = "read" /\ delivered[t] < stream[t]
  /\ task' = [task EXCEPT ![t] = "handle"] /\ nth' = [nth EXCEPT ![t] = 1]
  /\ delivered' = [delivered EXCEPT ![t] = @ + 1]
  /\ UNCHANGED <<regVars, appState, joined, listening, subs, stream>>

\* The handlers in the list's order; the entry is deleted behind the last one.
Handle(t) ==
  /\ task[t] = "handle" /\ nth' = [nth EXCEPT ![t] = @ + 1]
  /\ task' = [task EXCEPT ![t] = IF nth[t] < Len(subs[t]) THEN "handle" ELSE "read"]
  /\ UNCHANGED <<regVars, appState, joined, listening, subs, stream, delivered>>

StartupNext ==
  \/ Boot \/ SubscribeNext
  \/ StartDatabase \/ StartEventBus \/ StartTemporalClient \/ StartTemporalWorker
  \/ Serve \/ Shutdown
  \/ StopTemporalWorker \/ StopTemporalClient \/ StopEventBus \/ StopDatabase \/ Exit
  \/ \E t \in EventTypes : PublishTo(t) \/ Listen(t) \/ ReadNext(t) \/ Handle(t)

StartupSpec == StartupInit /\ [][StartupNext]_startupVars

----------------------------------------------------------------------------
(* Properties.                                                             *)

StartupTypeOK ==
  /\ RegTypeOK
  /\ life \in {"init", "starting", "serving", "aborted", "stopping", "down"}
  /\ engine \in {"none", "created"} /\ client \in BOOLEAN
  /\ worker \in {"none", "created", "running"}
  /\ joined \in 0 .. Len(Plan) + 1 /\ listening \in BOOLEAN
  /\ \A t \in EventTypes :
       /\ subs[t] \in Seq(Subscribers)
       /\ task[t] \in {"none", "new", "read", "handle"} /\ nth[t] \in 1 .. Len(subs[t]) + 1
       /\ stream[t] \in 0 .. MaxPublished /\ delivered[t] \in -1 .. stream[t]

\* Event types one of whose subscribe() calls has returned.
SubscribedTypes == {Plan[i].type : i \in 1 .. (joined - 1)}

(* Whether a subscription came before the bus was started, while its       *)
(* consumers were being started or long after, once subscribe() has        *)
(* returned and the bus runs its event type is being consumed; no consumer *)
(* exists before the start or after the stop, even when _subscribe is      *)
(* still going on then; and the handlers, which open database sessions,    *)
(* run only while the process has its engine: the bus is stopped before    *)
(* the engine is disposed of.                                              *)
ConsumersMatchSubscriptions ==
  /\ listening => \A t \in SubscribedTypes : task[t] # "none"
  /\ ~listening => \A t \in EventTypes : task[t] = "none"
  /\ \A t \in EventTypes : task[t] # "none" =>
       /\ engine = "created"
       /\ regPhase = "starting" => "database" \in regTried
       /\ regPhase = "stopping" => "database" \notin regTried
=============================================================================
