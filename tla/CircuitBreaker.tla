--------------------------- MODULE CircuitBreaker ---------------------------
(***************************************************************************)
(* RuntimeCircuitBreaker: the operations of the per-provider breaker as    *)
(* functions of the breaker and the clock.  A breaker is a record          *)
(*   state       CLOSED, OPEN or HALF_OPEN                                 *)
(*   generation  the episode, one more at every transition                 *)
(*   inFlight    reserved HALF_OPEN probe slots                            *)
(*   successes   consecutive successes                                     *)
(*   window      times of the recent failures, oldest first                *)
(*   changed     time of the last state change                             *)
(* A completion presents a ticket: the generation of a reserved probe, or  *)
(* NoTicket for a call admitted while the breaker was CLOSED.              *)
(***************************************************************************)
EXTENDS Integers, Sequences

CONSTANTS
  FailureThreshold,   \* failures within the window that open the circuit
  RecoveryTimeout,    \* time after which an open circuit is probed
  HalfOpenMaxCalls,   \* probes admitted at a time
  SuccessThreshold,   \* successes that close a half-open circuit
  FailureWindow       \* how long a failure counts

ASSUME CircuitBreakerAssumption ==
  /\ FailureThreshold \in Nat \ {0} /\ RecoveryTimeout \in Nat
  /\ HalfOpenMaxCalls \in Nat /\ SuccessThreshold \in Nat
  /\ FailureWindow \in Nat

CircuitStates == {"closed", "open", "half_open"}

Breakers ==
  [state : CircuitStates, generation : Nat, inFlight : Nat, successes : Nat,
   window : Seq(Nat), changed : Nat]

NoTicket == -1

NewBreaker == [state |-> "closed", generation |-> 0, inFlight |-> 0,
               successes |-> 0, window |-> <<>>, changed |-> 0]

\* Every transition starts a new generation without reservations; entering
\* OPEN or CLOSED forgets the failures recorded so far.
TransitionTo(b, state, now) ==
  [b EXCEPT !.state = state, !.generation = @ + 1, !.changed = now, !.inFlight = 0,
            !.window = IF state \in {"open", "closed"} THEN <<>> ELSE @]

\* An open circuit becomes HALF_OPEN once the recovery timeout has elapsed.
EvaluateState(b, now) ==
  IF b.state = "open" /\ now - b.changed >= RecoveryTimeout
  THEN TransitionTo(b, "half_open", now) ELSE b

\* The admission decision of acquire(), after EvaluateState.
Admits(b) ==
  \/ b.state = "closed"
  \/ b.state = "half_open" /\ b.inFlight < HalfOpenMaxCalls

\* A HALF_OPEN admission reserves a slot and is issued a ticket.
Reserve(b) == IF b.state = "half_open" THEN [b EXCEPT !.inFlight = @ + 1] ELSE b
Ticket(b)  == IF b.state = "half_open" THEN b.generation ELSE NoTicket

Stale(b, ticket) == ticket # NoTicket /\ ticket # b.generation

\* release_probe and _release_if_current.
ReleaseProbe(b, ticket) ==
  IF ticket # NoTicket /\ ticket = b.generation /\ b.inFlight > 0
  THEN [b EXCEPT !.inFlight = @ - 1] ELSE b

\* metrics.reset(), as far as the breaker's decisions depend on it.
ResetMetrics(b, now) == [b EXCEPT !.successes = 0, !.changed = now]

RecordSuccess(b, ticket, now) ==
  LET counted == [ReleaseProbe(b, ticket) EXCEPT !.successes = @ + 1]
  IN  IF Stale(b, ticket) THEN b
      ELSE IF counted.state = "half_open" /\ counted.successes >= SuccessThreshold
      THEN ResetMetrics(TransitionTo(counted, "closed", now), now)
      ELSE counted

\* The last n elements of s.
LatestOf(s, n) == IF Len(s) <= n THEN s ELSE SubSeq(s, Len(s) - n + 1, Len(s))

\* popleft while the oldest time is before start.
Since(times, start) ==
  LET first == CHOOSE k \in 1 .. Len(times) + 1 :
                 /\ \A i \in 1 .. k - 1 : times[i] < start
                 /\ k <= Len(times) => times[k] >= start
  IN  SubSeq(times, first, Len(times))

\* Seeded slip: old failures never age out.
Mut_WindowNeverPruned(window, now) == LatestOf(Append(window, now), FailureThreshold)

\* The failures that still count once one more is recorded at time now.
WindowAfterFailure(window, now) ==
  LatestOf(Append(Since(window, now - FailureWindow), now), FailureThreshold)

RecordFailure(b, ticket, now) ==
  LET counted == [ReleaseProbe(b, ticket) EXCEPT
                    !.successes = 0, !.window = WindowAfterFailure(@, now)]
  IN  IF Stale(b, ticket) THEN b
      ELSE IF \/ counted.state = "half_open"
              \/ /\ counted.state = "closed"
                 /\ Len(counted.window) >= FailureThreshold
      THEN TransitionTo(counted, "open", now)
      ELSE counted

\* The operator's manual reset().
Reset(b, now) == ResetMetrics(TransitionTo(b, "closed", now), now)
=============================================================================
