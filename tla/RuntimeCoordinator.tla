------------------------- MODULE RuntimeCoordinator -------------------------
(***************************************************************************)
(* RuntimeCoordinator.execute for the requests to one provider: attempts   *)
(* that pass the request timeout, the circuit breaker and the rate limiter *)
(* before they invoke the provider, are retried after a delay, and may be  *)
(* cancelled while they wait.  Everything between two awaits is one step   *)
(* of the event loop; breaker and limiter are shared by all requests.      *)
(***************************************************************************)
EXTENDS CircuitBreaker, FiniteSets

CONSTANTS
  Requests,            \* calls of execute()
  MaxRetries,          \* RetryPolicy.max_attempts
  RequestTimeout,      \* TimeoutPolicy.request_timeout_seconds
  RetryBudget,         \* RetryPolicy.total_retry_budget_seconds
  RequestsPerWindow,   \* RateLimitPolicy.requests_per_minute
  RateWindow,          \* the minute it speaks of
  ConcurrentRequests,  \* RateLimitPolicy.concurrent_requests
  MaxTime,             \* bound on the clock
  MaxGeneration        \* bound: no manual reset from this generation on

ASSUME RuntimeCoordinatorAssumption ==
  /\ IsFiniteSet(Requests)
  /\ MaxRetries \in Nat /\ RequestTimeout \in Nat /\ RetryBudget \in Nat
  /\ RequestsPerWindow \in Nat /\ RateWindow \in Nat
  /\ ConcurrentRequests \in Nat
  /\ MaxTime \in Nat /\ MaxGeneration \in Nat

VARIABLES
  now,          \* the clock
  breaker,      \* the provider's circuit breaker
  timestamps,   \* limiter: times of the requests of the last window
  concurrent,   \* limiter: concurrent slots in use
  call,         \* call[r]: pc, attempt, start, ticket, outcome
  invoked,      \* history: times at which the provider was invoked
  failures      \* history: times of the failures recorded in the breaker's episode

vars == <<now, breaker, timestamps, concurrent, call, invoked, failures>>

Pcs == {"idle", "invoking", "sleeping", "done", "cancelled"}
Outcomes == {"none", "success", "timeout", "circuit_open", "rate_limited", "error"}

Calls == [pc : Pcs, attempt : 0 .. MaxRetries, start : Nat,
          ticket : Nat \cup {NoTicket}, outcome : Outcomes]

Init ==
  /\ now = 0
  /\ breaker = NewBreaker
  /\ timestamps = <<>>
  /\ concurrent = 0
  /\ call = [r \in Requests |-> [pc |-> "idle", attempt |-> 0, start |-> 0,
                                 ticket |-> NoTicket, outcome |-> "none"]]
  /\ invoked = <<>>
  /\ failures = <<>>

\* The probes of the current episode that are out at the provider.
Probes == {r \in Requests : /\ call[r].pc = "invoking"
                            /\ call[r].ticket = breaker.generation}
Invoking == {r \in Requests : call[r].pc = "invoking"}

\* History of an episode: it starts anew when the breaker's generation changes.
Episode(failed) ==
  failures' = IF breaker'.generation # breaker.generation THEN <<>> ELSE failures \o failed

-----------------------------------------------------------------------------
(* SlidingWindowRateLimiter *)

\* check() drops the timestamps older than the window.
Pruned(stamps) == Since(stamps, now - RateWindow)

\* Seeded slip: the rate check lets one request too many through.
Mut_RateAllowsOneMore(stamps) == Len(stamps) <= RequestsPerWindow

RateAllows(stamps) == Len(stamps) < RequestsPerWindow

\* Seeded slip: the concurrency check compares the wrong way at the limit.
Mut_ConcurrencyAllowsOneMore == concurrent <= ConcurrentRequests

ConcurrencyAllows == concurrent < ConcurrentRequests

\* release_concurrent
Released(n) == IF n > 0 THEN n - 1 ELSE 0

-----------------------------------------------------------------------------
(* execute() *)

\* An attempt begins when execute() is called and whenever a retry delay ends;
\* the request's own clock starts with the call.
Due(r) == call[r].pc \in {"idle", "sleeping"}

StartTime(r) == IF call[r].pc = "idle" THEN now ELSE call[r].start

Expired(r) == now - StartTime(r) > RequestTimeout

End(r, outcome) == call' = [call EXCEPT ![r].pc = "done", ![r].outcome = outcome,
                                        ![r].ticket = NoTicket]

GiveUp(r) ==
  /\ Due(r)
  /\ Expired(r)
  /\ End(r, "timeout")
  /\ UNCHANGED <<now, breaker, timestamps, concurrent, invoked, failures>>

\* Breaker first; a denied call consumes neither quota nor breaker accounting.
DenyByBreaker(r) ==
  LET b == EvaluateState(breaker, now)
  IN  /\ Due(r)
      /\ ~Expired(r)
      /\ ~Admits(b)
      /\ breaker' = b
      /\ Episode(<<>>)
      /\ End(r, "circuit_open")
      /\ UNCHANGED <<now, timestamps, concurrent, invoked>>

\* check() looks at the concurrent slots first and prunes only after that; a
\* denial gives a reserved probe slot back at once.
DenyByLimiter(r) ==
  LET b == EvaluateState(breaker, now)
  IN  /\ Due(r)
      /\ ~Expired(r)
      /\ Admits(b)
      /\ ~(ConcurrencyAllows /\ RateAllows(Pruned(timestamps)))
      /\ breaker' = ReleaseProbe(Reserve(b), Ticket(b))
      /\ Episode(<<>>)
      /\ timestamps' = IF ConcurrencyAllows THEN Pruned(timestamps) ELSE timestamps
      /\ End(r, "rate_limited")
      /\ UNCHANGED <<now, concurrent, invoked>>

\* Admitted by both: quota and slots are taken and the provider is invoked.
Invoke(r) ==
  LET b == EvaluateState(breaker, now)
  IN  /\ Due(r)
      /\ ~Expired(r)
      /\ Admits(b)
      /\ ConcurrencyAllows /\ RateAllows(Pruned(timestamps))
      /\ breaker' = Reserve(b)
      /\ Episode(<<>>)
      /\ timestamps' = Append(Pruned(timestamps), now)
      /\ concurrent' = concurrent + 1
      /\ call' = [call EXCEPT ![r].pc = "invoking", ![r].ticket = Ticket(b),
                              ![r].start = StartTime(r)]
      /\ invoked' = Append(invoked, now)
      /\ UNCHANGED now

\* The provider answered.
Succeed(r) ==
  /\ call[r].pc = "invoking"
  /\ breaker' = RecordSuccess(breaker, call[r].ticket, now)
  /\ Episode(<<>>)
  /\ concurrent' = Released(concurrent)
  /\ End(r, "success")
  /\ UNCHANGED <<now, timestamps, invoked>>

\* RetryEvaluator.evaluate: attempts and budget left, and an error code that
\* retryable_error_codes, when it is given, lists.
ShouldRetry(r, listed) ==
  /\ call[r].attempt < MaxRetries
  /\ now - call[r].start < RetryBudget
  /\ listed

\* A retryable failure or the attempt's own timeout: recorded by the breaker,
\* then retried after a delay if the retry policy allows it.
FailTransiently(r, listed) ==
  /\ call[r].pc = "invoking"
  /\ breaker' = RecordFailure(breaker, call[r].ticket, now)
  /\ Episode(IF Stale(breaker, call[r].ticket) THEN <<>> ELSE <<now>>)
  /\ concurrent' = Released(concurrent)
  /\ IF ShouldRetry(r, listed)
     THEN call' = [call EXCEPT ![r].pc = "sleeping", ![r].ticket = NoTicket,
                               ![r].attempt = @ + 1]
     ELSE End(r, "error")
  /\ UNCHANGED <<now, timestamps, invoked>>

\* A failure marked non-retryable is no sign of provider distress: the probe
\* slot is released and nothing is recorded.
FailFatally(r) ==
  /\ call[r].pc = "invoking"
  /\ breaker' = ReleaseProbe(breaker, call[r].ticket)
  /\ concurrent' = Released(concurrent)
  /\ End(r, "error")
  /\ UNCHANGED <<now, timestamps, invoked, failures>>

\* Seeded slip: a cancelled call leaks its probe slot.
Mut_CancelLeaksProbe(r) ==
  /\ call[r].pc \in {"invoking", "sleeping"}
  /\ breaker' = breaker
  /\ concurrent' = IF call[r].pc = "invoking" THEN Released(concurrent) ELSE concurrent
  /\ call' = [call EXCEPT ![r].pc = "cancelled", ![r].ticket = NoTicket]
  /\ UNCHANGED <<now, timestamps, invoked, failures>>

\* CancelledError at an await: slots are released, nothing is recorded.
CancelCall(r) ==
  /\ call[r].pc \in {"invoking", "sleeping"}
  /\ IF call[r].pc = "invoking"
     THEN /\ breaker' = ReleaseProbe(breaker, call[r].ticket)
          /\ concurrent' = Released(concurrent)
     ELSE UNCHANGED <<breaker, concurrent>>
  /\ call' = [call EXCEPT ![r].pc = "cancelled", ![r].ticket = NoTicket]
  /\ UNCHANGED <<now, timestamps, invoked, failures>>

ResetBreaker ==
  /\ breaker.generation < MaxGeneration
  /\ breaker' = Reset(breaker, now)
  /\ Episode(<<>>)
  /\ UNCHANGED <<now, timestamps, concurrent, call, invoked>>

Tick ==
  /\ now < MaxTime
  /\ now' = now + 1
  /\ UNCHANGED <<breaker, timestamps, concurrent, call, invoked, failures>>

Step(r) ==
  \/ GiveUp(r) \/ DenyByBreaker(r) \/ DenyByLimiter(r) \/ Invoke(r)
  \/ Succeed(r) \/ FailFatally(r) \/ CancelCall(r)
  \/ \E listed \in BOOLEAN : FailTransiently(r, listed)

AllEnded == \A r \in Requests : call[r].pc \in {"done", "cancelled"}

Next ==
  \/ \E r \in Requests : Step(r)
  \/ ResetBreaker \/ Tick
  \/ AllEnded /\ UNCHANGED vars

Spec == Init /\ [][Next]_vars

-----------------------------------------------------------------------------
TypeOK ==
  /\ now \in 0 .. MaxTime
  /\ breaker \in Breakers
  /\ timestamps \in Seq(Nat) /\ concurrent \in Nat
  /\ call \in [Requests -> Calls]
  /\ invoked \in Seq(Nat) /\ failures \in Seq(Nat)

\* half_open_in_flight counts exactly the probes of the current episode that are
\* out at the provider: every way a call can end gives its slot back once, and
\* none that belongs to an earlier episode.
ProbeSlotsExact == breaker.inFlight = Cardinality(Probes)

\* At most half_open_max_calls probes of an episode are out at a time.
ProbeLimit == Cardinality(Probes) <= HalfOpenMaxCalls

\* The limiter's concurrent slots are those of the calls at the provider, within
\* the policy's limit; no path leaks one or gives one back twice.
ConcurrencyExact ==
  concurrent = Cardinality(Invoking) /\ concurrent <= ConcurrentRequests

\* No span of RateWindow sees more than requests_per_minute provider calls.
RateWindowHeld ==
  \A i, j \in DOMAIN invoked :
    j - i >= RequestsPerWindow => invoked[j] - invoked[i] > RateWindow

\* "completions presenting a stale generation are ignored so late probes cannot
\* corrupt the new episode".
StaleProbesIgnored ==
  [][\A r \in Requests :
       /\ call[r].pc = "invoking" /\ call'[r].pc # "invoking"
       /\ call[r].ticket # NoTicket /\ call[r].ticket # breaker.generation
       => breaker' = breaker]_vars

\* The failures of this episode that lie within the window at the present time.
RecentFailures == {i \in DOMAIN failures : failures[i] >= now - FailureWindow}

\* The circuit opens exactly on failure_threshold failures within the failure
\* window: not while there are fewer, and no later.
OpensOnThreshold ==
  /\ [][breaker.state = "closed" /\ breaker'.state = "open"
          => Cardinality(RecentFailures) + 1 >= FailureThreshold]_vars
  /\ [](breaker.state = "closed" => Cardinality(RecentFailures) < FailureThreshold)
=============================================================================
