---------------------- MODULE RuntimeCoordinator_proofs ----------------------
(***************************************************************************)
(* Proofs about RuntimeCoordinator, for every number of calls and every    *)
(* policy: the breaker's HALF_OPEN slots are accounted exactly, at most    *)
(* half_open_max_calls probes are out, stale probes change nothing, and    *)
(* the limiter's concurrent slots are those of the calls at the provider;  *)
(* the limiter's sliding window bounds the calls made in any window, and   *)
(* the circuit opens exactly when enough failures lie in theirs.           *)
(***************************************************************************)
EXTENDS RuntimeCoordinator, FiniteSetTheorems, SequenceTheorems, Induction, TLAPS

\* The probes of breaker b's episode among the calls c.
ProbesOf(b, c) == {r \in Requests : c[r].pc = "invoking" /\ c[r].ticket = b.generation}

\* Breaker b accounts for the calls c: the fields its admissions depend on have
\* their types, slots exist only while it is half-open and are those of the
\* probes, and no ticket is from an episode yet to come.
Accounts(b, c) ==
  /\ {"state", "generation", "inFlight"} \subseteq DOMAIN b
  /\ b.state \in CircuitStates /\ b.generation \in Nat /\ b.inFlight \in Nat
  /\ b.state # "half_open" => b.inFlight = 0
  /\ b.inFlight <= HalfOpenMaxCalls
  /\ b.inFlight = Cardinality(ProbesOf(b, c))
  /\ \A r \in Requests : c[r].ticket <= b.generation

\* Only a call at the provider holds a ticket.
CallsOK(c) ==
  /\ c \in [Requests -> Calls]
  /\ \A r \in Requests : c[r].ticket # NoTicket => c[r].pc = "invoking"

SlotsInv == now \in Nat /\ CallsOK(call) /\ Accounts(breaker, call)

-----------------------------------------------------------------------------
(* The operations of the breaker. *)

LEMMA ProbesFinite ==
  ASSUME NEW b, NEW c
  PROVE  IsFiniteSet(ProbesOf(b, c)) /\ Cardinality(ProbesOf(b, c)) \in Nat
<1>1. ProbesOf(b, c) \subseteq Requests
  BY DEF ProbesOf
<1> QED BY <1>1, FS_Subset, FS_CardinalityType, RuntimeCoordinatorAssumption

\* The accounts depend on nothing but state, generation and reservations.
LEMMA SameAccounts ==
  ASSUME NEW a, NEW b, NEW c, Accounts(a, c),
         DOMAIN b = DOMAIN a, b.state = a.state, b.generation = a.generation,
         b.inFlight = a.inFlight
  PROVE  Accounts(b, c)
<1>1. ProbesOf(b, c) = ProbesOf(a, c)
  BY DEF ProbesOf
<1> QED BY <1>1 DEF Accounts

\* A transition starts an episode without probes.
LEMMA TransitionAccounts ==
  ASSUME NEW b, NEW c, CallsOK(c), Accounts(b, c), NEW state \in CircuitStates, NEW time
  PROVE  /\ Accounts(TransitionTo(b, state, time), c)
         /\ TransitionTo(b, state, time).state = state
         /\ DOMAIN TransitionTo(b, state, time) = DOMAIN b
<1> DEFINE t == TransitionTo(b, state, time)
<1>1. /\ DOMAIN t = DOMAIN b
      /\ t.state = state /\ t.generation = b.generation + 1 /\ t.inFlight = 0
  BY DEF TransitionTo, Accounts
<1> HIDE DEF t
<1>2. ProbesOf(t, c) = {}
  BY <1>1 DEF ProbesOf, Accounts, Calls
<1>3. Cardinality(ProbesOf(t, c)) = 0
  BY <1>2, FS_EmptySet
<1>4. \A r \in Requests : c[r].ticket <= t.generation
  <2> SUFFICES ASSUME NEW r \in Requests PROVE c[r].ticket <= t.generation
    OBVIOUS
  <2>1. c[r].ticket \in Int
    BY DEF CallsOK, Calls, NoTicket
  <2>2. c[r].ticket <= b.generation /\ b.generation \in Nat
    BY DEF Accounts
  <2> QED BY <1>1, <2>1, <2>2
<1>5. Accounts(t, c)
  BY <1>1, <1>3, <1>4, CircuitBreakerAssumption DEF Accounts
<1> QED BY <1>1, <1>5 DEF t

\* The metrics are no part of the accounts.
LEMMA ResetAccounts ==
  ASSUME NEW b, NEW c, Accounts(b, c), NEW time
  PROVE  Accounts(ResetMetrics(b, time), c)
<1> DEFINE e == ResetMetrics(b, time)
<1>1. /\ DOMAIN e = DOMAIN b /\ e.state = b.state
      /\ e.generation = b.generation /\ e.inFlight = b.inFlight
  BY DEF ResetMetrics, Accounts
<1> HIDE DEF e
<1>2. Accounts(e, c)
  BY <1>1, SameAccounts
<1> QED BY <1>2 DEF e

LEMMA EvaluateAccounts ==
  ASSUME NEW b, NEW c, CallsOK(c), Accounts(b, c), NEW time
  PROVE  Accounts(EvaluateState(b, time), c)
BY TransitionAccounts DEF EvaluateState, CircuitStates

\* The end of a call at the provider gives back the slot its ticket stands for.
LEMMA ReleaseAccounts ==
  ASSUME NEW b, NEW c, NEW d, NEW r \in Requests, CallsOK(c), CallsOK(d), Accounts(b, c),
         c[r].pc = "invoking", d[r].pc # "invoking",
         \A q \in Requests \ {r} : d[q] = c[q]
  PROVE  /\ Accounts(ReleaseProbe(b, c[r].ticket), d)
         /\ ReleaseProbe(b, c[r].ticket).state = b.state
         /\ ReleaseProbe(b, c[r].ticket).generation = b.generation
         /\ DOMAIN ReleaseProbe(b, c[r].ticket) = DOMAIN b
<1> DEFINE e == ReleaseProbe(b, c[r].ticket)
<1>1. \A q \in Requests : d[q].ticket <= b.generation
  <2>1. d[r].ticket = NoTicket
    BY DEF CallsOK
  <2> QED BY <2>1 DEF Accounts, NoTicket
<1>2. ProbesOf(b, d) = ProbesOf(b, c) \ {r}
  BY DEF ProbesOf
<1>3. CASE c[r].ticket = b.generation
  <2>1. r \in ProbesOf(b, c)
    BY <1>3 DEF ProbesOf
  <2>2. Cardinality(ProbesOf(b, d)) = Cardinality(ProbesOf(b, c)) - 1
    BY <1>2, <2>1, ProbesFinite, FS_RemoveElement
  <2>3. Cardinality(ProbesOf(b, d)) \in Nat
    BY ProbesFinite
  <2>4. b.inFlight > 0
    BY <2>2, <2>3 DEF Accounts
  <2>5. c[r].ticket # NoTicket
    BY <1>3 DEF Accounts, NoTicket
  <2>6. e = [b EXCEPT !.inFlight = b.inFlight - 1]
    BY <1>3, <2>4, <2>5 DEF ReleaseProbe
  <2>7. /\ DOMAIN e = DOMAIN b /\ e.state = b.state /\ e.generation = b.generation
        /\ e.inFlight = b.inFlight - 1
    BY <2>6 DEF Accounts
  <2>8. ProbesOf(e, d) = ProbesOf(b, d)
    BY <2>7 DEF ProbesOf
  <2>9. b.state = "half_open" /\ e.inFlight \in Nat /\ e.inFlight <= HalfOpenMaxCalls
    BY <2>4, <2>7, CircuitBreakerAssumption DEF Accounts
  <2> HIDE DEF e
  <2>10. Accounts(e, d)
    BY <1>1, <2>2, <2>7, <2>8, <2>9 DEF Accounts
  <2> QED BY <2>7, <2>10 DEF e
<1>4. CASE c[r].ticket # b.generation
  <2>1. e = b
    BY <1>4 DEF ReleaseProbe
  <2>2. ProbesOf(b, d) = ProbesOf(b, c)
    BY <1>2, <1>4 DEF ProbesOf
  <2> QED BY <1>1, <2>1, <2>2 DEF Accounts
<1> QED BY <1>3, <1>4

\* A recorded success or failure is a release, and perhaps a transition; a stale
\* one is nothing at all.
LEMMA RecordAccounts ==
  ASSUME NEW b, NEW c, NEW d, NEW r \in Requests, CallsOK(c), CallsOK(d), Accounts(b, c),
         c[r].pc = "invoking", d[r].pc # "invoking",
         \A q \in Requests \ {r} : d[q] = c[q], NEW time
  PROVE  /\ Accounts(RecordSuccess(b, c[r].ticket, time), d)
         /\ Accounts(RecordFailure(b, c[r].ticket, time), d)
<1> DEFINE e == ReleaseProbe(b, c[r].ticket)
           won  == [e EXCEPT !.successes = @ + 1]
           lost == [e EXCEPT !.successes = 0, !.window = WindowAfterFailure(@, time)]
<1>1. Accounts(e, d)
  BY ReleaseAccounts
<1>2. /\ DOMAIN won = DOMAIN e /\ won.state = e.state
      /\ won.generation = e.generation /\ won.inFlight = e.inFlight
  BY <1>1 DEF Accounts
<1>3. /\ DOMAIN lost = DOMAIN e /\ lost.state = e.state
      /\ lost.generation = e.generation /\ lost.inFlight = e.inFlight
  BY <1>1 DEF Accounts
<1>4. CASE Stale(b, c[r].ticket)
  <2>1. RecordSuccess(b, c[r].ticket, time) = b /\ RecordFailure(b, c[r].ticket, time) = b
    BY <1>4 DEF RecordSuccess, RecordFailure
  <2>2. e = b
    BY <1>4 DEF Stale, ReleaseProbe
  <2> QED BY <1>1, <2>1, <2>2
<1>5. CASE ~Stale(b, c[r].ticket)
  <2>1. RecordSuccess(b, c[r].ticket, time)
          = IF won.state = "half_open" /\ won.successes >= SuccessThreshold
            THEN ResetMetrics(TransitionTo(won, "closed", time), time) ELSE won
    BY <1>5 DEF RecordSuccess
  <2>2. RecordFailure(b, c[r].ticket, time)
          = IF \/ lost.state = "half_open"
               \/ lost.state = "closed" /\ Len(lost.window) >= FailureThreshold
            THEN TransitionTo(lost, "open", time) ELSE lost
    BY <1>5 DEF RecordFailure
  <2> HIDE DEF e, won, lost
  <2>3. Accounts(won, d) /\ Accounts(lost, d)
    BY <1>1, <1>2, <1>3, SameAccounts
  <2>4. Accounts(TransitionTo(won, "closed", time), d)
        /\ Accounts(TransitionTo(lost, "open", time), d)
    BY <2>3, TransitionAccounts DEF CircuitStates
  <2>5. Accounts(ResetMetrics(TransitionTo(won, "closed", time), time), d)
    BY <2>4, ResetAccounts
  <2> QED BY <2>1, <2>2, <2>3, <2>4, <2>5
<1> QED BY <1>4, <1>5

\* An admission reserves the slot its ticket stands for.
LEMMA ReserveAccounts ==
  ASSUME NEW b, NEW c, NEW d, NEW r \in Requests, CallsOK(c), CallsOK(d), Accounts(b, c),
         Admits(b), c[r].pc # "invoking", d[r].pc = "invoking", d[r].ticket = Ticket(b),
         \A q \in Requests \ {r} : d[q] = c[q]
  PROVE  Accounts(Reserve(b), d)
<1>1. CASE b.state = "half_open"
  <2> DEFINE e == Reserve(b)
  <2>1. e = [b EXCEPT !.inFlight = b.inFlight + 1] /\ Ticket(b) = b.generation
    BY <1>1 DEF Reserve, Ticket
  <2>2. b.inFlight < HalfOpenMaxCalls
    BY <1>1 DEF Admits
  <2>3. /\ DOMAIN e = DOMAIN b /\ e.state = b.state /\ e.generation = b.generation
        /\ e.inFlight = b.inFlight + 1
    BY <2>1 DEF Accounts
  <2>4. ProbesOf(e, d) = ProbesOf(b, c) \cup {r} /\ r \notin ProbesOf(b, c)
    BY <2>1, <2>3 DEF ProbesOf
  <2>5. Cardinality(ProbesOf(e, d)) = Cardinality(ProbesOf(b, c)) + 1
    BY <2>4, ProbesFinite, FS_AddElement
  <2>6. \A q \in Requests : d[q].ticket <= e.generation
    BY <2>1, <2>3 DEF Accounts
  <2>7. e.inFlight \in Nat /\ e.inFlight <= HalfOpenMaxCalls
    BY <2>2, <2>3, CircuitBreakerAssumption DEF Accounts
  <2> HIDE DEF e
  <2>8. Accounts(e, d)
    BY <1>1, <2>3, <2>5, <2>6, <2>7 DEF Accounts
  <2> QED BY <2>8 DEF e
<1>2. CASE b.state # "half_open"
  <2>1. Reserve(b) = b /\ d[r].ticket = NoTicket
    BY <1>2 DEF Reserve, Ticket
  <2>2. ProbesOf(b, d) = ProbesOf(b, c)
    BY <2>1 DEF ProbesOf, Accounts, NoTicket
  <2>3. \A q \in Requests : d[q].ticket <= b.generation
    BY <2>1 DEF Accounts, NoTicket
  <2> QED BY <2>1, <2>2, <2>3 DEF Accounts
<1> QED BY <1>1, <1>2

\* A slot that is given back at once leaves the accounts as they were.
LEMMA ReturnedSlotAccounts ==
  ASSUME NEW b, NEW c, Accounts(b, c)
  PROVE  Accounts(ReleaseProbe(Reserve(b), Ticket(b)), c)
<1> DEFINE e == ReleaseProbe(Reserve(b), Ticket(b))
<1>1. CASE b.state = "half_open"
  <2> DEFINE a == Reserve(b)
  <2>1. a = [b EXCEPT !.inFlight = b.inFlight + 1] /\ Ticket(b) = b.generation
    BY <1>1 DEF Reserve, Ticket
  <2>2. /\ DOMAIN a = DOMAIN b /\ a.state = b.state /\ a.generation = b.generation
        /\ a.inFlight = b.inFlight + 1
    BY <2>1 DEF Accounts
  <2> HIDE DEF a
  <2>3. ReleaseProbe(a, Ticket(b)) = [a EXCEPT !.inFlight = a.inFlight - 1]
    BY <2>1, <2>2 DEF ReleaseProbe, Accounts, NoTicket
  <2>4. /\ DOMAIN e = DOMAIN b /\ e.state = b.state /\ e.generation = b.generation
        /\ e.inFlight = b.inFlight
    BY <2>2, <2>3 DEF Accounts, a
  <2> HIDE DEF e
  <2>5. Accounts(e, c)
    BY <2>4, SameAccounts
  <2> QED BY <2>5 DEF e
<1>2. CASE b.state # "half_open"
  BY <1>2 DEF Reserve, Ticket, ReleaseProbe
<1> QED BY <1>1, <1>2

\* A call that holds no ticket may change in any way that gives it none.
LEMMA OtherCallAccounts ==
  ASSUME NEW b, NEW c, NEW d, NEW r \in Requests, CallsOK(c), CallsOK(d), Accounts(b, c),
         c[r].pc # "invoking", d[r].pc # "invoking",
         \A q \in Requests \ {r} : d[q] = c[q]
  PROVE  Accounts(b, d)
<1>1. ProbesOf(b, d) = ProbesOf(b, c)
  BY DEF ProbesOf
<1>2. \A q \in Requests : d[q].ticket <= b.generation
  BY DEF CallsOK, Accounts, NoTicket
<1> QED BY <1>1, <1>2 DEF Accounts

-----------------------------------------------------------------------------
(* The coordinator. *)

LEMMA InitSlots == Init => SlotsInv
<1> SUFFICES ASSUME Init PROVE SlotsInv
  OBVIOUS
<1>1. now \in Nat /\ CallsOK(call)
  BY RuntimeCoordinatorAssumption DEF Init, CallsOK, Calls, Pcs, Outcomes, NoTicket
<1>2. ProbesOf(breaker, call) = {}
  BY DEF Init, ProbesOf
<1>3. Cardinality(ProbesOf(breaker, call)) = 0
  BY <1>2, FS_EmptySet
<1>4. Accounts(breaker, call)
  BY <1>3, CircuitBreakerAssumption
     DEF Init, NewBreaker, Accounts, CircuitStates, NoTicket
<1> QED BY <1>1, <1>4 DEF SlotsInv

\* The end of a call leaves a well-formed call without a ticket.
LEMMA EndTyped ==
  ASSUME CallsOK(call), NEW r \in Requests, NEW outcome \in Outcomes, End(r, outcome)
  PROVE  /\ CallsOK(call')
         /\ call'[r].pc = "done"
         /\ \A q \in Requests \ {r} : call'[q] = call[q]
BY ZenonT(30) DEF End, CallsOK, Calls, Pcs, NoTicket

\* Every step of a call keeps the accounts.
LEMMA StepSlots ==
  ASSUME SlotsInv, NEW r \in Requests, Step(r)
  PROVE  SlotsInv'
<1> USE DEF SlotsInv
<1>0. Accounts(EvaluateState(breaker, now), call)
  BY EvaluateAccounts
<1>1. CASE GiveUp(r)
  BY <1>1, EndTyped, OtherCallAccounts DEF GiveUp, Due, Outcomes
<1>2. CASE DenyByBreaker(r)
  <2>1. CallsOK(call') /\ call'[r].pc = "done"
        /\ \A q \in Requests \ {r} : call'[q] = call[q]
    BY <1>2, EndTyped DEF DenyByBreaker, Outcomes
  <2> QED BY <1>0, <1>2, <2>1, OtherCallAccounts DEF DenyByBreaker, Due
<1>3. CASE DenyByLimiter(r)
  <2>1. CallsOK(call') /\ call'[r].pc = "done"
        /\ \A q \in Requests \ {r} : call'[q] = call[q]
    BY <1>3, EndTyped DEF DenyByLimiter, Outcomes
  <2>2. Accounts(breaker', call)
    BY <1>0, <1>3, ReturnedSlotAccounts DEF DenyByLimiter
  <2> QED BY <1>3, <2>1, <2>2, OtherCallAccounts DEF DenyByLimiter, Due
<1>4. CASE Invoke(r)
  <2> DEFINE b == EvaluateState(breaker, now)
  <2>1. /\ Admits(b) /\ breaker' = Reserve(b) /\ now' = now /\ call[r].pc # "invoking"
        /\ call' = [call EXCEPT ![r].pc = "invoking", ![r].ticket = Ticket(b),
                                ![r].start = StartTime(r)]
    BY <1>4 DEF Invoke, Due
  <2>2. Ticket(b) \in Nat \cup {NoTicket}
    BY <1>0 DEF Ticket, Accounts
  <2>3. StartTime(r) \in Nat
    BY DEF StartTime, CallsOK, Calls
  <2> HIDE DEF b
  <2>4. CallsOK(call')
    <3> DEFINE ticket == Ticket(b)
               start  == StartTime(r)
               c == [call[r] EXCEPT !.pc = "invoking", !.ticket = ticket, !.start = start]
    <3>1. call' = [call EXCEPT ![r] = c]
      BY <2>1 DEF CallsOK
    <3>2. ticket \in Nat \cup {NoTicket} /\ start \in Nat
      BY <2>2, <2>3
    <3> HIDE DEF ticket, start
    <3>3. c \in Calls /\ c.pc = "invoking"
      BY <3>2 DEF CallsOK, Calls, Pcs
    <3> HIDE DEF c
    <3> QED BY <3>1, <3>3 DEF CallsOK
  <2>5. call'[r].pc = "invoking" /\ call'[r].ticket = Ticket(b)
        /\ \A q \in Requests \ {r} : call'[q] = call[q]
    BY <2>1 DEF CallsOK, Calls
  <2>6. Accounts(b, call)
    BY <1>0 DEF b
  <2> QED BY <2>1, <2>4, <2>5, <2>6, ReserveAccounts
<1>5. CASE Succeed(r)
  <2>1. CallsOK(call') /\ call'[r].pc = "done"
        /\ \A q \in Requests \ {r} : call'[q] = call[q]
    BY <1>5, EndTyped DEF Succeed, Outcomes
  <2>2. /\ breaker' = RecordSuccess(breaker, call[r].ticket, now) /\ now' = now
        /\ call[r].pc = "invoking"
    BY <1>5 DEF Succeed
  <2>3. Accounts(RecordSuccess(breaker, call[r].ticket, now), call')
    BY <2>1, <2>2, RecordAccounts
  <2> QED BY <2>1, <2>2, <2>3
<1>6. ASSUME NEW listed \in BOOLEAN, FailTransiently(r, listed)
      PROVE  SlotsInv'
  <2>1. CallsOK(call') /\ call'[r].pc # "invoking"
        /\ \A q \in Requests \ {r} : call'[q] = call[q]
    <3>1. CASE ShouldRetry(r, listed)
      <4> DEFINE n == call[r].attempt + 1
      <4>1. call' = [call EXCEPT ![r].pc = "sleeping", ![r].ticket = NoTicket,
                                 ![r].attempt = n]
        BY <1>6, <3>1 DEF FailTransiently
      <4>2. n \in 0 .. MaxRetries
        BY <3>1, RuntimeCoordinatorAssumption DEF ShouldRetry, CallsOK, Calls
      <4> HIDE DEF n
      <4>3. call \in [Requests -> Calls] /\ call[r] \in Calls
        BY DEF CallsOK
      <4>4. PICK c : c = [call[r] EXCEPT !.pc = "sleeping", !.ticket = NoTicket, !.attempt = n]
        OBVIOUS
      <4>5. c \in Calls /\ c.pc = "sleeping" /\ c.ticket = NoTicket
        BY <4>2, <4>3, <4>4 DEF Calls, Pcs, NoTicket
      <4>6. call' = [call EXCEPT ![r] = c]
        BY <4>1, <4>3, <4>4
      <4>7. call' \in [Requests -> Calls] /\ call'[r] = c
            /\ \A q \in Requests \ {r} : call'[q] = call[q]
        BY <4>3, <4>5, <4>6
      <4> QED BY <4>5, <4>7 DEF CallsOK
    <3>2. CASE ~ShouldRetry(r, listed)
      BY <1>6, <3>2, EndTyped DEF FailTransiently, Outcomes
    <3> QED BY <3>1, <3>2
  <2>2. /\ breaker' = RecordFailure(breaker, call[r].ticket, now) /\ now' = now
        /\ call[r].pc = "invoking"
    BY <1>6 DEF FailTransiently
  <2>3. Accounts(RecordFailure(breaker, call[r].ticket, now), call')
    BY <2>1, <2>2, RecordAccounts
  <2> QED BY <2>1, <2>2, <2>3
<1>7. CASE FailFatally(r)
  <2>1. CallsOK(call') /\ call'[r].pc = "done"
        /\ \A q \in Requests \ {r} : call'[q] = call[q]
    BY <1>7, EndTyped DEF FailFatally, Outcomes
  <2>2. /\ breaker' = ReleaseProbe(breaker, call[r].ticket) /\ now' = now
        /\ call[r].pc = "invoking"
    BY <1>7 DEF FailFatally
  <2>3. Accounts(ReleaseProbe(breaker, call[r].ticket), call')
    BY <2>1, <2>2, ReleaseAccounts
  <2> QED BY <2>1, <2>2, <2>3
<1>8. CASE CancelCall(r)
  <2>1. call' = [call EXCEPT ![r].pc = "cancelled", ![r].ticket = NoTicket] /\ now' = now
    BY <1>8 DEF CancelCall
  <2>2. CallsOK(call') /\ call'[r].pc = "cancelled"
        /\ \A q \in Requests \ {r} : call'[q] = call[q]
    BY <2>1 DEF CallsOK, Calls, Pcs, NoTicket
  <2>3. CASE call[r].pc = "invoking"
    <3>1. breaker' = ReleaseProbe(breaker, call[r].ticket)
      BY <1>8, <2>3 DEF CancelCall
    <3>2. Accounts(ReleaseProbe(breaker, call[r].ticket), call')
      BY <2>2, <2>3, ReleaseAccounts
    <3> QED BY <2>1, <2>2, <3>1, <3>2
  <2>4. CASE call[r].pc # "invoking"
    <3>1. breaker' = breaker
      BY <1>8, <2>4 DEF CancelCall
    <3>2. Accounts(breaker, call')
      BY <2>2, <2>4, OtherCallAccounts
    <3> QED BY <2>1, <2>2, <3>1, <3>2
  <2> QED BY <2>3, <2>4
<1> QED BY <1>1, <1>2, <1>3, <1>4, <1>5, <1>6, <1>7, <1>8 DEF Step

\* The accounts are kept by every step of the coordinator.
THEOREM SlotsInvariance == Spec => []SlotsInv
<1>1. ASSUME SlotsInv, [Next]_vars
      PROVE  SlotsInv'
  <2>1. CASE UNCHANGED vars
    <3>1. now' = now /\ call' = call /\ breaker' = breaker
      BY <2>1 DEF vars
    <3>2. CallsOK(call') /\ Accounts(breaker', call')
      BY <1>1, <3>1 DEF SlotsInv
    <3> QED BY <1>1, <3>1, <3>2 DEF SlotsInv
  <2>2. CASE ResetBreaker
    <3>1. Accounts(TransitionTo(breaker, "closed", now), call)
      BY <1>1, TransitionAccounts DEF SlotsInv, CircuitStates
    <3>2. Accounts(breaker', call)
      BY <2>2, <3>1, ResetAccounts DEF ResetBreaker, Reset
    <3> QED BY <1>1, <2>2, <3>2 DEF ResetBreaker, SlotsInv
  <2>3. CASE Tick
    BY <1>1, <2>3 DEF Tick, SlotsInv
  <2>4. CASE \E r \in Requests : Step(r)
    BY <1>1, <2>4, StepSlots
  <2> QED BY <1>1, <2>1, <2>2, <2>3, <2>4 DEF Next
<1> QED BY <1>1, InitSlots, PTL DEF Spec

\* half_open_in_flight is the number of the episode's probes at the provider, for
\* any number of calls however they end.
THEOREM ProbeSlotsAccounted == Spec => []ProbeSlotsExact
<1>1. SlotsInv => ProbeSlotsExact
  BY DEF SlotsInv, Accounts, ProbeSlotsExact, Probes, ProbesOf
<1> QED BY <1>1, SlotsInvariance, PTL

\* At most half_open_max_calls probes are out at a time.
THEOREM ProbesLimited == Spec => []ProbeLimit
<1>1. SlotsInv => ProbeLimit
  BY DEF SlotsInv, Accounts, ProbeLimit, Probes, ProbesOf
<1> QED BY <1>1, SlotsInvariance, PTL

\* The end of a call whose probe belongs to an earlier episode leaves the breaker
\* as it is.
THEOREM StaleIgnored == Spec => StaleProbesIgnored
<1>1. ASSUME SlotsInv, Next, NEW r \in Requests,
             call[r].pc = "invoking", call'[r].pc # "invoking",
             call[r].ticket # NoTicket, call[r].ticket # breaker.generation
      PROVE  breaker' = breaker
  <2>1. \A q \in Requests : Step(q) => q = r
    <3> SUFFICES ASSUME NEW q \in Requests, Step(q), q # r PROVE FALSE
      OBVIOUS
    <3>1. call'[r] = call[r]
      BY <1>1 DEF Step, GiveUp, DenyByBreaker, DenyByLimiter, Invoke, Succeed,
                  FailTransiently, FailFatally, CancelCall, End, SlotsInv, CallsOK
    <3> QED BY <1>1, <3>1
  <2>2. Stale(breaker, call[r].ticket)
    BY <1>1 DEF Stale
  <2>3. /\ RecordSuccess(breaker, call[r].ticket, now) = breaker
        /\ RecordFailure(breaker, call[r].ticket, now) = breaker
        /\ ReleaseProbe(breaker, call[r].ticket) = breaker
    BY <1>1, <2>2 DEF RecordSuccess, RecordFailure, ReleaseProbe
  <2>4. CASE Step(r)
    BY <1>1, <2>3, <2>4 DEF Step, GiveUp, DenyByBreaker, DenyByLimiter, Invoke, Due,
         Succeed, FailTransiently, FailFatally, CancelCall
  <2>5. CASE ResetBreaker \/ Tick \/ UNCHANGED vars
    BY <1>1, <2>5 DEF ResetBreaker, Tick, vars
  <2> QED BY <1>1, <2>1, <2>4, <2>5 DEF Next
<1>2. SlotsInv /\ [Next]_vars
      => [\A r \in Requests :
            /\ call[r].pc = "invoking" /\ call'[r].pc # "invoking"
            /\ call[r].ticket # NoTicket /\ call[r].ticket # breaker.generation
            => breaker' = breaker]_vars
  BY <1>1
<1> QED BY <1>2, SlotsInvariance, PTL DEF Spec, StaleProbesIgnored
-----------------------------------------------------------------------------
(* The limiter's concurrent slots. *)

\* The calls of c that are at the provider.
InvokingOf(c) == {r \in Requests : c[r].pc = "invoking"}

\* n slots are in use for the calls c, within the policy's limit.
Holds(n, c) == /\ n \in Nat /\ n <= ConcurrentRequests
               /\ n = Cardinality(InvokingOf(c))

ConcInv == Holds(concurrent, call)

\* A call that neither reaches nor leaves the provider changes no slot.
LEMMA OtherCallHolds ==
  ASSUME NEW n, NEW c, NEW d, NEW r \in Requests, Holds(n, c),
         c[r].pc # "invoking", d[r].pc # "invoking",
         \A q \in Requests \ {r} : d[q] = c[q]
  PROVE  Holds(n, d)
<1>1. InvokingOf(d) = InvokingOf(c)
  BY DEF InvokingOf
<1> QED BY <1>1 DEF Holds

\* A call that reaches the provider takes one slot, if one is free.
LEMMA InvokeHolds ==
  ASSUME NEW n, NEW c, NEW d, NEW r \in Requests, Holds(n, c), n < ConcurrentRequests,
         c[r].pc # "invoking", d[r].pc = "invoking",
         \A q \in Requests \ {r} : d[q] = c[q]
  PROVE  Holds(n + 1, d)
<1>1. IsFiniteSet(InvokingOf(c))
  BY FS_Subset, RuntimeCoordinatorAssumption DEF InvokingOf
<1>2. InvokingOf(d) = InvokingOf(c) \cup {r} /\ r \notin InvokingOf(c)
  BY DEF InvokingOf
<1>3. Cardinality(InvokingOf(d)) = Cardinality(InvokingOf(c)) + 1
  BY <1>1, <1>2, FS_AddElement
<1> QED BY <1>3, RuntimeCoordinatorAssumption DEF Holds

\* A call that leaves the provider gives one slot back; the floor at zero of
\* release_concurrent is never what keeps the counter in range.
LEMMA ReturnHolds ==
  ASSUME NEW n, NEW c, NEW d, NEW r \in Requests, Holds(n, c),
         c[r].pc = "invoking", d[r].pc # "invoking",
         \A q \in Requests \ {r} : d[q] = c[q]
  PROVE  Holds(Released(n), d)
<1>1. IsFiniteSet(InvokingOf(c))
  BY FS_Subset, RuntimeCoordinatorAssumption DEF InvokingOf
<1>2. InvokingOf(d) = InvokingOf(c) \ {r} /\ r \in InvokingOf(c)
  BY DEF InvokingOf
<1>3. Cardinality(InvokingOf(d)) = Cardinality(InvokingOf(c)) - 1
  BY <1>1, <1>2, FS_RemoveElement
<1>4. InvokingOf(c) # {}
  BY <1>2
<1>5. n # 0
  BY <1>1, <1>4, FS_EmptySet DEF Holds
<1> QED BY <1>3, <1>5, RuntimeCoordinatorAssumption DEF Holds, Released

\* The calls other than r stay as they are, and r ends where its step says.
LEMMA StepCall ==
  ASSUME CallsOK(call), NEW r \in Requests, Step(r)
  PROVE  \A q \in Requests \ {r} : call'[q] = call[q]
<1> SUFFICES ASSUME NEW q \in Requests \ {r} PROVE call'[q] = call[q]
  OBVIOUS
<1> QED BY DEF Step, GiveUp, DenyByBreaker, DenyByLimiter, Invoke, Succeed, FailTransiently,
              FailFatally, CancelCall, End, CallsOK

\* Every step of a call keeps the concurrent slots accounted.
LEMMA StepHolds ==
  ASSUME CallsOK(call), ConcInv, NEW r \in Requests, Step(r)
  PROVE  ConcInv'
<1> USE DEF ConcInv
<1>0. \A q \in Requests \ {r} : call'[q] = call[q]
  BY StepCall
<1>1. CASE GiveUp(r) \/ DenyByBreaker(r) \/ DenyByLimiter(r)
  <2>1. concurrent' = concurrent /\ call[r].pc # "invoking" /\ call'[r].pc # "invoking"
    BY <1>1 DEF GiveUp, DenyByBreaker, DenyByLimiter, Due, End, CallsOK, Calls
  <2> QED BY <1>0, <2>1, OtherCallHolds
<1>2. CASE Invoke(r)
  <2>1. /\ concurrent' = concurrent + 1 /\ concurrent < ConcurrentRequests
        /\ call[r].pc # "invoking" /\ call'[r].pc = "invoking"
    BY <1>2 DEF Invoke, Due, ConcurrencyAllows, CallsOK, Calls
  <2> QED BY <1>0, <2>1, InvokeHolds
<1>3. ASSUME Succeed(r) \/ FailFatally(r) \/ \E listed \in BOOLEAN : FailTransiently(r, listed)
      PROVE  ConcInv'
  <2>1. /\ concurrent' = Released(concurrent)
        /\ call[r].pc = "invoking" /\ call'[r].pc # "invoking"
    BY <1>3 DEF Succeed, FailFatally, FailTransiently, End, CallsOK, Calls
  <2> QED BY <1>0, <2>1, ReturnHolds
<1>4. CASE CancelCall(r)
  <2>1. call'[r].pc # "invoking"
    BY <1>4 DEF CancelCall, CallsOK, Calls
  <2>2. CASE call[r].pc = "invoking"
    <3>1. concurrent' = Released(concurrent)
      BY <1>4, <2>2 DEF CancelCall
    <3> QED BY <1>0, <2>1, <2>2, <3>1, ReturnHolds
  <2>3. CASE call[r].pc # "invoking"
    <3>1. concurrent' = concurrent
      BY <1>4, <2>3 DEF CancelCall
    <3> QED BY <1>0, <2>1, <2>3, <3>1, OtherCallHolds
  <2> QED BY <2>2, <2>3
<1> QED BY <1>1, <1>2, <1>3, <1>4 DEF Step

\* The limiter's counter is the number of calls at the provider and never above
\* concurrent_requests, for any number of calls however they end.
THEOREM ConcurrencyAccounted == Spec => []ConcurrencyExact
<1>1. Init => ConcInv
  <2> SUFFICES ASSUME Init PROVE ConcInv
    OBVIOUS
  <2>1. InvokingOf(call) = {}
    BY DEF Init, InvokingOf
  <2>2. Cardinality(InvokingOf(call)) = 0
    BY <2>1, FS_EmptySet
  <2> QED BY <2>2, RuntimeCoordinatorAssumption DEF Init, ConcInv, Holds
<1>2. SlotsInv /\ ConcInv /\ [Next]_vars => ConcInv'
  <2> SUFFICES ASSUME SlotsInv, ConcInv, [Next]_vars PROVE ConcInv'
    OBVIOUS
  <2>1. CASE \E r \in Requests : Step(r)
    BY <2>1, StepHolds DEF SlotsInv
  <2>2. CASE ResetBreaker \/ Tick \/ UNCHANGED vars
    BY <2>2 DEF ResetBreaker, Tick, vars, ConcInv, Holds, InvokingOf
  <2> QED BY <2>1, <2>2 DEF Next
<1>3. ConcInv => ConcurrencyExact
  BY DEF ConcInv, Holds, InvokingOf, ConcurrencyExact, Invoking
<1> QED BY <1>1, <1>2, <1>3, SlotsInvariance, PTL DEF Spec
-----------------------------------------------------------------------------
(* Windows over the times of past events. *)

\* rest is what is left of the times events when the oldest, all of them before
\* start, are forgotten.
Suffix(events, rest, start) ==
  /\ Len(rest) <= Len(events)
  /\ \A i \in 1 .. Len(rest) : rest[i] = events[Len(events) - Len(rest) + i]
  /\ \A i \in 1 .. Len(events) - Len(rest) : events[i] < start

\* Dropping from the left while the oldest time is before start.
LEMMA SinceDrops ==
  ASSUME NEW times \in Seq(Nat), NEW start \in Int
  PROVE  /\ Since(times, start) \in Seq(Nat)
         /\ Suffix(times, Since(times, start), start)
         /\ Len(Since(times, start)) > 0 => Since(times, start)[1] >= start
<1> DEFINE P(k) == /\ \A i \in 1 .. k - 1 : times[i] < start
                   /\ k <= Len(times) => times[k] >= start
           first == CHOOSE k \in 1 .. Len(times) + 1 : P(k)
           kept == {k \in 1 .. Len(times) + 1 : k <= Len(times) => times[k] >= start}
<1>1. Len(times) \in Nat /\ \A i \in 1 .. Len(times) : times[i] \in Nat
  BY LenProperties, ElementOfSeq
<1>2. \E k \in 1 .. Len(times) + 1 : P(k)
  <2>1. kept \in SUBSET Nat /\ Len(times) + 1 \in kept
    BY <1>1
  <2>2. PICK m \in kept : \A n \in kept : m <= n
    <3> HIDE DEF kept
    <3> QED BY <2>1, LeastNatural
  <2>3. \A i \in 1 .. m - 1 : i \notin kept /\ i \in 1 .. Len(times)
    BY <1>1, <2>1, <2>2
  <2>4. P(m) /\ m \in 1 .. Len(times) + 1
    BY <1>1, <2>2, <2>3
  <2> QED BY <2>4
<1>3. first \in 1 .. Len(times) + 1 /\ P(first)
  <2> HIDE DEF P
  <2> QED BY <1>2
<1>4. Since(times, start) = SubSeq(times, first, Len(times))
  BY DEF Since
<1> HIDE DEF first
<1> DEFINE rest == SubSeq(times, first, Len(times))
<1>5. /\ rest \in Seq(Nat) /\ Len(rest) = Len(times) - first + 1
      /\ \A i \in 1 .. Len(times) - first + 1 : rest[i] = times[first + i - 1]
  <2>1. \A i \in first .. Len(times) : times[i] \in Nat
    BY <1>1, <1>3
  <2>2. /\ rest \in Seq(Nat)
        /\ Len(rest) = IF first <= Len(times) THEN Len(times) - first + 1 ELSE 0
        /\ \A i \in 1 .. Len(times) - first + 1 : rest[i] = times[first + i - 1]
    BY <1>1, <1>3, <2>1, SubSeqProperties
  <2> QED BY <1>1, <1>3, <2>2
<1> HIDE DEF rest
<1>6. Suffix(times, rest, start)
  BY <1>1, <1>3, <1>5 DEF Suffix
<1>7. Len(rest) > 0 => rest[1] >= start
  <2>1. first + 1 - 1 = first
    BY <1>3
  <2>2. Len(rest) > 0 => 1 \in 1 .. Len(times) - first + 1 /\ first <= Len(times)
    BY <1>1, <1>3, <1>5
  <2>3. Len(rest) > 0 => rest[1] = times[first]
    BY <1>5, <2>1, <2>2
  <2> QED BY <1>3, <2>2, <2>3
<1> QED BY <1>4, <1>5, <1>6, <1>7 DEF rest

\* Forgetting again, later, is forgetting once.
LEMMA SuffixAgain ==
  ASSUME NEW events \in Seq(Nat), NEW rest \in Seq(Nat), NEW last \in Seq(Nat),
         NEW early \in Int, NEW late \in Int, early <= late,
         Suffix(events, rest, early), Suffix(rest, last, late)
  PROVE  Suffix(events, last, late)
<1>1. /\ Len(events) \in Nat /\ Len(rest) \in Nat /\ Len(last) \in Nat
      /\ \A i \in 1 .. Len(events) : events[i] \in Nat
  BY LenProperties, ElementOfSeq
<1>2. \A i \in 1 .. Len(last) : last[i] = events[Len(events) - Len(last) + i]
  <2> SUFFICES ASSUME NEW i \in 1 .. Len(last)
               PROVE  last[i] = events[Len(events) - Len(last) + i]
    OBVIOUS
  <2>1. PICK j : j = Len(rest) - Len(last) + i
    OBVIOUS
  <2>2. last[i] = rest[j] /\ j \in 1 .. Len(rest)
    BY <1>1, <2>1 DEF Suffix
  <2>3. rest[j] = events[Len(events) - Len(rest) + j]
    BY <2>2 DEF Suffix
  <2>4. Len(events) - Len(rest) + j = Len(events) - Len(last) + i
    BY <1>1, <2>1
  <2> QED BY <2>2, <2>3, <2>4
<1>3. \A i \in 1 .. Len(events) - Len(last) : events[i] < late
  <2> SUFFICES ASSUME NEW i \in 1 .. Len(events) - Len(last) PROVE events[i] < late
    OBVIOUS
  <2>1. CASE i <= Len(events) - Len(rest)
    BY <1>1, <2>1 DEF Suffix
  <2>2. CASE i > Len(events) - Len(rest)
    <3>1. PICK j : j = i - (Len(events) - Len(rest))
      OBVIOUS
    <3>2. j \in 1 .. Len(rest) - Len(last) /\ j \in 1 .. Len(rest)
      BY <1>1, <2>2, <3>1 DEF Suffix
    <3>3. rest[j] < late /\ rest[j] = events[Len(events) - Len(rest) + j]
      BY <3>2 DEF Suffix
    <3>4. Len(events) - Len(rest) + j = i
      BY <1>1, <3>1
    <3> QED BY <3>3, <3>4
  <2> QED BY <1>1, <2>1, <2>2
<1> QED BY <1>1, <1>2, <1>3 DEF Suffix

\* Both grow by the next event.
LEMMA SuffixGrows ==
  ASSUME NEW events \in Seq(Nat), NEW rest \in Seq(Nat), NEW start \in Int, NEW time \in Nat,
         Suffix(events, rest, start)
  PROVE  Suffix(Append(events, time), Append(rest, time), start)
<1>1. /\ Len(events) \in Nat /\ Len(rest) \in Nat
      /\ Len(Append(events, time)) = Len(events) + 1 /\ Len(Append(rest, time)) = Len(rest) + 1
      /\ \A i \in 1 .. Len(events) : Append(events, time)[i] = events[i]
      /\ \A i \in 1 .. Len(rest) : Append(rest, time)[i] = rest[i]
      /\ Append(events, time)[Len(events) + 1] = time
      /\ Append(rest, time)[Len(rest) + 1] = time
  BY LenProperties, AppendProperties
<1>2. ASSUME NEW i \in 1 .. Len(rest) + 1
      PROVE  Append(rest, time)[i] = Append(events, time)[Len(events) - Len(rest) + i]
  <2>1. CASE i = Len(rest) + 1
    BY <1>1, <2>1
  <2>2. CASE i # Len(rest) + 1
    <3>1. i \in 1 .. Len(rest) /\ Len(events) - Len(rest) + i \in 1 .. Len(events)
      BY <1>1, <2>2 DEF Suffix
    <3> QED BY <1>1, <3>1 DEF Suffix
  <2> QED BY <2>1, <2>2
<1>3. \A i \in 1 .. Len(events) - Len(rest) : Append(events, time)[i] < start
  BY <1>1 DEF Suffix
<1>4. \A i \in 1 .. Len(rest) + 1 :
        Append(rest, time)[i] = Append(events, time)[(Len(events) + 1) - (Len(rest) + 1) + i]
  <2>1. (Len(events) + 1) - (Len(rest) + 1) = Len(events) - Len(rest)
    BY <1>1
  <2> QED BY <1>2, <2>1
<1>5. (Len(events) + 1) - (Len(rest) + 1) = Len(events) - Len(rest)
      /\ Len(rest) + 1 <= Len(events) + 1
  BY <1>1 DEF Suffix
<1> QED BY <1>1, <1>3, <1>4, <1>5 DEF Suffix

-----------------------------------------------------------------------------
(* The rate window. *)

\* The limiter has forgotten only invocations that have left the window.
RateInv ==
  /\ timestamps \in Seq(Nat) /\ invoked \in Seq(Nat)
  /\ Suffix(invoked, timestamps, now - RateWindow)
  /\ RateWindowHeld

\* Pruning keeps it.
LEMMA PrunedRate ==
  ASSUME now \in Nat, RateInv
  PROVE  /\ Pruned(timestamps) \in Seq(Nat)
         /\ Suffix(invoked, Pruned(timestamps), now - RateWindow)
<1>1. now - RateWindow \in Int
  BY RuntimeCoordinatorAssumption
<1>2. Pruned(timestamps) \in Seq(Nat)
      /\ Suffix(timestamps, Pruned(timestamps), now - RateWindow)
  BY <1>1, SinceDrops DEF Pruned, RateInv
<1> QED BY <1>1, <1>2, SuffixAgain DEF RateInv

LEMMA InvokeRate ==
  ASSUME now \in Nat, RateInv, NEW r \in Requests, Invoke(r)
  PROVE  RateInv'
<1> DEFINE rest == Pruned(timestamps)
<1>0. now - RateWindow \in Int /\ RateWindow \in Nat /\ RequestsPerWindow \in Nat
  BY RuntimeCoordinatorAssumption
<1>1. /\ timestamps' = Append(rest, now) /\ invoked' = Append(invoked, now) /\ now' = now
      /\ Len(rest) < RequestsPerWindow
  BY DEF Invoke, RateAllows
<1>2. rest \in Seq(Nat) /\ Suffix(invoked, rest, now - RateWindow)
  BY PrunedRate
<1> HIDE DEF rest
<1>3. invoked \in Seq(Nat)
  BY DEF RateInv
<1>4. Suffix(invoked', timestamps', now' - RateWindow)
  BY <1>0, <1>1, <1>2, <1>3, SuffixGrows
<1>5. timestamps' \in Seq(Nat) /\ invoked' \in Seq(Nat)
  BY <1>1, <1>2, <1>3, AppendProperties
<1>6. /\ Len(invoked) \in Nat /\ Len(invoked') = Len(invoked) + 1 /\ Len(rest) \in Nat
      /\ \A i \in 1 .. Len(invoked) : invoked'[i] = invoked[i] /\ invoked[i] \in Nat
      /\ invoked'[Len(invoked) + 1] = now
      /\ DOMAIN invoked = 1 .. Len(invoked) /\ DOMAIN invoked' = 1 .. Len(invoked) + 1
  BY <1>1, <1>2, <1>3, <1>5, LenProperties, ElementOfSeq, AppendProperties
<1>7. ASSUME NEW i \in 1 .. Len(invoked) + 1, NEW j \in 1 .. Len(invoked) + 1,
             j - i >= RequestsPerWindow
      PROVE  invoked'[j] - invoked'[i] > RateWindow
  <2>1. CASE j <= Len(invoked)
    <3>1. i <= j
      BY <1>0, <1>7
    <3>2. i \in 1 .. Len(invoked) /\ j \in 1 .. Len(invoked)
      BY <1>6, <2>1, <3>1
    <3> QED BY <1>6, <1>7, <3>2 DEF RateInv, RateWindowHeld
  <2>2. CASE j > Len(invoked)
    <3>1. j = Len(invoked) + 1 /\ i \in 1 .. Len(invoked) - Len(rest) /\ i \in 1 .. Len(invoked)
      <4>1. PICK n, m : n = Len(invoked) /\ m = Len(rest)
        OBVIOUS
      <4>2. n \in Nat /\ m \in Nat /\ m < RequestsPerWindow /\ i \in 1 .. n + 1 /\ j = n + 1
        BY <1>1, <1>6, <2>2, <4>1
      <4>3. i \in 1 .. n - m /\ i \in 1 .. n
        BY <1>0, <1>7, <4>2
      <4> QED BY <4>1, <4>2, <4>3
    <3>2. invoked[i] < now - RateWindow
      BY <1>2, <3>1 DEF Suffix
    <3> QED BY <1>0, <1>6, <3>1, <3>2
  <2> QED BY <1>6, <2>1, <2>2
<1>8. RateWindowHeld'
  BY <1>6, <1>7 DEF RateWindowHeld
<1> QED BY <1>4, <1>5, <1>8 DEF RateInv

LEMMA LaterSuffix ==
  ASSUME NEW events \in Seq(Nat), NEW rest \in Seq(Nat), NEW early \in Int, NEW late \in Int,
         early <= late, Suffix(events, rest, early)
  PROVE  Suffix(events, rest, late)
<1>1. \A i \in 1 .. Len(events) - Len(rest) : events[i] \in Nat
  BY LenProperties, ElementOfSeq
<1> QED BY <1>1 DEF Suffix

\* No window of the limiter's length sees more provider calls than the policy
\* allows, for any number of concurrent calls, retries and denials.
THEOREM RateHeld == Spec => []RateWindowHeld
<1>1. Init => RateInv
  <2> SUFFICES ASSUME Init PROVE RateInv
    OBVIOUS
  <2>1. timestamps = <<>> /\ invoked = <<>> /\ <<>> \in Seq(Nat) /\ Len(<<>>) = 0
        /\ DOMAIN <<>> = {}
    BY EmptySeq DEF Init
  <2> QED BY <2>1 DEF RateInv, Suffix, RateWindowHeld
<1>2. SlotsInv /\ RateInv /\ [Next]_vars => RateInv'
  <2> SUFFICES ASSUME SlotsInv, RateInv, [Next]_vars PROVE RateInv'
    OBVIOUS
  <2>0. now \in Nat
    BY DEF SlotsInv
  <2>1. CASE UNCHANGED <<now, timestamps, invoked>>
    BY <2>1 DEF RateInv, RateWindowHeld
  <2>2. CASE Tick
    <3>1. now' = now + 1 /\ UNCHANGED <<timestamps, invoked>>
      BY <2>2 DEF Tick
    <3>2. Suffix(invoked, timestamps, now' - RateWindow)
      BY <2>0, <3>1, RuntimeCoordinatorAssumption, LaterSuffix DEF RateInv
    <3> QED BY <3>1, <3>2 DEF RateInv, RateWindowHeld
  <2>3. CASE \E r \in Requests : Invoke(r)
    BY <2>0, <2>3, InvokeRate
  <2>4. CASE \E r \in Requests : DenyByLimiter(r)
    <3>1. UNCHANGED <<now, invoked>> /\ timestamps' \in {timestamps, Pruned(timestamps)}
      BY <2>4 DEF DenyByLimiter
    <3>2. timestamps' \in Seq(Nat) /\ Suffix(invoked, timestamps', now - RateWindow)
      BY <2>0, <3>1, PrunedRate DEF RateInv
    <3> QED BY <3>1, <3>2 DEF RateInv, RateWindowHeld
  <2> QED
    BY <2>1, <2>2, <2>3, <2>4
       DEF Next, Step, GiveUp, DenyByBreaker, Succeed, FailTransiently, FailFatally, CancelCall,
           ResetBreaker, vars
<1>3. RateInv => RateWindowHeld
  BY DEF RateInv
<1> QED BY <1>1, <1>2, <1>3, SlotsInvariance, PTL DEF Spec

-----------------------------------------------------------------------------
(* The failure window. *)

\* The times of an episode's failures are in order, and past.
Ordered(times) ==
  /\ \A i, j \in 1 .. Len(times) : i <= j => times[i] <= times[j]
  /\ \A i \in 1 .. Len(times) : times[i] <= now

\* While the circuit is closed the breaker's window has forgotten only failures
\* that no longer count, and holds fewer than open it.
OpenInv ==
  /\ breaker \in Breakers /\ failures \in Seq(Nat)
  /\ breaker.state = "closed" =>
       /\ Len(breaker.window) < FailureThreshold
       /\ Suffix(failures, breaker.window, now - FailureWindow)
       /\ Ordered(failures)

\* From b to c the breaker counts no failure and does not open; a circuit that
\* closes starts an episode with nothing counted.
Quiet(b, c) ==
  /\ c \in Breakers
  /\ c.state = "closed" =>
       \/ b.state = "closed" /\ c.window = b.window /\ c.generation = b.generation
       \/ c.window = <<>> /\ c.generation # b.generation
  /\ b.state = "closed" => c.state = "closed"

LEMMA TransitionTyped ==
  ASSUME NEW b \in Breakers, NEW state \in CircuitStates, NEW time \in Nat
  PROVE  /\ TransitionTo(b, state, time) \in Breakers
         /\ TransitionTo(b, state, time).state = state
         /\ TransitionTo(b, state, time).generation = b.generation + 1
         /\ state \in {"open", "closed"} => TransitionTo(b, state, time).window = <<>>
<1>1. <<>> \in Seq(Nat) /\ b.window \in Seq(Nat) /\ b.generation + 1 \in Nat
  BY EmptySeq DEF Breakers
<1>2. PICK w \in Seq(Nat) : w = IF state \in {"open", "closed"} THEN <<>> ELSE b.window
  BY <1>1
<1>3. PICK g \in Nat : g = b.generation + 1
  BY <1>1
<1>4. TransitionTo(b, state, time)
        = [b EXCEPT !.state = state, !.generation = g, !.changed = time, !.inFlight = 0, !.window = w]
  BY <1>2, <1>3, Zenon DEF TransitionTo, Breakers
<1>5. PICK t : t = TransitionTo(b, state, time)
  OBVIOUS
<1>6. /\ t.state = state /\ t.generation = g /\ t.window = w
  BY <1>4, <1>5 DEF Breakers
<1>7. t \in Breakers
  <2>1. PICK c : c = [b EXCEPT !.state = state, !.generation = g, !.changed = time]
    OBVIOUS
  <2>2. c \in Breakers
    BY <1>3, <2>1 DEF Breakers
  <2>3. PICK d : d = [c EXCEPT !.inFlight = 0, !.window = w]
    OBVIOUS
  <2>4. d \in Breakers
    BY <1>2, <2>2, <2>3 DEF Breakers
  <2>5. t = d
    BY <1>4, <1>5, <2>1, <2>3, Zenon
  <2> QED BY <2>4, <2>5
<1> QED BY <1>2, <1>3, <1>5, <1>6, <1>7

LEMMA EvaluateQuiet ==
  ASSUME NEW b \in Breakers, NEW time \in Nat
  PROVE  Quiet(b, EvaluateState(b, time))
BY TransitionTyped DEF EvaluateState, Quiet, CircuitStates

LEMMA ReserveQuiet ==
  ASSUME NEW b, NEW c, Quiet(b, c)
  PROVE  Quiet(b, Reserve(c))
BY DEF Quiet, Reserve, Breakers

LEMMA ReleaseQuiet ==
  ASSUME NEW b, NEW c, NEW ticket, Quiet(b, c)
  PROVE  Quiet(b, ReleaseProbe(c, ticket))
BY DEF Quiet, ReleaseProbe, Breakers

LEMMA SameQuiet == ASSUME NEW b \in Breakers PROVE Quiet(b, b)
BY DEF Quiet

LEMMA ReleaseTyped ==
  ASSUME NEW b \in Breakers, NEW ticket
  PROVE  /\ ReleaseProbe(b, ticket) \in Breakers
         /\ ReleaseProbe(b, ticket).state = b.state
         /\ ReleaseProbe(b, ticket).window = b.window
         /\ ReleaseProbe(b, ticket).generation = b.generation
BY DEF ReleaseProbe, Breakers

LEMMA ResetTyped ==
  ASSUME NEW b \in Breakers, NEW time \in Nat
  PROVE  /\ ResetMetrics(b, time) \in Breakers
         /\ ResetMetrics(b, time).state = b.state
         /\ ResetMetrics(b, time).window = b.window
         /\ ResetMetrics(b, time).generation = b.generation
BY DEF ResetMetrics, Breakers

LEMMA ResetQuiet ==
  ASSUME NEW b \in Breakers, NEW time \in Nat
  PROVE  Quiet(b, Reset(b, time))
<1>1. PICK t : t = TransitionTo(b, "closed", time)
  OBVIOUS
<1>2. t \in Breakers /\ t.state = "closed" /\ t.generation = b.generation + 1 /\ t.window = <<>>
  BY <1>1, TransitionTyped DEF CircuitStates
<1>3. b.generation \in Nat
  BY DEF Breakers
<1>4. PICK e : e = ResetMetrics(t, time)
  OBVIOUS
<1>5. /\ e \in Breakers /\ e.state = "closed" /\ e.window = <<>>
      /\ e.generation = b.generation + 1
  BY <1>2, <1>4, ResetTyped
<1>6. Reset(b, time) = e
  BY <1>1, <1>4 DEF Reset
<1>7. e.generation # b.generation
  BY <1>3, <1>5
<1> QED BY <1>5, <1>6, <1>7, Zenon DEF Quiet

LEMMA SuccessQuiet ==
  ASSUME NEW b \in Breakers, NEW ticket, NEW time \in Nat
  PROVE  Quiet(b, RecordSuccess(b, ticket, time))
<1>1. PICK a : a = ReleaseProbe(b, ticket)
  OBVIOUS
<1>2. PICK counted : counted = [a EXCEPT !.successes = @ + 1]
  OBVIOUS
<1>3. /\ counted \in Breakers /\ counted.state = b.state
      /\ counted.window = b.window /\ counted.generation = b.generation
  BY SMTT(30), <1>1, <1>2, ReleaseTyped DEF Breakers
<1>4. RecordSuccess(b, ticket, time) =
        IF Stale(b, ticket) THEN b
        ELSE IF counted.state = "half_open" /\ counted.successes >= SuccessThreshold
        THEN ResetMetrics(TransitionTo(counted, "closed", time), time)
        ELSE counted
  BY <1>1, <1>2, Zenon DEF RecordSuccess
<1>5. CASE Stale(b, ticket)
  BY <1>4, <1>5, SameQuiet
<1>6. CASE RecordSuccess(b, ticket, time) = counted
  BY <1>3, <1>6 DEF Quiet
<1>7. CASE /\ RecordSuccess(b, ticket, time) = ResetMetrics(TransitionTo(counted, "closed", time), time)
           /\ counted.state = "half_open"
  <2>1. PICK t : t = TransitionTo(counted, "closed", time)
    OBVIOUS
  <2>2. t \in Breakers /\ t.state = "closed" /\ t.generation = b.generation + 1 /\ t.window = <<>>
    BY SMTT(30), <1>3, <2>1, TransitionTyped DEF CircuitStates
  <2>3. b.generation \in Nat
    BY DEF Breakers
  <2>4. PICK e : e = ResetMetrics(t, time)
    OBVIOUS
  <2>5. /\ e \in Breakers /\ e.state = "closed" /\ e.window = <<>>
        /\ e.generation = b.generation + 1
    BY <1>3, <2>2, <2>4, ResetTyped
  <2>6. RecordSuccess(b, ticket, time) = e
    BY <1>7, <2>1, <2>4
  <2>7. e.generation # b.generation
    BY <2>3, <2>5
  <2> QED BY <1>3, <1>7, <2>5, <2>6, <2>7, Zenon DEF Quiet
<1> QED BY <1>4, <1>5, <1>6, <1>7

LEMMA LastTyped ==
  ASSUME NEW s \in Seq(Nat), NEW n \in Nat
  PROVE  /\ LatestOf(s, n) \in Seq(Nat)
         /\ Len(LatestOf(s, n)) = IF Len(s) <= n THEN Len(s) ELSE n
         /\ Len(s) <= n => LatestOf(s, n) = s
<1>1. Len(s) \in Nat /\ \A i \in 1 .. Len(s) : s[i] \in Nat
  BY LenProperties, ElementOfSeq
<1>2. CASE Len(s) <= n
  BY <1>2 DEF LatestOf
<1>3. CASE ~(Len(s) <= n)
  <2>1. \A i \in Len(s) - n + 1 .. Len(s) : s[i] \in Nat
    BY <1>1, <1>3
  <2>2. PICK m : m = Len(s) - n + 1
    OBVIOUS
  <2>3. /\ SubSeq(s, m, Len(s)) \in Seq(Nat)
        /\ Len(SubSeq(s, m, Len(s))) = IF m <= Len(s) THEN Len(s) - m + 1 ELSE 0
    BY <1>1, <2>1, <2>2, SubSeqProperties
  <2> QED BY <1>1, <1>3, <2>2, <2>3 DEF LatestOf
<1> QED BY <1>2, <1>3

\* What a recorded failure does to the window: nothing if it is stale; it opens
\* the circuit when the failures that still count reach the threshold.
LEMMA FailureCounts ==
  ASSUME NEW b \in Breakers, NEW ticket, NEW time \in Nat, NEW f, f = RecordFailure(b, ticket, time),
         NEW rest, rest = Since(b.window, time - FailureWindow)
  PROVE  /\ f \in Breakers
         /\ f.state = "closed" /\ ~Stale(b, ticket) =>
              /\ b.state = "closed" /\ f.generation = b.generation
              /\ f.window = Append(rest, time) /\ Len(f.window) < FailureThreshold
         /\ f.state = "open" /\ b.state = "closed" =>
              Len(rest) + 1 >= FailureThreshold /\ f.window = <<>>
<1>1. PICK a : a = ReleaseProbe(b, ticket)
  OBVIOUS
<1>2. a \in Breakers /\ a.state = b.state /\ a.window = b.window /\ a.generation = b.generation
  BY <1>1, ReleaseTyped
<1>3. PICK w : w = WindowAfterFailure(b.window, time)
  OBVIOUS
<1>4. /\ w \in Seq(Nat) /\ rest \in Seq(Nat) /\ Len(rest) \in Nat /\ Len(w) \in Nat
      /\ Len(w) <= Len(rest) + 1
      /\ Len(w) < FailureThreshold => w = Append(rest, time)
  <2>1. b.window \in Seq(Nat) /\ time - FailureWindow \in Int
    BY CircuitBreakerAssumption DEF Breakers
  <2>2. rest \in Seq(Nat) /\ Len(rest) \in Nat
    BY <2>1, SinceDrops, LenProperties
  <2>3. PICK s : s = Append(rest, time)
    OBVIOUS
  <2>4. s \in Seq(Nat) /\ Len(s) = Len(rest) + 1
    BY <2>2, <2>3, AppendProperties
  <2>5. FailureThreshold \in Nat
    BY CircuitBreakerAssumption
  <2>6. w = LatestOf(s, FailureThreshold)
    BY <1>3, <2>3 DEF WindowAfterFailure
  <2>7. PICK n : n = Len(s)
    OBVIOUS
  <2>8. w \in Seq(Nat) /\ Len(w) = IF n <= FailureThreshold THEN n ELSE FailureThreshold
    BY <2>4, <2>5, <2>6, <2>7, LastTyped
  <2>9. n <= FailureThreshold => w = s
    BY <2>4, <2>5, <2>6, <2>7, LastTyped
  <2>10. PICK k : k = Len(rest)
    OBVIOUS
  <2>11. PICK l : l = Len(w)
    OBVIOUS
  <2>12. k \in Nat /\ n = k + 1 /\ l = IF n <= FailureThreshold THEN n ELSE FailureThreshold
    BY <2>2, <2>4, <2>7, <2>8, <2>10, <2>11
  <2>13. l \in Nat /\ l <= k + 1 /\ (l < FailureThreshold => n <= FailureThreshold)
    BY <2>5, <2>12
  <2> QED BY <2>2, <2>3, <2>8, <2>9, <2>10, <2>11, <2>13
<1>5. PICK counted : counted = [a EXCEPT !.successes = 0, !.window = w]
  OBVIOUS
<1>6. /\ counted \in Breakers /\ counted.state = b.state
      /\ counted.window = w /\ counted.generation = b.generation
  BY <1>2, <1>4, <1>5 DEF Breakers
<1>7. f = IF Stale(b, ticket) THEN b
          ELSE IF \/ counted.state = "half_open"
                  \/ /\ counted.state = "closed"
                     /\ Len(counted.window) >= FailureThreshold
          THEN TransitionTo(counted, "open", time)
          ELSE counted
  <2>1. counted = [ReleaseProbe(b, ticket) EXCEPT
                    !.successes = 0, !.window = WindowAfterFailure(@, time)]
    BY <1>1, <1>2, <1>3, <1>5
  <2> QED BY <2>1, Zenon DEF RecordFailure
<1>8. CASE Stale(b, ticket)
  BY <1>7, <1>8
<1>9. CASE f = TransitionTo(counted, "open", time) /\ (b.state = "closed" => Len(w) >= FailureThreshold)
  <2>0. "open" \in CircuitStates /\ "open" \in {"open", "closed"}
    BY DEF CircuitStates
  <2>1. f \in Breakers /\ f.state = "open" /\ f.window = <<>>
    <3>1. /\ TransitionTo(counted, "open", time) \in Breakers
          /\ TransitionTo(counted, "open", time).state = "open"
          /\ TransitionTo(counted, "open", time).window = <<>>
      BY <1>6, <2>0, TransitionTyped
    <3> QED BY <1>9, <3>1
  <2>2. b.state = "closed" => Len(rest) + 1 >= FailureThreshold
    BY <1>4, <1>9, CircuitBreakerAssumption
  <2> QED BY <2>1, <2>2
<1>10. CASE /\ f = counted /\ ~Stale(b, ticket)
            /\ b.state = "closed" => ~(Len(w) >= FailureThreshold)
  BY SMTT(30), <1>4, <1>6, <1>10, CircuitBreakerAssumption
<1>11. counted.state = "half_open" => b.state # "closed"
  BY <1>6
<1>12. FailureThreshold \in Nat /\ Len(counted.window) = Len(w)
  BY <1>6, CircuitBreakerAssumption
<1>13. \/ Stale(b, ticket)
       \/ f = TransitionTo(counted, "open", time) /\ (b.state = "closed" => Len(w) >= FailureThreshold)
       \/ f = counted /\ ~Stale(b, ticket) /\ (b.state = "closed" => ~(Len(w) >= FailureThreshold))
  BY <1>6, <1>7, <1>11, <1>12, Zenon
<1> QED BY <1>8, <1>9, <1>10, <1>13

\* A quiet step keeps the invariant and opens nothing.
LEMMA QuietKeeps ==
  ASSUME OpenInv, now \in Nat, now' = now, Quiet(breaker, breaker'),
         failures' = IF breaker'.generation # breaker.generation THEN <<>> ELSE failures
  PROVE  OpenInv'
<1>1. <<>> \in Seq(Nat) /\ Len(<<>>) = 0
  BY EmptySeq
<1>2. breaker' \in Breakers /\ failures' \in Seq(Nat)
  BY <1>1 DEF OpenInv, Quiet
<1>3. ASSUME breaker'.state = "closed"
      PROVE  /\ Len(breaker'.window) < FailureThreshold
             /\ Suffix(failures', breaker'.window, now' - FailureWindow)
             /\ Ordered(failures)'
  <2>1. CASE /\ breaker.state = "closed" /\ breaker'.window = breaker.window
             /\ breaker'.generation = breaker.generation
    BY <2>1 DEF OpenInv, Ordered
  <2>2. CASE breaker'.window = <<>> /\ breaker'.generation # breaker.generation
    BY <1>1, <2>2, CircuitBreakerAssumption DEF Suffix, Ordered
  <2> QED BY <1>3, <2>1, <2>2 DEF Quiet
<1> QED BY <1>2, <1>3 DEF OpenInv

\* The failures that count are the last ones, those the window still holds.
LEMMA RecentAreLast ==
  ASSUME OpenInv, now \in Nat, breaker.state = "closed"
  PROVE  /\ IsFiniteSet(RecentFailures)
         /\ Cardinality(RecentFailures) \in Nat
         /\ Cardinality(RecentFailures) <= Len(breaker.window)
         /\ Cardinality(RecentFailures) >= Len(Since(breaker.window, now - FailureWindow))
<1>1. PICK n, m : n = Len(failures) /\ m = Len(breaker.window)
  OBVIOUS
<1>2. /\ n \in Nat /\ m \in Nat /\ m <= n /\ DOMAIN failures = 1 .. n
      /\ \A i \in 1 .. n : failures[i] \in Nat
      /\ breaker.window \in Seq(Nat)
  BY <1>1, LenProperties, ElementOfSeq DEF OpenInv, Breakers, Suffix
<1>3. RecentFailures \subseteq n - m + 1 .. n
  <2> SUFFICES ASSUME NEW i \in 1 .. n, i \in RecentFailures, i < n - m + 1 PROVE FALSE
    <3>1. RecentFailures \subseteq 1 .. n
      BY <1>2 DEF RecentFailures
    <3> QED BY <1>2, <3>1
  <2>1. i \in 1 .. n - m /\ failures[i] >= now - FailureWindow /\ i \in 1 .. n
    BY <1>2 DEF RecentFailures
  <2>2. failures[i] < now - FailureWindow
    BY <1>1, <2>1 DEF OpenInv, Suffix
  <2>3. failures[i] \in Nat /\ now - FailureWindow \in Int
    BY <1>2, CircuitBreakerAssumption
  <2> QED BY <2>1, <2>2, <2>3
<1>4. IsFiniteSet(n - m + 1 .. n) /\ Cardinality(n - m + 1 .. n) = m
  <2>1. n - m + 1 \in Int /\ n \in Int
    BY <1>2
  <2>2. IsFiniteSet(n - m + 1 .. n)
        /\ Cardinality(n - m + 1 .. n) = IF n - m + 1 > n THEN 0 ELSE n - (n - m + 1) + 1
    BY <2>1, FS_Interval
  <2> QED BY <1>2, <2>2
<1>5. /\ IsFiniteSet(RecentFailures) /\ Cardinality(RecentFailures) \in Nat
      /\ Cardinality(RecentFailures) <= m
  <2>1. PICK R : R = RecentFailures
    OBVIOUS
  <2>2. PICK I : I = n - m + 1 .. n
    OBVIOUS
  <2>3. IsFiniteSet(R) /\ Cardinality(R) <= Cardinality(I) /\ Cardinality(R) \in Nat
    BY <1>3, <1>4, <2>1, <2>2, FS_Subset, FS_CardinalityType
  <2> QED BY <1>4, <2>1, <2>2, <2>3
<1>6. Cardinality(RecentFailures) >= Len(Since(breaker.window, now - FailureWindow))
  <2>1. PICK rest : rest = Since(breaker.window, now - FailureWindow)
    OBVIOUS
  <2>2. now - FailureWindow \in Int
    BY CircuitBreakerAssumption
  <2>3. /\ rest \in Seq(Nat) /\ Suffix(breaker.window, rest, now - FailureWindow)
        /\ Len(rest) > 0 => rest[1] >= now - FailureWindow
    BY <1>2, <2>1, <2>2, SinceDrops
  <2>4. Suffix(failures, rest, now - FailureWindow)
    BY <1>2, <2>2, <2>3, SuffixAgain DEF OpenInv
  <2>5. PICK k : k = Len(rest)
    OBVIOUS
  <2>6. k \in Nat /\ k <= n
    BY <1>1, <2>3, <2>4, <2>5, LenProperties DEF Suffix
  <2>7. n - k + 1 .. n \subseteq RecentFailures
    <3> SUFFICES ASSUME NEW i \in n - k + 1 .. n PROVE i \in RecentFailures
      OBVIOUS
    <3>1. i \in 1 .. n /\ n - k + 1 \in 1 .. n /\ k > 0 /\ 1 \in 1 .. k /\ n - k + 1 <= i
      BY <1>2, <2>6
    <3>2. rest[1] = failures[n - k + 1] /\ rest[1] >= now - FailureWindow
      BY <1>1, <2>3, <2>4, <2>5, <3>1 DEF Suffix
    <3>3. failures[n - k + 1] <= failures[i]
      BY <1>1, <3>1 DEF OpenInv, Ordered
    <3>4. failures[i] \in Nat /\ failures[n - k + 1] \in Nat
      BY <1>2, <3>1
    <3> QED BY <1>2, <2>2, <3>1, <3>2, <3>3, <3>4 DEF RecentFailures
  <2>8. IsFiniteSet(n - k + 1 .. n) /\ Cardinality(n - k + 1 .. n) = k
    <3>1. n - k + 1 \in Int /\ n \in Int
      BY <1>2, <2>6
    <3>2. IsFiniteSet(n - k + 1 .. n)
          /\ Cardinality(n - k + 1 .. n) = IF n - k + 1 > n THEN 0 ELSE n - (n - k + 1) + 1
      BY <3>1, FS_Interval
    <3> QED BY <1>2, <2>6, <3>2
  <2>9. Cardinality(n - k + 1 .. n) <= Cardinality(RecentFailures)
    <3>1. PICK R : R = RecentFailures
      OBVIOUS
    <3>2. PICK I : I = n - k + 1 .. n
      OBVIOUS
    <3>3. Cardinality(I) <= Cardinality(R)
      BY <1>5, <2>7, <3>1, <3>2, FS_Subset
    <3> QED BY <3>1, <3>2, <3>3
  <2> QED BY <2>1, <2>5, <2>8, <2>9
<1> QED BY <1>1, <1>5, <1>6

\* A transient failure is the step that counts, and the only one that opens a
\* closed circuit.
LEMMA FailureOpens ==
  ASSUME OpenInv, now \in Nat, NEW r \in Requests, NEW listed \in BOOLEAN,
         FailTransiently(r, listed)
  PROVE  /\ OpenInv'
         /\ breaker.state = "closed" /\ breaker'.state = "open"
              => Cardinality(RecentFailures) + 1 >= FailureThreshold
<1>1. PICK ticket : ticket = call[r].ticket
  OBVIOUS
<1>2. /\ breaker' = RecordFailure(breaker, ticket, now) /\ now' = now
      /\ failures' = IF breaker'.generation # breaker.generation THEN <<>>
                     ELSE failures \o (IF Stale(breaker, ticket) THEN <<>> ELSE <<now>>)
  BY <1>1 DEF FailTransiently, Episode
<1>3. breaker \in Breakers /\ breaker.window \in Seq(Nat) /\ failures \in Seq(Nat)
  BY DEF OpenInv, Breakers
<1>4. PICK rest : rest = Since(breaker.window, now - FailureWindow)
  OBVIOUS
<1>5. /\ breaker' \in Breakers
      /\ breaker'.state = "closed" /\ ~Stale(breaker, ticket) =>
           /\ breaker.state = "closed" /\ breaker'.generation = breaker.generation
           /\ breaker'.window = Append(rest, now) /\ Len(breaker'.window) < FailureThreshold
      /\ breaker'.state = "open" /\ breaker.state = "closed" =>
           Len(rest) + 1 >= FailureThreshold
  BY <1>2, <1>3, <1>4, FailureCounts
<1>6. failures \o <<>> = failures
  BY <1>3, ConcatEmptySeq
<1>7. failures \o <<now>> = Append(failures, now)
  BY <1>3, AppendIsConcat
<1>8. CASE Stale(breaker, ticket)
  <2>1. breaker' = breaker
    BY <1>2, <1>8 DEF RecordFailure
  <2>2. failures' = failures
    BY <1>2, <1>6, <1>8, <2>1
  <2> QED BY <1>2, <1>3, <2>1, <2>2, SameQuiet, QuietKeeps
<1>9. CASE ~Stale(breaker, ticket)
  <2>1. breaker.state = "closed" /\ breaker'.state = "open"
          => Cardinality(RecentFailures) + 1 >= FailureThreshold
    <3> SUFFICES ASSUME breaker.state = "closed", breaker'.state = "open"
                 PROVE  Cardinality(RecentFailures) + 1 >= FailureThreshold
      OBVIOUS
    <3>1. Cardinality(RecentFailures) \in Nat /\ Cardinality(RecentFailures) >= Len(rest)
      BY <1>4, RecentAreLast
    <3>2. Len(rest) \in Nat
      BY <1>3, <1>4, CircuitBreakerAssumption, SinceDrops, LenProperties
    <3> QED BY <1>5, <3>1, <3>2, CircuitBreakerAssumption
  <2>2. failures' \in Seq(Nat)
    BY <1>2, <1>3, <1>7, <1>9, EmptySeq, AppendProperties
  <2>3. ASSUME breaker'.state = "closed"
        PROVE  /\ Len(breaker'.window) < FailureThreshold
               /\ Suffix(failures', breaker'.window, now' - FailureWindow)
               /\ Ordered(failures)'
    <3>1. /\ breaker.state = "closed" /\ breaker'.generation = breaker.generation
          /\ breaker'.window = Append(rest, now) /\ Len(breaker'.window) < FailureThreshold
      BY <1>5, <1>9, <2>3
    <3>2. failures' = Append(failures, now)
      BY <1>2, <1>7, <1>9, <3>1
    <3>3. now - FailureWindow \in Int
      BY CircuitBreakerAssumption
    <3>4. rest \in Seq(Nat) /\ Suffix(breaker.window, rest, now - FailureWindow)
      BY <1>3, <1>4, <3>3, SinceDrops
    <3>5. Suffix(failures, rest, now - FailureWindow)
      BY <1>3, <3>1, <3>3, <3>4, SuffixAgain DEF OpenInv
    <3>6. Suffix(failures', breaker'.window, now' - FailureWindow)
      BY <1>2, <1>3, <3>1, <3>2, <3>3, <3>4, <3>5, SuffixGrows
    <3>7. Ordered(failures)'
      <4>1. PICK n : n = Len(failures)
        OBVIOUS
      <4>2. /\ n \in Nat /\ Len(failures') = n + 1 /\ failures'[n + 1] = now
            /\ \A i \in 1 .. n : failures'[i] = failures[i] /\ failures[i] \in Nat
        BY <1>3, <3>2, <4>1, LenProperties, ElementOfSeq, AppendProperties
      <4>3. Ordered(failures)
        BY <3>1 DEF OpenInv
      <4>4. \A i \in 1 .. n + 1 : i \in 1 .. n \/ i = n + 1
        BY <4>2
      <4> QED BY <1>2, <4>1, <4>2, <4>3, <4>4 DEF Ordered
    <3> QED BY <3>1, <3>6, <3>7
  <2>4. OpenInv'
    BY <1>5, <2>2, <2>3 DEF OpenInv
  <2> QED BY <2>1, <2>4
<1> QED BY <1>8, <1>9

\* Every other step is quiet.
LEMMA OtherQuiet ==
  ASSUME OpenInv, now \in Nat, [Next]_vars, now' = now,
         ~\E r \in Requests, listed \in BOOLEAN : FailTransiently(r, listed)
  PROVE  /\ Quiet(breaker, breaker')
         /\ failures' = IF breaker'.generation # breaker.generation THEN <<>> ELSE failures
<1>0. breaker \in Breakers /\ failures \o <<>> = failures
  BY ConcatEmptySeq DEF OpenInv
<1>1. PICK b : b = EvaluateState(breaker, now)
  OBVIOUS
<1>2. Quiet(breaker, b) /\ Quiet(breaker, breaker)
  BY <1>0, <1>1, EvaluateQuiet, SameQuiet
<1>3. /\ Quiet(breaker, Reserve(b)) /\ Quiet(breaker, ReleaseProbe(Reserve(b), Ticket(b)))
      /\ \A ticket : Quiet(breaker, ReleaseProbe(breaker, ticket))
      /\ \A ticket : ReleaseProbe(breaker, ticket).generation = breaker.generation
      /\ \A ticket : Quiet(breaker, RecordSuccess(breaker, ticket, now))
      /\ Quiet(breaker, Reset(breaker, now))
  BY <1>0, <1>2, ReserveQuiet, ReleaseQuiet, ReleaseTyped, SuccessQuiet, ResetQuiet
<1>4. CASE \E r \in Requests : GiveUp(r) \/ FailFatally(r) \/ CancelCall(r)
  BY <1>2, <1>3, <1>4 DEF GiveUp, FailFatally, CancelCall
<1>5. CASE \E r \in Requests : DenyByBreaker(r) \/ DenyByLimiter(r) \/ Invoke(r)
  BY <1>0, <1>1, <1>2, <1>3, <1>5 DEF DenyByBreaker, DenyByLimiter, Invoke, Episode
<1>6. CASE \E r \in Requests : Succeed(r)
  BY <1>0, <1>3, <1>6 DEF Succeed, Episode
<1>7. CASE ResetBreaker
  BY <1>0, <1>3, <1>7 DEF ResetBreaker, Episode
<1>8. CASE Tick \/ UNCHANGED vars
  BY <1>2, <1>8 DEF Tick, vars
<1> QED BY <1>4, <1>5, <1>6, <1>7, <1>8 DEF Next, Step

LEMMA OpenInit == Init => OpenInv
<1> SUFFICES ASSUME Init PROVE OpenInv
  OBVIOUS
<1>1. <<>> \in Seq(Nat) /\ Len(<<>>) = 0
  BY EmptySeq
<1>2. breaker \in Breakers /\ breaker.window = <<>> /\ failures = <<>>
  BY <1>1 DEF Init, NewBreaker, Breakers, CircuitStates
<1> QED BY <1>1, <1>2, CircuitBreakerAssumption DEF OpenInv, Suffix, Ordered

LEMMA OpenStep ==
  ASSUME SlotsInv, OpenInv, [Next]_vars
  PROVE  /\ OpenInv'
         /\ breaker.state = "closed" /\ breaker'.state = "open"
              => Cardinality(RecentFailures) + 1 >= FailureThreshold
<1>0. now \in Nat
  BY DEF SlotsInv
<1>1. CASE \E r \in Requests, listed \in BOOLEAN : FailTransiently(r, listed)
  BY <1>0, <1>1, FailureOpens
<1>2. CASE Tick
  <2>1. now' = now + 1 /\ UNCHANGED <<breaker, failures>>
    BY <1>2 DEF Tick
  <2>2. ASSUME breaker.state = "closed"
        PROVE  Suffix(failures, breaker.window, now' - FailureWindow) /\ Ordered(failures)'
    <3>1. Suffix(failures, breaker.window, now' - FailureWindow)
      BY <1>0, <2>1, <2>2, CircuitBreakerAssumption, LaterSuffix DEF OpenInv, Breakers
    <3>2. \A i \in 1 .. Len(failures) : failures[i] \in Nat
      BY ElementOfSeq DEF OpenInv
    <3> QED BY <1>0, <2>1, <2>2, <3>1, <3>2 DEF OpenInv, Ordered
  <2>3. OpenInv'
    BY <2>1, <2>2 DEF OpenInv
  <2> QED BY <2>1, <2>3
<1>3. CASE ~Tick /\ ~\E r \in Requests, listed \in BOOLEAN : FailTransiently(r, listed)
  <2>1. now' = now
    BY <1>3 DEF Next, Step, GiveUp, DenyByBreaker, DenyByLimiter, Invoke, Succeed, FailFatally,
         CancelCall, ResetBreaker, vars
  <2>2. Quiet(breaker, breaker')
        /\ failures' = IF breaker'.generation # breaker.generation THEN <<>> ELSE failures
    BY <1>0, <1>3, <2>1, OtherQuiet
  <2> QED BY <1>0, <2>1, <2>2, QuietKeeps DEF Quiet
<1> QED BY <1>1, <1>2, <1>3

\* The circuit opens exactly when failure_threshold failures of the episode lie
\* within the failure window, for any number of calls, resets and late answers.
THEOREM ThresholdOpens == Spec => OpensOnThreshold
<1>1. SlotsInv /\ OpenInv /\ [Next]_vars => OpenInv'
  BY OpenStep
<1>2. SlotsInv /\ OpenInv /\ [Next]_vars
        => [breaker.state = "closed" /\ breaker'.state = "open"
              => Cardinality(RecentFailures) + 1 >= FailureThreshold]_vars
  BY OpenStep
<1>3. SlotsInv /\ OpenInv => (breaker.state = "closed" => Cardinality(RecentFailures) < FailureThreshold)
  <2> SUFFICES ASSUME SlotsInv, OpenInv, breaker.state = "closed"
               PROVE  Cardinality(RecentFailures) < FailureThreshold
    OBVIOUS
  <2>0. now \in Nat
    BY DEF SlotsInv
  <2>1. Len(breaker.window) \in Nat /\ Len(breaker.window) < FailureThreshold
    BY LenProperties DEF OpenInv, Breakers
  <2> QED BY <2>0, <2>1, RecentAreLast, CircuitBreakerAssumption
<1> QED BY <1>1, <1>2, <1>3, OpenInit, SlotsInvariance, PTL DEF Spec, OpensOnThreshold
=============================================================================
