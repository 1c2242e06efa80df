--------------------------- MODULE CircuitBreaker ---------------------------
(***************************************************************************)
(* One circuit breaker (internal/circuitbreaker/breaker.go) shared by the  *)
(* goroutines that serve connections for one backend address.  Every       *)
(* sync/atomic operation and every b.mu critical section is one step, so   *)
(* the calls of different goroutines interleave between them.  A goroutine *)
(* runs the fragment of handleTCPConnection that drives the breaker: Allow *)
(* once, then up to MaxRetries attempts of retry.Do, each followed by      *)
(* RecordSuccess or RecordFailure, with no further Allow between attempts. *)
(* The context of retry.Do is the gateway's: its early returns on a done   *)
(* context, which happen only from Shutdown on, are left out.              *)
(*                                                                         *)
(* Time is relative: sinceFailure is the age of b.lastFailure and stops at *)
(* timeout, beyond which time.Since(lastFailure) >= b.timeout cannot tell  *)
(* two ages apart.  b.failures likewise stops at maxFailures: the code     *)
(* only ever compares it with that threshold or resets it to zero.         *)
(***************************************************************************)
EXTENDS Naturals

CONSTANTS
  Goroutines,   \* goroutines serving connections of this backend
  maxFailures,  \* Breaker.maxFailures
  timeout,      \* Breaker.timeout, in clock ticks
  MaxRetries    \* ConnectionPool.MaxRetries: attempts per request

ASSUME BreakerAssumption ==
  /\ maxFailures \in Nat \ {0}
  /\ timeout \in Nat
  /\ MaxRetries \in Nat \ {0}

VARIABLES
  state,         \* Breaker.state
  failures,      \* Breaker.failures
  sinceFailure,  \* age of Breaker.lastFailure
  backendUp,     \* whether GetConnection to the backend succeeds
  pc,            \* where each goroutine stands
  seen,          \* age of the lastFailure a goroutine copied in Allow
  tries          \* attempts of retry.Do already used

shared == <<state, failures, sinceFailure>>
vars == <<state, failures, sinceFailure, backendUp, pc, seen, tries>>

States == {"closed", "open", "halfOpen"}

Points == {"request", "allowOpen", "allowCas", "allowReset", "attempt",
           "success", "successStore", "successReset",
           "failure", "stamp", "stampThenOpen", "open"}

TypeOK ==
  /\ state \in States
  /\ failures \in 0..maxFailures
  /\ sinceFailure \in 0..timeout
  /\ backendUp \in BOOLEAN
  /\ pc \in [Goroutines -> Points]
  /\ seen \in [Goroutines -> 0..timeout]
  /\ tries \in [Goroutines -> 0..MaxRetries]

(* NewBreaker: lastFailure is the zero time, far in the past. *)
Init ==
  /\ state = "closed"
  /\ failures = 0
  /\ sinceFailure = timeout
  /\ backendUp \in BOOLEAN
  /\ pc = [g \in Goroutines |-> "request"]
  /\ seen = [g \in Goroutines |-> 0]
  /\ tries = [g \in Goroutines |-> 0]

Goto(g, point) == pc' = [pc EXCEPT ![g] = point]

-----------------------------------------------------------------------------
(* Allow *)

(* The first load of b.state: Closed and HalfOpen admit at once. *)
AllowLoad(g) ==
  /\ pc[g] = "request"
  /\ Goto(g, IF state = "open" THEN "allowOpen" ELSE "attempt")
  /\ tries' = [tries EXCEPT ![g] = 0]
  /\ UNCHANGED <<shared, backendUp, seen>>

(* lastFailure is copied under b.mu.RLock. *)
AllowReadLastFailure(g) ==
  /\ pc[g] = "allowOpen"
  /\ seen' = [seen EXCEPT ![g] = sinceFailure]
  /\ Goto(g, "allowCas")
  /\ UNCHANGED <<shared, backendUp, tries>>

(* Mutant: the winner of the CAS does not reset b.failures. *)
AllowCasNoReset(g) ==
  /\ pc[g] = "allowCas"
  /\ IF seen[g] >= timeout /\ state = "open"
       THEN state' = "halfOpen" /\ Goto(g, "attempt")
       ELSE state' = state /\ Goto(g, "request")
  /\ seen' = [seen EXCEPT ![g] = 0]
  /\ UNCHANGED <<failures, sinceFailure, backendUp, tries>>

(* The timeout test on the copy, then CompareAndSwap(Open, HalfOpen). *)
AllowCas(g) ==
  /\ pc[g] = "allowCas"
  /\ IF seen[g] >= timeout /\ state = "open"
       THEN state' = "halfOpen" /\ Goto(g, "allowReset")
       ELSE state' = state /\ Goto(g, "request")
  /\ seen' = [seen EXCEPT ![g] = 0]
  /\ UNCHANGED <<failures, sinceFailure, backendUp, tries>>

AllowReset(g) ==
  /\ pc[g] = "allowReset"
  /\ failures' = 0
  /\ Goto(g, "attempt")
  /\ UNCHANGED <<state, sinceFailure, backendUp, seen, tries>>

-----------------------------------------------------------------------------
(* One attempt of retry.Do: GetConnection, then the outcome is recorded. *)
Attempt(g) ==
  /\ pc[g] = "attempt"
  /\ tries' = [tries EXCEPT ![g] = @ + 1]
  /\ Goto(g, IF backendUp THEN "success" ELSE "failure")
  /\ UNCHANGED <<shared, backendUp, seen>>

(* Mutant: RecordSuccess acts in Closed instead of HalfOpen. *)
RecordSuccessLoadClosed(g) ==
  /\ pc[g] = "success"
  /\ Goto(g, IF state = "closed" THEN "successStore" ELSE "request")
  /\ UNCHANGED <<shared, backendUp, seen, tries>>

(* RecordSuccess: a load, and only in HalfOpen the two stores. *)
RecordSuccessLoad(g) ==
  /\ pc[g] = "success"
  /\ Goto(g, IF state = "halfOpen" THEN "successStore" ELSE "request")
  /\ UNCHANGED <<shared, backendUp, seen, tries>>

RecordSuccessStore(g) ==
  /\ pc[g] = "successStore"
  /\ state' = "closed"
  /\ Goto(g, "successReset")
  /\ UNCHANGED <<failures, sinceFailure, backendUp, seen, tries>>

RecordSuccessReset(g) ==
  /\ pc[g] = "successReset"
  /\ failures' = 0
  /\ Goto(g, "request")
  /\ UNCHANGED <<state, sinceFailure, backendUp, seen, tries>>

(* RecordFailure: AddInt64, the time stamp under b.mu, and the store of    *)
(* Open when the value AddInt64 returned has reached the threshold.        *)
Reached(n) == n >= maxFailures

RecordFailureAdd(g) ==
  /\ pc[g] = "failure"
  /\ failures' = IF failures < maxFailures THEN failures + 1 ELSE failures
  /\ Goto(g, IF Reached(failures + 1) THEN "stampThenOpen" ELSE "stamp")
  /\ UNCHANGED <<state, sinceFailure, backendUp, seen, tries>>

(* retry.Do tries again until MaxRetries attempts are used. *)
AfterFailure(g) == IF tries[g] < MaxRetries THEN "attempt" ELSE "request"

RecordFailureStamp(g) ==
  /\ pc[g] \in {"stamp", "stampThenOpen"}
  /\ sinceFailure' = 0
  /\ Goto(g, IF pc[g] = "stamp" THEN AfterFailure(g) ELSE "open")
  /\ UNCHANGED <<state, failures, backendUp, seen, tries>>

(* Mutant: only a Closed breaker is opened. *)
RecordFailureOpenClosedOnly(g) ==
  /\ pc[g] = "open"
  /\ state' = IF state = "closed" THEN "open" ELSE state
  /\ Goto(g, AfterFailure(g))
  /\ UNCHANGED <<failures, sinceFailure, backendUp, seen, tries>>

RecordFailureOpen(g) ==
  /\ pc[g] = "open"
  /\ state' = "open"
  /\ Goto(g, AfterFailure(g))
  /\ UNCHANGED <<failures, sinceFailure, backendUp, seen, tries>>

-----------------------------------------------------------------------------
(* The environment: the clock, and the backend going down or coming up. *)
Older(age) == IF age < timeout THEN age + 1 ELSE age

Tick ==
  /\ sinceFailure' = Older(sinceFailure)
  /\ seen' = [g \in Goroutines |->
                IF pc[g] = "allowCas" THEN Older(seen[g]) ELSE seen[g]]
  /\ UNCHANGED <<state, failures, backendUp, pc, tries>>

BackendChange ==
  /\ backendUp' = ~backendUp
  /\ UNCHANGED <<shared, pc, seen, tries>>

(* The steps of a call in progress; AllowLoad starts a new request. *)
Continue(g) ==
  \/ AllowReadLastFailure(g) \/ AllowCas(g) \/ AllowReset(g)
  \/ Attempt(g)
  \/ RecordSuccessLoad(g) \/ RecordSuccessStore(g) \/ RecordSuccessReset(g)
  \/ RecordFailureAdd(g) \/ RecordFailureStamp(g) \/ RecordFailureOpen(g)

Next ==
  \/ \E g \in Goroutines : AllowLoad(g) \/ Continue(g)
  \/ Tick
  \/ BackendChange

(* Started calls run on (the Go scheduler) and the clock advances; nothing *)
(* obliges clients to send requests or the backend to change.              *)
Fairness == (\A g \in Goroutines : WF_vars(Continue(g))) /\ WF_vars(Tick)

Spec == Init /\ [][Next]_vars /\ Fairness

-----------------------------------------------------------------------------
(* Properties *)

Zeroing(g) == pc[g] \in {"allowReset", "successReset"}
Opening(g) == pc[g] \in {"stampThenOpen", "open"}

(* Breaker.failures can stand at the threshold while the breaker still     *)
(* admits requests only as long as some goroutine is inside a call that    *)
(* will reset the counter (the store after Allow's CAS or RecordSuccess's  *)
(* store) or open the breaker (the rest of RecordFailure): a threshold     *)
(* that was reached is answered by one or the other.                       *)
ThresholdNotForgotten ==
  state # "open" /\ Reached(failures) =>
    \E g \in Goroutines : Zeroing(g) \/ Opening(g)

(* retry.Do has an attempt left whenever a goroutine is about to make one. *)
AttemptLeft ==
  \A g \in Goroutines :
    pc[g] \in {"allowOpen", "allowCas", "allowReset", "attempt"} =>
      tries[g] < MaxRetries

(* The inductive invariant behind TypeOK and ThresholdNotForgotten. *)
BreakerInv == TypeOK /\ AttemptLeft /\ ThresholdNotForgotten

(* Backend that stays up, and requests that keep arriving: the breaker     *)
(* closes and stays closed, whatever calls were in flight.                 *)
RequestsKeepArriving == []<>(\E g \in Goroutines : pc[g] # "request")

RecoversWithBackend ==
  <>[]backendUp /\ RequestsKeepArriving => <>[](state = "closed")

(* Backend that stays down, and requests that keep arriving: the breaker   *)
(* opens again and again, it is not held in HalfOpen or Closed by resets.  *)
CutsOffDeadBackend ==
  <>[](~backendUp) /\ RequestsKeepArriving => []<>(state = "open")

=============================================================================
