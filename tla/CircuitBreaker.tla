--------------------------- MODULE CircuitBreaker ---------------------------
(***************************************************************************)
(* The per-profile circuit breaker of src/proxy/fallback.rs, as operators  *)
(* on the breaker's record.  Each operator is one method: it takes the     *)
(* breaker before the call and returns the breaker after it, so a module   *)
(* that owns the map of breakers can use them inside its own actions.      *)
(*                                                                         *)
(* Time is abstracted to what can_attempt tells apart.  `last_failure' is  *)
(* "never" (None), "recent" (elapsed() < recovery_timeout) or "elapsed".   *)
(***************************************************************************)
EXTENDS Naturals

CONSTANT Threshold      \* failures in a row that open a breaker (3 in the code)

ASSUME ThresholdAssumption == Threshold \in Nat \ {0}

CircuitState == {"Closed", "Open", "HalfOpen"}

Breaker == [ state         : CircuitState,
             failure_count : Nat,
             last_failure  : {"never", "recent", "elapsed"} ]

NewBreaker == [state |-> "Closed", failure_count |-> 0, last_failure |-> "never"]

\* Mutant: the elapsed time is never compared with recovery_timeout.
CanAttempt_NoTimeout(cb) == cb.state = "Open" => cb.last_failure # "never"

CanAttempt(cb) == cb.state = "Open" => cb.last_failure # "recent"

\* The state can_attempt() leaves behind: an open breaker whose recovery
\* timeout has passed becomes half-open; any other breaker is untouched.
AfterCanAttempt(cb) ==
    IF cb.state = "Open" /\ cb.last_failure = "elapsed"
    THEN [cb EXCEPT !.state = "HalfOpen"]
    ELSE cb

RecordSuccess(cb) ==
    [state |-> "Closed", failure_count |-> 0, last_failure |-> cb.last_failure]

\* Mutant: `>' for `>='.
RecordFailure_OffByOne(cb) ==
    [ state         |-> IF cb.failure_count + 1 > Threshold THEN "Open" ELSE cb.state,
      failure_count |-> cb.failure_count + 1,
      last_failure  |-> "recent" ]

RecordFailure(cb) ==
    [ state         |-> IF cb.failure_count + 1 >= Threshold THEN "Open" ELSE cb.state,
      failure_count |-> cb.failure_count + 1,
      last_failure  |-> "recent" ]

\* The clock passes last_failure + recovery_timeout.
Recovered(cb) == [cb EXCEPT !.last_failure = "elapsed"]

\* What the counter says of the state: a breaker is closed exactly while it has
\* counted fewer than Threshold failures since the last success, and one that is
\* not closed knows when it failed last, so can_attempt() can time it.  A
\* half-open breaker therefore reopens on the first failed probe, and no breaker
\* is open without a clock running.
Coherent(cb) ==
    /\ cb.state = "Closed" <=> cb.failure_count < Threshold
    /\ cb.state # "Closed" => cb.last_failure # "never"
=============================================================================
