--------------------------- MODULE CircuitBreaker ---------------------------
(***************************************************************************)
(* The circuit breaker in front of a remote embedding provider             *)
(* (embedding/circuit-breaker.ts) and the provider that uses it            *)
(* (withCircuitBreaker in embedding/fallback.ts).                          *)
(*                                                                         *)
(* A remote provider (openai.ts, ollama.ts) never throws: when the request *)
(* fails it answers with a vector of the local hash provider and reports   *)
(* degraded health, which the wrapper counts as a failure.  embed() is     *)
(* synchronous, so a probe is over before the next call starts.            *)
(*                                                                         *)
(* Time is kept as ages: how long ago the breaker opened and how long ago  *)
(* the last request failed, both capped at the cooldown, because the code  *)
(* only asks whether the cooldown is over; the failure counter is capped   *)
(* at the threshold for the same reason.                                   *)
(*                                                                         *)
(* streak, failedAge and parity are history: what the endpoint itself saw, *)
(* kept apart from the breaker's own counters.                             *)
(***************************************************************************)
EXTENDS Naturals

CONSTANTS
    FailureThreshold,   \* consecutive failures that open the breaker
    Cooldown            \* how long it stays open

ASSUME BreakerAssumption ==
    /\ FailureThreshold \in Nat \ {0}
    /\ Cooldown \in Nat

VARIABLES
    hasFallback,    \* was the wrapper given a provider to divert to?
    breaker,        \* "closed", "open" or "half-open"
    failures,       \* consecutiveFailures
    openedAge,      \* time since the breaker opened last
    endpoint,       \* is the remote endpoint up?
    streak,         \* requests in a row that failed
    failedAge,      \* time since the last failed request
    parity          \* flips with every request that reaches the endpoint

breakerVars == <<hasFallback, breaker, failures, openedAge, endpoint, streak, failedAge, parity>>

BreakerTypeOK ==
    /\ hasFallback \in BOOLEAN
    /\ breaker \in {"closed", "open", "half-open"}
    /\ failures \in 0..FailureThreshold
    /\ openedAge \in 0..Cooldown
    /\ endpoint \in BOOLEAN
    /\ streak \in 0..FailureThreshold
    /\ failedAge \in 0..Cooldown
    /\ parity \in {0, 1}

BreakerInit ==
    /\ hasFallback \in BOOLEAN
    /\ breaker = "closed" /\ failures = 0 /\ openedAge = 0
    /\ endpoint \in BOOLEAN
    /\ streak = 0 /\ failedAge = 0 /\ parity = 0

OneMoreFailure(n) == IF n < FailureThreshold THEN n + 1 ELSE n

Older(age) == IF age < Cooldown THEN age + 1 ELSE age

\* Mutant: the cooldown is taken for over one tick early.
EffectiveStateEarly ==
    IF breaker = "open" /\ openedAge + 1 >= Cooldown THEN "half-open" ELSE breaker

\* The state a call finds: an open breaker whose cooldown is over is half-open.
EffectiveState ==
    IF breaker = "open" /\ openedAge >= Cooldown THEN "half-open" ELSE breaker

RecordSuccess ==
    /\ failures' = 0
    /\ breaker' = "closed"
    /\ openedAge' = 0

\* A failed probe opens the breaker again with a fresh cooldown; so does the
\* failure that reaches the threshold.
RecordFailure ==
    /\ failures' = OneMoreFailure(failures)
    /\ breaker' = IF \/ EffectiveState = "half-open"
                     \/ OneMoreFailure(failures) >= FailureThreshold
                  THEN "open" ELSE EffectiveState
    /\ openedAge' = IF breaker' = "open" THEN 0 ELSE openedAge

\* The health a provider reports after embed(): a request that fails, times
\* out or answers with something else leaves the hash provider's vector and
\* degraded health behind (openai.ts; ollama.ts is alike).
HealthAfterEmbed == IF endpoint THEN "healthy" ELSE "degraded"

\* callWrapped: one request to the endpoint, counted by the health after it.
CallWrapped ==
    /\ parity' = 1 - parity
    /\ \/ /\ HealthAfterEmbed = "healthy"
          /\ RecordSuccess /\ streak' = 0 /\ UNCHANGED failedAge
       \/ /\ HealthAfterEmbed = "degraded"
          /\ RecordFailure /\ streak' = OneMoreFailure(streak) /\ failedAge' = 0

\* embed(): the probe of a half-open breaker, a call of a closed one, or any
\* call when there is nothing to divert to.
EmbedRemote ==
    /\ EffectiveState = "open" => ~hasFallback
    /\ CallWrapped
    /\ UNCHANGED <<hasFallback, endpoint>>

\* embed() while the breaker is open and a fallback answers.  health() and
\* status() only look; the look may move an open breaker to half-open.
HealthCheck ==
    /\ breaker' = EffectiveState
    /\ UNCHANGED <<hasFallback, failures, openedAge, endpoint, streak, failedAge, parity>>

\* The endpoint goes down or comes back.
EndpointFlaps ==
    /\ endpoint' = ~endpoint
    /\ UNCHANGED <<hasFallback, breaker, failures, openedAge, streak, failedAge, parity>>

Cool ==
    /\ openedAge' = Older(openedAge)
    /\ failedAge' = Older(failedAge)
    /\ UNCHANGED <<hasFallback, breaker, failures, endpoint, streak, parity>>

BreakerNext == EmbedRemote \/ HealthCheck \/ EndpointFlaps \/ Cool

BreakerSpec == BreakerInit /\ [][BreakerNext]_breakerVars

-----------------------------------------------------------------------------
(***************************************************************************)
(* The failing endpoint is not hammered: once FailureThreshold requests in *)
(* a row have failed, a further request reaches the endpoint only when the *)
(* cooldown after the last failure is over ("without hammering the failing *)
(* endpoint", circuit-breaker.ts), if the wrapper has a fallback; without  *)
(* one the breaker is passive and keeps nothing back (fallback.ts:165).    *)
(***************************************************************************)
NoHammering ==
    [][hasFallback /\ parity' # parity
         => (streak < FailureThreshold \/ failedAge >= Cooldown)]_breakerVars
=============================================================================
