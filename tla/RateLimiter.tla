---------------------------- MODULE RateLimiter ----------------------------
(***************************************************************************)
(* The token bucket before every route (middleware/rate-limiter.ts). Time  *)
(* is counted in a unit in which refillRateMs (60000 / requestsPerMinute)  *)
(* is a whole number. Tokens come back whole, when somebody asks: what is  *)
(* left of the elapsed time is dropped with the refill.                    *)
(***************************************************************************)
EXTENDS Integers

CONSTANTS
    Key,         \* clients: the addresses requests come from
    Rate,        \* refillRateMs
    Burst,       \* burstSize
    EndOfTime    \* bound: the clock

ASSUME RateAssumption == Rate \in Nat \ {0}
ASSUME BurstAssumption == Burst \in Nat \ {0}
ASSUME EndAssumption == EndOfTime \in Nat

VARIABLES
    clock,
    known,       \* keys with a bucket
    tokens,      \* [Key -> tokens]
    lastRefill,  \* [Key -> time]
    resetAt,     \* [Key -> the time told to the last client refused, or -1]
    since,       \* history: when somebody began to count
    counted      \* history: [Key -> requests admitted since then]

rateVars == <<clock, known, tokens, lastRefill, resetAt, since, counted>>

----------------------------------------------------------------------------

RateInit ==
    /\ clock = 0 /\ since = 0
    /\ known = {}
    /\ tokens = [k \in Key |-> Burst]
    /\ lastRefill = [k \in Key |-> 0]
    /\ resetAt = [k \in Key |-> -1]
    /\ counted = [k \in Key |-> 0]

\* A bucket that nobody asked for is created full.
Filled(k) == IF k \in known THEN tokens[k] ELSE Burst
FilledAt(k) == IF k \in known THEN lastRefill[k] ELSE clock

\* Mutant: an idle client saves up tokens without end.
RefillUncapped(k, whole) == Filled(k) + whole

Refill(k, whole) ==
    IF Filled(k) + whole < Burst THEN Filled(k) + whole ELSE Burst

\* whole = Math.floor(elapsed / refillRateMs)
Floored(whole, elapsed) == Rate * whole <= elapsed /\ elapsed < Rate * (whole + 1)

\* Mutant: the time told is the time of the refill, not of the next token.
ResetTimeAtRefill(left, at) == at

\* now + Math.ceil((1 - tokens) * refillRateMs)
ResetTime(left, at) == clock + (1 - left) * Rate

TryConsume(k) ==
    \E whole \in 0..clock :
        LET left == IF whole > 0 THEN Refill(k, whole) ELSE Filled(k)
            at   == IF whole > 0 THEN clock ELSE FilledAt(k)
        IN  /\ Floored(whole, clock - FilledAt(k))
            /\ known' = known \cup {k}
            /\ lastRefill' = [lastRefill EXCEPT ![k] = at]
            /\ \/ /\ left >= 1
                  /\ tokens' = [tokens EXCEPT ![k] = left - 1]
                  /\ counted' = [counted EXCEPT ![k] = @ + 1]
                  /\ resetAt' = [resetAt EXCEPT ![k] = -1]
               \/ /\ left < 1
                  /\ tokens' = [tokens EXCEPT ![k] = left]
                  /\ resetAt' = [resetAt EXCEPT ![k] = ResetTime(left, at)]
                  /\ UNCHANGED counted
            /\ UNCHANGED <<clock, since>>

ClockTick ==
    /\ clock < EndOfTime /\ clock' = clock + 1
    /\ UNCHANGED <<known, tokens, lastRefill, resetAt, since, counted>>

\* Anybody may begin to count at any time.
BeginWindow ==
    /\ since' = clock
    /\ counted' = [k \in Key |-> 0]
    /\ UNCHANGED <<clock, known, tokens, lastRefill, resetAt>>

RateNext == (\E k \in Key : TryConsume(k)) \/ ClockTick \/ BeginWindow

RateSpec == RateInit /\ [][RateNext]_rateVars

----------------------------------------------------------------------------

\* In any stretch of time a client gets no more than the burst, one request per
\* refill interval of it, and one for the interval it began in: however its
\* requests fall, an idle client cannot save up and the dropped remainders
\* never add up to a token.
WindowBounded ==
    \A k \in Key :
        Rate * counted[k] <= Rate * Burst + (clock - since) + (Rate - 1)

\* The Retry-After of a refusal is honest: when that time has come and the
\* client was not served meanwhile, its next request finds a token.
RetryAfterHonest ==
    \A k \in Key :
        resetAt[k] # -1 /\ clock >= resetAt[k]
            => \E whole \in 0..clock : /\ Floored(whole, clock - FilledAt(k))
                                       /\ Refill(k, whole) >= 1

\* The two promises of tryConsume: what it admits, and what a refusal says.
RateKept == WindowBounded /\ RetryAfterHonest

----------------------------------------------------------------------------

\* What makes WindowBounded inductive. A window that began after the last refill
\* has been served from what was there; if it was served at all, it began less
\* than an interval after that refill.
RateInv ==
    /\ clock \in Nat /\ since \in Nat /\ since <= clock
    /\ known \subseteq Key
    /\ tokens \in [Key -> Nat] /\ lastRefill \in [Key -> Nat] /\ counted \in [Key -> Nat]
    /\ \A k \in Key :
         /\ tokens[k] <= Burst
         /\ lastRefill[k] <= clock
         /\ k \notin known => counted[k] = 0
         /\ k \in known /\ lastRefill[k] < since =>
              /\ counted[k] + tokens[k] <= Burst
              /\ counted[k] > 0 => since - lastRefill[k] < Rate
         /\ k \in known /\ lastRefill[k] >= since =>
              Rate * (counted[k] + tokens[k])
                  <= Rate * Burst + (lastRefill[k] - since) + (Rate - 1)
============================================================================
