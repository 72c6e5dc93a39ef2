------------------------------ MODULE RateLimits ------------------------------
(***************************************************************************)
(* The limits of the API's rate limiter (api/api.go).  A tick of the clock *)
(* refills one unit of a bucket and a request takes Cost units, so that    *)
(* rateLimiter.limit is 1 / Cost requests per tick.                        *)
(***************************************************************************)
EXTENDS Integers

CONSTANTS
    Client,     \* the addresses of clients
    Cost,       \* units a request takes: one token
    Burst,      \* units in a full bucket
    Idle,       \* ticks after which a bucket may be forgotten: ten minutes
    SweepEvery, \* ticks between two sweeps: a minute
    MaxTime,    \* bound: the clock
    MaxPause    \* bound: ticks that pass at once

\* The limit and the burst are what api.rate_limit and api.rate_burst say, so that a
\* bucket may take longer to refill than to be forgotten.
ASSUME LimitsAssumption ==
    /\ Cost \in Nat \ {0} /\ Burst \in Nat \ {0}
    /\ Idle \in Nat \ {0} /\ SweepEvery \in Nat
ASSUME BoundsAssumption == MaxTime \in Nat /\ MaxPause \in Nat

Refilled(tokens, elapsed) == IF tokens + elapsed > Burst THEN Burst ELSE tokens + elapsed

\* A time, as far as it matters to a bucket that is idle.
Waited(elapsed) == IF elapsed > Idle THEN Idle ELSE elapsed
=============================================================================
