----------------------------- MODULE AlertPolicy ------------------------------
(***************************************************************************)
(* Alert rules and providers (alerts/manager.go) and the arithmetic of     *)
(* retries (alerts/retry.go), whose integers have Width bits.  Disabled    *)
(* rules and providers are left out: nothing enables them.                 *)
(***************************************************************************)
EXTENDS Integers, Sequences

CONSTANTS
    Rules,          \* the rules, in their order
    On,             \* the type of event each rule is about
    Targets,        \* the providers of each rule, in its order
    Cooldown,       \* how long each rule keeps silent after it fired
    Provider,       \* identifiers of providers
    Known,          \* the providers in the state file at first
    Attempts,       \* RetryPolicy.Attempts of each provider
    FirstBackoff,   \* RetryPolicy.InitialBackoffMillis, in nanoseconds
    Width,          \* bits of an integer: 64 in the code
    MaxHistory      \* deliveries that are kept: 10000 in the code

Rule == {Rules[i] : i \in DOMAIN Rules}
EventType == {On[r] : r \in Rule}

ASSUME RulesAssumption ==
    /\ Rules \in Seq(Rule)
    /\ DOMAIN On = Rule
    /\ Targets \in [Rule -> Seq(Provider)]
    /\ Cooldown \in [Rule -> Nat]
    /\ Known \in Seq(Provider)
ASSUME RetryAssumption ==
    /\ Attempts \in [Provider -> Nat \ {0}]
    /\ FirstBackoff \in [Provider -> Nat \ {0}]
    /\ Width \in Nat \ {0} /\ MaxHistory \in Nat \ {0}

\* Powers of two.
Power[n \in Nat] == IF n = 0 THEN 1 ELSE 2 * Power[n - 1]

\* An integer as Width bits keep it.
Wrapped(n) == ((n + Power[Width - 1]) % Power[Width]) - Power[Width - 1]

\* Quotients are truncated towards zero.
Quotient(n, k) == IF n >= 0 THEN n \div k ELSE -((-n) \div k)

Backoff(p, attempt) == Wrapped(FirstBackoff[p] * Power[attempt])

\* The bound of the random jitter; rand.Int64N panics unless it is positive.
JitterBound(p, attempt) == Wrapped(Quotient(Backoff(p, attempt), 4) + 1)

Healthy     == "healthy"
Unreachable == "unreachable"

Health == [status : {"unknown", Healthy, Unreachable}, successes : Nat, failures : Nat]

NeverSeen == [status |-> "unknown", successes |-> 0, failures |-> 0]

Observed_Sticky(h, success) ==
    IF success THEN [status |-> Healthy, successes |-> h.successes + 1, failures |-> h.failures]
               ELSE [status |-> Unreachable, successes |-> 0, failures |-> h.failures + 1]

\* What an answer, or the lack of one, does to the health of a provider.
Observed(h, success) ==
    IF success THEN [status |-> Healthy, successes |-> h.successes + 1, failures |-> 0]
               ELSE [status |-> Unreachable, successes |-> 0, failures |-> h.failures + 1]

Newest_Whole(s) == s

Newest(s) == IF Len(s) > MaxHistory THEN SubSeq(s, Len(s) - MaxHistory + 1, Len(s)) ELSE s
=============================================================================
