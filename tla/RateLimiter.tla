----------------------------- MODULE RateLimiter ------------------------------
(***************************************************************************)
(* rateLimiter (api/api.go), which authMiddleware asks about each request  *)
(* that has authenticated: buckets are made on first use, refilled when    *)
(* they are used, and forgotten in a sweep when they have been idle.  It   *)
(* implements TokenBuckets.  allow is one step under rateLimiter.mu.       *)
(***************************************************************************)
EXTENDS RateLimits, Functions

VARIABLES
    now,        \* the clock
    buckets,    \* rateLimiter.buckets
    lastSweep,  \* rateLimiter.lastSweep
    answer,     \* the answer to the request made last, if that was just now
    asked       \* history: when a request was made last

vars == <<now, buckets, lastSweep, answer, asked>>

Bucket == [tokens : 0 .. Burst, last : Nat]

Full == [tokens |-> Burst, last |-> now]

Init ==
    /\ now = 0
    /\ buckets = [c \in {} |-> [tokens |-> 0, last |-> 0]]
    /\ lastSweep = 0
    /\ answer = <<>> /\ asked = 0

-----------------------------------------------------------------------------
Due == now - lastSweep >= SweepEvery

Stale(c) == now - buckets[c].last >= Idle

\* The buckets that a request finds.
Remaining_All == IF Due THEN {} ELSE DOMAIN buckets

Remaining == IF Due THEN {c \in DOMAIN buckets : ~Stale(c)} ELSE DOMAIN buckets

\* The bucket of a client as a request finds it: there, or made for it.
Found(c) == IF c \in Remaining THEN buckets[c] ELSE Full

Available(c) == Refilled(Found(c).tokens, now - Found(c).last)

Allowed(c) == Available(c) >= Cost

Allow_Postponing(c) ==
    /\ lastSweep' = now
    /\ buckets' = [d \in Remaining \cup {c} |->
                     IF d = c
                     THEN [tokens |-> IF Allowed(c) THEN Available(c) - Cost ELSE Available(c),
                           last   |-> now]
                     ELSE buckets[d]]
    /\ answer' = <<c, Allowed(c)>>
    /\ asked' = now
    /\ UNCHANGED now

Allow(c) ==
    /\ lastSweep' = IF Due THEN now ELSE lastSweep
    /\ buckets' = [d \in Remaining \cup {c} |->
                     IF d = c
                     THEN [tokens |-> IF Allowed(c) THEN Available(c) - Cost ELSE Available(c),
                           last   |-> now]
                     ELSE buckets[d]]
    /\ answer' = <<c, Allowed(c)>>
    /\ asked' = now
    /\ UNCHANGED now

Pass(n) ==
    /\ now + n <= MaxTime
    /\ now' = now + n
    /\ answer' = <<>>
    /\ UNCHANGED <<buckets, lastSweep, asked>>

Next ==
    \/ \E c \in Client : Allow(c)
    \/ \E n \in 1 .. MaxPause : Pass(n)

Spec == Init /\ [][Next]_vars

-----------------------------------------------------------------------------
(* Properties.                                                             *)

TypeOK ==
    /\ now \in Nat /\ lastSweep \in 0 .. now /\ asked \in 0 .. now
    /\ DOMAIN buckets \subseteq Client
    /\ \A c \in DOMAIN buckets : buckets[c] \in Bucket /\ buckets[c].last <= now
    /\ answer \in (Client \X BOOLEAN) \cup {<<>>}

Level == [c \in Client |-> IF c \in DOMAIN buckets
                           THEN Refilled(buckets[c].tokens, now - buckets[c].last) ELSE Burst]

Silence == [c \in Client |-> IF c \in DOMAIN buckets
                             THEN Waited(now - buckets[c].last) ELSE Idle]

Buckets == INSTANCE TokenBuckets WITH level <- Level, silent <- Silence

\* Clients are answered as if each had had a bucket from the beginning: one that is
\* made late or refilled late gives nobody more or fewer requests than the limit and
\* the burst, and a sweep gives a client the burst again only if that has not asked
\* for as long as Idle.
ImplementsTokenBuckets == Buckets!Spec

\* The buckets do not pile up: when a request has been answered, no bucket is left
\* that was idle for as long as it takes to be forgotten and the time between two
\* sweeps.
IdleBucketsGo ==
    \A c \in DOMAIN buckets : asked - buckets[c].last < Idle + SweepEvery
=============================================================================
