-------------------------- MODULE RateLimiterProofs ---------------------------
(***************************************************************************)
(* Theorems about RateLimiter for any limits, clients and pauses.  Swept   *)
(* says what the sweep leaves: a bucket that is older than the last sweep  *)
(* was not idle for long when it took place.                               *)
(***************************************************************************)
EXTENDS RateLimiter, TLAPS

Swept ==
    /\ \A c \in DOMAIN buckets : lastSweep - buckets[c].last < Idle
    /\ asked - lastSweep < SweepEvery \/ asked = lastSweep

Inv == TypeOK /\ Swept

-----------------------------------------------------------------------------
LEMMA InitInv == Init => Inv
<1> SUFFICES ASSUME Init PROVE Inv
  OBVIOUS
<1>1. DOMAIN buckets = {}
  BY DEF Init
<1>2. TypeOK
  BY <1>1 DEF Init, TypeOK
<1>3. Swept
  BY <1>1 DEF Init, Swept
<1> QED
  BY <1>2, <1>3 DEF Inv

\* A refill stays within the bucket, and refills add up.
LEMMA RefilledType ==
    ASSUME NEW t \in 0 .. Burst, NEW n \in Nat
    PROVE  Refilled(t, n) \in 0 .. Burst
BY LimitsAssumption DEF Refilled

LEMMA RefilledAddsUp ==
    ASSUME NEW t \in 0 .. Burst, NEW m \in Nat, NEW n \in Nat
    PROVE  Refilled(Refilled(t, m), n) = Refilled(t, m + n)
BY LimitsAssumption DEF Refilled

\* The bucket a request finds, and what there is in it.
LEMMA FoundType ==
    ASSUME TypeOK, NEW c \in Client
    PROVE  /\ Found(c) \in Bucket /\ Found(c).last <= now
           /\ Available(c) \in 0 .. Burst /\ Allowed(c) \in BOOLEAN
<1>1. Full \in Bucket /\ Full.last <= now
  BY LimitsAssumption DEF Full, Bucket, TypeOK
<1>2. Remaining \subseteq DOMAIN buckets
  BY DEF Remaining
<1>3. Found(c) \in Bucket /\ Found(c).last <= now
  BY <1>1, <1>2 DEF Found, TypeOK
<1>4. Found(c).tokens \in 0 .. Burst /\ now - Found(c).last \in Nat
  BY <1>3 DEF Bucket, TypeOK
<1>5. Available(c) \in 0 .. Burst
  BY <1>4, RefilledType DEF Available
<1> QED
  BY <1>3, <1>5 DEF Allowed

\* The buckets after a request.
LEMMA AllowBuckets ==
    ASSUME TypeOK, NEW c \in Client, Allow(c)
    PROVE  /\ DOMAIN buckets' = Remaining \cup {c}
           /\ Remaining \subseteq DOMAIN buckets
           /\ buckets'[c].last = now
           /\ buckets'[c].tokens = IF Allowed(c) THEN Available(c) - Cost ELSE Available(c)
           /\ buckets'[c] \in Bucket
           /\ \A d \in Remaining : d # c => buckets'[d] = buckets[d]
<1>1. /\ Available(c) \in 0 .. Burst
      /\ Allowed(c) <=> Available(c) >= Cost
  BY FoundType DEF Allowed
<1> DEFINE b == [tokens |-> IF Allowed(c) THEN Available(c) - Cost ELSE Available(c), last |-> now]
<1>2. b \in Bucket
  BY <1>1, LimitsAssumption DEF Bucket, TypeOK
<1>3. buckets' = [d \in Remaining \cup {c} |-> IF d = c THEN b ELSE buckets[d]]
  BY DEF Allow
<1>4. Remaining \subseteq DOMAIN buckets
  BY DEF Remaining
<1> HIDE DEF b
<1>5. buckets'[c] = b
  BY <1>3
<1>6. b.last = now /\ b.tokens = IF Allowed(c) THEN Available(c) - Cost ELSE Available(c)
  BY DEF b
<1> QED
  BY <1>2, <1>3, <1>4, <1>5, <1>6

LEMMA AllowInv ==
    ASSUME Inv, NEW c \in Client, Allow(c)
    PROVE  Inv'
<1> USE DEF Inv
<1>1. now' = now /\ asked' = now /\ lastSweep' = (IF Due THEN now ELSE lastSweep)
  BY DEF Allow
<1>2. answer' \in (Client \X BOOLEAN) \cup {<<>>}
  BY FoundType DEF Allow
<1>3. TypeOK'
  <2>1. now' \in Nat /\ lastSweep' \in 0 .. now' /\ asked' \in 0 .. now'
    BY <1>1 DEF TypeOK
  <2>2. DOMAIN buckets' \subseteq Client
    BY AllowBuckets DEF TypeOK
  <2>3. \A d \in DOMAIN buckets' : buckets'[d] \in Bucket /\ buckets'[d].last <= now'
    <3>1. ASSUME NEW d \in DOMAIN buckets' PROVE buckets'[d] \in Bucket /\ buckets'[d].last <= now'
      <4>1. CASE d = c
        <5>1. buckets'[c] \in Bucket /\ buckets'[c].last = now'
          BY <1>1, AllowBuckets
        <5>2. now' <= now'
          BY <2>1
        <5> QED
          BY <4>1, <5>1, <5>2
      <4>2. CASE d # c
        BY <1>1, <4>2, AllowBuckets DEF TypeOK
      <4> QED
        BY <4>1, <4>2
    <3> QED
      BY <3>1
  <2> QED
    BY <1>2, <2>1, <2>2, <2>3 DEF TypeOK
<1>4. Swept'
  <2>1. ASSUME NEW d \in DOMAIN buckets' PROVE lastSweep' - buckets'[d].last < Idle
    <3>1. CASE d = c
      <4>1. buckets'[d].last = now
        BY <3>1, AllowBuckets
      <4>2. now \in Nat /\ lastSweep \in 0 .. now
        BY DEF TypeOK
      <4>3. CASE Due
        BY <1>1, <4>1, <4>2, <4>3, LimitsAssumption
      <4>4. CASE ~Due
        BY <1>1, <4>1, <4>2, <4>4, LimitsAssumption
      <4> QED
        BY <4>3, <4>4
    <3>2. CASE d # c
      <4>1. d \in Remaining /\ buckets'[d] = buckets[d] /\ d \in DOMAIN buckets
        BY <3>2, AllowBuckets
      <4>2. buckets[d].last \in Nat
        BY <4>1 DEF TypeOK, Bucket
      <4>3. CASE Due
        BY <1>1, <4>1, <4>2, <4>3, LimitsAssumption DEF Remaining, Stale, TypeOK
      <4>4. CASE ~Due
        BY <1>1, <4>1, <4>4 DEF Swept
      <4> QED
        BY <4>3, <4>4
    <3> QED
      BY <3>1, <3>2
  <2>2. asked' - lastSweep' < SweepEvery \/ asked' = lastSweep'
    BY <1>1, LimitsAssumption DEF Due, TypeOK
  <2> QED
    BY <2>1, <2>2 DEF Swept
<1> QED
  BY <1>3, <1>4

LEMMA StepInv == Inv /\ [Next]_vars => Inv'
<1> SUFFICES ASSUME Inv, [Next]_vars PROVE Inv'
  OBVIOUS
<1>1. CASE UNCHANGED vars
  BY <1>1 DEF vars, Inv, TypeOK, Swept
<1>2. ASSUME NEW c \in Client, Allow(c) PROVE Inv'
  BY <1>2, AllowInv
<1>3. ASSUME NEW n \in 1 .. MaxPause, Pass(n) PROVE Inv'
  <2>1. now' \in Nat /\ now <= now'
    BY <1>3, BoundsAssumption DEF Pass, Inv, TypeOK
  <2>2. TypeOK'
    BY <1>3, <2>1 DEF Pass, Inv, TypeOK, Bucket
  <2>3. Swept'
    BY <1>3 DEF Pass, Inv, Swept
  <2> QED
    BY <2>2, <2>3 DEF Inv
<1> QED
  BY <1>1, <1>2, <1>3 DEF Next

THEOREM Invariant == Spec => []Inv
<1> QED
  BY InitInv, StepInv, PTL DEF Spec

-----------------------------------------------------------------------------
(* What each bucket would hold if it were refilled now.                    *)

LEMMA LevelType ==
    ASSUME TypeOK, NEW c \in Client
    PROVE  Level[c] \in 0 .. Burst
<1>1. CASE c \in DOMAIN buckets
  <2>1. buckets[c].tokens \in 0 .. Burst /\ now - buckets[c].last \in Nat
    BY <1>1 DEF TypeOK, Bucket
  <2> QED
    BY <1>1, <2>1, RefilledType DEF Level
<1>2. CASE c \notin DOMAIN buckets
  BY <1>2, LimitsAssumption DEF Level
<1> QED
  BY <1>1, <1>2

\* Where a bucket refills in the time it takes to be forgotten, or faster, the sweep
\* gives nobody anything: what it forgets is full.
LEMMA StaleIsFull ==
    ASSUME Burst <= Idle, TypeOK, NEW c \in DOMAIN buckets, Stale(c)
    PROVE  Level[c] = Burst
<1>1. c \in Client /\ buckets[c].tokens \in 0 .. Burst
      /\ buckets[c].last \in Nat /\ now - buckets[c].last >= Idle
  BY DEF TypeOK, Bucket, Stale
<1> QED
  BY <1>1, LimitsAssumption DEF Level, Refilled, TypeOK

\* What a request forgets, or never knew, are buckets of clients that are idle.
Forgotten == Client \ Remaining

LEMMA ForgottenAreIdle ==
    ASSUME TypeOK, NEW c \in Forgotten
    PROVE  Silence[c] >= Idle
<1>1. CASE c \in DOMAIN buckets
  <2>1. Stale(c) /\ now - buckets[c].last \in Nat
    BY <1>1 DEF Forgotten, Remaining, TypeOK, Bucket
  <2> QED
    BY <1>1, <2>1, LimitsAssumption DEF Silence, Waited, Stale, Forgotten
<1>2. CASE c \notin DOMAIN buckets
  BY <1>2, LimitsAssumption DEF Silence, Forgotten
<1> QED
  BY <1>1, <1>2

\* What a request finds is what the bucket would hold, unless it was forgotten.
LEMMA AvailableIsHeld ==
    ASSUME TypeOK, NEW c \in Client
    PROVE  Available(c) = IF c \in Forgotten THEN Burst ELSE Level[c]
<1>1. CASE c \in Remaining
  BY <1>1 DEF Forgotten, Remaining, Available, Found, Level
<1>2. CASE c \notin Remaining
  <2>1. Available(c) = Refilled(Burst, now - now)
    BY <1>2 DEF Available, Found, Full
  <2>2. Available(c) = Burst
    BY <2>1, LimitsAssumption DEF Refilled, TypeOK
  <2> QED
    BY <1>2, <2>2 DEF Forgotten
<1> QED
  BY <1>1, <1>2

LEMMA AllowRefines ==
    ASSUME TypeOK, NEW c \in Client, Allow(c)
    PROVE  Buckets!Request(c, Forgotten)
<1> DEFINE held == Buckets!Held(Forgotten)
<1>1. now' = now /\ answer' = <<c, Allowed(c)>>
  BY DEF Allow
<1>2. /\ held = [d \in Client |-> IF d \in Forgotten THEN Burst ELSE Level[d]]
      /\ held[c] = Available(c) /\ Available(c) \in 0 .. Burst
  BY AvailableIsHeld, FoundType DEF Buckets!Held
<1>3. \A d \in Forgotten : Silence[d] >= Idle
  BY ForgottenAreIdle
<1> HIDE DEF held
<1>4. Level'[c] = (IF Allowed(c) THEN held[c] - Cost ELSE held[c]) /\ Silence'[c] = 0
  <2>1. Level'[c] = Refilled(buckets'[c].tokens, now - now) /\ Silence'[c] = Waited(now - now)
    BY <1>1, AllowBuckets DEF Level, Silence
  <2>2. buckets'[c].tokens \in 0 .. Burst
    BY AllowBuckets DEF Bucket
  <2>3. Level'[c] = buckets'[c].tokens /\ Silence'[c] = 0
    BY <2>1, <2>2, LimitsAssumption DEF Refilled, Waited, TypeOK
  <2> QED
    BY <1>2, <2>3, AllowBuckets
<1>5. ASSUME NEW d \in Client, d # c PROVE Level'[d] = held[d] /\ Silence'[d] = Silence[d]
  <2>1. CASE d \in Remaining
    BY <1>1, <1>2, <1>5, <2>1, AllowBuckets DEF Level, Silence, Forgotten
  <2>2. CASE d \notin Remaining
    <3>1. Level'[d] = Burst /\ Silence'[d] = Idle
      BY <1>5, <2>2, AllowBuckets DEF Level, Silence
    <3>2. held[d] = Burst /\ Silence[d] >= Idle
      BY <1>2, <1>3, <2>2 DEF Forgotten
    <3>3. Silence[d] <= Idle /\ Silence[d] \in Nat
      BY LimitsAssumption DEF Silence, Waited, TypeOK, Bucket
    <3> QED
      BY <3>1, <3>2, <3>3, LimitsAssumption
  <2> QED
    BY <2>1, <2>2
<1>6. /\ Silence = [d \in Client |-> Silence[d]] /\ Silence' = [d \in Client |-> Silence'[d]]
      /\ Level' = [d \in Client |-> Level'[d]] /\ held = [d \in Client |-> held[d]]
  BY <1>2 DEF Level, Silence
<1>7. Silence' = [Silence EXCEPT ![c] = 0]
  BY <1>4, <1>5, <1>6
<1>8. CASE Allowed(c)
  <2>1. held[c] >= Cost
    BY <1>2, <1>8 DEF Allowed
  <2>2. Level' = [held EXCEPT ![c] = @ - Cost]
    BY <1>4, <1>5, <1>6, <1>8
  <2>3. answer' = <<c, TRUE>>
    BY <1>1, <1>8, FoundType
  <2> QED
    BY <1>3, <1>7, <2>1, <2>2, <2>3 DEF Buckets!Request, held
<1>9. CASE ~Allowed(c)
  <2>1. held[c] < Cost
    BY <1>2, <1>9, LimitsAssumption DEF Allowed
  <2>2. Level' = held
    BY <1>4, <1>5, <1>6, <1>9
  <2>3. answer' = <<c, FALSE>>
    BY <1>1, <1>9, FoundType
  <2> QED
    BY <1>3, <1>7, <2>1, <2>2, <2>3 DEF Buckets!Request, held
<1> QED
  BY <1>8, <1>9

\* Times that are waited add up.
LEMMA WaitedAddsUp ==
    ASSUME NEW m \in Nat, NEW n \in Nat
    PROVE  Waited(Waited(m) + n) = Waited(m + n)
BY LimitsAssumption DEF Waited

LEMMA PassRefines ==
    ASSUME TypeOK, NEW n \in 1 .. MaxPause, Pass(n)
    PROVE  \E m \in 0 .. Burst + Idle : Buckets!Pass(m)
<1> DEFINE m == IF n > Burst + Idle THEN Burst + Idle ELSE n
<1>1. n \in Nat /\ now' = now + n /\ buckets' = buckets /\ answer' = <<>>
  BY BoundsAssumption DEF Pass
<1>2. m \in 0 .. Burst + Idle /\ (m = n \/ (m >= Burst /\ m >= Idle /\ n >= Burst /\ n >= Idle))
  BY <1>1, LimitsAssumption
<1> HIDE DEF m
<1>3. ASSUME NEW c \in Client
      PROVE  Level'[c] = Refilled(Level[c], m) /\ Silence'[c] = Waited(Silence[c] + m)
  <2>1. CASE c \in DOMAIN buckets
    <3>1. buckets[c].tokens \in 0 .. Burst /\ now - buckets[c].last \in Nat
      BY <2>1 DEF TypeOK, Bucket
    <3>2. /\ Level'[c] = Refilled(buckets[c].tokens, (now + n) - buckets[c].last)
          /\ Silence'[c] = Waited((now + n) - buckets[c].last)
      BY <1>1, <2>1 DEF Level, Silence
    <3>3. (now + n) - buckets[c].last = (now - buckets[c].last) + n
      BY <1>1, <2>1 DEF TypeOK, Bucket
    <3>4. Level'[c] = Refilled(Level[c], n)
      BY <1>1, <2>1, <3>1, <3>2, <3>3, RefilledAddsUp DEF Level
    <3>5. Silence'[c] = Waited(Silence[c] + n) /\ Silence[c] \in Nat
      <4>1. Silence[c] = Waited(now - buckets[c].last)
        BY <2>1 DEF Silence
      <4>2. Silence[c] \in Nat
        BY <3>1, <4>1, LimitsAssumption DEF Waited
      <4> QED
        BY <1>1, <3>1, <3>2, <3>3, <4>1, <4>2, WaitedAddsUp
    <3>6. Refilled(Level[c], n) = Refilled(Level[c], m)
      BY <1>1, <1>2, LevelType, LimitsAssumption DEF Refilled
    <3>7. Waited(Silence[c] + n) = Waited(Silence[c] + m)
      BY <1>1, <1>2, <3>5, LimitsAssumption DEF Waited
    <3> QED
      BY <3>4, <3>5, <3>6, <3>7
  <2>2. CASE c \notin DOMAIN buckets
    BY <1>1, <1>2, <2>2, LimitsAssumption DEF Level, Silence, Refilled, Waited
  <2> QED
    BY <2>1, <2>2
<1>4. /\ Level' = [c \in Client |-> Refilled(Level[c], m)]
      /\ Silence' = [c \in Client |-> Waited(Silence[c] + m)]
  <2>1. Level' = [c \in Client |-> Level'[c]] /\ Silence' = [c \in Client |-> Silence'[c]]
    BY DEF Level, Silence
  <2> QED
    BY <1>3, <2>1
<1>5. Buckets!Pass(m)
  BY <1>1, <1>4 DEF Buckets!Pass, Buckets!Refilled, Refilled, Buckets!Waited, Waited
<1> QED
  BY <1>2, <1>5

LEMMA InitRefines == Init => Buckets!Init
<1> SUFFICES ASSUME Init PROVE Buckets!Init
  OBVIOUS
<1>1. DOMAIN buckets = {} /\ answer = <<>>
  BY DEF Init
<1> QED
  BY <1>1 DEF Buckets!Init, Level, Silence

LEMMA StepRefines == Inv /\ [Next]_vars => [Buckets!Next]_(Buckets!vars)
<1> SUFFICES ASSUME Inv, [Next]_vars PROVE [Buckets!Next]_(Buckets!vars)
  OBVIOUS
<1>1. CASE UNCHANGED vars
  BY <1>1 DEF vars, Level, Silence, Buckets!vars
<1>2. ASSUME NEW c \in Client, Allow(c) PROVE Buckets!Next
  BY <1>2, AllowRefines DEF Inv, Buckets!Next, Forgotten
<1>3. ASSUME NEW n \in 1 .. MaxPause, Pass(n) PROVE Buckets!Next
  BY <1>3, PassRefines DEF Inv, Buckets!Next
<1> QED
  BY <1>1, <1>2, <1>3 DEF Next

-----------------------------------------------------------------------------
\* The variables keep their types, whatever the limits and however time passes.
THEOREM TypeInvariant == Spec => []TypeOK
<1>1. Inv => TypeOK
  BY DEF Inv
<1> QED
  BY <1>1, Invariant, PTL

\* The sweep in rateLimiter.allow forgets idle buckets in time: when a request has
\* been answered, no bucket is left that nobody used for Idle + SweepEvery ticks.
THEOREM BucketsAreForgotten == Spec => []IdleBucketsGo
<1>1. Inv => IdleBucketsGo
  <2> SUFFICES ASSUME Inv, NEW c \in DOMAIN buckets
               PROVE  asked - buckets[c].last < Idle + SweepEvery
    BY DEF IdleBucketsGo
  <2>1. buckets[c].last \in Nat /\ asked \in Nat /\ lastSweep \in Nat
    BY DEF Inv, TypeOK, Bucket
  <2> QED
    BY <2>1, LimitsAssumption DEF Inv, Swept
<1> QED
  BY <1>1, Invariant, PTL

\* Clients are answered as if each had had a bucket from the beginning, although
\* allow makes buckets late and refills them late.  For any limit and any burst, the
\* sweep gives the burst again only to clients that have not asked for Idle ticks.
THEOREM Implementation == Spec => ImplementsTokenBuckets
<1> QED
  BY InitRefines, StepRefines, Invariant, PTL DEF Spec, ImplementsTokenBuckets, Buckets!Spec

\* What a sweep forgets is full, so that it gives nobody anything.
ForgettingIsFree == \A c \in DOMAIN buckets : Stale(c) => Level[c] = Burst

\* Where the whole burst comes back within Idle ticks, as it does with the limit and
\* the burst that newServer falls back to, the buckets that a sweep forgets are full
\* and make no difference.
THEOREM SweepsGiveNothing == Burst <= Idle => (Spec => []ForgettingIsFree)
<1>1. Inv /\ Burst <= Idle => ForgettingIsFree
  BY StaleIsFull DEF Inv, ForgettingIsFree
<1>2. CASE Burst <= Idle
  <2>1. Inv => ForgettingIsFree
    BY <1>1, <1>2
  <2> QED
    BY <2>1, Invariant, PTL
<1> QED
  BY <1>2
=============================================================================
