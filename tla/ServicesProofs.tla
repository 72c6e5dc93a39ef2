---------------------------- MODULE ServicesProofs ----------------------------
(***************************************************************************)
(* Proofs about the four services of MCServices, for any files, streams,   *)
(* rules, providers, policies, clients, pages and bounds.  One service     *)
(* moves in a behaviour and the others stay as they are, so that there is  *)
(* an inductive invariant for each of them, and their conjunction is one.  *)
(***************************************************************************)
EXTENDS MCServices, FiniteSetTheorems, SequenceTheorems, WellFoundedInduction, TLAPS

Limits == INSTANCE RateLimiterProofs

-----------------------------------------------------------------------------
(* The structured log.                                                     *)

\* The entry that is at most in the file: the last one, unless it is to be written.
LastLine == IF task \in {"archive", "copy", "truncate", "prune", "append"} THEN entry - 1 ELSE entry

\* Lines are in their order, and there is one for each entry and each crash.
InOrder(f) ==
    \A i, j \in DOMAIN f : i < j /\ f[i] # Fragment /\ f[j] # Fragment => f[i] < f[j]

Lined(f, last, most) ==
    /\ Len(f) <= most
    /\ \A i \in DOMAIN f : f[i] <= last
    /\ InOrder(f)

LogFilesAreLined ==
    /\ Lined(active, LastLine, LastLine + crashes) /\ Lined(stable, LastLine, LastLine + crashes)
    /\ entry <= MaxEntries /\ crashes <= MaxCrashes

\* What a rotation and a write have done so far.
LogTask ==
    /\ task # "none" => entry > 0
    /\ task = "archive" => entry \notin DOMAIN archives
    /\ task = "copy" => entry \in DOMAIN archives /\ ~archives[entry].whole
    /\ task = "truncate" =>
          entry \in DOMAIN archives /\ archives[entry].whole /\ archives[entry].lines = active
    /\ task \in {"sync", "tell"} => entry \in Entries(active) \cup excused

\* What was acknowledged is kept, now and after a power failure, which may leave any
\* part of a file that does not extend what was synchronised.
LogKeeps ==
    /\ \A n \in DOMAIN acked : acked[n] \in Entries(active) \cup Archived(archives) \cup excused
    /\ \A n \in DOMAIN acked : acked[n] \in Entries(stable) \cup Archived(archives) \cup excused
    /\ ~Log!Extends(active, stable) =>
          \A n \in DOMAIN acked : acked[n] \in Archived(archives) \cup excused

\* The acknowledged entries that the streams have been told of.
Told == IF task = "tell" THEN Len(acked) - 1 ELSE Len(acked)

LogStreams ==
    /\ task = "tell" => Len(acked) > 0 /\ acked[Len(acked)] = entry
    /\ \A s \in Stream \ open : queue[s] = <<>>
    /\ \A s \in open \ lost : seen[s] <= Told /\ queue[s] = SubSeq(acked, seen[s] + 1, Told)

\* The lines that a query may read yet: any, where the file was emptied under it.
Ahead(r) == {j \in DOMAIN active : active[j] # Fragment /\ (adrift[r] \/ j > at[r])}

\* A query that is under way has found what comes before all that it may read yet;
\* what is missing from it is among that.

LogQuery(r) ==
    /\ at[r] = Log!NoQuery => got[r] = <<>> /\ expected[r] = {}
    /\ \A i, j \in DOMAIN got[r] : i < j => got[r][i] < got[r][j]
    /\ \A i \in DOMAIN got[r] :
          /\ got[r][i] <= LastLine
          /\ \A j \in Ahead(r) : got[r][i] < active[j]
    /\ \A x \in expected[r] :
          \/ \E i \in DOMAIN got[r] : got[r][i] = x
          \/ \E j \in Ahead(r) : Parses(active, j) /\ active[j] = x

\* The part of a line that a query has in its buffer may become a line of its own
\* once, and only where the file was emptied meanwhile.
LogJoined(r) ==
    /\ at[r] = Log!NoQuery => ~adrift[r]
    /\ adrift[r] => expected[r] = {}
    /\ joined[r] + (IF adrift[r] /\ held[r] THEN 1 ELSE 0) <= caught[r]

LogInv ==
    /\ Log!TypeOK /\ LogFilesAreLined /\ LogTask /\ LogKeeps /\ LogStreams
    /\ \A r \in Reader : LogQuery(r) /\ LogJoined(r)
    /\ ArchivesAreBounded

-----------------------------------------------------------------------------
(* The audit trail.                                                        *)

LastRecord == IF stage = "write" THEN record - 1 ELSE record

TrailIsLined ==
    /\ Lined(trail, LastRecord, LastRecord + mishaps)
    /\ record <= MaxRecords /\ mishaps <= MaxMishaps
    /\ stage # "none" => record > 0

\* On a line of its own or behind a fragment.
Lines(f) == Entries(f) \cup Audit!Garbled(f)

RecordsAreKept ==
    /\ kept \subseteq Lines(synced)
    /\ stage = "sync" => record \in Lines(trail)

\* The records a query has matched.
Found(p) == {i \in DOMAIN trail : i <= cursor[p] /\ Audit!Matches(i)}

Paging(p) ==
    /\ cursor[p] = Audit!NoPage => matched[p] = 0 /\ page[p] = <<>>
    /\ cursor[p] # Audit!NoPage => cursor[p] <= Len(trail) /\ matched[p] = Cardinality(Found(p))

\* A page follows those before it: nothing is on it before all that the client has
\* was passed, and then everything is that was matched, until the page is full.
PagesJoin(p) ==
    /\ Audit!Begins(pages[p], Entries(trail) \cap Wanted)
    /\ Audit!Begins(pages[p] \o page[p], Entries(trail) \cap Wanted)
    /\ cursor[p] # Audit!NoPage =>
          /\ \A x \in Audit!Range(page[p]) : \E i \in Found(p) : trail[i] = x
          /\ page[p] # <<>> => \A x \in Audit!Range(pages[p]) : \E i \in Found(p) : trail[i] = x
          /\ Len(page[p]) < PageSize =>
                \A i \in Found(p) : trail[i] \in Audit!Range(pages[p] \o page[p])

AuditInv ==
    /\ Audit!TypeOK /\ TrailIsLined /\ RecordsAreKept
    /\ \A p \in Pager : Paging(p)
    /\ \A p \in Pager \ misled : PagesJoin(p)

-----------------------------------------------------------------------------
(* The alert manager.                                                      *)

\* A rule keeps silent from the last time that it fired.
Cooling ==
    \A r \in Rule :
        /\ rounds[r] = <<>> => cooldowns[r] = 0
        /\ rounds[r] # <<>> => cooldowns[r] = rounds[r][Len(rounds[r])] + Cooldown[r]
        /\ \A i \in DOMAIN rounds[r] :
              rounds[r][i] <= alertNow /\ rounds[r][i] + Cooldown[r] <= cooldowns[r]

\* What a dispatcher knows of the delivery it is at.
Failed(s) == \A i \in DOMAIN s : s[i] = "temporary"

Trying(d) ==
    /\ tries[d] = Len(sends[d])
    /\ jobs[d] # <<>> => rule[d] > 0
    /\ pc[d] \in {"idle", "rule"} => attempt[d] = 0 /\ sends[d] = <<>> /\ ~success[d]
    /\ pc[d] = "attempt" =>
          /\ Len(sends[d]) = attempt[d] /\ attempt[d] < Attempts[Head(jobs[d])]
          /\ Failed(sends[d]) /\ ~success[d]
    /\ pc[d] = "wait" =>
          /\ Len(sends[d]) = attempt[d] + 1 /\ attempt[d] + 1 < Attempts[Head(jobs[d])]
          /\ Failed(sends[d]) /\ ~success[d]
    /\ pc[d] = "record" =>
          /\ Len(sends[d]) <= Attempts[Head(jobs[d])]
          /\ \A i \in 1 .. Len(sends[d]) - 1 : sends[d][i] = "temporary"
          /\ success[d] <=> Len(sends[d]) > 0 /\ sends[d][Len(sends[d])] = "ok"

\* Whom an alert is for, or was for, is a provider.
Listed(s, known) == \A i \in DOMAIN s : \E j \in DOMAIN known : known[j] = s[i]

Named ==
    /\ \A d \in Dispatcher : Listed(copied[d], providers) /\ Listed(jobs[d], providers)
    /\ \A st \in {Alerts!Memory, saved} : \A n \in DOMAIN st.deliveries :
          \E j \in DOMAIN st.providers : st.providers[j] = st.deliveries[n].provider

AlertsInv ==
    /\ Alerts!TypeOK /\ Cooling /\ CooldownHolds /\ (\A d \in Dispatcher : Trying(d)) /\ Named
    /\ HistoryIsTrue /\ HealthAgreesWithHistory

-----------------------------------------------------------------------------
(* The rate limiter: what RateLimiterProofs shows of it.                   *)

LEMMA LimiterInit == Limiter!Init => Limits!Init
BY DEF Limiter!Init, Limits!Init

LEMMA LimiterRequest ==
  ASSUME NEW c \in Client, Limiter!Allow(c)
  PROVE  Limits!Allow(c)
BY DEF Limiter!Allow, Limits!Allow, Limiter!Due, Limits!Due, Limiter!Remaining, Limits!Remaining,
       Limiter!Stale, Limits!Stale, Limiter!Allowed, Limits!Allowed, Limiter!Available,
       Limits!Available, Limiter!Found, Limits!Found, Limiter!Full, Limits!Full,
       Limiter!Refilled, Limits!Refilled

LEMMA LimiterStep == [Limiter!Next]_limiterVars => [Limits!Next]_Limits!vars
<1>1. ASSUME NEW n \in 1 .. MaxPause, Limiter!Pass(n) PROVE Limits!Pass(n)
  BY <1>1 DEF Limiter!Pass, Limits!Pass
<1>2. Limiter!Next => Limits!Next
  BY <1>1, LimiterRequest DEF Limiter!Next, Limits!Next
<1>3. UNCHANGED limiterVars => UNCHANGED Limits!vars
  BY DEF limiterVars, Limits!vars
<1> QED BY <1>2, <1>3

LEMMA LimiterRefines ==
  ASSUME Limits!Inv, [Limiter!Next]_limiterVars
  PROVE  [Limiter!Buckets!Next]_Limiter!Buckets!vars
<1>1. [Limits!Buckets!Next]_Limits!Buckets!vars
  BY LimitsAssumption, BoundsAssumption, LimiterStep, Limits!StepRefines
<1> USE DEF Limits!Level, Limiter!Level, Limits!Refilled, Limiter!Refilled,
     Limits!Silence, Limiter!Silence, Limits!Waited, Limiter!Waited
<1>2. ASSUME NEW n \in 0 .. Burst + Idle, Limits!Buckets!Pass(n) PROVE Limiter!Buckets!Pass(n)
  BY <1>2 DEF Limits!Buckets!Pass, Limiter!Buckets!Pass, Limits!Buckets!Refilled,
     Limiter!Buckets!Refilled, Limits!Buckets!Waited, Limiter!Buckets!Waited
<1>3. ASSUME NEW c \in Client, NEW f \in SUBSET Client, Limits!Buckets!Request(c, f)
      PROVE  Limiter!Buckets!Request(c, f)
  BY <1>3 DEF Limits!Buckets!Request, Limiter!Buckets!Request, Limits!Buckets!Held, Limiter!Buckets!Held
<1>4. CASE UNCHANGED Limits!Buckets!vars
  BY <1>4 DEF Limits!Buckets!vars, Limiter!Buckets!vars
<1>5. CASE Limits!Buckets!Next
  BY <1>2, <1>3, <1>5 DEF Limits!Buckets!Next, Limiter!Buckets!Next
<1> QED BY <1>1, <1>4, <1>5

LEMMA LimiterInv ==
  ASSUME Limits!Inv, [Limiter!Next]_limiterVars
  PROVE  Limits!Inv'
BY LimitsAssumption, BoundsAssumption, LimiterStep, Limits!StepInv

LEMMA LimiterFirst ==
  ASSUME Limiter!Init
  PROVE  Limits!Inv /\ Limiter!Buckets!Init
<1>1. Limits!Inv /\ Limits!Buckets!Init
  BY LimitsAssumption, BoundsAssumption, LimiterInit, Limits!InitInv, Limits!InitRefines
<1> QED
  BY <1>1 DEF Limits!Buckets!Init, Limiter!Buckets!Init, Limits!Level, Limiter!Level,
     Limits!Refilled, Limiter!Refilled, Limits!Silence, Limiter!Silence, Limits!Waited, Limiter!Waited

LEMMA LimiterSafe == Limits!Inv => Limiter!TypeOK /\ IdleBucketsGo
<1>1. Limits!Inv => Limiter!TypeOK
  BY DEF Limits!Inv, Limits!TypeOK, Limiter!TypeOK, Limits!Bucket, Limiter!Bucket
<1>2. Limits!Inv => IdleBucketsGo
  BY LimitsAssumption
  DEF Limits!Inv, Limits!TypeOK, Limits!Swept, Limits!Bucket, IdleBucketsGo, Limiter!IdleBucketsGo
<1> QED BY <1>1, <1>2

-----------------------------------------------------------------------------
(* Lines and archives.                                                     *)

\* The names that the services have for the operators of LogFiles.
LEMMA LogNames ==
  /\ \A f : Log!Entries(f) = Entries(f) /\ Audit!Entries(f) = Entries(f)
  /\ \A f, i : Log!Parses(f, i) = Parses(f, i) /\ Audit!Parses(f, i) = Parses(f, i)
  /\ \A a : Log!Archived(a) = Archived(a) /\ Log!Expired(a) = Expired(a)
  /\ \A S : Log!Cardinality(S) = Cardinality(S) /\ Alerts!Cardinality(S) = Cardinality(S)
  /\ Log!Fragment = Fragment /\ Audit!Fragment = Fragment /\ Log!Archive = Archive
<1>1. Log!Fragment = Fragment /\ Audit!Fragment = Fragment /\ Log!Archive = Archive
  BY DEF Log!Fragment, Audit!Fragment, Fragment, Log!Archive, Archive
<1>2. \A f, i : Log!Parses(f, i) = Parses(f, i) /\ Audit!Parses(f, i) = Parses(f, i)
  BY <1>1 DEF Log!Parses, Audit!Parses, Parses
<1>3. ASSUME NEW f PROVE Log!Entries(f) = Entries(f) /\ Audit!Entries(f) = Entries(f)
  BY <1>2 DEF Log!Entries, Audit!Entries, Entries
<1>4. ASSUME NEW a PROVE Log!Archived(a) = Archived(a) /\ Log!Expired(a) = Expired(a)
  <2>1. Log!Archived(a) = Archived(a)
    BY DEF Log!Archived, Archived, Log!Entries, Entries, Log!Parses, Parses, Log!Fragment, Fragment
  <2>2. Log!Expired(a) = Expired(a)
    BY DEF Log!Expired, Expired, Log!Cardinality, Cardinality
  <2> QED BY <2>1, <2>2
<1>5. \A S : Log!Cardinality(S) = Cardinality(S) /\ Alerts!Cardinality(S) = Cardinality(S)
  BY DEF Log!Cardinality, Alerts!Cardinality, Cardinality
<1> QED BY <1>1, <1>2, <1>3, <1>4, <1>5

LEMMA Appended ==
  ASSUME NEW S, NEW s \in Seq(S), NEW x \in S
  PROVE  /\ Append(s, x) \in Seq(S) /\ Len(Append(s, x)) = Len(s) + 1 /\ Len(s) \in Nat
         /\ DOMAIN Append(s, x) = 1 .. Len(s) + 1 /\ DOMAIN s = 1 .. Len(s)
         /\ Append(s, x)[Len(s) + 1] = x
         /\ \A i \in 1 .. Len(s) : Append(s, x)[i] = s[i]
OBVIOUS

\* What is written at the end of a file leaves the lines before it as they are.
LEMMA ParsesAppended ==
  ASSUME NEW f \in Seq(Nat), NEW x \in Nat
  PROVE  /\ \A i \in 1 .. Len(f) : Parses(Append(f, x), i) <=> Parses(f, i)
         /\ Parses(Append(f, x), Len(f) + 1) => x # Fragment
<1> DEFINE g == Append(f, x)
<1>1. /\ Len(f) \in Nat /\ DOMAIN g = 1 .. Len(f) + 1 /\ g[Len(f) + 1] = x
      /\ \A i \in 1 .. Len(f) : g[i] = f[i]
  BY Appended
<1> HIDE DEF g
<1>2. ASSUME NEW i \in 1 .. Len(f) PROVE Parses(g, i) <=> Parses(f, i)
  <2>1. i = 1 \/ i - 1 \in 1 .. Len(f)
    BY <1>1
  <2> QED BY <1>1, <2>1 DEF Parses
<1>3. Parses(g, Len(f) + 1) => x # Fragment
  BY <1>1 DEF Parses
<1> QED BY <1>2, <1>3 DEF g

LEMMA EntriesAppended ==
  ASSUME NEW f \in Seq(Nat), NEW x \in Nat
  PROVE  /\ Entries(f) \subseteq Entries(Append(f, x))
         /\ Parses(Append(f, x), Len(f) + 1) => x \in Entries(Append(f, x))
<1> DEFINE g == Append(f, x)
<1>1. /\ Len(f) \in Nat /\ DOMAIN g = 1 .. Len(f) + 1 /\ g[Len(f) + 1] = x
      /\ DOMAIN f = 1 .. Len(f) /\ \A i \in 1 .. Len(f) : g[i] = f[i]
  BY Appended
<1>2. \A i \in 1 .. Len(f) : Parses(g, i) <=> Parses(f, i)
  BY ParsesAppended
<1> HIDE DEF g
<1>3. ASSUME NEW i \in DOMAIN f, Parses(f, i) PROVE f[i] \in Entries(g)
  <2>1. i \in DOMAIN g /\ Parses(g, i) /\ g[i] = f[i]
    BY <1>1, <1>2, <1>3
  <2> QED BY <2>1 DEF Entries
<1>4. Entries(f) \subseteq Entries(g)
  BY <1>3 DEF Entries
<1>5. Parses(g, Len(f) + 1) => x \in Entries(g)
  <2>1. Len(f) + 1 \in DOMAIN g
    BY <1>1
  <2> QED BY <1>1, <2>1 DEF Entries
<1> QED BY <1>4, <1>5 DEF g

LEMMA EntriesAreNumbers ==
  ASSUME NEW f \in Seq(Nat)
  PROVE  Entries(f) \subseteq Nat
<1>1. \A i \in DOMAIN f : f[i] \in Nat
  OBVIOUS
<1> QED BY <1>1 DEF Entries

LEMMA NoEntries == Entries(<<>>) = {}
<1>1. DOMAIN <<>> = {}
  OBVIOUS
<1> QED BY <1>1 DEF Entries

Archives(a) == \A n \in DOMAIN a : a[n] \in Archive

LEMMA ArchivedAreNumbers ==
  ASSUME NEW a, Archives(a)
  PROVE  Archived(a) \subseteq Nat
<1>1. \A n \in DOMAIN a : Entries(a[n].lines) \subseteq Nat
  BY EntriesAreNumbers DEF Archives, Archive
<1> QED BY <1>1 DEF Archived

\* An archive that another set of archives has whole is archived there.
LEMMA ArchivedIn ==
  ASSUME NEW a, NEW b, NEW x,
         \A n \in DOMAIN a : a[n].whole /\ x \in Entries(a[n].lines) =>
             n \in DOMAIN b /\ b[n].whole /\ b[n].lines = a[n].lines,
         x \in Archived(a)
  PROVE  x \in Archived(b)
<1>1. PICK n \in DOMAIN a : a[n].whole /\ x \in Entries(a[n].lines)
  BY DEF Archived
<1> QED BY <1>1 DEF Archived

-----------------------------------------------------------------------------
(* Numbers that are retained.                                              *)

Less == {x \in Nat \X Nat : x[1] < x[2]}

LEMMA LeastNumber ==
  ASSUME NEW S \in SUBSET Nat, S # {}
  PROVE  \E n \in S : \A m \in S : n <= m
<1>1. IsWellFoundedOn(Less, Nat)
  BY NatLessThanWellFounded DEF OpToRel, Less
<1>2. PICK n \in S : \A m \in S : <<m, n>> \notin Less
  BY <1>1, WFMin
<1>3. ASSUME NEW m \in S PROVE n <= m
  <2>1. m \in Nat /\ n \in Nat /\ <<m, n>> \notin Less
    BY <1>2
  <2>2. ~(m < n)
    BY <2>1 DEF Less
  <2> QED BY <2>1, <2>2
<1> QED BY <1>3

LEMMA SetInduction ==
  ASSUME NEW S \in SUBSET Nat, 0 \in S, \A n \in S : n + 1 \in S
  PROVE  S = Nat
<1>1. SUFFICES ASSUME Nat \ S # {} PROVE FALSE
  OBVIOUS
<1>2. PICK n \in Nat \ S : \A m \in Nat \ S : n <= m
  BY <1>1, LeastNumber
<1>3. n - 1 \in Nat /\ n - 1 \notin Nat \ S /\ (n - 1) + 1 = n
  BY <1>2
<1> QED BY <1>3

LEMMA UpTo ==
  ASSUME NEW m \in Nat, NEW K, 0 \in K, \A n \in Nat : n < m /\ n \in K => n + 1 \in K
  PROVE  m \in K
<1> DEFINE S == {n \in Nat : n <= m => n \in K}
<1>1. S \in SUBSET Nat /\ 0 \in S /\ \A n \in S : n + 1 \in S
  OBVIOUS
<1>2. S = Nat
  BY <1>1, SetInduction
<1> QED BY <1>2

\* What does not expire is as many archives as are retained.
LEMMA RetainedAreFew ==
  ASSUME NEW a, NEW m \in Nat, DOMAIN a \subseteq 1 .. m
  PROVE  Cardinality(DOMAIN a \ Expired(a)) <= Retention
<1> DEFINE R == DOMAIN a \ Expired(a)
<1>1. IsFiniteSet(1 .. m) /\ Retention \in Nat
  BY FS_Interval, SizeAssumption
<1>2. CASE R = {}
  <2>1. Cardinality({}) = 0
    BY FS_EmptySet
  <2> HIDE DEF R
  <2>2. Cardinality(R) <= Retention
    BY <1>1, <1>2, <2>1
  <2> QED BY <2>2 DEF R
<1>3. CASE R # {}
  <2>1. R \in SUBSET Nat
    BY <1>1
  <2>2. PICK n \in R : \A k \in R : n <= k
    BY <1>3, <2>1, LeastNumber
  <2> DEFINE Up == {k \in DOMAIN a : k >= n}
  <2>3. R \subseteq Up
    BY <2>1, <2>2
  <2>4. IsFiniteSet(Up)
    BY <1>1, FS_Subset
  <2>5. Cardinality(R) <= Cardinality(Up) /\ Cardinality(Up) \in Nat /\ IsFiniteSet(R)
    BY <2>3, <2>4, FS_Subset, FS_CardinalityType
  <2>6. Cardinality(R) \in Nat
    BY <2>5, FS_CardinalityType
  <2>7. ~(Cardinality(Up) > Retention)
    BY <2>2 DEF Expired
  <2> QED BY <1>1, <2>5, <2>6, <2>7
<1> QED BY <1>2, <1>3

-----------------------------------------------------------------------------
(* Lines that are in their order.                                          *)

LEMMA LinedMore ==
  ASSUME NEW f \in Seq(Nat), NEW l \in Nat, NEW m \in Nat, NEW k \in Nat, NEW n \in Nat,
         Lined(f, l, m), l <= k, m <= n
  PROVE  Lined(f, k, n)
<1>1. \A i \in DOMAIN f : f[i] \in Nat /\ f[i] <= l
  BY DEF Lined
<1>2. \A i \in DOMAIN f : f[i] <= k
  BY <1>1
<1>3. Len(f) <= n
  BY DEF Lined
<1> QED BY <1>2, <1>3 DEF Lined

LEMMA LinedEmpty ==
  ASSUME NEW l \in Nat, NEW m \in Nat
  PROVE  Lined(<<>>, l, m)
<1>1. DOMAIN <<>> = {} /\ Len(<<>>) = 0
  OBVIOUS
<1> QED BY <1>1 DEF Lined, InOrder

LEMMA LinedAppended ==
  ASSUME NEW f \in Seq(Nat), NEW l \in Nat, NEW m \in Nat, NEW k \in Nat, NEW n \in Nat,
         Lined(f, l, m), l <= k, m < n, NEW x \in Nat, x = Fragment \/ x > l, x <= k
  PROVE  Lined(Append(f, x), k, n)
<1> DEFINE g == Append(f, x)
<1>1. /\ Len(g) = Len(f) + 1 /\ Len(f) \in Nat /\ DOMAIN g = 1 .. Len(f) + 1 /\ g[Len(f) + 1] = x
      /\ DOMAIN f = 1 .. Len(f) /\ \A i \in 1 .. Len(f) : g[i] = f[i] /\ f[i] \in Nat
  BY Appended
<1> HIDE DEF g
<1>2. Len(g) <= n
  BY <1>1 DEF Lined
<1>3. ASSUME NEW i \in DOMAIN g PROVE g[i] <= k
  <2>1. CASE i = Len(f) + 1
    BY <2>1, <1>1
  <2>2. CASE i # Len(f) + 1
    <3>1. i \in DOMAIN f /\ g[i] = f[i] /\ f[i] \in Nat
      BY <2>2, <1>1
    <3> QED BY <3>1 DEF Lined
  <2> QED BY <2>1, <2>2
<1>4. ASSUME NEW i \in DOMAIN g, NEW j \in DOMAIN g, i < j, g[i] # Fragment, g[j] # Fragment
      PROVE  g[i] < g[j]
  <2>1. i \in DOMAIN f /\ g[i] = f[i] /\ f[i] \in Nat /\ f[i] <= l
    BY <1>1, <1>4 DEF Lined
  <2>2. CASE j = Len(f) + 1
    BY <2>1, <2>2, <1>1, <1>4
  <2>3. CASE j # Len(f) + 1
    <3>1. j \in DOMAIN f /\ g[j] = f[j]
      BY <2>3, <1>1
    <3> QED BY <2>1, <3>1, <1>4 DEF Lined, InOrder
  <2> QED BY <2>2, <2>3
<1> QED BY <1>2, <1>3, <1>4 DEF Lined, InOrder, g

\* No two lines are the same, but for fragments.
LEMMA LinesDiffer ==
  ASSUME NEW f \in Seq(Nat), InOrder(f), NEW i \in DOMAIN f, NEW j \in DOMAIN f,
         f[i] = f[j], f[i] # Fragment
  PROVE  i = j
BY DEF InOrder

\* The lines of a file are lines of one that extends it.
LEMMA EntriesExtended ==
  ASSUME NEW f \in Seq(Nat), NEW g \in Seq(Nat), Log!Extends(f, g)
  PROVE  Entries(g) \subseteq Entries(f)
<1>1. /\ Len(f) \in Nat /\ DOMAIN f = 1 .. Len(f) /\ Len(g) \in Nat /\ DOMAIN g = 1 .. Len(g)
      /\ Len(g) <= Len(f) /\ \A i \in 1 .. Len(g) : f[i] = g[i]
  BY DEF Log!Extends
<1>2. ASSUME NEW i \in DOMAIN g, Parses(g, i) PROVE g[i] \in Entries(f)
  <2>1. i \in DOMAIN f /\ f[i] = g[i] /\ (i = 1 \/ i - 1 \in 1 .. Len(g))
    BY <1>1
  <2>2. Parses(f, i)
    BY <1>1, <1>2, <2>1 DEF Parses
  <2> QED BY <2>1, <2>2 DEF Entries
<1> QED BY <1>2 DEF Entries

LEMMA ExtendsAppended ==
  ASSUME NEW f \in Seq(Nat), NEW g \in Seq(Nat), NEW x \in Nat, Log!Extends(f, g)
  PROVE  Log!Extends(Append(f, x), g)
<1>1. /\ Len(f) \in Nat /\ Len(Append(f, x)) = Len(f) + 1
      /\ \A i \in 1 .. Len(f) : Append(f, x)[i] = f[i]
  BY Appended
<1>2. Len(g) \in Nat /\ DOMAIN g = 1 .. Len(g) /\ Len(g) <= Len(f) /\ \A i \in DOMAIN g : f[i] = g[i]
  BY DEF Log!Extends
<1>3. \A i \in DOMAIN g : i \in 1 .. Len(f)
  BY <1>1, <1>2
<1> HIDE DEF Log!Extends
<1>4. Len(g) <= Len(Append(f, x)) /\ \A i \in DOMAIN g : Append(f, x)[i] = g[i]
  BY <1>1, <1>2, <1>3
<1> QED BY <1>4 DEF Log!Extends

LEMMA FirstLinesAre ==
  ASSUME NEW f \in Seq(Nat), NEW n \in Nat, n <= Len(f)
  PROVE  /\ Log!FirstLines(f, n) \in Seq(Nat) /\ Len(Log!FirstLines(f, n)) = n
         /\ DOMAIN Log!FirstLines(f, n) = 1 .. n
         /\ \A i \in 1 .. n : Log!FirstLines(f, n)[i] = f[i]
<1>1. \A i \in 1 .. n : f[i] \in Nat
  OBVIOUS
<1>2. [i \in 1 .. n |-> f[i]] \in Seq(Nat)
  BY <1>1
<1>3. Len([i \in 1 .. n |-> f[i]]) = n
  BY <1>2
<1> QED BY <1>2, <1>3 DEF Log!FirstLines

LEMMA LinedFirst ==
  ASSUME NEW f \in Seq(Nat), NEW n \in Nat, n <= Len(f), NEW l \in Nat, NEW m \in Nat, Lined(f, l, m)
  PROVE  Lined(Log!FirstLines(f, n), l, n)
<1> DEFINE g == Log!FirstLines(f, n)
<1>1. Len(g) = n /\ DOMAIN g = 1 .. n /\ \A i \in 1 .. n : i \in DOMAIN f /\ g[i] = f[i]
  BY FirstLinesAre
<1> HIDE DEF g
<1>2. \A i \in DOMAIN g : g[i] <= l
  BY <1>1 DEF Lined
<1>3. InOrder(g)
  BY <1>1 DEF Lined, InOrder
<1> QED BY <1>1, <1>2, <1>3 DEF Lined, g

\* What a power failure leaves is a file, with lines in their order, and has all that
\* was synchronised where the file extends it.
LEMMA RemainsAre ==
  ASSUME active \in Seq(Nat), stable \in Seq(Nat), NEW f \in Log!Remains
  PROVE  /\ f \in Seq(Nat)
         /\ Log!Extends(active, stable) => Entries(stable) \subseteq Entries(f)
         /\ \A l, m \in Nat : Lined(active, l, m) /\ Lined(stable, l, m) => Lined(f, l, m)
<1> DEFINE least == IF Log!Extends(active, stable) THEN Len(stable) ELSE 0
<1>0. /\ Len(active) \in Nat /\ Len(stable) \in Nat /\ least \in Nat
      /\ Log!Extends(active, stable) => least = Len(stable)
  OBVIOUS
<1>a. \/ f \in {stable, active}
      \/ \E n \in least .. Len(active) : f = Log!FirstLines(active, n)
      \/ \E n \in least .. Len(active) - 1 : f = Append(Log!FirstLines(active, n), Fragment)
  BY LogNames DEF Log!Remains
<1> HIDE DEF least
<1>b. ASSUME NEW n \in Nat, n <= Len(active), n >= least
      PROVE  Log!Extends(active, stable) => Log!Extends(Log!FirstLines(active, n), stable)
  <2>1. /\ Len(Log!FirstLines(active, n)) = n
        /\ \A i \in 1 .. n : Log!FirstLines(active, n)[i] = active[i]
    BY <1>b, FirstLinesAre
  <2>2. SUFFICES ASSUME Log!Extends(active, stable) PROVE Log!Extends(Log!FirstLines(active, n), stable)
    OBVIOUS
  <2>3. DOMAIN stable = 1 .. Len(stable) /\ Len(stable) <= n /\ \A i \in DOMAIN stable : active[i] = stable[i]
    BY <1>0, <1>b, <2>2 DEF Log!Extends
  <2>4. \A i \in DOMAIN stable : i \in 1 .. n
    <3>1. \A k \in Nat : k <= n => \A i \in 1 .. k : i \in 1 .. n
      BY <1>b
    <3> QED BY <1>0, <2>3, <3>1
  <2> QED BY <2>1, <2>3, <2>4 DEF Log!Extends
<1>1. CASE f = stable
  BY <1>1
<1>2. CASE f = active
  BY <1>2, EntriesExtended
<1>3. ASSUME NEW n \in least .. Len(active), f = Log!FirstLines(active, n)
      PROVE  /\ f \in Seq(Nat)
             /\ Log!Extends(active, stable) => Entries(stable) \subseteq Entries(f)
             /\ \A l, m \in Nat : Lined(active, l, m) /\ Lined(stable, l, m) => Lined(f, l, m)
  <2>1. n \in Nat /\ n <= Len(active) /\ n >= least
    BY <1>0, <1>3
  <2>2. f \in Seq(Nat)
    BY <1>3, <2>1, FirstLinesAre
  <2>3. Log!Extends(active, stable) => Entries(stable) \subseteq Entries(f)
    BY <1>3, <1>b, <2>1, <2>2, EntriesExtended
  <2>4. ASSUME NEW l \in Nat, NEW m \in Nat, Lined(active, l, m) PROVE Lined(f, l, m)
    <3>1. Lined(f, l, n) /\ n <= m
      BY <1>0, <1>3, <2>1, <2>4, LinedFirst DEF Lined
    <3> QED BY <2>1, <2>2, <3>1, LinedMore
  <2> QED BY <2>2, <2>3, <2>4
<1>4. ASSUME NEW n \in least .. Len(active) - 1, f = Append(Log!FirstLines(active, n), Fragment)
      PROVE  /\ f \in Seq(Nat)
             /\ Log!Extends(active, stable) => Entries(stable) \subseteq Entries(f)
             /\ \A l, m \in Nat : Lined(active, l, m) /\ Lined(stable, l, m) => Lined(f, l, m)
  <2> DEFINE g == Log!FirstLines(active, n)
  <2>1. n \in Nat /\ n <= Len(active) /\ n >= least /\ n < Len(active)
    BY <1>0, <1>4
  <2>2. g \in Seq(Nat) /\ Fragment \in Nat /\ Fragment = 0
    BY <2>1, FirstLinesAre DEF Fragment
  <2>3. f \in Seq(Nat)
    BY <1>4, <2>2, Appended
  <2>4. Log!Extends(active, stable) => Entries(stable) \subseteq Entries(f)
    BY <1>4, <1>b, <2>1, <2>2, <2>3, ExtendsAppended, EntriesExtended
  <2>5. ASSUME NEW l \in Nat, NEW m \in Nat, Lined(active, l, m) PROVE Lined(f, l, m)
    <3>0. n < m
      BY <1>0, <2>1, <2>5 DEF Lined
    <3>1. Lined(g, l, n)
      BY <2>1, <2>5, LinedFirst
    <3> HIDE DEF g
    <3>2. Lined(Append(g, Fragment), l, m)
      BY <2>1, <2>2, <3>0, <3>1, LinedAppended
    <3> QED BY <1>4, <3>2 DEF g
  <2> QED BY <2>3, <2>4, <2>5
<1> QED BY <1>a, <1>1, <1>2, <1>3, <1>4

-----------------------------------------------------------------------------
(* The structured log, step by step.                                       *)

LogStep == [Log!Next]_logVars

LEMMA LogTypeStep == Log!TypeOK /\ LogTask /\ LogStep => Log!TypeOK'
<1> SUFFICES ASSUME Log!TypeOK, LogTask, LogStep PROVE Log!TypeOK'
  OBVIOUS
<1> USE DEF Log!disk, Log!writer, Log!queries, Log!streams, Log!bounds, Log!ghosts, Log!Go, Log!Fault
<1>0. /\ active \in Seq(Nat) /\ stable \in Seq(Nat) /\ entry \in Nat /\ acked \in Seq(Nat)
      /\ DOMAIN archives \subseteq 1 .. entry /\ Archives(archives)
      /\ at \in [Reader -> Nat] /\ got \in [Reader -> Seq(Nat)] /\ expected \in [Reader -> SUBSET Nat]
      /\ held \in [Reader -> BOOLEAN] /\ adrift \in [Reader -> BOOLEAN]
      /\ joined \in [Reader -> Nat] /\ caught \in [Reader -> Nat]
      /\ open \subseteq Stream /\ queue \in [Stream -> Seq(Nat)]
      /\ seen \in [Stream -> Nat] /\ lost \subseteq open
      /\ faults \in Nat /\ crashes \in Nat /\ clears \in Nat /\ leftovers \in Nat /\ excused \subseteq Nat
  BY LogNames DEF Log!TypeOK, Archives
<1>a. Entries(active) \subseteq Nat /\ <<>> \in Seq(Nat)
  BY <1>0, EntriesAreNumbers
<1>b. ASSUME Archives(archives'), DOMAIN archives' \subseteq 1 .. entry'
      PROVE  DOMAIN archives' \subseteq 1 .. entry' /\ \A n \in DOMAIN archives' : archives'[n] \in Log!Archive
  BY <1>b, LogNames DEF Archives
<1>c. \A f \in Seq(Nat) : \A w, x \in BOOLEAN : [lines |-> f, whole |-> w, safe |-> x] \in Archive
  BY DEF Archive
<1>1. CASE Log!Write
  <2>1. entry' = entry + 1 /\ archives' = archives /\ Archives(archives') /\ DOMAIN archives' \subseteq 1 .. entry'
    BY <1>1, <1>0 DEF Log!Write, Archives
  <2> QED BY <1>1, <1>b, <2>1 DEF Log!Write, Log!TypeOK
<1>2. CASE Log!CreateArchive
  <2>1. entry > 0 /\ entry' = entry
    BY <1>2 DEF Log!CreateArchive, LogTask
  <2>2. Archives(archives') /\ DOMAIN archives' \subseteq 1 .. entry'
    <3> DEFINE b == [lines |-> <<>>, whole |-> FALSE, safe |-> FALSE]
    <3>1. b \in Archive
      BY <1>a, <1>c
    <3>2. \/ archives' = archives
          \/ archives' = [n \in DOMAIN archives \cup {entry} |-> IF n = entry THEN b ELSE archives[n]]
      BY <1>2 DEF Log!CreateArchive
    <3> HIDE DEF b
    <3>3. entry \in 1 .. entry'
      BY <1>0, <2>1
    <3>4. CASE archives' = archives
      BY <1>0, <2>1, <3>4 DEF Archives
    <3>5. CASE archives' = [n \in DOMAIN archives \cup {entry} |-> IF n = entry THEN b ELSE archives[n]]
      <4>1. DOMAIN archives' = DOMAIN archives \cup {entry}
        BY <3>5
      <4>2. \A n \in DOMAIN archives' : archives'[n] \in Archive
        BY <1>0, <3>1, <3>5 DEF Archives
      <4> QED BY <1>0, <2>1, <3>3, <4>1, <4>2 DEF Archives
    <3> QED BY <3>2, <3>4, <3>5
  <2>3. /\ task' \in {"copy", "none"} /\ leftovers' \in Nat /\ faults' \in Nat
        /\ UNCHANGED <<active, stable, closed, at, held, adrift, got, joined, expected, caught,
                       open, queue, seen, lost, crashes, clears, acked, excused>>
    BY <1>2, <1>0 DEF Log!CreateArchive
  <2>4. closed \in BOOLEAN
    BY DEF Log!TypeOK
  <2> QED BY <1>0, <1>b, <2>1, <2>2, <2>3, <2>4 DEF Log!TypeOK
<1>3. CASE Log!Copy
  <2>2. Archives(archives') /\ DOMAIN archives' \subseteq 1 .. entry'
    <3> DEFINE b == [lines |-> active, whole |-> TRUE, safe |-> FALSE]
    <3>1. b \in Archive
      BY <1>0, <1>c
    <3>2. entry' = entry /\ (archives' = archives \/ archives' = [archives EXCEPT ![entry] = b])
      BY <1>3 DEF Log!Copy, Log!Copied
    <3> HIDE DEF b
    <3> QED BY <1>0, <3>1, <3>2 DEF Archives
  <2> QED BY <1>3, <1>b, <2>2 DEF Log!Copy, Log!TypeOK
<1>d. Log!Empty =>
         /\ active' \in Seq(Nat) /\ expected' \in [Reader -> SUBSET Nat]
         /\ adrift' \in [Reader -> BOOLEAN] /\ caught' \in [Reader -> Nat]
         /\ UNCHANGED <<at, held, got, joined>>
  <2>1. [r \in Reader |-> {}] \in [Reader -> SUBSET Nat]
    OBVIOUS
  <2>2. [r \in Reader |-> IF held[r] THEN caught[r] + 1 ELSE caught[r]] \in [Reader -> Nat]
    BY <1>0
  <2>3. [r \in Reader |-> at[r] # Log!NoQuery /\ (at[r] > 0 \/ held[r])] \in [Reader -> BOOLEAN]
    OBVIOUS
  <2> QED BY <1>a, <2>1, <2>2, <2>3 DEF Log!Empty
<1>4. CASE Log!Truncate
  <2>1. /\ active' \in Seq(Nat) /\ expected' \in [Reader -> SUBSET Nat] /\ faults' \in Nat
        /\ adrift' \in [Reader -> BOOLEAN] /\ caught' \in [Reader -> Nat]
        /\ UNCHANGED <<at, held, got, joined>>
    <3>1. faults' \in Nat
      BY <1>4, <1>0 DEF Log!Truncate
    <3> QED BY <1>4, <1>0, <1>d, <3>1 DEF Log!Truncate
  <2>2. task' \in {"prune", "none"}
    BY <1>4 DEF Log!Truncate
  <2> QED BY <1>4, <2>1, <2>2 DEF Log!Truncate, Log!TypeOK
<1>5. CASE Log!Prune
  <2>1. PICK k \in SUBSET Expired(archives) :
            /\ archives' = [n \in DOMAIN archives \ (Expired(archives) \ k) |-> archives[n]]
            /\ excused' = excused \cup Archived([n \in Expired(archives) \ k |-> archives[n]])
            /\ leftovers' = Cardinality(k) /\ (faults' = faults \/ faults' = faults + 1)
    BY <1>5, LogNames DEF Log!Prune, Log!Restrict
  <2>2. Archives(archives') /\ DOMAIN archives' \subseteq 1 .. entry'
    BY <1>5, <1>0, <2>1 DEF Log!Prune, Archives
  <2>3. Archives([n \in Expired(archives) \ k |-> archives[n]])
    BY <1>0 DEF Archives, Expired
  <2>4. excused' \subseteq Nat
    BY <1>0, <2>1, <2>3, ArchivedAreNumbers
  <2>5. leftovers' \in Nat
    <3>1. IsFiniteSet(1 .. entry)
      BY <1>0, FS_Interval
    <3>2. k \subseteq 1 .. entry
      BY <1>0 DEF Expired
    <3> QED BY <2>1, <3>1, <3>2, FS_Subset, FS_CardinalityType
  <2>6. faults' \in Nat /\ task' = "append"
    BY <1>5, <1>0, <2>1 DEF Log!Prune
  <2> QED BY <1>5, <1>b, <2>2, <2>4, <2>5, <2>6 DEF Log!Prune, Log!TypeOK
<1>6. CASE Log!AppendEntry
  <2>1. Append(active, entry) \in Seq(Nat) /\ Append(active, Fragment) \in Seq(Nat)
    BY <1>0 DEF Fragment
  <2>2. active' \in Seq(Nat) /\ excused' \subseteq Nat
    BY <1>6, <1>0, <2>1, LogNames DEF Log!AppendEntry
  <2> QED BY <1>6, <2>2 DEF Log!AppendEntry, Log!TypeOK
<1>7. CASE Log!Sync
  <2>1. acked' \in Seq(Nat) /\ stable' \in Seq(Nat) /\ faults' \in Nat
    <3>1. Append(acked, entry) \in Seq(Nat)
      BY <1>0
    <3>2. faults' \in Nat
      BY <1>7, <1>0 DEF Log!Sync
    <3> QED BY <1>7, <1>0, <3>1, <3>2 DEF Log!Sync
  <2>2. task' \in {"tell", "none"}
    BY <1>7 DEF Log!Sync
  <2> QED BY <1>7, <2>1, <2>2 DEF Log!Sync, Log!TypeOK
<1>8. CASE Log!Tell
  BY <1>8 DEF Log!Tell, Log!TypeOK
<1>9. CASE Log!Clear
  <2>1. excused' \subseteq Nat
    BY <1>9, <1>0, <1>a, LogNames DEF Log!Clear
  <2> QED BY <1>9, <1>d, <2>1 DEF Log!Clear, Log!TypeOK
<1>10. CASE Log!Close
  BY <1>10 DEF Log!Close, Log!TypeOK
<1>11. ASSUME NEW s \in Stream, Log!Subscribe(s) \/ Log!Unsubscribe(s) \/ Log!Send(s) PROVE Log!TypeOK'
  <2>1. CASE Log!Subscribe(s)
    <3>1. open' \subseteq Stream /\ lost' \subseteq open' /\ seen' \in [Stream -> Nat]
      BY <2>1, <1>0 DEF Log!Subscribe
    <3> QED BY <2>1, <3>1 DEF Log!Subscribe, Log!TypeOK
  <2>2. CASE Log!Unsubscribe(s)
    <3>1. open' \subseteq Stream /\ lost' \subseteq open' /\ seen' \in [Stream -> Nat]
          /\ queue' \in [Stream -> Seq(Nat)]
      BY <2>2, <1>0, <1>a DEF Log!Unsubscribe
    <3> QED BY <2>2, <3>1 DEF Log!Unsubscribe, Log!TypeOK
  <2>3. CASE Log!Send(s)
    <3>1. Tail(queue[s]) \in Seq(Nat)
      BY <2>3, <1>0 DEF Log!Send
    <3>2. queue' \in [Stream -> Seq(Nat)] /\ seen' \in [Stream -> Nat]
      BY <2>3, <1>0, <3>1 DEF Log!Send
    <3> QED BY <2>3, <3>2 DEF Log!Send, Log!TypeOK
  <2> QED BY <1>11, <2>1, <2>2, <2>3
<1>12. ASSUME NEW r \in Reader,
              \/ Log!OpenQuery(r) \/ Log!ReadPart(r) \/ Log!ScanLine(r) \/ Log!Land(r) \/ Log!Answer(r)
       PROVE  Log!TypeOK'
  <2>1. CASE Log!OpenQuery(r)
    BY <2>1, <1>a, LogNames DEF Log!OpenQuery, Log!TypeOK
  <2>2. CASE Log!ScanLine(r)
    <3>1. at[r] + 1 \in DOMAIN active
      BY <2>2, <1>0 DEF Log!ScanLine
    <3>2. active[at[r] + 1] \in Nat
      BY <3>1, <1>0
    <3>3. got' \in [Reader -> Seq(Nat)] /\ at' \in [Reader -> Nat] /\ held' \in [Reader -> BOOLEAN]
      BY <2>2, <3>2, <1>0 DEF Log!ScanLine
    <3> QED BY <2>2, <3>3 DEF Log!ScanLine, Log!TypeOK
  <2>3. CASE Log!Answer(r)
    <3>1. Log!NoQuery \in Nat
      BY ServicesAssumption DEF Log!NoQuery
    <3> QED BY <2>3, <1>a, <3>1 DEF Log!Answer, Log!TypeOK
  <2>4. CASE Log!ReadPart(r)
    BY <2>4 DEF Log!ReadPart, Log!TypeOK
  <2>5. CASE Log!Land(r)
    <3>1. PICK n \in DOMAIN active :
              /\ at' = [at EXCEPT ![r] = n]
              /\ held' = [held EXCEPT ![r] = active[n] = Log!Fragment]
              /\ \/ joined' = [joined EXCEPT ![r] = @ + 1] /\ got' = got
                 \/ got' = [got EXCEPT ![r] = Append(@, active[n])] /\ joined' = joined
                 \/ got' = got /\ joined' = joined
      BY <2>5 DEF Log!Land
    <3>2. n \in Nat /\ active[n] \in Nat
      BY <1>0
    <3>3. /\ got' \in [Reader -> Seq(Nat)] /\ at' \in [Reader -> Nat] /\ held' \in [Reader -> BOOLEAN]
          /\ joined' \in [Reader -> Nat]
      <4>1. got' \in [Reader -> Seq(Nat)]
        <5>1. Append(got[r], active[n]) \in Seq(Nat)
          BY <3>2, <1>0
        <5> QED BY <3>1, <5>1, <1>0
      <4>2. at' \in [Reader -> Nat] /\ held' \in [Reader -> BOOLEAN]
        BY <3>1, <3>2, <1>0
      <4>3. joined' \in [Reader -> Nat]
        <5>1. joined[r] + 1 \in Nat
          BY <1>0
        <5>2. joined' = [joined EXCEPT ![r] = joined[r] + 1] \/ joined' = joined
          BY <3>1
        <5> QED BY <5>1, <5>2, <1>0
      <4> QED BY <4>1, <4>2, <4>3
    <3> QED BY <2>5, <3>3 DEF Log!Land, Log!TypeOK
  <2> QED BY <1>12, <2>1, <2>2, <2>3, <2>4, <2>5
<1>13. CASE Log!WriteBack
  <2>2. Archives(archives') /\ DOMAIN archives' \subseteq 1 .. entry'
    BY <1>13, <1>0 DEF Log!WriteBack, Archives, Archive
  <2> QED BY <1>13, <1>b, <2>2 DEF Log!WriteBack, Log!TypeOK
<1>14. CASE Log!Crash
  <2>1. PICK cut \in SUBSET {n \in DOMAIN archives : archives[n].whole /\ ~archives[n].safe} :
            /\ archives' = [n \in DOMAIN archives |->
                              IF n \in cut THEN [archives[n] EXCEPT !.lines = <<>>, !.whole = FALSE]
                                           ELSE archives[n]]
            /\ excused' = excused \cup Archived([n \in cut |-> archives[n]])
    BY <1>14, LogNames DEF Log!Crash, Log!Restrict
  <2>2. Archives(archives') /\ DOMAIN archives' \subseteq 1 .. entry'
    BY <1>14, <1>0, <1>a, <2>1 DEF Log!Crash, Archives, Archive
  <2>3. Archives([n \in cut |-> archives[n]])
    BY <1>0 DEF Archives
  <2>4. excused' \subseteq Nat
    BY <1>0, <2>1, <2>3, ArchivedAreNumbers
  <2>5. active' \in Seq(Nat)
    BY <1>14, <1>0, RemainsAre DEF Log!Crash
  <2>6. Log!NoQuery \in Nat
    BY ServicesAssumption DEF Log!NoQuery
  <2>7. /\ task' = "none" /\ closed' = FALSE /\ crashes' = crashes + 1 /\ stable' = active'
        /\ at' = [r \in Reader |-> Log!NoQuery] /\ got' = [r \in Reader |-> <<>>]
        /\ held' = [r \in Reader |-> FALSE] /\ adrift' = [r \in Reader |-> FALSE]
        /\ joined' = [r \in Reader |-> 0] /\ caught' = [r \in Reader |-> 0]
        /\ expected' = [r \in Reader |-> {}] /\ open' = {} /\ queue' = [s \in Stream |-> <<>>]
        /\ seen' = [s \in Stream |-> 0] /\ lost' = {}
        /\ UNCHANGED <<entry, faults, clears, acked, leftovers>>
    BY <1>14 DEF Log!Crash
  <2>8. /\ at' \in [Reader -> Nat] /\ got' \in [Reader -> Seq(Nat)] /\ expected' \in [Reader -> SUBSET Nat]
        /\ queue' \in [Stream -> Seq(Nat)] /\ seen' \in [Stream -> Nat]
        /\ held' \in [Reader -> BOOLEAN] /\ adrift' \in [Reader -> BOOLEAN]
        /\ joined' \in [Reader -> Nat] /\ caught' \in [Reader -> Nat]
    BY <1>a, <2>6, <2>7
  <2>9. crashes' \in Nat /\ stable' \in Seq(Nat) /\ open' \subseteq Stream /\ lost' \subseteq open'
    BY <1>0, <2>5, <2>7
  <2> QED BY <1>b, <2>2, <2>4, <2>5, <2>7, <2>8, <2>9 DEF Log!TypeOK
<1>15. CASE UNCHANGED logVars
  BY <1>15 DEF logVars, Log!TypeOK
<1> QED
  BY <1>1, <1>2, <1>3, <1>4, <1>5, <1>6, <1>7, <1>8, <1>9, <1>10, <1>11, <1>12, <1>13, <1>14, <1>15
  DEF LogStep, Log!Next

LEMMA LastLineType ==
  ASSUME Log!TypeOK, LogTask
  PROVE  LastLine \in Nat /\ LastLine <= entry /\ LastLine + crashes \in Nat
BY DEF Log!TypeOK, LogTask, LastLine

LEMMA LogLinedStep == Log!TypeOK /\ LogTask /\ LogFilesAreLined /\ LogStep => LogFilesAreLined'
<1> SUFFICES ASSUME Log!TypeOK, LogTask, LogFilesAreLined, LogStep PROVE LogFilesAreLined'
  OBVIOUS
<1> USE DEF Log!disk, Log!writer, Log!queries, Log!streams, Log!bounds, Log!ghosts, Log!Go, Log!Fault
<1>0. /\ active \in Seq(Nat) /\ stable \in Seq(Nat) /\ entry \in Nat /\ crashes \in Nat
      /\ LastLine \in Nat /\ LastLine <= entry /\ LastLine + crashes \in Nat
      /\ Lined(active, LastLine, LastLine + crashes) /\ Lined(stable, LastLine, LastLine + crashes)
      /\ entry <= MaxEntries /\ crashes <= MaxCrashes
  BY LastLineType DEF Log!TypeOK, LogFilesAreLined
\* The file stays as it is, or gives way to what is synchronised, or is emptied.
<1>a. ASSUME active' \in {active, stable, <<>>}, stable' \in {active, stable},
             LastLine' \in Nat, LastLine <= LastLine', crashes' = crashes, entry' <= MaxEntries
      PROVE  LogFilesAreLined'
  <2>1. LastLine' + crashes' \in Nat /\ LastLine + crashes <= LastLine' + crashes'
    <3>1. LastLine \in Nat /\ LastLine' \in Nat /\ crashes \in Nat /\ LastLine <= LastLine' /\ crashes' = crashes
      BY <1>0, <1>a
    <3>2. \A a, b, c \in Nat : a <= b => b + c \in Nat /\ a + c <= b + c
      OBVIOUS
    <3>3. LastLine' + crashes \in Nat /\ LastLine + crashes <= LastLine' + crashes
      BY <3>1, <3>2
    <3> QED BY <3>1, <3>3
  <2>2. /\ Lined(active, LastLine', LastLine' + crashes') /\ Lined(stable, LastLine', LastLine' + crashes')
        /\ Lined(<<>>, LastLine', LastLine' + crashes')
    BY <1>0, <1>a, <2>1, LinedMore, LinedEmpty
  <2> QED BY <1>0, <1>a, <2>2 DEF LogFilesAreLined
<1>1. CASE Log!Write
  <2>1. entry' = entry + 1 /\ entry' <= MaxEntries /\ LastLine = entry /\ LastLine' = entry' - 1
    BY <1>1, <1>0, ServicesAssumption DEF Log!Write, LastLine
  <2> QED BY <1>1, <1>0, <1>a, <2>1 DEF Log!Write
<1>2. CASE Log!AppendEntry
  <2>1. /\ entry > 0 /\ LastLine = entry - 1 /\ LastLine' = entry
        /\ crashes' = crashes /\ entry' = entry /\ stable' = stable
        /\ active' \in {active, Append(active, Fragment), Append(active, entry)}
    BY <1>2, LogNames DEF Log!AppendEntry, LogTask, LastLine
  <2>2. LastLine' + crashes' \in Nat /\ LastLine + crashes < LastLine' + crashes' /\ LastLine < LastLine'
    BY <1>0, <2>1
  <2>3. /\ Lined(active, LastLine', LastLine' + crashes') /\ Lined(stable, LastLine', LastLine' + crashes')
    BY <1>0, <2>1, <2>2, LinedMore
  <2>4. Lined(Append(active, entry), LastLine', LastLine' + crashes')
    BY <1>0, <2>1, <2>2, LinedAppended
  <2>5. Lined(Append(active, Fragment), LastLine', LastLine' + crashes')
    BY <1>0, <2>1, <2>2, LinedAppended DEF Fragment
  <2> QED BY <1>0, <2>1, <2>3, <2>4, <2>5 DEF LogFilesAreLined
<1>3. CASE Log!Crash
  <2>1. /\ LastLine' = entry /\ entry' = entry /\ crashes' = crashes + 1 /\ crashes' <= MaxCrashes
        /\ active' \in Log!Remains /\ stable' = active'
    <3>1. active' \in Log!Remains
      BY <1>3 DEF Log!Crash
    <3>2. crashes' = crashes + 1 /\ crashes < MaxCrashes /\ entry' = entry /\ task' = "none"
          /\ stable' = active'
      BY <1>3 DEF Log!Crash
    <3> QED BY <1>0, <3>1, <3>2, ServicesAssumption DEF LastLine
  <2>2. /\ LastLine' \in Nat /\ LastLine' + crashes' \in Nat
        /\ LastLine + crashes <= LastLine' + crashes' /\ LastLine <= LastLine'
    BY <1>0, <2>1
  <2>3. active' \in Seq(Nat) /\ Lined(active', LastLine, LastLine + crashes)
    BY <1>0, <2>1, RemainsAre
  <2>4. Lined(active', LastLine', LastLine' + crashes')
    BY <1>0, <2>2, <2>3, LinedMore
  <2> QED BY <1>0, <2>1, <2>4 DEF LogFilesAreLined
<1>4. CASE Log!CreateArchive \/ Log!Copy \/ Log!Prune
  <2>1. /\ active' = active /\ stable' = stable /\ entry' = entry /\ crashes' = crashes
        /\ LastLine' \in {LastLine, entry}
    BY <1>4 DEF Log!CreateArchive, Log!Copy, Log!Prune, LastLine
  <2> QED BY <1>0, <1>a, <2>1
<1>5. CASE Log!Truncate \/ Log!Sync \/ Log!Tell \/ Log!Clear
  <2>1. /\ active' \in {active, <<>>} /\ stable' \in {active, stable} /\ entry' = entry
        /\ crashes' = crashes /\ LastLine' \in {LastLine, entry}
    BY <1>5 DEF Log!Truncate, Log!Empty, Log!Sync, Log!Tell, Log!Clear, LastLine
  <2> QED BY <1>0, <1>a, <2>1
<1>6. CASE Log!WriteBack
  <2>1. active' = active /\ stable' = active /\ entry' = entry /\ crashes' = crashes /\ task' = task
    BY <1>6 DEF Log!WriteBack
  <2>2. LastLine' = LastLine
    BY <2>1 DEF LastLine
  <2> QED BY <1>0, <1>a, <2>1, <2>2
<1>7. CASE UNCHANGED <<active, stable, entry, crashes, task>>
  <2>1. LastLine' = LastLine
    BY <1>7 DEF LastLine
  <2> QED BY <1>0, <1>a, <1>7, <2>1
<1> QED
  BY <1>1, <1>2, <1>3, <1>4, <1>5, <1>6, <1>7
  DEF LogStep, Log!Next, Log!Close, Log!Subscribe, Log!Unsubscribe, Log!Send, Log!OpenQuery,
      Log!ReadPart, Log!ScanLine, Log!Land, Log!Answer, logVars

LEMMA LogTaskStep == Log!TypeOK /\ LogTask /\ LogStep => LogTask'
<1> SUFFICES ASSUME Log!TypeOK, LogTask, LogStep PROVE LogTask'
  OBVIOUS
<1> USE DEF Log!disk, Log!writer, Log!queries, Log!streams, Log!bounds, Log!ghosts, Log!Go, Log!Fault
<1>0. /\ active \in Seq(Nat) /\ entry \in Nat
      /\ DOMAIN archives \subseteq 1 .. entry /\ Archives(archives)
  BY LogNames DEF Log!TypeOK, Archives
<1>1. CASE Log!Write
  BY <1>1, <1>0 DEF Log!Write, LogTask
<1>2. CASE Log!CreateArchive
  BY <1>2 DEF Log!CreateArchive, LogTask
<1>3. CASE Log!Copy
  <2>1. task = "copy" /\ entry' = entry /\ active' = active /\ entry > 0 /\ entry \in DOMAIN archives
        /\ \/ task' = "truncate" /\ archives' = Log!Copied
           \/ task' = "none"
    BY <1>3 DEF Log!Copy, LogTask
  <2>2. entry \in DOMAIN Log!Copied /\ Log!Copied[entry].whole /\ Log!Copied[entry].lines = active
    BY <2>1 DEF Log!Copied
  <2>3. CASE task' = "truncate" /\ archives' = Log!Copied
    BY <2>1, <2>2, <2>3 DEF LogTask
  <2>4. CASE task' = "none"
    BY <2>4 DEF LogTask
  <2> QED BY <2>1, <2>3, <2>4
<1>4. CASE Log!Truncate \/ Log!Prune
  BY <1>4 DEF Log!Truncate, Log!Prune, LogTask
<1>5. CASE Log!AppendEntry
  <2>1. CASE task' = "none"
    BY <2>1 DEF LogTask
  <2>2. CASE task' # "none"
    <3>1. /\ task = "append" /\ task' = "sync" /\ entry' = entry /\ active' = Append(active, entry)
          /\ excused' = IF Parses(active', Len(active')) THEN excused ELSE excused \cup {entry}
      BY <1>5, <2>2, LogNames DEF Log!AppendEntry
    <3>2. Len(active') = Len(active) + 1
      BY <1>0, <3>1
    <3>3. entry' \in Entries(active') \cup excused'
      BY <1>0, <3>1, <3>2, EntriesAppended
    <3> QED BY <3>1, <3>3 DEF LogTask
  <2> QED BY <2>1, <2>2
<1>6. CASE Log!Sync \/ Log!Tell
  BY <1>6 DEF Log!Sync, Log!Tell, LogTask
<1>7. CASE Log!WriteBack
  <2>1. \A n \in DOMAIN archives : archives'[n].whole = archives[n].whole /\ archives'[n].lines = archives[n].lines
    BY <1>7, <1>0 DEF Log!WriteBack, Archives, Archive
  <2>2. DOMAIN archives' = DOMAIN archives /\ active' = active /\ excused' = excused /\ task' = task /\ entry' = entry
    BY <1>7 DEF Log!WriteBack
  <2> QED BY <2>1, <2>2 DEF LogTask
<1>8. CASE Log!Crash \/ Log!Clear
  BY <1>8 DEF Log!Crash, Log!Clear, LogTask
<1>9. CASE UNCHANGED <<active, archives, task, entry, excused>>
  BY <1>9 DEF LogTask
<1> QED
  BY <1>1, <1>2, <1>3, <1>4, <1>5, <1>6, <1>7, <1>8, <1>9
  DEF LogStep, Log!Next, Log!Close, Log!Subscribe, Log!Unsubscribe, Log!Send, Log!OpenQuery,
      Log!ReadPart, Log!ScanLine, Log!Land, Log!Answer, logVars

LEMMA LogKeepsStep == Log!TypeOK /\ LogTask /\ LogKeeps /\ LogStep => LogKeeps'
<1> SUFFICES ASSUME Log!TypeOK, LogTask, LogKeeps, LogStep PROVE LogKeeps'
  OBVIOUS
<1> USE DEF Log!disk, Log!writer, Log!queries, Log!streams, Log!bounds, Log!ghosts, Log!Go, Log!Fault
<1>0. /\ active \in Seq(Nat) /\ stable \in Seq(Nat) /\ acked \in Seq(Nat) /\ entry \in Nat
      /\ DOMAIN archives \subseteq 1 .. entry /\ Archives(archives)
  BY LogNames DEF Log!TypeOK, Archives
\* What was kept is kept.
<1>a. ASSUME acked' = acked,
             Archived(archives) \cup excused \subseteq Archived(archives') \cup excused',
             Entries(active) \subseteq Entries(active') \cup Archived(archives') \cup excused',
             Entries(active) \subseteq Entries(stable') \cup Archived(archives') \cup excused'
             \/ Entries(stable) \subseteq Entries(stable') \cup Archived(archives') \cup excused',
             \/ Log!Extends(active, stable) => Log!Extends(active', stable')
             \/ Entries(active) \subseteq Archived(archives') \cup excused'
      PROVE  LogKeeps'
  <2>1. ASSUME ~Log!Extends(active', stable'), NEW n \in DOMAIN acked
        PROVE  acked[n] \in Archived(archives') \cup excused'
    <3>1. CASE Log!Extends(active, stable) => Log!Extends(active', stable')
      BY <1>a, <2>1, <3>1 DEF LogKeeps
    <3>2. CASE Entries(active) \subseteq Archived(archives') \cup excused'
      BY <1>a, <3>2 DEF LogKeeps
    <3> QED BY <1>a, <3>1, <3>2
  <2>2. ASSUME NEW n \in DOMAIN acked
        PROVE  /\ acked[n] \in Entries(active') \cup Archived(archives') \cup excused'
               /\ acked[n] \in Entries(stable') \cup Archived(archives') \cup excused'
    BY <1>a DEF LogKeeps
  <2>3. Log!Extends(active, stable)' <=> Log!Extends(active', stable')
    BY DEF Log!Extends
  <2> QED BY <1>a, <2>1, <2>2, <2>3 DEF LogKeeps
\* A file extends itself.
<1>b. Log!Extends(active, active)
  BY <1>0 DEF Log!Extends
<1>1. CASE Log!CreateArchive
  <2>1. ASSUME NEW x \in Archived(archives) PROVE x \in Archived(archives')
    <3>1. \A n \in DOMAIN archives : n \in DOMAIN archives' /\ archives'[n] = archives[n]
      BY <1>1 DEF Log!CreateArchive, LogTask
    <3> QED BY <3>1, <2>1, ArchivedIn
  <2> QED BY <1>1, <1>a, <2>1 DEF Log!CreateArchive
<1>2. CASE Log!Copy
  <2>1. ASSUME NEW x \in Archived(archives) PROVE x \in Archived(archives')
    <3>1. \A n \in DOMAIN archives :
             n \in DOMAIN archives' /\ (archives[n].whole => archives'[n] = archives[n])
      BY <1>2 DEF Log!Copy, Log!Copied, LogTask
    <3> QED BY <3>1, <2>1, ArchivedIn
  <2> QED BY <1>2, <1>a, <2>1 DEF Log!Copy
<1>3. CASE Log!Truncate
  <2>1. /\ entry \in DOMAIN archives /\ archives[entry].whole /\ archives[entry].lines = active
        /\ archives' = archives /\ stable' = stable /\ acked' = acked /\ excused' = excused
    BY <1>3 DEF Log!Truncate, LogTask
  <2>2. Entries(active) \subseteq Archived(archives)
    BY <2>1 DEF Archived
  <2>3. Entries(active) \subseteq Archived(archives') /\ Archived(archives') = Archived(archives)
    BY <2>1, <2>2
  <2> QED BY <1>a, <2>1, <2>2, <2>3
<1>4. CASE Log!Prune
  <2>1. PICK gone \in SUBSET DOMAIN archives :
            /\ archives' = [n \in DOMAIN archives \ gone |-> archives[n]]
            /\ excused' = excused \cup Archived([n \in gone |-> archives[n]])
    BY <1>4, LogNames DEF Log!Prune, Log!Restrict, Expired
  <2>2. ASSUME NEW x \in Archived(archives)
        PROVE  x \in Archived(archives') \/ x \in Archived([n \in gone |-> archives[n]])
    <3>1. PICK n \in DOMAIN archives : archives[n].whole /\ x \in Entries(archives[n].lines)
      BY <2>2 DEF Archived
    <3>2. CASE n \in gone
      BY <3>1, <3>2 DEF Archived
    <3>3. CASE n \notin gone
      <4>1. n \in DOMAIN archives' /\ archives'[n] = archives[n]
        BY <2>1, <3>1, <3>3
      <4> QED BY <3>1, <4>1 DEF Archived
    <3> QED BY <3>2, <3>3
  <2> QED BY <1>4, <1>a, <2>1, <2>2 DEF Log!Prune
<1>5. CASE Log!AppendEntry
  <2>1. /\ active' \in {active, Append(active, Fragment), Append(active, entry)}
        /\ excused \subseteq excused'
    BY <1>5, LogNames DEF Log!AppendEntry
  <2>2. Entries(active) \subseteq Entries(active')
    BY <1>0, <2>1, EntriesAppended DEF Fragment
  <2>3. Log!Extends(active, stable) => Log!Extends(active', stable)
    BY <1>0, <2>1, ExtendsAppended DEF Fragment
  <2>4. stable' = stable
    BY <1>5 DEF Log!AppendEntry
  <2>5. Log!Extends(active, stable) => Log!Extends(active', stable')
    BY <2>3, <2>4
  <2> QED BY <1>5, <1>a, <2>1, <2>2, <2>5 DEF Log!AppendEntry
<1>6. CASE Log!Sync
  <2>1. CASE acked' = acked
    <3>1. \/ UNCHANGED <<active, stable, archives, excused>>
          \/ stable' = active /\ UNCHANGED <<active, archives, excused>>
      BY <1>6 DEF Log!Sync
    <3>2. Log!Extends(active, stable) => Log!Extends(active', stable')
      BY <1>b, <3>1
    <3> QED BY <1>a, <2>1, <3>1, <3>2
  <2>2. CASE acked' # acked
    <3>1. /\ task = "sync" /\ acked' = Append(acked, entry) /\ stable' = active
          /\ UNCHANGED <<active, archives, excused>>
      BY <1>6, <2>2 DEF Log!Sync
    <3>2. entry \in Entries(active) \cup excused
      BY <3>1 DEF LogTask
    <3>3. /\ DOMAIN acked' = 1 .. Len(acked) + 1 /\ DOMAIN acked = 1 .. Len(acked) /\ Len(acked) \in Nat
          /\ acked'[Len(acked) + 1] = entry /\ \A i \in 1 .. Len(acked) : acked'[i] = acked[i]
      BY <1>0, <3>1, Appended
    <3>4. ASSUME NEW n \in DOMAIN acked' PROVE acked'[n] \in Entries(active) \cup Archived(archives) \cup excused
      <4>1. n = Len(acked) + 1 \/ n \in DOMAIN acked
        BY <3>3
      <4> QED BY <4>1, <3>2, <3>3 DEF LogKeeps
    <3>5. Log!Extends(active, stable)'
      BY <1>b, <3>1 DEF Log!Extends
    <3> QED BY <3>1, <3>4, <3>5 DEF LogKeeps
  <2> QED BY <2>1, <2>2
<1>7. CASE Log!Clear
  BY <1>7, <1>a, LogNames DEF Log!Clear, Log!Empty
<1>8. CASE Log!WriteBack
  <2>1. \A n \in DOMAIN archives : n \in DOMAIN archives'
            /\ archives'[n].whole = archives[n].whole /\ archives'[n].lines = archives[n].lines
    BY <1>8, <1>0 DEF Log!WriteBack, Archives, Archive
  <2>2. ASSUME NEW x \in Archived(archives) PROVE x \in Archived(archives')
    BY <2>1, <2>2, ArchivedIn
  <2>3. active' = active /\ stable' = active /\ acked' = acked /\ excused' = excused
    BY <1>8 DEF Log!WriteBack
  <2>4. Log!Extends(active', stable')
    BY <1>b, <2>3
  <2> QED BY <1>a, <2>2, <2>3, <2>4
<1>9. CASE Log!Crash
  <2>1. PICK cut \in SUBSET DOMAIN archives :
            /\ archives' = [n \in DOMAIN archives |->
                              IF n \in cut THEN [archives[n] EXCEPT !.lines = <<>>, !.whole = FALSE]
                                           ELSE archives[n]]
            /\ excused' = excused \cup Archived([n \in cut |-> archives[n]])
    BY <1>9, LogNames DEF Log!Crash, Log!Restrict
  <2>2. ASSUME NEW x \in Archived(archives)
        PROVE  x \in Archived(archives') \/ x \in Archived([n \in cut |-> archives[n]])
    <3>1. PICK n \in DOMAIN archives : archives[n].whole /\ x \in Entries(archives[n].lines)
      BY <2>2 DEF Archived
    <3>2. CASE n \in cut
      BY <3>1, <3>2 DEF Archived
    <3>3. CASE n \notin cut
      <4>1. n \in DOMAIN archives' /\ archives'[n] = archives[n]
        BY <2>1, <3>1, <3>3
      <4> QED BY <3>1, <4>1 DEF Archived
    <3> QED BY <3>2, <3>3
  <2>3. acked' = acked /\ stable' = active' /\ active' \in Log!Remains
    BY <1>9 DEF Log!Crash
  <2>4. active' \in Seq(Nat) /\ (Log!Extends(active, stable) => Entries(stable) \subseteq Entries(active'))
    BY <1>0, <2>3, RemainsAre
  <2>5. ASSUME NEW n \in DOMAIN acked'
        PROVE  acked'[n] \in Entries(active') \cup Archived(archives') \cup excused'
    <3>1. acked[n] \in Entries(active') \cup Archived(archives) \cup excused
      BY <2>3, <2>4, <2>5 DEF LogKeeps
    <3> QED BY <2>1, <2>2, <2>3, <3>1
  <2>6. Log!Extends(active, stable)'
    BY <2>3, <2>4 DEF Log!Extends
  <2> QED BY <2>3, <2>5, <2>6 DEF LogKeeps
<1>10. CASE UNCHANGED <<active, archives, stable, acked, excused>>
  BY <1>10, <1>a
<1> QED
  BY <1>1, <1>2, <1>3, <1>4, <1>5, <1>6, <1>7, <1>8, <1>9, <1>10
  DEF LogStep, Log!Next, Log!Write, Log!Tell, Log!Close, Log!Subscribe, Log!Unsubscribe, Log!Send,
      Log!OpenQuery, Log!ReadPart, Log!ScanLine, Log!Land, Log!Answer, logVars

LEMMA ArchivesStep == Log!TypeOK /\ LogTask /\ ArchivesAreBounded /\ LogStep => ArchivesAreBounded'
<1> SUFFICES ASSUME Log!TypeOK, LogTask, ArchivesAreBounded, LogStep PROVE ArchivesAreBounded'
  OBVIOUS
<1> USE DEF Log!disk, Log!writer, Log!queries, Log!streams, Log!bounds, Log!ghosts, Log!Go, Log!Fault
<1>0. /\ entry \in Nat /\ leftovers \in Nat /\ DOMAIN archives \subseteq 1 .. entry
      /\ Cardinality(DOMAIN archives) <= Retention + leftovers /\ Retention \in Nat
  BY LogNames, SizeAssumption DEF Log!TypeOK, ArchivesAreBounded, Log!ArchivesAreBounded
<1>a. IsFiniteSet(DOMAIN archives)
  <2>1. IsFiniteSet(1 .. entry)
    BY <1>0, FS_Interval
  <2> QED BY <1>0, <2>1, FS_Subset
<1>b. Cardinality(DOMAIN archives') <= Retention + leftovers' => ArchivesAreBounded'
  BY LogNames DEF ArchivesAreBounded, Log!ArchivesAreBounded
<1>1. CASE Log!CreateArchive
  <2>1. \/ archives' = archives /\ leftovers' = leftovers
        \/ DOMAIN archives' = DOMAIN archives \cup {entry} /\ leftovers' = leftovers + 1
    BY <1>1 DEF Log!CreateArchive
  <2>2. entry \notin DOMAIN archives
    BY <1>1 DEF Log!CreateArchive, LogTask
  <2>3. Cardinality(DOMAIN archives \cup {entry}) = Cardinality(DOMAIN archives) + 1
        /\ Cardinality(DOMAIN archives) \in Nat
    BY <1>a, <2>2, FS_AddElement, FS_CardinalityType
  <2> QED BY <1>0, <1>b, <2>1, <2>3
<1>2. CASE Log!Prune
  <2>1. PICK k \in SUBSET Expired(archives) :
            /\ DOMAIN archives' = DOMAIN archives \ (Expired(archives) \ k)
            /\ leftovers' = Cardinality(k)
    BY <1>2, LogNames DEF Log!Prune, Log!Restrict
  <2> DEFINE R == DOMAIN archives \ Expired(archives)
  <2>2. DOMAIN archives' = R \cup k /\ R \cap k = {} /\ k \subseteq DOMAIN archives /\ R \subseteq DOMAIN archives
    BY <2>1 DEF Expired
  <2>3. Cardinality(R) <= Retention
    BY <1>0, RetainedAreFew
  <2> HIDE DEF R
  <2>4. IsFiniteSet(R) /\ IsFiniteSet(k)
    BY <1>a, <2>2, FS_Subset
  <2>5. Cardinality(R \cup k) = Cardinality(R) + Cardinality(k) - Cardinality(R \cap k)
    BY <2>4, FS_Union
  <2>6. Cardinality(R) \in Nat /\ Cardinality(k) \in Nat /\ Cardinality({}) = 0
    BY <2>4, FS_CardinalityType, FS_EmptySet
  <2>7. Cardinality(R \cap k) = 0
    BY <2>2, <2>6
  <2> QED BY <1>0, <1>b, <2>1, <2>2, <2>3, <2>5, <2>6, <2>7
<1>3. CASE DOMAIN archives' = DOMAIN archives /\ leftovers' = leftovers
  BY <1>0, <1>3, <1>b
<1> QED
  BY <1>1, <1>2, <1>3
  DEF LogStep, Log!Next, Log!Write, Log!Copy, Log!Copied, Log!Truncate, Log!Empty, Log!AppendEntry, Log!Sync,
      Log!Tell, Log!Clear, Log!Close, Log!Subscribe, Log!Unsubscribe, Log!Send,
      Log!OpenQuery, Log!ReadPart, Log!ScanLine, Log!Land, Log!Answer, Log!WriteBack, Log!Crash, logVars

-----------------------------------------------------------------------------
(* What the streams have been sent.                                        *)

LEMMA PartAppended ==
  ASSUME NEW s \in Seq(Nat), NEW x \in Nat, NEW m \in Nat, NEW n \in Nat, n <= Len(s)
  PROVE  SubSeq(Append(s, x), m + 1, n) = SubSeq(s, m + 1, n)
<1>1. CASE n < m + 1
  <2>1. SubSeq(Append(s, x), m + 1, n) = <<>> /\ SubSeq(s, m + 1, n) = <<>>
    BY <1>1, SubSeqEmpty
  <2> QED BY <2>1
<1>2. CASE ~(n < m + 1)
  <2>1. /\ Append(s, x) = s \o <<x>> /\ <<x>> \in Seq(Nat)
        /\ m + 1 \in 1 .. Len(s) /\ n \in 1 .. Len(s)
    BY <1>2, AppendIsConcat
  <2> QED BY <2>1, SubSeqOfConcat1
<1> QED BY <1>1, <1>2

LEMMA PartGrows ==
  ASSUME NEW s \in Seq(Nat), NEW m \in Nat, NEW n \in Nat, m <= n, n + 1 <= Len(s)
  PROVE  SubSeq(s, m + 1, n + 1) = Append(SubSeq(s, m + 1, n), s[n + 1])
<1>1. m + 1 \in 1 .. Len(s) /\ n + 1 \in (m + 1) .. Len(s) /\ (n + 1) - 1 = n
  OBVIOUS
<1>2. SubSeq(s, m + 1, n + 1) = SubSeq(s, m + 1, (n + 1) - 1) \o <<s[n + 1]>>
  BY <1>1, SubSeqRecursiveSecond
<1>3. SubSeq(s, m + 1, n) \in Seq(Nat) /\ s[n + 1] \in Nat
  <2>1. \A i \in (m + 1) .. n : s[i] \in Nat
    OBVIOUS
  <2> QED BY <2>1, <1>1, SubSeqProperties
<1> QED BY <1>1, <1>2, <1>3, AppendIsConcat

LEMMA PartTail ==
  ASSUME NEW s \in Seq(Nat), NEW m \in Nat, NEW n \in Nat, n <= Len(s),
         SubSeq(s, m + 1, n) # <<>>
  PROVE  m + 1 <= n /\ Tail(SubSeq(s, m + 1, n)) = SubSeq(s, (m + 1) + 1, n)
<1>1. m + 1 <= n
  <2>1. ~(n < m + 1)
    BY SubSeqEmpty
  <2> QED BY <2>1
<1>2. m + 1 \in 1 .. Len(s) /\ n \in (m + 1) .. Len(s)
  BY <1>1
<1> QED BY <1>1, <1>2, HeadTailOfSubSeq

LEMMA LogStreamsStep == Log!TypeOK /\ LogStreams /\ LogStep => LogStreams'
<1> SUFFICES ASSUME Log!TypeOK, LogStreams, LogStep PROVE LogStreams'
  OBVIOUS
<1> USE DEF Log!disk, Log!writer, Log!queries, Log!streams, Log!bounds, Log!ghosts, Log!Go, Log!Fault
<1>0. /\ entry \in Nat /\ acked \in Seq(Nat) /\ Len(acked) \in Nat
      /\ open \subseteq Stream /\ queue \in [Stream -> Seq(Nat)]
      /\ seen \in [Stream -> Nat] /\ lost \subseteq open
  BY DEF Log!TypeOK
<1>a. Told \in Nat /\ Told <= Len(acked)
  BY <1>0 DEF Told, LogStreams
<1>b. /\ task = "tell" => Len(acked) > 0 /\ acked[Len(acked)] = entry
      /\ \A s \in Stream \ open : queue[s] = <<>>
      /\ \A s \in open \ lost : seen[s] <= Told /\ queue[s] = SubSeq(acked, seen[s] + 1, Told)
  BY DEF LogStreams
<1>1. CASE Log!Sync
  <2>1. CASE task' = "tell"
    <3>1. /\ task = "sync" /\ acked' = Append(acked, entry) /\ entry' = entry
          /\ UNCHANGED <<open, queue, seen, lost>>
      BY <1>1, <2>1 DEF Log!Sync
    <3>2. Len(acked') = Len(acked) + 1 /\ acked'[Len(acked')] = entry
      BY <1>0, <3>1, Appended
    <3>3. Told = Len(acked) /\ Told' = Told
      BY <1>0, <2>1, <3>1, <3>2 DEF Told
    <3>4. ASSUME NEW s \in open \ lost
          PROVE  seen[s] <= Told /\ queue[s] = SubSeq(acked', seen[s] + 1, Told)
      <4>1. seen[s] \in Nat
        BY <1>0
      <4> QED BY <1>0, <1>a, <1>b, <3>1, <4>1, PartAppended
    <3> QED BY <1>0, <1>b, <2>1, <3>1, <3>2, <3>3, <3>4 DEF LogStreams
  <2>2. CASE task' # "tell"
    <3>1. /\ task = "sync" /\ UNCHANGED <<acked, open, queue, seen, lost>>
      BY <1>1, <2>2 DEF Log!Sync
    <3>2. Told' = Told
      BY <2>2, <3>1 DEF Told
    <3> QED BY <2>2, <3>1, <3>2 DEF LogStreams
  <2> QED BY <2>1, <2>2
<1>2. CASE Log!Tell
  <2>1. /\ task = "tell" /\ task' = "none" /\ UNCHANGED <<acked, open, seen>>
        /\ queue' = [s \in Stream |->
                       IF s \in open /\ ~Log!Full(s) THEN Append(queue[s], entry) ELSE queue[s]]
        /\ lost' = lost \cup {s \in open : Log!Full(s)}
    BY <1>2 DEF Log!Tell
  <2>2. Told = Len(acked) - 1 /\ Told' = Told + 1 /\ acked[Told + 1] = entry
    BY <1>0, <1>b, <2>1 DEF Told
  <2>3. \A s \in Stream \ open : queue'[s] = <<>>
    BY <1>b, <2>1
  <2>4. ASSUME NEW s \in open \ lost'
        PROVE  seen[s] <= Told + 1 /\ queue'[s] = SubSeq(acked, seen[s] + 1, Told + 1)
    <3>1. s \in Stream /\ s \in open \ lost /\ ~Log!Full(s) /\ seen[s] \in Nat
      BY <1>0, <2>1, <2>4
    <3>2. queue'[s] = Append(queue[s], entry)
      BY <2>1, <3>1
    <3>3. seen[s] <= Told /\ queue[s] = SubSeq(acked, seen[s] + 1, Told)
      BY <1>b, <3>1
    <3>4. Told + 1 <= Len(acked)
      BY <1>0, <2>2
    <3>5. SubSeq(acked, seen[s] + 1, Told + 1) = Append(SubSeq(acked, seen[s] + 1, Told), acked[Told + 1])
      BY <1>0, <1>a, <3>1, <3>3, <3>4, PartGrows
    <3>6. seen[s] <= Told + 1
      BY <1>a, <3>1, <3>3
    <3>7. queue'[s] = SubSeq(acked, seen[s] + 1, Told + 1)
      BY <2>2, <3>2, <3>3, <3>5
    <3> QED BY <3>6, <3>7
  <2> QED BY <2>1, <2>2, <2>3, <2>4 DEF LogStreams
<1>3. ASSUME NEW s \in Stream, Log!Subscribe(s) PROVE LogStreams'
  <2>1. /\ task = "none" /\ s \notin open /\ open' = open \cup {s} /\ seen' = [seen EXCEPT ![s] = Len(acked)]
        /\ UNCHANGED <<task, acked, queue, lost>>
    BY <1>3 DEF Log!Subscribe
  <2>2. Told = Len(acked) /\ Told' = Told
    BY <2>1 DEF Told
  <2>3. ASSUME NEW t \in open' \ lost
        PROVE  seen'[t] <= Told /\ queue[t] = SubSeq(acked, seen'[t] + 1, Told)
    <3>1. CASE t = s
      <4>1. queue[t] = <<>> /\ seen'[t] = Len(acked)
        BY <1>0, <1>b, <2>1, <3>1
      <4>2. SubSeq(acked, Len(acked) + 1, Len(acked)) = <<>>
        BY <1>0, SubSeqEmpty
      <4> QED BY <1>0, <2>2, <4>1, <4>2
    <3>2. CASE t # s
      <4>1. t \in open \ lost /\ seen'[t] = seen[t]
        BY <1>0, <2>1, <2>3, <3>2
      <4> QED BY <1>b, <4>1
    <3> QED BY <3>1, <3>2
  <2> QED BY <1>b, <2>1, <2>2, <2>3 DEF LogStreams
<1>4. ASSUME NEW s \in Stream, Log!Unsubscribe(s) PROVE LogStreams'
  <2>1. /\ task = "none" /\ open' = open \ {s} /\ lost' = lost \ {s}
        /\ queue' = [queue EXCEPT ![s] = <<>>] /\ seen' = [seen EXCEPT ![s] = 0]
        /\ UNCHANGED <<task, acked>>
    BY <1>4 DEF Log!Unsubscribe
  <2>2. Told' = Told
    BY <2>1 DEF Told
  <2>3. \A t \in Stream \ open' : queue'[t] = <<>>
    BY <1>0, <1>b, <2>1
  <2>4. \A t \in open' \ lost' : t \in open \ lost /\ seen'[t] = seen[t] /\ queue'[t] = queue[t]
    BY <1>0, <2>1
  <2> QED BY <1>b, <2>1, <2>2, <2>3, <2>4 DEF LogStreams
<1>5. ASSUME NEW s \in Stream, Log!Send(s) PROVE LogStreams'
  <2>1. /\ queue[s] # <<>> /\ queue' = [queue EXCEPT ![s] = Tail(@)] /\ seen' = [seen EXCEPT ![s] = @ + 1]
        /\ UNCHANGED <<task, entry, acked, open, lost>>
    BY <1>5 DEF Log!Send
  <2>2. s \in open /\ Told' = Told
    BY <1>b, <2>1 DEF Told
  <2>3. \A t \in Stream \ open' : queue'[t] = <<>>
    BY <1>0, <1>b, <2>1, <2>2
  <2>4. ASSUME NEW t \in open \ lost
        PROVE  seen'[t] <= Told /\ queue'[t] = SubSeq(acked, seen'[t] + 1, Told)
    <3>1. t \in Stream /\ seen[t] \in Nat /\ seen[t] <= Told /\ queue[t] = SubSeq(acked, seen[t] + 1, Told)
      BY <1>0, <1>b, <2>4
    <3>2. CASE t = s
      <4>1. queue'[t] = Tail(queue[t]) /\ seen'[t] = seen[t] + 1
        BY <1>0, <2>1, <3>2
      <4>2. seen[t] + 1 <= Told /\ Tail(SubSeq(acked, seen[t] + 1, Told)) = SubSeq(acked, (seen[t] + 1) + 1, Told)
        BY <1>0, <1>a, <2>1, <3>1, <3>2, PartTail
      <4> QED BY <3>1, <4>1, <4>2
    <3>3. CASE t # s
      <4>1. queue'[t] = queue[t] /\ seen'[t] = seen[t]
        BY <1>0, <2>1, <3>1, <3>3
      <4> QED BY <3>1, <4>1
    <3> QED BY <3>2, <3>3
  <2> QED BY <1>b, <2>1, <2>2, <2>3, <2>4 DEF LogStreams
<1>6. CASE Log!Crash
  <2>1. task' = "none" /\ open' = {} /\ queue' = [s \in Stream |-> <<>>]
    BY <1>6 DEF Log!Crash
  <2> QED BY <2>1 DEF LogStreams
<1>7. CASE /\ task' = task \/ (task # "tell" /\ task' # "tell")
           /\ task' = "tell" => entry' = entry
           /\ UNCHANGED <<acked, open, queue, seen, lost>>
  <2>1. Told' = Told
    BY <1>7 DEF Told
  <2> QED BY <1>b, <1>7, <2>1 DEF LogStreams
<1> QED
  BY <1>1, <1>2, <1>3, <1>4, <1>5, <1>6, <1>7
  DEF LogStep, Log!Next, Log!Write, Log!CreateArchive, Log!Copy, Log!Truncate, Log!Prune, Log!AppendEntry,
      Log!Clear, Log!Close, Log!OpenQuery, Log!ReadPart, Log!ScanLine, Log!Land, Log!Answer, Log!WriteBack, logVars

-----------------------------------------------------------------------------
(* What the queries have found.                                            *)

\* A query is at no line of the file.
LEMMA NoQueryIsBeyond ==
  ASSUME Log!TypeOK, LogTask, LogFilesAreLined
  PROVE  Log!NoQuery \in Nat /\ Len(active) < Log!NoQuery
<1>1. /\ Len(active) <= LastLine + crashes /\ LastLine <= entry /\ entry <= MaxEntries
      /\ crashes <= MaxCrashes /\ LastLine \in Nat /\ entry \in Nat /\ crashes \in Nat
      /\ Len(active) \in Nat
  BY LastLineType DEF LogFilesAreLined, Lined, Log!TypeOK
<1>2. /\ MaxEntries \in Nat /\ MaxFaults \in Nat /\ MaxCrashes \in Nat
      /\ Log!NoQuery = MaxEntries + MaxFaults + MaxCrashes + 1
  BY ServicesAssumption DEF Log!NoQuery
<1> QED BY <1>1, <1>2

\* A query does not lose by lines that are appended or by a last line that moves on.
LEMMA QueryStays ==
  ASSUME NEW r \in Reader, LogQuery(r), Log!TypeOK, LastLine \in Nat,
         UNCHANGED <<at, got>>, expected' = expected \/ expected'[r] = {},
         LastLine' \in Nat, LastLine <= LastLine', active' \in Seq(Nat),
         \A j \in Ahead(r)' : (j \in Ahead(r) /\ active'[j] = active[j]) \/ active'[j] > LastLine,
         expected'[r] # {} =>
             \A j \in Ahead(r) :
                j \in Ahead(r)' /\ active'[j] = active[j] /\ (Parses(active, j) => Parses(active', j))
  PROVE  LogQuery(r)'
<1>0. /\ got[r] \in Seq(Nat) /\ at' = at /\ got' = got /\ Log!NoQuery' = Log!NoQuery
      /\ \A i \in DOMAIN got[r] : got[r][i] \in Nat
  <2>1. got[r] \in Seq(Nat)
    BY DEF Log!TypeOK
  <2>2. \A i \in DOMAIN got[r] : got[r][i] \in Nat
    BY <2>1
  <2> QED BY <2>1, <2>2 DEF Log!NoQuery
<1>1. at'[r] = Log!NoQuery' => got'[r] = <<>> /\ expected'[r] = {}
  BY <1>0 DEF LogQuery
<1>2. \A i, j \in DOMAIN got'[r] : i < j => got'[r][i] < got'[r][j]
  BY <1>0 DEF LogQuery
<1>3. ASSUME NEW i \in DOMAIN got'[r]
      PROVE  got'[r][i] <= LastLine' /\ \A j \in Ahead(r)' : got'[r][i] < active'[j]
  <2>1. got'[r][i] = got[r][i] /\ got[r][i] \in Nat /\ got[r][i] <= LastLine /\ i \in DOMAIN got[r]
    BY <1>0, <1>3 DEF LogQuery
  <2>2. got'[r][i] <= LastLine'
    BY <2>1
  <2>3. ASSUME NEW j \in Ahead(r)' PROVE got'[r][i] < active'[j]
    <3>1. CASE j \in Ahead(r) /\ active'[j] = active[j]
      BY <2>1, <3>1 DEF LogQuery
    <3>2. CASE active'[j] > LastLine
      <4>1. active'[j] \in Nat
        BY <2>3 DEF Ahead
      <4> QED BY <2>1, <3>2, <4>1
    <3> QED BY <2>3, <3>1, <3>2
  <2> QED BY <2>2, <2>3
<1>4. ASSUME NEW x \in expected'[r]
      PROVE  \/ \E i \in DOMAIN got'[r] : got'[r][i] = x
             \/ \E j \in Ahead(r)' : Parses(active', j) /\ active'[j] = x
  <2>1. x \in expected[r] /\ expected'[r] # {}
    BY <1>4
  <2>2. \/ \E i \in DOMAIN got[r] : got[r][i] = x
        \/ \E j \in Ahead(r) : Parses(active, j) /\ active[j] = x
    BY <2>1 DEF LogQuery
  <2> QED BY <1>0, <2>1, <2>2
<1> QED BY <1>1, <1>2, <1>3, <1>4 DEF LogQuery, Parses

LEMMA LogQueryStep ==
  ASSUME Log!TypeOK, Log!TypeOK', LogTask, LogTask', LogFilesAreLined, LogStep,
         NEW r \in Reader, LogQuery(r), LogJoined(r)
  PROVE  LogQuery(r)'
<1> USE DEF Log!disk, Log!writer, Log!queries, Log!streams, Log!bounds, Log!ghosts, Log!Go, Log!Fault
<1>0. /\ active \in Seq(Nat) /\ active' \in Seq(Nat) /\ Len(active) \in Nat /\ DOMAIN active = 1 .. Len(active)
      /\ \A i \in DOMAIN active : active[i] \in Nat
      /\ entry \in Nat /\ at \in [Reader -> Nat] /\ got \in [Reader -> Seq(Nat)] /\ expected \in [Reader -> SUBSET Nat]
      /\ adrift \in [Reader -> BOOLEAN] /\ LastLine \in Nat /\ LastLine <= entry /\ at[r] \in Nat /\ got[r] \in Seq(Nat)
      /\ Log!NoQuery \in Nat /\ Len(active) < Log!NoQuery /\ Log!NoQuery' = Log!NoQuery
  <2>1. active \in Seq(Nat) /\ active' \in Seq(Nat)
    BY DEF Log!TypeOK
  <2>2. Log!NoQuery' = Log!NoQuery
    BY DEF Log!NoQuery
  <2>3. Len(active) \in Nat /\ DOMAIN active = 1 .. Len(active) /\ \A i \in DOMAIN active : active[i] \in Nat
    BY <2>1
  <2> QED BY <2>1, <2>2, <2>3, LastLineType, NoQueryIsBeyond DEF Log!TypeOK
<1>1. LastLine' \in Nat
  <2>1. entry' \in Nat /\ (task' # "none" => entry' > 0)
    BY DEF Log!TypeOK, LogTask
  <2>2. LastLine' = IF task' \in {"archive", "copy", "truncate", "prune", "append"} THEN entry' - 1 ELSE entry'
    BY DEF LastLine
  <2>3. \A e \in Nat : \A t : (t # "none" => e > 0) =>
           (IF t \in {"archive", "copy", "truncate", "prune", "append"} THEN e - 1 ELSE e) \in Nat
    OBVIOUS
  <2>4. (IF task' \in {"archive", "copy", "truncate", "prune", "append"} THEN entry' - 1 ELSE entry') \in Nat
    BY <2>1, <2>3
  <2> QED BY <2>2, <2>4
<1>a. ASSUME UNCHANGED <<at, got>>, LastLine <= LastLine',
             \/ active' = <<>> /\ expected'[r] = {}
             \/ UNCHANGED <<active, adrift, expected>>
      PROVE  LogQuery(r)'
  <2>1. \A j \in Ahead(r)' : j \in Ahead(r) /\ active'[j] = active[j]
    <3>1. CASE UNCHANGED <<active, adrift>>
      BY <1>a, <3>1 DEF Ahead
    <3>2. CASE active' = <<>>
      BY <3>2 DEF Ahead
    <3> QED BY <1>a, <3>1, <3>2
  <2>2. expected'[r] # {} =>
            \A j \in Ahead(r) :
               j \in Ahead(r)' /\ active'[j] = active[j] /\ (Parses(active, j) => Parses(active', j))
    BY <1>a DEF Ahead
  <2>3. expected' = expected \/ expected'[r] = {}
    BY <1>a
  <2> QED BY <1>0, <1>1, <1>a, <2>1, <2>2, <2>3, QueryStays
\* A line that is read is found after what was found before.
<1>b. ASSUME NEW n \in Ahead(r), got'[r] = Append(got[r], active[n]), UNCHANGED active, LastLine' = LastLine,
             \A j \in Ahead(r)' : j \in Ahead(r) /\ n < j
      PROVE  /\ \A i, j \in DOMAIN got'[r] : i < j => got'[r][i] < got'[r][j]
             /\ \A i \in DOMAIN got'[r] :
                   got'[r][i] <= LastLine' /\ \A j \in Ahead(r)' : got'[r][i] < active'[j]
             /\ \E i \in DOMAIN got'[r] : got'[r][i] = active[n]
             /\ \A i \in DOMAIN got[r] : i \in DOMAIN got'[r] /\ got'[r][i] = got[r][i]
  <2> DEFINE x == active[n]
  <2>1. n \in DOMAIN active /\ x \in Nat /\ active[n] # Fragment /\ x <= LastLine
    BY <1>0 DEF Ahead, LogFilesAreLined, Lined
  <2>2. \A i \in DOMAIN got[r] : got[r][i] < x
    BY DEF LogQuery
  <2>3. ASSUME NEW j \in Ahead(r)' PROVE x < active'[j]
    <3>1. j \in DOMAIN active /\ n < j /\ active[j] # Fragment /\ active'[j] = active[j]
      BY <1>b, <2>3 DEF Ahead
    <3> QED BY <2>1, <3>1 DEF LogFilesAreLined, Lined, InOrder
  <2> HIDE DEF x
  <2>4. /\ DOMAIN got'[r] = 1 .. Len(got[r]) + 1 /\ DOMAIN got[r] = 1 .. Len(got[r]) /\ Len(got[r]) \in Nat
        /\ got'[r][Len(got[r]) + 1] = x /\ \A i \in 1 .. Len(got[r]) : got'[r][i] = got[r][i] /\ got[r][i] \in Nat
    <3>1. got[r] \in Seq(Nat) /\ got'[r] = Append(got[r], x)
      BY <1>0, <1>b DEF x
    <3>2. \A i \in 1 .. Len(got[r]) : got[r][i] \in Nat
      BY ONLY <3>1
    <3> QED BY ONLY <2>1, <3>1, <3>2, Appended
  <2>5. ASSUME NEW i \in DOMAIN got'[r], NEW j \in DOMAIN got'[r], i < j PROVE got'[r][i] < got'[r][j]
    <3>1. i \in 1 .. Len(got[r])
      BY <2>4, <2>5
    <3>2. CASE j = Len(got[r]) + 1
      BY <2>4, <2>2, <3>1, <3>2
    <3>3. CASE j # Len(got[r]) + 1
      <4>1. j \in 1 .. Len(got[r])
        BY <2>4, <3>3
      <4> QED BY <2>4, <2>5, <3>1, <4>1 DEF LogQuery
    <3> QED BY <3>2, <3>3
  <2>6. ASSUME NEW i \in DOMAIN got'[r]
        PROVE  got'[r][i] <= LastLine' /\ \A j \in Ahead(r)' : got'[r][i] < active'[j]
    <3>1. CASE i = Len(got[r]) + 1
      BY <1>b, <2>1, <2>3, <2>4, <3>1
    <3>2. CASE i # Len(got[r]) + 1
      <4>1. i \in DOMAIN got[r] /\ got'[r][i] = got[r][i]
        BY <2>4, <3>2
      <4> QED BY <1>b, <4>1 DEF LogQuery
    <3> QED BY <3>1, <3>2
  <2>7. Len(got[r]) + 1 \in DOMAIN got'[r]
    BY <2>4
  <2> QED BY <2>4, <2>5, <2>6, <2>7 DEF x
<1>2. CASE Log!Write \/ Log!CreateArchive \/ Log!Copy \/ Log!Prune \/ Log!Sync \/ Log!Tell
  <2>1. active' = active /\ UNCHANGED <<at, got, adrift, expected>>
    BY <1>2 DEF Log!Write, Log!CreateArchive, Log!Copy, Log!Prune, Log!Sync, Log!Tell
  <2>2. LastLine <= LastLine'
    BY <1>0, <1>2 DEF Log!Write, Log!CreateArchive, Log!Copy, Log!Prune, Log!Sync, Log!Tell, LastLine
  <2> QED BY <1>a, <2>1, <2>2
<1>3. CASE Log!Truncate \/ Log!Clear
  <2>1. /\ UNCHANGED <<at, got, entry>>
        /\ \/ active' = <<>> /\ expected'[r] = {}
           \/ UNCHANGED <<active, adrift, expected>>
    BY <1>3 DEF Log!Truncate, Log!Clear, Log!Empty
  <2>2. LastLine <= LastLine'
    BY <1>0, <1>3 DEF Log!Truncate, Log!Clear, LastLine
  <2> QED BY <1>a, <2>1, <2>2
<1>4. CASE Log!AppendEntry
  <2>1. /\ UNCHANGED <<at, got, adrift, entry, expected>> /\ entry > 0 /\ LastLine = entry - 1 /\ LastLine' = entry
        /\ active' \in {active, Append(active, Fragment), Append(active, entry)}
    BY <1>4, LogNames DEF Log!AppendEntry, LogTask, LastLine
  <2>2. LastLine < LastLine' /\ LastLine < entry /\ LastLine <= LastLine'
    BY <1>0, <2>1
  <2>3. ASSUME NEW x \in Nat, active' = Append(active, x), x = Fragment \/ x = entry
        PROVE  LogQuery(r)'
    <3>1. /\ DOMAIN active' = 1 .. Len(active) + 1 /\ active'[Len(active) + 1] = x
          /\ \A i \in 1 .. Len(active) : active'[i] = active[i] /\ (Parses(active', i) <=> Parses(active, i))
          /\ Parses(active', Len(active) + 1) => x # Fragment
      <4>1. active \in Seq(Nat) /\ active' = Append(active, x) /\ x \in Nat
        BY <1>0, <2>3
      <4> QED BY ONLY <4>1, Appended, ParsesAppended
    <3>2. ASSUME NEW j \in Ahead(r)'
          PROVE  (j \in Ahead(r) /\ active'[j] = active[j]) \/ active'[j] > LastLine
      <4>1. j \in DOMAIN active' /\ (adrift[r] \/ j > at[r]) /\ active'[j] # Fragment
        BY <2>1, <3>2 DEF Ahead
      <4>2. CASE j = Len(active) + 1
        BY <2>2, <2>3, <3>1, <4>1, <4>2
      <4>3. CASE j # Len(active) + 1
        <5>1. j \in 1 .. Len(active)
          BY <1>0, <3>1, <4>1, <4>3
        <5> QED BY <1>0, <3>1, <4>1, <5>1 DEF Ahead
      <4> QED BY <4>2, <4>3
    <3>3. ASSUME NEW j \in Ahead(r)
          PROVE  j \in Ahead(r)' /\ active'[j] = active[j] /\ (Parses(active, j) => Parses(active', j))
      <4>1. j \in 1 .. Len(active) /\ (adrift[r] \/ j > at[r]) /\ active[j] # Fragment
        BY <1>0, <3>3 DEF Ahead
      <4>2. j \in DOMAIN active' /\ active'[j] = active[j] /\ (Parses(active, j) => Parses(active', j))
        BY <1>0, <3>1, <4>1
      <4> QED BY <2>1, <4>1, <4>2 DEF Ahead
    <3> QED BY <1>0, <1>1, <2>1, <2>2, <3>2, <3>3, QueryStays
  <2>4. CASE active' = active
    BY <1>a, <2>1, <2>2, <2>4
  <2> QED BY <1>0, <2>1, <2>3, <2>4 DEF Fragment
\* What the other queries do is nothing to this one.
<1>c. ASSUME at'[r] = at[r], expected'[r] = expected[r], got'[r] = got[r], active' = active,
             adrift'[r] = adrift[r], LastLine' = LastLine
      PROVE  LogQuery(r)'
  <2>1. Ahead(r)' = Ahead(r)
    BY <1>c DEF Ahead
  <2> QED BY <1>0, <1>c, <2>1 DEF LogQuery, Parses
<1>5. ASSUME NEW q \in Reader, Log!OpenQuery(q) PROVE LogQuery(r)'
  <2>1. /\ at[q] = Log!NoQuery /\ at' = [at EXCEPT ![q] = 0] /\ expected' = [expected EXCEPT ![q] = Entries(active)]
        /\ UNCHANGED <<active, got, adrift, task, entry>>
    BY <1>5, LogNames DEF Log!OpenQuery
  <2>2. LastLine' = LastLine
    BY <2>1 DEF LastLine
  <2>3. CASE q = r
    <3>1. at'[r] = 0 /\ got'[r] = <<>> /\ expected'[r] = Entries(active)
      BY <1>0, <2>1, <2>3 DEF LogQuery
    <3>2. ASSUME NEW x \in Entries(active)
          PROVE  \E j \in Ahead(r)' : Parses(active', j) /\ active'[j] = x
      <4>1. PICK j \in DOMAIN active : Parses(active, j) /\ active[j] = x
        BY <3>2 DEF Entries
      <4>2. j > 0
        BY <1>0
      <4> QED BY <2>1, <3>1, <4>1, <4>2 DEF Ahead, Parses
    <3>3. at'[r] # Log!NoQuery' /\ DOMAIN got'[r] = {}
      BY <1>0, <3>1
    <3> QED BY <3>1, <3>2, <3>3 DEF LogQuery, Parses
  <2>4. CASE q # r
    <3>1. /\ at'[r] = at[r] /\ expected'[r] = expected[r] /\ got'[r] = got[r] /\ active' = active
          /\ adrift'[r] = adrift[r]
      BY <1>0, <2>1, <2>4
    <3> QED BY <2>2, <3>1, <1>c
  <2> QED BY <2>3, <2>4
<1>6. ASSUME NEW q \in Reader, Log!ScanLine(q) PROVE LogQuery(r)'
  <2>1. /\ ~adrift[q] /\ at[q] < Len(active) /\ at' = [at EXCEPT ![q] = @ + 1]
        /\ got' = IF Parses(active, at[q] + 1) THEN [got EXCEPT ![q] = Append(@, active[at[q] + 1])] ELSE got
        /\ UNCHANGED <<active, adrift, task, entry, expected>>
    BY <1>6, LogNames DEF Log!ScanLine
  <2>2. LastLine' = LastLine
    BY <2>1 DEF LastLine
  <2>3. CASE q # r
    <3>1. /\ at'[r] = at[r] /\ expected'[r] = expected[r] /\ got'[r] = got[r] /\ active' = active
          /\ adrift'[r] = adrift[r]
      BY <1>0, <2>1, <2>3
    <3> QED BY <2>2, <3>1, <1>c
  <2>4. CASE q = r
    <3> DEFINE n == at[r] + 1
    <3>1. n \in DOMAIN active /\ n \in Nat /\ at'[r] = n /\ n # Log!NoQuery' /\ ~adrift[r]
      BY <1>0, <2>1, <2>4
    <3>2. \A j \in DOMAIN active : j > at[r] <=> j > n \/ j = n
      BY <1>0
    <3> HIDE DEF n
    <3>3. /\ Ahead(r)' = {j \in DOMAIN active : active[j] # Fragment /\ j > n}
          /\ Ahead(r) = {j \in DOMAIN active : active[j] # Fragment /\ (j > n \/ j = n)}
      BY <2>1, <3>1, <3>2 DEF Ahead
    <3>4. CASE ~Parses(active, n)
      <4>1. got'[r] = got[r] /\ expected' = expected
        BY <2>1, <2>4, <3>4 DEF n
      <4>2. Ahead(r)' \subseteq Ahead(r) /\ \A j \in Ahead(r) : Parses(active, j) => j \in Ahead(r)'
        BY <3>3, <3>4
      <4> QED BY <2>1, <2>2, <3>1, <4>1, <4>2 DEF LogQuery, Parses
    <3>5. CASE Parses(active, n)
      <4>1. got'[r] = Append(got[r], active[n]) /\ expected' = expected
        BY <1>0, <2>1, <2>4, <3>5 DEF n
      <4>2. n \in Ahead(r) /\ \A j \in Ahead(r)' : j \in Ahead(r) /\ n < j
        <5>1. \A j \in DOMAIN active : j > n <=> n < j
          BY <1>0, <3>1
        <5> QED BY <3>1, <3>3, <3>5, <5>1 DEF Parses
      <4>3. /\ \A i, j \in DOMAIN got'[r] : i < j => got'[r][i] < got'[r][j]
            /\ \A i \in DOMAIN got'[r] :
                  got'[r][i] <= LastLine' /\ \A j \in Ahead(r)' : got'[r][i] < active'[j]
            /\ \E i \in DOMAIN got'[r] : got'[r][i] = active[n]
            /\ \A i \in DOMAIN got[r] : i \in DOMAIN got'[r] /\ got'[r][i] = got[r][i]
        BY <1>b, <2>1, <2>2, <4>1, <4>2
      <4>4. ASSUME NEW y \in expected'[r]
            PROVE  \/ \E i \in DOMAIN got'[r] : got'[r][i] = y
                   \/ \E j \in Ahead(r)' : Parses(active', j) /\ active'[j] = y
        <5>1. CASE \E i \in DOMAIN got[r] : got[r][i] = y
          BY <4>3, <5>1
        <5>2. CASE \E j \in Ahead(r) : Parses(active, j) /\ active[j] = y
          <6>1. PICK j \in Ahead(r) : Parses(active, j) /\ active[j] = y
            BY <5>2
          <6>2. CASE j = n
            BY <4>3, <6>1, <6>2
          <6>3. CASE j # n
            BY <2>1, <3>3, <6>1, <6>3
          <6> QED BY <6>2, <6>3
        <5> QED BY <4>1, <4>4, <5>1, <5>2 DEF LogQuery
      <4> QED BY <3>1, <4>3, <4>4 DEF LogQuery, Parses
    <3> QED BY <3>4, <3>5
  <2> QED BY <2>3, <2>4
<1>7. ASSUME NEW q \in Reader, Log!Answer(q) PROVE LogQuery(r)'
  <2>1. /\ at' = [at EXCEPT ![q] = Log!NoQuery] /\ got' = [got EXCEPT ![q] = <<>>]
        /\ expected' = [expected EXCEPT ![q] = {}] /\ adrift' = [adrift EXCEPT ![q] = FALSE]
        /\ UNCHANGED <<active, task, entry>>
    BY <1>7 DEF Log!Answer
  <2>2. LastLine' = LastLine
    BY <2>1 DEF LastLine
  <2>3. CASE q # r
    <3>1. /\ at'[r] = at[r] /\ expected'[r] = expected[r] /\ got'[r] = got[r] /\ active' = active
          /\ adrift'[r] = adrift[r]
      BY <1>0, <2>1, <2>3
    <3> QED BY <2>2, <3>1, <1>c
  <2>4. CASE q = r
    <3>1. got'[r] = <<>> /\ expected'[r] = {}
      BY <1>0, <2>1, <2>4
    <3>2. DOMAIN got'[r] = {}
      BY <3>1
    <3> QED BY <3>1, <3>2 DEF LogQuery
  <2> QED BY <2>3, <2>4
<1>10. ASSUME NEW q \in Reader, Log!Land(q) PROVE LogQuery(r)'
  <2>1. PICK n \in DOMAIN active :
            /\ at' = [at EXCEPT ![q] = n] /\ adrift' = [adrift EXCEPT ![q] = FALSE] /\ adrift[q]
            /\ \/ got' = got
               \/ active[n] # Fragment /\ got' = [got EXCEPT ![q] = Append(@, active[n])]
            /\ UNCHANGED <<active, task, entry, expected>>
    BY <1>10, LogNames DEF Log!Land
  <2>2. LastLine' = LastLine
    BY <2>1 DEF LastLine
  <2>3. CASE q # r
    <3>1. /\ at'[r] = at[r] /\ expected'[r] = expected[r] /\ got'[r] = got[r] /\ active' = active
          /\ adrift'[r] = adrift[r]
      BY <1>0, <2>1, <2>3
    <3> QED BY <2>2, <3>1, <1>c
  <2>4. CASE q = r
    <3>1. n \in Nat /\ at'[r] = n /\ n # Log!NoQuery' /\ adrift[r] /\ ~adrift'[r] /\ expected'[r] = {}
      BY <1>0, <2>1, <2>4 DEF LogJoined
    <3>2. /\ Ahead(r)' = {j \in DOMAIN active : active[j] # Fragment /\ j > n}
          /\ Ahead(r) = {j \in DOMAIN active : active[j] # Fragment}
      BY <2>1, <3>1 DEF Ahead
    <3>3. \A j \in Ahead(r)' : j \in Ahead(r) /\ n < j
      <4>1. \A j \in DOMAIN active : j > n <=> n < j
        BY <1>0, <3>1
      <4> QED BY <3>2, <4>1
    <3>4. CASE got' = got
      BY <2>1, <2>2, <3>1, <3>3, <3>4 DEF LogQuery
    <3>5. CASE active[n] # Fragment /\ got' = [got EXCEPT ![q] = Append(@, active[n])]
      <4>1. got'[r] = Append(got[r], active[n]) /\ n \in Ahead(r)
        BY <1>0, <2>4, <3>2, <3>5
      <4>2. /\ \A i, j \in DOMAIN got'[r] : i < j => got'[r][i] < got'[r][j]
            /\ \A i \in DOMAIN got'[r] :
                  got'[r][i] <= LastLine' /\ \A j \in Ahead(r)' : got'[r][i] < active'[j]
        BY <1>b, <2>1, <2>2, <3>3, <4>1
      <4> QED BY <3>1, <4>2 DEF LogQuery
    <3> QED BY <2>1, <3>4, <3>5
  <2> QED BY <2>3, <2>4
<1>8. CASE Log!Crash
  <2>1. got'[r] = <<>> /\ expected'[r] = {}
    BY <1>8 DEF Log!Crash
  <2>2. DOMAIN got'[r] = {}
    BY <2>1
  <2> QED BY <2>1, <2>2 DEF LogQuery
<1>9. CASE UNCHANGED <<active, task, entry, at, got, adrift, expected>>
  <2>1. LastLine' = LastLine
    BY <1>9 DEF LastLine
  <2> QED BY <1>0, <1>9, <1>a, <2>1
<1> QED
  BY <1>2, <1>3, <1>4, <1>5, <1>6, <1>7, <1>8, <1>9, <1>10
  DEF LogStep, Log!Next, Log!Close, Log!Subscribe, Log!Unsubscribe, Log!Send, Log!ReadPart,
      Log!WriteBack, logVars

LEMMA LogJoinedStep ==
  ASSUME Log!TypeOK, LogTask, LogFilesAreLined, LogStep, NEW r \in Reader, LogJoined(r)
  PROVE  LogJoined(r)'
<1>a. Len(active) < Log!NoQuery /\ Log!NoQuery \in Nat
  BY NoQueryIsBeyond
<1>b. /\ at \in [Reader -> Nat] /\ held \in [Reader -> BOOLEAN] /\ adrift \in [Reader -> BOOLEAN]
      /\ joined \in [Reader -> Nat] /\ caught \in [Reader -> Nat] /\ expected \in [Reader -> SUBSET Nat]
      /\ Len(active) \in Nat
  BY DEF Log!TypeOK
<1>c. Log!NoQuery' = Log!NoQuery
  BY DEF Log!NoQuery
<1>0. /\ at \in [Reader -> Nat] /\ held \in [Reader -> BOOLEAN] /\ adrift \in [Reader -> BOOLEAN]
      /\ joined \in [Reader -> Nat] /\ caught \in [Reader -> Nat] /\ expected \in [Reader -> SUBSET Nat]
      /\ Len(active) \in Nat /\ Len(active) < Log!NoQuery /\ Log!NoQuery \in Nat /\ Log!NoQuery' = Log!NoQuery
      /\ joined[r] \in Nat /\ caught[r] \in Nat
  BY <1>a, <1>b, <1>c
<1> USE DEF Log!disk, Log!writer, Log!queries, Log!streams, Log!bounds, Log!ghosts, Log!Go, Log!Fault
<1>1. CASE Log!Empty
  <2>1. /\ adrift'[r] = (at[r] # Log!NoQuery /\ (at[r] > 0 \/ held[r]))
        /\ expected'[r] = {} /\ UNCHANGED <<at, held, joined>>
        /\ caught'[r] = IF held[r] THEN caught[r] + 1 ELSE caught[r]
    BY <1>1 DEF Log!Empty
  <2>2. joined[r] <= caught[r]
    BY <1>0 DEF LogJoined
  <2>3. joined[r] + (IF adrift'[r] /\ held[r] THEN 1 ELSE 0) <= caught'[r]
    BY <1>0, <2>1, <2>2
  <2> QED BY <1>0, <2>1, <2>3 DEF LogJoined
<1>2. CASE UNCHANGED <<at, held, adrift, joined, expected, caught>>
  BY <1>0, <1>2 DEF LogJoined
<1>3. ASSUME NEW q \in Reader, \/ Log!OpenQuery(q) \/ Log!ReadPart(q) \/ Log!ScanLine(q)
      PROVE  LogJoined(r)'
  <2>1. CASE q # r
    <3>1. /\ at'[r] = at[r] /\ held'[r] = held[r] /\ adrift'[r] = adrift[r] /\ joined'[r] = joined[r]
          /\ expected'[r] = expected[r] /\ caught'[r] = caught[r]
      BY <1>0, <1>3, <2>1 DEF Log!OpenQuery, Log!ReadPart, Log!ScanLine
    <3> QED BY <1>0, <3>1 DEF LogJoined
  <2>2. CASE q = r
    <3>1. ~adrift'[r] /\ joined'[r] = joined[r] /\ caught'[r] = caught[r]
      BY <1>0, <1>3, <2>2 DEF Log!OpenQuery, Log!ReadPart, Log!ScanLine, LogJoined
    <3>2. joined[r] <= caught[r]
      BY <1>0 DEF LogJoined
    <3> QED BY <1>0, <3>1, <3>2 DEF LogJoined
  <2> QED BY <2>1, <2>2
<1>4. ASSUME NEW q \in Reader, Log!Land(q) PROVE LogJoined(r)'
  <2>1. PICK n \in DOMAIN active :
            /\ adrift[q] /\ adrift' = [adrift EXCEPT ![q] = FALSE] /\ at' = [at EXCEPT ![q] = n]
            /\ held' = [held EXCEPT ![q] = active[n] = Log!Fragment]
            /\ (joined' = [joined EXCEPT ![q] = @ + 1] /\ held[q]) \/ joined' = joined
            /\ UNCHANGED <<expected, caught>>
    BY <1>4 DEF Log!Land
  <2>2. CASE q # r
    <3>1. /\ at'[r] = at[r] /\ held'[r] = held[r] /\ adrift'[r] = adrift[r] /\ joined'[r] = joined[r]
          /\ expected'[r] = expected[r] /\ caught'[r] = caught[r]
      BY <1>0, <2>1, <2>2
    <3> QED BY <1>0, <3>1 DEF LogJoined
  <2>3. CASE q = r
    <3>1. /\ ~adrift'[r] /\ adrift[r] /\ caught'[r] = caught[r]
          /\ (joined'[r] = joined[r] + 1 /\ held[r]) \/ joined'[r] = joined[r]
      BY <1>0, <2>1, <2>3
    <3>2. joined'[r] <= caught[r] /\ joined'[r] \in Nat
      BY <1>0, <3>1 DEF LogJoined
    <3> QED BY <1>0, <3>1, <3>2 DEF LogJoined
  <2> QED BY <2>2, <2>3
<1>5. ASSUME NEW q \in Reader, Log!Answer(q) PROVE LogJoined(r)'
  <2>1. CASE q # r
    <3>1. /\ at'[r] = at[r] /\ held'[r] = held[r] /\ adrift'[r] = adrift[r] /\ joined'[r] = joined[r]
          /\ expected'[r] = expected[r] /\ caught'[r] = caught[r]
      BY <1>0, <1>5, <2>1 DEF Log!Answer
    <3> QED BY <1>0, <3>1 DEF LogJoined
  <2>2. CASE q = r
    <3>1. ~adrift'[r] /\ joined'[r] = 0 /\ caught'[r] = 0
      BY <1>0, <1>5, <2>2 DEF Log!Answer
    <3> QED BY <3>1 DEF LogJoined
  <2> QED BY <2>1, <2>2
<1>6. CASE Log!Crash
  <2>1. ~adrift'[r] /\ joined'[r] = 0 /\ caught'[r] = 0
    BY <1>6 DEF Log!Crash
  <2> QED BY <2>1 DEF LogJoined
<1> QED
  BY <1>1, <1>2, <1>3, <1>4, <1>5, <1>6
  DEF LogStep, Log!Next, Log!Write, Log!CreateArchive, Log!Copy, Log!Truncate, Log!Prune, Log!AppendEntry,
      Log!Sync, Log!Tell, Log!Clear, Log!Close, Log!Subscribe, Log!Unsubscribe, Log!Send, Log!WriteBack, logVars

LEMMA LogInvFirst == Log!Init => LogInv
<1> SUFFICES ASSUME Log!Init PROVE LogInv
  OBVIOUS
<1>0. /\ active = <<>> /\ archives = [n \in {} |-> <<>>] /\ stable = <<>>
      /\ task = "none" /\ entry = 0 /\ closed = FALSE
      /\ at = [r \in Reader |-> Log!NoQuery] /\ got = [r \in Reader |-> <<>>]
      /\ held = [r \in Reader |-> FALSE] /\ adrift = [r \in Reader |-> FALSE]
      /\ joined = [r \in Reader |-> 0] /\ caught = [r \in Reader |-> 0]
      /\ expected = [r \in Reader |-> {}]
      /\ open = {} /\ queue = [s \in Stream |-> <<>>]
      /\ seen = [s \in Stream |-> 0] /\ lost = {}
      /\ faults = 0 /\ crashes = 0 /\ clears = 0
      /\ acked = <<>> /\ excused = {} /\ leftovers = 0
  BY DEF Log!Init
<1>1. DOMAIN <<>> = {} /\ <<>> \in Seq(Nat) /\ DOMAIN archives = {}
  BY <1>0
<1>2. Log!TypeOK
  <2>1. Log!NoQuery \in Nat
    BY ServicesAssumption DEF Log!NoQuery
  <2>2. /\ at \in [Reader -> Nat] /\ got \in [Reader -> Seq(Nat)] /\ expected \in [Reader -> SUBSET Nat]
        /\ queue \in [Stream -> Seq(Nat)] /\ seen \in [Stream -> Nat]
        /\ held \in [Reader -> BOOLEAN] /\ adrift \in [Reader -> BOOLEAN]
        /\ joined \in [Reader -> Nat] /\ caught \in [Reader -> Nat]
    BY <1>0, <1>1, <2>1
  <2> QED BY <1>0, <1>1, <2>2 DEF Log!TypeOK
<1>3. LogFilesAreLined
  <2>1. LastLine = 0
    BY <1>0 DEF LastLine
  <2>2. LastLine + crashes = 0
    BY <1>0, <2>1
  <2>3. Lined(<<>>, 0, 0)
    BY LinedEmpty
  <2> QED BY <1>0, <2>1, <2>2, <2>3, ServicesAssumption DEF LogFilesAreLined
<1>4. LogTask /\ LogKeeps
  BY <1>0, <1>1 DEF LogTask, LogKeeps, Log!Extends
<1>5. LogStreams
  BY <1>0 DEF LogStreams
<1>6. ASSUME NEW r \in Reader PROVE LogQuery(r) /\ LogJoined(r)
  BY <1>0, <1>1 DEF LogQuery, LogJoined
<1>7. ArchivesAreBounded
  <2>1. Log!Cardinality(DOMAIN archives) = 0
    BY <1>1, LogNames, FS_EmptySet
  <2> QED BY <1>0, <2>1, SizeAssumption DEF ArchivesAreBounded, Log!ArchivesAreBounded
<1> QED BY <1>2, <1>3, <1>4, <1>5, <1>6, <1>7 DEF LogInv

LEMMA LogInvStep == LogInv /\ LogStep => LogInv'
<1> SUFFICES ASSUME LogInv, LogStep PROVE LogInv'
  OBVIOUS
<1>1. Log!TypeOK' /\ LogFilesAreLined' /\ LogTask' /\ LogKeeps' /\ LogStreams' /\ ArchivesAreBounded'
  BY LogTypeStep, LogLinedStep, LogTaskStep, LogKeepsStep, LogStreamsStep, ArchivesStep DEF LogInv
<1>2. ASSUME NEW r \in Reader PROVE LogQuery(r)' /\ LogJoined(r)'
  BY <1>1, LogQueryStep, LogJoinedStep DEF LogInv
<1> QED BY <1>1, <1>2 DEF LogInv

LEMMA LogInvSays == LogInv => AcknowledgedIsKept /\ QueriesTellTheLog /\ StreamsFollowTheLog
<1> SUFFICES ASSUME LogInv PROVE AcknowledgedIsKept /\ QueriesTellTheLog /\ StreamsFollowTheLog
  OBVIOUS
<1>1. AcknowledgedIsKept
  BY LogNames DEF LogInv, LogKeeps, AcknowledgedIsKept, Log!AcknowledgedIsKept, Log!Range
<1>2. QueriesTellTheLog
  <2>1. ASSUME NEW r \in Reader, Log!AtEnd(r) PROVE expected[r] \subseteq Log!Range(got[r])
    <3>1. CASE adrift[r]
      BY <3>1 DEF LogInv, LogJoined
    <3>2. CASE ~adrift[r]
      <4>1. at[r] \in Nat /\ Len(active) \in Nat /\ at[r] >= Len(active) /\ DOMAIN active = 1 .. Len(active)
        BY <2>1, <3>2 DEF LogInv, Log!TypeOK, Log!AtEnd
      <4>2. Ahead(r) = {}
        BY <3>2, <4>1 DEF Ahead
      <4>3. \A x \in expected[r] : \E i \in DOMAIN got[r] : got[r][i] = x
        BY <4>2 DEF LogInv, LogQuery
      <4> QED BY <4>3 DEF Log!Range
    <3> QED BY <3>1, <3>2
  <2>2. \A r \in Reader : \A i, j \in DOMAIN got[r] : i < j => got[r][i] < got[r][j]
    BY DEF LogInv, LogQuery
  <2>3. ASSUME NEW r \in Reader PROVE joined[r] <= caught[r]
    <3>1. joined[r] \in Nat /\ caught[r] \in Nat
      BY DEF LogInv, Log!TypeOK
    <3> QED BY <3>1 DEF LogInv, LogJoined
  <2> QED BY <2>1, <2>2, <2>3 DEF QueriesTellTheLog, Log!QueriesTellTheLog
<1>3. StreamsFollowTheLog
  BY DEF LogInv, LogStreams, Told, StreamsFollowTheLog, Log!StreamsFollowTheLog
<1> QED BY <1>1, <1>2, <1>3

-----------------------------------------------------------------------------
(* The audit trail, step by step.                                          *)

AuditStep == [Audit!Next]_auditVars

\* A file that begins with another one.
Starts(s, t) == Len(s) <= Len(t) /\ \A i \in 1 .. Len(s) : s[i] = t[i]

LEMMA Prefixes ==
  ASSUME NEW s \in Seq(Nat), NEW t \in Seq(Nat)
  PROVE  Audit!IsPrefix(s, t) <=> Starts(s, t)
<1>1. Len(s) \in Nat /\ Len(t) \in Nat
  OBVIOUS
<1>2. SubSeq(s, 1, Len(s)) = s
  BY SubSeqFull
<1>3. ASSUME Len(s) <= Len(t) PROVE SubSeq(t, 1, Len(s)) = s <=> \A i \in 1 .. Len(s) : s[i] = t[i]
  <2> DEFINE u == SubSeq(t, 1, Len(s))
  <2>1. /\ u \in Seq(Nat) /\ Len(u) = Len(s) /\ \A i \in 1 .. Len(s) : u[i] = t[i]
    <3>1. \A i \in 1 .. Len(s) : t[i] \in Nat
      BY <1>1, <1>3
    <3>2. \A i \in 1 .. Len(s) - 1 + 1 : SubSeq(t, 1, Len(s))[i] = t[1 + i - 1]
      BY <1>1, <3>1, SubSeqProperties
    <3>3. \A i \in 1 .. Len(s) : i \in 1 .. Len(s) - 1 + 1 /\ 1 + i - 1 = i
      BY <1>1
    <3>4. u \in Seq(Nat) /\ Len(u) = IF 1 <= Len(s) THEN Len(s) - 1 + 1 ELSE 0
      BY <1>1, <3>1, SubSeqProperties
    <3>5. Len(u) = Len(s)
      BY <1>1, <3>4
    <3> QED BY <3>2, <3>3, <3>4, <3>5
  <2> HIDE DEF u
  <2>2. u = s <=> \A i \in 1 .. Len(s) : u[i] = s[i]
    BY <2>1, SeqEqual
  <2> QED BY <2>1, <2>2 DEF u
<1> QED BY <1>1, <1>2, <1>3 DEF Audit!IsPrefix, Starts

\* What is at the beginning of a file is read there as it is in the file.
LEMMA ParsesAtStart ==
  ASSUME NEW s \in Seq(Nat), NEW t \in Seq(Nat), Starts(s, t), NEW i \in DOMAIN s
  PROVE  i \in DOMAIN t /\ s[i] = t[i] /\ (Parses(s, i) <=> Parses(t, i))
<1>1. Len(s) \in Nat /\ Len(t) \in Nat /\ Len(s) <= Len(t) /\ i \in 1 .. Len(s)
      /\ DOMAIN t = 1 .. Len(t) /\ \A j \in 1 .. Len(s) : s[j] = t[j]
  <2>1. Len(s) \in Nat /\ Len(t) \in Nat /\ DOMAIN s = 1 .. Len(s) /\ DOMAIN t = 1 .. Len(t)
    OBVIOUS
  <2> QED BY <2>1 DEF Starts
<1>2. i = 1 \/ i - 1 \in 1 .. Len(s)
  BY <1>1
<1> QED BY <1>1, <1>2 DEF Parses

LEMMA LinesAtStart ==
  ASSUME NEW s \in Seq(Nat), NEW t \in Seq(Nat), Starts(s, t)
  PROVE  Entries(s) \subseteq Entries(t) /\ Lines(s) \subseteq Lines(t)
<1>1. Entries(s) \subseteq Entries(t)
  BY ParsesAtStart DEF Entries
<1>2. Audit!Garbled(s) \subseteq Audit!Garbled(t)
  <2>1. Len(s) \in Nat /\ Len(t) \in Nat /\ Len(s) <= Len(t) /\ DOMAIN s = 1 .. Len(s)
        /\ DOMAIN t = 1 .. Len(t) /\ \A j \in 1 .. Len(s) : s[j] = t[j]
    BY DEF Starts
  <2>2. ASSUME NEW i \in DOMAIN s, i > 1, s[i - 1] = Fragment PROVE s[i] \in Audit!Garbled(t)
    <3>1. i \in DOMAIN t /\ t[i] = s[i] /\ i - 1 \in 1 .. Len(s)
      BY <2>1, <2>2
    <3>2. t[i - 1] = Fragment
      BY <2>1, <2>2, <3>1
    <3> QED BY <2>2, <3>1, <3>2, LogNames DEF Audit!Garbled
  <2> QED BY <2>2, LogNames DEF Audit!Garbled
<1> QED BY <1>1, <1>2 DEF Lines

LEMMA StartsAppended ==
  ASSUME NEW s \in Seq(Nat), NEW t \in Seq(Nat), Starts(s, t), NEW x \in Nat
  PROVE  Starts(s, Append(t, x)) /\ Starts(s, s) /\ Starts(s, Append(s, x))
<1>1. Len(s) \in Nat /\ Len(t) \in Nat /\ Len(s) <= Len(t) /\ \A j \in 1 .. Len(s) : s[j] = t[j]
  BY DEF Starts
<1>2. Starts(s, Append(t, x))
  <2>1. Len(Append(t, x)) = Len(t) + 1 /\ \A i \in 1 .. Len(t) : Append(t, x)[i] = t[i]
    BY Appended
  <2> QED BY <1>1, <2>1 DEF Starts
<1>3. Starts(s, Append(s, x))
  <2>1. Len(Append(s, x)) = Len(s) + 1 /\ \A i \in 1 .. Len(s) : Append(s, x)[i] = s[i]
    BY Appended
  <2> QED BY <1>1, <2>1 DEF Starts
<1> QED BY <1>1, <1>2, <1>3 DEF Starts

LEMMA LinedAtStart ==
  ASSUME NEW s \in Seq(Nat), NEW t \in Seq(Nat), Starts(s, t), NEW l \in Nat, NEW m \in Nat, Lined(t, l, m)
  PROVE  Lined(s, l, m)
<1>1. Len(s) \in Nat /\ Len(t) \in Nat /\ Len(s) <= Len(t) /\ Len(t) <= m
  BY DEF Starts, Lined
<1>2. \A i \in DOMAIN s : i \in DOMAIN t /\ s[i] = t[i]
  BY ParsesAtStart
<1>3. Len(s) <= m
  BY <1>1
<1> QED BY <1>2, <1>3 DEF Lined, InOrder

\* The line that is added is an entry, or follows a fragment.
LEMMA LineAdded ==
  ASSUME NEW f \in Seq(Nat), NEW x \in Nat, x # Fragment
  PROVE  x \in Lines(Append(f, x))
<1> DEFINE g == Append(f, x)
           n == Len(f) + 1
<1>1. n \in DOMAIN g /\ g[n] = x /\ n \in Nat /\ n >= 1
  BY Appended
<1> HIDE DEF g, n
<1>2. CASE Parses(g, n)
  BY <1>1, <1>2 DEF Lines, Entries, g
<1>3. CASE ~Parses(g, n)
  <2>1. n > 1 /\ g[n - 1] = Fragment
    BY <1>1, <1>3 DEF Parses
  <2>2. x \in Audit!Garbled(g)
    BY <1>1, <2>1, LogNames DEF Audit!Garbled
  <2> QED BY <2>2 DEF Lines, g
<1> QED BY <1>2, <1>3

LEMMA TrailStarts ==
  ASSUME Audit!TypeOK
  PROVE  trail \in Seq(Nat) /\ synced \in Seq(Nat) /\ Starts(synced, trail)
BY Prefixes DEF Audit!TypeOK

LEMMA AuditTypeStep == Audit!TypeOK /\ TrailIsLined /\ AuditStep => Audit!TypeOK'
<1> SUFFICES ASSUME Audit!TypeOK, TrailIsLined, AuditStep PROVE Audit!TypeOK'
  OBVIOUS
<1> USE DEF Audit!recorder, Audit!pagers, Audit!Mishap, Audit!Turn
<1>0. /\ trail \in Seq(Nat) /\ synced \in Seq(Nat) /\ Starts(synced, trail)
      /\ stage \in {"none", "write", "sync", "syncFailed"}
      /\ record \in Nat /\ mishaps \in Nat /\ kept \subseteq 1 .. record
      /\ cursor \in [Pager -> Nat] /\ matched \in [Pager -> Nat]
      /\ page \in [Pager -> Seq(Nat)] /\ pages \in [Pager -> Seq(Nat)]
      /\ misled \subseteq Pager
  BY TrailStarts DEF Audit!TypeOK
<1>a. ASSUME trail' \in Seq(Nat), synced' \in Seq(Nat), Starts(synced', trail')
      PROVE  Audit!IsPrefix(synced, trail)'
  <2>1. Audit!IsPrefix(synced', trail')
    BY <1>a, Prefixes
  <2> QED BY <2>1
<1>b. Starts(trail, trail) /\ Audit!NoPage \in Nat
  BY <1>0, ServicesAssumption DEF Starts, Audit!NoPage
<1>1. CASE Audit!Record
  <2>1. record' \in Nat /\ kept' \subseteq 1 .. record' /\ mishaps' \in Nat /\ stage' \in {"none", "write"}
    BY <1>1, <1>0 DEF Audit!Record
  <2> QED BY <1>0, <1>1, <1>a, <2>1 DEF Audit!Record, Audit!TypeOK
<1>2. CASE Audit!WriteLine
  <2>1. /\ trail' \in {trail, Append(trail, record), Append(trail, Fragment)}
        /\ stage' \in {"sync", "syncFailed"} /\ mishaps' \in {mishaps, mishaps + 1}
        /\ UNCHANGED <<synced, record, kept, cursor, matched, page, pages, misled>>
    BY <1>2, LogNames DEF Audit!WriteLine
  <2>2. trail' \in Seq(Nat)
    <3>1. Append(trail, record) \in Seq(Nat) /\ Append(trail, Fragment) \in Seq(Nat)
      BY <1>0 DEF Fragment
    <3> QED BY <1>0, <2>1, <3>1
  <2>3. Starts(synced', trail')
    BY <1>0, <2>1, StartsAppended DEF Fragment
  <2>4. mishaps' \in Nat
    BY <1>0, <2>1
  <2> QED BY <1>0, <1>a, <2>1, <2>2, <2>3, <2>4 DEF Audit!TypeOK
<1>3. CASE Audit!SyncLine
  <2>1. /\ synced' \in {trail, synced} /\ kept' \subseteq kept \cup {record} /\ stage' = "none"
        /\ mishaps' \in {mishaps, mishaps + 1} /\ stage # "none"
        /\ UNCHANGED <<trail, record, cursor, matched, page, pages, misled>>
    <3>1. kept' \subseteq kept \cup {record} /\ synced' \in {trail, synced}
      BY <1>3 DEF Audit!SyncLine
    <3> QED BY <1>3, <3>1 DEF Audit!SyncLine
  <2>2. kept' \subseteq 1 .. record' /\ mishaps' \in Nat
    BY <1>0, <2>1 DEF TrailIsLined
  <2> QED BY <1>0, <1>a, <1>b, <2>1, <2>2 DEF Audit!TypeOK
<1>4. ASSUME NEW p \in Pager, Audit!OpenPage(p) \/ Audit!ReadLine(p) \/ Audit!GivePage(p) PROVE Audit!TypeOK'
  <2>1. UNCHANGED <<trail, synced, stage, record, kept, mishaps, misled>>
    BY <1>4 DEF Audit!OpenPage, Audit!ReadLine, Audit!GivePage
  <2>2. CASE Audit!OpenPage(p)
    <3>1. cursor' \in [Pager -> Nat] /\ UNCHANGED <<matched, page, pages>>
      BY <1>0, <2>2 DEF Audit!OpenPage
    <3> QED BY <1>0, <2>1, <3>1, <1>a DEF Audit!TypeOK
  <2>3. CASE Audit!ReadLine(p)
    <3>1. cursor[p] + 1 \in DOMAIN trail /\ trail[cursor[p] + 1] \in Nat
      BY <1>0, <2>3 DEF Audit!ReadLine, Audit!Reads
    <3>2. Append(page[p], trail[cursor[p] + 1]) \in Seq(Nat)
      BY <1>0, <3>1
    <3>3. /\ cursor' = [cursor EXCEPT ![p] = @ + 1]
          /\ matched' \in {matched, [matched EXCEPT ![p] = @ + 1]}
          /\ page' \in {page, [page EXCEPT ![p] = Append(@, trail[cursor[p] + 1])]}
          /\ pages' = pages
      BY <2>3 DEF Audit!ReadLine
    <3>4. cursor' \in [Pager -> Nat] /\ matched' \in [Pager -> Nat]
      <4>1. [cursor EXCEPT ![p] = @ + 1] \in [Pager -> Nat] /\ [matched EXCEPT ![p] = @ + 1] \in [Pager -> Nat]
        BY <1>0
      <4> QED BY <1>0, <3>3, <4>1
    <3>5. page' \in [Pager -> Seq(Nat)]
      BY <1>0, <3>2, <3>3
    <3> QED BY <1>0, <2>1, <3>3, <3>4, <3>5, <1>a DEF Audit!TypeOK
  <2>4. CASE Audit!GivePage(p)
    <3>1. pages[p] \o page[p] \in Seq(Nat) /\ <<>> \in Seq(Nat)
      BY <1>0
    <3>2. /\ pages' = [pages EXCEPT ![p] = pages[p] \o page[p]] /\ cursor' = [cursor EXCEPT ![p] = Audit!NoPage]
          /\ matched' = [matched EXCEPT ![p] = 0] /\ page' = [page EXCEPT ![p] = <<>>]
      BY <2>4 DEF Audit!GivePage
    <3>3. cursor' \in [Pager -> Nat] /\ matched' \in [Pager -> Nat]
      BY <1>0, <1>b, <3>2
    <3>4. page' \in [Pager -> Seq(Nat)] /\ pages' \in [Pager -> Seq(Nat)]
      BY <1>0, <3>1, <3>2
    <3> QED BY <1>0, <2>1, <3>3, <3>4, <1>a DEF Audit!TypeOK
  <2> QED BY <1>4, <2>2, <2>3, <2>4
<1>5. CASE Audit!WriteBack
  <2>1. /\ synced' = trail
        /\ UNCHANGED <<trail, stage, record, kept, cursor, matched, page, pages, mishaps, misled>>
    BY <1>5 DEF Audit!WriteBack
  <2> QED BY <1>0, <1>a, <1>b, <2>1 DEF Audit!TypeOK
<1>6. CASE Audit!Crash
  <2>1. /\ trail' \in {trail, synced, Append(synced, Fragment)} /\ synced' = trail' /\ stage' = "none"
        /\ mishaps' = mishaps + 1 /\ UNCHANGED <<record, kept, pages>>
        /\ cursor' = [q \in Pager |-> Audit!NoPage] /\ matched' = [q \in Pager |-> 0]
        /\ page' = [q \in Pager |-> <<>>] /\ misled' \subseteq misled \cup Pager
    <3>1. trail' \in {trail, synced, Append(synced, Fragment)}
      BY <1>6, LogNames DEF Audit!Crash
    <3> QED BY <1>6, <3>1 DEF Audit!Crash, Audit!NoQueries
  <2>2. trail' \in Seq(Nat) /\ mishaps' \in Nat
    <3>1. Append(synced, Fragment) \in Seq(Nat)
      BY <1>0 DEF Fragment
    <3>2. trail' \in Seq(Nat)
      BY <1>0, <2>1, <3>1
    <3>3. mishaps' \in Nat
      BY <1>0, <2>1
    <3> QED BY <3>2, <3>3
  <2>3. Starts(synced', trail')
    BY <2>1, <2>2 DEF Starts
  <2>4. <<>> \in Seq(Nat)
    OBVIOUS
  <2>5. cursor' \in [Pager -> Nat] /\ matched' \in [Pager -> Nat] /\ page' \in [Pager -> Seq(Nat)]
    BY <1>b, <2>1, <2>4
  <2>6. misled' \subseteq Pager
    BY <1>0, <2>1
  <2> QED BY <1>0, <1>a, <2>1, <2>2, <2>3, <2>5, <2>6 DEF Audit!TypeOK
<1>7. CASE UNCHANGED auditVars
  BY <1>0, <1>7, <1>a DEF auditVars, Audit!TypeOK
<1> QED BY <1>1, <1>2, <1>3, <1>4, <1>5, <1>6, <1>7 DEF AuditStep, Audit!Next

LEMMA LastRecordType ==
  ASSUME Audit!TypeOK, TrailIsLined
  PROVE  LastRecord \in Nat /\ LastRecord <= record /\ LastRecord + mishaps \in Nat
BY DEF Audit!TypeOK, TrailIsLined, LastRecord

\* What a step makes of the file, and where its last record is.
LEMMA TrailSteps ==
  ASSUME Audit!TypeOK, TrailIsLined, AuditStep
  PROVE  /\ LastRecord' \in Nat /\ LastRecord <= LastRecord'
         /\ \/ trail' = trail
            \/ /\ trail' = Append(trail, Fragment) /\ LastRecord < LastRecord' /\ mishaps' \in {mishaps, mishaps + 1}
               /\ stage' # "sync" /\ synced' = synced /\ kept' = kept
               /\ UNCHANGED <<cursor, matched, page, pages, misled>>
            \/ /\ trail' = Append(trail, record) /\ LastRecord < record /\ record = LastRecord' /\ mishaps' = mishaps
               /\ synced' = synced /\ kept' = kept /\ record' = record
               /\ UNCHANGED <<cursor, matched, page, pages, misled>>
            \/ Audit!Crash
         /\ record' <= MaxRecords /\ mishaps' <= MaxMishaps /\ mishaps <= mishaps'
         /\ stage' # "none" => record' > 0
<1> USE DEF Audit!recorder, Audit!pagers, Audit!Mishap, Audit!Turn
<1>0. /\ record \in Nat /\ mishaps \in Nat /\ record <= MaxRecords /\ mishaps <= MaxMishaps
      /\ MaxRecords \in Nat /\ MaxMishaps \in Nat /\ (stage # "none" => record > 0)
  BY ServicesAssumption DEF Audit!TypeOK, TrailIsLined
<1>a. LastRecord = IF stage = "write" THEN record - 1 ELSE record
  BY DEF LastRecord
<1>b. LastRecord' = IF stage' = "write" THEN record' - 1 ELSE record'
  BY DEF LastRecord
<1>c. CASE UNCHANGED <<trail, stage, record, mishaps>>
  BY <1>0, <1>a, <1>b, <1>c
<1>1. CASE Audit!Record
  <2>1. /\ record < MaxRecords /\ record' = record + 1 /\ trail' = trail /\ stage = "none"
        /\ stage' \in {"none", "write"}
        /\ mishaps' = mishaps \/ (mishaps < MaxMishaps /\ mishaps' = mishaps + 1)
    BY <1>1 DEF Audit!Record
  <2> QED BY <1>0, <1>a, <1>b, <2>1
<1>2. CASE Audit!WriteLine
  <2>1. CASE mishaps' = mishaps
    <3>1. /\ stage = "write" /\ stage' = "sync" /\ trail' = Append(trail, record)
          /\ UNCHANGED <<synced, record, kept, cursor, matched, page, pages, misled>>
      BY <1>0, <1>2, <2>1 DEF Audit!WriteLine
    <3>2. LastRecord = record - 1 /\ LastRecord' = record
      BY <1>a, <1>b, <3>1
    <3> QED BY <1>0, <2>1, <3>1, <3>2
  <2>2. CASE mishaps' # mishaps
    <3>1. /\ stage = "write" /\ stage' = "syncFailed" /\ trail' \in {trail, Append(trail, Fragment)}
          /\ mishaps < MaxMishaps /\ mishaps' = mishaps + 1
          /\ UNCHANGED <<synced, record, kept, cursor, matched, page, pages, misled>>
      BY <1>2, <2>2, LogNames DEF Audit!WriteLine
    <3>2. LastRecord = record - 1 /\ LastRecord' = record
      BY <1>a, <1>b, <3>1
    <3> QED BY <1>0, <2>2, <3>1, <3>2
  <2> QED BY <2>1, <2>2
<1>3. CASE Audit!SyncLine
  <2>1. /\ trail' = trail /\ stage \in {"sync", "syncFailed"} /\ stage' = "none" /\ record' = record
        /\ mishaps' = mishaps \/ (mishaps < MaxMishaps /\ mishaps' = mishaps + 1)
    BY <1>3 DEF Audit!SyncLine
  <2> QED BY <1>0, <1>a, <1>b, <2>1
<1>4. CASE Audit!Crash
  <2>1. stage' = "none" /\ record' = record /\ mishaps < MaxMishaps /\ mishaps' = mishaps + 1
    BY <1>4 DEF Audit!Crash
  <2> QED BY <1>0, <1>4, <1>a, <1>b, <2>1
<1> QED
  BY <1>1, <1>2, <1>3, <1>4, <1>c
  DEF AuditStep, Audit!Next, Audit!OpenPage, Audit!ReadLine, Audit!GivePage, Audit!WriteBack, auditVars

\* What a crash leaves.
LEMMA CrashLeaves ==
  ASSUME Audit!TypeOK, Audit!Crash
  PROVE  /\ trail' \in {trail, synced, Append(synced, Fragment)} /\ synced' = trail' /\ stage' = "none"
         /\ mishaps' = mishaps + 1 /\ UNCHANGED <<record, kept, pages>>
         /\ cursor' = [q \in Pager |-> Audit!NoPage] /\ matched' = [q \in Pager |-> 0]
         /\ page' = [q \in Pager |-> <<>>]
         /\ misled' = misled \cup {p \in Pager : ~(Audit!Range(pages[p]) \subseteq Audit!Range(trail'))}
<1>1. trail' \in {trail, synced, Append(synced, Fragment)}
  BY LogNames DEF Audit!Crash
<1> QED BY <1>1 DEF Audit!Crash, Audit!NoQueries, Audit!Mishap

LEMMA TrailLinedStep == Audit!TypeOK /\ TrailIsLined /\ AuditStep => TrailIsLined'
<1> SUFFICES ASSUME Audit!TypeOK, TrailIsLined, AuditStep PROVE TrailIsLined'
  OBVIOUS
<1> DEFINE m == LastRecord + mishaps
           n == LastRecord' + mishaps'
<1>0. /\ trail \in Seq(Nat) /\ synced \in Seq(Nat) /\ Starts(synced, trail)
      /\ LastRecord \in Nat /\ LastRecord' \in Nat /\ mishaps \in Nat /\ mishaps' \in Nat
      /\ Lined(trail, LastRecord, m) /\ m \in Nat /\ n \in Nat /\ LastRecord <= LastRecord' /\ m <= n
  <2>1. mishaps \in Nat /\ mishaps' \in Nat
    BY AuditTypeStep DEF Audit!TypeOK
  <2>2. LastRecord \in Nat /\ LastRecord' \in Nat /\ LastRecord <= LastRecord' /\ mishaps <= mishaps'
    BY TrailSteps, LastRecordType
  <2>3. \A a, b, c, d \in Nat : a <= b /\ c <= d => a + c \in Nat /\ b + d \in Nat /\ a + c <= b + d
    OBVIOUS
  <2>4. m \in Nat /\ n \in Nat /\ m <= n
    BY <2>1, <2>2, <2>3
  <2> QED BY <2>1, <2>2, <2>4, TrailStarts DEF TrailIsLined
<1>1. record' <= MaxRecords /\ mishaps' <= MaxMishaps /\ (stage' # "none" => record' > 0)
  BY TrailSteps
<1>2. Lined(trail', LastRecord', n)
  <2>1. CASE trail' = trail
    BY <1>0, <2>1, LinedMore
  <2>2. CASE trail' = Append(trail, Fragment) /\ LastRecord < LastRecord' /\ mishaps' \in {mishaps, mishaps + 1}
    <3>1. \A a, b, c, d \in Nat : a < b /\ c <= d => a + c < b + d
      OBVIOUS
    <3>2. mishaps <= mishaps'
      BY TrailSteps
    <3>3. m < n
      BY <1>0, <2>2, <3>1, <3>2
    <3>4. Fragment \in Nat /\ Fragment <= LastRecord'
      BY <1>0 DEF Fragment
    <3> HIDE DEF m, n
    <3>5. Lined(Append(trail, Fragment), LastRecord', n)
      BY <1>0, <3>3, <3>4, LinedAppended
    <3> QED BY <2>2, <3>5
  <2>3. CASE trail' = Append(trail, record) /\ LastRecord < record /\ record = LastRecord' /\ mishaps' = mishaps
    <3>1. \A a, b, c \in Nat : a < b => a + c < b + c
      OBVIOUS
    <3>2. m < n /\ record \in Nat /\ record <= LastRecord'
      <4>1. LastRecord < LastRecord' /\ record \in Nat /\ record <= LastRecord'
        BY <1>0, <2>3
      <4>2. LastRecord + mishaps < LastRecord' + mishaps
        BY <1>0, <3>1, <4>1
      <4> QED BY <2>3, <4>1, <4>2
    <3> HIDE DEF m, n
    <3>3. Lined(Append(trail, record), LastRecord', n)
      BY <1>0, <2>3, <3>2, LinedAppended
    <3> QED BY <2>3, <3>3
  <2>4. CASE Audit!Crash
    <3>1. trail' \in {trail, synced, Append(synced, Fragment)} /\ mishaps' = mishaps + 1
      BY <2>4, CrashLeaves
    <3>2. m < n
      <4>1. \A a, b, c \in Nat : a <= b => a + c < b + (c + 1)
        OBVIOUS
      <4> QED BY <1>0, <3>1, <4>1
    <3>3. Fragment \in Nat /\ Fragment <= LastRecord'
      BY <1>0 DEF Fragment
    <3> HIDE DEF m, n
    <3>4. Lined(synced, LastRecord, m)
      BY <1>0, LinedAtStart
    <3>5. Lined(Append(synced, Fragment), LastRecord', n)
      BY <1>0, <3>2, <3>3, <3>4, LinedAppended
    <3>6. Lined(synced, LastRecord', n) /\ Lined(trail, LastRecord', n)
      BY <1>0, <3>4, LinedMore
    <3> QED BY <3>1, <3>5, <3>6
  <2> QED BY <2>1, <2>2, <2>3, <2>4, TrailSteps
<1> QED BY <1>1, <1>2 DEF TrailIsLined

LEMMA RecordsKeptStep == Audit!TypeOK /\ TrailIsLined /\ RecordsAreKept /\ AuditStep => RecordsAreKept'
<1> SUFFICES ASSUME Audit!TypeOK, TrailIsLined, RecordsAreKept, AuditStep PROVE RecordsAreKept'
  OBVIOUS
<1> USE DEF Audit!recorder, Audit!pagers, Audit!Mishap, Audit!Turn
<1>0. /\ trail \in Seq(Nat) /\ synced \in Seq(Nat) /\ Starts(synced, trail) /\ record \in Nat
      /\ Lines(synced) \subseteq Lines(trail) /\ kept \subseteq Lines(synced)
      /\ (stage = "sync" => record \in Lines(trail))
  <2>1. Lines(synced) \subseteq Lines(trail)
    BY TrailStarts, LinesAtStart
  <2> QED BY <2>1, TrailStarts DEF Audit!TypeOK, RecordsAreKept
<1>1. CASE Audit!Record
  <2>1. stage' # "sync" /\ synced' = synced /\ kept' = kept
    BY <1>1 DEF Audit!Record
  <2> QED BY <1>0, <2>1 DEF RecordsAreKept
<1>2. CASE Audit!WriteLine
  <2>1. synced' = synced /\ kept' = kept /\ record' = record
    BY <1>2 DEF Audit!WriteLine
  <2>2. CASE stage' = "sync"
    <3>1. trail' = Append(trail, record) /\ record > 0
      BY <1>2, <2>2 DEF Audit!WriteLine, TrailIsLined
    <3>2. record' \in Lines(trail')
      BY <1>0, <2>1, <3>1, LineAdded DEF Fragment
    <3> QED BY <1>0, <2>1, <3>2 DEF RecordsAreKept
  <2>3. CASE stage' # "sync"
    BY <1>0, <2>1, <2>3 DEF RecordsAreKept
  <2> QED BY <2>2, <2>3
<1>3. CASE Audit!SyncLine
  <2>1. stage' = "none" /\ trail' = trail /\ record' = record
    BY <1>3 DEF Audit!SyncLine
  <2>2. \/ synced' = synced /\ kept' = kept
        \/ synced' = trail /\ kept' = IF stage = "sync" THEN kept \cup {record} ELSE kept
    BY <1>3 DEF Audit!SyncLine
  <2>3. kept' \subseteq Lines(synced')
    BY <1>0, <2>2
  <2> QED BY <2>1, <2>3 DEF RecordsAreKept
<1>4. CASE Audit!WriteBack
  <2>1. synced' = trail /\ UNCHANGED <<trail, stage, record, kept>>
    BY <1>4 DEF Audit!WriteBack
  <2> QED BY <1>0, <2>1 DEF RecordsAreKept
<1>5. CASE Audit!Crash
  <2>1. /\ trail' \in {trail, synced, Append(synced, Fragment)} /\ synced' = trail' /\ stage' = "none"
        /\ kept' = kept
    BY <1>5, CrashLeaves
  <2>2. Starts(synced, synced) /\ Starts(synced, Append(synced, Fragment)) /\ Append(synced, Fragment) \in Seq(Nat)
    BY <1>0, StartsAppended DEF Fragment
  <2>3. Lines(synced) \subseteq Lines(Append(synced, Fragment))
    BY <1>0, <2>2, LinesAtStart
  <2>4. kept' \subseteq Lines(synced')
    BY <1>0, <2>1, <2>3
  <2> QED BY <2>1, <2>4 DEF RecordsAreKept
<1>6. CASE UNCHANGED <<trail, synced, stage, record, kept>>
  BY <1>6 DEF RecordsAreKept
<1> QED
  BY <1>1, <1>2, <1>3, <1>4, <1>5, <1>6
  DEF AuditStep, Audit!Next, Audit!OpenPage, Audit!ReadLine, Audit!GivePage, auditVars

-----------------------------------------------------------------------------
(* The pages of the trail.                                                  *)

LEMMA NoPageIsBeyond ==
  ASSUME Audit!TypeOK, TrailIsLined
  PROVE  Audit!NoPage \in Nat /\ Len(trail) < Audit!NoPage
<1>1. /\ Len(trail) <= LastRecord + mishaps /\ LastRecord <= record /\ record <= MaxRecords
      /\ mishaps <= MaxMishaps /\ LastRecord \in Nat /\ record \in Nat /\ mishaps \in Nat
      /\ Len(trail) \in Nat
  BY LastRecordType DEF TrailIsLined, Lined, Audit!TypeOK
<1>2. MaxRecords \in Nat /\ MaxMishaps \in Nat /\ Audit!NoPage = MaxRecords + MaxMishaps + 1
  BY ServicesAssumption DEF Audit!NoPage
<1> QED BY <1>1, <1>2

LEMMA FoundIsFinite ==
  ASSUME Audit!TypeOK, NEW p \in Pager
  PROVE  IsFiniteSet(Found(p)) /\ Found(p) \subseteq 1 .. Len(trail) /\ Cardinality(Found(p)) \in Nat
<1>1. trail \in Seq(Nat) /\ DOMAIN trail = 1 .. Len(trail) /\ Len(trail) \in Nat
  BY DEF Audit!TypeOK
<1>2. Found(p) \subseteq 1 .. Len(trail) /\ IsFiniteSet(1 .. Len(trail))
  BY <1>1, FS_Interval DEF Found
<1> QED BY <1>2, FS_Subset, FS_CardinalityType

\* What a query has found stays found in a file that grows.
LEMMA FoundStays ==
  ASSUME Audit!TypeOK, trail' \in Seq(Nat), Starts(trail, trail'), NEW p \in Pager,
         cursor'[p] = cursor[p], cursor[p] <= Len(trail)
  PROVE  Found(p)' = Found(p) /\ \A i \in Found(p) : trail'[i] = trail[i]
<1>1. /\ trail \in Seq(Nat) /\ DOMAIN trail = 1 .. Len(trail) /\ Len(trail) \in Nat /\ Len(trail') \in Nat
      /\ cursor[p] \in Nat /\ DOMAIN trail' = 1 .. Len(trail') /\ Len(trail) <= Len(trail')
  BY DEF Audit!TypeOK, Starts
<1>2. \A i \in DOMAIN trail : i \in DOMAIN trail' /\ trail[i] = trail'[i] /\ (Parses(trail, i) <=> Parses(trail', i))
  BY <1>1, ParsesAtStart
<1>3. \A i \in DOMAIN trail' : i <= cursor[p] => i \in DOMAIN trail
  BY <1>1
<1>4. \A i : i \in Found(p)' <=> i \in DOMAIN trail' /\ i <= cursor[p] /\ Parses(trail', i) /\ trail'[i] \in Wanted
  BY LogNames DEF Found, Audit!Matches
<1>5. \A i : i \in Found(p) <=> i \in DOMAIN trail /\ i <= cursor[p] /\ Parses(trail, i) /\ trail[i] \in Wanted
  BY LogNames DEF Found, Audit!Matches
<1> QED BY <1>2, <1>3, <1>4, <1>5

\* The next line is found or not.
LEMMA FoundNext ==
  ASSUME Audit!TypeOK, NEW p \in Pager, Audit!ReadLine(p)
  PROVE  LET n == cursor[p] + 1 IN
         /\ n \in DOMAIN trail /\ n \notin Found(p) /\ trail' = trail /\ cursor'[p] = n
         /\ Found(p)' = IF Audit!Matches(n) THEN Found(p) \cup {n} ELSE Found(p)
<1> DEFINE n == cursor[p] + 1
<1>1. /\ trail \in Seq(Nat) /\ DOMAIN trail = 1 .. Len(trail) /\ Len(trail) \in Nat
      /\ cursor[p] \in Nat /\ cursor[p] < Len(trail) /\ trail' = trail /\ cursor'[p] = n
  BY DEF Audit!TypeOK, Audit!ReadLine, Audit!Reads, Audit!recorder
<1>2. n \in DOMAIN trail /\ ~(n <= cursor[p]) /\ \A i \in DOMAIN trail : i <= n <=> i <= cursor[p] \/ i = n
  BY <1>1
<1>3. \A i : Audit!Matches(i)' <=> Audit!Matches(i)
  BY <1>1 DEF Audit!Matches, Audit!Parses
<1> HIDE DEF n
<1>4. \A i : i \in Found(p)' <=> i \in DOMAIN trail /\ (i <= cursor[p] \/ i = n) /\ Audit!Matches(i)
  BY <1>1, <1>2, <1>3 DEF Found
<1>5. Found(p)' = IF Audit!Matches(n) THEN Found(p) \cup {n} ELSE Found(p)
  BY <1>2, <1>4 DEF Found
<1> QED BY <1>1, <1>2, <1>5 DEF n, Found

LEMMA PagingStep ==
  ASSUME Audit!TypeOK, Audit!TypeOK', TrailIsLined, TrailIsLined', AuditStep, NEW p \in Pager, Paging(p)
  PROVE  Paging(p)'
<1> USE DEF Audit!recorder, Audit!pagers, Audit!Mishap, Audit!Turn
<1>0. /\ trail \in Seq(Nat) /\ trail' \in Seq(Nat) /\ Len(trail) \in Nat /\ Audit!NoPage \in Nat /\ Len(trail) < Audit!NoPage
      /\ Audit!NoPage' = Audit!NoPage /\ cursor[p] \in Nat
      /\ cursor \in [Pager -> Nat] /\ matched \in [Pager -> Nat] /\ page \in [Pager -> Seq(Nat)]
  <2>1. Audit!NoPage \in Nat /\ Len(trail) < Audit!NoPage
    BY NoPageIsBeyond
  <2>2. Audit!NoPage' = Audit!NoPage
    BY DEF Audit!NoPage
  <2>3. /\ trail \in Seq(Nat) /\ cursor \in [Pager -> Nat] /\ matched \in [Pager -> Nat] /\ page \in [Pager -> Seq(Nat)]
    BY DEF Audit!TypeOK
  <2>4. trail' \in Seq(Nat)
    BY DEF Audit!TypeOK
  <2> QED BY <2>1, <2>2, <2>3, <2>4
<1>a. ASSUME Starts(trail, trail'), cursor'[p] = cursor[p], matched'[p] = matched[p], page'[p] = page[p]
      PROVE  Paging(p)'
  <2>1. CASE cursor[p] = Audit!NoPage
    BY <1>0, <1>a, <2>1 DEF Paging
  <2>2. CASE cursor[p] # Audit!NoPage
    <3>1. cursor[p] <= Len(trail) /\ matched[p] = Cardinality(Found(p))
      BY <2>2 DEF Paging
    <3>2. Found(p)' = Found(p)
      BY <1>0, <1>a, <3>1, FoundStays
    <3>3. cursor[p] <= Len(trail')
      <4>1. Len(trail') \in Nat /\ Len(trail) <= Len(trail')
        BY <1>0, <1>a DEF Starts
      <4> QED BY <1>0, <3>1, <4>1
    <3> QED BY <1>0, <1>a, <2>2, <3>1, <3>2, <3>3 DEF Paging
  <2> QED BY <2>1, <2>2
<1>b. Starts(trail, trail)
  BY <1>0 DEF Starts
<1>1. CASE Audit!Crash
  <2>1. cursor' = [q \in Pager |-> Audit!NoPage] /\ matched' = [q \in Pager |-> 0] /\ page' = [q \in Pager |-> <<>>]
    BY <1>1, CrashLeaves
  <2> QED BY <1>0, <2>1 DEF Paging
<1>2. CASE Audit!WriteLine
  <2>1. /\ trail' \in {trail, Append(trail, record), Append(trail, Fragment)}
        /\ UNCHANGED <<cursor, matched, page>>
    BY <1>2, LogNames DEF Audit!WriteLine
  <2>2. Starts(trail, trail')
    <3>1. record \in Nat /\ Fragment \in Nat
      BY DEF Fragment, Audit!TypeOK
    <3> QED BY <1>0, <1>b, <2>1, <3>1, StartsAppended
  <2> QED BY <1>a, <2>1, <2>2
<1>3. CASE UNCHANGED <<trail, cursor, matched, page>>
  BY <1>3, <1>a, <1>b
<1>4. ASSUME NEW q \in Pager, Audit!OpenPage(q) PROVE Paging(p)'
  <2>1. cursor[q] = Audit!NoPage /\ cursor' = [cursor EXCEPT ![q] = 0] /\ UNCHANGED <<trail, matched, page>>
    BY <1>4 DEF Audit!OpenPage
  <2>2. CASE q = p
    <3>1. cursor'[p] = 0 /\ matched'[p] = 0
      BY <1>0, <2>1, <2>2 DEF Paging
    <3>2. DOMAIN trail' = 1 .. Len(trail')
      BY <1>0
    <3>3. Found(p)' = {}
      BY <3>1, <3>2 DEF Found
    <3>4. Cardinality({}) = 0
      BY FS_EmptySet
    <3>5. Cardinality(Found(p)') = 0
      BY <3>3, <3>4
    <3>6. 0 # Audit!NoPage' /\ Len(trail') \in Nat /\ 0 <= Len(trail')
      BY <1>0
    <3> QED BY <3>1, <3>5, <3>6 DEF Paging
  <2>3. CASE q # p
    BY <1>0, <1>a, <1>b, <2>1, <2>3
  <2> QED BY <2>2, <2>3
<1>5. ASSUME NEW q \in Pager, Audit!ReadLine(q) PROVE Paging(p)'
  <2>1. /\ trail' = trail /\ cursor' = [cursor EXCEPT ![q] = @ + 1]
        /\ IF Audit!Matches(cursor[q] + 1)
           THEN /\ matched' = [matched EXCEPT ![q] = @ + 1]
                /\ page' = page \/ page' = [page EXCEPT ![q] = Append(@, trail[cursor[q] + 1])]
           ELSE UNCHANGED <<matched, page>>
        /\ cursor[q] < Len(trail)
    BY <1>5 DEF Audit!ReadLine, Audit!Reads
  <2>2. CASE q = p
    <3> DEFINE n == cursor[p] + 1
    <3>1. /\ n \notin Found(p) /\ cursor'[p] = n
          /\ Found(p)' = IF Audit!Matches(n) THEN Found(p) \cup {n} ELSE Found(p)
      BY <1>5, <2>2, FoundNext
    <3>2. cursor[p] # Audit!NoPage /\ n # Audit!NoPage' /\ n <= Len(trail)
      BY <1>0, <2>1, <2>2
    <3>3. matched[p] = Cardinality(Found(p)) /\ IsFiniteSet(Found(p))
      BY <3>2, FoundIsFinite DEF Paging
    <3>4. matched'[p] = IF Audit!Matches(n) THEN matched[p] + 1 ELSE matched[p]
      BY <1>0, <2>1, <2>2
    <3> HIDE DEF n
    <3>5. matched'[p] = Cardinality(Found(p)')
      <4>1. CASE Audit!Matches(n)
        <5>1. Cardinality(Found(p) \cup {n}) = Cardinality(Found(p)) + 1
          BY <3>1, <3>3, FS_AddElement
        <5> QED BY <3>1, <3>3, <3>4, <4>1, <5>1
      <4>2. CASE ~Audit!Matches(n)
        BY <3>1, <3>3, <3>4, <4>2
      <4> QED BY <4>1, <4>2
    <3> QED BY <2>1, <3>1, <3>2, <3>5 DEF Paging
  <2>3. CASE q # p
    <3>1. cursor'[p] = cursor[p] /\ matched'[p] = matched[p] /\ page'[p] = page[p]
      BY <1>0, <2>1, <2>3
    <3> QED BY <1>a, <1>b, <2>1, <3>1
  <2> QED BY <2>2, <2>3
<1>6. ASSUME NEW q \in Pager, Audit!GivePage(q) PROVE Paging(p)'
  <2>1. /\ cursor' = [cursor EXCEPT ![q] = Audit!NoPage] /\ matched' = [matched EXCEPT ![q] = 0]
        /\ page' = [page EXCEPT ![q] = <<>>] /\ trail' = trail
    BY <1>6 DEF Audit!GivePage
  <2>2. CASE q = p
    BY <1>0, <2>1, <2>2 DEF Paging
  <2>3. CASE q # p
    BY <1>0, <1>a, <1>b, <2>1, <2>3
  <2> QED BY <2>2, <2>3
<1> QED
  BY <1>1, <1>2, <1>3, <1>4, <1>5, <1>6
  DEF AuditStep, Audit!Next, Audit!Record, Audit!SyncLine, Audit!WriteBack, auditVars

\* The range of a sequence by its other name.
LEMMA RangeNames == \A s : Audit!Range(s) = Range(s) /\ Alerts!Range(s) = Range(s)
BY DEF Audit!Range, Alerts!Range, Range

LEMMA RangeAppended ==
  ASSUME NEW s \in Seq(Nat), NEW x \in Nat
  PROVE  Audit!Range(Append(s, x)) = Audit!Range(s) \cup {x}
<1>1. /\ DOMAIN Append(s, x) = 1 .. Len(s) + 1 /\ DOMAIN s = 1 .. Len(s) /\ Len(s) \in Nat
      /\ Append(s, x)[Len(s) + 1] = x /\ \A i \in 1 .. Len(s) : Append(s, x)[i] = s[i]
  BY Appended
<1> DEFINE g == Append(s, x)
<1> HIDE DEF g
<1>2. \A i : i \in 1 .. Len(s) + 1 <=> i \in 1 .. Len(s) \/ i = Len(s) + 1
  BY <1>1
<1>3. \A y : (\E i \in DOMAIN g : g[i] = y) <=> (\E i \in DOMAIN s : s[i] = y) \/ y = x
  BY <1>1, <1>2 DEF g
<1>4. Audit!Range(g) = Audit!Range(s) \cup {x}
  BY <1>3 DEF Audit!Range
<1> QED BY <1>4 DEF g

LEMMA RangeJoined ==
  ASSUME NEW s \in Seq(Nat), NEW t \in Seq(Nat)
  PROVE  Audit!Range(s \o t) = Audit!Range(s) \cup Audit!Range(t)
BY RangeConcatenation, RangeNames

Ascending(s) == \A i, j \in DOMAIN s : i < j => s[i] < s[j]

\* There are as many numbers in a sequence that ascends as it is long.
LEMMA AscendingDiffer ==
  ASSUME NEW s \in Seq(Nat), Ascending(s)
  PROVE  /\ IsFiniteSet(Audit!Range(s)) /\ Cardinality(Audit!Range(s)) = Len(s)
         /\ Audit!Range(s) \subseteq Nat
<1>1. DOMAIN s = 1 .. Len(s) /\ Len(s) \in Nat /\ \A i \in DOMAIN s : s[i] \in Nat
  OBVIOUS
<1>2. s \in Surjection(1 .. Len(s), Audit!Range(s))
  BY <1>1 DEF Surjection, Audit!Range
<1>3. s \in Injection(1 .. Len(s), Audit!Range(s))
  <2>1. ASSUME NEW i \in 1 .. Len(s), NEW j \in 1 .. Len(s), s[i] = s[j] PROVE i = j
    <3>1. ~(i < j) /\ ~(j < i)
      BY <1>1, <2>1 DEF Ascending
    <3> QED BY <3>1
  <2>2. s \in [1 .. Len(s) -> Audit!Range(s)]
    BY <1>1 DEF Audit!Range
  <2> QED BY <1>1, <2>1, <2>2 DEF Injection, IsInjective
<1>4. IsFiniteSet(1 .. Len(s)) /\ Cardinality(1 .. Len(s)) = Len(s)
  <2>1. IsFiniteSet(1 .. Len(s)) /\ Cardinality(1 .. Len(s)) = IF 1 > Len(s) THEN 0 ELSE Len(s) - 1 + 1
    BY <1>1, FS_Interval
  <2> QED BY <1>1, <2>1
<1>5. IsFiniteSet(Audit!Range(s)) /\ Cardinality(Audit!Range(s)) = Len(s)
  BY <1>2, <1>3, <1>4, FS_Surjection
<1> QED BY <1>1, <1>5 DEF Audit!Range

LEMMA BeginsAppended ==
  ASSUME NEW s \in Seq(Nat), NEW x \in Nat, NEW found \in SUBSET Nat, Audit!Begins(s, found),
         x \in found, \A y \in Audit!Range(s) : y < x, \A z \in found : z < x => z \in Audit!Range(s)
  PROVE  Audit!Begins(Append(s, x), found)
<1> DEFINE g == Append(s, x)
<1>1. /\ DOMAIN g = 1 .. Len(s) + 1 /\ DOMAIN s = 1 .. Len(s) /\ Len(s) \in Nat
      /\ g[Len(s) + 1] = x /\ \A i \in 1 .. Len(s) : g[i] = s[i]
  BY Appended
<1>2. Audit!Range(g) = Audit!Range(s) \cup {x}
  BY RangeAppended
<1> HIDE DEF g
<1>3. ASSUME NEW i \in DOMAIN g, NEW j \in DOMAIN g, i < j PROVE g[i] < g[j]
  <2>1. i \in DOMAIN s /\ g[i] = s[i]
    BY <1>1, <1>3
  <2>2. CASE j = Len(s) + 1
    <3>1. g[i] \in Audit!Range(s)
      BY <2>1 DEF Audit!Range
    <3> QED BY <1>1, <2>2, <3>1
  <2>3. CASE j # Len(s) + 1
    <3>1. j \in DOMAIN s /\ g[j] = s[j]
      BY <1>1, <2>3
    <3> QED BY <1>3, <2>1, <3>1 DEF Audit!Begins
  <2> QED BY <2>2, <2>3
<1>4. Audit!Range(g) \subseteq found
  BY <1>2 DEF Audit!Begins
<1>5. ASSUME NEW z \in found, NEW y \in Audit!Range(g), z < y PROVE z \in Audit!Range(g)
  <2>1. CASE y = x
    BY <1>2, <1>5, <2>1
  <2>2. CASE y \in Audit!Range(s)
    BY <1>2, <1>5, <2>2 DEF Audit!Begins
  <2> QED BY <1>2, <2>1, <2>2
<1>6. Audit!Begins(g, found)
  BY <1>3, <1>4, <1>5 DEF Audit!Begins
<1> QED BY <1>6 DEF g

\* More is found, after what there was.
LEMMA BeginsGrown ==
  ASSUME NEW s, NEW found, NEW more, Audit!Begins(s, found), found \subseteq more,
         \A x \in more \ found : \A y \in found : ~(x < y)
  PROVE  Audit!Begins(s, more)
BY DEF Audit!Begins

\* Less is found, but nothing of the sequence is gone.
LEMMA BeginsCut ==
  ASSUME NEW s, NEW found, NEW less, Audit!Begins(s, found), less \subseteq found,
         Audit!Range(s) \subseteq less
  PROVE  Audit!Begins(s, less)
BY DEF Audit!Begins

-----------------------------------------------------------------------------
Seen == Entries(trail) \cap Wanted

LEMMA SeenLines ==
  ASSUME Audit!TypeOK, TrailIsLined
  PROVE  /\ Seen \subseteq Nat
         /\ \A x : x \in Seen <=> \E i \in DOMAIN trail : Audit!Matches(i) /\ trail[i] = x
         /\ \A i, j \in DOMAIN trail : Audit!Matches(i) /\ Audit!Matches(j) /\ i < j => trail[i] < trail[j]
         /\ \A i, j \in DOMAIN trail : Audit!Matches(i) /\ trail[i] = trail[j] => i = j
<1>1. trail \in Seq(Nat) /\ InOrder(trail) /\ \A i \in DOMAIN trail : trail[i] \in Nat
  BY DEF Audit!TypeOK, TrailIsLined, Lined
<1>2. Seen \subseteq Nat
  BY <1>1, EntriesAreNumbers DEF Seen
<1>3. \A x : x \in Seen <=> \E i \in DOMAIN trail : Audit!Matches(i) /\ trail[i] = x
  BY LogNames DEF Seen, Entries, Audit!Matches
<1>4. \A i \in DOMAIN trail : Audit!Matches(i) => trail[i] # Fragment
  BY LogNames DEF Audit!Matches, Parses
<1>5. \A i, j \in DOMAIN trail : Audit!Matches(i) /\ Audit!Matches(j) /\ i < j => trail[i] < trail[j]
  BY <1>1, <1>4 DEF InOrder
<1>6. \A i, j \in DOMAIN trail : Audit!Matches(i) /\ trail[i] = trail[j] => i = j
  BY <1>1, <1>4, LinesDiffer
<1> QED BY <1>2, <1>3, <1>5, <1>6

\* The records that a query has found are as many as the lines.
Had(p) == {trail[i] : i \in Found(p)}

LEMMA HadIsCounted ==
  ASSUME Audit!TypeOK, TrailIsLined, NEW p \in Pager
  PROVE  IsFiniteSet(Had(p)) /\ Cardinality(Had(p)) = Cardinality(Found(p)) /\ Had(p) \subseteq Seen
<1> DEFINE f == [i \in Found(p) |-> trail[i]]
<1>1. IsFiniteSet(Found(p)) /\ \A i \in Found(p) : i \in DOMAIN trail /\ Audit!Matches(i)
  BY FoundIsFinite DEF Found
<1>2. f \in Surjection(Found(p), Had(p))
  BY DEF Surjection, Had
<1>3. f \in Injection(Found(p), Had(p))
  <2>1. ASSUME NEW i \in Found(p), NEW j \in Found(p), f[i] = f[j] PROVE i = j
    BY <1>1, <2>1, SeenLines
  <2>2. f \in [Found(p) -> Had(p)]
    BY DEF Had
  <2> QED BY <2>1, <2>2 DEF Injection, IsInjective
<1> HIDE DEF f
<1>4. IsFiniteSet(Had(p)) /\ Cardinality(Had(p)) = Cardinality(Found(p))
  BY <1>1, <1>2, <1>3, FS_Surjection
<1>5. Had(p) \subseteq Seen
  BY <1>1, SeenLines DEF Had
<1> QED BY <1>4, <1>5

\* PagesJoin, in terms of what was had.
LEMMA PagesJoinSays ==
  ASSUME NEW p \in Pager
  PROVE  PagesJoin(p) <=>
            /\ Audit!Begins(pages[p], Seen)
            /\ Audit!Begins(pages[p] \o page[p], Seen)
            /\ cursor[p] # Audit!NoPage =>
                  /\ Audit!Range(page[p]) \subseteq Had(p)
                  /\ page[p] # <<>> => Audit!Range(pages[p]) \subseteq Had(p)
                  /\ Len(page[p]) < PageSize => Had(p) \subseteq Audit!Range(pages[p] \o page[p])
<1>1. \A S : S \subseteq Had(p) <=> \A x \in S : \E i \in Found(p) : trail[i] = x
  BY DEF Had
<1>2. \A S : Had(p) \subseteq S <=> \A i \in Found(p) : trail[i] \in S
  BY DEF Had
<1> QED BY <1>1, <1>2, LogNames DEF PagesJoin, Seen

LEMMA JoinedAppended ==
  ASSUME NEW s \in Seq(Nat), NEW t \in Seq(Nat), NEW x \in Nat
  PROVE  s \o Append(t, x) = Append(s \o t, x)
<1>1. s \o Append(t, x) \in Seq(Nat) /\ Append(s \o t, x) \in Seq(Nat)
  OBVIOUS
<1>2. /\ Len(s \o Append(t, x)) = Len(s) + Len(t) + 1 /\ Len(Append(s \o t, x)) = Len(s) + Len(t) + 1
  OBVIOUS
<1>3. \A i \in 1 .. Len(s) + Len(t) + 1 : (s \o Append(t, x))[i] = Append(s \o t, x)[i]
  OBVIOUS
<1> QED BY <1>1, <1>2, <1>3, SeqEqual

LEMMA JoinedNext ==
  ASSUME Audit!TypeOK, TrailIsLined, NEW p \in Pager, Paging(p), PagesJoin(p), Audit!ReadLine(p)
  PROVE  PagesJoin(p)'
<1> DEFINE n == cursor[p] + 1
           x == trail[n]
           P == pages[p]
           Q == page[p]
<1>0. /\ trail \in Seq(Nat) /\ DOMAIN trail = 1 .. Len(trail) /\ Len(trail) \in Nat /\ cursor[p] \in Nat
      /\ matched[p] \in Nat /\ P \in Seq(Nat) /\ Q \in Seq(Nat) /\ P \o Q \in Seq(Nat)
      /\ page \in [Pager -> Seq(Nat)] /\ cursor[p] < Len(trail) /\ Len(trail) < Audit!NoPage /\ Audit!NoPage \in Nat
  BY NoPageIsBeyond DEF Audit!TypeOK, Audit!ReadLine, Audit!Reads
<1>1. /\ n \in DOMAIN trail /\ n \notin Found(p) /\ trail' = trail /\ cursor'[p] = n /\ pages' = pages
      /\ Found(p)' = IF Audit!Matches(n) THEN Found(p) \cup {n} ELSE Found(p)
  BY FoundNext DEF Audit!ReadLine
<1>2. /\ page' = IF Audit!Matches(n) /\ Audit!OnPage(p) THEN [page EXCEPT ![p] = Append(Q, x)] ELSE page
  BY DEF Audit!ReadLine
<1>3. /\ x \in Nat /\ cursor[p] # Audit!NoPage
      /\ matched[p] = Cardinality(Found(p)) /\ \A i \in Found(p) : i \in DOMAIN trail /\ i < n /\ Audit!Matches(i)
  <2>1. x \in Nat
    BY <1>0, <1>1
  <2>2. cursor[p] # Audit!NoPage
    BY <1>0
  <2>3. \A i \in Found(p) : i \in DOMAIN trail /\ i <= cursor[p] /\ Audit!Matches(i)
    BY DEF Found
  <2>4. \A i \in DOMAIN trail : i <= cursor[p] => i < n
    BY <1>0
  <2> QED BY <2>1, <2>2, <2>3, <2>4 DEF Paging
<1>4. /\ Seen' = Seen /\ Had(p)' = IF Audit!Matches(n) THEN Had(p) \cup {x} ELSE Had(p)
  BY <1>1 DEF Seen, Entries, Parses, Had
<1> HIDE DEF n, x
<1>5. /\ Audit!Begins(P, Seen) /\ Audit!Begins(P \o Q, Seen)
      /\ Audit!Range(Q) \subseteq Had(p)
      /\ Q # <<>> => Audit!Range(P) \subseteq Had(p)
      /\ Len(Q) < PageSize => Had(p) \subseteq Audit!Range(P \o Q)
  BY <1>3, PagesJoinSays
<1>6. Audit!Range(P \o Q) = Audit!Range(P) \cup Audit!Range(Q)
  BY <1>0, RangeJoined
<1>7. ASSUME Audit!Begins(P \o page'[p], Seen), Audit!Range(page'[p]) \subseteq Had(p)',
             page'[p] # <<>> => Audit!Range(P) \subseteq Had(p)',
             Len(page'[p]) < PageSize => Had(p)' \subseteq Audit!Range(P \o page'[p])
      PROVE  PagesJoin(p)'
  <2>1. /\ Audit!Begins(pages[p], Seen)'
        /\ Audit!Begins(pages[p] \o page[p], Seen)'
        /\ (Audit!Range(page[p]) \subseteq Had(p))'
        /\ (page[p] # <<>> => Audit!Range(pages[p]) \subseteq Had(p))'
        /\ (Len(page[p]) < PageSize => Had(p) \subseteq Audit!Range(pages[p] \o page[p]))'
    BY <1>1, <1>4, <1>5, <1>7
  <2>2. /\ \A S : S \subseteq Had(p)' <=> \A y \in S : \E i \in Found(p)' : trail'[i] = y
        /\ \A S : Had(p)' \subseteq S <=> \A i \in Found(p)' : trail'[i] \in S
    BY DEF Had
  <2> QED BY <2>1, <2>2, LogNames DEF PagesJoin, Seen
<1>8. CASE ~Audit!Matches(n)
  <2>1. page' = page /\ Had(p)' = Had(p)
    BY <1>2, <1>4, <1>8
  <2> QED BY <1>5, <1>7, <2>1
<1>9. CASE Audit!Matches(n)
  <2>1. x \in Seen /\ Had(p)' = Had(p) \cup {x} /\ Had(p) \subseteq Seen /\ Seen \subseteq Nat
    BY <1>1, <1>4, <1>9, SeenLines, HadIsCounted DEF x
  <2>2. \A y \in Had(p) : y \in Nat /\ y < x
    BY <1>1, <1>3, <1>9, SeenLines DEF Had, x
  \* What is seen and was not had is this line or after it.
  <2>3. ASSUME NEW z \in Seen, z \notin Had(p) PROVE z = x \/ x < z
    <3>1. PICK i \in DOMAIN trail : Audit!Matches(i) /\ trail[i] = z
      BY SeenLines
    <3>2. i \notin Found(p)
      BY <2>3, <3>1 DEF Had
    <3>3. ~(i <= cursor[p])
      BY <3>1, <3>2 DEF Found
    <3>4. i = n \/ n < i
      BY <1>0, <3>1, <3>3 DEF n
    <3> QED BY <1>1, <1>9, <3>1, <3>4, SeenLines DEF x
  <2>4. /\ IsFiniteSet(Had(p)) /\ Cardinality(Had(p)) = matched[p] /\ IsFiniteSet(Audit!Range(P))
        /\ Cardinality(Audit!Range(P)) = Len(P) /\ Len(P) \in Nat
    <3>1. Ascending(P)
      BY <1>5 DEF Audit!Begins, Ascending
    <3> QED BY <1>0, <1>3, <3>1, AscendingDiffer, HadIsCounted
  <2>5. CASE Audit!OnPage(p)
    <3>1. matched[p] >= Len(P) /\ Len(Q) < PageSize /\ page'[p] = Append(Q, x)
      BY <1>0, <1>2, <1>9, <2>5 DEF Audit!OnPage
    <3>2. Audit!Range(P) \subseteq Had(p)
      <4>1. CASE Q # <<>>
        BY <1>5, <4>1
      <4>2. CASE Q = <<>>
        <5>1. P \o Q = P
          BY <1>0, <4>2
        <5>2. Had(p) \subseteq Audit!Range(P)
          BY <1>5, <3>1, <5>1
        <5>3. Cardinality(Had(p)) <= Cardinality(Audit!Range(P))
          BY <2>4, <5>2, FS_Subset
        <5>4. Cardinality(Had(p)) = Cardinality(Audit!Range(P))
          BY <1>0, <2>4, <3>1, <5>3
        <5> QED BY <2>4, <5>2, <5>4, FS_Subset
      <4> QED BY <4>1, <4>2
    <3>3. Audit!Begins(Append(P \o Q, x), Seen)
      <4>1. \A y \in Audit!Range(P \o Q) : y < x
        BY <1>5, <1>6, <2>2, <3>2
      <4>2. ASSUME NEW z \in Seen, z < x PROVE z \in Audit!Range(P \o Q)
        <5>1. z \in Nat
          BY <2>1, <4>2
        <5>2. z \in Had(p)
          BY <1>3, <2>3, <4>2, <5>1
        <5> QED BY <1>5, <3>1, <5>2
      <4> QED BY <1>0, <1>3, <1>5, <2>1, <4>1, <4>2, BeginsAppended
    <3>4. P \o Append(Q, x) = Append(P \o Q, x)
      BY <1>0, <1>3, JoinedAppended
    <3>5. Audit!Range(Append(Q, x)) = Audit!Range(Q) \cup {x}
          /\ Audit!Range(Append(P \o Q, x)) = Audit!Range(P \o Q) \cup {x}
      BY <1>0, <1>3, RangeAppended
    <3>6. Audit!Range(page'[p]) \subseteq Had(p)' /\ Audit!Range(P) \subseteq Had(p)'
      BY <1>5, <2>1, <3>1, <3>2, <3>5
    <3>7. Had(p)' \subseteq Audit!Range(P \o page'[p])
      BY <1>5, <2>1, <3>1, <3>4, <3>5
    <3> QED BY <1>7, <3>1, <3>3, <3>4, <3>6, <3>7
  <2>6. CASE ~Audit!OnPage(p)
    <3>1. page'[p] = Q
      BY <1>2, <2>6
    <3>2. ASSUME Len(Q) < PageSize PROVE x \in Audit!Range(P \o Q)
      <4>1. matched[p] < Len(P)
        BY <1>0, <2>4, <2>6, <3>2 DEF Audit!OnPage
      <4>2. ~(Audit!Range(P) \subseteq Had(p))
        <5>1. Audit!Range(P) \subseteq Had(p) => Cardinality(Audit!Range(P)) <= Cardinality(Had(p))
          BY <2>4, FS_Subset
        <5> QED BY <1>0, <2>4, <4>1, <5>1
      <4>3. PICK y \in Audit!Range(P) : y \notin Had(p)
        BY <4>2
      <4>4. y \in Seen
        BY <1>5 DEF Audit!Begins
      <4>5. y = x \/ x < y
        BY <2>3, <4>3, <4>4
      <4>6. x \in Audit!Range(P)
        BY <1>5, <2>1, <4>3, <4>5 DEF Audit!Begins
      <4> QED BY <1>6, <4>6
    <3>3. Len(Q) < PageSize => Had(p)' \subseteq Audit!Range(P \o Q)
      BY <1>5, <2>1, <3>2
    <3> QED BY <1>5, <1>7, <2>1, <3>1, <3>3
  <2> QED BY <2>5, <2>6
<1> QED BY <1>8, <1>9

\* What is seen goes on at its end when the file does.
LEMMA SeenGrows ==
  ASSUME Audit!TypeOK, TrailIsLined, NEW x \in Nat, trail' = Append(trail, x), x = Fragment \/ x > LastRecord,
         NEW s, Audit!Begins(s, Seen)
  PROVE  Audit!Begins(s, Seen')
<1>0. /\ trail \in Seq(Nat) /\ DOMAIN trail = 1 .. Len(trail) /\ Len(trail) \in Nat /\ LastRecord \in Nat
      /\ \A i \in DOMAIN trail : trail[i] \in Nat /\ trail[i] <= LastRecord
  BY LastRecordType DEF Audit!TypeOK, TrailIsLined, Lined
<1>1. /\ DOMAIN trail' = 1 .. Len(trail) + 1 /\ trail'[Len(trail) + 1] = x
      /\ \A i \in 1 .. Len(trail) : trail'[i] = trail[i] /\ (Parses(trail', i) <=> Parses(trail, i))
      /\ Parses(trail', Len(trail) + 1) => x # Fragment
  BY <1>0, Appended, ParsesAppended
<1>2. Seen \subseteq Seen'
  BY <1>0, EntriesAppended DEF Seen
<1>3. ASSUME NEW y \in Seen' \ Seen PROVE y > LastRecord
  <2>1. PICK i \in DOMAIN trail' : Parses(trail', i) /\ trail'[i] = y /\ y \in Wanted
    BY <1>3 DEF Seen, Entries
  <2>2. ~(i \in 1 .. Len(trail))
    BY <1>0, <1>1, <1>3, <2>1 DEF Seen, Entries
  <2>3. i = Len(trail) + 1
    BY <1>0, <1>1, <2>1, <2>2
  <2> QED BY <1>1, <2>1, <2>3
<1>4. \A y \in Seen : y \in Nat /\ y <= LastRecord
  BY <1>0 DEF Seen, Entries
<1>5. \A y \in Seen' \ Seen : \A z \in Seen : ~(y < z)
  <2>1. ASSUME NEW y \in Seen' \ Seen, NEW z \in Seen PROVE ~(y < z)
    <3>1. y \in Nat
      <4>1. y \in Entries(trail') /\ trail' \in Seq(Nat)
        BY <1>0, <2>1 DEF Seen
      <4> QED BY <4>1, EntriesAreNumbers
    <3> QED BY <1>0, <1>3, <1>4, <2>1, <3>1
  <2> QED BY <2>1
<1> QED BY <1>2, <1>5, BeginsGrown

LEMMA PagesJoinStep ==
  ASSUME Audit!TypeOK, Audit!TypeOK', TrailIsLined, AuditStep, NEW p \in Pager, Paging(p),
         p \notin misled', PagesJoin(p)
  PROVE  PagesJoin(p)'
<1> USE DEF Audit!recorder, Audit!pagers, Audit!Mishap, Audit!Turn
<1>0. /\ trail \in Seq(Nat) /\ trail' \in Seq(Nat) /\ synced \in Seq(Nat) /\ Starts(synced, trail)
      /\ cursor \in [Pager -> Nat] /\ page \in [Pager -> Seq(Nat)] /\ pages \in [Pager -> Seq(Nat)]
      /\ pages[p] \in Seq(Nat) /\ page[p] \in Seq(Nat) /\ cursor[p] \in Nat
      /\ Audit!NoPage \in Nat /\ Audit!NoPage' = Audit!NoPage
  BY TrailStarts, NoPageIsBeyond DEF Audit!TypeOK, Audit!NoPage
<1>a. /\ Audit!Begins(pages[p], Seen) /\ Audit!Begins(pages[p] \o page[p], Seen)
      /\ cursor[p] # Audit!NoPage =>
            /\ Audit!Range(page[p]) \subseteq Had(p)
            /\ page[p] # <<>> => Audit!Range(pages[p]) \subseteq Had(p)
            /\ Len(page[p]) < PageSize => Had(p) \subseteq Audit!Range(pages[p] \o page[p])
  BY PagesJoinSays
<1>b. ASSUME Audit!Begins(pages'[p], Seen'), Audit!Begins(pages'[p] \o page'[p], Seen'),
             cursor'[p] # Audit!NoPage =>
                /\ Audit!Range(page'[p]) \subseteq Had(p)'
                /\ page'[p] # <<>> => Audit!Range(pages'[p]) \subseteq Had(p)'
                /\ Len(page'[p]) < PageSize => Had(p)' \subseteq Audit!Range(pages'[p] \o page'[p])
      PROVE  PagesJoin(p)'
  <2>1. /\ \A S : S \subseteq Had(p)' <=> \A y \in S : \E i \in Found(p)' : trail'[i] = y
        /\ \A S : Had(p)' \subseteq S <=> \A i \in Found(p)' : trail'[i] \in S
    BY DEF Had
  <2>2. Seen' = Audit!Entries(trail') \cap Wanted
    BY LogNames DEF Seen
  <2>3. Audit!Begins(pages'[p], Audit!Entries(trail') \cap Wanted)
        /\ Audit!Begins(pages'[p] \o page'[p], Audit!Entries(trail') \cap Wanted)
    BY <1>b, <2>2
  <2>4. cursor'[p] # Audit!NoPage' =>
          /\ \A x \in Audit!Range(page'[p]) : \E i \in Found(p)' : trail'[i] = x
          /\ page'[p] # <<>> => \A x \in Audit!Range(pages'[p]) : \E i \in Found(p)' : trail'[i] = x
          /\ Len(page'[p]) < PageSize =>
                \A i \in Found(p)' : trail'[i] \in Audit!Range(pages'[p] \o page'[p])
    BY <1>0, <1>b, <2>1
  <2> QED BY <2>3, <2>4, LogNames DEF PagesJoin
<1>c. ASSUME trail' = trail, cursor'[p] = cursor[p], page'[p] = page[p], pages'[p] = pages[p]
      PROVE  PagesJoin(p)'
  <2>1. Seen' = Seen /\ Had(p)' = Had(p)
    BY <1>c DEF Seen, Had, Found, Audit!Matches, Audit!Parses
  <2> QED BY <1>a, <1>b, <1>c, <2>1
<1>1. CASE Audit!Crash
  <2>1. /\ trail' \in {trail, synced, Append(synced, Fragment)} /\ pages' = pages
        /\ cursor' = [q \in Pager |-> Audit!NoPage] /\ page' = [q \in Pager |-> <<>>]
        /\ misled' = misled \cup {q \in Pager : ~(Audit!Range(pages[q]) \subseteq Audit!Range(trail'))}
    BY <1>1, CrashLeaves
  <2>2. cursor'[p] = Audit!NoPage /\ page'[p] = <<>> /\ pages[p] \o <<>> = pages[p]
    BY <1>0, <2>1
  <2>3. Audit!Range(pages[p]) \subseteq Audit!Range(trail')
    BY <2>1
  <2>4. Audit!Begins(pages[p], Seen')
    <3>1. CASE trail' = trail
      BY <1>a, <3>1 DEF Seen
    <3>2. CASE trail' \in {synced, Append(synced, Fragment)}
      \* What is left are the lines before the end, as they were.
      <4>1. \A i \in DOMAIN trail' : i \in DOMAIN synced \/ trail'[i] = Fragment
        <5>1. CASE trail' = synced
          BY <5>1
        <5>2. CASE trail' = Append(synced, Fragment)
          <6>1. /\ DOMAIN trail' = 1 .. Len(synced) + 1 /\ DOMAIN synced = 1 .. Len(synced)
                /\ trail'[Len(synced) + 1] = Fragment /\ Len(synced) \in Nat
            BY <1>0, <5>2, Appended DEF Fragment
          <6>2. \A i \in 1 .. Len(synced) + 1 : i \in 1 .. Len(synced) \/ i = Len(synced) + 1
            BY <6>1
          <6> QED BY <6>1, <6>2
        <5> QED BY <3>2, <5>1, <5>2
      <4>2. Starts(synced, trail')
        BY <1>0, <3>2, StartsAppended DEF Fragment
      <4>3. \A i \in DOMAIN synced :
               /\ i \in DOMAIN trail' /\ trail'[i] = synced[i] /\ (Parses(trail', i) <=> Parses(synced, i))
               /\ i \in DOMAIN trail /\ trail[i] = synced[i] /\ (Parses(trail, i) <=> Parses(synced, i))
        BY <1>0, <4>2, ParsesAtStart
      <4>4. Seen' \subseteq Seen
        <5>1. ASSUME NEW y \in Seen' PROVE y \in Seen
          <6>1. PICK i \in DOMAIN trail' : Parses(trail', i) /\ trail'[i] = y /\ y \in Wanted
            BY <5>1 DEF Seen, Entries
          <6>2. i \in DOMAIN synced
            BY <4>1, <6>1 DEF Parses
          <6> QED BY <4>3, <6>1, <6>2 DEF Seen, Entries
        <5> QED BY <5>1
      <4>5. ASSUME NEW y \in Audit!Range(pages[p]) PROVE y \in Seen'
        <5>1. y \in Seen
          BY <1>a DEF Audit!Begins
        <5>2. PICK i \in DOMAIN trail : Parses(trail, i) /\ trail[i] = y /\ y \in Wanted
          BY <5>1 DEF Seen, Entries
        <5>3. PICK k \in DOMAIN trail' : trail'[k] = y
          BY <2>3 DEF Audit!Range
        <5>4. k \in DOMAIN synced
          BY <4>1, <5>2, <5>3 DEF Parses
        <5>5. k = i
          <6>1. k \in DOMAIN trail /\ trail[k] = trail[i] /\ trail[i] # Fragment /\ InOrder(trail)
            BY <4>3, <5>2, <5>3, <5>4 DEF TrailIsLined, Lined, Parses
          <6> QED BY <1>0, <6>1, LinesDiffer
        <5> QED BY <4>3, <5>2, <5>3, <5>4, <5>5 DEF Seen, Entries
      <4> QED BY <1>a, <4>4, <4>5, BeginsCut
    <3> QED BY <2>1, <3>1, <3>2
  <2> QED BY <1>b, <2>1, <2>2, <2>4
<1>2. CASE Audit!WriteLine
  <2>1. UNCHANGED <<cursor, page, pages>>
    BY <1>2 DEF Audit!WriteLine
  <2>2. CASE trail' = trail
    BY <1>c, <2>1, <2>2
  <2>3. ASSUME NEW x \in Nat, trail' = Append(trail, x), x = Fragment \/ x > LastRecord
        PROVE  PagesJoin(p)'
    <3>1. Audit!Begins(pages[p], Seen') /\ Audit!Begins(pages[p] \o page[p], Seen')
      BY <1>a, <2>3, SeenGrows
    <3>2. CASE cursor[p] = Audit!NoPage
      BY <1>b, <2>1, <3>1, <3>2
    <3>3. CASE cursor[p] # Audit!NoPage
      <4>1. cursor[p] <= Len(trail) /\ cursor'[p] = cursor[p] /\ Starts(trail, trail')
        <5>1. Starts(trail, trail)
          BY <1>0 DEF Starts
        <5> QED BY <1>0, <2>1, <2>3, <3>3, <5>1, StartsAppended DEF Paging
      <4>2. Had(p)' = Had(p)
        BY <1>0, <4>1, FoundStays DEF Had
      <4> QED BY <1>a, <1>b, <2>1, <3>1, <4>2
    <3> QED BY <3>2, <3>3
  <2>4. \/ trail' = trail \/ trail' = Append(trail, Fragment)
        \/ (trail' = Append(trail, record) /\ LastRecord < record)
    <3>1. trail' \in {trail, Append(trail, record), Append(trail, Fragment)} /\ stage = "write"
      BY <1>2, LogNames DEF Audit!WriteLine
    <3>2. record \in Nat /\ LastRecord = record - 1
      BY <3>1 DEF LastRecord, Audit!TypeOK
    <3>3. LastRecord < record
      BY <3>2
    <3> QED BY <3>1, <3>3
  <2>5. record \in Nat /\ Fragment \in Nat /\ LastRecord \in Nat
    BY LastRecordType DEF Audit!TypeOK, Fragment
  <2>6. CASE trail' = Append(trail, Fragment)
    BY <2>3, <2>5, <2>6
  <2>7. CASE trail' = Append(trail, record) /\ LastRecord < record
    <3>1. record > LastRecord
      BY <2>5, <2>7
    <3> QED BY <2>3, <2>5, <2>7, <3>1
  <2> QED BY <2>2, <2>4, <2>6, <2>7
<1>3. CASE UNCHANGED <<trail, cursor, page, pages>>
  BY <1>3, <1>c
<1>4. ASSUME NEW q \in Pager, Audit!OpenPage(q) PROVE PagesJoin(p)'
  <2>1. cursor[q] = Audit!NoPage /\ cursor' = [cursor EXCEPT ![q] = 0] /\ UNCHANGED <<trail, page, pages>>
    BY <1>4 DEF Audit!OpenPage
  <2>2. CASE q = p
    <3>1. cursor'[p] = 0 /\ page[p] = <<>> /\ DOMAIN trail' = 1 .. Len(trail')
      BY <1>0, <2>1, <2>2 DEF Paging
    <3>2. Had(p)' = {}
      BY <3>1 DEF Had, Found
    <3>3. Audit!Range(<<>>) = {}
      BY DEF Audit!Range
    <3>4. Seen' = Seen
      BY <2>1 DEF Seen
    <3> QED BY <1>a, <1>b, <2>1, <3>1, <3>2, <3>3, <3>4
  <2>3. CASE q # p
    BY <1>0, <1>c, <2>1, <2>3
  <2> QED BY <2>2, <2>3
<1>5. ASSUME NEW q \in Pager, Audit!ReadLine(q) PROVE PagesJoin(p)'
  <2>1. CASE q = p
    BY <1>5, <2>1, JoinedNext
  <2>2. CASE q # p
    <3>1. /\ UNCHANGED <<trail, pages>> /\ cursor' = [cursor EXCEPT ![q] = @ + 1]
          /\ page' = page \/ page' = [page EXCEPT ![q] = Append(@, trail[cursor[q] + 1])]
      BY <1>5 DEF Audit!ReadLine
    <3>2. cursor'[p] = cursor[p] /\ page'[p] = page[p]
      BY <1>0, <2>2, <3>1
    <3> QED BY <1>c, <3>1, <3>2
  <2> QED BY <2>1, <2>2
<1>6. ASSUME NEW q \in Pager, Audit!GivePage(q) PROVE PagesJoin(p)'
  <2>1. /\ pages' = [pages EXCEPT ![q] = pages[q] \o page[q]] /\ cursor' = [cursor EXCEPT ![q] = Audit!NoPage]
        /\ page' = [page EXCEPT ![q] = <<>>] /\ trail' = trail
    BY <1>6 DEF Audit!GivePage
  <2>2. CASE q = p
    <3>1. cursor'[p] = Audit!NoPage /\ page'[p] = <<>> /\ pages'[p] = pages[p] \o page[p]
      BY <1>0, <2>1, <2>2
    <3>2. (pages[p] \o page[p]) \o <<>> = pages[p] \o page[p] /\ Seen' = Seen
      BY <1>0, <2>1 DEF Seen
    <3> QED BY <1>a, <1>b, <3>1, <3>2
  <2>3. CASE q # p
    BY <1>0, <1>c, <2>1, <2>3
  <2> QED BY <2>2, <2>3
<1> QED
  BY <1>1, <1>2, <1>3, <1>4, <1>5, <1>6
  DEF AuditStep, Audit!Next, Audit!Record, Audit!SyncLine, Audit!WriteBack, auditVars

LEMMA AuditInvFirst == Audit!Init => AuditInv
<1> SUFFICES ASSUME Audit!Init PROVE AuditInv
  OBVIOUS
<1>0. /\ trail = <<>> /\ synced = <<>> /\ stage = "none" /\ record = 0
      /\ cursor = [p \in Pager |-> Audit!NoPage] /\ matched = [p \in Pager |-> 0]
      /\ page = [p \in Pager |-> <<>>] /\ pages = [p \in Pager |-> <<>>]
      /\ mishaps = 0 /\ kept = {} /\ misled = {}
  BY DEF Audit!Init
<1>1. <<>> \in Seq(Nat) /\ Audit!NoPage \in Nat /\ DOMAIN <<>> = {} /\ <<>> \o <<>> = <<>>
  BY ServicesAssumption DEF Audit!NoPage
<1>2. Audit!TypeOK
  <2>1. /\ cursor \in [Pager -> Nat] /\ matched \in [Pager -> Nat] /\ page \in [Pager -> Seq(Nat)]
        /\ pages \in [Pager -> Seq(Nat)]
    BY <1>0, <1>1
  <2>2. Audit!IsPrefix(<<>>, <<>>)
    <3>1. Starts(<<>>, <<>>)
      BY DEF Starts
    <3> QED BY <1>1, <3>1, Prefixes
  <2> QED BY <1>0, <1>1, <2>1, <2>2 DEF Audit!TypeOK
<1>3. TrailIsLined
  <2>1. LastRecord = 0
    BY <1>0 DEF LastRecord
  <2>2. LastRecord + mishaps = 0
    BY <1>0, <2>1
  <2>3. Lined(<<>>, 0, 0)
    BY LinedEmpty
  <2> QED BY <1>0, <2>1, <2>2, <2>3, ServicesAssumption DEF TrailIsLined
<1>4. RecordsAreKept
  BY <1>0 DEF RecordsAreKept
<1>5. ASSUME NEW p \in Pager PROVE Paging(p) /\ PagesJoin(p)
  <2>1. cursor[p] = Audit!NoPage /\ page[p] = <<>> /\ pages[p] = <<>> /\ matched[p] = 0
    BY <1>0
  <2>2. \A S : Audit!Begins(<<>>, S)
    BY <1>1 DEF Audit!Begins, Audit!Range
  <2> QED BY <1>1, <2>1, <2>2 DEF Paging, PagesJoin
<1> QED BY <1>2, <1>3, <1>4, <1>5 DEF AuditInv

LEMMA AuditInvStep == AuditInv /\ AuditStep => AuditInv'
<1> SUFFICES ASSUME AuditInv, AuditStep PROVE AuditInv'
  OBVIOUS
<1>1. Audit!TypeOK' /\ TrailIsLined' /\ RecordsAreKept'
  BY AuditTypeStep, TrailLinedStep, RecordsKeptStep DEF AuditInv
<1>2. ASSUME NEW p \in Pager PROVE Paging(p)'
  BY <1>1, PagingStep DEF AuditInv
<1>3. misled \subseteq misled'
  <2>1. CASE Audit!Crash
    BY <2>1 DEF Audit!Crash
  <2>2. CASE ~Audit!Crash
    BY <2>2 DEF AuditStep, Audit!Next, Audit!Record, Audit!WriteLine, Audit!SyncLine, Audit!OpenPage,
        Audit!ReadLine, Audit!GivePage, Audit!WriteBack, auditVars
  <2> QED BY <2>1, <2>2
<1>4. ASSUME NEW p \in Pager \ misled' PROVE PagesJoin(p)'
  BY <1>1, <1>3, <1>4, PagesJoinStep DEF AuditInv
<1> QED BY <1>1, <1>2, <1>4 DEF AuditInv

LEMMA AuditInvSays == AuditInv => AuditIsATrail
<1> SUFFICES ASSUME AuditInv PROVE AuditIsATrail
  OBVIOUS
<1>1. kept \subseteq Audit!Entries(trail) \cup Audit!Garbled(trail)
  <2>1. Lines(synced) \subseteq Lines(trail)
    BY TrailStarts, LinesAtStart DEF AuditInv
  <2> QED BY <2>1, LogNames DEF AuditInv, RecordsAreKept, Lines
<1>2. \A p \in Pager \ misled : Audit!Begins(pages[p], Audit!Entries(trail) \cap Wanted)
  BY LogNames DEF AuditInv, PagesJoin
<1> QED BY <1>1, <1>2 DEF AuditIsATrail, Audit!AuditIsATrail

-----------------------------------------------------------------------------
(* The alert manager: what its operators do.                               *)

AlertStep == [Alerts!Next]_alertVars

Answers == {"ok", "temporary", "permanent"}

LEMMA AlertNames ==
  /\ Alerts!Rule = Rule /\ Alerts!Health = Health /\ Alerts!NeverSeen = NeverSeen
  /\ Alerts!Healthy = Healthy /\ Alerts!Unreachable = Unreachable
  /\ \A s : Alerts!Newest(s) = Newest(s)
  /\ \A h, b : Alerts!Observed(h, b) = Observed(h, b)
BY DEF Alerts!Rule, Rule, Alerts!Health, Health, Alerts!NeverSeen, NeverSeen, Alerts!Healthy, Healthy,
       Alerts!Unreachable, Unreachable, Alerts!Newest, Newest, Alerts!Observed, Observed

\* The newest are the end of what there is.
LEMMA NewestFacts ==
  ASSUME NEW S, NEW s \in Seq(S)
  PROVE  \E k \in Nat :
            /\ k <= Len(s) /\ Newest(s) \in Seq(S) /\ Len(Newest(s)) = Len(s) - k
            /\ Len(Newest(s)) <= MaxHistory
            /\ \A i \in 1 .. Len(s) - k : Newest(s)[i] = s[i + k]
<1>0. MaxHistory \in Nat /\ MaxHistory > 0 /\ Len(s) \in Nat /\ \A i \in 1 .. Len(s) : s[i] \in S
  BY RetryAssumption
<1>1. CASE ~(Len(s) > MaxHistory)
  <2>1. Newest(s) = s
    BY <1>1 DEF Newest
  <2>2. \A i \in 1 .. Len(s) - 0 : Newest(s)[i] = s[i + 0]
    BY <1>0, <2>1
  <2> QED BY <1>0, <1>1, <2>1, <2>2
<1>2. CASE Len(s) > MaxHistory
  <2> DEFINE k == Len(s) - MaxHistory
             t == SubSeq(s, k + 1, Len(s))
  <2>1. k \in Nat /\ k <= Len(s) /\ Len(s) - k = MaxHistory /\ Len(s) - (k + 1) + 1 = MaxHistory
        /\ k + 1 <= Len(s) /\ k + 1 \in Int /\ Len(s) \in Int
    BY <1>0, <1>2
  <2>2. Newest(s) = t
    BY <1>2 DEF Newest
  <2> HIDE DEF k
  <2>3. /\ t \in Seq(S) /\ Len(t) = Len(s) - (k + 1) + 1
        /\ \A i \in 1 .. Len(s) - (k + 1) + 1 : t[i] = s[k + 1 + i - 1]
    <3>1. \A i \in (k + 1) .. Len(s) : s[i] \in S
      BY <1>0, <2>1
    <3>2. Len(t) = IF k + 1 <= Len(s) THEN Len(s) - (k + 1) + 1 ELSE 0
      BY <2>1, <3>1, SubSeqProperties
    <3> QED BY <2>1, <3>1, <3>2, SubSeqProperties
  <2> HIDE DEF t
  <2>4. \A i \in 1 .. Len(s) - k : t[i] = s[i + k]
    <3>1. \A i \in 1 .. Len(s) - k : i \in 1 .. Len(s) - (k + 1) + 1 /\ k + 1 + i - 1 = i + k
      BY <1>0, <2>1
    <3> QED BY <2>3, <3>1
  <2>5. Len(t) = Len(s) - k /\ Len(t) <= MaxHistory
    BY <1>0, <2>1, <2>3
  <2> QED BY <2>1, <2>2, <2>3, <2>4, <2>5
<1> QED BY <1>1, <1>2

-----------------------------------------------------------------------------
(* Whom an alert goes to.                                                  *)

\* A chain joins one sequence after the other.
Chain(f, s, m) == f[1] = s[1] /\ \A i \in 2 .. m : f[i] = f[i - 1] \o s[i]

LEMMA ChainsExist ==
  ASSUME NEW s, NEW m \in Nat, m > 0
  PROVE  \E f : f = [i \in 1 .. m |-> f[i]] /\ Chain(f, s, m)
<1> DEFINE P(n) == n > 0 => \E f : f = [i \in 1 .. n |-> f[i]] /\ Chain(f, s, n)
           K == {n \in Nat : P(n)}
<1>1. P(0)
  OBVIOUS
<1>2. ASSUME NEW n \in Nat, n < m, P(n) PROVE P(n + 1)
  <2>1. CASE n = 0
    <3> DEFINE f == [i \in 1 .. 1 |-> s[1]]
    <3>1. f = [i \in 1 .. 1 |-> f[i]] /\ Chain(f, s, 1)
      BY DEF Chain
    <3> HIDE DEF f
    <3> QED BY <2>1, <3>1
  <2>2. CASE n # 0
    <3>1. PICK f : f = [i \in 1 .. n |-> f[i]] /\ Chain(f, s, n)
      BY <1>2, <2>2
    <3> DEFINE e == f[n] \o s[n + 1]
               g == [i \in 1 .. n + 1 |-> IF i <= n THEN f[i] ELSE e]
    <3>2. g = [i \in 1 .. n + 1 |-> g[i]]
      OBVIOUS
    <3>3. g[1] = s[1]
      BY <2>2, <3>1 DEF Chain
    <3>4. ASSUME NEW i \in 2 .. n + 1 PROVE g[i] = g[i - 1] \o s[i]
      <4>1. CASE i <= n
        <5>1. i \in 2 .. n /\ g[i] = f[i] /\ g[i - 1] = f[i - 1]
          BY <4>1
        <5> QED BY <3>1, <5>1 DEF Chain
      <4>2. CASE ~(i <= n)
        <5>1. i = n + 1 /\ n \in 1 .. n + 1
          BY <2>2, <4>2
        <5>2. n + 1 \in 1 .. n + 1 /\ ~(n + 1 <= n) /\ n <= n /\ (n + 1) - 1 = n
          BY <5>1
        <5>3. g[n + 1] = e /\ g[n] = f[n]
          <6> HIDE DEF e
          <6> QED BY <5>1, <5>2
        <5>4. i - 1 = n
          BY <5>1
        <5> HIDE DEF g
        <5> QED BY <5>1, <5>3, <5>4, Zenon
      <4> QED BY <4>1, <4>2
    <3> HIDE DEF g
    <3>5. Chain(g, s, n + 1)
      BY <3>3, <3>4 DEF Chain
    <3> QED BY <3>2, <3>5
  <2> QED BY <2>1, <2>2
<1> HIDE DEF P
<1>3. m \in K
  <2>1. 0 \in K /\ \A n \in Nat : n < m /\ n \in K => n + 1 \in K
    BY <1>1, <1>2
  <2> HIDE DEF K
  <2> QED BY <2>1, UpTo
<1> QED BY <1>3 DEF P

LEMMA FlattenIn ==
  ASSUME NEW S, NEW s \in Seq(Seq(S))
  PROVE  Alerts!FlattenSeq(s) \in Seq(S)
<1> DEFINE Rec(f) == f = [i \in 1 .. Len(s) |-> IF i = 1 THEN s[i] ELSE f[i - 1] \o s[i]]
           f == CHOOSE h : Rec(h)
           K == {n \in Nat : n \in 1 .. Len(s) => f[n] \in Seq(S)}
<1>0. Len(s) \in Nat /\ \A i \in 1 .. Len(s) : s[i] \in Seq(S)
  OBVIOUS
<1>1. CASE Len(s) = 0
  <2>1. Alerts!FlattenSeq(s) = s
    BY <1>1 DEF Alerts!FlattenSeq
  <2>2. s \in Seq(S)
    BY <1>0, <1>1
  <2> QED BY <2>1, <2>2
<1>2. CASE Len(s) # 0
  <2>1. PICK g : g = [i \in 1 .. Len(s) |-> g[i]] /\ Chain(g, s, Len(s))
    <3>1. Len(s) > 0
      BY <1>0, <1>2
    <3> QED BY <1>0, <3>1, ChainsExist
  <2>2. \A i \in 1 .. Len(s) : g[i] = IF i = 1 THEN s[i] ELSE g[i - 1] \o s[i]
    <3>1. \A i \in 1 .. Len(s) : i = 1 \/ i \in 2 .. Len(s)
      BY <1>0
    <3> QED BY <2>1, <3>1 DEF Chain
  <2>3. Rec(g)
    BY <2>1, <2>2
  <2>4. Alerts!FlattenSeq(s) = f[Len(s)]
    BY <1>2 DEF Alerts!FlattenSeq
  <2>5. Rec(f)
    <3> HIDE DEF Rec
    <3> QED BY <2>3
  <2> HIDE DEF f
  <2>6. \A i \in 1 .. Len(s) : f[i] = IF i = 1 THEN s[i] ELSE f[i - 1] \o s[i]
    BY <2>5
  <2>7. ASSUME NEW n \in Nat, n \in K PROVE n + 1 \in K
    <3>1. SUFFICES ASSUME n + 1 \in 1 .. Len(s) PROVE f[n + 1] \in Seq(S)
      OBVIOUS
    <3>2. CASE n = 0
      <4>1. f[1] = s[1] /\ 1 \in 1 .. Len(s)
        BY <1>0, <2>6, <3>1, <3>2
      <4> QED BY <1>0, <3>2, <4>1
    <3>3. CASE n # 0
      <4>1. n \in 1 .. Len(s) /\ n + 1 # 1 /\ (n + 1) - 1 = n
        BY <1>0, <3>1, <3>3
      <4>2. f[n] \in Seq(S) /\ s[n + 1] \in Seq(S) /\ f[n + 1] = f[n] \o s[n + 1]
        BY <1>0, <2>6, <2>7, <3>1, <4>1
      <4> QED BY <4>2
    <3> QED BY <3>2, <3>3
  <2>8. Len(s) \in K
    <3>1. 0 \in K /\ \A n \in Nat : n < Len(s) /\ n \in K => n + 1 \in K
      BY <2>7
    <3> HIDE DEF K
    <3> QED BY <1>0, <3>1, UpTo
  <2> QED BY <1>0, <1>2, <2>4, <2>8
<1> QED BY <1>1, <1>2

\* Recipients are providers that were known.
Members(known) == {p \in Provider : \E j \in DOMAIN known : known[j] = p}

LEMMA CopiesIn ==
  ASSUME NEW p \in Provider, NEW known \in Seq(Provider)
  PROVE  Alerts!Copies(p, known) \in Seq(Members(known))
<1> DEFINE I == {i \in DOMAIN known : known[i] = p}
           c == Cardinality(I)
<1>1. Alerts!Copies(p, known) = [k \in 1 .. c |-> p]
  BY LogNames DEF Alerts!Copies
<1>2. DOMAIN known = 1 .. Len(known) /\ Len(known) \in Nat
  OBVIOUS
<1>3. IsFiniteSet(I)
  <2>1. IsFiniteSet(1 .. Len(known)) /\ I \subseteq 1 .. Len(known)
    BY <1>2, FS_Interval
  <2> HIDE DEF I
  <2> QED BY <2>1, FS_Subset
<1>4. c \in Nat
  BY <1>3, FS_CardinalityType
<1>5. CASE I = {}
  <2>1. c = 0
    <3>1. Cardinality({}) = 0
      BY FS_EmptySet
    <3> HIDE DEF I
    <3> QED BY <1>5, <3>1
  <2> HIDE DEF c
  <2>2. [k \in 1 .. c |-> p] = <<>>
    BY <2>1
  <2>3. <<>> \in Seq(Members(known))
    OBVIOUS
  <2> QED BY <1>1, <2>2, <2>3
<1>6. CASE I # {}
  <2>1. p \in Members(known)
    BY <1>6 DEF Members
  <2> HIDE DEF c
  <2> QED BY <1>1, <1>4, <2>1
<1> QED BY <1>5, <1>6

LEMMA RecipientsIn ==
  ASSUME NEW r \in Rule, NEW known \in Seq(Provider)
  PROVE  Alerts!Recipients(r, known) \in Seq(Members(known))
<1> DEFINE s == [i \in DOMAIN Targets[r] |-> Alerts!Copies(Targets[r][i], known)]
<1>1. Targets[r] \in Seq(Provider)
  BY RulesAssumption
<1>2. s \in Seq(Seq(Members(known)))
  <2>1. DOMAIN Targets[r] = 1 .. Len(Targets[r]) /\ Len(Targets[r]) \in Nat
        /\ \A i \in DOMAIN Targets[r] : Targets[r][i] \in Provider
    BY <1>1
  <2>2. \A i \in 1 .. Len(Targets[r]) : Alerts!Copies(Targets[r][i], known) \in Seq(Members(known))
    BY <2>1, CopiesIn
  <2> QED BY <2>1, <2>2
<1>3. Alerts!Recipients(r, known) = Alerts!FlattenSeq(s)
  BY DEF Alerts!Recipients
<1> HIDE DEF s
<1> QED BY <1>2, <1>3, FlattenIn

-----------------------------------------------------------------------------
(* The alert manager, step by step: what each variable may be.             *)

StateOK(st) ==
    /\ st \in Alerts!State
    /\ Len(st.providers) = Len(st.health) /\ Len(st.deliveries) <= MaxHistory

\* Where each dispatcher is and what it is at.
DispatchersOK ==
    /\ pc \in [Dispatcher -> {"idle", "rule", "attempt", "wait", "record"}]
    /\ cancelled \in [Dispatcher -> BOOLEAN]
    /\ copied \in [Dispatcher -> Seq(Provider)] /\ todo \in [Dispatcher -> SUBSET DOMAIN Rules]
    /\ rule \in [Dispatcher -> 0 .. Len(Rules)] /\ jobs \in [Dispatcher -> Seq(Provider)]
    /\ attempt \in [Dispatcher -> Nat] /\ tries \in [Dispatcher -> Nat]
    /\ success \in [Dispatcher -> BOOLEAN] /\ sends \in [Dispatcher -> Seq(Answers)]
    /\ \A d \in Dispatcher : pc[d] \in {"attempt", "wait", "record"} => jobs[d] # <<>>

OthersOK ==
    /\ cooldowns \in [Rule -> Nat] /\ alertNow \in Nat
    /\ dispatches \in Nat /\ events \in Nat
    /\ rounds \in [Rule -> Seq(Nat)] /\ silenced \subseteq Rule \X Nat
    /\ checked \subseteq Provider

LEMMA AlertsTyped ==
  Alerts!TypeOK <=> StateOK(Alerts!Memory) /\ StateOK(saved) /\ DispatchersOK /\ OthersOK
<1>1. \A S : (\A st \in {Alerts!Memory, saved} : st \in S) <=> Alerts!Memory \in S /\ saved \in S
  OBVIOUS
<1>2. (\A st \in {Alerts!Memory, saved} :
          /\ st \in Alerts!State
          /\ Len(st.providers) = Len(st.health) /\ Len(st.deliveries) <= MaxHistory)
      <=> StateOK(Alerts!Memory) /\ StateOK(saved)
  BY DEF StateOK
<1> QED BY <1>2, AlertNames DEF Alerts!TypeOK, DispatchersOK, OthersOK, Answers

LEMMA AlertsTypedNext ==
  Alerts!TypeOK' <=> StateOK(Alerts!Memory)' /\ StateOK(saved)' /\ DispatchersOK' /\ OthersOK'
<1>2. (\A st \in {Alerts!Memory', saved'} :
          /\ st \in Alerts!State
          /\ Len(st.providers) = Len(st.health) /\ Len(st.deliveries) <= MaxHistory)
      <=> StateOK(Alerts!Memory') /\ StateOK(saved')
  BY DEF StateOK
<1> QED BY <1>2, AlertNames DEF Alerts!TypeOK, DispatchersOK, OthersOK, Answers

LEMMA MemoryTyped ==
  ASSUME NEW ps, NEW hs, NEW ds
  PROVE  StateOK([providers |-> ps, health |-> hs, deliveries |-> ds]) <=>
            /\ ps \in Seq(Provider) /\ hs \in Seq(Health) /\ ds \in Seq(Alerts!Delivery)
            /\ Len(ps) = Len(hs) /\ Len(ds) <= MaxHistory
BY AlertNames DEF StateOK, Alerts!State

\* What a restart does.
Restarted ==
    /\ Alerts!Memory' = saved /\ saved' = saved
    /\ Alerts!Restart

\* What a step does to the providers and the history, in memory and in the file.
LEMMA MemoryMoves ==
  ASSUME Alerts!TypeOK, AlertStep
  PROVE  /\ saved' \in {saved, Alerts!Memory'} /\ checked \subseteq checked'
         /\ \/ UNCHANGED <<providers, health, deliveries, saved>>
            \/ Restarted
            \/ \E d \in Dispatcher : Alerts!Record(d)
            \/ \E p \in Provider : Alerts!AddProvider(p)
            \/ \E p \in Provider, status \in {Healthy, Unreachable}, good \in BOOLEAN :
                  Alerts!UpdateHealth(p, status, good)
<1> USE DEF Alerts!memory, Alerts!round, Alerts!retry, Alerts!bounds, Alerts!ghosts
<1>1. ASSUME Alerts!Restart PROVE Restarted /\ checked' = checked
  <2>1. saved \in Alerts!State
    BY AlertsTyped DEF StateOK
  <2>2. saved = [providers |-> saved.providers, health |-> saved.health, deliveries |-> saved.deliveries]
    BY <2>1 DEF Alerts!State
  <2>3. /\ providers' = saved.providers /\ health' = saved.health /\ deliveries' = saved.deliveries
        /\ saved' = saved /\ checked' = checked
    BY <1>1 DEF Alerts!Restart
  <2>4. Alerts!Memory' = saved
    BY <2>2, <2>3 DEF Alerts!Memory
  <2> QED BY <1>1, <2>3, <2>4 DEF Restarted
<1>2. ASSUME NEW n, Alerts!Save(n) PROVE saved' \in {saved, Alerts!Memory'}
  BY <1>2 DEF Alerts!Save
<1>3. ASSUME NEW d \in Dispatcher, Alerts!Step(d) \/ Alerts!Cancel(d) \/ \E e \in Alerts!EventType : Alerts!Dispatch(d, e)
      PROVE  /\ saved' \in {saved, Alerts!Memory'} /\ checked \subseteq checked'
             /\ UNCHANGED <<providers, health, deliveries, saved>> \/ Restarted \/ Alerts!Record(d)
  <2>1. CASE Alerts!Record(d)
    <3>1. Alerts!Save(0) /\ checked' = checked
      BY <2>1 DEF Alerts!Record
    <3> QED BY <1>2, <2>1, <3>1
  <2>2. CASE Alerts!Overflow(d)
    <3>1. Alerts!Restart
      BY <2>2 DEF Alerts!Overflow
    <3> QED BY <1>1, <3>1 DEF Restarted
  <2>3. ASSUME ~Alerts!Record(d), ~Alerts!Overflow(d)
        PROVE  UNCHANGED <<providers, health, deliveries, saved, checked>>
    BY <1>3, <2>3
    DEF Alerts!Step, Alerts!FireRule, Alerts!SkipRule, Alerts!Return, Alerts!Deliver, Alerts!GiveUp,
        Alerts!Send, Alerts!Again, Alerts!Cancel, Alerts!Dispatch
  <2> QED BY <2>1, <2>2, <2>3
<1>4. ASSUME NEW p \in Provider, Alerts!AddProvider(p)
      PROVE  saved' \in {saved, Alerts!Memory'} /\ checked' = checked
  <2>1. Alerts!Save(1) /\ checked' = checked
    BY <1>4 DEF Alerts!AddProvider
  <2> QED BY <1>2, <2>1
<1>5. ASSUME NEW p \in Provider, NEW status \in {Healthy, Unreachable}, NEW good \in BOOLEAN,
             Alerts!UpdateHealth(p, status, good)
      PROVE  saved' \in {saved, Alerts!Memory'} /\ checked \subseteq checked'
  <2>1. Alerts!Save(1) /\ checked \subseteq checked'
    BY <1>5 DEF Alerts!UpdateHealth
  <2> QED BY <1>2, <2>1
<1>6. CASE Alerts!Crash
  <2>1. Alerts!Restart
    BY <1>6 DEF Alerts!Crash
  <2> QED BY <1>1, <2>1 DEF Restarted
<1>7. CASE Alerts!Tick
  BY <1>7 DEF Alerts!Tick
<1>8. CASE UNCHANGED alertVars
  BY <1>8 DEF alertVars
<1>9. \/ \E d \in Dispatcher :
            Alerts!Step(d) \/ Alerts!Cancel(d) \/ \E e \in Alerts!EventType : Alerts!Dispatch(d, e)
      \/ \E p \in Provider : Alerts!AddProvider(p)
      \/ \E p \in Provider, status \in {Healthy, Unreachable}, good \in BOOLEAN :
            Alerts!UpdateHealth(p, status, good)
      \/ Alerts!Tick \/ Alerts!Crash \/ UNCHANGED alertVars
  BY AlertNames DEF AlertStep, Alerts!Next
<1>10. CASE \E d \in Dispatcher :
            Alerts!Step(d) \/ Alerts!Cancel(d) \/ \E e \in Alerts!EventType : Alerts!Dispatch(d, e)
  BY <1>3, <1>10
<1>11. CASE \E p \in Provider : Alerts!AddProvider(p)
  BY <1>4, <1>11
<1>12. CASE \E p \in Provider, status \in {Healthy, Unreachable}, good \in BOOLEAN :
            Alerts!UpdateHealth(p, status, good)
  BY <1>5, <1>12
<1> QED BY <1>6, <1>7, <1>8, <1>9, <1>10, <1>11, <1>12

\* What a dispatcher puts on record.
Outcome(d) ==
    [rule |-> Rules[rule[d]], provider |-> Head(jobs[d]), delivered |-> success[d],
     retries |-> tries[d] - 1, sends |-> sends[d]]

LEMMA Recorded ==
  ASSUME Alerts!TypeOK, NEW d \in Dispatcher, Trying(d), Alerts!Record(d)
  PROVE  /\ Head(jobs[d]) \in Provider /\ success[d] \in BOOLEAN /\ pc[d] = "record"
         /\ Outcome(d) \in Alerts!Delivery /\ jobs[d] # <<>> /\ jobs[d] \in Seq(Provider)
         /\ providers' = providers /\ checked' = checked /\ copied' = copied
         /\ health' = [i \in DOMAIN health |->
                         IF providers[i] = Head(jobs[d]) THEN Observed(health[i], success[d]) ELSE health[i]]
         /\ deliveries' = Newest(Append(deliveries, Outcome(d)))
         /\ jobs' = [jobs EXCEPT ![d] = Tail(@)]
<1>1. DispatchersOK /\ pc[d] = "record"
  BY AlertsTyped DEF Alerts!Record, Alerts!Go
<1>2. /\ jobs[d] # <<>> /\ jobs[d] \in Seq(Provider) /\ success[d] \in BOOLEAN /\ tries[d] \in Nat
      /\ sends[d] \in Seq(Answers) /\ rule[d] \in 0 .. Len(Rules)
  BY <1>1 DEF DispatchersOK
<1>3. Head(jobs[d]) \in Provider
  BY <1>2
<1>4. Rules[rule[d]] \in Rule
  <2>1. rule[d] > 0
    BY <1>2 DEF Trying
  <2>2. rule[d] \in DOMAIN Rules
    BY <1>2, <2>1, RulesAssumption
  <2> QED BY <2>2 DEF Rule
<1>5. Outcome(d) \in Alerts!Delivery
  <2>1. tries[d] - 1 \in Int
    BY <1>2
  <2> QED BY <1>2, <1>3, <1>4, <2>1, AlertNames DEF Outcome, Alerts!Delivery, Answers
<1> QED BY <1>1, <1>2, <1>3, <1>5, AlertNames DEF Alerts!Record, Alerts!round, Alerts!ghosts, Outcome

LEMMA StateMemory ==
  ASSUME Alerts!TypeOK
  PROVE  /\ providers \in Seq(Provider) /\ health \in Seq(Health) /\ deliveries \in Seq(Alerts!Delivery)
         /\ Len(providers) = Len(health) /\ Len(deliveries) <= MaxHistory
         /\ DOMAIN providers = 1 .. Len(providers) /\ DOMAIN health = DOMAIN providers
         /\ Len(providers) \in Nat
BY AlertsTyped, MemoryTyped DEF Alerts!Memory

LEMMA ObservedHealth ==
  ASSUME NEW h \in Health, NEW b \in BOOLEAN
  PROVE  Observed(h, b) \in Health
BY DEF Health, Observed, Healthy, Unreachable

LEMMA StateStep ==
  ASSUME Alerts!TypeOK, \A d \in Dispatcher : Trying(d), AlertStep
  PROVE  StateOK(Alerts!Memory)' /\ StateOK(saved)'
<1>0. /\ providers \in Seq(Provider) /\ health \in Seq(Health) /\ deliveries \in Seq(Alerts!Delivery)
      /\ Len(providers) = Len(health) /\ Len(deliveries) <= MaxHistory
      /\ DOMAIN providers = 1 .. Len(providers) /\ DOMAIN health = DOMAIN providers
      /\ Len(providers) \in Nat /\ StateOK(saved) /\ StateOK(Alerts!Memory)
  BY StateMemory, AlertsTyped
<1>a. ASSUME providers' \in Seq(Provider), health' \in Seq(Health), deliveries' \in Seq(Alerts!Delivery),
             Len(providers') = Len(health'), Len(deliveries') <= MaxHistory
      PROVE  StateOK(Alerts!Memory')
  BY <1>a, MemoryTyped DEF Alerts!Memory
<1>1. StateOK(Alerts!Memory')
  <2>1. CASE UNCHANGED <<providers, health, deliveries, saved>>
    BY <1>0, <1>a, <2>1
  <2>2. CASE Restarted
    BY <1>0, <2>2 DEF Restarted
  <2>3. ASSUME NEW d \in Dispatcher, Alerts!Record(d) PROVE StateOK(Alerts!Memory')
    <3> DEFINE x == Outcome(d)
    <3>1. /\ x \in Alerts!Delivery /\ success[d] \in BOOLEAN /\ providers' = providers
          /\ health' = [i \in DOMAIN health |->
                         IF providers[i] = Head(jobs[d]) THEN Observed(health[i], success[d]) ELSE health[i]]
          /\ deliveries' = Newest(Append(deliveries, x))
      BY <2>3, Recorded
    <3> HIDE DEF x
    <3>2. health' \in Seq(Health) /\ Len(health') = Len(health)
      <4>1. \A i \in DOMAIN health : health[i] \in Health /\ Observed(health[i], success[d]) \in Health
        <5>1. \A i \in DOMAIN health : health[i] \in Health
          BY <1>0
        <5> QED BY <3>1, <5>1, ObservedHealth
      <4>2. DOMAIN health = 1 .. Len(health) /\ Len(health) \in Nat
        BY <1>0
      <4> QED BY <3>1, <4>1, <4>2
    <3>3. deliveries' \in Seq(Alerts!Delivery) /\ Len(deliveries') <= MaxHistory
      <4>1. Append(deliveries, x) \in Seq(Alerts!Delivery)
        BY <1>0, <3>1
      <4> QED BY <3>1, <4>1, NewestFacts
    <3> QED BY <1>0, <1>a, <3>1, <3>2, <3>3
  <2>4. ASSUME NEW p \in Provider, Alerts!AddProvider(p) PROVE StateOK(Alerts!Memory')
    <3>1. providers' = Append(providers, p) /\ health' = Append(health, NeverSeen) /\ deliveries' = deliveries
      BY <2>4, AlertNames DEF Alerts!AddProvider
    <3>2. NeverSeen \in Health
      BY DEF NeverSeen, Health
    <3>3. /\ providers' \in Seq(Provider) /\ Len(providers') = Len(providers) + 1
          /\ health' \in Seq(Health) /\ Len(health') = Len(health) + 1
      BY <1>0, <3>1, <3>2, AppendProperties
    <3> QED BY <1>0, <1>a, <3>1, <3>3
  <2>5. ASSUME NEW p \in Provider, NEW status \in {Healthy, Unreachable}, NEW good \in BOOLEAN,
               Alerts!UpdateHealth(p, status, good)
        PROVE  StateOK(Alerts!Memory')
    <3>1. PICK i \in DOMAIN providers :
             health' = [health EXCEPT ![i] = [Observed(health[i], good) EXCEPT !.status = status]]
      BY <2>5, AlertNames DEF Alerts!UpdateHealth
    <3>2. providers' = providers /\ deliveries' = deliveries
      BY <2>5 DEF Alerts!UpdateHealth
    <3>3. [Observed(health[i], good) EXCEPT !.status = status] \in Health
      <4>1. health[i] \in Health
        BY <1>0
      <4> QED BY <4>1, ObservedHealth DEF Health, Healthy, Unreachable
    <3>4. health' \in Seq(Health) /\ Len(health') = Len(health)
      BY <1>0, <3>1, <3>3
    <3> QED BY <1>0, <1>a, <3>2, <3>4
  <2> QED BY <2>1, <2>2, <2>3, <2>4, <2>5, MemoryMoves
<1>2. StateOK(saved')
  BY <1>0, <1>1, MemoryMoves
<1> QED BY <1>1, <1>2

\* What a step does at one dispatcher, where nothing restarts.
LEMMA Steps ==
  ASSUME AlertStep, ~Restarted, Alerts!TypeOK
  PROVE  \/ UNCHANGED <<pc, cancelled, copied, todo, rule, jobs, attempt, tries, success, sends>>
         \/ \E d \in Dispatcher :
              \/ \E e \in Alerts!EventType : Alerts!Dispatch(d, e)
              \/ \E n \in DOMAIN Rules : Alerts!FireRule(d, n) \/ Alerts!SkipRule(d, n)
              \/ Alerts!Return(d) \/ Alerts!Deliver(d) \/ Alerts!GiveUp(d) \/ Alerts!Cancel(d)
              \/ \E reply \in Answers : Alerts!Send(d, reply)
              \/ Alerts!Again(d) \/ Alerts!Record(d)
<1> USE DEF Alerts!memory, Alerts!round, Alerts!retry, Alerts!bounds, Alerts!ghosts
<1>1. ASSUME Alerts!Restart PROVE FALSE
  <2>1. saved \in Alerts!State
    BY AlertsTyped DEF StateOK
  <2>2. saved = [providers |-> saved.providers, health |-> saved.health, deliveries |-> saved.deliveries]
    BY <2>1 DEF Alerts!State
  <2>3. /\ providers' = saved.providers /\ health' = saved.health /\ deliveries' = saved.deliveries /\ saved' = saved
    BY <1>1 DEF Alerts!Restart
  <2>4. Alerts!Memory' = saved
    BY <2>2, <2>3 DEF Alerts!Memory
  <2> QED BY <1>1, <2>3, <2>4 DEF Restarted
<1>2. ~Alerts!Crash /\ \A d \in Dispatcher : ~Alerts!Overflow(d)
  BY <1>1 DEF Alerts!Crash, Alerts!Overflow
<1>3. ASSUME NEW p \in Provider, NEW status, NEW good, Alerts!AddProvider(p) \/ Alerts!UpdateHealth(p, status, good)
      PROVE  UNCHANGED <<pc, cancelled, copied, todo, rule, jobs, attempt, tries, success, sends>>
  BY <1>3 DEF Alerts!AddProvider, Alerts!UpdateHealth
<1>4. Alerts!Tick \/ UNCHANGED alertVars =>
        UNCHANGED <<pc, cancelled, copied, todo, rule, jobs, attempt, tries, success, sends>>
  BY DEF Alerts!Tick, alertVars
<1> QED BY <1>2, <1>3, <1>4 DEF AlertStep, Alerts!Next, Alerts!Step, Answers

LEMMA RestartedFirst ==
  ASSUME Restarted
  PROVE  /\ pc' = [d \in Dispatcher |-> "idle"] /\ cancelled' = [d \in Dispatcher |-> FALSE]
         /\ copied' = [d \in Dispatcher |-> <<>>] /\ todo' = [d \in Dispatcher |-> {}]
         /\ rule' = [d \in Dispatcher |-> 0] /\ jobs' = [d \in Dispatcher |-> <<>>]
         /\ attempt' = [d \in Dispatcher |-> 0] /\ tries' = [d \in Dispatcher |-> 0]
         /\ success' = [d \in Dispatcher |-> FALSE] /\ sends' = [d \in Dispatcher |-> <<>>]
         /\ cooldowns' = [r \in Rule |-> 0] /\ rounds' = [r \in Rule |-> <<>>] /\ silenced' = {}
         /\ UNCHANGED <<saved, alertNow, dispatches, checked>>
BY AlertNames DEF Restarted, Alerts!Restart, Alerts!Each

LEMMA DispatchersStep ==
  ASSUME Alerts!TypeOK, \A d \in Dispatcher : Trying(d), AlertStep
  PROVE  DispatchersOK'
<1> USE DEF Alerts!memory, Alerts!round, Alerts!retry, Alerts!bounds, Alerts!ghosts, Alerts!Go
<1>0. DispatchersOK
  BY AlertsTyped
<1>1. CASE UNCHANGED <<pc, cancelled, copied, todo, rule, jobs, attempt, tries, success, sends>>
  BY <1>0, <1>1 DEF DispatchersOK
<1>2. CASE Restarted
  <2>1. <<>> \in Seq(Provider) /\ <<>> \in Seq(Answers) /\ 0 \in 0 .. Len(Rules)
    BY RulesAssumption
  <2>2. pc' = [d \in Dispatcher |-> "idle"]
    BY <1>2, RestartedFirst
  <2>3. \A d \in Dispatcher : pc'[d] \notin {"attempt", "wait", "record"}
    BY <2>2
  <2>4. pc' \in [Dispatcher -> {"idle", "rule", "attempt", "wait", "record"}] /\ cancelled' \in [Dispatcher -> BOOLEAN]
        /\ success' \in [Dispatcher -> BOOLEAN]
    BY <1>2, RestartedFirst
  <2>5. copied' \in [Dispatcher -> Seq(Provider)] /\ todo' \in [Dispatcher -> SUBSET DOMAIN Rules]
        /\ jobs' \in [Dispatcher -> Seq(Provider)] /\ sends' \in [Dispatcher -> Seq(Answers)]
    BY <1>2, <2>1, RestartedFirst
  <2>6. rule' \in [Dispatcher -> 0 .. Len(Rules)] /\ attempt' \in [Dispatcher -> Nat] /\ tries' \in [Dispatcher -> Nat]
    BY <1>2, <2>1, RestartedFirst
  <2> QED BY <2>3, <2>4, <2>5, <2>6 DEF DispatchersOK
<1>3. ASSUME NEW d \in Dispatcher, NEW e \in Alerts!EventType, Alerts!Dispatch(d, e) PROVE DispatchersOK'
  <2>1. /\ pc[d] = "idle" /\ pc' = [pc EXCEPT ![d] = "rule"]
        /\ copied' = [copied EXCEPT ![d] = providers]
        /\ todo' = [todo EXCEPT ![d] = {n \in DOMAIN Rules : On[Rules[n]] = e}]
        /\ UNCHANGED <<cancelled, rule, jobs, attempt, tries, success, sends>>
    BY <1>3 DEF Alerts!Dispatch
  <2>2. providers \in Seq(Provider)
    BY StateMemory
  <2>3. {n \in DOMAIN Rules : On[Rules[n]] = e} \in SUBSET DOMAIN Rules
    OBVIOUS
  <2> QED BY <1>0, <2>1, <2>2, <2>3 DEF DispatchersOK
<1>4. ASSUME NEW d \in Dispatcher, NEW n \in DOMAIN Rules, Alerts!FireRule(d, n) PROVE DispatchersOK'
  <2> DEFINE js == Alerts!Recipients(Rules[n], copied[d])
  <2>1. /\ pc[d] = "rule" /\ todo' = [todo EXCEPT ![d] = @ \ {n}]
        /\ rule' = [rule EXCEPT ![d] = n] /\ jobs' = [jobs EXCEPT ![d] = js]
        /\ UNCHANGED <<pc, cancelled, copied, attempt, tries, success, sends>>
    BY <1>4 DEF Alerts!FireRule, Alerts!Looks
  <2>2. js \in Seq(Provider)
    <3>1. Rules[n] \in Rule /\ copied[d] \in Seq(Provider)
      BY <1>0 DEF Rule, DispatchersOK
    <3>2. js \in Seq(Members(copied[d]))
      BY <3>1, RecipientsIn
    <3>3. Members(copied[d]) \subseteq Provider
      BY DEF Members
    <3> QED BY <3>2, <3>3
  <2>3. n \in 0 .. Len(Rules)
    BY RulesAssumption
  <2>4. \A c \in Dispatcher : pc'[c] \in {"attempt", "wait", "record"} => c # d
    BY <2>1
  <2> HIDE DEF js
  <2> QED BY <1>0, <2>1, <2>2, <2>3, <2>4 DEF DispatchersOK
<1>5. ASSUME NEW d \in Dispatcher, NEW n \in DOMAIN Rules, Alerts!SkipRule(d, n) PROVE DispatchersOK'
  <2>1. /\ todo' = [todo EXCEPT ![d] = @ \ {n}]
        /\ UNCHANGED <<pc, cancelled, copied, rule, jobs, attempt, tries, success, sends>>
    BY <1>5 DEF Alerts!SkipRule, Alerts!Looks
  <2> QED BY <1>0, <2>1 DEF DispatchersOK
<1>6. ASSUME NEW d \in Dispatcher, Alerts!Return(d) PROVE DispatchersOK'
  <2>1. /\ pc' = [pc EXCEPT ![d] = "idle"] /\ cancelled' = [cancelled EXCEPT ![d] = FALSE]
        /\ copied' = [copied EXCEPT ![d] = <<>>] /\ rule' = [rule EXCEPT ![d] = 0]
        /\ UNCHANGED <<todo, jobs, attempt, tries, success, sends>>
    BY <1>6 DEF Alerts!Return
  <2>2. <<>> \in Seq(Provider) /\ 0 \in 0 .. Len(Rules)
    BY RulesAssumption
  <2> QED BY <1>0, <2>1, <2>2 DEF DispatchersOK
<1>7. ASSUME NEW d \in Dispatcher, Alerts!Deliver(d) \/ Alerts!GiveUp(d) \/ Alerts!Cancel(d)
      PROVE  DispatchersOK'
  <2>1. CASE Alerts!Deliver(d)
    BY <1>0, <2>1 DEF DispatchersOK, Alerts!Deliver
  <2>2. CASE Alerts!GiveUp(d)
    BY <1>0, <2>2 DEF DispatchersOK, Alerts!GiveUp
  <2>3. CASE Alerts!Cancel(d)
    BY <1>0, <2>3 DEF DispatchersOK, Alerts!Cancel
  <2> QED BY <1>7, <2>1, <2>2, <2>3
<1>8. ASSUME NEW d \in Dispatcher, NEW reply \in Answers, Alerts!Send(d, reply) PROVE DispatchersOK'
  <2>1. PICK to \in {"wait", "record"} : pc' = [pc EXCEPT ![d] = to]
    BY <1>8 DEF Alerts!Send
  <2>2. /\ pc[d] = "attempt"
        /\ tries' = [tries EXCEPT ![d] = @ + 1]
        /\ sends' = [sends EXCEPT ![d] = Append(@, reply)]
        /\ success' = [success EXCEPT ![d] = reply = "ok"]
        /\ UNCHANGED <<cancelled, copied, todo, rule, jobs, attempt>>
    BY <1>8 DEF Alerts!Send
  <2>3. tries[d] + 1 \in Nat /\ Append(sends[d], reply) \in Seq(Answers) /\ (reply = "ok") \in BOOLEAN
    <3>1. tries[d] \in Nat /\ sends[d] \in Seq(Answers)
      BY <1>0 DEF DispatchersOK
    <3>2. Append(sends[d], reply) \in Seq(Answers)
      BY <3>1
    <3> QED BY <3>1, <3>2
  <2>4. success' \in [Dispatcher -> BOOLEAN] /\ tries' \in [Dispatcher -> Nat] /\ sends' \in [Dispatcher -> Seq(Answers)]
    BY <1>0, <2>2, <2>3 DEF DispatchersOK
  <2> QED BY <1>0, <2>1, <2>2, <2>4 DEF DispatchersOK
<1>9. ASSUME NEW d \in Dispatcher, Alerts!Again(d) PROVE DispatchersOK'
  <2>1. /\ pc[d] = "wait" /\ pc' = [pc EXCEPT ![d] = "attempt"]
        /\ attempt' = [attempt EXCEPT ![d] = @ + 1]
        /\ UNCHANGED <<cancelled, copied, todo, rule, jobs, tries, success, sends>>
    BY <1>9 DEF Alerts!Again
  <2>2. attempt' \in [Dispatcher -> Nat]
    BY <1>0, <2>1 DEF DispatchersOK
  <2> QED BY <1>0, <2>1, <2>2 DEF DispatchersOK
<1>10. ASSUME NEW d \in Dispatcher, Alerts!Record(d) PROVE DispatchersOK'
  <2>1. /\ pc' = [pc EXCEPT ![d] = "rule"]
        /\ jobs' = [jobs EXCEPT ![d] = Tail(@)]
        /\ attempt' = [attempt EXCEPT ![d] = 0] /\ tries' = [tries EXCEPT ![d] = 0]
        /\ success' = [success EXCEPT ![d] = FALSE] /\ sends' = [sends EXCEPT ![d] = <<>>]
        /\ UNCHANGED <<cancelled, copied, todo, rule>>
    BY <1>10 DEF Alerts!Record
  <2>2. Tail(jobs[d]) \in Seq(Provider)
    <3>1. jobs[d] \in Seq(Provider) /\ jobs[d] # <<>>
      BY <1>10, Recorded
    <3> QED BY <3>1
  <2>3. <<>> \in Seq(Answers)
    OBVIOUS
  <2> QED BY <1>0, <2>1, <2>2, <2>3 DEF DispatchersOK
<1> QED BY <1>1, <1>2, <1>3, <1>4, <1>5, <1>6, <1>7, <1>8, <1>9, <1>10, Steps

LEMMA OthersStep ==
  ASSUME Alerts!TypeOK, AlertStep
  PROVE  OthersOK'
<1> USE DEF Alerts!memory, Alerts!round, Alerts!retry, Alerts!bounds, Alerts!ghosts, Alerts!Go
<1>0. OthersOK
  BY AlertsTyped
<1>a. ASSUME Alerts!Restart, events' \in Nat PROVE OthersOK'
  <2>1. /\ cooldowns' = [r \in Rule |-> 0] /\ rounds' = [r \in Rule |-> <<>>] /\ silenced' = {}
        /\ UNCHANGED <<alertNow, dispatches, checked>>
    BY <1>a, AlertNames DEF Alerts!Restart
  <2>2. <<>> \in Seq(Nat)
    OBVIOUS
  <2> QED BY <1>0, <1>a, <2>1, <2>2 DEF OthersOK
<1>b. ASSUME NEW n \in Nat, Alerts!Happens(n) PROVE events' \in Nat
  BY <1>0, <1>b DEF OthersOK, Alerts!Happens
<1>c. ASSUME NEW n \in Nat, Alerts!Save(n) PROVE events' \in Nat
  BY <1>b, <1>c DEF Alerts!Save
<1>1. ASSUME NEW d \in Dispatcher, NEW e \in Alerts!EventType, Alerts!Dispatch(d, e) PROVE OthersOK'
  BY <1>0, <1>1 DEF OthersOK, Alerts!Dispatch
<1>2. ASSUME NEW d \in Dispatcher, NEW n \in DOMAIN Rules, Alerts!FireRule(d, n) PROVE OthersOK'
  <2>1. Rules[n] \in Rule /\ Cooldown[Rules[n]] \in Nat
    BY RulesAssumption DEF Rule
  <2> DEFINE r == Rules[n]
  <2>2. /\ cooldowns' = [cooldowns EXCEPT ![r] = alertNow + Cooldown[r]]
        /\ rounds' = [rounds EXCEPT ![r] = Append(@, alertNow)]
        /\ UNCHANGED <<alertNow, dispatches, events, silenced, checked>>
    BY <1>2 DEF Alerts!FireRule
  <2>3. alertNow + Cooldown[r] \in Nat
    BY <1>0, <2>1 DEF OthersOK
  <2>4. Append(rounds[r], alertNow) \in Seq(Nat)
    <3>1. rounds[r] \in Seq(Nat) /\ alertNow \in Nat
      BY <1>0, <2>1 DEF OthersOK
    <3> QED BY <3>1
  <2> HIDE DEF r
  <2> QED BY <1>0, <2>2, <2>3, <2>4 DEF OthersOK
<1>3. ASSUME NEW d \in Dispatcher, NEW n \in DOMAIN Rules, Alerts!SkipRule(d, n) PROVE OthersOK'
  <2>1. silenced' = silenced \cup {<<Rules[n], alertNow>>} /\ Rules[n] \in Rule
    BY <1>3 DEF Alerts!SkipRule, Rule
  <2>2. UNCHANGED <<cooldowns, alertNow, dispatches, events, rounds, checked>>
    BY <1>3 DEF Alerts!SkipRule
  <2> QED BY <1>0, <2>1, <2>2 DEF OthersOK
<1>4. ASSUME NEW d \in Dispatcher,
             Alerts!Return(d) \/ Alerts!Deliver(d) \/ Alerts!GiveUp(d) \/ Alerts!Cancel(d) \/ Alerts!Again(d)
             \/ \E reply \in Answers : Alerts!Send(d, reply)
      PROVE  OthersOK'
  <2>1. UNCHANGED <<cooldowns, alertNow, dispatches, events, rounds, silenced, checked>>
    BY <1>4 DEF Alerts!Return, Alerts!Deliver, Alerts!GiveUp, Alerts!Cancel, Alerts!Again, Alerts!Send
  <2> QED BY <1>0, <2>1 DEF OthersOK
<1>5. ASSUME NEW d \in Dispatcher, Alerts!Record(d) PROVE OthersOK'
  <2>1. Alerts!Save(0) /\ UNCHANGED <<cooldowns, alertNow, dispatches, rounds, silenced, checked>>
    BY <1>5 DEF Alerts!Record
  <2> QED BY <1>0, <1>c, <2>1 DEF OthersOK
<1>6. ASSUME NEW d \in Dispatcher, Alerts!Overflow(d) PROVE OthersOK'
  BY <1>0, <1>6, <1>a DEF OthersOK, Alerts!Overflow
<1>7. ASSUME NEW p \in Provider, Alerts!AddProvider(p) PROVE OthersOK'
  <2>1. Alerts!Save(1) /\ UNCHANGED <<cooldowns, alertNow, dispatches, rounds, silenced, checked>>
    BY <1>7 DEF Alerts!AddProvider
  <2> QED BY <1>0, <1>c, <2>1 DEF OthersOK
<1>8. ASSUME NEW p \in Provider, NEW status, NEW good, Alerts!UpdateHealth(p, status, good) PROVE OthersOK'
  <2>1. /\ Alerts!Save(1) /\ checked' = checked \cup {p}
        /\ UNCHANGED <<cooldowns, alertNow, dispatches, rounds, silenced>>
    BY <1>8 DEF Alerts!UpdateHealth
  <2> QED BY <1>0, <1>c, <2>1 DEF OthersOK
<1>9. CASE Alerts!Tick
  BY <1>0, <1>9 DEF OthersOK, Alerts!Tick
<1>10. CASE Alerts!Crash
  <2>1. Alerts!Happens(1) /\ Alerts!Restart
    BY <1>10 DEF Alerts!Crash
  <2> QED BY <1>a, <1>b, <2>1
<1>11. CASE UNCHANGED alertVars
  BY <1>0, <1>11 DEF OthersOK, alertVars
<1> QED BY <1>1, <1>2, <1>3, <1>4, <1>5, <1>6, <1>7, <1>8, <1>9, <1>10, <1>11
    DEF AlertStep, Alerts!Next, Alerts!Step, Answers

LEMMA AlertsTypeStep ==
  ASSUME Alerts!TypeOK, \A d \in Dispatcher : Trying(d), AlertStep
  PROVE  Alerts!TypeOK'
BY StateStep, DispatchersStep, OthersStep, AlertsTypedNext

-----------------------------------------------------------------------------
(* What a dispatcher knows of the delivery it is at.                       *)

LEMMA StillTrying ==
  ASSUME NEW c \in Dispatcher, Trying(c), pc'[c] = pc[c], rule'[c] = rule[c], jobs'[c] = jobs[c],
         attempt'[c] = attempt[c], tries'[c] = tries[c], success'[c] = success[c], sends'[c] = sends[c]
  PROVE  Trying(c)'
BY DEF Trying, Failed

LEMMA TryingStep ==
  ASSUME Alerts!TypeOK, \A d \in Dispatcher : Trying(d), AlertStep
  PROVE  \A d \in Dispatcher : Trying(d)'
<1> USE DEF Alerts!memory, Alerts!round, Alerts!retry, Alerts!bounds, Alerts!ghosts, Alerts!Go
<1>0. DispatchersOK
  BY AlertsTyped
<1>a. Len(<<>>) = 0
  OBVIOUS
<1>1. CASE UNCHANGED <<pc, cancelled, copied, todo, rule, jobs, attempt, tries, success, sends>>
  BY <1>1, StillTrying
<1>2. CASE Restarted
  <2>1. SUFFICES ASSUME NEW c \in Dispatcher PROVE Trying(c)'
    OBVIOUS
  <2>2. /\ pc'[c] = "idle" /\ rule'[c] = 0 /\ jobs'[c] = <<>> /\ attempt'[c] = 0 /\ tries'[c] = 0
        /\ success'[c] = FALSE /\ sends'[c] = <<>>
    BY <1>2, RestartedFirst
  <2> QED BY <1>a, <2>2 DEF Trying
<1>3. ASSUME NEW d \in Dispatcher, NEW e \in Alerts!EventType, Alerts!Dispatch(d, e), NEW c \in Dispatcher
      PROVE  Trying(c)'
  <2>1. /\ pc[d] = "idle" /\ pc' = [pc EXCEPT ![d] = "rule"]
        /\ UNCHANGED <<rule, jobs, attempt, tries, success, sends>>
    BY <1>3 DEF Alerts!Dispatch
  <2>2. CASE c = d
    <3>1. pc'[c] = "rule" /\ pc[c] = "idle"
      BY <1>0, <2>1, <2>2 DEF DispatchersOK
    <3> QED BY <2>1, <3>1 DEF Trying
  <2>3. CASE c # d
    BY <1>0, <2>1, <2>3, StillTrying DEF DispatchersOK
  <2> QED BY <2>2, <2>3
<1>4. ASSUME NEW d \in Dispatcher, NEW n \in DOMAIN Rules, Alerts!FireRule(d, n), NEW c \in Dispatcher
      PROVE  Trying(c)'
  <2>1. /\ pc[d] = "rule" /\ pc' = pc
        /\ rule' = [rule EXCEPT ![d] = n]
        /\ jobs' = [jobs EXCEPT ![d] = Alerts!Recipients(Rules[n], copied[d])]
        /\ UNCHANGED <<attempt, tries, success, sends>>
    BY <1>4 DEF Alerts!FireRule, Alerts!Looks
  <2>2. CASE c = d
    <3>1. rule'[c] = n /\ n > 0 /\ pc'[c] = "rule" /\ pc[c] = "rule"
      BY <1>0, <2>1, <2>2, RulesAssumption DEF DispatchersOK
    <3> QED BY <2>1, <3>1 DEF Trying
  <2>3. CASE c # d
    BY <1>0, <2>1, <2>3, StillTrying DEF DispatchersOK
  <2> QED BY <2>2, <2>3
<1>5. ASSUME NEW d \in Dispatcher, NEW n \in DOMAIN Rules, Alerts!SkipRule(d, n) \/ Alerts!Cancel(d),
             NEW c \in Dispatcher
      PROVE  Trying(c)'
  <2>1. UNCHANGED <<pc, rule, jobs, attempt, tries, success, sends>>
    BY <1>5 DEF Alerts!SkipRule, Alerts!Cancel, Alerts!Looks
  <2> QED BY <2>1, StillTrying
<1>6. ASSUME NEW d \in Dispatcher, Alerts!Return(d), NEW c \in Dispatcher PROVE Trying(c)'
  <2>1. /\ pc[d] = "rule" /\ pc' = [pc EXCEPT ![d] = "idle"] /\ jobs[d] = <<>>
        /\ rule' = [rule EXCEPT ![d] = 0]
        /\ UNCHANGED <<jobs, attempt, tries, success, sends>>
    BY <1>6 DEF Alerts!Return
  <2>2. CASE c = d
    <3>1. pc'[c] = "idle" /\ pc[c] = "rule" /\ jobs'[c] = <<>>
      BY <1>0, <2>1, <2>2 DEF DispatchersOK
    <3> QED BY <2>1, <3>1 DEF Trying
  <2>3. CASE c # d
    BY <1>0, <2>1, <2>3, StillTrying DEF DispatchersOK
  <2> QED BY <2>2, <2>3
<1>7. ASSUME NEW d \in Dispatcher, Alerts!Deliver(d), NEW c \in Dispatcher PROVE Trying(c)'
  <2>1. /\ pc[d] = "rule" /\ pc' = [pc EXCEPT ![d] = "attempt"] /\ jobs[d] # <<>>
        /\ UNCHANGED <<rule, jobs, attempt, tries, success, sends>>
    BY <1>7 DEF Alerts!Deliver
  <2>2. CASE c = d
    <3>1. pc'[c] = "attempt" /\ pc[c] = "rule"
      BY <1>0, <2>1, <2>2 DEF DispatchersOK
    <3>2. attempt[c] = 0 /\ sends[c] = <<>> /\ ~success[c] /\ tries[c] = Len(sends[c]) /\ rule[c] > 0
      BY <2>1, <2>2, <3>1 DEF Trying
    <3>3. Attempts[Head(jobs[c])] \in Nat \ {0}
      <4>1. jobs[c] \in Seq(Provider)
        BY <1>0 DEF DispatchersOK
      <4>2. Head(jobs[c]) \in Provider
        BY <2>1, <2>2, <4>1
      <4> QED BY <4>2, RetryAssumption
    <3>4. Failed(<<>>)
      BY DEF Failed
    <3>5. 0 < Attempts[Head(jobs[c])]
      BY <3>3
    <3> QED BY <1>a, <2>1, <3>1, <3>2, <3>4, <3>5 DEF Trying
  <2>3. CASE c # d
    BY <1>0, <2>1, <2>3, StillTrying DEF DispatchersOK
  <2> QED BY <2>2, <2>3
<1>8. ASSUME NEW d \in Dispatcher, Alerts!GiveUp(d), NEW c \in Dispatcher PROVE Trying(c)'
  <2>1. /\ pc[d] \in {"attempt", "wait"} /\ pc' = [pc EXCEPT ![d] = "record"]
        /\ UNCHANGED <<rule, jobs, attempt, tries, success, sends>>
    BY <1>8 DEF Alerts!GiveUp
  <2>2. CASE c = d
    <3>1. pc'[c] = "record" /\ pc[c] \in {"attempt", "wait"}
      BY <1>0, <2>1, <2>2 DEF DispatchersOK
    <3>2. sends[c] \in Seq(Answers) /\ attempt[c] \in Nat /\ Attempts[Head(jobs[c])] \in Nat
      <4>1. jobs[c] \in Seq(Provider) /\ jobs[c] # <<>>
        BY <1>0, <3>1 DEF DispatchersOK
      <4>2. Head(jobs[c]) \in Provider
        BY <4>1
      <4> QED BY <1>0, <4>2, RetryAssumption DEF DispatchersOK
    <3>3. ~success[c] /\ Failed(sends[c]) /\ Len(sends[c]) <= Attempts[Head(jobs[c])]
          /\ tries[c] = Len(sends[c]) /\ (jobs[c] # <<>> => rule[c] > 0)
      BY <3>1, <3>2 DEF Trying
    <3>4. Len(sends[c]) > 0 => sends[c][Len(sends[c])] = "temporary"
      BY <3>2, <3>3 DEF Failed
    <3>5. \A i \in 1 .. Len(sends[c]) - 1 : sends[c][i] = "temporary"
      BY <3>2, <3>3 DEF Failed
    <3> QED BY <2>1, <3>1, <3>3, <3>4, <3>5 DEF Trying
  <2>3. CASE c # d
    BY <1>0, <2>1, <2>3, StillTrying DEF DispatchersOK
  <2> QED BY <2>2, <2>3
<1>9. ASSUME NEW d \in Dispatcher, NEW reply \in Answers, Alerts!Send(d, reply), NEW c \in Dispatcher
      PROVE  Trying(c)'
  <2>1. /\ pc[d] = "attempt"
        /\ pc' = [pc EXCEPT ![d] = IF reply = "temporary" /\ ~Alerts!LastAttempt(d) THEN "wait" ELSE "record"]
        /\ tries' = [tries EXCEPT ![d] = @ + 1]
        /\ sends' = [sends EXCEPT ![d] = Append(@, reply)]
        /\ success' = [success EXCEPT ![d] = reply = "ok"]
        /\ UNCHANGED <<rule, jobs, attempt>>
    BY <1>9 DEF Alerts!Send
  <2>2. CASE c = d
    <3> DEFINE s == Append(sends[c], reply)
               a == Attempts[Head(jobs[c])]
    <3>1. sends[c] \in Seq(Answers) /\ attempt[c] \in Nat /\ a \in Nat /\ Len(sends[c]) \in Nat
      <4>1. jobs[c] \in Seq(Provider) /\ jobs[c] # <<>>
        BY <1>0, <2>1, <2>2 DEF DispatchersOK
      <4>2. Head(jobs[c]) \in Provider
        BY <4>1
      <4> QED BY <1>0, <4>2, RetryAssumption DEF DispatchersOK
    <3>2. /\ Len(sends[c]) = attempt[c] /\ attempt[c] < a /\ Failed(sends[c]) /\ ~success[c]
          /\ tries[c] = Len(sends[c]) /\ (jobs[c] # <<>> => rule[c] > 0)
      BY <2>1, <2>2 DEF Trying
    <3>3. /\ tries'[c] = tries[c] + 1 /\ sends'[c] = s /\ success'[c] = (reply = "ok")
          /\ pc'[c] = IF reply = "temporary" /\ ~(attempt[c] + 1 = a) THEN "wait" ELSE "record"
      <4>1. pc'[c] = IF reply = "temporary" /\ ~Alerts!LastAttempt(d) THEN "wait" ELSE "record"
        BY <1>0, <2>1, <2>2 DEF DispatchersOK
      <4> QED BY <1>0, <2>1, <2>2, <4>1 DEF DispatchersOK, Alerts!LastAttempt
    <3>4. /\ Len(s) = Len(sends[c]) + 1 /\ s[Len(s)] = reply
          /\ \A i \in 1 .. Len(sends[c]) : s[i] = sends[c][i]
          /\ DOMAIN s = 1 .. Len(s) /\ DOMAIN sends[c] = 1 .. Len(sends[c])
      BY <3>1
    <3> HIDE DEF s, a
    <3>5. \A i \in 1 .. Len(s) - 1 : s[i] = "temporary"
      <4>1. \A i \in 1 .. Len(s) - 1 : i \in DOMAIN sends[c] /\ s[i] = sends[c][i]
        BY <3>1, <3>4
      <4>2. \A i \in DOMAIN sends[c] : sends[c][i] = "temporary"
        BY <3>2 DEF Failed
      <4> QED BY <4>1, <4>2
    <3>6. reply = "temporary" => Failed(s)
      <4>1. \A i \in 1 .. Len(s) : i = Len(s) \/ i \in 1 .. Len(s) - 1
        BY <3>1, <3>4
      <4> QED BY <3>4, <3>5, <4>1 DEF Failed
    <3>7. Len(s) = attempt[c] + 1 /\ Len(s) <= a /\ Len(s) > 0 /\ (attempt[c] + 1 = a \/ attempt[c] + 1 < a)
          /\ tries'[c] = Len(s)
      BY <3>1, <3>2, <3>3, <3>4
    <3>8. jobs' = jobs /\ attempt' = attempt /\ rule' = rule
      BY <2>1
    <3>9. Attempts[Head(jobs'[c])] = a
      BY <3>8 DEF a
    <3>10. CASE pc'[c] = "wait"
      BY <3>2, <3>3, <3>6, <3>7, <3>8, <3>9, <3>10 DEF Trying
    <3>11. CASE pc'[c] = "record"
      BY <3>2, <3>3, <3>4, <3>5, <3>7, <3>8, <3>9, <3>11 DEF Trying
    <3> QED BY <3>3, <3>10, <3>11
  <2>3. CASE c # d
    BY <1>0, <2>1, <2>3, StillTrying DEF DispatchersOK
  <2> QED BY <2>2, <2>3
<1>10. ASSUME NEW d \in Dispatcher, Alerts!Again(d), NEW c \in Dispatcher PROVE Trying(c)'
  <2>1. /\ pc[d] = "wait" /\ pc' = [pc EXCEPT ![d] = "attempt"]
        /\ attempt' = [attempt EXCEPT ![d] = @ + 1]
        /\ UNCHANGED <<rule, jobs, tries, success, sends>>
    BY <1>10 DEF Alerts!Again
  <2>2. CASE c = d
    <3>1. pc'[c] = "attempt" /\ attempt'[c] = attempt[c] + 1
      BY <1>0, <2>1, <2>2 DEF DispatchersOK
    <3> QED BY <2>1, <2>2, <3>1 DEF Trying, Failed
  <2>3. CASE c # d
    BY <1>0, <2>1, <2>3, StillTrying DEF DispatchersOK
  <2> QED BY <2>2, <2>3
<1>11. ASSUME NEW d \in Dispatcher, Alerts!Record(d), NEW c \in Dispatcher PROVE Trying(c)'
  <2>1. /\ pc[d] = "record" /\ pc' = [pc EXCEPT ![d] = "rule"]
        /\ jobs' = [jobs EXCEPT ![d] = Tail(@)]
        /\ attempt' = [attempt EXCEPT ![d] = 0] /\ tries' = [tries EXCEPT ![d] = 0]
        /\ success' = [success EXCEPT ![d] = FALSE] /\ sends' = [sends EXCEPT ![d] = <<>>]
        /\ UNCHANGED rule
    BY <1>11 DEF Alerts!Record
  <2>2. CASE c = d
    <3>1. pc'[c] = "rule" /\ attempt'[c] = 0 /\ tries'[c] = 0 /\ success'[c] = FALSE /\ sends'[c] = <<>>
      BY <1>0, <2>1, <2>2 DEF DispatchersOK
    <3>2. rule[c] > 0
      BY <1>0, <2>1, <2>2 DEF DispatchersOK, Trying
    <3> QED BY <1>a, <2>1, <3>1, <3>2 DEF Trying
  <2>3. CASE c # d
    BY <1>0, <2>1, <2>3, StillTrying DEF DispatchersOK
  <2> QED BY <2>2, <2>3
<1>12. CASE \E d \in Dispatcher : \E n \in DOMAIN Rules : Alerts!FireRule(d, n) \/ Alerts!SkipRule(d, n)
  BY <1>4, <1>5, <1>12
<1>13. ASSUME NEW d \in Dispatcher, Alerts!Cancel(d) PROVE \A c \in Dispatcher : Trying(c)'
  <2>1. UNCHANGED <<pc, rule, jobs, attempt, tries, success, sends>>
    BY <1>13 DEF Alerts!Cancel
  <2> QED BY <2>1, StillTrying
<1> QED BY <1>1, <1>2, <1>3, <1>6, <1>7, <1>8, <1>9, <1>10, <1>11, <1>12, <1>13, Steps

-----------------------------------------------------------------------------
(* The history says what happened.                                         *)

\* What the history may say of a delivery.
True(x) ==
    /\ x.retries = Len(x.sends) - 1 /\ Len(x.sends) <= Attempts[x.provider]
    /\ \A i \in 1 .. Len(x.sends) - 1 : x.sends[i] = "temporary"
    /\ x.delivered <=> Len(x.sends) > 0 /\ x.sends[Len(x.sends)] = "ok"

AllTrue(s) == \A i \in DOMAIN s : True(s[i])

LEMMA HistoryTrue ==
  /\ HistoryIsTrue <=> AllTrue(deliveries) /\ AllTrue(saved.deliveries)
  /\ HistoryIsTrue' <=> AllTrue(deliveries') /\ AllTrue(saved'.deliveries)
BY RangeNames DEF HistoryIsTrue, Alerts!HistoryIsTrue, AllTrue, True, Range

LEMMA OutcomeIsTrue ==
  ASSUME Alerts!TypeOK, NEW d \in Dispatcher, Trying(d), pc[d] = "record"
  PROVE  True(Outcome(d))
BY DEF Trying, True, Outcome

LEMMA HistoryStep ==
  ASSUME Alerts!TypeOK, \A d \in Dispatcher : Trying(d), HistoryIsTrue, AlertStep
  PROVE  HistoryIsTrue'
<1>1. AllTrue(deliveries) /\ AllTrue(saved.deliveries)
  BY HistoryTrue
<1>2. AllTrue(deliveries')
  <2>1. CASE UNCHANGED <<providers, health, deliveries, saved>>
    BY <1>1, <2>1
  <2>2. CASE Restarted
    <3>1. deliveries' = saved.deliveries
      BY <2>2 DEF Restarted, Alerts!Restart
    <3> QED BY <1>1, <3>1
  <2>3. ASSUME NEW d \in Dispatcher, Alerts!Record(d) PROVE AllTrue(deliveries')
    <3> DEFINE x == Outcome(d)
               s == Append(deliveries, x)
    <3>1. x \in Alerts!Delivery /\ deliveries' = Newest(s) /\ pc[d] = "record"
      BY <2>3, Recorded
    <3>2. True(x)
      BY <3>1, OutcomeIsTrue
    <3>3. deliveries \in Seq(Alerts!Delivery) /\ Len(deliveries) \in Nat
      BY StateMemory
    <3> HIDE DEF x
    <3>4. s \in Seq(Alerts!Delivery) /\ Len(s) = Len(deliveries) + 1 /\ s[Len(s)] = x
          /\ \A i \in 1 .. Len(deliveries) : s[i] = deliveries[i]
      BY <3>1, <3>3
    <3> HIDE DEF s
    <3>5. \A i \in 1 .. Len(s) : True(s[i])
      <4>1. \A i \in 1 .. Len(s) : i = Len(s) \/ i \in 1 .. Len(deliveries)
        BY <3>3, <3>4
      <4>2. \A i \in 1 .. Len(deliveries) : True(deliveries[i])
        BY <1>1, <3>3 DEF AllTrue
      <4> QED BY <3>2, <3>4, <4>1, <4>2
    <3>6. PICK k \in Nat : /\ k <= Len(s) /\ Newest(s) \in Seq(Alerts!Delivery) /\ Len(Newest(s)) = Len(s) - k
                           /\ \A i \in 1 .. Len(s) - k : Newest(s)[i] = s[i + k]
      BY <3>4, NewestFacts
    <3>7. \A i \in 1 .. Len(s) - k : i + k \in 1 .. Len(s)
      BY <3>4, <3>6
    <3>8. DOMAIN Newest(s) = 1 .. Len(s) - k
      BY <3>6
    <3> QED BY <3>1, <3>5, <3>6, <3>7, <3>8 DEF AllTrue
  <2>4. ASSUME NEW p \in Provider, Alerts!AddProvider(p) PROVE AllTrue(deliveries')
    BY <1>1, <2>4 DEF Alerts!AddProvider
  <2>5. ASSUME NEW p \in Provider, NEW status, NEW good, Alerts!UpdateHealth(p, status, good)
        PROVE  AllTrue(deliveries')
    BY <1>1, <2>5 DEF Alerts!UpdateHealth
  <2> QED BY <2>1, <2>2, <2>3, <2>4, <2>5, MemoryMoves
<1>3. AllTrue(saved'.deliveries)
  <2>1. Alerts!Memory'.deliveries = deliveries'
    BY DEF Alerts!Memory
  <2> QED BY <1>1, <1>2, <2>1, MemoryMoves
<1> QED BY <1>2, <1>3, HistoryTrue

-----------------------------------------------------------------------------
(* Rules keep silent.                                                      *)

\* What each rule did in this life, and when others were silenced.
Silences ==
    \A x \in silenced :
        \E i \in DOMAIN rounds[x[1]] :
            rounds[x[1]][i] <= x[2] /\ x[2] < rounds[x[1]][i] + Cooldown[x[1]]

Spaced(s, c) == \A i, j \in DOMAIN s : i < j => s[i] + c <= s[j]

\* What the rounds of a rule have to do with its cooldown.
Cools(s, until, c, t) ==
    /\ s = <<>> => until = 0
    /\ s # <<>> => until = s[Len(s)] + c
    /\ \A i \in DOMAIN s : s[i] <= t /\ s[i] + c <= until

LEMMA CoolingParts ==
  /\ Cooling <=> \A r \in Rule : Cools(rounds[r], cooldowns[r], Cooldown[r], alertNow)
  /\ Cooling' <=> \A r \in Rule : Cools(rounds'[r], cooldowns'[r], Cooldown[r], alertNow')
  /\ CooldownHolds <=> (\A r \in Rule : Spaced(rounds[r], Cooldown[r])) /\ Silences
  /\ CooldownHolds' <=> (\A r \in Rule : Spaced(rounds'[r], Cooldown[r])) /\ Silences'
BY AlertNames DEF Cooling, Cools, CooldownHolds, Alerts!CooldownHolds, Spaced, Silences

\* A rule that fires after its cooldown.
LEMMA FiresAgain ==
  ASSUME NEW s \in Seq(Nat), NEW until \in Nat, NEW c \in Nat, NEW t \in Nat,
         Cools(s, until, c, t), Spaced(s, c), until <= t
  PROVE  Cools(Append(s, t), t + c, c, t) /\ Spaced(Append(s, t), c)
<1> DEFINE e == Append(s, t)
<1>0. /\ e \in Seq(Nat) /\ Len(e) = Len(s) + 1 /\ e[Len(e)] = t
      /\ \A i \in 1 .. Len(s) : e[i] = s[i]
  OBVIOUS
<1>1. /\ Len(s) \in Nat /\ DOMAIN s = 1 .. Len(s) /\ Len(e) = Len(s) + 1 /\ e[Len(e)] = t /\ e # <<>>
      /\ \A i \in 1 .. Len(s) : e[i] = s[i] /\ s[i] \in Nat
      /\ DOMAIN e = 1 .. Len(e)
  <2> HIDE DEF e
  <2>1. Len(s) \in Nat /\ DOMAIN s = 1 .. Len(s) /\ \A i \in 1 .. Len(s) : s[i] \in Nat
    OBVIOUS
  <2>2. e # <<>>
    BY <1>0, <2>1
  <2> QED BY <1>0, <2>1, <2>2
<1> HIDE DEF e
<1>2. \A i \in 1 .. Len(e) : i = Len(e) \/ i \in 1 .. Len(s)
  BY <1>1
<1>3. \A i \in 1 .. Len(s) : s[i] <= t /\ s[i] + c <= t
  <2>1. \A i \in 1 .. Len(s) : s[i] <= t /\ s[i] + c <= until
    BY <1>1 DEF Cools
  <2> QED BY <1>1, <2>1
<1>4. \A i \in 1 .. Len(e) : e[i] <= t /\ e[i] + c <= t + c
  BY <1>1, <1>2, <1>3
<1>5. Cools(e, t + c, c, t)
  BY <1>1, <1>4 DEF Cools
<1>6. ASSUME NEW i \in 1 .. Len(e), NEW j \in 1 .. Len(e), i < j PROVE e[i] + c <= e[j]
  <2>1. i \in 1 .. Len(s)
    BY <1>1, <1>6
  <2>2. CASE j = Len(e)
    BY <1>1, <1>3, <2>1, <2>2
  <2>3. CASE j \in 1 .. Len(s)
    BY <1>1, <1>6, <2>1, <2>3 DEF Spaced
  <2> QED BY <1>2, <2>2, <2>3
<1> QED BY <1>1, <1>5, <1>6 DEF Spaced, e

LEMMA CooldownStep ==
  ASSUME Alerts!TypeOK, Cooling, CooldownHolds, AlertStep
  PROVE  Cooling' /\ CooldownHolds'
<1> USE DEF Alerts!memory, Alerts!round, Alerts!retry, Alerts!bounds, Alerts!ghosts, Alerts!Go
<1>0. OthersOK
  BY AlertsTyped
<1>1. \A r \in Rule : Cools(rounds[r], cooldowns[r], Cooldown[r], alertNow) /\ Spaced(rounds[r], Cooldown[r])
  BY CoolingParts
<1>2. Silences
  BY CoolingParts
<1>3. \A r \in Rule : rounds[r] \in Seq(Nat) /\ cooldowns[r] \in Nat /\ Cooldown[r] \in Nat
  BY <1>0, RulesAssumption DEF OthersOK
<1>a. ASSUME UNCHANGED <<cooldowns, alertNow, rounds, silenced>> PROVE Cooling' /\ CooldownHolds'
  BY <1>1, <1>2, <1>a, CoolingParts DEF Silences
<1>b. ASSUME Alerts!Restart PROVE Cooling' /\ CooldownHolds'
  <2>1. cooldowns' = [r \in Rule |-> 0] /\ rounds' = [r \in Rule |-> <<>>] /\ silenced' = {}
    BY <1>b, AlertNames DEF Alerts!Restart
  <2>2. \A r \in Rule : Cools(rounds'[r], cooldowns'[r], Cooldown[r], alertNow') /\ Spaced(rounds'[r], Cooldown[r])
    BY <2>1 DEF Cools, Spaced
  <2>3. Silences'
    BY <2>1 DEF Silences
  <2> QED BY <2>2, <2>3, CoolingParts
<1>4. ASSUME NEW d \in Dispatcher, NEW n \in DOMAIN Rules, Alerts!FireRule(d, n)
      PROVE  Cooling' /\ CooldownHolds'
  <2> DEFINE q == Rules[n]
  <2>1. q \in Rule
    BY DEF Rule
  <2>2. /\ ~(cooldowns[q] > alertNow)
        /\ cooldowns' = [cooldowns EXCEPT ![q] = alertNow + Cooldown[q]]
        /\ rounds' = [rounds EXCEPT ![q] = Append(@, alertNow)]
        /\ UNCHANGED <<alertNow, silenced>>
    BY <1>4 DEF Alerts!FireRule, Alerts!Silent
  <2> HIDE DEF q
  <2>3. alertNow \in Nat /\ cooldowns[q] <= alertNow
    BY <1>0, <1>3, <2>1, <2>2 DEF OthersOK
  <2>4. /\ Cools(Append(rounds[q], alertNow), alertNow + Cooldown[q], Cooldown[q], alertNow)
        /\ Spaced(Append(rounds[q], alertNow), Cooldown[q])
    BY <1>1, <1>3, <2>1, <2>3, FiresAgain
  <2>5. \A r \in Rule : /\ r # q => rounds'[r] = rounds[r] /\ cooldowns'[r] = cooldowns[r]
                        /\ r = q => rounds'[r] = Append(rounds[q], alertNow) /\ cooldowns'[r] = alertNow + Cooldown[q]
    BY <1>0, <2>1, <2>2 DEF OthersOK
  <2>6. \A r \in Rule : Cools(rounds'[r], cooldowns'[r], Cooldown[r], alertNow') /\ Spaced(rounds'[r], Cooldown[r])
    BY <1>1, <2>2, <2>4, <2>5
  <2>7. Silences'
    <3>1. ASSUME NEW x \in silenced
          PROVE  \E i \in DOMAIN rounds'[x[1]] :
                    rounds'[x[1]][i] <= x[2] /\ x[2] < rounds'[x[1]][i] + Cooldown[x[1]]
      <4>1. x[1] \in Rule
        BY <1>0 DEF OthersOK
      <4>2. PICK i \in DOMAIN rounds[x[1]] :
               rounds[x[1]][i] <= x[2] /\ x[2] < rounds[x[1]][i] + Cooldown[x[1]]
        BY <1>2 DEF Silences
      <4>3. i \in DOMAIN rounds'[x[1]] /\ rounds'[x[1]][i] = rounds[x[1]][i]
        <5>1. \A s \in Seq(Nat), t \in Nat : \A k \in DOMAIN s : k \in DOMAIN Append(s, t) /\ Append(s, t)[k] = s[k]
          OBVIOUS
        <5>2. rounds[x[1]] \in Seq(Nat)
          BY <1>3, <4>1
        <5> QED BY <2>3, <2>5, <4>1, <5>1, <5>2
      <4> QED BY <4>2, <4>3
    <3> QED BY <2>2, <3>1 DEF Silences
  <2> QED BY <2>6, <2>7, CoolingParts
<1>5. ASSUME NEW d \in Dispatcher, NEW n \in DOMAIN Rules, Alerts!SkipRule(d, n)
      PROVE  Cooling' /\ CooldownHolds'
  <2> DEFINE q == Rules[n]
  <2>1. q \in Rule
    BY DEF Rule
  <2>2. cooldowns[q] > alertNow /\ silenced' = silenced \cup {<<q, alertNow>>}
        /\ UNCHANGED <<cooldowns, alertNow, rounds>>
    BY <1>5 DEF Alerts!SkipRule, Alerts!Silent
  <2> HIDE DEF q
  <2>3. alertNow \in Nat
    BY <1>0 DEF OthersOK
  <2>4. \E i \in DOMAIN rounds[q] : rounds[q][i] <= alertNow /\ alertNow < rounds[q][i] + Cooldown[q]
    <3>1. Cools(rounds[q], cooldowns[q], Cooldown[q], alertNow)
      BY <1>1, <2>1
    <3>2. rounds[q] # <<>>
      BY <1>3, <2>1, <2>2, <2>3, <3>1 DEF Cools
    <3>3. Len(rounds[q]) \in DOMAIN rounds[q] /\ rounds[q] \in Seq(Nat)
      BY <1>3, <2>1, <3>2
    <3>4. cooldowns[q] = rounds[q][Len(rounds[q])] + Cooldown[q] /\ rounds[q][Len(rounds[q])] <= alertNow
      BY <3>1, <3>2, <3>3 DEF Cools
    <3>5. rounds[q][Len(rounds[q])] \in Nat /\ Cooldown[q] \in Nat
      BY <1>3, <2>1, <3>3
    <3>6. alertNow < rounds[q][Len(rounds[q])] + Cooldown[q]
      BY <2>2, <2>3, <3>4, <3>5
    <3> QED BY <3>3, <3>4, <3>6
  <2>5. Silences'
    <3>1. ASSUME NEW x \in silenced'
          PROVE  \E i \in DOMAIN rounds[x[1]] :
                    rounds[x[1]][i] <= x[2] /\ x[2] < rounds[x[1]][i] + Cooldown[x[1]]
      <4>1. CASE x \in silenced
        BY <1>2, <4>1 DEF Silences
      <4>2. CASE x = <<q, alertNow>>
        BY <2>4, <4>2
      <4> QED BY <2>2, <3>1, <4>1, <4>2
    <3> QED BY <2>2, <3>1 DEF Silences
  <2> QED BY <1>1, <2>2, <2>5, CoolingParts
<1>6. CASE Alerts!Tick
  <2>1. alertNow' = alertNow + 1 /\ alertNow \in Nat /\ UNCHANGED <<cooldowns, rounds, silenced>>
    BY <1>0, <1>6 DEF Alerts!Tick, OthersOK
  <2>2. \A r \in Rule : \A i \in DOMAIN rounds[r] : rounds[r][i] \in Nat
    BY <1>3
  <2>3. ASSUME NEW r \in Rule PROVE Cools(rounds[r], cooldowns[r], Cooldown[r], alertNow + 1)
    <3>1. Cools(rounds[r], cooldowns[r], Cooldown[r], alertNow)
      BY <1>1
    <3>2. \A i \in DOMAIN rounds[r] : rounds[r][i] <= alertNow + 1
      BY <2>1, <2>2, <3>1 DEF Cools
    <3> QED BY <3>1, <3>2 DEF Cools
  <2> QED BY <1>1, <1>2, <2>1, <2>3, CoolingParts DEF Silences
<1>7. ASSUME NEW d \in Dispatcher,
             (\E e \in Alerts!EventType : Alerts!Dispatch(d, e)) \/ Alerts!Return(d) \/ Alerts!Deliver(d)
             \/ Alerts!GiveUp(d) \/ Alerts!Cancel(d) \/ Alerts!Again(d) \/ Alerts!Record(d)
             \/ \E reply \in Answers : Alerts!Send(d, reply)
      PROVE  UNCHANGED <<cooldowns, alertNow, rounds, silenced>>
  BY <1>7 DEF Alerts!Dispatch, Alerts!Return, Alerts!Deliver, Alerts!GiveUp, Alerts!Cancel, Alerts!Again,
              Alerts!Record, Alerts!Send
<1>8. ASSUME NEW p \in Provider, NEW status, NEW good, Alerts!AddProvider(p) \/ Alerts!UpdateHealth(p, status, good)
      PROVE  UNCHANGED <<cooldowns, alertNow, rounds, silenced>>
  BY <1>8 DEF Alerts!AddProvider, Alerts!UpdateHealth
<1>9. Alerts!Crash => Alerts!Restart
  BY DEF Alerts!Crash
<1>10. \A d \in Dispatcher : Alerts!Overflow(d) => Alerts!Restart
  BY DEF Alerts!Overflow
<1>11. CASE UNCHANGED alertVars
  BY <1>11, <1>a DEF alertVars
<1> QED BY <1>a, <1>b, <1>4, <1>5, <1>6, <1>7, <1>8, <1>9, <1>10, <1>11
    DEF AlertStep, Alerts!Next, Alerts!Step, Answers

-----------------------------------------------------------------------------
(* Whom an alert is for is a provider.                                     *)

LEMMA ListedMore ==
  ASSUME NEW s, Listed(s, providers),
         \A j \in DOMAIN providers : j \in DOMAIN providers' /\ providers'[j] = providers[j]
  PROVE  Listed(s, providers')
BY DEF Listed

\* The deliveries that are kept are to providers.
Sent(st) ==
    \A n \in DOMAIN st.deliveries :
        \E j \in DOMAIN st.providers : st.providers[j] = st.deliveries[n].provider

LEMMA NamedParts ==
  /\ Named <=> (\A d \in Dispatcher : Listed(copied[d], providers) /\ Listed(jobs[d], providers)) /\ Sent(Alerts!Memory) /\ Sent(saved)
  /\ Named' <=> /\ \A d \in Dispatcher : Listed(copied'[d], providers') /\ Listed(jobs'[d], providers')
                /\ Sent(Alerts!Memory') /\ Sent(saved')
<1>1. Named <=> /\ \A d \in Dispatcher : Listed(copied[d], providers) /\ Listed(jobs[d], providers)
                /\ \A st \in {Alerts!Memory, saved} : Sent(st)
  BY DEF Named, Sent
<1>2. Named' <=> /\ \A d \in Dispatcher : Listed(copied'[d], providers') /\ Listed(jobs'[d], providers')
                 /\ \A st \in {Alerts!Memory', saved'} : Sent(st)
  BY DEF Named, Sent
<1> QED BY <1>1, <1>2

LEMMA ListedStep ==
  ASSUME Alerts!TypeOK, \A d \in Dispatcher : Trying(d), Named, AlertStep
  PROVE  \A c \in Dispatcher : Listed(copied'[c], providers') /\ Listed(jobs'[c], providers')
<1> USE DEF Alerts!memory, Alerts!round, Alerts!retry, Alerts!bounds, Alerts!ghosts, Alerts!Go
<1>0. DispatchersOK
  BY AlertsTyped
<1>a. \A d \in Dispatcher : Listed(copied[d], providers) /\ Listed(jobs[d], providers)
  BY NamedParts
<1>b. ASSUME providers' = providers, NEW s, Listed(s, providers) PROVE Listed(s, providers')
  BY <1>b DEF Listed
<1>c. Listed(<<>>, providers')
  BY DEF Listed
<1>1. CASE Restarted
  BY <1>1, <1>c, RestartedFirst
<1>2. ASSUME NEW p \in Provider, Alerts!AddProvider(p), NEW c \in Dispatcher
      PROVE  Listed(copied'[c], providers') /\ Listed(jobs'[c], providers')
  <2>1. providers' = Append(providers, p) /\ copied' = copied /\ jobs' = jobs
    BY <1>2 DEF Alerts!AddProvider
  <2>2. \A j \in DOMAIN providers : j \in DOMAIN providers' /\ providers'[j] = providers[j]
    BY <2>1, StateMemory
  <2> QED BY <1>a, <2>1, <2>2, ListedMore
<1>3. ASSUME ~Restarted, \A p \in Provider : ~Alerts!AddProvider(p) PROVE providers' = providers
  <2>1. \A d \in Dispatcher : Alerts!Record(d) => providers' = providers
    BY DEF Alerts!Record
  <2>2. \A p \in Provider, status \in {Healthy, Unreachable}, good \in BOOLEAN :
           Alerts!UpdateHealth(p, status, good) => providers' = providers
    BY DEF Alerts!UpdateHealth
  <2> QED BY <1>3, <2>1, <2>2, MemoryMoves
<1>4. ASSUME providers' = providers, UNCHANGED <<copied, jobs>>, NEW c \in Dispatcher
      PROVE  Listed(copied'[c], providers') /\ Listed(jobs'[c], providers')
  BY <1>4, <1>a, <1>b
<1>5. ASSUME providers' = providers, NEW d \in Dispatcher, NEW e \in Alerts!EventType, Alerts!Dispatch(d, e),
             NEW c \in Dispatcher
      PROVE  Listed(copied'[c], providers') /\ Listed(jobs'[c], providers')
  <2>1. copied' = [copied EXCEPT ![d] = providers] /\ jobs' = jobs
    BY <1>5 DEF Alerts!Dispatch
  <2>2. Listed(providers, providers)
    BY DEF Listed
  <2>3. copied'[c] = providers \/ copied'[c] = copied[c]
    BY <1>0, <2>1 DEF DispatchersOK
  <2> QED BY <1>5, <1>a, <1>b, <2>1, <2>2, <2>3
<1>6. ASSUME providers' = providers, NEW d \in Dispatcher, NEW n \in DOMAIN Rules, Alerts!FireRule(d, n),
             NEW c \in Dispatcher
      PROVE  Listed(copied'[c], providers') /\ Listed(jobs'[c], providers')
  <2> DEFINE js == Alerts!Recipients(Rules[n], copied[d])
  <2>1. copied' = copied /\ jobs' = [jobs EXCEPT ![d] = js]
    BY <1>6 DEF Alerts!FireRule
  <2>2. js \in Seq(Members(copied[d]))
    <3>1. Rules[n] \in Rule /\ copied[d] \in Seq(Provider)
      BY <1>0 DEF Rule, DispatchersOK
    <3> QED BY <3>1, RecipientsIn
  <2> HIDE DEF js
  <2>3. Listed(js, providers)
    <3>1. \A i \in DOMAIN js : js[i] \in Members(copied[d])
      BY <2>2
    <3>2. Listed(copied[d], providers)
      BY <1>a
    <3> QED BY <3>1, <3>2 DEF Members, Listed
  <2>4. jobs'[c] = js \/ jobs'[c] = jobs[c]
    BY <1>0, <2>1 DEF DispatchersOK
  <2> QED BY <1>6, <1>a, <1>b, <2>1, <2>3, <2>4
<1>7. ASSUME providers' = providers, NEW d \in Dispatcher, Alerts!Return(d), NEW c \in Dispatcher
      PROVE  Listed(copied'[c], providers') /\ Listed(jobs'[c], providers')
  <2>1. copied' = [copied EXCEPT ![d] = <<>>] /\ jobs' = jobs
    BY <1>7 DEF Alerts!Return
  <2>2. copied'[c] = <<>> \/ copied'[c] = copied[c]
    BY <1>0, <2>1 DEF DispatchersOK
  <2> QED BY <1>7, <1>a, <1>b, <1>c, <2>1, <2>2
<1>8. ASSUME providers' = providers, NEW d \in Dispatcher, Alerts!Record(d), NEW c \in Dispatcher
      PROVE  Listed(copied'[c], providers') /\ Listed(jobs'[c], providers')
  <2>1. copied' = copied /\ jobs' = [jobs EXCEPT ![d] = Tail(@)] /\ jobs[d] \in Seq(Provider) /\ jobs[d] # <<>>
    BY <1>8, Recorded
  <2>2. Listed(Tail(jobs[d]), providers)
    <3>1. \A i \in DOMAIN Tail(jobs[d]) : i + 1 \in DOMAIN jobs[d] /\ Tail(jobs[d])[i] = jobs[d][i + 1]
      BY <2>1
    <3>2. Listed(jobs[d], providers)
      BY <1>a
    <3> QED BY <3>1, <3>2 DEF Listed
  <2>3. jobs'[c] = Tail(jobs[d]) \/ jobs'[c] = jobs[c]
    BY <1>0, <2>1 DEF DispatchersOK
  <2> QED BY <1>8, <1>a, <1>b, <2>1, <2>2, <2>3
<1>9. ASSUME NEW d \in Dispatcher,
             (\E n \in DOMAIN Rules : Alerts!SkipRule(d, n)) \/ Alerts!Deliver(d) \/ Alerts!GiveUp(d)
             \/ Alerts!Cancel(d) \/ Alerts!Again(d) \/ \E reply \in Answers : Alerts!Send(d, reply)
      PROVE  UNCHANGED <<copied, jobs>>
  BY <1>9 DEF Alerts!SkipRule, Alerts!Deliver, Alerts!GiveUp, Alerts!Cancel, Alerts!Again, Alerts!Send
<1>10. CASE \E p \in Provider : Alerts!AddProvider(p)
  BY <1>2, <1>10
<1>11. CASE ~Restarted /\ \A p \in Provider : ~Alerts!AddProvider(p)
  <2>1. providers' = providers
    BY <1>3, <1>11
  <2>2. ASSUME NEW d \in Dispatcher, NEW n \in DOMAIN Rules, Alerts!FireRule(d, n) \/ Alerts!SkipRule(d, n)
        PROVE  \A c \in Dispatcher : Listed(copied'[c], providers') /\ Listed(jobs'[c], providers')
    BY <1>4, <1>6, <1>9, <2>1, <2>2
  <2> QED BY <1>4, <1>5, <1>7, <1>8, <1>9, <1>11, <2>1, <2>2, Steps
<1> QED BY <1>1, <1>10, <1>11

LEMMA SentMemory ==
  /\ Sent(Alerts!Memory) <=>
        \A n \in DOMAIN deliveries : \E j \in DOMAIN providers : providers[j] = deliveries[n].provider
  /\ Sent(Alerts!Memory') <=>
        \A n \in DOMAIN deliveries' : \E j \in DOMAIN providers' : providers'[j] = deliveries'[n].provider
BY DEF Sent, Alerts!Memory

LEMMA NamedStep ==
  ASSUME Alerts!TypeOK, \A d \in Dispatcher : Trying(d), Named, AlertStep
  PROVE  Named'
<1>1. Sent(Alerts!Memory) /\ Sent(saved) /\ \A d \in Dispatcher : Listed(jobs[d], providers)
  BY NamedParts
<1>2. Sent(Alerts!Memory')
  <2>1. CASE UNCHANGED <<providers, health, deliveries, saved>>
    BY <1>1, <2>1, SentMemory
  <2>2. CASE Restarted
    BY <1>1, <2>2 DEF Restarted
  <2>3. ASSUME NEW d \in Dispatcher, Alerts!Record(d) PROVE Sent(Alerts!Memory')
    <3> DEFINE x == Outcome(d)
               s == Append(deliveries, x)
    <3>1. /\ x \in Alerts!Delivery /\ deliveries' = Newest(s) /\ providers' = providers
          /\ jobs[d] # <<>> /\ jobs[d] \in Seq(Provider)
      BY <2>3, Recorded
    <3>2. \E j \in DOMAIN providers : providers[j] = x.provider
      <4>1. x.provider = jobs[d][1] /\ 1 \in DOMAIN jobs[d]
        BY <3>1 DEF Outcome
      <4>2. Listed(jobs[d], providers)
        BY <1>1
      <4> HIDE DEF x
      <4> QED BY <4>1, <4>2 DEF Listed
    <3>3. deliveries \in Seq(Alerts!Delivery) /\ Len(deliveries) \in Nat
      BY StateMemory
    <3> HIDE DEF x
    <3>4. s \in Seq(Alerts!Delivery) /\ Len(s) = Len(deliveries) + 1 /\ s[Len(s)] = x
          /\ \A i \in 1 .. Len(deliveries) : s[i] = deliveries[i]
      BY <3>1, <3>3
    <3> HIDE DEF s
    <3>5. \A i \in 1 .. Len(s) : \E j \in DOMAIN providers : providers[j] = s[i].provider
      <4>1. \A i \in 1 .. Len(s) : i = Len(s) \/ i \in 1 .. Len(deliveries)
        BY <3>3, <3>4
      <4>2. \A i \in 1 .. Len(deliveries) : \E j \in DOMAIN providers : providers[j] = deliveries[i].provider
        BY <1>1, <3>3, SentMemory
      <4> QED BY <3>2, <3>4, <4>1, <4>2
    <3>6. PICK k \in Nat : /\ k <= Len(s) /\ Newest(s) \in Seq(Alerts!Delivery) /\ Len(Newest(s)) = Len(s) - k
                           /\ \A i \in 1 .. Len(s) - k : Newest(s)[i] = s[i + k]
      BY <3>4, NewestFacts
    <3>7. \A i \in 1 .. Len(s) - k : i + k \in 1 .. Len(s)
      BY <3>4, <3>6
    <3>8. DOMAIN Newest(s) = 1 .. Len(s) - k
      BY <3>6
    <3>9. \A i \in DOMAIN Newest(s) : \E j \in DOMAIN providers : providers[j] = Newest(s)[i].provider
      BY <3>5, <3>6, <3>7, <3>8
    <3> HIDE DEF Sent
    <3> QED BY <3>1, <3>9, SentMemory
  <2>4. ASSUME NEW p \in Provider, Alerts!AddProvider(p) PROVE Sent(Alerts!Memory')
    <3>1. providers' = Append(providers, p) /\ deliveries' = deliveries
      BY <2>4 DEF Alerts!AddProvider
    <3>2. \A j \in DOMAIN providers : j \in DOMAIN providers' /\ providers'[j] = providers[j]
      BY <3>1, StateMemory
    <3> QED BY <1>1, <3>1, <3>2, SentMemory
  <2>5. ASSUME NEW p \in Provider, NEW status, NEW good, Alerts!UpdateHealth(p, status, good)
        PROVE  Sent(Alerts!Memory')
    <3>1. providers' = providers /\ deliveries' = deliveries
      BY <2>5 DEF Alerts!UpdateHealth
    <3> QED BY <1>1, <3>1, SentMemory
  <2> QED BY <2>1, <2>2, <2>3, <2>4, <2>5, MemoryMoves
<1>3. Sent(saved')
  BY <1>1, <1>2, MemoryMoves
<1> QED BY <1>2, <1>3, ListedStep, NamedParts

-----------------------------------------------------------------------------
(* How the history ends for a provider.                                    *)

TrailSet(h, p, made) ==
    {i \in Alerts!To(p, h) : \A j \in Alerts!To(p, h) : i <= j => h[j].delivered = made}

LEMMA TrailNumber ==
  ASSUME NEW S, NEW h \in Seq(S), NEW p, NEW made
  PROVE  /\ Alerts!Trail(h, p, made) = Cardinality(TrailSet(h, p, made))
         /\ IsFiniteSet(TrailSet(h, p, made)) /\ Alerts!Trail(h, p, made) \in Nat
         /\ Alerts!Trail(h, p, made) = 0 <=> TrailSet(h, p, made) = {}
<1> DEFINE T == TrailSet(h, p, made)
<1>1. Alerts!Trail(h, p, made) = Cardinality(T)
  BY LogNames DEF Alerts!Trail, TrailSet
<1>2. T \subseteq 1 .. Len(h) /\ Len(h) \in Nat
  BY DEF TrailSet, Alerts!To
<1> HIDE DEF T
<1>3. IsFiniteSet(T)
  <2>1. IsFiniteSet(1 .. Len(h))
    BY <1>2, FS_Interval
  <2> QED BY <1>2, <2>1, FS_Subset
<1>4. Cardinality(T) \in Nat
  BY <1>3, FS_CardinalityType
<1>5. Cardinality(T) = 0 <=> T = {}
  BY <1>3, FS_EmptySet
<1> QED BY <1>1, <1>3, <1>4, <1>5 DEF T

\* Another delivery to it that ends the same way, or another.
LEMMA TrailAppended ==
  ASSUME NEW h \in Seq(Alerts!Delivery), NEW x \in Alerts!Delivery, NEW p, NEW made \in BOOLEAN,
         x.provider = p
  PROVE  /\ x.delivered = made => Alerts!Trail(Append(h, x), p, made) = Alerts!Trail(h, p, made) + 1
         /\ x.delivered # made => Alerts!Trail(Append(h, x), p, made) = 0
<1> DEFINE e == Append(h, x)
           n == Len(h) + 1
           T == TrailSet(h, p, made)
           U == TrailSet(e, p, made)
<1>1. /\ e \in Seq(Alerts!Delivery) /\ Len(e) = n /\ e[n] = x
      /\ \A i \in 1 .. Len(h) : e[i] = h[i]
  OBVIOUS
<1> HIDE DEF e
<1>2. DOMAIN e = 1 .. n /\ DOMAIN h = 1 .. Len(h) /\ Len(h) \in Nat /\ n \in DOMAIN e
  BY <1>1
<1>3. Alerts!To(p, e) = Alerts!To(p, h) \cup {n}
  <2>1. \A i \in 1 .. n : i = n \/ i \in 1 .. Len(h)
    BY <1>2
  <2>2. \A i \in 1 .. Len(h) : i \in 1 .. n
    BY <1>2
  <2> HIDE DEF n
  <2> QED BY <1>1, <1>2, <2>1, <2>2 DEF Alerts!To
<1>4. \A i \in Alerts!To(p, h) : i \in 1 .. Len(h) /\ e[i] = h[i] /\ i <= n /\ ~(n <= i) /\ i # n
  BY <1>1, <1>2 DEF Alerts!To
<1>5. n <= n /\ n \notin T
  BY <1>2, <1>4 DEF TrailSet
<1> HIDE DEF n
<1>6. CASE x.delivered = made
  <2>1. U = T \cup {n}
    BY <1>1, <1>3, <1>4, <1>5, <1>6 DEF TrailSet
  <2>2. IsFiniteSet(T)
    BY TrailNumber
  <2> HIDE DEF T, U
  <2>3. Cardinality(U) = Cardinality(T) + 1
    BY <1>5, <2>1, <2>2, FS_AddElement
  <2>4. Alerts!Trail(e, p, made) = Cardinality(U) /\ Alerts!Trail(h, p, made) = Cardinality(T)
    BY <1>1, TrailNumber DEF T, U
  <2> QED BY <1>6, <2>3, <2>4 DEF e
<1>7. CASE x.delivered # made
  <2>1. U = {}
    BY <1>1, <1>3, <1>4, <1>5, <1>7 DEF TrailSet
  <2>2. Alerts!Trail(e, p, made) = 0
    BY <1>1, <2>1, TrailNumber
  <2> QED BY <1>7, <2>2 DEF e
<1> QED BY <1>6, <1>7

\* A delivery to another provider.
LEMMA TrailOfOthers ==
  ASSUME NEW h \in Seq(Alerts!Delivery), NEW x \in Alerts!Delivery, NEW p, x.provider # p
  PROVE  /\ Alerts!To(p, Append(h, x)) = Alerts!To(p, h)
         /\ \A made : Alerts!Trail(Append(h, x), p, made) = Alerts!Trail(h, p, made)
<1> DEFINE e == Append(h, x)
           n == Len(h) + 1
<1>1. /\ e \in Seq(Alerts!Delivery) /\ Len(e) = n /\ e[n] = x
      /\ \A i \in 1 .. Len(h) : e[i] = h[i]
  OBVIOUS
<1> HIDE DEF e
<1>2. DOMAIN e = 1 .. n /\ DOMAIN h = 1 .. Len(h) /\ Len(h) \in Nat
  BY <1>1
<1>3. Alerts!To(p, e) = Alerts!To(p, h)
  <2>1. \A i \in 1 .. n : i = n \/ i \in 1 .. Len(h)
    BY <1>2
  <2>2. \A i \in 1 .. Len(h) : i \in 1 .. n
    BY <1>2
  <2> HIDE DEF n
  <2> QED BY <1>1, <1>2, <2>1, <2>2 DEF Alerts!To
<1>4. \A i \in Alerts!To(p, h) : e[i] = h[i]
  BY <1>1, <1>2 DEF Alerts!To
<1>5. ASSUME NEW made PROVE Alerts!Trail(e, p, made) = Alerts!Trail(h, p, made)
  <2>1. TrailSet(e, p, made) = TrailSet(h, p, made)
    BY <1>3, <1>4 DEF TrailSet
  <2> QED BY <1>1, <2>1, TrailNumber
<1> QED BY <1>3, <1>5 DEF e

\* The end of the history is as long, or all that is left of it.
LEMMA TrailOfNewest ==
  ASSUME NEW s \in Seq(Alerts!Delivery), NEW p, NEW made, Alerts!To(p, Newest(s)) # {}
  PROVE  /\ Alerts!To(p, s) # {}
         /\ Alerts!Trail(Newest(s), p, made) <= Alerts!Trail(s, p, made)
         /\ Alerts!Trail(Newest(s), p, made) = 0 <=> Alerts!Trail(s, p, made) = 0
<1> DEFINE t == Newest(s)
           T == TrailSet(t, p, made)
           S == TrailSet(s, p, made)
<1>1. PICK k \in Nat : /\ k <= Len(s) /\ t \in Seq(Alerts!Delivery) /\ Len(t) = Len(s) - k
                       /\ \A i \in 1 .. Len(s) - k : t[i] = s[i + k]
  BY NewestFacts
<1> HIDE DEF t
<1>2. DOMAIN t = 1 .. Len(s) - k /\ DOMAIN s = 1 .. Len(s) /\ Len(s) \in Nat
  BY <1>1
<1>3. \A i \in 1 .. Len(s) - k : i \in Alerts!To(p, t) <=> i + k \in Alerts!To(p, s)
  <2>1. \A i \in 1 .. Len(s) - k : i + k \in 1 .. Len(s)
    BY <1>1, <1>2
  <2> QED BY <1>1, <1>2, <2>1 DEF Alerts!To
<1>4. \A i \in 1 .. Len(s) : i > k => i - k \in 1 .. Len(s) - k /\ (i - k) + k = i
  BY <1>1, <1>2
<1>5. Alerts!To(p, t) \subseteq 1 .. Len(s) - k /\ Alerts!To(p, s) \subseteq 1 .. Len(s)
  BY <1>2 DEF Alerts!To
<1>6. \A i \in 1 .. Len(s) - k : i \in T <=> i + k \in S
  <2>1. ASSUME NEW i \in 1 .. Len(s) - k, i \in T PROVE i + k \in S
    <3>1. ASSUME NEW j \in Alerts!To(p, s), i + k <= j PROVE s[j].delivered = made
      <4>1. j \in 1 .. Len(s) /\ j > k /\ i <= j - k
        BY <1>1, <1>2, <1>5, <3>1
      <4>2. j - k \in Alerts!To(p, t) /\ t[j - k] = s[j]
        BY <1>1, <1>3, <1>4, <4>1
      <4> QED BY <2>1, <4>1, <4>2 DEF TrailSet
    <3> QED BY <1>3, <2>1, <3>1 DEF TrailSet
  <2>2. ASSUME NEW i \in 1 .. Len(s) - k, i + k \in S PROVE i \in T
    <3>1. ASSUME NEW j \in Alerts!To(p, t), i <= j PROVE t[j].delivered = made
      <4>1. j \in 1 .. Len(s) - k /\ i + k <= j + k
        BY <1>1, <1>2, <1>5, <3>1
      <4>2. j + k \in Alerts!To(p, s) /\ t[j] = s[j + k]
        BY <1>1, <1>3, <4>1
      <4> QED BY <2>2, <4>1, <4>2 DEF TrailSet
    <3>2. i \in Alerts!To(p, t)
      BY <1>3, <2>2 DEF TrailSet
    <3> QED BY <3>1, <3>2 DEF TrailSet
  <2> QED BY <2>1, <2>2
<1>7. T \subseteq 1 .. Len(s) - k /\ S \subseteq 1 .. Len(s) /\ S \subseteq Alerts!To(p, s)
  BY <1>5 DEF TrailSet
<1>8. PICK q \in Alerts!To(p, t) : TRUE
  BY DEF t
<1>9. q \in 1 .. Len(s) - k /\ q + k \in Alerts!To(p, s) /\ q + k \in 1 .. Len(s)
  BY <1>3, <1>5, <1>8
<1>10. T = {} <=> S = {}
  <2>1. ASSUME NEW i \in S PROVE T # {}
    <3>1. CASE i <= q + k
      <4>1. \A j \in Alerts!To(p, s) : q + k <= j => i <= j
        BY <1>1, <1>5, <1>7, <1>9, <3>1
      <4>2. q + k \in S
        BY <1>9, <2>1, <4>1 DEF TrailSet
      <4> QED BY <1>6, <1>9, <4>2
    <3>2. CASE ~(i <= q + k)
      <4>1. i \in 1 .. Len(s) /\ i > k
        BY <1>1, <1>7, <1>9, <2>1, <3>2
      <4> QED BY <1>4, <1>6, <2>1, <4>1
    <3> QED BY <3>1, <3>2
  <2> QED BY <1>6, <1>7, <2>1
<1>11. Cardinality(T) <= Cardinality(S)
  <2> DEFINE f == [i \in T |-> i + k]
  <2>1. f \in Injection(T, S)
    <3>1. \A i \in T : i + k \in S /\ i \in Nat
      BY <1>6, <1>7
    <3>2. f \in [T -> S]
      BY <3>1
    <3>3. \A i, j \in T : f[i] = f[j] => i = j
      BY <1>1, <3>1
    <3> QED BY <3>2, <3>3 DEF Injection, IsInjective
  <2>2. IsFiniteSet(S)
    BY TrailNumber
  <2> HIDE DEF f, T, S
  <2> QED BY <2>1, <2>2, FS_Injection
<1>12. /\ Alerts!Trail(t, p, made) = Cardinality(T) /\ Alerts!Trail(s, p, made) = Cardinality(S)
       /\ Alerts!Trail(t, p, made) = 0 <=> T = {}
       /\ Alerts!Trail(s, p, made) = 0 <=> S = {}
  BY <1>1, TrailNumber
<1> QED BY <1>9, <1>10, <1>11, <1>12 DEF t

-----------------------------------------------------------------------------
(* The health of a provider tells what the history does.                   *)

LEMMA AgreesSays ==
  ASSUME NEW h, NEW p, NEW ds
  PROVE  Alerts!Agrees(h, p, ds) <=>
           (Alerts!To(p, ds) # {} =>
             /\ h.status = IF Alerts!Trail(ds, p, TRUE) > 0 THEN Healthy ELSE Unreachable
             /\ h.successes >= Alerts!Trail(ds, p, TRUE) /\ h.failures >= Alerts!Trail(ds, p, FALSE)
             /\ h.successes = 0 <=> Alerts!Trail(ds, p, TRUE) = 0
             /\ h.failures = 0 <=> Alerts!Trail(ds, p, FALSE) = 0)
BY AlertNames DEF Alerts!Agrees

LEMMA AgreesNewest ==
  ASSUME NEW h \in Health, NEW p, NEW s \in Seq(Alerts!Delivery), Alerts!Agrees(h, p, s)
  PROVE  Alerts!Agrees(h, p, Newest(s))
<1>1. SUFFICES ASSUME Alerts!To(p, Newest(s)) # {} PROVE Alerts!Agrees(h, p, Newest(s))
  BY AgreesSays
<1> DEFINE t == Newest(s)
<1>2. /\ Alerts!To(p, s) # {}
      /\ Alerts!Trail(t, p, TRUE) <= Alerts!Trail(s, p, TRUE)
      /\ Alerts!Trail(t, p, TRUE) = 0 <=> Alerts!Trail(s, p, TRUE) = 0
      /\ Alerts!Trail(t, p, FALSE) <= Alerts!Trail(s, p, FALSE)
      /\ Alerts!Trail(t, p, FALSE) = 0 <=> Alerts!Trail(s, p, FALSE) = 0
  BY <1>1, TrailOfNewest
<1>3. t \in Seq(Alerts!Delivery)
  BY NewestFacts
<1> HIDE DEF t
<1> DEFINE tm == Alerts!Trail(t, p, TRUE)
           tf == Alerts!Trail(t, p, FALSE)
           sm == Alerts!Trail(s, p, TRUE)
           sf == Alerts!Trail(s, p, FALSE)
<1>4. tm \in Nat /\ sm \in Nat /\ tf \in Nat /\ sf \in Nat /\ h.successes \in Nat /\ h.failures \in Nat
  BY <1>3, TrailNumber DEF Health
<1>5. /\ h.status = IF sm > 0 THEN Healthy ELSE Unreachable
      /\ h.successes >= sm /\ h.failures >= sf
      /\ h.successes = 0 <=> sm = 0
      /\ h.failures = 0 <=> sf = 0
  BY <1>2, AgreesSays
<1>6. tm <= sm /\ tf <= sf /\ (tm = 0 <=> sm = 0) /\ (tf = 0 <=> sf = 0)
  BY <1>2
<1>7. Alerts!To(p, t) # {} => Alerts!Agrees(h, p, t) <=>
             /\ h.status = IF tm > 0 THEN Healthy ELSE Unreachable
             /\ h.successes >= tm /\ h.failures >= tf
             /\ h.successes = 0 <=> tm = 0
             /\ h.failures = 0 <=> tf = 0
  BY AgreesSays
<1> HIDE DEF tm, tf, sm, sf
<1>8. h.status = IF tm > 0 THEN Healthy ELSE Unreachable
  <2>1. tm > 0 <=> sm > 0
    BY <1>4, <1>6
  <2> QED BY <1>5, <2>1
<1>9. /\ h.successes >= tm /\ h.failures >= tf
      /\ h.successes = 0 <=> tm = 0
      /\ h.failures = 0 <=> tf = 0
  BY <1>4, <1>5, <1>6
<1> QED BY <1>1, <1>7, <1>8, <1>9 DEF t

\* A delivery to a provider, and to another.
LEMMA AgreesAppended ==
  ASSUME NEW h \in Health, NEW ds \in Seq(Alerts!Delivery), NEW x \in Alerts!Delivery,
         Alerts!Agrees(h, x.provider, ds)
  PROVE  Alerts!Agrees(Observed(h, x.delivered), x.provider, Append(ds, x))
<1> DEFINE p == x.provider
           e == Append(ds, x)
           g == Observed(h, x.delivered)
<1>1. /\ x.delivered \in BOOLEAN /\ h.successes \in Nat /\ h.failures \in Nat
      /\ e \in Seq(Alerts!Delivery)
  BY DEF Alerts!Delivery, Health
<1>2. /\ x.delivered = TRUE => Alerts!Trail(e, p, TRUE) = Alerts!Trail(ds, p, TRUE) + 1
      /\ x.delivered # TRUE => Alerts!Trail(e, p, TRUE) = 0
      /\ x.delivered = FALSE => Alerts!Trail(e, p, FALSE) = Alerts!Trail(ds, p, FALSE) + 1
      /\ x.delivered # FALSE => Alerts!Trail(e, p, FALSE) = 0
  BY TrailAppended
<1>3. Alerts!Trail(ds, p, TRUE) \in Nat /\ Alerts!Trail(ds, p, FALSE) \in Nat
  BY TrailNumber
<1>4. h.successes >= Alerts!Trail(ds, p, TRUE) /\ h.failures >= Alerts!Trail(ds, p, FALSE)
  <2>1. CASE Alerts!To(p, ds) # {}
    BY <2>1, AgreesSays
  <2>2. CASE Alerts!To(p, ds) = {}
    <3>1. TrailSet(ds, p, TRUE) = {} /\ TrailSet(ds, p, FALSE) = {}
      BY <2>2 DEF TrailSet
    <3>2. Alerts!Trail(ds, p, TRUE) = 0 /\ Alerts!Trail(ds, p, FALSE) = 0
      BY <3>1, TrailNumber
    <3>3. h.successes >= 0 /\ h.failures >= 0
      BY <1>1
    <3> QED BY <3>2, <3>3
  <2> QED BY <2>1, <2>2
<1> DEFINE dm == Alerts!Trail(ds, p, TRUE)
           df == Alerts!Trail(ds, p, FALSE)
           em == Alerts!Trail(e, p, TRUE)
           ef == Alerts!Trail(e, p, FALSE)
<1>5. Alerts!Agrees(g, p, e) <=>
        (Alerts!To(p, e) # {} =>
             /\ g.status = IF em > 0 THEN Healthy ELSE Unreachable
             /\ g.successes >= em /\ g.failures >= ef
             /\ g.successes = 0 <=> em = 0
             /\ g.failures = 0 <=> ef = 0)
  BY AgreesSays
<1>6. dm \in Nat /\ df \in Nat /\ h.successes >= dm /\ h.failures >= df
  BY <1>3, <1>4
<1>7. CASE x.delivered = TRUE
  <2>1. g = [status |-> Healthy, successes |-> h.successes + 1, failures |-> 0]
    BY <1>7 DEF Observed
  <2>2. em = dm + 1 /\ ef = 0
    BY <1>2, <1>7
  <2> HIDE DEF g, e, p, em, ef, dm, df
  <2>3. em > 0 /\ em # 0 /\ h.successes + 1 >= em /\ h.successes + 1 # 0 /\ 0 >= ef
    BY <1>1, <1>6, <2>2
  <2>4. Alerts!Agrees(g, p, e)
    BY <1>5, <2>1, <2>2, <2>3
  <2> QED BY <2>4 DEF g, e, p
<1>8. CASE x.delivered = FALSE
  <2>1. g = [status |-> Unreachable, successes |-> 0, failures |-> h.failures + 1]
    BY <1>8 DEF Observed
  <2>2. ef = df + 1 /\ em = 0
    BY <1>2, <1>8
  <2> HIDE DEF g, e, p, em, ef, dm, df
  <2>3. ~(em > 0) /\ ef # 0 /\ h.failures + 1 >= ef /\ h.failures + 1 # 0 /\ 0 >= em
    BY <1>1, <1>6, <2>2
  <2>4. Alerts!Agrees(g, p, e)
    BY <1>5, <2>1, <2>2, <2>3
  <2> QED BY <2>4 DEF g, e, p
<1> QED BY <1>1, <1>7, <1>8

LEMMA AgreesOthers ==
  ASSUME NEW h, NEW ds \in Seq(Alerts!Delivery), NEW x \in Alerts!Delivery, NEW p,
         x.provider # p, Alerts!Agrees(h, p, ds)
  PROVE  Alerts!Agrees(h, p, Append(ds, x))
<1>1. Alerts!To(p, Append(ds, x)) = Alerts!To(p, ds)
      /\ \A made : Alerts!Trail(Append(ds, x), p, made) = Alerts!Trail(ds, p, made)
  BY TrailOfOthers
<1> QED BY <1>1, AgreesSays

\* All healths that nobody else has reported agree with the history.
AllAgree(ps, hs, ds, ch) ==
    \A i \in DOMAIN ps : Alerts!First(ps, i) /\ ps[i] \notin ch => Alerts!Agrees(hs[i], ps[i], ds)

LEMMA AgreeParts ==
  /\ HealthAgreesWithHistory <=>
        /\ AllAgree(providers, health, deliveries, checked)
        /\ AllAgree(saved.providers, saved.health, saved.deliveries, checked)
  /\ HealthAgreesWithHistory' <=>
        /\ AllAgree(providers', health', deliveries', checked')
        /\ AllAgree(saved'.providers, saved'.health, saved'.deliveries, checked')
<1> DEFINE Fine(st, ch) == AllAgree(st.providers, st.health, st.deliveries, ch)
<1>1. HealthAgreesWithHistory <=> \A st \in {Alerts!Memory, saved} : Fine(st, checked)
  BY DEF HealthAgreesWithHistory, Alerts!HealthAgreesWithHistory, AllAgree
<1>2. HealthAgreesWithHistory' <=> \A st \in {Alerts!Memory', saved'} : Fine(st, checked')
  BY DEF HealthAgreesWithHistory, Alerts!HealthAgreesWithHistory, AllAgree
<1>3. /\ Fine(Alerts!Memory, checked) <=> AllAgree(providers, health, deliveries, checked)
      /\ Fine(Alerts!Memory', checked') <=> AllAgree(providers', health', deliveries', checked')
  BY DEF Alerts!Memory
<1>4. /\ Fine(saved, checked) <=> AllAgree(saved.providers, saved.health, saved.deliveries, checked)
      /\ Fine(saved', checked') <=> AllAgree(saved'.providers, saved'.health, saved'.deliveries, checked')
  OBVIOUS
<1> HIDE DEF Fine
<1> QED BY <1>1, <1>2, <1>3, <1>4

LEMMA AgreeMore ==
  ASSUME NEW ps, NEW hs, NEW ds, NEW ch, NEW more, ch \subseteq more, AllAgree(ps, hs, ds, ch)
  PROVE  AllAgree(ps, hs, ds, more)
BY DEF AllAgree

LEMMA AgreeStep ==
  ASSUME Alerts!TypeOK, \A d \in Dispatcher : Trying(d), Named, HealthAgreesWithHistory, AlertStep
  PROVE  HealthAgreesWithHistory'
<1>0. /\ providers \in Seq(Provider) /\ health \in Seq(Health) /\ deliveries \in Seq(Alerts!Delivery)
      /\ Len(providers) = Len(health) /\ DOMAIN health = DOMAIN providers
      /\ DOMAIN providers = 1 .. Len(providers) /\ Len(providers) \in Nat
  BY StateMemory
<1>1. /\ AllAgree(providers, health, deliveries, checked)
      /\ AllAgree(saved.providers, saved.health, saved.deliveries, checked)
  BY AgreeParts
<1>2. checked \subseteq checked' /\ saved' \in {saved, Alerts!Memory'}
  BY MemoryMoves
<1>3. AllAgree(saved.providers, saved.health, saved.deliveries, checked')
  BY <1>1, <1>2, AgreeMore
<1>4. AllAgree(providers', health', deliveries', checked')
  <2>1. CASE UNCHANGED <<providers, health, deliveries, saved>>
    BY <1>1, <1>2, <2>1, AgreeMore
  <2>2. CASE Restarted
    <3>1. providers' = saved.providers /\ health' = saved.health /\ deliveries' = saved.deliveries
      BY <2>2 DEF Restarted, Alerts!Restart
    <3> QED BY <1>3, <3>1
  <2>3. ASSUME NEW d \in Dispatcher, Alerts!Record(d)
        PROVE  AllAgree(providers', health', deliveries', checked')
    <3> DEFINE x == Outcome(d)
               s == Append(deliveries, x)
    <3>1. /\ x \in Alerts!Delivery /\ deliveries' = Newest(s) /\ providers' = providers /\ checked' = checked
          /\ health' = [i \in DOMAIN health |->
                         IF providers[i] = Head(jobs[d]) THEN Observed(health[i], success[d]) ELSE health[i]]
          /\ success[d] \in BOOLEAN
      BY <2>3, Recorded
    <3>2. x.provider = Head(jobs[d]) /\ x.delivered = success[d]
      BY DEF Outcome
    <3> HIDE DEF x
    <3>3. s \in Seq(Alerts!Delivery)
      BY <1>0, <3>1
    <3>4. ASSUME NEW i \in DOMAIN providers, Alerts!First(providers, i), providers[i] \notin checked
          PROVE  Alerts!Agrees(health'[i], providers[i], Newest(s))
      <4>1. Alerts!Agrees(health[i], providers[i], deliveries) /\ health[i] \in Health
        BY <1>0, <1>1, <3>4 DEF AllAgree
      <4>2. CASE providers[i] = x.provider
        <5>1. health'[i] = Observed(health[i], x.delivered)
          BY <1>0, <3>1, <3>2, <4>2
        <5>2. Alerts!Agrees(health'[i], providers[i], s)
          BY <1>0, <3>1, <4>1, <4>2, <5>1, AgreesAppended
        <5>3. health'[i] \in Health
          BY <3>1, <3>2, <4>1, <5>1, ObservedHealth
        <5> QED BY <3>3, <5>2, <5>3, AgreesNewest
      <4>3. CASE providers[i] # x.provider
        <5>1. health'[i] = health[i]
          BY <1>0, <3>1, <3>2, <4>3
        <5>2. Alerts!Agrees(health[i], providers[i], s)
          BY <1>0, <3>1, <4>1, <4>3, AgreesOthers
        <5> QED BY <3>3, <4>1, <5>1, <5>2, AgreesNewest
      <4> QED BY <4>2, <4>3
    <3> HIDE DEF s
    <3> QED BY <3>1, <3>4 DEF AllAgree
  <2>4. ASSUME NEW p \in Provider, Alerts!AddProvider(p)
        PROVE  AllAgree(providers', health', deliveries', checked')
    <3>1. /\ providers' = Append(providers, p) /\ health' = Append(health, NeverSeen)
          /\ deliveries' = deliveries /\ checked' = checked
      BY <2>4, AlertNames DEF Alerts!AddProvider, Alerts!ghosts
    <3> DEFINE n == Len(providers) + 1
    <3>2. /\ DOMAIN providers' = 1 .. n /\ providers'[n] = p
          /\ \A i \in DOMAIN providers : i \in 1 .. n /\ providers'[i] = providers[i] /\ health'[i] = health[i]
                                         /\ i # n /\ ~(n <= i)
      BY <1>0, <3>1
    <3>3. \A i \in 1 .. n : i = n \/ i \in DOMAIN providers
      BY <1>0
    <3>4. n \in 1 .. n
      BY <1>0
    <3> HIDE DEF n
    <3>5. ASSUME NEW i \in DOMAIN providers, Alerts!First(providers', i), providers[i] \notin checked
          PROVE  Alerts!Agrees(health'[i], providers[i], deliveries)
      <4>1. Alerts!First(providers, i)
        BY <3>2, <3>5 DEF Alerts!First
      <4> QED BY <1>1, <3>2, <3>5, <4>1 DEF AllAgree
    <3>6. ASSUME Alerts!First(providers', n) PROVE Alerts!To(p, deliveries) = {}
      <4>1. \A j \in DOMAIN providers : providers[j] # p
        BY <3>2, <3>6 DEF Alerts!First
      <4>2. \A m \in DOMAIN deliveries : \E j \in DOMAIN providers : providers[j] = deliveries[m].provider
        BY NamedParts, SentMemory
      <4> QED BY <4>1, <4>2 DEF Alerts!To
    <3>7. Alerts!First(providers', n) => Alerts!Agrees(health'[n], p, deliveries)
      BY <3>6, AgreesSays
    <3> QED BY <3>1, <3>2, <3>3, <3>5, <3>7 DEF AllAgree
  <2>5. ASSUME NEW p \in Provider, NEW status \in {Healthy, Unreachable}, NEW good \in BOOLEAN,
               Alerts!UpdateHealth(p, status, good)
        PROVE  AllAgree(providers', health', deliveries', checked')
    <3>1. PICK k \in DOMAIN providers :
             /\ providers[k] = p
             /\ health' = [health EXCEPT ![k] = [Observed(health[k], good) EXCEPT !.status = status]]
      BY <2>5, AlertNames DEF Alerts!UpdateHealth
    <3>2. providers' = providers /\ deliveries' = deliveries /\ checked' = checked \cup {p}
      BY <2>5 DEF Alerts!UpdateHealth
    <3>3. \A i \in DOMAIN providers : providers[i] # p => health'[i] = health[i]
      BY <1>0, <3>1
    <3> QED BY <1>1, <3>2, <3>3 DEF AllAgree
  <2> QED BY <2>1, <2>2, <2>3, <2>4, <2>5, MemoryMoves
<1>5. AllAgree(saved'.providers, saved'.health, saved'.deliveries, checked')
  <2>1. Alerts!Memory'.providers = providers' /\ Alerts!Memory'.health = health' /\ Alerts!Memory'.deliveries = deliveries'
    BY DEF Alerts!Memory
  <2> QED BY <1>2, <1>3, <1>4, <2>1
<1> QED BY <1>4, <1>5, AgreeParts

-----------------------------------------------------------------------------
(* The alert manager together.                                             *)

LEMMA AlertsInvFirst == Alerts!Init => AlertsInv
<1> SUFFICES ASSUME Alerts!Init PROVE AlertsInv
  OBVIOUS
<1>0. /\ providers = Known /\ health = [i \in DOMAIN Known |-> NeverSeen] /\ deliveries = <<>>
      /\ saved = Alerts!Memory
      /\ cooldowns = [r \in Rule |-> 0] /\ alertNow = 0
      /\ pc = [d \in Dispatcher |-> "idle"] /\ cancelled = [d \in Dispatcher |-> FALSE]
      /\ copied = [d \in Dispatcher |-> <<>>] /\ todo = [d \in Dispatcher |-> {}]
      /\ rule = [d \in Dispatcher |-> 0] /\ jobs = [d \in Dispatcher |-> <<>>]
      /\ attempt = [d \in Dispatcher |-> 0] /\ tries = [d \in Dispatcher |-> 0]
      /\ success = [d \in Dispatcher |-> FALSE] /\ sends = [d \in Dispatcher |-> <<>>]
      /\ dispatches = 0 /\ events = 0
      /\ rounds = [r \in Rule |-> <<>>] /\ silenced = {} /\ checked = {}
  BY AlertNames DEF Alerts!Init, Alerts!Each
<1>1. DOMAIN <<>> = {} /\ Len(<<>>) = 0 /\ \A S : <<>> \in Seq(S)
  OBVIOUS
<1>2. Alerts!TypeOK
  <2>1. StateOK(Alerts!Memory)
    <3>1. Known \in Seq(Provider) /\ DOMAIN Known = 1 .. Len(Known) /\ Len(Known) \in Nat
      BY RulesAssumption
    <3>2. NeverSeen \in Health
      BY DEF NeverSeen, Health
    <3>3. health \in Seq(Health) /\ Len(health) = Len(Known)
      <4>1. health = [i \in 1 .. Len(Known) |-> NeverSeen]
        BY <1>0, <3>1
      <4> QED BY <3>1, <3>2, <4>1
    <3>4. Len(deliveries) <= MaxHistory
      BY <1>0, <1>1, RetryAssumption
    <3> QED BY <1>0, <1>1, <3>1, <3>3, <3>4, MemoryTyped DEF Alerts!Memory
  <2>2. DispatchersOK
    <3>1. 0 \in 0 .. Len(Rules)
      BY RulesAssumption
    <3>2. pc \in [Dispatcher -> {"idle", "rule", "attempt", "wait", "record"}] /\ cancelled \in [Dispatcher -> BOOLEAN]
          /\ success \in [Dispatcher -> BOOLEAN]
      BY <1>0
    <3>3. copied \in [Dispatcher -> Seq(Provider)] /\ todo \in [Dispatcher -> SUBSET DOMAIN Rules]
          /\ jobs \in [Dispatcher -> Seq(Provider)] /\ sends \in [Dispatcher -> Seq(Answers)]
      BY <1>0, <1>1
    <3>4. rule \in [Dispatcher -> 0 .. Len(Rules)] /\ attempt \in [Dispatcher -> Nat] /\ tries \in [Dispatcher -> Nat]
      BY <1>0, <3>1
    <3>5. \A d \in Dispatcher : pc[d] \notin {"attempt", "wait", "record"}
      BY <1>0
    <3> QED BY <3>2, <3>3, <3>4, <3>5 DEF DispatchersOK
  <2>3. OthersOK
    <3>1. cooldowns \in [Rule -> Nat] /\ rounds \in [Rule -> Seq(Nat)]
      BY <1>0, <1>1
    <3> QED BY <1>0, <3>1 DEF OthersOK
  <2> QED BY <1>0, <2>1, <2>2, <2>3, AlertsTyped
<1>3. Cooling /\ CooldownHolds
  <2>1. \A r \in Rule : Cools(rounds[r], cooldowns[r], Cooldown[r], alertNow) /\ Spaced(rounds[r], Cooldown[r])
    BY <1>0, <1>1 DEF Cools, Spaced
  <2>2. Silences
    BY <1>0 DEF Silences
  <2> QED BY <2>1, <2>2, CoolingParts
<1>4. ASSUME NEW d \in Dispatcher PROVE Trying(d)
  BY <1>0, <1>1 DEF Trying
<1>5. saved.providers = providers /\ saved.health = health /\ saved.deliveries = <<>>
  BY <1>0 DEF Alerts!Memory
<1>6. Named
  <2>1. Sent(saved) /\ Sent(Alerts!Memory)
    BY <1>0, <1>1, <1>5 DEF Sent
  <2>2. \A d \in Dispatcher : Listed(copied[d], providers) /\ Listed(jobs[d], providers)
    BY <1>0, <1>1 DEF Listed
  <2> QED BY <2>1, <2>2, NamedParts
<1>7. HistoryIsTrue
  BY <1>0, <1>1, <1>5, HistoryTrue DEF AllTrue
<1>8. HealthAgreesWithHistory
  <2>1. \A p : Alerts!To(p, <<>>) = {}
    BY <1>1 DEF Alerts!To
  <2>2. \A h, p : Alerts!Agrees(h, p, <<>>)
    BY <2>1, AgreesSays
  <2> QED BY <1>0, <1>5, <2>2, AgreeParts DEF AllAgree
<1> QED BY <1>2, <1>3, <1>4, <1>6, <1>7, <1>8 DEF AlertsInv

LEMMA AlertsInvStep == AlertsInv /\ AlertStep => AlertsInv'
BY AlertsTypeStep, CooldownStep, TryingStep, NamedStep, HistoryStep, AgreeStep DEF AlertsInv

LEMMA AlertsInvSays ==
  AlertsInv => CooldownHolds /\ HistoryIsTrue /\ HealthAgreesWithHistory
BY DEF AlertsInv

-----------------------------------------------------------------------------
(* The four services together.                                             *)

ServicesInv == LogInv /\ AlertsInv /\ Limits!Inv /\ AuditInv

\* Each service makes steps of its own, or none.
LEMMA ServiceSteps ==
  ASSUME [Next]_vars
  PROVE  LogStep /\ AlertStep /\ [Limiter!Next]_limiterVars /\ AuditStep
BY DEF Next, vars, LogStep, AlertStep, AuditStep

LEMMA ServicesFirst == Init => ServicesInv
BY LogInvFirst, AlertsInvFirst, LimiterFirst, AuditInvFirst DEF Init, ServicesInv

LEMMA ServicesStep == ServicesInv /\ [Next]_vars => ServicesInv'
BY ServiceSteps, LogInvStep, AlertsInvStep, LimiterInv, AuditInvStep DEF ServicesInv

\* The invariants of the four services hold in every state.
THEOREM Invariant == Spec => []ServicesInv
BY ServicesFirst, ServicesStep, PTL DEF Spec

\* Each variable of the services is what it is meant to be: no file, queue, history,
\* bucket or page holds anything else.
THEOREM TypeInvariant == Spec => []TypeOK
<1>1. ServicesInv => TypeOK
  BY LimiterSafe DEF ServicesInv, LogInv, AlertsInv, AuditInv, TypeOK
<1> QED BY <1>1, Invariant, PTL

\* What Manager.Write acknowledged is in the log or an archive, through rotations,
\* failed writes and crashes, but for what is excused: entries that were cleared, that
\* expired with their archive, that came after a torn line, or whose archive a power
\* failure took before it was written back.
THEOREM AcknowledgedEntriesAreKept == Spec => []AcknowledgedIsKept
<1>1. ServicesInv => AcknowledgedIsKept
  BY LogInvSays DEF ServicesInv
<1> QED BY <1>1, Invariant, PTL

\* A query returns entries once and in their order, while others append, rotate and
\* clear.  If none of them empties the file it misses nothing that was there when it
\* began and shows nothing that was never logged; each time that one does while the
\* query has read a part of a line, one line made of two may be shown.
THEOREM QueriesAreTrue == Spec => []QueriesTellTheLog
<1>1. ServicesInv => QueriesTellTheLog
  BY LogInvSays DEF ServicesInv
<1> QED BY <1>1, Invariant, PTL

\* A stream that was never told of a loss has seen, or is to see, all that was
\* acknowledged since it began, in order.
THEOREM StreamsAreTrue == Spec => []StreamsFollowTheLog
<1>1. ServicesInv => StreamsFollowTheLog
  BY LogInvSays DEF ServicesInv
<1> QED BY <1>1, Invariant, PTL

\* The archives are at most as many as the retention, and one for each rotation or
\* removal that failed since the last rotation that succeeded.
THEOREM ArchivesStayFew == Spec => []ArchivesAreBounded
<1>1. ServicesInv => ArchivesAreBounded
  BY DEF ServicesInv, LogInv
<1> QED BY <1>1, Invariant, PTL

\* Two dispatches cannot fire a rule twice within its cooldown, and no rule is silent
\* for another reason.
THEOREM CooldownsHold == Spec => []CooldownHolds
<1>1. ServicesInv => CooldownHolds
  BY AlertsInvSays DEF ServicesInv
<1> QED BY <1>1, Invariant, PTL

\* The delivery history, in memory and in the file, says what the providers answered.
THEOREM TheHistoryIsTrue == Spec => []HistoryIsTrue
<1>1. ServicesInv => HistoryIsTrue
  BY AlertsInvSays DEF ServicesInv
<1> QED BY <1>1, Invariant, PTL

\* A provider's health and its part of the history agree, in memory and in the file,
\* whatever fails or dies between.
THEOREM HealthIsTrue == Spec => []HealthAgreesWithHistory
<1>1. ServicesInv => HealthAgreesWithHistory
  BY AlertsInvSays DEF ServicesInv
<1> QED BY <1>1, Invariant, PTL


\* No bucket outlives its use by more than the time between two sweeps.
THEOREM BucketsAreForgotten == Spec => []IdleBucketsGo
<1>1. ServicesInv => IdleBucketsGo
  BY LimiterSafe DEF ServicesInv
<1> QED BY <1>1, Invariant, PTL

\* Also among the other services, the limiter answers as the abstract buckets do, for
\* any limit and burst: a client is given the burst again only if it was idle.
THEOREM Implementation == Spec => ImplementsTokenBuckets
<1>1. Init => Limiter!Buckets!Init
  BY LimiterFirst DEF Init
<1>2. ServicesInv /\ [Next]_vars => [Limiter!Buckets!Next]_Limiter!Buckets!vars
  BY ServiceSteps, LimiterRefines DEF ServicesInv
<1> QED
  BY <1>1, <1>2, Invariant, PTL DEF Spec, ImplementsTokenBuckets, Limiter!ImplementsTokenBuckets, Limiter!Buckets!Spec

\* Recorded actions stay in the trail, and the pages of a client join into the
\* beginning of what it asked for, unless a power failure took what it was shown.
THEOREM TrailIsWhole == Spec => []AuditIsATrail
<1>1. ServicesInv => AuditIsATrail
  BY AuditInvSays DEF ServicesInv
<1> QED BY <1>1, Invariant, PTL
=============================================================================
