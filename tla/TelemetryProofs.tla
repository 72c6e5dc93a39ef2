--------------------------- MODULE TelemetryProofs ----------------------------
(***************************************************************************)
(* Proofs about Telemetry, for any kinds of attacks, any number of streams *)
(* with channels of any capacity, any history to start from and any        *)
(* bounds.                                                                 *)
(***************************************************************************)
EXTENDS Telemetry, SequenceTheorems, WellFoundedInduction, TLAPS

-----------------------------------------------------------------------------
(* The inductive invariant.                                                *)

\* The log and the open streams are subscribed, each under its identifier, and
\* no identifier is beyond the next one.
Registered ==
    /\ 0 \in DOMAIN subscribers /\ subscribers[0] = Log /\ nextID > 0
    /\ \A i \in DOMAIN subscribers :
          /\ i \in Nat /\ i < nextID
          /\ i # 0 => subscribers[i] \in Stream /\ id[subscribers[i]] = i
    /\ \A s \in Stream : id[s] # 0 => id[s] \in DOMAIN subscribers /\ subscribers[id[s]] = s

\* Whom a publisher has yet to call is subscribed or was; only the log is 0.
Addressed ==
    \A p \in Publisher : \A x \in todo[p] : x[1] < nextID /\ (x[1] = 0 <=> x[2] = Log)

\* Nothing is left of a stream that was closed.
ClosedAreEmpty ==
    \A s \in Stream : id[s] = 0 => queue[s] = <<>> /\ owed[s] = <<>> /\ s \notin lost

\* What the publishers have yet to publish: a transition is the last of it, and
\* the second publisher has none.
Agendas ==
    /\ agenda["other"] \in {<<>>, <<"Other">>}
    /\ \A n \in 1 .. Len(agenda["loop"]) - 1 : agenda["loop"][n] \notin Transitions
    /\ \A p \in Publisher : todo[p] # {} => agenda[p] # <<>>
    /\ pc = "idle" => agenda["loop"] = <<>>
    /\ pc # "publish" => todo["loop"] = {}

\* A stream that has been slow enough owes its client what is in its channel, and
\* the event that is being published unless it was given it.
Pending(s) ==
    IF <<id[s], s>> \in todo["loop"] THEN Transitional(<<Head(agenda["loop"])>>) ELSE <<>>

OwedIsQueued ==
    \A s \in Stream :
        id[s] # 0 /\ s \notin lost => owed[s] = Transitional(queue[s]) \o Pending(s)

\* The last event on the detector's agenda is a transition the log was not given.
Outstanding ==
    LET a == agenda["loop"]
    IN  /\ a # <<>> /\ a[Len(a)] \in Transitions
        /\ ~(Len(a) = 1 /\ todo["loop"] # {} /\ <<0, Log>> \notin todo["loop"])

\* The last event on a publisher's agenda, if there is any.
LastOn(s) == s[Len(s)]

\* The log, with that transition, says what the status is.
LogIsBehind ==
    /\ \A n \in DOMAIN log :
          n - 1 \notin gaps => (log[n] = "AttackDetected" <=> ~SaysUnderAttack(n - 1))
    /\ Outstanding => (status = "under_attack" <=> LastOn(agenda["loop"]) = "AttackDetected")
    /\ Len(log) \notin gaps =>
          (status = "under_attack" <=>
              IF Outstanding THEN ~SaysUnderAttack(Len(log)) ELSE SaysUnderAttack(Len(log)))

\* The statistics are those of the signals, and so is the history but for the
\* moment before it is recorded.
Monitored ==
    /\ status # "starting" => status = Status(signals)
    /\ pc \in {"idle", "publish"} /\ status # "starting" => ActiveKinds(attacks) = signals
    /\ pc = "record" => samples > 0 /\ status # "starting"

\* What is in the file, memory has too.
Continues(f, h) ==
    \A i \in DOMAIN f :
        /\ i \in DOMAIN h
        /\ h[i].kind = f[i].kind /\ h[i].start = f[i].start
        /\ f[i].end # 0 => h[i].end = f[i].end

FileIsBehind ==
    /\ up => Continues(file, attacks)
    /\ ~up => pc = "idle" /\ status = "starting"

IInv ==
    /\ TypeOK /\ Registered /\ Addressed /\ ClosedAreEmpty /\ Agendas
    /\ OwedIsQueued /\ LogIsBehind /\ Monitored /\ FileIsBehind /\ OneActiveAttackPerKind

-----------------------------------------------------------------------------
(* Induction on the natural numbers, for sets, and from it what Selected   *)
(* computes.                                                               *)

Less == {x \in Nat \X Nat : x[1] < x[2]}

LEMMA SetInduction ==
  ASSUME NEW S \in SUBSET Nat, 0 \in S, \A n \in S : n + 1 \in S
  PROVE  S = Nat
<1>1. SUFFICES ASSUME Nat \ S # {} PROVE FALSE
  OBVIOUS
<1>2. IsWellFoundedOn(Less, Nat)
  BY NatLessThanWellFounded DEF OpToRel, Less
<1>3. PICK x \in Nat \ S : \A y \in Nat \ S : <<y, x>> \notin Less
  BY <1>1, <1>2, WFMin
<1>4. \A y \in Nat : y < x => y \in S
  BY <1>3 DEF Less
<1>5. x - 1 \in S /\ (x - 1) + 1 = x
  BY <1>4
<1> QED BY <1>5

LEMMA UpTo ==
  ASSUME NEW m \in Nat, NEW K, 0 \in K, \A n \in Nat : n < m /\ n \in K => n + 1 \in K
  PROVE  m \in K
<1> DEFINE S == {n \in Nat : n <= m => n \in K}
<1>1. S \in SUBSET Nat /\ 0 \in S /\ \A n \in S : n + 1 \in S
  OBVIOUS
<1>2. S = Nat
  BY <1>1, SetInduction
<1> QED BY <1>2

Steps(f, s, T, k) ==
    /\ f[0] = <<>>
    /\ \A n \in 1 .. k : f[n] = IF s[n] \in T THEN Append(f[n - 1], s[n]) ELSE f[n - 1]

LEMMA StepsExist ==
  ASSUME NEW s, NEW T, NEW m \in Nat
  PROVE  \E f : f = [n \in 0 .. m |-> f[n]] /\ Steps(f, s, T, m)
<1> DEFINE P(k) == \E f : f = [n \in 0 .. k |-> f[n]] /\ Steps(f, s, T, k)
<1>1. P(0)
  <2> DEFINE f == [n \in 0 .. 0 |-> <<>>]
  <2>1. f = [n \in 0 .. 0 |-> f[n]] /\ Steps(f, s, T, 0)
    BY DEF Steps
  <2> QED BY <2>1
<1>2. ASSUME NEW k \in Nat, P(k) PROVE P(k + 1)
  <2>1. PICK f : f = [n \in 0 .. k |-> f[n]] /\ Steps(f, s, T, k)
    BY <1>2
  <2> DEFINE g == [n \in 0 .. k + 1 |-> IF n <= k THEN f[n]
                       ELSE IF s[n] \in T THEN Append(f[k], s[n]) ELSE f[k]]
  <2>2. g = [n \in 0 .. k + 1 |-> g[n]] /\ g[0] = <<>>
    BY <2>1 DEF Steps
  <2>3. ASSUME NEW n \in 1 .. k + 1
        PROVE  g[n] = IF s[n] \in T THEN Append(g[n - 1], s[n]) ELSE g[n - 1]
    <3>1. CASE n <= k
      <4>1. n \in 1 .. k /\ n - 1 \in 0 .. k + 1 /\ n - 1 <= k
        BY <3>1
      <4>2. g[n] = f[n] /\ g[n - 1] = f[n - 1]
        BY <4>1
      <4> QED BY <4>1, <4>2, <2>1 DEF Steps
    <3>2. CASE n = k + 1
      BY <3>2
    <3> QED BY <3>1, <3>2
  <2>4. Steps(g, s, T, k + 1)
    BY <2>2, <2>3 DEF Steps
  <2> HIDE DEF g
  <2> QED BY <2>2, <2>4
<1> DEFINE K == {n \in Nat : P(n)}
<1> HIDE DEF P
<1>a. 0 \in K
  BY <1>1
<1>b. \A n \in Nat : n < m /\ n \in K => n + 1 \in K
  BY <1>2
<1>c. m \in K
  <2> HIDE DEF K
  <2> QED BY <1>a, <1>b, UpTo
<1> QED BY <1>c DEF P

LEMMA SelectedSteps ==
  ASSUME NEW S, NEW s \in Seq(S), NEW T
  PROVE  \E f : Steps(f, s, T, Len(s)) /\ Selected(s, T) = f[Len(s)]
<1> DEFINE Rec(f) == f = [n \in 0 .. Len(s) |->
                            IF n = 0 THEN <<>>
                            ELSE IF s[n] \in T THEN Append(f[n - 1], s[n]) ELSE f[n - 1]]
           f == CHOOSE h : Rec(h)
<1>0. Len(s) \in Nat
  OBVIOUS
<1>1. PICK g : g = [n \in 0 .. Len(s) |-> g[n]] /\ Steps(g, s, T, Len(s))
  BY <1>0, StepsExist
<1>2. \A n \in 0 .. Len(s) : g[n] = IF n = 0 THEN <<>>
            ELSE IF s[n] \in T THEN Append(g[n - 1], s[n]) ELSE g[n - 1]
  BY <1>1 DEF Steps
<1>3. Rec(g)
  BY <1>1, <1>2
<1>4. Selected(s, T) = f[Len(s)]
  BY DEF Selected
<1>5. Rec(f)
  <2> HIDE DEF Rec
  <2> QED BY <1>3
<1> HIDE DEF f
<1>6. \A n \in 0 .. Len(s) : f[n] = IF n = 0 THEN <<>>
            ELSE IF s[n] \in T THEN Append(f[n - 1], s[n]) ELSE f[n - 1]
  BY <1>5
<1>7. Steps(f, s, T, Len(s))
  BY <1>0, <1>6 DEF Steps
<1> QED BY <1>4, <1>7

LEMMA StepsAgree ==
  ASSUME NEW T, NEW m \in Nat, NEW s, NEW t, \A n \in 1 .. m : s[n] = t[n],
         NEW f, NEW g, Steps(f, s, T, m), Steps(g, t, T, m)
  PROVE  f[m] = g[m]
<1> DEFINE P(n) == f[n] = g[n]
           K == {n \in Nat : P(n)}
<1>1. P(0)
  BY DEF Steps
<1>2. ASSUME NEW n \in Nat, n < m, P(n) PROVE P(n + 1)
  <2>1. n + 1 \in 1 .. m /\ (n + 1) - 1 = n
    BY <1>2
  <2> QED BY <1>2, <2>1 DEF Steps
<1> HIDE DEF P
<1>a. 0 \in K
  BY <1>1
<1>b. \A n \in Nat : n < m /\ n \in K => n + 1 \in K
  BY <1>2
<1>c. m \in K
  <2> HIDE DEF K
  <2> QED BY <1>a, <1>b, UpTo
<1> QED BY <1>c DEF P

LEMMA SelectedEmpty ==
  ASSUME NEW T
  PROVE  Selected(<<>>, T) = <<>>
<1>1. <<>> \in Seq({}) /\ Len(<<>>) = 0
  OBVIOUS
<1>2. PICK f : Steps(f, <<>>, T, 0) /\ Selected(<<>>, T) = f[0]
  BY <1>1, SelectedSteps
<1> QED BY <1>2 DEF Steps

LEMMA SelectedAppend ==
  ASSUME NEW S, NEW s \in Seq(S), NEW e \in S, NEW T
  PROVE  Selected(Append(s, e), T) = IF e \in T THEN Append(Selected(s, T), e) ELSE Selected(s, T)
<1> DEFINE t == Append(s, e)
<1>1. t \in Seq(S) /\ Len(t) = Len(s) + 1 /\ t[Len(t)] = e /\ Len(s) \in Nat
      /\ \A n \in 1 .. Len(s) : t[n] = s[n]
  OBVIOUS
<1> HIDE DEF t
<1>2. PICK f : Steps(f, s, T, Len(s)) /\ Selected(s, T) = f[Len(s)]
  BY SelectedSteps
<1>3. PICK g : Steps(g, t, T, Len(t)) /\ Selected(t, T) = g[Len(t)]
  BY SelectedSteps, <1>1
<1>4. f[Len(s)] = g[Len(s)]
  <2>1. Steps(g, t, T, Len(s))
    BY <1>1, <1>3 DEF Steps
  <2> QED BY <1>1, <1>2, <2>1, StepsAgree
<1>5. g[Len(t)] = IF e \in T THEN Append(g[Len(s)], e) ELSE g[Len(s)]
  BY <1>1, <1>3 DEF Steps
<1> QED BY <1>2, <1>3, <1>4, <1>5 DEF t

LEMMA SelectedFacts ==
  ASSUME NEW S, NEW s \in Seq(S), NEW T
  PROVE  /\ Selected(s, T) \in Seq(S \cap T)
         /\ \A i \in DOMAIN s : s[i] \in T => \E j \in DOMAIN Selected(s, T) : Selected(s, T)[j] = s[i]
         /\ \A j \in DOMAIN Selected(s, T) : \E i \in DOMAIN s : Selected(s, T)[j] = s[i]
         /\ (\A i, j \in DOMAIN s : s[i] = s[j] => i = j) =>
               \A i, j \in DOMAIN Selected(s, T) : Selected(s, T)[i] = Selected(s, T)[j] => i = j
<1> DEFINE Distinct == \A i, j \in DOMAIN s : s[i] = s[j] => i = j
<1>1. PICK f : Steps(f, s, T, Len(s)) /\ Selected(s, T) = f[Len(s)]
  BY SelectedSteps
<1> DEFINE P(n) ==
      /\ f[n] \in Seq(S \cap T)
      /\ \A i \in 1 .. n : s[i] \in T => \E j \in DOMAIN f[n] : f[n][j] = s[i]
      /\ \A j \in DOMAIN f[n] : \E i \in 1 .. n : f[n][j] = s[i]
      /\ Distinct => \A i, j \in DOMAIN f[n] : f[n][i] = f[n][j] => i = j
    K == {n \in Nat : P(n)}
<1>2. P(0)
  <2>1. f[0] = <<>> /\ <<>> \in Seq(S \cap T) /\ DOMAIN <<>> = {}
    BY <1>1 DEF Steps
  <2> QED BY <2>1
<1>3. ASSUME NEW n \in Nat, n < Len(s), P(n) PROVE P(n + 1)
  <2>2. n \in Nat /\ n + 1 \in 1 .. Len(s) /\ (n + 1) - 1 = n /\ Len(s) \in Nat
        /\ DOMAIN s = 1 .. Len(s)
    BY <1>3
  <2>3. P(n)
    BY <1>3
  <2>4. CASE s[n + 1] \notin T
    <3>1. f[n + 1] = f[n]
      BY <1>1, <2>2, <2>4 DEF Steps
    <3>2. \A i \in 1 .. n + 1 : s[i] \in T => i \in 1 .. n
      BY <2>2, <2>4
    <3> QED BY <3>1, <3>2, <2>3, <2>2
  <2>5. CASE s[n + 1] \in T
    <3> DEFINE u == f[n]
               v == f[n + 1]
               e == s[n + 1]
    <3>1. v = Append(u, e)
      BY <1>1, <2>2, <2>5 DEF Steps
    <3>2. u \in Seq(S \cap T) /\ e \in S \cap T
      BY <2>2, <2>3, <2>5
    <3>3. v \in Seq(S \cap T) /\ Len(v) = Len(u) + 1 /\ DOMAIN v = 1 .. Len(u) + 1 /\ Len(u) \in Nat
          /\ DOMAIN u = 1 .. Len(u)
          /\ v[Len(u) + 1] = e /\ \A i \in 1 .. Len(u) : v[i] = u[i]
      <4> HIDE DEF u, v, e
      <4> QED BY <3>1, <3>2
    <3>4. \A i \in 1 .. n + 1 : s[i] \in T => \E j \in DOMAIN v : v[j] = s[i]
      <4> SUFFICES ASSUME NEW i \in 1 .. n + 1, s[i] \in T PROVE \E j \in DOMAIN v : v[j] = s[i]
        OBVIOUS
      <4>1. CASE i = n + 1
        <5>1. Len(u) + 1 \in DOMAIN v /\ v[Len(u) + 1] = s[i]
          BY <4>1, <3>3
        <5> QED BY <5>1
      <4>2. CASE i # n + 1
        <5>1. i \in 1 .. n
          BY <4>2, <2>2
        <5>2. PICK j \in DOMAIN u : u[j] = s[i]
          BY <2>3, <5>1
        <5>3. j \in DOMAIN v /\ v[j] = s[i]
          BY <5>2, <3>3
        <5> QED BY <5>3
      <4> QED BY <4>1, <4>2
    <3>5. \A j \in DOMAIN v : \E i \in 1 .. n + 1 : v[j] = s[i]
      <4> SUFFICES ASSUME NEW j \in DOMAIN v PROVE \E i \in 1 .. n + 1 : v[j] = s[i]
        OBVIOUS
      <4>1. CASE j = Len(u) + 1
        <5>1. n + 1 \in 1 .. n + 1
          BY <2>2
        <5> QED BY <4>1, <3>3, <5>1
      <4>2. CASE j # Len(u) + 1
        <5>1. j \in DOMAIN u /\ v[j] = u[j]
          BY <4>2, <3>3
        <5>2. PICK i \in 1 .. n : u[j] = s[i]
          BY <2>3, <5>1
        <5>3. i \in 1 .. n + 1
          BY <2>2
        <5> QED BY <5>1, <5>2, <5>3
      <4> QED BY <4>1, <4>2
    <3>6. ASSUME Distinct, NEW i \in DOMAIN v, NEW j \in DOMAIN v, v[i] = v[j] PROVE i = j
      <4>1. \A k \in DOMAIN u : v[k] # e
        <5> SUFFICES ASSUME NEW k \in DOMAIN u, v[k] = e PROVE FALSE
          OBVIOUS
        <5>1. PICK m \in 1 .. n : u[k] = s[m]
          BY <2>3
        <5>2. s[m] = s[n + 1] /\ m \in DOMAIN s /\ n + 1 \in DOMAIN s /\ m # n + 1
          BY <5>1, <3>3, <2>2
        <5> QED BY <3>6, <5>2
      <4>2. CASE i \in DOMAIN u /\ j \in DOMAIN u
        BY <4>2, <2>3, <3>3, <3>6
      <4>3. CASE i \notin DOMAIN u \/ j \notin DOMAIN u
        <5>1. v[Len(u) + 1] = e /\ \A k \in DOMAIN v : k \notin DOMAIN u => k = Len(u) + 1
          BY <3>3
        <5> QED BY ONLY <3>6, <4>1, <4>3, <5>1
      <4> QED BY <4>2, <4>3
    <3> QED BY <3>3, <3>4, <3>5, <3>6
  <2> QED BY <2>4, <2>5
<1>4. Len(s) \in Nat /\ DOMAIN s = 1 .. Len(s)
  OBVIOUS
<1>5. P(Len(s))
  <2> HIDE DEF P
  <2>a. 0 \in K
    BY <1>2
  <2>b. \A n \in Nat : n < Len(s) /\ n \in K => n + 1 \in K
    BY <1>3
  <2>c. Len(s) \in K
    <3> HIDE DEF K
    <3> QED BY <1>4, <2>a, <2>b, UpTo
  <2> QED BY <2>c
<1> QED BY <1>1, <1>4, <1>5

LEMMA SelectedHead ==
  ASSUME NEW S, NEW s \in Seq(S), s # <<>>, NEW T
  PROVE  Selected(s, T) = (IF Head(s) \in T THEN <<Head(s)>> ELSE <<>>) \o Selected(Tail(s), T)
<1> DEFINE t == Tail(s)
           first == IF Head(s) \in T THEN <<Head(s)>> ELSE <<>>
<1>1. /\ t \in Seq(S) /\ Len(s) = Len(t) + 1 /\ Len(t) \in Nat /\ Head(s) = s[1]
      /\ \A n \in 1 .. Len(t) : t[n] = s[n + 1]
      /\ Head(s) \in S
      /\ \A n \in 1 .. Len(s) : s[n] \in S
  OBVIOUS
<1> HIDE DEF t
<1>2. PICK f : Steps(f, s, T, Len(s)) /\ Selected(s, T) = f[Len(s)]
  BY SelectedSteps
<1>3. PICK g : Steps(g, t, T, Len(t)) /\ Selected(t, T) = g[Len(t)]
  BY SelectedSteps, <1>1
<1>4. first \in Seq(S)
  BY <1>1
<1> DEFINE P(n) == g[n] \in Seq(S) /\ f[n + 1] = first \o g[n]
           K == {n \in Nat : P(n)}
<1>5. P(0)
  <2>1. 1 \in 1 .. Len(s) /\ 1 - 1 = 0
    BY <1>1
  <2>2. f[1] = first
    <3>1. f[1] = IF s[1] \in T THEN Append(f[0], s[1]) ELSE f[0]
      BY <2>1, <1>2 DEF Steps
    <3>2. f[0] = <<>>
      BY <1>2 DEF Steps
    <3>3. Append(<<>>, s[1]) = <<s[1]>>
      OBVIOUS
    <3> QED BY <3>1, <3>2, <3>3, <1>1
  <2>3. g[0] = <<>>
    BY <1>3 DEF Steps
  <2>4. <<>> \in Seq(S) /\ first \o <<>> = first
    <3> HIDE DEF first
    <3> QED BY <1>4, ConcatEmptySeq
  <2> HIDE DEF first
  <2> QED BY <2>2, <2>3, <2>4
<1>6. ASSUME NEW n \in Nat, n < Len(t), P(n) PROVE P(n + 1)
  <2>2. n + 1 \in 1 .. Len(t) /\ n + 2 \in 1 .. Len(s) /\ (n + 1) - 1 = n /\ (n + 2) - 1 = n + 1
        /\ (n + 1) + 1 = n + 2
    BY <1>1, <1>6
  <2>3. g[n] \in Seq(S) /\ f[n + 1] = first \o g[n]
    BY <1>6
  <2>4. g[n + 1] = IF t[n + 1] \in T THEN Append(g[n], t[n + 1]) ELSE g[n]
    BY <2>2, <1>3 DEF Steps
  <2>5. f[n + 2] = IF s[n + 2] \in T THEN Append(f[n + 1], s[n + 2]) ELSE f[n + 1]
    BY <2>2, <1>2 DEF Steps
  <2>6. t[n + 1] = s[n + 2] /\ s[n + 2] \in S
    BY <2>2, <1>1
  <2>7. g[n + 1] \in Seq(S)
    BY <2>3, <2>4, <2>6
  <2>8. f[n + 2] = first \o g[n + 1]
    <3>1. CASE s[n + 2] \in T
      <4>1. Append(first \o g[n], s[n + 2]) = first \o Append(g[n], s[n + 2])
        <5> DEFINE u == g[n]
                   e == s[n + 2]
        <5>1. u \in Seq(S) /\ e \in S
          BY <2>3, <2>6
        <5> HIDE DEF u, e
        <5>2. <<e>> \in Seq(S) /\ Append(u, e) = u \o <<e>>
          BY <5>1, AppendIsConcat
        <5>3. first \o u \in Seq(S) /\ Append(first \o u, e) = (first \o u) \o <<e>>
          <6> HIDE DEF first
          <6> QED BY <5>1, <1>4, AppendIsConcat, ConcatProperties
        <5> HIDE DEF first
        <5>4. (first \o u) \o <<e>> = first \o (u \o <<e>>)
          BY <5>1, <5>2, <1>4, ConcatAssociative
        <5> QED BY <5>2, <5>3, <5>4 DEF u, e
      <4> HIDE DEF first
      <4> QED BY <4>1, <3>1, <2>3, <2>4, <2>5, <2>6
    <3>2. CASE s[n + 2] \notin T
      BY <3>2, <2>3, <2>4, <2>5, <2>6
    <3> QED BY <3>1, <3>2
  <2> QED BY <2>2, <2>7, <2>8
<1>7. P(Len(t))
  <2> HIDE DEF P
  <2>a. 0 \in K
    BY <1>5
  <2>b. \A n \in Nat : n < Len(t) /\ n \in K => n + 1 \in K
    BY <1>6
  <2>c. Len(t) \in K
    <3> HIDE DEF K
    <3> QED BY <1>1, <2>a, <2>b, UpTo
  <2> QED BY <2>c
<1> QED BY <1>1, <1>2, <1>3, <1>7 DEF t
-----------------------------------------------------------------------------
(* What Record makes of a history.                                         *)

\* b adds to h one active attack for each signal that has none.
Adds(b, h, sig) ==
    /\ b \in Seq(Attack) /\ Len(b) >= Len(h)
    /\ \A i \in 1 .. Len(h) : b[i] = h[i]
    /\ \A i \in DOMAIN b : i \notin DOMAIN h => b[i].kind \in sig \ ActiveKinds(h) /\ b[i].end = 0
    /\ \A i, j \in DOMAIN b : i \notin DOMAIN h /\ j \notin DOMAIN h /\ b[i].kind = b[j].kind => i = j
    /\ \A k \in sig \ ActiveKinds(h) : \E i \in DOMAIN b : b[i].kind = k /\ b[i].end = 0

LEMMA BegunFacts ==
  ASSUME NEW h \in Seq(Attack), NEW sig \in SUBSET Kind, NEW now \in Nat
  PROVE  Adds(Begun(h, sig, now), h, sig)
<1> DEFINE T   == {k \in sig : ~FindActive(h, k)}
           new == Selected(Kinds, T)
           add == [i \in DOMAIN new |-> [kind |-> new[i], start |-> now, end |-> 0]]
           b   == Begun(h, sig, now)
<1>1. Kinds \in Seq(Kind) /\ \A i, j \in DOMAIN Kinds : Kinds[i] = Kinds[j] => i = j
  BY KindsAssumption DEF IsInjective
<1>2. T = sig \ ActiveKinds(h)
  BY DEF FindActive
<1>3. /\ new \in Seq(Kind \cap T)
      /\ \A i \in DOMAIN Kinds : Kinds[i] \in T => \E j \in DOMAIN new : new[j] = Kinds[i]
      /\ \A i, j \in DOMAIN new : new[i] = new[j] => i = j
  <2> HIDE DEF T
  <2> QED BY <1>1, SelectedFacts
<1> HIDE DEF T, new
<1>4. add \in Seq(Attack) /\ Len(add) = Len(new) /\ Len(new) \in Nat /\ DOMAIN new = 1 .. Len(new)
  <2>1. Len(new) \in Nat /\ DOMAIN new = 1 .. Len(new) /\ \A i \in 1 .. Len(new) : new[i] \in Kind
    BY <1>3, LenProperties, ElementOfSeq
  <2>2. \A i \in 1 .. Len(new) : [kind |-> new[i], start |-> now, end |-> 0] \in Attack
    BY <2>1 DEF Attack
  <2>3. add \in [1 .. Len(new) -> Attack]
    BY <2>1, <2>2
  <2> HIDE DEF add
  <2> QED BY <2>1, <2>3
<1>5. \A i \in 1 .. Len(new) : add[i].kind = new[i] /\ add[i].end = 0
  BY <1>4
<1>6. b = h \o add
  BY DEF Begun, new, T
<1> HIDE DEF add, b
<1>7. /\ b \in Seq(Attack) /\ Len(b) = Len(h) + Len(new) /\ Len(h) \in Nat
      /\ DOMAIN b = 1 .. Len(h) + Len(new) /\ DOMAIN h = 1 .. Len(h)
      /\ \A i \in 1 .. Len(h) + Len(new) : b[i] = IF i <= Len(h) THEN h[i] ELSE add[i - Len(h)]
  <2>1. b \in Seq(Attack) /\ Len(b) = Len(h) + Len(new)
        /\ \A i \in 1 .. Len(h) + Len(new) : b[i] = IF i <= Len(h) THEN h[i] ELSE add[i - Len(h)]
    <3>1. /\ h \o add \in Seq(Attack)
          /\ Len(h \o add) = Len(h) + Len(add)
          /\ \A i \in 1 .. Len(h) + Len(add) : (h \o add)[i] = IF i <= Len(h) THEN h[i] ELSE add[i - Len(h)]
      BY <1>4, ConcatProperties
    <3> QED BY <1>4, <1>6, <3>1
  <2> QED BY <2>1, LenProperties
<1>8. \A i \in DOMAIN b : i \notin DOMAIN h =>
         i - Len(h) \in DOMAIN new /\ b[i].kind = new[i - Len(h)] /\ b[i].end = 0
  BY <1>4, <1>5, <1>7
<1>9. \A j \in DOMAIN new : Len(h) + j \in DOMAIN b /\ b[Len(h) + j].kind = new[j] /\ b[Len(h) + j].end = 0
  <2> SUFFICES ASSUME NEW j \in DOMAIN new
               PROVE  Len(h) + j \in DOMAIN b /\ b[Len(h) + j].kind = new[j] /\ b[Len(h) + j].end = 0
    OBVIOUS
  <2>1. Len(h) + j \in DOMAIN b /\ Len(h) + j \notin DOMAIN h /\ (Len(h) + j) - Len(h) = j
    BY <1>4, <1>7
  <2> QED BY <2>1, <1>8
<1>10. \A i \in DOMAIN b : i \notin DOMAIN h => b[i].kind \in T
  BY <1>3, <1>4, <1>8, ElementOfSeq
<1>11. \A i, j \in DOMAIN b : i \notin DOMAIN h /\ j \notin DOMAIN h /\ b[i].kind = b[j].kind => i = j
  BY <1>3, <1>7, <1>8
<1>12. \A k \in T : \E i \in DOMAIN b : b[i].kind = k /\ b[i].end = 0
  <2> SUFFICES ASSUME NEW k \in T PROVE \E i \in DOMAIN b : b[i].kind = k /\ b[i].end = 0
    OBVIOUS
  <2>1. k \in Kind
    BY DEF T
  <2>2. PICK n \in DOMAIN Kinds : Kinds[n] = k
    BY <2>1 DEF Kind, Range
  <2>3. PICK j \in DOMAIN new : new[j] = k
    BY <1>3, <2>2
  <2> QED BY <1>9, <2>3
<1>13. Adds(b, h, sig)
  <2>1. Len(b) >= Len(h) /\ \A i \in 1 .. Len(h) : b[i] = h[i]
    BY <1>4, <1>7
  <2> QED BY <1>2, <1>7, <1>8, <1>10, <1>11, <1>12, <2>1 DEF Adds
<1> QED BY <1>13 DEF b

LEMMA RecordedFacts ==
  ASSUME NEW h \in Seq(Attack), NEW sig \in SUBSET Kind, NEW now \in Nat, now # 0
  PROVE  /\ Recorded(h, sig, now) \in Seq(Attack)
         /\ Continues(h, Recorded(h, sig, now))
         /\ OneActive(h) => OneActive(Recorded(h, sig, now))
         /\ ActiveKinds(Recorded(h, sig, now)) = sig
<1> DEFINE b == Begun(h, sig, now)
           r == Recorded(h, sig, now)
<1>a. Adds(b, h, sig)
  BY BegunFacts
<1>b. r = [i \in DOMAIN b |->
             IF b[i].end = 0 /\ b[i].kind \notin sig THEN [b[i] EXCEPT !.end = now] ELSE b[i]]
  BY DEF Recorded, Resolved
<1> HIDE DEF b, r
<1>1. /\ b \in Seq(Attack) /\ Len(b) \in Nat /\ DOMAIN b = 1 .. Len(b)
      /\ Len(b) >= Len(h) /\ Len(h) \in Nat /\ DOMAIN h = 1 .. Len(h)
      /\ \A i \in DOMAIN h : b[i] = h[i]
  BY <1>a, LenProperties DEF Adds
<1>2. \A i \in DOMAIN b : i \notin DOMAIN h => b[i].kind \in sig \ ActiveKinds(h) /\ b[i].end = 0
  BY <1>a DEF Adds
<1>3. \A i, j \in DOMAIN b : i \notin DOMAIN h /\ j \notin DOMAIN h /\ b[i].kind = b[j].kind => i = j
  BY <1>a DEF Adds
<1>4. \A k \in sig \ ActiveKinds(h) : \E i \in DOMAIN b : b[i].kind = k /\ b[i].end = 0
  BY <1>a DEF Adds
<1>6. \A i \in DOMAIN b : b[i] \in Attack
  BY <1>1, ElementOfSeq
<1>7. \A i \in DOMAIN b : r[i] \in Attack
  BY <1>b, <1>6 DEF Attack
<1>8. DOMAIN r = DOMAIN b /\ r \in Seq(Attack)
  <2>1. r \in [1 .. Len(b) -> Attack]
    BY <1>1, <1>b, <1>7
  <2> QED BY <2>1, <1>1
<1>9. \A i \in DOMAIN b : r[i].kind = b[i].kind /\ r[i].start = b[i].start
  BY <1>b, <1>6 DEF Attack
<1>10. \A i \in DOMAIN b : r[i].end = IF b[i].end = 0 /\ b[i].kind \notin sig THEN now ELSE b[i].end
  BY <1>b, <1>6 DEF Attack
<1>11. \A i \in DOMAIN r : r[i].end = 0 <=> b[i].end = 0 /\ b[i].kind \in sig
  BY <1>8, <1>10
<1>12. Continues(h, r)
  BY <1>1, <1>8, <1>9, <1>10 DEF Continues
<1>13. ASSUME OneActive(h), NEW i \in DOMAIN r, NEW j \in DOMAIN r,
              r[i].end = 0, r[j].end = 0, r[i].kind = r[j].kind
       PROVE  i = j
  <2>1. b[i].end = 0 /\ b[j].end = 0 /\ b[i].kind = b[j].kind
    BY <1>8, <1>9, <1>11, <1>13
  <2>2. CASE i \in DOMAIN h /\ j \in DOMAIN h
    BY <1>1, <1>13, <2>1, <2>2 DEF OneActive, Active
  <2>3. CASE i \in DOMAIN h /\ j \notin DOMAIN h
    BY <1>1, <1>2, <1>8, <2>1, <2>3 DEF ActiveKinds, Active
  <2>4. CASE i \notin DOMAIN h /\ j \in DOMAIN h
    BY <1>1, <1>2, <1>8, <2>1, <2>4 DEF ActiveKinds, Active
  <2>5. CASE i \notin DOMAIN h /\ j \notin DOMAIN h
    BY <1>3, <1>8, <2>1, <2>5
  <2> QED BY <2>2, <2>3, <2>4, <2>5
<1>14. OneActive(h) => OneActive(r)
  BY <1>13 DEF OneActive, Active
<1>15. ASSUME NEW k \in sig PROVE \E i \in DOMAIN r : r[i].end = 0 /\ r[i].kind = k
  <2>1. PICK i \in DOMAIN b : b[i].kind = k /\ b[i].end = 0
    <3>1. CASE k \in ActiveKinds(h)
      BY <3>1, <1>1 DEF ActiveKinds, Active
    <3>2. CASE k \notin ActiveKinds(h)
      BY <3>2, <1>4, <1>15
    <3> QED BY <3>1, <3>2
  <2> QED BY <2>1, <1>8, <1>9, <1>11, <1>15
<1>16. ActiveKinds(r) = sig
  <2>1. ActiveKinds(r) \subseteq sig
    BY <1>8, <1>9, <1>11 DEF ActiveKinds, Active
  <2>2. sig \subseteq ActiveKinds(r)
    BY <1>15 DEF ActiveKinds, Active
  <2> QED BY <2>1, <2>2
<1> QED BY <1>8, <1>12, <1>14, <1>16 DEF r

-----------------------------------------------------------------------------
(* The transitions in a channel.                                           *)

LEMMA TransitionalFacts ==
  ASSUME NEW q \in Seq(Events), NEW e \in Events
  PROVE  /\ Transitional(<<>>) = <<>>
         /\ Transitional(<<e>>) = IF e \in Transitions THEN <<e>> ELSE <<>>
         /\ Transitional(<<e>>) \in Seq(Transitions)
         /\ Transitional(q) \in Seq(Transitions)
         /\ Transitional(Append(q, e)) = Transitional(q) \o Transitional(<<e>>)
         /\ q # <<>> => Transitional(q) = Transitional(<<Head(q)>>) \o Transitional(Tail(q))
<1>1. Transitional(<<>>) = <<>>
  BY SelectedEmpty DEF Transitional
<1>2. \A x \in Events : Transitional(<<x>>) = IF x \in Transitions THEN <<x>> ELSE <<>>
  <2> SUFFICES ASSUME NEW x \in Events
               PROVE  Transitional(<<x>>) = IF x \in Transitions THEN <<x>> ELSE <<>>
    OBVIOUS
  <2>1. <<>> \in Seq(Events) /\ Append(<<>>, x) = <<x>>
    OBVIOUS
  <2>2. Selected(Append(<<>>, x), Transitions) =
           IF x \in Transitions THEN Append(Selected(<<>>, Transitions), x) ELSE Selected(<<>>, Transitions)
    BY <2>1, SelectedAppend
  <2> QED BY <1>1, <2>1, <2>2 DEF Transitional
<1>3. \A p \in Seq(Events) : Transitional(p) \in Seq(Transitions)
  <2>1. \A p \in Seq(Events) : Transitional(p) \in Seq(Events \cap Transitions)
    BY SelectedFacts DEF Transitional
  <2>2. Events \cap Transitions = Transitions
    BY DEF Events
  <2> QED BY <2>1, <2>2
<1>4. Transitional(Append(q, e)) = Transitional(q) \o Transitional(<<e>>)
  <2>1. Transitional(Append(q, e)) = IF e \in Transitions THEN Append(Transitional(q), e) ELSE Transitional(q)
    BY SelectedAppend DEF Transitional
  <2>2. e \in Transitions => Append(Transitional(q), e) = Transitional(q) \o <<e>>
    BY <1>3, AppendIsConcat
  <2>3. Transitional(q) \o <<>> = Transitional(q)
    BY <1>3, ConcatEmptySeq
  <2> QED BY <1>2, <2>1, <2>2, <2>3
<1>5. q # <<>> => Transitional(q) = Transitional(<<Head(q)>>) \o Transitional(Tail(q))
  <2> SUFFICES ASSUME q # <<>>
               PROVE  Transitional(q) = Transitional(<<Head(q)>>) \o Transitional(Tail(q))
    OBVIOUS
  <2>1. Head(q) \in Events
    OBVIOUS
  <2>2. Transitional(q) = (IF Head(q) \in Transitions THEN <<Head(q)>> ELSE <<>>) \o Transitional(Tail(q))
    BY SelectedHead DEF Transitional
  <2> QED BY <1>2, <2>1, <2>2
<1>6. Transitional(<<e>>) \in Seq(Transitions)
  <2>1. <<e>> \in Seq(Events)
    OBVIOUS
  <2> QED BY <1>3, <2>1
<1> QED BY <1>1, <1>2, <1>3, <1>4, <1>5, <1>6

-----------------------------------------------------------------------------
(* The steps.                                                              *)

USE DEF vars, sampler, history, calls, bus, clients, logged, bounds

LEMMA RegisteredTypes ==
  ASSUME Registered
  PROVE  IsInjective(subscribers) /\ Range(subscribers) = {Log} \cup {s \in Stream : id[s] # 0}
<1>1. IsInjective(subscribers)
  BY LogAssumption DEF Registered, IsInjective
<1>2. Range(subscribers) \subseteq {Log} \cup {s \in Stream : id[s] # 0}
  BY DEF Registered, Range
<1>3. {Log} \cup {s \in Stream : id[s] # 0} \subseteq Range(subscribers)
  BY DEF Registered, Range
<1> QED BY <1>1, <1>2, <1>3

LEMMA InitIInv == Init => IInv
<1> SUFFICES ASSUME Init PROVE IInv
  OBVIOUS
<1> USE DEF Init, Fresh
<1>1. Registered
  BY DEF Registered
<1>2. file \in Seq(Attack) /\ attacks \in Seq(Attack) /\ OneActive(file)
  BY HistoriesAssumption
<1>3. TypeOK
  <2>1. /\ agenda \in [Publisher -> Seq(Events)] /\ todo \in [Publisher -> SUBSET (Nat \X Subscriber)]
        /\ id \in [Stream -> Nat] /\ queue \in [Stream -> Seq(Events)]
        /\ \A s \in Stream : Len(queue[s]) <= Queue
        /\ log \in Seq(Transitions) /\ owed \in [Stream -> Seq(Transitions)]
        /\ gaps \subseteq 0 .. Len(log)
    BY QueueAssumption
  <2> QED BY <1>1, <1>2, <2>1, RegisteredTypes DEF TypeOK
<1>4. Addressed /\ ClosedAreEmpty /\ Agendas /\ OwedIsQueued
  BY DEF Addressed, ClosedAreEmpty, Agendas, OwedIsQueued, Publisher
<1>5. LogIsBehind
  BY DEF LogIsBehind, Outstanding, SaysUnderAttack, Publisher
<1>6. Monitored /\ FileIsBehind
  BY DEF Monitored, FileIsBehind
<1>7. OneActiveAttackPerKind
  BY <1>2 DEF OneActiveAttackPerKind, OneActive, Active
<1> QED BY <1>1, <1>3, <1>4, <1>5, <1>6, <1>7 DEF IInv

LEMMA RegisteredStep == TypeOK /\ Registered /\ [Next]_vars => Registered'
<1> SUFFICES ASSUME TypeOK, Registered, [Next]_vars PROVE Registered'
  OBVIOUS
<1>1. CASE Crash
  BY <1>1 DEF Crash, Reset, Registered
<1>2. ASSUME NEW s \in Stream, Subscribe(s) PROVE Registered'
  <2>1. /\ nextID \in Nat /\ nextID > 0 /\ nextID' = nextID + 1
        /\ id' = [id EXCEPT ![s] = nextID] /\ id[s] = 0 /\ id \in [Stream -> Nat]
    BY <1>2 DEF Subscribe, FreshID, TypeOK, Registered
  <2>2. /\ DOMAIN subscribers' = DOMAIN subscribers \cup {nextID}
        /\ subscribers'[nextID] = s
        /\ \A i \in DOMAIN subscribers : i # nextID /\ subscribers'[i] = subscribers[i]
    BY <1>2, <2>1 DEF Subscribe, FreshID, Registered
  <2>3. \A i \in DOMAIN subscribers : i # 0 => subscribers[i] # s
    BY <2>1 DEF Registered
  <2> QED BY <2>1, <2>2, <2>3 DEF Registered
<1>3. ASSUME NEW s \in Stream, Unsubscribe(s) PROVE Registered'
  <2>1. /\ id' = [id EXCEPT ![s] = 0] /\ id[s] # 0 /\ id \in [Stream -> Nat] /\ nextID' = nextID
    BY <1>3 DEF Unsubscribe, TypeOK
  <2>2. /\ DOMAIN subscribers' = DOMAIN subscribers \ {id[s]}
        /\ \A i \in DOMAIN subscribers' : subscribers'[i] = subscribers[i]
    BY <1>3 DEF Unsubscribe, Removed, Restrict
  <2>3. \A t \in Stream : t # s /\ id[t] # 0 => id[t] # id[s]
    BY <2>1 DEF Registered
  <2>4. \A i \in DOMAIN subscribers' : i # 0 => subscribers[i] # s
    BY <2>2 DEF Registered
  <2> QED BY <2>1, <2>2, <2>3, <2>4 DEF Registered
<1>4. CASE UNCHANGED <<subscribers, nextID, id>>
  BY <1>4 DEF Registered
<1> QED
  BY <1>1, <1>2, <1>3, <1>4
  DEF Next, Start, HandleSample, Record, HandleDetectorError, Return, Other, Publish, Deliver, Write, ClearLog

LEMMA AddressedStep == TypeOK /\ Registered /\ Addressed /\ [Next]_vars => Addressed'
<1> SUFFICES ASSUME TypeOK, Registered, Addressed, [Next]_vars PROVE Addressed'
  OBVIOUS
<1>1. CASE Crash
  BY <1>1 DEF Crash, Reset, Addressed
<1>2. ASSUME NEW p \in Publisher, Publish(p) PROVE Addressed'
  <2>1. /\ todo' = [todo EXCEPT ![p] = {<<i, subscribers[i]>> : i \in DOMAIN subscribers}]
        /\ nextID' = nextID /\ todo \in [Publisher -> SUBSET (Nat \X Subscriber)]
    BY <1>2 DEF Publish, TypeOK
  <2>2. \A i \in DOMAIN subscribers : i < nextID /\ (i = 0 <=> subscribers[i] = Log)
    BY LogAssumption DEF Registered
  <2> QED BY <2>1, <2>2 DEF Addressed
<1>3. ASSUME NEW p \in Publisher, Deliver(p) PROVE Addressed'
  <2>1. /\ nextID' = nextID /\ todo \in [Publisher -> SUBSET (Nat \X Subscriber)]
        /\ \E x : todo' = [todo EXCEPT ![p] = @ \ {x}]
    BY <1>3 DEF Deliver, TypeOK
  <2> QED BY <2>1 DEF Addressed
<1>4. ASSUME NEW s \in Stream, Subscribe(s) PROVE Addressed'
  <2>1. /\ nextID \in Nat /\ nextID' = nextID + 1 /\ todo' = todo
        /\ todo \in [Publisher -> SUBSET (Nat \X Subscriber)]
    BY <1>4 DEF Subscribe, TypeOK
  <2> QED BY <2>1 DEF Addressed
<1>5. CASE UNCHANGED <<todo, nextID>>
  BY <1>5 DEF Addressed
<1> QED
  BY <1>1, <1>2, <1>3, <1>4, <1>5
  DEF Next, Start, HandleSample, Record, HandleDetectorError, Return, Other, Unsubscribe, Write, ClearLog

LEMMA ClosedAreEmptyStep ==
  TypeOK /\ Addressed /\ ClosedAreEmpty /\ [Next]_vars => ClosedAreEmpty'
<1> SUFFICES ASSUME TypeOK, Addressed, ClosedAreEmpty, [Next]_vars PROVE ClosedAreEmpty'
  OBVIOUS
<1>1. CASE Crash
  BY <1>1 DEF Crash, Reset, ClosedAreEmpty
<1>2. ASSUME NEW p \in Publisher, Publish(p) PROVE ClosedAreEmpty'
  BY <1>2 DEF Publish, ClosedAreEmpty
<1>3. ASSUME NEW p \in Publisher, Deliver(p) PROVE ClosedAreEmpty'
  <2>1. PICK x \in todo[p] :
            \/ x[2] = Log /\ UNCHANGED <<queue, owed, lost>>
            \/ x[2] # Log /\ Enqueue(x[1], x[2], Head(agenda[p]))
    BY <1>3 DEF Deliver
  <2>2. id' = id
    BY <1>3 DEF Deliver
  <2>3. CASE x[2] = Log
    BY <2>1, <2>2, <2>3 DEF ClosedAreEmpty
  <2>4. CASE x[2] # Log
    <3>1. x[1] # 0 /\ x[2] \in Stream
      BY <2>4 DEF Addressed, TypeOK, Subscriber
    <3>2. Enqueue(x[1], x[2], Head(agenda[p]))
      BY <2>1, <2>4
    <3> QED BY <2>2, <3>1, <3>2 DEF Enqueue, ClosedAreEmpty, TypeOK
  <2> QED BY <2>3, <2>4
<1>4. ASSUME NEW s \in Stream, Subscribe(s) \/ Unsubscribe(s) \/ Write(s) PROVE ClosedAreEmpty'
  BY <1>4 DEF Subscribe, Unsubscribe, Write, ClosedAreEmpty, TypeOK
<1>5. CASE UNCHANGED <<id, queue, owed, lost>>
  BY <1>5 DEF ClosedAreEmpty
<1> QED
  BY <1>1, <1>2, <1>3, <1>4, <1>5
  DEF Next, Start, HandleSample, Record, HandleDetectorError, Return, Other, ClearLog

LEMMA SampleAgenda ==
  ASSUME NEW T \in {<<>>, <<"AttackDetected">>, <<"AttackCleared">>}
  PROVE  /\ <<"SampleCollected">> \o T \in Seq(Events)
         /\ <<"SampleCollected">> \o T # <<>>
         /\ Len(<<"SampleCollected">> \o T) = 1 + Len(T)
         /\ \A n \in 1 .. Len(<<"SampleCollected">> \o T) - 1 :
               (<<"SampleCollected">> \o T)[n] = "SampleCollected"
         /\ (<<"SampleCollected">> \o T)[Len(<<"SampleCollected">> \o T)]
               = IF T = <<>> THEN "SampleCollected" ELSE T[1]
<1> DEFINE e == <<"SampleCollected">>
           a == e \o T
<1>1. e \in Seq(Events) /\ Len(e) = 1 /\ e[1] = "SampleCollected" /\ T \in Seq(Events)
  <2>1. "SampleCollected" \in Events /\ "AttackDetected" \in Events /\ "AttackCleared" \in Events
    BY DEF Events, Transitions
  <2>2. T \in Seq(Events)
    <3>1. CASE T = <<>>
      BY <3>1
    <3>2. CASE T = <<"AttackDetected">>
      BY <2>1, <3>2
    <3>3. CASE T = <<"AttackCleared">>
      BY <2>1, <3>3
    <3> QED BY <3>1, <3>2, <3>3
  <2> QED BY <2>1, <2>2
<1>2. Len(T) \in {0, 1} /\ (Len(T) = 0 <=> T = <<>>)
  OBVIOUS
<1> HIDE DEF e
<1>3. /\ a \in Seq(Events) /\ Len(a) = 1 + Len(T)
      /\ \A i \in 1 .. 1 + Len(T) : a[i] = IF i <= 1 THEN e[i] ELSE T[i - 1]
  <2>1. /\ a \in Seq(Events) /\ Len(a) = Len(e) + Len(T)
        /\ \A i \in 1 .. Len(e) + Len(T) : a[i] = IF i <= Len(e) THEN e[i] ELSE T[i - Len(e)]
    BY <1>1, ConcatProperties
  <2> HIDE DEF a
  <2> QED BY <1>1, <2>1
<1> HIDE DEF a
<1>4. \A n \in 1 .. Len(a) - 1 : a[n] = "SampleCollected"
  BY <1>1, <1>2, <1>3
<1>5. a[Len(a)] = IF T = <<>> THEN "SampleCollected" ELSE T[1]
  BY <1>1, <1>2, <1>3
<1>6. a # <<>>
  BY <1>2, <1>3
<1> QED BY <1>3, <1>4, <1>5, <1>6 DEF a, e

LEMMA AgendasStep == TypeOK /\ Agendas /\ [Next]_vars => Agendas'
<1> SUFFICES ASSUME TypeOK, Agendas, [Next]_vars PROVE Agendas'
  OBVIOUS
<1>0. /\ agenda \in [Publisher -> Seq(Events)] /\ todo \in [Publisher -> SUBSET (Nat \X Subscriber)]
      /\ "loop" \in Publisher /\ "other" \in Publisher /\ Publisher = {"loop", "other"}
  BY DEF TypeOK, Publisher
<1>1. CASE Crash
  BY <1>1 DEF Crash, Reset, Agendas, Publisher
<1>2. CASE HandleSample
  <2>1. PICK sig \in SUBSET Kind :
            agenda' = [agenda EXCEPT !["loop"] = <<"SampleCollected">> \o Transition(status, Status(sig))]
    BY <1>2 DEF HandleSample
  <2>2. todo' = todo /\ pc' = "record" /\ pc = "idle"
    BY <1>2 DEF HandleSample, Tick
  <2>3. Transition(status, Status(sig)) \in {<<>>, <<"AttackDetected">>, <<"AttackCleared">>}
    BY DEF Transition
  <2>4. agenda'["loop"] = <<"SampleCollected">> \o Transition(status, Status(sig))
    BY <1>0, <2>1
  <2>5. agenda'["other"] = agenda["other"]
    BY <1>0, <2>1
  <2>6. \A n \in 1 .. Len(agenda'["loop"]) - 1 : agenda'["loop"][n] = "SampleCollected"
    BY <2>3, <2>4, SampleAgenda
  <2>7. agenda'["loop"] # <<>>
    BY <2>3, <2>4, SampleAgenda
  <2> QED BY <1>0, <2>2, <2>5, <2>6, <2>7 DEF Agendas, Transitions
<1>3. CASE Record
  <2>1. todo' = todo /\ pc' = "publish" /\ pc = "record"
    BY <1>3 DEF Record
  <2>2. agenda' = agenda \/ agenda' = [agenda EXCEPT !["loop"] = <<"RuntimeError">> \o @]
    BY <1>3 DEF Record
  <2>3. CASE agenda' = agenda
    BY <2>1, <2>3 DEF Agendas
  <2>4. CASE agenda' = [agenda EXCEPT !["loop"] = <<"RuntimeError">> \o @]
    <3> DEFINE a == agenda["loop"]
    <3>1. a \in Seq(Events) /\ agenda'["loop"] = <<"RuntimeError">> \o a /\ agenda'["other"] = agenda["other"]
      BY <1>0, <2>4
    <3>2. /\ Len(agenda'["loop"]) = Len(a) + 1 /\ Len(a) \in Nat
          /\ \A n \in 1 .. Len(a) + 1 : agenda'["loop"][n] = IF n = 1 THEN "RuntimeError" ELSE a[n - 1]
      BY <3>1
    <3>3. \A n \in 1 .. Len(a) - 1 : a[n] \notin Transitions
      BY DEF Agendas
    <3>4. \A n \in 1 .. Len(a) : agenda'["loop"][n] \notin Transitions
      <4> SUFFICES ASSUME NEW n \in 1 .. Len(a) PROVE agenda'["loop"][n] \notin Transitions
        OBVIOUS
      <4>1. CASE n = 1
        BY <3>2, <4>1 DEF Transitions
      <4>2. CASE n # 1
        <5> HIDE DEF a
        <5>1. n - 1 \in 1 .. Len(a) - 1 /\ agenda'["loop"][n] = a[n - 1]
          BY <3>2, <4>2
        <5> QED BY <3>3, <5>1
      <4> QED BY <4>1, <4>2
    <3> QED BY <1>0, <2>1, <3>1, <3>2, <3>4 DEF Agendas
  <2> QED BY <2>2, <2>3, <2>4
<1>4. CASE HandleDetectorError
  <2>1. /\ agenda' = [agenda EXCEPT !["loop"] = <<"RuntimeError">>]
        /\ todo' = todo /\ pc' = "publish" /\ pc = "idle"
    BY <1>4 DEF HandleDetectorError, Tick
  <2> QED BY <1>0, <2>1 DEF Agendas
<1>5. CASE Return
  BY <1>5 DEF Return, Agendas
<1>6. CASE Other
  <2>1. agenda' = [agenda EXCEPT !["other"] = <<"Other">>] /\ todo' = todo /\ pc' = pc /\ todo["other"] = {}
    BY <1>6 DEF Other
  <2> QED BY <1>0, <2>1 DEF Agendas
<1>7. ASSUME NEW p \in Publisher, Publish(p) PROVE Agendas'
  BY <1>0, <1>7 DEF Publish, Agendas
<1>8. ASSUME NEW p \in Publisher, Deliver(p) PROVE Agendas'
  <2>1. PICK x \in todo[p] : todo' = [todo EXCEPT ![p] = @ \ {x}]
    BY <1>8 DEF Deliver
  <2>2. agenda' = IF todo'[p] = {} THEN [agenda EXCEPT ![p] = Tail(@)] ELSE agenda
    BY <1>8 DEF Deliver
  <2>3. pc' = pc /\ (p = "loop" => pc = "publish") /\ agenda[p] # <<>>
    BY <1>0, <1>8, <2>1 DEF Deliver, Agendas
  <2>4. CASE todo'[p] # {}
    BY <1>0, <2>1, <2>2, <2>3, <2>4 DEF Agendas
  <2>5. CASE todo'[p] = {}
    <3> DEFINE a == agenda[p]
    <3>1. a \in Seq(Events) /\ a # <<>>
      BY <1>0, <2>3
    <3>2. agenda' = [agenda EXCEPT ![p] = Tail(a)]
      BY <2>2, <2>5
    <3>3. /\ Tail(a) \in Seq(Events) /\ Len(Tail(a)) = Len(a) - 1
          /\ \A n \in 1 .. Len(Tail(a)) : Tail(a)[n] = a[n + 1]
      BY <3>1, HeadTailProperties
    <3>4. CASE p = "other"
      <4>1. Tail(a) = <<>>
        <5>1. a = <<"Other">>
          BY <3>1, <3>4 DEF Agendas
        <5>2. Tail(<<"Other">>) = <<>>
          OBVIOUS
        <5> QED BY <5>1, <5>2
      <4> QED BY <1>0, <2>1, <2>3, <2>5, <3>2, <3>4, <4>1 DEF Agendas
    <3>5. CASE p = "loop"
      <4>1. \A n \in 1 .. Len(Tail(a)) - 1 : Tail(a)[n] \notin Transitions
        BY <3>1, <3>3, <3>5 DEF Agendas
      <4> QED BY <1>0, <2>1, <2>3, <2>5, <3>2, <3>5, <4>1 DEF Agendas
    <3> QED BY <1>0, <3>4, <3>5
  <2> QED BY <2>4, <2>5
<1>9. CASE UNCHANGED <<agenda, todo, pc>>
  BY <1>9 DEF Agendas
<1> QED
  BY <1>1, <1>2, <1>3, <1>4, <1>5, <1>6, <1>7, <1>8, <1>9
  DEF Next, Start, Subscribe, Unsubscribe, Write, ClearLog

LEMMA TailOfCons ==
  ASSUME NEW S, NEW h \in S, NEW w \in Seq(S)
  PROVE  Tail(<<h>> \o w) = w
<1>1. <<h>> \in Seq(S) /\ Len(<<h>>) = 1 /\ <<h>> \o w \in Seq(S) /\ <<h>> \o w # <<>>
  OBVIOUS
<1>2. /\ Tail(<<h>> \o w) \in Seq(S) /\ Len(Tail(<<h>> \o w)) = Len(w) /\ Len(w) \in Nat
      /\ \A i \in 1 .. Len(w) : Tail(<<h>> \o w)[i] = w[i]
  OBVIOUS
<1> QED BY <1>2, SeqEqual

LEMMA PendingType ==
  ASSUME TypeOK, Agendas, NEW s \in Stream
  PROVE  Pending(s) \in Seq(Transitions)
<1>1. CASE <<id[s], s>> \in todo["loop"]
  <2>1. agenda["loop"] \in Seq(Events) /\ agenda["loop"] # <<>>
    BY <1>1 DEF TypeOK, Agendas, Publisher
  <2>2. Head(agenda["loop"]) \in Events /\ <<>> \in Seq(Events)
    BY <2>1
  <2> QED BY <1>1, <2>2, TransitionalFacts DEF Pending
<1>2. CASE <<id[s], s>> \notin todo["loop"]
  BY <1>2 DEF Pending
<1> QED BY <1>1, <1>2

LEMMA OwedIsQueuedStep ==
  TypeOK /\ Registered /\ Addressed /\ ClosedAreEmpty /\ Agendas /\ OwedIsQueued /\ [Next]_vars
    => OwedIsQueued'
<1> SUFFICES ASSUME TypeOK, Registered, Addressed, ClosedAreEmpty, Agendas, OwedIsQueued, [Next]_vars
             PROVE  OwedIsQueued'
  OBVIOUS
<1>0. /\ agenda \in [Publisher -> Seq(Events)] /\ todo \in [Publisher -> SUBSET (Nat \X Subscriber)]
      /\ Publisher = {"loop", "other"}
      /\ id \in [Stream -> Nat] /\ queue \in [Stream -> Seq(Events)]
      /\ owed \in [Stream -> Seq(Transitions)]
  BY DEF TypeOK, Publisher
<1>a. \A e \in Events : Transitional(<<e>>) = IF e \in Transitions THEN <<e>> ELSE <<>>
  <2>1. <<>> \in Seq(Events)
    OBVIOUS
  <2> QED BY <2>1, TransitionalFacts
<1>b. \A q \in Seq(Events) : Transitional(q) \in Seq(Transitions)
  <2>1. "Other" \in Events
    BY DEF Events
  <2> QED BY <2>1, TransitionalFacts
<1>c. \A w \in Seq(Transitions) : w \o <<>> = w
  BY ConcatEmptySeq
<1>1. CASE Crash
  BY <1>1 DEF Crash, Reset, OwedIsQueued
<1>2. CASE HandleSample \/ Record \/ HandleDetectorError
  <2>1. UNCHANGED <<id, queue, owed, lost, todo>> /\ todo["loop"] = {}
    BY <1>2 DEF HandleSample, Record, HandleDetectorError, Tick, Agendas
  <2> QED BY <2>1 DEF OwedIsQueued, Pending
<1>3. CASE Other
  <2>1. UNCHANGED <<id, queue, owed, lost, todo>> /\ agenda'["loop"] = agenda["loop"]
    BY <1>0, <1>3 DEF Other
  <2> QED BY <2>1 DEF OwedIsQueued, Pending
<1>4. ASSUME NEW p \in Publisher, Publish(p) PROVE OwedIsQueued'
  <2>1. /\ agenda[p] # <<>> /\ todo[p] = {}
        /\ todo' = [todo EXCEPT ![p] = {<<i, subscribers[i]>> : i \in DOMAIN subscribers}]
        /\ owed' = [s \in Stream |-> IF id[s] # 0 /\ s \notin lost
                                     THEN owed[s] \o Transitional(<<Head(agenda[p])>>) ELSE owed[s]]
        /\ UNCHANGED <<id, queue, lost, agenda>>
    BY <1>4 DEF Publish
  <2> SUFFICES ASSUME NEW s \in Stream, id[s] # 0, s \notin lost
               PROVE  owed'[s] = Transitional(queue[s]) \o Pending(s)'
    BY <2>1 DEF OwedIsQueued
  <2>2. /\ owed[s] = Transitional(queue[s]) \o Pending(s)
        /\ owed'[s] = owed[s] \o Transitional(<<Head(agenda[p])>>)
        /\ Transitional(queue[s]) \in Seq(Transitions) /\ owed[s] \in Seq(Transitions)
    BY <1>0, <1>b, <2>1 DEF OwedIsQueued
  <2>3. CASE p = "loop"
    <3>1. Pending(s) = <<>>
      BY <2>1, <2>3 DEF Pending
    <3>2. <<id[s], s>> \in todo'["loop"]
      BY <1>0, <2>1, <2>3 DEF Registered
    <3>3. Pending(s)' = Transitional(<<Head(agenda["loop"])>>)
      BY <2>1, <3>2 DEF Pending
    <3> QED BY <1>c, <2>2, <2>3, <3>1, <3>3
  <2>4. CASE p = "other"
    <3>1. agenda["other"] = <<"Other">> /\ "Other" \in Events /\ "Other" \notin Transitions
      BY <2>1, <2>4 DEF Agendas, Events, Transitions
    <3>2. Transitional(<<Head(agenda[p])>>) = <<>>
      BY <1>a, <2>4, <3>1
    <3>3. Pending(s)' = Pending(s)
      BY <1>0, <2>1, <2>4 DEF Pending
    <3> QED BY <1>c, <2>2, <3>2, <3>3
  <2> QED BY <1>0, <2>3, <2>4
<1>5. ASSUME NEW p \in Publisher, Deliver(p) PROVE OwedIsQueued'
  <2> DEFINE e == Head(agenda[p])
  <2>1. PICK x \in todo[p] :
            /\ todo' = [todo EXCEPT ![p] = @ \ {x}]
            /\ agenda' = IF todo'[p] = {} THEN [agenda EXCEPT ![p] = Tail(@)] ELSE agenda
            /\ \/ x[2] = Log /\ UNCHANGED <<queue, owed, lost>>
               \/ x[2] # Log /\ Enqueue(x[1], x[2], e)
    BY <1>5 DEF Deliver
  <2>2. id' = id
    BY <1>5 DEF Deliver
  <2>3. agenda[p] \in Seq(Events) /\ agenda[p] # <<>> /\ e \in Events
    BY <1>0, <2>1 DEF Agendas
  <2>4. x \in Nat \X Subscriber /\ x = <<x[1], x[2]>>
    BY <1>0, <2>1
  \* Who is not x is pending as before.
  <2>5. ASSUME NEW s \in Stream, p = "other" \/ x # <<id[s], s>> PROVE Pending(s)' = Pending(s)
    <3>1. <<id[s], s>> \in todo'["loop"] <=> <<id[s], s>> \in todo["loop"]
      BY <1>0, <2>1, <2>5
    <3>2. <<id[s], s>> \in todo'["loop"] => agenda'["loop"] = agenda["loop"]
      BY <1>0, <2>1
    <3> QED BY <2>2, <3>1, <3>2 DEF Pending
  <2>6. ASSUME NEW s \in Stream, id[s] # 0, s \notin lost', queue'[s] = queue[s], owed'[s] = owed[s],
               s \notin lost, p = "other" \/ x # <<id[s], s>>
        PROVE  owed'[s] = Transitional(queue'[s]) \o Pending(s)'
    BY <2>5, <2>6 DEF OwedIsQueued
  <2>7. CASE x[2] = Log
    <3>1. UNCHANGED <<queue, owed, lost>>
      BY <2>1, <2>7
    <3>2. \A s \in Stream : x # <<id[s], s>>
      BY <2>7, LogAssumption
    <3> QED BY <2>2, <2>6, <3>1, <3>2 DEF OwedIsQueued
  <2>8. CASE x[2] # Log
    <3> DEFINE t == x[2]
               i == x[1]
    <3>1. t \in Stream /\ i # 0
      BY <2>1, <2>4, <2>8 DEF Subscriber, Addressed
    <3>2. Enqueue(i, t, e)
      BY <2>1, <2>8
    <3>3. CASE id[t] # i
      <4>1. UNCHANGED <<queue, owed, lost>>
        BY <3>2, <3>3 DEF Enqueue
      <4>2. \A s \in Stream : x # <<id[s], s>>
        BY <3>3
      <4> QED BY <2>2, <2>6, <4>1, <4>2 DEF OwedIsQueued
    <3>4. CASE id[t] = i /\ Len(queue[t]) < Queue
      <4>1. queue' = [queue EXCEPT ![t] = Append(@, e)] /\ UNCHANGED <<owed, lost>>
        <5>1. Len(queue[t]) \in Nat /\ Queue \in Nat
          BY <1>0, <3>1, QueueAssumption
        <5> QED BY <3>2, <3>4, <5>1 DEF Enqueue
      <4>2. \A s \in Stream : s # t => x # <<id[s], s>> /\ queue'[s] = queue[s]
        BY <1>0, <4>1
      <4>3. ASSUME t \notin lost PROVE owed'[t] = Transitional(queue'[t]) \o Pending(t)'
        <5>1. /\ owed'[t] = Transitional(queue[t]) \o Pending(t)
              /\ queue'[t] = Append(queue[t], e) /\ queue[t] \in Seq(Events)
          BY <1>0, <3>1, <3>4, <4>1, <4>3 DEF OwedIsQueued
        <5>2. Transitional(queue'[t]) = Transitional(queue[t]) \o Transitional(<<e>>)
          BY <2>3, <5>1, TransitionalFacts
        <5>3. CASE p = "loop"
          <6>1. Pending(t) = Transitional(<<e>>)
            BY <2>1, <2>4, <3>4, <5>3 DEF Pending
          <6>2. <<id[t], t>> \notin todo'["loop"]
            BY <1>0, <2>1, <2>4, <3>4, <5>3
          <6>3. Pending(t)' = <<>>
            BY <2>2, <6>2 DEF Pending
          <6>4. Transitional(queue'[t]) \in Seq(Transitions)
            <7>1. queue'[t] \in Seq(Events)
              BY <2>3, <5>1, AppendProperties
            <7> QED BY <1>b, <7>1
          <6> QED BY <1>c, <5>1, <5>2, <6>1, <6>3, <6>4
        <5>4. CASE p = "other"
          <6>1. Pending(t)' = Pending(t)
            BY <2>5, <3>1, <5>4
          <6>2. e = "Other" /\ e \notin Transitions
            BY <2>3, <5>4 DEF Agendas, Transitions
          <6>3. Transitional(queue'[t]) = Transitional(queue[t])
            BY <1>a, <1>b, <1>c, <2>3, <5>1, <5>2, <6>2
          <6> QED BY <5>1, <6>1, <6>3
        <5> QED BY <1>0, <5>3, <5>4
      <4> QED BY <2>2, <2>6, <4>1, <4>2, <4>3 DEF OwedIsQueued
    <3>5. CASE id[t] = i /\ ~(Len(queue[t]) < Queue)
      <4>1. lost' = lost \cup {t} /\ owed' = [owed EXCEPT ![t] = <<>>] /\ queue' = queue
        BY <3>2, <3>5 DEF Enqueue, TypeOK
      <4>2. \A s \in Stream : s # t => x # <<id[s], s>> /\ owed'[s] = owed[s]
        BY <1>0, <4>1
      <4> QED BY <2>2, <2>6, <4>1, <4>2 DEF OwedIsQueued
    <3> QED BY <3>3, <3>4, <3>5
  <2> QED BY <2>7, <2>8
<1>6. ASSUME NEW s \in Stream, Subscribe(s) PROVE OwedIsQueued'
  <2>1. /\ id' = [id EXCEPT ![s] = nextID] /\ id[s] = 0
        /\ UNCHANGED <<agenda, todo, queue, owed, lost>>
    BY <1>6 DEF Subscribe, FreshID
  <2>2. queue[s] = <<>> /\ owed[s] = <<>> /\ nextID \in Nat
    BY <2>1 DEF ClosedAreEmpty, TypeOK
  <2>3. <<nextID, s>> \notin todo["loop"]
    <3>1. \A x \in todo["loop"] : x[1] < nextID
      BY <1>0 DEF Addressed
    <3> SUFFICES ASSUME <<nextID, s>> \in todo["loop"] PROVE FALSE
      OBVIOUS
    <3>2. <<nextID, s>>[1] < nextID
      BY <3>1
    <3> QED BY <2>2, <3>2
  <2>4. Pending(s)' = <<>>
    BY <1>0, <2>1, <2>3 DEF Pending
  <2>5. Transitional(<<>>) = <<>> /\ <<>> \o <<>> = <<>>
    BY SelectedEmpty, <1>c DEF Transitional
  <2>6. owed'[s] = Transitional(queue'[s]) \o Pending(s)'
    BY <2>1, <2>2, <2>4, <2>5
  <2>7. ASSUME NEW t \in Stream, t # s, id[t] # 0, t \notin lost
        PROVE  owed'[t] = Transitional(queue'[t]) \o Pending(t)'
    BY <1>0, <2>1, <2>7 DEF OwedIsQueued, Pending
  <2> QED BY <1>0, <2>1, <2>6, <2>7 DEF OwedIsQueued
<1>7. ASSUME NEW s \in Stream, Unsubscribe(s) PROVE OwedIsQueued'
  <2>1. /\ id' = [id EXCEPT ![s] = 0] /\ queue' = [queue EXCEPT ![s] = <<>>]
        /\ owed' = [owed EXCEPT ![s] = <<>>] /\ lost' = lost \ {s}
        /\ UNCHANGED <<agenda, todo>>
    BY <1>7 DEF Unsubscribe
  <2>2. ASSUME NEW t \in Stream, t # s, id[t] # 0, t \notin lost
        PROVE  owed'[t] = Transitional(queue'[t]) \o Pending(t)'
    BY <1>0, <2>1, <2>2 DEF OwedIsQueued, Pending
  <2> QED BY <1>0, <2>1, <2>2 DEF OwedIsQueued
<1>8. ASSUME NEW s \in Stream, Write(s) PROVE OwedIsQueued'
  <2> DEFINE q == queue[s]
             h == Head(queue[s])
  <2>1. /\ queue[s] # <<>> /\ queue' = [queue EXCEPT ![s] = Tail(@)]
        /\ owed' = IF s \notin lost /\ Head(queue[s]) \in Transitions
                   THEN [owed EXCEPT ![s] = Tail(@)] ELSE owed
        /\ UNCHANGED <<id, lost, agenda, todo>>
    BY <1>8 DEF Write
  <2>2. q \in Seq(Events) /\ Tail(q) \in Seq(Events) /\ h \in Events /\ queue'[s] = Tail(q)
    BY <1>0, <2>1
  <2>3. ASSUME id[s] # 0, s \notin lost PROVE owed'[s] = Transitional(queue'[s]) \o Pending(s)'
    <3> DEFINE w == Transitional(Tail(q))
               g == Pending(s)
    <3>1. /\ w \in Seq(Transitions) /\ g \in Seq(Transitions) /\ Pending(s)' = g
          /\ w \o g \in Seq(Transitions)
      <4>1. w \in Seq(Transitions)
        BY <1>b, <2>2
      <4>2. g \in Seq(Transitions)
        BY PendingType
      <4>3. Pending(s)' = g
        BY <2>1 DEF Pending
      <4> HIDE DEF w, g
      <4> QED BY <4>1, <4>2, <4>3, ConcatProperties
    <3>2. owed[s] = Transitional(q) \o g
      BY <2>3 DEF OwedIsQueued
    <3>3. Transitional(q) = Transitional(<<h>>) \o w
      BY <2>1, <2>2, TransitionalFacts
    <3> HIDE DEF w, g, q, h
    <3>4. CASE h \in Transitions
      <4>1. owed[s] = <<h>> \o (w \o g)
        <5>1. owed[s] = (<<h>> \o w) \o g
          BY <1>a, <2>2, <3>2, <3>3, <3>4
        <5>2. <<h>> \in Seq(Transitions)
          BY <3>4
        <5> QED BY <3>1, <5>1, <5>2, ConcatAssociative
      <4>2. owed'[s] = Tail(owed[s])
        BY <1>0, <2>1, <2>3, <3>4 DEF h
      <4>3. owed'[s] = w \o g
        BY <3>1, <3>4, <4>1, <4>2, TailOfCons
      <4> QED BY <2>2, <3>1, <4>3 DEF w
    <3>5. CASE h \notin Transitions
      <4>1. Transitional(q) = w
        BY <1>a, <2>2, <3>1, <3>3, <3>5, ConcatEmptySeq
      <4>2. owed' = owed
        BY <2>1, <3>5 DEF h
      <4> QED BY <2>2, <3>1, <3>2, <4>1, <4>2 DEF w
    <3> QED BY <3>4, <3>5
  <2>4. ASSUME NEW t \in Stream, t # s, id[t] # 0, t \notin lost
        PROVE  owed'[t] = Transitional(queue'[t]) \o Pending(t)'
    BY <1>0, <2>1, <2>4 DEF OwedIsQueued, Pending
  <2> QED BY <1>0, <2>1, <2>3, <2>4 DEF OwedIsQueued
<1>9. CASE UNCHANGED <<id, queue, owed, lost, agenda, todo>>
  BY <1>9 DEF OwedIsQueued, Pending
<1> QED
  BY <1>1, <1>2, <1>3, <1>4, <1>5, <1>6, <1>7, <1>8, <1>9 DEF Next, Start, Return, ClearLog

LEMMA TailOfLonger ==
  ASSUME NEW S, NEW s \in Seq(S), s # <<>>, Len(s) # 1
  PROVE  1 \in 1 .. Len(s) - 1 /\ Tail(s) # <<>> /\ LastOn(Tail(s)) = LastOn(s)
<1>1. Len(s) \in Nat /\ Len(s) > 1
  <2>1. Len(s) \in Nat \ {0}
    BY EmptySeq
  <2>2. \A n \in Nat \ {0} : n # 1 => n > 1
    OBVIOUS
  <2> QED BY <2>1, <2>2
<1>2. /\ Tail(s) \in Seq(S) /\ Len(Tail(s)) = Len(s) - 1
      /\ \A i \in 1 .. Len(Tail(s)) : Tail(s)[i] = s[i + 1]
  BY HeadTailProperties
<1>3. Len(Tail(s)) \in 1 .. Len(Tail(s)) /\ Len(Tail(s)) + 1 = Len(s)
  BY <1>1, <1>2
<1>4. Tail(s) # <<>>
  <2>1. Len(Tail(s)) # 0
    BY <1>3
  <2>2. Len(<<>>) = 0
    OBVIOUS
  <2> QED BY <2>1, <2>2, Zenon
<1>5. Tail(s)[Len(Tail(s))] = s[Len(s)]
  BY <1>2, <1>3
<1> QED BY <1>1, <1>4, <1>5 DEF LastOn

LEMMA SameOutstanding ==
  ASSUME LogIsBehind, log' = log, gaps' = gaps, status' = status, Outstanding' <=> Outstanding,
         Outstanding => LastOn(agenda["loop"])' = LastOn(agenda["loop"])
  PROVE  LogIsBehind'
BY DEF LogIsBehind, SaysUnderAttack, LastOn

LEMMA LogIsBehindStep ==
  TypeOK /\ Registered /\ Addressed /\ Agendas /\ LogIsBehind /\ [Next]_vars => LogIsBehind'
<1> SUFFICES ASSUME TypeOK, Registered, Addressed, Agendas, LogIsBehind, [Next]_vars
             PROVE  LogIsBehind'
  OBVIOUS
<1> DEFINE a == agenda["loop"]
<1>0. /\ agenda \in [Publisher -> Seq(Events)] /\ todo \in [Publisher -> SUBSET (Nat \X Subscriber)]
      /\ Publisher = {"loop", "other"} /\ log \in Seq(Transitions) /\ a \in Seq(Events)
      /\ gaps \subseteq 0 .. Len(log)
  BY DEF TypeOK, Publisher
<1>a. \A e \in Events : Transitional(<<e>>) = IF e \in Transitions THEN <<e>> ELSE <<>>
  <2>1. <<>> \in Seq(Events)
    OBVIOUS
  <2> QED BY <2>1, TransitionalFacts
<1>1. CASE Crash
  BY <1>1 DEF Crash, Reset, LogIsBehind, Outstanding, SaysUnderAttack, Publisher
<1>2. CASE HandleSample
  <2>1. PICK sig \in SUBSET Kind :
            /\ status' = Status(sig)
            /\ agenda' = [agenda EXCEPT !["loop"] = <<"SampleCollected">> \o Transition(status, Status(sig))]
    BY <1>2 DEF HandleSample
  <2> DEFINE T == Transition(status, Status(sig))
  <2>2. todo'["loop"] = {} /\ log' = log /\ gaps' = gaps /\ a = <<>>
    BY <1>2 DEF HandleSample, Tick, Agendas
  <2>3. T \in {<<>>, <<"AttackDetected">>, <<"AttackCleared">>}
    BY DEF Transition
  <2>4. agenda'["loop"] = <<"SampleCollected">> \o T
    BY <1>0, <2>1
  <2>5. agenda'["loop"] # <<>> /\ LastOn(agenda'["loop"]) = IF T = <<>> THEN "SampleCollected" ELSE T[1]
    <3> HIDE DEF T
    <3> QED BY <2>3, <2>4, SampleAgenda DEF LastOn
  <2>6. Outstanding' <=> T # <<>>
    <3> HIDE DEF T
    <3> QED BY <2>2, <2>3, <2>5 DEF Outstanding, Transitions, LastOn
  <2>7. Len(log) \notin gaps => (status = "under_attack" <=> SaysUnderAttack(Len(log)))
    BY <2>2 DEF LogIsBehind, Outstanding
  <2>8. /\ \A n \in DOMAIN log' :
              n - 1 \notin gaps' => (log'[n] = "AttackDetected" <=> ~SaysUnderAttack(n - 1)')
        /\ SaysUnderAttack(Len(log))' <=> SaysUnderAttack(Len(log))
    BY <2>2 DEF LogIsBehind, SaysUnderAttack
  <2>9. CASE status # "under_attack" /\ status' = "under_attack"
    <3>1. T = <<"AttackDetected">>
      BY <2>1, <2>9 DEF Transition
    <3> QED BY <2>2, <2>5, <2>6, <2>7, <2>8, <2>9, <3>1 DEF LogIsBehind, LastOn
  <2>10. CASE status = "under_attack" /\ status' # "under_attack"
    <3>1. T = <<"AttackCleared">>
      BY <2>1, <2>10 DEF Transition, Status
    <3> QED BY <2>2, <2>5, <2>6, <2>7, <2>8, <2>10, <3>1 DEF LogIsBehind, LastOn
  <2>11. CASE status = "under_attack" <=> status' = "under_attack"
    <3>1. T = <<>>
      BY <2>1, <2>11 DEF Transition, Status
    <3> QED BY <2>2, <2>6, <2>7, <2>8, <2>11, <3>1 DEF LogIsBehind
  <2> QED BY <2>9, <2>10, <2>11
<1>3. CASE Record
  <2>1. UNCHANGED <<log, gaps, status, todo>> /\ todo["loop"] = {}
    BY <1>3 DEF Record, Agendas
  <2>2. agenda' = agenda \/ agenda' = [agenda EXCEPT !["loop"] = <<"RuntimeError">> \o @]
    BY <1>3 DEF Record
  <2>3. CASE agenda' = agenda
    BY <2>1, <2>3, SameOutstanding DEF Outstanding
  <2>4. CASE agenda' = [agenda EXCEPT !["loop"] = <<"RuntimeError">> \o @]
    <3>1. a \in Seq(Events) /\ agenda'["loop"] = <<"RuntimeError">> \o a
      BY <1>0, <2>4
    <3>2. /\ Len(agenda'["loop"]) = Len(a) + 1 /\ Len(a) \in Nat
          /\ \A n \in 1 .. Len(a) + 1 : agenda'["loop"][n] = IF n = 1 THEN "RuntimeError" ELSE a[n - 1]
          /\ agenda'["loop"] \in Seq(Events \cup {"RuntimeError"}) /\ agenda'["loop"] # <<>>
      BY <3>1
    <3>3. CASE a = <<>>
      <4>1. LastOn(agenda'["loop"]) = "RuntimeError" /\ "RuntimeError" \notin Transitions
        BY <3>2, <3>3 DEF LastOn, Transitions
      <4>2. ~Outstanding /\ ~Outstanding'
        BY <3>3, <4>1 DEF Outstanding, LastOn
      <4> QED BY <2>1, <4>2, SameOutstanding
    <3>4. CASE a # <<>>
      <4>1. LastOn(agenda'["loop"]) = LastOn(a)
        BY <3>1, <3>2, <3>4 DEF LastOn
      <4>2. Outstanding <=> Outstanding'
        BY <2>1, <3>2, <3>4, <4>1 DEF Outstanding, LastOn
      <4> QED BY <2>1, <4>1, <4>2, SameOutstanding
    <3> QED BY <3>3, <3>4
  <2> QED BY <2>2, <2>3, <2>4
<1>4. CASE HandleDetectorError
  <2>1. UNCHANGED <<log, gaps, status>> /\ a = <<>> /\ agenda'["loop"] = <<"RuntimeError">>
    BY <1>0, <1>4 DEF HandleDetectorError, Tick, Agendas
  <2>2. ~Outstanding /\ ~Outstanding'
    BY <2>1 DEF Outstanding, Transitions
  <2> QED BY <2>1, <2>2, SameOutstanding
<1>5. CASE Other
  <2>1. UNCHANGED <<log, gaps, status, todo>> /\ agenda'["loop"] = a
    BY <1>0, <1>5 DEF Other
  <2>2. Outstanding <=> Outstanding'
    BY <2>1 DEF Outstanding
  <2> QED BY <2>1, <2>2, SameOutstanding
<1>6. ASSUME NEW p \in Publisher, Publish(p) PROVE LogIsBehind'
  <2>1. /\ UNCHANGED <<log, gaps, status, agenda>> /\ todo[p] = {}
        /\ todo' = [todo EXCEPT ![p] = {<<i, subscribers[i]>> : i \in DOMAIN subscribers}]
    BY <1>6 DEF Publish
  <2>2. p = "loop" => <<0, Log>> \in todo'["loop"]
    BY <1>0, <2>1 DEF Registered
  <2>3. Outstanding <=> Outstanding'
    BY <1>0, <2>1, <2>2 DEF Outstanding
  <2> QED BY <2>1, <2>3, SameOutstanding
<1>7. ASSUME NEW p \in Publisher, Deliver(p) PROVE LogIsBehind'
  <2> DEFINE e == Head(agenda[p])
  <2>1. PICK x \in todo[p] :
            /\ todo' = [todo EXCEPT ![p] = @ \ {x}]
            /\ agenda' = IF todo'[p] = {} THEN [agenda EXCEPT ![p] = Tail(@)] ELSE agenda
            /\ \/ x[2] = Log /\ log' = log \o Transitional(<<e>>) /\ gaps' = gaps
               \/ x[2] = Log /\ log' = log /\ gaps' = gaps \cup {Len(log)} /\ e \in Transitions
               \/ x[2] # Log /\ log' = log /\ gaps' = gaps
    BY <1>7 DEF Deliver, WriteLog
  <2>2. status' = status
    BY <1>7 DEF Deliver
  <2>3. agenda[p] \in Seq(Events) /\ agenda[p] # <<>> /\ e \in Events
    BY <1>0, <2>1 DEF Agendas
  <2>4. x \in Nat \X Subscriber /\ (x[2] = Log <=> x = <<0, Log>>)
    BY <1>0, <2>1 DEF Addressed
  <2>5. e \notin Transitions => log' = log /\ gaps' = gaps
    BY <1>0, <1>a, <2>1, <2>3, ConcatEmptySeq
  <2>6. CASE p = "other"
    <3>1. e \notin Transitions
      BY <2>3, <2>6 DEF Agendas, Transitions
    <3>2. todo'["loop"] = todo["loop"] /\ agenda'["loop"] = a
      BY <1>0, <2>1, <2>6
    <3>3. Outstanding <=> Outstanding'
      BY <3>2 DEF Outstanding
    <3> QED BY <2>2, <2>5, <3>1, <3>2, <3>3, SameOutstanding
  <2>7. CASE p = "loop"
    <3>1. /\ a # <<>> /\ Len(a) \in Nat \ {0} /\ e = a[1]
          /\ x \in todo["loop"] /\ todo'["loop"] = todo["loop"] \ {x}
          /\ agenda'["loop"] = IF todo'["loop"] = {} THEN Tail(a) ELSE a
      BY <1>0, <2>1, <2>3, <2>7
    <3>2. CASE Len(a) # 1
      <4>1. 1 \in 1 .. Len(a) - 1 /\ Tail(a) # <<>> /\ LastOn(Tail(a)) = LastOn(a)
        BY <1>0, <3>1, <3>2, TailOfLonger
      <4>2. e \notin Transitions
        BY <3>1, <4>1 DEF Agendas
      <4>3. agenda'["loop"] # <<>> /\ LastOn(agenda'["loop"]) = LastOn(a)
        BY <3>1, <4>1
      <4>4. ~(Len(agenda'["loop"]) = 1 /\ todo'["loop"] # {} /\ <<0, Log>> \notin todo'["loop"])
        <5>1. todo'["loop"] # {} => agenda'["loop"] = a
          BY <3>1
        <5> HIDE DEF a
        <5> QED BY <3>2, <5>1
      <4>5. Outstanding <=> Outstanding'
        BY <3>1, <3>2, <4>3, <4>4 DEF Outstanding, LastOn
      <4> QED BY <2>2, <2>5, <4>2, <4>3, <4>5, SameOutstanding
    <3>3. CASE Len(a) = 1
      <4>1. Tail(a) = <<>> /\ LastOn(a) = e
        <5>1. a \in Seq(Events)
          BY <1>0
        <5>2. Tail(a) \in Seq(Events) /\ Len(Tail(a)) = 0
          BY ONLY <3>1, <3>3, <5>1, HeadTailProperties
        <5>3. Tail(a) = <<>>
          BY ONLY <5>2, EmptySeq
        <5> QED BY <3>1, <3>3, <5>3 DEF LastOn
      <4>2. CASE x[2] # Log
        <5>1. log' = log /\ gaps' = gaps /\ x # <<0, Log>>
          BY <2>1, <2>4, <4>2
        <5>2. CASE todo'["loop"] = {}
          <6>1. <<0, Log>> \notin todo["loop"]
            BY <3>1, <5>1, <5>2
          <6>2. ~Outstanding /\ ~Outstanding'
            BY <3>1, <3>3, <4>1, <5>2, <6>1 DEF Outstanding
          <6> QED BY <2>2, <5>1, <6>2, SameOutstanding
        <5>3. CASE todo'["loop"] # {}
          <6>1. agenda'["loop"] = a /\ (<<0, Log>> \in todo["loop"] <=> <<0, Log>> \in todo'["loop"])
            BY <3>1, <5>1, <5>3
          <6>2. Outstanding <=> Outstanding'
            BY <3>1, <5>3, <6>1 DEF Outstanding
          <6> QED BY <2>2, <5>1, <6>1, <6>2, SameOutstanding
        <5> QED BY <5>2, <5>3
      <4>3. CASE x[2] = Log
        <5>1. /\ x = <<0, Log>>
              /\ \/ log' = log \o Transitional(<<e>>) /\ gaps' = gaps
                 \/ log' = log /\ gaps' = gaps \cup {Len(log)} /\ e \in Transitions
          BY <2>1, <2>4, <4>3
        <5>2. Outstanding <=> e \in Transitions
          BY <3>1, <4>1, <5>1 DEF Outstanding, LastOn
        <5>3. ~Outstanding'
          BY <3>1, <3>3, <4>1, <5>1 DEF Outstanding
        <5>4. CASE e \notin Transitions
          BY <2>2, <2>5, <5>2, <5>3, <5>4, SameOutstanding
        <5>5. CASE log' = log /\ gaps' = gaps \cup {Len(log)} /\ e \in Transitions
          BY <1>0, <5>3, <5>5 DEF LogIsBehind, SaysUnderAttack
        <5>6. CASE e \in Transitions /\ log' = log \o Transitional(<<e>>) /\ gaps' = gaps
          <6>1. /\ status = "under_attack" <=> e = "AttackDetected"
                /\ Len(log) \notin gaps => (status = "under_attack" <=> ~SaysUnderAttack(Len(log)))
            BY <4>1, <5>2, <5>6 DEF LogIsBehind
          <6>2. log' = Append(log, e)
            BY <1>0, <1>a, <2>3, <5>6, AppendIsConcat
          <6>3. /\ Len(log') = Len(log) + 1 /\ Len(log) \in Nat /\ DOMAIN log = 1 .. Len(log)
                /\ DOMAIN log' = 1 .. Len(log) + 1
                /\ log'[Len(log) + 1] = e /\ \A n \in 1 .. Len(log) : log'[n] = log[n]
            BY <1>0, <5>6, <6>2
          <6>4. /\ \A n \in 0 .. Len(log) : SaysUnderAttack(n)' <=> SaysUnderAttack(n)
                /\ SaysUnderAttack(Len(log))' <=> e = "AttackDetected"
            BY <6>3 DEF SaysUnderAttack
          <6>5. \A n \in DOMAIN log' :
                   n - 1 \notin gaps' => (log'[n] = "AttackDetected" <=> ~SaysUnderAttack(n - 1)')
            <7> SUFFICES ASSUME NEW n \in DOMAIN log', n - 1 \notin gaps'
                         PROVE  log'[n] = "AttackDetected" <=> ~SaysUnderAttack(n - 1)'
              OBVIOUS
            <7>1. CASE n = Len(log) + 1
              <8>1. n - 1 = Len(log)
                BY <6>3, <7>1
              <8>2. SaysUnderAttack(n - 1)' <=> SaysUnderAttack(Len(log))
                BY <6>3, <6>4, <8>1
              <8>3. e \in {"AttackDetected", "AttackCleared"} /\ log'[n] = e
                BY <5>6, <6>3, <7>1 DEF Transitions
              <8> QED BY <5>6, <6>1, <8>1, <8>2, <8>3
            <7>2. CASE n # Len(log) + 1
              <8>1. n \in DOMAIN log /\ n - 1 \in 0 .. Len(log)
                BY <6>3, <7>2
              <8>2. log[n] = "AttackDetected" <=> ~SaysUnderAttack(n - 1)
                BY <5>6, <8>1 DEF LogIsBehind
              <8> QED BY <6>3, <6>4, <8>1, <8>2
            <7> QED BY <7>1, <7>2
          <6> QED BY <2>2, <5>3, <6>1, <6>4, <6>5 DEF LogIsBehind
        <5> QED BY <5>1, <5>4, <5>5, <5>6
      <4> QED BY <4>2, <4>3
    <3> QED BY <3>2, <3>3
  <2> QED BY <1>0, <2>6, <2>7
<1>8. CASE ClearLog
  BY <1>8 DEF ClearLog, LogIsBehind, Outstanding, SaysUnderAttack
<1>9. CASE UNCHANGED <<log, gaps, status, agenda, todo>>
  BY <1>9, SameOutstanding DEF Outstanding
<1> QED
  BY <1>1, <1>2, <1>3, <1>4, <1>5, <1>6, <1>7, <1>8, <1>9
  DEF Next, Start, Return, Subscribe, Unsubscribe, Write

LEMMA MonitoredStep ==
  TypeOK /\ Monitored /\ FileIsBehind /\ [Next]_vars => Monitored'
<1> SUFFICES ASSUME TypeOK, Monitored, FileIsBehind, [Next]_vars PROVE Monitored'
  OBVIOUS
<1>1. CASE Crash
  BY <1>1 DEF Crash, Reset, Monitored
<1>2. CASE HandleSample
  BY <1>2 DEF HandleSample, Tick, Monitored, TypeOK, Status
<1>3. CASE Record
  <2>1. /\ pc = "record" /\ pc' = "publish" /\ UNCHANGED <<status, signals, samples>>
        /\ attacks' = Recorded(attacks, signals, samples)
    BY <1>3 DEF Record
  <2>2. attacks \in Seq(Attack) /\ signals \in SUBSET Kind /\ samples \in Nat /\ samples # 0
    BY <2>1 DEF TypeOK, Monitored
  <2>3. ActiveKinds(attacks') = signals'
    BY <2>1, <2>2, RecordedFacts
  <2> QED BY <2>1, <2>3 DEF Monitored
<1>4. CASE HandleDetectorError \/ Return
  BY <1>4 DEF HandleDetectorError, Tick, Return, Monitored
<1>5. CASE Start
  BY <1>5 DEF Start, Monitored, FileIsBehind
<1>6. CASE UNCHANGED <<status, signals, pc, attacks, samples>>
  BY <1>6 DEF Monitored, ActiveKinds, Active
<1> QED
  BY <1>1, <1>2, <1>3, <1>4, <1>5, <1>6
  DEF Next, Other, Publish, Deliver, Subscribe, Unsubscribe, Write, ClearLog

LEMMA FileIsBehindStep ==
  TypeOK /\ Monitored /\ FileIsBehind /\ [Next]_vars => FileIsBehind'
<1> SUFFICES ASSUME TypeOK, Monitored, FileIsBehind, [Next]_vars PROVE FileIsBehind'
  OBVIOUS
<1>1. CASE Crash
  BY <1>1 DEF Crash, Reset, FileIsBehind
<1>2. CASE Start
  BY <1>2 DEF Start, Load, FileIsBehind, Continues
<1>3. CASE Record
  <2>1. /\ pc = "record" /\ UNCHANGED <<up, status>>
        /\ attacks' = Recorded(attacks, signals, samples)
        /\ file' = attacks' \/ file' = file
    BY <1>3 DEF Record
  <2>2. attacks \in Seq(Attack) /\ signals \in SUBSET Kind /\ samples \in Nat /\ samples # 0 /\ up
    BY <2>1 DEF TypeOK, Monitored, FileIsBehind
  <2>3. Continues(attacks, attacks')
    BY <2>1, <2>2, RecordedFacts
  <2>4. Continues(file, attacks)
    BY <2>2 DEF FileIsBehind
  <2>5. Continues(file, attacks') /\ Continues(attacks', attacks')
    <3>1. \A i \in DOMAIN file : i \in DOMAIN attacks'
      BY <2>3, <2>4 DEF Continues
    <3>2. \A i \in DOMAIN file : attacks'[i].kind = file[i].kind /\ attacks'[i].start = file[i].start
      BY <2>3, <2>4 DEF Continues
    <3>3. \A i \in DOMAIN file : file[i].end # 0 => attacks'[i].end = file[i].end
      BY <2>3, <2>4 DEF Continues
    <3> QED BY <3>1, <3>2, <3>3 DEF Continues
  <2> QED BY <2>1, <2>2, <2>5 DEF FileIsBehind
<1>4. CASE HandleSample \/ HandleDetectorError \/ Return
  BY <1>4 DEF HandleSample, HandleDetectorError, Tick, Return, FileIsBehind
<1>5. CASE UNCHANGED <<up, file, attacks, pc, status>>
  BY <1>5 DEF FileIsBehind
<1> QED
  BY <1>1, <1>2, <1>3, <1>4, <1>5
  DEF Next, Other, Publish, Deliver, Subscribe, Unsubscribe, Write, ClearLog

LEMMA OneActiveStep ==
  TypeOK /\ Monitored /\ OneActiveAttackPerKind /\ [Next]_vars => OneActiveAttackPerKind'
<1> SUFFICES ASSUME TypeOK, Monitored, OneActiveAttackPerKind, [Next]_vars
             PROVE  OneActiveAttackPerKind'
  OBVIOUS
<1>1. CASE Crash
  <2>1. OneActive(<<>>)
    BY DEF OneActive, Active
  <2> QED BY <1>1, <2>1 DEF Crash, OneActiveAttackPerKind
<1>2. CASE Start
  BY <1>2 DEF Start, Load, OneActiveAttackPerKind
<1>3. CASE Record
  <2>1. /\ pc = "record" /\ attacks' = Recorded(attacks, signals, samples)
        /\ file' = attacks' \/ file' = file
    BY <1>3 DEF Record
  <2>2. attacks \in Seq(Attack) /\ signals \in SUBSET Kind /\ samples \in Nat /\ samples # 0
    BY <2>1 DEF TypeOK, Monitored
  <2>3. OneActive(attacks')
    BY <2>1, <2>2, RecordedFacts DEF OneActiveAttackPerKind
  <2> QED BY <2>1, <2>3 DEF OneActiveAttackPerKind
<1>4. CASE UNCHANGED <<attacks, file>>
  BY <1>4 DEF OneActiveAttackPerKind
<1> QED
  BY <1>1, <1>2, <1>3, <1>4
  DEF Next, HandleSample, HandleDetectorError, Return, Other, Publish, Deliver,
      Subscribe, Unsubscribe, Write, ClearLog

LEMMA TypeOKStep ==
  TypeOK /\ Registered /\ Addressed /\ Agendas /\ OwedIsQueued /\ Monitored /\ [Next]_vars => TypeOK'
<1> SUFFICES ASSUME TypeOK, Registered, Addressed, Agendas, OwedIsQueued, Monitored, [Next]_vars
             PROVE  TypeOK'
  OBVIOUS
<1>0. /\ agenda \in [Publisher -> Seq(Events)] /\ todo \in [Publisher -> SUBSET (Nat \X Subscriber)]
      /\ Publisher = {"loop", "other"}
      /\ id \in [Stream -> Nat] /\ nextID \in Nat
      /\ queue \in [Stream -> Seq(Events)] /\ \A s \in Stream : Len(queue[s]) <= Queue
      /\ owed \in [Stream -> Seq(Transitions)] /\ lost \subseteq Stream /\ log \in Seq(Transitions)
  BY DEF TypeOK, Publisher
<1>a. Registered'
  BY RegisteredStep
<1>b. \A e \in Events : Transitional(<<e>>) \in Seq(Transitions)
  <2>1. <<>> \in Seq(Events)
    OBVIOUS
  <2> QED BY <2>1, TransitionalFacts
<1>c. /\ "SampleCollected" \in Events /\ "RuntimeError" \in Events /\ "Other" \in Events
      /\ "AttackDetected" \in Events /\ "AttackCleared" \in Events
  BY DEF Events, Transitions
\* Registered says what the subscribers are.
<1>d. IsInjective(subscribers') /\ Range(subscribers') = {Log} \cup {s \in Stream : id'[s] # 0}
  <2>1. \A i, j \in DOMAIN subscribers' : subscribers'[i] = subscribers'[j] => i = j
    BY <1>a, LogAssumption DEF Registered
  <2>2. Range(subscribers') \subseteq {Log} \cup {s \in Stream : id'[s] # 0}
    BY <1>a DEF Registered, Range
  <2>3. {Log} \cup {s \in Stream : id'[s] # 0} \subseteq Range(subscribers')
    BY <1>a DEF Registered, Range
  <2> QED BY <2>1, <2>2, <2>3 DEF IsInjective
<1>1. CASE Crash
  <2>1. /\ agenda' \in [Publisher -> Seq(Events)] /\ todo' \in [Publisher -> SUBSET (Nat \X Subscriber)]
        /\ id' \in [Stream -> Nat] /\ queue' \in [Stream -> Seq(Events)]
        /\ \A s \in Stream : Len(queue'[s]) <= Queue
        /\ log' \in Seq(Transitions) /\ gaps' \subseteq 0 .. Len(log')
        /\ owed' \in [Stream -> Seq(Transitions)]
        /\ attacks' \in Seq(Attack)
    BY <1>1, QueueAssumption DEF Crash, Reset
  <2>2. /\ up' \in BOOLEAN /\ status' \in {"starting", "quiet", "under_attack"}
        /\ file' \in Seq(Attack) /\ pc' \in {"idle", "record", "publish"} /\ signals' \subseteq Kind
        /\ nextID' \in Nat /\ lost' \subseteq Stream
        /\ samples' \in Nat /\ faults' \in Nat /\ crashes' \in Nat /\ others' \in Nat /\ streams' \in Nat
    <3>1. /\ up' = FALSE /\ status' = "starting" /\ pc' = "idle" /\ signals' = {} /\ nextID' = 1
          /\ lost' = {} /\ crashes' = crashes + 1 /\ UNCHANGED <<file, samples, faults, others, streams>>
      BY <1>1 DEF Crash, Reset
    <3>2. /\ file \in Seq(Attack) /\ crashes \in Nat
          /\ samples \in Nat /\ faults \in Nat /\ others \in Nat /\ streams \in Nat
      BY DEF TypeOK
    <3>3. /\ up' \in BOOLEAN /\ status' \in {"starting", "quiet", "under_attack"}
          /\ pc' \in {"idle", "record", "publish"} /\ nextID' \in Nat
      BY <3>1
    <3>4. signals' \subseteq Kind /\ lost' \subseteq Stream
      BY <3>1
    <3>5. /\ file' \in Seq(Attack) /\ crashes' \in Nat
          /\ samples' \in Nat /\ faults' \in Nat /\ others' \in Nat /\ streams' \in Nat
      BY <3>1, <3>2
    <3> QED BY <3>3, <3>4, <3>5
  <2> QED BY <1>d, <2>1, <2>2 DEF TypeOK
<1>2. CASE Start
  BY <1>2, <1>d DEF Start, Load, TypeOK
<1>3. CASE HandleSample
  <2>1. PICK sig \in SUBSET Kind :
            /\ signals' = sig /\ status' = Status(sig)
            /\ agenda' = [agenda EXCEPT !["loop"] = <<"SampleCollected">> \o Transition(status, Status(sig))]
    BY <1>3 DEF HandleSample
  <2>2. Transition(status, Status(sig)) \in {<<>>, <<"AttackDetected">>, <<"AttackCleared">>}
    BY DEF Transition
  <2>3. agenda' \in [Publisher -> Seq(Events)]
    BY <1>0, <2>1, <2>2, SampleAgenda
  <2>4. status' \in {"starting", "quiet", "under_attack"} /\ samples' \in Nat
    BY <1>3, <2>1 DEF HandleSample, Tick, Status, TypeOK
  <2> QED BY <1>3, <1>d, <2>1, <2>3, <2>4 DEF HandleSample, TypeOK
<1>4. CASE Record
  <2>1. /\ pc = "record" /\ attacks' = Recorded(attacks, signals, samples)
        /\ file' = attacks' \/ file' = file
    BY <1>4 DEF Record
  <2>2. attacks \in Seq(Attack) /\ signals \in SUBSET Kind /\ samples \in Nat /\ samples # 0
    BY <2>1 DEF TypeOK, Monitored
  <2>3. attacks' \in Seq(Attack) /\ file' \in Seq(Attack)
    BY <2>1, <2>2, RecordedFacts DEF TypeOK
  <2>4. agenda' \in [Publisher -> Seq(Events)] /\ faults' \in Nat
    <3>1. <<"RuntimeError">> \o agenda["loop"] \in Seq(Events)
      BY <1>0, <1>c
    <3>2. agenda' \in {agenda, [agenda EXCEPT !["loop"] = <<"RuntimeError">> \o @]}
      BY <1>4 DEF Record
    <3>3. agenda' \in [Publisher -> Seq(Events)]
      BY <1>0, <3>1, <3>2
    <3>4. faults' \in Nat
      BY <1>4 DEF Record, Fault, TypeOK
    <3> QED BY <3>3, <3>4
  <2> QED BY <1>4, <1>d, <2>3, <2>4 DEF Record, TypeOK
<1>5. CASE HandleDetectorError
  <2>1. <<"RuntimeError">> \in Seq(Events)
    BY <1>c
  <2>2. agenda' \in [Publisher -> Seq(Events)]
    BY <1>0, <1>5, <2>1 DEF HandleDetectorError
  <2> QED BY <1>5, <1>d, <2>2 DEF HandleDetectorError, Tick, Fault, TypeOK
<1>6. CASE Return
  BY <1>6, <1>d DEF Return, TypeOK
<1>7. CASE Other
  <2>1. <<"Other">> \in Seq(Events)
    BY <1>c
  <2>2. agenda' \in [Publisher -> Seq(Events)]
    BY <1>0, <1>7, <2>1 DEF Other
  <2> QED BY <1>7, <1>d, <2>2 DEF Other, TypeOK
<1>8. ASSUME NEW p \in Publisher, Publish(p) PROVE TypeOK'
  <2>1. Head(agenda[p]) \in Events
    BY <1>0, <1>8 DEF Publish
  <2>2. owed' \in [Stream -> Seq(Transitions)]
    <3>1. \A s \in Stream : owed[s] \o Transitional(<<Head(agenda[p])>>) \in Seq(Transitions)
      BY <1>0, <1>b, <2>1, ConcatProperties
    <3> QED BY <1>0, <1>8, <3>1 DEF Publish
  <2>3. todo' \in [Publisher -> SUBSET (Nat \X Subscriber)]
    <3>1. {<<i, subscribers[i]>> : i \in DOMAIN subscribers} \in SUBSET (Nat \X Subscriber)
      BY DEF Registered, Subscriber
    <3> QED BY <1>0, <1>8, <3>1 DEF Publish
  <2> QED BY <1>8, <1>d, <2>2, <2>3 DEF Publish, TypeOK
<1>9. ASSUME NEW p \in Publisher, Deliver(p) PROVE TypeOK'
  <2> DEFINE e == Head(agenda[p])
  <2>1. PICK x \in todo[p] :
            /\ todo' = [todo EXCEPT ![p] = @ \ {x}]
            /\ agenda' = IF todo'[p] = {} THEN [agenda EXCEPT ![p] = Tail(@)] ELSE agenda
            /\ \/ x[2] = Log /\ WriteLog(e) /\ UNCHANGED <<queue, owed, lost>>
               \/ x[2] # Log /\ Enqueue(x[1], x[2], e) /\ UNCHANGED <<logged, faults>>
    BY <1>9 DEF Deliver
  <2>2. agenda[p] \in Seq(Events) /\ agenda[p] # <<>> /\ e \in Events /\ Tail(agenda[p]) \in Seq(Events)
    <3>1. agenda[p] \in Seq(Events) /\ agenda[p] # <<>>
      BY <1>0, <2>1 DEF Agendas
    <3> QED BY <3>1
  <2>3. todo' \in [Publisher -> SUBSET (Nat \X Subscriber)] /\ agenda' \in [Publisher -> Seq(Events)]
    BY <1>0, <2>1, <2>2
  <2>4. log' \in Seq(Transitions) /\ gaps' \subseteq 0 .. Len(log') /\ faults' \in Nat
    <3>0. gaps \subseteq 0 .. Len(log) /\ faults \in Nat
      BY DEF TypeOK
    <3>1. Transitional(<<e>>) \in Seq(Transitions)
      BY <1>b, <2>2
    <3>2. /\ log \o Transitional(<<e>>) \in Seq(Transitions)
          /\ Len(log \o Transitional(<<e>>)) = Len(log) + Len(Transitional(<<e>>))
      <4> HIDE DEF e
      <4> QED BY <1>0, <3>1, ConcatProperties
    <3>3. Len(Transitional(<<e>>)) \in Nat /\ Len(log) \in Nat
      BY <1>0, <3>1
    <3>4. CASE log' = log \o Transitional(<<e>>) /\ gaps' = gaps /\ faults' = faults
      <4>1. Len(log) <= Len(log')
        BY ONLY <3>2, <3>3, <3>4
      <4>2. Len(log') \in Nat
        BY ONLY <3>2, <3>3, <3>4
      <4>3. gaps' \subseteq 0 .. Len(log')
        BY ONLY <3>0, <3>3, <3>4, <4>1, <4>2
      <4> QED BY <3>0, <3>2, <3>4, <4>3
    <3>5. CASE log' = log /\ gaps' = gaps \cup {Len(log)} /\ faults' = faults + 1
      <4>1. log' \in Seq(Transitions) /\ faults' \in Nat
        BY <1>0, <3>0, <3>5
      <4>2. Len(log) \in 0 .. Len(log) /\ Len(log') = Len(log)
        BY ONLY <3>3, <3>5
      <4>3. gaps' \subseteq 0 .. Len(log')
        BY ONLY <3>0, <3>5, <4>2
      <4> QED BY <4>1, <4>3
    <3>6. CASE log' = log /\ gaps' = gaps /\ faults' = faults
      BY <1>0, <3>0, <3>6
    <3> QED BY <2>1, <3>4, <3>5, <3>6 DEF WriteLog, Fault
  <2>5. /\ queue' \in [Stream -> Seq(Events)] /\ \A s \in Stream : Len(queue'[s]) <= Queue
        /\ owed' \in [Stream -> Seq(Transitions)] /\ lost' \subseteq Stream
    <3>1. CASE x[2] = Log
      BY <1>0, <2>1, <3>1
    <3>2. CASE x[2] # Log
      <4> DEFINE t == x[2]
      <4>1. t \in Stream /\ Enqueue(x[1], t, e)
        BY <1>0, <2>1, <3>2 DEF Subscriber
      <4>2. CASE UNCHANGED <<queue, owed, lost>>
        BY <1>0, <4>2
      <4>3. CASE Len(queue[t]) < Queue /\ queue' = [queue EXCEPT ![t] = Append(@, e)]
                 /\ UNCHANGED <<owed, lost>>
        <5>1. Append(queue[t], e) \in Seq(Events) /\ Len(Append(queue[t], e)) = Len(queue[t]) + 1
          BY <1>0, <2>2, <4>1, AppendProperties
        <5>2. Len(queue[t]) \in Nat /\ Queue \in Nat
          BY <1>0, <4>1, QueueAssumption
        <5>3. Len(queue[t]) + 1 <= Queue
          BY <4>3, <5>2
        <5>4. queue' \in [Stream -> Seq(Events)]
          BY <1>0, <4>3, <5>1
        <5>5. \A s \in Stream : queue'[s] = IF s = t THEN Append(queue[t], e) ELSE queue[s]
          BY <1>0, <4>3
        <5> QED BY <1>0, <4>3, <5>1, <5>3, <5>4, <5>5
      <4>4. CASE lost' = lost \cup {t} /\ owed' = [owed EXCEPT ![t] = <<>>] /\ queue' = queue
        BY <1>0, <4>1, <4>4
      <4> QED BY <4>1, <4>2, <4>3, <4>4 DEF Enqueue
    <3> QED BY <3>1, <3>2
  <2> QED BY <1>9, <1>d, <2>3, <2>4, <2>5 DEF Deliver, TypeOK
<1>10. ASSUME NEW s \in Stream, Subscribe(s) PROVE TypeOK'
  <2>0. nextID' = nextID + 1 /\ id' = [id EXCEPT ![s] = nextID] /\ streams' = streams + 1
    BY <1>10 DEF Subscribe, FreshID
  <2>1. nextID' \in Nat /\ id' \in [Stream -> Nat] /\ streams' \in Nat
    <3>1. streams \in Nat
      BY DEF TypeOK
    <3> QED BY ONLY <1>0, <2>0, <3>1
  <2>2. UNCHANGED <<up, status, attacks, file, pc, signals, agenda, todo, queue, log, gaps,
                    samples, faults, crashes, others, owed, lost>>
    BY <1>10 DEF Subscribe
  <2> QED BY <1>d, <2>1, <2>2 DEF TypeOK
<1>11. ASSUME NEW s \in Stream, Unsubscribe(s) PROVE TypeOK'
  <2>1. /\ queue' \in [Stream -> Seq(Events)] /\ \A t \in Stream : Len(queue'[t]) <= Queue
        /\ owed' \in [Stream -> Seq(Transitions)] /\ id' \in [Stream -> Nat] /\ lost' \subseteq Stream
    BY <1>0, <1>11, QueueAssumption DEF Unsubscribe
  <2> QED BY <1>11, <1>d, <2>1 DEF Unsubscribe, TypeOK
<1>12. ASSUME NEW s \in Stream, Write(s) PROVE TypeOK'
  <2>1. /\ queue[s] \in Seq(Events) /\ queue[s] # <<>> /\ id[s] # 0
        /\ queue' = [queue EXCEPT ![s] = Tail(@)]
    BY <1>0, <1>12 DEF Write
  <2>2. /\ Tail(queue[s]) \in Seq(Events) /\ Len(Tail(queue[s])) <= Len(queue[s])
        /\ Len(queue[s]) \in Nat /\ Len(Tail(queue[s])) \in Nat
    BY <2>1
  <2>3. queue' \in [Stream -> Seq(Events)] /\ \A t \in Stream : Len(queue'[t]) <= Queue
    <3>1. queue' \in [Stream -> Seq(Events)]
      BY <1>0, <2>1, <2>2
    <3>2. \A t \in Stream : queue'[t] = IF t = s THEN Tail(queue[s]) ELSE queue[t]
      BY <1>0, <2>1
    <3>3. Len(Tail(queue[s])) <= Queue
      BY <1>0, <2>2, QueueAssumption
    <3> QED BY <1>0, <3>1, <3>2, <3>3
  \* What the client is owed begins with the transition it is given.
  <2>4. owed' \in [Stream -> Seq(Transitions)]
    <3>1. CASE s \notin lost /\ Head(queue[s]) \in Transitions
      <4>1. owed[s] = Transitional(queue[s]) \o Pending(s)
        BY <2>1, <3>1 DEF OwedIsQueued
      <4>2. Transitional(queue[s]) = Transitional(<<Head(queue[s])>>) \o Transitional(Tail(queue[s]))
        BY <1>c, <2>1, TransitionalFacts
      <4>3. Head(queue[s]) \in Events /\ <<>> \in Seq(Events)
        BY <2>1
      <4>4. Transitional(<<Head(queue[s])>>) = <<Head(queue[s])>>
        BY <3>1, <4>3, TransitionalFacts
      <4>5. Transitional(Tail(queue[s])) \in Seq(Transitions) /\ Pending(s) \in Seq(Transitions)
        BY <1>c, <2>2, TransitionalFacts, PendingType
      <4>6. owed[s] # <<>>
        <5> DEFINE h == <<Head(queue[s])>>
                   w == Transitional(Tail(queue[s]))
                   g == Pending(s)
        <5>1. h \in Seq(Transitions) /\ Len(h) = 1
          BY <3>1
        <5> HIDE DEF h, w, g
        <5>2. w \in Seq(Transitions) /\ g \in Seq(Transitions)
          BY <4>5 DEF w, g
        <5>3. Len(h \o w) = 1 + Len(w) /\ h \o w \in Seq(Transitions) /\ Len(w) \in Nat
          <6>1. Len(h \o w) = Len(h) + Len(w) /\ h \o w \in Seq(Transitions)
            BY ONLY <5>1, <5>2, ConcatProperties
          <6>2. Len(w) \in Nat
            BY ONLY <5>2, LenProperties
          <6> QED BY ONLY <5>1, <6>1, <6>2
        <5>4. Len((h \o w) \o g) = 1 + Len(w) + Len(g) /\ Len(g) \in Nat
          <6>1. Len(g) \in Nat
            BY ONLY <5>2, LenProperties
          <6>2. Len((h \o w) \o g) = Len(h \o w) + Len(g)
            <7> DEFINE hw == h \o w
            <7>1. hw \in Seq(Transitions)
              BY <5>3
            <7> HIDE DEF hw
            <7>2. Len(hw \o g) = Len(hw) + Len(g)
              BY ONLY <5>2, <7>1, ConcatProperties
            <7> QED BY <7>2 DEF hw
          <6> QED BY ONLY <6>1, <6>2, <5>3
        <5>5. owed[s] = (h \o w) \o g
          BY <4>1, <4>2, <4>4 DEF h, w, g
        <5> QED BY <5>3, <5>4, <5>5
      <4>7. owed[s] \in Seq(Transitions) /\ Tail(owed[s]) \in Seq(Transitions)
        BY <1>0, <4>6
      <4> QED BY <1>0, <1>12, <4>7 DEF Write
    <3>2. CASE ~(s \notin lost /\ Head(queue[s]) \in Transitions)
      BY <1>0, <1>12, <3>2 DEF Write
    <3> QED BY <3>1, <3>2
  <2> QED BY <1>12, <1>d, <2>3, <2>4 DEF Write, TypeOK
<1>13. CASE ClearLog
  BY <1>13, <1>d DEF ClearLog, TypeOK
<1>14. CASE UNCHANGED vars
  BY <1>14 DEF TypeOK
<1> QED
  BY <1>1, <1>2, <1>3, <1>4, <1>5, <1>6, <1>7, <1>8, <1>9, <1>10, <1>11, <1>12, <1>13, <1>14 DEF Next

-----------------------------------------------------------------------------
(* The theorems.                                                           *)

\* The inductive invariant holds: it does at first, and every step keeps it.
THEOREM Inductive == Spec => []IInv
<1>1. Init => IInv
  BY InitIInv
<1>2. IInv /\ [Next]_vars => IInv'
  <2> SUFFICES ASSUME IInv, [Next]_vars PROVE IInv'
    OBVIOUS
  <2> USE DEF IInv
  <2>1. Registered' /\ Addressed' /\ ClosedAreEmpty' /\ Agendas'
    BY RegisteredStep, AddressedStep, ClosedAreEmptyStep, AgendasStep
  <2>2. OwedIsQueued' /\ LogIsBehind'
    BY OwedIsQueuedStep, LogIsBehindStep
  <2>3. Monitored' /\ FileIsBehind' /\ OneActiveAttackPerKind'
    BY MonitoredStep, FileIsBehindStep, OneActiveStep
  <2>4. TypeOK'
    BY TypeOKStep
  <2> QED BY <2>1, <2>2, <2>3, <2>4
<1> QED BY <1>1, <1>2, PTL DEF Spec

\* Every variable has its type.
THEOREM TypeInvariant == Spec => []TypeOK
<1>1. IInv => TypeOK
  BY DEF IInv
<1> QED BY <1>1, Inductive, PTL

\* There is at most one active attack of each kind, in memory and in the file,
\* whatever was saved, lost in a crash and loaded again.
THEOREM OneActive_Always == Spec => []OneActiveAttackPerKind
<1>1. IInv => OneActiveAttackPerKind
  BY DEF IInv
<1> QED BY <1>1, Inductive, PTL

\* Between two samples the history and the statistics agree, also where the
\* history could not be saved.
THEOREM HistoryIsOfTheStatus == Spec => []HistoryMatchesStatus
<1>1. IInv => HistoryMatchesStatus
  <2> SUFFICES ASSUME IInv, pc \in {"idle", "publish"}, status # "starting"
               PROVE  ActiveKinds(attacks) = signals /\ (status = "under_attack" <=> Active(attacks) # {})
    BY DEF HistoryMatchesStatus
  <2>1. ActiveKinds(attacks) = signals /\ status = Status(signals)
    BY DEF IInv, Monitored
  <2>2. Active(attacks) # {} <=> ActiveKinds(attacks) # {}
    BY DEF ActiveKinds
  <2> QED BY <2>1, <2>2 DEF Status
<1> QED BY <1>1, Inductive, PTL

\* Each transition in the log ends what the entries before it say, and between
\* samples the log says what the status is, but where a transition is missing.
THEOREM LogIsOfTheStatus == Spec => []LogTellsTheStatus
<1>1. IInv => LogTellsTheStatus
  BY DEF IInv, LogTellsTheStatus, LogIsBehind, Outstanding, Agendas, SaysUnderAttack
<1> QED BY <1>1, Inductive, PTL

\* A stream that never found its channel full has every transition that was
\* published since it was opened, in order and once.
THEOREM StreamsAreWhole == Spec => []StreamsMissNothing
<1>1. IInv => StreamsMissNothing
  <2> SUFFICES ASSUME IInv, NEW s \in Stream, id[s] # 0, s \notin lost, <<id[s], s>> \notin todo["loop"]
               PROVE  Transitional(queue[s]) = owed[s]
    BY DEF StreamsMissNothing
  <2>1. owed[s] = Transitional(queue[s]) \o <<>>
    BY DEF IInv, OwedIsQueued, Pending
  <2>2. queue[s] \in Seq(Events) /\ "Other" \in Events
    BY DEF IInv, TypeOK, Events
  <2>3. Transitional(queue[s]) \in Seq(Transitions)
    BY <2>2, TransitionalFacts
  <2> QED BY <2>1, <2>3, ConcatEmptySeq
<1> QED BY <1>1, Inductive, PTL

\* No step rewrites the history that was saved: an attack stays where it is, and
\* one that was resolved stays resolved at that time.
THEOREM SavedHistoryIsKept == Spec => SavedHistoryStands
<1>1. IInv /\ [Next]_vars =>
         [\A i \in DOMAIN file :
             /\ i \in DOMAIN file'
             /\ file'[i].kind = file[i].kind /\ file'[i].start = file[i].start
             /\ file[i].end # 0 => file'[i].end = file[i].end]_vars
  <2> SUFFICES ASSUME IInv, [Next]_vars PROVE Continues(file, file')
    BY DEF Continues
  <2>1. CASE Record
    <3>1. /\ pc = "record" /\ attacks' = Recorded(attacks, signals, samples)
          /\ file' = attacks' \/ file' = file
      BY <2>1 DEF Record
    <3>2. FileIsBehind' /\ up' = up /\ up
      BY <2>1, <3>1, FileIsBehindStep DEF IInv, FileIsBehind, Record
    <3>3. Continues(file, attacks)
      BY <3>2 DEF IInv, FileIsBehind
    <3>4. Continues(attacks, attacks')
      <4>1. attacks \in Seq(Attack) /\ signals \in SUBSET Kind /\ samples \in Nat /\ samples # 0
        BY <3>1 DEF IInv, TypeOK, Monitored
      <4> QED BY <3>1, <4>1, RecordedFacts
    <3>5. Continues(file, attacks') /\ Continues(file, file)
      BY <3>3, <3>4 DEF Continues
    <3> QED BY <3>1, <3>5
  <2>2. CASE file' = file
    BY <2>2 DEF Continues
  <2> QED
    BY <2>1, <2>2
    DEF Next, Start, Crash, HandleSample, HandleDetectorError, Return, Other, Publish, Deliver,
        Subscribe, Unsubscribe, Write, ClearLog
<1> QED BY <1>1, Inductive, PTL DEF Spec, SavedHistoryStands

=============================================================================
