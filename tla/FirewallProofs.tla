---------------------------- MODULE FirewallProofs ----------------------------
(***************************************************************************)
(* That the firewall boundary keeps one whole policy in the kernel,        *)
(* whatever the addresses, the requests, the length of a second, the       *)
(* number of callers and of failures.  The argument: the mutex lets one    *)
(* operation be under way; its snapshot shows a policy in force, at most a *)
(* second short; a batch rendered from a state shows that state when it is *)
(* committed, however late; so the table always shows a candidate.         *)
(***************************************************************************)
EXTENDS Firewall, TLAPS

-----------------------------------------------------------------------------
(* Rounding, in whole seconds.                                             *)

\* A quotient and what it leaves: the only arithmetic the rounding needs.
LEMMA DivBounds ==
    ASSUME NEW n \in Nat, NEW d \in Nat \ {0}
    PROVE  /\ n \div d \in Nat
           /\ (n \div d) * d <= n
           /\ n < (n \div d) * d + d
    OBVIOUS

\* A timeout is rounded up: committed at t, it ends no earlier than asked.
LEMMA TimeoutIsEnough ==
    ASSUME NEW e \in Nat, NEW t \in Nat, e > t
    PROVE  /\ SecondsLeft(e, t) \in Nat
           /\ t + SecondsLeft(e, t) * Second >= e
<1> DEFINE n == e - t + Second - 1
<1>1. n \in Nat /\ Second \in Nat \ {0}
  BY SecondAssumption
<1>2. n \div Second \in Nat /\ n < (n \div Second) * Second + Second
  BY <1>1, DivBounds
<1>3. QED
  BY <1>1, <1>2 DEF SecondsLeft

\* A listing is rounded down, by less than a second.
LEMMA ListingIsClose ==
    ASSUME NEW e \in Nat, NEW t \in Nat, e > t
    PROVE  LET w == (e - t) \div Second IN
           /\ w \in Nat
           /\ w * Second \in Nat
           /\ t + w * Second <= e
           /\ t + w * Second >= e - (Second - 1)
<1> DEFINE n == e - t
<1> DEFINE w == n \div Second
<1>1. n \in Nat /\ Second \in Nat \ {0}
  BY SecondAssumption
<1>2. w \in Nat /\ w * Second <= n /\ n < w * Second + Second
  BY <1>1, DivBounds
<1>3. w * Second \in Nat
  BY <1>1, <1>2
<1> HIDE DEF w
<1>4. t + w * Second <= e /\ t + w * Second >= e - (Second - 1)
  BY <1>1, <1>2, <1>3
<1>5. QED
  BY <1>2, <1>3, <1>4 DEF w

-----------------------------------------------------------------------------
(* One ban to an address, and types.                                       *)

OneEach(bans) == \A b, o \in bans : b.addr = o.addr => b = o

\* Normalize returns a state, with one ban to an address.
LEMMA NormalizeType ==
    ASSUME NEW s \in DesiredState, NEW t \in Nat
    PROVE  /\ Normalize(s, t) \in DesiredState
           /\ OneEach(Normalize(s, t).bans)
<1>1. Normalize(s, t) \in DesiredState
  BY DEF Normalize, DesiredState
<1>2. ASSUME NEW b \in Normalize(s, t).bans, NEW o \in Normalize(s, t).bans, b.addr = o.addr
      PROVE  b = o
  <2>1. b \in Ban /\ o \in Ban
    BY <1>1 DEF DesiredState
  <2>2. b.expires <= o.expires /\ o.expires <= b.expires
    BY <1>2 DEF Normalize
  <2>3. QED
    BY <1>2, <2>1, <2>2 DEF Ban
<1>3. QED
  BY <1>1, <1>2 DEF OneEach

\* RenderRuleset returns a batch, with one timeout to an address.
LEMMA RenderType ==
    ASSUME NEW s \in DesiredState, NEW t \in Nat
    PROVE  /\ RenderRuleset(s, t) \in Program
           /\ OneEach(RenderRuleset(s, t).ttl)
           /\ RenderRuleset(s, t).kind = "load"
<1> DEFINE n == Normalize(s, t)
<1>1. n \in DesiredState /\ OneEach(n.bans)
  BY NormalizeType
<1>2. \A b \in n.bans : b \in Ban /\ b.expires > t
  BY <1>1 DEF Normalize, DesiredState
<1>3. \A b \in n.bans : SecondsLeft(b.expires, t) \in Nat
  BY <1>2, TimeoutIsEnough DEF Ban
<1>4. {[addr |-> b.addr, seconds |-> SecondsLeft(b.expires, t)] : b \in n.bans}
        \in SUBSET [addr : Addr, seconds : Nat]
  BY <1>2, <1>3 DEF Ban
<1> HIDE DEF n
<1>5. OneEach({[addr |-> b.addr, seconds |-> SecondsLeft(b.expires, t)] : b \in n.bans})
  BY <1>1 DEF OneEach
<1>6. QED
  BY <1>1, <1>4, <1>5 DEF RenderRuleset, Program, DesiredState, n

\* The kernel commits a batch into a table, with one ban to an address.
LEMMA CommitType ==
    ASSUME NEW p \in Program, NEW t \in Nat, OneEach(p.ttl)
    PROVE  /\ Commit(p, t) \in Table
           /\ OneEach(Commit(p, t).bans)
           /\ ~Commit(p, t).present => Commit(p, t) = AbsentTable
<1>1. CASE p.kind = "destroy"
  BY <1>1 DEF Commit, AbsentTable, Table, OneEach
<1>2. CASE p.kind # "destroy"
  <2> DEFINE bs == {[addr |-> q.addr, expires |-> t + q.seconds * Second] : q \in p.ttl}
  <2>1. \A q \in p.ttl : q.addr \in Addr /\ q.seconds \in Nat
    BY DEF Program
  <2>2. \A q \in p.ttl : t + q.seconds * Second \in Nat
    BY <2>1, SecondAssumption
  <2>3. bs \in SUBSET Ban
    BY <2>1, <2>2 DEF Ban
  <2>4. OneEach(bs)
    BY DEF OneEach
  <2>5. Commit(p, t) = [present |-> TRUE, wl |-> p.wl, perm |-> p.perm, bans |-> bs]
    BY <1>2 DEF Commit
  <2> HIDE DEF bs
  <2>6. QED
    BY <2>3, <2>4, <2>5 DEF Table, Program
<1>3. QED
  BY <1>1, <1>2

\* Shorten returns a state.
LEMMA ShortenType ==
    ASSUME NEW s \in DesiredState
    PROVE  Shorten(s) \in DesiredState
<1>1. \A b \in s.bans : b.addr \in Addr /\ b.expires \in Nat
  BY DEF DesiredState, Ban
<1>2. \A b \in s.bans : (IF b.expires < Second THEN 0 ELSE b.expires - (Second - 1)) \in Nat
  BY <1>1, SecondAssumption
<1>3. {[addr |-> b.addr,
        expires |-> IF b.expires < Second THEN 0 ELSE b.expires - (Second - 1)] : b \in s.bans}
        \in SUBSET Ban
  BY <1>1, <1>2 DEF Ban
<1>4. QED
  BY <1>3 DEF Shorten, DesiredState

\* Reading back a table gives a state, with one ban to an address.
LEMMA ParseType ==
    ASSUME NEW x \in Table, NEW t \in Nat
    PROVE  ParseRuleset(x, t) \in DesiredState
<1>1. \A k \in Live(x, t) : k \in Ban /\ k.addr \in Addr /\ k.expires \in Nat /\ k.expires > t
  BY DEF Live, Table, Ban
<1>2. \A k \in Live(x, t) : t + Expires(k, t) * Second \in Nat
  BY <1>1, ListingIsClose DEF Expires
<1>3. {[addr |-> k.addr, expires |-> t + Expires(k, t) * Second] : k \in Live(x, t)} \in SUBSET Ban
  BY <1>1, <1>2 DEF Ban
<1>4. QED
  BY <1>3 DEF ParseRuleset, DesiredState, Table

-----------------------------------------------------------------------------
(* Showing a policy: by a table, a state or a batch.                       *)

\* Batch p, committed at t or later, shows s.
Renders(p, s, t) ==
    /\ p.wl = s.wl
    /\ p.perm = s.perm
    /\ \A b \in s.bans : b.expires > t =>
          \E q \in p.ttl : q.addr = b.addr /\ t + q.seconds * Second >= b.expires
    /\ \A q \in p.ttl : \E b \in s.bans : b.addr = q.addr
    /\ p.kind = "destroy" => p = CleanupProgram

\* What is shown stays shown: bans end at the same moment in both.
LEMMA ShowsLater ==
    ASSUME NEW x, NEW s \in DesiredState, NEW t \in Nat, NEW u \in Nat, u >= t,
           \A k \in x.bans : k \in Ban,
           Shows(x, s, t)
    PROVE  Shows(x, s, u)
<1>1. \A b \in s.bans : b.expires > u => b.expires > t
  BY DEF DesiredState, Ban
<1>2. \A k \in x.bans : k.expires > u => k.expires > t
  BY DEF Ban
<1>3. QED
  BY <1>1, <1>2 DEF Shows

\* A batch rendered earlier shows its policy still: its timeouts start later.
LEMMA RendersLater ==
    ASSUME NEW p \in Program, NEW s \in DesiredState, NEW t \in Nat, NEW u \in Nat, u >= t,
           Renders(p, s, t)
    PROVE  Renders(p, s, u)
<1>1. ASSUME NEW b \in s.bans, b.expires > u
      PROVE  \E q \in p.ttl : q.addr = b.addr /\ u + q.seconds * Second >= b.expires
  <2>1. b.expires \in Nat /\ b.expires > t
    BY <1>1 DEF DesiredState, Ban
  <2>2. PICK q \in p.ttl : q.addr = b.addr /\ t + q.seconds * Second >= b.expires
    BY <2>1 DEF Renders
  <2>3. q.seconds * Second \in Nat
    BY SecondAssumption DEF Program
  <2>4. u + q.seconds * Second >= b.expires
    BY <2>1, <2>2, <2>3
  <2>5. QED
    BY <2>2, <2>4
<1>2. QED
  BY <1>1 DEF Renders

\* Rendering a state that shows a policy makes a batch that shows it.
LEMMA RenderShows ==
    ASSUME NEW x \in DesiredState, NEW s \in DesiredState, NEW t \in Nat,
           OneEach(x.bans), Shows(x, s, t)
    PROVE  Renders(RenderRuleset(x, t), s, t)
<1> DEFINE n == Normalize(x, t)
<1> DEFINE p == RenderRuleset(x, t)
<1>1. \A k \in x.bans : k \in Ban /\ k.expires \in Nat
  BY DEF DesiredState, Ban
<1>2. \A k \in x.bans : k.expires > t => k \in n.bans
  BY <1>1 DEF Normalize, OneEach
<1>3. \A k \in n.bans : k \in x.bans /\ k.expires > t
  BY DEF Normalize
<1>4. /\ p.ttl = {[addr |-> k.addr, seconds |-> SecondsLeft(k.expires, t)] : k \in n.bans}
      /\ p.wl = x.wl /\ p.perm = x.perm /\ p.kind = "load"
  BY DEF RenderRuleset, Normalize
<1>5. ASSUME NEW b \in s.bans, b.expires > t
      PROVE  \E q \in p.ttl : q.addr = b.addr /\ t + q.seconds * Second >= b.expires
  <2>1. PICK k \in x.bans : k.addr = b.addr /\ k.expires >= b.expires
    BY <1>5 DEF Shows
  <2>2. b.expires \in Nat /\ k.expires \in Nat /\ k.expires > t
    BY <1>1, <1>5, <2>1 DEF DesiredState, Ban
  <2>3. [addr |-> k.addr, seconds |-> SecondsLeft(k.expires, t)] \in p.ttl
    BY <1>2, <1>4, <2>2
  <2>4. SecondsLeft(k.expires, t) \in Nat /\ t + SecondsLeft(k.expires, t) * Second >= k.expires
    BY <2>2, TimeoutIsEnough
  <2>5. SecondsLeft(k.expires, t) * Second \in Nat
    BY <2>4, SecondAssumption
  <2>6. t + SecondsLeft(k.expires, t) * Second >= b.expires
    BY <2>1, <2>2, <2>4, <2>5
  <2>7. QED
    BY <2>1, <2>3, <2>6
<1>6. ASSUME NEW q \in p.ttl
      PROVE  \E b \in s.bans : b.addr = q.addr
  <2>1. PICK k \in n.bans : q.addr = k.addr
    BY <1>4
  <2>2. QED
    BY <1>3, <2>1 DEF Shows
<1>7. QED
  BY <1>4, <1>5, <1>6 DEF Renders, Shows

\* Committing a batch that shows a policy makes a table that shows it.
LEMMA CommitShows ==
    ASSUME NEW p \in Program, NEW s \in DesiredState, NEW t \in Nat, Renders(p, s, t)
    PROVE  Shows(Commit(p, t), s, t)
<1>1. CASE p.kind = "destroy"
  <2>1. p = CleanupProgram /\ Commit(p, t) = AbsentTable
    BY <1>1 DEF Renders, Commit
  <2>2. QED
    BY <2>1 DEF Renders, Shows, CleanupProgram, AbsentTable
<1>2. CASE p.kind # "destroy"
  <2> DEFINE bs == {[addr |-> q.addr, expires |-> t + q.seconds * Second] : q \in p.ttl}
  <2>1. Commit(p, t) = [present |-> TRUE, wl |-> p.wl, perm |-> p.perm, bans |-> bs]
    BY <1>2 DEF Commit
  <2>2. \A q \in p.ttl : \E k \in bs : k.addr = q.addr /\ k.expires = t + q.seconds * Second
    <3> TAKE q \in p.ttl
    <3>1. [addr |-> q.addr, expires |-> t + q.seconds * Second] \in bs
      OBVIOUS
    <3>2. QED
      BY <3>1
  <2>3. \A k \in bs : \E q \in p.ttl : k.addr = q.addr
    OBVIOUS
  <2>4. \A b \in s.bans : b.expires > t => \E k \in bs : k.addr = b.addr /\ k.expires >= b.expires
    <3> SUFFICES ASSUME NEW b \in s.bans, b.expires > t
                 PROVE  \E k \in bs : k.addr = b.addr /\ k.expires >= b.expires
      OBVIOUS
    <3>1. PICK q \in p.ttl : q.addr = b.addr /\ t + q.seconds * Second >= b.expires
      BY DEF Renders
    <3>2. PICK k \in bs : k.addr = q.addr /\ k.expires = t + q.seconds * Second
      BY <2>2
    <3>3. QED
      BY <3>1, <3>2
  <2> HIDE DEF bs
  <2>5. QED
    BY <2>1, <2>3, <2>4 DEF Renders, Shows
<1>3. QED
  BY <1>1, <1>2

\* A policy shown is shown by nothing less when shortened.
LEMMA ShortenBans ==
    ASSUME NEW s \in DesiredState
    PROVE  /\ \A b \in s.bans : \E h \in Shorten(s).bans : h.addr = b.addr
           /\ \A h \in Shorten(s).bans : \E b \in s.bans :
                 /\ h.addr = b.addr
                 /\ b.expires \in Nat /\ h.expires \in Nat /\ h.expires <= b.expires
                 /\ h.expires > 0 => h.expires = b.expires - (Second - 1)
           /\ Shorten(s).wl = s.wl /\ Shorten(s).perm = s.perm
<1> DEFINE cut(b) == IF b.expires < Second THEN 0 ELSE b.expires - (Second - 1)
<1> DEFINE hs == {[addr |-> b.addr, expires |-> cut(b)] : b \in s.bans}
<1>1. Shorten(s).bans = hs /\ Shorten(s).wl = s.wl /\ Shorten(s).perm = s.perm
  BY DEF Shorten, DesiredState
<1>2. \A b \in s.bans : b.expires \in Nat
  BY DEF DesiredState, Ban
<1>3. \A b \in s.bans : /\ cut(b) \in Nat /\ cut(b) <= b.expires
                        /\ cut(b) > 0 => cut(b) = b.expires - (Second - 1)
  BY <1>2, SecondAssumption
<1> HIDE DEF cut
<1>4. ASSUME NEW b \in s.bans
      PROVE  \E h \in hs : h.addr = b.addr
  <2>1. [addr |-> b.addr, expires |-> cut(b)] \in hs
    OBVIOUS
  <2>2. QED
    BY <2>1
<1>5. ASSUME NEW h \in hs
      PROVE  \E b \in s.bans : h.addr = b.addr /\ h.expires = cut(b)
  OBVIOUS
<1> HIDE DEF hs
<1>6. QED
  BY <1>1, <1>2, <1>3, <1>4, <1>5

\* Reading back a table that shows a policy loses less than a second of it.
LEMMA ParseShows ==
    ASSUME NEW x \in Table, NEW s \in DesiredState, NEW t \in Nat,
           OneEach(x.bans), Listable(x, t), Shows(x, s, t)
    PROVE  /\ ParseRuleset(x, t) \in DesiredState
           /\ Shows(Normalize(ParseRuleset(x, t), t), Shorten(s), t)
<1> DEFINE w(k) == Expires(k, t) * Second
<1> DEFINE ps == {[addr |-> k.addr, expires |-> t + w(k)] : k \in Live(x, t)}
<1> DEFINE p == ParseRuleset(x, t)
<1>1. \A k \in Live(x, t) : k \in x.bans /\ k \in Ban /\ k.expires \in Nat /\ k.expires > t
  BY DEF Live, Table, Ban
<1>2. \A k \in Live(x, t) : /\ w(k) \in Nat
                            /\ t + w(k) <= k.expires
                            /\ t + w(k) >= k.expires - (Second - 1)
  BY <1>1, ListingIsClose DEF Expires
<1>3. \A k \in Live(x, t) : t + w(k) > t
  <2> SUFFICES ASSUME NEW k \in Live(x, t) PROVE t + w(k) > t
    OBVIOUS
  <2>1. Expires(k, t) > 0 /\ Expires(k, t) \in Nat
    BY <1>1, ListingIsClose DEF Listable, Expires
  <2>2. w(k) > 0
    BY <2>1, SecondAssumption
  <2>3. QED
    BY <1>2, <2>2
<1> HIDE DEF w
<1>4. p = [wl |-> x.wl, perm |-> x.perm, bans |-> ps]
  BY DEF ParseRuleset, w
<1>5. p \in DesiredState
  BY <1>1, <1>2, <1>4 DEF DesiredState, Ban, Table
<1>6. OneEach(ps)
  BY <1>1 DEF OneEach
<1>7. Normalize(p, t).bans = ps /\ Normalize(p, t).wl = x.wl /\ Normalize(p, t).perm = x.perm
  <2>1. \A h \in ps : h.expires > t /\ h.expires \in Nat
    BY <1>2, <1>3
  <2>2. \A h \in ps : \A o \in ps : o.addr = h.addr => o.expires <= h.expires
    BY <1>6, <2>1 DEF OneEach
  <2> HIDE DEF ps
  <2>3. QED
    BY <1>4, <2>1, <2>2 DEF Normalize
<1>8. ASSUME NEW h \in Shorten(s).bans, h.expires > t
      PROVE  \E o \in ps : o.addr = h.addr /\ o.expires >= h.expires
  <2>1. PICK b \in s.bans : /\ h.addr = b.addr
                            /\ b.expires \in Nat /\ h.expires \in Nat /\ h.expires <= b.expires
                            /\ h.expires > 0 => h.expires = b.expires - (Second - 1)
    BY ShortenBans
  <2>2. b.expires > t /\ h.expires = b.expires - (Second - 1)
    BY <1>8, <2>1
  <2>3. PICK k \in x.bans : k.addr = b.addr /\ k.expires >= b.expires
    BY <2>2 DEF Shows
  <2>4. k \in Live(x, t)
    BY <2>1, <2>2, <2>3 DEF Live, Table, Ban
  <2>5. t + w(k) >= h.expires
    BY <1>1, <1>2, <2>1, <2>2, <2>3, <2>4, SecondAssumption
  <2>6. [addr |-> k.addr, expires |-> t + w(k)] \in ps
    BY <2>4
  <2>7. QED
    BY <2>1, <2>3, <2>5, <2>6
<1>9. ASSUME NEW o \in ps
      PROVE  \E h \in Shorten(s).bans : h.addr = o.addr
  <2>1. PICK k \in Live(x, t) : o.addr = k.addr
    OBVIOUS
  <2>2. PICK b \in s.bans : b.addr = k.addr
    BY <1>1, <2>1 DEF Shows
  <2>3. QED
    BY <2>1, <2>2, ShortenBans
<1> HIDE DEF ps
<1>10. QED
  BY <1>5, <1>7, <1>8, <1>9, ShortenBans DEF Shows

-----------------------------------------------------------------------------
(* Types.                                                                  *)

\* An operation and its target are states.
LEMMA TargetType ==
    ASSUME TypeOK, NEW c \in Caller
    PROVE  /\ Target(op[c]) \in DesiredState
           /\ Shortened \subseteq DesiredState
<1>1. Shortened \subseteq DesiredState
  BY ShortenType DEF TypeOK, Shortened
<1>2. Target(op[c]) \in DesiredState
  BY DEF TypeOK, Target, EmptyState, DesiredState
<1>3. QED
  BY <1>1, <1>2

\* Batches in hand are well formed: what a commit of them needs.
ProgramsOK ==
    \A c \in Caller : /\ OneEach(prog[c].ttl)
                      /\ prog[c].kind = "destroy" => prog[c] = CleanupProgram

\* The states and tables the code reads name an address at most once.
StatesOK ==
    /\ \A c \in Caller : OneEach(op[c].state.bans) /\ OneEach(snap[c].state.bans)
    /\ OneEach(table.bans)
    /\ ~table.present => table = AbsentTable

Typed == TypeOK /\ ProgramsOK /\ StatesOK

\* A batch that is about to be run by the controller, or that a crash leaves
\* to its child, makes a table.
LEMMA CommitTyped ==
    ASSUME Typed, NEW c \in Caller
    PROVE  LET tb == Commit(prog[c], now) IN
           tb \in Table /\ OneEach(tb.bans) /\ (~tb.present => tb = AbsentTable)
  BY CommitType DEF Typed, TypeOK, ProgramsOK

\* The values the program can start from.
LEMMA ConstantsTyped ==
    /\ EmptyState \in DesiredState /\ OneEach(EmptyState.bans)
    /\ NoOp \in [kind : {"reconcile", "cleanup", "inspect"}, state : DesiredState]
    /\ OneEach(NoOp.state.bans)
    /\ NoSnapshot \in [present : BOOLEAN, state : DesiredState]
    /\ OneEach(NoSnapshot.state.bans)
    /\ CleanupProgram \in Program /\ OneEach(CleanupProgram.ttl)
    /\ AbsentTable \in Table /\ OneEach(AbsentTable.bans)
  BY DEF EmptyState, DesiredState, NoOp, NoSnapshot, CleanupProgram, Program,
         AbsentTable, Table, OneEach

LEMMA InitTyped == Init => Typed
<1> SUFFICES ASSUME Init PROVE Typed
  OBVIOUS
<1>1. /\ table \in Table /\ policy \subseteq DesiredState
      /\ OneEach(table.bans) /\ (~table.present => table = AbsentTable)
  <2>1. CASE table = AbsentTable /\ policy = {EmptyState}
    BY <2>1, ConstantsTyped
  <2>2. CASE ~(table = AbsentTable /\ policy = {EmptyState})
    <3>1. PICK request \in Requests :
            /\ table = Commit(RenderRuleset(request.state, now), now)
            /\ policy = {Normalize(request.state, now)}
      BY <2>2 DEF Init
    <3>2. request.state \in DesiredState /\ now \in Nat
      BY RequestsAssumption DEF Init
    <3>3. /\ RenderRuleset(request.state, now) \in Program
          /\ OneEach(RenderRuleset(request.state, now).ttl)
          /\ Normalize(request.state, now) \in DesiredState
      BY <3>2, RenderType, NormalizeType
    <3>4. QED
      BY <3>1, <3>2, <3>3, CommitType
  <2>3. QED
    BY <2>1, <2>2
<1>2. TypeOK
  BY <1>1, ConstantsTyped DEF Init, TypeOK, Steps, Results
<1>3. ProgramsOK /\ StatesOK
  BY <1>1, ConstantsTyped DEF Init, ProgramsOK, StatesOK
<1>4. QED
  BY <1>2, <1>3 DEF Typed

\* A command counts its failure or not.
LEMMA FaultsTyped ==
    ASSUME TypeOK, NEW done, CommandRuns(done) \/ CommandFails(done)
    PROVE  faults' \in Nat
  BY DEF TypeOK, CommandRuns, CommandFails

\* A caller keeps its snapshot, or takes one of a state it read.
LEMMA SnapTyped ==
    ASSUME Typed, NEW c \in Caller, NEW pr \in BOOLEAN, NEW st \in DesiredState, OneEach(st.bans),
           \/ UNCHANGED snap
           \/ snap' = [snap EXCEPT ![c] = [present |-> pr, state |-> st]]
    PROVE  /\ snap' \in [Caller -> [present : BOOLEAN, state : DesiredState]]
           /\ \A d \in Caller : OneEach(snap'[d].state.bans)
<1>1. CASE UNCHANGED snap
  BY <1>1 DEF Typed, TypeOK, StatesOK
<1>2. CASE snap' = [snap EXCEPT ![c] = [present |-> pr, state |-> st]]
  <2>1. snap' \in [Caller -> [present : BOOLEAN, state : DesiredState]]
    BY <1>2 DEF Typed, TypeOK
  <2>2. \A d \in Caller : snap'[d] = IF d = c THEN [present |-> pr, state |-> st] ELSE snap[d]
    BY <1>2 DEF Typed, TypeOK
  <2>3. QED
    BY <2>1, <2>2 DEF Typed, StatesOK
<1>3. QED
  BY <1>1, <1>2

\* A step of the code, of the clock or of the world keeps the types.
LEMMA StepTyped == Typed /\ [Next]_vars => Typed'
<1> SUFFICES ASSUME Typed, [Next]_vars PROVE Typed'
  OBVIOUS
<1> USE ConstantsTyped DEF Typed
<1>1. ASSUME NEW c \in Caller, NEW request \in Requests, Call(c, request)
      PROVE  Typed'
  <2>1. request \in [kind : {"reconcile", "cleanup", "inspect"}, state : DesiredState]
    BY RequestsAssumption
  <2>2. LET n == Normalize(request.state, now) IN n \in DesiredState /\ OneEach(n.bans)
    BY <2>1, NormalizeType DEF TypeOK
  <2>3. TypeOK'
    BY <1>1, <2>1, <2>2 DEF Call, Go, TypeOK, Steps
  <2>4. (ProgramsOK /\ StatesOK)'
    BY <1>1, <2>1, <2>2 DEF Call, Go, TypeOK, ProgramsOK, StatesOK
  <2>5. QED
    BY <2>3, <2>4
<1>2. ASSUME NEW c \in Caller, Lock(c) PROVE Typed'
  BY <1>2 DEF Lock, Acquire, Go, TypeOK, Steps, bounds, ProgramsOK, StatesOK
<1>3. ASSUME NEW c \in Caller, Cancel(c) PROVE Typed'
  BY <1>3 DEF Cancel, TypeOK, bounds, ProgramsOK, StatesOK
<1>4. ASSUME NEW c \in Caller, Resolve(c) PROVE Typed'
  <2>1. faults' \in Nat
    BY <1>4, FaultsTyped DEF Resolve
  <2>2. /\ pc' \in [Caller -> Steps]
        /\ result' \in [Caller -> Results]
    BY <1>4 DEF Resolve, Finish, Go, TypeOK, Steps, Results
  <2>3. TypeOK'
    BY <1>4, <2>1, <2>2 DEF Resolve, TypeOK
  <2>4. (ProgramsOK /\ StatesOK)'
    BY <1>4, <2>1, <2>2 DEF Resolve, ProgramsOK, StatesOK
  <2>5. QED
    BY <2>3, <2>4
<1>5. ASSUME NEW c \in Caller, SnapshotTableExists(c) PROVE Typed'
  <2>1. faults' \in Nat
    BY <1>5, FaultsTyped DEF SnapshotTableExists
  <2>2. /\ pc' \in [Caller -> Steps]
        /\ result' \in [Caller -> Results]
    BY <1>5 DEF SnapshotTableExists, Finish, Read, Go, TypeOK, Steps, Results
  <2>3. /\ snap' \in [Caller -> [present : BOOLEAN, state : DesiredState]]
        /\ \A d \in Caller : OneEach(snap'[d].state.bans)
    <3>1. \/ UNCHANGED snap
          \/ snap' = [snap EXCEPT ![c] = [present |-> FALSE, state |-> EmptyState]]
      BY <1>5 DEF SnapshotTableExists, Read
    <3>2. QED
      BY <3>1, SnapTyped
  <2>4. TypeOK'
    BY <1>5, <2>1, <2>2, <2>3 DEF SnapshotTableExists, TypeOK
  <2>5. (ProgramsOK /\ StatesOK)'
    BY <1>5, <2>1, <2>2, <2>3 DEF SnapshotTableExists, ProgramsOK, StatesOK
  <2>6. QED
    BY <2>4, <2>5
<1>6. ASSUME NEW c \in Caller, InspectTableExists(c) PROVE Typed'
  <2>1. faults' \in Nat
    BY <1>6, FaultsTyped DEF InspectTableExists
  <2>2. /\ pc' \in [Caller -> Steps]
        /\ result' \in [Caller -> Results]
    BY <1>6 DEF InspectTableExists, Finish, NoTable, Read, Go, TypeOK, Steps, Results
  <2>3. /\ snap' \in [Caller -> [present : BOOLEAN, state : DesiredState]]
        /\ \A d \in Caller : OneEach(snap'[d].state.bans)
    <3>1. \/ UNCHANGED snap
          \/ snap' = [snap EXCEPT ![c] = [present |-> TRUE, state |-> EmptyState]]
      BY <1>6 DEF InspectTableExists, NoTable, Read
    <3>2. QED
      BY <3>1, SnapTyped
  <2>4. TypeOK'
    BY <1>6, <2>1, <2>2, <2>3 DEF InspectTableExists, TypeOK
  <2>5. (ProgramsOK /\ StatesOK)'
    BY <1>6, <2>1, <2>2, <2>3 DEF InspectTableExists, ProgramsOK, StatesOK
  <2>6. QED
    BY <2>4, <2>5
<1>7. ASSUME NEW c \in Caller, List(c) PROVE Typed'
  <2> DEFINE n == Normalize(ParseRuleset(table, now), now)
  <2>0. n \in DesiredState /\ OneEach(n.bans)
    BY NormalizeType, ParseType DEF TypeOK
  <2> HIDE DEF n
  <2>1. faults' \in Nat
    BY <1>7, FaultsTyped DEF List
  <2>2. /\ pc' \in [Caller -> Steps]
        /\ result' \in [Caller -> Results]
    BY <1>7 DEF List, Finish, Read, Go, TypeOK, Steps, Results
  <2>3. /\ snap' \in [Caller -> [present : BOOLEAN, state : DesiredState]]
        /\ \A d \in Caller : OneEach(snap'[d].state.bans)
    <3>1. \/ UNCHANGED snap
          \/ snap' = [snap EXCEPT ![c] = [present |-> TRUE, state |-> n]]
      BY <1>7 DEF List, Read, n
    <3>2. QED
      BY <3>1, SnapTyped, <2>0
  <2>4. TypeOK'
    BY <1>7, <2>1, <2>2, <2>3 DEF List, TypeOK
  <2>5. (ProgramsOK /\ StatesOK)'
    BY <1>7, <2>1, <2>2, <2>3 DEF List, ProgramsOK, StatesOK
  <2>6. QED
    BY <2>4, <2>5
<1>8. ASSUME NEW c \in Caller, Check(c) PROVE Typed'
  <2>1. faults' \in Nat
    BY <1>8, FaultsTyped DEF Check
  <2>2. pc' \in [Caller -> Steps]
    BY <1>8 DEF Check, Go, TypeOK, Steps
  <2>3. op[c].state \in DesiredState /\ now \in Nat
    BY DEF TypeOK
  <2> DEFINE p == RenderRuleset(op[c].state, now)
  <2>4. p \in Program /\ OneEach(p.ttl) /\ p.kind = "load"
    BY <2>3, RenderType
  <2> HIDE DEF p
  <2>5. prog' \in [Caller -> Program] /\ ProgramsOK'
    BY <1>8, <2>4 DEF Check, p, TypeOK, ProgramsOK
  <2>6. TypeOK'
    BY <1>8, <2>1, <2>2, <2>5 DEF Check, TypeOK
  <2>7. StatesOK'
    BY <1>8 DEF Check, StatesOK
  <2>8. QED
    BY <2>5, <2>6, <2>7
<1>9. ASSUME NEW c \in Caller, Apply(c) PROVE Typed'
  BY <1>9, CommitTyped, TargetType DEF Apply, CommandRuns, Done, Finish, Go,
              TypeOK, Steps, Results, ProgramsOK, StatesOK
<1>10. ASSUME NEW c \in Caller, ApplyFails(c) PROVE Typed'
  BY <1>10, CommitTyped DEF ApplyFails, CommandFails, Done, Go,
              TypeOK, Steps, ProgramsOK, StatesOK
<1>11. ASSUME NEW c \in Caller, RestoreCheck(c) PROVE Typed'
  <2>1. faults' \in Nat
    BY <1>11, FaultsTyped DEF RestoreCheck
  <2>2. /\ pc' \in [Caller -> Steps]
        /\ result' \in [Caller -> Results]
        /\ policy' \subseteq DesiredState
    BY <1>11, TargetType DEF RestoreCheck, Finish, Go, TypeOK, Steps, Results
  <2>3. snap[c].state \in DesiredState /\ now \in Nat
    BY DEF TypeOK
  <2> DEFINE p == RenderRuleset(snap[c].state, now)
  <2>4. p \in Program /\ OneEach(p.ttl) /\ p.kind = "load"
    BY <2>3, RenderType
  <2> HIDE DEF p
  <2>5. prog' \in [Caller -> Program] /\ ProgramsOK'
    BY <1>11, <2>4 DEF RestoreCheck, p, TypeOK, ProgramsOK
  <2>6. TypeOK'
    BY <1>11, <2>1, <2>2, <2>5 DEF RestoreCheck, TypeOK
  <2>7. StatesOK'
    BY <1>11 DEF RestoreCheck, StatesOK
  <2>8. QED
    BY <2>5, <2>6, <2>7
<1>12. ASSUME NEW c \in Caller, RestoreApply(c) PROVE Typed'
  BY <1>12, CommitTyped, TargetType DEF RestoreApply, CommandRuns, RollbackDone, Finish, Go,
              TypeOK, Steps, Results, ProgramsOK, StatesOK
<1>13. ASSUME NEW c \in Caller, RestoreApplyFails(c) PROVE Typed'
  BY <1>13, CommitTyped, TargetType DEF RestoreApplyFails, CommandFails, RollbackDone, Finish, Go,
              TypeOK, Steps, Results, ProgramsOK, StatesOK
<1>14. ASSUME NEW c \in Caller, Return(c) PROVE Typed'
  BY <1>14 DEF Return, Release, Go, bounds, TypeOK, Steps, Results, ProgramsOK, StatesOK
<1>15. CASE Crash
  <2>1. /\ table' \in Table /\ OneEach(table'.bans) /\ (~table'.present => table' = AbsentTable)
    BY <1>15, CommitTyped DEF Crash, TypeOK, StatesOK
  <2>2. policy' \subseteq DesiredState
    BY <1>15, TargetType DEF Crash, TypeOK
  <2>3. TypeOK'
    BY <1>15, <2>1, <2>2 DEF Crash, TypeOK, Steps, Results
  <2>4. (ProgramsOK /\ StatesOK)'
    BY <1>15, <2>1 DEF Crash, ProgramsOK, StatesOK
  <2>5. QED
    BY <2>3, <2>4
<1>16. CASE CleanupScript
  BY <1>16 DEF CleanupScript, control, TypeOK, ProgramsOK, StatesOK
<1>17. CASE Tick
  BY <1>17 DEF Tick, control, bounds, TypeOK, ProgramsOK, StatesOK
<1>18. CASE UNCHANGED vars
  BY <1>18 DEF vars, control, bounds, TypeOK, ProgramsOK, StatesOK
<1>19. QED
  BY <1>1, <1>2, <1>3, <1>4, <1>5, <1>6, <1>7, <1>8, <1>9, <1>10, <1>11, <1>12, <1>13,
     <1>14, <1>15, <1>16, <1>17, <1>18 DEF Next, Command

\* In every state of every instance the controller's data has its type: above
\* all, the batches it runs hold no negative timeout and no address twice.
THEOREM TypeInvariant == Spec => []TypeOK
<1>1. Typed => TypeOK
  BY DEF Typed
<1>2. QED
  BY InitTyped, StepTyped, <1>1, PTL DEF Spec

-----------------------------------------------------------------------------
(* One operation at a time.                                                *)

\* A caller past Lock holds the mutex, so no two callers are.
OneInside == \A c \in Caller : pc[c] \notin {"idle", "lock"} => lock = c

LEMMA StepOneInside == TypeOK /\ OneInside /\ [Next]_vars => OneInside'
<1> SUFFICES ASSUME TypeOK, OneInside, [Next]_vars PROVE OneInside'
  OBVIOUS
<1> USE DEF OneInside, TypeOK
<1>1. ASSUME NEW c \in Caller, NEW request \in Requests, Call(c, request) PROVE OneInside'
  BY <1>1 DEF Call, Go
<1>2. ASSUME NEW c \in Caller, Lock(c) PROVE OneInside'
  <2>1. \A d \in Caller : pc[d] \in {"idle", "lock"}
    BY <1>2, CallerAssumption DEF Lock, Acquire
  <2>2. QED
    BY <1>2, <2>1 DEF Lock, Acquire, Go
<1>3. ASSUME NEW c \in Caller, Command(c), ~Return(c) PROVE OneInside'
  <2>1. lock' = lock /\ pc[c] \notin {"idle", "lock"}
    BY <1>3 DEF Command, Resolve, SnapshotTableExists, InspectTableExists, NoTable, List, Check,
                Apply, ApplyFails, RestoreCheck, RestoreApply, RestoreApplyFails, Read, Finish, Go
  <2>2. \A d \in Caller : d # c => pc'[d] = pc[d]
    BY <1>3 DEF Command, Resolve, SnapshotTableExists, InspectTableExists, NoTable, List, Check,
                Apply, ApplyFails, RestoreCheck, RestoreApply, RestoreApplyFails, Read, Finish, Go
  <2>3. QED
    BY <2>1, <2>2
<1>4. ASSUME NEW c \in Caller, Return(c) PROVE OneInside'
  <2>1. \A d \in Caller : d # c => pc[d] \in {"idle", "lock"}
    BY <1>4 DEF Return, Go
  <2>2. QED
    BY <1>4, <2>1 DEF Return, Release, Go
<1>5. ASSUME NEW c \in Caller, Cancel(c) PROVE OneInside'
  BY <1>5 DEF Cancel
<1>6. CASE Crash
  BY <1>6 DEF Crash
<1>7. CASE CleanupScript
  BY <1>7 DEF CleanupScript, control
<1>8. CASE Tick
  BY <1>8 DEF Tick, control
<1>9. CASE UNCHANGED vars
  BY <1>9 DEF vars, control
<1>10. QED
  BY <1>1, <1>2, <1>3, <1>4, <1>5, <1>6, <1>7, <1>8, <1>9 DEF Next

\* Controller.mu serialises operations from Resolve to the return, rollback
\* included, though each operation runs on a backend of its own.
THEOREM MutualExclusion ==
    Spec => [](\A c, d \in Caller :
                  pc[c] \notin {"idle", "lock"} /\ pc[d] \notin {"idle", "lock"} => c = d)
<1>1. Init => OneInside
  BY DEF Init, OneInside
<1>2. OneInside => \A c, d \in Caller :
        pc[c] \notin {"idle", "lock"} /\ pc[d] \notin {"idle", "lock"} => c = d
  BY DEF OneInside
<1>3. QED
  BY <1>1, <1>2, StepOneInside, TypeInvariant, PTL DEF Spec

-----------------------------------------------------------------------------
(* One whole policy in the kernel.                                         *)

\* A snapshot in use shows a policy in force, less than a second short.
SnapshotOK(c) ==
    pc[c] \in {"check", "apply", "undoCheck", "undoApply"} =>
        /\ ~snap[c].present => snap[c].state = EmptyState
        /\ \E s \in policy : Shows(snap[c].state, Shorten(s), now)

\* A batch about to run shows the operation's target, or in a rollback a
\* policy in force.
BatchOK(c) ==
    /\ pc[c] = "apply" => Renders(prog[c], Target(op[c]), now)
    /\ pc[c] = "undoApply" => \E s \in policy : Renders(prog[c], Shorten(s), now)

PolicyInv ==
    /\ Typed
    /\ OneInside
    /\ \A c \in Caller : SnapshotOK(c) /\ BatchOK(c)
    /\ TableMatchesPolicy

\* A state shows itself.
LEMMA ShowsItself ==
    ASSUME NEW s \in DesiredState, NEW t \in Nat
    PROVE  Shows(s, s, t)
<1>1. \A b \in s.bans : b.expires \in Nat
  BY DEF DesiredState, Ban
<1>2. QED
  BY <1>1 DEF Shows

\* When the table is absent, the empty snapshot shows what the table shows.
LEMMA EmptyShows ==
    ASSUME NEW s \in DesiredState, NEW t \in Nat, Shows(AbsentTable, s, t)
    PROVE  Shows(EmptyState, Shorten(s), t)
<1>1. \A b \in s.bans : ~(b.expires > t)
  BY DEF Shows, AbsentTable
<1>2. \A h \in Shorten(s).bans : ~(h.expires > t)
  BY <1>1, ShortenBans
<1>3. QED
  BY <1>2, ShortenBans DEF Shows, EmptyState, AbsentTable

\* Destroying the table shows whatever the empty state shows.
LEMMA CleanupRenders ==
    ASSUME NEW s \in DesiredState, NEW t \in Nat, Shows(EmptyState, s, t)
    PROVE  Renders(CleanupProgram, s, t)
  BY DEF Renders, Shows, CleanupProgram, EmptyState

\* Normalizing twice is normalizing once.
LEMMA NormalizeTwice ==
    ASSUME NEW s \in DesiredState, NEW t \in Nat
    PROVE  RenderRuleset(Normalize(s, t), t) = RenderRuleset(s, t)
<1>1. Normalize(Normalize(s, t), t) = Normalize(s, t)
  BY DEF Normalize
<1>2. QED
  BY <1>1 DEF RenderRuleset

\* No one but c can be undoing while c is past the mutex.
LEMMA Alone ==
    ASSUME OneInside, NEW c \in Caller, pc[c] \notin {"idle", "lock"}
    PROVE  /\ Undoing \subseteq {c}
           /\ \A d \in Caller : d # c => pc[d] \in {"idle", "lock"}
  BY DEF OneInside, Undoing

LEMMA InitPolicy == Init => PolicyInv
<1> SUFFICES ASSUME Init PROVE PolicyInv
  OBVIOUS
<1>1. Typed
  BY InitTyped
<1>2. OneInside /\ \A c \in Caller : SnapshotOK(c) /\ BatchOK(c)
  BY DEF Init, OneInside, SnapshotOK, BatchOK
<1>3. \E s \in policy : Shows(table, s, now)
  <2>1. CASE table = AbsentTable /\ policy = {EmptyState}
    BY <2>1 DEF Shows, AbsentTable, EmptyState
  <2>2. CASE ~(table = AbsentTable /\ policy = {EmptyState})
    <3>1. PICK request \in Requests :
            /\ table = Commit(RenderRuleset(request.state, now), now)
            /\ policy = {Normalize(request.state, now)}
      BY <2>2 DEF Init
    <3> DEFINE n == Normalize(request.state, now)
    <3>2. request.state \in DesiredState /\ now \in Nat
      BY RequestsAssumption DEF Init
    <3>3. n \in DesiredState /\ OneEach(n.bans)
      BY <3>2, NormalizeType
    <3>4. RenderRuleset(n, now) = RenderRuleset(request.state, now)
      BY <3>2, NormalizeTwice
    <3> HIDE DEF n
    <3>5. RenderRuleset(n, now) \in Program /\ Renders(RenderRuleset(n, now), n, now)
      BY <3>2, <3>3, RenderType, RenderShows, ShowsItself
    <3>6. Shows(table, n, now)
      BY <3>1, <3>2, <3>3, <3>4, <3>5, CommitShows
    <3>7. QED
      BY <3>1, <3>6 DEF n
  <2>3. QED
    BY <2>1, <2>2
<1>4. QED
  BY <1>1, <1>2, <1>3 DEF PolicyInv, TableMatchesPolicy, Candidates

\* What a step leaves of the invariant when it touches only caller c, which
\* is past the mutex: what is left to show is about c and the table.
LEMMA OnlyAbout ==
    ASSUME PolicyInv, NEW c \in Caller, pc[c] \notin {"idle", "lock"},
           \A d \in Caller : d # c => pc'[d] = pc[d],
           SnapshotOK(c)', BatchOK(c)'
    PROVE  \A d \in Caller : SnapshotOK(d)' /\ BatchOK(d)'
<1> SUFFICES ASSUME NEW d \in Caller, d # c PROVE SnapshotOK(d)' /\ BatchOK(d)'
  OBVIOUS
<1>1. pc'[d] \in {"idle", "lock"}
  BY Alone DEF PolicyInv
<1>2. QED
  BY <1>1 DEF SnapshotOK, BatchOK

\* The table still shows a candidate if it and the clock stand still.
LEMMA TableStays ==
    ASSUME TableMatchesPolicy, table' = table, now' = now, Candidates \subseteq Candidates'
    PROVE  TableMatchesPolicy'
  BY DEF TableMatchesPolicy

\* Entering, and waiting for the mutex.
LEMMA EntryPolicy ==
    ASSUME PolicyInv, NEW c \in Caller,
           \/ \E request \in Requests : Call(c, request)
           \/ Lock(c)
           \/ Cancel(c)
    PROVE  (\A d \in Caller : SnapshotOK(d) /\ BatchOK(d))' /\ TableMatchesPolicy'
<1> USE DEF PolicyInv, Typed, TypeOK
<1>1. CASE \E request \in Requests : Call(c, request)
  <2>1. PICK request \in Requests : Call(c, request)
    BY <1>1
  <2>2. \A d \in Caller :
          /\ pc'[d] = IF d = c THEN "lock" ELSE pc[d]
          /\ d # c => op'[d] = op[d]
    BY <2>1 DEF Call, Go
  <2>3. /\ pc[c] = "idle"
        /\ UNCHANGED <<table, now, snap, prog, policy>>
    BY <2>1 DEF Call, Go
  <2>4. ASSUME NEW d \in Caller PROVE SnapshotOK(d)' /\ BatchOK(d)'
    <3>1. CASE d = c
      BY <2>2, <3>1 DEF SnapshotOK, BatchOK
    <3>2. CASE d # c
      BY <2>2, <2>3, <3>2 DEF SnapshotOK, BatchOK
    <3>3. QED
      BY <3>1, <3>2
  <2>5. Candidates \subseteq Candidates'
    BY <2>2, <2>3 DEF Candidates, Undoing
  <2>6. QED
    BY <2>3, <2>4, <2>5, TableStays
<1>2. CASE Lock(c)
  <2>1. \A d \in Caller : pc[d] \in {"idle", "lock"}
    BY <1>2, CallerAssumption DEF Lock, Acquire, OneInside
  <2>2. \A d \in Caller : pc'[d] \in {"idle", "lock", "resolve"}
    BY <1>2, <2>1 DEF Lock, Go
  <2>3. \A d \in Caller : SnapshotOK(d)' /\ BatchOK(d)'
    BY <2>2 DEF SnapshotOK, BatchOK
  <2>4. Candidates \subseteq Candidates'
    BY <1>2, <2>1 DEF Candidates, Undoing, Lock
  <2>5. QED
    BY <1>2, <2>3, <2>4, TableStays DEF Lock
<1>3. CASE Cancel(c)
  <2>1. UNCHANGED <<table, now, pc, op, snap, prog, policy>>
    BY <1>3 DEF Cancel
  <2>2. Candidates' = Candidates
    BY <2>1 DEF Candidates, Undoing
  <2>3. QED
    BY <2>1, <2>2, TableStays DEF SnapshotOK, BatchOK
<1>4. QED
  BY <1>1, <1>2, <1>3

\* Looking: the table shows a policy in force, and so does what is read.
LEMMA ReadPolicy ==
    ASSUME PolicyInv, NEW c \in Caller,
           \/ Resolve(c)
           \/ SnapshotTableExists(c)
           \/ InspectTableExists(c)
           \/ List(c)
    PROVE  (\A d \in Caller : SnapshotOK(d) /\ BatchOK(d))' /\ TableMatchesPolicy'
<1> USE DEF PolicyInv, Typed, TypeOK
<1>1. /\ pc[c] \in {"resolve", "snapExists", "inspectExists", "list"}
      /\ pc'[c] \in {"snapExists", "inspectExists", "list", "check", "unlock"}
      /\ \A d \in Caller : d # c => pc'[d] = pc[d]
      /\ UNCHANGED <<table, now, op, prog, policy>>
  BY DEF Resolve, SnapshotTableExists, InspectTableExists, NoTable, List, Read, Finish, Go
<1>2. Undoing = {}
  BY <1>1, Alone DEF Undoing
<1>3. PICK s \in policy : Shows(table, s, now)
  BY <1>2 DEF TableMatchesPolicy, Candidates
<1>4. s \in DesiredState
  OBVIOUS
<1>5. pc'[c] = "check" =>
        \/ /\ ~table.present
           /\ snap'[c].state = EmptyState
        \/ /\ Listable(table, now)
           /\ snap'[c].present
           /\ snap'[c].state = Normalize(ParseRuleset(table, now), now)
  BY DEF Resolve, SnapshotTableExists, InspectTableExists, NoTable, List, Read, Finish, Go
<1>6. ASSUME pc'[c] = "check"
      PROVE  /\ ~snap'[c].present => snap'[c].state = EmptyState
             /\ Shows(snap'[c].state, Shorten(s), now)
  <2>1. CASE ~table.present /\ snap'[c].state = EmptyState
    <3>1. Shows(EmptyState, Shorten(s), now)
      BY <1>3, <1>4, <2>1, EmptyShows DEF StatesOK
    <3>2. QED
      BY <2>1, <3>1
  <2>2. CASE /\ Listable(table, now)
             /\ snap'[c].present
             /\ snap'[c].state = Normalize(ParseRuleset(table, now), now)
    <3>1. Shows(Normalize(ParseRuleset(table, now), now), Shorten(s), now)
      BY <1>3, <1>4, <2>2, ParseShows DEF StatesOK
    <3>2. QED
      BY <2>2, <3>1
  <2>3. QED
    BY <1>5, <1>6, <2>1, <2>2
<1>7. SnapshotOK(c)' /\ BatchOK(c)'
  BY <1>1, <1>6 DEF SnapshotOK, BatchOK
<1>8. Candidates \subseteq Candidates'
  BY <1>1, <1>2 DEF Candidates
<1>9. QED
  BY <1>1, <1>7, <1>8, OnlyAbout, TableStays

\* Operating: the batch shows the target; refused or not, the table shows the
\* policy it showed or the target.
LEMMA OperatePolicy ==
    ASSUME PolicyInv, NEW c \in Caller, Check(c) \/ Apply(c) \/ ApplyFails(c)
    PROVE  (\A d \in Caller : SnapshotOK(d) /\ BatchOK(d))' /\ TableMatchesPolicy'
<1> USE DEF PolicyInv, Typed, TypeOK
<1>1. CASE Check(c)
  <2>1. /\ pc[c] = "check" /\ pc'[c] \in {"apply", "undoCheck"}
        /\ \A d \in Caller : d # c => pc'[d] = pc[d]
        /\ UNCHANGED <<table, now, op, snap, policy>>
        /\ prog'[c] = IF op[c].kind = "reconcile" THEN RenderRuleset(op[c].state, now)
                                                   ELSE CleanupProgram
    BY <1>1 DEF Check, Go
  <2>2. Renders(prog'[c], Target(op[c]), now)
    <3>1. CASE op[c].kind = "reconcile"
      <4>1. op[c].state \in DesiredState /\ OneEach(op[c].state.bans)
        BY DEF StatesOK
      <4>2. Renders(RenderRuleset(op[c].state, now), op[c].state, now)
        BY <4>1, RenderShows, ShowsItself
      <4>3. QED
        BY <2>1, <3>1, <4>2 DEF Target
    <3>2. CASE op[c].kind # "reconcile"
      <4>1. Renders(CleanupProgram, EmptyState, now)
        BY CleanupRenders, ShowsItself, ConstantsTyped
      <4>2. QED
        BY <2>1, <3>2, <4>1 DEF Target
    <3>3. QED
      BY <3>1, <3>2
  <2>3. SnapshotOK(c)' /\ BatchOK(c)'
    <3>1. Target(op[c])' = Target(op[c])
      BY <2>1 DEF Target
    <3>2. QED
      BY <2>1, <2>2, <3>1 DEF SnapshotOK, BatchOK
  <2>4. Undoing = {}
    BY <2>1, Alone DEF Undoing
  <2>5. Candidates \subseteq Candidates'
    BY <2>1, <2>4 DEF Candidates
  <2>6. QED
    BY <2>1, <2>3, <2>5, OnlyAbout, TableStays
<1>2. ASSUME pc[c] = "apply" PROVE Shows(Commit(prog[c], now), Target(op[c]), now)
  <2>1. Renders(prog[c], Target(op[c]), now)
    BY <1>2 DEF BatchOK
  <2>2. QED
    BY <2>1, CommitShows, TargetType
<1>3. CASE Apply(c)
  <2>1. /\ pc[c] = "apply" /\ pc'[c] = "unlock"
        /\ \A d \in Caller : d # c => pc'[d] = pc[d]
        /\ table' = Commit(prog[c], now) /\ now' = now
        /\ policy' = {Target(op[c])}
    BY <1>3 DEF Apply, Finish, Go
  <2>2. SnapshotOK(c)' /\ BatchOK(c)'
    BY <2>1 DEF SnapshotOK, BatchOK
  <2>3. TableMatchesPolicy'
    BY <1>2, <2>1 DEF TableMatchesPolicy, Candidates
  <2>4. QED
    BY <2>1, <2>2, <2>3, OnlyAbout
<1>4. CASE ApplyFails(c)
  <2>1. /\ pc[c] = "apply" /\ pc'[c] = "undoCheck"
        /\ \A d \in Caller : d # c => pc'[d] = pc[d]
        /\ table' \in {table, Commit(prog[c], now)}
        /\ UNCHANGED <<now, op, snap, prog, policy>>
    BY <1>4 DEF ApplyFails, Go
  <2>2. SnapshotOK(c)' /\ BatchOK(c)'
    BY <2>1 DEF SnapshotOK, BatchOK
  <2>3. Undoing = {} /\ c \in Undoing'
    BY <2>1, Alone DEF Undoing
  <2>4. Target(op[c]) \in Candidates' /\ Candidates \subseteq Candidates'
    BY <2>1, <2>3 DEF Candidates, Target
  <2>5. TableMatchesPolicy'
    BY <1>2, <2>1, <2>4 DEF TableMatchesPolicy
  <2>6. QED
    BY <2>1, <2>2, <2>5, OnlyAbout
<1>5. QED
  BY <1>1, <1>3, <1>4

\* Undoing: the batch shows a policy in force, a little shortened.
LEMMA RestorePolicy ==
    ASSUME PolicyInv, NEW c \in Caller, RestoreCheck(c) \/ RestoreApply(c) \/ RestoreApplyFails(c)
    PROVE  (\A d \in Caller : SnapshotOK(d) /\ BatchOK(d))' /\ TableMatchesPolicy'
<1> USE DEF PolicyInv, Typed, TypeOK
<1>1. CASE RestoreCheck(c)
  <2>1. /\ pc[c] = "undoCheck" /\ pc'[c] \in {"undoApply", "unlock"}
        /\ \A d \in Caller : d # c => pc'[d] = pc[d]
        /\ UNCHANGED <<table, now, op, snap>>
        /\ pc'[c] = "undoApply" => policy' = policy
        /\ pc'[c] = "unlock" => policy' = policy \cup {Target(op[c])}
        /\ prog'[c] = IF snap[c].present THEN RenderRuleset(snap[c].state, now)
                                          ELSE CleanupProgram
    BY <1>1 DEF RestoreCheck, Finish, Go
  <2>2. PICK s \in policy : Shows(snap[c].state, Shorten(s), now)
    BY <2>1 DEF SnapshotOK
  <2>3. /\ s \in DesiredState /\ Shorten(s) \in DesiredState
        /\ snap[c].state \in DesiredState /\ OneEach(snap[c].state.bans)
    BY ShortenType DEF StatesOK
  <2>4. Renders(prog'[c], Shorten(s), now)
    <3>1. CASE snap[c].present
      BY <2>1, <2>2, <2>3, <3>1, RenderShows
    <3>2. CASE ~snap[c].present
      <4>1. snap[c].state = EmptyState
        BY <2>1, <3>2 DEF SnapshotOK
      <4>2. QED
        BY <2>1, <2>2, <2>3, <3>2, <4>1, CleanupRenders
    <3>3. QED
      BY <3>1, <3>2
  <2>5. SnapshotOK(c)' /\ BatchOK(c)'
    BY <2>1, <2>2, <2>4 DEF SnapshotOK, BatchOK
  <2>6. Undoing \subseteq {c} /\ (pc'[c] = "undoApply" => c \in Undoing')
    BY <2>1, Alone DEF Undoing
  <2>7. Candidates \subseteq Candidates'
    BY <2>1, <2>6 DEF Candidates, Target
  <2>8. QED
    BY <2>1, <2>5, <2>7, OnlyAbout, TableStays
<1>2. ASSUME pc[c] = "undoApply"
      PROVE  \E s \in policy : Shows(Commit(prog[c], now), Shorten(s), now)
  <2>1. PICK s \in policy : Renders(prog[c], Shorten(s), now)
    BY <1>2 DEF BatchOK
  <2>2. Shorten(s) \in DesiredState
    BY ShortenType
  <2>3. QED
    BY <2>1, <2>2, CommitShows
<1>3. CASE RestoreApply(c)
  <2>1. /\ pc[c] = "undoApply" /\ pc'[c] = "unlock"
        /\ \A d \in Caller : d # c => pc'[d] = pc[d]
        /\ table' = Commit(prog[c], now) /\ now' = now
        /\ policy' = Shortened
    BY <1>3 DEF RestoreApply, Finish, Go
  <2>2. SnapshotOK(c)' /\ BatchOK(c)'
    BY <2>1 DEF SnapshotOK, BatchOK
  <2>3. \E s \in Shortened : Shows(Commit(prog[c], now), s, now)
    BY <1>2, <2>1 DEF Shortened
  <2>4. TableMatchesPolicy'
    BY <2>1, <2>3 DEF TableMatchesPolicy, Candidates
  <2>5. QED
    BY <2>1, <2>2, <2>4, OnlyAbout
<1>4. CASE RestoreApplyFails(c)
  <2>1. /\ pc[c] = "undoApply" /\ pc'[c] = "unlock"
        /\ \A d \in Caller : d # c => pc'[d] = pc[d]
        /\ table' \in {table, Commit(prog[c], now)} /\ now' = now
        /\ policy' = policy \cup {Target(op[c])} \cup Shortened
    BY <1>4 DEF RestoreApplyFails, Finish, Go
  <2>2. SnapshotOK(c)' /\ BatchOK(c)'
    BY <2>1 DEF SnapshotOK, BatchOK
  <2>3. Candidates \subseteq policy'
    BY <2>1, Alone DEF Candidates
  <2>4. \E s \in policy' : Shows(table', s, now)
    <3>1. CASE table' = table
      BY <2>3, <3>1 DEF TableMatchesPolicy
    <3>2. CASE table' = Commit(prog[c], now)
      BY <1>2, <2>1, <3>2 DEF Shortened
    <3>3. QED
      BY <2>1, <3>1, <3>2
  <2>5. TableMatchesPolicy'
    BY <2>1, <2>4 DEF TableMatchesPolicy, Candidates
  <2>6. QED
    BY <2>1, <2>2, <2>5, OnlyAbout
<1>5. QED
  BY <1>1, <1>3, <1>4

\* Returning.
LEMMA ReturnPolicy ==
    ASSUME PolicyInv, NEW c \in Caller, Return(c)
    PROVE  (\A d \in Caller : SnapshotOK(d) /\ BatchOK(d))' /\ TableMatchesPolicy'
<1> USE DEF PolicyInv, Typed, TypeOK
<1>1. /\ pc[c] = "unlock" /\ pc'[c] = "idle"
      /\ \A d \in Caller : d # c => pc'[d] = pc[d]
      /\ UNCHANGED <<table, now, policy>>
  BY DEF Return, Go
<1>2. SnapshotOK(c)' /\ BatchOK(c)'
  BY <1>1 DEF SnapshotOK, BatchOK
<1>3. Undoing = {}
  BY <1>1, Alone DEF Undoing
<1>4. Candidates \subseteq Candidates'
  BY <1>1, <1>3 DEF Candidates
<1>5. QED
  BY <1>1, <1>2, <1>4, OnlyAbout, TableStays

\* Dying between two commands, and being cleaned up from outside.
LEMMA OutsidePolicy ==
    ASSUME PolicyInv, Crash \/ CleanupScript
    PROVE  (\A d \in Caller : SnapshotOK(d) /\ BatchOK(d))' /\ TableMatchesPolicy'
<1> USE DEF PolicyInv, Typed, TypeOK
<1>1. CASE Crash
  <2>1. \A d \in Caller : SnapshotOK(d)' /\ BatchOK(d)'
    BY <1>1 DEF Crash, SnapshotOK, BatchOK
  <2>2. \E s \in policy' : Shows(table', s, now)
    <3>1. CASE table' = table
      <4>1. Candidates \subseteq policy'
        BY <1>1 DEF Crash, Candidates, Undoing
      <4>2. QED
        BY <3>1, <4>1 DEF TableMatchesPolicy
    <3>2. CASE table' # table
      <4>1. PICK c \in Caller : pc[c] \in {"apply", "undoApply"} /\ table' = Commit(prog[c], now)
        BY <1>1, <3>2 DEF Crash
      <4>2. CASE pc[c] = "apply"
        <5>1. Shows(Commit(prog[c], now), Target(op[c]), now)
          BY <4>2, CommitShows, TargetType DEF BatchOK
        <5>2. Target(op[c]) \in policy'
          BY <1>1, <4>2 DEF Crash
        <5>3. QED
          BY <4>1, <5>1, <5>2
      <4>3. CASE pc[c] = "undoApply"
        <5>1. PICK s \in policy : Renders(prog[c], Shorten(s), now)
          BY <4>3 DEF BatchOK
        <5>2. Shows(Commit(prog[c], now), Shorten(s), now)
          BY <5>1, CommitShows, ShortenType
        <5>3. Shorten(s) \in policy'
          BY <1>1, <4>3, <5>1 DEF Crash, Shortened
        <5>4. QED
          BY <4>1, <5>2, <5>3
      <4>4. QED
        BY <4>1, <4>2, <4>3
    <3>3. QED
      BY <3>1, <3>2
  <2>3. QED
    BY <1>1, <2>1, <2>2 DEF Crash, TableMatchesPolicy, Candidates
<1>2. CASE CleanupScript
  <2>1. /\ table' = AbsentTable
        /\ UNCHANGED <<now, pc, op, snap, prog, lock>>
        /\ EmptyState \in policy'
        /\ lock # NoCaller => policy \subseteq policy'
    BY <1>2 DEF CleanupScript, control
  <2>2. ASSUME NEW d \in Caller PROVE SnapshotOK(d)' /\ BatchOK(d)'
    <3>1. CASE pc[d] \in {"idle", "lock"}
      BY <2>1, <3>1 DEF SnapshotOK, BatchOK
    <3>2. CASE pc[d] \notin {"idle", "lock"}
      <4>1. policy \subseteq policy'
        BY <2>1, <3>2, CallerAssumption DEF OneInside
      <4>2. Target(op[d])' = Target(op[d])
        BY <2>1 DEF Target
      <4>3. QED
        BY <2>1, <4>1, <4>2 DEF SnapshotOK, BatchOK
    <3>3. QED
      BY <3>1, <3>2
  <2>3. Shows(AbsentTable, EmptyState, now)
    BY DEF Shows, AbsentTable, EmptyState
  <2>4. QED
    BY <2>1, <2>2, <2>3 DEF TableMatchesPolicy, Candidates
<1>3. QED
  BY <1>1, <1>2

\* Waiting: what was shown is shown still.
LEMMA TickPolicy ==
    ASSUME PolicyInv, Tick
    PROVE  (\A d \in Caller : SnapshotOK(d) /\ BatchOK(d))' /\ TableMatchesPolicy'
<1> USE DEF PolicyInv, Typed, TypeOK
<1>1. /\ now' \in Nat /\ now' >= now
      /\ UNCHANGED <<table, pc, op, snap, prog, policy>>
  BY DEF Tick, control
<1>2. ASSUME NEW s \in DesiredState, NEW x \in DesiredState, Shows(x, s, now)
      PROVE  Shows(x, s, now')
  BY <1>1, <1>2, ShowsLater DEF DesiredState
<1>3. ASSUME NEW s \in DesiredState, NEW p \in Program, Renders(p, s, now)
      PROVE  Renders(p, s, now')
  BY <1>1, <1>3, RendersLater
<1>4. ASSUME NEW d \in Caller PROVE SnapshotOK(d)' /\ BatchOK(d)'
  <2>1. SnapshotOK(d)'
    <3>1. \A s \in policy : Shows(snap[d].state, Shorten(s), now) => Shows(snap[d].state, Shorten(s), now')
      BY <1>2, ShortenType
    <3>2. QED
      BY <1>1, <3>1 DEF PolicyInv, SnapshotOK
  <2>2. BatchOK(d)'
    <3>1. Renders(prog[d], Target(op[d]), now) => Renders(prog[d], Target(op[d]), now')
      BY <1>3, TargetType
    <3>2. \A s \in policy : Renders(prog[d], Shorten(s), now) => Renders(prog[d], Shorten(s), now')
      BY <1>3, ShortenType
    <3>3. Target(op[d])' = Target(op[d])
      BY <1>1 DEF Target
    <3>4. QED
      BY <1>1, <3>1, <3>2, <3>3 DEF PolicyInv, BatchOK
  <2>3. QED
    BY <2>1, <2>2
<1>5. TableMatchesPolicy'
  <2>1. Candidates' = Candidates
    BY <1>1 DEF Candidates, Undoing
  <2>2. Candidates \subseteq DesiredState
    BY TargetType DEF Candidates, Undoing
  <2>3. \A s \in Candidates : Shows(table, s, now) => Shows(table, s, now')
    BY <1>1, <2>2, ShowsLater DEF Table
  <2>4. QED
    BY <1>1, <2>1, <2>3 DEF TableMatchesPolicy
<1>6. QED
  BY <1>4, <1>5

LEMMA StepPolicy == PolicyInv /\ [Next]_vars => PolicyInv'
<1> SUFFICES ASSUME PolicyInv, [Next]_vars PROVE PolicyInv'
  OBVIOUS
<1>1. Typed' /\ OneInside'
  BY StepTyped, StepOneInside DEF PolicyInv, Typed
<1>2. (\A d \in Caller : SnapshotOK(d) /\ BatchOK(d))' /\ TableMatchesPolicy'
  <2>1. CASE UNCHANGED vars
    BY <2>1 DEF vars, control, bounds, PolicyInv, SnapshotOK, BatchOK,
                TableMatchesPolicy, Candidates, Undoing, Target
  <2>2. ASSUME NEW c \in Caller,
               (\E request \in Requests : Call(c, request)) \/ Lock(c) \/ Command(c) \/ Cancel(c)
        PROVE  <1>2!1 /\ <1>2!2
    BY <2>2, EntryPolicy, ReadPolicy, OperatePolicy, RestorePolicy, ReturnPolicy DEF Command
  <2>3. QED
    BY <2>1, <2>2, OutsidePolicy, TickPolicy DEF Next
<1>3. QED
  BY <1>1, <1>2 DEF PolicyInv

\* Whatever the callers, requests, failures, cancellations and crashes, the
\* kernel holds one whole candidate policy: an acknowledged policy is replaced
\* by an acknowledged one, or is still in force.
THEOREM PolicyInForce == Spec => []TableMatchesPolicy
<1>1. PolicyInv => TableMatchesPolicy
  BY DEF PolicyInv
<1>2. QED
  BY InitPolicy, StepPolicy, <1>1, PTL DEF Spec

\* A table that shows a policy treats packets as the policy says: a whitelist
\* entry goes before either set of bans.
LEMMA VerdictOf ==
    ASSUME NEW s \in DesiredState, NEW x \in Table, NEW t \in Nat, NEW a \in Addr,
           ~x.present => x = AbsentTable,
           Shows(x, s, t),
           PolicyVerdict(s, a, t) # "either"
    PROVE  Verdict(x, a, t) = PolicyVerdict(s, a, t)
<1>1. \A k \in x.bans : k.expires \in Nat
  BY DEF Table, Ban
<1>2. \A b \in s.bans : b.expires \in Nat
  BY DEF DesiredState, Ban
<1>3. CASE a \in s.wl
  BY <1>3 DEF Shows, Verdict, PolicyVerdict
<1>4. CASE a \notin s.wl /\ (a \in s.perm \/ \E b \in s.bans : b.addr = a /\ b.expires > t)
  <2>1. a \notin x.wl /\ (a \in x.perm \/ \E k \in x.bans : k.addr = a /\ k.expires > t)
    BY <1>1, <1>2, <1>4 DEF Shows
  <2>2. x.present
    BY <2>1 DEF AbsentTable
  <2>3. QED
    BY <1>4, <2>1, <2>2 DEF Verdict, PolicyVerdict, Live
<1>5. CASE a \notin s.wl /\ a \notin s.perm /\ ~\E b \in s.bans : b.addr = a
  <2>1. a \notin x.wl /\ a \notin x.perm /\ ~\E k \in Live(x, t) : k.addr = a
    BY <1>5 DEF Shows, Live
  <2>2. QED
    BY <1>5, <2>1 DEF Verdict, PolicyVerdict
<1>6. QED
  BY <1>3, <1>4, <1>5 DEF PolicyVerdict

\* No lockout and no gap, at any moment of any replacement or rollback.
THEOREM PacketsFollowPolicy == Spec => []NoGapNoLockout
<1>1. PolicyInv => NoGapNoLockout
  <2> SUFFICES ASSUME PolicyInv, NEW a \in Addr, NEW v \in {"accept", "drop"},
                      \A s \in Candidates : PolicyVerdict(s, a, now) = v
               PROVE  Verdict(table, a, now) = v
    BY DEF NoGapNoLockout
  <2> USE DEF PolicyInv, Typed, TypeOK
  <2>1. PICK s \in Candidates : Shows(table, s, now)
    BY DEF TableMatchesPolicy
  <2>2. s \in DesiredState
    BY TargetType DEF Candidates, Undoing
  <2>3. QED
    BY <2>1, <2>2, VerdictOf DEF StatesOK
<1>2. QED
  BY InitPolicy, StepPolicy, <1>1, PTL DEF Spec

-----------------------------------------------------------------------------
(* Cancellation.                                                           *)

\* An operation is neither done nor undone only if a command failed of its
\* own accord: the rollback does not run in the caller's context.
THEOREM CancellationRollsBack == Spec => []RollbackSurvivesCancellation
<1> DEFINE Inv == TypeOK /\ RollbackSurvivesCancellation
<1>1. Init => Inv
  BY InitTyped DEF Init, Typed, RollbackSurvivesCancellation
<1>2. Inv /\ TypeOK' /\ [Next]_vars => Inv'
  <2> SUFFICES ASSUME Inv, TypeOK', [Next]_vars PROVE RollbackSurvivesCancellation'
    OBVIOUS
  <2> USE DEF RollbackSurvivesCancellation, TypeOK
  <2>1. faults' >= faults
    <3>1. ASSUME NEW done, CommandRuns(done) \/ CommandFails(done)
          PROVE  faults' >= faults
      BY <3>1 DEF CommandRuns, CommandFails
    <3>2. ASSUME NEW c \in Caller, Command(c) \/ Lock(c) \/ Cancel(c)
          PROVE  faults' >= faults
      <4>1. \/ UNCHANGED faults
            \/ CommandRuns(Done(c)) \/ CommandFails(Done(c))
            \/ CommandRuns(RollbackDone(c)) \/ CommandFails(RollbackDone(c))
        BY <3>2 DEF Command, Lock, Cancel, Resolve, SnapshotTableExists, InspectTableExists,
               List, Check, Apply, ApplyFails, RestoreCheck, RestoreApply, RestoreApplyFails,
               Return, bounds
      <4>2. CASE UNCHANGED faults
        BY <4>2
      <4>3. QED
        BY <3>1, <4>1, <4>2
    <3>3. ASSUME NEW c \in Caller, NEW request \in Requests, Call(c, request)
          PROVE  faults' >= faults
      BY <3>3 DEF Call
    <3>4. CASE Crash \/ CleanupScript \/ Tick \/ UNCHANGED vars
      BY <3>4 DEF Crash, CleanupScript, Tick, vars, bounds
    <3>5. QED
      BY <3>2, <3>3, <3>4 DEF Next
  <2>2. ASSUME NEW c \in Caller, RestoreCheck(c) \/ RestoreApplyFails(c)
        PROVE  \A d \in Caller : result'[d] = "broken" => result[d] = "broken" \/ faults' > 0
    BY <2>2 DEF RestoreCheck, RestoreApplyFails, CommandRuns, CommandFails, RollbackDone, Finish
  <2>3. ASSUME NEW c \in Caller,
               \/ Resolve(c) \/ SnapshotTableExists(c) \/ InspectTableExists(c) \/ List(c)
               \/ Check(c) \/ Apply(c) \/ ApplyFails(c) \/ RestoreApply(c)
        PROVE  \A d \in Caller : result'[d] = "broken" => result[d] = "broken"
    <3>1. UNCHANGED result \/ \E r \in {"ok", "failed", "restored"} : result' = [result EXCEPT ![c] = r]
      BY <2>3 DEF Resolve, SnapshotTableExists, InspectTableExists, NoTable, List, Check, Apply,
                  ApplyFails, RestoreApply, Read, Finish
    <3>2. QED
      BY <3>1
  <2>4. ASSUME NEW c \in Caller,
               \/ \E request \in Requests : Call(c, request)
               \/ Lock(c) \/ Cancel(c) \/ Return(c)
        PROVE  \A d \in Caller : result'[d] = "broken" => result[d] = "broken"
    BY <2>4 DEF Call, Lock, Cancel, Return
  <2>5. CASE Crash \/ CleanupScript \/ Tick \/ UNCHANGED vars
    BY <2>5 DEF Crash, CleanupScript, Tick, vars, control, bounds
  <2>6. \A d \in Caller : result'[d] = "broken" => result[d] = "broken" \/ faults' > 0
    BY <2>2, <2>3, <2>4, <2>5 DEF Next, Command
  <2>7. QED
    BY <2>1, <2>6
<1>3. QED
  BY <1>1, <1>2, TypeInvariant, PTL DEF Spec
-----------------------------------------------------------------------------
(* Errors.                                                                 *)

\* What an error needs that no command caused.
Explained(c) ==
    \/ c \in cancelled
    \/ Resolved = {}
    \/ pc[c] = "list" /\ ~(table.present /\ Listable(table, now))

\* A command that fails and is not counted was cancelled.
LEMMA FailsOfCancellation ==
    ASSUME TypeOK, NEW c \in Caller, CommandFails(Done(c)), faults' = faults
    PROVE  c \in cancelled
  BY DEF TypeOK, CommandFails, Done

\* A step of one caller leaves the others where they are, with what they have.
LEMMA OthersStay ==
    ASSUME TypeOK, NEW d \in Caller, NEW c \in Caller, c # d,
           Command(d) \/ Lock(d) \/ Cancel(d) \/ \E request \in Requests : Call(d, request)
    PROVE  pc'[c] = pc[c] /\ result'[c] = result[c]
<1>1. CASE Lock(d) \/ Cancel(d) \/ \E request \in Requests : Call(d, request)
  BY <1>1 DEF TypeOK, Lock, Cancel, Call, Go
<1>2. CASE Resolve(d) \/ SnapshotTableExists(d) \/ InspectTableExists(d) \/ List(d)
  BY <1>2 DEF TypeOK, Resolve, SnapshotTableExists, InspectTableExists, NoTable, List, Read, Finish, Go
<1>3. CASE Check(d) \/ Apply(d) \/ ApplyFails(d)
  BY <1>3 DEF TypeOK, Check, Apply, ApplyFails, Finish, Go
<1>4. CASE RestoreCheck(d) \/ RestoreApply(d) \/ RestoreApplyFails(d) \/ Return(d)
  BY <1>4 DEF TypeOK, RestoreCheck, RestoreApply, RestoreApplyFails, Return, Finish, Go
<1>5. QED
  BY <1>1, <1>2, <1>3, <1>4 DEF Command

LEMMA ErrorIsExplained ==
    ASSUME TypeOK, [Next]_vars, NEW c \in Caller, Failing(c), faults' = faults
    PROVE  Explained(c)
<1>0. /\ pc[c] \notin {"undoCheck", "undoApply"}
      /\ pc'[c] = "undoCheck" \/ (result[c] = "ok" /\ result'[c] # "ok")
  BY DEF Failing
<1>1. ASSUME pc'[c] = pc[c], result'[c] = result[c] PROVE FALSE
  BY <1>0, <1>1
<1>2. ASSUME NEW d \in Caller, d # c,
             Command(d) \/ Lock(d) \/ Cancel(d) \/ \E request \in Requests : Call(d, request)
      PROVE  FALSE
  BY <1>1, <1>2, OthersStay
<1>3. ASSUME Lock(c) \/ Cancel(c) \/ \E request \in Requests : Call(c, request) PROVE FALSE
  BY <1>0, <1>3 DEF TypeOK, Lock, Cancel, Call, Go
<1>4. CASE Resolve(c)
  <2>1. CASE CommandFails(Done(c))
    BY <2>1, FailsOfCancellation DEF Explained
  <2>2. CASE CommandRuns(Done(c)) /\ Resolved # {}
    <3>1. CASE Go(c, "resolve", IF op[c].kind = "inspect" THEN "inspectExists" ELSE "snapExists") /\ UNCHANGED result
      BY <1>0, <3>1 DEF TypeOK, Go
    <3>2. CASE CommandFails(Done(c))
      BY <2>1, <3>2
    <3>3. QED
      BY <1>4, <2>2, <3>1, <3>2 DEF Resolve
  <2>3. CASE Resolved = {}
    BY <2>3 DEF Explained
  <2>4. QED
    BY <1>4, <2>1, <2>2, <2>3 DEF Resolve
<1>5. CASE SnapshotTableExists(c)
  <2>1. CASE CommandFails(Done(c))
    BY <2>1, FailsOfCancellation DEF Explained
  <2>2. CASE ~CommandFails(Done(c))
    BY <1>0, <1>5, <2>2 DEF TypeOK, SnapshotTableExists, Read, Go
  <2>3. QED
    BY <2>1, <2>2
<1>6. CASE InspectTableExists(c)
  <2>1. CASE CommandFails(Done(c))
    BY <2>1, FailsOfCancellation DEF Explained
  <2>2. CASE ~CommandFails(Done(c))
    BY <1>0, <1>6, <2>2 DEF TypeOK, InspectTableExists, NoTable, Read, Go
  <2>3. QED
    BY <2>1, <2>2
<1>7. CASE List(c)
  <2>1. CASE CommandFails(Done(c))
    BY <2>1, FailsOfCancellation DEF Explained
  <2>2. CASE ~(table.present /\ Listable(table, now))
    BY <1>7, <2>2 DEF List, Read, Finish, Go, Explained
  <2>3. CASE ~CommandFails(Done(c)) /\ table.present /\ Listable(table, now)
    BY <1>0, <1>7, <2>3 DEF TypeOK, List, Read, Go
  <2>4. QED
    BY <2>1, <2>2, <2>3
<1>8. CASE Check(c)
  <2>1. CASE CommandFails(Done(c))
    BY <2>1, FailsOfCancellation DEF Explained
  <2>2. CASE ~CommandFails(Done(c))
    BY <1>0, <1>8, <2>2 DEF TypeOK, Check, Go
  <2>3. QED
    BY <2>1, <2>2
<1>9. ASSUME Apply(c) PROVE FALSE
  BY <1>0, <1>9 DEF TypeOK, Apply, Finish, Go
<1>10. CASE ApplyFails(c)
  BY <1>10, FailsOfCancellation DEF ApplyFails, Explained
<1>11. ASSUME RestoreCheck(c) \/ RestoreApply(c) \/ RestoreApplyFails(c) PROVE FALSE
  BY <1>0, <1>11 DEF RestoreCheck, RestoreApply, RestoreApplyFails, Finish, Go
<1>12. ASSUME Return(c) PROVE FALSE
  BY <1>0, <1>12 DEF TypeOK, Return, Go
<1>13. ASSUME Crash PROVE FALSE
  BY <1>0, <1>13 DEF Crash
<1>14. ASSUME CleanupScript \/ Tick \/ UNCHANGED vars PROVE FALSE
  BY <1>1, <1>14 DEF CleanupScript, Tick, vars, control
<1>15. CASE \E d \in Caller : d # c /\
               (Command(d) \/ Lock(d) \/ Cancel(d) \/ \E request \in Requests : Call(d, request))
  BY <1>2, <1>15
<1>16. CASE Command(c)
  BY <1>4, <1>5, <1>6, <1>7, <1>8, <1>9, <1>10, <1>11, <1>12, <1>16 DEF Command
<1>17. QED
  BY <1>3, <1>13, <1>14, <1>15, <1>16 DEF Next

\* An operation whose commands all work fails only where its context is done, no
\* backend resolves, or what it lists is gone or in its last second.
THEOREM ErrorsAreExplained == Spec => OnlyExplainedErrors
<1>1. TypeOK /\ [Next]_vars =>
        [\A c \in Caller : Failing(c) /\ faults' = faults =>
            \/ c \in cancelled
            \/ Resolved = {}
            \/ pc[c] = "list" /\ ~(table.present /\ Listable(table, now))]_vars
  BY ErrorIsExplained DEF Explained
<1>2. QED
  BY <1>1, TypeInvariant, PTL DEF Spec, OnlyExplainedErrors
=============================================================================
