---------------------------- MODULE AlertDispatch -----------------------------
(***************************************************************************)
(* The alert manager: Dispatch finds the rules of an event, starts their   *)
(* cooldown, and delivers to their providers one after the other; Retry    *)
(* repeats what failed for a time; each outcome is recorded in the         *)
(* provider's health and in the history, which are saved                   *)
(* (alerts/manager.go, alerts/retry.go).                                   *)
(*                                                                         *)
(* Around it: several dispatches at once, providers that fail or do not    *)
(* answer, contexts that end at any moment, saves that fail, and a process *)
(* that dies at any step.  What is done under Manager.mu is one step.      *)
(***************************************************************************)
EXTENDS AlertPolicy, FiniteSets, SequencesExt

CONSTANTS
    Dispatcher,     \* goroutines that dispatch events
    MaxTime,        \* bound: clock ticks
    MaxDispatches,  \* bound: events
    MaxEvents       \* bound: saves that fail, deaths of the process, providers added
                    \* and health checks reported, taken together

VARIABLES
    providers,  \* state.Providers: their identifiers
    health,     \* the health of each of them
    deliveries, \* state.Deliveries
    saved,      \* the state file
    cooldowns,  \* Manager.cooldowns: until when each rule keeps silent
    now,        \* the clock
    pc,         \* where each dispatcher is
    cancelled,  \* its context is done
    copied,     \* the providers it copied
    todo,       \* the rules it has yet to look at, by their positions
    rule,       \* the rule it delivers for, or 0
    jobs,       \* the providers it has yet to deliver to
    attempt,    \* the attempt it is at
    tries,      \* deliver's own count of attempts
    success,    \* what Retry returned
    \* bounds and history, which no action of the code reads
    dispatches, events,
    sends,      \* what the provider answered to each attempt of the delivery
    rounds,     \* when each rule fired in this life
    silenced,   \* which rules were kept silent in this life, and when
    checked     \* providers whose health was reported from elsewhere

memory == <<providers, health, deliveries>>
round  == <<copied, todo, rule>>
retry  == <<attempt, tries, success, sends>>
bounds == <<dispatches, events>>
ghosts == <<rounds, silenced, checked>>
vars   == <<memory, saved, cooldowns, now, pc, cancelled, round, jobs, retry, bounds, ghosts>>

Memory == [providers |-> providers, health |-> health, deliveries |-> deliveries]

\* What each dispatcher starts from.
Each(x) == [d \in Dispatcher |-> x]

Init ==
    /\ providers = Known /\ health = [i \in DOMAIN Known |-> NeverSeen] /\ deliveries = <<>>
    /\ saved = Memory
    /\ cooldowns = [r \in Rule |-> 0] /\ now = 0
    /\ pc = Each("idle") /\ cancelled = Each(FALSE)
    /\ copied = Each(<<>>) /\ todo = Each({}) /\ rule = Each(0) /\ jobs = Each(<<>>)
    /\ attempt = Each(0) /\ tries = Each(0) /\ success = Each(FALSE) /\ sends = Each(<<>>)
    /\ dispatches = 0 /\ events = 0
    /\ rounds = [r \in Rule |-> <<>>] /\ silenced = {} /\ checked = {}

-----------------------------------------------------------------------------
Go(d, from, to) == pc[d] = from /\ pc' = [pc EXCEPT ![d] = to]

Happens(n) == events + n <= MaxEvents /\ events' = events + n

\* A temporary file is renamed over the old one; where that fails, memory keeps
\* what it has.  n bounds what the save belongs to.
Save(n) ==
    \/ Happens(n) /\ saved' = Memory'
    \/ Happens(1) /\ UNCHANGED saved

-----------------------------------------------------------------------------
(* Dispatch.                                                               *)

\* Rules and providers are copied.
Dispatch(d, e) ==
    /\ dispatches < MaxDispatches /\ dispatches' = dispatches + 1
    /\ Go(d, "idle", "rule")
    /\ copied' = [copied EXCEPT ![d] = providers]
    /\ todo' = [todo EXCEPT ![d] = {n \in DOMAIN Rules : On[Rules[n]] = e}]
    /\ UNCHANGED <<memory, saved, cooldowns, now, cancelled, rule, jobs, retry,
                   events, ghosts>>

\* Of each identifier the rule names, the providers that have it.
Copies(p, known) == [k \in 1 .. Cardinality({i \in DOMAIN known : known[i] = p}) |-> p]

Recipients(r, known) == FlattenSeq([i \in DOMAIN Targets[r] |-> Copies(Targets[r][i], known)])

Silent(r) == cooldowns[r] > now

\* The rule at position n is the next one.
Looks(d, n) ==
    /\ pc[d] = "rule" /\ jobs[d] = <<>>
    /\ n \in todo[d] /\ \A m \in todo[d] : n <= m
    /\ todo' = [todo EXCEPT ![d] = @ \ {n}]

\* The cooldown starts when the rule fires, before anything was delivered.  Rules
\* have different keys here: an identifier and a type that join to the same key as
\* those of another rule would share its cooldown.
FireRule_Unmarked(d, n) ==
    LET r == Rules[n]
    IN  /\ Looks(d, n) /\ ~Silent(r)
        /\ rounds' = [rounds EXCEPT ![r] = Append(@, now)]
        /\ rule' = [rule EXCEPT ![d] = n]
        /\ jobs' = [jobs EXCEPT ![d] = Recipients(r, copied[d])]
        /\ UNCHANGED <<memory, saved, cooldowns, now, pc, cancelled, copied, retry, bounds, silenced, checked>>

FireRule(d, n) ==
    LET r == Rules[n]
    IN  /\ Looks(d, n) /\ ~Silent(r)
        /\ cooldowns' = [cooldowns EXCEPT ![r] = now + Cooldown[r]]
        /\ rounds' = [rounds EXCEPT ![r] = Append(@, now)]
        /\ rule' = [rule EXCEPT ![d] = n]
        /\ jobs' = [jobs EXCEPT ![d] = Recipients(r, copied[d])]
        /\ UNCHANGED <<memory, saved, now, pc, cancelled, copied, retry, bounds, silenced, checked>>

SkipRule(d, n) ==
    /\ Looks(d, n) /\ Silent(Rules[n])
    /\ silenced' = silenced \cup {<<Rules[n], now>>}
    /\ UNCHANGED <<memory, saved, cooldowns, now, pc, cancelled, copied, rule, jobs, retry,
                   bounds, rounds, checked>>

Return(d) ==
    /\ jobs[d] = <<>> /\ todo[d] = {}
    /\ Go(d, "rule", "idle")
    /\ cancelled' = [cancelled EXCEPT ![d] = FALSE]
    /\ copied' = [copied EXCEPT ![d] = <<>>]
    /\ rule' = [rule EXCEPT ![d] = 0]
    /\ UNCHANGED <<memory, saved, cooldowns, now, todo, jobs, retry, bounds, ghosts>>

-----------------------------------------------------------------------------
(* deliver and Retry.                                                      *)

Deliver(d) ==
    /\ jobs[d] # <<>>
    /\ Go(d, "rule", "attempt")
    /\ UNCHANGED <<memory, saved, cooldowns, now, cancelled, round, jobs, retry, bounds, ghosts>>

\* A context that is done ends it, without an attempt.
GiveUp(d) ==
    /\ cancelled[d]
    /\ pc[d] \in {"attempt", "wait"} /\ pc' = [pc EXCEPT ![d] = "record"]
    /\ UNCHANGED <<memory, saved, cooldowns, now, cancelled, round, jobs, retry, bounds, ghosts>>

\* Temporary failures are repeated, but for the last attempt.
LastAttempt(d) == attempt[d] + 1 = Attempts[Head(jobs[d])]

Send_Persistent(d, answer) ==
    /\ ~cancelled[d]
    /\ Go(d, "attempt", IF answer # "ok" /\ ~LastAttempt(d) THEN "wait" ELSE "record")
    /\ tries' = [tries EXCEPT ![d] = @ + 1]
    /\ sends' = [sends EXCEPT ![d] = Append(@, answer)]
    /\ success' = [success EXCEPT ![d] = answer = "ok"]
    /\ UNCHANGED <<memory, saved, cooldowns, now, cancelled, round, jobs, attempt, bounds, ghosts>>

Send(d, answer) ==
    /\ ~cancelled[d]
    /\ Go(d, "attempt", IF answer = "temporary" /\ ~LastAttempt(d) THEN "wait" ELSE "record")
    /\ tries' = [tries EXCEPT ![d] = @ + 1]
    /\ sends' = [sends EXCEPT ![d] = Append(@, answer)]
    /\ success' = [success EXCEPT ![d] = answer = "ok"]
    /\ UNCHANGED <<memory, saved, cooldowns, now, cancelled, round, jobs, attempt, bounds, ghosts>>

\* The timer of the backoff and the jitter.  Their sum, which may be beyond the
\* integers where each of them is not, is how long it takes: any time, here.
Again(d) ==
    /\ Go(d, "wait", "attempt")
    /\ JitterBound(Head(jobs[d]), attempt[d]) > 0
    /\ attempt' = [attempt EXCEPT ![d] = @ + 1]
    /\ UNCHANGED <<memory, saved, cooldowns, now, cancelled, round, jobs, tries, success, sends,
                   bounds, ghosts>>

\* All providers with this identifier.
Record(d) ==
    LET p == Head(jobs[d])
    IN  /\ Go(d, "record", "rule")
        /\ health' = [i \in DOMAIN health |->
                        IF providers[i] = p THEN Observed(health[i], success[d]) ELSE health[i]]
        /\ deliveries' = Newest(Append(deliveries,
                            [rule |-> Rules[rule[d]], provider |-> p, delivered |-> success[d],
                             retries |-> tries[d] - 1, sends |-> sends[d]]))
        /\ jobs' = [jobs EXCEPT ![d] = Tail(@)]
        /\ attempt' = [attempt EXCEPT ![d] = 0] /\ tries' = [tries EXCEPT ![d] = 0]
        /\ success' = [success EXCEPT ![d] = FALSE] /\ sends' = [sends EXCEPT ![d] = <<>>]
        /\ UNCHANGED <<providers, cooldowns, now, cancelled, round,
                       dispatches, ghosts>>
        /\ Save(0)

-----------------------------------------------------------------------------
(* The other operations.                                                   *)

\* A provider whose save failed stays, although its caller is told so.
AddProvider(p) ==
    /\ providers' = Append(providers, p)
    /\ health' = Append(health, NeverSeen)
    /\ UNCHANGED <<deliveries, cooldowns, now, pc, cancelled, round, jobs, retry,
                   dispatches, ghosts>>
    /\ Save(1)

\* No provider before this one has its identifier.
First(s, i) == \A j \in DOMAIN s : s[j] = s[i] => i <= j

\* The status is the caller's; the counters follow the error.
UpdateHealth(p, status, good) ==
    /\ \E i \in DOMAIN providers : providers[i] = p /\ First(providers, i) /\
          health' = [health EXCEPT ![i] = [Observed(@, good) EXCEPT !.status = status]]
    /\ checked' = checked \cup {p}
    /\ UNCHANGED <<providers, deliveries, cooldowns, now, pc, cancelled, round, jobs, retry,
                   dispatches, rounds, silenced>>
    /\ Save(1)

-----------------------------------------------------------------------------
(* The environment.                                                        *)

\* Retry looks at the context before each attempt and during each wait.
Cancel(d) ==
    /\ pc[d] \in {"attempt", "wait"} /\ ~cancelled[d]
    /\ cancelled' = [cancelled EXCEPT ![d] = TRUE]
    /\ UNCHANGED <<memory, saved, cooldowns, now, pc, round, jobs, retry, bounds, ghosts>>

Tick ==
    /\ now < MaxTime /\ now' = now + 1
    /\ UNCHANGED <<memory, saved, cooldowns, pc, cancelled, round, jobs, retry, bounds, ghosts>>

\* NewManager starts from the file, without cooldowns.
Restart ==
    /\ providers' = saved.providers /\ health' = saved.health /\ deliveries' = saved.deliveries
    /\ cooldowns' = [r \in Rule |-> 0]
    /\ pc' = Each("idle") /\ cancelled' = Each(FALSE)
    /\ copied' = Each(<<>>) /\ todo' = Each({}) /\ rule' = Each(0) /\ jobs' = Each(<<>>)
    /\ attempt' = Each(0) /\ tries' = Each(0) /\ success' = Each(FALSE) /\ sends' = Each(<<>>)
    /\ rounds' = [r \in Rule |-> <<>>] /\ silenced' = {}
    /\ UNCHANGED <<saved, now, dispatches, checked>>

Crash ==
    /\ Happens(1)
    /\ Restart

\* rand.Int64N panics, in a goroutine that does not recover.
Overflow(d) ==
    /\ pc[d] = "wait" /\ ~JitterBound(Head(jobs[d]), attempt[d]) > 0
    /\ UNCHANGED events
    /\ Restart

-----------------------------------------------------------------------------
Step(d) ==
    \/ \E n \in DOMAIN Rules : FireRule(d, n) \/ SkipRule(d, n)
    \/ Return(d) \/ Deliver(d) \/ GiveUp(d)
    \/ \E answer \in {"ok", "temporary", "permanent"} : Send(d, answer)
    \/ Again(d) \/ Record(d) \/ Overflow(d)

Next ==
    \/ \E d \in Dispatcher :
        \/ \E e \in EventType : Dispatch(d, e)
        \/ Step(d) \/ Cancel(d)
    \/ \E p \in Provider :
        \/ AddProvider(p)
        \/ \E status \in {Healthy, Unreachable}, good \in BOOLEAN : UpdateHealth(p, status, good)
    \/ Tick \/ Crash

Spec == Init /\ [][Next]_vars

-----------------------------------------------------------------------------
(* Properties.                                                             *)

Delivery == [rule : Rule, provider : Provider, delivered : BOOLEAN, retries : Int,
             sends : Seq({"ok", "temporary", "permanent"})]

State == [providers : Seq(Provider), health : Seq(Health), deliveries : Seq(Delivery)]

TypeOK ==
    /\ \A st \in {Memory, saved} :
        /\ st \in State
        /\ Len(st.providers) = Len(st.health) /\ Len(st.deliveries) <= MaxHistory
    /\ cooldowns \in [Rule -> Nat] /\ now \in Nat
    /\ pc \in [Dispatcher -> {"idle", "rule", "attempt", "wait", "record"}]
    /\ cancelled \in [Dispatcher -> BOOLEAN]
    /\ copied \in [Dispatcher -> Seq(Provider)] /\ todo \in [Dispatcher -> SUBSET DOMAIN Rules]
    /\ rule \in [Dispatcher -> 0 .. Len(Rules)] /\ jobs \in [Dispatcher -> Seq(Provider)]
    /\ attempt \in [Dispatcher -> Nat] /\ tries \in [Dispatcher -> Nat]
    /\ success \in [Dispatcher -> BOOLEAN]
    /\ sends \in [Dispatcher -> Seq({"ok", "temporary", "permanent"})]
    /\ \A d \in Dispatcher : pc[d] \in {"attempt", "wait", "record"} => jobs[d] # <<>>
    /\ dispatches \in Nat /\ events \in Nat
    /\ rounds \in [Rule -> Seq(Nat)] /\ silenced \subseteq Rule \X Nat
    /\ checked \subseteq Provider

\* A rule does not fire twice within its cooldown in one life, however many
\* dispatches race for it and whatever becomes of their deliveries, and nothing
\* else silences it: an alert is dropped only where the rule fired within the
\* cooldown before.
CooldownHolds ==
    /\ \A r \in Rule : \A i, j \in DOMAIN rounds[r] :
          i < j => rounds[r][i] + Cooldown[r] <= rounds[r][j]
    /\ \A x \in silenced :
          \E i \in DOMAIN rounds[x[1]] :
              rounds[x[1]][i] <= x[2] /\ x[2] < rounds[x[1]][i] + Cooldown[x[1]]

\* The history says what happened: a delivery counts as made exactly if the last
\* attempt was accepted, all attempts before it failed for a time, there were as
\* many as its retries say and no more than the policy allows, and without any it
\* has -1 retries and was not made.
HistoryIsTrue ==
    \A x \in Range(deliveries) \cup Range(saved.deliveries) :
        LET n == Len(x.sends)
        IN  /\ x.retries = n - 1 /\ n <= Attempts[x.provider]
            /\ \A i \in 1 .. n - 1 : x.sends[i] = "temporary"
            /\ x.delivered <=> n > 0 /\ x.sends[n] = "ok"

To(p, history) == {i \in DOMAIN history : history[i].provider = p}

\* How many deliveries to a provider, the newest, ended like that.
Trail(history, p, made) ==
    Cardinality({i \in To(p, history) :
                    \A j \in To(p, history) : i <= j => history[j].delivered = made})

Agrees(h, p, history) ==
    To(p, history) # {} =>
        /\ h.status = IF Trail(history, p, TRUE) > 0 THEN Healthy ELSE Unreachable
        /\ h.successes >= Trail(history, p, TRUE) /\ h.failures >= Trail(history, p, FALSE)
        /\ h.successes = 0 <=> Trail(history, p, TRUE) = 0
        /\ h.failures = 0 <=> Trail(history, p, FALSE) = 0

\* The health of a provider tells what the history does, also where several
\* dispatches deliver to it at once, saves fail and the process dies: its status
\* is that of the newest delivery, and its counters go at least as far back as the
\* deliveries that are kept.
HealthAgreesWithHistory ==
    \A st \in {Memory, saved} : \A i \in DOMAIN st.providers :
        First(st.providers, i) /\ st.providers[i] \notin checked =>
            Agrees(st.health[i], st.providers[i], st.deliveries)
=============================================================================
