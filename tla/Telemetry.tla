------------------------------ MODULE Telemetry -------------------------------
(***************************************************************************)
(* What becomes of a sample: Application.handleSample evaluates it,        *)
(* replaces the statistics, records it in history.Store, which keeps the   *)
(* attacks in memory and in a file, and publishes events on events.Bus to  *)
(* the log and to the event streams of the API (app/app.go,                *)
(* history/history.go, events/events.go, api/api.go).                      *)
(*                                                                         *)
(* Around it: a second publisher (a configuration that was applied, a      *)
(* start or an end of the runtime), clients that come, go and read slowly, *)
(* samples, saves and writes of the log that fail, a log that is emptied,  *)
(* and a daemon that dies at any step and is started again.                *)
(***************************************************************************)
EXTENDS Naturals, Sequences, FiniteSets, Functions

CONSTANTS
    Kinds,          \* the kinds of attacks, in the engine's order
    Stream,         \* clients of the event stream
    Queue,          \* the capacity of a stream's channel: 32 in the code
    Histories,      \* what a history file may hold when the daemon first starts
    MaxSamples,     \* bound: ticks of the detector
    MaxFaults,      \* bound: samples, saves and entries of the log that fail
    MaxCrashes,     \* bound: deaths of the daemon
    MaxStreams,     \* bound: streams that clients open
    MaxOthers       \* bound: events of the second publisher, times the log is emptied

Kind == Range(Kinds)

\* end is 0 as long as the attack is not resolved.
Attack == [kind : Kind, start : Nat, end : Nat]

Active(h) == {i \in DOMAIN h : h[i].end = 0}

\* An attack is one entry of the history from its beginning to its end.
OneActive(h) == \A i, j \in Active(h) : h[i].kind = h[j].kind => i = j

ASSUME KindsAssumption == Kinds \in Seq(Kind) /\ IsInjective(Kinds)
ASSUME QueueAssumption == Queue \in Nat
ASSUME HistoriesAssumption == Histories \subseteq Seq(Attack) /\ \A h \in Histories : OneActive(h)

Log == "log"
ASSUME LogAssumption == Log \notin Stream

Publisher == {"loop", "other"}
Subscriber == Stream \cup {Log}

VARIABLES
    up,         \* the daemon is running
    status,     \* Application.stats.AttackStatus
    attacks,    \* Store.attacks
    file,       \* the attacks in the history file
    pc,         \* where handleSample is
    signals,    \* the signals it evaluated
    agenda,     \* the events each publisher has yet to publish
    todo,       \* the subscribers to which it has yet to give the first of them
    subscribers,    \* Bus.subscribers: from identifiers to subscribers
    nextID,         \* Bus.nextID
    id,         \* the identifier of each stream that is open, or 0
    queue,      \* its channel
    log,        \* the transitions of this life that the log's file has
    \* bounds and history, which no action of the code reads
    samples, faults, crashes, others, streams,
    gaps,       \* after how many of them a transition is missing
    owed,       \* the transitions published since a stream was opened that its
                \* client has not read
    lost        \* streams that lost an event to a full channel

history == <<attacks, file>>
sampler == <<status, pc, signals>>
calls   == <<todo, subscribers, nextID>>
bus     == <<agenda, calls>>
clients == <<id, queue, owed, lost>>
logged  == <<log, gaps>>
bounds  == <<samples, faults, crashes, others, streams>>
vars    == <<up, sampler, history, bus, clients, logged, bounds>>

Transitions == {"AttackDetected", "AttackCleared"}
Events == Transitions \cup {"SampleCollected", "RuntimeError", "Other"}

\* The runtime before its first sample.
Fresh ==
    /\ status = "starting" /\ pc = "idle" /\ signals = {}
    /\ agenda = [p \in Publisher |-> <<>>]
    /\ todo = [p \in Publisher |-> {}]
    /\ subscribers = [i \in {0} |-> Log] /\ nextID = 1
    /\ id = [s \in Stream |-> 0] /\ queue = [s \in Stream |-> <<>>]
    /\ log = <<>> /\ gaps = {}
    /\ owed = [s \in Stream |-> <<>>] /\ lost = {}

Reset ==
    /\ status' = "starting" /\ pc' = "idle" /\ signals' = {}
    /\ agenda' = [p \in Publisher |-> <<>>]
    /\ todo' = [p \in Publisher |-> {}]
    /\ subscribers' = [i \in {0} |-> Log] /\ nextID' = 1
    /\ id' = [s \in Stream |-> 0] /\ queue' = [s \in Stream |-> <<>>]
    /\ log' = <<>> /\ gaps' = {}
    /\ owed' = [s \in Stream |-> <<>>] /\ lost' = {}

\* There may be a history with attacks that were not over when it was saved.
Init ==
    /\ Fresh
    /\ up = FALSE /\ attacks = <<>>
    /\ file \in Histories
    /\ samples = 0 /\ faults = 0 /\ crashes = 0 /\ others = 0 /\ streams = 0

\* The members of s that are in T, in their order.
Selected(s, T) ==
    LET upTo[n \in 0 .. Len(s)] ==
            IF n = 0 THEN <<>>
            ELSE IF s[n] \in T THEN Append(upTo[n - 1], s[n]) ELSE upTo[n - 1]
    IN  upTo[Len(s)]

-----------------------------------------------------------------------------
(* history.Store.                                                          *)

ActiveKinds(h) == {h[i].kind : i \in Active(h)}

\* findActive looks through all of them, from the newest to the oldest.
FindActive_Newest(h, k) == Len(h) > 0 /\ h[Len(h)].kind = k /\ h[Len(h)].end = 0

FindActive(h, k) == k \in ActiveKinds(h)

\* Signals of no active attack begin one.
Begun(h, sig, now) ==
    LET new == Selected(Kinds, {k \in sig : ~FindActive(h, k)})
    IN  h \o [i \in DOMAIN new |-> [kind |-> new[i], start |-> now, end |-> 0]]

\* Active attacks without a signal are over.
Resolved_IfAny(h, sig, now) ==
    [i \in DOMAIN h |->
        IF h[i].end = 0 /\ h[i].kind \notin sig /\ sig # {}
        THEN [h[i] EXCEPT !.end = now] ELSE h[i]]

Resolved(h, sig, now) ==
    [i \in DOMAIN h |->
        IF h[i].end = 0 /\ h[i].kind \notin sig THEN [h[i] EXCEPT !.end = now] ELSE h[i]]

Recorded(h, sig, now) == Resolved(Begun(h, sig, now), sig, now)

Fault == faults < MaxFaults /\ faults' = faults + 1

\* What Record does to memory stays where the save fails.
Record ==
    /\ pc = "record" /\ pc' = "publish"
    /\ attacks' = Recorded(attacks, signals, samples)
    /\ \/ file' = attacks' /\ UNCHANGED <<agenda, faults>>
       \/ /\ Fault
          /\ agenda' = [agenda EXCEPT !["loop"] = <<"RuntimeError">> \o @]
          /\ UNCHANGED file
    /\ UNCHANGED <<up, status, signals, calls, clients, logged, samples, crashes, others, streams>>

-----------------------------------------------------------------------------
(* The detector's handlers.                                                *)

Status(sig) == IF sig = {} THEN "quiet" ELSE "under_attack"

Transition_Simple(old, new) ==
    CASE old # new /\ new = "under_attack" -> <<"AttackDetected">>
      [] old # new /\ new = "quiet"        -> <<"AttackCleared">>
      [] OTHER                             -> <<>>

Transition(old, new) ==
    CASE old # "under_attack" /\ new = "under_attack" -> <<"AttackDetected">>
      [] old = "under_attack" /\ new = "quiet"        -> <<"AttackCleared">>
      [] OTHER                                        -> <<>>

Tick ==
    /\ up /\ pc = "idle" /\ samples < MaxSamples
    /\ samples' = samples + 1

\* The statistics are replaced before the history; what is going to be
\* published depends on the status they had.
HandleSample ==
    /\ Tick
    /\ \E sig \in SUBSET Kind :
        /\ signals' = sig
        /\ status' = Status(sig)
        /\ agenda' = [agenda EXCEPT !["loop"] =
                         <<"SampleCollected">> \o Transition(status, Status(sig))]
    /\ pc' = "record"
    /\ UNCHANGED <<up, history, calls, clients, logged, faults, crashes, others, streams>>

HandleDetectorError ==
    /\ Tick
    /\ Fault
    /\ agenda' = [agenda EXCEPT !["loop"] = <<"RuntimeError">>]
    /\ pc' = "publish"
    /\ UNCHANGED <<up, status, signals, history, calls, clients, logged, crashes, others, streams>>

Return ==
    /\ pc = "publish" /\ pc' = "idle"
    /\ agenda["loop"] = <<>> /\ todo["loop"] = {}
    /\ UNCHANGED <<up, status, signals, history, bus, clients, logged, bounds>>

\* Another goroutine has something to publish.
Other ==
    /\ up /\ others < MaxOthers /\ others' = others + 1
    /\ agenda["other"] = <<>> /\ todo["other"] = {}
    /\ agenda' = [agenda EXCEPT !["other"] = <<"Other">>]
    /\ UNCHANGED <<up, sampler, history, calls, clients, logged, samples, faults, crashes, streams>>

-----------------------------------------------------------------------------
(* events.Bus.                                                             *)

Transitional(s) == Selected(s, Transitions)

\* The subscribers are copied under the lock and called without it.
Publish(p) ==
    /\ p = "loop" => pc = "publish"
    /\ agenda[p] # <<>> /\ todo[p] = {}
    /\ todo' = [todo EXCEPT ![p] = {<<i, subscribers[i]>> : i \in DOMAIN subscribers}]
    /\ owed' = [s \in Stream |-> IF id[s] # 0 /\ s \notin lost
                                 THEN owed[s] \o Transitional(<<Head(agenda[p])>>) ELSE owed[s]]
    /\ UNCHANGED <<up, sampler, history, agenda, subscribers, nextID, id, queue, lost, logged, bounds>>

\* A full channel drops the event; a stream that was closed has nobody to read it.
Enqueue_Unchecked(i, s, e) ==
    /\ queue' = IF id[s] = i THEN [queue EXCEPT ![s] = Append(@, e)] ELSE queue
    /\ UNCHANGED <<owed, lost>>

Enqueue(i, s, e) ==
    \/ /\ id[s] # i
       /\ UNCHANGED <<queue, owed, lost>>
    \/ /\ id[s] = i /\ Len(queue[s]) < Queue
       /\ queue' = [queue EXCEPT ![s] = Append(@, e)]
       /\ UNCHANGED <<owed, lost>>
    \/ /\ id[s] = i /\ Len(queue[s]) >= Queue
       /\ lost' = lost \cup {s}
       /\ owed' = [owed EXCEPT ![s] = <<>>]
       /\ UNCHANGED queue

\* The logger ignores the error of a write that failed.  Its entry is missing, and
\* so may be the next one, which is joined to the half line it left.
WriteLog(e) ==
    \/ /\ log' = log \o Transitional(<<e>>)
       /\ UNCHANGED <<gaps, faults>>
    \/ /\ e \in Transitions /\ Fault
       /\ gaps' = gaps \cup {Len(log)}
       /\ UNCHANGED log

Deliver(p) ==
    /\ \E x \in todo[p] :
        /\ todo' = [todo EXCEPT ![p] = @ \ {x}]
        /\ agenda' = IF todo'[p] = {} THEN [agenda EXCEPT ![p] = Tail(@)] ELSE agenda
        /\ \/ /\ x[2] = Log
              /\ WriteLog(Head(agenda[p]))
              /\ UNCHANGED <<queue, owed, lost>>
           \/ /\ x[2] # Log
              /\ Enqueue(x[1], x[2], Head(agenda[p]))
              /\ UNCHANGED <<logged, faults>>
    /\ UNCHANGED <<up, sampler, history, subscribers, nextID, id, samples, crashes, others, streams>>

\* The log's file is emptied: by a request, or by a rotation that has archived it.
ClearLog ==
    /\ up /\ others < MaxOthers /\ others' = others + 1
    /\ log' = <<>> /\ gaps' = {0}
    /\ UNCHANGED <<up, sampler, history, bus, clients, samples, faults, crashes, streams>>

\* Identifiers are never used twice.
FreshID == nextID

Subscribe(s) ==
    /\ up /\ id[s] = 0
    /\ streams < MaxStreams /\ streams' = streams + 1
    /\ id' = [id EXCEPT ![s] = FreshID]
    /\ subscribers' = [i \in DOMAIN subscribers \cup {FreshID} |->
                        IF i = FreshID THEN s ELSE subscribers[i]]
    /\ nextID' = nextID + 1
    /\ UNCHANGED <<up, sampler, history, agenda, todo, queue, owed, lost, logged,
                   samples, faults, crashes, others>>

Removed_Newest(i) == nextID - 1

Removed(i) == i

Unsubscribe(s) ==
    /\ id[s] # 0
    /\ id' = [id EXCEPT ![s] = 0]
    /\ subscribers' = Restrict(subscribers, DOMAIN subscribers \ {Removed(id[s])})
    /\ queue' = [queue EXCEPT ![s] = <<>>]
    /\ owed' = [owed EXCEPT ![s] = <<>>]
    /\ lost' = lost \ {s}
    /\ UNCHANGED <<up, sampler, history, agenda, todo, nextID, logged, bounds>>

\* The stream writes the next event to its client.
Write(s) ==
    /\ id[s] # 0 /\ queue[s] # <<>>
    /\ queue' = [queue EXCEPT ![s] = Tail(@)]
    /\ owed' = IF s \notin lost /\ Head(queue[s]) \in Transitions
               THEN [owed EXCEPT ![s] = Tail(@)] ELSE owed
    /\ UNCHANGED <<up, sampler, history, agenda, bus, id, lost, logged, bounds>>

-----------------------------------------------------------------------------
(* The daemon's life.                                                      *)

\* A history that cannot be read is not taken for an empty one.
Load_Anyway(h) ==
    \/ h = file /\ UNCHANGED faults
    \/ h = <<>> /\ Fault

Load(h) == h = file /\ UNCHANGED faults

Start ==
    /\ ~up /\ up' = TRUE
    /\ \E h \in {file, <<>>} : Load(h) /\ attacks' = h
    /\ UNCHANGED <<sampler, file, bus, clients, logged, samples, crashes, others, streams>>

Crash ==
    /\ up /\ up' = FALSE
    /\ crashes < MaxCrashes /\ crashes' = crashes + 1
    /\ attacks' = <<>>
    /\ Reset
    /\ UNCHANGED <<file, samples, faults, others, streams>>

Next ==
    \/ Start \/ Crash
    \/ HandleSample \/ Record \/ HandleDetectorError \/ Return \/ Other \/ ClearLog
    \/ \E p \in Publisher : Publish(p) \/ Deliver(p)
    \/ \E s \in Stream : Subscribe(s) \/ Unsubscribe(s) \/ Write(s)

Spec == Init /\ [][Next]_vars

-----------------------------------------------------------------------------
(* Properties.                                                             *)

TypeOK ==
    /\ up \in BOOLEAN
    /\ status \in {"starting", "quiet", "under_attack"}
    /\ attacks \in Seq(Attack) /\ file \in Seq(Attack)
    /\ pc \in {"idle", "record", "publish"}
    /\ signals \subseteq Kind
    /\ agenda \in [Publisher -> Seq(Events)]
    /\ todo \in [Publisher -> SUBSET (Nat \X Subscriber)]
    /\ IsInjective(subscribers) /\ Range(subscribers) = {Log} \cup {s \in Stream : id[s] # 0}
    /\ nextID \in Nat
    /\ id \in [Stream -> Nat]
    /\ queue \in [Stream -> Seq(Events)] /\ \A s \in Stream : Len(queue[s]) <= Queue
    /\ log \in Seq(Transitions) /\ gaps \subseteq 0 .. Len(log)
    /\ samples \in Nat /\ faults \in Nat /\ crashes \in Nat /\ others \in Nat /\ streams \in Nat
    /\ owed \in [Stream -> Seq(Transitions)]
    /\ lost \subseteq Stream

\* The history never shows one attack twice: there is at most one active attack
\* of each kind, in memory and in the file, whatever was saved, lost in a crash
\* and loaded again.
OneActiveAttackPerKind ==
    OneActive(attacks) /\ OneActive(file)

\* What GET /stats and GET /attacks say agrees between two samples, also where
\* the history could not be saved: the daemon is under attack exactly if an
\* attack is active, and those are the attacks of the last sample.
HistoryMatchesStatus ==
    pc \in {"idle", "publish"} /\ status # "starting" =>
        /\ ActiveKinds(attacks) = signals
        /\ status = "under_attack" <=> Active(attacks) # {}

\* What the first n entries of the log say: a life begins without an attack.
SaysUnderAttack(n) == n > 0 /\ log[n] = "AttackDetected"

\* The log can be read as the status: each transition in it ends what the entries
\* before it say, and between samples it says how things are, unless just there a
\* transition is missing because its write failed or the file was emptied.
LogTellsTheStatus ==
    /\ \A n \in DOMAIN log :
          n - 1 \notin gaps => (log[n] = "AttackDetected" <=> ~SaysUnderAttack(n - 1))
    /\ pc = "idle" /\ Len(log) \notin gaps =>
          (status = "under_attack" <=> SaysUnderAttack(Len(log)))

\* A stream that never found its channel full has, in order and once, every
\* transition that was published since it was opened and that its client has not
\* read, whoever else comes and goes meanwhile.
StreamsMissNothing ==
    \A s \in Stream :
        id[s] # 0 /\ s \notin lost /\ <<id[s], s>> \notin todo["loop"] =>
            Transitional(queue[s]) = owed[s]

\* The history that survives is never rewritten: an attack that was saved stays
\* where it is, and once resolved at a time it stays so, through any number of
\* crashes and failing saves.
SavedHistoryStands ==
    [][\A i \in DOMAIN file :
          /\ i \in DOMAIN file'
          /\ file'[i].kind = file[i].kind /\ file'[i].start = file[i].start
          /\ file[i].end # 0 => file'[i].end = file[i].end]_vars
=============================================================================
