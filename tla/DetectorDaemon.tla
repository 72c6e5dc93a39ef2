---------------------------- MODULE DetectorDaemon ----------------------------
(***************************************************************************)
(* The life cycle of detector.Daemon (detector/daemon.go): goroutines that *)
(* start it, stop it, shut it down and connect handlers to it, and the     *)
(* sampling loops it starts, each with a context and a done channel of its *)
(* own.  What runs under Daemon.mu is one step; what a goroutine does      *)
(* after it released the mutex, cancelling a context or waiting for a      *)
(* channel, is a step of its own.                                          *)
(*                                                                         *)
(* Around it: samples that fail, samples and handlers that panic, handlers *)
(* that take their time, and timers that expire at any moment.             *)
(***************************************************************************)
EXTENDS Naturals, FiniteSets

CONSTANTS
    User,       \* goroutines that use the daemon
    MaxCalls,   \* bound: calls to the daemon
    MaxPanics   \* bound: panics of samples and handlers

ASSUME BoundsAssumption == MaxCalls \in Nat /\ MaxPanics \in Nat

\* The loops the daemon may start, in their order; 0 is none.
Loop == 1 .. MaxCalls

VARIABLES
    running, stopping,  \* Daemon.running, Daemon.stopping
    done,       \* Daemon.done: the loop started last
    handlers,   \* Daemon.onSample and onError are set
    cancelled,  \* loops whose context is done
    closed,     \* loops whose done channel is closed
    reports,    \* loops that were started with handlers
    lpc,        \* where each loop is
    pc,         \* where each user is
    aim,        \* the loop a user cancels and waits for
    result,     \* what a user's last call returned
    \* bounds and history, which no action of the code reads
    calls, panics,
    started,    \* the answer of the last Start still stands: nobody stopped it since
    before      \* the loops there were when a user called

daemon == <<running, stopping, done, handlers>>
loops  == <<cancelled, closed, reports, lpc>>
users  == <<pc, aim, result, before>>
vars   == <<daemon, loops, users, calls, panics, started>>

\* A loop holds the daemon until it has told it that it ended.
Alive == {"select", "sample", "handle", "recover", "end"}
LoopSteps == {"none", "close", "gone"} \cup Alive
Steps == {"idle", "stop", "shutdown", "wait"}
Results == {"none", "ok", "refused", "timedOut"}

Init ==
    /\ running = FALSE /\ stopping = FALSE /\ done = 0 /\ handlers = FALSE
    /\ cancelled = {} /\ closed = {} /\ reports = {}
    /\ lpc = [g \in Loop |-> "none"]
    /\ pc = [u \in User |-> "idle"]
    /\ aim = [u \in User |-> 0]
    /\ result = [u \in User |-> "none"]
    /\ calls = 0 /\ panics = 0
    /\ started = FALSE
    /\ before = [u \in User |-> 0]

-----------------------------------------------------------------------------
(* The calls.                                                              *)

Call(u) ==
    /\ pc[u] = "idle"
    /\ calls < MaxCalls /\ calls' = calls + 1
    /\ before' = [before EXCEPT ![u] = done]
    /\ UNCHANGED panics

Answer(u, r) == result' = [result EXCEPT ![u] = r]

SetHandlers(u) ==
    /\ Call(u)
    /\ IF running \/ stopping
       THEN Answer(u, "refused") /\ UNCHANGED handlers
       ELSE Answer(u, "ok") /\ handlers' = TRUE
    /\ UNCHANGED <<running, stopping, done, loops, pc, aim, started>>

\* A new loop, unless there is one.
Begin ==
    /\ running' = TRUE
    /\ done' = done + 1
    /\ lpc' = [lpc EXCEPT ![done + 1] = "select"]
    /\ reports' = IF handlers THEN reports \cup {done + 1} ELSE reports
    /\ UNCHANGED <<stopping, handlers, cancelled, closed>>

MayBegin_Stopping == ~running \/ stopping

MayBegin == ~running

\* running is tested before stopping, so that a daemon that is stopping answers
\* as one that is running; the refusal of a daemon that is stopping and not
\* running is never reached (FlagsTellTheTruth).
Start(u) ==
    /\ Call(u)
    /\ \/ /\ MayBegin
          /\ Begin
          /\ Answer(u, "ok")
          /\ started' = TRUE
       \/ /\ ~MayBegin
          /\ Answer(u, "ok")
          /\ started' = TRUE
          /\ UNCHANGED <<daemon, loops>>
    /\ UNCHANGED <<pc, aim>>

\* Stop asks for the end of the loop.
Stop(u) ==
    /\ Call(u)
    /\ IF running /\ ~stopping
       THEN /\ stopping' = TRUE
            /\ aim' = [aim EXCEPT ![u] = done]
            /\ pc' = [pc EXCEPT ![u] = "stop"]
            /\ UNCHANGED result
       ELSE Answer(u, "ok") /\ UNCHANGED <<stopping, aim, pc>>
    /\ started' = FALSE
    /\ UNCHANGED <<running, done, handlers, loops>>

\* Shutdown also waits for it, whoever asked for the end first.
MayWait_Unchecked == TRUE

MayWait_Once == running /\ ~stopping

MayWait == running

Shutdown(u) ==
    /\ Call(u)
    /\ IF MayWait
       THEN /\ stopping' = TRUE
            /\ aim' = [aim EXCEPT ![u] = done]
            /\ pc' = [pc EXCEPT ![u] = "shutdown"]
            /\ UNCHANGED result
       ELSE Answer(u, "ok") /\ UNCHANGED <<stopping, aim, pc>>
    /\ started' = FALSE
    /\ UNCHANGED <<running, done, handlers, loops>>

\* cancel(), with Daemon.mu released.
Cancelling_Forgotten(u) == UNCHANGED cancelled

Cancelling(u) == cancelled' = cancelled \cup {aim[u]}

Cancel(u) ==
    /\ \/ /\ pc[u] = "stop"
          /\ pc' = [pc EXCEPT ![u] = "idle"]
          /\ Answer(u, "ok")
       \/ /\ pc[u] = "shutdown"
          /\ pc' = [pc EXCEPT ![u] = "wait"]
          /\ UNCHANGED result
    /\ Cancelling(u)
    /\ UNCHANGED <<daemon, closed, reports, lpc, aim, before, calls, panics, started>>

Wait(u) ==
    /\ pc[u] = "wait"
    /\ pc' = [pc EXCEPT ![u] = "idle"]
    /\ \/ aim[u] \in closed /\ Answer(u, "ok")
       \/ Answer(u, "timedOut")
    /\ UNCHANGED <<daemon, loops, aim, before, calls, panics, started>>

-----------------------------------------------------------------------------
(* The loop.                                                               *)

Move(g, from, to) == lpc[g] = from /\ lpc' = [lpc EXCEPT ![g] = to]

Still == UNCHANGED <<daemon, cancelled, closed, reports, users, calls>>

Tick(g) == Move(g, "select", "sample") /\ Still /\ UNCHANGED <<panics, started>>

Cancelled(g) ==
    /\ g \in cancelled
    /\ Move(g, "select", "end")
    /\ Still /\ UNCHANGED <<panics, started>>

\* A sample or a sampling error goes to its handler, where there is one; an
\* error of a cancelled loop is taken for its end.
Sample(g) ==
    /\ \/ Move(g, "sample", IF g \in reports THEN "handle" ELSE "select")
       \/ g \in cancelled /\ Move(g, "sample", "end")
    /\ Still /\ UNCHANGED <<panics, started>>

Handle(g) == Move(g, "handle", "select") /\ Still /\ UNCHANGED <<panics, started>>

\* A panic ends the loop for good, once it has been reported.
Panic(g) ==
    /\ lpc[g] \in {"sample", "handle"}
    /\ Move(g, lpc[g], IF g \in reports THEN "recover" ELSE "end")
    /\ panics < MaxPanics /\ panics' = panics + 1
    /\ started' = FALSE
    /\ Still

Recover(g) == Move(g, "recover", "end") /\ Still /\ UNCHANGED <<panics, started>>

\* The deferred function: the daemon can be started again, then those who wait
\* are told.
End(g) ==
    /\ Move(g, "end", "close")
    /\ IF done = g THEN running' = FALSE /\ stopping' = FALSE
                   ELSE UNCHANGED <<running, stopping>>
    /\ UNCHANGED <<done, handlers, cancelled, closed, reports, users, calls, panics, started>>

Close(g) ==
    /\ Move(g, "close", "gone")
    /\ closed' = closed \cup {g}
    /\ UNCHANGED <<daemon, cancelled, reports, users, calls, panics, started>>

Run(g) == Sample(g) \/ Handle(g) \/ Recover(g) \/ End(g) \/ Close(g)

-----------------------------------------------------------------------------
Next ==
    \/ \E u \in User :
        SetHandlers(u) \/ Start(u) \/ Stop(u) \/ Shutdown(u) \/ Cancel(u) \/ Wait(u)
    \/ \E g \in Loop : Tick(g) \/ Cancelled(g) \/ Panic(g) \/ Run(g)

Spec == Init /\ [][Next]_vars

\* Goroutines go on, samples and handlers return, and a select with two ready
\* cases does not choose the ticker for ever.
Fairness ==
    /\ \A u \in User : WF_vars(Cancel(u))
    /\ \A g \in Loop : WF_vars(Run(g)) /\ SF_vars(Cancelled(g))

FairSpec == Spec /\ Fairness

-----------------------------------------------------------------------------
(* Properties.                                                             *)

TypeOK ==
    /\ running \in BOOLEAN /\ stopping \in BOOLEAN /\ handlers \in BOOLEAN
    /\ done \in 0 .. calls
    /\ cancelled \subseteq Loop /\ closed \subseteq Loop /\ reports \subseteq Loop
    /\ lpc \in [Loop -> LoopSteps]
    /\ pc \in [User -> Steps]
    /\ aim \in [User -> 0 .. MaxCalls]
    /\ \A u \in User : pc[u] # "idle" => aim[u] # 0
    /\ result \in [User -> Results]
    /\ calls \in 0 .. MaxCalls /\ panics \in 0 .. MaxPanics
    /\ started \in BOOLEAN
    /\ before \in [User -> 0 .. MaxCalls]

\* The flags tell the truth about the loops, through starts, stops, panics and
\* shutdowns that gave up: there is at most one loop that samples or handles,
\* it is the one started last, and running says whether there is one.  A loop
\* whose context is done is one the daemon knows to be stopping.
FlagsTellTheTruth ==
    /\ \A g \in Loop : lpc[g] \in Alive <=> running /\ g = done
    /\ stopping => running
    /\ running /\ done \in cancelled => stopping

\* Once Shutdown has answered without an error no loop from before its call
\* samples or calls a handler any more, whatever other users do: its caller may
\* close what the handlers use (app.go:282-284).
ShutdownIsQuiet ==
    [][\A u \in User :
          (\/ Shutdown(u) /\ result'[u] = "ok" /\ pc'[u] = "idle"
           \/ Wait(u) /\ result'[u] = "ok")
          => \A g \in 1 .. before'[u] : lpc'[g] \notin Alive]_vars

\* "Start begins the sampling loop" (daemon.go:51): once it has answered without
\* an error the daemon samples, until somebody stops it or a sample panics.
StartedIsRunning == started => running /\ ~stopping

\* A loop that was asked to end does, and the daemon can be started again.
StoppingEnds == stopping ~> ~running
=============================================================================
