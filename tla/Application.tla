----------------------------- MODULE Application ------------------------------
(***************************************************************************)
(* The life of the daemon: Application.Run (app/app.go) binds the API's    *)
(* listener, starts the detector and the API server, waits for a signal or *)
(* a serving failure, and then drains the server, shuts the detector down, *)
(* records a last event and closes the log.  The detector is that of       *)
(* DetectorDaemon, used by one goroutine, run; the server is               *)
(* api.Server.StartListener and Shutdown (api/api.go).                     *)
(*                                                                         *)
(* Around it: signals at any time, a listener that fails, requests and     *)
(* event streams in flight, writes of the log that fail, a log that is     *)
(* cleared, and deadlines that expire at any moment.                       *)
(***************************************************************************)
EXTENDS Naturals, FiniteSets

CONSTANTS
    Request,    \* connections of API clients
    MaxCalls,   \* bound: calls to the detector
    MaxPanics   \* bound: panics of samples and handlers

ASSUME BoundsAssumption == MaxCalls \in Nat /\ MaxPanics \in Nat

VARIABLES
    running, stopping, done, handlers,      \* the detector
    cancelled, closed, reports, lpc,        \* its loops
    pc, aim, result, before,                \* run, as its user
    calls, panics, started,
    phase,      \* where Run is
    enabled,    \* Application.cfg.API.Enabled
    signalled,  \* the context of Run is done
    server,     \* the API server
    req,        \* what each connection is doing
    logOpen,    \* the log file is open
    errors,     \* what Run is going to return
    recorded,   \* the kinds of events in the log
    \* history, which no action of the code reads
    missing,    \* the kinds of events whose write failed or which were removed since
    late        \* an event was published after the last one

Detector == INSTANCE DetectorDaemon WITH User <- {"run"}

detector == <<running, stopping, done, handlers, cancelled, closed, reports, lpc,
              pc, aim, result, before, calls, panics, started>>
written  == <<recorded, missing, late>>
app      == <<phase, enabled, signalled, server, req, logOpen, errors, written>>
vars     == <<detector, app>>

Phases == {"new", "bind", "startDetector", "startApi", "announce", "serve", "stopApi", "drain",
           "stopDetector", "waitDetector", "farewell", "closeLog", "returned"}

Init ==
    /\ Detector!Init
    /\ phase = "new"
    /\ enabled \in BOOLEAN
    /\ signalled = FALSE
    /\ server = "none"
    /\ req = [r \in Request |-> "none"]
    /\ logOpen = TRUE
    /\ errors = {}
    /\ recorded = {} /\ missing = {}
    /\ late = FALSE

-----------------------------------------------------------------------------
Phase(from, to) == phase = from /\ phase' = to

\* The kinds of events that the log was given.
Logged == recorded \cup missing

\* The logger drops what comes after it was closed, and it ignores the error of a
\* write that failed.  The rotation before a write may remove the archive that has
\* the earlier entries.
WriteLog(kind) ==
    IF logOpen
    THEN \/ recorded' = recorded \cup {kind} /\ UNCHANGED missing
         \/ recorded' = {kind} /\ missing' = missing \cup recorded
         \/ missing' = missing \cup {kind} /\ UNCHANGED recorded
    ELSE UNCHANGED <<recorded, missing>>

\* The bus calls its subscribers in the publisher's goroutine.
Publish(kind) ==
    /\ WriteLog(kind)
    /\ late' = (late \/ "stopped" \in Logged)

ClearLog ==
    /\ recorded' = {} /\ missing' = missing \cup recorded
    /\ UNCHANGED late

(* Start-up.                                                               *)

NewApplication ==
    /\ Phase("new", "bind")
    /\ Detector!SetHandlers("run")
    /\ UNCHANGED <<enabled, signalled, server, req, logOpen, errors, written>>

Bind ==
    /\ Phase("bind", "startDetector")
    /\ server' = IF enabled THEN "bound" ELSE "none"
    /\ UNCHANGED <<detector, enabled, signalled, req, logOpen, errors, written>>

Abandon_Logging == UNCHANGED logOpen

Abandon == logOpen' = FALSE

BindFails ==
    /\ enabled
    /\ Phase("bind", "returned")
    /\ errors' = errors \cup {"bind"}
    /\ Abandon
    /\ UNCHANGED <<detector, enabled, signalled, server, req, written>>

StartDetector ==
    /\ Phase("startDetector", "startApi")
    /\ Detector!Start("run")
    /\ UNCHANGED <<enabled, signalled, server, req, logOpen, errors, written>>

StartListener ==
    /\ Phase("startApi", "announce")
    /\ server' = IF server = "bound" THEN "serving" ELSE server
    /\ UNCHANGED <<detector, enabled, signalled, req, logOpen, errors, written>>

Announce ==
    /\ Phase("announce", "serve")
    /\ Publish("started")
    /\ UNCHANGED <<detector, enabled, signalled, server, req, logOpen, errors>>

\* A signal or a serving failure ends it; where both are ready, either does.
Serve ==
    /\ Phase("serve", "stopApi")
    /\ \/ signalled /\ UNCHANGED errors
       \/ server = "failed" /\ errors' = errors \cup {"run"}
    /\ UNCHANGED <<detector, enabled, signalled, server, req, logOpen, written>>

-----------------------------------------------------------------------------
(* Shutdown.                                                               *)

\* A server that has stopped serving is not there any more: nothing is drained.
ShutdownApi ==
    /\ IF server = "serving"
       THEN Phase("stopApi", "drain") /\ server' = "closing"
       ELSE Phase("stopApi", "stopDetector") /\ UNCHANGED server
    /\ UNCHANGED <<detector, enabled, signalled, req, logOpen, errors, written>>

Idle == \A r \in Request : req[r] = "none"

Drained == Idle

Drain_Unreported ==
    /\ Phase("drain", "stopDetector")
    /\ UNCHANGED <<detector, enabled, signalled, server, req, logOpen, errors, written>>

Drain_NoDeadline ==
    /\ Phase("drain", "stopDetector")
    /\ Drained
    /\ UNCHANGED <<detector, enabled, signalled, server, req, logOpen, errors, written>>

Drain ==
    /\ Phase("drain", "stopDetector")
    /\ \/ Drained /\ UNCHANGED errors
       \/ errors' = errors \cup {"api"}     \* its 15 seconds are over
    /\ UNCHANGED <<detector, enabled, signalled, server, req, logOpen, written>>

ShutdownDetector ==
    /\ Phase("stopDetector", "waitDetector")
    /\ Detector!Shutdown("run")
    /\ UNCHANGED <<enabled, signalled, server, req, logOpen, errors, written>>

WaitForDetector ==
    /\ phase = "waitDetector"
    /\ \/ /\ Detector!Cancel("run")
          /\ UNCHANGED <<phase, errors>>
       \/ /\ Detector!Wait("run")
          /\ errors' = IF result'["run"] = "timedOut" THEN errors \cup {"detector"} ELSE errors
          /\ phase' = "farewell"
       \/ /\ pc["run"] = "idle"     \* it was not running
          /\ phase' = "farewell"
          /\ UNCHANGED <<detector, errors>>
    /\ UNCHANGED <<enabled, signalled, server, req, logOpen, written>>

Farewell_Unlogged ==
    /\ Phase("farewell", "closeLog")
    /\ logOpen' = FALSE
    /\ UNCHANGED <<detector, enabled, signalled, server, req, errors, written>>

Farewell ==
    /\ Phase("farewell", "closeLog")
    /\ Publish("stopped")
    /\ UNCHANGED <<detector, enabled, signalled, server, req, logOpen, errors>>

CloseLog ==
    /\ Phase("closeLog", "returned")
    /\ logOpen' = FALSE
    /\ UNCHANGED <<detector, enabled, signalled, server, req, errors, written>>

Run ==
    \/ NewApplication \/ Bind \/ BindFails \/ StartDetector \/ StartListener \/ Announce \/ Serve
    \/ ShutdownApi \/ Drain \/ ShutdownDetector \/ WaitForDetector \/ Farewell \/ CloseLog

-----------------------------------------------------------------------------
(* The goroutines beside it, until the process exits.                      *)

Alive == phase # "returned"

\* handleSample and handleDetectorError publish what the detector reports.
HandleSample ==
    /\ Alive
    /\ \E g \in Detector!Loop : Detector!Handle(g) \/ Detector!Recover(g)
    /\ Publish("detector")
    /\ UNCHANGED <<phase, enabled, signalled, server, req, logOpen, errors>>

DetectorLoop ==
    /\ Alive
    /\ \E g \in Detector!Loop :
        \/ Detector!Tick(g) \/ Detector!Cancelled(g) \/ Detector!Sample(g)
        \/ Detector!Panic(g) \/ Detector!End(g) \/ Detector!Close(g)
    /\ UNCHANGED app

\* Connections outlive the listener: only Shutdown turns them away.
Accept(r) ==
    /\ Alive
    /\ server \in {"serving", "failed"}
    /\ req[r] = "none"
    /\ \E k \in {"call", "stream"} : req' = [req EXCEPT ![r] = k]
    /\ UNCHANGED <<detector, phase, enabled, signalled, server, logOpen, errors, written>>

\* A call is answered; one that changes the configuration publishes an event, and
\* one clears the log.  An event stream ends when its client leaves.
Respond(r) ==
    /\ Alive
    /\ req[r] # "none"
    /\ req' = [req EXCEPT ![r] = "none"]
    /\ \/ req[r] = "call" /\ (Publish("configuration") \/ ClearLog)
       \/ UNCHANGED written
    /\ UNCHANGED <<detector, phase, enabled, signalled, server, logOpen, errors>>

ServeFails ==
    /\ Alive
    /\ server = "serving"
    /\ server' = "failed"
    /\ UNCHANGED <<detector, phase, enabled, signalled, req, logOpen, errors, written>>

Signal ==
    /\ Alive
    /\ ~signalled
    /\ signalled' = TRUE
    /\ UNCHANGED <<detector, phase, enabled, server, req, logOpen, errors, written>>

Next ==
    \/ Run
    \/ HandleSample \/ DetectorLoop
    \/ \E r \in Request : Accept(r) \/ Respond(r)
    \/ ServeFails \/ Signal

Spec == Init /\ [][Next]_vars

\* Run goes on; its waits have deadlines.  Nothing is asked of the detector's
\* loop, of clients or of requests.
FairSpec == Spec /\ WF_vars(Run)

-----------------------------------------------------------------------------
(* Properties.                                                             *)

TypeOK ==
    /\ Detector!TypeOK
    /\ phase \in Phases
    /\ enabled \in BOOLEAN /\ signalled \in BOOLEAN
    /\ server \in {"none", "bound", "serving", "failed", "closing"}
    /\ req \in [Request -> {"none", "call", "stream"}]
    /\ logOpen \in BOOLEAN /\ (phase = "returned" => ~logOpen)
    /\ errors \subseteq {"bind", "run", "api", "detector"}
    /\ Logged \subseteq {"started", "stopped", "detector", "configuration"}
    /\ late \in BOOLEAN

\* A shutdown that reports no error of a server that has served to the end had the
\* last word: nothing is published behind RuntimeStopped, for no request and no
\* sample is at work any more that could publish an event, or have one dropped.
\* Where serving failed nothing was drained (RequestsAreDrained): a request may
\* publish then.
CleanShutdownHasTheLastWord ==
    errors = {} /\ server # "failed" => ~late

\* A daemon that served gave its start and its end to a log that was open, however
\* it ended: when it exits each is in the log or its archives, unless just its
\* write failed or it was cleared or expired since.
LifeIsRecorded ==
    phase = "returned" /\ "bind" \notin errors => {"started", "stopped"} \subseteq Logged

\* "API requests are drained, the detector is stopped" (docs/architecture.md:36):
\* unless the draining timed out, no request is in flight when the detector is
\* stopped.
RequestsAreDrained ==
    phase \in {"stopDetector", "waitDetector", "farewell", "closeLog"} /\ "api" \notin errors
        => Idle

\* Once signalled, or when the API fails, the daemon exits, whatever requests,
\* samples and their handlers do.
EveryRunEnds ==
    (signalled \/ server = "failed") ~> phase = "returned"
=============================================================================
