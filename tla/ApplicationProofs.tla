-------------------------- MODULE ApplicationProofs ---------------------------
(***************************************************************************)
(* Theorems about Application for any number of connections, panics and    *)
(* detector calls.  They rest on the detector's own theorems, used here for *)
(* its one user: D is DetectorDaemonProofs with run as that user, and each  *)
(* step of the application is a step of D or leaves the detector alone.    *)
(***************************************************************************)
EXTENDS Application, TLAPS

D == INSTANCE DetectorDaemonProofs WITH User <- {"run"}

Serving == {"serve", "stopApi", "drain", "stopDetector", "waitDetector", "farewell", "closeLog"}
Stopping == {"stopDetector", "waitDetector", "farewell", "closeLog", "returned"}

\* The log is open until Run returns, and is given the start and the end of what
\* was served.
Life ==
    /\ logOpen <=> phase # "returned"
    /\ phase \in Serving => "started" \in Logged
    /\ phase = "closeLog" => "stopped" \in Logged
    /\ LifeIsRecorded
    /\ "stopped" \in Logged => phase \in {"closeLog", "returned"}
    /\ late => "stopped" \in Logged

\* A server is bound, serves and is closed in this order, and after its draining
\* in time no connection is left.
Connections ==
    /\ phase \in {"new", "bind"} => server = "none"
    /\ phase \in {"startDetector", "startApi"} => server \in {"none", "bound"}
    /\ phase \in Serving \cup {"announce"} => server # "bound"
    /\ phase = "drain" => server = "closing"
    /\ server = "closing" => phase \in Stopping \cup {"drain"}
    /\ phase \in Stopping => server \in {"none", "failed", "closing"}
    /\ server \in {"none", "bound"} => Idle
    /\ phase \in Stopping /\ server = "closing" /\ "api" \notin errors => Idle

\* Run waits for the loop that was started last, and goes on without an error
\* when none is running.
LoopEnds ==
    /\ pc["run"] # "stop"
    /\ phase = "waitDetector" =>
          IF pc["run"] = "idle" THEN ~running ELSE aim["run"] = done
    /\ phase \in {"farewell", "closeLog"} /\ "detector" \notin errors => ~running

Inv == D!Inv /\ TypeOK /\ Life /\ Connections /\ LoopEnds /\ CleanShutdownHasTheLastWord

-----------------------------------------------------------------------------
(* The detector's part of a step.                                          *)

DetectorCall ==
    \/ Detector!SetHandlers("run") \/ Detector!Start("run") \/ Detector!Shutdown("run")
    \/ Detector!Cancel("run") \/ Detector!Wait("run")

LoopStep ==
    \E g \in Detector!Loop :
        \/ Detector!Tick(g) \/ Detector!Cancelled(g) \/ Detector!Sample(g) \/ Detector!Handle(g)
        \/ Detector!Recover(g) \/ Detector!Panic(g) \/ Detector!End(g) \/ Detector!Close(g)

\* What the application does to its detector is what a user named run does.
LEMMA CallOfTheDetector == DetectorCall => D!Next
<1>1. Detector!SetHandlers("run") => D!SetHandlers("run")
  BY DEF Detector!SetHandlers, D!SetHandlers, Detector!Call, D!Call, Detector!Answer, D!Answer,
         Detector!loops, D!loops
<1>2. Detector!Start("run") => D!Start("run")
  BY DEF Detector!Start, D!Start, Detector!Call, D!Call, Detector!MayBegin, D!MayBegin,
         Detector!Begin, D!Begin, Detector!Answer, D!Answer, Detector!daemon, D!daemon,
         Detector!loops, D!loops
<1>3. Detector!Shutdown("run") => D!Shutdown("run")
  BY DEF Detector!Shutdown, D!Shutdown, Detector!Call, D!Call, Detector!MayWait, D!MayWait,
         Detector!Answer, D!Answer, Detector!loops, D!loops
<1>4. Detector!Cancel("run") => D!Cancel("run")
  BY DEF Detector!Cancel, D!Cancel, Detector!Cancelling, D!Cancelling, Detector!Answer, D!Answer,
         Detector!daemon, D!daemon
<1>5. Detector!Wait("run") => D!Wait("run")
  BY DEF Detector!Wait, D!Wait, Detector!Answer, D!Answer, Detector!daemon, D!daemon,
         Detector!loops, D!loops
<1> QED
  BY <1>1, <1>2, <1>3, <1>4, <1>5 DEF DetectorCall, D!Next

LEMMA StepOfALoop == LoopStep => D!Next
<1> SUFFICES ASSUME NEW g \in Detector!Loop,
                    \/ Detector!Tick(g) \/ Detector!Cancelled(g) \/ Detector!Sample(g)
                    \/ Detector!Handle(g) \/ Detector!Recover(g) \/ Detector!Panic(g)
                    \/ Detector!End(g) \/ Detector!Close(g)
             PROVE  D!Next
  BY DEF LoopStep
<1>1. g \in D!Loop
  BY DEF Detector!Loop, D!Loop
<1>2. Detector!Tick(g) => D!Tick(g)
  BY DEF Detector!Tick, D!Tick, Detector!Move, D!Move, Detector!Still, D!Still,
         Detector!daemon, D!daemon, Detector!users, D!users
<1>3. Detector!Cancelled(g) => D!Cancelled(g)
  BY DEF Detector!Cancelled, D!Cancelled, Detector!Move, D!Move, Detector!Still, D!Still,
         Detector!daemon, D!daemon, Detector!users, D!users
<1>4. Detector!Sample(g) => D!Sample(g)
  BY DEF Detector!Sample, D!Sample, Detector!Move, D!Move, Detector!Still, D!Still,
         Detector!daemon, D!daemon, Detector!users, D!users
<1>5. Detector!Handle(g) => D!Handle(g)
  BY DEF Detector!Handle, D!Handle, Detector!Move, D!Move, Detector!Still, D!Still,
         Detector!daemon, D!daemon, Detector!users, D!users
<1>6. Detector!Recover(g) => D!Recover(g)
  BY DEF Detector!Recover, D!Recover, Detector!Move, D!Move, Detector!Still, D!Still,
         Detector!daemon, D!daemon, Detector!users, D!users
<1>7. Detector!Panic(g) => D!Panic(g)
  BY DEF Detector!Panic, D!Panic, Detector!Move, D!Move, Detector!Still, D!Still,
         Detector!daemon, D!daemon, Detector!users, D!users
<1>8. Detector!End(g) => D!End(g)
  BY DEF Detector!End, D!End, Detector!Move, D!Move, Detector!users, D!users
<1>9. Detector!Close(g) => D!Close(g)
  BY DEF Detector!Close, D!Close, Detector!Move, D!Move, Detector!daemon, D!daemon,
         Detector!users, D!users
<1> QED
  BY <1>1, <1>2, <1>3, <1>4, <1>5, <1>6, <1>7, <1>8, <1>9 DEF D!Next, D!Run

LEMMA DetectorInv ==
    ASSUME Inv, DetectorCall \/ LoopStep \/ UNCHANGED detector
    PROVE  D!Inv' /\ Detector!TypeOK'
<1>1. D!Inv /\ [D!Next]_(D!vars) => D!Inv'
  BY BoundsAssumption, D!StepInv
<1>2. UNCHANGED detector => UNCHANGED D!vars
  BY DEF detector, D!vars, D!daemon, D!loops, D!users
<1>3. D!Inv'
  BY <1>1, <1>2, CallOfTheDetector, StepOfALoop DEF Inv
<1>4. D!TypeOK' => Detector!TypeOK'
  BY DEF D!TypeOK, Detector!TypeOK, D!Loop, Detector!Loop, D!LoopSteps, Detector!LoopSteps,
         D!Alive, Detector!Alive, D!Steps, Detector!Steps, D!Results, Detector!Results
<1> QED
  BY <1>3, <1>4 DEF D!Inv

\* A loop never makes the daemon run, nor moves its user.
LEMMA LoopsOnlyEnd ==
    ASSUME LoopStep
    PROVE  UNCHANGED <<pc, aim, done>> /\ (running' => running)
  BY DEF LoopStep, Detector!Tick, Detector!Cancelled, Detector!Sample, Detector!Handle,
         Detector!Recover, Detector!Panic, Detector!End, Detector!Close, Detector!Still,
         Detector!daemon, Detector!users

\* A loop that calls a handler is the one that runs.
LEMMA HandlersRun ==
    ASSUME Inv, NEW g \in Detector!Loop, Detector!Handle(g) \/ Detector!Recover(g)
    PROVE  running
<1>1. lpc[g] \in {"handle", "recover"}
  BY DEF Detector!Handle, Detector!Recover, Detector!Move
<1>2. g \in D!Loop /\ lpc[g] \in D!Alive
  BY <1>1 DEF Detector!Loop, D!Loop, D!Alive
<1> QED
  BY <1>2 DEF Inv, D!Inv, D!FlagsTellTheTruth

-----------------------------------------------------------------------------
(* The invariant.                                                          *)

LEMMA InitInv == Init => Inv
<1> SUFFICES ASSUME Init PROVE Inv
  OBVIOUS
<1>1. Detector!Init => D!Init
  BY DEF Detector!Init, D!Init, Detector!Loop, D!Loop
<1>2. D!Inv
  BY <1>1, BoundsAssumption, D!InitInv DEF Init
<1>3. Detector!TypeOK
  BY <1>2 DEF D!Inv, D!TypeOK, Detector!TypeOK, D!Loop, Detector!Loop, D!LoopSteps,
              Detector!LoopSteps, D!Alive, Detector!Alive, D!Steps, Detector!Steps, D!Results,
              Detector!Results
<1>4. TypeOK
  BY <1>3 DEF Init, TypeOK, Phases, Logged
<1>5. pc["run"] # "stop"
  BY DEF Init, Detector!Init
<1> QED
  BY <1>2, <1>4, <1>5 DEF Inv, Init, Life, LifeIsRecorded, Logged, Connections, Idle, LoopEnds, Serving,
                    Stopping, CleanShutdownHasTheLastWord

\* What an event does to the log and to the order of its last two kinds.
LEMMA PublishInv ==
    ASSUME Inv, NEW kind \in {"started", "stopped", "detector", "configuration"}, Publish(kind)
    PROVE  /\ Logged' \subseteq {"started", "stopped", "detector", "configuration"}
           /\ late' \in BOOLEAN
           /\ Logged \subseteq Logged'
           /\ kind # "stopped" /\ "stopped" \in Logged' => "stopped" \in Logged
           /\ late' => late \/ "stopped" \in Logged
           /\ logOpen => kind \in Logged'
  BY DEF Inv, TypeOK, Publish, WriteLog, Logged

\* Run's steps that leave the detector alone.
LEMMA RunInv ==
    ASSUME Inv,
           \/ Bind \/ BindFails \/ StartListener \/ Announce \/ Serve \/ ShutdownApi
           \/ Drain \/ Farewell \/ CloseLog
    PROVE  Inv'
<1>1. UNCHANGED detector
  BY DEF Bind, BindFails, StartListener, Announce, Serve, ShutdownApi, Drain, Farewell, CloseLog
<1>2. D!Inv' /\ Detector!TypeOK'
  BY <1>1, DetectorInv
<1>3. UNCHANGED <<running, done, pc, aim>>
  BY <1>1 DEF detector
<1>a. UNCHANGED <<recorded, missing>> => Logged' = Logged
  BY DEF Logged
<1> USE <1>2, <1>3, <1>a DEF Inv, written, TypeOK, Phases, Life, LifeIsRecorded, Connections, Idle, LoopEnds, Serving,
        Stopping, CleanShutdownHasTheLastWord, Phase
<1>4. CASE Bind
  BY <1>4 DEF Bind
<1>5. CASE BindFails
  BY <1>5 DEF BindFails, Abandon
<1>6. CASE StartListener
  BY <1>6 DEF StartListener
<1>7. CASE Announce
  BY <1>7, PublishInv DEF Announce
<1>8. CASE Serve
  BY <1>8 DEF Serve
<1>9. CASE ShutdownApi
  BY <1>9 DEF ShutdownApi
<1>10. CASE Drain
  BY <1>10 DEF Drain, Drained
<1>11. CASE Farewell
  BY <1>11, PublishInv DEF Farewell
<1>12. CASE CloseLog
  BY <1>12 DEF CloseLog
<1> QED
  BY <1>4, <1>5, <1>6, <1>7, <1>8, <1>9, <1>10, <1>11, <1>12

\* Run's calls to the detector.
LEMMA NewApplicationInv == ASSUME Inv, NewApplication PROVE Inv'
<1>1. D!Inv' /\ Detector!TypeOK' /\ pc' = pc
  BY DetectorInv DEF NewApplication, DetectorCall, Detector!SetHandlers
<1> QED
  BY <1>1 DEF NewApplication, Phase, Inv, TypeOK, Phases, Life, LifeIsRecorded, Logged, written, Connections, Idle,
              LoopEnds, Serving, Stopping, CleanShutdownHasTheLastWord

LEMMA StartDetectorInv == ASSUME Inv, StartDetector PROVE Inv'
<1>1. D!Inv' /\ Detector!TypeOK' /\ pc' = pc
  BY DetectorInv DEF StartDetector, DetectorCall, Detector!Start
<1> QED
  BY <1>1 DEF StartDetector, Phase, Inv, TypeOK, Phases, Life, LifeIsRecorded, Logged, written, Connections, Idle,
              LoopEnds, Serving, Stopping, CleanShutdownHasTheLastWord

\* Shutdown finds no loop, or aims at the one that runs.
LEMMA ShutdownDetectorInv == ASSUME Inv, ShutdownDetector PROVE Inv'
<1>1. D!Inv' /\ Detector!TypeOK'
  BY DetectorInv DEF ShutdownDetector, DetectorCall
<1>2. /\ pc'["run"] # "stop"
      /\ IF pc'["run"] = "idle" THEN ~running' ELSE aim'["run"] = done'
  BY DEF ShutdownDetector, Detector!Shutdown, Detector!Call, Detector!MayWait, Inv, TypeOK,
         Detector!TypeOK
<1> QED
  BY <1>1, <1>2 DEF ShutdownDetector, Phase, Inv, TypeOK, Phases, Life, LifeIsRecorded, Logged, written, Connections,
                    Idle, LoopEnds, Serving, Stopping, CleanShutdownHasTheLastWord

\* When the wait ends in time the loop is gone, and no other was started.
LEMMA WaitForDetectorInv == ASSUME Inv, WaitForDetector PROVE Inv'
<1>1. D!Inv' /\ Detector!TypeOK'
  BY DetectorInv DEF WaitForDetector, DetectorCall
<1>2. phase = "waitDetector" /\ UNCHANGED <<enabled, signalled, server, req, logOpen, recorded, missing, late>>
  BY DEF WaitForDetector, written
<1>3. LoopEnds' /\ phase' \in {"waitDetector", "farewell"}
      /\ errors' \in {errors, errors \cup {"detector"}}
  <2>1. CASE Detector!Cancel("run") /\ UNCHANGED <<phase, errors>>
    <3>1. pc["run"] = "shutdown" /\ UNCHANGED <<running, done, aim>>
      BY <2>1 DEF Detector!Cancel, Detector!daemon, Inv, LoopEnds
    <3>2. aim["run"] = done
      BY <1>2, <3>1 DEF Inv, LoopEnds
    <3>3. pc'["run"] = "wait"
      BY <2>1, <3>1 DEF Detector!Cancel, Inv, TypeOK, Detector!TypeOK
    <3> QED
      BY <1>2, <2>1, <3>1, <3>2, <3>3 DEF LoopEnds
  <2>2. CASE /\ Detector!Wait("run")
             /\ errors' = IF result'["run"] = "timedOut" THEN errors \cup {"detector"} ELSE errors
             /\ phase' = "farewell"
    <3>1. "detector" \notin errors' => result'["run"] # "timedOut"
      BY <2>2
    <3>2. result'["run"] # "timedOut" => aim["run"] \in closed
      BY <2>2 DEF Detector!Wait, Detector!Answer, Inv, TypeOK, Detector!TypeOK
    <3>3. aim["run"] = done
      BY <1>2, <2>2 DEF Inv, LoopEnds, Detector!Wait
    <3>4. aim["run"] \in closed => ~running
      BY <3>3 DEF Inv, D!Inv, D!TypeOK, D!Tracks, D!FlagsTellTheTruth, D!Alive
    <3>5. running' = running /\ pc'["run"] = "idle"
      BY <2>2 DEF Detector!Wait, Detector!daemon, Inv, TypeOK, Detector!TypeOK
    <3> QED
      BY <2>2, <3>1, <3>2, <3>4, <3>5 DEF LoopEnds
  <2>3. CASE pc["run"] = "idle" /\ phase' = "farewell" /\ UNCHANGED <<detector, errors>>
    BY <1>2, <2>3 DEF detector, Inv, LoopEnds
  <2> QED
    BY <2>1, <2>2, <2>3 DEF WaitForDetector
<1> QED
  BY <1>1, <1>2, <1>3 DEF Inv, TypeOK, Phases, Life, LifeIsRecorded, Logged, Connections, Idle,
                          Serving, Stopping, CleanShutdownHasTheLastWord

-----------------------------------------------------------------------------
\* The goroutines beside Run: those that publish do so before the last event, or
\* after a shutdown that gave up on them.
LEMMA HandleSampleInv == ASSUME Inv, HandleSample PROVE Inv'
<1>1. PICK g \in Detector!Loop : Detector!Handle(g) \/ Detector!Recover(g)
  BY DEF HandleSample
<1>2. LoopStep
  BY <1>1 DEF LoopStep
<1>3. D!Inv' /\ Detector!TypeOK'
  BY <1>2, DetectorInv
<1>4. running
  BY <1>1, HandlersRun
<1>5. Publish("detector")
      /\ UNCHANGED <<phase, enabled, signalled, server, req, logOpen, errors>>
  BY DEF HandleSample
<1>6. phase # "returned"
  BY DEF HandleSample, Alive
<1> QED
  BY <1>2, <1>3, <1>4, <1>5, <1>6, PublishInv, LoopsOnlyEnd
     DEF Inv, TypeOK, Life, LifeIsRecorded, Connections, Idle, LoopEnds, Serving, Stopping,
         CleanShutdownHasTheLastWord

LEMMA DetectorLoopInv == ASSUME Inv, DetectorLoop PROVE Inv'
<1>1. LoopStep
  BY DEF DetectorLoop, LoopStep
<1>2. D!Inv' /\ Detector!TypeOK'
  BY <1>1, DetectorInv
<1>3. UNCHANGED app
  BY DEF DetectorLoop
<1> QED
  BY <1>1, <1>2, <1>3, LoopsOnlyEnd
     DEF app, written, Logged, Inv, TypeOK, Life, LifeIsRecorded, Connections, Idle, LoopEnds,
         Serving, Stopping, CleanShutdownHasTheLastWord

LEMMA ConnectionInv ==
    ASSUME Inv, NEW r \in Request, Accept(r) \/ Respond(r)
    PROVE  Inv'
<1>1. D!Inv' /\ Detector!TypeOK' /\ UNCHANGED <<running, done, pc, aim>>
  <2>1. UNCHANGED detector
    BY DEF Accept, Respond
  <2> QED
    BY <2>1, DetectorInv DEF detector
<1>a. UNCHANGED <<recorded, missing>> \/ ClearLog => Logged' = Logged
  BY DEF Logged, ClearLog
<1> USE <1>1, <1>a DEF Inv, TypeOK, Life, LifeIsRecorded, Connections, Idle, LoopEnds, Serving, Stopping,
        CleanShutdownHasTheLastWord, Alive, written
<1>2. CASE Accept(r)
  BY <1>2 DEF Accept
<1>3. CASE Respond(r) /\ Publish("configuration")
  BY <1>3, PublishInv DEF Respond
<1>4. CASE Respond(r) /\ ClearLog
  <2>1. UNCHANGED late /\ Logged' = Logged
    BY <1>4 DEF ClearLog
  <2> QED BY <1>4, <2>1 DEF Respond
<1>5. CASE Respond(r) /\ UNCHANGED written
  BY <1>5 DEF Respond
<1> QED
  BY <1>2, <1>3, <1>4, <1>5 DEF Respond

LEMMA OutsideInv == ASSUME Inv, ServeFails \/ Signal \/ UNCHANGED vars PROVE Inv'
<1>1. D!Inv' /\ Detector!TypeOK' /\ UNCHANGED <<running, done, pc, aim>>
  <2>1. UNCHANGED detector
    BY DEF ServeFails, Signal, vars
  <2> QED
    BY <2>1, DetectorInv DEF detector
<1>a. UNCHANGED <<recorded, missing>> => Logged' = Logged
  BY DEF Logged
<1> USE <1>1, <1>a DEF Inv, TypeOK, Life, LifeIsRecorded, Connections, Idle, LoopEnds, Serving, Stopping,
        CleanShutdownHasTheLastWord, Alive, written
<1>2. CASE ServeFails
  BY <1>2 DEF ServeFails
<1>3. CASE Signal
  BY <1>3 DEF Signal
<1>4. CASE UNCHANGED vars
  <2>1. UNCHANGED <<phase, enabled, signalled, server, req, logOpen, errors, recorded, missing, late>>
    BY <1>4 DEF vars, app
  <2>2. TypeOK'
    BY <2>1
  <2>3. Life'
    BY <2>1
  <2>4. Connections' /\ LoopEnds' /\ CleanShutdownHasTheLastWord'
    BY <2>1
  <2> QED
    BY <2>2, <2>3, <2>4
<1> QED
  BY <1>2, <1>3, <1>4

LEMMA StepInv == Inv /\ [Next]_vars => Inv'
<1> SUFFICES ASSUME Inv, [Next]_vars PROVE Inv'
  OBVIOUS
<1>1. CASE Run
  BY <1>1, RunInv, NewApplicationInv, StartDetectorInv, ShutdownDetectorInv, WaitForDetectorInv
     DEF Run
<1>2. CASE HandleSample
  BY <1>2, HandleSampleInv
<1>3. CASE DetectorLoop
  BY <1>3, DetectorLoopInv
<1>4. ASSUME NEW r \in Request, Accept(r) \/ Respond(r) PROVE Inv'
  BY <1>4, ConnectionInv
<1>5. CASE ServeFails \/ Signal \/ UNCHANGED vars
  BY <1>5, OutsideInv
<1> QED
  BY <1>1, <1>2, <1>3, <1>4, <1>5 DEF Next

THEOREM Invariant == Spec => []Inv
  BY InitInv, StepInv, PTL DEF Spec

-----------------------------------------------------------------------------
(* The theorems.                                                           *)

\* The variables keep their types, and the log is closed when Run returns.
THEOREM TypeInvariant == Spec => []TypeOK
<1>1. Inv => TypeOK
  BY DEF Inv
<1> QED
  BY <1>1, Invariant, PTL

\* After a shutdown without an error, of a server that served to the end, nobody
\* publishes behind RuntimeStopped.
THEOREM LastWord == Spec => []CleanShutdownHasTheLastWord
<1>1. Inv => CleanShutdownHasTheLastWord
  BY DEF Inv
<1> QED
  BY <1>1, Invariant, PTL

\* Whoever served gave its start and its end to an open log: each is there when it
\* exits but for a failed write of it, a cleared log or an expired archive.
THEOREM LivesAreRecorded == Spec => []LifeIsRecorded
<1>1. Inv => LifeIsRecorded
  BY DEF Inv, Life
<1> QED
  BY <1>1, Invariant, PTL

\* The detector inside the application behaves as DetectorDaemon with run as its
\* only user: every theorem about that holds here.
THEOREM DetectorIsDetectorDaemon == Spec => D!Spec
<1>1. Init => D!Init
  BY DEF Init, Detector!Init, D!Init, Detector!Loop, D!Loop
<1>2. [Next]_vars => [D!Next]_(D!vars)
  <2> SUFFICES ASSUME [Next]_vars PROVE [D!Next]_(D!vars)
    OBVIOUS
  <2>1. DetectorCall \/ LoopStep \/ UNCHANGED detector
    BY DEF Next, Run, NewApplication, Bind, BindFails, StartDetector, StartListener, Announce, Serve,
           ShutdownApi, Drain, ShutdownDetector, WaitForDetector, Farewell, CloseLog, HandleSample,
           DetectorLoop, Accept, Respond, ServeFails, Signal, vars, DetectorCall, LoopStep
  <2>2. UNCHANGED detector => UNCHANGED D!vars
    BY DEF detector, D!vars, D!daemon, D!loops, D!users
  <2> QED
    BY <2>1, <2>2, CallOfTheDetector, StepOfALoop
<1> QED
  BY <1>1, <1>2, PTL DEF Spec, D!Spec
=============================================================================
