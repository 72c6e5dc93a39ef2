------------------------- MODULE DetectorDaemonProofs -------------------------
(***************************************************************************)
(* Theorems about DetectorDaemon for any number of users, calls and        *)
(* panics.  Tracks says how users and loops refer to each other: loops are *)
(* numbered by their starts, a user that cancels or waits aims at a loop   *)
(* that was started, and the loop started last is only aimed at by users   *)
(* that made the daemon stop.                                              *)
(***************************************************************************)
EXTENDS DetectorDaemon, TLAPS

Tracks ==
    /\ running => done # 0
    /\ \A g \in Loop : lpc[g] = "none" <=> g > done
    /\ \A g \in cancelled : g <= done
    /\ \A g \in closed : lpc[g] = "gone"
    /\ \A u \in User : before[u] <= done
    /\ \A u \in User : pc[u] # "idle" =>
          aim[u] <= done /\ (running /\ aim[u] = done => stopping)
    /\ \A u \in User : pc[u] \in {"shutdown", "wait"} => aim[u] = before[u]

Inv == TypeOK /\ FlagsTellTheTruth /\ Tracks

-----------------------------------------------------------------------------
LEMMA InitInv == Init => Inv
<1> SUFFICES ASSUME Init PROVE Inv
  OBVIOUS
<1>1. 0 \in 0 .. MaxCalls /\ 0 \in 0 .. MaxPanics
  BY BoundsAssumption
<1>2. lpc \in [Loop -> LoopSteps]
  BY DEF Init, LoopSteps
<1>3. pc \in [User -> Steps] /\ result \in [User -> Results]
  BY DEF Init, Steps, Results
<1>4. aim \in [User -> 0 .. MaxCalls] /\ before \in [User -> 0 .. MaxCalls]
  BY <1>1 DEF Init
<1>5. done \in 0 .. calls
  BY DEF Init
<1>6. \A u \in User : pc[u] # "idle" => aim[u] # 0
  BY DEF Init
<1>7. TypeOK
  BY <1>1, <1>2, <1>3, <1>4, <1>5, <1>6, Zenon DEF Init, TypeOK
<1>8. FlagsTellTheTruth
  BY DEF Init, FlagsTellTheTruth, Loop, Alive
<1>9. Tracks
  BY DEF Init, Tracks, Loop
<1> QED
  BY <1>7, <1>8, <1>9 DEF Inv

\* The calls that touch neither a loop nor the flags.
LEMMA SetHandlersInv ==
    ASSUME Inv, NEW u \in User, SetHandlers(u)
    PROVE  Inv'
<1>1. TypeOK'
  <2>1. calls' \in 0 .. MaxCalls /\ done' \in 0 .. calls' /\ before' \in [User -> 0 .. MaxCalls]
    <3>1. Call(u) /\ done' = done
      BY DEF SetHandlers
    <3> QED
      BY <3>1, BoundsAssumption DEF Inv, TypeOK, Call
  <2>2. result' \in [User -> Results]
    BY DEF Inv, TypeOK, SetHandlers, Answer, Results
  <2>3. handlers' \in BOOLEAN /\ panics' = panics
    BY DEF Inv, TypeOK, SetHandlers, Call
  <2> QED
    BY <2>1, <2>2, <2>3 DEF Inv, TypeOK, SetHandlers, loops
<1>2. FlagsTellTheTruth'
  BY DEF Inv, FlagsTellTheTruth, SetHandlers, loops
<1>3. Tracks'
  BY DEF Inv, Tracks, TypeOK, SetHandlers, Call, loops
<1> QED
  BY <1>1, <1>2, <1>3 DEF Inv

\* A start begins a loop of a number that no loop has had, when none is alive.
LEMMA StartInv ==
    ASSUME Inv, NEW u \in User, Start(u)
    PROVE  Inv'
<1> USE BoundsAssumption
<1>1. CASE MayBegin /\ Begin /\ Answer(u, "ok") /\ started' = TRUE
  <2>1. done + 1 \in Loop /\ done \in Nat /\ calls' = calls + 1 /\ ~running
    BY <1>1 DEF Inv, TypeOK, Start, Call, Loop, MayBegin
  <2>2. TypeOK'
    BY <1>1, <2>1 DEF Inv, TypeOK, Start, Call, Begin, Answer, Results, Loop, LoopSteps, Alive
  <2>3. FlagsTellTheTruth'
    <3>1. done + 1 \notin cancelled
      BY <2>1 DEF Inv, Tracks
    <3>2. \A g \in Loop : lpc[g] \notin Alive
      BY <2>1 DEF Inv, FlagsTellTheTruth
    <3>3. lpc' = [lpc EXCEPT ![done + 1] = "select"] /\ running' = TRUE /\ done' = done + 1
          /\ stopping' = stopping /\ cancelled' = cancelled
      BY <1>1 DEF Begin
    <3>4. lpc \in [Loop -> LoopSteps] /\ ~stopping
      BY <2>1 DEF Inv, TypeOK, FlagsTellTheTruth
    <3> QED
      BY <2>1, <3>1, <3>2, <3>3, <3>4 DEF FlagsTellTheTruth, Alive
  <2>4. Tracks'
    BY <1>1, <2>1 DEF Inv, TypeOK, Tracks, Start, Call, Begin, Loop
  <2> QED
    BY <2>2, <2>3, <2>4 DEF Inv
<1>2. CASE ~MayBegin /\ Answer(u, "ok") /\ started' = TRUE /\ UNCHANGED <<daemon, loops>>
  <2>1. TypeOK'
    BY <1>2 DEF Inv, TypeOK, Start, Call, Answer, Results, daemon, loops
  <2>2. FlagsTellTheTruth'
    BY <1>2 DEF Inv, FlagsTellTheTruth, daemon, loops
  <2>3. Tracks'
    BY <1>2 DEF Inv, TypeOK, Tracks, Start, Call, daemon, loops
  <2> QED
    BY <2>1, <2>2, <2>3 DEF Inv
<1> QED
  BY <1>1, <1>2 DEF Start

\* Stop and Shutdown aim at the loop that runs, and say so in stopping.
LEMMA StopInv ==
    ASSUME Inv, NEW u \in User, Stop(u) \/ Shutdown(u)
    PROVE  Inv'
<1> USE BoundsAssumption
<1>0. /\ UNCHANGED <<running, done, handlers, loops, panics>>
      /\ Call(u) /\ started' = FALSE
  BY DEF Stop, Shutdown, Call
<1>1. CASE /\ running /\ stopping' = TRUE /\ aim' = [aim EXCEPT ![u] = done]
           /\ pc' \in {[pc EXCEPT ![u] = "stop"], [pc EXCEPT ![u] = "shutdown"]}
           /\ UNCHANGED result
  <2>1. done \in Loop
    BY <1>1 DEF Inv, TypeOK, Tracks, Loop
  <2>2. TypeOK'
    <3>1. pc' \in [User -> Steps]
      BY <1>1 DEF Inv, TypeOK, Steps
    <3>2. aim' \in [User -> 0 .. MaxCalls] /\ \A v \in User : pc'[v] # "idle" => aim'[v] # 0
      BY <1>0, <1>1, <2>1 DEF Inv, TypeOK, Call, Loop
    <3>3. calls' \in 0 .. MaxCalls /\ done' \in 0 .. calls' /\ before' \in [User -> 0 .. MaxCalls]
      BY <1>0, <2>1 DEF Inv, TypeOK, Call, Loop
    <3> QED
      BY <1>0, <1>1, <3>1, <3>2, <3>3 DEF Inv, TypeOK, loops
  <2>3. FlagsTellTheTruth'
    BY <1>0, <1>1 DEF Inv, FlagsTellTheTruth, loops
  <2>4. Tracks'
    BY <1>0, <1>1, <2>1 DEF Inv, TypeOK, Tracks, Call, loops, Loop
  <2> QED
    BY <2>2, <2>3, <2>4 DEF Inv
<1>2. CASE Answer(u, "ok") /\ UNCHANGED <<stopping, aim, pc>>
  <2>1. TypeOK'
    <3>1. calls' \in 0 .. MaxCalls /\ done' \in 0 .. calls' /\ before' \in [User -> 0 .. MaxCalls]
      BY <1>0 DEF Inv, TypeOK, Call
    <3>2. result' \in [User -> Results]
      BY <1>2 DEF Inv, TypeOK, Answer, Results
    <3> QED
      BY <1>0, <1>2, <3>1, <3>2 DEF Inv, TypeOK, loops
  <2>2. FlagsTellTheTruth'
    BY <1>0, <1>2 DEF Inv, FlagsTellTheTruth, loops
  <2>3. Tracks'
    BY <1>0, <1>2 DEF Inv, TypeOK, Tracks, Call, loops
  <2> QED
    BY <2>1, <2>2, <2>3 DEF Inv
<1> QED
  BY <1>1, <1>2 DEF Stop, Shutdown, MayWait

LEMMA CancelInv ==
    ASSUME Inv, NEW u \in User, Cancel(u)
    PROVE  Inv'
<1>1. aim[u] \in Loop /\ aim[u] <= done /\ (running /\ aim[u] = done => stopping)
  BY BoundsAssumption DEF Inv, TypeOK, Tracks, Cancel, Loop
<1>2. TypeOK'
  BY <1>1 DEF Inv, TypeOK, Cancel, Cancelling, Answer, daemon, Steps, Results
<1>3. FlagsTellTheTruth'
  BY <1>1 DEF Inv, FlagsTellTheTruth, Cancel, Cancelling, daemon
<1>4. Tracks'
  BY <1>1 DEF Inv, TypeOK, Tracks, Cancel, Cancelling, daemon
<1> QED
  BY <1>2, <1>3, <1>4 DEF Inv

LEMMA WaitInv ==
    ASSUME Inv, NEW u \in User, Wait(u)
    PROVE  Inv'
<1>1. TypeOK'
  BY DEF Inv, TypeOK, Wait, Answer, daemon, loops, Steps, Results
<1>2. FlagsTellTheTruth'
  BY DEF Inv, FlagsTellTheTruth, Wait, daemon, loops
<1>3. Tracks'
  BY DEF Inv, TypeOK, Tracks, Wait, daemon, loops
<1> QED
  BY <1>1, <1>2, <1>3 DEF Inv

\* A loop moves on, and stays alive.
LEMMA MoveInv ==
    ASSUME Inv, NEW g \in Loop, NEW to \in Alive, Still,
           lpc[g] \in Alive, lpc' = [lpc EXCEPT ![g] = to],
           panics' \in 0 .. MaxPanics, started' \in BOOLEAN
    PROVE  Inv'
<1>1. TypeOK'
  BY DEF Inv, TypeOK, Still, daemon, users, LoopSteps
<1>2. FlagsTellTheTruth'
  BY DEF Inv, TypeOK, FlagsTellTheTruth, Still, daemon
<1>3. Tracks'
  BY DEF Inv, TypeOK, Tracks, Still, daemon, users, Alive
<1> QED
  BY <1>1, <1>2, <1>3 DEF Inv

LEMMA LoopInv ==
    ASSUME Inv, NEW g \in Loop,
           Tick(g) \/ Cancelled(g) \/ Sample(g) \/ Handle(g) \/ Recover(g) \/ Panic(g)
    PROVE  Inv'
<1>1. Still
  BY DEF Tick, Cancelled, Sample, Handle, Recover, Panic
<1>2. panics' \in 0 .. MaxPanics /\ started' \in BOOLEAN
  <2>1. CASE Panic(g)
    <3>1. panics < MaxPanics /\ panics' = panics + 1 /\ started' = FALSE
      BY <2>1 DEF Panic
    <3>2. panics \in 0 .. MaxPanics
      BY DEF Inv, TypeOK
    <3>3. panics' \in 0 .. MaxPanics
      BY <3>1, <3>2, BoundsAssumption
    <3> QED
      BY <3>1, <3>3
  <2>2. CASE UNCHANGED <<panics, started>>
    BY <2>2 DEF Inv, TypeOK
  <2> QED
    BY <2>1, <2>2 DEF Tick, Cancelled, Sample, Handle, Recover
<1>3. lpc[g] \in Alive
  BY DEF Tick, Cancelled, Sample, Handle, Recover, Panic, Move, Alive
<1>4. \E to \in Alive : lpc' = [lpc EXCEPT ![g] = to]
  BY DEF Tick, Cancelled, Sample, Handle, Recover, Panic, Move, Alive
<1> QED
  BY <1>1, <1>3, <1>4, <1>2, MoveInv

\* The loop that ends is the one started last, for no other is alive.
LEMMA EndInv ==
    ASSUME Inv, NEW g \in Loop, End(g)
    PROVE  Inv'
<1>1. lpc[g] = "end" /\ lpc' = [lpc EXCEPT ![g] = "close"]
  BY DEF End, Move
<1>2. done = g /\ running
  BY <1>1 DEF Inv, FlagsTellTheTruth, Alive
<1>3. running' = FALSE /\ stopping' = FALSE
  BY <1>2 DEF End
<1>4. TypeOK'
  BY <1>1, <1>3 DEF Inv, TypeOK, End, users, LoopSteps
<1>5. FlagsTellTheTruth'
  BY <1>1, <1>2, <1>3 DEF Inv, TypeOK, FlagsTellTheTruth, Alive
<1>6. Tracks'
  BY <1>1, <1>3 DEF Inv, TypeOK, Tracks, End, users
<1> QED
  BY <1>4, <1>5, <1>6 DEF Inv

LEMMA CloseInv ==
    ASSUME Inv, NEW g \in Loop, Close(g)
    PROVE  Inv'
<1>1. lpc[g] = "close" /\ lpc' = [lpc EXCEPT ![g] = "gone"]
  BY DEF Close, Move
<1>2. TypeOK'
  BY <1>1 DEF Inv, TypeOK, Close, daemon, users, LoopSteps
<1>3. FlagsTellTheTruth'
  BY <1>1 DEF Inv, TypeOK, FlagsTellTheTruth, Close, daemon, Alive
<1>4. Tracks'
  BY <1>1 DEF Inv, TypeOK, Tracks, Close, daemon, users
<1> QED
  BY <1>2, <1>3, <1>4 DEF Inv

LEMMA StepInv == Inv /\ [Next]_vars => Inv'
<1> SUFFICES ASSUME Inv, [Next]_vars PROVE Inv'
  OBVIOUS
<1>1. CASE UNCHANGED vars
  BY <1>1 DEF vars, daemon, loops, users, Inv, TypeOK, FlagsTellTheTruth, Tracks
<1>2. ASSUME NEW u \in User, SetHandlers(u) PROVE Inv'
  BY <1>2, SetHandlersInv
<1>3. ASSUME NEW u \in User, Start(u) PROVE Inv'
  BY <1>3, StartInv
<1>4. ASSUME NEW u \in User, Stop(u) \/ Shutdown(u) PROVE Inv'
  BY <1>4, StopInv
<1>5. ASSUME NEW u \in User, Cancel(u) PROVE Inv'
  BY <1>5, CancelInv
<1>6. ASSUME NEW u \in User, Wait(u) PROVE Inv'
  BY <1>6, WaitInv
<1>7. ASSUME NEW g \in Loop,
             Tick(g) \/ Cancelled(g) \/ Sample(g) \/ Handle(g) \/ Recover(g) \/ Panic(g)
      PROVE  Inv'
  BY <1>7, LoopInv
<1>8. ASSUME NEW g \in Loop, End(g) PROVE Inv'
  BY <1>8, EndInv
<1>9. ASSUME NEW g \in Loop, Close(g) PROVE Inv'
  BY <1>9, CloseInv
<1> QED
  BY <1>1, <1>2, <1>3, <1>4, <1>5, <1>6, <1>7, <1>8, <1>9 DEF Next, Run

\* The whole invariant, from which the theorems follow.
THEOREM Invariant == Spec => []Inv
  BY InitInv, StepInv, PTL DEF Spec

-----------------------------------------------------------------------------
(* The theorems.                                                           *)

\* Every variable keeps its type; a user never cancels a context that was not
\* made.
THEOREM TypeInvariant == Spec => []TypeOK
<1>1. Inv => TypeOK
  BY DEF Inv
<1> QED
  BY <1>1, Invariant, PTL

\* One loop at most samples or handles, and the daemon's flags tell which.
THEOREM FlagsAreRight == Spec => []FlagsTellTheTruth
<1>1. Inv => FlagsTellTheTruth
  BY DEF Inv
<1> QED
  BY <1>1, Invariant, PTL

\* After Shutdown has answered without an error no loop from before samples or
\* handles.
THEOREM ShutdownIsEnd == Spec => ShutdownIsQuiet
<1> DEFINE Quiet ==
      \A u \in User :
          (\/ Shutdown(u) /\ result'[u] = "ok" /\ pc'[u] = "idle"
           \/ Wait(u) /\ result'[u] = "ok")
          => \A g \in 1 .. before'[u] : lpc'[g] \notin Alive
<1>1. Inv /\ [Next]_vars => [Quiet]_vars
  <2> SUFFICES ASSUME Inv, Inv', NEW u \in User,
                      \/ Shutdown(u) /\ result'[u] = "ok" /\ pc'[u] = "idle"
                      \/ Wait(u) /\ result'[u] = "ok",
                      NEW g \in 1 .. before'[u], lpc'[g] \in Alive
               PROVE  FALSE
    BY StepInv
  <2>1. g \in Loop
    BY BoundsAssumption DEF Inv, TypeOK, Loop
  <2>2. running' /\ g = done'
    BY <2>1 DEF Inv, FlagsTellTheTruth
  <2>3. CASE Shutdown(u) /\ result'[u] = "ok" /\ pc'[u] = "idle"
    <3>1. pc[u] = "idle" /\ pc \in [User -> Steps] /\ running' = running
      BY <2>3 DEF Inv, TypeOK, Shutdown, Call
    <3>2. ~running
      BY <2>3, <3>1 DEF Shutdown, MayWait
    <3> QED
      BY <2>2, <3>1, <3>2
  <2>4. CASE Wait(u) /\ result'[u] = "ok"
    <3>1. aim[u] \in closed /\ pc[u] = "wait" /\ UNCHANGED <<lpc, done, before>>
      BY <2>4 DEF Inv, TypeOK, Wait, Answer, daemon, loops
    <3>2. lpc[aim[u]] = "gone" /\ aim[u] = before[u] /\ aim[u] <= done
      BY <3>1 DEF Inv, Tracks
    <3>3. g = aim[u]
      BY <2>2, <3>1, <3>2 DEF Inv, TypeOK
    <3> QED
      BY <3>1, <3>2, <3>3 DEF Alive
  <2> QED
    BY <2>3, <2>4
<1>2. Spec => [][Quiet]_vars
  BY <1>1, Invariant, PTL DEF Spec
<1> QED
  BY <1>2 DEF ShutdownIsQuiet
=============================================================================
