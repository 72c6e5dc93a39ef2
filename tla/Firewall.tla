------------------------------- MODULE Firewall -------------------------------
(***************************************************************************)
(* The privileged firewall boundary: firewall.Controller serialising its   *)
(* callers with a mutex, resolving a backend, taking a snapshot, running   *)
(* the operation and rolling back on failure (firewall/controller.go and   *)
(* registry.go), over the nftables backend, every nft command of which is  *)
(* one step that may fail before or after the kernel committed it          *)
(* (firewall/nftables/backend.go, runner.go), over the kernel's table.     *)
(*                                                                         *)
(* Around it: contexts that are cancelled at any time, a clock that makes  *)
(* temporary bans expire, a daemon that dies between two commands, and an  *)
(* administrator who runs install/firewall-cleanup.sh.                     *)
(***************************************************************************)
EXTENDS FirewallRules, FiniteSets

CONSTANTS
    Caller,         \* goroutines that use the controller
    NoCaller,       \* the mutex is free
    Enabled,        \* the enforcement gate: FALSE from NewController
    Selection,      \* the configured backend: "auto" or a registered name
    Detected,       \* registered backends whose prerequisites the host has
    Requests,       \* what callers ask: records [kind, state]
    MaxCalls,       \* bound: operations started
    MaxFaults,      \* bound: commands that fail for a reason of their own
    MaxCrashes,     \* bound: deaths of the daemon
    MaxWipes,       \* bound: runs of the cleanup script
    MaxTime         \* bound: clock ticks

ASSUME CallerAssumption == NoCaller \notin Caller
ASSUME EnabledAssumption == Enabled \in BOOLEAN
ASSUME RequestsAssumption ==
    Requests \subseteq [kind : {"reconcile", "cleanup", "inspect"}, state : DesiredState]

VARIABLES
    table,      \* the kernel's copy of the Shield table
    now,        \* the clock
    lock,       \* the holder of Controller.mu, or NoCaller
    pc,         \* where each caller is
    op,         \* its operation, with the state normalised on entry
    snap,       \* the snapshot it took
    prog,       \* the batch it rendered last
    cancelled,  \* callers whose context is done
    result,     \* what its operation will return
    \* bounds and history, which no action of the code reads
    calls, faults, crashes, wipes,
    policy      \* the policies an administrator may believe in force

control == <<lock, pc, op, snap, prog, cancelled, result>>
bounds  == <<calls, faults, crashes, wipes>>
vars    == <<table, now, control, bounds, policy>>

NoOp       == [kind |-> "inspect", state |-> EmptyState]
NoSnapshot == [present |-> FALSE, state |-> EmptyState]

Steps == {"idle", "lock", "resolve", "snapExists", "inspectExists", "list",
          "check", "apply", "undoCheck", "undoApply", "unlock"}
Results == {"ok", "failed", "restored", "broken"}

\* The daemon starts on whatever its previous life left in the kernel.
Init ==
    /\ now = 0
    /\ \/ table = AbsentTable /\ policy = {EmptyState}
       \/ \E request \in Requests :
             /\ Enabled /\ request.kind = "reconcile"
             /\ table = Commit(RenderRuleset(request.state, now), now)
             /\ policy = {Normalize(request.state, now)}
    /\ lock = NoCaller
    /\ pc = [c \in Caller |-> "idle"]
    /\ op = [c \in Caller |-> NoOp]
    /\ snap = [c \in Caller |-> NoSnapshot]
    /\ prog = [c \in Caller |-> CleanupProgram]
    /\ cancelled = {}
    /\ result = [c \in Caller |-> "ok"]
    /\ calls = 0 /\ faults = 0 /\ crashes = 0 /\ wipes = 0

-----------------------------------------------------------------------------
(* Helpers of the steps.                                                   *)

Go(c, from, to) == pc[c] = from /\ pc' = [pc EXCEPT ![c] = to]

Finish(c, from, res) ==
    /\ Go(c, from, "unlock")
    /\ result' = [result EXCEPT ![c] = res]

\* A command fails because its context is done, or for a reason of its own,
\* which is counted.
CommandFails(done) ==
    \/ done /\ UNCHANGED faults
    \/ faults < MaxFaults /\ faults' = faults + 1

CommandRuns(done) == ~done /\ UNCHANGED faults

\* The operation runs under the caller's context, the rollback under one
\* without its cancellation; the timeout of that is a failure of its own.
Done(c) == c \in cancelled

RollbackDone_Inherited(c) == c \in cancelled

RollbackDone(c) == FALSE

\* The state an operation leaves when it succeeds.
Target(o) == IF o.kind = "reconcile" THEN o.state ELSE EmptyState

\* A rollback rewrites each ban with the whole seconds it had left.
Shorten(s) ==
    [s EXCEPT !.bans =
        {[addr |-> b.addr,
          expires |-> IF b.expires < Second THEN 0 ELSE b.expires - (Second - 1)] : b \in s.bans}]

Shortened == {Shorten(s) : s \in policy}

-----------------------------------------------------------------------------
(* Registry.Resolve: detection, selection, and construction of a backend.  *)

Order       == <<"nftables", "iptables">>   \* NewDefaultRegistry
Implemented == {"nftables"}                 \* iptables registers no factory

Ready == {i \in DOMAIN Order : Order[i] \in Detected \cap Implemented}

\* The backend the operation runs on, if there is one.
Resolved ==
    IF Selection = "auto"
    THEN {Order[i] : i \in {j \in Ready : \A k \in Ready : j <= k}}
    ELSE {Selection} \cap Detected \cap Implemented

\* Detection and the factory look the host over again for each operation, and
\* may fail each time.
Resolve(c) ==
    /\ \/ /\ CommandRuns(Done(c))
          /\ IF Resolved = {}
             THEN Finish(c, "resolve", "failed")
             ELSE /\ Go(c, "resolve", IF op[c].kind = "inspect" THEN "inspectExists"
                                                              ELSE "snapExists")
                  /\ UNCHANGED result
       \/ CommandFails(Done(c)) /\ Finish(c, "resolve", "failed")
    /\ UNCHANGED <<table, now, lock, op, snap, prog, cancelled, calls, crashes, wipes, policy>>

-----------------------------------------------------------------------------
(* Entry: the gate, the nil context, Normalize, then the mutex.            *)

Call(c, request) ==
    /\ calls < MaxCalls
    /\ Enabled \/ request.kind = "inspect"
    /\ Go(c, "idle", "lock")
    /\ op' = [op EXCEPT ![c] = [request EXCEPT !.state = Normalize(@, now)]]
    /\ calls' = calls + 1
    /\ UNCHANGED <<table, now, lock, snap, prog, cancelled, result, faults, crashes, wipes, policy>>

\* Taking Controller.mu.
Acquire_PerBackend(c) == lock' = c

Acquire(c) == lock = NoCaller /\ lock' = c

Lock(c) ==
    /\ Acquire(c)
    /\ Go(c, "lock", "resolve")
    /\ UNCHANGED <<table, now, op, snap, prog, cancelled, result, bounds, policy>>

\* Controller.mu is released on every path, for its Unlock is deferred.
Release_OnSuccess(c) == lock' = IF result[c] = "ok" THEN NoCaller ELSE lock

Release(c) == lock' = NoCaller

Return(c) ==
    /\ Go(c, "unlock", "idle")
    /\ Release(c)
    /\ op' = [op EXCEPT ![c] = NoOp]
    /\ snap' = [snap EXCEPT ![c] = NoSnapshot]
    /\ prog' = [prog EXCEPT ![c] = CleanupProgram]
    /\ cancelled' = cancelled \ {c}
    /\ result' = [result EXCEPT ![c] = "ok"]
    /\ UNCHANGED <<table, now, bounds, policy>>

-----------------------------------------------------------------------------
(* Snapshot and Inspect.  Snapshot asks twice whether the table exists:    *)
(* itself, and again in inspect.                                           *)

\* Where a caller goes with the state it read: an Inspect returns it, a
\* mutation keeps it as its snapshot and starts.
Read(c, from, present, state) ==
    /\ snap' = [snap EXCEPT ![c] = [present |-> present, state |-> state]]
    /\ Go(c, from, IF op[c].kind = "inspect" THEN "unlock" ELSE "check")
    /\ UNCHANGED result

SnapshotTableExists(c) ==
    /\ \/ /\ CommandRuns(Done(c))
          /\ IF table.present
             THEN Go(c, "snapExists", "inspectExists") /\ UNCHANGED <<snap, result>>
             ELSE Read(c, "snapExists", FALSE, EmptyState)
       \/ CommandFails(Done(c)) /\ Finish(c, "snapExists", "failed") /\ UNCHANGED snap
    /\ UNCHANGED <<table, now, lock, op, prog, cancelled, calls, crashes, wipes, policy>>

\* inspect's answer when the table does not exist.
NoTable_IsAnError(c) == Finish(c, "inspectExists", "failed") /\ UNCHANGED snap

NoTable(c) == Read(c, "inspectExists", TRUE, EmptyState)

InspectTableExists(c) ==
    /\ \/ /\ CommandRuns(Done(c))
          /\ IF table.present
             THEN Go(c, "inspectExists", "list") /\ UNCHANGED <<snap, result>>
             ELSE NoTable(c)
       \/ CommandFails(Done(c)) /\ Finish(c, "inspectExists", "failed") /\ UNCHANGED snap
    /\ UNCHANGED <<table, now, lock, op, prog, cancelled, calls, crashes, wipes, policy>>

\* The listing fails if the table went away, its parse if a ban has less than
\* a second left.
List(c) ==
    /\ \/ /\ CommandRuns(Done(c))
          /\ table.present /\ Listable(table, now)
          /\ Read(c, "list", TRUE, Normalize(ParseRuleset(table, now), now))
       \/ /\ \/ CommandFails(Done(c))
             \/ CommandRuns(Done(c)) /\ ~(table.present /\ Listable(table, now))
          /\ Finish(c, "list", "failed")
          /\ UNCHANGED snap
    /\ UNCHANGED <<table, now, lock, op, prog, cancelled, calls, crashes, wipes, policy>>

-----------------------------------------------------------------------------
(* The operation: nft --check of the rendered batch, then the batch.       *)

Check(c) ==
    /\ prog' = [prog EXCEPT ![c] = IF op[c].kind = "reconcile"
                                   THEN RenderRuleset(op[c].state, now)
                                   ELSE CleanupProgram]
    /\ \/ CommandRuns(Done(c)) /\ Go(c, "check", "apply")
       \/ CommandFails(Done(c)) /\ Go(c, "check", "undoCheck")
    /\ UNCHANGED <<table, now, lock, op, snap, cancelled, result, calls, crashes, wipes, policy>>

Apply(c) ==
    /\ CommandRuns(Done(c))
    /\ table' = Commit(prog[c], now)
    /\ policy' = {Target(op[c])}
    /\ Finish(c, "apply", "ok")
    /\ UNCHANGED <<now, lock, op, snap, prog, cancelled, calls, crashes, wipes>>

\* nft is refused, killed or cut off: the batch is committed or it is not.
ApplyFails(c) ==
    /\ CommandFails(Done(c))
    /\ table' \in {table, Commit(prog[c], now)}
    /\ Go(c, "apply", "undoCheck")
    /\ UNCHANGED <<now, lock, op, snap, prog, cancelled, result, calls, crashes, wipes, policy>>

-----------------------------------------------------------------------------
(* Restore(snapshot), with a context of its own.                           *)

RestoreCheck(c) ==
    /\ prog' = [prog EXCEPT ![c] = IF snap[c].present
                                   THEN RenderRuleset(snap[c].state, now)
                                   ELSE CleanupProgram]
    /\ \/ /\ CommandRuns(RollbackDone(c))
          /\ Go(c, "undoCheck", "undoApply")
          /\ UNCHANGED <<result, policy>>
       \/ /\ CommandFails(RollbackDone(c))
          /\ Finish(c, "undoCheck", "broken")
          /\ policy' = policy \cup {Target(op[c])}
    /\ UNCHANGED <<table, now, lock, op, snap, cancelled, calls, crashes, wipes>>

RestoreApply(c) ==
    /\ CommandRuns(RollbackDone(c))
    /\ table' = Commit(prog[c], now)
    /\ policy' = Shortened
    /\ Finish(c, "undoApply", "restored")
    /\ UNCHANGED <<now, lock, op, snap, prog, cancelled, calls, crashes, wipes>>

RestoreApplyFails(c) ==
    /\ CommandFails(RollbackDone(c))
    /\ table' \in {table, Commit(prog[c], now)}
    /\ policy' = policy \cup {Target(op[c])} \cup Shortened
    /\ Finish(c, "undoApply", "broken")
    /\ UNCHANGED <<now, lock, op, snap, prog, cancelled, calls, crashes, wipes>>

-----------------------------------------------------------------------------
(* The environment.                                                        *)

Cancel(c) ==
    /\ pc[c] \notin {"idle", "unlock"}
    /\ cancelled' = cancelled \cup {c}
    /\ UNCHANGED <<table, now, lock, pc, op, snap, prog, result, bounds, policy>>

\* The daemon dies.  Its nft child finishes or not; nothing is rolled back.
Crash ==
    /\ crashes < MaxCrashes
    /\ crashes' = crashes + 1
    /\ table' \in {table} \cup
           {Commit(prog[c], now) : c \in {d \in Caller : pc[d] \in {"apply", "undoApply"}}}
    /\ policy' = policy
           \cup {Target(op[c]) : c \in {d \in Caller : pc[d] \in {"apply", "undoCheck", "undoApply"}}}
           \cup IF \E c \in Caller : pc[c] = "undoApply" THEN Shortened ELSE {}
    /\ lock' = NoCaller
    /\ pc' = [c \in Caller |-> "idle"]
    /\ op' = [c \in Caller |-> NoOp]
    /\ snap' = [c \in Caller |-> NoSnapshot]
    /\ prog' = [c \in Caller |-> CleanupProgram]
    /\ cancelled' = {}
    /\ result' = [c \in Caller |-> "ok"]
    /\ UNCHANGED <<now, calls, faults, wipes>>

\* install/firewall-cleanup.sh takes no lock: a rollback that began before it
\* may bring the table back.
CleanupScript ==
    /\ wipes < MaxWipes
    /\ wipes' = wipes + 1
    /\ table' = AbsentTable
    /\ policy' = IF lock = NoCaller THEN {EmptyState} ELSE policy \cup {EmptyState}
    /\ UNCHANGED <<now, control, calls, faults, crashes>>

Tick ==
    /\ now < MaxTime
    /\ now' = now + 1
    /\ UNCHANGED <<table, control, bounds, policy>>

-----------------------------------------------------------------------------

Command(c) ==
    \/ Resolve(c) \/ SnapshotTableExists(c) \/ InspectTableExists(c) \/ List(c)
    \/ Check(c) \/ Apply(c) \/ ApplyFails(c)
    \/ RestoreCheck(c) \/ RestoreApply(c) \/ RestoreApplyFails(c)
    \/ Return(c)

Next ==
    \/ \E c \in Caller :
        \/ \E request \in Requests : Call(c, request)
        \/ Lock(c) \/ Command(c) \/ Cancel(c)
    \/ Crash
    \/ CleanupScript
    \/ Tick

Spec == Init /\ [][Next]_vars

\* A command started returns, for its process ends or its context is done; a
\* goroutine blocked on a sync.Mutex is not starved by others.
Fairness == \A c \in Caller : WF_vars(Command(c)) /\ SF_vars(Lock(c))

FairSpec == Spec /\ Fairness

-----------------------------------------------------------------------------
(* Properties.                                                             *)

TypeOK ==
    /\ table \in Table
    /\ now \in Nat
    /\ lock \in Caller \cup {NoCaller}
    /\ pc \in [Caller -> Steps]
    /\ op \in [Caller -> [kind : {"reconcile", "cleanup", "inspect"}, state : DesiredState]]
    /\ snap \in [Caller -> [present : BOOLEAN, state : DesiredState]]
    /\ prog \in [Caller -> Program]
    /\ cancelled \subseteq Caller
    /\ result \in [Caller -> Results]
    /\ calls \in Nat /\ faults \in Nat /\ crashes \in Nat /\ wipes \in Nat
    /\ policy \subseteq DesiredState

\* The table holds state s: no ban of s is missing or ends early, and no
\* address is banned that s does not ban.
Shows(tbl, s, t) ==
    /\ tbl.wl = s.wl
    /\ tbl.perm = s.perm
    /\ \A b \in s.bans : b.expires > t =>
          \E k \in tbl.bans : k.addr = b.addr /\ k.expires >= b.expires
    /\ \A k \in tbl.bans : k.expires > t => \E b \in s.bans : b.addr = k.addr

\* Operations whose batch may be in the kernel and that have yet to undo it.
Undoing == {c \in Caller : pc[c] \in {"undoCheck", "undoApply"}}

Candidates == policy \cup {Target(op[c]) : c \in Undoing}

\* At every moment, between any two commands of any interleaving of callers,
\* failures, cancellations and crashes, the kernel holds one whole policy: the
\* one acknowledged last, or the one of an operation that is being undone or
\* was cut off.  A failed operation that was rolled back leaves what it found,
\* less than a second shortened, and never undoes what another caller was told
\* is in force.
TableMatchesPolicy == \E s \in Candidates : Shows(table, s, now)

\* What a policy says of packets from a; nothing in the second after a ban.
PolicyVerdict(s, a, t) ==
    IF a \in s.wl THEN "accept"
    ELSE IF a \in s.perm \/ \E b \in s.bans : b.addr = a /\ b.expires > t THEN "drop"
    ELSE IF \E b \in s.bans : b.addr = a THEN "either"
    ELSE "accept"

\* Replacing, failing to replace or restoring a policy opens no gap: a packet
\* on which the policies involved agree is treated so by the kernel throughout,
\* so a listed address is never locked out and a banned one never let in.
NoGapNoLockout ==
    \A a \in Addr, v \in {"accept", "drop"} :
        (\A s \in Candidates : PolicyVerdict(s, a, now) = v) => Verdict(table, a, now) = v

\* The step on which an operation's error arises.
Failing(c) ==
    /\ pc[c] \notin {"undoCheck", "undoApply"}
    /\ \/ pc'[c] = "undoCheck"
       \/ result[c] = "ok" /\ result'[c] # "ok"

\* An operation whose commands all work returns no error, unless its context is
\* done, no backend resolves, the table vanished under it, or a ban is in its
\* last second, which the parser refuses.
OnlyExplainedErrors ==
    [][\A c \in Caller : Failing(c) /\ faults' = faults =>
            \/ c \in cancelled
            \/ Resolved = {}
            \/ pc[c] = "list" /\ ~(table.present /\ Listable(table, now))]_vars

\* Cancelling the caller's context never costs the rollback: only a failing
\* command can leave an operation neither done nor undone.
RollbackSurvivesCancellation ==
    \A c \in Caller : result[c] = "broken" => faults > 0

\* Every operation returns and lets the next one in.
EveryCallReturns == \A c \in Caller : pc[c] # "idle" ~> pc[c] = "idle"
=============================================================================
