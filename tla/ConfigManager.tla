---------------------------- MODULE ConfigManager -----------------------------
(***************************************************************************)
(* The configuration lifecycle: config.Manager writes a candidate to the   *)
(* configuration file, reads it back, has the runtime apply it, keeps a    *)
(* backup of each version, and puts the previous file back when something  *)
(* fails (config/manager.go).  The runtime's side is                       *)
(* Application.applyConfiguration (app/app.go), which refuses what needs a *)
(* restart; callers come from the API, each in a goroutine of its own.     *)
(*                                                                         *)
(* Around it: reads and writes that fail, a daemon that dies between two   *)
(* steps and starts again on the files it left, and an administrator who   *)
(* edits the configuration file.                                           *)
(***************************************************************************)
EXTENDS Naturals, Sequences, FiniteSets

CONSTANTS
    Caller,         \* goroutines that use the manager
    NoCaller,       \* Manager.mu is free
    Config,         \* valid configurations
    Damaged,        \* file content that does not load
    Listener,       \* what of a configuration only a restart can change
    Undeliverable,  \* configurations whose alert settings are refused
    Updates,        \* configurations that callers send
    MaxCalls,       \* bound: operations started
    MaxFaults,      \* bound: reads and writes that fail
    MaxCrashes,     \* bound: deaths of the daemon
    MaxEdits        \* bound: edits of the file by an administrator

ASSUME CallerAssumption == NoCaller \notin Caller
ASSUME ConfigAssumption ==
    /\ Damaged \notin Config
    /\ Undeliverable \subseteq Config /\ Updates \subseteq Config
    /\ DOMAIN Listener = Config
ASSUME BoundAssumption == MaxCalls \in Nat

VARIABLES
    file,       \* the configuration file
    backup,     \* the backup file of each version
    up,         \* the daemon is serving
    running,    \* Application.cfg, what the runtime goes by
    current,    \* Manager.current
    history,    \* Manager.history: the configuration of each version
    mu,         \* the holder of Manager.mu, or NoCaller
    pc,         \* where each caller is
    op,         \* its operation
    cand,       \* the configuration it is applying
    prev,       \* the configuration it would put back
    result,     \* what its operation returns
    \* bounds and history, which no action of the code reads
    calls, faults, crashes, edits,
    acked,      \* the configuration acknowledged last
    settled,    \* nothing has happened that lets file and runtime part
    spoilt,     \* versions of this run whose backup could not be written
    overtaken   \* callers that read a file which has changed since

disk   == <<file, backup>>
memory == <<up, running, current, history>>
local  == <<pc, op, cand, prev, result>>
bounds == <<calls, faults, crashes, edits>>
ghosts == <<acked, settled, spoilt, overtaken>>
vars   == <<disk, memory, mu, local, bounds, ghosts>>

Versions == 1 .. MaxCalls + 1

Operations ==
    [kind : {"update"}, cfg : Updates] \cup [kind : {"reload"}]
        \cup [kind : {"rollback"}, version : Versions]

Steps == {"idle", "read", "lock", "write", "readBack", "apply", "backup", "undo", "unlock"}
Results == {"ok", "failed", "rolledBack", "broken"}

Content == Config \cup {Damaged}

\* What a daemon can start with.
Startable(k) == k \in Config \ Undeliverable

Init ==
    /\ file \in {k \in Config : Startable(k)}
    /\ backup = [v \in Versions |-> Damaged]
    /\ up = FALSE
    /\ running = file /\ current = file /\ history = <<>>
    /\ mu = NoCaller
    /\ pc = [c \in Caller |-> "idle"]
    /\ op = [c \in Caller |-> [kind |-> "reload"]]
    /\ cand = [c \in Caller |-> Damaged]
    /\ prev = [c \in Caller |-> Damaged]
    /\ result = [c \in Caller |-> "ok"]
    /\ calls = 0 /\ faults = 0 /\ crashes = 0 /\ edits = 0
    /\ acked = file /\ settled = TRUE /\ spoilt = {} /\ overtaken = {}

-----------------------------------------------------------------------------
Go(c, from, to) == pc[c] = from /\ pc' = [pc EXCEPT ![c] = to]

Finish(c, from, res) ==
    /\ Go(c, from, "unlock")
    /\ result' = [result EXCEPT ![c] = res]

Fault == faults < MaxFaults /\ faults' = faults + 1

\* Callers that go by what the file contained before this step: Reload has read
\* it before it took the lock, the others since they wrote it.
Readers ==
    {c \in Caller : \/ pc[c] \in {"readBack", "apply", "backup"}
                   \/ (pc[c] = "lock" /\ op[c].kind = "reload")}

\* The file is written: what others read of it is out of date.
Write(k, by) ==
    /\ file' = k
    /\ overtaken' = overtaken \cup (Readers \ {by})

-----------------------------------------------------------------------------
(* Entry.  Update has validated its candidate; Reload reads the file before *)
(* it takes the lock.                                                       *)

Call(c, o) ==
    /\ up
    /\ calls < MaxCalls /\ calls' = calls + 1
    /\ Go(c, "idle", IF o.kind = "reload" THEN "read" ELSE "lock")
    /\ op' = [op EXCEPT ![c] = o]
    /\ UNCHANGED <<disk, memory, mu, cand, prev, result, faults, crashes, edits, ghosts>>

Read(c) ==
    /\ \/ /\ file \in Config
          /\ Go(c, "read", "lock")
          /\ cand' = [cand EXCEPT ![c] = file]
          /\ UNCHANGED <<result, faults>>
       \/ /\ (file \notin Config /\ UNCHANGED faults) \/ Fault
          /\ Finish(c, "read", "failed")
          /\ UNCHANGED cand
    /\ overtaken' = overtaken \ {c}
    /\ UNCHANGED <<disk, memory, mu, op, prev, calls, crashes, edits, acked, settled, spoilt>>

\* The configuration an operation sets out to apply, or why it does not.
Candidate(c) ==
    CASE op[c].kind = "update"   -> op[c].cfg
      [] op[c].kind = "reload"   -> cand[c]
      [] op[c].kind = "rollback" -> IF op[c].version \in DOMAIN history
                                    THEN backup[op[c].version] ELSE Damaged

\* Manager.mu is taken.  Rollback knows the version and loads its backup.
Lock(c) ==
    /\ mu = NoCaller /\ mu' = c
    /\ \/ /\ Candidate(c) \in Config
          /\ Go(c, "lock", IF op[c].kind = "reload" THEN "apply" ELSE "write")
          /\ cand' = [cand EXCEPT ![c] = Candidate(c)]
          /\ prev' = [prev EXCEPT ![c] = current]
          /\ UNCHANGED <<result, faults>>
       \/ /\ \/ (Candidate(c) \notin Config /\ UNCHANGED faults)
             \/ (op[c].kind = "rollback" /\ Fault)
          /\ Finish(c, "lock", "failed")
          /\ UNCHANGED <<cand, prev>>
    /\ UNCHANGED <<disk, memory, op, calls, crashes, edits, ghosts>>

-----------------------------------------------------------------------------
(* The candidate is written, read back (by Update only) and applied.       *)

WriteCandidate(c) ==
    /\ \/ /\ Go(c, "write", IF op[c].kind = "update" THEN "readBack" ELSE "apply")
          /\ Write(cand[c], c)
          /\ UNCHANGED <<result, faults>>
       \/ /\ Fault
          /\ Finish(c, "write", "failed")
          /\ UNCHANGED <<file, overtaken>>
    /\ UNCHANGED <<backup, memory, mu, op, cand, prev, calls, crashes, edits, acked, settled, spoilt>>

\* Update goes on with what it reads back.
ReadBack(c) ==
    /\ \/ /\ file \in Config
          /\ Go(c, "readBack", "apply")
          /\ cand' = [cand EXCEPT ![c] = file]
          /\ UNCHANGED faults
       \/ /\ (file \notin Config /\ UNCHANGED faults) \/ Fault
          /\ Go(c, "readBack", "undo")
          /\ UNCHANGED cand
    /\ overtaken' = overtaken \ {c}
    /\ UNCHANGED <<disk, memory, mu, op, prev, result, calls, crashes, edits, acked, settled, spoilt>>

\* What the runtime takes over without a restart.
Applicable_Unvalidated(k) == Listener[k] = Listener[running]

Applicable(k) == Listener[k] = Listener[running] /\ k \notin Undeliverable

\* The runtime is asked first; then the manager has a new version.
Apply_Optimistic(c) ==
    /\ pc[c] = "apply"
    /\ IF Applicable(cand[c])
       THEN Go(c, "apply", "backup") /\ running' = cand[c] /\ UNCHANGED result
       ELSE /\ IF op[c].kind = "reload" THEN Finish(c, "apply", "failed")
                                        ELSE Go(c, "apply", "undo") /\ UNCHANGED result
            /\ UNCHANGED running
    /\ current' = cand[c]
    /\ history' = Append(history, cand[c])
    /\ UNCHANGED <<disk, up, mu, op, cand, prev, bounds, ghosts>>

Apply(c) ==
    /\ pc[c] = "apply"
    /\ \/ /\ Applicable(cand[c])
          /\ Go(c, "apply", "backup")
          /\ running' = cand[c]
          /\ current' = cand[c]
          /\ history' = Append(history, cand[c])
          /\ UNCHANGED result
       \/ /\ ~Applicable(cand[c])
          /\ IF op[c].kind = "reload" THEN Finish(c, "apply", "failed")
                                      ELSE Go(c, "apply", "undo") /\ UNCHANGED result
          /\ UNCHANGED <<running, current, history>>
    /\ UNCHANGED <<disk, up, mu, op, cand, prev, bounds, ghosts>>

\* The version whose backup is written, which is the newest.
NewVersion_Stale == Len(history) - 1

NewVersion == Len(history)

\* os.WriteFile replaces the backup in place, so that a failure may leave the
\* old one, a damaged one or the new one.  It comes after the runtime has
\* already taken the configuration over.
WriteBackup(c) ==
    /\ \/ /\ Finish(c, "backup", "ok")
          /\ backup' = [v \in Versions |-> IF v = NewVersion THEN cand[c] ELSE backup[v]]
          /\ acked' = cand[c]
          /\ settled' = (c \notin overtaken)
          /\ UNCHANGED <<faults, spoilt>>
       \/ /\ Fault
          /\ IF op[c].kind = "reload" THEN Finish(c, "backup", "failed")
                                      ELSE Go(c, "backup", "undo") /\ UNCHANGED result
          /\ \E k \in {backup[NewVersion], Damaged, cand[c]} :
                backup' = [backup EXCEPT ![NewVersion] = k]
          /\ settled' = FALSE
          /\ spoilt' = spoilt \cup {NewVersion}
          /\ UNCHANGED acked
    /\ UNCHANGED <<file, memory, mu, op, cand, prev, calls, crashes, edits, overtaken>>

\* The previous configuration goes back into the file.
Undo_Skipped(c) ==
    /\ Finish(c, "undo", "rolledBack")
    /\ UNCHANGED <<disk, memory, mu, op, cand, prev, bounds, ghosts>>

Undo(c) ==
    /\ \/ /\ Finish(c, "undo", IF op[c].kind = "update" THEN "rolledBack" ELSE "failed")
          /\ Write(prev[c], c)
          /\ UNCHANGED <<faults, settled>>
       \/ /\ Fault
          /\ Finish(c, "undo", "broken")
          /\ settled' = FALSE
          /\ UNCHANGED <<file, overtaken>>
    /\ UNCHANGED <<backup, memory, mu, op, cand, prev, calls, crashes, edits, acked, spoilt>>

Return(c) ==
    /\ Go(c, "unlock", "idle")
    /\ mu' = IF mu = c THEN NoCaller ELSE mu
    /\ op' = [op EXCEPT ![c] = [kind |-> "reload"]]
    /\ cand' = [cand EXCEPT ![c] = Damaged]
    /\ prev' = [prev EXCEPT ![c] = Damaged]
    /\ result' = [result EXCEPT ![c] = "ok"]
    /\ overtaken' = overtaken \ {c}
    /\ UNCHANGED <<disk, memory, bounds, acked, settled, spoilt>>

-----------------------------------------------------------------------------
(* The environment.                                                        *)

\* NewManager keeps a backup of what it loads, which newApplication may still
\* refuse.  The history starts over and the older backups stay where they are.
Start ==
    /\ ~up
    /\ \/ /\ Startable(file)
          /\ up' = TRUE
          /\ running' = file /\ current' = file /\ history' = <<file>>
          /\ backup' = [backup EXCEPT ![1] = file]
          /\ acked' = file /\ settled' = TRUE
          /\ UNCHANGED faults
       \/ /\ \/ (file \in Undeliverable /\ UNCHANGED faults)
             \/ (file \in Config /\ Fault)
          /\ \E k \in {backup[1], Damaged, file} : backup' = [backup EXCEPT ![1] = k]
          /\ UNCHANGED <<up, running, current, history, acked, settled>>
    /\ spoilt' = {} /\ overtaken' = {}
    /\ UNCHANGED <<file, mu, local, calls, crashes, edits>>

\* The daemon dies; a backup it was writing may be cut short.
Crash ==
    /\ up
    /\ crashes < MaxCrashes /\ crashes' = crashes + 1
    /\ up' = FALSE
    /\ backup' \in {backup} \cup
          (IF \E c \in Caller : pc[c] = "backup"
           THEN {[backup EXCEPT ![NewVersion] = Damaged]} ELSE {})
    /\ mu' = NoCaller
    /\ pc' = [c \in Caller |-> "idle"]
    /\ op' = [c \in Caller |-> [kind |-> "reload"]]
    /\ cand' = [c \in Caller |-> Damaged]
    /\ prev' = [c \in Caller |-> Damaged]
    /\ result' = [c \in Caller |-> "ok"]
    /\ UNCHANGED <<file, running, current, history, calls, faults, edits, ghosts>>

Edit(k) ==
    /\ edits < MaxEdits /\ edits' = edits + 1
    /\ k # file
    /\ Write(k, NoCaller)
    /\ settled' = FALSE
    /\ UNCHANGED <<backup, memory, mu, local, calls, faults, crashes, acked, spoilt>>

-----------------------------------------------------------------------------
Next ==
    \/ \E c \in Caller :
        \/ \E o \in Operations : Call(c, o)
        \/ Read(c) \/ Lock(c) \/ WriteCandidate(c) \/ ReadBack(c)
        \/ Apply(c) \/ WriteBackup(c) \/ Undo(c) \/ Return(c)
    \/ Start \/ Crash
    \/ \E k \in Content : Edit(k)

Spec == Init /\ [][Next]_vars

-----------------------------------------------------------------------------
(* Properties.                                                             *)

TypeOK ==
    /\ file \in Content
    /\ backup \in [Versions -> Content]
    /\ up \in BOOLEAN
    /\ running \in Config \ Undeliverable /\ current \in Config \ Undeliverable
    /\ history \in Seq(Config) /\ Len(history) <= calls + 1
    /\ mu \in Caller \cup {NoCaller}
    /\ pc \in [Caller -> Steps]
    /\ op \in [Caller -> Operations]
    /\ cand \in [Caller -> Content] /\ prev \in [Caller -> Content]
    /\ result \in [Caller -> Results]
    /\ calls \in Nat /\ faults \in Nat /\ crashes \in Nat /\ edits \in Nat
    /\ acked \in Config /\ settled \in BOOLEAN
    /\ spoilt \subseteq Versions /\ overtaken \subseteq Caller

Quiet == up /\ mu = NoCaller

\* The manager never reports a configuration that the runtime refused, nor
\* keeps silent about one that it took over: what GET /config shows, the newest
\* version of the history and what the runtime goes by are one, whatever failed.
ReportsWhatRuns ==
    Quiet => /\ running = current
             /\ history # <<>> /\ history[Len(history)] = running

\* Between operations the runtime goes by the configuration acknowledged last,
\* and so will the next daemon, unless the file was edited behind the manager,
\* a write failed, or a reload was overtaken by a later write.
AcknowledgedIsInForce ==
    Quiet /\ settled => running = acked /\ file = acked

\* "configuration was rolled back" (manager.go:118): the runtime and the file
\* are what they were when the operation began.
RolledBackIsRestored ==
    \A c \in Caller :
        pc[c] = "unlock" /\ result[c] = "rolledBack" => running = prev[c] /\ file = prev[c]

\* Going back to a version brings that version back, across restarts that start
\* the numbering over and leave other backups behind, unless its own backup
\* could not be written.
RollbackFindsTheVersion ==
    [][\A c \in Caller :
          /\ pc[c] = "backup" /\ pc'[c] = "unlock" /\ result'[c] = "ok"
          /\ op[c].kind = "rollback" /\ op[c].version \notin spoilt
          => running' = history[op[c].version]]_vars

=============================================================================
