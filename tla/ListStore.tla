------------------------------ MODULE ListStore -------------------------------
(***************************************************************************)
(* The durable address lists: storage.State, whose mutex serialises the    *)
(* mutations of the shared blacklist and whitelist, over                   *)
(* storage.FileStore, which replaces the snapshot file by way of a         *)
(* temporary one, over a file system in which data and directory entries   *)
(* reach the disk only when they are synced or when the system chooses to  *)
(* write them back (storage/storage.go).                                   *)
(*                                                                         *)
(* Around it: every system call may fail, the process may die between any  *)
(* two of them, and so may the host, which then keeps what was on disk.    *)
(***************************************************************************)
EXTENDS ListRules, Naturals

CONSTANTS
    Client,         \* goroutines that mutate the lists
    Boot,           \* the goroutine that runs NewState
    NoThread,       \* the mutex is free
    MaxCalls,       \* bound: mutations called
    MaxFaults,      \* bound: system calls that fail
    MaxCrashes      \* bound: deaths of the process or of the host

Thread == Client \cup {Boot}

ASSUME ThreadAssumption == Boot \notin Client /\ NoThread \notin Thread

VARIABLES
    mem,        \* the managers' lists, which readers see under their own locks
    mu,         \* the holder of State.mu, or NoThread
    saver,      \* the holder of FileStore.mu, or NoThread
    pc,         \* where each thread is
    op,         \* the mutation each thread performs
    target,     \* the snapshot it is saving
    synced,     \* the data of its temporary file is on disk
    result,     \* what its mutation returns
    file,       \* the snapshot file as processes see it
    fileSynced, \* its data is on disk
    disk,       \* the snapshot file a host finds when it starts again
    \* bounds and history, which no action of the code reads
    calls, faults, crashes,
    fact,       \* what the last acknowledged mutation of an address promised
    unsettled   \* addresses of mutations that replaced the file without a sync

local  == <<pc, op, target, synced, result>>
files  == <<file, fileSynced, disk>>
bounds == <<calls, faults, crashes>>
ghosts == <<fact, unsettled>>
vars   == <<mem, mu, saver, local, files, bounds, ghosts>>

\* There is no snapshot file; one whose data never reached the disk; a whole
\* one.
Absent     == [is |-> "absent", lists |-> Empty]
Torn       == [is |-> "torn", lists |-> Empty]
Written(l) == [is |-> "written", lists |-> l]

Files == [is : {"absent", "torn", "written"}, lists : Lists]
Facts == {"none", "AddBlacklist", "AddWhitelist", "RemoveBlacklist"}

NoMutation(ip) == [kind |-> "RemoveBlacklist", ip |-> ip]

Saving == {"create", "write", "sync", "rename", "syncDir"}
Steps  == Saving \cup {"idle", "lock", "install", "unlock", "load", "up", "refused"}

Up == pc[Boot] = "up"

\* The daemon starts on what its previous life left, if it had one.
Init ==
    /\ mem = Empty
    /\ mu = NoThread /\ saver = NoThread
    /\ pc = [t \in Thread |-> IF t = Boot THEN "load" ELSE "idle"]
    /\ op \in {[t \in Thread |-> NoMutation(ip)] : ip \in Addr}
    /\ target = [t \in Thread |-> Empty]
    /\ synced = [t \in Thread |-> FALSE]
    /\ result = [t \in Thread |-> "ok"]
    /\ \/ file = Absent
       \/ \E l \in Lists : Consistent(l) /\ file = Written(l)
    /\ disk = file /\ fileSynced = TRUE
    /\ calls = 0 /\ faults = 0 /\ crashes = 0
    /\ fact = [ip \in Addr |-> "none"]
    /\ unsettled = {}

-----------------------------------------------------------------------------
Go(t, from, to) == pc[t] = from /\ pc' = [pc EXCEPT ![t] = to]

Fault == faults < MaxFaults /\ faults' = faults + 1

\* Save returns: its temporary file and its copy of the snapshot are gone.
EndSave(t) ==
    /\ saver' = IF saver = t THEN NoThread ELSE saver
    /\ target' = [target EXCEPT ![t] = Empty]
    /\ synced' = [synced EXCEPT ![t] = FALSE]

\* The addresses whose last acknowledged mutation is forgotten.
Forget(S) == [ip \in Addr |-> IF ip \in S THEN "none" ELSE fact[ip]]

-----------------------------------------------------------------------------
(* FileStore.Save, run by NewState and by the mutations.                   *)

\* FileStore.mu is taken and a temporary file created.
CreateTemp(t) ==
    /\ saver = NoThread
    /\ Go(t, "create", "write")
    /\ saver' = t
    /\ UNCHANGED <<mem, mu, op, target, synced, result, files, bounds, ghosts>>

WriteTemp(t) ==
    /\ Go(t, "write", "sync")
    /\ UNCHANGED <<mem, mu, saver, op, target, synced, result, files, bounds, ghosts>>

SyncTemp_Skipped(t) ==
    /\ Go(t, "sync", "rename")
    /\ UNCHANGED <<mem, mu, saver, op, target, synced, result, files, bounds, ghosts>>

SyncTemp(t) ==
    /\ Go(t, "sync", "rename")
    /\ synced' = [synced EXCEPT ![t] = TRUE]
    /\ UNCHANGED <<mem, mu, saver, op, target, result, files, bounds, ghosts>>

\* Processes see the new snapshot from here on; the disk may not have it yet.
Rename(t) ==
    /\ Go(t, "rename", "syncDir")
    /\ file' = Written(target[t])
    /\ fileSynced' = synced[t]
    /\ UNCHANGED <<mem, mu, saver, op, target, synced, result, disk, bounds, ghosts>>

\* What reaches the disk with the directory entry.
OnDisk == IF fileSynced THEN {file} ELSE {file, Torn}

\* The end of a successful Save; NewState is done with it.
SyncDir(t) ==
    /\ Go(t, "syncDir", IF t = Boot THEN "up" ELSE "install")
    /\ disk' \in OnDisk
    /\ EndSave(t)
    /\ unsettled' = {}
    /\ UNCHANGED <<mem, mu, op, result, file, fileSynced, bounds, fact>>

\* The deferred Remove of the temporary file does nothing after the rename.
\* A NewState that fails ends the process, and its supervisor tries again.
SaveFails_Acknowledged(t) ==
    /\ pc[t] \in Saving
    /\ Fault
    /\ pc' = [pc EXCEPT ![t] =
                 IF t = Boot THEN "load" ELSE IF pc[t] = "syncDir" THEN "install" ELSE "unlock"]
    /\ EndSave(t)
    /\ result' = [result EXCEPT ![t] = IF pc[t] = "syncDir" THEN "ok" ELSE "failed"]
    /\ unsettled' = unsettled
    /\ UNCHANGED <<mem, mu, op, files, calls, crashes, fact>>

SaveFails(t) ==
    /\ pc[t] \in Saving
    /\ Fault
    /\ pc' = [pc EXCEPT ![t] = IF t = Boot THEN "load" ELSE "unlock"]
    /\ EndSave(t)
    /\ result' = IF t = Boot THEN result ELSE [result EXCEPT ![t] = "failed"]
    /\ unsettled' = IF t # Boot /\ pc[t] = "syncDir"
                    THEN unsettled \cup {op[t].ip} ELSE unsettled
    /\ UNCHANGED <<mem, mu, op, files, calls, crashes, fact>>

Save(t) ==
    \/ CreateTemp(t) \/ WriteTemp(t) \/ SyncTemp(t) \/ Rename(t)
    \/ SyncDir(t) \/ SaveFails(t)

-----------------------------------------------------------------------------
(* NewState.                                                               *)

\* Addresses left unsettled may have come back either way: from here on
\* nothing is promised about them.

\* There is no file yet: an empty snapshot is saved.
LoadNothing ==
    /\ file = Absent
    /\ Go(Boot, "load", "create")
    /\ target' = [target EXCEPT ![Boot] = Empty]
    /\ fact' = Forget(unsettled)
    /\ UNCHANGED <<mem, mu, saver, op, synced, result, files, bounds, unsettled>>

Loadable(f) == f.is # "torn" /\ Consistent(f.lists)

\* A snapshot that cannot be loaded keeps the daemon from ever starting.
Load ==
    /\ file # Absent
    /\ Go(Boot, "load", IF Loadable(file) THEN "up" ELSE "refused")
    /\ mem' = IF Loadable(file) THEN file.lists ELSE mem
    /\ fact' = Forget(unsettled)
    /\ UNCHANGED <<mu, saver, op, target, synced, result, files, bounds, unsettled>>

-----------------------------------------------------------------------------
(* AddBlacklist, AddWhitelist and RemoveBlacklist.  The address is valid:  *)
(* another is refused before anything happens.                             *)

Call(t, m) ==
    /\ Up
    /\ calls < MaxCalls /\ calls' = calls + 1
    /\ Go(t, "idle", "lock")
    /\ op' = [op EXCEPT ![t] = m]
    /\ UNCHANGED <<mem, mu, saver, target, synced, result, files, faults, crashes, ghosts>>

Acquire_Unserialised(t) == UNCHANGED mu

Acquire(t) == mu = NoThread /\ mu' = t

\* The lists already are as asked, or the other list has the address.
Answer(t) ==
    /\ Acquire(t)
    /\ Go(t, "lock", "unlock")
    /\ \/ /\ Conflict(mem, op[t])
          /\ result' = [result EXCEPT ![t] = "conflict"]
       \/ /\ ~Conflict(mem, op[t])
          /\ Effect(mem, op[t]) = mem
          /\ result' = [result EXCEPT ![t] = "ok"]
    /\ UNCHANGED <<mem, saver, op, target, synced, files, bounds, ghosts>>

\* The lists change: the new snapshot is to be saved first.
Prepare(t) ==
    /\ Acquire(t)
    /\ ~Conflict(mem, op[t])
    /\ Effect(mem, op[t]) # mem
    /\ Go(t, "lock", "create")
    /\ target' = [target EXCEPT ![t] = Effect(mem, op[t])]
    /\ fact' = Forget({op[t].ip})
    /\ UNCHANGED <<mem, saver, op, synced, result, files, bounds, unsettled>>

Install(t) ==
    /\ Go(t, "install", "unlock")
    /\ mem' = Effect(mem, op[t])
    /\ result' = [result EXCEPT ![t] = "ok"]
    /\ UNCHANGED <<mu, saver, op, target, synced, files, bounds, ghosts>>

\* The mutex is released and the caller has its answer.
Return(t) ==
    /\ Go(t, "unlock", "idle")
    /\ mu' = IF mu = t THEN NoThread ELSE mu
    /\ fact' = IF result[t] = "ok" THEN [fact EXCEPT ![op[t].ip] = op[t].kind] ELSE fact
    /\ UNCHANGED <<mem, saver, op, target, synced, result, files, bounds, unsettled>>

Mutate(t) == Answer(t) \/ Prepare(t) \/ Install(t) \/ Return(t)

-----------------------------------------------------------------------------
(* The environment.                                                        *)

\* The system writes the directory back on its own.
WriteBack ==
    /\ disk # file
    /\ disk' \in OnDisk
    /\ UNCHANGED <<mem, mu, saver, local, file, fileSynced, bounds, ghosts>>

\* Every thread is gone; NewState starts over.  A mutation whose rename was
\* not synced is left unsettled.
Die ==
    /\ crashes < MaxCrashes /\ crashes' = crashes + 1
    /\ mem' = Empty
    /\ mu' = NoThread /\ saver' = NoThread
    /\ pc' = [t \in Thread |-> IF t = Boot THEN "load" ELSE "idle"]
    /\ unsettled' = unsettled \cup {op[t].ip : t \in {u \in Client : pc[u] = "syncDir"}}
    /\ target' = [t \in Thread |-> Empty]
    /\ synced' = [t \in Thread |-> FALSE]
    /\ result' = [t \in Thread |-> "ok"]
    /\ UNCHANGED <<op, calls, faults, fact>>

\* The process dies: the file system is as it left it.
Crash == Die /\ UNCHANGED files

\* The host dies: what is on disk is what there is.
PowerLoss ==
    /\ Die
    /\ file' = disk /\ fileSynced' = TRUE
    /\ UNCHANGED disk

-----------------------------------------------------------------------------
Next ==
    \/ LoadNothing \/ Load
    \/ \E t \in Thread : Save(t)
    \/ \E t \in Client : Mutate(t) \/ \E m \in Mutations : Call(t, m)
    \/ WriteBack \/ Crash \/ PowerLoss

Spec == Init /\ [][Next]_vars

-----------------------------------------------------------------------------
(* Properties.                                                             *)

TypeOK ==
    /\ mem \in Lists /\ Consistent(mem)
    /\ mu \in Client \cup {NoThread}
    /\ saver \in Thread \cup {NoThread}
    /\ pc \in [Thread -> Steps]
    /\ op \in [Thread -> Mutations]
    /\ target \in [Thread -> Lists]
    /\ synced \in [Thread -> BOOLEAN]
    /\ result \in [Thread -> {"ok", "failed", "conflict"}]
    /\ file \in Files /\ disk \in Files /\ fileSynced \in BOOLEAN
    /\ calls \in Nat /\ faults \in Nat /\ crashes \in Nat
    /\ fact \in [Addr -> Facts]
    /\ unsettled \subseteq Addr

\* A daemon that was killed anywhere, with its host or without, comes up
\* again: what a restart can find is never a torn snapshot and never has an
\* address in both lists, which NewState would refuse for ever
\* (storage.go:66, 213).
RestartNeverRefused == Loadable(file) /\ Loadable(disk)

\* Lists l are as the mutation k of ip, once acknowledged, promised.
Holds(k, ip, l) ==
    /\ k = "AddBlacklist"    => ip \in l.black
    /\ k = "AddWhitelist"    => ip \in l.white
    /\ k = "RemoveBlacklist" => ip \notin l.black

Kept(ip) == Holds(fact[ip], ip, file.lists) /\ Holds(fact[ip], ip, disk.lists)

\* An acknowledged mutation outlives any crash, until the next mutation of
\* its address starts: "State owns the shared blacklist and whitelist and
\* commits mutations durably" (storage.go:174).
AcknowledgedIsDurable == \A ip \in Addr : Kept(ip)

\* The same where no mutation replaced the file and failed to sync it:
\* addresses of those stay in doubt until the next save goes through.
AcknowledgedIsDurableWhenSettled ==
    \A ip \in Addr \ unsettled : Kept(ip)

\* Readers of the lists never see a mutation that a restart could undo, a
\* conflict applied, or lists that no mutation asked for: the store
\* implements the durable lists, what a restart may find being the snapshot
\* processes see and the one on disk.
Snapshots == {file.lists, disk.lists}

Durable == INSTANCE DurableLists WITH up <- Up, view <- mem, may <- Snapshots

ImplementsDurableLists == Durable!Spec

=============================================================================
