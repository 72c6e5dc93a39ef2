--------------------------- MODULE ListStoreProofs ----------------------------
(***************************************************************************)
(* Theorems about ListStore for any number of clients, addresses, calls,   *)
(* failing system calls and crashes.                                       *)
(*                                                                         *)
(* Control says who may be where: one holder of State.mu, nobody mutating  *)
(* before NewState is done.  Snap relates the snapshot under way to the    *)
(* lists and to the file.  Promise relates what was acknowledged to the    *)
(* lists and to both copies of the file.                                   *)
(***************************************************************************)
EXTENDS ListStore, TLAPS

Held == {"create", "write", "sync", "rename", "syncDir", "install", "unlock"}

Control ==
    /\ pc[Boot] \in Saving \cup {"load", "up"}
    /\ \A c \in Client : pc[c] \in Held \cup {"idle", "lock"}
    /\ \A c \in Client : pc[c] \in Held => mu = c
    /\ ~Up => \A c \in Client : pc[c] = "idle"
    /\ \A t \in Thread : pc[t] \in {"rename", "syncDir"} => synced[t]
    /\ fileSynced

Snap ==
    /\ ~Up => mem = Empty
    /\ Loadable(file) /\ Loadable(disk)
    /\ file.is = "absent" => file.lists = Empty /\ disk.lists = Empty
    /\ disk.is = "absent" => disk.lists = Empty
    /\ pc[Boot] \in Saving =>
          target[Boot] = Empty /\ file.lists = Empty /\ disk.lists = Empty
    /\ \A c \in Client : pc[c] \in Saving \cup {"install"} => ~Conflict(mem, op[c])
    /\ \A c \in Client : pc[c] \in Saving => target[c] = Effect(mem, op[c])
    /\ \A t \in Thread : pc[t] = "syncDir" => file.lists = target[t]
    /\ \A c \in Client : pc[c] = "install" =>
          file.lists = Effect(mem, op[c]) /\ disk.lists = Effect(mem, op[c])

StoreInv == TypeOK /\ Control /\ Snap

Same(l, k, ip) == (ip \in l.black <=> ip \in k.black) /\ (ip \in l.white <=> ip \in k.white)

\* A mutation of ip is on its way from the file to the lists.
InDoubt(ip, S) == \E c \in Client : pc[c] \in S /\ op[c].ip = ip

Promise ==
    /\ \A c \in Client : pc[c] \in Saving \cup {"install"} => fact[op[c].ip] = "none"
    /\ \A c \in Client : pc[c] = "unlock" /\ result[c] = "ok" => Effect(mem, op[c]) = mem
    /\ Up => \A ip \in Addr : Holds(fact[ip], ip, mem)
    /\ pc[Boot] \in Saving => \A ip \in unsettled : fact[ip] = "none"
    /\ AcknowledgedIsDurableWhenSettled
    /\ \A ip \in Addr \ unsettled :
          Same(file.lists, disk.lists, ip) \/ InDoubt(ip, {"syncDir"})
    /\ Up => \A ip \in Addr \ unsettled :
                Same(mem, file.lists, ip) \/ InDoubt(ip, {"syncDir", "install"})

-----------------------------------------------------------------------------
(* The mutations of the lists.                                             *)

\* A mutation makes lists of lists.
LEMMA EffectType ==
    ASSUME NEW l \in Lists, NEW m \in Mutations
    PROVE  Effect(l, m) \in Lists
<1>1. m.kind \in Kinds /\ m.ip \in Addr
  BY DEF Mutations
<1>2. CASE m.kind = "AddBlacklist"
  BY <1>1, <1>2 DEF Effect, Lists
<1>3. CASE m.kind = "AddWhitelist"
  BY <1>1, <1>3 DEF Effect, Lists
<1>4. CASE m.kind = "RemoveBlacklist"
  BY <1>1, <1>4 DEF Effect, Lists
<1> QED
  BY <1>1, <1>2, <1>3, <1>4 DEF Kinds

\* One without a conflict keeps the lists apart.
LEMMA EffectConsistent ==
    ASSUME NEW l \in Lists, NEW m \in Mutations, Consistent(l), ~Conflict(l, m)
    PROVE  Consistent(Effect(l, m))
<1>1. m.kind \in Kinds /\ m.ip \in Addr
  BY DEF Mutations
<1>2. CASE m.kind = "AddBlacklist"
  BY <1>1, <1>2 DEF Effect, Lists, Consistent, Conflict
<1>3. CASE m.kind = "AddWhitelist"
  BY <1>1, <1>3 DEF Effect, Lists, Consistent, Conflict
<1>4. CASE m.kind = "RemoveBlacklist"
  BY <1>1, <1>4 DEF Effect, Lists, Consistent
<1> QED
  BY <1>1, <1>2, <1>3, <1>4 DEF Kinds

\* Doing it again changes nothing.
LEMMA EffectTwice ==
    ASSUME NEW l \in Lists, NEW m \in Mutations
    PROVE  Effect(Effect(l, m), m) = Effect(l, m)
<1>1. m.kind \in Kinds /\ m.ip \in Addr
  BY DEF Mutations
<1>2. CASE m.kind = "AddBlacklist"
  BY <1>1, <1>2 DEF Effect, Lists
<1>3. CASE m.kind = "AddWhitelist"
  BY <1>1, <1>3 DEF Effect, Lists
<1>4. CASE m.kind = "RemoveBlacklist"
  BY <1>1, <1>4 DEF Effect, Lists
<1> QED
  BY <1>1, <1>2, <1>3, <1>4 DEF Kinds

\* The empty lists are lists, apart, and can be loaded.
LEMMA EmptyIsLoadable ==
    Empty \in Lists /\ Consistent(Empty) /\ Absent \in Files /\ Loadable(Absent)
  BY DEF Empty, Lists, Consistent, Absent, Files, Loadable

\* So can a whole snapshot of lists that are apart.
LEMMA WrittenIsLoadable ==
    ASSUME NEW l \in Lists, Consistent(l)
    PROVE  /\ Written(l) \in Files /\ Loadable(Written(l))
           /\ Written(l).lists = l /\ Written(l).is # "absent"
  BY DEF Written, Files, Loadable, Absent

\* No client is the goroutine of NewState, and neither is nobody.
LEMMA ThreadsDiffer ==
    /\ Boot \in Thread /\ Boot \notin Client
    /\ NoThread \notin Client /\ NoThread # Boot
    /\ \A t \in Thread : t # Boot => t \in Client
    /\ \A c \in Client : c \in Thread
  BY ThreadAssumption DEF Thread

-----------------------------------------------------------------------------
(* Preservation of the invariant.                                          *)

LEMMA InitStore == Init => StoreInv
<1> SUFFICES ASSUME Init PROVE StoreInv
  OBVIOUS
<1> USE ThreadsDiffer
<1>1. file \in Files /\ Loadable(file) /\ (file.is = "absent" => file.lists = Empty)
  <2>1. Absent.lists = Empty
    BY DEF Absent
  <2> QED
    BY <2>1, EmptyIsLoadable, WrittenIsLoadable DEF Init
<1>2. PICK ip \in Addr : op = [t \in Thread |-> NoMutation(ip)]
  BY DEF Init
<1>3. op \in [Thread -> Mutations]
  BY <1>2 DEF NoMutation, Mutations, Kinds
<1>4. TypeOK
  BY <1>1, <1>3, EmptyIsLoadable DEF Init, TypeOK, Steps, Facts
<1>5. Control
  BY DEF Init, Control, Up, Saving, Held
<1>6. Snap
  BY <1>1 DEF Init, Snap, Saving
<1> QED
  BY <1>4, <1>5, <1>6 DEF StoreInv

\* The steps of Save.
LEMMA SaveStore ==
    ASSUME StoreInv, NEW t \in Thread, Save(t)
    PROVE  StoreInv'
<1> USE ThreadsDiffer DEF StoreInv
<1>1. CASE CreateTemp(t)
  <2>1. TypeOK'
    BY <1>1 DEF CreateTemp, Go, TypeOK, Steps, Saving, files, bounds, ghosts
  <2>2. Control'
    BY <1>1 DEF CreateTemp, Go, TypeOK, Control, Held, Saving, Up, files
  <2>3. Snap'
    BY <1>1 DEF CreateTemp, Go, TypeOK, Control, Snap, Saving, Up, files
  <2> QED
    BY <2>1, <2>2, <2>3
<1>2. CASE WriteTemp(t)
  <2>1. TypeOK'
    BY <1>2 DEF WriteTemp, Go, TypeOK, Steps, Saving, files, bounds, ghosts
  <2>2. Control'
    BY <1>2 DEF WriteTemp, Go, TypeOK, Control, Held, Saving, Up, files
  <2>3. Snap'
    BY <1>2 DEF WriteTemp, Go, TypeOK, Control, Snap, Saving, Up, files
  <2> QED
    BY <2>1, <2>2, <2>3
<1>3. CASE SyncTemp(t)
  <2>1. TypeOK'
    BY <1>3 DEF SyncTemp, Go, TypeOK, Steps, Saving, files, bounds, ghosts
  <2>2. Control'
    BY <1>3 DEF SyncTemp, Go, TypeOK, Control, Held, Saving, Up, files
  <2>3. Snap'
    BY <1>3 DEF SyncTemp, Go, TypeOK, Control, Snap, Saving, Up, files
  <2> QED
    BY <2>1, <2>2, <2>3
<1>4. CASE Rename(t)
  <2>1. target[t] \in Lists /\ Consistent(target[t])
    <3>1. CASE t = Boot
      BY <1>4, <3>1, EmptyIsLoadable DEF Rename, Go, Snap, Saving
    <3>2. CASE t # Boot
      <4>1. /\ t \in Client /\ op[t] \in Mutations /\ mem \in Lists /\ Consistent(mem)
            /\ ~Conflict(mem, op[t]) /\ target[t] = Effect(mem, op[t])
        BY <1>4, <3>2 DEF Rename, Go, Snap, Saving, TypeOK
      <4> QED
        BY <4>1, EffectType, EffectConsistent
    <3> QED
      BY <3>1, <3>2
  <2>2. /\ file' \in Files /\ Loadable(file') /\ file'.lists = target[t]
        /\ file'.is # "absent"
        /\ fileSynced' = TRUE /\ pc[t] = "rename"
        /\ pc' = [pc EXCEPT ![t] = "syncDir"]
    <3>1. synced[t] = TRUE
      BY <1>4 DEF Rename, Go, Control, TypeOK
    <3> QED
      BY <1>4, <2>1, <3>1, WrittenIsLoadable DEF Rename, Go
  <2>3. TypeOK'
    BY <1>4, <2>2 DEF Rename, TypeOK, Steps, Saving, bounds, ghosts
  <2>4. Control'
    BY <1>4, <2>2 DEF Rename, TypeOK, Control, Held, Saving, Up
  <2>5. \A u \in Thread : pc'[u] = "syncDir" => u = t
    <3>1. CASE t = Boot
      BY <2>2, <3>1 DEF Control, TypeOK, Up
    <3>2. CASE t # Boot
      BY <2>2, <3>2 DEF Control, TypeOK, Up, Held, Saving
    <3> QED
      BY <3>1, <3>2
  <2>6. \A c \in Client : pc'[c] # "install"
    BY <2>2 DEF Control, TypeOK, Up, Held, Saving
  <2>7. pc'[Boot] \in Saving => file'.lists = Empty /\ disk.lists = Empty
    BY <1>4, <2>2 DEF Control, Snap, TypeOK, Up, Saving
  <2>8. Snap'
    BY <1>4, <2>2, <2>5, <2>6, <2>7 DEF Rename, TypeOK, Snap, Saving, Up
  <2> QED
    BY <2>3, <2>4, <2>8
<1>5. CASE SyncDir(t)
  <2>1. /\ pc[t] = "syncDir" /\ disk' = file /\ file' = file /\ fileSynced' = fileSynced
        /\ pc' = [pc EXCEPT ![t] = IF t = Boot THEN "up" ELSE "install"]
    BY <1>5 DEF SyncDir, Go, OnDisk, Control
  <2>2. /\ target' = [target EXCEPT ![t] = Empty] /\ synced' = [synced EXCEPT ![t] = FALSE]
        /\ saver' \in {NoThread, saver}
    BY <1>5 DEF SyncDir, EndSave
  <2>3. TypeOK'
    BY <1>5, <2>1, <2>2, EmptyIsLoadable DEF SyncDir, TypeOK, Steps, Saving, bounds
  <2>4. Control'
    BY <1>5, <2>1, <2>2 DEF SyncDir, TypeOK, Control, Held, Saving, Up
  <2>5. \A u \in Thread : pc'[u] # "syncDir"
    <3>1. CASE t = Boot
      BY <2>1, <3>1 DEF Control, TypeOK, Up
    <3>2. CASE t # Boot
      BY <2>1, <3>2 DEF Control, TypeOK, Up, Held, Saving
    <3> QED
      BY <3>1, <3>2
  <2>6. \A c \in Client : pc'[c] = "install" => c = t
    BY <2>1 DEF Control, TypeOK, Up, Held, Saving
  <2>7. \A c \in Client : pc'[c] \in Saving => pc[c] \in Saving /\ c # t
    BY <2>1 DEF Control, TypeOK, Up, Held, Saving
  <2>8. pc'[Boot] \notin Saving
    BY <2>1 DEF Control, TypeOK, Up, Held, Saving
  <2>9. file.is = "absent" => file.lists = Empty
    BY DEF Snap
  <2>10. Snap'
    BY <1>5, <2>1, <2>2, <2>5, <2>6, <2>7, <2>8, <2>9 DEF SyncDir, TypeOK, Snap, Saving, Up
  <2> QED
    BY <2>3, <2>4, <2>10
<1>6. CASE SaveFails(t)
  <2>1. /\ pc' = [pc EXCEPT ![t] = IF t = Boot THEN "load" ELSE "unlock"]
        /\ target' = [target EXCEPT ![t] = Empty] /\ synced' = [synced EXCEPT ![t] = FALSE]
        /\ saver' \in {NoThread, saver} /\ pc[t] \in Saving
        /\ UNCHANGED <<mem, mu, op, files>>
    BY <1>6 DEF SaveFails, EndSave
  <2>2. TypeOK'
    <3>1. result' \in [Thread -> {"ok", "failed", "conflict"}]
      BY <1>6 DEF SaveFails, TypeOK
    <3>2. unsettled' \subseteq Addr
      BY <1>6 DEF SaveFails, TypeOK, Mutations
    <3>3. faults' \in Nat
      BY <1>6 DEF SaveFails, Fault, TypeOK
    <3>4. UNCHANGED <<calls, crashes, fact>>
      BY <1>6 DEF SaveFails
    <3> QED
      BY <2>1, <3>1, <3>2, <3>3, <3>4, EmptyIsLoadable DEF TypeOK, Steps, Saving, files
  <2>3. Control'
    BY <2>1 DEF TypeOK, Control, Held, Saving, Up, files
  <2>4. Snap'
    BY <2>1 DEF TypeOK, Control, Snap, Held, Saving, Up, files
  <2> QED
    BY <2>2, <2>3, <2>4
<1> QED
  BY <1>1, <1>2, <1>3, <1>4, <1>5, <1>6 DEF Save

\* NewState.
LEMMA LoadStore ==
    ASSUME StoreInv, LoadNothing \/ Load
    PROVE  StoreInv'
<1> USE ThreadsDiffer DEF StoreInv
<1>1. Forget(unsettled) \in [Addr -> Facts]
  BY DEF Forget, TypeOK, Facts
<1>2. CASE LoadNothing
  <2>1. TypeOK'
    BY <1>1, <1>2, EmptyIsLoadable
    DEF LoadNothing, Go, TypeOK, Steps, Saving, files, bounds
  <2>2. Control'
    BY <1>2 DEF LoadNothing, Go, TypeOK, Control, Held, Saving, Up, files
  <2>3. file.lists = Empty /\ disk.lists = Empty
    BY <1>2 DEF LoadNothing, Absent, Snap
  <2>4. Snap'
    BY <1>2, <2>3 DEF LoadNothing, Go, TypeOK, Control, Snap, Held, Saving, Up, files
  <2> QED
    BY <2>1, <2>2, <2>4
<1>3. CASE Load
  <2>1. /\ pc[Boot] = "load" /\ pc' = [pc EXCEPT ![Boot] = "up"]
        /\ mem' = file.lists /\ mem' \in Lists /\ Consistent(mem')
        /\ fact' = Forget(unsettled)
        /\ UNCHANGED <<mu, saver, op, target, synced, result, files, bounds, unsettled>>
    <3>1. Loadable(file)
      BY DEF Snap
    <3> QED
      BY <1>3, <3>1 DEF Load, Go, Loadable, TypeOK, Files
  <2>2. TypeOK'
    BY <1>1, <2>1 DEF TypeOK, Steps, Saving, files, bounds
  <2>3. Control'
    BY <2>1 DEF TypeOK, Control, Held, Saving, Up, files
  <2>4. Snap'
    BY <2>1 DEF TypeOK, Control, Snap, Held, Saving, Up, files
  <2> QED
    BY <2>2, <2>3, <2>4
<1> QED
  BY <1>2, <1>3

\* The steps of a mutation around its Save.
LEMMA MutateStore ==
    ASSUME StoreInv, NEW t \in Client, Mutate(t) \/ \E m \in Mutations : Call(t, m)
    PROVE  StoreInv'
<1> USE ThreadsDiffer DEF StoreInv
<1>1. ASSUME NEW m \in Mutations, Call(t, m) PROVE StoreInv'
  <2>1. TypeOK'
    BY <1>1 DEF Call, Go, TypeOK, Steps, Saving, files, ghosts
  <2>2. Control'
    BY <1>1 DEF Call, Go, TypeOK, Control, Held, Saving, Up, files
  <2>3. Snap'
    BY <1>1 DEF Call, Go, TypeOK, Control, Snap, Held, Saving, Up, files
  <2> QED
    BY <2>1, <2>2, <2>3
<1>2. CASE Answer(t)
  <2>1. TypeOK'
    BY <1>2 DEF Answer, Acquire, Go, TypeOK, Steps, Saving, files, bounds, ghosts
  <2>2. Control'
    BY <1>2 DEF Answer, Acquire, Go, TypeOK, Control, Held, Saving, Up, files
  <2>3. Snap'
    BY <1>2 DEF Answer, Acquire, Go, TypeOK, Control, Snap, Held, Saving, Up, files
  <2> QED
    BY <2>1, <2>2, <2>3
<1>3. CASE Prepare(t)
  <2>1. Forget({op[t].ip}) \in [Addr -> Facts]
    BY DEF Forget, TypeOK, Facts
  <2>2. Effect(mem, op[t]) \in Lists
    BY EffectType DEF TypeOK
  <2>3. TypeOK'
    BY <1>3, <2>1, <2>2 DEF Prepare, Acquire, Go, TypeOK, Steps, Saving, files, bounds
  <2>4. Control'
    BY <1>3 DEF Prepare, Acquire, Go, TypeOK, Control, Held, Saving, Up, files
  <2>5. Snap'
    BY <1>3 DEF Prepare, Acquire, Go, TypeOK, Control, Snap, Held, Saving, Up, files
  <2> QED
    BY <2>3, <2>4, <2>5
<1>4. CASE Install(t)
  <2>1. /\ pc[t] = "install" /\ pc' = [pc EXCEPT ![t] = "unlock"]
        /\ mem' = Effect(mem, op[t])
        /\ UNCHANGED <<mu, saver, op, target, synced, files, bounds, ghosts>>
    BY <1>4 DEF Install, Go
  <2>2. mem' \in Lists /\ Consistent(mem')
    BY <2>1, EffectType, EffectConsistent DEF TypeOK, Snap
  <2>3. result' \in [Thread -> {"ok", "failed", "conflict"}]
    BY <1>4 DEF Install, TypeOK
  <2>4. TypeOK'
    BY <2>1, <2>2, <2>3 DEF TypeOK, Steps, Saving, files, bounds, ghosts
  <2>5. Control'
    BY <2>1 DEF TypeOK, Control, Held, Saving, Up, files
  <2>6. \A c \in Client : pc'[c] \notin Saving \cup {"install"}
    BY <2>1 DEF TypeOK, Control, Held, Saving
  <2>7. pc'[Boot] = "up"
    BY <2>1 DEF TypeOK, Control, Up
  <2>8. Snap'
    BY <2>1, <2>6, <2>7 DEF TypeOK, Snap, Saving, Up, files
  <2> QED
    BY <2>4, <2>5, <2>8
<1>5. CASE Return(t)
  <2>1. fact' \in [Addr -> Facts]
    BY <1>5 DEF Return, TypeOK, Mutations, Kinds, Facts
  <2>2. TypeOK'
    BY <1>5, <2>1 DEF Return, Go, TypeOK, Steps, Saving, files, bounds
  <2>3. Control'
    BY <1>5 DEF Return, Go, TypeOK, Control, Held, Saving, Up, files
  <2>4. Snap'
    BY <1>5 DEF Return, Go, TypeOK, Control, Snap, Held, Saving, Up, files
  <2> QED
    BY <2>2, <2>3, <2>4
<1> QED
  BY <1>1, <1>2, <1>3, <1>4, <1>5 DEF Mutate

\* The environment.
LEMMA EnvironmentStore ==
    ASSUME StoreInv, WriteBack \/ Crash \/ PowerLoss
    PROVE  StoreInv'
<1> USE ThreadsDiffer DEF StoreInv
<1>1. CASE WriteBack
  <2>1. /\ disk' = file
        /\ UNCHANGED <<mem, mu, saver, local, file, fileSynced, bounds, ghosts>>
    BY <1>1 DEF WriteBack, OnDisk, Control
  <2>2. TypeOK'
    BY <2>1 DEF TypeOK, local, bounds, ghosts
  <2>3. Control'
    BY <2>1 DEF Control, Up, local
  <2>4. Snap'
    BY <2>1 DEF Snap, Up, local
  <2> QED
    BY <2>2, <2>3, <2>4
<1>2. CASE Crash \/ PowerLoss
  <2>1. Die
    BY <1>2 DEF Crash, PowerLoss
  <2>2. /\ file' \in {file, disk} /\ disk' = disk /\ fileSynced' \in {TRUE, fileSynced}
    BY <1>2 DEF Crash, PowerLoss, files
  <2>3. unsettled' \subseteq Addr
    BY <2>1 DEF Die, TypeOK, Mutations
  <2>4. crashes' \in Nat
    BY <2>1 DEF Die, TypeOK
  <2>5. TypeOK'
    BY <2>1, <2>2, <2>3, <2>4, EmptyIsLoadable DEF Die, TypeOK, Steps, Saving
  <2>6. Control'
    BY <2>1, <2>2 DEF Die, Control, Held, Saving, Up
  <2>7. Snap'
    BY <2>1, <2>2 DEF Die, Snap, Held, Saving, Up
  <2> QED
    BY <2>5, <2>6, <2>7
<1> QED
  BY <1>1, <1>2

LEMMA StepStore == StoreInv /\ [Next]_vars => StoreInv'
<1> SUFFICES ASSUME StoreInv, [Next]_vars PROVE StoreInv'
  OBVIOUS
<1>1. CASE UNCHANGED vars
  BY <1>1 DEF vars, local, files, bounds, ghosts, StoreInv, TypeOK, Control, Snap, Up
<1>2. CASE Next
  BY <1>2, LoadStore, SaveStore, MutateStore, EnvironmentStore DEF Next
<1> QED
  BY <1>1, <1>2

\* Every state keeps its types, and no address is ever in both of the lists
\* that readers see (storage.go:240, 260).
THEOREM TypeInvariant == Spec => []TypeOK
<1>1. StoreInv => TypeOK
  BY DEF StoreInv
<1> QED
  BY <1>1, InitStore, StepStore, PTL DEF Spec

\* Wherever the process or its host dies, NewState loads what it finds: a
\* snapshot is renamed into place only when its data is on disk, and only one
\* that was made, under the mutex, of lists without a conflict.
THEOREM RestartsLoad == Spec => []RestartNeverRefused
<1>1. StoreInv => RestartNeverRefused
  BY DEF StoreInv, Snap, RestartNeverRefused
<1> QED
  BY <1>1, InitStore, StepStore, PTL DEF Spec

-----------------------------------------------------------------------------
(* The store implements the durable lists.                                 *)

\* Both use the same data.
LEMMA SameRules ==
    /\ Durable!Empty = Empty /\ Durable!Lists = Lists /\ Durable!Mutations = Mutations
    /\ \A l : Durable!Consistent(l) <=> Consistent(l)
    /\ \A l, m : Durable!Effect(l, m) = Effect(l, m)
    /\ \A l, m : Durable!Conflict(l, m) <=> Conflict(l, m)
  BY DEF Durable!Empty, Empty, Durable!Lists, Lists, Durable!Mutations, Mutations,
         Durable!Kinds, Kinds, Durable!Consistent, Consistent,
         Durable!Effect, Effect, Durable!Conflict, Conflict

LEMMA InitDurable == StoreInv /\ Init => Durable!Init
<1> SUFFICES ASSUME StoreInv, Init PROVE Durable!Init
  OBVIOUS
<1>1. file \in Files /\ Loadable(file) /\ file = disk
  BY DEF StoreInv, TypeOK, Snap, Init
<1>2. file.lists \in Lists /\ Consistent(file.lists) /\ Snapshots = {file.lists}
  BY <1>1 DEF Files, Loadable, Snapshots
<1>3. ~Up /\ mem = Empty
  BY ThreadsDiffer DEF Init, Up
<1> QED
  BY <1>2, <1>3, SameRules DEF Durable!Init

\* Each step of the store is one of the durable lists, or none.
LEMMA StepDurable ==
    StoreInv /\ StoreInv' /\ [Next]_vars => [Durable!Next]_(Durable!vars)
<1> SUFFICES ASSUME StoreInv, StoreInv', [Next]_vars
             PROVE  [Durable!Next]_(Durable!vars)
  OBVIOUS
<1> USE ThreadsDiffer
<1> DEFINE Stays == UNCHANGED <<Up, mem, Snapshots>>
           Settling == /\ Snapshots' \in (SUBSET Snapshots) \ {{}}
                       /\ UNCHANGED <<Up, mem>>
<1>1. Stays \/ Settling => [Durable!Next]_(Durable!vars)
  BY DEF Durable!Next, Durable!Settle, Durable!vars
<1>2. \A u \in Thread, v \in Steps :
         pc' = [pc EXCEPT ![u] = v] /\ u # Boot => UNCHANGED Up
  BY DEF StoreInv, TypeOK, Up
<1>3. CASE UNCHANGED vars
  BY <1>1, <1>3 DEF vars, local, files, Snapshots, Up
<1>4. CASE LoadNothing
  <2>1. Stays
    BY <1>4 DEF LoadNothing, Go, StoreInv, TypeOK, Up, files, Snapshots
  <2> QED
    BY <1>1, <2>1
<1>5. CASE Load
  <2>1. /\ ~Up /\ Up' /\ mem' = file.lists /\ UNCHANGED files
    BY <1>5 DEF Load, Go, StoreInv, TypeOK, Snap, Up
  <2>2. Durable!Start
    BY <2>1 DEF Durable!Start, files, Snapshots
  <2> QED
    BY <2>2 DEF Durable!Next
<1>6. ASSUME NEW t \in Thread, Save(t) PROVE [Durable!Next]_(Durable!vars)
  <2>1. CASE CreateTemp(t) \/ WriteTemp(t) \/ SyncTemp(t)
    <3>1. UNCHANGED mem /\ UNCHANGED files /\ UNCHANGED Up
      BY <2>1 DEF CreateTemp, WriteTemp, SyncTemp, Go, StoreInv, TypeOK, Up
    <3>2. Stays
      BY <3>1 DEF files, Snapshots
    <3> QED
      BY <1>1, <3>2
  <2>2. CASE Rename(t)
    <3>1. /\ pc[t] = "rename" /\ pc' = [pc EXCEPT ![t] = "syncDir"]
          /\ file'.lists = target[t] /\ UNCHANGED <<mem, disk>>
      BY <2>2 DEF Rename, Go, Written
    <3>2. CASE t = Boot
      <4>1. UNCHANGED Up /\ file'.lists = file.lists
        BY <3>1, <3>2 DEF StoreInv, TypeOK, Snap, Up, Saving
      <4>2. Stays
        BY <3>1, <4>1 DEF Snapshots
      <4> QED
        BY <1>1, <4>2
    <3>3. CASE t # Boot
      <4>1. /\ t \in Client /\ op[t] \in Mutations /\ Up /\ UNCHANGED Up
            /\ target[t] = Effect(mem, op[t]) /\ ~Conflict(mem, op[t])
        BY <3>1, <3>3 DEF StoreInv, TypeOK, Control, Snap, Up, Saving
      <4>2. Snapshots' = {Effect(mem, op[t]), disk.lists}
        BY <3>1, <4>1 DEF Snapshots
      <4>3. Snapshots' \in (SUBSET (Snapshots \cup {Effect(mem, op[t])})) \ {{}}
        BY <4>2 DEF Snapshots
      <4>4. Durable!Attempt(op[t])
        BY <3>1, <4>1, <4>3, SameRules DEF Durable!Attempt
      <4> QED
        BY <4>1, <4>4, SameRules DEF Durable!Next
    <3> QED
      BY <3>2, <3>3
  <2>3. CASE SyncDir(t)
    <3>1. /\ pc[t] = "syncDir" /\ disk' = file /\ file' = file /\ UNCHANGED mem
          /\ pc' = [pc EXCEPT ![t] = IF t = Boot THEN "up" ELSE "install"]
      BY <2>3 DEF SyncDir, Go, OnDisk, StoreInv, Control
    <3>2. CASE t = Boot
      <4>1. ~Up /\ Up'
        BY <3>1, <3>2 DEF StoreInv, TypeOK, Up
      <4>2. mem = Empty /\ file.lists = Empty /\ disk.lists = Empty
        BY <3>1, <3>2, <4>1 DEF StoreInv, Snap, Saving
      <4>3. Durable!Start
        BY <3>1, <4>1, <4>2 DEF Durable!Start, Snapshots
      <4> QED
        BY <4>3 DEF Durable!Next
    <3>3. CASE t # Boot
      <4>1. UNCHANGED Up
        BY <3>1, <3>3 DEF StoreInv, TypeOK, Up
      <4>2. Settling
        BY <3>1, <4>1 DEF Snapshots
      <4> QED
        BY <1>1, <4>2
    <3> QED
      BY <3>2, <3>3
  <2>4. CASE SaveFails(t)
    <3>1. /\ pc[t] \in Saving /\ UNCHANGED mem /\ UNCHANGED files
          /\ pc' = [pc EXCEPT ![t] = IF t = Boot THEN "load" ELSE "unlock"]
      BY <2>4 DEF SaveFails
    <3>2. UNCHANGED Up
      BY <3>1 DEF StoreInv, TypeOK, Up, Saving
    <3>3. Stays
      BY <3>1, <3>2 DEF files, Snapshots
    <3> QED
      BY <1>1, <3>3
  <2> QED
    BY <1>6, <2>1, <2>2, <2>3, <2>4 DEF Save
<1>7. ASSUME NEW t \in Client, Mutate(t) \/ \E m \in Mutations : Call(t, m)
      PROVE  [Durable!Next]_(Durable!vars)
  <2>1. CASE Install(t)
    <3>1. /\ pc[t] = "install" /\ mem' = Effect(mem, op[t]) /\ UNCHANGED files
          /\ pc' = [pc EXCEPT ![t] = "unlock"]
      BY <2>1 DEF Install, Go
    <3>2. /\ op[t] \in Mutations /\ Up /\ UNCHANGED Up /\ ~Conflict(mem, op[t])
          /\ Snapshots = {Effect(mem, op[t])} /\ UNCHANGED Snapshots
      BY <3>1 DEF StoreInv, TypeOK, Control, Snap, Up, files, Snapshots
    <3>3. Durable!Commit(op[t])
      BY <3>1, <3>2, SameRules DEF Durable!Commit
    <3> QED
      BY <3>2, <3>3, SameRules DEF Durable!Next
  <2>2. CASE Answer(t) \/ Prepare(t) \/ Return(t) \/ \E m \in Mutations : Call(t, m)
    <3>1. UNCHANGED mem /\ UNCHANGED files /\ UNCHANGED Up
      BY <2>2 DEF Answer, Prepare, Return, Call, Go, StoreInv, TypeOK, Up
    <3>2. Stays
      BY <3>1 DEF files, Snapshots
    <3> QED
      BY <1>1, <3>2
  <2> QED
    BY <1>7, <2>1, <2>2 DEF Mutate
<1>8. CASE WriteBack
  <2>1. disk' = file /\ file' = file /\ UNCHANGED mem /\ UNCHANGED Up
    BY <1>8 DEF WriteBack, OnDisk, StoreInv, Control, local, Up
  <2>2. Settling
    BY <2>1 DEF Snapshots
  <2> QED
    BY <1>1, <2>2
<1>9. CASE Crash \/ PowerLoss
  <2>1. /\ ~Up' /\ mem' = Empty /\ disk' = disk /\ file' \in {file, disk}
    BY <1>9 DEF Crash, PowerLoss, Die, files, Up
  <2>2. Snapshots' \in (SUBSET Snapshots) \ {{}}
    BY <2>1 DEF Snapshots
  <2>3. Durable!Stop
    BY <2>1, <2>2, SameRules DEF Durable!Stop
  <2> QED
    BY <2>3 DEF Durable!Next
<1> QED
  BY <1>3, <1>4, <1>5, <1>6, <1>7, <1>8, <1>9 DEF Next

\* The store implements the durable lists: readers never see a mutation that a
\* restart could undo, nor one applied over a conflict.
THEOREM Implementation == Spec => ImplementsDurableLists
<1>1. StoreInv /\ StoreInv' /\ [Next]_vars => [Durable!Next]_(Durable!vars)
  BY StepDurable
<1> QED
  BY <1>1, InitStore, StepStore, InitDurable, PTL
  DEF Spec, ImplementsDurableLists, Durable!Spec

-----------------------------------------------------------------------------
(* Acknowledged mutations.                                                 *)

\* A mutation touches its own address only, and keeps its promise.
LEMMA EffectElsewhere ==
    ASSUME NEW l \in Lists, NEW m \in Mutations
    PROVE  /\ \A ip : ip # m.ip => Same(l, Effect(l, m), ip)
           /\ Holds(m.kind, m.ip, Effect(l, m))
<1>1. m.kind \in Kinds
  BY DEF Mutations
<1>2. CASE m.kind = "AddBlacklist"
  BY <1>2 DEF Effect, Lists, Same, Holds
<1>3. CASE m.kind = "AddWhitelist"
  BY <1>3 DEF Effect, Lists, Same, Holds
<1>4. CASE m.kind = "RemoveBlacklist"
  BY <1>4 DEF Effect, Lists, Same, Holds
<1> QED
  BY <1>1, <1>2, <1>3, <1>4 DEF Kinds

\* Lists that agree on an address keep the same promises about it; without a
\* promise any lists do.
LEMMA HoldsSame ==
    /\ \A k, ip, l, n : Same(l, n, ip) /\ Holds(k, ip, l) => Holds(k, ip, n)
    /\ \A ip, l : Holds("none", ip, l)
    /\ \A ip, l : Same(l, l, ip)
    /\ \A ip, l, n : Same(l, n, ip) => Same(n, l, ip)
    /\ \A ip, l, n, m : Same(l, n, ip) /\ Same(n, m, ip) => Same(l, m, ip)
  BY DEF Same, Holds

\* Only the holder of the mutex is past the lock.
LEMMA OneHeld ==
    ASSUME StoreInv, NEW t \in Client, pc[t] \in Held,
           NEW c \in Client, pc[c] \in Held
    PROVE  c = t
  BY DEF StoreInv, Control

LEMMA InitPromise == Init => Promise
<1> SUFFICES ASSUME Init PROVE Promise
  OBVIOUS
<1>1. pc[Boot] = "load" /\ \A c \in Client : pc[c] = "idle"
  BY ThreadsDiffer DEF Init
<1>2. AcknowledgedIsDurableWhenSettled
  BY HoldsSame DEF Init, AcknowledgedIsDurableWhenSettled, Kept
<1>3. \A ip \in Addr : Same(file.lists, disk.lists, ip)
  BY HoldsSame DEF Init
<1> QED
  BY <1>1, <1>2, <1>3 DEF Promise, Up, Saving

\* Save, run by NewState: the lists are empty, and what was left unsettled is
\* forgotten.
LEMMA BootSavePromise ==
    ASSUME StoreInv, Promise, Save(Boot)
    PROVE  Promise'
<1> USE ThreadsDiffer DEF StoreInv
<1>1. /\ pc[Boot] \in Saving /\ ~Up /\ mem = Empty
      /\ file.lists = Empty /\ disk.lists = Empty /\ target[Boot] = Empty
      /\ \A c \in Client : pc[c] = "idle"
  <2>1. pc[Boot] \in Saving
    BY DEF Save, CreateTemp, WriteTemp, SyncTemp, Rename, SyncDir, SaveFails, Go, Saving
  <2> QED
    BY <2>1 DEF Control, Snap, Up, Saving
<1>2. /\ \A c \in Client : pc'[c] = "idle"
      /\ UNCHANGED <<mem, fact, op>>
      /\ file'.lists = Empty /\ disk'.lists = Empty
      /\ pc'[Boot] \in Saving \cup {"up", "load"}
  <2>1. CASE CreateTemp(Boot) \/ WriteTemp(Boot) \/ SyncTemp(Boot)
    BY <1>1, <2>1 DEF CreateTemp, WriteTemp, SyncTemp, Go, TypeOK, files, ghosts, Saving
  <2>2. CASE Rename(Boot)
    BY <1>1, <2>2 DEF Rename, Go, TypeOK, Written, ghosts, Saving
  <2>3. CASE SyncDir(Boot)
    BY <1>1, <2>3 DEF SyncDir, Go, TypeOK, OnDisk, Control
  <2>4. CASE SaveFails(Boot)
    BY <1>1, <2>4 DEF SaveFails, TypeOK, files
  <2> QED
    BY <2>1, <2>2, <2>3, <2>4 DEF Save
<1>3. unsettled' \in {{}, unsettled}
  BY DEF Save, CreateTemp, WriteTemp, SyncTemp, Rename, SyncDir, SaveFails, ghosts
<1>4. \A ip \in Addr : Holds(fact[ip], ip, Empty)
  BY <1>1, HoldsSame DEF Promise, AcknowledgedIsDurableWhenSettled, Kept
<1>5. AcknowledgedIsDurableWhenSettled'
  BY <1>2, <1>4 DEF AcknowledgedIsDurableWhenSettled, Kept
<1>6. \A ip \in Addr : Same(file'.lists, disk'.lists, ip) /\ Same(mem', file'.lists, ip)
  BY <1>1, <1>2, HoldsSame
<1>7. \A ip \in unsettled' : fact'[ip] = "none"
  BY <1>1, <1>2, <1>3 DEF Promise
<1> QED
  BY <1>1, <1>2, <1>4, <1>5, <1>6, <1>7 DEF Promise, Up, Saving

\* Save, run by a mutation.
LEMMA SavePromise ==
    ASSUME StoreInv, Promise, NEW t \in Client, Save(t)
    PROVE  Promise'
<1> USE ThreadsDiffer DEF StoreInv
<1>1. /\ pc[t] \in Saving /\ Up /\ op[t] \in Mutations /\ mem \in Lists
      /\ target[t] = Effect(mem, op[t]) /\ fact[op[t].ip] = "none"
      /\ \A c \in Client : c # t => pc[c] \in {"idle", "lock"}
  <2>1. pc[t] \in Saving
    BY DEF Save, CreateTemp, WriteTemp, SyncTemp, Rename, SyncDir, SaveFails, Go, Saving
  <2> QED
    BY <2>1, OneHeld DEF Control, Snap, Promise, TypeOK, Up, Saving, Held
<1>2. /\ Up' /\ pc'[Boot] = pc[Boot] /\ UNCHANGED <<mem, fact, op>>
      /\ \A c \in Client : c # t => pc'[c] = pc[c]
  BY <1>1 DEF Save, CreateTemp, WriteTemp, SyncTemp, Rename, SyncDir, SaveFails, Go,
              ghosts, TypeOK, Up
<1>3. \A ip \in Addr : Holds(fact'[ip], ip, mem')
  BY <1>1, <1>2 DEF Promise
<1>4. \A S : pc'[t] \in S => \A ip : ip = op[t].ip => InDoubt(ip, S)'
  BY <1>2 DEF InDoubt
<1>5. \A ip, S : InDoubt(ip, S) /\ S \in {{"syncDir"}, {"syncDir", "install"}}
                => ip = op[t].ip /\ pc[t] \in S
  BY <1>1 DEF InDoubt
<1>6. CASE CreateTemp(t) \/ WriteTemp(t) \/ SyncTemp(t)
  <2>1. /\ UNCHANGED files /\ UNCHANGED unsettled
        /\ pc[t] \in {"create", "write", "sync"} /\ pc'[t] \in {"write", "sync", "rename"}
    BY <1>6 DEF CreateTemp, WriteTemp, SyncTemp, Go, TypeOK, ghosts
  <2>2. AcknowledgedIsDurableWhenSettled'
    BY <1>2, <2>1 DEF Promise, AcknowledgedIsDurableWhenSettled, Kept, files
  <2> QED
    BY <1>1, <1>2, <1>3, <1>5, <2>1, <2>2 DEF Promise, Up, files, Saving
<1>7. CASE Rename(t)
  <2>1. /\ file'.lists = Effect(mem, op[t]) /\ disk' = disk /\ unsettled' = unsettled
        /\ pc[t] = "rename" /\ pc'[t] = "syncDir"
    BY <1>1, <1>7 DEF Rename, Go, TypeOK, Written, ghosts
  <2>2. \A ip \in Addr \ unsettled : ip # op[t].ip =>
            /\ Same(mem, file.lists, ip) /\ Same(file.lists, disk.lists, ip)
            /\ Same(mem, file'.lists, ip)
    BY <1>1, <1>5, <2>1, EffectElsewhere DEF Promise
  <2>3. \A ip \in Addr \ unsettled : ip # op[t].ip => Same(file'.lists, disk'.lists, ip)
    BY <2>1, <2>2, HoldsSame
  <2>4. AcknowledgedIsDurableWhenSettled'
    <3> SUFFICES ASSUME NEW ip \in Addr \ unsettled PROVE Kept(ip)'
      BY <2>1 DEF AcknowledgedIsDurableWhenSettled
    <3>1. CASE ip = op[t].ip
      BY <1>1, <1>2, <3>1, HoldsSame DEF Kept
    <3>2. CASE ip # op[t].ip
      BY <1>1, <1>2, <2>1, <2>2, <3>2, HoldsSame
      DEF Kept, Promise, AcknowledgedIsDurableWhenSettled
    <3> QED
      BY <3>1, <3>2
  <2>5. InDoubt(op[t].ip, {"syncDir"})' /\ InDoubt(op[t].ip, {"syncDir", "install"})'
    BY <1>2, <2>1 DEF InDoubt
  <2> QED
    BY <1>1, <1>2, <1>3, <2>1, <2>2, <2>3, <2>4, <2>5 DEF Promise, Up, Saving
<1>8. CASE SyncDir(t)
  <2>1. /\ file' = file /\ disk' = file /\ unsettled' = {}
        /\ pc[t] = "syncDir" /\ pc'[t] = "install"
    BY <1>8 DEF SyncDir, Go, TypeOK, OnDisk, Control
  <2>2. file.lists = Effect(mem, op[t])
    BY <1>1, <2>1 DEF Snap
  <2>3. \A ip \in Addr : ip # op[t].ip => Same(mem, file.lists, ip)
    BY <1>1, <2>2, EffectElsewhere
  <2>4. AcknowledgedIsDurableWhenSettled'
    <3> SUFFICES ASSUME NEW ip \in Addr PROVE Kept(ip)'
      BY DEF AcknowledgedIsDurableWhenSettled
    <3>1. CASE ip = op[t].ip
      BY <1>1, <1>2, <3>1, HoldsSame DEF Kept
    <3>2. CASE ip # op[t].ip
      BY <1>1, <1>2, <2>1, <2>3, <3>2, HoldsSame DEF Kept, Promise
    <3> QED
      BY <3>1, <3>2
  <2>5. InDoubt(op[t].ip, {"syncDir", "install"})'
    BY <1>2, <2>1 DEF InDoubt
  <2>6. \A ip \in Addr : Same(file'.lists, disk'.lists, ip)
    BY <2>1, HoldsSame
  <2> QED
    BY <1>1, <1>2, <1>3, <2>1, <2>3, <2>4, <2>5, <2>6 DEF Promise, Up, Saving
<1>9. CASE SaveFails(t)
  <2>1. /\ UNCHANGED files /\ pc'[t] = "unlock" /\ result'[t] = "failed"
        /\ unsettled \subseteq unsettled'
        /\ pc[t] = "syncDir" => op[t].ip \in unsettled'
    BY <1>1, <1>9 DEF SaveFails, TypeOK
  <2>2. AcknowledgedIsDurableWhenSettled'
    BY <1>2, <2>1 DEF Promise, AcknowledgedIsDurableWhenSettled, Kept, files
  <2>3. pc[t] # "install"
    BY <1>1 DEF Saving
  <2> QED
    BY <1>1, <1>2, <1>3, <1>5, <2>1, <2>2, <2>3 DEF Promise, Up, files, Saving
<1> QED
  BY <1>6, <1>7, <1>8, <1>9 DEF Save

\* NewState takes the file for the lists, and forgets what was left unsettled.
LEMMA LoadPromise ==
    ASSUME StoreInv, Promise, LoadNothing \/ Load
    PROVE  Promise'
<1> USE ThreadsDiffer DEF StoreInv
<1>1. /\ \A c \in Client : pc[c] = "idle" /\ pc'[c] = "idle"
      /\ UNCHANGED files /\ UNCHANGED <<unsettled, op>> /\ fact' = Forget(unsettled)
      /\ pc[Boot] = "load"
  BY DEF LoadNothing, Load, Go, Control, Up, TypeOK
<1>2. \A ip \in Addr : ip \notin unsettled => fact'[ip] = fact[ip]
  BY <1>1 DEF Forget
<1>3. \A ip \in unsettled : fact'[ip] = "none"
  BY <1>1 DEF Forget, TypeOK
<1>4. AcknowledgedIsDurableWhenSettled'
  BY <1>1, <1>2 DEF Promise, AcknowledgedIsDurableWhenSettled, Kept, files
<1>5. \A ip \in Addr \ unsettled : Same(file.lists, disk.lists, ip)
  BY <1>1 DEF Promise, InDoubt
<1>6. CASE LoadNothing
  <2>1. ~Up'
    BY <1>1, <1>6 DEF LoadNothing, Go, TypeOK, Up
  <2> QED
    BY <1>1, <1>3, <1>4, <1>5, <2>1 DEF Promise, files, Saving
<1>7. CASE Load
  <2>1. mem' = file.lists /\ pc'[Boot] \notin Saving
    BY <1>1, <1>7 DEF Load, Go, TypeOK, Snap, Saving
  <2>2. \A ip \in Addr : Holds(fact'[ip], ip, mem')
    BY <1>1, <1>3, <1>4, <2>1, HoldsSame DEF AcknowledgedIsDurableWhenSettled, Kept, files
  <2>3. \A ip : Same(mem', file'.lists, ip)
    BY <1>1, <2>1, HoldsSame DEF files
  <2> QED
    BY <1>1, <1>4, <1>5, <2>1, <2>2, <2>3 DEF Promise, files, Saving
<1> QED
  BY <1>6, <1>7

\* The steps of a mutation around its Save.
LEMMA MutatePromise ==
    ASSUME StoreInv, Promise,
           NEW t \in Client, Mutate(t) \/ \E m \in Mutations : Call(t, m)
    PROVE  Promise'
<1> USE ThreadsDiffer DEF StoreInv
<1>1. /\ pc[t] \in {"idle", "lock", "install", "unlock"} /\ Up /\ Up'
      /\ UNCHANGED files /\ UNCHANGED unsettled
      /\ pc' = [pc EXCEPT ![t] = pc'[t]] /\ pc'[Boot] = pc[Boot]
      /\ \A c \in Client : c # t => pc'[c] = pc[c] /\ op'[c] = op[c] /\ result'[c] = result[c]
  BY DEF Mutate, Answer, Prepare, Install, Return, Call, Go, ghosts, TypeOK, Control, Up
<1>2. \A ip \in Addr, S \in {{"syncDir"}, {"syncDir", "install"}} :
         InDoubt(ip, S) /\ (pc[t] = "install" => S = {"syncDir"}) => InDoubt(ip, S)'
  BY <1>1 DEF InDoubt
<1>3. \A ip \in Addr \ unsettled :
         Same(file'.lists, disk'.lists, ip) \/ InDoubt(ip, {"syncDir"})'
  BY <1>1, <1>2 DEF Promise, files
<1>4. pc'[Boot] \notin Saving
  BY <1>1 DEF Up, Saving
<1>5. ASSUME UNCHANGED mem, pc[t] # "install"
      PROVE  \A ip \in Addr \ unsettled :
                Same(mem', file'.lists, ip) \/ InDoubt(ip, {"syncDir", "install"})'
  BY <1>1, <1>2, <1>5 DEF Promise, files
<1>6. CASE Answer(t) \/ \E m \in Mutations : Call(t, m)
  <2>1. /\ UNCHANGED mem /\ UNCHANGED fact /\ pc[t] # "install"
        /\ \/ pc'[t] = "lock"
           \/ /\ pc'[t] = "unlock" /\ op'[t] = op[t]
              /\ result'[t] = "ok" => Effect(mem, op[t]) = mem
    <3>1. CASE Answer(t)
      BY <3>1 DEF Answer, Go, TypeOK, ghosts
    <3>2. CASE \E m \in Mutations : Call(t, m)
      <4>1. PICK m \in Mutations : Call(t, m)
        BY <3>2
      <4>2. UNCHANGED mem /\ UNCHANGED fact /\ pc[t] = "idle" /\ pc'[t] = "lock"
        BY <4>1 DEF Call, Go, TypeOK, ghosts
      <4> QED
        BY <4>2
    <3> QED
      BY <1>6, <3>1, <3>2
  <2>2. AcknowledgedIsDurableWhenSettled'
    BY <1>1, <2>1 DEF Promise, AcknowledgedIsDurableWhenSettled, Kept, files
  <2>3. \A c \in Client : pc'[c] \in Saving \cup {"install"} => fact'[op'[c].ip] = "none"
    BY <1>1, <2>1 DEF Promise, Saving
  <2>4. \A c \in Client : pc'[c] = "unlock" /\ result'[c] = "ok" => Effect(mem', op'[c]) = mem'
    BY <1>1, <2>1 DEF Promise
  <2>5. \A ip \in Addr : Holds(fact'[ip], ip, mem')
    BY <1>1, <2>1 DEF Promise
  <2> QED
    BY <1>1, <1>3, <1>4, <1>5, <2>1, <2>2, <2>3, <2>4, <2>5 DEF Promise
<1>7. CASE Prepare(t)
  <2>1. /\ UNCHANGED mem /\ UNCHANGED op /\ UNCHANGED result /\ pc[t] = "lock"
        /\ pc'[t] = "create" /\ fact' = Forget({op[t].ip}) /\ op[t].ip \in Addr
    BY <1>7 DEF Prepare, Go, TypeOK, Mutations
  <2>2. \A ip \in Addr : fact'[ip] \in {"none", fact[ip]}
    BY <2>1 DEF Forget
  <2>3. fact'[op[t].ip] = "none"
    BY <2>1 DEF Forget
  <2>4. AcknowledgedIsDurableWhenSettled'
    BY <1>1, <2>2, HoldsSame DEF Promise, AcknowledgedIsDurableWhenSettled, Kept, files
  <2>5. \A c \in Client : pc'[c] \in Saving \cup {"install"} => fact'[op'[c].ip] = "none"
    <3> SUFFICES ASSUME NEW c \in Client, pc'[c] \in Saving \cup {"install"}
                 PROVE  fact'[op[c].ip] = "none"
      BY <2>1
    <3>1. op[c].ip \in Addr
      BY DEF TypeOK, Mutations
    <3>2. CASE c = t
      BY <2>3, <3>2
    <3>3. CASE c # t
      <4>1. fact[op[c].ip] = "none"
        BY <1>1, <3>3 DEF Promise
      <4> QED
        BY <2>2, <3>1, <4>1
    <3> QED
      BY <3>2, <3>3
  <2>6. \A c \in Client : pc'[c] = "unlock" /\ result'[c] = "ok" => Effect(mem', op'[c]) = mem'
    BY <1>1, <2>1 DEF Promise
  <2>7. \A ip \in Addr : Holds(fact'[ip], ip, mem')
    BY <1>1, <2>1, <2>2, HoldsSame DEF Promise
  <2> QED
    BY <1>1, <1>3, <1>4, <1>5, <2>1, <2>4, <2>5, <2>6, <2>7 DEF Promise
<1>8. CASE Install(t)
  <2>1. /\ pc[t] = "install" /\ pc'[t] = "unlock" /\ mem' = Effect(mem, op[t])
        /\ UNCHANGED op /\ UNCHANGED fact
        /\ mem \in Lists /\ op[t] \in Mutations /\ fact[op[t].ip] = "none"
        /\ file'.lists = mem'
    BY <1>1, <1>8 DEF Install, Go, TypeOK, ghosts, Snap, Promise, files
  <2>2. \A c \in Client : c # t => pc'[c] \notin Held
    BY <1>1, <2>1, OneHeld DEF Held
  <2>3. AcknowledgedIsDurableWhenSettled'
    BY <1>1, <2>1 DEF Promise, AcknowledgedIsDurableWhenSettled, Kept, files
  <2>4. \A c \in Client : pc'[c] \in Saving \cup {"install"} => fact'[op'[c].ip] = "none"
    BY <2>1, <2>2 DEF Held, Saving
  <2>5. \A c \in Client : pc'[c] = "unlock" /\ result'[c] = "ok" => Effect(mem', op'[c]) = mem'
    BY <2>1, <2>2, EffectTwice DEF Held
  <2>6. \A ip \in Addr : Holds(fact'[ip], ip, mem')
    BY <1>1, <2>1, EffectElsewhere, HoldsSame DEF Promise
  <2>7. \A ip : Same(mem', file'.lists, ip)
    BY <2>1, HoldsSame
  <2> QED
    BY <1>1, <1>3, <1>4, <2>3, <2>4, <2>5, <2>6, <2>7 DEF Promise
<1>9. CASE Return(t)
  <2>1. /\ pc[t] = "unlock" /\ pc'[t] = "idle" /\ UNCHANGED <<mem, op, result>>
        /\ op[t] \in Mutations /\ mem \in Lists /\ op[t].ip \in Addr
        /\ fact' = IF result[t] = "ok" THEN [fact EXCEPT ![op[t].ip] = op[t].kind] ELSE fact
    BY <1>9 DEF Return, Go, TypeOK, Mutations
  <2>2. \A c \in Client : c # t => pc[c] \notin Held
    BY <2>1, OneHeld DEF Held
  <2>3. \A ip \in Addr \ unsettled :
           Same(mem, file.lists, ip) /\ Same(file.lists, disk.lists, ip)
    BY <1>1, <2>1, <2>2 DEF Promise, InDoubt, Held
  <2>4. \A ip \in Addr :
           \/ fact'[ip] = fact[ip]
           \/ /\ ip = op[t].ip /\ result[t] = "ok" /\ fact'[ip] = op[t].kind
              /\ Effect(mem, op[t]) = mem
    BY <2>1 DEF Promise, TypeOK
  <2>5. \A ip \in Addr : Holds(fact'[ip], ip, mem')
    BY <1>1, <2>1, <2>4, EffectElsewhere DEF Promise
  <2>6. AcknowledgedIsDurableWhenSettled'
    <3> SUFFICES ASSUME NEW ip \in Addr \ unsettled PROVE Kept(ip)'
      BY <1>1 DEF AcknowledgedIsDurableWhenSettled
    <3> QED
      BY <1>1, <2>1, <2>3, <2>5, HoldsSame DEF Kept, files
  <2>7. \A c \in Client : pc'[c] \notin Held
    BY <1>1, <2>1, <2>2 DEF Held
  <2> QED
    BY <1>1, <1>3, <1>4, <1>5, <2>1, <2>5, <2>6, <2>7 DEF Promise, Held, Saving
<1> QED
  BY <1>6, <1>7, <1>8, <1>9 DEF Mutate

\* The environment.
LEMMA EnvironmentPromise ==
    ASSUME StoreInv, Promise, WriteBack \/ Crash \/ PowerLoss
    PROVE  Promise'
<1> USE ThreadsDiffer DEF StoreInv
<1>1. CASE WriteBack
  <2>1. /\ disk' = file /\ file' = file /\ UNCHANGED <<mem, pc, op, result, fact, unsettled>>
    BY <1>1 DEF WriteBack, OnDisk, Control, local, ghosts
  <2>2. AcknowledgedIsDurableWhenSettled'
    BY <2>1 DEF Promise, AcknowledgedIsDurableWhenSettled, Kept
  <2>3. \A ip, S : InDoubt(ip, S)' <=> InDoubt(ip, S)
    BY <2>1 DEF InDoubt
  <2>4. \A ip : Same(file'.lists, disk'.lists, ip)
    BY <2>1, HoldsSame
  <2> QED
    BY <2>1, <2>2, <2>3, <2>4 DEF Promise, Up
<1>2. CASE Crash \/ PowerLoss
  <2>1. /\ \A c \in Client : pc'[c] = "idle"
        /\ pc'[Boot] = "load" /\ UNCHANGED <<op, fact>> /\ disk' = disk
        /\ file' \in {file, disk}
        /\ unsettled \subseteq unsettled'
        /\ \A c \in Client : pc[c] = "syncDir" => op[c].ip \in unsettled'
    BY <1>2 DEF Crash, PowerLoss, Die, files
  <2>2. AcknowledgedIsDurableWhenSettled'
    BY <2>1 DEF Promise, AcknowledgedIsDurableWhenSettled, Kept
  <2>3. \A ip \in Addr \ unsettled' : Same(file.lists, disk.lists, ip)
    BY <2>1 DEF Promise, InDoubt
  <2>4. \A ip \in Addr \ unsettled' : Same(file'.lists, disk'.lists, ip)
    BY <2>1, <2>3, HoldsSame
  <2> QED
    BY <2>1, <2>2, <2>4 DEF Promise, Up, Saving
<1> QED
  BY <1>1, <1>2

LEMMA StepPromise == StoreInv /\ Promise /\ [Next]_vars => Promise'
<1> SUFFICES ASSUME StoreInv, Promise, [Next]_vars PROVE Promise'
  OBVIOUS
<1>1. CASE UNCHANGED vars
  BY <1>1 DEF vars, local, files, bounds, ghosts, Promise, Up, InDoubt,
              AcknowledgedIsDurableWhenSettled, Kept
<1>2. ASSUME NEW t \in Thread, Save(t) PROVE Promise'
  BY <1>2, ThreadsDiffer, BootSavePromise, SavePromise
<1>3. CASE Next
  BY <1>2, <1>3, LoadPromise, MutatePromise, EnvironmentPromise DEF Next
<1> QED
  BY <1>1, <1>3

\* What a caller was told holds of the file and of the disk whatever dies
\* afterwards, unless a mutation of that address replaced the file, failed to
\* sync it, and no later save went through.
THEOREM Durability == Spec => []AcknowledgedIsDurableWhenSettled
<1>1. Promise => AcknowledgedIsDurableWhenSettled
  BY DEF Promise
<1> QED
  BY <1>1, InitStore, StepStore, InitPromise, StepPromise, PTL DEF Spec

=============================================================================
