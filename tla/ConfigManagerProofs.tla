------------------------- MODULE ConfigManagerProofs --------------------------
(***************************************************************************)
(* Theorems about ConfigManager for any callers, configurations and        *)
(* bounds.  Control says what each step has, Count why there are no more   *)
(* versions than calls, and the other parts of Inv what the operation that *)
(* holds the mutex still owes: in InForce to what was acknowledged last,   *)
(* in Versioned to the backups.                                            *)
(***************************************************************************)
EXTENDS ConfigManager, FiniteSetTheorems, TLAPS

Holding == {"write", "readBack", "apply", "backup", "undo"}

Control ==
    /\ \A c \in Caller : pc[c] \in Holding => mu = c
    /\ \A c \in Caller : mu = c => pc[c] \in Holding \cup {"unlock"}
    /\ \A c \in Caller : pc[c] # "idle" => up
    /\ \A c \in Caller : pc[c] = "read" => op[c].kind = "reload"
    /\ \A c \in Caller : pc[c] = "readBack" => op[c].kind = "update"
    /\ \A c \in Caller : pc[c] = "write" => op[c].kind # "reload"
    /\ \A c \in Caller : pc[c] \in {"write", "readBack", "apply", "backup"} => cand[c] \in Config

\* The callers that may still make a version.
Pending == {c \in Caller : pc[c] \in {"read", "lock", "write", "readBack", "apply"}}

Count ==
    /\ IsFiniteSet(Pending)
    /\ Len(history) + Cardinality(Pending) <= calls + 1
    /\ calls <= MaxCalls

Reported == up => running = current /\ history # <<>> /\ history[Len(history)] = running

\* The operation that holds the mutex has changed nothing, or has undone it.
Unchanged(c) ==
    \/ pc[c] \in {"write", "unlock"}
    \/ pc[c] = "apply" /\ op[c].kind = "reload"

\* The file is as the caller read or wrote it, unless it was overtaken.
Goes(c) ==
    \/ pc[c] \in {"readBack", "apply", "backup"}
    \/ pc[c] = "lock" /\ op[c].kind = "reload"

InForce ==
    /\ up /\ mu = NoCaller /\ settled => running = acked /\ file = acked
    /\ \A c \in Caller : mu = c /\ Unchanged(c) /\ settled => running = acked /\ file = acked
    /\ \A c \in Caller : pc[c] \in {"write", "readBack", "apply"} => prev[c] = running
    /\ \A c \in Caller : pc[c] \in {"readBack", "apply", "undo"} /\ settled =>
          running = acked /\ prev[c] = acked
    /\ \A c \in Caller : pc[c] = "backup" => running = cand[c]
    /\ \A c \in Caller : Goes(c) /\ c \notin overtaken => file = cand[c]

\* A version that is not spoilt is in its backup, unless that is being written.
Versioned ==
    /\ up => \A v \in DOMAIN history \ spoilt :
          backup[v] = history[v] \/ (v = Len(history) /\ \E c \in Caller : pc[c] = "backup")
    /\ \A c \in Caller :
          /\ pc[c] \in {"write", "apply", "backup"}
          /\ op[c].kind = "rollback" /\ op[c].version \notin spoilt
          => /\ op[c].version \in DOMAIN history
             /\ cand[c] = history[op[c].version]
             /\ pc[c] = "backup" => op[c].version < Len(history)

Inv == TypeOK /\ Control /\ Count /\ Reported /\ InForce /\ Versioned

-----------------------------------------------------------------------------
LEMMA OperationKinds ==
    ASSUME NEW o \in Operations
    PROVE  /\ o.kind \in {"update", "reload", "rollback"}
           /\ o.kind = "update" => o.cfg \in Config
           /\ o.kind = "rollback" => o.version \in Versions
BY ConfigAssumption DEF Operations

LEMMA ReloadIsOperation == [kind |-> "reload"] \in Operations
BY DEF Operations

\* What a step of one caller does to the number of those that are pending.
LEMMA PendingStep ==
    ASSUME IsFiniteSet(Pending), NEW c \in Caller, \A d \in Caller : d # c => pc'[d] = pc[d]
    PROVE  /\ IsFiniteSet(Pending')
           /\ Cardinality(Pending) \in Nat /\ Cardinality(Pending') \in Nat
           /\ c \in Pending /\ c \in Pending'       => Cardinality(Pending') = Cardinality(Pending)
           /\ c \in Pending /\ c \notin Pending'    => Cardinality(Pending') = Cardinality(Pending) - 1
           /\ c \notin Pending /\ c \in Pending'    => Cardinality(Pending') = Cardinality(Pending) + 1
           /\ c \notin Pending /\ c \notin Pending' => Cardinality(Pending') = Cardinality(Pending)
<1>1. CASE c \in Pending'
  <2>1. Pending' = Pending \cup {c}
    BY <1>1 DEF Pending
  <2> QED
    BY <1>1, <2>1, FS_AddElement, FS_CardinalityType
<1>2. CASE c \notin Pending'
  <2>1. Pending' = Pending \ {c}
    BY <1>2 DEF Pending
  <2> QED
    BY <1>2, <2>1, FS_RemoveElement, FS_CardinalityType
<1> QED
  BY <1>1, <1>2

LEMMA CallInv ==
    ASSUME Inv, NEW c \in Caller, NEW o \in Operations, Call(c, o)
    PROVE  Inv'
<1> USE CallerAssumption, ConfigAssumption, BoundAssumption, OperationKinds, ReloadIsOperation DEF Inv
<1>1. TypeOK'
  BY DEF Call, Go, Finish, Fault, Write, Readers, disk, memory, local, bounds, ghosts, TypeOK, Steps, Results, Content, Control, Holding, Count, Applicable, Candidate, NewVersion, Versions
<1>2. Control'
  BY DEF Call, Go, Finish, Fault, Write, Readers, disk, memory, local, bounds, ghosts, TypeOK, Control, Holding, Candidate, Applicable
<1>3. Count'
  <2>1. \A d \in Caller : d # c => pc'[d] = pc[d]
    BY DEF Call, Go, Finish, TypeOK
  <2>2. c \notin Pending /\ Len(history') = Len(history) /\ calls' = calls + 1 /\ calls < MaxCalls
        /\ Len(history) \in Nat
    BY DEF Call, Go, Finish, Fault, Write, Readers, disk, memory, local, bounds, ghosts, TypeOK, Pending
  <2> QED
    BY <2>1, <2>2, PendingStep DEF Count, TypeOK
<1>4. Reported'
  BY DEF Call, Go, Finish, Fault, Write, Readers, disk, memory, local, bounds, ghosts, TypeOK, Reported, Applicable
<1>5. InForce'
  BY DEF Call, Go, Finish, Fault, Write, Readers, disk, memory, local, bounds, ghosts, TypeOK, Control, Holding, Reported, InForce, Unchanged, Goes, Candidate, Applicable
<1>6. Versioned'
  BY DEF Call, Go, Finish, Fault, Write, Readers, disk, memory, local, bounds, ghosts, TypeOK, Control, Holding, Reported, Versioned, Candidate, Applicable, NewVersion
<1> QED
  BY <1>1, <1>2, <1>3, <1>4, <1>5, <1>6

LEMMA ReadInv ==
    ASSUME Inv, NEW c \in Caller, Read(c)
    PROVE  Inv'
<1> USE CallerAssumption, ConfigAssumption, BoundAssumption, OperationKinds, ReloadIsOperation DEF Inv
<1>1. TypeOK'
  BY DEF Read, Go, Finish, Fault, Write, Readers, disk, memory, local, bounds, ghosts, TypeOK, Steps, Results, Content, Control, Holding, Count, Applicable, Candidate, NewVersion, Versions
<1>2. Control'
  BY DEF Read, Go, Finish, Fault, Write, Readers, disk, memory, local, bounds, ghosts, TypeOK, Control, Holding, Candidate, Applicable
<1>3. Count'
  <2>1. \A d \in Caller : d # c => pc'[d] = pc[d]
    BY DEF Read, Go, Finish, TypeOK
  <2>2. c \in Pending' => c \in Pending
    BY DEF Read, Go, Finish, Fault, Write, Readers, disk, memory, local, bounds, ghosts, TypeOK, Pending
  <2>3. Len(history') = Len(history) /\ calls' = calls /\ Len(history) \in Nat
    BY DEF Read, Go, Finish, Fault, Write, Readers, disk, memory, local, bounds, ghosts, TypeOK
  <2> QED
    BY <2>1, <2>2, <2>3, PendingStep DEF Count, TypeOK
<1>4. Reported'
  BY DEF Read, Go, Finish, Fault, Write, Readers, disk, memory, local, bounds, ghosts, TypeOK, Reported, Applicable
<1>5. InForce'
  BY DEF Read, Go, Finish, Fault, Write, Readers, disk, memory, local, bounds, ghosts, TypeOK, Control, Holding, Reported, InForce, Unchanged, Goes, Candidate, Applicable
<1>6. Versioned'
  BY DEF Read, Go, Finish, Fault, Write, Readers, disk, memory, local, bounds, ghosts, TypeOK, Control, Holding, Reported, Versioned, Candidate, Applicable, NewVersion
<1> QED
  BY <1>1, <1>2, <1>3, <1>4, <1>5, <1>6

LEMMA LockInv ==
    ASSUME Inv, NEW c \in Caller, Lock(c)
    PROVE  Inv'
<1> USE CallerAssumption, ConfigAssumption, BoundAssumption, OperationKinds, ReloadIsOperation DEF Inv
<1>1. TypeOK'
  <2>1. Candidate(c) \in Content /\ current \in Content
    BY DEF Candidate, TypeOK, Content
  <2>2. pc' \in [Caller -> Steps] /\ result' \in [Caller -> Results]
    BY DEF Lock, Go, Finish, TypeOK, Steps, Results
  <2>3. cand' \in [Caller -> Content] /\ prev' \in [Caller -> Content]
    <3>1. cand' = cand \/ cand' = [cand EXCEPT ![c] = Candidate(c)]
      BY DEF Lock
    <3>2. prev' = prev \/ prev' = [prev EXCEPT ![c] = current]
      BY DEF Lock
    <3> QED
      BY <2>1, <3>1, <3>2 DEF TypeOK
  <2>4. faults' \in Nat /\ mu' \in Caller \cup {NoCaller}
    BY DEF Lock, Fault, TypeOK
  <2> QED
    BY <2>2, <2>3, <2>4 DEF Lock, Go, Finish, Fault, Write, Readers, disk, memory, local, bounds, ghosts, TypeOK
<1>2. Control'
  BY DEF Lock, Go, Finish, Fault, Write, Readers, disk, memory, local, bounds, ghosts, TypeOK, Control, Holding, Candidate, Applicable
<1>3. Count'
  <2>1. \A d \in Caller : d # c => pc'[d] = pc[d]
    BY DEF Lock, Go, Finish, TypeOK
  <2>2. c \in Pending' => c \in Pending
    BY DEF Lock, Go, Finish, Fault, Write, Readers, disk, memory, local, bounds, ghosts, TypeOK, Pending
  <2>3. Len(history') = Len(history) /\ calls' = calls /\ Len(history) \in Nat
    BY DEF Lock, Go, Finish, Fault, Write, Readers, disk, memory, local, bounds, ghosts, TypeOK
  <2> QED
    BY <2>1, <2>2, <2>3, PendingStep DEF Count, TypeOK
<1>4. Reported'
  BY DEF Lock, Go, Finish, Fault, Write, Readers, disk, memory, local, bounds, ghosts, TypeOK, Reported, Applicable
<1>5. InForce'
  <2>1. /\ mu = NoCaller /\ mu' = c /\ pc[c] = "lock" /\ up
        /\ \A d \in Caller : d # c => pc'[d] = pc[d] /\ cand'[d] = cand[d] /\ prev'[d] = prev[d]
        /\ \A d \in Caller : pc[d] \notin Holding
        /\ UNCHANGED <<file, up, running, current, op, acked, settled, overtaken>>
    BY DEF Lock, Go, Finish, disk, memory, ghosts, Control, TypeOK
  <2>2. \/ pc'[c] = "unlock"
        \/ /\ prev'[c] = current
           /\ \/ pc'[c] = "apply" /\ op[c].kind = "reload" /\ cand'[c] = cand[c]
              \/ pc'[c] = "write"
    BY <2>1 DEF Lock, Go, Finish, Candidate, TypeOK
  <2>3. running = current
    BY <2>1 DEF Reported
  <2> QED
    BY <2>1, <2>2, <2>3 DEF InForce, Unchanged, Goes, Holding
<1>6. Versioned'
  BY DEF Lock, Go, Finish, Fault, Write, Readers, disk, memory, local, bounds, ghosts, TypeOK, Control, Holding, Reported, Versioned, Candidate, Applicable, NewVersion
<1> QED
  BY <1>1, <1>2, <1>3, <1>4, <1>5, <1>6

LEMMA WriteCandidateInv ==
    ASSUME Inv, NEW c \in Caller, WriteCandidate(c)
    PROVE  Inv'
<1> USE CallerAssumption, ConfigAssumption, BoundAssumption, OperationKinds, ReloadIsOperation DEF Inv
<1>1. TypeOK'
  <2>1. pc' \in [Caller -> Steps] /\ result' \in [Caller -> Results]
    BY DEF WriteCandidate, Go, Finish, TypeOK, Steps, Results
  <2>2. file' \in Content /\ overtaken' \subseteq Caller /\ faults' \in Nat
    BY DEF WriteCandidate, Write, Readers, Fault, TypeOK
  <2> QED
    BY <2>1, <2>2 DEF WriteCandidate, Go, Finish, Fault, Write, Readers, disk, memory, local, bounds, ghosts, TypeOK
<1>2. Control'
  BY DEF WriteCandidate, Go, Finish, Fault, Write, Readers, disk, memory, local, bounds, ghosts, TypeOK, Control, Holding, Candidate, Applicable
<1>3. Count'
  <2>1. \A d \in Caller : d # c => pc'[d] = pc[d]
    BY DEF WriteCandidate, Go, Finish, TypeOK
  <2>2. c \in Pending' => c \in Pending
    BY DEF WriteCandidate, Go, Finish, Fault, Write, Readers, disk, memory, local, bounds, ghosts, TypeOK, Pending
  <2>3. Len(history') = Len(history) /\ calls' = calls /\ Len(history) \in Nat
    BY DEF WriteCandidate, Go, Finish, Fault, Write, Readers, disk, memory, local, bounds, ghosts, TypeOK
  <2> QED
    BY <2>1, <2>2, <2>3, PendingStep DEF Count, TypeOK
<1>4. Reported'
  BY DEF WriteCandidate, Go, Finish, Fault, Write, Readers, disk, memory, local, bounds, ghosts, TypeOK, Reported, Applicable
<1>5. InForce'
  BY DEF WriteCandidate, Go, Finish, Fault, Write, Readers, disk, memory, local, bounds, ghosts, TypeOK, Control, Holding, Reported, InForce, Unchanged, Goes, Candidate, Applicable
<1>6. Versioned'
  BY DEF WriteCandidate, Go, Finish, Fault, Write, Readers, disk, memory, local, bounds, ghosts, TypeOK, Control, Holding, Reported, Versioned, Candidate, Applicable, NewVersion
<1> QED
  BY <1>1, <1>2, <1>3, <1>4, <1>5, <1>6

LEMMA ReadBackInv ==
    ASSUME Inv, NEW c \in Caller, ReadBack(c)
    PROVE  Inv'
<1> USE CallerAssumption, ConfigAssumption, BoundAssumption, OperationKinds, ReloadIsOperation DEF Inv
<1>1. TypeOK'
  <2>1. pc' \in [Caller -> Steps] /\ cand' \in [Caller -> Content]
    BY DEF ReadBack, Go, TypeOK, Steps
  <2>2. overtaken' \subseteq Caller /\ faults' \in Nat
    BY DEF ReadBack, Fault, TypeOK
  <2> QED
    BY <2>1, <2>2 DEF ReadBack, Go, Finish, Fault, Write, Readers, disk, memory, local, bounds, ghosts, TypeOK
<1>2. Control'
  BY DEF ReadBack, Go, Finish, Fault, Write, Readers, disk, memory, local, bounds, ghosts, TypeOK, Control, Holding, Candidate, Applicable
<1>3. Count'
  <2>1. \A d \in Caller : d # c => pc'[d] = pc[d]
    BY DEF ReadBack, Go, Finish, TypeOK
  <2>2. c \in Pending' => c \in Pending
    BY DEF ReadBack, Go, Finish, Fault, Write, Readers, disk, memory, local, bounds, ghosts, TypeOK, Pending
  <2>3. Len(history') = Len(history) /\ calls' = calls /\ Len(history) \in Nat
    BY DEF ReadBack, Go, Finish, Fault, Write, Readers, disk, memory, local, bounds, ghosts, TypeOK
  <2> QED
    BY <2>1, <2>2, <2>3, PendingStep DEF Count, TypeOK
<1>4. Reported'
  BY DEF ReadBack, Go, Finish, Fault, Write, Readers, disk, memory, local, bounds, ghosts, TypeOK, Reported, Applicable
<1>5. InForce'
  BY DEF ReadBack, Go, Finish, Fault, Write, Readers, disk, memory, local, bounds, ghosts, TypeOK, Control, Holding, Reported, InForce, Unchanged, Goes, Candidate, Applicable
<1>6. Versioned'
  BY DEF ReadBack, Go, Finish, Fault, Write, Readers, disk, memory, local, bounds, ghosts, TypeOK, Control, Holding, Reported, Versioned, Candidate, Applicable, NewVersion
<1> QED
  BY <1>1, <1>2, <1>3, <1>4, <1>5, <1>6

LEMMA ApplyInv ==
    ASSUME Inv, NEW c \in Caller, Apply(c)
    PROVE  Inv'
<1> USE CallerAssumption, ConfigAssumption, BoundAssumption, OperationKinds, ReloadIsOperation DEF Inv
<1>1. TypeOK'
  <2>1. pc[c] = "apply" /\ c \in Pending /\ cand[c] \in Config
    BY DEF Apply, Pending, Control
  <2>2. Len(history) + 1 <= calls + 1
    BY <2>1, FS_CardinalityType, FS_EmptySet DEF Count, TypeOK
  <2>3. pc' \in [Caller -> Steps] /\ result' \in [Caller -> Results]
    BY DEF Apply, Go, Finish, TypeOK, Steps, Results
  <2>4. running' \in Config \ Undeliverable /\ current' \in Config \ Undeliverable
    BY <2>1 DEF Apply, Applicable, TypeOK
  <2>5. history' \in Seq(Config) /\ Len(history') <= calls + 1
    <3>1. history' = history \/ history' = Append(history, cand[c])
      BY DEF Apply
    <3>2. history \in Seq(Config) /\ calls \in Nat /\ Len(history) <= calls + 1
      BY DEF TypeOK
    <3> QED
      BY <2>1, <2>2, <3>1, <3>2
  <2> QED
    BY <2>3, <2>4, <2>5 DEF Apply, Go, Finish, Fault, Write, Readers, disk, memory, local, bounds, ghosts, TypeOK
<1>2. Control'
  BY DEF Apply, Go, Finish, Fault, Write, Readers, disk, memory, local, bounds, ghosts, TypeOK, Control, Holding, Candidate, Applicable
<1>3. Count'
  <2>1. \A d \in Caller : d # c => pc'[d] = pc[d]
    BY DEF Apply, Go, Finish, TypeOK
  <2>2. c \in Pending /\ c \notin Pending' /\ calls' = calls
    BY DEF Apply, Go, Finish, Fault, Write, Readers, disk, memory, local, bounds, ghosts, TypeOK, Pending
  <2>3. Len(history') \in {Len(history), Len(history) + 1} /\ Len(history) \in Nat
    BY DEF Apply, TypeOK
  <2> QED
    BY <2>1, <2>2, <2>3, PendingStep DEF Count, TypeOK
<1>4. Reported'
  BY DEF Apply, Go, Finish, Fault, Write, Readers, disk, memory, local, bounds, ghosts, TypeOK, Reported, Applicable
<1>5. InForce'
  <2>1. /\ pc[c] = "apply" /\ mu = c /\ mu' = c
        /\ \A d \in Caller : d # c => pc'[d] = pc[d] /\ pc[d] \notin Holding
        /\ UNCHANGED <<file, up, op, cand, prev, acked, settled, overtaken>>
    BY DEF Apply, Go, Finish, disk, ghosts, Control, Holding, TypeOK
  <2>2. CASE Applicable(cand[c])
    <3>1. pc'[c] = "backup" /\ running' = cand[c]
      BY <2>2 DEF Apply, Go, TypeOK
    <3> QED
      BY <2>1, <3>1 DEF InForce, Unchanged, Goes, Holding
  <2>3. CASE ~Applicable(cand[c])
    <3>1. running' = running /\ pc'[c] = IF op[c].kind = "reload" THEN "unlock" ELSE "undo"
      BY <2>3 DEF Apply, Go, Finish, TypeOK
    <3> QED
      BY <2>1, <3>1 DEF InForce, Unchanged, Goes, Holding
  <2> QED
    BY <2>2, <2>3
<1>6. Versioned'
  <2>1. /\ pc[c] = "apply" /\ mu = c /\ up /\ history \in Seq(Config)
        /\ \A d \in Caller : d # c => pc'[d] = pc[d] /\ pc[d] \notin Holding
        /\ UNCHANGED <<backup, up, op, cand, spoilt>>
    BY DEF Apply, Go, Finish, disk, ghosts, Control, Holding, TypeOK
  <2>2. CASE Applicable(cand[c])
    <3>1. pc'[c] = "backup" /\ history' = Append(history, cand[c])
      BY <2>2 DEF Apply, Go, TypeOK
    <3>2. /\ Len(history') = Len(history) + 1 /\ Len(history) \in Nat
          /\ DOMAIN history = 1 .. Len(history) /\ DOMAIN history' = 1 .. Len(history) + 1
          /\ \A v \in DOMAIN history : history'[v] = history[v]
      BY <2>1, <3>1 DEF Control, Holding
    <3>3. \A d \in Caller : pc[d] # "backup"
      BY <2>1 DEF Holding
    <3> QED
      BY <2>1, <3>1, <3>2, <3>3 DEF Versioned, Holding
  <2>3. CASE ~Applicable(cand[c])
    <3>1. history' = history /\ pc'[c] \in {"unlock", "undo"}
      BY <2>3 DEF Apply, Go, Finish, TypeOK
    <3>2. \A d \in Caller : pc[d] # "backup" /\ pc'[d] # "backup"
      BY <2>1, <3>1 DEF Holding
    <3> QED
      BY <2>1, <3>1, <3>2 DEF Versioned, Holding
  <2> QED
    BY <2>2, <2>3
<1> QED
  BY <1>1, <1>2, <1>3, <1>4, <1>5, <1>6

LEMMA WriteBackupInv ==
    ASSUME Inv, NEW c \in Caller, WriteBackup(c)
    PROVE  Inv'
<1> USE CallerAssumption, ConfigAssumption, BoundAssumption, OperationKinds, ReloadIsOperation DEF Inv
<1>1. TypeOK'
  <2>1. pc[c] = "backup" /\ cand[c] \in Config /\ up
    BY DEF WriteBackup, Go, Finish, Control
  <2>2. NewVersion \in Versions
    <3>1. history \in Seq(Config) /\ history # <<>>
      BY <2>1 DEF TypeOK, Reported
    <3>2. Len(history) \in Nat /\ Len(history) >= 1
      BY <3>1
    <3>3. Len(history) <= MaxCalls + 1
      BY <3>2 DEF TypeOK, Count
    <3> QED
      BY <3>2, <3>3 DEF NewVersion, Versions
  <2>3. pc' \in [Caller -> Steps] /\ result' \in [Caller -> Results]
    BY DEF WriteBackup, Go, Finish, TypeOK, Steps, Results
  <2>4. backup' \in [Versions -> Content]
    BY <2>1, <2>2 DEF WriteBackup, TypeOK, Content
  <2>5. acked' \in Config /\ settled' \in BOOLEAN /\ spoilt' \subseteq Versions /\ faults' \in Nat
    <3>1. acked' = cand[c] \/ acked' = acked
      BY DEF WriteBackup
    <3>2. settled' = (c \notin overtaken) \/ settled' = FALSE
      BY DEF WriteBackup
    <3>3. spoilt' = spoilt \/ spoilt' = spoilt \cup {NewVersion}
      BY DEF WriteBackup
    <3>4. faults' = faults \/ faults' = faults + 1
      BY DEF WriteBackup, Fault
    <3>5. settled' \in BOOLEAN
      BY <3>2, Zenon
    <3>6. acked' \in Config /\ faults' \in Nat
      BY <2>1, <3>1, <3>4 DEF TypeOK
    <3>7. spoilt' \subseteq Versions
      BY <2>2, <3>3 DEF TypeOK
    <3> QED
      BY <3>5, <3>6, <3>7
  <2> QED
    BY <2>3, <2>4, <2>5 DEF WriteBackup, Go, Finish, Fault, Write, Readers, disk, memory, local, bounds, ghosts, TypeOK
<1>2. Control'
  BY DEF WriteBackup, Go, Finish, Fault, Write, Readers, disk, memory, local, bounds, ghosts, TypeOK, Control, Holding, Candidate, Applicable
<1>3. Count'
  <2>1. \A d \in Caller : d # c => pc'[d] = pc[d]
    BY DEF WriteBackup, Go, Finish, TypeOK
  <2>2. c \in Pending' => c \in Pending
    BY DEF WriteBackup, Go, Finish, Fault, Write, Readers, disk, memory, local, bounds, ghosts, TypeOK, Pending
  <2>3. Len(history') = Len(history) /\ calls' = calls /\ Len(history) \in Nat
    BY DEF WriteBackup, Go, Finish, Fault, Write, Readers, disk, memory, local, bounds, ghosts, TypeOK
  <2> QED
    BY <2>1, <2>2, <2>3, PendingStep DEF Count, TypeOK
<1>4. Reported'
  BY DEF WriteBackup, Go, Finish, Fault, Write, Readers, disk, memory, local, bounds, ghosts, TypeOK, Reported, Applicable
<1>5. InForce'
  <2>1. /\ pc[c] = "backup" /\ mu = c /\ mu' = c /\ running = cand[c]
        /\ \A d \in Caller : d # c => pc'[d] = pc[d] /\ pc[d] \notin Holding
        /\ UNCHANGED <<file, up, running, op, cand, prev, overtaken>>
    BY DEF WriteBackup, Go, Finish, memory, Control, Holding, TypeOK, InForce
  <2>2. \/ /\ pc'[c] = "unlock" /\ acked' = cand[c]
           /\ settled' = (c \notin overtaken)
        \/ pc'[c] \in {"unlock", "undo"} /\ settled' = FALSE /\ acked' = acked
    BY <2>1 DEF WriteBackup, Go, Finish, TypeOK
  <2>3. c \notin overtaken => file = cand[c]
    BY <2>1 DEF InForce, Goes
  <2> QED
    BY <2>1, <2>2, <2>3 DEF InForce, Unchanged, Goes, Holding
<1>6. Versioned'
  <2>1. /\ pc[c] = "backup" /\ mu = c /\ up /\ history \in Seq(Config) /\ history # <<>>
        /\ running = cand[c] /\ history[Len(history)] = running
        /\ \A d \in Caller : d # c => pc'[d] = pc[d] /\ pc[d] \notin Holding
        /\ pc'[c] \in {"unlock", "undo"}
        /\ UNCHANGED <<up, history, op, cand>>
    BY DEF WriteBackup, Go, Finish, memory, Control, Holding, TypeOK, InForce, Reported
  <2>2. \A d \in Caller : pc'[d] # "backup"
    BY <2>1 DEF Holding
  <2>3. Len(history) <= calls + 1 /\ calls <= MaxCalls /\ Len(history) \in Nat /\ calls \in Nat
        /\ DOMAIN history = 1 .. Len(history)
    BY <2>1 DEF TypeOK, Count
  <2>4. DOMAIN history \subseteq Versions
    BY <2>3 DEF Versions
  <2>5. \A v \in DOMAIN history : v # Len(history) => backup'[v] = backup[v]
    BY <2>4 DEF WriteBackup, NewVersion, TypeOK
  <2>6. spoilt \subseteq spoilt' /\ (Len(history) \in spoilt' \/ backup'[Len(history)] = history[Len(history)])
    BY <2>1, <2>3, <2>4 DEF WriteBackup, NewVersion
  <2> QED
    BY <2>1, <2>2, <2>5, <2>6 DEF Versioned, Holding
<1> QED
  BY <1>1, <1>2, <1>3, <1>4, <1>5, <1>6

LEMMA UndoInv ==
    ASSUME Inv, NEW c \in Caller, Undo(c)
    PROVE  Inv'
<1> USE CallerAssumption, ConfigAssumption, BoundAssumption, OperationKinds, ReloadIsOperation DEF Inv
<1>1. TypeOK'
  <2>1. pc' \in [Caller -> Steps] /\ result' \in [Caller -> Results]
    BY DEF Undo, Go, Finish, TypeOK, Steps, Results
  <2>2. file' \in Content /\ overtaken' \subseteq Caller /\ faults' \in Nat /\ settled' \in BOOLEAN
    <3>1. settled' = settled \/ settled' = FALSE
      BY DEF Undo
    <3>2. file' = prev[c] \/ file' = file
      BY DEF Undo, Write
    <3>3. overtaken' \subseteq Caller /\ faults' \in Nat
      BY DEF Undo, Write, Readers, Fault, TypeOK
    <3>4. file' \in Content
      BY <3>2 DEF TypeOK
    <3>5. settled' \in BOOLEAN
      BY <3>1 DEF TypeOK
    <3> QED
      BY <3>3, <3>4, <3>5
  <2> QED
    BY <2>1, <2>2 DEF Undo, Go, Finish, Fault, Write, Readers, disk, memory, local, bounds, ghosts, TypeOK
<1>2. Control'
  BY DEF Undo, Go, Finish, Fault, Write, Readers, disk, memory, local, bounds, ghosts, TypeOK, Control, Holding, Candidate, Applicable
<1>3. Count'
  BY DEF Undo, Go, Finish, Fault, Write, Readers, disk, memory, local, bounds, ghosts, TypeOK, Count, Pending
<1>4. Reported'
  BY DEF Undo, Go, Finish, Fault, Write, Readers, disk, memory, local, bounds, ghosts, TypeOK, Reported, Applicable
<1>5. InForce'
  BY DEF Undo, Go, Finish, Fault, Write, Readers, disk, memory, local, bounds, ghosts, TypeOK, Control, Holding, Reported, InForce, Unchanged, Goes, Candidate, Applicable
<1>6. Versioned'
  BY DEF Undo, Go, Finish, Fault, Write, Readers, disk, memory, local, bounds, ghosts, TypeOK, Control, Holding, Reported, Versioned, Candidate, Applicable, NewVersion
<1> QED
  BY <1>1, <1>2, <1>3, <1>4, <1>5, <1>6

LEMMA ReturnInv ==
    ASSUME Inv, NEW c \in Caller, Return(c)
    PROVE  Inv'
<1> USE CallerAssumption, ConfigAssumption, BoundAssumption, OperationKinds, ReloadIsOperation DEF Inv
<1>1. TypeOK'
  BY DEF Return, Go, Finish, Fault, Write, Readers, disk, memory, local, bounds, ghosts, TypeOK, Steps, Results, Content, Control, Holding, Count, Applicable, Candidate, NewVersion, Versions
<1>2. Control'
  BY DEF Return, Go, Finish, Fault, Write, Readers, disk, memory, local, bounds, ghosts, TypeOK, Control, Holding, Candidate, Applicable
<1>3. Count'
  BY DEF Return, Go, Finish, Fault, Write, Readers, disk, memory, local, bounds, ghosts, TypeOK, Count, Pending
<1>4. Reported'
  BY DEF Return, Go, Finish, Fault, Write, Readers, disk, memory, local, bounds, ghosts, TypeOK, Reported, Applicable
<1>5. InForce'
  BY DEF Return, Go, Finish, Fault, Write, Readers, disk, memory, local, bounds, ghosts, TypeOK, Control, Holding, Reported, InForce, Unchanged, Goes, Candidate, Applicable
<1>6. Versioned'
  BY DEF Return, Go, Finish, Fault, Write, Readers, disk, memory, local, bounds, ghosts, TypeOK, Control, Holding, Reported, Versioned, Candidate, Applicable, NewVersion
<1> QED
  BY <1>1, <1>2, <1>3, <1>4, <1>5, <1>6

\* The environment.
LEMMA StartInv == Inv /\ Start => Inv'
<1> SUFFICES ASSUME Inv, Start PROVE Inv'
  OBVIOUS
<1> USE CallerAssumption, ConfigAssumption, BoundAssumption DEF Inv
<1>1. 1 \in Versions /\ \A c \in Caller : pc[c] = "idle"
  BY DEF Start, Versions, Control
<1>2. UNCHANGED <<file, mu, pc, op, cand, prev, result, calls, crashes, edits>>
      /\ spoilt' = {} /\ overtaken' = {}
  BY DEF Start, local
<1>3. Pending = {} /\ Pending' = {}
  BY <1>1, <1>2 DEF Pending
<1>4. CASE up'
  <2>1. /\ file \in Config \ Undeliverable
        /\ running' = file /\ current' = file /\ history' = <<file>>
        /\ backup' = [backup EXCEPT ![1] = file]
        /\ acked' = file /\ settled' = TRUE /\ UNCHANGED faults
    BY <1>4 DEF Start, Startable
  <2>2. Len(history') = 1 /\ history'[1] = file /\ history' \in Seq(Config)
        /\ DOMAIN history' = {1}
    BY <2>1
  <2>3. TypeOK'
    BY <1>1, <1>2, <1>4, <2>1, <2>2 DEF TypeOK, Content
  <2>4. Control'
    BY <1>1, <1>2, <1>4 DEF Control, Holding
  <2>5. Count'
    BY <1>2, <1>3, <2>2, FS_EmptySet DEF Count, TypeOK
  <2>6. Reported'
    BY <2>1, <2>2 DEF Reported
  <2>7. InForce'
    BY <1>1, <1>2, <2>1 DEF InForce, Goes, Unchanged, Control, Holding
  <2>8. Versioned'
    BY <1>1, <1>2, <2>1, <2>2 DEF Versioned, TypeOK
  <2> QED
    BY <2>3, <2>4, <2>5, <2>6, <2>7, <2>8
<1>5. CASE ~up'
  <2>1. /\ UNCHANGED <<up, running, current, history, acked, settled>> /\ faults' \in Nat
        /\ \E k \in {backup[1], Damaged, file} : backup' = [backup EXCEPT ![1] = k]
    BY <1>5 DEF Start, Fault, TypeOK
  <2>2. backup' \in [Versions -> Content]
    BY <1>1, <2>1 DEF TypeOK, Content
  <2>3. TypeOK'
    BY <1>2, <2>1, <2>2 DEF TypeOK
  <2>4. Control'
    BY <1>1, <1>2, <2>1 DEF Control, Holding
  <2>5. Count'
    BY <1>2, <1>3, <2>1 DEF Count
  <2>6. Reported' /\ Versioned'
    BY <1>1, <1>2, <1>5 DEF Reported, Versioned
  <2>7. InForce'
    BY <1>1, <1>2, <1>5 DEF InForce, Goes, Unchanged, Control, Holding
  <2> QED
    BY <2>3, <2>4, <2>5, <2>6, <2>7
<1> QED
  BY <1>4, <1>5

LEMMA CrashInv == Inv /\ Crash => Inv'
<1> SUFFICES ASSUME Inv, Crash PROVE Inv'
  OBVIOUS
<1> USE CallerAssumption, ConfigAssumption, BoundAssumption DEF Inv
<1>1. /\ up' = FALSE /\ mu' = NoCaller /\ \A c \in Caller : pc'[c] = "idle"
      /\ UNCHANGED <<file, running, current, history, calls, faults, edits,
                     acked, settled, spoilt, overtaken>>
  BY DEF Crash, ghosts
<1>2. backup' \in [Versions -> Content]
  BY DEF Crash, TypeOK, Content
<1>3. TypeOK'
  <2>1. crashes' \in Nat
    BY DEF Crash, TypeOK
  <2>2. pc' \in [Caller -> Steps] /\ result' \in [Caller -> Results]
    BY DEF Crash, Steps, Results
  <2>3. op' \in [Caller -> Operations]
    BY ReloadIsOperation DEF Crash
  <2>4. cand' \in [Caller -> Content] /\ prev' \in [Caller -> Content]
    BY DEF Crash, Content
  <2>5. up' \in BOOLEAN /\ mu' \in Caller \cup {NoCaller}
    BY <1>1
  <2> QED
    BY <1>1, <1>2, <2>1, <2>2, <2>3, <2>4, <2>5, Zenon DEF TypeOK
<1>4. Control'
  BY <1>1 DEF Control, Holding
<1>5. Count'
  <2>1. Pending' = {}
    BY <1>1 DEF Pending
  <2> QED
    BY <1>1, <2>1, FS_EmptySet, FS_CardinalityType DEF Count, TypeOK
<1>6. Reported' /\ Versioned'
  BY <1>1 DEF Reported, Versioned
<1>7. InForce'
  BY <1>1 DEF InForce, Goes, Unchanged
<1> QED
  BY <1>3, <1>4, <1>5, <1>6, <1>7

LEMMA EditInv ==
    ASSUME Inv, NEW k \in Content, Edit(k)
    PROVE  Inv'
<1> USE CallerAssumption DEF Inv
<1>1. /\ file' = k /\ settled' = FALSE /\ edits' = edits + 1
      /\ overtaken' = overtaken \cup Readers
      /\ UNCHANGED <<backup, up, running, current, history, mu, pc, op, cand, prev, result,
                     calls, faults, crashes, acked, spoilt>>
  BY DEF Edit, Write, Readers, memory, local
<1>2. TypeOK'
  <2>1. edits' \in Nat
    BY <1>1 DEF TypeOK
  <2>2. overtaken' \subseteq Caller /\ settled' \in BOOLEAN
    BY <1>1 DEF TypeOK, Readers
  <2>3. result' = result
    BY DEF Edit, local
  <2> QED
    BY <1>1, <2>1, <2>2, <2>3, Zenon DEF TypeOK
<1>3. Control' /\ Reported' /\ Versioned'
  BY <1>1 DEF Control, Reported, Versioned
<1>4. Count'
  BY <1>1 DEF Count, Pending
<1>5. InForce'
  BY <1>1 DEF InForce, Goes, Unchanged, Readers
<1> QED
  BY <1>2, <1>3, <1>4, <1>5

LEMMA InitInv == Init => Inv
<1> SUFFICES ASSUME Init PROVE Inv
  OBVIOUS
<1> USE CallerAssumption, ConfigAssumption, BoundAssumption
<1>1. TypeOK
  <2>1. file \in Config \ Undeliverable /\ running = file /\ current = file /\ acked = file
    BY DEF Init, Startable
  <2>2. pc \in [Caller -> Steps] /\ result \in [Caller -> Results]
    BY DEF Init, Steps, Results
  <2>3. op \in [Caller -> Operations]
    BY ReloadIsOperation DEF Init
  <2>4. /\ backup \in [Versions -> Content]
        /\ cand \in [Caller -> Content] /\ prev \in [Caller -> Content]
    BY DEF Init, Content
  <2>5. history \in Seq(Config) /\ Len(history) <= calls + 1
    BY DEF Init
  <2>6. /\ up \in BOOLEAN /\ mu \in Caller \cup {NoCaller}
        /\ calls \in Nat /\ faults \in Nat /\ crashes \in Nat /\ edits \in Nat
        /\ settled \in BOOLEAN /\ spoilt \subseteq Versions /\ overtaken \subseteq Caller
    BY DEF Init
  <2> QED
    BY <2>1, <2>2, <2>3, <2>4, <2>5, <2>6 DEF TypeOK, Content
<1>2. Control
  BY DEF Init, Control, Holding
<1>3. Count
  <2>1. Pending = {} /\ Len(history) = 0
    BY DEF Init, Pending
  <2> QED
    BY <2>1, FS_EmptySet DEF Init, Count
<1>4. Reported /\ InForce /\ Versioned
  BY DEF Init, Reported, InForce, Unchanged, Goes, Versioned
<1> QED
  BY <1>1, <1>2, <1>3, <1>4 DEF Inv

LEMMA StepInv == Inv /\ [Next]_vars => Inv'
<1> SUFFICES ASSUME Inv, [Next]_vars PROVE Inv'
  OBVIOUS
<1>1. CASE UNCHANGED vars
  BY <1>1 DEF vars, disk, memory, local, bounds, ghosts, Inv, TypeOK, Control, Count, Pending,
              Reported, InForce, Unchanged, Goes, Versioned
<1>2. ASSUME NEW c \in Caller, NEW o \in Operations, Call(c, o) PROVE Inv'
  BY <1>2, CallInv
<1>3. ASSUME NEW c \in Caller,
             \/ Read(c) \/ Lock(c) \/ WriteCandidate(c) \/ ReadBack(c)
             \/ Apply(c) \/ WriteBackup(c) \/ Undo(c) \/ Return(c)
      PROVE  Inv'
  BY <1>3, ReadInv, LockInv, WriteCandidateInv, ReadBackInv, ApplyInv, WriteBackupInv, UndoInv, ReturnInv
<1>4. ASSUME NEW k \in Content, Edit(k) PROVE Inv'
  BY <1>4, EditInv
<1> QED
  BY <1>1, <1>2, <1>3, <1>4, StartInv, CrashInv DEF Next

THEOREM Invariant == Spec => []Inv
<1> QED
  BY InitInv, StepInv, PTL DEF Spec

-----------------------------------------------------------------------------
\* The variables keep their types, for any callers, configurations and bounds.
THEOREM TypeInvariant == Spec => []TypeOK
<1>1. Inv => TypeOK
  BY DEF Inv
<1> QED
  BY <1>1, Invariant, PTL

\* What GET /config shows, the newest version and what the runtime goes by are one,
\* whatever Update, Reload and Rollback failed at.
THEOREM ReportsAreTrue == Spec => []ReportsWhatRuns
<1>1. Inv => ReportsWhatRuns
  BY DEF Inv, Reported, ReportsWhatRuns, Quiet
<1> QED
  BY <1>1, Invariant, PTL

\* The configuration acknowledged last is in force and in the file between
\* operations, unless the file was edited behind the manager, a write of the file
\* or of a backup failed, or a reload was overtaken by a later write.
THEOREM AcknowledgementsHold == Spec => []AcknowledgedIsInForce
<1>1. Inv => AcknowledgedIsInForce
  BY DEF Inv, InForce, AcknowledgedIsInForce, Quiet
<1> QED
  BY <1>1, Invariant, PTL

\* Rollback brings back the version it was asked for, unless that version's own
\* backup could not be written.
THEOREM RollbacksFindTheVersion == Spec => RollbackFindsTheVersion
<1> DEFINE Found == \A c \in Caller :
                      /\ pc[c] = "backup" /\ pc'[c] = "unlock" /\ result'[c] = "ok"
                      /\ op[c].kind = "rollback" /\ op[c].version \notin spoilt
                      => running' = history[op[c].version]
<1>1. Inv /\ [Next]_vars => [Found]_vars
  <2> SUFFICES ASSUME Inv, Next, NEW c \in Caller, pc[c] = "backup", pc'[c] = "unlock",
                      op[c].kind = "rollback", op[c].version \notin spoilt
               PROVE  running' = history[op[c].version]
    OBVIOUS
  <2>1. running = cand[c] /\ cand[c] = history[op[c].version]
    BY DEF Inv, InForce, Versioned
  <2>2. mu = c
    BY DEF Inv, Control, Holding
  <2>3. running' = running
    <3>1. ASSUME NEW d \in Caller, Apply(d) PROVE FALSE
      BY <2>2, <3>1, CallerAssumption DEF Apply, Inv, Control, Holding, Go, Finish, TypeOK
    <3>2. ASSUME Start PROVE FALSE
      BY <3>2 DEF Start, Inv, Control
    <3>3. ASSUME Crash PROVE running' = running
      BY <3>3 DEF Crash
    <3>4. ASSUME NEW d \in Caller,
                 \/ \E o \in Operations : Call(d, o)
                 \/ Read(d) \/ Lock(d) \/ WriteCandidate(d) \/ ReadBack(d)
                 \/ WriteBackup(d) \/ Undo(d) \/ Return(d)
          PROVE  running' = running
      BY <3>4 DEF Call, Read, Lock, WriteCandidate, ReadBack, WriteBackup, Undo, Return, memory
    <3>5. ASSUME NEW k \in Content, Edit(k) PROVE running' = running
      BY <3>5 DEF Edit, memory
    <3> QED
      BY <3>1, <3>2, <3>3, <3>4, <3>5 DEF Next
  <2> QED
    BY <2>1, <2>3
<1>2. Spec => [][Found]_vars
  BY <1>1, Invariant, PTL DEF Spec
<1> QED
  BY <1>2 DEF RollbackFindsTheVersion
=============================================================================
