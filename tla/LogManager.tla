------------------------------ MODULE LogManager ------------------------------
(***************************************************************************)
(* The structured log: StructuredLogger hands each entry to Manager.Write, *)
(* which rotates the file when it is full, appends, synchronises, and      *)
(* tells the streams of the API (logger/structured.go, logger/manager.go). *)
(* Everything happens under Manager.mu, except for Query, which reads the  *)
(* file while others write, rotate or clear it.                            *)
(*                                                                         *)
(* Around it: system calls that fail, a disk that fills up, clients that   *)
(* query, clear and follow the log, and a machine that goes down with the  *)
(* log half written.                                                       *)
(***************************************************************************)
EXTENDS LogFiles, Functions

CONSTANTS
    Reader,         \* requests that query or export the log
    Stream,         \* clients of the log stream
    Queue,          \* the capacity of a stream's channel: 32 in the code
    MaxEntries,     \* bound: entries written
    MaxFaults,      \* bound: system calls that fail
    MaxCrashes,     \* bound: deaths of the daemon or the machine
    MaxClears       \* bound: requests to clear the log

VARIABLES
    active,     \* the lines of the log file
    archives,   \* the archives, from their times
    stable,     \* the lines of the log file that a power failure leaves
    task,       \* what the holder of Manager.mu is at, or "none"
    entry,      \* the entry written last
    closed,     \* StructuredLogger.closed
    at,         \* how many lines each query has read, or NoQuery
    held,       \* it has a part of a line in its buffer
    adrift,     \* the file was emptied under it: its offset is one of the old file
    got,        \* the entries it has found
    joined,     \* what else it has found: lines made of parts of two, that parse
    open,       \* the streams that are subscribed
    queue,      \* the entries in their channels
    \* bounds and history, which no action of the code reads
    faults, crashes, clears,
    acked,      \* the entries whose Write returned without an error, in order
    excused,    \* entries that were cleared, that expired with their archive, that
                \* follow a fragment on one line, or whose archive the power
                \* failure took
    leftovers,  \* archives that failed rotations and removals left since the last
                \* rotation that succeeded
    expected,   \* the entries each query found in the file when it was opened,
                \* unless the file was emptied since
    caught,     \* how often the file was emptied while it had a part of a line
    seen,       \* how many acknowledged entries each stream had been sent, or had
                \* missed before it subscribed
    lost        \* streams that found their channel full

disk    == <<active, archives, stable>>
writer  == <<task, entry, closed>>
queries == <<at, held, adrift, got, joined, expected, caught>>
streams == <<open, queue, seen, lost>>
bounds  == <<faults, crashes, clears>>
ghosts  == <<acked, excused, leftovers>>
vars    == <<disk, writer, queries, streams, bounds, ghosts>>

NoQuery == MaxEntries + MaxFaults + MaxCrashes + 1

Init ==
    /\ active = <<>> /\ archives = [n \in {} |-> <<>>] /\ stable = <<>>
    /\ task = "none" /\ entry = 0 /\ closed = FALSE
    /\ at = [r \in Reader |-> NoQuery]
    /\ held = [r \in Reader |-> FALSE] /\ adrift = [r \in Reader |-> FALSE]
    /\ got = [r \in Reader |-> <<>>] /\ joined = [r \in Reader |-> 0]
    /\ expected = [r \in Reader |-> {}] /\ caught = [r \in Reader |-> 0]
    /\ open = {} /\ queue = [s \in Stream |-> <<>>]
    /\ seen = [s \in Stream |-> 0] /\ lost = {}
    /\ faults = 0 /\ crashes = 0 /\ clears = 0
    /\ acked = <<>> /\ excused = {} /\ leftovers = 0

-----------------------------------------------------------------------------
Go(from, to) == task = from /\ task' = to

Fault == faults < MaxFaults /\ faults' = faults + 1

(* Write.  StructuredLogger.mu and Manager.mu are held until it returns; an *)
(* error is dropped, and the entry with it.                                 *)

Write ==
    /\ ~closed
    /\ entry < MaxEntries /\ entry' = entry + 1
    /\ Go("none", IF Oversized(active) THEN "archive" ELSE "append")
    /\ UNCHANGED <<disk, closed, queries, streams, bounds, ghosts>>

\* The name is new, for it has the time in it.
CreateArchive ==
    /\ \/ /\ Go("archive", "copy")
          /\ archives' = [n \in DOMAIN archives \cup {entry} |->
                            IF n = entry THEN [lines |-> <<>>, whole |-> FALSE, safe |-> FALSE]
                                         ELSE archives[n]]
          /\ leftovers' = leftovers + 1
          /\ UNCHANGED faults
       \/ /\ Go("archive", "none")
          /\ Fault
          /\ UNCHANGED <<archives, leftovers>>
    /\ UNCHANGED <<active, stable, entry, closed, queries, streams, crashes, clears, acked, excused>>

Copied == [archives EXCEPT ![entry] = [lines |-> active, whole |-> TRUE, safe |-> FALSE]]

\* A copy that fails leaves the archive, which nobody removes, and the file.
Copy_Unchecked ==
    /\ Go("copy", "truncate")
    /\ \/ archives' = Copied /\ UNCHANGED faults
       \/ Fault /\ UNCHANGED archives
    /\ UNCHANGED <<active, stable, entry, closed, queries, streams, crashes, clears, ghosts>>

Copy ==
    /\ \/ Go("copy", "truncate") /\ archives' = Copied /\ UNCHANGED faults
       \/ Go("copy", "none") /\ Fault /\ UNCHANGED archives
    /\ UNCHANGED <<active, stable, entry, closed, queries, streams, crashes, clears, ghosts>>

\* Queries that are under way go on where they are, in a file that is another now.
Empty ==
    /\ active' = <<>>
    /\ adrift' = [r \in Reader |-> at[r] # NoQuery /\ (at[r] > 0 \/ held[r])]
    /\ expected' = [r \in Reader |-> {}]
    /\ caught' = [r \in Reader |-> IF held[r] THEN caught[r] + 1 ELSE caught[r]]
    /\ UNCHANGED <<at, held, got, joined>>

Truncate ==
    /\ \/ Go("truncate", "prune") /\ Empty /\ UNCHANGED faults
       \/ Go("truncate", "none") /\ Fault /\ UNCHANGED <<active, queries>>
    /\ UNCHANGED <<archives, stable, entry, closed, streams, crashes, clears, ghosts>>

\* Archives that cannot be removed stay where they are.
Prune ==
    /\ Go("prune", "append")
    /\ \E kept \in SUBSET Expired(archives) :
        LET gone == Expired(archives) \ kept
        IN  /\ IF kept = {} THEN UNCHANGED faults ELSE Fault
            /\ archives' = Restrict(archives, DOMAIN archives \ gone)
            /\ excused' = excused \cup Archived(Restrict(archives, gone))
            /\ leftovers' = Cardinality(kept)
    /\ UNCHANGED <<active, stable, entry, closed, queries, streams, crashes, clears, acked>>

\* A disk that is full takes a part of the line, or nothing.
AppendEntry ==
    /\ \/ /\ Go("append", "sync")
          /\ active' = Append(active, entry)
          /\ excused' = IF Parses(active', Len(active')) THEN excused ELSE excused \cup {entry}
          /\ UNCHANGED faults
       \/ /\ Go("append", "none")
          /\ Fault
          /\ active' \in {active, Append(active, Fragment)}
          /\ UNCHANGED excused
    /\ UNCHANGED <<archives, stable, entry, closed, queries, streams, crashes, clears, acked, leftovers>>

Sync_Unchecked ==
    /\ Go("sync", "tell")
    /\ \/ stable' = active /\ acked' = Append(acked, entry) /\ UNCHANGED faults
       \/ Fault /\ UNCHANGED <<stable, acked>>
    /\ UNCHANGED <<active, archives, entry, closed, queries, streams, crashes, clears, excused, leftovers>>

\* What was written stays in the file also where its synchronisation fails.
Sync ==
    /\ \/ /\ Go("sync", "tell")
          /\ stable' = active
          /\ acked' = Append(acked, entry)
          /\ UNCHANGED faults
       \/ /\ Go("sync", "none")
          /\ Fault
          /\ UNCHANGED <<stable, acked>>
    /\ UNCHANGED <<active, archives, entry, closed, queries, streams, crashes, clears, excused, leftovers>>

\* The streams are told under the lock; a full channel drops the entry.
Full(s) == Len(queue[s]) >= Queue

Tell ==
    /\ Go("tell", "none")
    /\ queue' = [s \in Stream |-> IF s \in open /\ ~Full(s) THEN Append(queue[s], entry) ELSE queue[s]]
    /\ lost' = lost \cup {s \in open : Full(s)}
    /\ UNCHANGED <<disk, entry, closed, queries, open, seen, bounds, ghosts>>

-----------------------------------------------------------------------------
(* The rest of Manager's and StructuredLogger's operations.                 *)

Clear ==
    /\ task = "none"
    /\ clears < MaxClears /\ clears' = clears + 1
    /\ Empty
    /\ excused' = excused \cup Entries(active)
    /\ UNCHANGED <<archives, stable, writer, streams, faults, crashes, acked, leftovers>>

\* Close waits for the entry that is being written.
Close ==
    /\ task = "none" /\ ~closed
    /\ closed' = TRUE
    /\ UNCHANGED <<disk, task, entry, queries, streams, bounds, ghosts>>

Subscribe(s) ==
    /\ task = "none" /\ s \notin open
    /\ open' = open \cup {s}
    /\ seen' = [seen EXCEPT ![s] = Len(acked)]
    /\ UNCHANGED <<disk, writer, queries, queue, lost, bounds, ghosts>>

Unsubscribe(s) ==
    /\ task = "none" /\ s \in open
    /\ open' = open \ {s}
    /\ queue' = [queue EXCEPT ![s] = <<>>]
    /\ seen' = [seen EXCEPT ![s] = 0]
    /\ lost' = lost \ {s}
    /\ UNCHANGED <<disk, writer, queries, bounds, ghosts>>

\* The stream writes the next entry to its client.
Send(s) ==
    /\ queue[s] # <<>>
    /\ queue' = [queue EXCEPT ![s] = Tail(@)]
    /\ seen' = [seen EXCEPT ![s] = @ + 1]
    /\ UNCHANGED <<disk, writer, queries, open, lost, bounds, ghosts>>

-----------------------------------------------------------------------------
(* Query, without the lock: the file is opened and read block by block, by  *)
(* its offset; the lines in the buffer are taken one after the other, and   *)
(* those that do not parse are skipped.                                     *)

OpenQuery(r) ==
    /\ at[r] = NoQuery
    /\ at' = [at EXCEPT ![r] = 0]
    /\ expected' = [expected EXCEPT ![r] = Entries(active)]
    /\ UNCHANGED <<disk, writer, held, adrift, got, joined, caught, streams, bounds, ghosts>>

\* A block that ends within a line leaves the part of it in the buffer.
ReadPart(r) ==
    /\ ~adrift[r] /\ ~held[r] /\ at[r] < Len(active)
    /\ held' = [held EXCEPT ![r] = TRUE]
    /\ UNCHANGED <<disk, writer, at, adrift, got, joined, expected, caught, streams, bounds, ghosts>>

ScanLine_UntilBad(r) ==
    /\ ~adrift[r] /\ at[r] < Len(active)
    /\ at' = [at EXCEPT ![r] = IF Parses(active, at[r] + 1) THEN @ + 1 ELSE Len(active)]
    /\ held' = [held EXCEPT ![r] = active[at[r] + 1] = Fragment]
    /\ got' = IF Parses(active, at[r] + 1)
              THEN [got EXCEPT ![r] = Append(@, active[at[r] + 1])] ELSE got
    /\ UNCHANGED <<disk, writer, adrift, joined, expected, caught, streams, bounds, ghosts>>

\* A fragment does not end its line: it stays in the buffer, before what follows.
ScanLine(r) ==
    /\ ~adrift[r] /\ at[r] < Len(active)
    /\ at' = [at EXCEPT ![r] = @ + 1]
    /\ held' = [held EXCEPT ![r] = active[at[r] + 1] = Fragment]
    /\ got' = IF Parses(active, at[r] + 1)
              THEN [got EXCEPT ![r] = Append(@, active[at[r] + 1])] ELSE got
    /\ UNCHANGED <<disk, writer, adrift, joined, expected, caught, streams, bounds, ghosts>>

\* The offset of the old file is anywhere in the new one, for entries are of any
\* length.  At the beginning of an entry it is read as such, also behind a
\* fragment; the rest of a line parses only with a part of an older one before it.
Land(r) ==
    /\ adrift[r] /\ adrift' = [adrift EXCEPT ![r] = FALSE]
    /\ \E n \in DOMAIN active :
        /\ at' = [at EXCEPT ![r] = n]
        /\ held' = [held EXCEPT ![r] = active[n] = Fragment]
        /\ \/ /\ active[n] # Fragment
              /\ IF held[r]
                 THEN joined' = [joined EXCEPT ![r] = @ + 1] /\ UNCHANGED got
                 ELSE got' = [got EXCEPT ![r] = Append(@, active[n])] /\ UNCHANGED joined
           \/ UNCHANGED <<got, joined>>
    /\ UNCHANGED <<disk, writer, expected, caught, streams, bounds, ghosts>>

\* The end of the file, which may be before the offset.
AtEnd(r) == at[r] # NoQuery /\ (adrift[r] \/ at[r] >= Len(active))

Answer(r) ==
    /\ AtEnd(r)
    /\ at' = [at EXCEPT ![r] = NoQuery]
    /\ held' = [held EXCEPT ![r] = FALSE] /\ adrift' = [adrift EXCEPT ![r] = FALSE]
    /\ got' = [got EXCEPT ![r] = <<>>] /\ joined' = [joined EXCEPT ![r] = 0]
    /\ expected' = [expected EXCEPT ![r] = {}] /\ caught' = [caught EXCEPT ![r] = 0]
    /\ UNCHANGED <<disk, writer, streams, bounds, ghosts>>

-----------------------------------------------------------------------------
(* The machine.                                                             *)

WriteBack ==
    /\ stable' = active
    /\ archives' = [n \in DOMAIN archives |-> [archives[n] EXCEPT !.safe = archives[n].whole]]
    /\ UNCHANGED <<active, writer, queries, streams, bounds, ghosts>>

\* What a power failure leaves of what was not synchronised: as many lines as were
\* written back, the last of them maybe in part.  Of a file that was emptied since
\* it may leave the old content as well.
Extends(f, g) == Len(g) <= Len(f) /\ \A i \in DOMAIN g : f[i] = g[i]

FirstLines(f, n) == [i \in 1 .. n |-> f[i]]

Remains ==
    LET least == IF Extends(active, stable) THEN Len(stable) ELSE 0
    IN  {stable, active}
            \cup {FirstLines(active, n) : n \in least .. Len(active)}
            \cup {Append(FirstLines(active, n), Fragment) : n \in least .. Len(active) - 1}

\* The daemon dies and starts again; where the machine goes down with it, the
\* file is what remains, and archives that were not written back may be cut short.
Crash ==
    /\ crashes < MaxCrashes /\ crashes' = crashes + 1
    /\ active' \in Remains
    /\ stable' = active'
    /\ \E cut \in SUBSET {n \in DOMAIN archives : archives[n].whole /\ ~archives[n].safe} :
        /\ archives' = [n \in DOMAIN archives |->
                          IF n \in cut THEN [archives[n] EXCEPT !.lines = <<>>, !.whole = FALSE]
                                       ELSE archives[n]]
        /\ excused' = excused \cup Archived(Restrict(archives, cut))
    /\ task' = "none" /\ closed' = FALSE
    /\ at' = [r \in Reader |-> NoQuery]
    /\ held' = [r \in Reader |-> FALSE] /\ adrift' = [r \in Reader |-> FALSE]
    /\ got' = [r \in Reader |-> <<>>] /\ joined' = [r \in Reader |-> 0]
    /\ expected' = [r \in Reader |-> {}] /\ caught' = [r \in Reader |-> 0]
    /\ open' = {} /\ queue' = [s \in Stream |-> <<>>]
    /\ seen' = [s \in Stream |-> 0] /\ lost' = {}
    /\ UNCHANGED <<entry, faults, clears, acked, leftovers>>

-----------------------------------------------------------------------------
Next ==
    \/ Write \/ CreateArchive \/ Copy \/ Truncate \/ Prune \/ AppendEntry \/ Sync \/ Tell
    \/ Clear \/ Close
    \/ \E s \in Stream : Subscribe(s) \/ Unsubscribe(s) \/ Send(s)
    \/ \E r \in Reader : OpenQuery(r) \/ ReadPart(r) \/ ScanLine(r) \/ Land(r) \/ Answer(r)
    \/ WriteBack \/ Crash

Spec == Init /\ [][Next]_vars

-----------------------------------------------------------------------------
(* Properties.                                                             *)

TypeOK ==
    /\ active \in Seq(Nat) /\ stable \in Seq(Nat)
    /\ DOMAIN archives \subseteq 1 .. entry /\ \A n \in DOMAIN archives : archives[n] \in Archive
    /\ task \in {"none", "archive", "copy", "truncate", "prune", "append", "sync", "tell"}
    /\ entry \in Nat /\ closed \in BOOLEAN
    /\ at \in [Reader -> Nat] /\ held \in [Reader -> BOOLEAN] /\ adrift \in [Reader -> BOOLEAN]
    /\ got \in [Reader -> Seq(Nat)] /\ joined \in [Reader -> Nat]
    /\ expected \in [Reader -> SUBSET Nat] /\ caught \in [Reader -> Nat]
    /\ open \subseteq Stream /\ queue \in [Stream -> Seq(Nat)]
    /\ seen \in [Stream -> Nat] /\ lost \subseteq open
    /\ faults \in Nat /\ crashes \in Nat /\ clears \in Nat
    /\ acked \in Seq(Nat) /\ excused \subseteq Nat /\ leftovers \in Nat

\* An entry that was logged without an error is in the file or in an archive,
\* through rotations that fail or are cut off at any step and machines that go
\* down, unless it was cleared, expired with its archive, came after a torn line,
\* or was in an archive that had not been written back.
AcknowledgedIsKept ==
    Range(acked) \subseteq Entries(active) \cup Archived(archives) \cup excused

\* A query, which reads while others write, rotate and clear, shows entries once
\* and in the order of the log; all that were in the file when it was opened unless
\* a rotation or a clearing has emptied the file meanwhile; and nothing that was
\* never logged, but for one line made of two for each time that this caught it
\* within a line.
QueriesTellTheLog ==
    \A r \in Reader :
        /\ \A i, j \in DOMAIN got[r] : i < j => got[r][i] < got[r][j]
        /\ AtEnd(r) => expected[r] \subseteq Range(got[r])
        /\ joined[r] <= caught[r]

\* A client that was never slower than its channel has been sent, or finds in the
\* channel, exactly the entries that were acknowledged since it subscribed.
StreamsFollowTheLog ==
    task # "tell" =>
        \A s \in open \ lost : queue[s] = SubSeq(acked, seen[s] + 1, Len(acked))

\* Archives do not pile up: beyond the retention there is one for each rotation or
\* removal that failed since the last rotation that succeeded.
ArchivesAreBounded == Cardinality(DOMAIN archives) <= Retention + leftovers
=============================================================================
