------------------------------ MODULE AuditTrail ------------------------------
(***************************************************************************)
(* audit.Manager (audit/manager.go): the API's handlers record what an     *)
(* administrator did, one line each at the end of a file, which is never   *)
(* rewritten; its clients read it page by page.  Record holds Manager.mu,  *)
(* and Query reads the file without it.                                    *)
(*                                                                         *)
(* Around it: files that cannot be opened, a disk that fills up in the     *)
(* middle of a line, and a machine that goes down while a client is        *)
(* between two pages.  Records are numbered in the order of their writing. *)
(***************************************************************************)
EXTENDS LogFiles, SequencesExt

CONSTANTS
    Pager,      \* clients that page through the trail
    PageSize,   \* Query.Limit: 1 to 500
    Wanted,     \* the records that the clients' filter lets pass
    MaxRecords, \* bound: records written
    MaxMishaps  \* bound: system calls that fail and deaths of the daemon or the machine

VARIABLES
    trail,      \* the lines of the file
    synced,     \* those that a power failure leaves
    stage,      \* what the holder of Manager.mu is at, or "none"
    record,     \* the record written last
    cursor,     \* how many lines each query has read, or NoPage
    matched,    \* Query's total
    page,       \* Query's result
    pages,      \* the records on the pages each client has been given
    \* bounds and history, which no action of the code reads
    mishaps,
    kept,       \* the records whose Record returned without an error
    misled      \* clients that were shown records a power failure took away

recorder == <<trail, synced, stage, record, kept>>
pagers   == <<cursor, matched, page, pages>>
vars     == <<recorder, pagers, mishaps, misled>>

NoPage == MaxRecords + MaxMishaps + 1

NoQueries ==
    /\ cursor' = [p \in Pager |-> NoPage] /\ matched' = [p \in Pager |-> 0]
    /\ page' = [p \in Pager |-> <<>>]

Init ==
    /\ trail = <<>> /\ synced = <<>>
    /\ stage = "none" /\ record = 0
    /\ cursor = [p \in Pager |-> NoPage] /\ matched = [p \in Pager |-> 0]
    /\ page = [p \in Pager |-> <<>>] /\ pages = [p \in Pager |-> <<>>]
    /\ mishaps = 0 /\ kept = {} /\ misled = {}

Mishap == mishaps < MaxMishaps /\ mishaps' = mishaps + 1

Turn(from, to) == stage = from /\ stage' = to

-----------------------------------------------------------------------------
(* Record.  An error is dropped by recordAudit, and the record with it.    *)

Record ==
    /\ record < MaxRecords /\ record' = record + 1
    /\ \/ Turn("none", "write") /\ UNCHANGED mishaps
       \/ Turn("none", "none") /\ Mishap
    /\ UNCHANGED <<trail, synced, kept, pagers, misled>>

WriteLine ==
    /\ \/ /\ Turn("write", "sync")
          /\ trail' = Append(trail, record)
          /\ UNCHANGED mishaps
       \/ /\ Turn("write", "syncFailed")
          /\ Mishap
          /\ trail' \in {trail, Append(trail, Fragment)}
    /\ UNCHANGED <<synced, record, kept, pagers, misled>>

SyncLine_Unchecked ==
    /\ stage \in {"sync", "syncFailed"} /\ stage' = "none"
    /\ \/ synced' = trail /\ UNCHANGED mishaps
       \/ UNCHANGED synced /\ Mishap
    /\ kept' = kept \cup {record}
    /\ UNCHANGED <<trail, record, pagers, misled>>

\* The file is synchronised also after a write that failed.
SyncLine ==
    /\ stage \in {"sync", "syncFailed"} /\ stage' = "none"
    /\ \/ /\ synced' = trail
          /\ kept' = IF stage = "sync" THEN kept \cup {record} ELSE kept
          /\ UNCHANGED mishaps
       \/ UNCHANGED <<synced, kept>> /\ Mishap
    /\ UNCHANGED <<trail, record, pagers, misled>>

-----------------------------------------------------------------------------
(* Query: a client asks for what follows the pages it has.                 *)

OpenPage(p) ==
    /\ cursor[p] = NoPage
    /\ cursor' = [cursor EXCEPT ![p] = 0]
    /\ UNCHANGED <<recorder, matched, page, pages, mishaps, misled>>

Reads(p) == cursor[p] < Len(trail)

Matches(i) == Parses(trail, i) /\ trail[i] \in Wanted

\* The records before the page and after it are only counted.
OnPage(p) == matched[p] >= Len(pages[p]) /\ Len(page[p]) < PageSize

ReadLine_Counting(p) ==
    /\ Reads(p)
    /\ cursor' = [cursor EXCEPT ![p] = @ + 1]
    /\ matched' = [matched EXCEPT ![p] = @ + 1]
    /\ page' = IF Matches(cursor[p] + 1) /\ OnPage(p)
               THEN [page EXCEPT ![p] = Append(@, trail[cursor[p] + 1])] ELSE page
    /\ UNCHANGED <<recorder, pages, mishaps, misled>>

\* Lines that do not parse or match count for nothing.
ReadLine(p) ==
    /\ Reads(p)
    /\ cursor' = [cursor EXCEPT ![p] = @ + 1]
    /\ IF Matches(cursor[p] + 1)
       THEN /\ matched' = [matched EXCEPT ![p] = @ + 1]
            /\ page' = IF OnPage(p) THEN [page EXCEPT ![p] = Append(@, trail[cursor[p] + 1])]
                                    ELSE page
       ELSE UNCHANGED <<matched, page>>
    /\ UNCHANGED <<recorder, pages, mishaps, misled>>

GivePage(p) ==
    /\ cursor[p] # NoPage /\ ~Reads(p)
    /\ pages' = [pages EXCEPT ![p] = @ \o page[p]]
    /\ cursor' = [cursor EXCEPT ![p] = NoPage]
    /\ matched' = [matched EXCEPT ![p] = 0] /\ page' = [page EXCEPT ![p] = <<>>]
    /\ UNCHANGED <<recorder, mishaps, misled>>

-----------------------------------------------------------------------------
(* The machine.                                                             *)

WriteBack ==
    /\ synced' = trail
    /\ UNCHANGED <<trail, stage, record, kept, pagers, mishaps, misled>>

\* Clients are still there when the daemon is back.
Crash ==
    /\ Mishap
    /\ \/ trail' = trail
       \/ trail' = synced
       \/ Len(trail) > Len(synced) /\ trail' = Append(synced, Fragment)
    /\ synced' = trail'
    /\ stage' = "none"
    /\ NoQueries
    /\ misled' = misled \cup {p \in Pager : ~(Range(pages[p]) \subseteq Range(trail'))}
    /\ UNCHANGED <<record, kept, pages>>

Next ==
    \/ Record \/ WriteLine \/ SyncLine
    \/ \E p \in Pager : OpenPage(p) \/ ReadLine(p) \/ GivePage(p)
    \/ WriteBack \/ Crash

Spec == Init /\ [][Next]_vars

-----------------------------------------------------------------------------
(* Properties.                                                             *)

TypeOK ==
    /\ trail \in Seq(Nat) /\ synced \in Seq(Nat) /\ IsPrefix(synced, trail)
    /\ stage \in {"none", "write", "sync", "syncFailed"}
    /\ record \in Nat /\ mishaps \in Nat /\ kept \subseteq 1 .. record
    /\ cursor \in [Pager -> Nat] /\ matched \in [Pager -> Nat]
    /\ page \in [Pager -> Seq(Nat)] /\ pages \in [Pager -> Seq(Nat)]
    /\ misled \subseteq Pager

Garbled(f) == {f[i] : i \in {j \in DOMAIN f : j > 1 /\ f[j - 1] = Fragment}}

\* The beginning of what there is to see: each once, in order and without a gap.
Begins(s, found) ==
    /\ \A i, j \in DOMAIN s : i < j => s[i] < s[j]
    /\ Range(s) \subseteq found
    /\ \A x \in found : \A y \in Range(s) : x < y => x \in Range(s)

\* The trail of actions is whole: a record that was written without an error is
\* in it, unless it shares a line with one that was cut off before; and a client
\* that pages through the records of a filter while others record, writes fail and the daemon dies
\* has each of them once, in order and without a gap, unless a power failure took
\* what it had been shown.
AuditIsATrail ==
    /\ kept \subseteq Entries(trail) \cup Garbled(trail)
    /\ \A p \in Pager \ misled : Begins(pages[p], Entries(trail) \cap Wanted)
=============================================================================
