------------------------------- MODULE LogFiles -------------------------------
(***************************************************************************)
(* The files of logger.Manager (logger/manager.go): lines of JSON, one per *)
(* entry, in the active file and in the archives a rotation leaves.        *)
(* Entries are numbered in the order in which they are written, and sizes  *)
(* are counted in entries.  The audit trail (audit/manager.go) has lines   *)
(* of this kind.                                                           *)
(***************************************************************************)
EXTENDS Naturals, Sequences, FiniteSets

CONSTANTS
    MaxSize,    \* Manager.maxSize, in entries
    Retention   \* Manager.retention: archives that are kept

\* NewManager replaces sizes and retentions that are not positive.
ASSUME SizeAssumption == MaxSize \in Nat \ {0} /\ Retention \in Nat \ {0}

\* A write that was cut off leaves the beginning of a line, without its end; that
\* nothing but the newline was cut off is left out.
Fragment == 0

\* An archive is whole once it was copied to the end, and safe once the kernel
\* has written it back: it is never synchronised.
Archive == [lines : Seq(Nat), whole : BOOLEAN, safe : BOOLEAN]

\* What follows a fragment is on the same line, which does not parse.
Parses(f, i) == f[i] # Fragment /\ (i = 1 \/ f[i - 1] # Fragment)

Entries(f) == {f[i] : i \in {j \in DOMAIN f : Parses(f, j)}}

\* Fragments count for nothing: they are shorter than an entry.
Oversized(f) == Cardinality({i \in DOMAIN f : f[i] # Fragment}) + 1 > MaxSize

\* Archives have the time in their name, which orders them.
Archived(a) == UNION {Entries(a[n].lines) : n \in {m \in DOMAIN a : a[m].whole}}

Expired_Late(a) == {n \in DOMAIN a : Cardinality({m \in DOMAIN a : m >= n}) > Retention + 1}

\* The oldest archives beyond the retention, whole or not.
Expired(a) == {n \in DOMAIN a : Cardinality({m \in DOMAIN a : m >= n}) > Retention}
=============================================================================
