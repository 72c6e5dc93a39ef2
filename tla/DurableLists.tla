----------------------------- MODULE DurableLists -----------------------------
(***************************************************************************)
(* What storage.State promises: the lists its users read, and the set of   *)
(* lists a restart may come up with.                                       *)
(*                                                                         *)
(* A mutation reaches the readers only when a restart can find nothing     *)
(* else, it is never applied over a conflict, and a restart never invents  *)
(* lists: it finds those of a mutation that was attempted.                 *)
(***************************************************************************)
EXTENDS ListRules

VARIABLES
    up,     \* the lists are being served
    view,   \* the lists the readers see
    may     \* the lists a restart may find

vars == <<up, view, may>>

Init ==
    /\ up = FALSE
    /\ view = Empty
    /\ \E l \in Lists : Consistent(l) /\ may = {l}

\* Fewer outcomes are possible: older lists have become unreachable.
Settle ==
    /\ may' \in (SUBSET may) \ {{}}
    /\ UNCHANGED <<up, view>>

\* A mutation is under way: a restart may find it done.
Attempt(m) ==
    /\ up
    /\ ~Conflict(view, m)
    /\ may' \in (SUBSET (may \cup {Effect(view, m)})) \ {{}}
    /\ UNCHANGED <<up, view>>

\* It becomes visible once a restart can find nothing else.
Commit(m) ==
    /\ up
    /\ ~Conflict(view, m)
    /\ may = {Effect(view, m)}
    /\ view' = Effect(view, m)
    /\ UNCHANGED <<up, may>>

\* The process dies; its host may go down with it.
Stop ==
    /\ up' = FALSE
    /\ view' = Empty
    /\ may' \in (SUBSET may) \ {{}}

Start ==
    /\ ~up
    /\ up' = TRUE
    /\ view' \in may
    /\ UNCHANGED may

Next ==
    \/ Settle
    \/ Stop
    \/ Start
    \/ \E m \in Mutations : Attempt(m) \/ Commit(m)

Spec == Init /\ [][Next]_vars

=============================================================================
