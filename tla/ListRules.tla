------------------------------- MODULE ListRules -------------------------------
(***************************************************************************)
(* The data of the shared address lists: the snapshot kept in              *)
(* shield-state.json and what the three mutations of storage.State do to   *)
(* it.  The sorted slices without duplicates of the code are sets.         *)
(***************************************************************************)
EXTENDS FiniteSets

CONSTANT Addr   \* addresses, as the strings the operators spell them

Lists == [black : SUBSET Addr, white : SUBSET Addr]

Empty == [black |-> {}, white |-> {}]

Kinds == {"AddBlacklist", "AddWhitelist", "RemoveBlacklist"}

Mutations == [kind : Kinds, ip : Addr]

\* An address is refused by one list while it is in the other.
Conflict_Unchecked(l, m) == m.kind = "AddBlacklist" /\ m.ip \in l.white

Conflict(l, m) ==
    \/ m.kind = "AddBlacklist" /\ m.ip \in l.white
    \/ m.kind = "AddWhitelist" /\ m.ip \in l.black

Effect(l, m) ==
    CASE m.kind = "AddBlacklist"    -> [l EXCEPT !.black = @ \cup {m.ip}]
      [] m.kind = "AddWhitelist"    -> [l EXCEPT !.white = @ \cup {m.ip}]
      [] m.kind = "RemoveBlacklist" -> [l EXCEPT !.black = @ \ {m.ip}]

\* NewState refuses a snapshot with an address in both lists.
Consistent(l) == l.black \cap l.white = {}

=============================================================================
