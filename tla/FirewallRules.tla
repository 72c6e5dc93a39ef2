---------------------------- MODULE FirewallRules ----------------------------
(***************************************************************************)
(* The data the firewall packages exchange, and what they compute on it:   *)
(* the desired state and its normalisation (firewall/backend/backend.go),  *)
(* the nft program rendered from it and the state parsed back from a       *)
(* listing (firewall/nftables/render.go and backend.go), and the part of   *)
(* the kernel those programs rely on: committing a program, expiring the   *)
(* elements of a timeout set, and walking the policy chain.                *)
(*                                                                         *)
(* An address is a value: the split of a set into its IPv4 and IPv6 halves *)
(* and the unmapping of mapped addresses only decide in which of two sets  *)
(* with the same meaning an address is written.  Time is counted in ticks, *)
(* Second of them to the second, so that what is rounded to whole seconds  *)
(* by the code is rounded here.                                            *)
(***************************************************************************)
EXTENDS Integers

CONSTANTS
    Addr,       \* source addresses the code accepts (normalizeAddress)
    Second      \* clock ticks in a second

ASSUME SecondAssumption == Second \in Nat \ {0}

-----------------------------------------------------------------------------

Ban == [addr : Addr, expires : Nat]

\* DesiredState: slices of addresses and bans.  The lists are sets, because
\* Normalize removes duplicates; two bans of one address remain two bans.
DesiredState == [wl : SUBSET Addr, perm : SUBSET Addr, bans : SUBSET Ban]

EmptyState == [wl |-> {}, perm |-> {}, bans |-> {}]

Normalize_KeepsExpired(s, t) ==
    [wl   |-> s.wl,
     perm |-> s.perm,
     bans |-> {b \in s.bans : \A o \in s.bans : o.addr = b.addr => o.expires <= b.expires}]

\* Normalize(now) keeps, for each address, its latest ban if that is not over.
Normalize(s, t) ==
    [wl   |-> s.wl,
     perm |-> s.perm,
     bans |-> {b \in s.bans :
                 /\ b.expires > t
                 /\ \A o \in s.bans : o.addr = b.addr => o.expires <= b.expires}]

-----------------------------------------------------------------------------
(* The owned table, inet digitdojo_shield, as the kernel holds it.  An     *)
(* element of a timeout set has an absolute expiry; once that is reached   *)
(* the kernel neither matches nor lists it.                                *)

Table == [present : BOOLEAN, wl : SUBSET Addr, perm : SUBSET Addr, bans : SUBSET Ban]

AbsentTable == [present |-> FALSE, wl |-> {}, perm |-> {}, bans |-> {}]

Live(tbl, t) == {b \in tbl.bans : b.expires > t}

Verdict_BansFirst(tbl, a, t) ==
    IF tbl.present /\ (a \in tbl.perm \/ \E b \in Live(tbl, t) : b.addr = a)
    THEN "drop" ELSE "accept"

\* What the rules of shield_policy decide on a packet from a, in their order.
Verdict(tbl, a, t) ==
    IF ~tbl.present \/ a \in tbl.wl THEN "accept"
    ELSE IF a \in tbl.perm \/ \E b \in Live(tbl, t) : b.addr = a THEN "drop"
    ELSE "accept"

-----------------------------------------------------------------------------
(* An nft batch.  Both kinds start with "destroy table"; "load" then adds  *)
(* the table, its sets and its rules in the same transaction.              *)

Program == [kind : {"load", "destroy"}, wl : SUBSET Addr, perm : SUBSET Addr,
            ttl : SUBSET [addr : Addr, seconds : Nat]]

CleanupProgram == [kind |-> "destroy", wl |-> {}, perm |-> {}, ttl |-> {}]

\* The timeout written for a ban: its remaining time, rounded up.
SecondsLeft(expires, t) == (expires - t + Second - 1) \div Second

RenderRuleset(s, t) ==
    LET n == Normalize(s, t) IN
    [kind |-> "load", wl |-> n.wl, perm |-> n.perm,
     ttl  |-> {[addr |-> b.addr, seconds |-> SecondsLeft(b.expires, t)] : b \in n.bans}]

\* The kernel commits a whole batch; timeouts run from the commit.
Commit(p, t) ==
    IF p.kind = "destroy" THEN AbsentTable
    ELSE [present |-> TRUE, wl |-> p.wl, perm |-> p.perm,
          bans |-> {[addr |-> q.addr, expires |-> t + q.seconds * Second] : q \in p.ttl}]

-----------------------------------------------------------------------------
(* Reading the table back: nft prints the remaining time of an element in  *)
(* whole seconds, and an element that has none left is refused.            *)

Expires(b, t) == (b.expires - t) \div Second

Listable(tbl, t) == \A b \in Live(tbl, t) : Expires(b, t) > 0

ParseRuleset(tbl, t) ==
    [wl |-> tbl.wl, perm |-> tbl.perm,
     bans |-> {[addr |-> b.addr, expires |-> t + Expires(b, t) * Second] : b \in Live(tbl, t)}]
=============================================================================
