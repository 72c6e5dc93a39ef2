------------------------------ MODULE MCFirewall ------------------------------
(* Two callers and two addresses.  a1 is an administrator's address that one *)
(* request both bans and whitelists; a2 is banned for good by one request    *)
(* and for a time by another, which names it twice.                          *)
EXTENDS Firewall, TLC

CONSTANTS a1, a2, c1, c2

MCRequests ==
    {[kind |-> "reconcile", state |-> [wl |-> {a1}, perm |-> {a1, a2}, bans |-> {}]],
     [kind |-> "reconcile",
      state |-> [wl |-> {a1}, perm |-> {},
                 bans |-> {[addr |-> a2, expires |-> 1], [addr |-> a2, expires |-> 3]}]],
     [kind |-> "cleanup", state |-> EmptyState],
     [kind |-> "inspect", state |-> EmptyState]}

Symmetry == Permutations({c1, c2})
=============================================================================
