--------------------------- MODULE MCConfigManager ----------------------------
(* k1 and k2 differ in what the runtime takes over; k3 has another listener, *)
(* which needs a restart; k4 has alert settings the runtime refuses.         *)
EXTENDS ConfigManager, TLC

CONSTANTS c1, c2, k1, k2, k3, k4

MCCaller == {c1, c2}
MCConfig == {k1, k2, k3, k4}
MCUndeliverable == {k4}
MCListener == [k \in MCConfig |-> IF k = k3 THEN "other" ELSE "same"]

Symmetry == Permutations(MCCaller)

=============================================================================
