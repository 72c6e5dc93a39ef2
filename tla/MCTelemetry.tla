----------------------------- MODULE MCTelemetry ------------------------------
(* Two kinds of attacks and two clients.  The daemon may start on the history of *)
(* an earlier life that ended during an attack.                                  *)
EXTENDS Telemetry, TLC

CONSTANTS k1, k2, s1, s2

MCKinds == <<k1, k2>>
MCHistories == {<<>>, <<[kind |-> k1, start |-> 0, end |-> 0]>>}
MCStream == {s1, s2}

\* Clients are interchangeable; the kinds are not, for the engine orders them.
Symmetry == Permutations(MCStream)
=============================================================================
