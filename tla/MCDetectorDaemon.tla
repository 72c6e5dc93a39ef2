--------------------------- MODULE MCDetectorDaemon ---------------------------
(* Two users, such as the runtime and its shutdown. *)
EXTENDS DetectorDaemon, TLC

CONSTANTS u1, u2

MCUser == {u1, u2}

Symmetry == Permutations(MCUser)
=============================================================================
