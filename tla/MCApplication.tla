---------------------------- MODULE MCApplication -----------------------------
(* Two connections of API clients. *)
EXTENDS Application, TLC

CONSTANTS r1, r2

MCRequest == {r1, r2}
=============================================================================
