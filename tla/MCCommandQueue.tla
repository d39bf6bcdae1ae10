--------------------------- MODULE MCCommandQueue ---------------------------
(* Small instances of CommandQueue for TLC. *)
EXTENDS CommandQueue, TLC

CONSTANTS n1, n2

TwoNodes == {n1, n2}
OneNode  == {n1}
=============================================================================
