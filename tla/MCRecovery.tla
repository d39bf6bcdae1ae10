----------------------------- MODULE MCRecovery -----------------------------
(* Small instances of Recovery for TLC. *)
EXTENDS Recovery, TLC

CONSTANTS c1, c2

TwoClients == {c1, c2}
OneClient  == {c1}
=============================================================================
