--------------------------- MODULE MCNatterAgent ---------------------------
(* A small instance of NatterAgent for TLC. *)
EXTENDS NatterAgent

Plain  == [command |-> TRUE, stop |-> TRUE, control |-> ""]
Online == [command |-> TRUE, stop |-> FALSE, control |-> ""]
Configs == {Plain, Online}
Reloads == {"wg-quick", ""}
=============================================================================
