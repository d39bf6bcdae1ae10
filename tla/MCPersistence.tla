--------------------------- MODULE MCPersistence ---------------------------
(* Small instances of Persistence for TLC. *)
EXTENDS Persistence

CONSTANTS n1, n2, manual, auto

Nodes    == {n1, n2}
TwoBindings == {manual, auto}
AutoOnes    == {auto}
EndsOf   == [b \in {manual, auto} |-> IF b = manual THEN {n1} ELSE {n1, n2}]
=============================================================================
