---------------------------- MODULE MCAgentLoop ----------------------------
(* Small instances of AgentLoop for TLC. *)
EXTENDS AgentLoop

CONSTANTS a, b, n, l, p, q

Agents == {a, b}

\* a takes its token from its state file, and its node id too, or has the id
\* configured that b has with another token; b is configured in full.
Some == {[x \in Agents |-> [id |-> IF x = a THEN i ELSE n, token |-> IF x = a THEN None ELSE l]] :
           i \in {None, n}}

Codes     == {a}
Monitored == [x \in Agents |-> IF x = a THEN {q} ELSE {}]
Losers    == {a}
=============================================================================
