------------------------------ MODULE MCWGConf ------------------------------
(* Small instances of WGConf for TLC: every file of up to MaxLen lines. *)
EXTENDS WGConf

CONSTANT MaxLen

Keys      == {"k1", "k2"}
Addresses == {"e0", "e1"}
Lines     == {PeerHeader, OtherHeader, OtherLine, Endpoint("e0")} \cup
             {PublicKey(k) : k \in Keys}
Texts     == UNION {[1 .. n -> Lines] : n \in 0 .. MaxLen}
Open      == {[lines |-> t, nl |-> FALSE] : t \in Texts \ {<<>>}}
=============================================================================
