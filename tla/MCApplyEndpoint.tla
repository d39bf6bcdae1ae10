-------------------------- MODULE MCApplyEndpoint --------------------------
(* Small instances of ApplyEndpoint for TLC: every file of up to MaxLen     *)
(* lines, every UCI configuration of up to MaxSections sections.  For one   *)
(* peer, the key of the other is the line that is none of its business.     *)
EXTENDS ApplyEndpoint

CONSTANTS MaxLen, MaxSections

Keys      == {"k1", "k2"}
Addresses == {"e0", "e1"}
Lines     == {PeerHeader, OtherHeader, Endpoint("e0")} \cup
             {PublicKey(k) : k \in Keys}
Closed    == {[lines |-> t, nl |-> TRUE] : t \in UNION {[1 .. n -> Lines] : n \in 0 .. MaxLen}}
PeerSections == [key : Keys, host : {"e0"}, port : {"e0"}]
Configs   == UNION {[1 .. n -> PeerSections] : n \in 0 .. MaxSections}
=============================================================================
