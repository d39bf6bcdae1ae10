---------------------------- MODULE AgreedLinks ----------------------------
(***************************************************************************)
(* What the registry promises an administrator, each request and each      *)
(* reconciliation taken as one step: a node has a role in a domain from its *)
(* approval until its deletion; a reconciliation links members that play   *)
(* the two roles of a link, keeps every link that is still agreed and      *)
(* drops the others; a deleted node takes its links along; nothing else    *)
(* makes, moves or drops a link but a binding made by hand.                *)
(***************************************************************************)
CONSTANTS Node, Domain, Iface

VARIABLES approved,  \* nodes an administrator approved
          domains,   \* domains an administrator created
          members,   \* the role and interface of a node in a domain
          links      \* pairs of interfaces with an automatic binding

vars == <<approved, domains, members, links>>

Member == [domain : Domain, node : Node, role : {"server", "client"}, iface : Iface]

Agreed(l) ==
  /\ [domain |-> l.domain, node |-> l.server, role |-> "server", iface |-> l.serverIface]
       \in members
  /\ [domain |-> l.domain, node |-> l.client, role |-> "client", iface |-> l.clientIface]
       \in members

Init ==
  /\ domains \subseteq Domain
  /\ members \subseteq Member
  /\ approved = {m.node : m \in members}
  /\ links = {}

CreateDomain(d) ==
  /\ domains' = domains \cup {d}
  /\ UNCHANGED <<approved, members, links>>

\* An approval gives a node one role in one domain that exists.
Approve(m) ==
  /\ m.domain \in domains
  /\ approved' = approved \cup {m.node}
  /\ members' = {x \in members : ~(x.domain = m.domain /\ x.node = m.node)} \cup {m}
  /\ UNCHANGED <<domains, links>>

Delete(n) ==
  /\ approved' = approved \ {n}
  /\ members' = {m \in members : m.node # n}
  /\ links' = {l \in links : n \notin {l.server, l.client}}
  /\ UNCHANGED domains

\* Which members get a link is left open: that depends on what agents report.
Reconcile ==
  /\ \A l \in links' : Agreed(l)
  /\ \A l \in links : Agreed(l) => l \in links'
  /\ UNCHANGED <<approved, domains, members>>

\* A binding made by hand may take the place of an automatic one.
BindByHand ==
  /\ \E l \in links : links' = links \ {l}
  /\ UNCHANGED <<approved, domains, members>>

Next ==
  \/ \E d \in Domain : CreateDomain(d)
  \/ \E m \in Member : Approve(m)
  \/ \E n \in Node : Delete(n)
  \/ Reconcile \/ BindByHand

Spec == Init /\ [][Next]_vars
=============================================================================
