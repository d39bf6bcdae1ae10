--------------------------- MODULE RegistryProofs ---------------------------
(***************************************************************************)
(* Proofs about Registry: type correctness, unique keys, memberships and   *)
(* automatic bindings of approved nodes only, and that a binding the       *)
(* memberships contradict is always about to be removed; and, where ids    *)
(* tell links apart, that endpoints are those of the own server, that      *)
(* every link is bound, and that the registry implements AgreedLinks.      *)
(***************************************************************************)
EXTENDS Registry, SequenceTheorems, TLAPS

USE DEF registryVars, runtimeVars

(***************************************************************************)
(* Handlers.                                                               *)
(***************************************************************************)
HandlerRecord == [node : Node \cup {<<>>}, steps : Plans, targets : SUBSET Node]

HandlersOK ==
  /\ handlers \in [Handler -> HandlerRecord]
  /\ \A h \in Handler : handlers[h].steps # <<>> => handlers[h].node \in Node

\* A call drops the first of the steps planned.
LEMMA PlanTail ==
  ASSUME NEW p \in Plans, p # <<>>
  PROVE  /\ Tail(p) \in Plans
         /\ Head(p) \in {"lease", "queue"} => \A i \in DOMAIN p : p[i] # "reconcile"
         /\ Head(p) \in {"seen", "sync"} /\ (\E i \in DOMAIN p : p[i] = "reconcile") =>
                 \E i \in DOMAIN Tail(p) : Tail(p)[i] = "reconcile"
  <1>1. CASE p = <<"sync">>
    BY <1>1 DEF Plans
  <1>2. CASE p = <<"reconcile">>
    BY <1>2 DEF Plans
  <1>3. CASE p = <<"sync", "reconcile">>
    <2>1. Tail(p) = <<"reconcile">>
      BY <1>3
    <2>2. QED
      BY <1>3, <2>1 DEF Plans
  <1>4. CASE p = <<"seen", "sync", "reconcile">>
    <2>1. Tail(p) = <<"sync", "reconcile">>
      BY <1>4
    <2>2. QED
      BY <1>4, <2>1 DEF Plans
  <1>5. CASE p = <<"lease">>
    BY <1>5 DEF Plans
  <1>6. CASE p = <<"queue">>
    BY <1>6 DEF Plans
  <1>7. QED
    BY <1>1, <1>2, <1>3, <1>4, <1>5, <1>6 DEF Plans

LEMMA IdleOK == Idle \in HandlerRecord /\ Idle.steps = <<>>
  BY DEF Idle, HandlerRecord, Plans

LEMMA ServeOK ==
  ASSUME NEW n \in Node, NEW p \in Plans, NEW ts \in SUBSET Node
  PROVE  /\ Serve(n, p, ts) \in HandlerRecord
         /\ Serve(n, p, ts).node = n /\ Serve(n, p, ts).steps = p
  BY DEF Serve, HandlerRecord

\* A handler gets a well-typed record, or is idle.
LEMMA SetOK ==
  ASSUME HandlersOK, NEW h \in Handler, NEW st \in HandlerRecord,
         st.steps # <<>> => st.node \in Node,
         Set(h, st) \/ Set(h, Idle)
  PROVE  HandlersOK'
  BY IdleOK DEF HandlersOK, Set

\* After its call a handler is well typed again.
LEMMA RestOK ==
  ASSUME HandlersOK, NEW h \in Handler, handlers[h].steps # <<>>
  PROVE  /\ Rest(h) \in HandlerRecord
         /\ Rest(h).steps = Tail(handlers[h].steps)
         /\ Rest(h).node \in Node
  <1>1. handlers[h] \in HandlerRecord /\ handlers[h].node \in Node
    BY DEF HandlersOK
  <1>2. Tail(handlers[h].steps) \in Plans
    BY <1>1, PlanTail DEF HandlerRecord
  <1>3. QED
    BY <1>1, <1>2 DEF Rest, HandlerRecord

\* Every step keeps the handlers well typed.
LEMMA HandlersNext == TypeOK /\ HandlersOK /\ [Next]_vars => HandlersOK'
  <1> SUFFICES ASSUME TypeOK, HandlersOK, [Next]_vars PROVE HandlersOK'
    OBVIOUS
  <1>1. CASE UNCHANGED handlers
    BY <1>1 DEF HandlersOK
  <1>2. <<"sync">> \in Plans /\ <<"reconcile">> \in Plans /\ <<"queue">> \in Plans
          /\ <<"sync", "reconcile">> \in Plans /\ <<"lease">> \in Plans
          /\ <<"seen", "sync", "reconcile">> \in Plans
    BY DEF Plans
  <1>3. ASSUME NEW h \in Handler, Request(h) PROVE HandlersOK'
    <2>1. PICK n \in Node :
            \/ AgentRegister(h, n) \/ AgentPoll(h, n) \/ AgentReport(h, n)
            \/ \E d \in Domain : AgentJoin(h, n, d)
            \/ AdminDelete(h, n)
            \/ \E d \in Domain \cup {<<>>}, role \in Role \cup {""}, i \in Iface \cup {<<>>} :
                 AdminApprove(h, n, d, role, i)
      BY <1>3 DEF Request
    <2>2. \E p \in Plans, ts \in SUBSET Node :
             Set(h, Serve(n, p, ts)) \/ Set(h, Idle)
      BY <1>2, <2>1 DEF AgentRegister, AgentPoll, AgentReport, AgentJoin, AdminDelete,
                        AdminApprove, SaveThen
    <2>3. QED
      BY <2>2, ServeOK, SetOK
  <1>4. ASSUME NEW h \in Handler, Call(h) PROVE HandlersOK'
    <2>1. handlers[h].steps # <<>> /\ handlers[h] \in HandlerRecord
      BY <1>4 DEF Call, MarkSeen, SyncInventory, Reconcile, SaveLease, Queue, At, HandlersOK
    <2>2. CASE MarkSeen(h) \/ SyncInventory(h) \/ Reconcile(h)
      <3>1. Set(h, Rest(h))
        BY <2>2 DEF MarkSeen, SyncInventory, Reconcile, Go
      <3>2. QED
        BY <2>1, <3>1, RestOK, SetOK
    <2>3. CASE SaveLease(h)
      <3>1. PICK i \in Iface :
              LET matched == {b \in bindings : /\ b.server = handlers[h].node
                                               /\ b.serverIface = i}
              IN  SaveThen(h, IF matched = {} THEN Idle
                              ELSE Serve(handlers[h].node, <<"queue">>,
                                         {b.client : b \in matched}))
        BY <2>3 DEF SaveLease
      <3> DEFINE ts == {b.client : b \in {x \in bindings : /\ x.server = handlers[h].node
                                                            /\ x.serverIface = i}}
      <3>2. ts \subseteq Node
        BY DEF TypeOK
      <3>3. Set(h, Idle) \/ Set(h, Serve(handlers[h].node, <<"queue">>, ts))
        BY <3>1 DEF SaveThen
      <3>4. handlers[h].node \in Node
        BY <2>1 DEF HandlersOK
      <3> HIDE DEF ts
      <3>5. /\ Serve(handlers[h].node, <<"queue">>, ts) \in HandlerRecord
            /\ Serve(handlers[h].node, <<"queue">>, ts).node \in Node
        BY <1>2, <3>2, <3>4, ServeOK
      <3>6. QED
        BY <3>3, <3>5, SetOK
    <2>4. CASE Queue(h)
      <3>1. PICK n \in handlers[h].targets :
              LET left == handlers[h].targets \ {n} IN
              SaveThen(h, IF left = {} THEN Idle ELSE [handlers[h] EXCEPT !.targets = left])
        BY <2>4 DEF Queue
      <3> DEFINE left == handlers[h].targets \ {n}
                 st   == [handlers[h] EXCEPT !.targets = left]
      <3>2. st \in HandlerRecord /\ st.node = handlers[h].node
        BY <2>1 DEF HandlerRecord
      <3>3. handlers[h].node \in Node
        BY <2>1 DEF HandlersOK
      <3>4. Set(h, Idle) \/ Set(h, st)
        BY <3>1 DEF SaveThen
      <3> HIDE DEF st
      <3>5. QED
        BY <3>2, <3>3, <3>4, SetOK
    <2>5. QED
      BY <1>4, <2>2, <2>3, <2>4 DEF Call
  <1>5. CASE \/ \E d \in Domain : AdminCreateDomain(d)
             \/ \E n \in Node : AdminRunNatter(n)
             \/ \E b \in Manual : AddBinding(b)
    BY <1>1, <1>5 DEF AdminCreateDomain, AdminRunNatter, AddBinding
  <1>6. CASE UNCHANGED vars
    BY <1>1, <1>6 DEF vars
  <1>7. QED
    BY <1>3, <1>4, <1>5, <1>6 DEF Next

(***************************************************************************)
(* Types.                                                                  *)
(***************************************************************************)
BindingsOK == \A b \in bindings : b.auto \in BOOLEAN /\ b.server \in Node /\ b.client \in Node

EndpointsOK == \A e \in endpoints : e.node \in Node /\ e.iface \in Iface

\* An automatic binding joins the nodes of two records of the inventory.
LEMMA WantedAre ==
  ASSUME TypeOK, NEW w \in Wanted
  PROVE  /\ w.auto = TRUE
         /\ w.server \in Node /\ w.client \in Node /\ w.server # w.client
         /\ nodes[w.server] = "approved" /\ nodes[w.client] = "approved"
         /\ w.domain \in domains
         /\ Matches(w)
  <1>1. PICK x \in domains \X inventory \X inventory :
          /\ nodes[x[2].node] = "approved" /\ Plays(x[1], x[2].node, "server", x[2].iface)
          /\ nodes[x[3].node] = "approved" /\ Plays(x[1], x[3].node, "client", x[3].iface)
          /\ x[2].node # x[3].node
          /\ w = AutoBinding(x[1], x[2], x[3])
    BY DEF Wanted
  <1>2. x[1] \in domains /\ x[2] \in inventory /\ x[3] \in inventory
    OBVIOUS
  <1>3. x[2].node \in Node /\ x[3].node \in Node
    BY <1>2, RegistryAssumption DEF TypeOK
  <1>4. /\ w.auto = TRUE /\ w.domain = x[1]
        /\ w.server = x[2].node /\ w.serverIface = x[2].iface
        /\ w.client = x[3].node /\ w.clientIface = x[3].iface
    BY <1>1 DEF AutoBinding
  <1>5. QED
    BY <1>1, <1>2, <1>3, <1>4 DEF Matches

\* Reconciling keeps old bindings and adds wanted ones, one for each id.
LEMMA Reconciled ==
  ASSUME ReconcileAutoBindings
  PROVE  /\ bindings' \subseteq Kept \cup Stored
         /\ Kept \subseteq bindings /\ Stored \subseteq Wanted
         /\ endpoints' \subseteq endpoints
  BY DEF ReconcileAutoBindings, Kept, Stored, EndpointsWith

\* The initial state is well typed.
LEMMA InitType == Init => TypeOK
  <1> SUFFICES ASSUME Init PROVE TypeOK
    OBVIOUS
  <1>1. handlers \in [Handler -> HandlerRecord] /\ \A h \in Handler : handlers[h].steps = <<>>
    BY IdleOK DEF Init
  <1>2. members \subseteq Membership /\ domains \subseteq Domain
    BY RegistryAssumption DEF Init, Membership, Role
  <1>3. /\ nodes \in [Node -> {"absent", "pending", "approved"}]
        /\ status \in [Node -> {"none", "pending", "online", "offline"}]
        /\ pendingDomain \in [Node -> Domain \cup {<<>>}]
    BY DEF Init
  <1>4. QED
    BY <1>1, <1>2, <1>3 DEF Init, TypeOK, HandlerRecord

\* What a membership gets from an approval is a role and an interface.
LEMMA ApprovedMember ==
  ASSUME TypeOK, NEW h \in Handler, NEW n \in Node, NEW d0 \in Domain \cup {<<>>},
         NEW role0 \in Role \cup {""}, NEW i0 \in Iface \cup {<<>>},
         AdminApprove(h, n, d0, role0, i0)
  PROVE  \E m \in Membership :
            /\ m.node = n /\ m.domain \in domains
            /\ members' = {x \in members : ~(x.domain = m.domain /\ x.node = n)} \cup {m}
  <1>1. PICK d \in domains : \E role, i :
          /\ role \in IF role0 # "" THEN {role0}
                      ELSE {m.role : m \in {x \in members : x.domain = d /\ x.node = n}}
          /\ i \in IF i0 # <<>> THEN {i0}
                   ELSE {m.iface : m \in {x \in members : x.domain = d /\ x.node = n}}
          /\ members' = (members \ {x \in members : x.domain = d /\ x.node = n}) \cup
                          {[domain |-> d, node |-> n, role |-> role, iface |-> i]}
    BY DEF AdminApprove
  <1>2. PICK role, i :
          /\ role \in IF role0 # "" THEN {role0}
                      ELSE {m.role : m \in {x \in members : x.domain = d /\ x.node = n}}
          /\ i \in IF i0 # <<>> THEN {i0}
                   ELSE {m.iface : m \in {x \in members : x.domain = d /\ x.node = n}}
          /\ members' = (members \ {x \in members : x.domain = d /\ x.node = n}) \cup
                          {[domain |-> d, node |-> n, role |-> role, iface |-> i]}
    BY <1>1
  <1>3. role \in Role /\ i \in Iface /\ d \in Domain
    <2>1. \A m \in members : m.role \in Role /\ m.iface \in Iface
      BY DEF TypeOK, Membership
    <2>2. d \in Domain
      BY <1>1 DEF TypeOK
    <2>3. role \in Role
      BY <1>2, <2>1
    <2>4. i \in Iface
      BY <1>2, <2>1
    <2>5. QED
      BY <2>2, <2>3, <2>4
  <1> DEFINE m == [domain |-> d, node |-> n, role |-> role, iface |-> i]
  <1>4. m \in Membership /\ m.node = n /\ m.domain = d
    BY <1>3 DEF Membership
  <1>5. members' = {x \in members : ~(x.domain = m.domain /\ x.node = n)} \cup {m}
    BY <1>2, <1>4
  <1>6. QED
    BY <1>4, <1>5

\* Failures are counted and never taken back.
LEMMA FailuresGrow == [Next]_vars => failures' \in {failures, failures + 1}
  <1> SUFFICES ASSUME [Next]_vars PROVE failures' \in {failures, failures + 1}
    OBVIOUS
  <1>1. ASSUME NEW h \in Handler, Request(h) PROVE failures' \in {failures, failures + 1}
    BY <1>1 DEF Request, AgentRegister, AgentJoin, AgentPoll, AgentReport, AdminDelete,
                AdminApprove, SaveThen
  <1>2. ASSUME NEW h \in Handler, Call(h) PROVE failures' \in {failures, failures + 1}
    <2>1. CASE MarkSeen(h) \/ SyncInventory(h) \/ Reconcile(h)
      BY <2>1 DEF MarkSeen, SyncInventory, Reconcile, Go
    <2>2. CASE SaveLease(h)
      BY <2>2 DEF SaveLease, SaveThen
    <2>3. CASE Queue(h)
      BY <2>3 DEF Queue, SaveThen
    <2>4. QED
      BY <1>2, <2>1, <2>2, <2>3 DEF Call
  <1>3. CASE \/ \E d \in Domain : AdminCreateDomain(d)
             \/ \E n \in Node : AdminRunNatter(n)
             \/ \E b \in Manual : AddBinding(b)
    BY <1>3 DEF AdminCreateDomain, AdminRunNatter, AddBinding
  <1>4. CASE UNCHANGED vars
    BY <1>4 DEF vars
  <1>5. QED
    BY <1>1, <1>2, <1>3, <1>4 DEF Next

\* Every step keeps the types.
LEMMA NextType == TypeOK /\ [Next]_vars => TypeOK'
  <1> SUFFICES ASSUME TypeOK, [Next]_vars PROVE TypeOK'
    OBVIOUS
  <1>1. HandlersOK'
    BY HandlersNext DEF TypeOK, HandlersOK, HandlerRecord
  <1>2. failures' \in Nat
    BY FailuresGrow DEF TypeOK
  <1>3. ASSUME /\ nodes' \in [Node -> {"absent", "pending", "approved"}]
               /\ domains' \subseteq Domain /\ members' \subseteq Membership
               /\ pendingDomain' \in [Node -> Domain \cup {<<>>}]
               /\ status' \in [Node -> {"none", "pending", "online", "offline"}],
               inventory' \subseteq View, BindingsOK', EndpointsOK',
               leases' \subseteq Node \X Iface, queued' \subseteq Node
        PROVE  TypeOK'
    BY <1>1, <1>2, <1>3 DEF TypeOK, HandlersOK, HandlerRecord, BindingsOK, EndpointsOK
  <1>4. BindingsOK /\ EndpointsOK /\ HandlersOK
    BY DEF TypeOK, BindingsOK, EndpointsOK, HandlersOK, HandlerRecord
  <1>5. CASE UNCHANGED vars
    BY <1>3, <1>4, <1>5 DEF vars, TypeOK, BindingsOK, EndpointsOK
  <1>6. ASSUME NEW h \in Handler, NEW n \in Node,
               AgentRegister(h, n) \/ AgentPoll(h, n) \/ AgentReport(h, n)
        PROVE  TypeOK'
    BY <1>3, <1>4, <1>6 DEF AgentRegister, AgentPoll, AgentReport, TypeOK, BindingsOK,
                            EndpointsOK
  <1>7. ASSUME NEW h \in Handler, NEW n \in Node, NEW d \in Domain, AgentJoin(h, n, d)
        PROVE  TypeOK'
    BY <1>3, <1>4, <1>7 DEF AgentJoin, TypeOK, BindingsOK, EndpointsOK
  <1>8. ASSUME NEW h \in Handler, NEW n \in Node, AdminDelete(h, n) PROVE TypeOK'
    BY <1>3, <1>4, <1>8 DEF AdminDelete, TypeOK, BindingsOK, EndpointsOK, MembersWithout,
                            BindingsWithout, EndpointsWith
  <1>9. ASSUME NEW h \in Handler, NEW n \in Node, NEW d0 \in Domain \cup {<<>>},
               NEW role0 \in Role \cup {""}, NEW i0 \in Iface \cup {<<>>},
               AdminApprove(h, n, d0, role0, i0)
        PROVE  TypeOK'
    <2>1. members' \subseteq Membership
      <3>1. PICK m \in Membership :
              members' = {x \in members : ~(x.domain = m.domain /\ x.node = n)} \cup {m}
        BY <1>9, ApprovedMember
      <3>2. members \subseteq Membership
        BY DEF TypeOK
      <3>3. QED
        BY <3>1, <3>2
    <2>2. QED
      BY <1>3, <1>4, <1>9, <2>1 DEF AdminApprove, TypeOK, BindingsOK, EndpointsOK
  <1>10. ASSUME NEW d \in Domain, AdminCreateDomain(d) PROVE TypeOK'
    BY <1>3, <1>4, <1>10 DEF AdminCreateDomain, TypeOK, BindingsOK, EndpointsOK
  <1>11. ASSUME NEW n \in Node, AdminRunNatter(n) PROVE TypeOK'
    BY <1>3, <1>4, <1>11 DEF AdminRunNatter, TypeOK, BindingsOK, EndpointsOK
  <1>12. ASSUME NEW b \in Manual, AddBinding(b) PROVE TypeOK'
    <2>1. BindingsOK'
      <3>1. bindings' \subseteq bindings \cup {b}
        BY <1>12 DEF AddBinding
      <3>2. b.auto = FALSE /\ b.server \in Node /\ b.client \in Node
        BY RegistryAssumption
      <3>3. QED
        BY <1>4, <3>1, <3>2 DEF BindingsOK
    <2>2. QED
      BY <1>3, <1>4, <1>12, <2>1 DEF AddBinding, TypeOK, EndpointsOK
  <1>13. ASSUME NEW h \in Handler, MarkSeen(h) PROVE TypeOK'
    BY <1>3, <1>4, <1>13 DEF MarkSeen, TypeOK, BindingsOK, EndpointsOK
  <1>14. ASSUME NEW h \in Handler, SyncInventory(h) PROVE TypeOK'
    BY <1>3, <1>4, <1>14 DEF SyncInventory, TypeOK, BindingsOK, EndpointsOK
  <1>15. ASSUME NEW h \in Handler, Reconcile(h) PROVE TypeOK'
    <2>1. bindings' \subseteq bindings \cup Wanted /\ endpoints' \subseteq endpoints
      BY <1>15, Reconciled DEF Reconcile
    <2>2. BindingsOK' /\ EndpointsOK'
      BY <1>4, <2>1, WantedAre DEF BindingsOK, EndpointsOK
    <2>3. QED
      BY <1>3, <1>15, <2>2 DEF Reconcile, TypeOK
  <1>16. ASSUME NEW h \in Handler, SaveLease(h) PROVE TypeOK'
    <2>1. handlers[h].node \in Node
      BY <1>4, <1>16 DEF SaveLease, At, HandlersOK
    <2>2. EndpointsOK' /\ leases' \subseteq Node \X Iface
      BY <1>4, <1>16, <2>1 DEF SaveLease, EndpointsOK, TypeOK
    <2>3. QED
      BY <1>3, <1>4, <1>16, <2>2 DEF SaveLease, TypeOK, BindingsOK
  <1>17. ASSUME NEW h \in Handler, Queue(h) PROVE TypeOK'
    <2>1. handlers[h].targets \subseteq Node
      BY <1>4 DEF HandlersOK, HandlerRecord
    <2>2. queued' \subseteq Node
      BY <1>17, <2>1 DEF Queue, TypeOK
    <2>3. QED
      BY <1>3, <1>4, <1>17, <2>2 DEF Queue, TypeOK, BindingsOK, EndpointsOK
  <1>18. QED
    BY <1>5, <1>6, <1>7, <1>8, <1>9, <1>10, <1>11, <1>12, <1>13, <1>14, <1>15, <1>16,
       <1>17 DEF Next, Request, Call

\* Every reachable state is well typed, for any names, views and bounds.
THEOREM TypeCorrect == Spec => []TypeOK
  <1>1. QED
    BY InitType, NextType, PTL DEF Spec

(***************************************************************************)
(* Memberships and automatic bindings belong to approved nodes.            *)
(***************************************************************************)

\* Only approval makes a node a member, and deletion ends that.
LEMMA MembersNext == TypeOK /\ MembersAreApproved /\ [Next]_vars => MembersAreApproved'
  <1> SUFFICES ASSUME TypeOK, MembersAreApproved, [Next]_vars PROVE MembersAreApproved'
    OBVIOUS
  <1>1. nodes \in [Node -> {"absent", "pending", "approved"}] /\ members \subseteq Membership
    BY DEF TypeOK
  <1>2. CASE UNCHANGED <<nodes, domains, members>>
    BY <1>2 DEF MembersAreApproved
  <1>3. CASE UNCHANGED vars \/ \E h \in Handler : Call(h)
    BY <1>2, <1>3 DEF vars, Call, MarkSeen, SyncInventory, Reconcile, SaveLease, Queue
  <1>4. CASE \/ \E n \in Node : AdminRunNatter(n)
             \/ \E b \in Manual : AddBinding(b)
    BY <1>2, <1>4 DEF AdminRunNatter, AddBinding
  <1>5. CASE \E d \in Domain : AdminCreateDomain(d)
    BY <1>5 DEF AdminCreateDomain, MembersAreApproved
  <1>6. ASSUME NEW h \in Handler, NEW n \in Node, AgentPoll(h, n) \/ AgentReport(h, n)
        PROVE  MembersAreApproved'
    BY <1>2, <1>6 DEF AgentPoll, AgentReport
  <1>7. ASSUME NEW h \in Handler, NEW n \in Node,
               AgentRegister(h, n) \/ \E d \in Domain : AgentJoin(h, n, d)
        PROVE  MembersAreApproved'
    BY <1>1, <1>7 DEF AgentRegister, AgentJoin, MembersAreApproved, Membership
  <1>8. ASSUME NEW h \in Handler, NEW n \in Node, AdminDelete(h, n)
        PROVE  MembersAreApproved'
    BY <1>1, <1>8 DEF AdminDelete, MembersWithout, MembersAreApproved, Membership
  <1>9. ASSUME NEW h \in Handler, NEW n \in Node, NEW d0 \in Domain \cup {<<>>},
               NEW role0 \in Role \cup {""}, NEW i0 \in Iface \cup {<<>>},
               AdminApprove(h, n, d0, role0, i0)
        PROVE  MembersAreApproved'
    <2>1. PICK m \in Membership :
            /\ m.node = n /\ m.domain \in domains
            /\ members' = {x \in members : ~(x.domain = m.domain /\ x.node = n)} \cup {m}
      BY <1>9, ApprovedMember
    <2>2. nodes' = [nodes EXCEPT ![n] = "approved"] /\ domains' = domains
      BY <1>9 DEF AdminApprove
    <2>3. \A x \in members : x.node \in Node
      BY <1>1 DEF Membership
    <2>4. QED
      BY <1>1, <2>1, <2>2, <2>3 DEF MembersAreApproved
  <1>10. QED
    BY <1>3, <1>4, <1>5, <1>6, <1>7, <1>8, <1>9 DEF Next, Request

\* Only approved nodes are members, of domains that exist, whatever handlers
\* are at work (ApproveNode, DeleteNode).
THEOREM MembersApproved == Spec => []MembersAreApproved
  <1>1. Init => MembersAreApproved
    BY RegistryAssumption DEF Init, MembersAreApproved
  <1>2. QED
    BY <1>1, InitType, NextType, MembersNext, PTL DEF Spec

\* Reconciling binds approved nodes only, and a deleted node loses its bindings.
LEMMA BindingsNext ==
  TypeOK /\ AutoBindingsJoinApproved /\ [Next]_vars => AutoBindingsJoinApproved'
  <1> SUFFICES ASSUME TypeOK, AutoBindingsJoinApproved, [Next]_vars
               PROVE  AutoBindingsJoinApproved'
    OBVIOUS
  <1>1. /\ nodes \in [Node -> {"absent", "pending", "approved"}]
        /\ \A b \in bindings : b.server \in Node /\ b.client \in Node
    BY DEF TypeOK
  <1>2. CASE UNCHANGED <<nodes, domains, bindings>>
    BY <1>2 DEF AutoBindingsJoinApproved
  <1>3. ASSUME NEW h \in Handler, MarkSeen(h) \/ SyncInventory(h) \/ SaveLease(h) \/ Queue(h)
        PROVE  AutoBindingsJoinApproved'
    BY <1>2, <1>3 DEF MarkSeen, SyncInventory, SaveLease, Queue
  <1>4. ASSUME NEW h \in Handler, Reconcile(h) PROVE AutoBindingsJoinApproved'
    <2>1. bindings' \subseteq bindings \cup Wanted /\ UNCHANGED <<nodes, domains>>
      BY <1>4, Reconciled DEF Reconcile
    <2>2. QED
      BY <2>1, WantedAre DEF AutoBindingsJoinApproved
  <1>5. ASSUME NEW h \in Handler, NEW n \in Node, AgentPoll(h, n) \/ AgentReport(h, n)
        PROVE  AutoBindingsJoinApproved'
    BY <1>2, <1>5 DEF AgentPoll, AgentReport
  <1>6. ASSUME NEW h \in Handler, NEW n \in Node,
               AgentRegister(h, n) \/ \E d \in Domain : AgentJoin(h, n, d)
        PROVE  AutoBindingsJoinApproved'
    BY <1>1, <1>6 DEF AgentRegister, AgentJoin, AutoBindingsJoinApproved
  <1>7. ASSUME NEW h \in Handler, NEW n \in Node, AdminDelete(h, n)
        PROVE  AutoBindingsJoinApproved'
    BY <1>1, <1>7 DEF AdminDelete, BindingsWithout, AutoBindingsJoinApproved
  <1>8. ASSUME NEW h \in Handler, NEW n \in Node, NEW d0, NEW role0, NEW i0,
               AdminApprove(h, n, d0, role0, i0)
        PROVE  AutoBindingsJoinApproved'
    <2>1. /\ nodes' = [nodes EXCEPT ![n] = "approved"]
          /\ domains' = domains /\ bindings' = bindings
      BY <1>8 DEF AdminApprove
    <2>2. QED
      BY <1>1, <2>1 DEF AutoBindingsJoinApproved
  <1>9. ASSUME NEW b \in Manual, AddBinding(b) PROVE AutoBindingsJoinApproved'
    <2>1. bindings' \subseteq bindings \cup {b} /\ UNCHANGED <<nodes, domains>>
      BY <1>9 DEF AddBinding
    <2>2. b.auto = FALSE
      BY RegistryAssumption
    <2>3. QED
      BY <2>1, <2>2 DEF AutoBindingsJoinApproved
  <1>10. CASE \/ \E d \in Domain : AdminCreateDomain(d)
              \/ \E n \in Node : AdminRunNatter(n)
              \/ UNCHANGED vars
    BY <1>2, <1>10 DEF AdminCreateDomain, AdminRunNatter, vars, AutoBindingsJoinApproved
  <1>11. QED
    BY <1>3, <1>4, <1>5, <1>6, <1>7, <1>8, <1>9, <1>10 DEF Next, Request, Call

\* An automatic binding joins two approved nodes of a domain that exists, at
\* every moment (ReconcileAutoBindings, DeleteNode).
THEOREM BindingsJoinApproved == Spec => []AutoBindingsJoinApproved
  <1>1. Init => AutoBindingsJoinApproved
    BY DEF Init, AutoBindingsJoinApproved
  <1>2. QED
    BY <1>1, InitType, NextType, BindingsNext, PTL DEF Spec

(***************************************************************************)
(* A binding the memberships contradict is about to be removed.            *)
(***************************************************************************)
Due(h) == \E i \in DOMAIN handlers[h].steps : handlers[h].steps[i] = "reconcile"

\* A handler that has yet to reconcile keeps to it until it does.
LEMMA StillDue ==
  ASSUME TypeOK, NEW g \in Handler, Due(g), failures' = failures,
         \/ \E h \in Handler : Request(h) \/ (Call(h) /\ ~Reconcile(h))
         \/ UNCHANGED handlers
  PROVE  Due(g)'
  <1>1. CASE UNCHANGED handlers
    BY <1>1 DEF Due
  <1>2. HandlersOK /\ failures \in Nat
    BY DEF TypeOK, HandlersOK, HandlerRecord
  <1>3. ASSUME NEW h \in Handler, h # g, handlers'[g] = handlers[g] PROVE Due(g)'
    BY <1>3 DEF Due
  <1>4. ASSUME NEW h \in Handler, Request(h) PROVE Due(g)'
    <2>1. handlers[h].steps = <<>>
      BY <1>4 DEF Request, AgentRegister, AgentPoll, AgentReport, AgentJoin, AdminDelete,
                  AdminApprove, Free
    <2>2. h # g
      BY <2>1 DEF Due
    <2>3. \E st : Set(h, st)
      BY <1>4 DEF Request, AgentRegister, AgentPoll, AgentReport, AgentJoin, AdminDelete,
                  AdminApprove, SaveThen
    <2>4. handlers'[g] = handlers[g]
      BY <1>2, <2>2, <2>3 DEF Set, HandlersOK
    <2>5. QED
      BY <1>3, <2>2, <2>4
  <1>5. ASSUME NEW h \in Handler, MarkSeen(h) \/ SyncInventory(h) PROVE Due(g)'
    <2>1. /\ handlers' = [handlers EXCEPT ![h] = Rest(h)]
          /\ handlers[h].steps # <<>> /\ Head(handlers[h].steps) \in {"seen", "sync"}
      BY <1>5 DEF MarkSeen, SyncInventory, At, Go, Set
    <2>2. CASE h # g
      BY <1>2, <1>3, <2>1, <2>2 DEF HandlersOK
    <2>3. CASE h = g
      <3>1. handlers'[g].steps = Tail(handlers[g].steps)
        BY <1>2, <2>1, <2>3, RestOK DEF HandlersOK
      <3>2. handlers[g].steps \in Plans
        BY <1>2 DEF HandlersOK, HandlerRecord
      <3>3. \E i \in DOMAIN Tail(handlers[g].steps) : Tail(handlers[g].steps)[i] = "reconcile"
        BY <2>1, <2>3, <3>2, PlanTail DEF Due
      <3>4. QED
        BY <3>1, <3>3 DEF Due
    <2>4. QED
      BY <2>2, <2>3
  <1>6. ASSUME NEW h \in Handler, SaveLease(h) \/ Queue(h) PROVE Due(g)'
    <2>1. handlers[h].steps # <<>> /\ Head(handlers[h].steps) \in {"lease", "queue"}
      BY <1>6 DEF SaveLease, Queue, At
    <2>2. handlers[h].steps \in Plans
      BY <1>2 DEF HandlersOK, HandlerRecord
    <2>3. h # g
      BY <2>1, <2>2, PlanTail DEF Due
    <2>4. \E st : Set(h, st)
      BY <1>6 DEF SaveLease, Queue, SaveThen
    <2>5. handlers'[g] = handlers[g]
      BY <1>2, <2>3, <2>4 DEF Set, HandlersOK
    <2>6. QED
      BY <1>3, <2>3, <2>5
  <1>7. QED
    BY <1>1, <1>4, <1>5, <1>6 DEF Call

\* Right after reconciling, every automatic binding matches.
LEMMA ReconciledMatch ==
  ASSUME TypeOK, ReconcileAutoBindings, UNCHANGED members,
         NEW b \in bindings', b.auto
  PROVE  Matches(b)'
  <1>1. Matches(b)' <=> Matches(b)
    BY DEF Matches, Plays
  <1>2. CASE b \in Stored
    BY <1>1, <1>2, Reconciled, WantedAre
  <1>3. CASE b \in Kept
    <2>1. b \in bindings /\ b.id \notin Ids(Stored) /\ (b.id \in Ids(Wanted) \/ Matches(b))
      BY <1>3 DEF Kept
    <2>2. ASSUME b.id \in Ids(Wanted) PROVE FALSE
      <3>1. PICK w \in Wanted : w.id = b.id
        BY <2>2 DEF Ids
      <3>2. w \in Stored
        BY <2>1, <3>1 DEF Stored
      <3>3. QED
        BY <2>1, <3>1, <3>2 DEF Ids
    <2>3. QED
      BY <1>1, <2>1, <2>2
  <1>4. QED
    BY <1>2, <1>3, Reconciled

\* Every step keeps a reconciler for the bindings that have to go.
LEMMA StaleNext ==
  TypeOK /\ StaleBindingHasReconciler /\ [Next]_vars => StaleBindingHasReconciler'
  <1> SUFFICES ASSUME TypeOK, StaleBindingHasReconciler, [Next]_vars, failures' = 0,
                      NEW b \in bindings', b.auto, ~Matches(b)'
               PROVE  \E h \in Handler : Due(h)'
    BY DEF StaleBindingHasReconciler, Due
  <1>1. failures = 0 /\ failures' = failures
    BY FailuresGrow DEF TypeOK
  <1>2. ASSUME NEW h \in Handler, NEW n \in Node, Set(h, Serve(n, <<"reconcile">>, {}))
        PROVE  Due(h)'
    <2>1. handlers'[h].steps = <<"reconcile">>
      BY <1>2 DEF Set, Serve, TypeOK
    <2>2. QED
      BY <2>1 DEF Due
  <1>3. ASSUME NEW h \in Handler, NEW n \in Node, AdminDelete(h, n)
        PROVE  \E g \in Handler : Due(g)'
    <2>1. Set(h, Serve(n, <<"reconcile">>, {}))
      BY <1>1, <1>3 DEF AdminDelete, SaveThen, TypeOK
    <2>2. QED
      BY <1>2, <2>1
  <1>4. ASSUME NEW h \in Handler, NEW n \in Node, NEW d0, NEW role0, NEW i0,
               AdminApprove(h, n, d0, role0, i0)
        PROVE  \E g \in Handler : Due(g)'
    <2>1. Set(h, Serve(n, <<"reconcile">>, {}))
      <3>1. SaveThen(h, Serve(n, <<"reconcile">>, {}))
        BY <1>4 DEF AdminApprove
      <3>2. QED
        BY <1>1, <3>1 DEF SaveThen
    <2>2. QED
      BY <1>2, <2>1
  <1>5. ASSUME NEW h \in Handler, Reconcile(h) PROVE FALSE
    BY <1>5, ReconciledMatch DEF Reconcile
  <1>6. ASSUME UNCHANGED members, b \in bindings,
               \/ \E h \in Handler : Request(h) \/ (Call(h) /\ ~Reconcile(h))
               \/ UNCHANGED handlers
        PROVE  \E g \in Handler : Due(g)'
    <2>1. ~Matches(b)
      BY <1>6 DEF Matches, Plays
    <2>2. PICK g \in Handler : Due(g)
      BY <1>1, <1>6, <2>1 DEF StaleBindingHasReconciler, Due
    <2>3. QED
      BY <1>1, <1>6, <2>2, StillDue
  <1>7. ASSUME NEW h \in Handler, Call(h), ~Reconcile(h) PROVE \E g \in Handler : Due(g)'
    BY <1>6, <1>7 DEF Call, MarkSeen, SyncInventory, SaveLease, Queue
  <1>8. ASSUME NEW h \in Handler, NEW n \in Node, Request(h),
               \/ AgentRegister(h, n) \/ AgentPoll(h, n) \/ AgentReport(h, n)
               \/ \E d \in Domain : AgentJoin(h, n, d)
        PROVE  \E g \in Handler : Due(g)'
    BY <1>6, <1>8 DEF AgentRegister, AgentPoll, AgentReport, AgentJoin
  <1>9. CASE \/ \E d \in Domain : AdminCreateDomain(d)
             \/ \E n \in Node : AdminRunNatter(n)
             \/ UNCHANGED vars
    BY <1>6, <1>9 DEF AdminCreateDomain, AdminRunNatter, vars
  <1>10. ASSUME NEW x \in Manual, AddBinding(x) PROVE \E g \in Handler : Due(g)'
    <2>1. x.auto = FALSE
      BY RegistryAssumption
    <2>2. UNCHANGED <<members, handlers>> /\ b \in bindings
      BY <1>10, <2>1 DEF AddBinding
    <2>3. QED
      BY <1>6, <2>2
  <1>11. QED
    BY <1>3, <1>4, <1>5, <1>7, <1>8, <1>9, <1>10 DEF Next, Request

\* As long as no save failed, an automatic binding the memberships contradict
\* has a handler that is still to remove it (adminApproveNode, agentPoll).
THEOREM StaleGoes == Spec => []StaleBindingHasReconciler
  <1>1. Init => StaleBindingHasReconciler
    BY DEF Init, StaleBindingHasReconciler
  <1>2. QED
    BY <1>1, InitType, NextType, StaleNext, PTL DEF Spec

(***************************************************************************)
(* Keys.                                                                   *)
(***************************************************************************)
MembersUnique  == \A a, b \in members : a.domain = b.domain /\ a.node = b.node => a = b
ReportsUnique  == \A a, b \in inventory : a.node = b.node /\ a.iface = b.iface => a = b
BindingsUnique == \A a, b \in bindings : a.id = b.id => a = b
LeasesUnique   == \A a, b \in endpoints : a.id = b.id => a = b

\* Reconciling leaves one binding for an id.
LEMMA ReconcileUnique ==
  ASSUME BindingsUnique, LeasesUnique, ReconcileAutoBindings
  PROVE  BindingsUnique' /\ LeasesUnique'
  <1>1. PICK bs \in SUBSET Stored : OneEach(bs) /\ bindings' = Kept \cup bs
    BY DEF ReconcileAutoBindings
  <1>2. \A a, b \in bs : a.id = b.id => a = b
    BY <1>1 DEF OneEach, Ids
  <1>3. \A a \in Kept, b \in bs : a.id # b.id
    BY <1>1 DEF Kept, Ids
  <1>4. BindingsUnique'
    BY <1>1, <1>2, <1>3, Reconciled DEF BindingsUnique
  <1>5. QED
    BY <1>4, Reconciled DEF LeasesUnique

\* The endpoints of a lease replace those of the same ids.
LEMMA LeaseUnique ==
  ASSUME LeasesUnique, NEW h \in Handler, SaveLease(h)
  PROVE  LeasesUnique'
  <1>1. PICK i \in Iface :
          LET matched == {b \in bindings : /\ b.server = handlers[h].node
                                           /\ b.serverIface = i}
          IN  endpoints' = {e \in endpoints : e.id \notin Ids(matched)} \cup
                {[id |-> b.id, node |-> handlers[h].node, iface |-> i] : b \in matched}
    BY DEF SaveLease
  <1> DEFINE matched == {b \in bindings : b.server = handlers[h].node /\ b.serverIface = i}
  <1>2. \A b \in matched : b.id \in Ids(matched)
    BY DEF Ids
  <1>3. \A e \in endpoints' :
          \/ e \in endpoints /\ e.id \notin Ids(matched)
          \/ /\ e.id \in Ids(matched)
             /\ e = [id |-> e.id, node |-> handlers[h].node, iface |-> i]
    BY <1>1, <1>2
  <1>4. QED
    BY <1>3 DEF LeasesUnique

\* Every step keeps the keys unique.
LEMMA KeysNext == TypeOK /\ KeysUnique /\ [Next]_vars => KeysUnique'
  <1> SUFFICES ASSUME TypeOK, KeysUnique, [Next]_vars PROVE KeysUnique'
    OBVIOUS
  <1>1. MembersUnique /\ ReportsUnique /\ BindingsUnique /\ LeasesUnique
    BY DEF KeysUnique, MembersUnique, ReportsUnique, BindingsUnique, LeasesUnique
  <1>2. ASSUME MembersUnique', ReportsUnique', BindingsUnique', LeasesUnique'
        PROVE  KeysUnique'
    BY <1>2 DEF KeysUnique, MembersUnique, ReportsUnique, BindingsUnique, LeasesUnique
  <1>3. ASSUME members' \subseteq members, inventory' \subseteq inventory,
               bindings' \subseteq bindings, endpoints' \subseteq endpoints
        PROVE  KeysUnique'
    BY <1>3 DEF KeysUnique
  <1>4. ASSUME NEW h \in Handler, NEW n \in Node,
               \/ AgentRegister(h, n) \/ AgentPoll(h, n) \/ AgentReport(h, n)
               \/ \E d \in Domain : AgentJoin(h, n, d)
        PROVE  KeysUnique'
    BY <1>3, <1>4 DEF AgentRegister, AgentPoll, AgentReport, AgentJoin
  <1>5. CASE \/ \E d \in Domain : AdminCreateDomain(d)
             \/ \E n \in Node : AdminRunNatter(n)
             \/ \E h \in Handler : MarkSeen(h) \/ Queue(h)
             \/ UNCHANGED vars
    BY <1>3, <1>5 DEF AdminCreateDomain, AdminRunNatter, MarkSeen, Queue, vars
  <1>6. ASSUME NEW h \in Handler, NEW n \in Node, AdminDelete(h, n) PROVE KeysUnique'
    BY <1>3, <1>6 DEF AdminDelete, MembersWithout, BindingsWithout, EndpointsWith
  <1>7. ASSUME NEW h \in Handler, NEW n \in Node, NEW d0 \in Domain \cup {<<>>},
               NEW role0 \in Role \cup {""}, NEW i0 \in Iface \cup {<<>>},
               AdminApprove(h, n, d0, role0, i0)
        PROVE  KeysUnique'
    <2>1. PICK m \in Membership :
            /\ m.node = n
            /\ members' = {x \in members : ~(x.domain = m.domain /\ x.node = n)} \cup {m}
      BY <1>7, ApprovedMember
    <2>2. MembersUnique'
      BY <1>1, <2>1 DEF MembersUnique
    <2>3. QED
      BY <1>1, <1>2, <1>7, <2>2 DEF AdminApprove, ReportsUnique, BindingsUnique, LeasesUnique
  <1>8. ASSUME NEW b \in Manual, AddBinding(b) PROVE KeysUnique'
    <2>1. BindingsUnique'
      BY <1>1, <1>8 DEF AddBinding, BindingsUnique
    <2>2. QED
      BY <1>1, <1>2, <1>8, <2>1 DEF AddBinding, MembersUnique, ReportsUnique, LeasesUnique
  <1>9. ASSUME NEW h \in Handler, SyncInventory(h) PROVE KeysUnique'
    <2>1. PICK report \in SUBSET {v \in View : v.node = handlers[h].node} :
            /\ \A v, w \in report : v.iface = w.iface => v = w
            /\ inventory' = IF report = {} THEN inventory
                            ELSE {v \in inventory : v.node # handlers[h].node} \cup report
      BY <1>9 DEF SyncInventory
    <2>2. \A v \in report : v.node = handlers[h].node
      OBVIOUS
    <2>3. ReportsUnique'
      BY <1>1, <2>1, <2>2 DEF ReportsUnique
    <2>4. QED
      BY <1>1, <1>2, <1>9, <2>3 DEF SyncInventory, MembersUnique, BindingsUnique, LeasesUnique
  <1>10. ASSUME NEW h \in Handler, Reconcile(h) PROVE KeysUnique'
    <2>1. BindingsUnique' /\ LeasesUnique'
      BY <1>1, <1>10, ReconcileUnique DEF Reconcile
    <2>2. QED
      BY <1>1, <1>2, <1>10, <2>1 DEF Reconcile, MembersUnique, ReportsUnique
  <1>11. ASSUME NEW h \in Handler, SaveLease(h) PROVE KeysUnique'
    <2>1. LeasesUnique'
      BY <1>1, <1>11, LeaseUnique
    <2>2. QED
      BY <1>1, <1>2, <1>11, <2>1 DEF SaveLease, MembersUnique, ReportsUnique, BindingsUnique
  <1>12. QED
    BY <1>4, <1>5, <1>6, <1>7, <1>8, <1>9, <1>10, <1>11 DEF Next, Request, Call

\* One membership for a domain and a node, one interface for a node and a name,
\* one binding and one endpoint for an id (Store).
THEOREM UniqueKeys == Spec => []KeysUnique
  <1>1. Init => KeysUnique
    BY RegistryAssumption DEF Init, KeysUnique
  <1>2. QED
    BY <1>1, InitType, NextType, KeysNext, PTL DEF Spec

(***************************************************************************)
(* Names and ids.                                                          *)
(***************************************************************************)

Join(p, x) == p \o x

LEMMA JoinSeq == ASSUME NEW S, NEW p \in Seq(S), NEW x \in Seq(S) PROVE Join(p, x) \in Seq(S)
  BY ConcatProperties DEF Join

\* Where two sequences were joined is known when the last parts are as long.
LEMMA SplitOnce ==
  ASSUME NEW S, NEW p \in Seq(S), NEW q \in Seq(S), NEW x \in Seq(S), NEW y \in Seq(S),
         Len(x) = Len(y), Join(p, x) = Join(q, y)
  PROVE  p = q /\ x = y
  <1>1. /\ Len(p) \in Nat /\ Len(q) \in Nat /\ Len(x) \in Nat
        /\ Len(p \o x) = Len(p) + Len(x) /\ Len(q \o y) = Len(q) + Len(y)
    BY LenProperties, ConcatProperties
  <1>2. Len(p) = Len(q)
    BY <1>1 DEF Join
  <1>3. \A n \in 1 .. Len(p) + Len(x) :
          Join(p, x)[n] = IF n <= Len(p) THEN p[n] ELSE x[n - Len(p)]
    BY ConcatProperties DEF Join
  <1>4. \A n \in 1 .. Len(q) + Len(y) :
          Join(q, y)[n] = IF n <= Len(q) THEN q[n] ELSE y[n - Len(q)]
    BY ConcatProperties DEF Join
  <1>5. \A n \in 1 .. Len(p) : p[n] = q[n]
    BY <1>1, <1>2, <1>3, <1>4
  <1>6. p = q
    BY <1>2, <1>5, SeqEqual
  <1>7. QED
    BY <1>6, ConcatSimplifications DEF Join

\* Two links never get one id when all node names have the same number of dashes
\* in them, and all interface names have: none, for instance (autoBindingID).
THEOREM EvenNamesDistinguish ==
  ASSUME \A x, y \in Node : Len(x) = Len(y),
         \A x, y \in Iface : Len(x) = Len(y)
  PROVE  IdsDistinguish
  <1> SUFFICES ASSUME NEW a \in Link, NEW b \in Link, LinkId(a) = LinkId(b) PROVE a = b
    BY DEF IdsDistinguish
  <1> DEFINE P     == STRING \cup {"to"}
             to    == <<"to">>
             p2(l) == Join(l.domain, l.server)
             p3(l) == Join(p2(l), l.serverIface)
             p4(l) == Join(p3(l), to)
             p5(l) == Join(p4(l), l.client)
  <1>1. \A x \in Node \cup Domain \cup Iface : x \in Seq(P)
    BY RegistryAssumption, SeqMonotonic
  <1>2. to \in Seq(P)
    OBVIOUS
  <1>3. \A l \in Link : LinkId(l) = Join(p5(l), l.clientIface)
    BY DEF LinkId, AutoId, Join
  <1> HIDE DEF P, to
  <1>4. ASSUME NEW l \in Link
        PROVE  /\ l.domain \in Seq(P) /\ l.server \in Seq(P) /\ l.serverIface \in Seq(P)
               /\ l.client \in Seq(P) /\ l.clientIface \in Seq(P)
               /\ p2(l) \in Seq(P) /\ p3(l) \in Seq(P) /\ p4(l) \in Seq(P) /\ p5(l) \in Seq(P)
    <2>1. /\ l.domain \in Seq(P) /\ l.server \in Seq(P) /\ l.serverIface \in Seq(P)
          /\ l.client \in Seq(P) /\ l.clientIface \in Seq(P)
      BY <1>1 DEF Link
    <2>2. p2(l) \in Seq(P)
      BY <2>1, JoinSeq
    <2>3. p3(l) \in Seq(P)
      BY <2>1, <2>2, JoinSeq
    <2>4. p4(l) \in Seq(P)
      BY <1>2, <2>3, JoinSeq
    <2>5. QED
      BY <2>1, <2>2, <2>3, <2>4, JoinSeq
  <1>5. /\ Len(a.server) = Len(b.server) /\ Len(a.serverIface) = Len(b.serverIface)
        /\ Len(a.client) = Len(b.client) /\ Len(a.clientIface) = Len(b.clientIface)
    BY DEF Link
  <1>6. p5(a) = p5(b) /\ a.clientIface = b.clientIface
    <2>1. Join(p5(a), a.clientIface) = Join(p5(b), b.clientIface)
      BY <1>3
    <2>2. /\ p5(a) \in Seq(P) /\ p5(b) \in Seq(P)
          /\ a.clientIface \in Seq(P) /\ b.clientIface \in Seq(P)
          /\ Len(a.clientIface) = Len(b.clientIface)
      BY <1>4, <1>5
    <2> HIDE DEF p5
    <2>3. QED
      BY <2>1, <2>2, SplitOnce
  <1>7. p4(a) = p4(b) /\ a.client = b.client
    <2>1. Join(p4(a), a.client) = Join(p4(b), b.client)
      BY <1>6
    <2>2. /\ p4(a) \in Seq(P) /\ p4(b) \in Seq(P)
          /\ a.client \in Seq(P) /\ b.client \in Seq(P)
          /\ Len(a.client) = Len(b.client)
      BY <1>4, <1>5
    <2> HIDE DEF p4
    <2>3. QED
      BY <2>1, <2>2, SplitOnce
  <1>8. p3(a) = p3(b)
    <2>1. Join(p3(a), to) = Join(p3(b), to)
      BY <1>7
    <2>2. p3(a) \in Seq(P) /\ p3(b) \in Seq(P)
      BY <1>4
    <2> HIDE DEF p3
    <2>3. QED
      BY <1>2, <2>1, <2>2, SplitOnce
  <1>9. p2(a) = p2(b) /\ a.serverIface = b.serverIface
    <2>1. Join(p2(a), a.serverIface) = Join(p2(b), b.serverIface)
      BY <1>8
    <2>2. /\ p2(a) \in Seq(P) /\ p2(b) \in Seq(P)
          /\ a.serverIface \in Seq(P) /\ b.serverIface \in Seq(P)
          /\ Len(a.serverIface) = Len(b.serverIface)
      BY <1>4, <1>5
    <2> HIDE DEF p2
    <2>3. QED
      BY <2>1, <2>2, SplitOnce
  <1>10. a.domain = b.domain /\ a.server = b.server
    <2>1. Join(a.domain, a.server) = Join(b.domain, b.server)
      BY <1>9
    <2>2. /\ a.domain \in Seq(P) /\ b.domain \in Seq(P)
          /\ a.server \in Seq(P) /\ b.server \in Seq(P)
          /\ Len(a.server) = Len(b.server)
      BY <1>4, <1>5
    <2>3. QED
      BY <2>1, <2>2, SplitOnce
  <1>11. QED
    BY <1>6, <1>7, <1>9, <1>10 DEF Link

\* An automatic binding has the names of its link, and the id they make.
AutoNamed(b) ==
  /\ b \in [id : {b.id}, domain : Domain, auto : {TRUE}, server : Node, serverIface : Iface,
            client : Node, clientIface : Iface, key : STRING]
  /\ b.id = LinkId(b)

\* Every binding was derived from its names, or added by hand.
BindingsNamed == \A b \in bindings : AutoNamed(b) \/ b \in Manual

\* The records a wanted binding joins.
LEMMA WantedNamed ==
  ASSUME TypeOK, NEW w \in Wanted
  PROVE  /\ w.auto = TRUE /\ AutoNamed(w)
         /\ \E s \in inventory, c \in inventory : w = AutoBinding(w.domain, s, c)
  <1>1. PICK x \in domains \X inventory \X inventory : w = AutoBinding(x[1], x[2], x[3])
    BY DEF Wanted
  <1>2. x[1] \in Domain /\ x[2] \in inventory /\ x[3] \in inventory
    BY DEF TypeOK
  <1>3. /\ x[2].node \in Node /\ x[2].iface \in Iface
        /\ x[3].node \in Node /\ x[3].iface \in Iface /\ x[2].key \in STRING
    BY <1>2, RegistryAssumption DEF TypeOK
  <1>4. /\ w.auto = TRUE /\ w.domain = x[1]
        /\ w.server = x[2].node /\ w.serverIface = x[2].iface
        /\ w.client = x[3].node /\ w.clientIface = x[3].iface
        /\ w \in [id : {w.id}, domain : {x[1]}, auto : {TRUE}, server : {x[2].node},
                  serverIface : {x[2].iface}, client : {x[3].node},
                  clientIface : {x[3].iface}, key : {x[2].key}]
        /\ w.id = LinkId(w)
    BY <1>1 DEF AutoBinding, LinkId
  <1>5. QED
    BY <1>1, <1>2, <1>3, <1>4 DEF AutoNamed

LEMMA NamesLink ==
  ASSUME NEW b, AutoNamed(b)
  PROVE  LinkOf(b) \in Link /\ LinkId(LinkOf(b)) = b.id
  BY DEF AutoNamed, LinkOf, Link, LinkId

\* When ids distinguish, an id names one link.
LEMMA NamedOnce ==
  ASSUME IdsDistinguish, NEW a, NEW b, AutoNamed(a), AutoNamed(b), a.id = b.id
  PROVE  /\ a.domain = b.domain
         /\ a.server = b.server /\ a.serverIface = b.serverIface
         /\ a.client = b.client /\ a.clientIface = b.clientIface
  <1>1. LinkOf(a) = LinkOf(b)
    BY NamesLink DEF IdsDistinguish
  <1>2. QED
    BY <1>1 DEF LinkOf

\* ... and one wanted binding.
LEMMA WantedOnce ==
  ASSUME IdsDistinguish, TypeOK, KeysUnique,
         NEW v \in Wanted, NEW w \in Wanted, v.id = w.id
  PROVE  v = w
  <1>1. PICK s \in inventory, c \in inventory : v = AutoBinding(v.domain, s, c)
    BY WantedNamed
  <1>2. PICK t \in inventory, u \in inventory : w = AutoBinding(w.domain, t, u)
    BY WantedNamed
  <1>3. /\ v.server = s.node /\ v.serverIface = s.iface
        /\ v.client = c.node /\ v.clientIface = c.iface
    BY <1>1 DEF AutoBinding
  <1>4. /\ w.server = t.node /\ w.serverIface = t.iface
        /\ w.client = u.node /\ w.clientIface = u.iface
    BY <1>2 DEF AutoBinding
  <1>5. /\ v.domain = w.domain
        /\ v.server = w.server /\ v.serverIface = w.serverIface
        /\ v.client = w.client /\ v.clientIface = w.clientIface
    BY WantedNamed, NamedOnce
  <1>6. s = t /\ c = u
    BY <1>3, <1>4, <1>5 DEF KeysUnique
  <1>7. QED
    BY <1>1, <1>2, <1>5, <1>6

\* Every step keeps the bindings named.
LEMMA NamedNext == TypeOK /\ BindingsNamed /\ [Next]_vars => BindingsNamed'
  <1> SUFFICES ASSUME TypeOK, BindingsNamed, [Next]_vars PROVE BindingsNamed'
    OBVIOUS
  <1>1. ASSUME bindings' \subseteq bindings PROVE BindingsNamed'
    BY <1>1 DEF BindingsNamed, AutoNamed
  <1>2. ASSUME NEW h \in Handler, Reconcile(h) PROVE BindingsNamed'
    <2>1. bindings' \subseteq bindings \cup Wanted
      BY <1>2, Reconciled DEF Reconcile
    <2>2. QED
      BY <2>1, WantedNamed DEF BindingsNamed, AutoNamed
  <1>3. ASSUME NEW h \in Handler, MarkSeen(h) \/ SyncInventory(h) \/ SaveLease(h) \/ Queue(h)
        PROVE  BindingsNamed'
    BY <1>1, <1>3 DEF MarkSeen, SyncInventory, SaveLease, Queue
  <1>4. ASSUME NEW h \in Handler, NEW n \in Node,
               \/ AgentRegister(h, n) \/ AgentPoll(h, n) \/ AgentReport(h, n)
               \/ \E d \in Domain : AgentJoin(h, n, d)
               \/ AdminDelete(h, n)
               \/ \E d, role, i : AdminApprove(h, n, d, role, i)
        PROVE  BindingsNamed'
    BY <1>1, <1>4 DEF AgentRegister, AgentPoll, AgentReport, AgentJoin, AdminDelete,
                      BindingsWithout, AdminApprove
  <1>5. ASSUME NEW b \in Manual, AddBinding(b) PROVE BindingsNamed'
    BY <1>5 DEF AddBinding, BindingsNamed, AutoNamed
  <1>6. CASE \/ \E d \in Domain : AdminCreateDomain(d)
             \/ \E n \in Node : AdminRunNatter(n)
             \/ UNCHANGED vars
    BY <1>1, <1>6 DEF AdminCreateDomain, AdminRunNatter, vars
  <1>7. QED
    BY <1>2, <1>3, <1>4, <1>5, <1>6 DEF Next, Request, Call

LEMMA InitNamed == Init => BindingsNamed
  BY DEF Init, BindingsNamed

(***************************************************************************)
(* Endpoints.                                                              *)
(***************************************************************************)
Owns(b, e) == b.id = e.id /\ (b.auto => b.server = e.node /\ b.serverIface = e.iface)

\* An endpoint that outlives reconciling still has the binding it came from, or
\* a new one for the same link.
LEMMA EndpointStaysOwn ==
  ASSUME IdsDistinguish, TypeOK, KeysUnique, BindingsNamed, EndpointsAreOwn,
         ReconcileAutoBindings, NEW e \in endpoints'
  PROVE  \E b \in bindings' : Owns(b, e)
  <1>1. e \in endpoints /\ e.id \notin Ids(bindings) \ Ids(bindings')
    BY DEF ReconcileAutoBindings, EndpointsWith
  <1>2. PICK old \in bindings : Owns(old, e)
    BY <1>1 DEF EndpointsAreOwn, Owns
  <1>3. PICK b \in bindings' : b.id = e.id
    BY <1>1, <1>2 DEF Ids, Owns
  <1>4. CASE b \in Kept
    <2>1. b = old
      BY <1>2, <1>3, <1>4, Reconciled DEF KeysUnique, Owns
    <2>2. QED
      BY <1>2, <2>1
  <1>5. CASE b \in Stored
    <2>1. b \in Wanted /\ b.auto /\ AutoNamed(b)
      BY <1>5, Reconciled, WantedNamed
    <2>2. PICK x \in bindings : x.id = b.id /\ x.auto
      BY <1>2, <1>3, <1>5 DEF Stored, Owns
    <2>3. x = old
      BY <1>2, <1>3, <2>2 DEF KeysUnique, Owns
    <2>4. AutoNamed(old) /\ old.auto
      BY <2>2, <2>3, RegistryAssumption DEF BindingsNamed
    <2>5. b.server = old.server /\ b.serverIface = old.serverIface
      BY <1>2, <1>3, <2>1, <2>4, NamedOnce DEF Owns
    <2>6. QED
      BY <1>2, <1>3, <2>4, <2>5 DEF Owns
  <1>6. QED
    BY <1>4, <1>5, Reconciled

\* The endpoints of a lease are those of the bindings it serves.
LEMMA LeaseIsOwn ==
  ASSUME EndpointsAreOwn, KeysUnique, NEW h \in Handler, SaveLease(h),
         NEW e \in endpoints'
  PROVE  \E b \in bindings : Owns(b, e)
  <1>1. PICK i \in Iface :
          LET matched == {b \in bindings : /\ b.server = handlers[h].node
                                           /\ b.serverIface = i}
          IN  endpoints' = {x \in endpoints : x.id \notin Ids(matched)} \cup
                {[id |-> b.id, node |-> handlers[h].node, iface |-> i] : b \in matched}
    BY DEF SaveLease
  <1>2. CASE e \in endpoints
    BY <1>2 DEF EndpointsAreOwn, Owns
  <1>3. CASE e \notin endpoints
    <2>1. PICK b \in bindings :
            /\ b.server = handlers[h].node /\ b.serverIface = i
            /\ e = [id |-> b.id, node |-> handlers[h].node, iface |-> i]
      BY <1>1, <1>3
    <2>2. QED
      BY <2>1 DEF Owns
  <1>4. QED
    BY <1>2, <1>3

\* Every step keeps the endpoints own.
LEMMA OwnNext ==
  ASSUME IdsDistinguish
  PROVE  TypeOK /\ KeysUnique /\ BindingsNamed /\ EndpointsAreOwn /\ [Next]_vars
           => EndpointsAreOwn'
  <1> SUFFICES ASSUME TypeOK, KeysUnique, BindingsNamed, EndpointsAreOwn, [Next]_vars,
                      NEW e \in endpoints'
               PROVE  \E b \in bindings' : Owns(b, e)
    BY DEF EndpointsAreOwn, Owns
  <1>1. CASE UNCHANGED <<bindings, endpoints>>
    BY <1>1 DEF EndpointsAreOwn, Owns
  <1>2. ASSUME NEW h \in Handler, Reconcile(h) PROVE \E b \in bindings' : Owns(b, e)
    BY <1>2, EndpointStaysOwn DEF Reconcile
  <1>3. ASSUME NEW h \in Handler, SaveLease(h) PROVE \E b \in bindings' : Owns(b, e)
    <2>1. bindings' = bindings
      BY <1>3 DEF SaveLease
    <2>2. QED
      BY <1>3, <2>1, LeaseIsOwn
  <1>4. ASSUME NEW h \in Handler, MarkSeen(h) \/ SyncInventory(h) \/ Queue(h)
        PROVE  \E b \in bindings' : Owns(b, e)
    BY <1>1, <1>4 DEF MarkSeen, SyncInventory, Queue
  <1>5. ASSUME NEW h \in Handler, NEW n \in Node,
               \/ AgentRegister(h, n) \/ AgentPoll(h, n) \/ AgentReport(h, n)
               \/ \E d \in Domain : AgentJoin(h, n, d)
               \/ \E d, role, i : AdminApprove(h, n, d, role, i)
        PROVE  \E b \in bindings' : Owns(b, e)
    BY <1>1, <1>5 DEF AgentRegister, AgentPoll, AgentReport, AgentJoin, AdminApprove
  <1>6. ASSUME NEW h \in Handler, NEW n \in Node, AdminDelete(h, n)
        PROVE  \E b \in bindings' : Owns(b, e)
    <2>1. bindings' \subseteq bindings
      BY <1>6 DEF AdminDelete, BindingsWithout
    <2>2. e \in endpoints /\ e.id \notin Ids(bindings) \ Ids(bindings')
      BY <1>6 DEF AdminDelete, EndpointsWith
    <2>3. PICK old \in bindings : Owns(old, e)
      BY <2>2 DEF EndpointsAreOwn, Owns
    <2>4. PICK b \in bindings' : b.id = e.id
      BY <2>2, <2>3 DEF Ids, Owns
    <2>5. b = old
      BY <2>1, <2>3, <2>4 DEF KeysUnique, Owns
    <2>6. QED
      BY <2>3, <2>5
  <1>7. ASSUME NEW x \in Manual, AddBinding(x) PROVE \E b \in bindings' : Owns(b, e)
    <2>1. bindings' = {b \in bindings : b.id # x.id} \cup {x} /\ endpoints' = endpoints
      BY <1>7 DEF AddBinding
    <2>2. x.auto = FALSE
      BY RegistryAssumption
    <2>3. PICK old \in bindings : Owns(old, e)
      BY <2>1 DEF EndpointsAreOwn, Owns
    <2>4. CASE old.id = x.id
      BY <2>1, <2>2, <2>3, <2>4 DEF Owns
    <2>5. CASE old.id # x.id
      BY <2>1, <2>3, <2>5
    <2>6. QED
      BY <2>4, <2>5
  <1>8. CASE \/ \E d \in Domain : AdminCreateDomain(d)
             \/ \E n \in Node : AdminRunNatter(n)
             \/ UNCHANGED vars
    BY <1>1, <1>8 DEF AdminCreateDomain, AdminRunNatter, vars
  <1>9. QED
    BY <1>2, <1>3, <1>4, <1>5, <1>6, <1>7, <1>8 DEF Next, Request, Call

\* Where names are told apart by their ids, a client is never sent to a server
\* that is not its own: the endpoint of an automatic binding came from a lease of
\* the binding's server and interface (SaveEndpointLease, ReconcileAutoBindings,
\* DeleteNode, AddBinding).
THEOREM EndpointsOwn ==
  ASSUME IdsDistinguish PROVE Spec => []EndpointsAreOwn
  <1>1. Init => EndpointsAreOwn
    BY DEF Init, EndpointsAreOwn
  <1>2. TypeOK /\ KeysUnique /\ BindingsNamed /\ EndpointsAreOwn /\ [Next]_vars
          => EndpointsAreOwn'
    BY OwnNext
  <1>3. Init => KeysUnique
    BY RegistryAssumption DEF Init, KeysUnique
  <1>4. QED
    BY <1>1, <1>2, <1>3, InitType, NextType, KeysNext, InitNamed, NamedNext, PTL DEF Spec

(***************************************************************************)
(* Links.                                                                  *)
(***************************************************************************)
Binds(b, w) ==
  /\ b.server = w.server /\ b.serverIface = w.serverIface
  /\ b.client = w.client /\ b.clientIface = w.clientIface
  /\ b.key = w.key

\* Two bindings of the same link differ in their id and their origin only.
LEMMA SameLinkBinds ==
  ASSUME NEW b, AutoNamed(b) \/ b \in Manual, NEW w, SameLink(b, w)
  PROVE  Binds(b, w) /\ b.domain = w.domain
  BY RegistryAssumption DEF SameLink, Binds, AutoNamed

\* A wanted binding that is not stored has a binding of its link added by hand.
LEMMA UnstoredByHand ==
  ASSUME ManualApart, IdsDistinguish, TypeOK, KeysUnique, BindingsNamed,
         NEW w \in Wanted, w \notin Stored
  PROVE  \E b \in Kept : Binds(b, w)
  <1>1. w.auto = TRUE /\ AutoNamed(w)
    BY WantedNamed
  <1>2. \A b \in Manual : b.id # w.id
    BY <1>1, NamesLink DEF ManualApart
  <1>3. \A b \in bindings : b.id # w.id
    BY <1>2 DEF Stored, BindingsNamed, AutoNamed
  <1>4. PICK b \in bindings : SameLink(b, w)
    BY <1>3 DEF Stored
  <1>5. b \in Manual
    <2>1. ASSUME AutoNamed(b) PROVE FALSE
      <3>1. /\ b.domain = w.domain /\ b.server = w.server /\ b.serverIface = w.serverIface
            /\ b.client = w.client /\ b.clientIface = w.clientIface
        BY <1>4, <2>1, SameLinkBinds DEF Binds
      <3>2. b.id = w.id
        BY <1>1, <2>1, <3>1 DEF AutoNamed, LinkId
      <3>3. QED
        BY <1>3, <3>2
    <2>2. QED
      BY <2>1 DEF BindingsNamed
  <1>6. Binds(b, w) /\ b.domain = w.domain
    BY <1>4, <1>5, SameLinkBinds
  <1>7. ~b.auto /\ ~IsAutoId(b)
    <2>1. /\ b.auto = FALSE /\ b.server \in Node /\ b.serverIface \in Iface
          /\ b.client \in Node /\ b.clientIface \in Iface
      BY <1>5, RegistryAssumption
    <2>2. b.domain \in Domain
      BY <1>1, <1>6 DEF AutoNamed
    <2>3. b.id # LinkId(b)
      <3>1. LinkOf(b) \in Link /\ LinkId(LinkOf(b)) = LinkId(b)
        BY <2>1, <2>2 DEF LinkOf, Link, LinkId
      <3>2. QED
        BY <1>5, <3>1 DEF ManualApart
    <2>4. QED
      BY <2>1, <2>3 DEF IsAutoId
  <1>8. b.id \notin Ids(Stored)
    <2>1. \A v \in Stored : b.id # v.id
      BY <1>5, WantedNamed, NamesLink DEF Stored, ManualApart
    <2>2. QED
      BY <2>1 DEF Ids
  <1>9. QED
    BY <1>6, <1>7, <1>8 DEF Kept

\* Reconciling leaves no wanted link without a binding.
LEMMA ReconciledBinds ==
  ASSUME ManualApart, IdsDistinguish, TypeOK, KeysUnique, BindingsNamed,
         ReconcileAutoBindings, NEW w \in Wanted
  PROVE  \E b \in bindings' : Binds(b, w)
  <1>1. PICK bs \in SUBSET Stored : OneEach(bs) /\ bindings' = Kept \cup bs
    BY DEF ReconcileAutoBindings
  <1>2. CASE w \in Stored
    <2>1. PICK b \in bs : b.id = w.id
      BY <1>1, <1>2 DEF OneEach, Ids
    <2>2. b = w
      BY <2>1, WantedOnce DEF Stored
    <2>3. QED
      BY <1>1, <2>2 DEF Binds
  <1>3. CASE w \notin Stored
    BY <1>1, <1>3, UnstoredByHand
  <1>4. QED
    BY <1>2, <1>3

\* Where names are told apart by their ids and no binding added by hand takes the
\* id of an automatic one, every server whose key is in the peer list of a client
\* of its domain is bound to it once a handler has reconciled
\* (ReconcileAutoBindings).
THEOREM LinksBound ==
  ASSUME IdsDistinguish, ManualApart PROVE Spec => EveryLinkIsBound
  <1>1. TypeOK /\ KeysUnique /\ BindingsNamed /\ [Next]_vars =>
          [\A h \in Handler : Reconcile(h) =>
             \A w \in Wanted : \E b \in bindings' :
               /\ b.server = w.server /\ b.serverIface = w.serverIface
               /\ b.client = w.client /\ b.clientIface = w.clientIface
               /\ b.key = w.key]_vars
    BY ReconciledBinds DEF Reconcile, Binds
  <1>2. Init => KeysUnique
    BY RegistryAssumption DEF Init, KeysUnique
  <1>3. QED
    BY <1>1, <1>2, InitType, NextType, KeysNext, InitNamed, NamedNext, PTL
       DEF Spec, EveryLinkIsBound

(***************************************************************************)
(* The agreement: every step of the registry is one of AgreedLinks.        *)
(***************************************************************************)
Approved == {n \in Node : nodes[n] = "approved"}
Links    == {LinkOf(b) : b \in {x \in bindings : x.auto}}

\* The link of a binding is agreed when the memberships match the binding.
LEMMA AgreedMatches == \A b : Agreement!Agreed(LinkOf(b)) <=> Matches(b)
  <1> SUFFICES ASSUME NEW b PROVE Agreement!Agreed(LinkOf(b)) <=> Matches(b)
    OBVIOUS
  <1>1. /\ LinkOf(b).domain = b.domain
        /\ LinkOf(b).server = b.server /\ LinkOf(b).serverIface = b.serverIface
        /\ LinkOf(b).client = b.client /\ LinkOf(b).clientIface = b.clientIface
    BY DEF LinkOf
  <1>2. QED
    BY <1>1 DEF Agreement!Agreed, Matches, Plays

\* What automatic bindings there are decides about the links.
LEMMA LinksAre ==
  /\ \A b \in bindings : b.auto => LinkOf(b) \in Links
  /\ \A l \in Links : \E b \in bindings : b.auto /\ l = LinkOf(b)
  BY DEF Links

\* A reconciliation keeps the agreed links, if under another key, and no other.
LEMMA ReconcileAgrees ==
  ASSUME IdsDistinguish, TypeOK, BindingsNamed, ReconcileAutoBindings,
         UNCHANGED <<nodes, domains, members>>
  PROVE  Agreement!Reconcile
  <1>1. ASSUME NEW l \in Links' PROVE Agreement!Agreed(l)
    <2>1. PICK b \in bindings' : b.auto /\ l = LinkOf(b)
      BY <1>1 DEF Links
    <2>2. Matches(b)
      BY <2>1, ReconciledMatch DEF Matches, Plays
    <2>3. QED
      BY <2>1, <2>2, AgreedMatches
  <1>2. ASSUME NEW l \in Links, Agreement!Agreed(l) PROVE l \in Links'
    <2>1. PICK b \in bindings : b.auto /\ l = LinkOf(b)
      BY LinksAre
    <2>2. Matches(b)
      BY <1>2, <2>1, AgreedMatches
    <2>3. \E c \in bindings' : c.auto /\ LinkOf(c) = LinkOf(b)
      <3>1. PICK bs \in SUBSET Stored : OneEach(bs) /\ bindings' = Kept \cup bs
        BY DEF ReconcileAutoBindings
      <3>2. CASE b.id \notin Ids(Stored)
        <4>1. b \in Kept
          BY <2>2, <3>2 DEF Kept
        <4>2. QED
          BY <2>1, <3>1, <4>1
      <3>3. CASE b.id \in Ids(Stored)
        <4>1. PICK c \in bs : c.id = b.id
          BY <3>1, <3>3 DEF OneEach
        <4>2. c \in Wanted
          BY <3>1 DEF Stored
        <4>3. c.auto = TRUE /\ AutoNamed(c)
          BY <4>2, WantedNamed
        <4>4. AutoNamed(b)
          BY <2>1, RegistryAssumption DEF BindingsNamed
        <4>5. LinkOf(c) = LinkOf(b)
          BY <4>1, <4>3, <4>4, NamesLink DEF IdsDistinguish
        <4>6. QED
          BY <3>1, <4>1, <4>3, <4>5
      <3>4. QED
        BY <3>2, <3>3
    <2>4. QED
      BY <2>1, <2>3 DEF Links
  <1>3. UNCHANGED <<Approved, domains, members>>
    BY DEF Approved
  <1>4. QED
    BY <1>1, <1>2, <1>3 DEF Agreement!Reconcile, Approved, Links

\* A binding added by hand replaces at most one binding, so at most one link.
LEMMA ByHandAgrees ==
  ASSUME IdsDistinguish, TypeOK, KeysUnique, BindingsNamed, NEW b \in Manual, AddBinding(b)
  PROVE  Agreement!BindByHand \/ UNCHANGED Agreement!vars
  <1>1. /\ bindings' = {x \in bindings : x.id # b.id} \cup {b}
        /\ UNCHANGED <<nodes, domains, members>>
    BY DEF AddBinding
  <1>2. b.auto = FALSE
    BY RegistryAssumption
  <1>3. UNCHANGED <<Approved, domains, members>>
    BY <1>1 DEF Approved
  <1>4. CASE \E x \in bindings : x.auto /\ x.id = b.id
    <2>1. PICK x \in bindings : x.auto /\ x.id = b.id
      BY <1>4
    <2>2. \A y \in bindings : y.id = b.id => y = x
      BY <2>1 DEF KeysUnique
    <2>3. \A y \in bindings : y.auto => AutoNamed(y)
      BY RegistryAssumption DEF BindingsNamed
    <2>4. \A y \in bindings : y.auto /\ y.id # b.id => LinkOf(y) # LinkOf(x)
      BY <2>1, <2>3, NamesLink
    <2>5. Links' = Links \ {LinkOf(x)}
      <3>1. ASSUME NEW l \in Links' PROVE l \in Links \ {LinkOf(x)}
        <4>1. PICK y \in bindings' : y.auto /\ l = LinkOf(y)
          BY <3>1 DEF Links
        <4>2. y \in bindings /\ y.id # b.id
          BY <1>1, <1>2, <4>1
        <4>3. QED
          BY <2>4, <4>1, <4>2, LinksAre
      <3>2. ASSUME NEW l \in Links, l # LinkOf(x) PROVE l \in Links'
        <4>1. PICK y \in bindings : y.auto /\ l = LinkOf(y)
          BY LinksAre
        <4>2. y \in bindings'
          BY <1>1, <2>2, <3>2, <4>1
        <4>3. QED
          BY <4>1, <4>2 DEF Links
      <3>3. QED
        BY <3>1, <3>2
    <2>6. QED
      BY <1>3, <2>1, <2>5, LinksAre DEF Agreement!BindByHand, Approved, Links
  <1>5. CASE ~\E x \in bindings : x.auto /\ x.id = b.id
    <2>1. \A y : y \in bindings' /\ y.auto <=> y \in bindings /\ y.auto
      BY <1>1, <1>2, <1>5
    <2>2. Links' = Links
      <3>1. {y \in bindings' : y.auto} = {y \in bindings : y.auto}
        BY <2>1
      <3>2. QED
        BY <3>1 DEF Links, LinkOf
    <2>3. QED
      BY <1>3, <2>2 DEF Agreement!vars, Approved, Links
  <1>6. QED
    BY <1>4, <1>5

\* A deletion takes the role and the links of the node along.
LEMMA DeleteAgrees ==
  ASSUME TypeOK, NEW h \in Handler, NEW n \in Node, AdminDelete(h, n)
  PROVE  Agreement!Delete(n)
  <1>1. /\ nodes' = [nodes EXCEPT ![n] = "absent"] /\ domains' = domains
        /\ members' = {m \in members : m.node # n}
        /\ bindings' = {b \in bindings : n \notin {b.server, b.client}}
    BY DEF AdminDelete, MembersWithout, BindingsWithout
  <1>2. nodes \in [Node -> {"absent", "pending", "approved"}]
    BY DEF TypeOK
  <1>3. Approved' = Approved \ {n}
    BY <1>1, <1>2 DEF Approved
  <1>4. \A b : LinkOf(b).server = b.server /\ LinkOf(b).client = b.client
    BY DEF LinkOf
  <1>5. Links' = {l \in Links : n \notin {l.server, l.client}}
    <2>1. ASSUME NEW l \in Links' PROVE l \in Links /\ n \notin {l.server, l.client}
      <3>1. PICK b \in bindings' : b.auto /\ l = LinkOf(b)
        BY <2>1 DEF Links
      <3>2. b \in bindings /\ n \notin {b.server, b.client}
        BY <1>1, <3>1
      <3>3. QED
        BY <1>4, <3>1, <3>2, LinksAre
    <2>2. ASSUME NEW l \in Links, n \notin {l.server, l.client} PROVE l \in Links'
      <3>1. PICK b \in bindings : b.auto /\ l = LinkOf(b)
        BY LinksAre
      <3>2. b \in bindings'
        BY <1>1, <1>4, <2>2, <3>1
      <3>3. QED
        BY <3>1, <3>2 DEF Links
    <2>3. QED
      BY <2>1, <2>2
  <1>6. QED
    BY <1>1, <1>3, <1>5 DEF Agreement!Delete, Approved, Links

\* An approval gives the node one role in one domain, and touches no link.
LEMMA ApproveAgrees ==
  ASSUME TypeOK, NEW h \in Handler, NEW n \in Node, NEW d0 \in Domain \cup {<<>>},
         NEW role0 \in Role \cup {""}, NEW i0 \in Iface \cup {<<>>},
         AdminApprove(h, n, d0, role0, i0)
  PROVE  \E m \in Agreement!Member : Agreement!Approve(m)
  <1>1. PICK m \in Membership :
          /\ m.node = n /\ m.domain \in domains
          /\ members' = {x \in members : ~(x.domain = m.domain /\ x.node = n)} \cup {m}
    BY ApprovedMember
  <1>2. nodes' = [nodes EXCEPT ![n] = "approved"] /\ UNCHANGED <<domains, bindings>>
    BY DEF AdminApprove
  <1>3. nodes \in [Node -> {"absent", "pending", "approved"}]
    BY DEF TypeOK
  <1>4. Approved' = Approved \cup {m.node}
    BY <1>1, <1>2, <1>3 DEF Approved
  <1>5. Links' = Links
    BY <1>2 DEF Links, LinkOf
  <1>6. m \in Agreement!Member
    BY DEF Membership, Role, Agreement!Member
  <1>7. QED
    BY <1>1, <1>2, <1>4, <1>5, <1>6 DEF Agreement!Approve, Approved, Links

LEMMA StepAgrees ==
  IdsDistinguish /\ TypeOK /\ KeysUnique /\ BindingsNamed /\ [Next]_vars
    => [Agreement!Next]_(Agreement!vars)
  <1> SUFFICES ASSUME IdsDistinguish, TypeOK, KeysUnique, BindingsNamed, [Next]_vars
               PROVE  Agreement!Next \/ UNCHANGED Agreement!vars
    OBVIOUS
  <1>1. CASE UNCHANGED <<nodes, domains, members, bindings>>
    BY <1>1 DEF Agreement!vars, LinkOf
  <1>2. ASSUME NEW h \in Handler,
               \/ \E n \in Node : AgentPoll(h, n) \/ AgentReport(h, n)
               \/ MarkSeen(h) \/ SyncInventory(h) \/ SaveLease(h) \/ Queue(h)
        PROVE  Agreement!Next \/ UNCHANGED Agreement!vars
    <2>1. UNCHANGED <<nodes, domains, members, bindings>>
      BY <1>2 DEF AgentPoll, AgentReport, MarkSeen, SyncInventory, SaveLease, Queue,
                  registryVars
    <2>2. QED
      BY <1>1, <2>1
  <1>3. ASSUME NEW h \in Handler, NEW n \in Node,
               AgentRegister(h, n) \/ \E d \in Domain : AgentJoin(h, n, d)
        PROVE  UNCHANGED Agreement!vars
    <2>1. /\ nodes' = [nodes EXCEPT ![n] = IF @ = "absent" THEN "pending" ELSE @]
          /\ UNCHANGED <<domains, members, bindings>>
      BY <1>3 DEF AgentRegister, AgentJoin
    <2>2. Approved' = Approved
      BY <2>1 DEF TypeOK, Approved
    <2>3. QED
      BY <2>1, <2>2 DEF Agreement!vars, Approved, LinkOf
  <1>4. ASSUME NEW h \in Handler, NEW n \in Node, AdminDelete(h, n) PROVE Agreement!Next
    BY <1>4, DeleteAgrees DEF Agreement!Next
  <1>5. ASSUME NEW h \in Handler, NEW n \in Node, NEW d0 \in Domain \cup {<<>>},
               NEW role0 \in Role \cup {""}, NEW i0 \in Iface \cup {<<>>},
               AdminApprove(h, n, d0, role0, i0)
        PROVE  Agreement!Next
    BY <1>5, ApproveAgrees DEF Agreement!Next
  <1>6. ASSUME NEW h \in Handler, Reconcile(h) PROVE Agreement!Next
    BY <1>6, ReconcileAgrees DEF Reconcile, registryVars, Agreement!Next
  <1>7. ASSUME NEW d \in Domain, AdminCreateDomain(d) PROVE Agreement!Next
    <2>1. domains' = domains \cup {d} /\ UNCHANGED <<nodes, members, bindings>>
      BY <1>7 DEF AdminCreateDomain
    <2>2. QED
      BY <2>1 DEF Agreement!CreateDomain, Agreement!Next, LinkOf
  <1>8. CASE (\E n \in Node : AdminRunNatter(n)) \/ UNCHANGED vars
    BY <1>1, <1>8 DEF AdminRunNatter, registryVars, vars
  <1>9. ASSUME NEW b \in Manual, AddBinding(b)
        PROVE  Agreement!Next \/ UNCHANGED Agreement!vars
    BY <1>9, ByHandAgrees DEF Agreement!Next
  <1>10. QED
    BY <1>2, <1>3, <1>4, <1>5, <1>6, <1>7, <1>8, <1>9 DEF Next, Request, Call

\* Where names are told apart by their ids, the registry keeps to AgreedLinks whatever
\* handlers are at work: a link comes from a reconciliation and stays until the
\* memberships contradict it, a node of it is deleted or a binding is made by hand
\* (ReconcileAutoBindings, ApproveNode, DeleteNode).
THEOREM Refinement == ASSUME IdsDistinguish PROVE Spec => ImplementsAgreement
  <1>1. Init => KeysUnique /\ Agreement!Init
    <2> SUFFICES ASSUME Init PROVE KeysUnique /\ Agreement!Init
      OBVIOUS
    <2>1. KeysUnique
      BY RegistryAssumption DEF Init, KeysUnique
    <2>2. members \subseteq Agreement!Member /\ domains \subseteq Domain
      BY InitType DEF TypeOK, Membership, Role, Agreement!Member
    <2>3. Links = {}
      BY DEF Init, Links
    <2>4. Approved = {m.node : m \in members}
      <3>1. \A m \in members : m.node \in Node
        BY <2>2 DEF Agreement!Member
      <3>2. QED
        BY <3>1 DEF Init, Approved
    <2>5. QED
      BY <2>1, <2>2, <2>3, <2>4 DEF Agreement!Init, Approved, Links
  <1>2. QED
    BY <1>1, InitType, NextType, KeysNext, InitNamed, NamedNext, StepAgrees, PTL
       DEF Spec, ImplementsAgreement, Agreement!Spec
=============================================================================
