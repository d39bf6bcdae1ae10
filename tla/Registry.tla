------------------------------ MODULE Registry ------------------------------
(***************************************************************************)
(* The daemon's registry: nodes, domains, memberships, the WireGuard       *)
(* inventory agents report, the bindings derived from them, and everything *)
(* kept per node in the runtime file.                                      *)
(*                                                                         *)
(* Every connection has a goroutine.  A request is a first step, when the  *)
(* request is authenticated or applied, and then the calls its handler     *)
(* makes into the store: each locks the store on its own, so the steps of  *)
(* different handlers interleave.  A name is the sequence of its parts     *)
(* between dashes; <<>> is the empty string.  Requests with bad            *)
(* credentials or arguments change nothing and are left out, as are the    *)
(* configuration fields of a membership.                                   *)
(***************************************************************************)
EXTENDS Integers, Sequences, FiniteSets

CONSTANTS
  Node, Domain, Iface,  \* names
  View,                 \* inventory records an agent may report
  Manual,               \* bindings the add-binding command may add
  Handler,              \* handlers that may be at work at one time
  StartMembers,         \* memberships in the state file at the start
  MaxFailures           \* bound on failed saves

ASSUME RegistryAssumption ==
  /\ Node \cup Domain \cup Iface \subseteq Seq(STRING) \ {<<>>}
  /\ View \subseteq [node : Node, iface : Iface, key : STRING, peers : SUBSET STRING]
  /\ Manual \subseteq [id : Seq(STRING), domain : Domain \cup {<<>>}, auto : {FALSE},
                      server : Node, serverIface : Iface, client : Node,
                      clientIface : Iface, key : STRING]
  /\ StartMembers \subseteq [domain : Domain, node : Node, role : {"server", "client"},
                            iface : Iface]
  /\ \A a, b \in StartMembers : a.domain = b.domain /\ a.node = b.node => a = b
  /\ MaxFailures \in Nat

VARIABLES
  nodes,         \* nodes[n]: "absent", "pending" or "approved" (data.Nodes)
  domains,       \* domains created by the administrator
  members,       \* memberships: at most one for a domain and a node
  pendingDomain, \* pendingDomain[n]: domain n asked to join, <<>> for none
  status,        \* status[n] in runtime.NodeRuntime, "none" for no entry
  inventory,     \* runtime.WGInterfaces: at most one for a node and a name
  bindings,      \* data.Bindings: at most one for an id
  endpoints,     \* runtime.BindingEndpoint: the lease an id got its endpoint from
  leases,        \* <<node, iface>> with an entry in runtime.EndpointLeases
  queued,        \* nodes with an entry in runtime.Commands
  handlers,      \* handlers[h]: the node it serves and the calls it still makes
  failures       \* saves that failed so far

vars == <<nodes, domains, members, pendingDomain, status, inventory, bindings,
          endpoints, leases, queued, handlers, failures>>

registryVars == <<nodes, domains, members, pendingDomain>>
runtimeVars  == <<endpoints, leases, queued>>

Role  == {"server", "client"}

\* The calls a handler may have before it.
Plans == {<<>>, <<"sync">>, <<"reconcile">>, <<"sync", "reconcile">>,
          <<"seen", "sync", "reconcile">>, <<"lease">>, <<"queue">>}
Idle  == [node |-> <<>>, steps |-> <<>>, targets |-> {}]

Init ==
  /\ nodes = [n \in Node |-> IF \E m \in StartMembers : m.node = n
                               THEN "approved" ELSE "absent"]
  /\ domains = {m.domain : m \in StartMembers}
  /\ members = StartMembers
  /\ pendingDomain = [n \in Node |-> <<>>]
  /\ status = [n \in Node |-> IF nodes[n] = "approved" THEN "offline" ELSE "none"]
  /\ inventory = {}
  /\ bindings = {}
  /\ endpoints = {}
  /\ leases = {}
  /\ queued = {}
  /\ handlers = [h \in Handler |-> Idle]
  /\ failures = 0

(***************************************************************************)
(* Handlers.                                                               *)
(***************************************************************************)
Free(h)    == handlers[h].steps = <<>>
At(h, op)  == handlers[h].steps # <<>> /\ Head(handlers[h].steps) = op
Rest(h)    == [handlers[h] EXCEPT !.steps = Tail(@)]
Set(h, st) == handlers' = [handlers EXCEPT ![h] = st]

Serve(n, steps, targets) == [node |-> n, steps |-> steps, targets |-> targets]

\* The store is updated; when its save fails the handler answers with the error
\* and makes none of its other calls.
SaveThen(h, st) ==
  \/ Set(h, st) /\ UNCHANGED failures
  \/ Set(h, Idle) /\ failures < MaxFailures /\ failures' = failures + 1

\* The call ignores or only logs the error of its save.
Go(h) == Set(h, Rest(h)) /\ UNCHANGED failures

(***************************************************************************)
(* Bindings.                                                               *)
(***************************************************************************)
AutoId(d, s, si, c, ci) == d \o s \o si \o <<"to">> \o c \o ci

\* Mutant of AutoBinding: the server and its interface are swapped.
AutoBindingSwapped(d, s, c) ==
  [id |-> AutoId(d, s.node, s.iface, c.node, c.iface), domain |-> d, auto |-> TRUE,
   server |-> s.iface, serverIface |-> s.node,
   client |-> c.node, clientIface |-> c.iface, key |-> s.key]

AutoBinding(d, s, c) ==
  [id |-> AutoId(d, s.node, s.iface, c.node, c.iface), domain |-> d, auto |-> TRUE,
   server |-> s.node, serverIface |-> s.iface,
   client |-> c.node, clientIface |-> c.iface, key |-> s.key]

LinkId(b) == AutoId(b.domain, b.server, b.serverIface, b.client, b.clientIface)

IsAutoId(b) == b.domain # <<>> /\ b.id = LinkId(b)

SameLink(a, b) == [a EXCEPT !.id = b.id, !.auto = b.auto] = b
Ids(bs) == {b.id : b \in bs}

Plays(d, n, role, i) ==
  [domain |-> d, node |-> n, role |-> role, iface |-> i] \in members

\* bindingMatchesDomainMembers
Matches(b) == /\ Plays(b.domain, b.server, "server", b.serverIface)
              /\ Plays(b.domain, b.client, "client", b.clientIface)

\* The links of the inventory that are to have a binding.
Wanted ==
  {AutoBinding(w[1], w[2], w[3]) : w \in
     {x \in domains \X inventory \X inventory :
        LET d == x[1]  s == x[2]  c == x[3] IN
        /\ nodes[s.node] = "approved" /\ Plays(d, s.node, "server", s.iface)
        /\ nodes[c.node] = "approved" /\ Plays(d, c.node, "client", c.iface)
        /\ s.node # c.node
        /\ s.key # "" /\ s.key \in c.peers}}

\* Mutant of Stored: an automatic binding that exists is not updated.
StoredNew == {w \in Wanted : \A b \in bindings : b.id # w.id /\ ~SameLink(b, w)}

\* Those ReconcileAutoBindings stores: an id held by a manual binding is left
\* alone, and nothing is created next to a binding of the same link.
Stored ==
  {w \in Wanted : \/ \E b \in bindings : b.id = w.id /\ b.auto
                  \/ \A b \in bindings : b.id # w.id /\ ~SameLink(b, w)}

\* Mutant of Kept: automatic bindings are never removed.
KeptForGood == {b \in bindings : b.id \notin Ids(Stored)}

\* Kept without being stored anew.
Kept == {b \in bindings : /\ b.id \notin Ids(Stored)
                          /\ \/ ~b.auto /\ ~IsAutoId(b)
                             \/ b.id \in Ids(Wanted)
                             \/ Matches(b)}

\* Wanted bindings with one id overwrite each other in the order the maps are
\* iterated: any one of them is the last.
OneEach(bs) == \A id \in Ids(Stored) : \E b \in bs : b.id = id /\ \A c \in bs : c.id = id => c = b

\* Mutant of EndpointsWith: the endpoint of a removed binding stays behind.
EndpointsLeftBehind(bs) == endpoints

\* An endpoint goes with its binding.
EndpointsWith(bs) == {e \in endpoints : e.id \notin Ids(bindings) \ Ids(bs)}

ReconcileAutoBindings ==
  /\ \E bs \in SUBSET Stored : OneEach(bs) /\ bindings' = Kept \cup bs
  /\ endpoints' = EndpointsWith(bindings')

(***************************************************************************)
(* Requests of agents.                                                     *)
(***************************************************************************)

\* UpsertPendingNode: a new node, or a known one that starts again.
AgentRegister(h, n) ==
  /\ Free(h)
  /\ nodes' = [nodes EXCEPT ![n] = IF @ = "absent" THEN "pending" ELSE @]
  /\ status' = [status EXCEPT ![n] = "pending"]
  /\ SaveThen(h, Serve(n, <<"sync">>, {}))
  /\ UNCHANGED <<domains, members, pendingDomain, inventory, bindings, runtimeVars>>

\* UpsertJoinedNode: the same, with the domain of the join code.
AgentJoin(h, n, d) ==
  /\ Free(h)
  /\ d \in domains
  /\ nodes' = [nodes EXCEPT ![n] = IF @ = "absent" THEN "pending" ELSE @]
  /\ status' = [status EXCEPT ![n] = "pending"]
  /\ pendingDomain' = [pendingDomain EXCEPT ![n] = d]
  /\ SaveThen(h, Serve(n, <<"sync", "reconcile">>, {}))
  /\ UNCHANGED <<domains, members, inventory, bindings, runtimeVars>>

\* Mutant of AgentPoll: a poll does not reconcile.
AgentPollOnly(h, n) ==
  /\ Free(h)
  /\ nodes[n] = "approved"
  /\ Set(h, Serve(n, <<"seen", "sync">>, {}))
  /\ UNCHANGED <<registryVars, status, inventory, bindings, runtimeVars, failures>>

\* agent.poll authenticates; NextCommand is in module CommandQueue.
AgentPoll(h, n) ==
  /\ Free(h)
  /\ nodes[n] = "approved"
  /\ Set(h, Serve(n, <<"seen", "sync", "reconcile">>, {}))
  /\ UNCHANGED <<registryVars, status, inventory, bindings, runtimeVars, failures>>

\* agent.report of a natter.result or of an unreachable peer authenticates.
AgentReport(h, n) ==
  /\ Free(h)
  /\ nodes[n] = "approved"
  /\ \/ Set(h, Serve(n, <<"lease">>, {}))
     \/ \E server \in Node : Set(h, Serve(n, <<"queue">>, {server}))
  /\ UNCHANGED <<registryVars, status, inventory, bindings, runtimeVars, failures>>

(***************************************************************************)
(* Requests of the administrator.                                          *)
(***************************************************************************)
AdminCreateDomain(d) ==
  /\ d \notin domains
  /\ domains' = domains \cup {d}
  /\ UNCHANGED <<nodes, members, pendingDomain, status, inventory, bindings,
                 runtimeVars, handlers, failures>>

DomainsOf(n) == {m.domain : m \in {x \in members : x.node = n}}

\* The domain an approval without one refers to.
ImpliedDomain(n) ==
  IF pendingDomain[n] # <<>> THEN {pendingDomain[n]}
  ELSE {d \in DomainsOf(n) : DomainsOf(n) = {d}}

\* ApproveNode; an empty role or interface stands for the stored one.
AdminApprove(h, n, d0, role0, iface0) ==
  /\ Free(h)
  /\ nodes[n] # "absent"
  /\ \E d \in IF d0 # <<>> THEN {d0} ELSE ImpliedDomain(n) :
       LET old == {m \in members : m.domain = d /\ m.node = n} IN
       /\ d \in domains
       /\ \E role \in IF role0 # "" THEN {role0} ELSE {m.role : m \in old},
             i \in IF iface0 # <<>> THEN {iface0} ELSE {m.iface : m \in old} :
            members' = (members \ old) \cup
              {[domain |-> d, node |-> n, role |-> role, iface |-> i]}
  /\ nodes' = [nodes EXCEPT ![n] = "approved"]
  /\ pendingDomain' = [pendingDomain EXCEPT ![n] = <<>>]
  /\ status' = [status EXCEPT ![n] = IF @ \in {"none", "pending"} THEN "offline" ELSE @]
  /\ SaveThen(h, Serve(n, <<"reconcile">>, {}))
  /\ UNCHANGED <<domains, inventory, bindings, runtimeVars>>

\* Mutants: memberships are kept; only the bindings of a server are dropped.
MembersAsTheyAre(n)       == members
BindingsWithoutServer(n)  == {b \in bindings : b.server # n}

MembersWithout(n)  == {m \in members : m.node # n}
BindingsWithout(n) == {b \in bindings : n \notin {b.server, b.client}}

\* DeleteNode.  It leaves pendingDomain alone.
AdminDelete(h, n) ==
  /\ Free(h)
  /\ nodes[n] # "absent"
  /\ nodes' = [nodes EXCEPT ![n] = "absent"]
  /\ status' = [status EXCEPT ![n] = "none"]
  /\ queued' = queued \ {n}
  /\ members' = MembersWithout(n)
  /\ inventory' = {v \in inventory : v.node # n}
  /\ bindings' = BindingsWithout(n)
  /\ endpoints' = EndpointsWith(bindings')
  /\ leases' = {l \in leases : l[1] # n}
  /\ SaveThen(h, Serve(n, <<"reconcile">>, {}))
  /\ UNCHANGED <<domains, pendingDomain>>

\* admin.run_natter queues a command without looking the node up.
AdminRunNatter(n) ==
  /\ queued' = queued \cup {n}
  /\ UNCHANGED <<registryVars, status, inventory, bindings, endpoints, leases,
                 handlers, failures>>

\* The add-binding command, run on the state file while the daemon is stopped.
AddBinding(b) ==
  /\ \A h \in Handler : Free(h)
  /\ bindings' = {x \in bindings : x.id # b.id} \cup {b}
  /\ UNCHANGED <<registryVars, status, inventory, runtimeVars, handlers, failures>>

(***************************************************************************)
(* The calls of the handlers.                                              *)
(***************************************************************************)

\* MarkSeen reads the node, but writes the runtime entry in any case.
MarkSeen(h) ==
  /\ At(h, "seen")
  /\ LET n == handlers[h].node IN
     status' = [status EXCEPT ![n] = IF nodes[n] = "approved" THEN "online" ELSE "pending"]
  /\ Go(h)
  /\ UNCHANGED <<registryVars, inventory, bindings, runtimeVars>>

\* UpdateWGInterfaces: a report without interfaces changes nothing; any other
\* replaces what is known of the node, whether or not it still exists.
SyncInventory(h) ==
  /\ At(h, "sync")
  /\ LET n == handlers[h].node IN
     \E report \in SUBSET {v \in View : v.node = n} :
       /\ \A v, w \in report : v.iface = w.iface => v = w
       /\ inventory' = IF report = {} THEN inventory
                       ELSE {v \in inventory : v.node # n} \cup report
  /\ Go(h)
  /\ UNCHANGED <<registryVars, status, bindings, runtimeVars>>

Reconcile(h) ==
  /\ At(h, "reconcile")
  /\ ReconcileAutoBindings
  /\ Go(h)
  /\ UNCHANGED <<registryVars, status, inventory, leases, queued>>

\* SaveEndpointLease: the endpoint goes to every binding of the interface, and
\* the handler then queues an endpoint.apply for the client of each.
SaveLease(h) ==
  /\ At(h, "lease")
  /\ \E i \in Iface :
       LET n == handlers[h].node
           matched == {b \in bindings : b.server = n /\ b.serverIface = i}
       IN
       /\ leases' = leases \cup {<<n, i>>}
       /\ endpoints' = {e \in endpoints : e.id \notin Ids(matched)} \cup
                       {[id |-> b.id, node |-> n, iface |-> i] : b \in matched}
       /\ SaveThen(h, IF matched = {} THEN Idle
                      ELSE Serve(n, <<"queue">>, {b.client : b \in matched}))
  /\ UNCHANGED <<registryVars, status, inventory, bindings, queued>>

\* QueueCommand for one of the handler's targets, which may be gone.
Queue(h) ==
  /\ At(h, "queue")
  /\ \E n \in handlers[h].targets :
       /\ queued' = queued \cup {n}
       /\ LET left == handlers[h].targets \ {n} IN
          SaveThen(h, IF left = {} THEN Idle ELSE [handlers[h] EXCEPT !.targets = left])
  /\ UNCHANGED <<registryVars, status, inventory, bindings, endpoints, leases>>

Request(h) ==
  \E n \in Node :
    \/ AgentRegister(h, n) \/ AgentPoll(h, n) \/ AgentReport(h, n)
    \/ \E d \in Domain : AgentJoin(h, n, d)
    \/ AdminDelete(h, n)
    \/ \E d \in Domain \cup {<<>>}, role \in Role \cup {""}, i \in Iface \cup {<<>>} :
         AdminApprove(h, n, d, role, i)

Call(h) == MarkSeen(h) \/ SyncInventory(h) \/ Reconcile(h) \/ SaveLease(h) \/ Queue(h)

Next ==
  \/ \E h \in Handler : Request(h) \/ Call(h)
  \/ \E d \in Domain : AdminCreateDomain(d)
  \/ \E n \in Node : AdminRunNatter(n)
  \/ \E b \in Manual : AddBinding(b)

Spec == Init /\ [][Next]_vars

(***************************************************************************)
(* Fairness: a handler runs to its end, and approved agents keep polling.  *)
(***************************************************************************)
Fairness ==
  /\ \A h \in Handler : WF_vars(Call(h))
  /\ \A n \in Node : SF_vars(\E h \in Handler : AgentPoll(h, n))

FairSpec == Spec /\ Fairness
-----------------------------------------------------------------------------
(***************************************************************************)
(* Properties.                                                             *)
(***************************************************************************)
Membership == [domain : Domain, node : Node, role : Role, iface : Iface]

Link == [domain : Domain, server : Node, serverIface : Iface, client : Node,
         clientIface : Iface]

LinkOf(b) == [domain |-> b.domain, server |-> b.server, serverIface |-> b.serverIface,
              client |-> b.client, clientIface |-> b.clientIface]

\* Names that never give two links one id: cleanID joins them with dashes, so this
\* excludes for instance a domain x with a server y-z next to x-y with z.
IdsDistinguish == \A a, b \in Link : LinkId(a) = LinkId(b) => a = b

\* The administrator gives no binding the id of an automatic one.
ManualApart == \A b \in Manual, l \in Link : b.id # LinkId(l)

\* Types of the variables (Store, Server).
TypeOK ==
  /\ nodes \in [Node -> {"absent", "pending", "approved"}]
  /\ domains \subseteq Domain
  /\ members \subseteq Membership
  /\ pendingDomain \in [Node -> Domain \cup {<<>>}]
  /\ status \in [Node -> {"none", "pending", "online", "offline"}]
  /\ inventory \subseteq View
  /\ \A b \in bindings : b.auto \in BOOLEAN /\ b.server \in Node /\ b.client \in Node
  /\ \A e \in endpoints : e.node \in Node /\ e.iface \in Iface
  /\ leases \subseteq Node \X Iface
  /\ queued \subseteq Node
  /\ handlers \in [Handler -> [node : Node \cup {<<>>}, steps : Plans,
                              targets : SUBSET Node]]
  /\ \A h \in Handler : handlers[h].steps # <<>> => handlers[h].node \in Node
  /\ failures \in Nat

\* Maps keyed as in the code: one membership for a domain and a node, one
\* interface for a node and a name, one binding and one endpoint for an id.
KeysUnique ==
  /\ \A a, b \in members : a.domain = b.domain /\ a.node = b.node => a = b
  /\ \A a, b \in inventory : a.node = b.node /\ a.iface = b.iface => a = b
  /\ \A a, b \in bindings : a.id = b.id => a = b
  /\ \A a, b \in endpoints : a.id = b.id => a = b

\* Only approved nodes are members, of domains that exist: a deleted node that
\* registers again starts without a role (ApproveNode, DeleteNode).
MembersAreApproved ==
  \A m \in members : nodes[m.node] = "approved" /\ m.domain \in domains

\* An automatic binding joins two approved nodes of its domain, at every moment
\* and whatever handlers are at work (ReconcileAutoBindings, DeleteNode).
AutoBindingsJoinApproved ==
  \A b \in bindings : b.auto =>
     /\ nodes[b.server] = "approved" /\ nodes[b.client] = "approved"
     /\ b.domain \in domains /\ b.server # b.client

\* An automatic binding the memberships no longer justify is about to be
\* removed: some handler has yet to reconcile (adminApproveNode).
StaleBindingHasReconciler ==
  failures = 0 =>
    \A b \in bindings : b.auto /\ ~Matches(b) =>
      \E h \in Handler : \E i \in DOMAIN handlers[h].steps :
         handlers[h].steps[i] = "reconcile"

\* An endpoint belongs to a binding that exists, and that of an automatic binding
\* came from a lease of its own server and interface: clients are never sent to
\* another server (SaveEndpointLease, ReconcileAutoBindings, DeleteNode).  A
\* binding added by hand over another inherits the endpoint of its id.
EndpointsAreOwn ==
  \A e \in endpoints : \E b \in bindings :
     b.id = e.id /\ (b.auto => b.server = e.node /\ b.serverIface = e.iface)

\* Section 5 of the README: inside a domain, a server whose public key is in the
\* peer list of a client is bound to it.  So reconciling leaves no such pair
\* without a binding.
EveryLinkIsBound ==
  [][\A h \in Handler : Reconcile(h) =>
       \A w \in Wanted : \E b \in bindings' :
          /\ b.server = w.server /\ b.serverIface = w.serverIface
          /\ b.client = w.client /\ b.clientIface = w.clientIface
          /\ b.key = w.key]_vars

\* The registry keeps what AgreedLinks promises: every request and every call of a
\* handler is one of its steps or none, wherever the other handlers are.
Agreement == INSTANCE AgreedLinks
               WITH approved <- {n \in Node : nodes[n] = "approved"},
                    links    <- {LinkOf(b) : b \in {x \in bindings : x.auto}}
ImplementsAgreement == Agreement!Spec

\* A wanted link gets its binding, and a binding the memberships contradict
\* goes away, whichever save failed or handler was cut short: the polls of the
\* agents repair it (agentPoll).
Repaired ==
  /\ \A d \in Domain, s, c \in {v \in View : v.key # ""} :
       s.key \in c.peers =>
         LET w == AutoBinding(d, s, c) IN
         (w \in Wanted) ~> (w \notin Wanted \/ w.id \in Ids(bindings))
  /\ (\E b \in bindings : b.auto /\ ~Matches(b))
       ~> (\A b \in bindings : b.auto => Matches(b))
=============================================================================
