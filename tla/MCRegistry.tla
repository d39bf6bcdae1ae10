----------------------------- MODULE MCRegistry -----------------------------
(* Small instances of Registry for TLC. *)
EXTENDS Registry, TLC

CONSTANTS h1, h2

Handlers == {h1, h2}
OneHandler == {h1}
Symmetry == Permutations(Handlers)

\* status, leases and queued are written and never read: states that differ in
\* them only have the same future.
Essential == <<nodes, domains, members, pendingDomain, inventory, bindings,
               endpoints, handlers, failures>>

A == <<"a">>
C == <<"c">>
Home == <<"home">>
WG   == <<"wg0">>

Server(n, k) == [node |-> n, iface |-> WG, key |-> k, peers |-> {}]
Client(n, ps) == [node |-> n, iface |-> WG, key |-> "kc", peers |-> ps]
Member(d, n, r) == [domain |-> d, node |-> n, role |-> r, iface |-> WG]

\* One server and one client in one domain.
TwoNodes   == {A, C}
OneDomain  == {Home}
OneIface   == {WG}
TwoViews   == {Server(A, "ka"), Client(C, {"ka"})}
MoreViews  == {Server(A, "ka"), Server(A, "kb"), Client(C, {"ka", "kb"}), Client(C, {})}
BothMembers == {Member(Home, A, "server"), Member(Home, C, "client")}
NoManual   == {}

ByHand == [id |-> <<"manual">>, domain |-> <<>>, auto |-> FALSE,
           server |-> A, serverIface |-> WG, client |-> C, clientIface |-> WG,
           key |-> "ka"]
\* The same id again, for the other direction.
Swapped == [ByHand EXCEPT !.server = C, !.client = A]
TwoManual == {ByHand, Swapped}

\* The hypotheses of the theorems about endpoints and links hold here.
ASSUME InstanceIds == IdsDistinguish /\ ManualApart
=============================================================================
