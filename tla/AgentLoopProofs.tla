-------------------------- MODULE AgentLoopProofs --------------------------
(***************************************************************************)
(* Proofs about AgentLoop, for all agents, configurations and bounds.      *)
(***************************************************************************)
EXTENDS AgentLoop, TLAPS

USE AgentLoopAssumption

LEMMA TypeInit == Init => TypeOK
<1> SUFFICES ASSUME Init PROVE TypeOK
  OBVIOUS
<1>1. token \in [Id -> Token \cup {None}] /\ approved \subseteq Id /\ ever \subseteq Node
  BY DEF Init, Created, Node
<1>2. /\ conf \in Configurations /\ me = [a \in Agent |-> NoOne] /\ pc = [a \in Agent |-> "down"]
      /\ file \in [Agent -> {None, Empty, Torn} \cup Identity]
      /\ peers \in [Agent -> SUBSET Peer] /\ watch \in [Agent -> SUBSET Peer]
      /\ joined = {} /\ enabled = LocalMonitor /\ running = {}
  BY DEF Init
<1>3. answer = [a \in Agent |-> Says("none")] /\ Says("none") \in Answer /\ Says("none").says = "none"
  BY DEF Init, Says, Answer
<1>4. client \subseteq approved /\ domain \in BOOLEAN /\ late = {} /\ gaveUp = {} /\ lost = {}
  BY DEF Init
<1>5. /\ bound \in [Id -> SUBSET Peer] /\ boundEver \in [Id -> SUBSET Peer]
      /\ maker \in [Identity -> Agent \cup {None}]
  BY DEF Init
<1>6. made \in 0 .. MaxIdentities /\ changes \in 0 .. MaxChanges /\ faults \in 0 .. MaxFaults
  BY DEF Init
<1> QED
  BY <1>1, <1>2, <1>3, <1>4, <1>5, <1>6 DEF TypeOK, Waits

LEMMA LateRegistrations ==
  ASSUME TypeOK, NEW a \in Agent, MayBeLate(a)
  PROVE  late' \subseteq gaveUp' /\ gaveUp' \subseteq Registrations
<1>1. CASE UNCHANGED <<late, gaveUp>>
  BY <1>1 DEF TypeOK
<1>2. CASE /\ Enrolling(a)
           /\ late' = late \cup {Registration(a)} /\ gaveUp' = gaveUp \cup {Registration(a)}
  <2>1. me[a] \in Node
    BY <1>2 DEF TypeOK, Enrolling
  <2>2. Registration(a) \in Registrations
    BY <2>1 DEF Registration, Registrations
  <2> QED
    BY <1>2, <2>2 DEF TypeOK
<1> QED
  BY <1>1, <1>2 DEF MayBeLate

LEMMA TypeStep == TypeOK /\ [Next]_vars => TypeOK'
<1> SUFFICES ASSUME TypeOK, [Next]_vars PROVE TypeOK'
  OBVIOUS
<1> USE DEF TypeOK, local, loopVars, monitor, registry, network
<1>1. ASSUME NEW a \in Agent, Start(a) PROVE TypeOK'
  BY <1>1 DEF Start, Waits
<1>2. ASSUME NEW a \in Agent, Load(a) PROVE TypeOK'
  BY <1>2 DEF Load, Waits, Begin, Credentials, NeedsFile, Node, Id, Token
<1>3. ASSUME NEW a \in Agent, LoadFails(a) PROVE TypeOK'
  BY <1>3 DEF LoadFails, Waits
<1>4. ASSUME NEW a \in Agent, Generate(a) PROVE TypeOK'
  BY <1>4 DEF Generate, Waits, Node, Id, Token, Identity
<1>5. ASSUME NEW a \in Agent, CreateWrite(a) PROVE TypeOK'
  BY <1>5 DEF CreateWrite, Waits, Begin, Credentials, Node, Id, Token, NeedsFile
<1>6. ASSUME NEW a \in Agent, Turn(a) PROVE TypeOK'
  BY <1>6 DEF Turn, Waits
<1>7. ASSUME NEW a \in Agent, EnrollReturns(a) PROVE TypeOK'
  BY <1>7 DEF EnrollReturns, Waits, Enrolling, Tell, Says, Answer, Approves
<1>8. ASSUME NEW a \in Agent, PollReturns(a) PROVE TypeOK'
  BY <1>8 DEF PollReturns, Waits, Tell, Says, Answer, NewPeers, AfterPoll
<1>9. ASSUME NEW a \in Agent, Enroll(a) PROVE TypeOK'
  BY <1>9 DEF Enroll, Enrolling, Waits, Register, Registration, Tell, Says, Answer, Node
<1>10. ASSUME NEW a \in Agent, Authenticate(a) PROVE TypeOK'
  <2>1. CASE \E s \in {"refused", "pending"} : Tell(a, Says(s)) /\ UNCHANGED pc
    BY <1>10, <2>1 DEF Authenticate, Waits, Tell, Says, Answer
  <2>2. CASE pc' = [pc EXCEPT ![a] = "wait"] /\ UNCHANGED answer
    BY <1>10, <2>2 DEF Authenticate, Waits
  <2> QED
    BY <1>10, <2>1, <2>2 DEF Authenticate
<1>11. ASSUME NEW a \in Agent, ReadBindings(a) PROVE TypeOK'
  BY <1>11 DEF ReadBindings, Waits, Tell, Answer, PeersOf, Node
<1>12. ASSUME NEW a \in Agent, ReadMembers(a) PROVE TypeOK'
  <2> DEFINE ans == [answer[a] EXCEPT !.says = "lists", !.client = me[a].id \in client]
  <2>1. ans \in Answer
    <3>1. answer[a] \in Answer /\ (me[a].id \in client) \in BOOLEAN
      OBVIOUS
    <3> QED
      BY <3>1, Zenon DEF Answer
  <2>2. answer' = [answer EXCEPT ![a] = ans] /\ pc[a] = "wait"
    BY <1>12 DEF ReadMembers, Tell
  <2> HIDE DEF ans
  <2> QED
    BY <1>12, <2>1, <2>2 DEF ReadMembers, Waits
<1>13. ASSUME NEW a \in Agent, MonitorStep(a) PROVE TypeOK'
  <2>1. watch' \in [Agent -> SUBSET Peer]
    <3>1. watch \in [Agent -> SUBSET Peer] /\ peers[a] \in SUBSET Peer
      OBVIOUS
    <3>2. CASE watch' = [watch EXCEPT ![a] = peers[a]]
      BY <3>1, <3>2
    <3>3. CASE \E p \in watch[a] : watch' = [watch EXCEPT ![a] = watch[a] \ {p}]
      BY <3>1, <3>3
    <3> QED
      BY <1>13, <3>2, <3>3 DEF MonitorStep, Tick, Probe
  <2> QED
    BY <1>13, <2>1 DEF MonitorStep, Tick, Probe, Waits
<1>14. ASSUME NEW a \in Agent, WriteFails(a) PROVE TypeOK'
  BY <1>14 DEF WriteFails, Fault, Forget, HalfWritten, Says, Answer, Waits
<1>15. ASSUME NEW a \in Agent, CallFails(a) PROVE TypeOK'
  <2>1. late' \subseteq gaveUp' /\ gaveUp' \subseteq Registrations
    BY <1>15, LateRegistrations DEF CallFails
  <2> QED
    BY <1>15, <2>1 DEF CallFails, Fault, Tell, Says, Answer, Waits
<1>16. ASSUME NEW a \in Agent, Kill(a) PROVE TypeOK'
  <2>1. late' \subseteq gaveUp' /\ gaveUp' \subseteq Registrations
    BY <1>16, LateRegistrations DEF Kill
  <2> QED
    BY <1>16, <2>1 DEF Kill, Fault, Forget, Says, Answer, Waits
<1>17. ASSUME NEW a \in Agent, LoseFile(a) PROVE TypeOK'
  BY <1>17 DEF LoseFile, Waits
<1>18. ASSUME NEW r \in late, LateEnroll(r) PROVE TypeOK'
  BY <1>18 DEF LateEnroll, Register, Registrations, Node, Waits
<1>19. ASSUME CreateDomain PROVE TypeOK'
  BY <1>19 DEF CreateDomain, Change, Waits
<1>20. ASSUME NEW i \in Id, NEW c \in BOOLEAN, Approve(i, c) PROVE TypeOK'
  BY <1>20 DEF Approve, Change, Node, Waits
<1>21. ASSUME NEW i \in Id, Delete(i) PROVE TypeOK'
  BY <1>21 DEF Delete, Change, Waits
<1>22. ASSUME NEW i \in Id, NEW S \in SUBSET Peer, Bind(i, S) PROVE TypeOK'
  BY <1>22 DEF Bind, Change, Waits
<1>23. CASE UNCHANGED vars
  BY <1>23 DEF vars, Waits
<1> HIDE DEF TypeOK, local, loopVars, monitor, registry, network
<1> QED
  BY <1>1, <1>2, <1>3, <1>4, <1>5, <1>6, <1>7, <1>8, <1>9, <1>10, <1>11, <1>12, <1>13,
     <1>14, <1>15, <1>16, <1>17, <1>18, <1>19, <1>20, <1>21, <1>22, <1>23
     DEF Next, AgentStep, DaemonStep, Failure

\* The state always has its type.
THEOREM TypeCorrect == Spec => []TypeOK
BY TypeInit, TypeStep, PTL DEF Spec

(***************************************************************************)
(* An agent joins after an answer that the daemon gave when the node was   *)
(* approved with the agent's token: from its registration on, an agent     *)
(* keeps its credentials.                                                  *)
(***************************************************************************)
InCall(a) == pc[a] \in {"loop", "enroll", "again", "poll", "wait"}

ApprovalInv ==
  /\ \A i \in approved : token[i] # None /\ [id |-> i, token |-> token[i]] \in ever
  /\ \A a \in joined : InCall(a) /\ me[a] \in ever
  /\ \A a \in Agent : answer[a].says = "approved" => me[a] \in ever

LEMMA ApprovalStep == TypeOK /\ ApprovalInv /\ [Next]_vars => ApprovalInv'
<1> SUFFICES ASSUME TypeOK, ApprovalInv, [Next]_vars PROVE ApprovalInv'
  OBVIOUS
<1> USE DEF ApprovalInv, InCall, local, loopVars, monitor, registry, network
<1>t. /\ joined \subseteq Agent /\ approved \subseteq Id /\ token \in [Id -> Token \cup {None}]
      /\ answer \in [Agent -> Answer] /\ DOMAIN pc = Agent /\ DOMAIN me = Agent
      /\ \A a \in Agent : pc[a] \notin {"down", "load"} => me[a] \in Node
      /\ gaveUp \subseteq Registrations /\ late \subseteq gaveUp
      /\ \A a \in Agent : ~InCall(a) => Waits(a)
      /\ ever \subseteq Node
  BY DEF TypeOK, Waits
<1>r. ASSUME NEW r \in Registrations, Register(r), UNCHANGED <<me, pc, joined>>,
             \A a \in Agent : answer'[a].says = "approved" => me[a] \in ever
      PROVE  ApprovalInv'
  BY <1>r, <1>t DEF Register, Registrations, Node, Admits
<1>1. ASSUME NEW a \in Agent, Start(a) PROVE ApprovalInv'
  BY <1>1, <1>t DEF Start
<1>2. ASSUME NEW a \in Agent, Load(a) PROVE ApprovalInv'
  BY <1>2, <1>t DEF Load, Begin, Waits
<1>3. ASSUME NEW a \in Agent, LoadFails(a) PROVE ApprovalInv'
  BY <1>3, <1>t DEF LoadFails
<1>4. ASSUME NEW a \in Agent, Generate(a) PROVE ApprovalInv'
  BY <1>4, <1>t DEF Generate, Waits
<1>5. ASSUME NEW a \in Agent, CreateWrite(a) PROVE ApprovalInv'
  BY <1>5, <1>t DEF CreateWrite, Begin, Waits
<1>6. ASSUME NEW a \in Agent, Turn(a) PROVE ApprovalInv'
  BY <1>6, <1>t DEF Turn
<1>7. ASSUME NEW a \in Agent, EnrollReturns(a) PROVE ApprovalInv'
  BY <1>7, <1>t DEF EnrollReturns, Enrolling, Approves, Tell, Says
<1>8. ASSUME NEW a \in Agent, PollReturns(a) PROVE ApprovalInv'
  BY <1>8, <1>t DEF PollReturns, AfterPoll, Tell, Says
<1>9. ASSUME NEW a \in Agent, Enroll(a) PROVE ApprovalInv'
  <2>1. me[a] \in Node /\ Registration(a) \in Registrations
    BY <1>9, <1>t DEF Enroll, Enrolling, Registration, Registrations
  <2>2. ASSUME Admits(Registration(a)), me[a].id \in approved PROVE me[a] \in ever
    <3>1. token[me[a].id] \in {None, me[a].token}
      BY <2>2 DEF Admits, Registration
    <3>2. token[me[a].id] = me[a].token /\ [id |-> me[a].id, token |-> token[me[a].id]] \in ever
      BY <3>1, <2>2
    <3> QED
      BY <3>2, <2>1 DEF Node
  <2>3. \A b \in Agent : answer'[b].says = "approved" => me[b] \in ever
    BY <1>9, <1>t, <2>2 DEF Enroll, Tell, Says
  <2> QED
    BY <1>9, <1>r, <2>1, <2>3 DEF Enroll
<1>10. ASSUME NEW a \in Agent, Authenticate(a) PROVE ApprovalInv'
  BY <1>10, <1>t DEF Authenticate, Tell, Says
<1>11. ASSUME NEW a \in Agent, ReadBindings(a) PROVE ApprovalInv'
  BY <1>11, <1>t DEF ReadBindings, Tell
<1>12. ASSUME NEW a \in Agent, ReadMembers(a) PROVE ApprovalInv'
  BY <1>12, <1>t DEF ReadMembers, Tell, Answer
<1>13. ASSUME NEW a \in Agent, MonitorStep(a) PROVE ApprovalInv'
  BY <1>13 DEF MonitorStep, Tick, Probe
<1>14. ASSUME NEW a \in Agent, WriteFails(a) PROVE ApprovalInv'
  BY <1>14, <1>t DEF WriteFails, Forget, Says
<1>15. ASSUME NEW a \in Agent, CallFails(a) PROVE ApprovalInv'
  BY <1>15, <1>t DEF CallFails, Tell, Says
<1>16. ASSUME NEW a \in Agent, Kill(a) PROVE ApprovalInv'
  BY <1>16, <1>t DEF Kill, Forget, Says
<1>17. ASSUME NEW a \in Agent, LoseFile(a) PROVE ApprovalInv'
  BY <1>17 DEF LoseFile
<1>18. ASSUME NEW r \in late, LateEnroll(r) PROVE ApprovalInv'
  BY <1>18, <1>r, <1>t DEF LateEnroll
<1>19. ASSUME CreateDomain PROVE ApprovalInv'
  BY <1>19 DEF CreateDomain, Change
<1>20. ASSUME NEW i \in Id, NEW c \in BOOLEAN, Approve(i, c) PROVE ApprovalInv'
  BY <1>20, <1>t DEF Approve, Change
<1>21. ASSUME NEW i \in Id, Delete(i) PROVE ApprovalInv'
  BY <1>21, <1>t DEF Delete, Change
<1>22. ASSUME NEW i \in Id, NEW S \in SUBSET Peer, Bind(i, S) PROVE ApprovalInv'
  BY <1>22 DEF Bind, Change
<1>23. CASE UNCHANGED vars
  BY <1>23 DEF vars
<1> QED
  BY <1>1, <1>2, <1>3, <1>4, <1>5, <1>6, <1>7, <1>8, <1>9, <1>10, <1>11, <1>12, <1>13,
     <1>14, <1>15, <1>16, <1>17, <1>18, <1>19, <1>20, <1>21, <1>22, <1>23
     DEF Next, AgentStep, DaemonStep, Failure

LEMMA ApprovalInit == Init => ApprovalInv
<1> SUFFICES ASSUME Init PROVE ApprovalInv
  OBVIOUS
<1>1. joined = {} /\ \A a \in Agent : answer[a].says = "none"
  BY DEF Init, Says
<1>2. PICK nodes \in SUBSET Created(conf) :
        /\ \A m, n \in nodes : m.id = n.id => m = n
        /\ token = [i \in Id |-> IF \E n \in nodes : n.id = i
                                 THEN (CHOOSE n \in nodes : n.id = i).token ELSE None]
        /\ approved = {n.id : n \in nodes}
        /\ ever = nodes
  BY DEF Init
<1>3. ASSUME NEW n \in nodes
      PROVE  token[n.id] = n.token /\ token[n.id] # None /\ [id |-> n.id, token |-> token[n.id]] \in ever
  <2>1. n \in Node
    BY DEF Created
  <2>2. (CHOOSE m \in nodes : m.id = n.id) = n
    BY <1>2
  <2>3. token[n.id] = n.token
    BY <1>2, <2>1, <2>2 DEF Node
  <2> QED
    BY <1>2, <2>1, <2>3 DEF Node, Token
<1>4. ASSUME NEW i \in approved
      PROVE  token[i] # None /\ [id |-> i, token |-> token[i]] \in ever
  <2>1. PICK n \in nodes : i = n.id
    BY <1>2
  <2> QED
    BY <2>1, <1>3
<1> QED
  BY <1>1, <1>4 DEF ApprovalInv

\* An agent polls only under credentials that were approved, whatever is
\* deleted, registered late, or registered by another agent meanwhile.
THEOREM JoinedAgentsWereApproved == Spec => []JoinedWasApproved
<1>1. TypeOK /\ ApprovalInv => JoinedWasApproved
  BY DEF ApprovalInv, JoinedWasApproved
<1> QED
  BY <1>1, TypeInit, TypeStep, ApprovalInit, ApprovalStep, PTL DEF Spec

(***************************************************************************)
(* Before it has credentials, an agent knows only its own configuration;   *)
(* afterwards its id decides what it is told, since it keeps it.           *)
(***************************************************************************)
WatchInv ==
  /\ \A i \in Id : bound[i] \subseteq boundEver[i]
  /\ \A a \in Agent :
       IF pc[a] \in {"down", "load", "create"}
       THEN a \notin running /\ peers[a] = LocalPeers[a] /\ watch[a] = {} /\ answer[a].peers = {}
       ELSE peers[a] \cup watch[a] \cup answer[a].peers
              \subseteq boundEver[me[a].id] \cup LocalPeers[a]

LEMMA WatchStep == TypeOK /\ WatchInv /\ [Next]_vars => WatchInv'
<1> SUFFICES ASSUME TypeOK, WatchInv, [Next]_vars PROVE WatchInv'
  OBVIOUS
<1> USE DEF WatchInv, local, loopVars, monitor, registry, network
<1>t. /\ bound \in [Id -> SUBSET Peer] /\ boundEver \in [Id -> SUBSET Peer]
      /\ answer \in [Agent -> Answer] /\ DOMAIN pc = Agent /\ DOMAIN me = Agent
      /\ peers \in [Agent -> SUBSET Peer] /\ watch \in [Agent -> SUBSET Peer]
      /\ \A a \in Agent : pc[a] \notin {"down", "load"} => me[a].id \in Id
  BY DEF TypeOK, Node
<1>s. ASSUME NEW s \in STRING PROVE Says(s).peers = {} /\ Says(s).says = s
  BY DEF Says
<1>1. ASSUME NEW a \in Agent, Start(a) PROVE WatchInv'
  BY <1>1, <1>t DEF Start
<1>2. ASSUME NEW a \in Agent, Load(a) PROVE WatchInv'
  BY <1>2, <1>t DEF Load, Begin
<1>3. ASSUME NEW a \in Agent, LoadFails(a) PROVE WatchInv'
  BY <1>3, <1>t DEF LoadFails
<1>4. ASSUME NEW a \in Agent, Generate(a) PROVE WatchInv'
  BY <1>4, <1>t DEF Generate
<1>5. ASSUME NEW a \in Agent, CreateWrite(a) PROVE WatchInv'
  BY <1>5, <1>t DEF CreateWrite, Begin
<1>6. ASSUME NEW a \in Agent, Turn(a) PROVE WatchInv'
  BY <1>6, <1>t DEF Turn
<1>7. ASSUME NEW a \in Agent, EnrollReturns(a) PROVE WatchInv'
  BY <1>7, <1>t DEF EnrollReturns, Enrolling, Tell, Says
<1>8. ASSUME NEW a \in Agent, PollReturns(a) PROVE WatchInv'
  BY <1>8, <1>t DEF PollReturns, AfterPoll, NewPeers, Tell, Says
<1>9. ASSUME NEW a \in Agent, Enroll(a) PROVE WatchInv'
  BY <1>9, <1>t DEF Enroll, Register, Tell, Says
<1>10. ASSUME NEW a \in Agent, Authenticate(a) PROVE WatchInv'
  <2>1. \A b \in Agent : answer'[b].peers \subseteq answer[b].peers
    BY <1>10, <1>t DEF Authenticate, Tell, Says
  <2>2. \A b \in Agent : pc'[b] = pc[b] \/ (pc[b] = "poll" /\ pc'[b] = "wait")
    BY <1>10, <1>t DEF Authenticate
  <2> QED
    BY <1>10, <1>t, <2>1, <2>2 DEF Authenticate
<1>11. ASSUME NEW a \in Agent, ReadBindings(a) PROVE WatchInv'
  BY <1>11, <1>t DEF ReadBindings, PeersOf, Tell
<1>12. ASSUME NEW a \in Agent, ReadMembers(a) PROVE WatchInv'
  BY <1>12, <1>t DEF ReadMembers, Tell, Answer
<1>13. ASSUME NEW a \in Agent, MonitorStep(a) PROVE WatchInv'
  <2>1. CASE Tick(a)
    BY <2>1, <1>t DEF Tick
  <2>2. CASE Probe(a)
    BY <2>2, <1>t DEF Probe
  <2> QED
    BY <1>13, <2>1, <2>2 DEF MonitorStep
<1>14. ASSUME NEW a \in Agent, WriteFails(a) PROVE WatchInv'
  BY <1>14, <1>t DEF WriteFails, Forget, Says
<1>15. ASSUME NEW a \in Agent, CallFails(a) PROVE WatchInv'
  BY <1>15, <1>t DEF CallFails, Tell, Says
<1>16. ASSUME NEW a \in Agent, Kill(a) PROVE WatchInv'
  BY <1>16, <1>t DEF Kill, Forget, Says
<1>17. ASSUME NEW a \in Agent, LoseFile(a) PROVE WatchInv'
  BY <1>17 DEF LoseFile
<1>18. ASSUME NEW r \in late, LateEnroll(r) PROVE WatchInv'
  BY <1>18 DEF LateEnroll, Register
<1>19. ASSUME CreateDomain PROVE WatchInv'
  BY <1>19 DEF CreateDomain, Change
<1>20. ASSUME NEW i \in Id, NEW c \in BOOLEAN, Approve(i, c) PROVE WatchInv'
  BY <1>20 DEF Approve, Change
<1>21. ASSUME NEW i \in Id, Delete(i) PROVE WatchInv'
  BY <1>21, <1>t DEF Delete, Change
<1>22. ASSUME NEW i \in Id, NEW S \in SUBSET Peer, Bind(i, S) PROVE WatchInv'
  <2>1. \A j \in Id : bound'[j] \subseteq boundEver'[j] /\ boundEver[j] \subseteq boundEver'[j]
    BY <1>22, <1>t DEF Bind
  <2> QED
    BY <1>22, <1>t, <2>1 DEF Bind, Change
<1>23. CASE UNCHANGED vars
  BY <1>23 DEF vars
<1> QED
  BY <1>1, <1>2, <1>3, <1>4, <1>5, <1>6, <1>7, <1>8, <1>9, <1>10, <1>11, <1>12, <1>13,
     <1>14, <1>15, <1>16, <1>17, <1>18, <1>19, <1>20, <1>21, <1>22, <1>23
     DEF Next, AgentStep, DaemonStep, Failure

\* What an agent watches is its own, under the id it has.
THEOREM AgentsWatchTheirOwn == Spec => []WatchedWasBound
<1>1. Init => WatchInv
  BY DEF Init, WatchInv, Says
<1>2. TypeOK /\ WatchInv => WatchedWasBound
  BY DEF TypeOK, WatchInv, WatchedWasBound
<1> QED
  BY <1>1, <1>2, TypeInit, TypeStep, WatchStep, PTL DEF Spec

(***************************************************************************)
(* An identity is used only once it is in the state file of the agent that *)
(* generated it.  It can go from there only when the file is removed: an   *)
(* agent writes to its file only when there is no identity in it.          *)
(***************************************************************************)
Safe(k) == maker[k] \in Agent /\ (maker[k] \in lost \/ file[maker[k]] = k)
SafeNode(n) == \A k \in {n.id, n.token} \cap Identity : Safe(k)

FileInv ==
  /\ \A k \in Identity : k > made => maker[k] = None
  /\ \A a \in Agent : file[a] \in Identity => maker[file[a]] = a
  /\ \A a \in Agent : pc[a] = "create" =>
       /\ file[a] \in {None, Empty}
       /\ me[a].token = me[a].id /\ maker[me[a].id] = a

UseInv ==
  /\ \A a \in Agent : InCall(a) => SafeNode(me[a])
  /\ \A r \in gaveUp : SafeNode(r.node)
  /\ \A i \in Id : token[i] # None => SafeNode([id |-> i, token |-> token[i]])

LEMMA FileStep == TypeOK /\ FileInv /\ [Next]_vars => FileInv'
<1> SUFFICES ASSUME TypeOK, FileInv, [Next]_vars PROVE FileInv'
  OBVIOUS
<1> USE DEF FileInv, local, loopVars, monitor, registry, network
<1>t. /\ DOMAIN pc = Agent /\ DOMAIN me = Agent
      /\ file \in [Agent -> {None, Empty, Torn} \cup Identity]
      /\ made \in 0 .. MaxIdentities /\ maker \in [Identity -> Agent \cup {None}]
      /\ \A a \in Agent : pc[a] = "create" => me[a].id \in Identity
  BY DEF TypeOK
<1>1. ASSUME NEW a \in Agent, Start(a) PROVE FileInv'
  BY <1>1, <1>t DEF Start
<1>2. ASSUME NEW a \in Agent, Load(a) PROVE FileInv'
  BY <1>2, <1>t DEF Load, Begin
<1>3. ASSUME NEW a \in Agent, LoadFails(a) PROVE FileInv'
  BY <1>3, <1>t DEF LoadFails
<1>4. ASSUME NEW a \in Agent, Generate(a) PROVE FileInv'
  <2>1. made' = made + 1 /\ made' \in Identity /\ maker[made'] = None
    BY <1>4, <1>t DEF Generate, Identity
  <2>2. \A k \in Identity : maker'[k] = IF k = made' THEN a ELSE maker[k]
    BY <1>4, <1>t, <2>1 DEF Generate
  <2>3. \A k \in Identity : k > made' => maker'[k] = None
    BY <1>t, <2>1, <2>2 DEF Identity
  <2>4. \A b \in Agent : file'[b] \in Identity => maker'[file'[b]] = b
    BY <1>4, <1>t, <2>1, <2>2 DEF Generate
  <2>5. ASSUME NEW b \in Agent, pc'[b] = "create"
        PROVE  file'[b] \in {None, Empty} /\ me'[b].token = me'[b].id /\ maker'[me'[b].id] = b
    <3>1. CASE b = a
      BY <1>4, <1>t, <2>1, <2>2, <3>1 DEF Generate
    <3>2. CASE b # a
      BY <1>4, <1>t, <2>1, <2>2, <2>5, <3>2 DEF Generate
    <3> QED
      BY <3>1, <3>2
  <2> QED
    BY <2>3, <2>4, <2>5
<1>5. ASSUME NEW a \in Agent, CreateWrite(a) PROVE FileInv'
  BY <1>5, <1>t DEF CreateWrite, Begin
<1>6. ASSUME NEW a \in Agent, Turn(a) PROVE FileInv'
  BY <1>6, <1>t DEF Turn
<1>7. ASSUME NEW a \in Agent, EnrollReturns(a) PROVE FileInv'
  BY <1>7, <1>t DEF EnrollReturns
<1>8. ASSUME NEW a \in Agent, PollReturns(a) PROVE FileInv'
  BY <1>8, <1>t DEF PollReturns, AfterPoll
<1>9. ASSUME NEW a \in Agent, DaemonStep(a) PROVE FileInv'
  BY <1>9, <1>t DEF DaemonStep, Enroll, Authenticate, ReadBindings, ReadMembers
<1>10. ASSUME NEW a \in Agent, MonitorStep(a) PROVE FileInv'
  BY <1>10 DEF MonitorStep, Tick, Probe
<1>11. ASSUME NEW a \in Agent, WriteFails(a) PROVE FileInv'
  BY <1>11, <1>t DEF WriteFails, Forget, HalfWritten
<1>12. ASSUME NEW a \in Agent, CallFails(a) PROVE FileInv'
  BY <1>12, <1>t DEF CallFails
<1>13. ASSUME NEW a \in Agent, Kill(a) PROVE FileInv'
  BY <1>13, <1>t DEF Kill, Forget
<1>14. ASSUME NEW a \in Agent, LoseFile(a) PROVE FileInv'
  BY <1>14, <1>t DEF LoseFile
<1>15. ASSUME NEW r \in late, LateEnroll(r) PROVE FileInv'
  BY <1>15 DEF LateEnroll
<1>16. CASE Change
  BY <1>16 DEF Change
<1>17. CASE UNCHANGED vars
  BY <1>17 DEF vars
<1> QED
  BY <1>1, <1>2, <1>3, <1>4, <1>5, <1>6, <1>7, <1>8, <1>9, <1>10, <1>11, <1>12, <1>13,
     <1>14, <1>15, <1>16, <1>17
     DEF Next, AgentStep, Failure, CreateDomain, Approve, Delete, Bind

LEMMA SafeStaysSafe ==
  ASSUME TypeOK, FileInv, [Next]_vars, NEW k \in Identity, Safe(k)
  PROVE  Safe(k)'
<1>t. /\ file \in [Agent -> {None, Empty, Torn} \cup Identity] /\ lost \subseteq Agent
      /\ made \in 0 .. MaxIdentities /\ maker \in [Identity -> Agent \cup {None}]
      /\ maker[k] \in Agent /\ (maker[k] \in lost \/ file[maker[k]] = k)
  BY DEF TypeOK, Safe
<1>1. CASE UNCHANGED <<maker, lost, file>>
  BY <1>1, <1>t DEF Safe
<1>2. ASSUME NEW a \in Agent, Generate(a) PROVE Safe(k)'
  <2>1. made' = made + 1 /\ made' \in Identity /\ maker[made'] = None
    BY <1>2, <1>t DEF Generate, Identity, FileInv
  <2>2. maker'[k] = maker[k]
    BY <1>2, <1>t, <2>1 DEF Generate
  <2> QED
    BY <1>2, <1>t, <2>2 DEF Generate, Safe
<1>3. ASSUME NEW a \in Agent, pc[a] = "create", UNCHANGED <<maker, lost>>,
             \A b \in Agent : b # a => file'[b] = file[b]
      PROVE  Safe(k)'
  BY <1>3, <1>t DEF FileInv, Safe
<1>4. ASSUME NEW a \in Agent, LoseFile(a) PROVE Safe(k)'
  BY <1>4, <1>t DEF LoseFile, Safe, FileInv
<1>5. ASSUME NEW a \in Agent, CreateWrite(a) \/ WriteFails(a) PROVE Safe(k)'
  <2>1. pc[a] = "create" /\ UNCHANGED <<maker, lost>> /\ \A b \in Agent : b # a => file'[b] = file[b]
    BY <1>5, <1>t DEF CreateWrite, WriteFails
  <2> QED
    BY <1>3, <2>1
<1>6. ASSUME NEW a \in Agent,
             \/ Start(a) \/ Load(a) \/ LoadFails(a) \/ Turn(a) \/ EnrollReturns(a) \/ PollReturns(a)
             \/ DaemonStep(a) \/ MonitorStep(a) \/ CallFails(a) \/ Kill(a)
      PROVE  UNCHANGED <<maker, lost, file>>
  BY <1>6 DEF Start, Load, LoadFails, Turn, EnrollReturns, PollReturns, DaemonStep, Enroll,
     Authenticate, ReadBindings, ReadMembers, MonitorStep, Tick, Probe, CallFails, Kill, local
<1>7. ASSUME NEW r \in late, LateEnroll(r) PROVE UNCHANGED <<maker, lost, file>>
  BY <1>7 DEF LateEnroll, local
<1>8. Change \/ UNCHANGED vars => UNCHANGED <<maker, lost, file>>
  BY DEF Change, vars, local
<1> QED
  BY <1>1, <1>2, <1>4, <1>5, <1>6, <1>7, <1>8
     DEF Next, AgentStep, Failure, CreateDomain, Approve, Delete, Bind

LEMMA UseStep == TypeOK /\ FileInv /\ UseInv /\ [Next]_vars => UseInv'
<1> SUFFICES ASSUME TypeOK, FileInv, UseInv, [Next]_vars PROVE UseInv'
  OBVIOUS
<1>t. /\ DOMAIN pc = Agent /\ DOMAIN me = Agent
      /\ token \in [Id -> Token \cup {None}] /\ conf \in Configurations
      /\ \A a \in Agent : pc[a] \notin {"down", "load"} => me[a] \in Node
      /\ gaveUp \subseteq Registrations /\ late \subseteq gaveUp
      /\ file \in [Agent -> {None, Empty, Torn} \cup Identity]
  BY DEF TypeOK
<1>k. ASSUME NEW n, SafeNode(n) PROVE SafeNode(n)'
  BY <1>k, SafeStaysSafe DEF SafeNode
\* What is left to show: what is new is safe.
<1>n. ASSUME \A a \in Agent : InCall(a)' => SafeNode(me[a])' \/ (InCall(a) /\ me'[a] = me[a]),
             \A r \in gaveUp' \ gaveUp : SafeNode(r.node),
             \A i \in Id : token'[i] = token[i] \/ token'[i] = None
                             \/ SafeNode([id |-> i, token |-> token'[i]])
      PROVE  UseInv'
  <2>1. ASSUME NEW a \in Agent, InCall(a)' PROVE SafeNode(me[a])'
    <3>1. CASE InCall(a) /\ me'[a] = me[a]
      <4>1. PICK n : n = me[a]
        OBVIOUS
      <4>2. SafeNode(n) /\ n = me'[a]
        BY <3>1, <4>1 DEF UseInv
      <4>3. SafeNode(n)'
        BY <4>2, <1>k
      <4> QED
        BY <4>2, <4>3
    <3> QED
      BY <1>n, <2>1, <3>1
  <2>2. ASSUME NEW r \in gaveUp' PROVE SafeNode(r.node)'
    <3>1. SafeNode(r.node)
      BY <1>n DEF UseInv
    <3> QED
      BY <3>1, <1>k
  <2>3. ASSUME NEW i \in Id, token'[i] # None PROVE SafeNode([id |-> i, token |-> token[i]])'
    <3>1. PICK n : n = [id |-> i, token |-> token'[i]]
      OBVIOUS
    <3>2. SafeNode(n)
      BY <1>n, <2>3, <3>1 DEF UseInv
    <3>3. SafeNode(n)'
      BY <3>2, <1>k
    <3> QED
      BY <3>1, <3>3
  <2> QED
    BY <2>1, <2>2, <2>3 DEF UseInv
<1>1. ASSUME NEW a \in Agent, Start(a) \/ LoadFails(a) \/ Turn(a) \/ EnrollReturns(a) \/ PollReturns(a)
                              \/ WriteFails(a) \/ Generate(a)
      PROVE  UseInv'
  <2>1. \A b \in Agent : InCall(b)' => InCall(b) /\ me'[b] = me[b]
    BY <1>1, <1>t DEF Start, LoadFails, Turn, EnrollReturns, Enrolling, PollReturns, AfterPoll,
       WriteFails, Forget, Generate, InCall
  <2>2. UNCHANGED <<gaveUp, token>>
    BY <1>1 DEF Start, LoadFails, Turn, EnrollReturns, PollReturns, WriteFails, Generate,
       registry, network
  <2> QED
    BY <1>n, <2>1, <2>2
<1>2. ASSUME NEW a \in Agent, NEW k, Begin(a, k), k \in Identity => Safe(k)',
             NeedsFile(a) => k \in Identity, pc[a] \in {"load", "create"},
             UNCHANGED <<gaveUp, token>>
      PROVE  UseInv'
  <2>1. Credentials(a, k).id \in Identity => Credentials(a, k).id = k
    BY <1>t DEF Credentials
  <2>2. Credentials(a, k).token \in Identity => Credentials(a, k).token = k
    BY <1>t DEF Credentials
  <2>3. me'[a] = Credentials(a, k)
    BY <1>2, <1>t DEF Begin
  <2>5. SafeNode(me[a])'
    BY <1>2, <2>1, <2>2, <2>3 DEF SafeNode
  <2>4. \A b \in Agent : b # a => pc'[b] = pc[b] /\ me'[b] = me[b]
    BY <1>2, <1>t DEF Begin
  <2> QED
    BY <1>n, <1>2, <2>4, <2>5 DEF InCall
<1>3. ASSUME NEW a \in Agent, Load(a) PROVE UseInv'
  <2>1. PICK k : k = file[a]
    OBVIOUS
  <2>2. k \in Identity => Safe(k)
    BY <2>1 DEF FileInv, Safe
  <2>3. UNCHANGED <<gaveUp, token>> /\ Begin(a, k)
    BY <1>3, <2>1 DEF Load, registry, network
  <2>4. k \in Identity => Safe(k)'
    BY <2>2, SafeStaysSafe
  <2> QED
    BY <1>2, <1>3, <2>1, <2>3, <2>4 DEF Load
<1>4. ASSUME NEW a \in Agent, CreateWrite(a) PROVE UseInv'
  <2>k. PICK k : k = me[a].id
    OBVIOUS
  <2>1. k \in Identity /\ maker[k] = a
    BY <1>4, <2>k DEF TypeOK, FileInv, CreateWrite
  <2>2. UNCHANGED <<gaveUp, token, maker, lost>> /\ Begin(a, k) /\ file'[a] = k
    BY <1>4, <1>t, <2>k DEF CreateWrite, registry, network
  <2>3. Safe(k)'
    BY <2>1, <2>2 DEF Safe
  <2> QED
    BY <1>2, <1>4, <2>1, <2>2, <2>3 DEF CreateWrite
<1>5. ASSUME NEW r \in Registrations, SafeNode(r.node), Register(r), UNCHANGED <<pc, me, gaveUp>>
      PROVE  UseInv'
  <2>1. token' = IF Admits(r) THEN [token EXCEPT ![r.node.id] = r.node.token] ELSE token
    BY <1>5 DEF Register
  <2>2. r.node \in Node /\ r.node = [id |-> r.node.id, token |-> r.node.token]
    BY DEF Registrations, Node
  <2>3. \A i \in Id : token'[i] = token[i] \/ SafeNode([id |-> i, token |-> token'[i]])
    BY <1>5, <1>t, <2>1, <2>2
  <2>4. \A b \in Agent : InCall(b)' => InCall(b) /\ me'[b] = me[b]
    BY <1>5 DEF InCall
  <2> QED
    BY <1>5, <1>n, <2>3, <2>4
<1>6. ASSUME NEW a \in Agent, Enroll(a) PROVE UseInv'
  <2>1. Registration(a) \in Registrations /\ SafeNode(Registration(a).node)
    BY <1>6, <1>t DEF Enroll, Enrolling, Registration, Registrations, UseInv, InCall
  <2> QED
    BY <1>5, <1>6, <2>1 DEF Enroll, network
<1>7. ASSUME NEW r \in late, LateEnroll(r) PROVE UseInv'
  BY <1>5, <1>7, <1>t DEF LateEnroll, UseInv, loopVars
<1>8. ASSUME NEW a \in Agent, Authenticate(a) \/ ReadBindings(a) \/ ReadMembers(a) \/ MonitorStep(a)
                              \/ LoseFile(a)
      PROVE  UseInv'
  <2>1. \A b \in Agent : InCall(b)' => InCall(b) /\ me'[b] = me[b]
    BY <1>8, <1>t DEF Authenticate, ReadBindings, ReadMembers, MonitorStep, Tick, Probe, LoseFile,
       InCall, loopVars
  <2>2. UNCHANGED <<gaveUp, token>>
    BY <1>8 DEF Authenticate, ReadBindings, ReadMembers, MonitorStep, Tick, Probe, LoseFile,
       registry, network
  <2> QED
    BY <1>n, <2>1, <2>2
<1>9. ASSUME NEW a \in Agent, CallFails(a) \/ Kill(a) PROVE UseInv'
  <2>1. \A b \in Agent : InCall(b)' => InCall(b) /\ me'[b] = me[b]
    BY <1>9, <1>t DEF CallFails, Kill, Forget, InCall
  <2>2. \A r \in gaveUp' \ gaveUp : SafeNode(r.node)
    BY <1>9 DEF CallFails, Kill, MayBeLate, Enrolling, Registration, UseInv, InCall
  <2>3. token' = token
    BY <1>9 DEF CallFails, Kill, registry
  <2> QED
    BY <1>n, <2>1, <2>2, <2>3
<1>10. ASSUME Change, \A i \in Id : token'[i] \in {token[i], None} PROVE UseInv'
  <2>1. UNCHANGED <<pc, me, gaveUp>>
    BY <1>10 DEF Change, loopVars, network
  <2> QED
    BY <1>10, <1>n, <2>1 DEF InCall
<1>11. ASSUME NEW i \in Id, Delete(i) PROVE UseInv'
  BY <1>10, <1>11, <1>t DEF Delete
<1>12. ASSUME UNCHANGED token, Change PROVE UseInv'
  BY <1>10, <1>12
<1>13. CASE UNCHANGED vars
  <2>1. UNCHANGED <<pc, me, gaveUp, token>>
    BY <1>13 DEF vars, loopVars, network, registry
  <2> QED
    BY <1>n, <2>1 DEF InCall
<1> QED
  BY <1>1, <1>3, <1>4, <1>6, <1>7, <1>8, <1>9, <1>11, <1>12, <1>13
     DEF Next, AgentStep, DaemonStep, Failure, CreateDomain, Approve, Bind

LEMMA FileInit == Init => FileInv /\ UseInv
<1> SUFFICES ASSUME Init PROVE FileInv /\ UseInv
  OBVIOUS
<1>1. FileInv
  BY DEF Init, FileInv
<1>2. \A a \in Agent : ~InCall(a)
  BY DEF Init, InCall
<1>3. \A i \in Id : token[i] # None => SafeNode([id |-> i, token |-> token[i]])
  <2>1. PICK nodes \in SUBSET Created(conf) :
          token = [i \in Id |-> IF \E n \in nodes : n.id = i
                                THEN (CHOOSE n \in nodes : n.id = i).token ELSE None]
    BY DEF Init
  <2>2. ASSUME NEW i \in Id, token[i] # None PROVE i \notin Identity /\ token[i] \notin Identity
    <3>1. PICK n \in nodes : n.id = i /\ n.token = token[i]
      BY <2>1, <2>2
    <3>2. PICK a \in Agent : n = conf[a]
      BY DEF Created
    <3> QED
      BY <3>1, <3>2 DEF Init, Created, Node, Id, Token
  <2> QED
    BY <2>2 DEF SafeNode
<1> QED
  BY <1>1, <1>2, <1>3 DEF UseInv, Init

\* The identity an agent is known under survives its restarts and its failed
\* writes, as long as its state file is not removed.
THEOREM IdentitySurvives == Spec => []IdentityIsDurable
<1>1. TypeOK /\ UseInv => IdentityIsDurable
  <2> SUFFICES ASSUME TypeOK, UseInv, NEW k \in Known \cap Identity
               PROVE  maker[k] \in lost \/ file[maker[k]] = k
    BY DEF IdentityIsDurable
  <2>1. None \notin Identity
    OBVIOUS
  <2>2. \/ \E i \in Id : token[i] # None /\ k \in {i, token[i]}
        \/ \E r \in gaveUp : k \in {r.node.id, r.node.token}
    BY <2>1 DEF Known
  <2>3. Safe(k)
    BY <2>2 DEF UseInv, SafeNode
  <2> QED
    BY <2>3 DEF Safe
<1> QED
  BY <1>1, TypeInit, TypeStep, FileInit, FileStep, UseStep, PTL DEF Spec

(***************************************************************************)
(* An agent that has joined finds its node pending only if a registration  *)
(* that was given up brought it back: every token has one agent.           *)
(***************************************************************************)
GaveUp(i) == \E r \in gaveUp : r.node.id = i
Pending(n) == token[n.id] = n.token /\ n.id \notin approved

TokenInv ==
  \A a \in Agent : InCall(a) =>
    \/ me[a].token = conf[a].token /\ conf[a].token # None
    \/ me[a].token \in Identity /\ maker[me[a].token] = a

OutInv ==
  /\ \A a \in Agent : (a \in joined \/ answer[a].says = "approved") /\ Pending(me[a])
                        => GaveUp(me[a].id)
  /\ \A a \in joined : pc[a] # "enroll" /\ InCall(a)
  /\ \A a \in joined : pc[a] = "again" \/ answer[a].says = "pending" => GaveUp(me[a].id)

LEMMA TokenStep == TypeOK /\ FileInv /\ TokenInv /\ [Next]_vars => TokenInv'
<1> SUFFICES ASSUME TypeOK, FileInv, TokenInv, [Next]_vars PROVE TokenInv'
  OBVIOUS
<1>t. /\ DOMAIN pc = Agent /\ DOMAIN me = Agent /\ conf \in Configurations
      /\ file \in [Agent -> {None, Empty, Torn} \cup Identity]
      /\ made \in 0 .. MaxIdentities /\ maker \in [Identity -> Agent \cup {None}]
  BY DEF TypeOK
<1>k. conf' = conf /\ \A k \in Identity : maker[k] # None => maker'[k] = maker[k]
  <2>1. ASSUME NEW a \in Agent, Generate(a)
        PROVE  conf' = conf /\ \A k \in Identity : maker[k] # None => maker'[k] = maker[k]
    <3>1. made' = made + 1 /\ made' \in Identity /\ maker[made'] = None
      BY <2>1, <1>t DEF Generate, Identity, FileInv
    <3> QED
      BY <2>1, <1>t, <3>1 DEF Generate
  <2>2. ASSUME NEW a \in Agent,
               \/ Start(a) \/ Load(a) \/ LoadFails(a) \/ CreateWrite(a) \/ WriteFails(a) \/ Turn(a)
               \/ EnrollReturns(a) \/ PollReturns(a) \/ DaemonStep(a) \/ MonitorStep(a)
               \/ CallFails(a) \/ Kill(a) \/ LoseFile(a)
        PROVE  UNCHANGED <<conf, maker>>
    BY <2>2 DEF Start, Load, LoadFails, CreateWrite, WriteFails, Turn, EnrollReturns, PollReturns,
       DaemonStep, Enroll, Authenticate, ReadBindings, ReadMembers, MonitorStep, Tick, Probe,
       CallFails, Kill, LoseFile, local
  <2>3. ASSUME NEW r \in late, LateEnroll(r) PROVE UNCHANGED <<conf, maker>>
    BY <2>3 DEF LateEnroll, local
  <2>4. Change \/ UNCHANGED vars => UNCHANGED <<conf, maker>>
    BY DEF Change, vars, local
  <2> QED
    BY <2>1, <2>2, <2>3, <2>4
       DEF Next, AgentStep, Failure, CreateDomain, Approve, Delete, Bind
<1>n. ASSUME \A a \in Agent : InCall(a)' => InCall(a) /\ me'[a] = me[a] PROVE TokenInv'
  BY <1>n, <1>k, <1>t DEF TokenInv
<1>1. ASSUME NEW a \in Agent, NEW k, Begin(a, k), NeedsFile(a) => k \in Identity /\ maker[k] = a
      PROVE  TokenInv'
  <2>1. me'[a] = Credentials(a, k) /\ \A b \in Agent : b # a => pc'[b] = pc[b] /\ me'[b] = me[b]
    BY <1>1, <1>t DEF Begin
  <2>2. \/ me'[a].token = conf[a].token /\ conf[a].token # None
        \/ me'[a].token \in Identity /\ maker[me'[a].token] = a
    BY <1>1, <2>1 DEF Credentials, NeedsFile
  <2> QED
    BY <1>k, <1>t, <2>1, <2>2 DEF TokenInv, InCall
<1>2. ASSUME NEW a \in Agent, Load(a) PROVE TokenInv'
  <2>1. PICK k : k = file[a]
    OBVIOUS
  <2> QED
    BY <1>1, <1>2, <2>1 DEF Load, FileInv
<1>3. ASSUME NEW a \in Agent, CreateWrite(a) PROVE TokenInv'
  <2>1. PICK k : k = me[a].id
    OBVIOUS
  <2>2. k \in Identity /\ maker[k] = a
    BY <1>3, <2>1 DEF CreateWrite, FileInv, TypeOK
  <2> QED
    BY <1>1, <1>3, <2>1, <2>2 DEF CreateWrite
<1>4. ASSUME NEW a \in Agent, Start(a) \/ LoadFails(a) \/ Turn(a) \/ EnrollReturns(a) \/ PollReturns(a)
                              \/ WriteFails(a) \/ Generate(a) \/ CallFails(a) \/ Kill(a)
      PROVE  TokenInv'
  <2>1. \A b \in Agent : InCall(b)' => InCall(b) /\ me'[b] = me[b]
    BY <1>4, <1>t DEF Start, LoadFails, Turn, EnrollReturns, Enrolling, PollReturns, AfterPoll,
       WriteFails, Forget, Generate, CallFails, Kill, InCall
  <2> QED
    BY <1>n, <2>1
<1>5. ASSUME NEW a \in Agent, DaemonStep(a) \/ MonitorStep(a) \/ LoseFile(a) PROVE TokenInv'
  <2>1. \A b \in Agent : InCall(b)' => InCall(b) /\ me'[b] = me[b]
    BY <1>5, <1>t DEF DaemonStep, Enroll, Authenticate, ReadBindings, ReadMembers, MonitorStep,
       Tick, Probe, LoseFile, InCall, loopVars
  <2> QED
    BY <1>n, <2>1
<1>6. ASSUME UNCHANGED <<pc, me>> PROVE TokenInv'
  BY <1>6, <1>n DEF InCall
<1>7. ASSUME NEW r \in late, LateEnroll(r) PROVE TokenInv'
  BY <1>6, <1>7 DEF LateEnroll, loopVars
<1>8. Change \/ UNCHANGED vars => TokenInv'
  BY <1>6 DEF Change, vars, loopVars
<1> QED
  BY <1>2, <1>3, <1>4, <1>5, <1>7, <1>8
     DEF Next, AgentStep, Failure, CreateDomain, Approve, Delete, Bind

LEMMA OneAgentPerToken ==
  ASSUME TypeOK, TokenInv, NEW a \in Agent, NEW b \in Agent, InCall(a), InCall(b),
         me[a].token = me[b].token
  PROVE  a = b
<1>1. conf \in Configurations
  BY DEF TypeOK
<1>2. \A c \in Agent : conf[c].token \in Key \cup {None}
  BY <1>1
<1>3. CASE me[a].token \in Identity
  BY <1>2, <1>3 DEF TokenInv
<1>4. CASE me[a].token \notin Identity
  BY <1>1, <1>4 DEF TokenInv
<1> QED
  BY <1>3, <1>4

LEMMA OutStep == TypeOK /\ TokenInv /\ OutInv /\ [Next]_vars => OutInv'
<1> SUFFICES ASSUME TypeOK, TokenInv, OutInv, [Next]_vars PROVE OutInv'
  OBVIOUS
<1>t. /\ DOMAIN pc = Agent /\ DOMAIN me = Agent /\ joined \subseteq Agent
      /\ answer \in [Agent -> Answer] /\ token \in [Id -> Token \cup {None}]
      /\ \A a \in Agent : pc[a] \notin {"down", "load"} => me[a] \in Node
      /\ \A a \in Agent : pc[a] \in {"down", "load", "create", "loop"} => Waits(a)
      /\ late \subseteq gaveUp /\ gaveUp \subseteq Registrations
  BY DEF TypeOK
<1>g. ASSUME NEW i, GaveUp(i), gaveUp \subseteq gaveUp' PROVE GaveUp(i)'
  BY <1>g DEF GaveUp
\* An agent stays as it is, or it is a new process.
<1>n. ASSUME UNCHANGED <<token, approved>>, gaveUp \subseteq gaveUp', joined' \subseteq Agent,
             \A a \in Agent :
               \/ /\ me'[a] = me[a] /\ (a \in joined' <=> a \in joined)
                  /\ pc'[a] = pc[a] /\ answer'[a] = answer[a]
               \/ a \notin joined' /\ answer'[a].says = "none"
               \/ /\ me'[a] = me[a] /\ InCall(a)' /\ pc'[a] \notin {"enroll", "again"}
                  /\ a \in joined' => a \in joined \/ answer[a].says = "approved"
                  /\ answer'[a].says \notin {"approved", "pending"}
      PROVE  OutInv'
  BY <1>n, <1>g, <1>t DEF OutInv, Pending, InCall, GaveUp
<1>1. ASSUME NEW a \in Agent,
             Start(a) \/ Load(a) \/ LoadFails(a) \/ Generate(a) \/ CreateWrite(a)
      PROVE  OutInv'
  <2>1. UNCHANGED <<joined, answer, token, approved, gaveUp>> /\ Waits(a) /\ a \notin joined
    BY <1>1, <1>t DEF Start, Load, LoadFails, Generate, CreateWrite, registry, network, OutInv, InCall
  <2>2. \A b \in Agent : b # a => me'[b] = me[b] /\ pc'[b] = pc[b]
    BY <1>1, <1>t DEF Start, Load, LoadFails, Generate, CreateWrite, Begin
  <2> QED
    BY <1>n, <1>t, <2>1, <2>2 DEF Waits
<1>2. ASSUME NEW a \in Agent, WriteFails(a) \/ Kill(a) PROVE OutInv'
  <2>1. UNCHANGED <<token, approved>> /\ gaveUp \subseteq gaveUp' /\ Forget(a)
    BY <1>2 DEF WriteFails, Kill, MayBeLate, registry
  <2>2. a \notin joined' /\ answer'[a].says = "none" /\ joined' \subseteq Agent
    BY <1>t, <2>1 DEF Forget, Says
  <2>3. \A b \in Agent : b # a => /\ me'[b] = me[b] /\ (b \in joined' <=> b \in joined)
                                  /\ pc'[b] = pc[b] /\ answer'[b] = answer[b]
    BY <1>t, <2>1 DEF Forget
  <2> QED
    BY <1>n, <2>1, <2>2, <2>3
<1>3. ASSUME NEW a \in Agent, CallFails(a) PROVE OutInv'
  <2>1. UNCHANGED <<token, approved, me, joined>> /\ gaveUp \subseteq gaveUp'
    BY <1>3 DEF CallFails, MayBeLate, registry
  <2>2. pc'[a] = "loop" /\ answer'[a].says = "none"
    BY <1>3, <1>t DEF CallFails, Tell, Says
  <2>3. \A b \in Agent : b # a => pc'[b] = pc[b] /\ answer'[b] = answer[b]
    BY <1>3, <1>t DEF CallFails, Tell
  <2> QED
    BY <1>n, <1>t, <2>1, <2>2, <2>3 DEF InCall
<1>4. ASSUME NEW a \in Agent, Turn(a) PROVE OutInv'
  <2>1. UNCHANGED <<token, approved, me, joined, answer, gaveUp>>
    BY <1>4 DEF Turn, registry, network
  <2>2. pc' = [pc EXCEPT ![a] = IF a \in joined THEN "poll" ELSE "enroll"] /\ Waits(a)
    BY <1>4, <1>t DEF Turn
  <2>3. CASE a \in joined
    BY <1>n, <1>t, <2>1, <2>2, <2>3 DEF InCall, Waits
  <2>4. CASE a \notin joined
    BY <1>n, <1>t, <2>1, <2>2, <2>4 DEF Waits
  <2> QED
    BY <2>3, <2>4
<1>5. ASSUME NEW a \in Agent, EnrollReturns(a) PROVE OutInv'
  <2>1. UNCHANGED <<token, approved, me, gaveUp>> /\ joined' \subseteq joined \cup {a}
        /\ joined \subseteq joined' /\ (a \in joined' => a \in joined \/ answer[a].says = "approved")
    BY <1>5 DEF EnrollReturns, registry, network, Approves
  <2>2. pc'[a] \in {"poll", "loop"} /\ answer'[a].says = "none"
    BY <1>5, <1>t DEF EnrollReturns, Tell, Says
  <2>3. \A b \in Agent : b # a => pc'[b] = pc[b] /\ answer'[b] = answer[b]
    BY <1>5, <1>t DEF EnrollReturns, Tell
  <2> QED
    BY <1>n, <1>t, <2>1, <2>2, <2>3 DEF InCall
<1>6. ASSUME NEW a \in Agent, PollReturns(a) PROVE OutInv'
  <2>1. UNCHANGED <<token, approved, me, gaveUp, joined>>
    BY <1>6 DEF PollReturns, registry, network
  <2>2. pc'[a] = AfterPoll(answer[a].says) /\ answer'[a].says = "none"
    BY <1>6, <1>t DEF PollReturns, Tell, Says
  <2>3. \A b \in Agent : b # a => pc'[b] = pc[b] /\ answer'[b] = answer[b]
    BY <1>6, <1>t DEF PollReturns, Tell
  <2>4. CASE answer[a].says # "pending"
    BY <1>n, <1>t, <2>1, <2>2, <2>3, <2>4 DEF InCall, AfterPoll
  <2>5. CASE answer[a].says = "pending"
    <3>1. pc'[a] = AfterPoll("pending") /\ answer'[a].says = "none"
      BY <2>2, <2>5
    <3> QED
      BY <1>t, <2>1, <2>3, <2>5, <3>1 DEF OutInv, InCall, AfterPoll, Pending, GaveUp
  <2> QED
    BY <2>4, <2>5
<1>7. ASSUME NEW a \in Agent, Enroll(a) PROVE OutInv'
  <2> DEFINE r == Registration(a)
  <2>1. UNCHANGED <<pc, me, joined, gaveUp, approved>> /\ Enrolling(a)
        /\ token' = IF Admits(r) THEN [token EXCEPT ![me[a].id] = me[a].token] ELSE token
    BY <1>7 DEF Enroll, network, Register, Registration
  <2>2. answer'[a].says = "approved" => me[a].id \in approved
    BY <1>7, <1>t DEF Enroll, Tell, Says
  <2>3. \A b \in Agent : b # a => answer'[b] = answer[b]
    BY <1>7, <1>t DEF Enroll, Tell
  <2>4. a \in joined => GaveUp(me[a].id)
    BY <2>1 DEF OutInv, Enrolling
  <2>5. InCall(a) /\ me[a] \in Node
    BY <2>1, <1>t DEF InCall, Enrolling
  <2>6. ASSUME NEW b \in Agent, b \in joined \/ answer'[b].says = "approved",
               token'[me[b].id] = me[b].token, me[b].id \notin approved
        PROVE  GaveUp(me[b].id)
    <3>1. CASE b = a
      BY <2>2, <2>4, <2>6, <3>1
    <3>2. CASE b # a /\ token[me[b].id] = me[b].token
      BY <2>3, <2>6, <3>2 DEF OutInv, Pending
    <3>3. CASE b # a /\ token[me[b].id] # me[b].token
      <4>1. me[b].token = me[a].token
        BY <1>t, <2>1, <2>5, <2>6, <3>3
      <4>2. ~InCall(b)
        BY <3>3, <4>1, <2>5, OneAgentPerToken
      <4>3. b \notin joined /\ answer[b].says = "none"
        BY <1>t, <4>2 DEF OutInv, InCall, Waits, TypeOK
      <4> QED
        BY <2>3, <2>6, <3>3, <4>3
    <3> QED
      BY <3>1, <3>2, <3>3
  <2> HIDE DEF r
  <2>7. \A b \in joined : pc[b] = "again" \/ answer'[b].says = "pending" => GaveUp(me[b].id)
    BY <1>t, <2>3, <2>4 DEF OutInv
  <2> QED
    BY <2>1, <2>6, <2>7 DEF OutInv, Pending, GaveUp, InCall
<1>8. ASSUME NEW a \in Agent, Authenticate(a) PROVE OutInv'
  <2>1. UNCHANGED <<token, approved, me, joined, gaveUp>> /\ pc[a] = "poll"
    BY <1>8 DEF Authenticate, registry, network
  <2>2. \A b \in Agent : b # a => pc'[b] = pc[b] /\ answer'[b] = answer[b]
    BY <1>8, <1>t DEF Authenticate, Tell
  <2>3. pc'[a] \in {"poll", "wait"} /\ answer'[a].says # "approved"
        /\ (answer'[a].says = "pending" => Pending(me[a]))
    BY <1>8, <1>t DEF Authenticate, Tell, Says, Waits, Pending
  <2> QED
    BY <1>t, <2>1, <2>2, <2>3 DEF OutInv, Pending, GaveUp, InCall
<1>9. ASSUME NEW a \in Agent, ReadBindings(a) \/ ReadMembers(a) PROVE OutInv'
  <2>1. UNCHANGED <<token, approved, me, joined, gaveUp, pc>> /\ pc[a] = "wait"
    BY <1>9 DEF ReadBindings, ReadMembers, registry, network
  <2>2. \A b \in Agent : b # a => answer'[b] = answer[b]
    BY <1>9, <1>t DEF ReadBindings, ReadMembers, Tell
  <2>3. answer'[a].says \in {"partly", "lists"}
    <3>1. CASE ReadBindings(a)
      BY <3>1, <1>t DEF ReadBindings, Tell
    <3>2. CASE ReadMembers(a)
      <4>1. answer'[a] = [answer[a] EXCEPT !.says = "lists", !.client = me[a].id \in client]
        BY <3>2, <1>t DEF ReadMembers, Tell
      <4>2. answer[a] \in Answer
        BY <1>t
      <4> QED
        BY <4>1, <4>2, Zenon DEF Answer
    <3> QED
      BY <1>9, <3>1, <3>2
  <2> QED
    BY <1>n, <1>t, <2>1, <2>2, <2>3 DEF InCall
<1>10. ASSUME UNCHANGED <<pc, me, joined, answer, gaveUp, token, approved>> PROVE OutInv'
  BY <1>10, <1>n, <1>t
<1>11. ASSUME NEW a \in Agent, MonitorStep(a) \/ LoseFile(a) PROVE OutInv'
  <2>1. UNCHANGED <<pc, me, joined, answer, gaveUp, token, approved>>
    BY <1>11 DEF MonitorStep, Tick, Probe, LoseFile, loopVars, network, registry
  <2> QED
    BY <1>10, <2>1
<1>12. ASSUME NEW r \in late, LateEnroll(r) PROVE OutInv'
  <2>1. UNCHANGED <<pc, me, joined, answer, gaveUp, approved>> /\ GaveUp(r.node.id)
    BY <1>12, <1>t DEF LateEnroll, Register, loopVars, GaveUp
  <2>2. \A i \in Id : i # r.node.id => token'[i] = token[i]
    BY <1>12, <1>t DEF LateEnroll, Register
  <2>3. \A a \in Agent : (a \in joined \/ answer[a].says = "approved") => me[a].id \in Id
    <3>1. \A a \in Agent : (a \in joined \/ answer[a].says = "approved") => me[a] \in Node
      BY <1>t DEF OutInv, InCall, Waits
    <3> QED
      BY <3>1 DEF Node
  <2> QED
    BY <2>1, <2>2, <2>3 DEF OutInv, Pending, GaveUp, InCall
<1>13. ASSUME Change, \A i \in Id : token'[i] \in {token[i], None} /\ (token'[i] = token[i] /\ i \in approved => i \in approved')
       PROVE  OutInv'
  <2>1. UNCHANGED <<pc, me, joined, answer, gaveUp>>
    BY <1>13 DEF Change, loopVars, network
  <2>2. \A a \in Agent : (a \in joined \/ answer[a].says = "approved") => me[a] \in Node
    BY <1>t DEF OutInv, InCall, Waits
  <2>3. \A n \in Node : Pending(n)' => Pending(n)
    BY <1>13 DEF Pending, Node, Token
  <2> QED
    BY <2>1, <2>2, <2>3 DEF OutInv, GaveUp, InCall, Pending
<1>14. ASSUME NEW i \in Id, Delete(i) PROVE OutInv'
  BY <1>13, <1>14, <1>t DEF Delete
<1>15. ASSUME Change, UNCHANGED token, approved \subseteq approved' PROVE OutInv'
  BY <1>13, <1>15
<1>16. CASE UNCHANGED vars
  BY <1>10, <1>16 DEF vars, loopVars, network, registry
<1>17. ASSUME CreateDomain PROVE OutInv'
  BY <1>15, <1>17 DEF CreateDomain
<1>18. ASSUME NEW i \in Id, NEW c \in BOOLEAN, Approve(i, c) PROVE OutInv'
  BY <1>15, <1>18 DEF Approve
<1>19. ASSUME NEW i \in Id, NEW S \in SUBSET Peer, Bind(i, S) PROVE OutInv'
  BY <1>15, <1>19 DEF Bind
<1> QED
  BY <1>1, <1>2, <1>3, <1>4, <1>5, <1>6, <1>7, <1>8, <1>9, <1>11, <1>12, <1>14, <1>16,
     <1>17, <1>18, <1>19
     DEF Next, AgentStep, DaemonStep, Failure

\* A node that was deleted comes back only through an agent that has not joined
\* or through a registration that was given up.
THEOREM DeletedNodesStayOut == Spec => DeletedStaysOut
<1> DEFINE Out == \A i \in Id : token[i] = None /\ token'[i] # None =>
                    \/ \E a \in Agent \ joined : Enrolling(a) /\ me[a].id = i
                    \/ \E r \in gaveUp : r.node.id = i
<1>1. TypeOK /\ OutInv /\ [Next]_vars => [Out]_vars
  <2> SUFFICES ASSUME TypeOK, OutInv, Next PROVE Out
    OBVIOUS
  <2>t. token \in [Id -> Token \cup {None}] /\ late \subseteq gaveUp /\ joined \subseteq Agent
    BY DEF TypeOK
  <2>1. ASSUME NEW a \in Agent, Enroll(a) PROVE Out
    <3>1. \A i \in Id : token'[i] # token[i] => i = me[a].id
      BY <2>1, <2>t DEF Enroll, Register, Registration
    <3>2. Enrolling(a) /\ (a \in joined => GaveUp(me[a].id))
      BY <2>1 DEF Enroll, OutInv, Enrolling
    <3> QED
      BY <3>1, <3>2 DEF GaveUp
  <2>2. ASSUME NEW r \in late, LateEnroll(r) PROVE Out
    BY <2>2, <2>t DEF LateEnroll, Register
  <2>3. ASSUME NEW i \in Id, Delete(i) PROVE Out
    BY <2>3, <2>t DEF Delete
  <2>4. CASE UNCHANGED token
    BY <2>4
  <2>5. ASSUME NEW a \in Agent,
               \/ Start(a) \/ AgentStep(a) \/ Authenticate(a) \/ ReadBindings(a) \/ ReadMembers(a)
               \/ MonitorStep(a) \/ Failure(a)
        PROVE  UNCHANGED token
    BY <2>5 DEF Start, AgentStep, Load, LoadFails, Generate, CreateWrite, Turn, EnrollReturns,
       PollReturns, Authenticate, ReadBindings, ReadMembers, MonitorStep, Tick, Probe, Failure,
       WriteFails, CallFails, Kill, LoseFile, registry
  <2> HIDE DEF Out
  <2> QED
    BY <2>1, <2>2, <2>3, <2>4, <2>5 DEF Next, DaemonStep, CreateDomain, Approve, Bind
<1>2. Init => TokenInv /\ OutInv
  BY DEF Init, TokenInv, OutInv, InCall, Says
<1> QED
  BY <1>1, <1>2, TypeInit, TypeStep, FileInit, FileStep, TokenStep, OutStep, PTL
     DEF Spec, DeletedStaysOut
=============================================================================
