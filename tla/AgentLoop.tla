----------------------------- MODULE AgentLoop -----------------------------
(***************************************************************************)
(* How an agent gets an identity, registers with it or joins, is approved, *)
(* is served, and learns which peers to monitor.  An agent that has no     *)
(* node id or no token configured takes them from its state file, which it *)
(* writes at its first start.  It registers until it is approved, then     *)
(* polls.  The answer to a poll carries its memberships and the bindings   *)
(* it is the client of, which a second goroutine, the monitor, watches.    *)
(*                                                                         *)
(* Commands are the subject of CommandQueue, how bindings come about that  *)
(* of Registry, and what the monitor reports that of Recovery.             *)
(***************************************************************************)
EXTENDS Naturals

CONSTANTS Agent,
          Name,           \* the node ids an agent may have configured
          Key,            \* the tokens an agent may have configured
          Configurations, \* node id and token of each agent, or None
          JoinCode,       \* the agents that have a join code
          LocalPeers,     \* the peers in each agent's own configuration
          LocalMonitor,   \* the agents whose own configuration enables Monitor
          MayLose,        \* the agents whose state file may be removed
          Peer,           \* a peer to monitor, with its binding
          None, Empty, Torn,
          MaxIdentities,  \* bound on the identities that are generated
          MaxChanges,     \* bound on what the administrator does
          MaxFaults       \* bound on calls that fail and agents that stop

\* A generated identity is a number, which stands for its id and for its token.
Identity == 1 .. MaxIdentities
Id == Name \cup Identity
Token == Key \cup Identity

ASSUME AgentLoopAssumption ==
  /\ MaxIdentities \in Nat /\ MaxChanges \in Nat /\ MaxFaults \in Nat
  /\ Configurations \subseteq [Agent -> [id : Name \cup {None}, token : Key \cup {None}]]
  /\ \A c \in Configurations : \A a, b \in Agent :
       c[a].token = c[b].token /\ c[a].token # None => a = b
  /\ LocalPeers \in [Agent -> SUBSET Peer]
  /\ (Name \cup Key) \cap Identity = {}
  /\ LocalMonitor \subseteq Agent
  /\ {None, Empty, Torn} \cap (Name \cup Key \cup Identity) = {}
  /\ None # Empty /\ None # Torn /\ Empty # Torn /\ None \notin Agent

VARIABLES
  \* an agent
  conf,     \* what it has configured
  file,     \* its state file: None, Empty, Torn or an identity
  pc,       \* "down", "load", "create" (in New), "loop", "enroll" and "again"
            \* (registering, after a poll), "poll", "wait" (polling)
  me,       \* its node id and token
  joined,   \* the agents that are joined
  answer,   \* to the call it waits for
  enabled,  \* the agents with Monitor.Enabled
  peers,    \* monitorPeers
  running,  \* the agents whose monitor runs
  watch,    \* the peers the monitor has still to probe this time
  \* the daemon
  token,    \* the token of each node, None if there is no such node
  approved,
  client,   \* the nodes with a membership as a client
  bound,    \* the enabled bindings a node is the client of
  domain,   \* is there a domain with the join code?
  \* the rest
  made,     \* the number of identities generated
  late,     \* registrations under way whose agents have given them up
  changes, faults,
  \* history
  maker,    \* maker[k]: the agent that generated identity k
  lost,     \* the agents whose state file was removed
  gaveUp,   \* all the registrations that were ever late
  ever,     \* the nodes that were ever approved, with their tokens
  boundEver \* the bindings a node was ever the client of

local    == <<conf, file, made, maker, lost>>
loopVars == <<pc, me, joined, answer>>
monitor  == <<enabled, peers, running, watch>>
registry == <<token, approved, client, bound, domain, changes, ever, boundEver>>
network  == <<late, gaveUp, faults>>
vars     == <<local, loopVars, monitor, registry, network>>

NoOne == [id |-> None, token |-> None]
Node  == [id : Id, token : Token]

\* An answer; "partly" while agentPoll has read the bindings only.
Answer == [says : {"none", "approved", "pending", "refused", "partly", "lists"},
           peers : SUBSET Peer, client : BOOLEAN]
Says(s) == [says |-> s, peers |-> {}, client |-> FALSE]

\* What create-node made before: nodes with a token of their own, approved.
Created(c) == {n \in Node : \E a \in Agent : n = c[a]}

Init ==
  /\ conf \in Configurations
  /\ \E made0 \in SUBSET Created(conf) :
       /\ \A m, n \in made0 : m.id = n.id => m = n
       /\ token = [i \in Id |-> IF \E n \in made0 : n.id = i
                                THEN (CHOOSE n \in made0 : n.id = i).token ELSE None]
       /\ approved = {n.id : n \in made0}
       /\ ever = made0
  /\ file = [a \in Agent |-> None]
  /\ pc = [a \in Agent |-> "down"]
  /\ me = [a \in Agent |-> NoOne]
  /\ joined = {}
  /\ answer = [a \in Agent |-> Says("none")]
  /\ enabled = LocalMonitor /\ peers = LocalPeers
  /\ running = {} /\ watch = [a \in Agent |-> {}]
  /\ client = {} /\ domain = FALSE
  /\ bound = [i \in Id |-> {}] /\ boundEver = bound
  /\ made = 0 /\ maker = [k \in Identity |-> None]
  /\ late = {} /\ gaveUp = {} /\ lost = {}
  /\ changes = 0 /\ faults = 0

Fault == faults < MaxFaults /\ faults' = faults + 1

(***************************************************************************)
(* New: the agent's identity.                                              *)
(***************************************************************************)
NeedsFile(a) == None \in {conf[a].id, conf[a].token}

Credentials(a, k) ==
  [id    |-> IF conf[a].id = None THEN k ELSE conf[a].id,
   token |-> IF conf[a].token = None THEN k ELSE conf[a].token]

\* Run starts, with identity k from the state file if one is needed.
Begin(a, k) ==
  /\ me' = [me EXCEPT ![a] = Credentials(a, k)]
  /\ pc' = [pc EXCEPT ![a] = "loop"]
  /\ running' = IF a \in enabled THEN running \cup {a} ELSE running

\* The process is gone, with all that it kept in memory.
Forget(a) ==
  /\ pc' = [pc EXCEPT ![a] = "down"]
  /\ me' = [me EXCEPT ![a] = NoOne]
  /\ joined' = joined \ {a}
  /\ answer' = [answer EXCEPT ![a] = Says("none")]
  /\ enabled' = IF a \in LocalMonitor THEN enabled \cup {a} ELSE enabled \ {a}
  /\ peers' = [peers EXCEPT ![a] = LocalPeers[a]]
  /\ running' = running \ {a}
  /\ watch' = [watch EXCEPT ![a] = {}]

Start(a) ==
  /\ pc[a] = "down"
  /\ pc' = [pc EXCEPT ![a] = "load"]
  /\ UNCHANGED <<local, me, joined, answer, monitor, registry, network>>

\* The identity is configured, or is in the state file.
Load(a) ==
  /\ pc[a] = "load"
  /\ NeedsFile(a) => file[a] \in Identity
  /\ Begin(a, file[a])
  /\ UNCHANGED <<local, joined, answer, enabled, peers, watch, registry, network>>

\* A state file that is not JSON: New fails.
LoadFails(a) ==
  /\ pc[a] = "load" /\ NeedsFile(a) /\ file[a] = Torn
  /\ pc' = [pc EXCEPT ![a] = "down"]
  /\ UNCHANGED <<local, me, joined, answer, monitor, registry, network>>

\* No state file, or an empty one: a new identity, which is not in it yet.
Generate(a) ==
  /\ pc[a] = "load" /\ NeedsFile(a) /\ file[a] \in {None, Empty}
  /\ made < MaxIdentities /\ made' = made + 1
  /\ maker' = [maker EXCEPT ![made'] = a]
  /\ me' = [me EXCEPT ![a] = [id |-> made', token |-> made']]
  /\ pc' = [pc EXCEPT ![a] = "create"]
  /\ UNCHANGED <<conf, file, lost, joined, answer, monitor, registry, network>>

\* Mutant of CreateWrite: that the write failed is not noticed.
WriteUnchecked(a) ==
  /\ pc[a] = "create"
  /\ file' = [file EXCEPT ![a] = Empty]
  /\ Begin(a, me[a].id)
  /\ UNCHANGED <<conf, made, maker, lost, joined, answer, enabled, peers, watch,
                 registry, network>>

\* The identity is written to the state file, and only then used.
CreateWrite(a) ==
  /\ pc[a] = "create"
  /\ file' = [file EXCEPT ![a] = me[a].id]
  /\ Begin(a, me[a].id)
  /\ UNCHANGED <<conf, made, maker, lost, joined, answer, enabled, peers, watch,
                 registry, network>>

\* What a write leaves that fails, or is cut short by the end of the process.
HalfWritten == {Empty, Torn}

WriteFails(a) ==
  /\ pc[a] = "create" /\ Fault
  /\ \E f \in HalfWritten : file' = [file EXCEPT ![a] = f]
  /\ Forget(a)
  /\ UNCHANGED <<conf, made, maker, lost, registry, late, gaveUp>>

(***************************************************************************)
(* Registering and joining.                                                *)
(***************************************************************************)
\* Mutant of Admits: a node id may be taken over with another token.
AdmitsAnyToken(r) == r.join => domain

\* UpsertPendingNode, or agentJoin and UpsertJoinedNode.
Admits(r) == /\ r.join => domain
             /\ token[r.node.id] \in {None, r.node.token}

\* A registration creates the node, pending, or leaves the node it finds alone.
Register(r) ==
  /\ token' = IF Admits(r) THEN [token EXCEPT ![r.node.id] = r.node.token] ELSE token
  /\ UNCHANGED <<approved, client, bound, domain, changes, ever, boundEver>>

Registration(a) == [node |-> me[a], join |-> a \in JoinCode]

Enrolling(a) == pc[a] \in {"enroll", "again"}
Waits(a) == answer[a].says = "none"
Tell(a, ans) == answer' = [answer EXCEPT ![a] = ans]

\* One turn of Run's loop, up to the call.
Turn(a) ==
  /\ pc[a] = "loop"
  /\ pc' = [pc EXCEPT ![a] = IF a \in joined THEN "poll" ELSE "enroll"]
  /\ UNCHANGED <<local, me, joined, answer, monitor, registry, network>>

Enroll(a) ==
  /\ Enrolling(a) /\ Waits(a)
  /\ Register(Registration(a))
  /\ Tell(a, Says(IF ~Admits(Registration(a)) THEN "refused"
                  ELSE IF me[a].id \in approved THEN "approved" ELSE "pending"))
  /\ UNCHANGED <<local, pc, me, joined, monitor, network>>

\* Mutant of Approves: joined is never set.
ApprovesNothing(ans) == FALSE

Approves(ans) == ans.says = "approved"

\* After a poll that was answered "pending" the loop goes round all the same.
EnrollReturns(a) ==
  /\ Enrolling(a) /\ ~Waits(a)
  /\ joined' = IF Approves(answer[a]) THEN joined \cup {a} ELSE joined
  /\ pc' = [pc EXCEPT ![a] = IF Approves(answer[a]) /\ pc[a] = "enroll"
                             THEN "poll" ELSE "loop"]
  /\ Tell(a, Says("none"))
  /\ UNCHANGED <<local, me, monitor, registry, network>>

(***************************************************************************)
(* Polling.                                                                *)
(***************************************************************************)
\* authenticateAgent; then the long poll.
Authenticate(a) ==
  /\ pc[a] = "poll" /\ Waits(a)
  /\ \/ /\ token[me[a].id] # me[a].token
        /\ Tell(a, Says("refused")) /\ UNCHANGED pc
     \/ /\ token[me[a].id] = me[a].token /\ me[a].id \notin approved
        /\ Tell(a, Says("pending")) /\ UNCHANGED pc
     \/ /\ token[me[a].id] = me[a].token /\ me[a].id \in approved
        /\ pc' = [pc EXCEPT ![a] = "wait"] /\ UNCHANGED answer
  /\ UNCHANGED <<local, me, joined, monitor, registry, network>>

\* Mutant of PeersOf: monitorPeersForNode does not look at ClientNodeID.
PeersOfAnyone(i) == UNION {bound[j] : j \in Id}

\* monitorPeersForNode.
PeersOf(i) == bound[i]

\* The end of agentPoll: the bindings are read, then the memberships.
ReadBindings(a) ==
  /\ pc[a] = "wait" /\ Waits(a)
  /\ Tell(a, [says |-> "partly", peers |-> PeersOf(me[a].id), client |-> FALSE])
  /\ UNCHANGED <<local, pc, me, joined, monitor, registry, network>>

ReadMembers(a) ==
  /\ pc[a] = "wait" /\ answer[a].says = "partly"
  /\ Tell(a, [answer[a] EXCEPT !.says = "lists", !.client = me[a].id \in client])
  /\ UNCHANGED <<local, pc, me, joined, monitor, registry, network>>

\* Mutant of NewPeers: the list is only set once.
FirstPeers(old, new) == IF old = {} THEN new ELSE old

\* poll: an empty list of peers does not replace the old one.
NewPeers(old, new) == IF new = {} THEN old ELSE new

\* Mutant of AfterPoll: wrong credentials make the agent register anew.
RegisterAnew(says) == IF says \in {"pending", "refused"} THEN "again" ELSE "loop"

\* Where Run goes with what its poll was answered.
AfterPoll(says) == IF says = "pending" THEN "again" ELSE "loop"

PollReturns(a) ==
  /\ pc[a] \in {"poll", "wait"} /\ answer[a].says \in {"pending", "refused", "lists"}
  /\ enabled' = IF answer[a].client THEN enabled \cup {a} ELSE enabled
  /\ peers' = [peers EXCEPT ![a] = NewPeers(@, answer[a].peers)]
  /\ running' = IF answer[a].peers # {} /\ a \in enabled' THEN running \cup {a} ELSE running
  /\ pc' = [pc EXCEPT ![a] = AfterPoll(answer[a].says)]
  /\ Tell(a, Says("none"))
  /\ UNCHANGED <<local, me, joined, watch, registry, network>>

(***************************************************************************)
(* The monitor, which goes through a copy of the list at each tick.        *)
(***************************************************************************)
Tick(a) ==
  /\ a \in running /\ watch[a] = {} /\ peers[a] # {}
  /\ watch' = [watch EXCEPT ![a] = peers[a]]
  /\ UNCHANGED <<local, loopVars, enabled, peers, running, registry, network>>

Probe(a) ==
  /\ \E p \in watch[a] : watch' = [watch EXCEPT ![a] = @ \ {p}]
  /\ UNCHANGED <<local, loopVars, enabled, peers, running, registry, network>>

(***************************************************************************)
(* Faults: a call that fails, for the agent; the end of a process.  The    *)
(* daemon may still get a registration.                                    *)
(***************************************************************************)
MayBeLate(a) ==
  \/ UNCHANGED <<late, gaveUp>>
  \/ /\ Enrolling(a) /\ Waits(a)
     /\ late' = late \cup {Registration(a)}
     /\ gaveUp' = gaveUp \cup {Registration(a)}

CallFails(a) ==
  /\ pc[a] \in {"enroll", "again", "poll", "wait"} /\ Fault
  /\ MayBeLate(a)
  /\ pc' = [pc EXCEPT ![a] = "loop"]
  /\ Tell(a, Says("none"))
  /\ UNCHANGED <<local, me, joined, monitor, registry>>

Kill(a) ==
  /\ pc[a] # "down" /\ Fault
  /\ MayBeLate(a)
  /\ Forget(a)
  /\ UNCHANGED <<local, registry>>

LateEnroll(r) ==
  /\ late' = late \ {r}
  /\ Register(r)
  /\ UNCHANGED <<local, loopVars, monitor, gaveUp, faults>>

LoseFile(a) ==
  /\ a \in MayLose \ lost /\ file[a] # None
  /\ file' = [file EXCEPT ![a] = None] /\ lost' = lost \cup {a}
  /\ UNCHANGED <<conf, made, maker, loopVars, monitor, registry, network>>

(***************************************************************************)
(* The administrator; Bind stands for all that changes the bindings.       *)
(***************************************************************************)
Change == /\ changes < MaxChanges /\ changes' = changes + 1
          /\ UNCHANGED <<local, loopVars, monitor, network>>

CreateDomain ==
  /\ Change /\ ~domain
  /\ domain' = TRUE
  /\ UNCHANGED <<token, approved, client, bound, ever, boundEver>>

\* ApproveNode: as a client, or as a server; also for a node approved before.
Approve(i, asClient) ==
  /\ Change /\ token[i] # None
  /\ approved' = approved \cup {i}
  /\ client' = IF asClient THEN client \cup {i} ELSE client \ {i}
  /\ ever' = ever \cup {[id |-> i, token |-> token[i]]}
  /\ UNCHANGED <<token, bound, domain, boundEver>>

\* Mutant of Delete: the memberships of the node stay.
DeleteOnlyNode(i) ==
  /\ Change /\ token[i] # None
  /\ token' = [token EXCEPT ![i] = None]
  /\ approved' = approved \ {i}
  /\ bound' = [bound EXCEPT ![i] = {}]
  /\ UNCHANGED <<client, domain, ever, boundEver>>

\* DeleteNode, with the memberships of the node and its bindings.
Delete(i) ==
  /\ Change /\ token[i] # None
  /\ token' = [token EXCEPT ![i] = None]
  /\ approved' = approved \ {i} /\ client' = client \ {i}
  /\ bound' = [bound EXCEPT ![i] = {}]
  /\ UNCHANGED <<domain, ever, boundEver>>

Bind(i, S) ==
  /\ Change /\ i \in approved /\ S # bound[i]
  /\ bound' = [bound EXCEPT ![i] = S]
  /\ boundEver' = [boundEver EXCEPT ![i] = @ \cup S]
  /\ UNCHANGED <<token, approved, client, domain, ever>>

AgentStep(a) == Load(a) \/ LoadFails(a) \/ Generate(a) \/ CreateWrite(a)
                  \/ Turn(a) \/ EnrollReturns(a) \/ PollReturns(a)
DaemonStep(a) == Enroll(a) \/ Authenticate(a) \/ ReadBindings(a) \/ ReadMembers(a)
MonitorStep(a) == Tick(a) \/ Probe(a)
Failure(a) == WriteFails(a) \/ CallFails(a) \/ Kill(a) \/ LoseFile(a)

Next ==
  \/ \E a \in Agent : \/ Start(a) \/ AgentStep(a) \/ DaemonStep(a)
                      \/ MonitorStep(a) \/ Failure(a)
  \/ \E r \in late : LateEnroll(r)
  \/ CreateDomain
  \/ \E i \in Id : \/ \E c \in BOOLEAN : Approve(i, c)
                   \/ Delete(i)
                   \/ \E S \in SUBSET Peer : Bind(i, S)

Spec == Init /\ [][Next]_vars

\* What is under way goes on; nobody has to start an agent, approve or fail.
Fairness == \A a \in Agent : /\ WF_vars(AgentStep(a)) /\ WF_vars(DaemonStep(a))
                             /\ WF_vars(MonitorStep(a))
FairSpec == Spec /\ Fairness

(***************************************************************************)
(* Properties.                                                             *)
(***************************************************************************)
Registrations == [node : Node, join : BOOLEAN]

\* The state has its type: a running agent has credentials, and only an
\* agent that registers or polls has an answer.
TypeOK ==
  /\ conf \in Configurations
  /\ file \in [Agent -> {None, Empty, Torn} \cup Identity]
  /\ pc \in [Agent -> {"down", "load", "create", "loop", "enroll", "again", "poll", "wait"}]
  /\ me \in [Agent -> Node \cup {NoOne}]
  /\ \A a \in Agent : /\ pc[a] \notin {"down", "load"} => me[a] \in Node
                      /\ pc[a] = "create" => me[a].id \in Identity
  /\ joined \subseteq Agent /\ enabled \subseteq Agent /\ running \subseteq Agent
  /\ answer \in [Agent -> Answer]
  /\ \A a \in Agent : pc[a] \in {"down", "load", "create", "loop"} => Waits(a)
  /\ peers \in [Agent -> SUBSET Peer] /\ watch \in [Agent -> SUBSET Peer]
  /\ token \in [Id -> Token \cup {None}]
  /\ approved \subseteq Id /\ client \subseteq approved /\ domain \in BOOLEAN
  /\ bound \in [Id -> SUBSET Peer] /\ boundEver \in [Id -> SUBSET Peer]
  /\ made \in 0 .. MaxIdentities /\ maker \in [Identity -> Agent \cup {None}]
  /\ late \subseteq gaveUp /\ gaveUp \subseteq Registrations
  /\ changes \in 0 .. MaxChanges /\ faults \in 0 .. MaxFaults
  /\ lost \subseteq Agent /\ ever \subseteq Node

\* An identity the daemon has ever heard of is in the state file of the agent
\* that generated it, whatever write failed and whenever the agent stopped, as
\* long as nobody removes the file: the agent that was approved under it comes
\* back under it (loadOrCreateLocalState).
Known == {token[i] : i \in Id} \cup {i \in Id : token[i] # None}
           \cup UNION {{r.node.id, r.node.token} : r \in gaveUp}
IdentityIsDurable ==
  \A k \in Known \cap Identity : maker[k] \in lost \/ file[maker[k]] = k

\* An agent polls for commands only under an id that the administrator
\* approved for its very token, whatever nodes were deleted and registered
\* since, and whoever else uses the id (join, register, Run).
JoinedWasApproved == \A a \in joined : me[a] \in ever

\* What an agent watches is its own: a binding it was the client of, under its
\* id, or a peer of its own configuration (monitorPeersForNode, poll).
WatchedWasBound ==
  \A a \in Agent : me[a] \in Node =>
    peers[a] \cup watch[a] \cup answer[a].peers \subseteq boundEver[me[a].id] \cup LocalPeers[a]

\* A node that was deleted stays deleted while its agent runs, although the
\* agent goes on polling: a node comes about only through an agent that has not
\* joined, which a new process has not, or through a registration that was given
\* up before (Run, authenticateAgent).
DeletedStaysOut ==
  [][\A i \in Id : token[i] = None /\ token'[i] # None =>
       \/ \E a \in Agent \ joined : Enrolling(a) /\ me[a].id = i
       \/ \E r \in gaveUp : r.node.id = i]_vars

\* The daemon would serve the agent.
Admitted(a) == /\ pc[a] \notin {"down", "load", "create"}
               /\ token[me[a].id] = me[a].token /\ me[a].id \in approved
               /\ a \in JoinCode => domain

\* An agent that runs and is approved joins, whatever calls of it failed before
\* and whatever it was answered (Run, enroll).
ApprovedIsServed == \A a \in Agent : <>[]Admitted(a) => <>[](a \in joined)

\* Once the administrator is done, the monitor of a client goes over its
\* bindings, as the daemon has them, again and again: every change of the list
\* arrives, unless it empties it, and the monitor starts even if it was not
\* enabled at first (poll, startMonitorIfNeeded, runMonitor).
ListIsWatched ==
  \A a \in Agent :
    <>[](Admitted(a) /\ me[a].id \in client /\ bound[me[a].id] # {})
      => []<>(Admitted(a) /\ watch[a] = bound[me[a].id])
=============================================================================
