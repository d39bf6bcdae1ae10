--------------------------- MODULE RecoveryProofs ---------------------------
(***************************************************************************)
(* Proofs about Recovery: type correctness, the bound the cooldown puts on *)
(* automatic runs, that every client has or is being sent the last lease,  *)
(* and that none goes back to an older mapping.                            *)
(***************************************************************************)
EXTENDS Recovery, TLAPS

USE DEF wireVars, monitorVars, daemonVars

\* The initial state is well typed.
LEMMA InitType == Init => TypeOK
  <1> SUFFICES ASSUME Init PROVE TypeOK
    OBVIOUS
  <1>1. Threshold \in Nat
    BY RecoveryAssumption
  <1>2. failCount \in [Client -> 0 .. Threshold]
    BY <1>1 DEF Init
  <1>3. applied \in [Client -> Nat] /\ queue \in [Client -> Seq(Nat)]
    BY DEF Init
  <1>4. QED
    BY <1>2, <1>3 DEF Init, TypeOK

\* A step of the network or of a monitor keeps the types.
LEMMA ClientType ==
  ASSUME TypeOK, NEW c \in Client,
         HandshakeAges(c) \/ Handshake(c) \/ TickStale(c) \/ TickFresh(c)
           \/ ClientRestart(c) \/ LoseReport(c)
  PROVE  TypeOK'
  <1>1. CASE HandshakeAges(c)
    BY <1>1 DEF HandshakeAges, TypeOK
  <1>2. CASE Handshake(c)
    BY <1>2 DEF Handshake, TypeOK
  <1>3. CASE TickStale(c)
    <2>1. failCount' \in [Client -> 0 .. Threshold]
      BY <1>3, RecoveryAssumption DEF TickStale, TypeOK
    <2>2. <<"unreachable", c>> \in {"unreachable"} \X Client
      OBVIOUS
    <2>3. calls' \subseteq calls \cup {<<"unreachable", c>>}
      BY <1>3 DEF TickStale
    <2>4. unreachable' \in [Client -> BOOLEAN]
      BY <1>3 DEF TickStale, TypeOK
    <2>5. QED
      BY <1>3, <2>1, <2>2, <2>3, <2>4 DEF TickStale, TypeOK
  <1>4. CASE TickFresh(c)
    BY <1>4, RecoveryAssumption DEF TickFresh, TypeOK
  <1>5. CASE ClientRestart(c)
    BY <1>5, RecoveryAssumption DEF ClientRestart, Fault, TypeOK
  <1>6. CASE LoseReport(c)
    BY <1>6 DEF LoseReport, Fault, TypeOK
  <1>7. QED
    BY <1>1, <1>2, <1>3, <1>4, <1>5, <1>6

\* A step of the daemon for one client, and the client's own command.
LEMMA CommandType ==
  ASSUME TypeOK, NEW c \in Client,
         PeerUnreachable(c) \/ Apply(c) \/ \E j \in jobs : QueueApply(j, c)
  PROVE  TypeOK'
  <1>1. CASE PeerUnreachable(c)
    <2>1. calls' \subseteq calls
      BY <1>1 DEF PeerUnreachable
    <2>2. cool' \in BOOLEAN
      BY <1>1 DEF PeerUnreachable, TypeOK
    <2>3. runs' \in Nat /\ autoRuns' \in Nat /\ faults' \in Nat
      <3>1. runs \in Nat /\ autoRuns \in Nat /\ faults \in Nat
        BY DEF TypeOK
      <3>2. /\ runs' \in {runs, runs + 1} /\ autoRuns' \in {autoRuns, autoRuns + 1}
            /\ faults' \in {faults, faults + 1}
        BY <1>1 DEF PeerUnreachable, Fault
      <3>3. QED
        BY <3>1, <3>2
    <2>4. QED
      BY <1>1, <2>1, <2>2, <2>3 DEF PeerUnreachable, TypeOK
  <1>2. CASE Apply(c)
    <2>1. Tail(queue[c]) \in Seq(Nat) /\ Head(queue[c]) \in Nat
      BY <1>2 DEF Apply, TypeOK
    <2>2. QED
      BY <1>2, <2>1 DEF Apply, TypeOK
  <1>3. ASSUME NEW j \in jobs, QueueApply(j, c) PROVE TypeOK'
    <2> DEFINE rest == [j EXCEPT !.left = j.left \ {c}]
    <2>1. j \in [mapping : Nat, left : SUBSET Client, awaited : BOOLEAN]
      BY DEF TypeOK
    <2>2. rest \in [mapping : Nat, left : SUBSET Client, awaited : BOOLEAN]
      BY <2>1
    <2>3. jobs' \subseteq jobs \cup {rest} /\ faults' \in Nat
      BY <1>3 DEF QueueApply, Fault, TypeOK
    <2>4. Append(queue[c], j.mapping) \in Seq(Nat)
      BY <2>1 DEF TypeOK
    <2>5. queue' \in [Client -> Seq(Nat)]
      BY <1>3, <2>4 DEF QueueApply, TypeOK
    <2>6. QED
      BY <1>3, <2>2, <2>3, <2>5 DEF QueueApply, TypeOK
  <1>4. QED
    BY <1>1, <1>2, <1>3

\* Every other step of the server's agent or of the daemon.
LEMMA ServerType ==
  ASSUME TypeOK,
         \/ MappingChanges \/ CooldownEnds \/ AdminRunNatter \/ DaemonRestart
         \/ RunNatter \/ NatterDone \/ ReportReturns \/ ServerFault \/ LoseCommand
         \/ \E kind \in {"natter", "late"}, m \in 0 .. nat : NatterResult(kind, m)
  PROVE  TypeOK'
  <1>1. CASE MappingChanges
    BY <1>1 DEF MappingChanges, TypeOK
  <1>2. CASE CooldownEnds
    BY <1>2 DEF CooldownEnds, TypeOK
  <1>3. CASE AdminRunNatter
    BY <1>3 DEF AdminRunNatter, TypeOK
  <1>4. CASE DaemonRestart
    <2>1. calls' \subseteq calls /\ jobs' \subseteq jobs /\ faults' \in Nat
      BY <1>4 DEF DaemonRestart, Fault, TypeOK
    <2>2. QED
      BY <1>4, <2>1 DEF DaemonRestart, TypeOK
  <1>5. CASE RunNatter
    BY <1>5 DEF RunNatter, TypeOK
  <1>6. CASE NatterDone
    <2>1. <<"natter", nat>> \in {"natter", "late"} \X Nat
      BY DEF TypeOK
    <2>2. QED
      BY <1>6, <2>1 DEF NatterDone, TypeOK
  <1>7. CASE ReportReturns
    BY <1>7 DEF ReportReturns, TypeOK
  <1>8. CASE ServerFault
    <2>1. \A x \in calls : x[1] = "natter" => <<"late", x[2]>> \in {"natter", "late"} \X Nat
      BY DEF TypeOK
    <2>2. calls' \subseteq calls \cup {<<"late", x[2]>> : x \in {y \in calls : y[1] = "natter"}}
      BY <1>8 DEF ServerFault
    <2>3. calls' \subseteq ({"unreachable"} \X Client) \cup ({"natter", "late"} \X Nat)
      BY <2>1, <2>2 DEF TypeOK
    <2>4. \A j \in jobs : [j EXCEPT !.awaited = FALSE]
                             \in [mapping : Nat, left : SUBSET Client, awaited : BOOLEAN]
      BY DEF TypeOK
    <2>5. jobs' \subseteq [mapping : Nat, left : SUBSET Client, awaited : BOOLEAN]
      BY <1>8, <2>4 DEF ServerFault
    <2>6. QED
      BY <1>8, <2>3, <2>5 DEF ServerFault, Fault, TypeOK
  <1>9. CASE LoseCommand
    <2>1. \A c \in Client : queue[c] # <<>> => Tail(queue[c]) \in Seq(Nat)
      BY DEF TypeOK
    <2>2. queue' \in [Client -> Seq(Nat)]
      BY <1>9, <2>1 DEF LoseCommand, TypeOK
    <2>3. runs' \in Nat
      BY <1>9 DEF LoseCommand, TypeOK
    <2>4. QED
      BY <1>9, <2>2, <2>3 DEF LoseCommand, Fault, TypeOK
  <1>10. ASSUME NEW kind \in {"natter", "late"}, NEW m \in 0 .. nat, NatterResult(kind, m)
         PROVE TypeOK'
    <2> DEFINE job == [mapping |-> m, left |-> Client, awaited |-> kind = "natter"]
    <2>1. m \in Nat
      BY DEF TypeOK
    <2>2. job \in [mapping : Nat, left : SUBSET Client, awaited : BOOLEAN]
      BY <2>1
    <2>3. jobs' \subseteq jobs \cup {job} /\ faults' \in Nat
      BY <1>10 DEF NatterResult, Fault, TypeOK
    <2>4. QED
      BY <1>10, <2>1, <2>2, <2>3 DEF NatterResult, TypeOK
  <1>11. QED
    BY <1>1, <1>2, <1>3, <1>4, <1>5, <1>6, <1>7, <1>8, <1>9, <1>10

\* Every step keeps the types.
LEMMA NextType == TypeOK /\ [Next]_vars => TypeOK'
  <1> SUFFICES ASSUME TypeOK, [Next]_vars PROVE TypeOK'
    OBVIOUS
  <1>1. CASE UNCHANGED vars
    BY <1>1 DEF vars, TypeOK
  <1>2. ASSUME NEW c \in Client, ClientStep(c) \/ ClientRestart(c) \/ LoseReport(c)
        PROVE TypeOK'
    BY <1>2, ClientType, CommandType DEF ClientStep
  <1>3. QED
    BY <1>1, <1>2, ServerType DEF Next

\* Every reachable state is well typed, for any clients and bounds.
THEOREM TypeCorrect == Spec => []TypeOK
  <1>1. QED
    BY InitType, NextType, PTL DEF Spec

(***************************************************************************)
(* The cooldown.                                                           *)
(***************************************************************************)

\* Every step keeps the count: a run starts a cooldown or is a fault.
LEMMA RunsNext == TypeOK /\ RunsCounted /\ [Next]_vars => RunsCounted'
  <1> SUFFICES ASSUME TypeOK, RunsCounted, [Next]_vars PROVE RunsCounted'
    OBVIOUS
  <1> USE DEF Fault
  <1>1. autoRuns \in Nat /\ faults \in Nat /\ cool \in BOOLEAN
    BY DEF TypeOK
  <1>2. CASE UNCHANGED <<autoRuns, cool>> /\ faults' \in {faults, faults + 1}
    <2>1. autoRuns' = autoRuns /\ cool' = cool
      BY <1>2
    <2>2. autoRuns <= faults + 1 /\ (~cool' => autoRuns <= faults)
      BY <2>1, Zenon DEF RunsCounted
    <2>3. autoRuns <= faults + 1 => autoRuns' <= faults' + 1
      <3>1. CASE faults' = faults
        BY <1>1, <2>1, <3>1
      <3>2. CASE faults' = faults + 1
        BY <1>1, <2>1, <3>2
      <3>3. QED
        BY <1>2, <3>1, <3>2
    <2>4. autoRuns <= faults => autoRuns' <= faults'
      BY <1>1, <1>2, <2>1
    <2>5. QED
      BY <2>2, <2>3, <2>4, Zenon DEF RunsCounted
  <1>3. CASE MappingChanges \/ AdminRunNatter \/ RunNatter \/ NatterDone \/ ReportReturns
    BY <1>2, <1>3 DEF MappingChanges, AdminRunNatter, RunNatter, NatterDone, ReportReturns
  <1>4. CASE ServerFault \/ LoseCommand
    BY <1>2, <1>4 DEF ServerFault, LoseCommand
  <1>5. ASSUME NEW kind \in {"natter", "late"}, NEW m \in 0 .. nat, NatterResult(kind, m)
        PROVE  RunsCounted'
    BY <1>2, <1>5 DEF NatterResult
  <1>6. CASE CooldownEnds
    <2>1. autoRuns' = 0 /\ faults' = faults
      BY <1>6 DEF CooldownEnds
    <2>2. QED
      BY <1>1, <2>1 DEF RunsCounted
  <1>7. CASE DaemonRestart
    BY <1>1, <1>7 DEF DaemonRestart, RunsCounted
  <1>8. ASSUME NEW c \in Client, ClientStep(c) \/ ClientRestart(c) \/ LoseReport(c)
        PROVE  RunsCounted'
    <2>1. CASE PeerUnreachable(c)
      BY <1>1, <2>1 DEF PeerUnreachable, RunsCounted
    <2>2. CASE HandshakeAges(c) \/ Handshake(c) \/ TickStale(c) \/ TickFresh(c) \/ Apply(c)
      BY <1>2, <2>2 DEF HandshakeAges, Handshake, TickStale, TickFresh, Apply
    <2>3. ASSUME NEW j \in jobs, QueueApply(j, c) PROVE RunsCounted'
      BY <1>2, <2>3 DEF QueueApply
    <2>4. CASE ClientRestart(c) \/ LoseReport(c)
      BY <1>2, <2>4 DEF ClientRestart, LoseReport
    <2>5. QED
      BY <1>8, <2>1, <2>2, <2>3, <2>4 DEF ClientStep
  <1>9. CASE UNCHANGED vars
    BY <1>2, <1>9 DEF vars
  <1>10. QED
    BY <1>3, <1>4, <1>5, <1>6, <1>7, <1>8, <1>9 DEF Next

\* However many clients report the server, one automatic run is queued before
\* the cooldown ends, and one more for each fault (peerUnreachable).
THEOREM CooldownHolds == Spec => []OneRunPerCooldown
  <1>1. Init => RunsCounted
    BY DEF Init, RunsCounted
  <1>2. TypeOK /\ RunsCounted => OneRunPerCooldown
    BY DEF TypeOK, RunsCounted, OneRunPerCooldown
  <1>3. QED
    BY <1>1, <1>2, InitType, NextType, RunsNext, PTL DEF Spec

(***************************************************************************)
(* The lease, as long as nothing failed.                                   *)
(***************************************************************************)

\* Faults are counted and never taken back.
LEMMA FaultsGrow == TypeOK /\ [Next]_vars => faults' \in {faults, faults + 1}
  <1> SUFFICES ASSUME TypeOK, [Next]_vars PROVE faults' \in {faults, faults + 1}
    OBVIOUS
  <1> USE DEF Fault
  <1>1. CASE \/ MappingChanges \/ AdminRunNatter \/ RunNatter \/ NatterDone
             \/ ReportReturns \/ CooldownEnds
    BY <1>1 DEF MappingChanges, AdminRunNatter, RunNatter, NatterDone, ReportReturns,
                CooldownEnds
  <1>2. CASE ServerFault \/ LoseCommand \/ DaemonRestart
    BY <1>2 DEF ServerFault, LoseCommand, DaemonRestart
  <1>3. ASSUME NEW kind \in {"natter", "late"}, NEW m \in 0 .. nat, NatterResult(kind, m)
        PROVE  faults' \in {faults, faults + 1}
    BY <1>3 DEF NatterResult
  <1>4. ASSUME NEW c \in Client, ClientStep(c) \/ ClientRestart(c) \/ LoseReport(c)
        PROVE  faults' \in {faults, faults + 1}
    BY <1>4 DEF ClientStep, PeerUnreachable, HandshakeAges, Handshake, TickStale,
                TickFresh, Apply, QueueApply, ClientRestart, LoseReport
  <1>5. CASE UNCHANGED vars
    BY <1>5 DEF vars
  <1>6. QED
    BY <1>1, <1>2, <1>3, <1>4, <1>5 DEF Next

\* What is left of a step when nothing has failed, before and after it: the
\* steps of the network and of the monitors do not touch the lease.
Steady == UNCHANGED <<applied, lease, jobs, server, queue>>

CallsAboutPeers == \A x \in calls \cup calls' :
                     x[1] # "unreachable" => x \in calls /\ x \in calls'

LEMMA FaultlessStep ==
  ASSUME TypeOK, [Next]_vars, faults = 0, faults' = 0
  PROVE  \/ Steady /\ CallsAboutPeers /\ nat' \in {nat, nat + 1}
         \/ RunNatter
         \/ NatterDone
         \/ ReportReturns
         \/ \E kind \in {"natter", "late"}, m \in 0 .. nat : NatterResult(kind, m)
         \/ \E c \in Client, j \in jobs : QueueApply(j, c)
         \/ \E c \in Client : Apply(c)
  <1>1. ~Fault
    BY DEF Fault
  <1>2. CASE MappingChanges \/ AdminRunNatter \/ CooldownEnds \/ UNCHANGED vars
    BY <1>2 DEF MappingChanges, AdminRunNatter, CooldownEnds, vars, Steady,
                CallsAboutPeers
  <1>3. ASSUME NEW c \in Client,
               \/ HandshakeAges(c) \/ Handshake(c) \/ TickStale(c) \/ TickFresh(c)
               \/ PeerUnreachable(c)
        PROVE  Steady /\ CallsAboutPeers /\ nat' = nat
    <2>1. calls' \in {calls, calls \cup {<<"unreachable", c>>},
                      calls \ {<<"unreachable", c>>}}
      BY <1>3 DEF HandshakeAges, Handshake, TickStale, TickFresh, PeerUnreachable
    <2>2. CallsAboutPeers
      BY <2>1 DEF CallsAboutPeers
    <2>3. Steady /\ nat' = nat
      BY <1>3 DEF HandshakeAges, Handshake, TickStale, TickFresh, PeerUnreachable, Steady
    <2>4. QED
      BY <2>2, <2>3
  <1>4. ~ServerFault /\ ~LoseCommand /\ ~DaemonRestart
    BY <1>1 DEF ServerFault, LoseCommand, DaemonRestart
  <1>5. ASSUME NEW c \in Client PROVE ~ClientRestart(c) /\ ~LoseReport(c)
    BY <1>1 DEF ClientRestart, LoseReport
  <1>6. QED
    BY <1>2, <1>3, <1>4, <1>5 DEF Next, ClientStep

\* A call that is not about a peer is a pair of a kind and a mapping.
LEMMA ResultCalls ==
  ASSUME TypeOK, NEW x \in calls, x[1] # "unreachable"
  PROVE  x[2] \in Nat /\ x = <<x[1], x[2]>>
  BY DEF TypeOK

\* The results of the server come one at a time.
LEMMA TurnsNext ==
  ASSUME TypeOK, ResultsInTurn, [Next]_vars, faults = 0, faults' = 0
  PROVE  ResultsInTurn'
  <1>1. ~Fault
    BY DEF Fault
  <1>2. nat \in Nat /\ lease \in Nat
    BY DEF TypeOK
  <1>3. CASE Steady /\ CallsAboutPeers /\ nat' \in {nat, nat + 1}
    <2>1. \A m \in Nat : m <= nat => m <= nat'
      BY <1>2, <1>3
    <2>2. \A x \in calls' : x[1] # "unreachable" => x \in calls
      BY <1>3 DEF CallsAboutPeers
    <2>3. jobs' = jobs /\ lease' = lease /\ server' = server
      BY <1>3 DEF Steady
    <2>4. \A x \in calls : x[1] # "unreachable" => x[2] \in Nat
      BY ResultCalls
    <2>5. QED
      BY <1>2, <2>1, <2>2, <2>3, <2>4 DEF ResultsInTurn
  <1>4. CASE RunNatter
    BY <1>4 DEF RunNatter, ResultsInTurn
  <1>5. CASE NatterDone
    <2>1. jobs' = {} /\ \A x \in calls' : x[1] # "unreachable" => x = <<"natter", nat>>
      BY <1>5 DEF NatterDone, ResultsInTurn
    <2>2. lease' = lease /\ nat' = nat /\ server' = "reporting"
      BY <1>5 DEF NatterDone
    <2>3. lease <= nat
      BY DEF ResultsInTurn
    <2>4. QED
      BY <1>2, <2>1, <2>2, <2>3 DEF ResultsInTurn
  <1>6. CASE ReportReturns
    <2>1. jobs = {}
      BY <1>6 DEF ReportReturns, ResultsInTurn
    <2>2. ASSUME NEW x \in calls, x[1] # "unreachable" PROVE FALSE
      <3>1. x[2] \in Nat /\ x = <<"natter", x[2]>> /\ x[2] <= nat
        BY <2>2, ResultCalls DEF ResultsInTurn
      <3>2. x[2] \in 0 .. nat
        BY <1>2, <3>1
      <3>3. QED
        BY <1>6, <3>1, <3>2 DEF ReportReturns
    <2>3. QED
      BY <1>6, <2>1, <2>2 DEF ReportReturns, ResultsInTurn
  <1>7. ASSUME NEW kind \in {"natter", "late"}, NEW m \in 0 .. nat, NatterResult(kind, m)
        PROVE  ResultsInTurn'
    <2> DEFINE job == [mapping |-> m, left |-> Client, awaited |-> kind = "natter"]
    <2>1. <<kind, m>> \in calls /\ <<kind, m>>[1] # "unreachable"
      BY <1>7 DEF NatterResult
    <2>2. kind = "natter" /\ server = "reporting" /\ jobs = {} /\ m <= nat
      BY <2>1 DEF ResultsInTurn
    <2>3. \A x \in calls' : x[1] = "unreachable"
      BY <1>7, <2>1 DEF NatterResult, ResultsInTurn
    <2>4. jobs' = {job}
      BY <1>1, <1>7, <2>2 DEF NatterResult
    <2>5. lease' = m /\ nat' = nat /\ server' = server
      BY <1>7 DEF NatterResult
    <2>6. job.mapping = m /\ job.awaited
      BY <2>2
    <2>7. \A j \in jobs' : /\ j.mapping = lease' /\ j.awaited
                           /\ \A k \in jobs' : j = k
      BY <2>4, <2>5, <2>6
    <2> HIDE DEF job
    <2>8. QED
      BY <2>2, <2>3, <2>5, <2>7 DEF ResultsInTurn
  <1>8. ASSUME NEW c \in Client, NEW j \in jobs, QueueApply(j, c)
        PROVE  ResultsInTurn'
    <2> DEFINE rest == [j EXCEPT !.left = j.left \ {c}]
    <2>1. j \in [mapping : Nat, left : SUBSET Client, awaited : BOOLEAN]
      BY DEF TypeOK
    <2>2. rest.mapping = j.mapping /\ rest.awaited = j.awaited
      BY <2>1
    <2>3. jobs = {j} /\ j.mapping = lease /\ j.awaited /\ server = "reporting"
      BY DEF ResultsInTurn
    <2>4. jobs' \subseteq {rest}
      BY <1>1, <1>8, <2>3 DEF QueueApply
    <2>5. calls' = calls /\ lease' = lease /\ nat' = nat /\ server' = server
      BY <1>8 DEF QueueApply
    <2>6. \A x \in calls : x[1] = "unreachable"
      BY <2>3 DEF ResultsInTurn
    <2>7. \A k \in jobs' : k.mapping = lease' /\ k.awaited /\ \A k2 \in jobs' : k = k2
      BY <2>2, <2>3, <2>4, <2>5
    <2>8. QED
      BY <2>3, <2>5, <2>6, <2>7 DEF ResultsInTurn
  <1>9. ASSUME NEW c \in Client, Apply(c) PROVE ResultsInTurn'
    BY <1>9 DEF Apply, ResultsInTurn
  <1>10. QED
    BY <1>3, <1>4, <1>5, <1>6, <1>7, <1>8, <1>9, FaultlessStep

\* The queues hold leases in the order they were stored.
LEMMA QueuesNext ==
  ASSUME TypeOK, ResultsInTurn, QueuesInOrder, [Next]_vars, faults = 0, faults' = 0
  PROVE  QueuesInOrder'
  <1>1. lease \in Nat /\ applied \in [Client -> Nat] /\ queue \in [Client -> Seq(Nat)]
    BY DEF TypeOK
  <1>2. CASE UNCHANGED <<applied, lease, queue>>
    BY <1>2 DEF QueuesInOrder
  <1>3. CASE Steady \/ RunNatter \/ NatterDone \/ ReportReturns
    BY <1>2, <1>3 DEF Steady, RunNatter, NatterDone, ReportReturns
  <1>4. ASSUME NEW kind \in {"natter", "late"}, NEW m \in 0 .. nat, NatterResult(kind, m)
        PROVE  QueuesInOrder'
    <2>1. lease <= m /\ m \in Nat
      <3>1. <<kind, m>> \in calls /\ <<kind, m>>[1] # "unreachable"
        BY <1>4 DEF NatterResult
      <3>2. QED
        BY <3>1 DEF ResultsInTurn, TypeOK
    <2>2. applied' = applied /\ queue' = queue /\ lease' = m
      BY <1>4 DEF NatterResult
    <2>3. \A x \in Nat : x <= lease => x <= m
      BY <1>1, <2>1
    <2>4. \A c \in Client : \A i \in DOMAIN queue[c] : queue[c][i] \in Nat
      BY <1>1
    <2>5. \A c \in Client : applied[c] \in Nat /\ applied[c] <= lease
      BY <1>1 DEF QueuesInOrder
    <2>6. \A c \in Client : \A i \in DOMAIN queue[c] : queue[c][i] <= lease
      BY DEF QueuesInOrder
    <2>7. \A c \in Client : applied[c] <= m
      BY <2>3, <2>5
    <2>8. \A c \in Client : \A i \in DOMAIN queue[c] : queue[c][i] <= m
      BY <2>3, <2>4, <2>6
    <2>9. QED
      BY <2>2, <2>7, <2>8 DEF QueuesInOrder
  <1>5. ASSUME NEW c \in Client, NEW j \in jobs, QueueApply(j, c)
        PROVE  QueuesInOrder'
    <2>1. queue' = [queue EXCEPT ![c] = Append(@, lease)] /\ UNCHANGED <<applied, lease>>
      BY <1>5 DEF QueueApply, ResultsInTurn
    <2>2. SUFFICES ASSUME NEW d \in Client
                   PROVE  /\ applied[d] <= lease
                          /\ \A i \in DOMAIN queue'[d] :
                               applied[d] <= queue'[d][i] /\ queue'[d][i] <= lease
                          /\ \A i, k \in DOMAIN queue'[d] :
                               i < k => queue'[d][i] <= queue'[d][k]
      BY <2>1 DEF QueuesInOrder
    <2>3. CASE d # c
      BY <1>1, <2>1, <2>3 DEF QueuesInOrder
    <2>4. CASE d = c
      <3>1. queue[c] \in Seq(Nat) /\ queue'[c] = Append(queue[c], lease)
        BY <1>1, <2>1
      <3>2. QED
        BY <1>1, <2>4, <3>1 DEF QueuesInOrder
    <2>5. QED
      BY <2>3, <2>4
  <1>6. ASSUME NEW c \in Client, Apply(c) PROVE QueuesInOrder'
    <2>1. /\ queue' = [queue EXCEPT ![c] = Tail(@)]
          /\ applied' = [applied EXCEPT ![c] = Head(queue[c])]
          /\ lease' = lease /\ queue[c] # <<>>
      BY <1>6 DEF Apply
    <2>2. SUFFICES ASSUME NEW d \in Client
                   PROVE  /\ applied'[d] <= lease
                          /\ \A i \in DOMAIN queue'[d] :
                               applied'[d] <= queue'[d][i] /\ queue'[d][i] <= lease
                          /\ \A i, k \in DOMAIN queue'[d] :
                               i < k => queue'[d][i] <= queue'[d][k]
      BY <2>1 DEF QueuesInOrder
    <2>3. CASE d # c
      BY <1>1, <2>1, <2>3 DEF QueuesInOrder
    <2>4. CASE d = c
      <3>1. queue[c] \in Seq(Nat) /\ queue'[c] = Tail(queue[c]) /\ applied'[c] = queue[c][1]
        BY <1>1, <2>1
      <3>2. 1 \in DOMAIN queue[c] /\ Len(queue[c]) \in Nat /\ Len(queue[c]) > 0
        BY <2>1, <3>1
      <3>3. \A i \in DOMAIN queue'[c] : /\ i \in 1 .. Len(queue[c]) - 1
                                        /\ i + 1 \in DOMAIN queue[c]
                                        /\ queue'[c][i] = queue[c][i + 1]
        BY <3>1, <3>2
      <3>4. \A i \in DOMAIN queue[c] : queue[c][i] <= lease
        BY DEF QueuesInOrder
      <3>5. \A i, k \in DOMAIN queue[c] : i < k => queue[c][i] <= queue[c][k]
        BY DEF QueuesInOrder
      <3>6. \A i \in DOMAIN queue'[c] :
              applied'[c] <= queue'[c][i] /\ queue'[c][i] <= lease
        BY <3>1, <3>2, <3>3, <3>4, <3>5
      <3>7. \A i, k \in DOMAIN queue'[c] : i < k => queue'[c][i] <= queue'[c][k]
        BY <3>3, <3>5
      <3>8. QED
        BY <2>4, <3>1, <3>2, <3>4, <3>6, <3>7
    <2>5. QED
      BY <2>3, <2>4
  <1>7. QED
    BY <1>3, <1>4, <1>5, <1>6, FaultlessStep

\* The last of a sequence is the last of its tail, or the only one.
LEMMA OnlyOne ==
  ASSUME NEW s \in Seq(Nat), s # <<>>, Tail(s) = <<>>
  PROVE  s[1] = s[Len(s)]
  <1>1. Len(s) \in Nat /\ Len(s) # 0
    OBVIOUS
  <1>2. Len(Tail(s)) = Len(s) - 1
    BY <1>1
  <1>3. Len(Tail(s)) = 0
    <2>1. Len(Tail(s)) = Len(<<>>)
      BY Zenon
    <2>2. QED
      BY <2>1
  <1>4. Len(s) = 1
    <2>1. \A n \in Nat : n - 1 = 0 => n = 1
      OBVIOUS
    <2>2. QED
      BY <1>1, <1>2, <1>3, <2>1, Zenon
  <1>5. QED
    BY <1>4

LEMMA SameLast ==
  ASSUME NEW s \in Seq(Nat), s # <<>>, Tail(s) # <<>>
  PROVE  Tail(s)[Len(Tail(s))] = s[Len(s)]
  <1>1. Len(s) \in Nat /\ Len(s) # 0
    OBVIOUS
  <1>2. Len(Tail(s)) = Len(s) - 1 /\ Tail(s) \in Seq(Nat)
    BY <1>1
  <1>3. Len(Tail(s)) \in 1 .. Len(s) - 1
    BY <1>1, <1>2
  <1>4. Tail(s)[Len(Tail(s))] = s[Len(Tail(s)) + 1]
    BY <1>1, <1>2, <1>3
  <1>5. QED
    BY <1>1, <1>2, <1>4

\* Every client has the last lease or is being sent it.
LEMMA LeaseNext ==
  ASSUME TypeOK, ResultsInTurn, LeaseIsOnItsWay, [Next]_vars, faults = 0, faults' = 0
  PROVE  LeaseIsOnItsWay'
  <1>1. queue \in [Client -> Seq(Nat)] /\ applied \in [Client -> Nat]
    BY DEF TypeOK
  <1>2. ~Fault
    BY DEF Fault
  <1>3. CASE UNCHANGED <<applied, lease, jobs, queue>>
    BY <1>3 DEF LeaseIsOnItsWay
  <1>4. CASE Steady \/ RunNatter \/ NatterDone \/ ReportReturns
    BY <1>3, <1>4 DEF Steady, RunNatter, NatterDone, ReportReturns
  <1>5. ASSUME NEW kind \in {"natter", "late"}, NEW m \in 0 .. nat, NatterResult(kind, m)
        PROVE  LeaseIsOnItsWay'
    <2> DEFINE job == [mapping |-> m, left |-> Client, awaited |-> kind = "natter"]
    <2>1. job \in jobs' /\ lease' = m
      BY <1>2, <1>5 DEF NatterResult
    <2>2. job.mapping = m /\ job.left = Client
      OBVIOUS
    <2>3. QED
      BY <2>1, <2>2 DEF LeaseIsOnItsWay
  <1>6. ASSUME NEW c \in Client, NEW j \in jobs, QueueApply(j, c)
        PROVE  LeaseIsOnItsWay'
    <2> DEFINE left == j.left \ {c}
               rest == [j EXCEPT !.left = left]
    <2>1. j \in [mapping : Nat, left : SUBSET Client, awaited : BOOLEAN]
      BY DEF TypeOK
    <2>2. rest.mapping = j.mapping /\ rest.left = left
      BY <2>1
    <2>3. jobs = {j} /\ j.mapping = lease
      BY DEF ResultsInTurn
    <2>4. /\ queue' = [queue EXCEPT ![c] = Append(@, lease)]
          /\ UNCHANGED <<applied, lease>>
          /\ left # {} => rest \in jobs'
      BY <1>2, <1>6, <2>3 DEF QueueApply
    <2>5. SUFFICES ASSUME NEW d \in Client
                   PROVE  \/ \E k \in jobs' : k.mapping = lease /\ d \in k.left
                          \/ IF queue'[d] = <<>> THEN applied[d] = lease
                             ELSE queue'[d][Len(queue'[d])] = lease
      BY <2>4 DEF LeaseIsOnItsWay
    <2>6. CASE d = c
      <3>1. queue[c] \in Seq(Nat) /\ queue'[c] = Append(queue[c], lease)
        BY <1>1, <2>4
      <3>2. queue'[c] # <<>> /\ queue'[c][Len(queue'[c])] = lease
        BY <3>1
      <3>3. QED
        BY <2>6, <3>2
    <2>7. CASE d # c /\ d \in j.left
      BY <2>2, <2>3, <2>4, <2>7
    <2>8. CASE d # c /\ d \notin j.left
      <3>1. queue'[d] = queue[d]
        BY <1>1, <2>4, <2>8
      <3>2. IF queue[d] = <<>> THEN applied[d] = lease ELSE queue[d][Len(queue[d])] = lease
        BY <2>3, <2>8 DEF LeaseIsOnItsWay
      <3>3. QED
        BY <3>1, <3>2
    <2>9. QED
      BY <2>6, <2>7, <2>8
  <1>7. ASSUME NEW c \in Client, Apply(c) PROVE LeaseIsOnItsWay'
    <2>1. /\ queue' = [queue EXCEPT ![c] = Tail(@)]
          /\ applied' = [applied EXCEPT ![c] = Head(queue[c])]
          /\ lease' = lease /\ jobs' = jobs /\ queue[c] # <<>>
      BY <1>7 DEF Apply
    <2>2. SUFFICES ASSUME NEW d \in Client, ~\E j \in jobs : j.mapping = lease /\ d \in j.left
                   PROVE  IF queue'[d] = <<>> THEN applied'[d] = lease
                          ELSE queue'[d][Len(queue'[d])] = lease
      BY <2>1 DEF LeaseIsOnItsWay
    <2>3. IF queue[d] = <<>> THEN applied[d] = lease ELSE queue[d][Len(queue[d])] = lease
      BY <2>2 DEF LeaseIsOnItsWay
    <2>4. CASE d # c
      <3>1. queue'[d] = queue[d] /\ applied'[d] = applied[d]
        BY <1>1, <2>1, <2>4
      <3>2. QED
        BY <2>3, <3>1
    <2>5. CASE d = c
      <3>1. /\ queue[c] \in Seq(Nat) /\ queue'[c] = Tail(queue[c])
            /\ applied'[c] = queue[c][1] /\ queue[c][Len(queue[c])] = lease
        BY <1>1, <2>1, <2>3, <2>5
      <3>2. CASE Tail(queue[c]) = <<>>
        BY <2>1, <2>5, <3>1, <3>2, OnlyOne
      <3>3. CASE Tail(queue[c]) # <<>>
        BY <2>1, <2>5, <3>1, <3>3, SameLast
      <3>4. QED
        BY <3>2, <3>3
    <2>6. QED
      BY <2>4, <2>5
  <1>8. QED
    BY <1>4, <1>5, <1>6, <1>7, FaultlessStep

\* The inductive invariant: an automatic run is paid for by a cooldown or a
\* fault, and without faults the results of the server are served in turn
\* (peerUnreachable, natter.result).
THEOREM Inductive == Spec => []IndInv
  <1>1. Init => IndInv
    <2> SUFFICES ASSUME Init PROVE IndInv
      OBVIOUS
    <2>1. TypeOK
      BY InitType
    <2>2. RunsCounted
      BY DEF Init, RunsCounted
    <2>3. ResultsInTurn
      BY DEF Init, ResultsInTurn
    <2>4. QueuesInOrder /\ LeaseIsOnItsWay
      BY DEF Init, QueuesInOrder, LeaseIsOnItsWay
    <2>5. QED
      BY <2>1, <2>2, <2>3, <2>4 DEF IndInv
  <1>2. IndInv /\ [Next]_vars => IndInv'
    <2> SUFFICES ASSUME IndInv, [Next]_vars PROVE IndInv'
      OBVIOUS
    <2>1. TypeOK /\ RunsCounted /\ LeaseIsOnItsWay
      BY DEF IndInv
    <2>2. TypeOK' /\ RunsCounted'
      BY <2>1, NextType, RunsNext
    <2>3. CASE faults' = 0
      <3>1. faults = 0
        BY <2>1, <2>3, FaultsGrow DEF TypeOK
      <3>2. ResultsInTurn /\ QueuesInOrder
        BY <3>1 DEF IndInv
      <3>3. ResultsInTurn' /\ QueuesInOrder' /\ LeaseIsOnItsWay'
        BY <2>1, <2>3, <3>1, <3>2, TurnsNext, QueuesNext, LeaseNext
      <3>4. QED
        BY <2>2, <3>3 DEF IndInv
    <2>4. CASE faults' # 0
      BY <2>2, <2>4 DEF IndInv, LeaseIsOnItsWay
    <2>5. QED
      BY <2>3, <2>4
  <1>3. QED
    BY <1>1, <1>2, PTL DEF Spec

\* As long as nothing failed, the last lease is in the configuration of every
\* client, last in its queue, or still to be queued by the handler that stored
\* it: no result overtakes another (SaveEndpointLease, QueueCommand).
THEOREM LeaseArrives == Spec => []LeaseIsOnItsWay
  <1>1. IndInv => LeaseIsOnItsWay
    BY DEF IndInv
  <1>2. QED
    BY <1>1, Inductive, PTL

\* Without faults no client goes back to an older mapping (endpoint.apply).
THEOREM NoneGoesBack == Spec => NeverOlder
  <1>1. IndInv /\ [Next]_vars => [faults = 0 => \A c \in Client : applied'[c] >= applied[c]]_vars
    <2> SUFFICES ASSUME IndInv, [Next]_vars, faults = 0, NEW c \in Client
                 PROVE  applied'[c] >= applied[c] \/ UNCHANGED vars
      OBVIOUS
    <2>1. /\ TypeOK /\ QueuesInOrder
          /\ applied \in [Client -> Nat] /\ queue \in [Client -> Seq(Nat)]
      BY DEF IndInv, TypeOK
    <2>2. applied' = applied => applied'[c] >= applied[c]
      BY <2>1
    <2>3. ASSUME NEW d \in Client, Apply(d) PROVE applied'[c] >= applied[c]
      <3>1. /\ applied' = [applied EXCEPT ![d] = Head(queue[d])]
            /\ queue[d] # <<>> /\ queue[d] \in Seq(Nat)
        BY <2>1, <2>3 DEF Apply
      <3>2. 1 \in DOMAIN queue[d] /\ Head(queue[d]) = queue[d][1] /\ queue[d][1] \in Nat
        BY <3>1
      <3>3. applied[d] <= Head(queue[d])
        BY <2>1, <3>2 DEF QueuesInOrder
      <3>4. QED
        BY <2>1, <3>1, <3>2, <3>3
    <2>4. CASE \/ MappingChanges \/ CooldownEnds \/ AdminRunNatter \/ DaemonRestart
               \/ RunNatter \/ NatterDone \/ ReportReturns \/ ServerFault \/ LoseCommand
      BY <2>2, <2>4 DEF MappingChanges, CooldownEnds, AdminRunNatter, DaemonRestart,
                        RunNatter, NatterDone, ReportReturns, ServerFault, LoseCommand
    <2>5. ASSUME NEW kind \in {"natter", "late"}, NEW m \in 0 .. nat, NatterResult(kind, m)
          PROVE  applied'[c] >= applied[c]
      BY <2>2, <2>5 DEF NatterResult
    <2>6. ASSUME NEW d \in Client, ClientStep(d) \/ ClientRestart(d) \/ LoseReport(d), ~Apply(d)
          PROVE  applied'[c] >= applied[c]
      BY <2>2, <2>6 DEF ClientStep, PeerUnreachable, HandshakeAges, Handshake, TickStale,
                        TickFresh, QueueApply, ClientRestart, LoseReport
    <2>7. QED
      BY <2>3, <2>4, <2>5, <2>6 DEF Next, ClientStep
  <1>2. QED
    BY <1>1, Inductive, PTL DEF Spec, NeverOlder
=============================================================================
