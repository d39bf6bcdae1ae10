------------------------- MODULE NatterAgentProofs -------------------------
(***************************************************************************)
(* Proofs about NatterAgent: type correctness, that a run never uses a     *)
(* configuration older than those it was asked for with, and that it       *)
(* leaves WireGuard up and reports its endpoint only then.                 *)
(***************************************************************************)
EXTENDS NatterAgent, TLAPS

USE DEF daemonVars, agentVars

(***************************************************************************)
(* Types.                                                                  *)
(***************************************************************************)
LEMMA Bounds == MaxSaves \in Nat /\ MaxRuns \in Nat /\ MaxFaults \in Nat
  BY NatterAgentAssumption

\* A fault stays within its bound.
LEMMA FaultType == TypeOK /\ Fault => faults' \in 0 .. MaxFaults
  <1> SUFFICES ASSUME TypeOK, Fault PROVE faults' \in 0 .. MaxFaults
    OBVIOUS
  <1>1. faults \in 0 .. MaxFaults /\ faults < MaxFaults /\ faults' = faults + 1
    BY DEF TypeOK, Fault
  <1>2. QED
    BY <1>1, Bounds

\* A save leaves one well-typed membership in each domain.
LEMMA SaveType ==
  ASSUME TypeOK, NEW d \in Domain, NEW i \in Interface, NEW managed \in BOOLEAN,
         NEW natter \in {{}} \cup {{c} : c \in Config}, NEW method \in Reload,
         SaveMember(d, i, managed, natter, method)
  PROVE  TypeOK'
  <1> DEFINE old == InDomain(members, d)
             ks == IF method = "" /\ old # {} THEN {m.method : m \in old} ELSE {method}
             byHand == managed \/ \E m \in old : m.managed
             conf == IF managed THEN natter ELSE UNION {m.natter : m \in old}
             new(k) == [domain |-> d, interface |-> i, managed |-> byHand,
                        natter |-> conf, method |-> k, version |-> saves']
  <1>1. members' = (members \ old) \cup {new(k) : k \in ks}
    BY DEF SaveMember, Others
  <1>2. \A m, n \in old : m = n
    BY DEF InDomain, TypeOK
  <1>3. \A j, k \in ks : j = k
    BY <1>2
  <1>4. ks \subseteq Method
    <2>1. \A m \in old : m.method \in Method
      BY DEF InDomain, TypeOK, Member
    <2>2. method \in Method
      BY NatterAgentAssumption
    <2>3. QED
      BY <2>1, <2>2
  <1>5. conf \subseteq Config
    <2>1. \A m \in old : m.natter \subseteq Config
      BY DEF InDomain, TypeOK, Member
    <2>2. natter \subseteq Config
      OBVIOUS
    <2>3. QED
      BY <2>1, <2>2
  <1>6. saves' \in 0 .. MaxSaves /\ saves' \in Nat
    <2>1. saves \in 0 .. MaxSaves /\ saves < MaxSaves /\ saves' = saves + 1
      BY DEF SaveMember, TypeOK
    <2>2. QED
      BY <2>1, Bounds
  <1>7. byHand \in BOOLEAN
    OBVIOUS
  <1>8. \A k \in ks : new(k) \in Member /\ new(k).domain = d
    <2> TAKE k \in ks
    <2>2. k \in Method
      BY <1>4
    <2> HIDE DEF ks, byHand, conf
    <2>3. QED
      BY <1>5, <1>6, <1>7, <2>2 DEF Member
  <1> HIDE DEF new, ks, old
  <1>9. members' \subseteq Member
    BY <1>1, <1>8 DEF TypeOK
  <1>10. \A m \in members \ old : m.domain # d
    BY DEF old, InDomain
  <1>11. \A m, n \in members' : m.domain = n.domain => m = n
    BY <1>1, <1>3, <1>8, <1>10 DEF TypeOK
  <1>12. QED
    BY <1>6, <1>9, <1>11 DEF SaveMember, TypeOK

\* The steps of the daemon and of a poll.
LEMMA PollType ==
  ASSUME TypeOK,
         \/ \E i \in Interface : QueueRun(i)
         \/ Poll \/ NextCommand \/ PollTimeout \/ Answer \/ PollFails
  PROVE  TypeOK'
  <1>1. ASSUME NEW i \in Interface, QueueRun(i) PROVE TypeOK'
    <2>1. {m.version : m \in Managed(members, i)} \in SUBSET Nat
      BY DEF Managed, TypeOK, Member
    <2>2. queue' \in Seq(Command)
      BY <1>1, <2>1 DEF QueueRun, TypeOK, Command
    <2>3. issued' \in 0 .. MaxRuns
      <3>1. issued \in 0 .. MaxRuns /\ issued < MaxRuns /\ issued' = issued + 1
        BY <1>1 DEF QueueRun, TypeOK
      <3>2. QED
        BY <3>1, Bounds
    <2>4. QED
      BY <1>1, <2>2, <2>3 DEF QueueRun, TypeOK
  <1>2. CASE Poll
    BY <1>2 DEF Poll, TypeOK
  <1>3. CASE NextCommand
    <2>1. Head(queue) \in Command /\ Tail(queue) \in Seq(Command)
      BY <1>3 DEF NextCommand, TypeOK
    <2>2. command' \subseteq Command /\ \A x, y \in command' : x = y
      BY <1>3, <2>1 DEF NextCommand
    <2>3. QED
      BY <1>3, <2>1, <2>2 DEF NextCommand, TypeOK
  <1>4. CASE PollTimeout
    BY <1>4 DEF PollTimeout, TypeOK
  <1>5. CASE Answer
    BY <1>5 DEF Answer, TypeOK
  <1>6. CASE PollFails
    <2>1. faults' \in 0 .. MaxFaults
      BY <1>6, FaultType DEF PollFails, TypeOK
    <2>2. QED
      BY <1>6, <2>1 DEF PollFails, TypeOK
  <1>7. QED
    BY <1>1, <1>2, <1>3, <1>4, <1>5, <1>6

\* The steps of the agent between two polls.
LEMMA RunType ==
  ASSUME TypeOK,
         \/ \E m \in todo : ApplyMember(m)
         \/ \E i \in Interface : Refuse(i) \/ StartNatter(i) \/ StartFails(i) \/ StartWireGuard(i)
         \/ \E ok \in BOOLEAN : NatterEnds(ok)
         \/ NoCommand \/ Report \/ AgentKilled
  PROVE  TypeOK'
  <1>1. ASSUME NEW m \in todo, ApplyMember(m) PROVE TypeOK'
    <2>1. m \in Member
      BY DEF TypeOK
    <2>2. Entry(m) \in [natter : SUBSET Config, version : Nat]
      BY <2>1 DEF Entry, TypeOK, Member
    <2>3. natterBy' \in [Interface -> [natter : SUBSET Config, version : Nat]]
      BY <1>1, <2>1, <2>2 DEF ApplyMember, TypeOK, Member
    <2>4. control' \in [Interface -> Method \cup {"unknown"}]
      BY <1>1, <2>1 DEF ApplyMember, TypeOK, Member
    <2>5. QED
      BY <1>1, <2>3, <2>4 DEF ApplyMember, TypeOK
  <1>2. ASSUME NEW i \in Interface, Refuse(i) PROVE TypeOK'
    <2>1. faults' \in 0 .. MaxFaults
      BY <1>2, FaultType DEF Refuse, TypeOK
    <2>2. QED
      BY <1>2, <2>1 DEF Refuse, NoJob, TypeOK
  <1>3. ASSUME NEW i \in Interface, StartNatter(i) PROVE TypeOK'
    <2>1. NatterConfigFor(i) \subseteq Config
      BY NatterAgentAssumption DEF NatterConfigFor, TypeOK
    <2>2. PICK c \in NatterConfigFor(i) :
            /\ wg' = IF c.stop THEN [wg EXCEPT ![i] = "down"] ELSE wg
            /\ job' = [NoJob EXCEPT !.stopped = c.stop]
      BY <1>3 DEF StartNatter
    <2>3. c.stop \in BOOLEAN
      BY <2>1, NatterAgentAssumption
    <2>4. job' \in [stopped : BOOLEAN, ok : BOOLEAN]
      BY <2>2, <2>3 DEF NoJob
    <2>5. wg' \in [Interface -> {"up", "down"}]
      BY <2>2 DEF TypeOK
    <2>6. QED
      BY <1>3, <2>4, <2>5 DEF StartNatter, TypeOK
  <1>4. ASSUME NEW i \in Interface, StartFails(i) PROVE TypeOK'
    <2>1. faults' \in 0 .. MaxFaults
      BY <1>4, FaultType DEF StartFails, TypeOK
    <2>2. QED
      BY <1>4, <2>1 DEF StartFails, TypeOK
  <1>5. ASSUME NEW i \in Interface, StartWireGuard(i) PROVE TypeOK'
    BY <1>5 DEF StartWireGuard, TypeOK
  <1>6. ASSUME NEW ok \in BOOLEAN, NatterEnds(ok) PROVE TypeOK'
    BY <1>6 DEF NatterEnds, TypeOK
  <1>7. CASE NoCommand
    BY <1>7 DEF NoCommand, TypeOK
  <1>8. CASE Report
    BY <1>8 DEF Report, TypeOK
  <1>9. CASE AgentKilled
    <2>1. faults' \in 0 .. MaxFaults
      BY <1>9, FaultType DEF AgentKilled, TypeOK
    <2>2. natterBy' \in [Interface -> [natter : SUBSET Config, version : Nat]]
      BY <1>9 DEF AgentKilled
    <2>3. QED
      BY <1>9, <2>1, <2>2 DEF AgentKilled, TypeOK
  <1>10. QED
    BY <1>1, <1>2, <1>3, <1>4, <1>5, <1>6, <1>7, <1>8, <1>9

LEMMA TypeStep == TypeOK /\ [Next]_vars => TypeOK'
  <1> SUFFICES ASSUME TypeOK, [Next]_vars PROVE TypeOK'
    OBVIOUS
  <1>1. CASE UNCHANGED vars
    BY <1>1 DEF vars, TypeOK
  <1>2. CASE Next
    BY <1>2, SaveType, PollType, RunType DEF Next, AgentStep
  <1>3. QED
    BY <1>1, <1>2

\* Memberships, answers, entries and jobs keep their types, and no domain has
\* the node twice.
THEOREM TypeCorrect == Spec => []TypeOK
  <1>1. Init => TypeOK
    BY NatterAgentAssumption DEF Init, NoJob, TypeOK
  <1>2. QED
    BY <1>1, TypeStep, PTL DEF Spec

(***************************************************************************)
(* WireGuard around a run.                                                 *)
(***************************************************************************)
\* A step leaves the number of faults alone, or is a fault.
LEMMA NothingElse == [Next]_vars /\ ~Fault => UNCHANGED faults
  <1> SUFFICES ASSUME [Next]_vars, ~Fault PROVE UNCHANGED faults
    OBVIOUS
  <1>1. CASE AgentStep
    <2>1. \A i \in Interface : Refuse(i) => UNCHANGED faults
      BY DEF Refuse
    <2>2. \A i \in Interface : StartNatter(i) => UNCHANGED faults
      BY DEF StartNatter
    <2>3. QED
      BY <1>1, <2>1, <2>2 DEF AgentStep, Poll, NextCommand, PollTimeout, Answer, ApplyMember,
         NoCommand, NatterEnds, StartWireGuard, Report
  <1>2. CASE UNCHANGED vars
    BY <1>2 DEF vars
  <1>3. \A d \in Domain, j \in Interface, managed \in BOOLEAN, method \in Reload,
           natter \in {{}} \cup {{c} : c \in Config} :
          SaveMember(d, j, managed, natter, method) => UNCHANGED faults
    BY DEF SaveMember
  <1>4. \A j \in Interface : QueueRun(j) => UNCHANGED faults
    BY DEF QueueRun
  <1>5. ~PollFails /\ ~AgentKilled /\ \A j \in Interface : ~StartFails(j)
    BY DEF PollFails, AgentKilled, StartFails
  <1>6. QED
    BY <1>1, <1>2, <1>3, <1>4, <1>5 DEF Next

LEMMA DownStep == TypeOK /\ DownOnlyInRun /\ [Next]_vars => DownOnlyInRun'
  <1> SUFFICES ASSUME TypeOK, DownOnlyInRun, [Next]_vars, faults' = 0,
                      NEW i \in Interface, wg'[i] = "down"
               PROVE  /\ phase' \in {"running", "ended"} /\ job'.stopped
                      /\ \E x \in command' : x.interface = i
    BY DEF DownOnlyInRun
  <1>1. faults = 0 /\ ~Fault
    <2>1. ~Fault
      BY DEF Fault, TypeOK
    <2>2. UNCHANGED faults
      BY <2>1, NothingElse
    <2>3. QED
      BY <2>1, <2>2
  <1>2. wg[i] = "down" => /\ phase \in {"running", "ended"} /\ job.stopped
                          /\ \E x \in command : x.interface = i
    BY <1>1 DEF DownOnlyInRun
  <1>3. ASSUME NEW j \in Interface, StartNatter(j)
        PROVE  /\ phase' \in {"running", "ended"} /\ job'.stopped
               /\ \E x \in command' : x.interface = i
    <2>1. wg[i] # "down" /\ \E x \in command' : x.interface = j
      BY <1>2, <1>3 DEF StartNatter, Ready
    <2>2. PICK c \in NatterConfigFor(j) :
            /\ wg' = IF c.stop THEN [wg EXCEPT ![j] = "down"] ELSE wg
            /\ job' = [NoJob EXCEPT !.stopped = c.stop]
      BY <1>3 DEF StartNatter
    <2>3. c.stop /\ i = j
      BY <2>1, <2>2 DEF TypeOK
    <2>4. job'.stopped
      BY <2>2, <2>3 DEF NoJob
    <2>5. QED
      BY <1>3, <2>1, <2>3, <2>4 DEF StartNatter
  <1>4. ASSUME NEW j \in Interface, StartWireGuard(j) PROVE FALSE
    <2>1. wg[i] = "down"
      BY <1>4 DEF StartWireGuard, TypeOK
    <2>2. job.stopped /\ i = j
      BY <1>2, <1>4, <2>1 DEF StartWireGuard, TypeOK
    <2>3. QED
      BY <1>4, <2>2 DEF StartWireGuard, TypeOK
  <1>5. ASSUME NEW ok \in BOOLEAN, NatterEnds(ok)
        PROVE  /\ phase' \in {"running", "ended"} /\ job'.stopped
               /\ \E x \in command' : x.interface = i
    <2>1. wg[i] = "down" /\ job'.stopped = job.stopped
      BY <1>5 DEF NatterEnds, TypeOK
    <2>2. QED
      BY <1>2, <1>5, <2>1 DEF NatterEnds
  <1>6. ASSUME NEW j \in Interface, Refuse(j) PROVE FALSE
    BY <1>2, <1>6 DEF Refuse, Ready
  <1>7. CASE UNCHANGED <<phase, command, job, wg>>
    BY <1>2, <1>7
  <1>8. CASE Poll \/ NextCommand \/ PollTimeout \/ Answer \/ NoCommand \/ Report
    BY <1>2, <1>8 DEF Poll, NextCommand, PollTimeout, Answer, NoCommand, Report
  <1>9. \A d \in Domain, j \in Interface, managed \in BOOLEAN, method \in Reload,
           natter \in {{}} \cup {{c} : c \in Config} :
          SaveMember(d, j, managed, natter, method) => UNCHANGED <<phase, command, job, wg>>
    BY DEF SaveMember
  <1>10. \A j \in Interface : QueueRun(j) => UNCHANGED <<phase, command, job, wg>>
    BY DEF QueueRun
  <1>11. \A m \in todo : ApplyMember(m) => UNCHANGED <<phase, command, job, wg>>
    BY DEF ApplyMember
  <1>12. ~PollFails /\ ~AgentKilled /\ \A j \in Interface : ~StartFails(j)
    BY <1>1 DEF PollFails, AgentKilled, StartFails
  <1>13. QED
    BY <1>3, <1>4, <1>5, <1>6, <1>7, <1>8, <1>9, <1>10, <1>11, <1>12
       DEF Next, AgentStep, vars

\* As long as nothing failed, WireGuard is down only around a run that stopped
\* it.
THEOREM DownInRun == Spec => []DownOnlyInRun
  <1>1. Init => DownOnlyInRun
    BY DEF Init, DownOnlyInRun
  <1>2. QED
    BY <1>1, DownStep, TypeCorrect, PTL DEF Spec

LEMMA ResultStep == TypeOK /\ ResultWhenUp /\ [Next]_vars => ResultWhenUp'
  <1> SUFFICES ASSUME TypeOK, ResultWhenUp, [Next]_vars,
                      phase' = "reporting", job'.ok, job'.stopped,
                      NEW x \in command'
               PROVE  wg'[x.interface] = "up"
    BY DEF ResultWhenUp
  <1>1. ASSUME NEW i \in Interface, StartWireGuard(i) PROVE wg'[x.interface] = "up"
    <2>1. job.stopped /\ x.interface = i
      BY <1>1 DEF StartWireGuard, TypeOK
    <2>2. QED
      BY <1>1, <2>1 DEF StartWireGuard, TypeOK
  <1>2. ASSUME NEW i \in Interface, StartFails(i) PROVE FALSE
    BY <1>2 DEF StartFails, TypeOK
  <1>3. ASSUME NEW i \in Interface, Refuse(i) PROVE FALSE
    BY <1>3 DEF Refuse, NoJob
  <1>4. CASE UNCHANGED <<phase, command, job, wg>>
    BY <1>4 DEF ResultWhenUp
  <1>5. ~(Poll \/ NextCommand \/ PollTimeout \/ Answer \/ NoCommand \/ Report
          \/ PollFails \/ AgentKilled)
    BY DEF Poll, NextCommand, PollTimeout, Answer, NoCommand, Report, PollFails, AgentKilled
  <1>6. \A i \in Interface : ~StartNatter(i)
    BY DEF StartNatter
  <1>7. \A ok \in BOOLEAN : ~NatterEnds(ok)
    BY DEF NatterEnds
  <1>8. \A d \in Domain, i \in Interface, managed \in BOOLEAN, method \in Reload,
           natter \in {{}} \cup {{c} : c \in Config} :
          SaveMember(d, i, managed, natter, method) => UNCHANGED <<phase, command, job, wg>>
    BY DEF SaveMember
  <1>9. \A i \in Interface : QueueRun(i) => UNCHANGED <<phase, command, job, wg>>
    BY DEF QueueRun
  <1>10. \A m \in todo : ApplyMember(m) => UNCHANGED <<phase, command, job, wg>>
    BY DEF ApplyMember
  <1>11. QED
    BY <1>1, <1>2, <1>3, <1>4, <1>5, <1>6, <1>7, <1>8, <1>9, <1>10 DEF Next, AgentStep, vars

\* The result of a run that stopped WireGuard is reported only when WireGuard is
\* up again.
THEOREM ResultsWhenUp == Spec => []ResultWhenUp
  <1>1. Init => ResultWhenUp
    BY DEF Init, ResultWhenUp
  <1>2. QED
    BY <1>1, ResultStep, TypeCorrect, PTL DEF Spec

(***************************************************************************)
(* The configuration a run uses.  What a command asks for is bounded by    *)
(* what is saved while it waits, by what the poll answered when the agent  *)
(* has it, and by what the agent has once it applied the answer.           *)
(***************************************************************************)
\* No membership that configures the interface is older than those x asks for.
Fits(x, ms) ==
  x.asked = {} \/ \A m \in Managed(ms, x.interface) : \E v \in x.asked : v <= m.version

Waiting(x) == Fits(x, members) /\ \A v \in x.asked : v <= saves

Answered(x) ==
  /\ Fits(x, answer)
  /\ \/ x.asked = {} \/ Managed(answer, x.interface) = {}
     \/ Managed(todo, x.interface) # {}
     \/ \E v \in x.asked : v <= natterBy[x.interface].version

CurrentInv ==
  /\ \A m \in members : m.version <= saves
  /\ \A k \in 1 .. Len(queue) : Waiting(queue[k])
  /\ phase \in {"idle", "polling"} => command = {}
  /\ phase = "answering" => \A x \in command : Waiting(x)
  /\ phase \in {"applying", "running"} => \A x \in command : Answered(x)
  /\ phase = "running" => todo = {}

LEMMA CurrentIsCurrent == CurrentInv => RunIsCurrent
  BY DEF CurrentInv, RunIsCurrent, Answered, Managed

\* A save makes nothing older.
LEMMA SaveFits ==
  ASSUME TypeOK, CurrentInv, NEW d \in Domain, NEW i \in Interface,
         NEW managed \in BOOLEAN, NEW natter \in {{}} \cup {{c} : c \in Config},
         NEW method \in Reload, SaveMember(d, i, managed, natter, method)
  PROVE  CurrentInv'
  <1>1. saves \in Nat /\ saves' = saves + 1
    <2>1. saves \in 0 .. MaxSaves
      BY DEF TypeOK
    <2>2. saves' = saves + 1
      BY DEF SaveMember
    <2>3. QED
      BY <2>1, <2>2
  <1>2. \A m \in members' : m \in members \/ m.version = saves'
    <2> DEFINE old == InDomain(members, d)
               ks == IF method = "" /\ old # {} THEN {m.method : m \in old} ELSE {method}
               byHand == managed \/ \E m \in old : m.managed
               conf == IF managed THEN natter ELSE UNION {m.natter : m \in old}
               new(k) == [domain |-> d, interface |-> i, managed |-> byHand,
                          natter |-> conf, method |-> k, version |-> saves']
    <2>1. members' = (members \ old) \cup {new(k) : k \in ks}
      BY DEF SaveMember, Others
    <2>2. \A k : new(k).version = saves'
      OBVIOUS
    <2> HIDE DEF new, ks, old
    <2>3. QED
      BY <2>1, <2>2
  <1>3. \A m \in members' : m.version <= saves'
    BY <1>1, <1>2 DEF CurrentInv, TypeOK, Member
  <1>4. ASSUME NEW x \in Command, Waiting(x) PROVE Waiting(x)'
    <2>1. \A v \in x.asked : v \in Nat /\ v <= saves
      BY <1>4 DEF Command, Waiting
    <2>2. \A v \in x.asked : v <= saves'
      BY <1>1, <2>1
    <2>3. ASSUME x.asked # {}, NEW m \in Managed(members', x.interface)
          PROVE  \E v \in x.asked : v <= m.version
      <3>1. CASE m \in members
        BY <1>4, <2>3, <3>1 DEF Waiting, Fits, Managed
      <3>2. CASE m.version = saves'
        BY <2>2, <2>3, <3>2
      <3>3. QED
        BY <1>2, <2>3, <3>1, <3>2 DEF Managed
    <2>4. QED
      BY <2>2, <2>3 DEF Waiting, Fits
  <1>5. \A k \in 1 .. Len(queue) : queue[k] \in Command
    BY DEF TypeOK
  <1>6. queue' = queue /\ UNCHANGED <<agentVars, phase, command>>
    BY DEF SaveMember
  <1>7. (\A k \in 1 .. Len(queue) : Waiting(queue[k]))'
    BY <1>4, <1>5, <1>6 DEF CurrentInv
  <1>8. phase' = "answering" => \A x \in command' : Waiting(x)'
    BY <1>4, <1>6 DEF CurrentInv, TypeOK
  <1>9. phase' \in {"applying", "running"} => \A x \in command' : Answered(x)'
    BY <1>6 DEF CurrentInv, Answered, Fits
  <1>10. QED
    BY <1>3, <1>6, <1>7, <1>8, <1>9 DEF CurrentInv

\* A command asks for what is saved when it is queued.
LEMMA QueueFits ==
  ASSUME TypeOK, CurrentInv, NEW i \in Interface, QueueRun(i)
  PROVE  CurrentInv'
  <1> DEFINE x == [interface |-> i, asked |-> {m.version : m \in Managed(members, i)}]
  <1>1. x \in Command
    BY DEF Managed, TypeOK, Member, Command
  <1>2. Waiting(x)
    <2>1. \A m \in Managed(members, i) : m.version \in Nat /\ m.version <= saves
      BY DEF Managed, CurrentInv, TypeOK, Member
    <2>2. Fits(x, members)
      BY <2>1 DEF Fits
    <2>3. QED
      BY <2>1, <2>2 DEF Waiting
  <1> HIDE DEF x
  <1>3. queue' = Append(queue, x) /\ UNCHANGED <<agentVars, members, saves, phase, command>>
    BY DEF QueueRun, x
  <1>4. \A k \in 1 .. Len(queue') :
          (k \in 1 .. Len(queue) /\ queue'[k] = queue[k]) \/ queue'[k] = x
    BY <1>1, <1>3 DEF TypeOK
  <1>5. \A k \in 1 .. Len(queue') : Waiting(queue'[k])
    BY <1>2, <1>4 DEF CurrentInv
  <1>6. QED
    BY <1>3, <1>5 DEF CurrentInv, Waiting, Answered, Fits

\* An answer has the memberships that are saved when the command has left the
\* queue; whatever remains of it is applied before the run.
LEMMA AnswerFits ==
  ASSUME TypeOK, CurrentInv, NextCommand \/ Answer \/ \E m \in todo : ApplyMember(m)
  PROVE  CurrentInv'
  <1>1. CASE NextCommand
    <2>1. queue # <<>> /\ queue \in Seq(Command)
      BY <1>1 DEF NextCommand, TypeOK
    <2>2. Head(queue) = queue[1] /\ 1 \in 1 .. Len(queue)
      BY <2>1
    <2>3. \A k \in 1 .. Len(Tail(queue)) :
            Tail(queue)[k] = queue[k + 1] /\ k + 1 \in 1 .. Len(queue)
      BY <2>1
    <2>4. \A k \in 1 .. Len(Tail(queue)) : Waiting(Tail(queue)[k])
      BY <2>3 DEF CurrentInv
    <2>5. \A y \in {Head(queue)} : Waiting(y)
      BY <2>2 DEF CurrentInv
    <2>6. queue' = Tail(queue) /\ command' = {Head(queue)} /\ phase' = "answering"
          /\ UNCHANGED <<members, saves>>
      BY <1>1 DEF NextCommand
    <2>7. QED
      BY <2>4, <2>5, <2>6 DEF CurrentInv, Waiting, Fits
  <1>2. CASE Answer
    <2>1. \A x \in command : Fits(x, members)
      BY <1>2 DEF Answer, CurrentInv, Waiting
    <2>2. phase' = "applying" /\ answer' = members /\ todo' = members
          /\ UNCHANGED <<daemonVars, natterBy, command>>
      BY <1>2 DEF Answer
    <2>3. \A x \in command' : Answered(x)'
      BY <2>1, <2>2 DEF Answered, Fits
    <2>4. QED
      BY <2>2, <2>3 DEF CurrentInv, Waiting, Fits
  <1>3. ASSUME NEW m \in todo, ApplyMember(m) PROVE CurrentInv'
    <2>1. phase = "applying" /\ todo' = todo \ {m} /\ m \in answer
          /\ UNCHANGED <<daemonVars, answer, phase, command>>
      BY <1>3 DEF ApplyMember, TypeOK
    <2>2. m \in Member
      BY <2>1 DEF TypeOK
    <2>3. natterBy' = [natterBy EXCEPT ![m.interface] = Entry(m)]
      BY <1>3 DEF ApplyMember
    <2>4. ASSUME NEW x \in command PROVE Answered(x)'
      <3>1. Answered(x) /\ x.interface \in Interface
        BY <2>1, <2>4 DEF CurrentInv, TypeOK, Command
      <3>2. CASE m \in Managed(todo, x.interface)
        <4>1. m \in Managed(answer, x.interface)
          BY <2>1, <3>2 DEF Managed
        <4>2. natterBy'[x.interface].version = m.version
          BY <2>3, <3>1, <3>2 DEF Entry, Managed, TypeOK
        <4>3. x.asked = {} \/ \E v \in x.asked : v <= natterBy'[x.interface].version
          BY <3>1, <4>1, <4>2 DEF Answered, Fits
        <4>4. QED
          BY <2>1, <3>1, <4>3 DEF Answered, Fits
      <3>3. CASE m \notin Managed(todo, x.interface)
        <4>1. Managed(todo', x.interface) = Managed(todo, x.interface)
          BY <2>1, <3>3 DEF Managed
        <4>2. natterBy'[x.interface] = natterBy[x.interface]
          BY <2>3, <3>1, <3>3 DEF Entry, Managed, TypeOK
        <4>3. QED
          BY <2>1, <3>1, <4>1, <4>2 DEF Answered, Fits
      <3>4. QED
        BY <3>2, <3>3
    <2>5. \A x \in command' : Answered(x)'
      BY <2>1, <2>4
    <2>6. QED
      BY <2>1, <2>5 DEF CurrentInv, Waiting, Fits
  <1>4. QED
    BY <1>1, <1>2, <1>3

\* Every other step.
LEMMA OtherFits ==
  ASSUME TypeOK, CurrentInv,
         \/ Poll \/ PollTimeout \/ PollFails \/ NoCommand \/ Report \/ AgentKilled
         \/ \E i \in Interface : Refuse(i) \/ StartNatter(i) \/ StartFails(i) \/ StartWireGuard(i)
         \/ \E ok \in BOOLEAN : NatterEnds(ok)
         \/ UNCHANGED vars
  PROVE  CurrentInv'
  <1>1. UNCHANGED <<members, saves, queue>>
    BY DEF Poll, PollTimeout, PollFails, NoCommand, Report, AgentKilled, Refuse, StartNatter,
           StartFails, StartWireGuard, NatterEnds, vars
  <1>2. CASE Poll \/ PollTimeout \/ PollFails \/ NoCommand \/ Report \/ AgentKilled
    <2>1. phase' \in {"idle", "polling", "answering"} /\ command' = {}
      BY <1>2 DEF Poll, PollTimeout, PollFails, NoCommand, Report, AgentKilled, CurrentInv
    <2>2. QED
      BY <1>1, <2>1 DEF CurrentInv, Waiting, Fits
  <1>3. ASSUME NEW i \in Interface, StartNatter(i) PROVE CurrentInv'
    <2>1. phase = "applying" /\ todo = {} /\ phase' = "running"
          /\ UNCHANGED <<agentVars, command>>
      BY <1>3 DEF StartNatter, Ready
    <2>2. \A x \in command' : Answered(x)'
      BY <2>1 DEF CurrentInv, Answered, Fits
    <2>3. QED
      BY <1>1, <2>1, <2>2 DEF CurrentInv, Waiting, Fits
  <1>4. ASSUME \/ \E i \in Interface : Refuse(i) \/ StartFails(i) \/ StartWireGuard(i)
               \/ \E ok \in BOOLEAN : NatterEnds(ok)
        PROVE  CurrentInv'
    <2>1. phase' \in {"reporting", "ended"}
      BY <1>4 DEF Refuse, StartFails, StartWireGuard, NatterEnds
    <2>2. QED
      BY <1>1, <2>1 DEF CurrentInv, Waiting, Fits
  <1>5. CASE UNCHANGED vars
    BY <1>5 DEF vars, CurrentInv, Waiting, Answered, Fits
  <1>6. QED
    BY <1>2, <1>3, <1>4, <1>5

LEMMA CurrentStep == TypeOK /\ CurrentInv /\ [Next]_vars => CurrentInv'
  BY SaveFits, QueueFits, AnswerFits, OtherFits DEF Next, AgentStep

\* A run uses configurations that are not older than those its interface had
\* when the run was asked for.
THEOREM RunsAreCurrent == Spec => []RunIsCurrent
  <1>1. Init => CurrentInv
    BY DEF Init, CurrentInv
  <1>2. QED
    BY <1>1, CurrentStep, TypeCorrect, CurrentIsCurrent, PTL DEF Spec
=============================================================================
