---------------------------- MODULE NatterAgent ----------------------------
(***************************************************************************)
(* The agent of a server node: the configuration the administrator saves   *)
(* for it, which it gets with the answers to its polls, and the natter     *)
(* runs it is asked for, around which it stops and starts WireGuard.       *)
(*                                                                         *)
(* A membership carries the number of the save it comes from, and a        *)
(* command those of the memberships that configured its interface when it  *)
(* was queued: history, which no guard reads.  Commands that a broken poll *)
(* loses are the subject of CommandQueue; here a broken poll is a fault.   *)
(***************************************************************************)
EXTENDS Integers, Sequences

CONSTANTS Domain, Interface,
          Config,       \* natter configurations the administrator may save
          Reload,       \* control methods the reload method of a save stands for
          LocalNatter,  \* the one in the agent's own file: {} or {c}
          MaxSaves,     \* bound on saves of memberships
          MaxRuns,      \* bound on natter.run commands
          MaxFaults     \* bound on faults of polls, commands and the agent

\* Control methods; "" stands for none, "unknown" for no such interface.
Method == {"wg-quick", "ifup", ""}

ASSUME NatterAgentAssumption ==
  /\ Config \subseteq [command : BOOLEAN, stop : BOOLEAN, control : Method]
  /\ Reload \subseteq Method
  /\ LocalNatter \subseteq Config /\ \A a, b \in LocalNatter : a = b
  /\ MaxSaves \in Nat /\ MaxRuns \in Nat /\ MaxFaults \in Nat

VARIABLES
  members,   \* the memberships of the node
  saves,     \* saves so far
  queue,     \* natter.run commands pending for the node
  issued,    \* commands so far
  phase,     \* "idle", "polling" and "answering" (inside agentPoll), "applying"
             \* (the answer), "running" (natter), "ended" (it), "reporting"
  command,   \* the command in the answer or in hand: {} or {c}
  answer,    \* the memberships in the answer to the last poll
  todo,      \* those of them the agent has not applied yet
  natterBy,  \* natterBy[i]: NatterByInterface, and the save it is from
  control,   \* control[i]: WGControlMethod of the interface
  job,       \* the run: whether it stopped WireGuard, and its outcome
  wg,        \* wg[i]: the interface is "up" or "down" (external)
  faults

daemonVars == <<members, saves, queue, issued>>
agentVars  == <<answer, todo, natterBy, control>>
vars == <<daemonVars, agentVars, phase, command, job, wg, faults>>

Member == [domain : Domain, interface : Interface, managed : BOOLEAN,
           natter : SUBSET Config, method : Method, version : Nat]
Command == [interface : Interface, asked : SUBSET Nat]

NoJob == [stopped |-> FALSE, ok |-> FALSE]

Init ==
  /\ members = {} /\ saves = 0
  /\ queue = <<>> /\ issued = 0
  /\ phase = "idle" /\ command = {}
  /\ answer = {} /\ todo = {}
  /\ natterBy = [i \in Interface |-> [natter |-> {}, version |-> 0]]
  /\ control = [i \in Interface |-> "unknown"]
  /\ job = NoJob
  /\ wg = [i \in Interface |-> "up"]
  /\ faults = 0

Fault == faults < MaxFaults /\ faults' = faults + 1

(***************************************************************************)
(* The daemon.                                                             *)
(***************************************************************************)
InDomain(ms, d) == {m \in ms : m.domain = d}
Managed(ms, i)  == {m \in ms : m.interface = i /\ m.managed}

\* Mutant of Others: a save adds a membership beside the old one.
OthersAndOld(d) == members

\* The memberships a save for domain d leaves alone.
Others(d) == members \ InDomain(members, d)

\* ApproveNode: a save that does not manage natter keeps what was saved; one
\* that does sets the configuration (natter = {c}) or clears it ({}).  An empty
\* reload method keeps the old one.
SaveMember(d, i, managed, natter, method) ==
  /\ saves < MaxSaves
  /\ saves' = saves + 1
  /\ LET old == InDomain(members, d) IN
     members' = Others(d) \cup
       {[domain |-> d, interface |-> i,
         managed |-> managed \/ \E m \in old : m.managed,
         natter  |-> IF managed THEN natter ELSE UNION {m.natter : m \in old},
         method  |-> k, version |-> saves'] :
        k \in IF method = "" /\ old # {} THEN {m.method : m \in old} ELSE {method}}
  /\ UNCHANGED <<agentVars, queue, issued, phase, command, job, wg, faults>>

\* natter.run, from the administrator or for a stale peer.
QueueRun(i) ==
  /\ issued < MaxRuns
  /\ issued' = issued + 1
  /\ queue' = Append(queue, [interface |-> i,
                             asked |-> {m.version : m \in Managed(members, i)}])
  /\ UNCHANGED <<agentVars, members, saves, phase, command, job, wg, faults>>

(***************************************************************************)
(* A poll: first the handler looks for a command, until its deadline, and  *)
(* then it reads the memberships.                                          *)
(***************************************************************************)
Poll ==
  /\ phase = "idle"
  /\ phase' = "polling"
  /\ UNCHANGED <<daemonVars, agentVars, command, job, wg, faults>>

NextCommand ==
  /\ phase = "polling"
  /\ queue # <<>>
  /\ command' = {Head(queue)}
  /\ queue' = Tail(queue)
  /\ phase' = "answering"
  /\ UNCHANGED <<agentVars, members, saves, issued, job, wg, faults>>

PollTimeout ==
  /\ phase = "polling"
  /\ phase' = "answering"
  /\ UNCHANGED <<daemonVars, agentVars, command, job, wg, faults>>

Answer ==
  /\ phase = "answering"
  /\ phase' = "applying"
  /\ answer' = members /\ todo' = members
  /\ UNCHANGED <<daemonVars, natterBy, control, command, job, wg, faults>>

PollFails ==
  /\ phase \in {"polling", "answering"}
  /\ Fault
  /\ phase' = "idle" /\ command' = {}
  /\ UNCHANGED <<daemonVars, agentVars, job, wg>>

(***************************************************************************)
(* The agent applies the memberships, which come in any order, and only    *)
(* then executes the command.                                              *)
(***************************************************************************)
\* Mutant of Entry: what the interface has already is kept, as for the method.
EntryOnce(m) ==
  IF m.managed /\ natterBy[m.interface].natter = {}
    THEN [natter |-> m.natter, version |-> m.version] ELSE natterBy[m.interface]

\* What a membership makes of the entry for its interface.
Entry(m) ==
  IF m.managed THEN [natter |-> m.natter, version |-> m.version]
               ELSE natterBy[m.interface]

\* One round of the loop of applyRemoteDomainMembers.  The first method an
\* interface gets stays.
ApplyMember(m) ==
  /\ phase = "applying"
  /\ m \in todo
  /\ todo' = todo \ {m}
  /\ natterBy' = [natterBy EXCEPT ![m.interface] = Entry(m)]
  /\ control' = [control EXCEPT ![m.interface] =
                   IF @ \in {"unknown", ""} THEN m.method ELSE @]
  /\ UNCHANGED <<daemonVars, answer, phase, command, job, wg, faults>>

NoCommand ==
  /\ phase = "applying"
  /\ todo = {}
  /\ command = {}
  /\ phase' = "idle"
  /\ UNCHANGED <<daemonVars, agentVars, command, job, wg, faults>>

(***************************************************************************)
(* runNatter.                                                              *)
(***************************************************************************)
NatterConfigFor(i) ==
  IF natterBy[i].natter # {} THEN natterBy[i].natter ELSE LocalNatter

\* wireGuardControlMethod; "" and "unknown" are errors.
ControlFor(i, c) == IF c.control # "" THEN c.control ELSE control[i]

\* wg-quick refuses to stop what is down; ifdown does not mind.
CanStop(i, method) == method # "wg-quick" \/ wg[i] = "up"

\* Mutant of Ready: the command is executed before the answer is applied.
ReadyAtOnce(i) == phase = "applying" /\ \E x \in command : x.interface = i

Ready(i) == phase = "applying" /\ todo = {} /\ \E x \in command : x.interface = i

\* No configuration, no command line, no method, or a stop that fails.
Refuse(i) ==
  /\ Ready(i)
  /\ \/ UNCHANGED faults /\ \A c \in NatterConfigFor(i) : ~c.command
     \/ \E c \in NatterConfigFor(i) :
          /\ c.command /\ c.stop
          /\ \/ UNCHANGED faults /\ ControlFor(i, c) \in {"", "unknown"}
             \/ UNCHANGED faults /\ ~CanStop(i, ControlFor(i, c))
             \/ Fault /\ ControlFor(i, c) \notin {"", "unknown"}
  /\ job' = NoJob
  /\ phase' = "reporting"
  /\ UNCHANGED <<daemonVars, agentVars, command, wg>>

StartNatter(i) ==
  /\ Ready(i)
  /\ \E c \in NatterConfigFor(i) :
       /\ c.command
       /\ c.stop => /\ ControlFor(i, c) \notin {"", "unknown"}
                    /\ CanStop(i, ControlFor(i, c))
       /\ wg' = IF c.stop THEN [wg EXCEPT ![i] = "down"] ELSE wg
       /\ job' = [NoJob EXCEPT !.stopped = c.stop]
  /\ phase' = "running"
  /\ UNCHANGED <<daemonVars, agentVars, command, faults>>

\* Mutant of NatterEnds: after a failure the agent returns at once.
NatterEndsHere(ok) ==
  /\ phase = "running"
  /\ phase' = IF ok THEN "ended" ELSE "reporting"
  /\ job' = [job EXCEPT !.ok = ok]
  /\ UNCHANGED <<daemonVars, agentVars, command, wg, faults>>

\* It succeeds, or it fails, times out or prints no result.
NatterEnds(ok) ==
  /\ phase = "running"
  /\ phase' = "ended"
  /\ job' = [job EXCEPT !.ok = ok]
  /\ UNCHANGED <<daemonVars, agentVars, command, wg, faults>>

\* Mutant of StartFails: the result is reported all the same.
StartFailsUnseen(i) ==
  /\ phase = "ended"
  /\ \E x \in command : x.interface = i
  /\ job.stopped
  /\ Fault
  /\ phase' = "reporting"
  /\ UNCHANGED <<daemonVars, agentVars, command, job, wg>>

\* restartWireGuardIfNeeded fails: there is no result to report.
StartFails(i) ==
  /\ phase = "ended"
  /\ \E x \in command : x.interface = i
  /\ job.stopped
  /\ Fault
  /\ job' = [job EXCEPT !.ok = FALSE]
  /\ phase' = "reporting"
  /\ UNCHANGED <<daemonVars, agentVars, command, wg>>

StartWireGuard(i) ==
  /\ phase = "ended"
  /\ \E x \in command : x.interface = i
  /\ wg' = IF job.stopped THEN [wg EXCEPT ![i] = "up"] ELSE wg
  /\ phase' = "reporting"
  /\ UNCHANGED <<daemonVars, agentVars, command, job, faults>>

\* The reports, whose errors the agent ignores.
Report ==
  /\ phase = "reporting"
  /\ phase' = "idle" /\ command' = {}
  /\ UNCHANGED <<daemonVars, agentVars, job, wg, faults>>

\* The agent is killed and started again: it knows its own file, and WireGuard
\* stays as it was.  A SIGTERM only ends natter, as a timeout does.
AgentKilled ==
  /\ Fault
  /\ phase' = "idle" /\ command' = {}
  /\ answer' = {} /\ todo' = {}
  /\ natterBy' = [i \in Interface |-> [natter |-> {}, version |-> 0]]
  /\ control' = [i \in Interface |-> "unknown"]
  /\ UNCHANGED <<daemonVars, job, wg>>

AgentStep ==
  \/ Poll \/ NextCommand \/ PollTimeout \/ Answer \/ NoCommand \/ Report
  \/ \E m \in todo : ApplyMember(m)
  \/ \E ok \in BOOLEAN : NatterEnds(ok)
  \/ \E i \in Interface : Refuse(i) \/ StartNatter(i) \/ StartWireGuard(i)

Next ==
  \/ \E d \in Domain, i \in Interface, managed \in BOOLEAN, method \in Reload :
       \E natter \in {{}} \cup {{c} : c \in Config} :
         SaveMember(d, i, managed, natter, method)
  \/ \E i \in Interface : QueueRun(i) \/ StartFails(i)
  \/ AgentStep \/ PollFails \/ AgentKilled

Spec == Init /\ [][Next]_vars

(***************************************************************************)
(* The agent's loop does not stop, every call has a deadline, and natter a *)
(* timeout.                                                                *)
(***************************************************************************)
FairSpec == Spec /\ WF_vars(AgentStep)
-----------------------------------------------------------------------------
(***************************************************************************)
(* Properties.                                                             *)
(***************************************************************************)
\* Types; at most one membership in a domain, one command in hand.
TypeOK ==
  /\ members \subseteq Member /\ \A m, n \in members : m.domain = n.domain => m = n
  /\ saves \in 0 .. MaxSaves
  /\ queue \in Seq(Command) /\ issued \in 0 .. MaxRuns
  /\ phase \in {"idle", "polling", "answering", "applying", "running", "ended", "reporting"}
  /\ command \subseteq Command /\ \A x, y \in command : x = y
  /\ answer \subseteq Member /\ todo \subseteq answer
  /\ natterBy \in [Interface -> [natter : SUBSET Config, version : Nat]]
  /\ control \in [Interface -> Method \cup {"unknown"}]
  /\ job \in [stopped : BOOLEAN, ok : BOOLEAN]
  /\ wg \in [Interface -> {"up", "down"}]
  /\ faults \in 0 .. MaxFaults

\* A run never uses a configuration older than those the interface had when
\* the run was asked for, though the agent may have started again and the
\* administrator may have saved in between; unless the interface was taken from
\* every membership meanwhile.
RunIsCurrent ==
  phase = "running" =>
    \A x \in command :
      \/ x.asked = {} \/ Managed(answer, x.interface) = {}
      \/ \E v \in x.asked : v <= natterBy[x.interface].version

\* As long as nothing failed, WireGuard is down only while natter runs for that
\* interface or is about to be followed by the start.
DownOnlyInRun ==
  faults = 0 =>
    \A i \in Interface : wg[i] = "down" =>
      /\ phase \in {"running", "ended"} /\ job.stopped
      /\ \E x \in command : x.interface = i

\* The endpoint of a run that stopped WireGuard is reported only when WireGuard
\* is up again: clients are never sent to a port where nobody listens.
ResultWhenUp ==
  phase = "reporting" /\ job.ok /\ job.stopped =>
    \A x \in command : wg[x.interface] = "up"

\* A saved configuration arrives at the agent, through restarts of the agent and
\* broken polls, unless it is saved over or another membership shares the
\* interface.
SavedArrives ==
  \A d \in Domain, i \in Interface, v \in 1 .. MaxSaves :
    LET mine == {m \in Managed(members, i) : m.domain = d /\ m.version = v} IN
    mine # {} ~> \/ mine = {} \/ Managed(members, i) # mine
                 \/ natterBy[i].version = v /\ \A m \in mine : m.natter = natterBy[i].natter

\* What a run stopped is started again, however natter ends, unless a fault
\* comes in between.
StoppedIsStarted ==
  \A i \in Interface, f \in 0 .. MaxFaults :
    (faults = f /\ phase = "running" /\ job.stopped /\ \E x \in command : x.interface = i)
      ~> (wg[i] = "up" \/ faults > f)
=============================================================================
