------------------------------ MODULE Recovery ------------------------------
(***************************************************************************)
(* The recovery loop for one server interface behind NAT and the clients   *)
(* bound to it.  The NAT mapping of the server changes; a client's monitor *)
(* finds its peer stale and reports it; the daemon, at most once in a      *)
(* cooldown, queues natter.run for the server; the server measures its     *)
(* mapping and reports it; the daemon stores the lease and queues          *)
(* endpoint.apply for every client; each client applies it.                *)
(*                                                                         *)
(* Mappings are numbered in the order they come into being.  The command   *)
(* channel appears as module CommandDelivery promises it: in order, none   *)
(* twice, none for certain.                                                *)
(***************************************************************************)
EXTENDS Integers, Sequences, FiniteSets

CONSTANTS Client,      \* clients with a binding to the server interface
          Threshold,   \* fail_threshold of the monitor
          MaxChanges,  \* bound on changes of the mapping
          MaxManual,   \* bound on natter runs asked for by the administrator
          MaxFaults    \* bound on crashes, lost or late calls, failed saves

ASSUME RecoveryAssumption ==
  /\ Threshold \in Nat \ {0}
  /\ MaxChanges \in Nat /\ MaxManual \in Nat /\ MaxFaults \in Nat

VARIABLES
  nat,          \* the mapping of the server now (external)
  stale,        \* stale[c]: the last handshake of c is too old (external)
  applied,      \* applied[c]: mapping in the WireGuard configuration of c
  failCount,    \* failCounts of the monitor of c, up to Threshold
  unreachable,  \* unreachable[c]: c has reported the peer and not seen it since
  cool,         \* the last automatic natter.run is within the cooldown
  autoRuns,     \* history: automatic runs queued since a cooldown last ended
  runs,         \* natter.run commands queued for the server
  server,       \* the server's agent: "idle", "running" or "reporting"
  calls,        \* reports under way: <<"unreachable", c>>, <<"natter", m>>, and
                \* <<"late", m>>, a natter.result nobody waits for any more
  lease,        \* the mapping of the last lease stored
  jobs,         \* handlers of natter.result still queueing commands
  queue,        \* queue[c]: mappings of the endpoint.apply commands for c
  manual,       \* runs the administrator asked for
  faults        \* faults so far

vars == <<nat, stale, applied, failCount, unreachable, cool, autoRuns, runs, server,
          calls, lease, jobs, queue, manual, faults>>

monitorVars == <<failCount, unreachable>>
daemonVars  == <<cool, autoRuns, lease, jobs>>
wireVars    == <<nat, stale, applied>>

Init ==
  /\ nat = 0
  /\ stale = [c \in Client |-> FALSE]
  /\ applied = [c \in Client |-> 0]
  /\ failCount = [c \in Client |-> 0]
  /\ unreachable = [c \in Client |-> FALSE]
  /\ cool = FALSE
  /\ autoRuns = 0
  /\ runs = 0
  /\ server = "idle"
  /\ calls = {}
  /\ lease = 0
  /\ jobs = {}
  /\ queue = [c \in Client |-> <<>>]
  /\ manual = 0
  /\ faults = 0

Fault == faults < MaxFaults /\ faults' = faults + 1

(***************************************************************************)
(* The network: handshakes need the endpoint the server has now.           *)
(***************************************************************************)
MappingChanges ==
  /\ nat < MaxChanges
  /\ nat' = nat + 1
  /\ UNCHANGED <<stale, applied, monitorVars, daemonVars, runs, server, calls,
                 queue, manual, faults>>

HandshakeAges(c) ==
  /\ applied[c] # nat
  /\ ~stale[c]
  /\ stale' = [stale EXCEPT ![c] = TRUE]
  /\ UNCHANGED <<nat, applied, monitorVars, daemonVars, runs, server, calls,
                 queue, manual, faults>>

Handshake(c) ==
  /\ applied[c] = nat
  /\ stale[c]
  /\ stale' = [stale EXCEPT ![c] = FALSE]
  /\ UNCHANGED <<nat, applied, monitorVars, daemonVars, runs, server, calls,
                 queue, manual, faults>>

(***************************************************************************)
(* The monitor of a client: one goroutine, which waits for its own report. *)
(***************************************************************************)
Ready(c) == <<"unreachable", c>> \notin calls

\* Mutant of TickStale: one failure too many is asked for.
TickStaleLate(c) ==
  /\ Ready(c)
  /\ stale[c]
  /\ failCount[c] < Threshold
  /\ failCount' = [failCount EXCEPT ![c] = @ + 1]
  /\ UNCHANGED <<wireVars, unreachable, calls, daemonVars, runs, server, queue,
                 manual, faults>>

\* A tick that finds the peer stale.  The peer is marked before it is reported,
\* and reported only when it was not marked.
TickStale(c) ==
  /\ Ready(c)
  /\ stale[c]
  /\ failCount[c] < Threshold \/ ~unreachable[c]
  /\ failCount' = [failCount EXCEPT ![c] = IF @ < Threshold THEN @ + 1 ELSE @]
  /\ IF failCount'[c] = Threshold /\ ~unreachable[c]
       THEN /\ unreachable' = [unreachable EXCEPT ![c] = TRUE]
            /\ calls' = calls \cup {<<"unreachable", c>>}
       ELSE UNCHANGED <<unreachable, calls>>
  /\ UNCHANGED <<wireVars, daemonVars, runs, server, queue, manual, faults>>

\* A tick that finds it fresh; the report of the recovery is only an event.
TickFresh(c) ==
  /\ Ready(c)
  /\ ~stale[c]
  /\ failCount[c] > 0 \/ unreachable[c]
  /\ failCount' = [failCount EXCEPT ![c] = 0]
  /\ unreachable' = [unreachable EXCEPT ![c] = FALSE]
  /\ UNCHANGED <<wireVars, daemonVars, runs, server, calls, queue, manual, faults>>

\* The agent of a client starts again: its monitor remembers nothing.
ClientRestart(c) ==
  /\ Fault
  /\ failCount' = [failCount EXCEPT ![c] = 0]
  /\ unreachable' = [unreachable EXCEPT ![c] = FALSE]
  /\ UNCHANGED <<wireVars, daemonVars, runs, server, calls, queue, manual>>

(***************************************************************************)
(* The daemon.                                                             *)
(***************************************************************************)

\* Mutant of PeerUnreachable: the cooldown is started and never looked at.
PeerUnreachableAnyway(c) ==
  /\ <<"unreachable", c>> \in calls
  /\ calls' = calls \ {<<"unreachable", c>>}
  /\ runs' = runs + 1
  /\ autoRuns' = autoRuns + 1
  /\ cool' = TRUE
  /\ UNCHANGED <<wireVars, monitorVars, lease, jobs, server, queue, manual, faults>>

\* peerUnreachable, under natterMu: within the cooldown the report is answered
\* and forgotten.  When the save of the queue fails the command stays queued
\* and the cooldown does not start.
PeerUnreachable(c) ==
  /\ <<"unreachable", c>> \in calls
  /\ calls' = calls \ {<<"unreachable", c>>}
  /\ IF cool
       THEN UNCHANGED <<runs, autoRuns, cool, faults>>
       ELSE /\ runs' = runs + 1
            /\ autoRuns' = autoRuns + 1
            /\ \/ cool' = TRUE /\ UNCHANGED faults
               \/ UNCHANGED cool /\ Fault
  /\ UNCHANGED <<wireVars, monitorVars, lease, jobs, server, queue, manual>>

CooldownEnds ==
  /\ cool
  /\ cool' = FALSE
  /\ autoRuns' = 0
  /\ UNCHANGED <<wireVars, monitorVars, lease, jobs, runs, server, calls, queue,
                 manual, faults>>

\* adminRunNatter does not ask for the cooldown and does not start one.
AdminRunNatter ==
  /\ manual < MaxManual
  /\ manual' = manual + 1
  /\ runs' = runs + 1
  /\ UNCHANGED <<wireVars, monitorVars, daemonVars, server, calls, queue, faults>>

\* natter.result: SaveEndpointLease, then one QueueCommand for each binding.  A
\* lease whose save fails stays in memory, but its handler ends there.
NatterResult(kind, m) ==
  /\ <<kind, m>> \in calls
  /\ calls' = calls \ {<<kind, m>>}
  /\ lease' = m
  /\ \/ /\ jobs' = jobs \cup {[mapping |-> m, left |-> Client, awaited |-> kind = "natter"]}
        /\ UNCHANGED faults
     \/ UNCHANGED jobs /\ Fault
  /\ UNCHANGED <<wireVars, monitorVars, cool, autoRuns, runs, server, queue, manual>>

\* A save that fails ends the handler; the command it was for stays queued.
QueueApply(j, c) ==
  /\ j \in jobs
  /\ c \in j.left
  /\ queue' = [queue EXCEPT ![c] = Append(@, j.mapping)]
  /\ LET left == j.left \ {c} IN
     \/ /\ jobs' = (jobs \ {j}) \cup
                   (IF left = {} THEN {} ELSE {[j EXCEPT !.left = left]})
        /\ UNCHANGED faults
     \/ jobs' = jobs \ {j} /\ Fault
  /\ UNCHANGED <<wireVars, monitorVars, cool, autoRuns, lease, runs, server,
                 calls, manual>>

\* lastNatterRun is not persisted; calls and handlers are gone.
DaemonRestart ==
  /\ Fault
  /\ cool' = FALSE
  /\ calls' = {}
  /\ jobs' = {}
  /\ UNCHANGED <<wireVars, monitorVars, autoRuns, lease, runs, server, queue, manual>>

(***************************************************************************)
(* The agents' command handlers.                                           *)
(***************************************************************************)
\* Mutant of RunNatter: the agent does not wait for its report.
RunNatterAtOnce ==
  /\ server # "running"
  /\ runs > 0
  /\ runs' = runs - 1
  /\ server' = "running"
  /\ UNCHANGED <<wireVars, monitorVars, daemonVars, calls, queue, manual, faults>>

RunNatter ==
  /\ server = "idle"
  /\ runs > 0
  /\ runs' = runs - 1
  /\ server' = "running"
  /\ UNCHANGED <<wireVars, monitorVars, daemonVars, calls, queue, manual, faults>>

NatterDone ==
  /\ server = "running"
  /\ server' = "reporting"
  /\ calls' = calls \cup {<<"natter", nat>>}
  /\ UNCHANGED <<wireVars, monitorVars, daemonVars, runs, queue, manual, faults>>

\* Mutant of ReportReturns: the agent does not wait for the handler.
ReportSent ==
  /\ server = "reporting"
  /\ server' = "idle"
  /\ UNCHANGED <<wireVars, monitorVars, daemonVars, runs, calls, queue, manual, faults>>

\* The report returns when its handler has queued everything, or failed.
ReportReturns ==
  /\ server = "reporting"
  /\ \A j \in jobs : ~j.awaited
  /\ \A m \in 0 .. nat : <<"natter", m>> \notin calls
  /\ server' = "idle"
  /\ UNCHANGED <<wireVars, monitorVars, daemonVars, runs, calls, queue, manual, faults>>

\* Natter fails, the agent restarts, or its report is lost or comes late.
ServerFault ==
  /\ server # "idle"
  /\ Fault
  /\ server' = "idle"
  /\ LET other == {x \in calls : x[1] # "natter"} IN
     calls' \in {other, other \cup {<<"late", x[2]>> : x \in calls \ other}}
  /\ jobs' = {[j EXCEPT !.awaited = FALSE] : j \in jobs}
  /\ UNCHANGED <<wireVars, monitorVars, cool, autoRuns, lease, runs, queue, manual>>

\* Mutant of Apply: the newest command first.
ApplyNewest(c) ==
  /\ queue[c] # <<>>
  /\ queue' = [queue EXCEPT ![c] = SubSeq(@, 1, Len(@) - 1)]
  /\ applied' = [applied EXCEPT ![c] = queue[c][Len(queue[c])]]
  /\ UNCHANGED <<nat, stale, monitorVars, daemonVars, runs, server, calls, manual, faults>>

\* The client writes the endpoint into its configuration and reloads.
Apply(c) ==
  /\ queue[c] # <<>>
  /\ queue' = [queue EXCEPT ![c] = Tail(@)]
  /\ applied' = [applied EXCEPT ![c] = Head(queue[c])]
  /\ UNCHANGED <<nat, stale, monitorVars, daemonVars, runs, server, calls, manual, faults>>

\* A command taken by an interrupted poll, or one whose execution fails.
LoseCommand ==
  /\ Fault
  /\ \/ runs > 0 /\ runs' = runs - 1 /\ UNCHANGED queue
     \/ /\ \E c \in Client : queue[c] # <<>> /\ queue' = [queue EXCEPT ![c] = Tail(@)]
        /\ UNCHANGED runs
  /\ UNCHANGED <<wireVars, monitorVars, daemonVars, server, calls, manual>>

\* The report of an unreachable peer is lost: its error is only logged.
LoseReport(c) ==
  /\ <<"unreachable", c>> \in calls
  /\ calls' = calls \ {<<"unreachable", c>>}
  /\ Fault
  /\ UNCHANGED <<wireVars, monitorVars, daemonVars, runs, server, queue, manual>>

ClientStep(c) ==
  \/ HandshakeAges(c) \/ Handshake(c) \/ TickStale(c) \/ TickFresh(c)
  \/ PeerUnreachable(c) \/ Apply(c)
  \/ \E j \in jobs : QueueApply(j, c)

Next ==
  \/ MappingChanges \/ CooldownEnds \/ AdminRunNatter \/ DaemonRestart
  \/ RunNatter \/ NatterDone \/ ReportReturns \/ ServerFault \/ LoseCommand
  \/ \E kind \in {"natter", "late"}, m \in 0 .. nat : NatterResult(kind, m)
  \/ \E c \in Client : ClientStep(c) \/ ClientRestart(c) \/ LoseReport(c)

Spec == Init /\ [][Next]_vars

(***************************************************************************)
(* Fairness: time passes (handshakes age, cooldowns end, monitors tick) and *)
(* every call and command is eventually served.                            *)
(***************************************************************************)
Fairness ==
  /\ WF_vars(CooldownEnds) /\ WF_vars(RunNatter) /\ WF_vars(NatterDone)
  /\ WF_vars(ReportReturns) /\ WF_vars(\E m \in 0 .. nat : NatterResult("natter", m))
  /\ \A c \in Client :
       /\ WF_vars(HandshakeAges(c)) /\ WF_vars(Handshake(c))
       /\ WF_vars(TickStale(c)) /\ WF_vars(TickFresh(c))
       /\ WF_vars(PeerUnreachable(c)) /\ WF_vars(Apply(c))
       /\ WF_vars(\E j \in jobs : QueueApply(j, c))

FairSpec == Spec /\ Fairness
-----------------------------------------------------------------------------
(***************************************************************************)
(* Properties.                                                             *)
(***************************************************************************)

\* Types of the variables.
TypeOK ==
  /\ nat \in Nat /\ lease \in Nat
  /\ stale \in [Client -> BOOLEAN] /\ unreachable \in [Client -> BOOLEAN]
  /\ applied \in [Client -> Nat]
  /\ failCount \in [Client -> 0 .. Threshold]
  /\ cool \in BOOLEAN
  /\ autoRuns \in Nat /\ runs \in Nat /\ manual \in Nat /\ faults \in Nat
  /\ server \in {"idle", "running", "reporting"}
  /\ calls \subseteq ({"unreachable"} \X Client) \cup ({"natter", "late"} \X Nat)
  /\ jobs \subseteq [mapping : Nat, left : SUBSET Client, awaited : BOOLEAN]
  /\ queue \in [Client -> Seq(Nat)]

\* The cooldown: however many clients lose the server at once, one automatic
\* natter.run is queued before the next cooldown ends, and one more for each
\* failed save or restart, which forget the cooldown (peerUnreachable).
OneRunPerCooldown == autoRuns <= 1 + faults

\* Every client that does not have the last lease is being sent it: it is the
\* last command in its queue, or the handler of the lease still has to queue it
\* (natter.result, SaveEndpointLease).
LeaseIsOnItsWay ==
  faults = 0 =>
    \A c \in Client :
      \/ \E j \in jobs : j.mapping = lease /\ c \in j.left
      \/ IF queue[c] = <<>> THEN applied[c] = lease
                            ELSE queue[c][Len(queue[c])] = lease

\* What keeps them true.  A fault allows one run more, and a cooldown counts the
\* run that started it; the results of the server come one at a time, and the
\* queue of a client holds leases in the order they were stored.
RunsCounted ==
  /\ autoRuns <= faults + 1
  /\ ~cool => autoRuns <= faults

ResultsInTurn ==
  /\ \A x \in calls : x[1] # "unreachable" =>
       /\ x[1] = "natter" /\ server = "reporting" /\ jobs = {}
       /\ lease <= x[2] /\ x[2] <= nat
       /\ \A y \in calls : y[1] # "unreachable" => x = y
  /\ \A j \in jobs : /\ j.mapping = lease /\ j.awaited /\ server = "reporting"
                     /\ \A k \in jobs : j = k
  /\ lease <= nat

QueuesInOrder ==
  \A c \in Client :
    /\ applied[c] <= lease
    /\ \A i \in DOMAIN queue[c] : applied[c] <= queue[c][i] /\ queue[c][i] <= lease
    /\ \A i, j \in DOMAIN queue[c] : i < j => queue[c][i] <= queue[c][j]

\* The inductive invariant of the proofs, which contains TypeOK: runs are paid
\* for by cooldowns and faults; without faults results are served one at a time
\* and queued in order (peerUnreachable, natter.result, runNatter).
IndInv ==
  /\ TypeOK
  /\ RunsCounted
  /\ faults = 0 => ResultsInTurn /\ QueuesInOrder
  /\ LeaseIsOnItsWay

\* Without faults a client never goes back to an older mapping: the results of
\* one server reach every client in the order they were measured.
NeverOlder == [][faults = 0 => \A c \in Client : applied'[c] >= applied[c]]_vars

\* A client whose peer is not marked yet gets the new mapping, if no cooldown
\* runs when the mapping comes and nothing fails meanwhile (runMonitor,
\* peerUnreachable, runNatter, natter.result).
RecoversOutsideCooldown ==
  \A c \in Client, m \in 0 .. MaxChanges, f \in 0 .. MaxFaults :
    (nat = m /\ faults = f /\ ~cool /\ ~unreachable[c])
      ~> (nat # m \/ faults # f \/ applied[c] = m)

\* The feature list of the README: automatic natter.run when a client peer
\* becomes stale.  So a mapping that stays is applied by every client.
Recovers ==
  \A c \in Client, m \in 0 .. MaxChanges :
    (nat = m) ~> (nat # m \/ applied[c] = m)
=============================================================================
