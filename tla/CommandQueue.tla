---------------------------- MODULE CommandQueue ----------------------------
(***************************************************************************)
(* The command channel between the daemon and its agents: the queues of    *)
(* the store, the long poll that hands a command to an agent, the report   *)
(* that closes it, and what crashes, dropped connections, failed saves and *)
(* deleted nodes do to it.                                                 *)
(*                                                                         *)
(* The daemon serves every connection in a goroutine of its own; one       *)
(* action here is one critical section of the store's mutex, together with *)
(* the local code around it.  An agent has at most one live poll.  When    *)
(* its connection breaks, the daemon's handler does not notice: it goes on *)
(* looping over NextCommand until its deadline, as an "orphan".            *)
(***************************************************************************)
EXTENDS QueueOps

CONSTANTS Node,        \* node ids
          MaxCmd,      \* bound on the commands ever queued
          MaxFaults    \* bound on crashes, dropped connections, lost or late
                       \* reports, failed saves and node deletions

ASSUME CommandQueueAssumption == MaxCmd \in Nat /\ MaxFaults \in Nat

VARIABLES
  up,         \* the daemon process runs
  approved,   \* nodes whose credentials authenticateAgent accepts
  commands,   \* commands[n]: queue in memory (what a restart loads, if ~up)
  disk,       \* what the state file and the runtime file hold
  target,     \* history: target[c] is the node command c was queued for
  phase,      \* phase[n]: where agent n is in its loop, and its live poll
  cmd,        \* cmd[n]: command in the response or in execution, 0 for none
  orphans,    \* orphans[n]: poll handlers of n whose connection is gone
  reports,    \* <<n, c>>: action.result reports on their way to the daemon
  handled,    \* history: handled[n] are the commands agent n started, in order
  faults      \* faults so far

vars == <<up, approved, commands, disk, target, phase, cmd, orphans, reports,
          handled, faults>>

daemonVars == <<up, approved>>
agentVars  == <<phase, cmd, handled>>

\* idle: between two polls; polling: authenticated, the queue not looked at
\* yet; waiting: the queue was empty, the handler sleeps; answered: the
\* response is on its way; handling: a command is executed; reporting: the
\* agent waits for the answer to its report.
Phase == {"idle", "polling", "waiting", "answered", "handling", "reporting"}

Init ==
  /\ up = TRUE
  /\ approved = Node
  /\ commands = [n \in Node |-> <<>>]
  /\ disk = [approved |-> Node, commands |-> commands]
  /\ target = <<>>
  /\ phase = [n \in Node |-> "idle"]
  /\ cmd = [n \in Node |-> 0]
  /\ orphans = [n \in Node |-> 0]
  /\ reports = {}
  /\ handled = [n \in Node |-> <<>>]
  /\ faults = 0

Fault == faults < MaxFaults /\ faults' = faults + 1

(***************************************************************************)
(* Saving.  The registry and the runtime are two files, each replaced by a *)
(* rename; a save may fail, and then memory is ahead of the file.          *)
(***************************************************************************)
\* Mutant of Saved: the runtime file is written before the queue is changed.
SavedBefore == disk' = [disk EXCEPT !.commands = commands] /\ UNCHANGED faults

Saved == disk' = [disk EXCEPT !.commands = commands'] /\ UNCHANGED faults
NotSaved == disk' = disk /\ Fault
SaveRuntime == Saved \/ NotSaved

SaveBoth ==
  \/ disk' = [approved |-> approved', commands |-> commands'] /\ UNCHANGED faults
  \/ NotSaved
  \/ disk' = [disk EXCEPT !.approved = approved'] /\ Fault

(***************************************************************************)
(* Daemon: queueing, and the other users of the store.                     *)
(***************************************************************************)

\* QueueCommand, called by admin.run_natter, peer.unreachable and
\* natter.result.  It does not ask whether the node exists, and the command
\* stays queued in memory when the save fails.
QueueCommand(n) ==
  /\ up
  /\ Len(target) < MaxCmd
  /\ target' = Append(target, n)
  /\ commands' = [commands EXCEPT ![n] = Enqueue(@, Len(target) + 1)]
  /\ SaveRuntime
  /\ UNCHANGED <<daemonVars, agentVars, orphans, reports>>

\* Any other operation of the store rewrites the runtime file as it is.
OtherSave ==
  /\ up
  /\ disk.commands # commands
  /\ UNCHANGED <<commands, target, daemonVars, agentVars, orphans, reports>>
  /\ Saved

\* DeleteNode drops the queue of the node, never the handlers at work for it.
DeleteNode(n) ==
  /\ up
  /\ n \in approved
  /\ faults < MaxFaults
  /\ approved' = approved \ {n}
  /\ commands' = [commands EXCEPT ![n] = <<>>]
  /\ disk' \in {disk, [disk EXCEPT !.approved = approved'],
                [approved |-> approved', commands |-> commands']}
  /\ faults' = faults + 1
  /\ UNCHANGED <<up, target, agentVars, orphans, reports>>

\* Registration and approval in one step; module Registry has the details.
Enroll(n) ==
  /\ up
  /\ n \notin approved
  /\ approved' = approved \union {n}
  /\ UNCHANGED <<up, commands, target, agentVars, orphans, reports>>
  /\ SaveBoth

(***************************************************************************)
(* The long poll.                                                          *)
(***************************************************************************)

\* agent.poll arrives and authenticates; MarkSeen saves the runtime file and
\* its error is ignored.
StartPoll(n) ==
  /\ up
  /\ n \in approved
  /\ phase[n] = "idle"
  /\ phase' = [phase EXCEPT ![n] = "polling"]
  /\ UNCHANGED <<daemonVars, commands, target, cmd, orphans, reports, handled>>
  /\ SaveRuntime

\* NextCommand finds a pending entry.  The command is in the response only if
\* the save succeeded; otherwise the response is an error.
Deliver(n) ==
  /\ up
  /\ phase[n] \in {"polling", "waiting"}
  /\ \E i \in FirstPending(commands[n]) :
       /\ commands' = [commands EXCEPT ![n] = Delivered(@, i)]
       /\ \/ Saved /\ cmd' = [cmd EXCEPT ![n] = commands[n][i].id]
          \/ NotSaved /\ UNCHANGED cmd
  /\ phase' = [phase EXCEPT ![n] = "answered"]
  /\ UNCHANGED <<daemonVars, target, orphans, reports, handled>>

\* NextCommand finds nothing: the handler sleeps for half a second.
FindNothing(n) ==
  /\ up
  /\ phase[n] = "polling"
  /\ ~HasPending(commands[n])
  /\ phase' = [phase EXCEPT ![n] = "waiting"]
  /\ UNCHANGED <<daemonVars, commands, disk, target, cmd, orphans, reports,
                 handled, faults>>

\* Mutant of PollTimeout: the deadline may pass before the first look.
PollTimeoutAtOnce(n) ==
  /\ up
  /\ phase[n] \in {"polling", "waiting"}
  /\ phase' = [phase EXCEPT ![n] = "answered"]
  /\ UNCHANGED <<daemonVars, commands, disk, target, cmd, orphans, reports,
                 handled, faults>>

\* The deadline passes between two looks at the queue.
PollTimeout(n) ==
  /\ up
  /\ phase[n] = "waiting"
  /\ phase' = [phase EXCEPT ![n] = "answered"]
  /\ UNCHANGED <<daemonVars, commands, disk, target, cmd, orphans, reports,
                 handled, faults>>

\* The agent reads the response and starts to execute its command, if any.
Receive(n) ==
  /\ phase[n] = "answered"
  /\ IF cmd[n] = 0
       THEN /\ phase' = [phase EXCEPT ![n] = "idle"]
            /\ UNCHANGED handled
       ELSE /\ phase' = [phase EXCEPT ![n] = "handling"]
            /\ handled' = [handled EXCEPT ![n] = Append(@, cmd[n])]
  /\ UNCHANGED <<daemonVars, commands, disk, target, cmd, orphans, reports, faults>>

(***************************************************************************)
(* A poll that lost its connection: the handler stays in its loop.         *)
(***************************************************************************)

\* The connection of a poll breaks, or its agent restarts.
Drop(n) ==
  /\ phase[n] \in {"polling", "waiting", "answered"}
  /\ Fault
  /\ orphans' = IF phase[n] = "answered" THEN orphans
                ELSE [orphans EXCEPT ![n] = @ + 1]
  /\ phase' = [phase EXCEPT ![n] = "idle"]
  /\ cmd' = [cmd EXCEPT ![n] = 0]
  /\ UNCHANGED <<daemonVars, commands, disk, target, reports, handled>>

\* NextCommand for a response that nobody will read.
OrphanTake(n) ==
  /\ up
  /\ orphans[n] > 0
  /\ \E i \in FirstPending(commands[n]) :
       commands' = [commands EXCEPT ![n] = Delivered(@, i)]
  /\ SaveRuntime
  /\ orphans' = [orphans EXCEPT ![n] = @ - 1]
  /\ UNCHANGED <<daemonVars, target, agentVars, reports>>

OrphanExpire(n) ==
  /\ up
  /\ orphans[n] > 0
  /\ orphans' = [orphans EXCEPT ![n] = @ - 1]
  /\ UNCHANGED <<daemonVars, commands, disk, target, agentVars, reports, faults>>

(***************************************************************************)
(* Reporting the result.                                                   *)
(***************************************************************************)
Report(n) ==
  /\ phase[n] = "handling"
  /\ phase' = [phase EXCEPT ![n] = "reporting"]
  /\ reports' = IF up THEN reports \union {<<n, cmd[n]>>} ELSE reports
  /\ UNCHANGED <<daemonVars, commands, disk, target, cmd, orphans, handled, faults>>

\* agent.report arrives: it authenticates again, then CompleteCommand.
Complete(n, c) ==
  /\ up
  /\ <<n, c>> \in reports
  /\ reports' = reports \ {<<n, c>>}
  /\ IF n \in approved
       THEN /\ commands' = [commands EXCEPT ![n] = MarkCompleted(@, c)]
            /\ SaveRuntime
       ELSE UNCHANGED <<commands, disk, faults>>
  /\ UNCHANGED <<daemonVars, target, agentVars, orphans>>

\* The call returns, whatever its answer: the agent ignores errors.
EndReport(n) ==
  /\ phase[n] = "reporting"
  /\ <<n, cmd[n]>> \notin reports
  /\ phase' = [phase EXCEPT ![n] = "idle"]
  /\ cmd' = [cmd EXCEPT ![n] = 0]
  /\ UNCHANGED <<daemonVars, commands, disk, target, orphans, reports, handled, faults>>

\* The call times out while the report is still on its way, or the agent
\* restarts while it executes or reports; the report may be lost as well.
AbandonCommand(n) ==
  /\ phase[n] \in {"handling", "reporting"}
  /\ Fault
  /\ phase' = [phase EXCEPT ![n] = "idle"]
  /\ cmd' = [cmd EXCEPT ![n] = 0]
  /\ reports' \in {reports, reports \ {<<n, cmd[n]>>}}
  /\ UNCHANGED <<daemonVars, commands, disk, target, orphans, handled>>

(***************************************************************************)
(* The daemon stops and starts.  Every handler dies; responses that were   *)
(* written still arrive.  Memory is what Open reads from the files.        *)
(***************************************************************************)
DaemonCrash ==
  /\ up
  /\ Fault
  /\ up' = FALSE
  /\ approved' = disk.approved
  /\ commands' = disk.commands
  /\ orphans' = [n \in Node |-> 0]
  /\ reports' = {}
  /\ phase' = [n \in Node |->
                 IF phase[n] \in {"polling", "waiting"} THEN "idle" ELSE phase[n]]
  /\ UNCHANGED <<disk, target, cmd, handled>>

DaemonStart ==
  /\ ~up
  /\ up' = TRUE
  /\ UNCHANGED <<approved, commands, disk, target, agentVars, orphans, reports, faults>>

NodeStep(n) ==
  \/ QueueCommand(n) \/ DeleteNode(n) \/ Enroll(n)
  \/ StartPoll(n) \/ Deliver(n) \/ FindNothing(n) \/ PollTimeout(n) \/ Receive(n)
  \/ Drop(n) \/ OrphanTake(n) \/ OrphanExpire(n)
  \/ Report(n) \/ EndReport(n) \/ AbandonCommand(n)
  \/ \E c \in 1 .. Len(target) : Complete(n, c)

Next == OtherSave \/ DaemonCrash \/ DaemonStart \/ \E n \in Node : NodeStep(n)

Spec == Init /\ [][Next]_vars

(***************************************************************************)
(* Fairness.  The agent's loop and the daemon's handlers never stop by     *)
(* themselves, every call has a deadline, and the service manager starts   *)
(* the daemon again.  Nothing is assumed of faults, of the administrator,  *)
(* or of who queues commands.                                              *)
(***************************************************************************)
Fairness ==
  /\ WF_vars(DaemonStart)
  /\ \A n \in Node :
       /\ WF_vars(StartPoll(n))
       /\ WF_vars(Deliver(n) \/ FindNothing(n))
       /\ WF_vars(PollTimeout(n))
       /\ WF_vars(Receive(n))
       /\ WF_vars(OrphanTake(n) \/ OrphanExpire(n))
       /\ WF_vars(Report(n))
       /\ WF_vars(\E c \in 1 .. MaxCmd : Complete(n, c))
       /\ WF_vars(EndReport(n))

FairSpec == Spec /\ Fairness
-----------------------------------------------------------------------------
(***************************************************************************)
(* Properties.                                                             *)
(***************************************************************************)
Queues == [Node -> Seq(Entry)]

\* Types of the variables (Store, Agent).
TypeOK ==
  /\ up \in BOOLEAN
  /\ approved \subseteq Node
  /\ commands \in Queues
  /\ disk \in [approved : SUBSET Node, commands : Queues]
  /\ target \in Seq(Node)
  /\ phase \in [Node -> Phase]
  /\ cmd \in [Node -> Nat]
  /\ orphans \in [Node -> Nat]
  /\ reports \subseteq Node \X Nat
  /\ handled \in [Node -> Seq(Nat \ {0})]
  /\ faults \in Nat

\* An agent executes its commands in the order they were queued and none of
\* them twice, across dropped polls, restarts of either side, failed saves and
\* late reports (NextCommand, agentPoll, Agent.Run).
InOrder ==
  \A n \in Node : \A i, j \in DOMAIN handled[n] :
     i < j => handled[n][i] < handled[n][j]

\* A command an agent has started, or has in a response, is pending neither in
\* memory nor in the runtime file: no restart at any moment can deliver it
\* again (NextCommand saves before it returns).
HandledIsDurable ==
  \A n \in Node : \A c \in Elements(handled[n]) \union {cmd[n]} :
     c \notin PendingIds(commands[n]) \union PendingIds(disk.commands[n])

\* The store calls a command completed only if the node it was queued for has
\* executed it: a late or repeated report never closes another node's command
\* or one that was lost (CompleteCommand).
CompletedWasHandled ==
  \A n \in Node : \A c \in CompletedIds(commands[n]) :
     target[c] = n /\ c \in Elements(handled[n])

\* What keeps them true: the queues in memory and on disk are sound relative to
\* what the agent did, a response carries a command newer than all it started,
\* and only commands it started are reported.
QueuesSound ==
  \A n \in Node :
     /\ SoundQueue(commands[n], n, target, cmd[n], handled[n])
     /\ SoundQueue(disk.commands[n], n, target, cmd[n], handled[n])

AgentSound ==
  \A n \in Node :
     /\ cmd[n] # 0 => cmd[n] \in DOMAIN target /\ target[cmd[n]] = n
     /\ \A k \in DOMAIN handled[n] :
          handled[n][k] \in DOMAIN target /\ target[handled[n][k]] = n
     /\ phase[n] \in {"idle", "polling", "waiting"} => cmd[n] = 0
     /\ phase[n] = "answered" /\ cmd[n] # 0 =>
          \A k \in DOMAIN handled[n] : handled[n][k] < cmd[n]
     /\ phase[n] \in {"handling", "reporting"} => cmd[n] \in Elements(handled[n])

ReportsSound == \A r \in reports : r[2] \in Elements(handled[r[1]])

\* The inductive invariant of the proofs, which contains TypeOK and InOrder and
\* implies CompletedWasHandled (NextCommand, CompleteCommand, Run, report).
IndInv == TypeOK /\ InOrder /\ QueuesSound /\ AgentSound /\ ReportsSound

\* The channel implements its abstract specification.
Delivery == INSTANCE CommandDelivery
ImplementsDelivery == Delivery!CDSpec

\* A pending command of an approved node is executed, unless a fault happens
\* meanwhile or a handler of an earlier, interrupted poll is still looping.
PendingIsHandled ==
  \A n \in Node, c \in 1 .. MaxCmd, f \in 0 .. MaxFaults :
     (/\ c \in PendingIds(commands[n]) /\ n \in approved
      /\ faults = f /\ orphans[n] = 0)
     ~> (faults # f \/ c \in Elements(handled[n]))

\* The troubleshooting section of the README says of an interrupted long poll
\* that the agent retries automatically: once no fault happens any more, a
\* command queued for an approved node is then executed.
RetryRecovers ==
  \A n \in Node, c \in 1 .. MaxCmd, f \in 0 .. MaxFaults :
     (c \in PendingIds(commands[n]) /\ n \in approved /\ faults = f)
     ~> (faults # f \/ c \in Elements(handled[n]))
=============================================================================
