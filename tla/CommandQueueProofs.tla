------------------------- MODULE CommandQueueProofs -------------------------
(***************************************************************************)
(* Proofs about CommandQueue: type correctness, the inductive invariant    *)
(* and the safety properties it implies, and the refinement of             *)
(* CommandDelivery.                                                        *)
(***************************************************************************)
EXTENDS CommandQueue, QueueOpsProofs

\* What a save does to the files, given well-typed memory.
LEMMA SaveType ==
  ASSUME TypeOK, commands' \in Queues, approved' \subseteq Node,
         SaveRuntime \/ SaveBoth
  PROVE  /\ disk' \in [approved : SUBSET Node, commands : Queues]
         /\ faults' \in Nat
         /\ disk'.commands = disk.commands \/ disk'.commands = commands'
  <1>1. disk \in [approved : SUBSET Node, commands : Queues] /\ faults \in Nat
    BY DEF TypeOK
  <1>2. CASE Saved
    BY <1>1, <1>2 DEF Saved
  <1>3. CASE NotSaved
    BY <1>1, <1>3 DEF NotSaved, Fault
  <1>4. CASE disk' = [approved |-> approved', commands |-> commands'] /\ faults' = faults
    BY <1>1, <1>4
  <1>5. CASE disk' = [disk EXCEPT !.approved = approved'] /\ Fault
    BY <1>1, <1>5 DEF Fault
  <1>6. QED
    BY <1>2, <1>3, <1>4, <1>5 DEF SaveRuntime, SaveBoth

\* The initial state is well typed.
LEMMA InitType == Init => TypeOK
  <1> SUFFICES ASSUME Init PROVE TypeOK
    OBVIOUS
  <1>1. commands \in Queues
    BY DEF Init, Queues
  <1>2. QED
    BY <1>1 DEF Init, TypeOK, Phase

\* Every step keeps the types.
LEMMA NextType == TypeOK /\ [Next]_vars => TypeOK'
  <1> SUFFICES ASSUME TypeOK, [Next]_vars PROVE TypeOK'
    OBVIOUS
  <1> USE DEF daemonVars, agentVars
  <1>1. ASSUME NEW n \in Node, QueueCommand(n) PROVE TypeOK'
    <2>1. Len(target) + 1 \in Nat \ {0} /\ commands[n] \in Seq(Entry)
      BY DEF TypeOK, Queues
    <2>2. Enqueue(commands[n], Len(target) + 1) \in Seq(Entry)
      BY <2>1, EnqueueType
    <2>3. commands' \in Queues
      BY <1>1, <2>2 DEF QueueCommand, TypeOK, Queues
    <2>4. target' \in Seq(Node)
      BY <1>1 DEF QueueCommand, TypeOK
    <2>5. SaveRuntime /\ approved' \subseteq Node
      BY <1>1 DEF QueueCommand, TypeOK
    <2>6. QED
      BY <1>1, <2>3, <2>4, <2>5, SaveType DEF QueueCommand, TypeOK
  <1>2. ASSUME NEW n \in Node, DeleteNode(n) PROVE TypeOK'
    <2>1. commands' \in Queues
      BY <1>2 DEF DeleteNode, TypeOK, Queues
    <2>2. disk \in [approved : SUBSET Node, commands : Queues] /\ approved' \subseteq Node
      BY <1>2 DEF DeleteNode, TypeOK
    <2>3. disk' \in [approved : SUBSET Node, commands : Queues]
      <3>1. CASE disk' = disk
        BY <2>2, <3>1
      <3>2. CASE disk' = [disk EXCEPT !.approved = approved']
        BY <2>2, <3>2
      <3>3. CASE disk' = [approved |-> approved', commands |-> commands']
        BY <2>1, <2>2, <3>3
      <3>4. QED
        BY <1>2, <3>1, <3>2, <3>3 DEF DeleteNode
    <2>4. QED
      BY <1>2, <2>1, <2>2, <2>3 DEF DeleteNode, TypeOK
  <1>3. ASSUME NEW n \in Node, Enroll(n) PROVE TypeOK'
    BY <1>3, SaveType DEF Enroll, TypeOK
  <1>4. ASSUME NEW n \in Node, StartPoll(n) PROVE TypeOK'
    BY <1>4, SaveType DEF StartPoll, TypeOK, Phase
  <1>5. ASSUME NEW n \in Node, Deliver(n) PROVE TypeOK'
    <2>1. PICK i \in FirstPending(commands[n]) :
            /\ commands' = [commands EXCEPT ![n] = Delivered(@, i)]
            /\ \/ Saved /\ cmd' = [cmd EXCEPT ![n] = commands[n][i].id]
               \/ NotSaved /\ UNCHANGED cmd
      BY <1>5 DEF Deliver
    <2>2. commands[n] \in Seq(Entry) /\ i \in PendingAt(commands[n])
      BY DEF TypeOK, Queues, FirstPending
    <2>3. Delivered(commands[n], i) \in Seq(Entry)
      BY <2>2, DeliveredType
    <2>4. commands' \in Queues
      BY <2>1, <2>3 DEF TypeOK, Queues
    <2>5. commands[n][i].id \in Nat
      <3>1. commands[n][i] \in Entry
        BY <2>2 DEF PendingAt
      <3>2. QED
        BY <3>1 DEF Entry
    <2>6. SaveRuntime /\ approved' \subseteq Node
      BY <1>5, <2>1 DEF Deliver, SaveRuntime, TypeOK
    <2>7. cmd' \in [Node -> Nat]
      BY <2>1, <2>5 DEF TypeOK
    <2>8. QED
      BY <1>5, <2>4, <2>6, <2>7, SaveType DEF Deliver, TypeOK, Phase
  <1>6. ASSUME NEW n \in Node, FindNothing(n) PROVE TypeOK'
    BY <1>6 DEF FindNothing, TypeOK, Phase
  <1>7. ASSUME NEW n \in Node, PollTimeout(n) PROVE TypeOK'
    BY <1>7 DEF PollTimeout, TypeOK, Phase
  <1>8. ASSUME NEW n \in Node, Receive(n) PROVE TypeOK'
    <2>1. phase' \in [Node -> Phase]
      BY <1>8 DEF Receive, TypeOK, Phase
    <2>2. CASE cmd[n] = 0
      BY <1>8, <2>1, <2>2 DEF Receive, TypeOK
    <2>3. CASE cmd[n] # 0
      <3>1. Append(handled[n], cmd[n]) \in Seq(Nat \ {0})
        BY <2>3 DEF TypeOK
      <3>2. handled' \in [Node -> Seq(Nat \ {0})]
        BY <1>8, <2>3, <3>1 DEF Receive, TypeOK
      <3>3. QED
        BY <1>8, <2>1, <3>2 DEF Receive, TypeOK
    <2>4. QED
      BY <2>2, <2>3
  <1>9. ASSUME NEW n \in Node, Drop(n) PROVE TypeOK'
    BY <1>9 DEF Drop, TypeOK, Phase, Fault
  <1>10. ASSUME NEW n \in Node, OrphanTake(n) PROVE TypeOK'
    <2>1. PICK i \in FirstPending(commands[n]) :
            commands' = [commands EXCEPT ![n] = Delivered(@, i)]
      BY <1>10 DEF OrphanTake
    <2>2. commands[n] \in Seq(Entry) /\ i \in PendingAt(commands[n])
      BY DEF TypeOK, Queues, FirstPending
    <2>3. Delivered(commands[n], i) \in Seq(Entry)
      BY <2>2, DeliveredType
    <2>4. commands' \in Queues
      BY <2>1, <2>3 DEF TypeOK, Queues
    <2>5. orphans' \in [Node -> Nat]
      BY <1>10 DEF OrphanTake, TypeOK
    <2>6. SaveRuntime /\ approved' \subseteq Node
      BY <1>10 DEF OrphanTake, TypeOK
    <2>7. QED
      BY <1>10, <2>4, <2>5, <2>6, SaveType DEF OrphanTake, TypeOK
  <1>11. ASSUME NEW n \in Node, OrphanExpire(n) PROVE TypeOK'
    BY <1>11 DEF OrphanExpire, TypeOK
  <1>12. ASSUME NEW n \in Node, Report(n) PROVE TypeOK'
    BY <1>12 DEF Report, TypeOK, Phase
  <1>13. ASSUME NEW n \in Node, EndReport(n) PROVE TypeOK'
    BY <1>13 DEF EndReport, TypeOK, Phase
  <1>14. ASSUME NEW n \in Node, AbandonCommand(n) PROVE TypeOK'
    BY <1>14 DEF AbandonCommand, TypeOK, Phase, Fault
  <1>15. ASSUME NEW n \in Node, NEW c \in 1 .. Len(target), Complete(n, c)
         PROVE  TypeOK'
    <2>1. CASE n \in approved
      <3>1. MarkCompleted(commands[n], c) \in Seq(Entry)
        BY MarkCompletedType DEF TypeOK, Queues
      <3>2. commands' \in Queues
        BY <1>15, <2>1, <3>1 DEF Complete, TypeOK, Queues
      <3>3. SaveRuntime /\ approved' \subseteq Node
        BY <1>15, <2>1 DEF Complete, TypeOK
      <3>4. QED
        BY <1>15, <3>2, <3>3, SaveType DEF Complete, TypeOK
    <2>2. CASE n \notin approved
      BY <1>15, <2>2 DEF Complete, TypeOK
    <2>3. QED
      BY <2>1, <2>2
  <1>16. ASSUME OtherSave PROVE TypeOK'
    <2>1. SaveRuntime /\ commands' \in Queues /\ approved' \subseteq Node
      BY <1>16 DEF OtherSave, SaveRuntime, TypeOK
    <2>2. QED
      BY <1>16, <2>1, SaveType DEF OtherSave, TypeOK
  <1>17. ASSUME DaemonCrash PROVE TypeOK'
    <2>1. approved' \subseteq Node /\ commands' \in Queues
      BY <1>17 DEF DaemonCrash, TypeOK
    <2>2. phase' \in [Node -> Phase] /\ orphans' \in [Node -> Nat]
      BY <1>17 DEF DaemonCrash, TypeOK, Phase
    <2>3. /\ reports' \subseteq Node \X Nat
          /\ up' \in BOOLEAN
          /\ faults' \in Nat
      <3>1. reports' \subseteq Node \X Nat
        BY <1>17 DEF DaemonCrash
      <3>2. up' \in BOOLEAN
        BY <1>17 DEF DaemonCrash
      <3>3. faults' \in Nat
        BY <1>17 DEF DaemonCrash, Fault, TypeOK
      <3>4. QED
        BY <3>1, <3>2, <3>3
    <2>4. UNCHANGED <<disk, target, cmd, handled>>
      BY <1>17 DEF DaemonCrash
    <2>5. QED
      BY <2>1, <2>2, <2>3, <2>4 DEF TypeOK
  <1>18. ASSUME DaemonStart PROVE TypeOK'
    BY <1>18 DEF DaemonStart, TypeOK
  <1>19. ASSUME UNCHANGED vars PROVE TypeOK'
    BY <1>19 DEF vars, TypeOK
  <1>20. QED
    BY <1>1, <1>2, <1>3, <1>4, <1>5, <1>6, <1>7, <1>8, <1>9, <1>10, <1>11,
       <1>12, <1>13, <1>14, <1>15, <1>16, <1>17, <1>18, <1>19
       DEF Next, NodeStep

\* The variables keep their types (Store, Agent).
THEOREM TypeCorrect == Spec => []TypeOK
  <1>1. QED
    BY InitType, NextType, PTL DEF Spec
-----------------------------------------------------------------------------
(***************************************************************************)
(* The inductive invariant.                                                *)
(***************************************************************************)

\* Every agent is in order, its queues and what it holds are sound initially.
LEMMA InitInv == Init => IndInv
  <1> SUFFICES ASSUME Init PROVE IndInv
    OBVIOUS
  <1>1. \A n \in Node : commands[n] = <<>> /\ disk.commands[n] = <<>>
    BY DEF Init
  <1>2. QueuesSound
    BY <1>1, EmptySound DEF QueuesSound
  <1>3. InOrder /\ AgentSound /\ ReportsSound
    BY DEF Init, InOrder, AgentSound, ReportsSound
  <1>4. QED
    BY <1>2, <1>3, InitType DEF IndInv

\* The commands known to an agent are commands that were issued.
LEMMA InHandIssued ==
  ASSUME IndInv, NEW n \in Node
  PROVE  /\ cmd[n] \in 0 .. Len(target)
         /\ \A k \in DOMAIN handled[n] : handled[n][k] \in 1 .. Len(target)
  <1>1. DOMAIN target = 1 .. Len(target) /\ Len(target) \in Nat
    BY DEF IndInv, TypeOK
  <1>2. QED
    BY <1>1 DEF IndInv, AgentSound

\* A step that issues, delivers and starts nothing: it may leave a poll or a
\* command in hand, take entries, complete commands or lose reports.
LEMMA CalmStep ==
  ASSUME IndInv, TypeOK',
         UNCHANGED <<target, handled>>,
         \A m \in Node :
            \/ cmd'[m] = cmd[m] /\ phase'[m] = phase[m]
            \/ cmd'[m] = 0 /\ phase'[m] \in {"idle", "polling", "waiting", "answered"},
         \A m \in Node :
            SoundQueue(commands'[m], m, target, cmd[m], handled[m]),
         disk'.commands = disk.commands \/ disk'.commands = commands',
         reports' \subseteq reports
  PROVE  IndInv'
  <1>1. QueuesSound'
    <2> SUFFICES ASSUME NEW m \in Node
                 PROVE  /\ SoundQueue(commands'[m], m, target, cmd'[m], handled[m])
                        /\ SoundQueue(disk'.commands[m], m, target, cmd'[m], handled[m])
      BY DEF QueuesSound
    <2>1. commands'[m] \in Seq(Entry) /\ disk'.commands[m] \in Seq(Entry)
      BY DEF TypeOK, Queues
    <2>2. SoundQueue(disk'.commands[m], m, target, cmd[m], handled[m])
      BY DEF IndInv, QueuesSound
    <2>3. cmd'[m] = cmd[m] \/ cmd'[m] = 0
      OBVIOUS
    <2>4. QED
      BY <2>1, <2>2, <2>3, ReleaseSound
  <1>2. AgentSound'
    BY DEF IndInv, AgentSound
  <1>3. InOrder' /\ ReportsSound'
    BY DEF IndInv, InOrder, ReportsSound
  <1>4. QED
    BY <1>1, <1>2, <1>3 DEF IndInv

\* NextCommand by a handler, live or orphaned, keeps the queues in memory sound.
LEMMA TakeSound ==
  ASSUME IndInv, NEW n \in Node, NEW i \in FirstPending(commands[n]),
         commands' = [commands EXCEPT ![n] = Delivered(@, i)]
  PROVE  \A m \in Node : SoundQueue(commands'[m], m, target, cmd[m], handled[m])
  <1> SUFFICES ASSUME NEW m \in Node
               PROVE  SoundQueue(commands'[m], m, target, cmd[m], handled[m])
    OBVIOUS
  <1>1. SoundQueue(commands[m], m, target, cmd[m], handled[m])
    BY DEF IndInv, QueuesSound
  <1>2. commands[m] \in Seq(Entry) /\ cmd[m] \in Nat
    BY DEF IndInv, TypeOK, Queues
  <1>3. CASE m = n
    <2>1. commands'[n] = Delivered(commands[n], i)
      BY DEF IndInv, TypeOK, Queues
    <2>2. /\ SoundQueue(commands[n], n, target, cmd[n], handled[n])
          /\ commands[n] \in Seq(Entry) /\ cmd[n] \in Nat
      BY <1>1, <1>2, <1>3
    <2>3. SoundQueue(Delivered(commands[n], i), n, target, cmd[n], handled[n])
      BY <2>2, DeliveredSound, Zenon
    <2>4. QED
      BY <1>3, <2>1, <2>3
  <1>4. CASE m # n
    BY <1>1, <1>4 DEF IndInv, TypeOK, Queues
  <1>5. QED
    BY <1>3, <1>4

\* A save writes the queues of memory or nothing.
LEMMA SaveDisk ==
  ASSUME TypeOK, SaveRuntime \/ SaveBoth
  PROVE  disk'.commands = disk.commands \/ disk'.commands = commands'
  <1>1. disk \in [approved : SUBSET Node, commands : Queues]
    BY DEF TypeOK
  <1>2. QED
    BY <1>1 DEF SaveRuntime, SaveBoth, Saved, NotSaved

\* Every step keeps the invariant.
LEMMA NextInv == IndInv /\ [Next]_vars => IndInv'
  <1> SUFFICES ASSUME IndInv, [Next]_vars PROVE IndInv'
    OBVIOUS
  <1> USE DEF daemonVars, agentVars
  <1>a. TypeOK /\ TypeOK'
    BY NextType DEF IndInv
  <1>b. \A m \in Node :
           /\ SoundQueue(commands[m], m, target, cmd[m], handled[m])
           /\ SoundQueue(disk.commands[m], m, target, cmd[m], handled[m])
           /\ commands[m] \in Seq(Entry) /\ disk.commands[m] \in Seq(Entry)
    BY DEF IndInv, QueuesSound, TypeOK, Queues
  <1>1. ASSUME NEW n \in Node, QueueCommand(n) PROVE IndInv'
    <2>1. target \in Seq(Node) /\ target' = Append(target, n)
      BY <1>1, <1>a DEF QueueCommand, TypeOK
    <2>2. \A m \in Node :
            SoundQueue(commands'[m], m, target', cmd[m], handled[m])
      <3> SUFFICES ASSUME NEW m \in Node
                   PROVE  SoundQueue(commands'[m], m, target', cmd[m], handled[m])
        OBVIOUS
      <3>1. CASE m = n
        <4>1. commands'[n] = Enqueue(commands[n], Len(target) + 1)
          BY <1>1, <1>a DEF QueueCommand, TypeOK, Queues
        <4>2. QED
          BY <1>b, <2>1, <3>1, <4>1, EnqueueSound, InHandIssued
      <3>2. CASE m # n
        <4>1. commands'[m] = commands[m]
          BY <1>1, <1>a, <3>2 DEF QueueCommand, TypeOK, Queues
        <4>2. QED
          BY <1>b, <2>1, <4>1, IssueSound
      <3>3. QED
        BY <3>1, <3>2
    <2>3. \A m \in Node :
            SoundQueue(disk.commands[m], m, target', cmd[m], handled[m])
      BY <1>b, <2>1, IssueSound
    <2>4. disk'.commands = disk.commands \/ disk'.commands = commands'
      BY <1>1, <1>a, SaveDisk DEF QueueCommand
    <2>5. UNCHANGED <<phase, cmd, handled, reports>>
      BY <1>1 DEF QueueCommand
    <2>6. QueuesSound'
      BY <2>2, <2>3, <2>4, <2>5 DEF QueuesSound
    <2>7. \A c \in DOMAIN target : c \in DOMAIN target' /\ target'[c] = target[c]
      BY <2>1
    <2>8. AgentSound'
      BY <2>5, <2>7 DEF IndInv, AgentSound
    <2>9. InOrder' /\ ReportsSound'
      BY <2>5 DEF IndInv, InOrder, ReportsSound
    <2>10. QED
      BY <1>a, <2>6, <2>8, <2>9 DEF IndInv
  <1>2. ASSUME NEW n \in Node, DeleteNode(n) PROVE IndInv'
    <2>1. \A m \in Node : SoundQueue(commands'[m], m, target, cmd[m], handled[m])
      BY <1>2, <1>a, <1>b, EmptySound DEF DeleteNode, TypeOK, Queues
    <2>2. disk'.commands = disk.commands \/ disk'.commands = commands'
      BY <1>2, <1>a DEF DeleteNode, TypeOK
    <2>3. QED
      BY <1>2, <1>a, <2>1, <2>2, CalmStep DEF DeleteNode
  <1>3. ASSUME NEW n \in Node, Enroll(n) PROVE IndInv'
    BY <1>3, <1>a, <1>b, SaveDisk, CalmStep DEF Enroll
  <1>4. ASSUME NEW n \in Node, StartPoll(n) PROVE IndInv'
    <2>1. \A m \in Node :
            \/ cmd'[m] = cmd[m] /\ phase'[m] = phase[m]
            \/ cmd'[m] = 0 /\ phase'[m] \in {"idle", "polling", "waiting", "answered"}
      BY <1>4, <1>a DEF StartPoll, IndInv, AgentSound, TypeOK
    <2>2. disk'.commands = disk.commands \/ disk'.commands = commands'
      BY <1>4, <1>a, SaveDisk DEF StartPoll
    <2>3. QED
      BY <1>4, <1>a, <1>b, <2>1, <2>2, CalmStep DEF StartPoll
  <1>5. ASSUME NEW n \in Node, Deliver(n) PROVE IndInv'
    <2>1. PICK i \in FirstPending(commands[n]) :
            /\ commands' = [commands EXCEPT ![n] = Delivered(@, i)]
            /\ \/ Saved /\ cmd' = [cmd EXCEPT ![n] = commands[n][i].id]
               \/ NotSaved /\ UNCHANGED cmd
      BY <1>5 DEF Deliver
    <2>2. \A m \in Node : SoundQueue(commands'[m], m, target, cmd[m], handled[m])
      BY <2>1, TakeSound
    <2>3. cmd[n] = 0 /\ phase' = [phase EXCEPT ![n] = "answered"]
      BY <1>5 DEF Deliver, IndInv, AgentSound
    <2>4. UNCHANGED <<target, handled, reports>>
      BY <1>5 DEF Deliver
    <2>5. CASE NotSaved /\ UNCHANGED cmd
      <3>1. \A m \in Node :
              \/ cmd'[m] = cmd[m] /\ phase'[m] = phase[m]
              \/ cmd'[m] = 0 /\ phase'[m] \in {"idle", "polling", "waiting", "answered"}
        BY <1>a, <2>3, <2>5 DEF TypeOK
      <3>2. disk'.commands = disk.commands
        BY <2>5 DEF NotSaved
      <3>3. QED
        BY <1>a, <2>2, <2>4, <3>1, <3>2, CalmStep
    <2>6. CASE Saved /\ cmd' = [cmd EXCEPT ![n] = commands[n][i].id]
      <3> DEFINE c == commands[n][i].id
      <3>1. /\ SoundQueue(commands'[n], n, target, c, handled[n])
            /\ c \in DOMAIN target /\ target[c] = n
            /\ \A k \in DOMAIN handled[n] : handled[n][k] < c
        <4>1. commands'[n] = Delivered(commands[n], i) /\ cmd[n] \in Nat
          BY <1>a, <2>1 DEF TypeOK, Queues
        <4>2. /\ SoundQueue(commands[n], n, target, cmd[n], handled[n])
              /\ commands[n] \in Seq(Entry)
          BY <1>b
        <4>3. /\ SoundQueue(Delivered(commands[n], i), n, target, c, handled[n])
              /\ c \in DOMAIN target /\ target[c] = n
              /\ \A k \in DOMAIN handled[n] : handled[n][k] < c
          <5>1. i \in FirstPending(commands[n]) /\ cmd[n] \in Nat
            BY <2>1, <4>1
          <5> DEFINE q == commands[n]
                     h == handled[n]
                     d == cmd[n]
          <5>2. q \in Seq(Entry) /\ i \in FirstPending(q) /\ SoundQueue(q, n, target, d, h) /\ d \in Nat
            BY <4>2, <5>1
          <5>3. c = q[i].id
            OBVIOUS
          <5> HIDE DEF q, h, c, d
          <5>4. /\ SoundQueue(Delivered(q, i), n, target, q[i].id, h)
                /\ q[i].id \in DOMAIN target /\ target[q[i].id] = n
                /\ \A k \in DOMAIN h : h[k] < q[i].id
            BY <5>2, DeliveredSound, ZenonT(30)
          <5>5. QED
            BY <5>3, <5>4, Zenon DEF q, h
        <4>4. QED
          BY <4>1, <4>3
      <3>2. disk'.commands = commands'
        BY <1>a, <2>6 DEF Saved, TypeOK
      <3>3. cmd'[n] = c /\ \A m \in Node \ {n} : cmd'[m] = cmd[m]
        BY <1>a, <2>6 DEF TypeOK
      <3>4. QueuesSound'
        <4> SUFFICES ASSUME NEW m \in Node
                     PROVE  SoundQueue(commands'[m], m, target, cmd'[m], handled[m])
          BY <2>4, <3>2 DEF QueuesSound
        <4>1. QED
          BY <2>2, <3>1, <3>3
      <3>5. AgentSound'
        <4>1. phase'[n] = "answered" /\ \A m \in Node \ {n} : phase'[m] = phase[m]
          BY <1>a, <2>3 DEF TypeOK
        <4>2. QED
          BY <2>4, <3>1, <3>3, <4>1 DEF IndInv, AgentSound
      <3>6. InOrder' /\ ReportsSound'
        BY <2>4 DEF IndInv, InOrder, ReportsSound
      <3>7. QED
        BY <1>a, <3>4, <3>5, <3>6 DEF IndInv
    <2>7. QED
      BY <2>1, <2>5, <2>6
  <1>6. ASSUME NEW n \in Node, FindNothing(n) PROVE IndInv'
    <2>1. \A m \in Node :
            \/ cmd'[m] = cmd[m] /\ phase'[m] = phase[m]
            \/ cmd'[m] = 0 /\ phase'[m] \in {"idle", "polling", "waiting", "answered"}
      BY <1>6, <1>a DEF FindNothing, IndInv, AgentSound, TypeOK
    <2>2. QED
      BY <1>6, <1>a, <1>b, <2>1, CalmStep DEF FindNothing
  <1>7. ASSUME NEW n \in Node, PollTimeout(n) PROVE IndInv'
    <2>1. \A m \in Node :
            \/ cmd'[m] = cmd[m] /\ phase'[m] = phase[m]
            \/ cmd'[m] = 0 /\ phase'[m] \in {"idle", "polling", "waiting", "answered"}
      BY <1>7, <1>a DEF PollTimeout, IndInv, AgentSound, TypeOK
    <2>2. QED
      BY <1>7, <1>a, <1>b, <2>1, CalmStep DEF PollTimeout
  <1>8. ASSUME NEW n \in Node, Receive(n) PROVE IndInv'
    <2>1. UNCHANGED <<commands, disk, target, cmd, reports>> /\ phase[n] = "answered"
      BY <1>8 DEF Receive
    <2>2. CASE cmd[n] = 0
      <3>1. UNCHANGED handled /\ phase' = [phase EXCEPT ![n] = "idle"]
        BY <1>8, <2>2 DEF Receive
      <3>2. \A m \in Node :
              \/ cmd'[m] = cmd[m] /\ phase'[m] = phase[m]
              \/ cmd'[m] = 0 /\ phase'[m] \in {"idle", "polling", "waiting", "answered"}
        BY <1>a, <2>1, <2>2, <3>1 DEF TypeOK
      <3>3. QED
        BY <1>a, <1>b, <2>1, <3>1, <3>2, CalmStep
    <2>3. CASE cmd[n] # 0
      <3> DEFINE h == handled[n]
                 g == Append(h, cmd[n])
      <3>1. /\ phase'[n] = "handling" /\ handled'[n] = g
            /\ \A m \in Node \ {n} : phase'[m] = phase[m] /\ handled'[m] = handled[m]
        BY <1>8, <1>a, <2>3 DEF Receive, TypeOK
      <3>2. /\ cmd[n] \in Nat \ {0} /\ h \in Seq(Nat \ {0})
            /\ cmd[n] \in DOMAIN target /\ target[cmd[n]] = n
            /\ \A k \in DOMAIN h : h[k] < cmd[n]
        BY <1>a, <2>1, <2>3 DEF TypeOK, IndInv, AgentSound
      <3>3. /\ DOMAIN g = 1 .. (Len(h) + 1) /\ DOMAIN h = 1 .. Len(h)
            /\ Len(h) \in Nat
            /\ g[Len(h) + 1] = cmd[n] /\ \A k \in 1 .. Len(h) : g[k] = h[k]
        BY <3>2
      <3>4. QueuesSound'
        <4> SUFFICES ASSUME NEW m \in Node
                     PROVE  /\ SoundQueue(commands[m], m, target, cmd[m], handled'[m])
                            /\ SoundQueue(disk.commands[m], m, target, cmd[m], handled'[m])
          BY <2>1 DEF QueuesSound
        <4>1. CASE m = n
          <5>1. /\ SoundQueue(commands[n], n, target, cmd[n], h)
                /\ SoundQueue(disk.commands[n], n, target, cmd[n], h)
                /\ commands[n] \in Seq(Entry) /\ disk.commands[n] \in Seq(Entry)
            BY <1>b
          <5>2. /\ SoundQueue(commands[n], n, target, cmd[n], g)
                /\ SoundQueue(disk.commands[n], n, target, cmd[n], g)
            BY <3>2, <5>1, StartSound, Zenon
          <5>3. QED
            BY <3>1, <4>1, <5>2
        <4>2. CASE m # n
          BY <1>b, <3>1, <4>2
        <4>3. QED
          BY <4>1, <4>2
      <3>5. \A m \in Node : Elements(handled[m]) \subseteq Elements(handled'[m])
        BY <3>1, <3>3 DEF Elements
      <3>6. cmd[n] \in Elements(handled'[n])
        BY <3>1, <3>3 DEF Elements
      <3>7. AgentSound'
        <4>1. \A k \in DOMAIN handled'[n] :
                handled'[n][k] \in DOMAIN target /\ target[handled'[n][k]] = n
          BY <3>1, <3>2, <3>3 DEF IndInv, AgentSound
        <4>2. /\ cmd'[n] = cmd[n] /\ target' = target
              /\ phase'[n] = "handling"
          BY <2>1, <3>1
        <4>3. ASSUME NEW m \in Node, m # n
              PROVE  /\ phase'[m] = phase[m] /\ handled'[m] = handled[m]
                     /\ cmd'[m] = cmd[m]
          BY <2>1, <3>1, <4>3
        <4>4. QED
          BY <3>2, <3>6, <4>1, <4>2, <4>3 DEF IndInv, AgentSound
      <3>8. InOrder'
        <4>1. \A i, j \in DOMAIN g : i < j => g[i] < g[j]
          <5> SUFFICES ASSUME NEW i \in DOMAIN g, NEW j \in DOMAIN g, i < j
                       PROVE  g[i] < g[j]
            OBVIOUS
          <5>1. i \in 1 .. Len(h)
            BY <3>3
          <5>2. CASE j \in 1 .. Len(h)
            BY <3>3, <5>1, <5>2 DEF IndInv, InOrder
          <5>3. CASE j = Len(h) + 1
            BY <3>2, <3>3, <5>1, <5>3
          <5>4. QED
            BY <3>3, <5>2, <5>3
        <4>2. QED
          BY <3>1, <4>1 DEF IndInv, InOrder
      <3>9. ReportsSound'
        <4>1. \A r \in reports : r[1] \in Node
          BY <1>a DEF TypeOK
        <4>2. QED
          BY <2>1, <3>5, <4>1 DEF IndInv, ReportsSound
      <3>10. QED
        BY <1>a, <3>4, <3>7, <3>8, <3>9 DEF IndInv
    <2>4. QED
      BY <2>2, <2>3
  <1>9. ASSUME NEW n \in Node, Drop(n) PROVE IndInv'
    <2>1. \A m \in Node :
            \/ cmd'[m] = cmd[m] /\ phase'[m] = phase[m]
            \/ cmd'[m] = 0 /\ phase'[m] \in {"idle", "polling", "waiting", "answered"}
      BY <1>9, <1>a DEF Drop, TypeOK
    <2>2. QED
      BY <1>9, <1>a, <1>b, <2>1, CalmStep DEF Drop
  <1>10. ASSUME NEW n \in Node, OrphanTake(n) PROVE IndInv'
    <2>1. \A m \in Node : SoundQueue(commands'[m], m, target, cmd[m], handled[m])
      BY <1>10, TakeSound DEF OrphanTake
    <2>2. disk'.commands = disk.commands \/ disk'.commands = commands'
      BY <1>10, <1>a, SaveDisk DEF OrphanTake
    <2>3. QED
      BY <1>10, <1>a, <2>1, <2>2, CalmStep DEF OrphanTake
  <1>11. ASSUME NEW n \in Node, OrphanExpire(n) PROVE IndInv'
    BY <1>11, <1>a, <1>b, CalmStep DEF OrphanExpire
  <1>12. ASSUME NEW n \in Node, Report(n) PROVE IndInv'
    <2>1. /\ UNCHANGED <<commands, disk, target, cmd, handled>>
          /\ phase[n] = "handling" /\ phase' = [phase EXCEPT ![n] = "reporting"]
          /\ reports' \subseteq reports \union {<<n, cmd[n]>>}
      BY <1>12 DEF Report
    <2>2. QueuesSound' /\ InOrder'
      BY <2>1 DEF IndInv, QueuesSound, InOrder
    <2>3. AgentSound'
      BY <1>a, <2>1 DEF IndInv, AgentSound, TypeOK
    <2>4. cmd[n] \in Elements(handled[n])
      BY <2>1 DEF IndInv, AgentSound
    <2>5. ReportsSound'
      BY <2>1, <2>4 DEF IndInv, ReportsSound
    <2>6. QED
      BY <1>a, <2>2, <2>3, <2>5 DEF IndInv
  <1>13. ASSUME NEW n \in Node, EndReport(n) PROVE IndInv'
    <2>1. \A m \in Node :
            \/ cmd'[m] = cmd[m] /\ phase'[m] = phase[m]
            \/ cmd'[m] = 0 /\ phase'[m] \in {"idle", "polling", "waiting", "answered"}
      BY <1>13, <1>a DEF EndReport, TypeOK
    <2>2. QED
      BY <1>13, <1>a, <1>b, <2>1, CalmStep DEF EndReport
  <1>14. ASSUME NEW n \in Node, AbandonCommand(n) PROVE IndInv'
    <2>1. \A m \in Node :
            \/ cmd'[m] = cmd[m] /\ phase'[m] = phase[m]
            \/ cmd'[m] = 0 /\ phase'[m] \in {"idle", "polling", "waiting", "answered"}
      BY <1>14, <1>a DEF AbandonCommand, TypeOK
    <2>2. QED
      BY <1>14, <1>a, <1>b, <2>1, CalmStep DEF AbandonCommand
  <1>15. ASSUME NEW n \in Node, NEW c \in 1 .. Len(target), Complete(n, c)
         PROVE  IndInv'
    <2>1. c \in Elements(handled[n])
      BY <1>15 DEF Complete, IndInv, ReportsSound
    <2>2. \A m \in Node : SoundQueue(commands'[m], m, target, cmd[m], handled[m])
      <3> SUFFICES ASSUME NEW m \in Node
                   PROVE  SoundQueue(commands'[m], m, target, cmd[m], handled[m])
        OBVIOUS
      <3>1. CASE commands'[m] = commands[m]
        BY <1>b, <3>1
      <3>2. CASE m = n /\ commands'[n] = MarkCompleted(commands[n], c)
        BY <1>b, <2>1, <3>2, MarkCompletedSound
      <3>3. QED
        BY <1>15, <1>a, <3>1, <3>2 DEF Complete, TypeOK, Queues
    <2>3. disk'.commands = disk.commands \/ disk'.commands = commands'
      BY <1>15, <1>a, SaveDisk DEF Complete
    <2>4. QED
      BY <1>15, <1>a, <2>2, <2>3, CalmStep DEF Complete
  <1>16. ASSUME OtherSave PROVE IndInv'
    <2>1. disk'.commands = disk.commands \/ disk'.commands = commands'
      BY <1>16, <1>a, SaveDisk DEF OtherSave, SaveRuntime
    <2>2. QED
      BY <1>16, <1>a, <1>b, <2>1, CalmStep DEF OtherSave
  <1>17. ASSUME DaemonCrash PROVE IndInv'
    <2>1. \A m \in Node :
            \/ cmd'[m] = cmd[m] /\ phase'[m] = phase[m]
            \/ cmd'[m] = 0 /\ phase'[m] \in {"idle", "polling", "waiting", "answered"}
      BY <1>17, <1>a DEF DaemonCrash, IndInv, AgentSound, TypeOK
    <2>2. QED
      BY <1>17, <1>a, <1>b, <2>1, CalmStep DEF DaemonCrash
  <1>18. ASSUME DaemonStart PROVE IndInv'
    BY <1>18, <1>a, <1>b, CalmStep DEF DaemonStart
  <1>19. ASSUME UNCHANGED vars PROVE IndInv'
    BY <1>19, <1>a, <1>b, CalmStep DEF vars
  <1>20. QED
    BY <1>1, <1>2, <1>3, <1>4, <1>5, <1>6, <1>7, <1>8, <1>9, <1>10, <1>11,
       <1>12, <1>13, <1>14, <1>15, <1>16, <1>17, <1>18, <1>19
       DEF Next, NodeStep

\* The invariant holds in every reachable state.
THEOREM Inductive == Spec => []IndInv
  <1>1. QED
    BY InitInv, NextInv, PTL DEF Spec

\* Agents execute their commands in queueing order, none twice (NextCommand,
\* agentPoll, Agent.Run).
THEOREM OrderedAtMostOnce == Spec => []InOrder
  <1>1. IndInv => InOrder
    BY DEF IndInv
  <1>2. QED
    BY <1>1, Inductive, PTL

\* A command started or in a response is pending neither in memory nor on disk
\* (NextCommand saves before it returns).
THEOREM Durable == Spec => []HandledIsDurable
  <1>1. IndInv => HandledIsDurable
    <2> SUFFICES ASSUME IndInv, NEW n \in Node,
                        NEW c \in Elements(handled[n]) \union {cmd[n]}
                 PROVE  c \notin PendingIds(commands[n]) \union PendingIds(disk.commands[n])
      BY DEF HandledIsDurable
    <2>1. ASSUME NEW q \in Seq(Entry),
                 SoundQueue(q, n, target, cmd[n], handled[n]),
                 NEW i \in PendingAt(q)
          PROVE  q[i].id # c
      <3>1. q[i] \in Entry
        BY DEF PendingAt
      <3>2. /\ q[i].id \in Nat /\ cmd[n] \in Nat
            /\ \A k \in DOMAIN handled[n] : handled[n][k] \in Nat
        BY <3>1 DEF Entry, IndInv, TypeOK
      <3>3. cmd[n] < q[i].id /\ \A k \in DOMAIN handled[n] : handled[n][k] < q[i].id
        BY <2>1 DEF SoundQueue
      <3>4. QED
        BY <3>2, <3>3 DEF Elements
    <2>2. /\ commands[n] \in Seq(Entry) /\ disk.commands[n] \in Seq(Entry)
          /\ SoundQueue(commands[n], n, target, cmd[n], handled[n])
          /\ SoundQueue(disk.commands[n], n, target, cmd[n], handled[n])
      BY DEF IndInv, QueuesSound, TypeOK, Queues
    <2>3. QED
      BY <2>1, <2>2 DEF PendingIds
  <1>2. QED
    BY <1>1, Inductive, PTL

\* The store calls a command completed only if its own node executed it
\* (CompleteCommand).
THEOREM Completed == Spec => []CompletedWasHandled
  <1>1. IndInv => CompletedWasHandled
    <2> SUFFICES ASSUME IndInv, NEW n \in Node, NEW c \in CompletedIds(commands[n])
                 PROVE  target[c] = n /\ c \in Elements(handled[n])
      BY DEF CompletedWasHandled
    <2>1. SoundQueue(commands[n], n, target, cmd[n], handled[n])
      BY DEF IndInv, QueuesSound
    <2>2. QED
      BY <2>1 DEF SoundQueue, CompletedIds
  <1>2. QED
    BY <1>1, Inductive, PTL

-----------------------------------------------------------------------------
(***************************************************************************)
(* Refinement: QueueCommand issues, Receive executes, all else stutters.   *)
(***************************************************************************)

\* The command channel implements its abstract specification (QueueCommand,
\* NextCommand, Agent.Run).
THEOREM Refinement == Spec => ImplementsDelivery
  <1>1. Init => Delivery!CDInit
    BY DEF Init, Delivery!CDInit
  <1>2. IndInv /\ [Next]_vars => [Delivery!CDNext]_(Delivery!dvars)
    <2> SUFFICES ASSUME IndInv, [Next]_vars
                 PROVE  Delivery!CDNext \/ UNCHANGED <<target, handled>>
      BY DEF Delivery!dvars
    <2> USE DEF agentVars
    <2>1. ASSUME NEW n \in Node, QueueCommand(n) PROVE Delivery!CDNext
      BY <2>1 DEF QueueCommand, Delivery!CDNext, Delivery!Issue
    <2>2. ASSUME NEW n \in Node, Receive(n)
          PROVE  Delivery!CDNext \/ UNCHANGED <<target, handled>>
      <3>1. CASE cmd[n] = 0
        BY <2>2, <3>1 DEF Receive
      <3>2. CASE cmd[n] # 0
        <4>1. /\ cmd[n] \in DOMAIN target /\ target[cmd[n]] = n
              /\ \A i \in DOMAIN handled[n] : handled[n][i] < cmd[n]
              /\ handled' = [handled EXCEPT ![n] = Append(@, cmd[n])]
              /\ UNCHANGED target
          BY <2>2, <3>2 DEF Receive, IndInv, AgentSound
        <4>2. Delivery!Execute(n)
          BY <4>1 DEF Delivery!Execute
        <4>3. QED
          BY <4>2 DEF Delivery!CDNext
      <3>3. QED
        BY <3>1, <3>2
    <2>3. ASSUME NEW n \in Node,
                 \/ DeleteNode(n) \/ Enroll(n) \/ StartPoll(n) \/ Deliver(n)
                 \/ FindNothing(n) \/ PollTimeout(n) \/ Drop(n)
                 \/ OrphanTake(n) \/ OrphanExpire(n) \/ Report(n)
                 \/ EndReport(n) \/ AbandonCommand(n)
                 \/ \E c \in 1 .. Len(target) : Complete(n, c)
          PROVE  UNCHANGED <<target, handled>>
      BY <2>3 DEF DeleteNode, Enroll, StartPoll, Deliver, FindNothing,
         PollTimeout, Drop, OrphanTake, OrphanExpire, Report, EndReport,
         AbandonCommand, Complete
    <2>4. CASE OtherSave \/ DaemonCrash \/ DaemonStart \/ UNCHANGED vars
      BY <2>4 DEF OtherSave, DaemonCrash, DaemonStart, vars
    <2>5. QED
      BY <2>1, <2>2, <2>3, <2>4 DEF Next, NodeStep
  <1>3. QED
    BY <1>1, <1>2, Inductive, PTL DEF Spec, ImplementsDelivery, Delivery!CDSpec
=============================================================================
