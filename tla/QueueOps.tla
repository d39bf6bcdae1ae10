------------------------------ MODULE QueueOps ------------------------------
(***************************************************************************)
(* The per-node command queue of the store (RuntimeData.Commands[nodeID]): *)
(* a sequence of entries in the order QueueCommand appended them.  An      *)
(* entry keeps the identity of its command and its status; results and     *)
(* timestamps are left out.  Identities are numbers in issue order: they   *)
(* stand for the fresh random ids of protocol.NewID.                       *)
(***************************************************************************)
EXTENDS Integers, Sequences

Status == {"pending", "delivered", "completed"}
Entry  == [id : Nat \ {0}, status : Status]

PendingAt(q)  == {i \in DOMAIN q : q[i].status = "pending"}
HasPending(q) == PendingAt(q) # {}

\* Mutant of FirstPending: the newest pending entry.
LastPending(q) == {i \in PendingAt(q) : \A j \in PendingAt(q) : j <= i}

\* The scan of NextCommand stops at the first pending entry: a set with one
\* index, or none.
FirstPending(q) == {i \in PendingAt(q) : \A j \in PendingAt(q) : i <= j}

\* Mutant of Delivered: the status is set in a copy of the entry.
DeliveredCopy(q, i) == q

Delivered(q, i) == [q EXCEPT ![i].status = "delivered"]

Enqueue(q, c) == Append(q, [id |-> c, status |-> "pending"])

\* Mutant of MarkCompleted: the earlier entries are closed as well.
MarkCompletedUpTo(q, c) ==
  [i \in DOMAIN q |-> IF q[i].id <= c THEN [q[i] EXCEPT !.status = "completed"]
                                      ELSE q[i]]

\* CompleteCommand does not look at the old status of the entry.
MarkCompleted(q, c) ==
  [i \in DOMAIN q |-> IF q[i].id = c THEN [q[i] EXCEPT !.status = "completed"]
                                     ELSE q[i]]

PendingIds(q)   == {q[i].id : i \in PendingAt(q)}
CompletedIds(q) == {q[i].id : i \in {j \in DOMAIN q : q[j].status = "completed"}}
Elements(s)     == {s[i] : i \in DOMAIN s}

(***************************************************************************)
(* What a queue q of node n satisfies, relative to the nodes t[c] the      *)
(* commands c were issued to, the command c0 the agent has in hand (0 for  *)
(* none) and the sequence h of those it has started.                       *)
(***************************************************************************)
SoundQueue(q, n, t, c0, h) ==
  /\ \A i, j \in DOMAIN q : i < j => q[i].id < q[j].id
  /\ \A i \in DOMAIN q : q[i].id \in DOMAIN t /\ t[q[i].id] = n
  /\ \A i \in PendingAt(q) :
       c0 < q[i].id /\ \A k \in DOMAIN h : h[k] < q[i].id
  /\ CompletedIds(q) \subseteq Elements(h)
=============================================================================
