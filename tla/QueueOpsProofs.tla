--------------------------- MODULE QueueOpsProofs ---------------------------
(***************************************************************************)
(* Lemmas about the operations on a node's command queue: each keeps the   *)
(* queue sound, with what it changes of the history.                       *)
(***************************************************************************)
EXTENDS QueueOps, TLAPS

\* NextCommand keeps a queue a queue.
LEMMA DeliveredType ==
  ASSUME NEW q \in Seq(Entry), NEW i \in PendingAt(q)
  PROVE  /\ Delivered(q, i) \in Seq(Entry)
         /\ Len(Delivered(q, i)) = Len(q)
         /\ \A j \in 1 .. Len(q) :
              /\ Delivered(q, i)[j].id = q[j].id
              /\ j # i => Delivered(q, i)[j] = q[j]
         /\ Delivered(q, i)[i].status = "delivered"
  <1>1. DOMAIN q = 1 .. Len(q) /\ Len(q) \in Nat /\ i \in 1 .. Len(q)
    BY DEF PendingAt
  <1>2. \A j \in 1 .. Len(q) : q[j] \in Entry
    OBVIOUS
  <1>3. \A j \in 1 .. Len(q) : Delivered(q, i)[j] =
          IF j = i THEN [q[j] EXCEPT !.status = "delivered"] ELSE q[j]
    BY <1>1 DEF Delivered
  <1>4. \A j \in 1 .. Len(q) : Delivered(q, i)[j] \in Entry
    <2>1. \A e \in Entry : [e EXCEPT !.status = "delivered"] \in Entry
      BY DEF Entry, Status
    <2>2. QED
      BY <1>2, <1>3, <2>1
  <1>5. Delivered(q, i) \in [1 .. Len(q) -> Entry]
    BY <1>1, <1>4 DEF Delivered
  <1>6. Delivered(q, i) \in Seq(Entry) /\ Len(Delivered(q, i)) = Len(q)
    BY <1>1, <1>5
  <1>7. QED
    BY <1>1, <1>2, <1>3, <1>6 DEF Entry

\* QueueCommand keeps a queue a queue.
LEMMA EnqueueType ==
  ASSUME NEW q \in Seq(Entry), NEW c \in Nat \ {0}
  PROVE  /\ Enqueue(q, c) \in Seq(Entry)
         /\ Len(Enqueue(q, c)) = Len(q) + 1
         /\ \A j \in 1 .. Len(q) : Enqueue(q, c)[j] = q[j]
         /\ Enqueue(q, c)[Len(q) + 1] = [id |-> c, status |-> "pending"]
  BY DEF Enqueue, Entry, Status

\* CompleteCommand keeps a queue a queue.
LEMMA MarkCompletedType ==
  ASSUME NEW q \in Seq(Entry), NEW c
  PROVE  /\ MarkCompleted(q, c) \in Seq(Entry)
         /\ Len(MarkCompleted(q, c)) = Len(q)
         /\ \A j \in 1 .. Len(q) :
              /\ MarkCompleted(q, c)[j].id = q[j].id
              /\ q[j].id = c => MarkCompleted(q, c)[j].status = "completed"
              /\ q[j].id # c => MarkCompleted(q, c)[j] = q[j]
  <1>1. DOMAIN q = 1 .. Len(q) /\ Len(q) \in Nat
    OBVIOUS
  <1>2. \A j \in 1 .. Len(q) : q[j] \in Entry
    OBVIOUS
  <1>3. \A j \in 1 .. Len(q) : MarkCompleted(q, c)[j] =
          IF q[j].id = c THEN [q[j] EXCEPT !.status = "completed"] ELSE q[j]
    BY <1>1 DEF MarkCompleted
  <1>4. \A j \in 1 .. Len(q) : MarkCompleted(q, c)[j] \in Entry
    BY <1>2, <1>3 DEF Entry, Status
  <1>5. MarkCompleted(q, c) \in [1 .. Len(q) -> Entry]
    BY <1>1, <1>4 DEF MarkCompleted
  <1>6. MarkCompleted(q, c) \in Seq(Entry) /\ Len(MarkCompleted(q, c)) = Len(q)
    BY <1>1, <1>5
  <1>7. QED
    BY <1>2, <1>3, <1>6 DEF Entry

\* An empty queue is sound.
LEMMA EmptySound ==
  ASSUME NEW n, NEW t, NEW c0, NEW h
  PROVE  SoundQueue(<<>>, n, t, c0, h)
  BY DEF SoundQueue, PendingAt, CompletedIds

\* Issuing a command to any node leaves a queue sound that is not touched.
LEMMA IssueSound ==
  ASSUME NEW Nodes, NEW n, NEW m \in Nodes, NEW t \in Seq(Nodes),
         NEW q \in Seq(Entry), NEW c0, NEW h, SoundQueue(q, n, t, c0, h)
  PROVE  SoundQueue(q, n, Append(t, m), c0, h)
  BY DEF SoundQueue

\* Queueing the command just issued to the node.
LEMMA EnqueueSound ==
  ASSUME NEW Nodes, NEW n \in Nodes, NEW t \in Seq(Nodes),
         NEW q \in Seq(Entry), NEW c0 \in 0 .. Len(t), NEW h,
         \A k \in DOMAIN h : h[k] \in 1 .. Len(t),
         SoundQueue(q, n, t, c0, h)
  PROVE  SoundQueue(Enqueue(q, Len(t) + 1), n, Append(t, n), c0, h)
  <1> DEFINE c == Len(t) + 1
             r == Enqueue(q, c)
             u == Append(t, n)
  <1>1. /\ c \in Nat \ {0} /\ Len(q) \in Nat
        /\ DOMAIN q = 1 .. Len(q) /\ DOMAIN t = 1 .. Len(t) /\ DOMAIN u = 1 .. c
        /\ u[c] = n /\ \A d \in 1 .. Len(t) : u[d] = t[d]
    OBVIOUS
  <1>2. /\ r \in Seq(Entry) /\ Len(r) = Len(q) + 1
        /\ \A j \in 1 .. Len(q) : r[j] = q[j]
        /\ r[Len(q) + 1] = [id |-> c, status |-> "pending"]
    BY <1>1, EnqueueType
  <1>3. DOMAIN r = 1 .. (Len(q) + 1)
    BY <1>2
  <1>4. \A i \in 1 .. Len(q) : q[i].id \in 1 .. Len(t)
    BY <1>1 DEF SoundQueue
  <1>5. \A i, j \in DOMAIN r : i < j => r[i].id < r[j].id
    <2> SUFFICES ASSUME NEW i \in DOMAIN r, NEW j \in DOMAIN r, i < j
                 PROVE  r[i].id < r[j].id
      OBVIOUS
    <2>1. i \in 1 .. Len(q)
      BY <1>1, <1>3
    <2>2. CASE j \in 1 .. Len(q)
      BY <1>1, <1>2, <2>1, <2>2 DEF SoundQueue
    <2>3. CASE j = Len(q) + 1
      BY <1>1, <1>2, <1>4, <2>1, <2>3
    <2>4. QED
      BY <1>1, <1>3, <2>2, <2>3
  <1>6. \A i \in DOMAIN r : r[i].id \in DOMAIN u /\ u[r[i].id] = n
    <2> SUFFICES ASSUME NEW i \in DOMAIN r
                 PROVE  r[i].id \in DOMAIN u /\ u[r[i].id] = n
      OBVIOUS
    <2>1. CASE i \in 1 .. Len(q)
      <3>1. r[i].id \in 1 .. Len(t) /\ t[r[i].id] = n
        BY <1>1, <1>2, <2>1 DEF SoundQueue
      <3>2. QED
        BY <1>1, <3>1
    <2>2. CASE i = Len(q) + 1
      BY <1>1, <1>2, <2>2
    <2>3. QED
      BY <1>1, <1>3, <2>1, <2>2
  <1>7. \A i \in PendingAt(r) :
          c0 < r[i].id /\ \A k \in DOMAIN h : h[k] < r[i].id
    <2> SUFFICES ASSUME NEW i \in PendingAt(r)
                 PROVE  c0 < r[i].id /\ \A k \in DOMAIN h : h[k] < r[i].id
      OBVIOUS
    <2>1. CASE i \in 1 .. Len(q)
      BY <1>1, <1>2, <2>1 DEF SoundQueue, PendingAt
    <2>2. CASE i = Len(q) + 1
      BY <1>1, <1>2, <2>2
    <2>3. QED
      BY <1>1, <1>3, <2>1, <2>2 DEF PendingAt
  <1>8. CompletedIds(r) \subseteq Elements(h)
    <2>1. ASSUME NEW i \in DOMAIN r, r[i].status = "completed"
          PROVE  i \in DOMAIN q /\ r[i] = q[i]
      <3>1. i # Len(q) + 1
        BY <1>2, <2>1
      <3>2. QED
        BY <1>1, <1>2, <1>3, <2>1, <3>1
    <2>2. CompletedIds(r) \subseteq CompletedIds(q)
      BY <2>1 DEF CompletedIds
    <2>3. QED
      BY <2>2 DEF SoundQueue
  <1>9. QED
    BY <1>5, <1>6, <1>7, <1>8 DEF SoundQueue

\* Delivering the first pending command: every entry still pending is newer
\* than the command the agent now gets.
LEMMA DeliveredSound ==
  ASSUME NEW n, NEW t, NEW q \in Seq(Entry), NEW i \in FirstPending(q),
         NEW c0 \in Nat, NEW h, SoundQueue(q, n, t, c0, h)
  PROVE  /\ SoundQueue(Delivered(q, i), n, t, c0, h)
         /\ SoundQueue(Delivered(q, i), n, t, q[i].id, h)
         /\ q[i].id \in DOMAIN t /\ t[q[i].id] = n
         /\ \A k \in DOMAIN h : h[k] < q[i].id
  <1> DEFINE r == Delivered(q, i)
  <1>1. i \in PendingAt(q) /\ i \in 1 .. Len(q)
    BY DEF FirstPending, PendingAt
  <1>2. /\ r \in Seq(Entry) /\ Len(r) = Len(q)
        /\ \A j \in 1 .. Len(q) : r[j].id = q[j].id /\ (j # i => r[j] = q[j])
        /\ r[i].status = "delivered"
    BY <1>1, DeliveredType
  <1>3. DOMAIN r = 1 .. Len(q) /\ DOMAIN q = 1 .. Len(q) /\ Len(q) \in Nat
    BY <1>2
  <1>4. PendingAt(r) \subseteq PendingAt(q) \ {i}
    BY <1>2, <1>3 DEF PendingAt
  <1>5. CompletedIds(r) \subseteq CompletedIds(q)
    BY <1>2, <1>3 DEF CompletedIds
  <1>6. \A j \in PendingAt(r) : q[i].id < r[j].id
    <2> SUFFICES ASSUME NEW j \in PendingAt(r) PROVE q[i].id < r[j].id
      OBVIOUS
    <2>1. j \in 1 .. Len(q) /\ i <= j /\ i # j
      BY <1>3, <1>4 DEF FirstPending, PendingAt
    <2>2. i < j
      BY <1>1, <2>1
    <2>3. QED
      BY <1>1, <1>2, <1>3, <2>1, <2>2 DEF SoundQueue
  <1>7. \A a, b \in DOMAIN r : a < b => r[a].id < r[b].id
    BY <1>2, <1>3 DEF SoundQueue
  <1>8. \A j \in DOMAIN r : r[j].id \in DOMAIN t /\ t[r[j].id] = n
    BY <1>2, <1>3 DEF SoundQueue
  <1>9. \A j \in PendingAt(r) :
          c0 < r[j].id /\ \A k \in DOMAIN h : h[k] < r[j].id
    BY <1>2, <1>3, <1>4 DEF SoundQueue, PendingAt
  <1>10. CompletedIds(r) \subseteq Elements(h)
    BY <1>5 DEF SoundQueue
  <1>11. QED
    BY <1>1, <1>3, <1>6, <1>7, <1>8, <1>9, <1>10 DEF SoundQueue

\* The agent has nothing in hand any more.
LEMMA ReleaseSound ==
  ASSUME NEW n, NEW t, NEW q \in Seq(Entry), NEW c0, NEW h,
         SoundQueue(q, n, t, c0, h)
  PROVE  SoundQueue(q, n, t, 0, h)
  <1>1. \A i \in DOMAIN q : q[i] \in Entry
    OBVIOUS
  <1>2. \A i \in PendingAt(q) : 0 < q[i].id
    BY <1>1 DEF PendingAt, Entry
  <1>3. QED
    BY <1>2 DEF SoundQueue

\* The agent starts the command it has in hand.
LEMMA StartSound ==
  ASSUME NEW n, NEW t, NEW q \in Seq(Entry), NEW c0 \in Nat \ {0},
         NEW h \in Seq(Nat \ {0}), SoundQueue(q, n, t, c0, h)
  PROVE  SoundQueue(q, n, t, c0, Append(h, c0))
  <1> DEFINE g == Append(h, c0)
  <1>1. /\ DOMAIN h = 1 .. Len(h) /\ Len(h) \in Nat
        /\ DOMAIN g = 1 .. (Len(h) + 1) /\ g[Len(h) + 1] = c0
        /\ \A k \in 1 .. Len(h) : g[k] = h[k]
    OBVIOUS
  <1>2. \A i \in PendingAt(q) : \A k \in DOMAIN g : g[k] < q[i].id
    <2> SUFFICES ASSUME NEW i \in PendingAt(q), NEW k \in DOMAIN g
                 PROVE  g[k] < q[i].id
      OBVIOUS
    <2>1. CASE k \in 1 .. Len(h)
      BY <1>1, <2>1 DEF SoundQueue
    <2>2. CASE k = Len(h) + 1
      BY <1>1, <2>2 DEF SoundQueue
    <2>3. QED
      BY <1>1, <2>1, <2>2
  <1>3. Elements(h) \subseteq Elements(g)
    BY <1>1 DEF Elements
  <1>4. QED
    BY <1>2, <1>3 DEF SoundQueue

\* Closing a command the agent has started.
LEMMA MarkCompletedSound ==
  ASSUME NEW n, NEW t, NEW q \in Seq(Entry), NEW c0, NEW h,
         NEW c \in Elements(h), SoundQueue(q, n, t, c0, h)
  PROVE  SoundQueue(MarkCompleted(q, c), n, t, c0, h)
  <1> DEFINE r == MarkCompleted(q, c)
  <1>1. /\ r \in Seq(Entry) /\ Len(r) = Len(q)
        /\ \A j \in 1 .. Len(q) :
             /\ r[j].id = q[j].id
             /\ q[j].id = c => r[j].status = "completed"
             /\ q[j].id # c => r[j] = q[j]
    BY MarkCompletedType
  <1>2. DOMAIN r = 1 .. Len(q) /\ DOMAIN q = 1 .. Len(q)
    BY <1>1
  <1>3. PendingAt(r) \subseteq PendingAt(q)
    BY <1>1, <1>2 DEF PendingAt
  <1>4. CompletedIds(r) \subseteq CompletedIds(q) \union {c}
    BY <1>1, <1>2 DEF CompletedIds
  <1>5. \A i, j \in DOMAIN r : i < j => r[i].id < r[j].id
    BY <1>1, <1>2 DEF SoundQueue
  <1>6. \A i \in DOMAIN r : r[i].id \in DOMAIN t /\ t[r[i].id] = n
    BY <1>1, <1>2 DEF SoundQueue
  <1>7. \A i \in PendingAt(r) :
          c0 < r[i].id /\ \A k \in DOMAIN h : h[k] < r[i].id
    BY <1>1, <1>2, <1>3 DEF SoundQueue, PendingAt
  <1>8. CompletedIds(r) \subseteq Elements(h)
    BY <1>4 DEF SoundQueue
  <1>9. QED
    BY <1>5, <1>6, <1>7, <1>8 DEF SoundQueue
=============================================================================
