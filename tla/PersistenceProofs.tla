------------------------- MODULE PersistenceProofs -------------------------
(***************************************************************************)
(* Theorems about the files of the store, for every set of nodes and       *)
(* bindings and any number of crashes and failed saves, when the offline   *)
(* commands are not run beside a daemon.                                   *)
(***************************************************************************)
EXTENDS Persistence, TLAPS

Saves(p) == pc[p] \in {"truncate", "write", "rename"}
InUse(p) == Saves(p) \/ pc[p] \in {"saved", "ready"}

\* Only one process runs.
Alone == \A p, q \in Process : p # q /\ pc[p] # "down" => pc[q] = "down"

\* The temporary file that is renamed holds the text that was to be saved.
Files(p) ==
  /\ opened[p] => InUse(p)
  /\ pc[p] = "ready" => opened[p]
  /\ Saves(p) => left[p] # {}
  /\ pc[p] = "saved" => left[p] = {}
  /\ Saves(p) /\ "state" \in left[p] /\ ~opened[p] => "runtime" \in left[p]
  /\ pc[p] = "write" => fd[p] = "tmp" /\ tmp[Current(p)] = Empty
  /\ pc[p] = "rename" => tmp[Current(p)] = Text(p, Current(p))

\* A store in memory knows every binding that was reported as saved, and one that
\* is about to be reported is in it; once the state file is saved, it is that store.
Keeps(p) ==
  /\ pc[p] = "read runtime" \/ InUse(p) => said \subseteq mem[p].state.bindings
  /\ job[p].do = "add-binding" /\ opened[p] /\ (Saves(p) \/ pc[p] = "saved") =>
       /\ job[p].binding \in mem[p].state.bindings
       /\ "state" \notin left[p] => mem[p].state.bindings = Bindings(file["state"])

\* The inductive invariant for SavedIsKept.
KeptInv == /\ TypeOK /\ Alone /\ SavedIsKept
           /\ \A p \in Process : Files(p) /\ Keeps(p)
-----------------------------------------------------------------------------
\* The texts of the store have their types.
LEMMA Texts ==
  /\ NewStore \in [state : StateText, runtime : RuntimeText]
  /\ \A t \in StateText : Cleared(t) \in StateText /\ Cleared(t).bindings = t.bindings
  /\ \A t \in StateText, c \in Content("runtime") : Migrated(t, c) \in RuntimeText
  /\ \A m \in [state : StateText, runtime : RuntimeText], S \in SUBSET Binding :
       Without(m, S) \in RuntimeText
<1>. USE DEF StateText, RuntimeText
<1>1. NewStore \in [state : StateText, runtime : RuntimeText]
  BY DEF NewStore, NewState, NewRuntime
<1>2. \A t \in StateText : Cleared(t) \in StateText /\ Cleared(t).bindings = t.bindings
  BY DEF Cleared
<1>3. \A t \in StateText, c \in Content("runtime") : Migrated(t, c) \in RuntimeText
  BY DEF Migrated, Content, Endpoints, Readable
<1>4. \A m \in [state : StateText, runtime : RuntimeText], S \in SUBSET Binding :
        Without(m, S) \in RuntimeText
  BY DEF Without
<1>. QED BY <1>1, <1>2, <1>3, <1>4

\* The arguments of the jobs have their types.
LEMMA JobTypes ==
  \A j \in Job \cup {NoJob} :
    /\ j.do \in {"serve", "init", "create-node", "add-binding", "none"}
    /\ j.do = "create-node" => j.node \in Node
    /\ j.do = "add-binding" => j.binding \in Binding \ AutoBindings
<1>. TAKE j \in Job \cup {NoJob}
<1>1. CASE j \in [do : {"serve", "init"}]
  BY <1>1
<1>2. CASE j \in [do : {"create-node"}, node : Node]
  BY <1>2
<1>3. CASE j \in [do : {"add-binding"}, binding : Binding \ AutoBindings]
  BY <1>3
<1>4. CASE j = NoJob
  BY <1>4 DEF NoJob
<1>. QED BY <1>1, <1>2, <1>3, <1>4 DEF Job

LEMMA TypeInit == Init => TypeOK
<1>. SUFFICES ASSUME Init PROVE TypeOK
  OBVIOUS
<1>1. \A f \in File : file[f] \in Content(f) /\ tmp[f] \in Content(f)
  BY DEF Init, Content, File
<1>2. mem \in [Process -> [state : StateText, runtime : RuntimeText]]
  BY Texts DEF Init
<1>3. said \subseteq Binding \ AutoBindings /\ owed \subseteq Binding /\ log \in Nat
  BY DEF Init, Bindings, StateText, Readable, File
<1>. QED BY <1>1, <1>2, <1>3 DEF Init, TypeOK, Process, File

LEMMA StopsType ==
  ASSUME TypeOK, NEW p \in Process, Stops(p)
  PROVE  /\ pc' \in [Process -> {"down", "read state", "read runtime", "truncate",
                                 "write", "rename", "saved", "ready"}]
         /\ job' \in [Process -> Job \cup {NoJob}]
         /\ opened' \in [Process -> BOOLEAN]
         /\ \A q \in Process : pc'[q] # "down" => job'[q] \in Jobs(q)
         /\ \A q \in Process : opened'[q] => pc'[q] # "down"
         /\ mem' \in [Process -> [state : StateText, runtime : RuntimeText]]
         /\ left' \in [Process -> SUBSET File]
         /\ fd' \in [Process -> {"tmp", "file", "none"}]
<1>1. \A q \in Process : (pc'[q] # "down" => job'[q] \in Jobs(q)) /\ (opened'[q] => pc'[q] # "down")
  BY DEF TypeOK, Stops
<1>2. mem' \in [Process -> [state : StateText, runtime : RuntimeText]]
  BY Texts DEF TypeOK, Stops
<1>3. job' \in [Process -> Job \cup {NoJob}]
  BY DEF TypeOK, Stops
<1>. QED BY <1>1, <1>2, <1>3 DEF TypeOK, Stops

LEMMA SavingType ==
  ASSUME TypeOK, NEW p \in Process, NEW m \in [state : StateText, runtime : RuntimeText],
         NEW fs \in SUBSET File, Saving(p, m, fs), pc[p] # "down",
         UNCHANGED <<job, opened>>
  PROVE  /\ pc' \in [Process -> {"down", "read state", "read runtime", "truncate",
                                 "write", "rename", "saved", "ready"}]
         /\ \A q \in Process : pc'[q] # "down" => job'[q] \in Jobs(q)
         /\ \A q \in Process : opened'[q] => pc'[q] # "down"
         /\ mem' \in [Process -> [state : StateText, runtime : RuntimeText]]
         /\ left' \in [Process -> SUBSET File]
<1>1. /\ \A q \in Process : pc'[q] # "down" => job'[q] \in Jobs(q)
      /\ \A q \in Process : opened'[q] => pc'[q] # "down"
  BY DEF TypeOK, Saving
<1>. QED BY <1>1 DEF TypeOK, Saving

LEMMA TypeNext == TypeOK /\ [Next]_vars => TypeOK'
<1>. SUFFICES ASSUME TypeOK, [Next]_vars PROVE TypeOK'
  OBVIOUS
<1>. USE DEF disk, history, counters
<1>orphans. \A p \in Process : OrphanedBy(p) \subseteq Binding
  BY DEF TypeOK, OrphanedBy, Endpoints, Readable, Content, RuntimeText, File
<1>jobs. ASSUME NEW p \in Process
         PROVE  /\ job[p].do = "create-node" => job[p].node \in Node
                /\ job[p].do = "add-binding" => job[p].binding \in Binding \ AutoBindings
  <2>1. job[p] \in Job \cup {NoJob}
    BY DEF TypeOK
  <2>. QED BY <2>1, JobTypes
<1>text. \A p \in Process, f \in File : Text(p, f) \in Content(f)
  BY Texts DEF TypeOK, Text, Content, File
<1>mem. \A p \in Process : mem[p] \in [state : StateText, runtime : RuntimeText]
  BY DEF TypeOK
<1>current. \A p \in Process : Current(p) \in File
  BY DEF Current, File
<1>1. ASSUME NEW p \in Process, NEW j \in Job, Start(p, j) PROVE TypeOK'
  <2>1. job' \in [Process -> Job \cup {NoJob}]
    BY <1>1 DEF TypeOK, Start
  <2>2. \A q \in Process : (pc'[q] # "down" => job'[q] \in Jobs(q)) /\ (opened'[q] => pc'[q] # "down")
    BY <1>1 DEF TypeOK, Start
  <2>. QED BY <1>1, <2>1, <2>2 DEF TypeOK, Start
<1>2. ASSUME NEW p \in Process, ReadState(p) PROVE TypeOK'
  <2>1. CASE file["state"] = None
    BY <1>2, <2>1, Texts, SavingType DEF TypeOK, ReadState
  <2>2. CASE file["state"] # None
    <3>1. [state |-> IF file["state"] = Empty THEN NewState ELSE file["state"],
           runtime |-> NewRuntime] \in [state : StateText, runtime : RuntimeText]
      BY <1>2, <2>2, Texts DEF TypeOK, ReadState, Content, NewStore, File
    <3>. DEFINE r == [state |-> IF file["state"] = Empty THEN NewState ELSE file["state"],
                      runtime |-> NewRuntime]
    <3>0. /\ mem' = [mem EXCEPT ![p] = r]
          /\ pc' = [pc EXCEPT ![p] = "read runtime"]
          /\ UNCHANGED <<left, job, opened>> /\ pc[p] # "down"
      BY <1>2, <2>2 DEF ReadState
    <3>. HIDE DEF r
    <3>2. mem' \in [Process -> [state : StateText, runtime : RuntimeText]]
      BY <3>0, <3>1 DEF TypeOK, r
    <3>3. /\ \A q \in Process : pc'[q] # "down" => job'[q] \in Jobs(q)
          /\ \A q \in Process : opened'[q] => pc'[q] # "down"
      BY <3>0 DEF TypeOK
    <3>. QED BY <1>2, <3>0, <3>2, <3>3 DEF TypeOK, ReadState
  <2>. QED BY <2>1, <2>2
<1>3. ASSUME NEW p \in Process, ReadRuntime(p) PROVE TypeOK'
  <2>1. [state |-> Cleared(mem[p].state),
         runtime |-> Migrated(mem[p].state, file["runtime"])]
           \in [state : StateText, runtime : RuntimeText]
    BY Texts DEF TypeOK, File
  <2>2. log' \in Nat
    <3>1. log \in Nat /\ (log' = log + 1 \/ log' = log + 0)
      BY <1>3 DEF TypeOK, ReadRuntime
    <3>. QED BY <3>1
  <2>. QED BY <1>3, <2>1, <2>2, SavingType DEF TypeOK, ReadRuntime
<1>4. ASSUME NEW p \in Process, Refused(p) PROVE TypeOK'
  BY <1>4, StopsType DEF TypeOK, Refused
<1>5. ASSUME NEW p \in Process, Truncate(p) PROVE TypeOK'
  BY <1>5, <1>current DEF TypeOK, Truncate, Content
<1>6. ASSUME NEW p \in Process, Write(p) PROVE TypeOK'
  <2>1. \A f \in File : file'[f] \in Content(f) /\ tmp'[f] \in Content(f)
    <3>1. \A f \in File : \A t : Over(t, Text(p, f)) \subseteq Content(f)
      BY <1>text DEF Over, Content
    <3>. DEFINE f == Current(p)
    <3>2. CASE fd[p] = "tmp"
      <4>1. PICK t \in Over(tmp[f], Text(p, f)) : tmp' = [tmp EXCEPT ![f] = t]
        BY <1>6, <3>2 DEF Write
      <4>2. file' = file
        BY <1>6, <3>2 DEF Write
      <4>. QED BY <4>1, <4>2, <3>1, <1>current DEF TypeOK
    <3>3. CASE fd[p] = "file"
      <4>1. PICK t \in Over(file[f], Text(p, f)) : file' = [file EXCEPT ![f] = t]
        BY <1>6, <3>3 DEF Write
      <4>2. tmp' = tmp
        BY <1>6, <3>3 DEF Write
      <4>. QED BY <4>1, <4>2, <3>1, <1>current DEF TypeOK
    <3>4. CASE fd[p] = "none"
      BY <1>6, <3>4 DEF TypeOK, Write
    <3>. QED BY <3>2, <3>3, <3>4 DEF TypeOK
  <2>2. DOMAIN file' = File /\ DOMAIN tmp' = File
    BY <1>6 DEF TypeOK, Write
  <2>. QED BY <1>6, <2>1, <2>2 DEF TypeOK, Write
<1>7. ASSUME NEW p \in Process, Rename(p) PROVE TypeOK'
  <2>1. \A f \in File : file'[f] \in Content(f) /\ tmp'[f] \in Content(f)
    BY <1>7, <1>current DEF TypeOK, Rename, Content
  <2>2. fd' \in [Process -> {"tmp", "file", "none"}]
    BY <1>7 DEF TypeOK, Rename
  <2>. QED BY <1>7, <2>1, <2>2 DEF TypeOK, Rename
<1>8. ASSUME NEW p \in Process, SaveFails(p) PROVE TypeOK'
  <2>1. cut' \in BOOLEAN /\ orphans' \subseteq Binding
    BY <1>8, <1>orphans DEF TypeOK, SaveFails
  <2>2. faults' \in Nat
    <3>1. faults \in Nat /\ (faults' = faults + 1 \/ faults' = faults)
      BY <1>8 DEF TypeOK, SaveFails
    <3>. QED BY <3>1
  <2>3. CASE p = "daemon" /\ opened[p]
    <3>1. /\ \A q \in Process : pc'[q] # "down" => job'[q] \in Jobs(q)
          /\ \A q \in Process : opened'[q] => pc'[q] # "down"
      <4>1. pc[p] # "down" /\ pc' = [pc EXCEPT ![p] = "ready"] /\ UNCHANGED <<job, opened>>
        BY <1>8, <2>3 DEF TypeOK, SaveFails
      <4>. QED BY <4>1 DEF TypeOK
    <3>. QED BY <1>8, <2>1, <2>2, <2>3, <3>1 DEF TypeOK, SaveFails
  <2>4. CASE ~(p = "daemon" /\ opened[p])
    <3>1. Stops(p)
      BY <1>8, <2>4 DEF SaveFails
    <3>. QED BY <1>8, <2>1, <2>2, <3>1, StopsType DEF TypeOK, SaveFails
  <2>. QED BY <2>3, <2>4
<1>9. ASSUME NEW p \in Process, Crash(p) PROVE TypeOK'
  <2>1. cut' \in BOOLEAN /\ orphans' \subseteq Binding
    BY <1>9, <1>orphans DEF TypeOK, Crash
  <2>2. crashes' \in Nat
    <3>1. crashes \in Nat /\ crashes' = crashes + 1
      BY <1>9 DEF TypeOK, Crash
    <3>. QED BY <3>1
  <2>. QED BY <1>9, <2>1, <2>2, StopsType DEF TypeOK, Crash
<1>10. ASSUME NEW p \in Process, OpenReturns(p) PROVE TypeOK'
  BY <1>10 DEF TypeOK, OpenReturns
<1>11. ASSUME NEW p \in Process, CallReturns(p) PROVE TypeOK'
  <2>1. said' \subseteq Binding \ AutoBindings
    BY <1>11, <1>jobs DEF TypeOK, CallReturns
  <2>2. CASE p = "daemon"
    <3>1. /\ \A q \in Process : pc'[q] # "down" => job'[q] \in Jobs(q)
          /\ \A q \in Process : opened'[q] => pc'[q] # "down"
      <4>1. pc[p] # "down" /\ pc' = [pc EXCEPT ![p] = "ready"] /\ UNCHANGED <<job, opened>>
        BY <1>11, <2>2 DEF TypeOK, CallReturns
      <4>. QED BY <4>1 DEF TypeOK
    <3>. QED BY <1>11, <2>1, <2>2, <3>1 DEF TypeOK, CallReturns
  <2>3. CASE p # "daemon"
    BY <1>11, <2>1, <2>3, StopsType DEF TypeOK, CallReturns
  <2>. QED BY <2>2, <2>3
<1>12. ASSUME NEW p \in Process, InitFile(p) PROVE TypeOK'
  <2>1. mem[p] \in [state : StateText, runtime : RuntimeText]
    BY DEF TypeOK
  <2>. QED BY <1>12, <2>1, SavingType DEF TypeOK, InitFile
<1>13. ASSUME NEW p \in Process, CreateNode(p) PROVE TypeOK'
  <2>1. [mem[p] EXCEPT !.state.nodes = @ \cup {job[p].node}]
          \in [state : StateText, runtime : RuntimeText]
    <3>1. job[p].node \in Node
      BY <1>13, <1>jobs DEF CreateNode
    <3>. QED BY <3>1, <1>mem DEF StateText
  <2>. QED BY <1>13, <2>1, SavingType DEF TypeOK, CreateNode
<1>14. ASSUME NEW p \in Process, AddBinding(p) PROVE TypeOK'
  <2>1. [mem[p] EXCEPT !.state.bindings = @ \cup {job[p].binding}]
          \in [state : StateText, runtime : RuntimeText]
    BY <1>14, <1>jobs, <1>mem DEF AddBinding, StateText
  <2>. QED BY <1>14, <2>1, SavingType DEF TypeOK, AddBinding
<1>. DEFINE m == mem["daemon"]
<1>m. m \in [state : StateText, runtime : RuntimeText] /\ "daemon" \in Process
  BY DEF TypeOK, Process
<1>15. ASSUME NEW n \in Node, DeleteNode(n) PROVE TypeOK'
  <2>1. [state |-> [m.state EXCEPT !.nodes = @ \ {n}, !.bindings = @ \ BindingsOf(n)],
         runtime |-> Without(m, BindingsOf(n))] \in [state : StateText, runtime : RuntimeText]
    BY <1>m, Texts DEF StateText, BindingsOf
  <2>2. said' \subseteq Binding \ AutoBindings /\ owed' \subseteq Binding
    BY <1>15 DEF TypeOK, DeleteNode
  <2>. QED BY <1>15, <1>m, <2>1, <2>2, SavingType DEF TypeOK, DeleteNode
<1>16. ASSUME NEW B \in SUBSET AutoBindings, Reconcile(B) PROVE TypeOK'
  <2>1. [state |-> [m.state EXCEPT !.bindings = (@ \ AutoBindings) \cup B],
         runtime |-> Without(m, AutoBindings \ B)] \in [state : StateText, runtime : RuntimeText]
    BY <1>m, Texts, PersistenceAssumption DEF StateText
  <2>2. owed' \subseteq Binding
    BY <1>16 DEF TypeOK, Reconcile
  <2>. QED BY <1>16, <1>m, <2>1, <2>2, SavingType DEF TypeOK, Reconcile
<1>17. ASSUME NEW b \in Binding, SaveEndpointLease(b) PROVE TypeOK'
  <2>1. [m EXCEPT !.runtime.endpoints = @ \cup {b}] \in [state : StateText, runtime : RuntimeText]
    BY <1>m DEF RuntimeText
  <2>2. {"runtime"} \in SUBSET File
    BY DEF File
  <2>. QED BY <1>17, <1>m, <2>1, <2>2, SavingType DEF TypeOK, SaveEndpointLease
<1>18. ASSUME NEW n \in Node, Register(n) PROVE TypeOK'
  <2>1. [m EXCEPT !.state.nodes = @ \cup {n}] \in [state : StateText, runtime : RuntimeText]
    BY <1>m DEF StateText
  <2>. QED BY <1>18, <1>m, <2>1, SavingType DEF TypeOK, Register
<1>19. ASSUME NEW fs \in SUBSET File, OtherSave(fs) PROVE TypeOK'
  BY <1>19, <1>m, SavingType DEF TypeOK, OtherSave
<1>20. CASE UNCHANGED vars
  BY <1>20 DEF TypeOK, vars
<1>. QED
  BY <1>1, <1>2, <1>3, <1>4, <1>5, <1>6, <1>7, <1>8, <1>9, <1>10, <1>11, <1>12,
     <1>13, <1>14, <1>15, <1>16, <1>17, <1>18, <1>19, <1>20 DEF Next

\* Every state of every run has its types.
THEOREM TypeCorrect == Spec => []TypeOK
BY TypeInit, TypeNext, PTL DEF Spec
-----------------------------------------------------------------------------
\* While process p runs, the others are down, and stay down when p takes a step.
LEMMA OthersAreDown ==
  ASSUME Alone, NEW p \in Process, pc[p] # "down",
         \A q \in Process : q # p => pc'[q] = pc[q]
  PROVE  Alone' /\ \A q \in Process \ {p} : pc[q] = "down" /\ pc'[q] = "down"
BY DEF Alone

\* What is said of a process is true of one that is down.
LEMMA DownIsFine ==
  ASSUME TypeOK, NEW p \in Process, pc[p] = "down"
  PROVE  Files(p) /\ Keeps(p)
BY DEF TypeOK, Files, Keeps, InUse, Saves

LEMMA KeptInit == Init => KeptInv
<1>. SUFFICES ASSUME Init PROVE KeptInv
  OBVIOUS
<1>1. TypeOK
  BY TypeInit
<1>2. \A p \in Process : pc[p] = "down"
  BY DEF Init
<1>3. SavedIsKept
  BY DEF Init, SavedIsKept, File
<1>. QED BY <1>1, <1>2, <1>3, DownIsFine DEF KeptInv, Alone

\* A step of process p alone keeps the invariant if what is said of p stays true.
LEMMA StepOf ==
  ASSUME KeptInv, TypeOK', NEW p \in Process, pc[p] # "down",
         \A q \in Process : q # p => pc'[q] = pc[q],
         SavedIsKept',
         pc'[p] # "down" => Files(p)' /\ Keeps(p)'
  PROVE  KeptInv'
<1>1. Alone' /\ \A q \in Process \ {p} : pc'[q] = "down"
  BY OthersAreDown DEF KeptInv
<1>2. ASSUME NEW q \in Process, pc'[q] = "down" PROVE Files(q)' /\ Keeps(q)'
  BY <1>2 DEF TypeOK, Files, Keeps, InUse, Saves
<1>. QED BY <1>1, <1>2 DEF KeptInv

\* A process that ends keeps it, if it leaves the files and the reports alone.
LEMMA StopOf ==
  ASSUME KeptInv, TypeOK', NEW p \in Process, pc[p] # "down", Stops(p), SavedIsKept'
  PROVE  KeptInv'
<1>1. pc'[p] = "down" /\ \A q \in Process : q # p => pc'[q] = pc[q]
  BY DEF KeptInv, TypeOK, Stops
<1>. QED BY <1>1, StepOf

\* A process that begins to save a store keeps it, if the store has the bindings
\* reported as saved, and the one of its job.
LEMMA SaveOf ==
  ASSUME KeptInv, TypeOK', NEW p \in Process, pc[p] # "down",
         NEW m \in [state : StateText, runtime : RuntimeText],
         NEW fs \in SUBSET File, fs # {}, opened[p] \/ fs = File, Saving(p, m, fs),
         UNCHANGED <<file, job, opened>>, said' \subseteq said,
         said' \subseteq m.state.bindings,
         job[p].do = "add-binding" /\ opened[p] =>
           job[p].binding \in m.state.bindings /\ "state" \in fs
  PROVE  KeptInv'
<1>1. /\ pc'[p] = "truncate" /\ mem'[p] = m /\ left'[p] = fs
      /\ \A q \in Process : q # p => pc'[q] = pc[q]
  BY DEF KeptInv, TypeOK, Saving
<1>2. SavedIsKept'
  BY DEF KeptInv, SavedIsKept
<1>3. Files(p)'
  BY <1>1 DEF Files, InUse, Saves, File
<1>4. Keeps(p)'
  BY <1>1 DEF Keeps, InUse, Saves
<1>. QED BY <1>1, <1>2, <1>3, <1>4, StepOf

LEMMA KeptNext == ~Beside /\ KeptInv /\ [Next]_vars => KeptInv'
<1>. SUFFICES ASSUME ~Beside, KeptInv, [Next]_vars PROVE KeptInv'
  OBVIOUS
<1>. USE DEF disk, history, counters
<1>type. TypeOK /\ TypeOK' /\ SavedIsKept /\ \A p \in Process : Files(p) /\ Keeps(p)
  BY TypeNext DEF KeptInv
<1>mem. \A p \in Process : mem[p] \in [state : StateText, runtime : RuntimeText]
  BY <1>type DEF TypeOK
<1>file. "state" \in File /\ {"runtime"} \in SUBSET File
  BY DEF File
<1>1. ASSUME NEW p \in Process, NEW j \in Job, Start(p, j) PROVE KeptInv'
  <2>1. /\ \A q \in Process : pc[q] = "down"
        /\ pc'[p] = "read state"
        /\ \A q \in Process : q # p => pc'[q] = "down"
        /\ UNCHANGED <<file, said, opened>>
    BY <1>1, <1>type DEF TypeOK, Start
  <2>2. SavedIsKept' /\ Alone'
    BY <2>1, <1>type DEF SavedIsKept, Alone
  <2>3. ~opened[p]
    BY <2>1, <1>type DEF TypeOK
  <2>4. Files(p)' /\ Keeps(p)'
    BY <2>1, <2>3 DEF Files, Keeps, InUse, Saves
  <2>5. ASSUME NEW q \in Process, q # p PROVE Files(q)' /\ Keeps(q)'
    BY <2>1, <2>5, <1>type DEF TypeOK, Files, Keeps, InUse, Saves
  <2>. QED BY <1>type, <2>2, <2>4, <2>5 DEF KeptInv
<1>2. ASSUME NEW p \in Process, ReadState(p) PROVE KeptInv'
  <2>0. pc[p] = "read state" /\ ~opened[p] /\ UNCHANGED <<file, job, opened, said>>
    BY <1>2, <1>type DEF ReadState, Files, InUse, Saves
  <2>1. CASE file["state"] = None
    <3>1. said = {}
      BY <2>1, <1>type DEF SavedIsKept, Bindings, Readable
    <3>2. Saving(p, NewStore, File)
      BY <1>2, <2>1 DEF ReadState
    <3>. QED BY <2>0, <3>1, <3>2, <1>type, <1>file, SaveOf, Texts
  <2>2. CASE file["state"] # None
    <3>1. /\ pc'[p] = "read runtime" /\ \A q \in Process : q # p => pc'[q] = pc[q]
          /\ mem'[p].state = IF file["state"] = Empty THEN NewState ELSE file["state"]
      <4>. DEFINE r == [state |-> IF file["state"] = Empty THEN NewState ELSE file["state"],
                        runtime |-> NewRuntime]
      <4>1. mem' = [mem EXCEPT ![p] = r] /\ pc' = [pc EXCEPT ![p] = "read runtime"]
        BY <1>2, <2>2 DEF ReadState
      <4>2. r.state = IF file["state"] = Empty THEN NewState ELSE file["state"]
        OBVIOUS
      <4>. HIDE DEF r
      <4>. QED BY <4>1, <4>2, <1>type DEF TypeOK
    <3>2. said \subseteq mem'[p].state.bindings
      BY <1>2, <2>2, <3>1, <1>type DEF ReadState, SavedIsKept, Bindings, Readable
    <3>3. SavedIsKept'
      BY <2>0, <1>type DEF SavedIsKept
    <3>4. Files(p)' /\ Keeps(p)'
      BY <2>0, <3>1, <3>2 DEF Files, Keeps, InUse, Saves
    <3>. QED BY <2>0, <3>1, <3>3, <3>4, <1>type, StepOf
  <2>. QED BY <2>1, <2>2
<1>3. ASSUME NEW p \in Process, ReadRuntime(p) PROVE KeptInv'
  <2>1. /\ pc[p] = "read runtime" /\ ~opened[p] /\ UNCHANGED <<file, job, opened, said>>
        /\ said \subseteq mem[p].state.bindings
    BY <1>3, <1>type DEF ReadRuntime, Files, Keeps, InUse, Saves
  <2>. DEFINE m == [state |-> Cleared(mem[p].state),
                    runtime |-> Migrated(mem[p].state, file["runtime"])]
  <2>2. Saving(p, m, File)
    BY <1>3 DEF ReadRuntime
  <2>3. m \in [state : StateText, runtime : RuntimeText] /\ said \subseteq m.state.bindings
    BY <2>1, <1>mem, <1>type, Texts DEF TypeOK, File
  <2>. HIDE DEF m
  <2>. QED BY <2>1, <2>2, <2>3, <1>type, <1>file, SaveOf
<1>4. ASSUME NEW p \in Process, Refused(p) PROVE KeptInv'
  <2>1. SavedIsKept'
    BY <1>4, <1>type DEF Refused, SavedIsKept
  <2>. QED BY <1>4, <2>1, <1>type, StopOf DEF Refused
<1>5. ASSUME NEW p \in Process, Truncate(p) PROVE KeptInv'
  <2>1. /\ pc[p] = "truncate" /\ pc'[p] = "write" /\ fd'[p] = "tmp"
        /\ \A q \in Process : q # p => pc'[q] = pc[q]
        /\ tmp' = [tmp EXCEPT ![Current(p)] = Empty]
        /\ UNCHANGED <<file, job, opened, mem, left, said>>
    BY <1>5, <1>type DEF Truncate, TypeOK
  <2>2. Current(p)' = Current(p) /\ Current(p) \in File
    BY <2>1 DEF Current, File
  <2>3. SavedIsKept'
    BY <2>1, <1>type DEF SavedIsKept
  <2>4. tmp'[Current(p)] = Empty
    BY <2>1, <2>2, <1>type DEF TypeOK
  <2>5. Files(p)'
    BY <2>1, <2>2, <2>4, <1>type DEF Files, InUse, Saves
  <2>6. Keeps(p)'
    BY <2>1, <1>type DEF Keeps, InUse, Saves
  <2>. QED BY <2>1, <2>3, <2>5, <2>6, <1>type, StepOf
<1>6. ASSUME NEW p \in Process, Write(p) PROVE KeptInv'
  <2>1. /\ pc[p] = "write" /\ pc'[p] = "rename"
        /\ \A q \in Process : q # p => pc'[q] = pc[q]
        /\ UNCHANGED <<job, opened, mem, left, said>>
    BY <1>6, <1>type DEF Write, TypeOK
  <2>2. fd[p] = "tmp" /\ tmp[Current(p)] = Empty
    BY <2>1, <1>type DEF Files
  <2>3. tmp' = [tmp EXCEPT ![Current(p)] = Text(p, Current(p))] /\ file' = file
    BY <1>6, <2>2 DEF Write, Over
  <2>4. /\ Current(p)' = Current(p) /\ Current(p) \in File
        /\ Text(p, Current(p))' = Text(p, Current(p))
    BY <2>1 DEF Current, File, Text
  <2>5. SavedIsKept'
    BY <2>1, <2>3, <1>type DEF SavedIsKept
  <2>6. tmp'[Current(p)] = Text(p, Current(p))
    BY <2>3, <2>4, <1>type DEF TypeOK
  <2>7. Files(p)'
    BY <2>1, <2>4, <2>6, <1>type DEF Files, InUse, Saves
  <2>8. Keeps(p)'
    BY <2>1, <2>3, <1>type DEF Keeps, InUse, Saves
  <2>. QED BY <2>1, <2>5, <2>7, <2>8, <1>type, StepOf
<1>7. ASSUME NEW p \in Process, Rename(p) PROVE KeptInv'
  <2>. DEFINE f == Current(p)
  <2>1. /\ pc[p] = "rename" /\ left'[p] = left[p] \ {f}
        /\ pc'[p] = IF left[p] = {f} THEN "saved" ELSE "truncate"
        /\ \A q \in Process : q # p => pc'[q] = pc[q]
        /\ file' = [file EXCEPT ![f] = tmp[f]]
        /\ UNCHANGED <<job, opened, mem, said>>
    BY <1>7, <1>type DEF Rename, TypeOK
  <2>2. tmp[f] = Text(p, f) /\ f \in File /\ left[p] # {} /\ left[p] \subseteq File
    BY <2>1, <1>type DEF Files, Current, File, TypeOK, Saves
  <2>3. said \subseteq mem[p].state.bindings
    BY <2>1, <1>type DEF Keeps, InUse, Saves
  <2>4. f = "state" => Bindings(file'["state"]) = mem[p].state.bindings
    <3>1. Cleared(mem[p].state) \in StateText /\ Cleared(mem[p].state).bindings = mem[p].state.bindings
      BY <1>mem, Texts
    <3>2. Readable(Cleared(mem[p].state))
      BY <3>1, PersistenceAssumption DEF Readable
    <3>3. f = "state" => file'["state"] = Cleared(mem[p].state)
      <4>1. "state" \in DOMAIN file
        BY <1>type DEF TypeOK, File
      <4>2. f = "state" => file'["state"] = tmp[f]
        BY <2>1, <4>1
      <4>. QED BY <2>2, <4>2 DEF Text
    <3>. QED BY <3>1, <3>2, <3>3 DEF Bindings
  <2>5. f # "state" => file'["state"] = file["state"]
    BY <2>1, <1>type, <1>file DEF TypeOK
  <2>6. SavedIsKept'
    BY <2>1, <2>3, <2>4, <2>5, <1>type DEF SavedIsKept
  <2>7. Files(p)'
    BY <2>1, <2>2, <1>type DEF Files, InUse, Saves, Current, File
  <2>8. Keeps(p)'
    <3>1. "state" \in left[p] <=> f = "state"
      BY <2>2 DEF Current
    <3>. QED BY <2>1, <2>3, <2>4, <2>5, <3>1, <1>type DEF Keeps, InUse, Saves
  <2>. QED BY <2>1, <2>6, <2>7, <2>8, <1>type, StepOf
<1>8. ASSUME NEW p \in Process, SaveFails(p) PROVE KeptInv'
  <2>1. pc[p] # "down" /\ Saves(p) /\ UNCHANGED <<file, said>>
    BY <1>8 DEF SaveFails, Saves
  <2>2. SavedIsKept'
    BY <2>1, <1>type DEF SavedIsKept
  <2>3. CASE p = "daemon" /\ opened[p]
    <3>1. /\ pc'[p] = "ready" /\ \A q \in Process : q # p => pc'[q] = pc[q]
          /\ UNCHANGED <<job, opened, mem>>
      <4>1. pc' = [pc EXCEPT ![p] = "ready"] /\ UNCHANGED <<job, opened, mem>>
        BY <1>8, <2>3 DEF SaveFails
      <4>2. p \in DOMAIN pc /\ Process = DOMAIN pc
        BY <1>type DEF TypeOK
      <4>. QED BY <4>1, <4>2
    <3>2. Files(p)' /\ Keeps(p)'
      BY <2>1, <2>3, <3>1, <1>type DEF Files, Keeps, InUse, Saves
    <3>. QED BY <2>1, <2>2, <3>1, <3>2, <1>type, StepOf
  <2>4. CASE ~(p = "daemon" /\ opened[p])
    BY <1>8, <2>1, <2>2, <2>4, <1>type, StopOf DEF SaveFails
  <2>. QED BY <2>3, <2>4
<1>9. ASSUME NEW p \in Process, Crash(p) PROVE KeptInv'
  <2>1. SavedIsKept'
    BY <1>9, <1>type DEF Crash, SavedIsKept
  <2>. QED BY <1>9, <2>1, <1>type, StopOf DEF Crash
<1>10. ASSUME NEW p \in Process, OpenReturns(p) PROVE KeptInv'
  <2>1. /\ pc[p] = "saved" /\ pc'[p] = "ready"
        /\ \A q \in Process : q # p => pc'[q] = pc[q]
        /\ opened'[p]
        /\ UNCHANGED <<file, job, mem, left, said>>
    BY <1>10, <1>type DEF OpenReturns, TypeOK
  <2>2. SavedIsKept'
    BY <2>1, <1>type DEF SavedIsKept
  <2>3. Files(p)' /\ Keeps(p)'
    BY <2>1, <1>type DEF Files, Keeps, InUse, Saves
  <2>. QED BY <2>1, <2>2, <2>3, <1>type, StepOf
<1>11. ASSUME NEW p \in Process, CallReturns(p) PROVE KeptInv'
  <2>. DEFINE adds == job[p].do = "add-binding"
  <2>1. /\ pc[p] = "saved" /\ opened[p] /\ file' = file
        /\ said' = IF adds THEN said \cup {job[p].binding} ELSE said
    BY <1>11 DEF CallReturns
  <2>2. SavedIsKept'
    <3>1. left[p] = {}
      BY <2>1, <1>type DEF Files
    <3>2. adds => job[p].binding \in Bindings(file["state"])
      BY <2>1, <3>1, <1>type DEF Keeps
    <3>. QED BY <2>1, <3>2, <1>type DEF SavedIsKept
  <2>3. CASE p = "daemon"
    <3>1. ~adds
      BY <2>1, <2>3, <1>type DEF TypeOK, Jobs
    <3>2. /\ pc'[p] = "ready" /\ \A q \in Process : q # p => pc'[q] = pc[q]
          /\ UNCHANGED <<job, opened, mem>>
      BY <1>11, <2>3, <1>type DEF CallReturns, TypeOK
    <3>3. Files(p)' /\ Keeps(p)'
      BY <2>1, <3>1, <3>2, <1>type DEF Files, Keeps, InUse, Saves
    <3>. QED BY <2>1, <2>2, <3>2, <3>3, <1>type, StepOf
  <2>4. CASE p # "daemon"
    BY <1>11, <2>1, <2>2, <2>4, <1>type, StopOf DEF CallReturns
  <2>. QED BY <2>3, <2>4
<1>12. ASSUME NEW p \in Process, InitFile(p) PROVE KeptInv'
  <2>1. /\ pc[p] = "ready" /\ job[p].do = "init" /\ UNCHANGED <<file, job, opened, said>>
        /\ said \subseteq mem[p].state.bindings /\ Saving(p, mem[p], File)
    BY <1>12, <1>type DEF InitFile, Keeps, InUse
  <2>. QED BY <2>1, <1>type, <1>mem, <1>file, SaveOf
<1>13. ASSUME NEW p \in Process, CreateNode(p) PROVE KeptInv'
  <2>. DEFINE m == [mem[p] EXCEPT !.state.nodes = @ \cup {job[p].node}]
  <2>1. /\ pc[p] = "ready" /\ job[p].do = "create-node"
        /\ UNCHANGED <<file, job, opened, said>>
        /\ said \subseteq mem[p].state.bindings /\ Saving(p, m, File)
    BY <1>13, <1>type DEF CreateNode, Keeps, InUse
  <2>2. job[p].node \in Node
    BY <2>1, <1>type, JobTypes DEF TypeOK
  <2>3. /\ m \in [state : StateText, runtime : RuntimeText]
        /\ m.state.bindings = mem[p].state.bindings
    BY <2>2, <1>mem DEF StateText
  <2>. HIDE DEF m
  <2>. QED BY <2>1, <2>3, <1>type, <1>file, SaveOf
<1>14. ASSUME NEW p \in Process, AddBinding(p) PROVE KeptInv'
  <2>. DEFINE m == [mem[p] EXCEPT !.state.bindings = @ \cup {job[p].binding}]
  <2>1. /\ pc[p] = "ready" /\ job[p].do = "add-binding"
        /\ UNCHANGED <<file, job, opened, said>>
        /\ said \subseteq mem[p].state.bindings /\ Saving(p, m, File)
    BY <1>14, <1>type DEF AddBinding, Keeps, InUse
  <2>2. job[p].binding \in Binding
    BY <2>1, <1>type, JobTypes DEF TypeOK
  <2>3. /\ m \in [state : StateText, runtime : RuntimeText]
        /\ m.state.bindings = mem[p].state.bindings \cup {job[p].binding}
    BY <2>2, <1>mem DEF StateText
  <2>. HIDE DEF m
  <2>. QED BY <2>1, <2>3, <1>type, <1>file, SaveOf
<1>d. "daemon" \in Process /\ (job["daemon"].do = "add-binding" => pc["daemon"] = "down")
  BY <1>type DEF TypeOK, Jobs, Process
<1>15. ASSUME NEW n \in Node, DeleteNode(n) PROVE KeptInv'
  <2>. DEFINE d == mem["daemon"]
              m == [state |-> [d.state EXCEPT !.nodes = @ \ {n}, !.bindings = @ \ BindingsOf(n)],
                    runtime |-> Without(d, BindingsOf(n))]
  <2>1. /\ pc["daemon"] = "ready" /\ UNCHANGED <<file, job, opened>>
        /\ said' = said \ BindingsOf(n) /\ Saving("daemon", m, File)
        /\ said \subseteq d.state.bindings
    BY <1>15, <1>d, <1>type DEF DeleteNode, Keeps, InUse
  <2>2. /\ m \in [state : StateText, runtime : RuntimeText]
        /\ m.state.bindings = d.state.bindings \ BindingsOf(n)
    <3>1. BindingsOf(n) \in SUBSET Binding
      BY DEF BindingsOf
    <3>. QED BY <1>d, <1>mem, <3>1, Texts DEF StateText
  <2>. HIDE DEF m
  <2>. QED BY <2>1, <2>2, <1>d, <1>type, <1>file, SaveOf
<1>16. ASSUME NEW B \in SUBSET AutoBindings, Reconcile(B) PROVE KeptInv'
  <2>. DEFINE d == mem["daemon"]
              m == [state |-> [d.state EXCEPT !.bindings = (@ \ AutoBindings) \cup B],
                    runtime |-> Without(d, AutoBindings \ B)]
  <2>1. /\ pc["daemon"] = "ready" /\ UNCHANGED <<file, job, opened, said>>
        /\ Saving("daemon", m, File)
        /\ said \subseteq d.state.bindings /\ said \cap AutoBindings = {}
    BY <1>16, <1>d, <1>type DEF TypeOK, Reconcile, Keeps, InUse
  <2>2. /\ m \in [state : StateText, runtime : RuntimeText]
        /\ m.state.bindings = (d.state.bindings \ AutoBindings) \cup B
    BY <1>d, <1>mem, Texts, PersistenceAssumption DEF StateText
  <2>. HIDE DEF m
  <2>. QED BY <2>1, <2>2, <1>d, <1>type, <1>file, SaveOf
<1>17. ASSUME NEW b \in Binding, SaveEndpointLease(b) PROVE KeptInv'
  <2>. DEFINE d == mem["daemon"]
              m == [d EXCEPT !.runtime.endpoints = @ \cup {b}]
  <2>1. /\ pc["daemon"] = "ready" /\ UNCHANGED <<file, job, opened, said>>
        /\ Saving("daemon", m, {"runtime"})
        /\ said \subseteq d.state.bindings /\ opened["daemon"]
    BY <1>17, <1>d, <1>type DEF SaveEndpointLease, Files, Keeps, InUse
  <2>2. m \in [state : StateText, runtime : RuntimeText] /\ m.state = d.state
    BY <1>d, <1>mem DEF RuntimeText
  <2>. HIDE DEF m
  <2>. QED BY <2>1, <2>2, <1>d, <1>type, <1>file, SaveOf
<1>18. ASSUME NEW n \in Node, Register(n) PROVE KeptInv'
  <2>. DEFINE d == mem["daemon"]
              m == [d EXCEPT !.state.nodes = @ \cup {n}]
  <2>1. /\ pc["daemon"] = "ready" /\ UNCHANGED <<file, job, opened, said>>
        /\ Saving("daemon", m, File)
        /\ said \subseteq d.state.bindings
    BY <1>18, <1>d, <1>type DEF Register, Keeps, InUse
  <2>2. m \in [state : StateText, runtime : RuntimeText] /\ m.state.bindings = d.state.bindings
    BY <1>d, <1>mem DEF StateText
  <2>. HIDE DEF m
  <2>. QED BY <2>1, <2>2, <1>d, <1>type, <1>file, SaveOf
<1>19. ASSUME NEW fs \in (SUBSET File) \ {{}}, OtherSave(fs) PROVE KeptInv'
  <2>1. /\ pc["daemon"] = "ready" /\ UNCHANGED <<file, job, opened, said>>
        /\ Saving("daemon", mem["daemon"], fs)
        /\ said \subseteq mem["daemon"].state.bindings /\ opened["daemon"]
    BY <1>19, <1>d, <1>type DEF OtherSave, Files, Keeps, InUse
  <2>2. fs \in SUBSET File /\ fs # {}
    OBVIOUS
  <2>3. job["daemon"].do # "add-binding"
    BY <2>1, <1>d, <1>type DEF TypeOK, Jobs
  <2>4. mem["daemon"] \in [state : StateText, runtime : RuntimeText]
    BY <1>d, <1>mem
  <2>. QED BY <2>1, <2>2, <2>3, <2>4, <1>d, <1>type, SaveOf
<1>20. CASE UNCHANGED vars
  BY <1>20, <1>type DEF vars, KeptInv, Alone, SavedIsKept, Files, Keeps, InUse, Saves,
                        Current, Text
<1>. QED
  BY <1>1, <1>2, <1>3, <1>4, <1>5, <1>6, <1>7, <1>8, <1>9, <1>10, <1>11, <1>12,
     <1>13, <1>14, <1>15, <1>16, <1>17, <1>18, <1>19, <1>20 DEF Next

THEOREM KeptInvariant == ASSUME ~Beside PROVE Spec => []KeptInv
BY KeptInit, KeptNext, PTL DEF Spec

\* A binding that add-binding reported as saved is in the state file until one of
\* its nodes is deleted, however processes crash and saves fail.
THEOREM SavedStays == ASSUME ~Beside PROVE Spec => []SavedIsKept
<1>1. KeptInv => SavedIsKept
  BY DEF KeptInv
<1>. QED BY <1>1, KeptInvariant, PTL

-----------------------------------------------------------------------------
(***************************************************************************)
(* The promise of KeptBindings.                                            *)
(***************************************************************************)
\* What the process that runs holds: the store it has read, or what it will find.
LEMMA HeldNow ==
  ASSUME Alone, NEW p \in Process, pc[p] # "down"
  PROVE  Held = IF pc[p] = "read state" THEN Bindings(file["state"])
                                        ELSE mem[p].state.bindings
<1>1. \A q \in Process : q # p => pc[q] = "down"
  BY DEF Alone
<1>2. CASE pc[p] = "read state"
  <2>1. Loaded = {}
    BY <1>1, <1>2 DEF Loaded
  <2>. QED BY <1>2, <2>1 DEF Held
<1>3. CASE pc[p] # "read state"
  <2>1. Loaded = {p}
    BY <1>1, <1>3 DEF Loaded
  <2>2. UNION {mem[q].state.bindings : q \in {p}} = mem[p].state.bindings
    OBVIOUS
  <2>. QED BY <1>3, <2>1, <2>2 DEF Held
<1>. QED BY <1>2, <1>3

\* What it holds after a step that it does not end with.
LEMMA HeldNext ==
  ASSUME Alone, NEW p \in Process, pc[p] # "down",
         \A q \in Process : q # p => pc'[q] = pc[q],
         pc'[p] \notin {"down", "read state"}
  PROVE  Held' = mem'[p].state.bindings
<1>1. \A q \in Process : q # p => pc'[q] = "down"
  BY DEF Alone
<1>2. Loaded' = {p}
  BY <1>1 DEF Loaded
<1>3. UNION {mem'[q].state.bindings : q \in {p}} = mem'[p].state.bindings
  OBVIOUS
<1>. QED BY <1>2, <1>3 DEF Held

\* The end of a process closes its store.
LEMMA Closes ==
  ASSUME KeptInv, NEW p \in Process, pc[p] # "down", Stops(p), UNCHANGED <<file, said>>
  PROVE  Promise!Next
<1>1. \A q \in Process : pc'[q] = "down"
  BY DEF KeptInv, TypeOK, Alone, Stops
<1>2. Loaded' = {}
  BY <1>1 DEF Loaded
<1>3. Held' = Bindings(file["state"])
  BY <1>2 DEF Held
<1>. QED BY <1>3 DEF Promise!Next, Promise!Close

\* A step that leaves the bindings of the state file, those of the store and the
\* reports as they are changes nothing.
LEMMA HoldsStill ==
  ASSUME KeptInv, NEW p \in Process, pc[p] \notin {"down", "read state"},
         \A q \in Process : q # p => pc'[q] = pc[q],
         pc'[p] \notin {"down", "read state"},
         mem'[p].state.bindings = mem[p].state.bindings,
         UNCHANGED <<file["state"], said>>
  PROVE  UNCHANGED Promise!vars
<1>1. Held = mem[p].state.bindings
  BY HeldNow DEF KeptInv
<1>2. Held' = mem'[p].state.bindings
  BY HeldNext DEF KeptInv
<1>3. Bindings(file["state"])' = Bindings(file["state"])
  BY DEF Bindings, Readable
<1>. QED BY <1>1, <1>2, <1>3 DEF Promise!vars

\* A request changes the store and neither the file nor the reports.
LEMMA HoldsSaving ==
  ASSUME KeptInv, NEW p \in Process, pc[p] = "ready", NEW m, NEW fs, Saving(p, m, fs),
         UNCHANGED file
  PROVE  /\ Held = mem[p].state.bindings /\ Held' = m.state.bindings
         /\ Bindings(file["state"])' = Bindings(file["state"])
<1>1. /\ pc'[p] = "truncate" /\ mem'[p] = m
      /\ \A q \in Process : q # p => pc'[q] = pc[q]
  BY DEF KeptInv, TypeOK, Saving
<1>2. Held = mem[p].state.bindings
  BY HeldNow DEF KeptInv
<1>3. Held' = mem'[p].state.bindings
  BY <1>1, HeldNext DEF KeptInv
<1>. QED BY <1>1, <1>2, <1>3

LEMMA PromiseInit == Init => Promise!Init
<1>. SUFFICES ASSUME Init PROVE Promise!Init
  OBVIOUS
<1>1. Bindings(file["state"]) \subseteq Binding
  BY TypeInit DEF TypeOK, Content, File, Bindings, Readable, StateText
<1>2. Loaded = {}
  BY DEF Init, Loaded
<1>3. Held = Bindings(file["state"])
  BY <1>2 DEF Held
<1>4. said = Bindings(file["state"]) \ AutoBindings
  BY DEF Init, File
<1>. QED BY <1>1, <1>3, <1>4 DEF Promise!Init

LEMMA PromiseNext ==
  ASSUME ~Beside, KeptInv, [Next]_vars
  PROVE  [Promise!Next]_(Promise!vars)
<1>. USE DEF disk, history, counters
<1>type. TypeOK /\ Alone /\ \A p \in Process : Files(p) /\ Keeps(p)
  BY DEF KeptInv
<1>mem. \A p \in Process : mem[p] \in [state : StateText, runtime : RuntimeText]
  BY <1>type DEF TypeOK
<1>1. ASSUME NEW p \in Process, NEW j \in Job, Start(p, j) PROVE UNCHANGED Promise!vars
  <2>1. /\ \A q \in Process : pc[q] = "down"
        /\ \A q \in Process : pc'[q] \in {"down", "read state"}
        /\ UNCHANGED <<file, said>>
    BY <1>1, <1>type DEF TypeOK, Start
  <2>2. Loaded = {} /\ Loaded' = {}
    BY <2>1 DEF Loaded
  <2>3. Held = Bindings(file["state"]) /\ Held' = Bindings(file["state"])
    BY <2>1, <2>2 DEF Held
  <2>. QED BY <2>1, <2>3 DEF Promise!vars
<1>2. ASSUME NEW p \in Process, ReadState(p) PROVE UNCHANGED Promise!vars
  <2>1. /\ pc[p] = "read state" /\ UNCHANGED <<file, said>> /\ file["state"] # Torn
    BY <1>2 DEF ReadState
  <2>2. Held = Bindings(file["state"])
    BY <2>1, <1>type, HeldNow
  <2>3. /\ \A q \in Process : q # p => pc'[q] = pc[q]
        /\ pc'[p] \notin {"down", "read state"}
        /\ mem'[p].state.bindings = Bindings(file["state"])
    <3>1. CASE file["state"] = None
      <4>1. pc' = [pc EXCEPT ![p] = "truncate"] /\ mem' = [mem EXCEPT ![p] = NewStore]
        BY <1>2, <3>1 DEF ReadState, Saving
      <4>2. NewStore.state.bindings = {} /\ Bindings(file["state"]) = {}
        BY <3>1 DEF NewStore, NewState, Bindings, Readable
      <4>3. mem'[p] = NewStore
        BY <4>1, <1>type DEF TypeOK
      <4>. QED BY <4>1, <4>2, <4>3, <1>type DEF TypeOK
    <3>2. CASE file["state"] # None
      <4>. DEFINE t == IF file["state"] = Empty THEN NewState ELSE file["state"]
      <4>1. /\ pc' = [pc EXCEPT ![p] = "read runtime"]
            /\ mem' = [mem EXCEPT ![p] = [state |-> t, runtime |-> NewRuntime]]
        BY <1>2, <3>2 DEF ReadState
      <4>2. t.bindings = Bindings(file["state"])
        BY <2>1, <3>2 DEF NewState, Bindings, Readable
      <4>. HIDE DEF t
      <4>3. mem'[p].state = t
        BY <4>1, <1>type DEF TypeOK
      <4>. QED BY <4>1, <4>2, <4>3, <1>type DEF TypeOK
    <3>. QED BY <3>1, <3>2
  <2>4. Held' = mem'[p].state.bindings
    BY <2>1, <2>3, <1>type, HeldNext
  <2>. QED BY <2>1, <2>2, <2>3, <2>4 DEF Promise!vars
<1>3. ASSUME NEW p \in Process, ReadRuntime(p) PROVE UNCHANGED Promise!vars
  <2>. DEFINE m == [state |-> Cleared(mem[p].state),
                    runtime |-> Migrated(mem[p].state, file["runtime"])]
  <2>1. pc[p] = "read runtime" /\ UNCHANGED <<file, said>> /\ Saving(p, m, File)
    BY <1>3 DEF ReadRuntime
  <2>2. m.state.bindings = mem[p].state.bindings
    BY <1>mem, Texts
  <2>. HIDE DEF m
  <2>3. /\ pc'[p] = "truncate" /\ mem'[p] = m
        /\ \A q \in Process : q # p => pc'[q] = pc[q]
    BY <2>1, <1>type DEF TypeOK, Saving
  <2>. QED BY <2>1, <2>2, <2>3, HoldsStill
<1>4. ASSUME NEW p \in Process, Refused(p) PROVE Promise!Next
  BY <1>4, Closes DEF Refused
<1>5. ASSUME NEW p \in Process, Truncate(p) \/ Write(p) PROVE UNCHANGED Promise!vars
  <2>1. /\ pc[p] \in {"truncate", "write"} /\ pc'[p] \in {"write", "rename"}
        /\ \A q \in Process : q # p => pc'[q] = pc[q]
        /\ UNCHANGED <<mem, said>>
    BY <1>5, <1>type DEF Truncate, Write, TypeOK
  <2>2. file' = file
    BY <1>5, <1>type DEF Truncate, Write, Files
  <2>. QED BY <2>1, <2>2, HoldsStill
<1>6. ASSUME NEW p \in Process, Rename(p) PROVE [Promise!Next]_(Promise!vars)
  <2>. DEFINE f == Current(p)
  <2>1. /\ pc[p] = "rename" /\ pc'[p] \in {"saved", "truncate"}
        /\ \A q \in Process : q # p => pc'[q] = pc[q]
        /\ file' = [file EXCEPT ![f] = tmp[f]]
        /\ UNCHANGED <<mem, said>>
    BY <1>6, <1>type DEF Rename, TypeOK
  <2>2. tmp[f] = Text(p, f) /\ f \in File
    BY <2>1, <1>type DEF Files, Current, File, Saves
  <2>3. DOMAIN file = File /\ "state" \in File
    BY <1>type DEF TypeOK, File
  <2>4. CASE f = "state"
    <3>1. file'["state"] = Cleared(mem[p].state)
      BY <2>1, <2>2, <2>3, <2>4 DEF Text
    <3>2. /\ Cleared(mem[p].state) \in StateText
          /\ Cleared(mem[p].state).bindings = mem[p].state.bindings
      BY <1>mem, Texts
    <3>3. Bindings(file["state"])' = mem[p].state.bindings
      BY <3>1, <3>2, PersistenceAssumption DEF Bindings, Readable
    <3>4. Held = mem[p].state.bindings /\ Held' = mem[p].state.bindings
      BY <2>1, <1>type, HeldNow, HeldNext
    <3>. QED BY <2>1, <3>3, <3>4 DEF Promise!Next, Promise!Save
  <2>5. CASE f # "state"
    <3>1. file'["state"] = file["state"]
      BY <2>1, <2>3, <2>5
    <3>. QED BY <2>1, <3>1, HoldsStill
  <2>. QED BY <2>4, <2>5
<1>7. ASSUME NEW p \in Process, SaveFails(p) PROVE [Promise!Next]_(Promise!vars)
  <2>1. pc[p] \in {"truncate", "write", "rename"} /\ UNCHANGED <<file, said>>
    BY <1>7 DEF SaveFails
  <2>2. CASE p = "daemon" /\ opened[p]
    <3>1. pc' = [pc EXCEPT ![p] = "ready"] /\ UNCHANGED mem
      BY <1>7, <2>2 DEF SaveFails
    <3>2. pc'[p] = "ready" /\ \A q \in Process : q # p => pc'[q] = pc[q]
      BY <3>1, <1>type DEF TypeOK
    <3>. QED BY <2>1, <3>1, <3>2, HoldsStill
  <2>3. CASE ~(p = "daemon" /\ opened[p])
    BY <1>7, <2>1, <2>3, Closes DEF SaveFails
  <2>. QED BY <2>2, <2>3
<1>8. ASSUME NEW p \in Process, Crash(p) PROVE Promise!Next
  BY <1>8, Closes DEF Crash
<1>9. ASSUME NEW p \in Process, OpenReturns(p) PROVE UNCHANGED Promise!vars
  <2>1. /\ pc[p] = "saved" /\ pc'[p] = "ready"
        /\ \A q \in Process : q # p => pc'[q] = pc[q]
        /\ UNCHANGED <<file, mem, said>>
    BY <1>9, <1>type DEF OpenReturns, TypeOK
  <2>. QED BY <2>1, HoldsStill
<1>10. ASSUME NEW p \in Process, CallReturns(p) PROVE [Promise!Next]_(Promise!vars)
  <2>. DEFINE adds == job[p].do = "add-binding"
              b == job[p].binding
  <2>1. /\ pc[p] = "saved" /\ opened[p] /\ file' = file
        /\ said' = IF adds THEN said \cup {b} ELSE said
    BY <1>10 DEF CallReturns
  <2>2. CASE p = "daemon"
    <3>1. ~adds
      BY <2>1, <2>2, <1>type DEF TypeOK, Jobs
    <3>2. pc' = [pc EXCEPT ![p] = "ready"] /\ UNCHANGED mem
      BY <1>10, <2>2 DEF CallReturns
    <3>3. pc'[p] = "ready" /\ \A q \in Process : q # p => pc'[q] = pc[q]
      BY <3>2, <1>type DEF TypeOK
    <3>. QED BY <2>1, <3>1, <3>2, <3>3, HoldsStill
  <2>3. CASE p # "daemon" /\ ~adds
    BY <1>10, <2>1, <2>3, Closes DEF CallReturns
  <2>4. CASE p # "daemon" /\ adds
    <3>1. left[p] = {}
      BY <2>1, <1>type DEF Files
    <3>2. b \in mem[p].state.bindings /\ mem[p].state.bindings = Bindings(file["state"])
      BY <2>1, <2>4, <3>1, <1>type DEF Keeps
    <3>3. Held = mem[p].state.bindings
      BY <2>1, <1>type, HeldNow
    <3>4. Held' = Bindings(file["state"])
      <4>1. Stops(p)
        BY <1>10, <2>4 DEF CallReturns
      <4>2. \A q \in Process : pc'[q] = "down"
        BY <2>1, <4>1, <1>type DEF TypeOK, Alone, Stops
      <4>3. Loaded' = {}
        BY <4>2 DEF Loaded
      <4>. QED BY <2>1, <4>3 DEF Held
    <3>5. b \in Binding \ AutoBindings
      <4>1. job[p] \in Job \cup {NoJob}
        BY <1>type DEF TypeOK
      <4>. QED BY <2>4, <4>1, JobTypes
    <3>6. Promise!Report(b)
      BY <2>1, <2>4, <3>2, <3>3, <3>4 DEF Promise!Report
    <3>. QED BY <3>5, <3>6 DEF Promise!Next
  <2>. QED BY <2>2, <2>3, <2>4
<1>11. ASSUME NEW p \in Process, InitFile(p) PROVE UNCHANGED Promise!vars
  BY <1>11, HoldsSaving DEF InitFile, Promise!vars
<1>12. ASSUME NEW p \in Process, CreateNode(p) PROVE UNCHANGED Promise!vars
  <2>. DEFINE m == [mem[p] EXCEPT !.state.nodes = @ \cup {job[p].node}]
  <2>1. pc[p] = "ready" /\ UNCHANGED <<file, said>> /\ Saving(p, m, File)
    BY <1>12 DEF CreateNode
  <2>2. m.state.bindings = mem[p].state.bindings
    BY <1>mem DEF StateText
  <2>. HIDE DEF m
  <2>. QED BY <2>1, <2>2, HoldsSaving DEF Promise!vars
<1>13. ASSUME NEW p \in Process, AddBinding(p) PROVE Promise!Next
  <2>. DEFINE b == job[p].binding
              m == [mem[p] EXCEPT !.state.bindings = @ \cup {b}]
  <2>1. /\ pc[p] = "ready" /\ job[p].do = "add-binding" /\ UNCHANGED <<file, said>>
        /\ Saving(p, m, File)
    BY <1>13 DEF AddBinding
  <2>2. m.state.bindings = mem[p].state.bindings \cup {b}
    BY <1>mem DEF StateText
  <2>3. b \in Binding \ AutoBindings
    <3>1. job[p] \in Job \cup {NoJob}
      BY <1>type DEF TypeOK
    <3>. QED BY <2>1, <3>1, JobTypes
  <2>. HIDE DEF m, b
  <2>4. Promise!Add(b)
    BY <2>1, <2>2, HoldsSaving DEF Promise!Add
  <2>. QED BY <2>3, <2>4 DEF Promise!Next
<1>d. "daemon" \in Process /\ {"runtime"} \in SUBSET File
  BY DEF Process, File
<1>. DEFINE d == mem["daemon"]
<1>14. ASSUME NEW n \in Node, DeleteNode(n) PROVE Promise!Next
  <2>. DEFINE m == [state |-> [d.state EXCEPT !.nodes = @ \ {n}, !.bindings = @ \ BindingsOf(n)],
                    runtime |-> Without(d, BindingsOf(n))]
  <2>1. /\ pc["daemon"] = "ready" /\ UNCHANGED file
        /\ said' = said \ BindingsOf(n) /\ Saving("daemon", m, File)
    BY <1>14 DEF DeleteNode
  <2>2. m.state.bindings = d.state.bindings \ BindingsOf(n)
    BY <1>d, <1>mem DEF StateText
  <2>3. d.state.bindings \subseteq Binding /\ said \subseteq Binding
    BY <1>d, <1>mem, <1>type DEF StateText, TypeOK
  <2>. HIDE DEF m
  <2>4. \A S \in SUBSET Binding : S \ BindingsOf(n) = {b \in S : n \notin Ends[b]}
    BY DEF BindingsOf
  <2>5. Promise!Delete(n)
    BY <2>1, <2>2, <2>3, <2>4, <1>d, HoldsSaving DEF Promise!Delete
  <2>. QED BY <2>5 DEF Promise!Next
<1>15. ASSUME NEW B \in SUBSET AutoBindings, Reconcile(B) PROVE Promise!Next
  <2>. DEFINE m == [state |-> [d.state EXCEPT !.bindings = (@ \ AutoBindings) \cup B],
                    runtime |-> Without(d, AutoBindings \ B)]
  <2>1. pc["daemon"] = "ready" /\ UNCHANGED <<file, said>> /\ Saving("daemon", m, File)
    BY <1>15 DEF Reconcile
  <2>2. m.state.bindings = (d.state.bindings \ AutoBindings) \cup B
    BY <1>d, <1>mem DEF StateText
  <2>. HIDE DEF m
  <2>3. Promise!Reconcile(B)
    BY <2>1, <2>2, <1>d, HoldsSaving DEF Promise!Reconcile
  <2>. QED BY <2>3 DEF Promise!Next
<1>16. ASSUME NEW b \in Binding, SaveEndpointLease(b) PROVE UNCHANGED Promise!vars
  <2>. DEFINE m == [d EXCEPT !.runtime.endpoints = @ \cup {b}]
  <2>1. /\ pc["daemon"] = "ready" /\ UNCHANGED <<file, said>>
        /\ Saving("daemon", m, {"runtime"})
    BY <1>16 DEF SaveEndpointLease
  <2>2. m.state = d.state
    BY <1>d, <1>mem DEF RuntimeText
  <2>. HIDE DEF m
  <2>. QED BY <2>1, <2>2, <1>d, HoldsSaving DEF Promise!vars
<1>17. ASSUME NEW n \in Node, Register(n) PROVE UNCHANGED Promise!vars
  <2>. DEFINE m == [d EXCEPT !.state.nodes = @ \cup {n}]
  <2>1. pc["daemon"] = "ready" /\ UNCHANGED <<file, said>> /\ Saving("daemon", m, File)
    BY <1>17 DEF Register
  <2>2. m.state.bindings = d.state.bindings
    BY <1>d, <1>mem DEF StateText
  <2>. HIDE DEF m
  <2>. QED BY <2>1, <2>2, <1>d, HoldsSaving DEF Promise!vars
<1>18. ASSUME NEW fs \in SUBSET File, OtherSave(fs) PROVE UNCHANGED Promise!vars
  BY <1>18, <1>d, HoldsSaving DEF OtherSave, Promise!vars
<1>19. CASE UNCHANGED vars
  <2>1. Loaded' = Loaded
    BY <1>19 DEF vars, Loaded
  <2>2. Held' = Held
    BY <1>19, <2>1 DEF vars, Held
  <2>. QED BY <1>19, <2>2 DEF vars, Promise!vars
<1>. QED
  BY <1>1, <1>2, <1>3, <1>4, <1>5, <1>6, <1>7, <1>8, <1>9, <1>10, <1>11, <1>12,
     <1>13, <1>14, <1>15, <1>16, <1>17, <1>18, <1>19 DEF Next

\* The files and the processes that write them implement KeptBindings: what the next
\* Open finds is at any time the store as some save had it, with whole requests and
\* all of them, and a binding is reported only after that save.
THEOREM Refinement == ASSUME ~Beside PROVE Spec => ImplementsPromise
<1>1. ~Beside /\ KeptInv /\ [Next]_vars => [Promise!Next]_(Promise!vars)
  BY PromiseNext
<1>. QED
  BY <1>1, PromiseInit, KeptInvariant, PTL DEF Spec, ImplementsPromise, Promise!Spec

\* KeptBindings is enough for what an administrator is told: whatever implements it
\* keeps every binding reported as saved.
THEOREM PromiseIsEnough == Promise!Spec => []SavedIsKept
<1>. DEFINE Backed == said \subseteq (Bindings(file["state"]) \cap Held) \ AutoBindings
<1>1. Promise!Init => Backed
  BY DEF Promise!Init
<1>2. Backed /\ [Promise!Next]_(Promise!vars) => Backed'
  BY DEF Promise!Next, Promise!vars, Promise!Add, Promise!Delete, Promise!Reconcile,
         Promise!Save, Promise!Report, Promise!Close
<1>3. Backed => SavedIsKept
  BY DEF SavedIsKept
<1>. HIDE DEF Backed
<1>. QED BY <1>1, <1>2, <1>3, PTL DEF Promise!Spec
-----------------------------------------------------------------------------
(***************************************************************************)
(* The migration of an old state file.                                     *)
(***************************************************************************)
\* What Open and the calls after it carry of the old endpoints and events.
Moves(p) ==
  /\ pc[p] = "read runtime" /\ log = 0 => mem[p].state.oldEvents
  /\ InUse(p) => log # 0
  /\ ~cut =>
       /\ pc[p] = "read runtime" =>
            owed \subseteq mem[p].state.oldEndpoints \cup Endpoints(file["runtime"])
       /\ InUse(p) => owed \subseteq mem[p].runtime.endpoints
       /\ opened[p] \/ pc[p] = "saved" => owed \subseteq Endpoints(file["runtime"])

EventsKept == log = 0 => Readable(file["state"]) /\ file["state"].oldEvents

\* The files have the old endpoints, except between the two renames of an Open.
OnDisk == owed \subseteq OldEndpoints(file["state"]) \cup Endpoints(file["runtime"])
Opening(p) == HalfSaved(p) /\ ~opened[p]
NoneOwed == file["state"] = None => owed = {}
FilesMove == ~cut /\ (\A p \in Process : ~Opening(p)) => OnDisk

MoveInv == KeptInv /\ EventsKept /\ NoneOwed /\ FilesMove /\ \A p \in Process : Moves(p)

LEMMA MoveInit == Init => MoveInv
<1>. SUFFICES ASSUME Init PROVE MoveInv
  OBVIOUS
<1>1. EventsKept /\ NoneOwed /\ OnDisk
  BY DEF Init, EventsKept, NoneOwed, OnDisk, Readable, OldEndpoints, File
<1>2. \A p \in Process : Moves(p)
  BY DEF Init, Moves, InUse, Saves
<1>. QED BY <1>1, <1>2, KeptInit DEF MoveInv, FilesMove

LEMMA MoveImplies == MoveInv => MigrationKept
<1>. SUFFICES ASSUME MoveInv, ~cut
              PROVE  owed \subseteq OldEndpoints(file["state"]) \cup Endpoints(file["runtime"])
                       \cup UNION {mem[p].runtime.endpoints : p \in {q \in Process : HalfSaved(q)}}
  BY DEF MoveInv, EventsKept, MigrationKept
<1>1. CASE \E p \in Process : Opening(p)
  <2>1. PICK p \in Process : Opening(p)
    BY <1>1
  <2>2. owed \subseteq mem[p].runtime.endpoints
    BY <2>1 DEF MoveInv, Moves, Opening, HalfSaved, InUse, Saves
  <2>. QED BY <2>1, <2>2 DEF Opening
<1>2. CASE \A p \in Process : ~Opening(p)
  BY <1>2 DEF MoveInv, FilesMove, OnDisk
<1>. QED BY <1>1, <1>2

\* A step of process p alone that leaves the files and the flags as they are.
LEMMA MoveStepOf ==
  ASSUME MoveInv, KeptInv', NEW p \in Process, pc[p] # "down",
         \A q \in Process : q # p => pc'[q] = pc[q],
         EventsKept', NoneOwed', FilesMove', pc'[p] # "down" => Moves(p)'
  PROVE  MoveInv'
<1>1. \A q \in Process \ {p} : pc'[q] = "down"
  BY OthersAreDown DEF MoveInv, KeptInv
<1>2. ASSUME NEW q \in Process, pc'[q] = "down" PROVE Moves(q)'
  BY <1>2 DEF KeptInv, TypeOK, Moves, InUse, Saves
<1>. QED BY <1>1, <1>2 DEF MoveInv

LEMMA MoveSaveOf ==
  ASSUME MoveInv, KeptInv', NEW p \in Process, pc[p] # "down", ~Saves(p),
         NEW m, NEW fs \in SUBSET File, Saving(p, m, fs),
         opened[p] \/ fs = File,
         UNCHANGED <<file, opened, cut>>, owed' \subseteq owed,
         log' # 0,
         ~cut => owed' \subseteq m.runtime.endpoints
  PROVE  MoveInv'
<1>1. /\ pc'[p] = "truncate" /\ mem'[p] = m /\ left'[p] = fs
      /\ \A q \in Process : q # p => pc'[q] = pc[q]
  BY DEF MoveInv, KeptInv, TypeOK, Saving
<1>2. \A q \in Process : ~Opening(q)
  <2>1. \A q \in Process \ {p} : pc[q] = "down"
    BY DEF MoveInv, KeptInv, Alone
  <2>. QED BY <2>1 DEF Opening, HalfSaved, Saves
<1>3. FilesMove'
  BY <1>2 DEF MoveInv, FilesMove, OnDisk
<1>4. Moves(p)'
  BY <1>1 DEF MoveInv, Moves, InUse, Saves
<1>. QED BY <1>1, <1>3, <1>4, MoveStepOf DEF MoveInv, EventsKept, NoneOwed

\* Process p ends, in the course of a save or not.
LEMMA MoveStopOf ==
  ASSUME MoveInv, KeptInv', NEW p \in Process, pc[p] # "down", Stops(p),
         UNCHANGED <<file, owed, log>>, (cut => cut'),
         Opening(p) => cut'
  PROVE  MoveInv'
<1>1. pc'[p] = "down" /\ \A q \in Process : q # p => pc'[q] = pc[q]
  BY DEF MoveInv, KeptInv, TypeOK, Stops
<1>2. \A q \in Process \ {p} : ~Opening(q)
  BY DEF MoveInv, KeptInv, Alone, Opening, HalfSaved
<1>3. FilesMove'
  BY <1>2 DEF MoveInv, FilesMove, OnDisk
<1>4. EventsKept' /\ NoneOwed'
  BY DEF MoveInv, EventsKept, NoneOwed
<1>. QED BY <1>1, <1>3, <1>4, MoveStepOf

LEMMA MoveNext == ~Beside /\ MoveInv /\ [Next]_vars => MoveInv'
<1>. SUFFICES ASSUME ~Beside, MoveInv, [Next]_vars PROVE MoveInv'
  OBVIOUS
<1>. USE DEF disk, history, counters
<1>kept. KeptInv /\ KeptInv' /\ TypeOK /\ Alone /\ \A p \in Process : Files(p) /\ Moves(p)
  BY KeptNext DEF MoveInv, KeptInv
<1>mem. \A p \in Process : mem[p] \in [state : StateText, runtime : RuntimeText]
  BY <1>kept DEF TypeOK
<1>1. ASSUME NEW p \in Process, NEW j \in Job, Start(p, j) PROVE MoveInv'
  <2>1. /\ \A q \in Process : pc[q] = "down"
        /\ pc'[p] = "read state" /\ \A q \in Process : q # p => pc'[q] = "down"
        /\ UNCHANGED <<file, owed, cut, log, opened>>
    BY <1>1, <1>kept DEF TypeOK, Start
  <2>2. EventsKept' /\ NoneOwed' /\ FilesMove'
    BY <2>1 DEF MoveInv, EventsKept, NoneOwed, FilesMove, OnDisk, Opening, HalfSaved
  <2>3. \A q \in Process : ~opened[q]
    BY <2>1, <1>kept DEF TypeOK
  <2>4. \A q \in Process : pc'[q] \in {"down", "read state"}
    BY <2>1
  <2>5. ASSUME NEW q \in Process PROVE Moves(q)'
    BY <2>1, <2>3, <2>4 DEF Moves, InUse, Saves
  <2>. QED BY <1>kept, <2>2, <2>5 DEF MoveInv
<1>2. ASSUME NEW p \in Process, ReadState(p) PROVE MoveInv'
  <2>1. /\ pc[p] = "read state" /\ ~opened[p]
        /\ UNCHANGED <<file, opened, owed, cut, log>>
    BY <1>2, <1>kept DEF ReadState, Files, InUse, Saves
  <2>2. \A q \in Process : ~Opening(q)
    BY <2>1, <1>kept DEF Alone, Opening, HalfSaved
  <2>3. ~cut => OnDisk
    BY <2>2 DEF MoveInv, FilesMove
  <2>4. CASE file["state"] = None
    <3>1. log # 0
      BY <2>4 DEF MoveInv, EventsKept, Readable
    <3>2. owed = {}
      BY <2>4 DEF MoveInv, NoneOwed
    <3>3. Saving(p, NewStore, File)
      BY <1>2, <2>4 DEF ReadState
    <3>. QED BY <2>1, <3>1, <3>2, <3>3, <1>kept, MoveSaveOf DEF Saves
  <2>5. CASE file["state"] # None
    <3>. DEFINE r == [state |-> IF file["state"] = Empty THEN NewState ELSE file["state"],
                      runtime |-> NewRuntime]
    <3>1. mem' = [mem EXCEPT ![p] = r] /\ pc' = [pc EXCEPT ![p] = "read runtime"]
      BY <1>2, <2>5 DEF ReadState
    <3>2. r.state = IF file["state"] = Empty THEN NewState ELSE file["state"]
      OBVIOUS
    <3>. HIDE DEF r
    <3>3. /\ pc'[p] = "read runtime" /\ \A q \in Process : q # p => pc'[q] = pc[q]
          /\ mem'[p].state = IF file["state"] = Empty THEN NewState ELSE file["state"]
      BY <3>1, <3>2, <1>kept DEF TypeOK
    <3>4. file["state"] # Torn
      BY <1>2 DEF ReadState
    <3>5. log = 0 => mem'[p].state.oldEvents
      BY <3>3 DEF MoveInv, EventsKept, Readable
    <3>6. ~cut =>
            owed \subseteq mem'[p].state.oldEndpoints \cup Endpoints(file["runtime"])
      BY <2>3, <2>5, <3>3, <3>4 DEF OnDisk, OldEndpoints, Readable
    <3>7. Moves(p)'
      BY <2>1, <3>3, <3>5, <3>6 DEF Moves, InUse, Saves
    <3>8. EventsKept' /\ NoneOwed' /\ FilesMove'
      BY <2>1, <2>2 DEF MoveInv, EventsKept, NoneOwed, FilesMove, OnDisk
    <3>. QED BY <2>1, <3>3, <3>7, <3>8, <1>kept, MoveStepOf
  <2>. QED BY <2>4, <2>5
<1>3. ASSUME NEW p \in Process, ReadRuntime(p) PROVE MoveInv'
  <2>. DEFINE m == [state |-> Cleared(mem[p].state),
                    runtime |-> Migrated(mem[p].state, file["runtime"])]
  <2>1. /\ pc[p] = "read runtime" /\ UNCHANGED <<file, opened, owed, cut>>
        /\ Saving(p, m, File)
        /\ log' = log + (IF mem[p].state.oldEvents THEN 1 ELSE 0)
    BY <1>3 DEF ReadRuntime
  <2>2. log' # 0
    <3>1. log \in Nat /\ (log = 0 => mem[p].state.oldEvents)
      BY <2>1, <1>kept DEF TypeOK, Moves
    <3>2. CASE mem[p].state.oldEvents
      <4>1. log' = log + 1
        BY <2>1, <3>2
      <4>. QED BY <3>1, <4>1
    <3>3. CASE ~mem[p].state.oldEvents
      <4>1. log' = log + 0
        BY <2>1, <3>3
      <4>2. log # 0
        BY <3>1, <3>3
      <4>. QED BY <3>1, <4>1, <4>2
    <3>. QED BY <3>2, <3>3
  <2>3. ~cut => owed' \subseteq m.runtime.endpoints
    BY <2>1, <1>kept DEF Moves, Migrated
  <2>. HIDE DEF m
  <2>. QED BY <2>1, <2>2, <2>3, <1>kept, MoveSaveOf DEF Saves
<1>4. ASSUME NEW p \in Process, Refused(p) PROVE MoveInv'
  <2>1. ~Opening(p) /\ pc[p] # "down"
    BY <1>4 DEF Refused, Opening, HalfSaved
  <2>. QED BY <1>4, <2>1, <1>kept, MoveStopOf DEF Refused
<1>5. ASSUME NEW p \in Process, Truncate(p) \/ Write(p) PROVE MoveInv'
  <2>1. /\ pc[p] \in {"truncate", "write"} /\ pc'[p] \in {"write", "rename"}
        /\ \A q \in Process : q # p => pc'[q] = pc[q]
        /\ UNCHANGED <<opened, mem, left, owed, cut, log>>
    BY <1>5, <1>kept DEF Truncate, Write, TypeOK
  <2>2. file' = file
    BY <1>5, <1>kept DEF Truncate, Write, Files
  <2>3. \A q \in Process : Opening(q)' <=> Opening(q)
    BY <2>1 DEF Opening, HalfSaved
  <2>4. EventsKept' /\ NoneOwed' /\ FilesMove'
    BY <2>1, <2>2, <2>3 DEF MoveInv, EventsKept, NoneOwed, FilesMove, OnDisk
  <2>5. Moves(p)'
    BY <2>1, <2>2, <1>kept DEF Moves, InUse, Saves
  <2>. QED BY <2>1, <2>4, <2>5, <1>kept, MoveStepOf
<1>6. ASSUME NEW p \in Process, Rename(p) PROVE MoveInv'
  <2>. DEFINE f == Current(p)
  <2>1. /\ pc[p] = "rename" /\ left' = [left EXCEPT ![p] = @ \ {f}]
        /\ pc'[p] = IF left[p] = {f} THEN "saved" ELSE "truncate"
        /\ \A q \in Process : q # p => pc'[q] = pc[q]
        /\ file' = [file EXCEPT ![f] = tmp[f]]
        /\ UNCHANGED <<opened, mem, owed, cut, log>>
    BY <1>6, <1>kept DEF Rename, TypeOK
  <2>2. /\ tmp[f] = Text(p, f) /\ f \in File /\ left[p] # {} /\ left[p] \subseteq File
        /\ "state" \in left[p] /\ ~opened[p] => "runtime" \in left[p]
        /\ f = IF "state" \in left[p] THEN "state" ELSE "runtime"
    BY <2>1, <1>kept DEF Files, Current, File, TypeOK, Saves
  <2>3. /\ log # 0
        /\ ~cut => /\ owed \subseteq mem[p].runtime.endpoints
                   /\ opened[p] => owed \subseteq Endpoints(file["runtime"])
    BY <2>1, <1>kept DEF Moves, InUse, Saves
  <2>4. f = "runtime" => file'["state"] = file["state"]
                         /\ Endpoints(file'["runtime"]) = mem[p].runtime.endpoints
    <3>1. f = "runtime" => file'["runtime"] = mem[p].runtime
      BY <2>1, <2>2, <1>kept DEF Text, TypeOK
    <3>2. Readable(mem[p].runtime)
      BY <1>kept, PersistenceAssumption DEF TypeOK, Readable
    <3>3. f = "runtime" => file'["state"] = file["state"]
      BY <2>1, <1>kept DEF TypeOK, File
    <3>. QED BY <3>1, <3>2, <3>3 DEF Endpoints
  <2>5. f = "state" => file'["runtime"] = file["runtime"] /\ file'["state"] # None
    <3>1. Cleared(mem[p].state) # None
      BY <1>kept, Texts, PersistenceAssumption DEF TypeOK
    <3>. QED BY <2>1, <2>2, <3>1, <1>kept DEF Text, TypeOK, File
  <2>half. f = "state" /\ ~opened[p] => left'[p] = {"runtime"} /\ pc'[p] = "truncate"
    <3>1. f = "state" /\ ~opened[p] => left[p] = File
      BY <2>2 DEF File
    <3>2. left'[p] = left[p] \ {f}
      BY <2>1, <1>kept DEF TypeOK
    <3>3. f = "state" /\ ~opened[p] => left'[p] = {"runtime"}
      BY <3>1, <3>2 DEF File
    <3>4. f = "state" /\ ~opened[p] => left[p] # {f}
      BY <3>1 DEF File
    <3>5. f = "state" /\ ~opened[p] => pc'[p] = "truncate"
      BY <2>1, <3>4
    <3>. QED BY <3>3, <3>5
  <2>6. EventsKept' /\ NoneOwed'
    BY <2>1, <2>2, <2>3, <2>4, <2>5 DEF MoveInv, EventsKept, NoneOwed, File
  <2>7. FilesMove'
    <3>. SUFFICES ASSUME ~cut, ~Opening(p)' PROVE OnDisk'
      BY <2>1 DEF FilesMove
    <3>1. CASE f = "runtime"
      BY <2>1, <2>3, <2>4, <3>1 DEF OnDisk
    <3>2. CASE f = "state"
      <4>1. opened[p]
        BY <2>1, <2>half, <3>2 DEF Opening, HalfSaved
      <4>. QED BY <2>1, <2>3, <2>5, <3>2, <4>1 DEF OnDisk
    <3>. QED BY <2>2, <3>1, <3>2 DEF File
  <2>8. Moves(p)'
    <3>1. pc'[p] = "saved" /\ f = "state" => opened[p]
      BY <2>half
    <3>2. CASE f = "runtime"
      BY <2>1, <2>3, <2>4, <3>2 DEF Moves, InUse, Saves
    <3>3. CASE f = "state"
      BY <2>1, <2>3, <2>5, <3>1, <3>3 DEF Moves, InUse, Saves
    <3>. QED BY <2>2, <3>2, <3>3 DEF File
  <2>. QED BY <2>1, <2>6, <2>7, <2>8, <1>kept, MoveStepOf
<1>7. ASSUME NEW p \in Process, SaveFails(p) PROVE MoveInv'
  <2>1. /\ pc[p] # "down" /\ UNCHANGED <<file, owed, log>> /\ (cut => cut')
    BY <1>7 DEF SaveFails
  <2>2. Opening(p) => cut'
    BY <1>7 DEF SaveFails, CutBy, Opening
  <2>3. CASE p = "daemon" /\ opened[p]
    <3>1. /\ pc'[p] = "ready" /\ \A q \in Process : q # p => pc'[q] = pc[q]
          /\ UNCHANGED <<opened, mem>> /\ Saves(p)
      BY <1>7, <2>3, <1>kept DEF SaveFails, TypeOK, Saves
    <3>2. \A q \in Process : ~Opening(q)
      BY <2>1, <2>3, <1>kept DEF Alone, Opening, HalfSaved
    <3>3. EventsKept' /\ NoneOwed' /\ FilesMove'
      BY <2>1, <3>2 DEF MoveInv, EventsKept, NoneOwed, FilesMove, OnDisk
    <3>4. Moves(p)'
      BY <2>1, <3>1, <1>kept DEF Moves, InUse, Saves
    <3>. QED BY <2>1, <3>1, <3>3, <3>4, <1>kept, MoveStepOf
  <2>4. CASE ~(p = "daemon" /\ opened[p])
    BY <1>7, <2>1, <2>2, <2>4, <1>kept, MoveStopOf DEF SaveFails
  <2>. QED BY <2>3, <2>4
<1>8. ASSUME NEW p \in Process, Crash(p) PROVE MoveInv'
  <2>1. Opening(p) => cut'
    BY <1>8 DEF Crash, CutBy, Opening
  <2>. QED BY <1>8, <2>1, <1>kept, MoveStopOf DEF Crash
<1>9. ASSUME NEW p \in Process, OpenReturns(p) PROVE MoveInv'
  <2>1. /\ pc[p] = "saved" /\ pc'[p] = "ready"
        /\ \A q \in Process : q # p => pc'[q] = pc[q]
        /\ UNCHANGED <<file, mem, owed, cut, log>>
    BY <1>9, <1>kept DEF OpenReturns, TypeOK
  <2>2. \A q \in Process : ~Opening(q)
    BY <2>1, <1>kept DEF Alone, Opening, HalfSaved
  <2>3. EventsKept' /\ NoneOwed' /\ FilesMove'
    BY <2>1, <2>2 DEF MoveInv, EventsKept, NoneOwed, FilesMove, OnDisk
  <2>4. Moves(p)'
    BY <2>1, <1>kept DEF Moves, InUse, Saves
  <2>. QED BY <2>1, <2>3, <2>4, <1>kept, MoveStepOf
<1>10. ASSUME NEW p \in Process, CallReturns(p) PROVE MoveInv'
  <2>1. pc[p] = "saved" /\ ~Opening(p) /\ UNCHANGED <<file, owed, cut, log>>
    BY <1>10 DEF CallReturns, Opening, HalfSaved
  <2>2. CASE p = "daemon"
    <3>1. /\ pc'[p] = "ready" /\ \A q \in Process : q # p => pc'[q] = pc[q]
          /\ UNCHANGED <<opened, mem>>
      BY <1>10, <2>2, <1>kept DEF CallReturns, TypeOK
    <3>2. \A q \in Process : ~Opening(q)
      BY <2>1, <1>kept DEF Alone, Opening, HalfSaved
    <3>3. EventsKept' /\ NoneOwed' /\ FilesMove'
      BY <2>1, <3>2 DEF MoveInv, EventsKept, NoneOwed, FilesMove, OnDisk
    <3>4. Moves(p)'
      BY <2>1, <3>1, <1>kept DEF Moves, InUse, Saves
    <3>. QED BY <2>1, <3>1, <3>3, <3>4, <1>kept, MoveStepOf
  <2>3. CASE p # "daemon"
    BY <1>10, <2>1, <2>3, <1>kept, MoveStopOf DEF CallReturns
  <2>. QED BY <2>2, <2>3
<1>call. ASSUME NEW p \in Process, pc[p] = "ready"
         PROVE  /\ opened[p]
                /\ log # 0
                /\ ~cut => owed \subseteq mem[p].runtime.endpoints
  BY <1>call, <1>kept DEF Files, Moves, InUse
<1>11. ASSUME NEW p \in Process, InitFile(p) PROVE MoveInv'
  BY <1>11, <1>call, <1>kept, MoveSaveOf DEF InitFile, Saves
<1>12. ASSUME NEW p \in Process, CreateNode(p) PROVE MoveInv'
  <2>. DEFINE m == [mem[p] EXCEPT !.state.nodes = @ \cup {job[p].node}]
  <2>1. m.runtime = mem[p].runtime
    BY <1>mem DEF StateText
  <2>2. /\ pc[p] = "ready" /\ Saving(p, m, File)
        /\ UNCHANGED <<file, opened, cut, owed, log>>
    BY <1>12 DEF CreateNode
  <2>. HIDE DEF m
  <2>. QED BY <2>1, <2>2, <1>call, <1>kept, MoveSaveOf DEF Saves
<1>13. ASSUME NEW p \in Process, AddBinding(p) PROVE MoveInv'
  <2>. DEFINE m == [mem[p] EXCEPT !.state.bindings = @ \cup {job[p].binding}]
  <2>1. m.runtime = mem[p].runtime
    BY <1>mem DEF StateText
  <2>2. /\ pc[p] = "ready" /\ Saving(p, m, File)
        /\ UNCHANGED <<file, opened, cut, owed, log>>
    BY <1>13 DEF AddBinding
  <2>. HIDE DEF m
  <2>. QED BY <2>1, <2>2, <1>call, <1>kept, MoveSaveOf DEF Saves
<1>d. "daemon" \in Process
  BY DEF Process
<1>. DEFINE d == mem["daemon"]
<1>14. ASSUME NEW n \in Node, DeleteNode(n) PROVE MoveInv'
  <2>. DEFINE m == [state |-> [d.state EXCEPT !.nodes = @ \ {n}, !.bindings = @ \ BindingsOf(n)],
                    runtime |-> Without(d, BindingsOf(n))]
  <2>1. /\ pc["daemon"] = "ready" /\ Saving("daemon", m, File)
        /\ UNCHANGED <<file, opened, cut, log>> /\ owed' = owed \ BindingsOf(n)
    BY <1>14 DEF DeleteNode
  <2>2. ~cut => owed' \subseteq m.runtime.endpoints
    BY <2>1, <1>d, <1>call DEF Without
  <2>. HIDE DEF m
  <2>. QED BY <2>1, <2>2, <1>d, <1>call, <1>kept, MoveSaveOf DEF Saves
<1>15. ASSUME NEW B \in SUBSET AutoBindings, Reconcile(B) PROVE MoveInv'
  <2>. DEFINE m == [state |-> [d.state EXCEPT !.bindings = (@ \ AutoBindings) \cup B],
                    runtime |-> Without(d, AutoBindings \ B)]
  <2>1. /\ pc["daemon"] = "ready" /\ Saving("daemon", m, File)
        /\ UNCHANGED <<file, opened, cut, log>> /\ owed' = owed \ (AutoBindings \ B)
    BY <1>15 DEF Reconcile
  <2>2. ~cut => owed' \subseteq m.runtime.endpoints
    BY <2>1, <1>d, <1>call DEF Without
  <2>. HIDE DEF m
  <2>. QED BY <2>1, <2>2, <1>d, <1>call, <1>kept, MoveSaveOf DEF Saves
<1>16. ASSUME NEW b \in Binding, SaveEndpointLease(b) PROVE MoveInv'
  <2>. DEFINE m == [d EXCEPT !.runtime.endpoints = @ \cup {b}]
  <2>1. /\ pc["daemon"] = "ready" /\ Saving("daemon", m, {"runtime"})
        /\ UNCHANGED <<file, opened, cut, log, owed>> /\ {"runtime"} \in SUBSET File
    BY <1>16 DEF SaveEndpointLease, File
  <2>2. m.runtime.endpoints = d.runtime.endpoints \cup {b}
    BY <1>d, <1>mem DEF RuntimeText
  <2>. HIDE DEF m
  <2>. QED BY <2>1, <2>2, <1>d, <1>call, <1>kept, MoveSaveOf DEF Saves
<1>17. ASSUME NEW n \in Node, Register(n) PROVE MoveInv'
  <2>. DEFINE m == [d EXCEPT !.state.nodes = @ \cup {n}]
  <2>1. m.runtime = d.runtime
    BY <1>d, <1>mem DEF StateText
  <2>2. /\ pc["daemon"] = "ready" /\ Saving("daemon", m, File)
        /\ UNCHANGED <<file, opened, cut, owed, log>>
    BY <1>17 DEF Register
  <2>. HIDE DEF m
  <2>. QED BY <2>1, <2>2, <1>d, <1>call, <1>kept, MoveSaveOf DEF Saves
<1>18. ASSUME NEW fs \in (SUBSET File) \ {{}}, OtherSave(fs) PROVE MoveInv'
  BY <1>18, <1>d, <1>call, <1>kept, MoveSaveOf DEF OtherSave, Saves
<1>19. CASE UNCHANGED vars
  BY <1>19, <1>kept DEF vars, MoveInv, EventsKept, NoneOwed, FilesMove, OnDisk, Opening,
                        HalfSaved, Moves, InUse, Saves
<1>. QED
  BY <1>1, <1>2, <1>3, <1>4, <1>5, <1>6, <1>7, <1>8, <1>9, <1>10, <1>11, <1>12,
     <1>13, <1>14, <1>15, <1>16, <1>17, <1>18, <1>19 DEF Next

\* The migration of an old state file loses no event, and no endpoint in use unless
\* an Open is stopped between its two renames.
THEOREM MigrationLosesNothing == ASSUME ~Beside PROVE Spec => []MigrationKept
BY MoveInit, MoveNext, MoveImplies, PTL DEF Spec
-----------------------------------------------------------------------------
(***************************************************************************)
(* The two files of one store.                                             *)
(***************************************************************************)
\* No save failed.
Calm == faults = 0
Serving(p) == opened[p] /\ p = "daemon"

Matched  == Endpoints(file["runtime"]) \subseteq Bindings(file["state"]) \cup orphans
Matching == (\A p \in Process : ~(HalfSaved(p) /\ Serving(p))) => Matched

\* The migration of an old file brings no endpoint of an unknown binding.
OldBound == Readable(file["state"]) => file["state"].oldEndpoints \subseteq file["state"].bindings

\* Process p has read or saved file f as it is in memory.
Settled(p, f) == pc[p] \in {"saved", "ready"} \/ (Saves(p) /\ f \notin left[p])

\* A store in memory has a binding for every endpoint that is not an orphan, and
\* agrees with the files it need not save.  Only a call of the daemon takes bindings
\* away.
InStep(p) ==
  LET m == mem[p] IN
  /\ pc[p] = "read runtime" =>
       Endpoints(file["runtime"]) \cup m.state.oldEndpoints
         \subseteq m.state.bindings \cup orphans
  /\ InUse(p) => m.runtime.endpoints \subseteq m.state.bindings \cup orphans
  /\ Settled(p, "state") => m.state.bindings = Bindings(file["state"])
  /\ Settled(p, "runtime") => m.runtime.endpoints = Endpoints(file["runtime"])
  /\ Saves(p) /\ "state" \in left[p] /\ ~Serving(p) =>
       Endpoints(file["runtime"]) \subseteq m.state.bindings \cup orphans

\* The inductive invariant for EndpointHasBinding.
PairInv == /\ KeptInv /\ OldBound
           /\ Calm => Matching /\ \A p \in Process : InStep(p)

LEMMA PairInit == Init => PairInv
<1>. SUFFICES ASSUME Init PROVE PairInv
  OBVIOUS
<1>1. OldBound /\ Matched
  BY DEF Init, OldBound, Matched, Readable, Endpoints, File
<1>2. \A p \in Process : InStep(p)
  BY DEF Init, InStep, InUse, Saves, Settled
<1>. QED BY <1>1, <1>2, KeptInit DEF PairInv, Matching

LEMMA PairImplies == PairInv => EndpointHasBinding
<1>. SUFFICES ASSUME PairInv, Calm
              PROVE  Endpoints(file["runtime"]) \subseteq
                       Bindings(file["state"]) \cup orphans \cup
                         UNION {Binding \ mem[p].runtime.endpoints :
                                  p \in {q \in Process : HalfSaved(q)}}
  BY DEF EndpointHasBinding, Calm
<1>1. CASE \E p \in Process : HalfSaved(p)
  <2>1. PICK p \in Process : HalfSaved(p)
    BY <1>1
  <2>2. mem[p].runtime.endpoints \subseteq Bindings(file["state"]) \cup orphans
    <3>1. InStep(p)
      BY DEF PairInv
    <3>2. InUse(p) /\ Settled(p, "state")
      BY <2>1 DEF HalfSaved, InUse, Settled, Saves
    <3>. QED BY <3>1, <3>2 DEF InStep
  <2>3. Endpoints(file["runtime"]) \subseteq Binding
    BY DEF PairInv, KeptInv, TypeOK, Endpoints, Readable, Content, RuntimeText, File
  <2>. QED BY <2>1, <2>2, <2>3
<1>2. CASE \A p \in Process : ~HalfSaved(p)
  BY <1>2 DEF PairInv, Matching, Matched
<1>. QED BY <1>1, <1>2

\* A step of process p alone keeps the invariant if what is said of p stays true.
LEMMA PairStepOf ==
  ASSUME PairInv, KeptInv', NEW p \in Process, pc[p] # "down",
         \A q \in Process : q # p => pc'[q] = pc[q],
         OldBound', Calm' => Matching' /\ (pc'[p] # "down" => InStep(p)')
  PROVE  PairInv'
<1>1. \A q \in Process \ {p} : pc'[q] = "down"
  BY OthersAreDown DEF PairInv, KeptInv
<1>2. ASSUME NEW q \in Process, pc'[q] = "down" PROVE InStep(q)'
  BY <1>2 DEF InStep, InUse, Saves, Settled
<1>. QED BY <1>1, <1>2 DEF PairInv

\* While no process is in the course of a save, the files match.
LEMMA NoneHalf ==
  ASSUME PairInv, Calm, NEW p \in Process, pc[p] # "down", ~(HalfSaved(p) /\ Serving(p))
  PROVE  Matched
<1>1. \A q \in Process \ {p} : ~HalfSaved(q)
  BY DEF PairInv, KeptInv, Alone, HalfSaved
<1>. QED BY <1>1 DEF PairInv, Matching

\* A process that begins to save a store keeps it, if the store has a binding for
\* every endpoint and agrees with the file that is not saved.
LEMMA PairSaveOf ==
  ASSUME PairInv, KeptInv', NEW p \in Process, pc[p] # "down", ~Saves(p),
         NEW m, NEW fs \in SUBSET File, Saving(p, m, fs),
         UNCHANGED <<file, opened, job, orphans, faults>>,
         Calm => /\ m.runtime.endpoints \subseteq m.state.bindings \cup orphans
                 /\ "state" \notin fs => m.state.bindings = Bindings(file["state"])
                 /\ "runtime" \notin fs => m.runtime.endpoints = Endpoints(file["runtime"])
                 /\ ~Serving(p) =>
                      Endpoints(file["runtime"]) \subseteq m.state.bindings \cup orphans
  PROVE  PairInv'
<1>1. /\ pc'[p] = "truncate" /\ mem'[p] = m /\ left'[p] = fs
      /\ \A q \in Process : q # p => pc'[q] = pc[q]
  BY DEF PairInv, KeptInv, TypeOK, Saving
<1>2. Calm' => Calm
  BY DEF Calm
<1>3. OldBound'
  BY DEF PairInv, OldBound
<1>4. Calm' => Matching'
  BY <1>2, NoneHalf DEF Matching, Matched, HalfSaved, Saves
<1>5. Calm' => InStep(p)'
  BY <1>1, <1>2 DEF InStep, InUse, Saves, Settled, Serving
<1>. QED BY <1>1, <1>3, <1>4, <1>5, PairStepOf

\* Process p ends; what a call of the daemon has not saved becomes an orphan.
LEMMA PairStopOf ==
  ASSUME PairInv, KeptInv', NEW p \in Process, pc[p] # "down", Stops(p),
         UNCHANGED file, Calm' => Calm, orphans \subseteq orphans',
         HalfSaved(p) /\ Serving(p) /\ Calm' => Matched'
  PROVE  PairInv'
<1>1. pc'[p] = "down" /\ \A q \in Process : q # p => pc'[q] = pc[q]
  BY DEF PairInv, KeptInv, TypeOK, Stops
<1>2. OldBound'
  BY DEF PairInv, OldBound
<1>3. Calm' => Matching'
  <2>1. ~(HalfSaved(p) /\ Serving(p)) /\ Calm' => Matched'
    BY NoneHalf DEF Matched
  <2>. QED BY <2>1 DEF Matching
<1>. QED BY <1>1, <1>2, <1>3, PairStepOf

LEMMA PairNext == ~Beside /\ PairInv /\ [Next]_vars => PairInv'
<1>. SUFFICES ASSUME ~Beside, PairInv, [Next]_vars PROVE PairInv'
  OBVIOUS
<1>. USE DEF disk, history, counters
<1>kept. KeptInv /\ KeptInv' /\ TypeOK /\ Alone /\ OldBound /\ \A p \in Process : Files(p)
  BY KeptNext DEF PairInv, KeptInv
<1>mem. \A p \in Process : mem[p] \in [state : StateText, runtime : RuntimeText]
  BY <1>kept DEF TypeOK
<1>step. \A p \in Process : Calm => InStep(p)
  BY DEF PairInv
<1>1. ASSUME NEW p \in Process, NEW j \in Job, Start(p, j) PROVE PairInv'
  <2>1. /\ \A q \in Process : pc[q] = "down"
        /\ \A q \in Process : pc'[q] \in {"down", "read state"}
        /\ UNCHANGED <<file, orphans, faults>>
    BY <1>1, <1>kept DEF TypeOK, Start
  <2>2. \A q \in Process : InStep(q)'
    BY <2>1 DEF InStep, InUse, Saves, Settled
  <2>3. Calm' => Matched'
    BY <2>1 DEF PairInv, Calm, Matching, Matched, HalfSaved
  <2>. QED BY <1>kept, <2>1, <2>2, <2>3 DEF PairInv, OldBound, Matching
<1>2. ASSUME NEW p \in Process, ReadState(p) PROVE PairInv'
  <2>1. /\ pc[p] = "read state" /\ ~Saves(p)
        /\ UNCHANGED <<file, opened, job, orphans, faults>>
    BY <1>2 DEF ReadState, Saves
  <2>2. Calm => Matched
    BY <2>1, NoneHalf DEF HalfSaved
  <2>3. CASE file["state"] = None
    <3>1. Saving(p, NewStore, File)
      BY <1>2, <2>3 DEF ReadState
    <3>2. Calm => Endpoints(file["runtime"]) \subseteq orphans
      BY <2>2, <2>3 DEF Matched, Bindings, Readable
    <3>3. NewStore.runtime.endpoints = {}
      BY DEF NewStore, NewRuntime
    <3>. QED BY <2>1, <3>1, <3>2, <3>3, <1>kept, PairSaveOf DEF File
  <2>4. CASE file["state"] # None
    <3>. DEFINE r == [state |-> IF file["state"] = Empty THEN NewState ELSE file["state"],
                      runtime |-> NewRuntime]
    <3>1. mem' = [mem EXCEPT ![p] = r] /\ pc' = [pc EXCEPT ![p] = "read runtime"]
      BY <1>2, <2>4 DEF ReadState
    <3>2. r.state = IF file["state"] = Empty THEN NewState ELSE file["state"]
      OBVIOUS
    <3>. HIDE DEF r
    <3>3. /\ pc'[p] = "read runtime" /\ \A q \in Process : q # p => pc'[q] = pc[q]
          /\ mem'[p].state = IF file["state"] = Empty THEN NewState ELSE file["state"]
      BY <3>1, <3>2, <1>kept DEF TypeOK
    <3>4. file["state"] # Torn
      BY <1>2 DEF ReadState
    <3>5. CASE file["state"] = Empty
      <4>1. Calm => Endpoints(file["runtime"]) \subseteq orphans
        BY <2>2, <3>5 DEF Matched, Bindings, Readable
      <4>2. mem'[p].state.oldEndpoints = {}
        <5>1. NewState.oldEndpoints = {}
          BY DEF NewState
        <5>2. mem'[p].state = NewState
          BY <3>3, <3>5
        <5>. QED BY <5>1, <5>2
      <4>3. Calm => InStep(p)'
        BY <2>1, <3>3, <4>1, <4>2 DEF InStep, InUse, Saves, Settled
      <4>. QED BY <2>1, <2>2, <3>3, <4>3, <1>kept, PairStepOf
              DEF OldBound, Calm, Matching, Matched
    <3>6. CASE file["state"] # Empty
      <4>1. mem'[p].state = file["state"] /\ Readable(file["state"])
        BY <2>4, <3>3, <3>4, <3>6 DEF Readable
      <4>2. Calm => Endpoints(file["runtime"]) \cup mem'[p].state.oldEndpoints
                      \subseteq mem'[p].state.bindings \cup orphans
        BY <2>2, <4>1, <1>kept DEF Matched, Bindings, OldBound
      <4>3. Calm => InStep(p)'
        BY <2>1, <3>3, <4>2 DEF InStep, InUse, Saves, Settled
      <4>. QED BY <2>1, <2>2, <3>3, <4>3, <1>kept, PairStepOf
              DEF OldBound, Calm, Matching, Matched
    <3>. QED BY <3>5, <3>6
  <2>. QED BY <2>3, <2>4
<1>3. ASSUME NEW p \in Process, ReadRuntime(p) PROVE PairInv'
  <2>. DEFINE m == [state |-> Cleared(mem[p].state),
                    runtime |-> Migrated(mem[p].state, file["runtime"])]
  <2>1. /\ pc[p] = "read runtime" /\ UNCHANGED <<file, opened, job, orphans, faults>>
        /\ Saving(p, m, File) /\ ~Saves(p)
    BY <1>3 DEF ReadRuntime, Saves
  <2>2. /\ m.state.bindings = mem[p].state.bindings
        /\ m.runtime.endpoints = Endpoints(file["runtime"]) \cup mem[p].state.oldEndpoints
    BY <1>mem, Texts DEF Migrated
  <2>3. Calm => Endpoints(file["runtime"]) \cup mem[p].state.oldEndpoints
                  \subseteq mem[p].state.bindings \cup orphans
    BY <2>1, <1>step DEF InStep
  <2>. HIDE DEF m
  <2>. QED BY <2>1, <2>2, <2>3, <1>kept, PairSaveOf DEF File
<1>4. ASSUME NEW p \in Process, Refused(p) PROVE PairInv'
  <2>1. /\ pc[p] # "down" /\ ~HalfSaved(p) /\ Stops(p) /\ UNCHANGED <<file, orphans, faults>>
    BY <1>4 DEF Refused, HalfSaved
  <2>. QED BY <2>1, <1>kept, PairStopOf DEF Calm
<1>5. ASSUME NEW p \in Process, Truncate(p) \/ Write(p) PROVE PairInv'
  <2>1. /\ pc[p] \in {"truncate", "write"} /\ pc'[p] \in {"write", "rename"}
        /\ \A q \in Process : q # p => pc'[q] = pc[q]
        /\ UNCHANGED <<opened, job, mem, left, orphans, faults>>
    BY <1>5, <1>kept DEF Truncate, Write, TypeOK
  <2>2. file' = file
    BY <1>5, <1>kept DEF Truncate, Write, Files
  <2>3. \A q \in Process : (HalfSaved(q) /\ Serving(q))' <=> HalfSaved(q) /\ Serving(q)
    BY <2>1 DEF HalfSaved, Serving
  <2>4. Calm' => Matching'
    BY <2>1, <2>2, <2>3 DEF PairInv, Calm, Matching, Matched
  <2>5. Calm' => InStep(p)'
    BY <2>1, <2>2, <1>step DEF Calm, InStep, InUse, Saves, Settled, Serving
  <2>. QED BY <2>1, <2>2, <2>4, <2>5, <1>kept, PairStepOf DEF OldBound
<1>6. ASSUME NEW p \in Process, Rename(p) PROVE PairInv'
  <2>. DEFINE f == Current(p)
              s == mem[p].state
              r == mem[p].runtime
  <2>1. /\ pc[p] = "rename" /\ left'[p] = left[p] \ {f}
        /\ pc'[p] = IF left[p] = {f} THEN "saved" ELSE "truncate"
        /\ \A q \in Process : q # p => pc'[q] = pc[q]
        /\ file' = [file EXCEPT ![f] = tmp[f]]
        /\ orphans' = orphans \ Bindings(file'["state"])
        /\ UNCHANGED <<opened, job, mem, faults>>
    BY <1>6, <1>kept DEF Rename, TypeOK
  <2>2. /\ tmp[f] = Text(p, f) /\ f \in File /\ left[p] # {} /\ left[p] \subseteq File
        /\ f = IF "state" \in left[p] THEN "state" ELSE "runtime"
    BY <2>1, <1>kept DEF Files, Current, File, TypeOK, Saves
  <2>3. Calm' => Calm /\ InStep(p)
    BY <2>1, <1>step DEF Calm
  <2>4. CASE f = "state"
    <3>1. "state" \in left[p]
      BY <2>2, <2>4
    <3>2. file'["state"] = Cleared(s) /\ file'["runtime"] = file["runtime"]
      BY <2>1, <2>2, <2>4, <1>kept DEF Text, TypeOK, File
    <3>3. /\ Cleared(s) \in StateText /\ Cleared(s).bindings = s.bindings
          /\ Cleared(s).oldEndpoints = {}
      BY <1>mem, Texts DEF Cleared, StateText
    <3>4. Bindings(file'["state"]) = s.bindings
      BY <3>2, <3>3, PersistenceAssumption DEF Bindings, Readable
    <3>5. OldBound'
      BY <3>2, <3>3 DEF OldBound
    <3>6. Calm' => /\ r.endpoints \subseteq s.bindings \cup orphans'
                   /\ "runtime" \notin left[p] => r.endpoints = Endpoints(file["runtime"])
                   /\ ~Serving(p) =>
                        Endpoints(file["runtime"]) \subseteq s.bindings \cup orphans'
      BY <2>1, <2>3, <3>1, <3>4 DEF InStep, InUse, Settled, Saves
    <3>7. "state" \notin left'[p]
      BY <2>1, <2>4
    <3>8. pc'[p] = "saved" => "runtime" \notin left[p]
      BY <2>1, <2>4
    <3>9. Calm' => InStep(p)'
      BY <2>1, <2>4, <3>2, <3>4, <3>6, <3>7, <3>8
         DEF InStep, InUse, Settled, Saves
    <3>10. pc'[p] # "saved" => HalfSaved(p)'
      <4>1. left[p] # {"state"} => left'[p] = {"runtime"}
        BY <2>1, <2>2, <2>4, <3>1 DEF File
      <4>. QED BY <2>1, <2>4, <4>1 DEF HalfSaved
    <3>11. Calm' => Matching'
      <4>. SUFFICES ASSUME Calm', ~(HalfSaved(p) /\ Serving(p))' PROVE Matched'
        BY DEF Matching
      <4>1. CASE pc'[p] = "saved"
        BY <3>2, <3>4, <3>6, <3>8, <4>1 DEF Matched
      <4>2. CASE pc'[p] # "saved"
        <5>1. ~Serving(p)
          BY <2>1, <3>10, <4>2 DEF Serving
        <5>. QED BY <3>2, <3>4, <3>6, <5>1 DEF Matched
      <4>. QED BY <4>1, <4>2
    <3>. QED BY <2>1, <3>5, <3>9, <3>11, <1>kept, PairStepOf
  <2>5. CASE f = "runtime"
    <3>1. "state" \notin left[p] /\ left[p] = {f}
      BY <2>2, <2>5 DEF File
    <3>2. file'["runtime"] = r /\ file'["state"] = file["state"]
      BY <2>1, <2>2, <2>5, <1>kept DEF Text, TypeOK, File
    <3>3. Endpoints(file'["runtime"]) = r.endpoints
      BY <3>2, <1>mem, PersistenceAssumption DEF Endpoints, Readable
    <3>4. OldBound'
      BY <3>2, <1>kept DEF OldBound
    <3>5. Calm' => /\ r.endpoints \subseteq s.bindings \cup orphans'
                   /\ s.bindings = Bindings(file["state"])
      BY <2>1, <2>3, <3>1, <3>2 DEF InStep, InUse, Settled, Saves
    <3>6. pc'[p] = "saved" /\ left'[p] = {}
      BY <2>1, <3>1
    <3>7. Calm' => InStep(p)'
      BY <2>1, <3>2, <3>3, <3>5, <3>6 DEF InStep, InUse, Settled, Saves
    <3>8. Calm' => Matching'
      BY <3>2, <3>3, <3>5 DEF Matching, Matched
    <3>. QED BY <2>1, <3>4, <3>7, <3>8, <1>kept, PairStepOf
  <2>. QED BY <2>2, <2>4, <2>5 DEF File
<1>7. ASSUME NEW p \in Process, SaveFails(p) PROVE PairInv'
  <2>1. /\ Saves(p) /\ pc[p] # "down" /\ UNCHANGED file
    BY <1>7 DEF SaveFails, Saves
  <2>2. ~Calm'
    <3>1. CASE pc[p] = "rename" /\ tmp[Current(p)] = None
      <4>1. Text(p, Current(p)) = None
        BY <3>1, <1>kept DEF Files
      <4>2. Text(p, Current(p)) \in StateText \cup RuntimeText
        BY <1>mem, Texts DEF Text
      <4>. QED BY <4>1, <4>2, PersistenceAssumption
    <3>2. CASE faults' = faults + 1
      <4>1. faults \in Nat
        BY <1>kept DEF TypeOK
      <4>2. faults' # 0
        BY <3>2, <4>1
      <4>. QED BY <4>2 DEF Calm
    <3>. QED BY <1>7, <3>1, <3>2 DEF SaveFails
  <2>3. OldBound'
    BY <2>1, <1>kept DEF OldBound
  <2>. QED BY <2>2, <2>3, <1>kept DEF PairInv
<1>8. ASSUME NEW p \in Process, Crash(p) PROVE PairInv'
  <2>1. /\ pc[p] # "down" /\ Stops(p) /\ UNCHANGED <<file, faults>>
        /\ orphans' = orphans \cup OrphanedBy(p)
    BY <1>8 DEF Crash
  <2>2. ASSUME HalfSaved(p), Serving(p), Calm PROVE Matched'
    <3>1. InStep(p) /\ InUse(p) /\ Settled(p, "state")
      BY <2>2, <1>step DEF HalfSaved, InUse, Settled, Saves
    <3>2. mem[p].runtime.endpoints \subseteq Bindings(file["state"]) \cup orphans
      BY <3>1 DEF InStep
    <3>3. OrphanedBy(p) = Endpoints(file["runtime"]) \ mem[p].runtime.endpoints
      BY <2>2 DEF OrphanedBy, Serving
    <3>. QED BY <2>1, <3>2, <3>3 DEF Matched
  <2>. QED BY <2>1, <2>2, <1>kept, PairStopOf DEF Calm
<1>9. ASSUME NEW p \in Process, OpenReturns(p) \/ (CallReturns(p) /\ p = "daemon")
      PROVE PairInv'
  <2>1. /\ pc[p] = "saved" /\ pc'[p] = "ready"
        /\ \A q \in Process : q # p => pc'[q] = pc[q]
        /\ UNCHANGED <<file, mem, orphans, faults>>
    BY <1>9, <1>kept DEF OpenReturns, CallReturns, TypeOK
  <2>2. Calm' => Matched
    BY <2>1, NoneHalf DEF Calm, HalfSaved
  <2>3. Calm' => InStep(p)'
    BY <2>1, <1>step DEF Calm, InStep, InUse, Saves, Settled
  <2>. QED BY <2>1, <2>2, <2>3, <1>kept, PairStepOf DEF OldBound, Matching, Matched
<1>10. ASSUME NEW p \in Process, CallReturns(p), p # "daemon" PROVE PairInv'
  <2>1. pc[p] = "saved" /\ ~HalfSaved(p) /\ Stops(p) /\ UNCHANGED <<file, orphans, faults>>
    BY <1>10 DEF CallReturns, HalfSaved
  <2>. QED BY <2>1, <1>kept, PairStopOf DEF Calm
<1>call. ASSUME NEW p \in Process, pc[p] = "ready"
         PROVE  /\ ~Saves(p)
                /\ Calm => /\ mem[p].runtime.endpoints \subseteq mem[p].state.bindings \cup orphans
                           /\ mem[p].state.bindings = Bindings(file["state"])
                           /\ mem[p].runtime.endpoints = Endpoints(file["runtime"])
  BY <1>call, <1>step DEF InStep, InUse, Settled, Saves
<1>11. ASSUME NEW p \in Process, InitFile(p) PROVE PairInv'
  BY <1>11, <1>call, <1>kept, PairSaveOf DEF InitFile
<1>12. ASSUME NEW p \in Process, CreateNode(p) PROVE PairInv'
  <2>. DEFINE m == [mem[p] EXCEPT !.state.nodes = @ \cup {job[p].node}]
  <2>1. m.runtime = mem[p].runtime /\ m.state.bindings = mem[p].state.bindings
    BY <1>mem DEF StateText
  <2>2. /\ pc[p] = "ready" /\ Saving(p, m, File)
        /\ UNCHANGED <<file, opened, job, orphans, faults>>
    BY <1>12 DEF CreateNode
  <2>. HIDE DEF m
  <2>. QED BY <2>1, <2>2, <1>call, <1>kept, PairSaveOf
<1>13. ASSUME NEW p \in Process, AddBinding(p) PROVE PairInv'
  <2>. DEFINE m == [mem[p] EXCEPT !.state.bindings = @ \cup {job[p].binding}]
  <2>1. /\ m.runtime = mem[p].runtime
        /\ m.state.bindings = mem[p].state.bindings \cup {job[p].binding}
    BY <1>mem DEF StateText
  <2>2. /\ pc[p] = "ready" /\ Saving(p, m, File)
        /\ UNCHANGED <<file, opened, job, orphans, faults>>
    BY <1>13 DEF AddBinding
  <2>3. "state" \in File /\ "runtime" \in File
    BY DEF File
  <2>. HIDE DEF m
  <2>. QED BY <2>1, <2>2, <2>3, <1>call, <1>kept, PairSaveOf
<1>d. "daemon" \in Process /\ "state" \in File /\ "runtime" \in File
  BY DEF Process, File
<1>serves. pc["daemon"] = "ready" => Serving("daemon")
  BY <1>d, <1>kept DEF Files, Serving
<1>. DEFINE d == mem["daemon"]
<1>14. ASSUME NEW n \in Node, DeleteNode(n) PROVE PairInv'
  <2>. DEFINE m == [state |-> [d.state EXCEPT !.nodes = @ \ {n}, !.bindings = @ \ BindingsOf(n)],
                    runtime |-> Without(d, BindingsOf(n))]
  <2>1. /\ pc["daemon"] = "ready" /\ Saving("daemon", m, File)
        /\ UNCHANGED <<file, opened, job, orphans, faults>>
    BY <1>14 DEF DeleteNode
  <2>2. /\ m.state.bindings = d.state.bindings \ BindingsOf(n)
        /\ m.runtime.endpoints = d.runtime.endpoints \ (d.state.bindings \cap BindingsOf(n))
    BY <1>d, <1>mem DEF StateText, Without
  <2>. HIDE DEF m
  <2>3. Calm => m.runtime.endpoints \subseteq m.state.bindings \cup orphans
    BY <2>1, <2>2, <1>d, <1>call
  <2>. QED BY <2>1, <2>3, <1>d, <1>serves, <1>call, <1>kept, PairSaveOf
<1>15. ASSUME NEW B \in SUBSET AutoBindings, Reconcile(B) PROVE PairInv'
  <2>. DEFINE m == [state |-> [d.state EXCEPT !.bindings = (@ \ AutoBindings) \cup B],
                    runtime |-> Without(d, AutoBindings \ B)]
  <2>1. /\ pc["daemon"] = "ready" /\ Saving("daemon", m, File)
        /\ UNCHANGED <<file, opened, job, orphans, faults>>
    BY <1>15 DEF Reconcile
  <2>2. /\ m.state.bindings = (d.state.bindings \ AutoBindings) \cup B
        /\ m.runtime.endpoints = d.runtime.endpoints \ (d.state.bindings \cap (AutoBindings \ B))
    BY <1>d, <1>mem DEF StateText, Without
  <2>. HIDE DEF m
  <2>3. Calm => m.runtime.endpoints \subseteq m.state.bindings \cup orphans
    BY <2>1, <2>2, <1>d, <1>call
  <2>. QED BY <2>1, <2>3, <1>d, <1>serves, <1>call, <1>kept, PairSaveOf
<1>16. ASSUME NEW b \in Binding, SaveEndpointLease(b) PROVE PairInv'
  <2>. DEFINE m == [d EXCEPT !.runtime.endpoints = @ \cup {b}]
  <2>1. /\ pc["daemon"] = "ready" /\ Saving("daemon", m, {"runtime"})
        /\ b \in d.state.bindings
        /\ UNCHANGED <<file, opened, job, orphans, faults>> /\ {"runtime"} \in SUBSET File
    BY <1>16 DEF SaveEndpointLease, File
  <2>2. m.runtime.endpoints = d.runtime.endpoints \cup {b} /\ m.state = d.state
    BY <1>d, <1>mem DEF RuntimeText
  <2>. HIDE DEF m
  <2>. QED BY <2>1, <2>2, <1>d, <1>serves, <1>call, <1>kept, PairSaveOf
<1>17. ASSUME NEW n \in Node, Register(n) PROVE PairInv'
  <2>. DEFINE m == [d EXCEPT !.state.nodes = @ \cup {n}]
  <2>1. m.runtime = d.runtime /\ m.state.bindings = d.state.bindings
    BY <1>d, <1>mem DEF StateText
  <2>2. /\ pc["daemon"] = "ready" /\ Saving("daemon", m, File)
        /\ UNCHANGED <<file, opened, job, orphans, faults>>
    BY <1>17 DEF Register
  <2>. HIDE DEF m
  <2>. QED BY <2>1, <2>2, <1>d, <1>serves, <1>call, <1>kept, PairSaveOf
<1>18. ASSUME NEW fs \in (SUBSET File) \ {{}}, OtherSave(fs) PROVE PairInv'
  BY <1>18, <1>d, <1>serves, <1>call, <1>kept, PairSaveOf DEF OtherSave
<1>19. CASE UNCHANGED vars
  BY <1>19, <1>kept DEF vars, PairInv, OldBound, Calm, Matching, Matched, HalfSaved, Serving,
                        InStep, InUse, Saves, Settled
<1>. QED
  BY <1>1, <1>2, <1>3, <1>4, <1>5, <1>6, <1>7, <1>8, <1>9, <1>10, <1>11, <1>12,
     <1>13, <1>14, <1>15, <1>16, <1>17, <1>18, <1>19 DEF Next

\* As long as no save fails, every endpoint in the runtime file has its binding in
\* the state file, but for those a call of the daemon drops in its second save, or
\* had dropped when it was killed before that: kills of the commands, of an Open, or
\* between calls leave nothing behind (Save).
THEOREM EndpointsHaveBindings == ASSUME ~Beside PROVE Spec => []EndpointHasBinding
BY PairInit, PairNext, PairImplies, PTL DEF Spec
=============================================================================
