---------------------------- MODULE Persistence ----------------------------
(***************************************************************************)
(* The files of the store and the processes that write them: the daemon,   *)
(* and the offline commands init, create-node and add-binding, which open  *)
(* the same files.  A store is read once, by Open; every change is made in *)
(* memory and then saved, the state file first and the runtime file after  *)
(* it, each written to a temporary file of a fixed name that is renamed    *)
(* over the old one.  Only one process of a kind runs at a time.           *)
(*                                                                         *)
(* The state file is a set of nodes and a set of bindings, the runtime     *)
(* file the set of bindings that have an endpoint.  A file of an older     *)
(* version holds endpoints and events as well, and Open moves them.  The   *)
(* other runtime data is saved like the endpoints and left out.            *)
(***************************************************************************)
EXTENDS Naturals

CONSTANTS Node,
          Binding,
          AutoBindings, \* the bindings reconciliation creates and removes
          Ends,         \* the two nodes of a binding
          None, Empty, Torn,  \* no file, a truncated one, a corrupt one
          Beside,       \* do offline commands run beside a running daemon?
          MaxCrashes,   \* processes that are killed
          MaxFaults     \* saves that fail (a full disk)

Process == {"daemon", "cli"}
File == {"state", "runtime"}

\* What the files hold (Data, RuntimeData).
StateText == [nodes : SUBSET Node, bindings : SUBSET Binding,
              oldEndpoints : SUBSET Binding, oldEvents : BOOLEAN]
RuntimeText == [endpoints : SUBSET Binding]

\* What a process is started for.
Job == [do : {"serve", "init"}]
         \cup [do : {"create-node"}, node : Node]
         \cup [do : {"add-binding"}, binding : Binding \ AutoBindings]
NoJob == [do |-> "none"]

ASSUME PersistenceAssumption ==
  /\ AutoBindings \subseteq Binding
  /\ Ends \in [Binding -> SUBSET Node]
  /\ Beside \in BOOLEAN
  /\ MaxCrashes \in Nat /\ MaxFaults \in Nat
  /\ {None, Empty, Torn} \cap (StateText \cup RuntimeText) = {}
  /\ None # Empty /\ None # Torn /\ Empty # Torn

VARIABLES file,     \* what each file holds
          tmp,      \* what its temporary file holds
          pc,       \* where each process is
          job,      \* what it was started for
          opened,   \* Open has returned to it
          mem,      \* its store, in memory: a text for each file
          left,     \* the files it has still to save
          fd,       \* what the file it writes is now called
          said,     \* the bindings reported as saved and not deleted since
          owed,     \* the endpoints of the old state file still in use
          log,      \* how often the old events were appended to the log
          cut,      \* an Open has stopped between its two renames
          orphans,  \* the endpoints left behind by calls that stopped there
          crashes, faults

vars == <<file, tmp, pc, job, opened, mem, left, fd, said, owed, log, cut,
          orphans, crashes, faults>>
disk == <<file, tmp>>
history == <<said, owed, cut, orphans>>
counters == <<crashes, faults>>

\* An empty store (newData, newRuntimeData).
NewState == [nodes |-> {}, bindings |-> {}, oldEndpoints |-> {}, oldEvents |-> FALSE]
NewRuntime == [endpoints |-> {}]
NewStore == [state |-> NewState, runtime |-> NewRuntime]

Readable(text) == text \notin {None, Empty, Torn}

\* What a text of the disk says; a file that is missing or empty says nothing.
Bindings(text) == IF Readable(text) THEN text.bindings ELSE {}
Endpoints(text) == IF Readable(text) THEN text.endpoints ELSE {}

\* Mutant of Migrated: the deprecated fields are only dropped.
MigratedNot(state, text) == [endpoints |-> Endpoints(text)]

\* The endpoints of the deprecated fields, moved by ensureMaps.
Migrated(state, text) == [endpoints |-> Endpoints(text) \cup state.oldEndpoints]

\* The state without them (clearDeprecatedStateFields, saveLocked).
Cleared(state) == [state EXCEPT !.oldEndpoints = {}, !.oldEvents = FALSE]

\* Mutant of BindingsOf: automatic bindings are left to the reconciliation.
ManualBindingsOf(n) == {b \in Binding \ AutoBindings : n \in Ends[b]}

BindingsOf(n) == {b \in Binding : n \in Ends[b]}

\* Mutant of Stops: what Open returned survives the process.
StopsOpen(p) ==
  /\ job' = [job EXCEPT ![p] = NoJob]
  /\ pc' = [pc EXCEPT ![p] = "down"]
  /\ mem' = [mem EXCEPT ![p] = NewStore]
  /\ left' = [left EXCEPT ![p] = {}]
  /\ fd' = [fd EXCEPT ![p] = "none"]
  /\ UNCHANGED opened

\* Process p ends.
Stops(p) ==
  /\ job' = [job EXCEPT ![p] = NoJob]
  /\ opened' = [opened EXCEPT ![p] = FALSE]
  /\ pc' = [pc EXCEPT ![p] = "down"]
  /\ mem' = [mem EXCEPT ![p] = NewStore]
  /\ left' = [left EXCEPT ![p] = {}]
  /\ fd' = [fd EXCEPT ![p] = "none"]

Init ==
  /\ \E text \in {None, Empty, Torn} \cup
         {t \in StateText : t.oldEndpoints \subseteq t.bindings /\ t.oldEvents} :
       /\ file = [f \in File |-> IF f = "state" THEN text ELSE None]
       /\ said = Bindings(text) \ AutoBindings
       /\ owed = IF Readable(text) THEN text.oldEndpoints ELSE {}
       /\ log = IF Readable(text) THEN 0 ELSE 1
  /\ tmp = [f \in File |-> None]
  /\ pc = [p \in Process |-> "down"]
  /\ job = [p \in Process |-> NoJob]
  /\ opened = [p \in Process |-> FALSE]
  /\ mem = [p \in Process |-> NewStore]
  /\ left = [p \in Process |-> {}]
  /\ fd = [p \in Process |-> "none"]
  /\ cut = FALSE /\ orphans = {} /\ crashes = 0 /\ faults = 0

-----------------------------------------------------------------------------
(***************************************************************************)
(* Open.                                                                   *)
(***************************************************************************)
Jobs(p) == {j \in Job : (j.do = "serve") = (p = "daemon")}

\* A process starts.  No lock keeps an offline command from starting beside the
\* daemon: only its user does.
Start(p, j) ==
  /\ pc[p] = "down" /\ j \in Jobs(p)
  /\ Beside \/ \A q \in Process : pc[q] = "down"
  /\ pc' = [pc EXCEPT ![p] = "read state"]
  /\ job' = [job EXCEPT ![p] = j]
  /\ UNCHANGED <<disk, opened, mem, left, fd, history, log, counters>>

\* Process p begins to save the files fs of the store m.
Saving(p, m, fs) ==
  /\ mem' = [mem EXCEPT ![p] = m]
  /\ left' = [left EXCEPT ![p] = fs]
  /\ pc' = [pc EXCEPT ![p] = "truncate"]

\* Open: without a state file the new store is saved as it is, and the runtime
\* file is not read.
ReadState(p) ==
  /\ pc[p] = "read state" /\ file["state"] # Torn
  /\ IF file["state"] = None
     THEN Saving(p, NewStore, File)
     ELSE /\ mem' = [mem EXCEPT ![p] =
                       [state |-> IF file["state"] = Empty THEN NewState
                                                           ELSE file["state"],
                        runtime |-> NewRuntime]]
          /\ pc' = [pc EXCEPT ![p] = "read runtime"]
          /\ UNCHANGED left
  /\ UNCHANGED <<disk, job, opened, fd, history, log, counters>>

\* loadRuntime, then ensureMaps: the old endpoints go to the runtime, the old
\* events are appended to the event log at once.
ReadRuntime(p) ==
  /\ pc[p] = "read runtime" /\ file["runtime"] # Torn
  /\ Saving(p, [state |-> Cleared(mem[p].state),
                runtime |-> Migrated(mem[p].state, file["runtime"])],
            File)
  /\ log' = log + (IF mem[p].state.oldEvents THEN 1 ELSE 0)
  /\ UNCHANGED <<disk, job, opened, fd, history, counters>>

\* A file that does not parse ends the process.
Refused(p) ==
  /\ \/ pc[p] = "read state" /\ file["state"] = Torn
     \/ pc[p] = "read runtime" /\ file["runtime"] = Torn
  /\ Stops(p)
  /\ UNCHANGED <<disk, history, log, counters>>

-----------------------------------------------------------------------------
(***************************************************************************)
(* One save of one file: os.WriteFile truncates the temporary file and     *)
(* writes it, os.Rename puts it in place.  The file that is written may    *)
(* have been renamed meanwhile by the other process.                       *)
(***************************************************************************)
\* The file process p saves next: the state file before the runtime file (Save).
Current(p) == IF "state" \in left[p] THEN "state" ELSE "runtime"

\* saveLocked leaves the deprecated fields out, saveRuntimeLocked nothing.
Text(p, f) == IF f = "state" THEN Cleared(mem[p].state) ELSE mem[p].runtime

\* Mutant of Truncate: the file itself is written, without a temporary one.
TruncateInPlace(p) ==
  /\ pc[p] = "truncate"
  /\ file' = [file EXCEPT ![Current(p)] = Empty]
  /\ fd' = [fd EXCEPT ![p] = "file"]
  /\ pc' = [pc EXCEPT ![p] = "write"]
  /\ UNCHANGED <<tmp, job, opened, mem, left, history, log, counters>>

Truncate(p) ==
  /\ pc[p] = "truncate"
  /\ tmp' = [tmp EXCEPT ![Current(p)] = Empty]
  /\ fd' = [fd EXCEPT ![p] = "tmp"]
  /\ pc' = [pc EXCEPT ![p] = "write"]
  /\ UNCHANGED <<file, job, opened, mem, left, history, log, counters>>

\* What is in a file after text was written over what it held.
Over(old, text) == IF old = Empty THEN {text} ELSE {text, Torn}

Write(p) ==
  /\ pc[p] = "write"
  /\ LET f == Current(p) IN
     CASE fd[p] = "tmp" ->
            /\ \E t \in Over(tmp[f], Text(p, f)) : tmp' = [tmp EXCEPT ![f] = t]
            /\ UNCHANGED file
       [] fd[p] = "file" ->
            /\ \E t \in Over(file[f], Text(p, f)) : file' = [file EXCEPT ![f] = t]
            /\ UNCHANGED tmp
       [] OTHER -> UNCHANGED disk
  /\ pc' = [pc EXCEPT ![p] = "rename"]
  /\ fd' = [fd EXCEPT ![p] = "none"]
  /\ UNCHANGED <<job, opened, mem, left, history, log, counters>>

\* Does process q hold the temporary file f open?
Writes(q, f) == pc[q] = "write" /\ Current(q) = f

Rename(p) ==
  /\ pc[p] = "rename" /\ tmp[Current(p)] # None
  /\ LET f == Current(p) IN
     /\ file' = [file EXCEPT ![f] = tmp[f]]
     /\ tmp' = [tmp EXCEPT ![f] = None]
     /\ fd' = [q \in Process |->
                 IF ~Writes(q, f) THEN fd[q]
                 ELSE IF fd[q] = "tmp" THEN "file" ELSE "none"]
  /\ left' = [left EXCEPT ![p] = @ \ {Current(p)}]
  /\ pc' = [pc EXCEPT ![p] = IF left[p] = {Current(p)} THEN "saved" ELSE "truncate"]
  /\ orphans' = orphans \ Bindings(file'["state"])
  /\ UNCHANGED <<job, opened, mem, said, owed, cut, log, counters>>

\* Has process p saved the state file and not yet the runtime file?
HalfSaved(p) == pc[p] \in {"truncate", "write", "rename"} /\ left[p] = {"runtime"}

\* An Open that stops there.
CutBy(p) == HalfSaved(p) /\ ~opened[p]

\* The endpoints a call of the daemon leaves behind when it stops there: those it
\* has dropped in memory.
OrphanedBy(p) ==
  IF HalfSaved(p) /\ opened[p] /\ p = "daemon"
  THEN Endpoints(file["runtime"]) \ mem[p].runtime.endpoints ELSE {}

\* A save that fails, or finds that the other process took its temporary file.
\* The daemon answers with an error and keeps the change in memory, every other
\* process ends (must).
SaveFails(p) ==
  /\ \/ /\ pc[p] \in {"truncate", "write"} /\ faults < MaxFaults
        /\ faults' = faults + 1
     \/ /\ pc[p] = "rename" /\ tmp[Current(p)] = None
        /\ UNCHANGED faults
  /\ cut' = (cut \/ CutBy(p)) /\ orphans' = orphans \cup OrphanedBy(p)
  /\ IF p = "daemon" /\ opened[p]
     THEN /\ pc' = [pc EXCEPT ![p] = "ready"]
          /\ left' = [left EXCEPT ![p] = {}]
          /\ fd' = [fd EXCEPT ![p] = "none"]
          /\ UNCHANGED <<job, opened, mem>>
     ELSE Stops(p)
  /\ UNCHANGED <<disk, said, owed, log, crashes>>

\* A process is killed.
Crash(p) ==
  /\ pc[p] # "down" /\ crashes < MaxCrashes
  /\ cut' = (cut \/ CutBy(p)) /\ orphans' = orphans \cup OrphanedBy(p)
  /\ Stops(p)
  /\ crashes' = crashes + 1
  /\ UNCHANGED <<disk, said, owed, log, faults>>

-----------------------------------------------------------------------------
(***************************************************************************)
(* What the processes do with the open store.                              *)
(***************************************************************************)
\* Open returns.
OpenReturns(p) ==
  /\ pc[p] = "saved" /\ ~opened[p]
  /\ opened' = [opened EXCEPT ![p] = TRUE]
  /\ pc' = [pc EXCEPT ![p] = "ready"]
  /\ UNCHANGED <<disk, job, mem, left, fd, history, log, counters>>

\* A call returns: the daemon goes on, a command reports and ends.
CallReturns(p) ==
  /\ pc[p] = "saved" /\ opened[p]
  /\ IF p = "daemon"
     THEN /\ pc' = [pc EXCEPT ![p] = "ready"]
          /\ UNCHANGED <<job, opened, mem, left, fd>>
     ELSE Stops(p)
  /\ said' = IF job[p].do = "add-binding" THEN said \cup {job[p].binding} ELSE said
  /\ UNCHANGED <<disk, owed, log, cut, orphans, counters>>

\* init: must(st.Save()).
InitFile(p) ==
  /\ pc[p] = "ready" /\ job[p].do = "init"
  /\ Saving(p, mem[p], File)
  /\ UNCHANGED <<disk, job, opened, fd, history, log, counters>>

\* create-node: daemon.CreateNode, Store.CreateNode.
CreateNode(p) ==
  /\ pc[p] = "ready" /\ job[p].do = "create-node"
  /\ Saving(p, [mem[p] EXCEPT !.state.nodes = @ \cup {job[p].node}], File)
  /\ UNCHANGED <<disk, job, opened, fd, history, log, counters>>

\* add-binding: Store.AddBinding.  The nodes need not exist, and an endpoint that
\* was kept under the id of the binding stays.
AddBinding(p) ==
  /\ pc[p] = "ready" /\ job[p].do = "add-binding"
  /\ Saving(p, [mem[p] EXCEPT !.state.bindings = @ \cup {job[p].binding}], File)
  /\ UNCHANGED <<disk, job, opened, fd, history, log, counters>>

\* Mutant of Without: the endpoints stay.
WithoutNone(m, S) == m.runtime

\* The runtime of store m without the endpoints of those of its bindings that are
\* in set S.
Without(m, S) == [endpoints |-> m.runtime.endpoints \ (m.state.bindings \cap S)]

\* The daemon deletes a node with its bindings and their endpoints.
DeleteNode(n) ==
  LET m == mem["daemon"] IN
  /\ pc["daemon"] = "ready" /\ n \in m.state.nodes
  /\ Saving("daemon",
            [state |-> [m.state EXCEPT !.nodes = @ \ {n},
                                       !.bindings = @ \ BindingsOf(n)],
             runtime |-> Without(m, BindingsOf(n))], File)
  /\ said' = said \ BindingsOf(n)
  /\ owed' = owed \ BindingsOf(n)
  /\ UNCHANGED <<disk, job, opened, fd, log, cut, orphans, counters>>

\* The daemon reconciles the automatic bindings with what they should be, B, and
\* saves; where B is what they are, a field of one of them has changed.
Reconcile(B) ==
  LET m == mem["daemon"] IN
  /\ pc["daemon"] = "ready"
  /\ B = m.state.bindings \cap AutoBindings => B # {}
  /\ Saving("daemon",
            [state |-> [m.state EXCEPT !.bindings = (@ \ AutoBindings) \cup B],
             runtime |-> Without(m, AutoBindings \ B)], File)
  /\ owed' = owed \ (AutoBindings \ B)
  /\ UNCHANGED <<disk, job, opened, fd, said, log, cut, orphans, counters>>

\* The daemon stores the endpoint of a binding, in the runtime file only.
SaveEndpointLease(b) ==
  LET m == mem["daemon"] IN
  /\ pc["daemon"] = "ready" /\ b \in m.state.bindings
  /\ Saving("daemon", [m EXCEPT !.runtime.endpoints = @ \cup {b}], {"runtime"})
  /\ UNCHANGED <<disk, job, opened, fd, history, log, counters>>

\* An agent registers or joins: a node is added.
Register(n) ==
  /\ pc["daemon"] = "ready"
  /\ Saving("daemon", [mem["daemon"] EXCEPT !.state.nodes = @ \cup {n}], File)
  /\ UNCHANGED <<disk, job, opened, fd, history, log, counters>>

\* The other calls of the daemon leave nodes, bindings and endpoints alone and save
\* the runtime file (commands, inventory), the state file (CreateDomain) or both
\* (ApproveNode).
OtherSave(fs) ==
  /\ pc["daemon"] = "ready"
  /\ Saving("daemon", mem["daemon"], fs)
  /\ UNCHANGED <<disk, job, opened, fd, history, log, counters>>

Next ==
  \/ \E p \in Process :
       \/ \E j \in Job : Start(p, j)
       \/ ReadState(p) \/ ReadRuntime(p) \/ Refused(p)
       \/ Truncate(p) \/ Write(p) \/ Rename(p) \/ SaveFails(p) \/ Crash(p)
       \/ OpenReturns(p) \/ CallReturns(p)
       \/ InitFile(p) \/ CreateNode(p) \/ AddBinding(p)
  \/ \E n \in Node : DeleteNode(n) \/ Register(n)
  \/ \E fs \in (SUBSET File) \ {{}} : OtherSave(fs)
  \/ \E B \in SUBSET AutoBindings : Reconcile(B)
  \/ \E b \in Binding : SaveEndpointLease(b)

Spec == Init /\ [][Next]_vars
-----------------------------------------------------------------------------
(***************************************************************************)
(* Properties.                                                             *)
(***************************************************************************)

Content(f) == {None, Empty, Torn} \cup (IF f = "state" THEN StateText ELSE RuntimeText)

\* Types of the variables.
TypeOK ==
  /\ \A f \in File : file[f] \in Content(f) /\ tmp[f] \in Content(f)
  /\ DOMAIN file = File /\ DOMAIN tmp = File
  /\ pc \in [Process -> {"down", "read state", "read runtime", "truncate",
                         "write", "rename", "saved", "ready"}]
  /\ job \in [Process -> Job \cup {NoJob}]
  /\ opened \in [Process -> BOOLEAN]
  /\ \A p \in Process : pc[p] # "down" => job[p] \in Jobs(p)
  /\ \A p \in Process : opened[p] => pc[p] # "down"
  /\ mem \in [Process -> [state : StateText, runtime : RuntimeText]]
  /\ left \in [Process -> SUBSET File]
  /\ fd \in [Process -> {"tmp", "file", "none"}]
  /\ said \subseteq Binding \ AutoBindings /\ owed \subseteq Binding
  /\ cut \in BOOLEAN /\ orphans \subseteq Binding
  /\ log \in Nat /\ crashes \in Nat /\ faults \in Nat

\* A binding that add-binding reported as saved is in the state file until the
\* deletion of one of its nodes is asked for.
SavedIsKept == said \subseteq Bindings(file["state"])

\* The same while no process is at work on the files.
SavedIsThere ==
  Readable(file["state"]) /\ (\A p \in Process : pc[p] \in {"down", "ready"})
    => said \subseteq Bindings(file["state"])

OldEndpoints(text) == IF Readable(text) THEN text.oldEndpoints ELSE {}

\* The migration loses nothing that is in use, unless an Open is stopped between
\* its two renames; the events survive that too (ensureMaps, Save).
MigrationKept ==
  /\ log = 0 => Readable(file["state"]) /\ file["state"].oldEvents
  /\ ~cut =>
       owed \subseteq OldEndpoints(file["state"]) \cup Endpoints(file["runtime"])
                       \cup UNION {mem[p].runtime.endpoints : p \in {q \in Process : HalfSaved(q)}}

\* As long as no save fails, an endpoint in the runtime file belongs to a binding
\* in the state file.  Two things make up the exception: while a call has saved one
\* file of the two, what it drops from the other; and after a call was stopped there,
\* what it had dropped, until there is such a binding again (Save).
EndpointHasBinding ==
  faults = 0 =>
    Endpoints(file["runtime"]) \subseteq
      Bindings(file["state"]) \cup orphans
        \cup UNION {Binding \ mem[p].runtime.endpoints : p \in {q \in Process : HalfSaved(q)}}

\* The processes that have read the state file, and the bindings the store they have
\* open holds.
Loaded == {p \in Process : pc[p] \notin {"down", "read state"}}
Held == IF Loaded = {} THEN Bindings(file["state"])
                       ELSE UNION {mem[p].state.bindings : p \in Loaded}

\* The files and whoever reads and writes them keep the promise of KeptBindings.
Promise == INSTANCE KeptBindings
             WITH kept <- Bindings(file["state"]), held <- Held, promised <- said
ImplementsPromise == Promise!Spec
=============================================================================
