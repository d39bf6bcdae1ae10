---------------------------- MODULE KeptBindings ----------------------------
(***************************************************************************)
(* What the store promises about its bindings, one request, one save and   *)
(* one report taken as one step each.  Whoever opens the store holds a     *)
(* copy of it.  A request changes the copy as a whole: it adds one         *)
(* binding, drops those of one node, or exchanges the automatic ones.  A   *)
(* save keeps exactly the copy, with every request that was made of it and *)
(* no part of one; and whoever opens the store next finds exactly what was *)
(* kept last.  A binding is reported as saved only after it was kept.      *)
(***************************************************************************)
CONSTANTS Node, Binding,
          AutoBindings,  \* the bindings that are nobody's request
          Ends           \* the two nodes of a binding

VARIABLES kept,     \* the bindings the next Open would find
          held,     \* the bindings of the open store; those, if none is open
          promised  \* the bindings reported as saved and not deleted since

vars == <<kept, held, promised>>

Init ==
  /\ kept \in SUBSET Binding
  /\ held = kept
  /\ promised = kept \ AutoBindings

Add(b) ==
  /\ held' = held \cup {b}
  /\ UNCHANGED <<kept, promised>>

Delete(n) ==
  /\ held' = {b \in held : n \notin Ends[b]}
  /\ promised' = {b \in promised : n \notin Ends[b]}
  /\ UNCHANGED kept

Reconcile(B) ==
  /\ held' = (held \ AutoBindings) \cup B
  /\ UNCHANGED <<kept, promised>>

Save ==
  /\ kept' = held
  /\ UNCHANGED <<held, promised>>

Report(b) ==
  /\ b \in kept \cap held
  /\ promised' = promised \cup {b}
  /\ UNCHANGED <<kept, held>>

\* Whoever holds the store ends; what was not saved is forgotten.
Close ==
  /\ held' = kept
  /\ UNCHANGED <<kept, promised>>

Next ==
  \/ \E b \in Binding \ AutoBindings : Add(b) \/ Report(b)
  \/ \E n \in Node : Delete(n)
  \/ \E B \in SUBSET AutoBindings : Reconcile(B)
  \/ Save \/ Close

Spec == Init /\ [][Next]_vars
=============================================================================
