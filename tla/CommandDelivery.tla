-------------------------- MODULE CommandDelivery --------------------------
(***************************************************************************)
(* What the command channel promises, whatever connection is lost and      *)
(* whichever process restarts: commands are issued to one node each; a     *)
(* node handles only its own commands, in the order they were issued, each *)
(* at most once.  It promises no delivery: a command may be skipped.       *)
(***************************************************************************)
EXTENDS Integers, Sequences

CONSTANT Node

VARIABLES target,    \* target[c] is the node command c was issued to
          handled    \* handled[n]: the commands node n has executed, in order

dvars == <<target, handled>>

CDInit == target = <<>> /\ handled = [n \in Node |-> <<>>]

Issue == \E n \in Node : target' = Append(target, n) /\ UNCHANGED handled

Execute(n) ==
  \E c \in DOMAIN target :
     /\ target[c] = n
     /\ \A i \in DOMAIN handled[n] : handled[n][i] < c
     /\ handled' = [handled EXCEPT ![n] = Append(@, c)]
     /\ UNCHANGED target

CDNext == Issue \/ \E n \in Node : Execute(n)

CDSpec == CDInit /\ [][CDNext]_dvars
=============================================================================
