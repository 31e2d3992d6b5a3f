---------------------------- MODULE DurableStore ---------------------------
(***************************************************************************)
(* What the settings store promises over power failures: items are changed *)
(* one after the other, each as a whole; a failure drops the changes still *)
(* to come and leaves at most the item being changed undefined.            *)
(***************************************************************************)
EXTENDS Sequences

CONSTANTS
    Item,     \* what is stored
    Value     \* what an item may hold, whole or torn

VARIABLES
    stored,   \* the value of each item
    changes   \* changes under way, [item, value], in their order

Init == stored \in [Item -> Value] /\ changes = <<>>

Begin ==
    /\ changes = <<>>
    /\ changes' \in Seq([item : Item, value : Value]) \ {<<>>}
    /\ UNCHANGED stored

Change ==
    /\ changes # <<>>
    /\ stored' = [stored EXCEPT ![Head(changes).item] = Head(changes).value]
    /\ changes' = Tail(changes)

Fail ==
    /\ changes' = <<>>
    /\ stored' \in [Item -> Value]
    /\ \A item \in Item :
           changes = <<>> \/ item # Head(changes).item => stored'[item] = stored[item]

Next == Begin \/ Change \/ Fail

Spec == Init /\ [][Next]_<<stored, changes>>
============================================================================
