------------------------------ MODULE Register ------------------------------
(***************************************************************************)
(* What a writer of the configuration expects of the draft layers: a       *)
(* commit adds one change to whatever is committed by then, and nothing    *)
(* else moves.                                                             *)
(***************************************************************************)
CONSTANTS
  Layers,      \* the layers that are written in transactions
  Authors      \* whose changes a layer may hold

VARIABLE data  \* the committed value of each layer: the changes in it

Init == data = [l \in Layers |-> {}]

Commit(l, a) == data' = [data EXCEPT ![l] = @ \cup {a}]

Next == \E l \in Layers, a \in Authors : Commit(l, a)

Spec == Init /\ [][Next]_data

=============================================================================
