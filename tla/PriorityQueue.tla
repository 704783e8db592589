--------------------------- MODULE PriorityQueue ---------------------------
(***************************************************************************)
(* What the solvers' worklists promise: a bag of elements, of which pop    *)
(* returns one that no other is greater than.  Keys decide the order,      *)
(* elements of one key are told apart.                                     *)
(***************************************************************************)
EXTENDS Integers, Bags

CONSTANTS Key, Label, Capacity   \* bound: elements in the queue

Element == [key : Key, label : Label]

VARIABLES bag, popped

Init == bag = EmptyBag /\ popped = {}

Add(x) == BagCardinality(bag) < Capacity /\ bag' = bag (+) SetToBag({x}) /\ popped' = {}

Pop ==
  \E x \in BagToSet(bag) :
     /\ \A y \in BagToSet(bag) : y.key <= x.key
     /\ bag' = bag (-) SetToBag({x}) /\ popped' = {x}

Next == (\E x \in Element : Add(x)) \/ Pop
Spec == Init /\ [][Next]_<<bag, popped>>
=============================================================================
