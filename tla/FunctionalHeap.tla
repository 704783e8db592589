-------------------------- MODULE FunctionalHeap --------------------------
(***************************************************************************)
(* Heap.Functional, utils/heap.ml and external/misc/heaps.ml: the heap of  *)
(* both worklists, a binary tree that keeps its two sides balanced.        *)
(***************************************************************************)
EXTENDS Integers, Bags

CONSTANTS Key, Label, Capacity   \* bound: elements in the heap

HeapIsBounded == Key \subseteq Int /\ Capacity \in Nat

Element == [key : Key, label : Label]

VARIABLES heap, popped
vars == <<heap, popped>>

Empty == [node |-> "Empty"]
Node(kind, l, x, r) == [node |-> kind, left |-> l, elt |-> x, right |-> r]
Same(l, x, r) == Node("Same", l, x, r)
Diff(l, x, r) == Node("Diff", l, x, r)
Leaf(x) == Same(Empty, x, Empty)
IsLeaf(h) == h.node = "Same" /\ h.left = Empty /\ h.right = Empty

(* X.compare x y > 0 *)
Greater(x, y) == x.key > y.key

(* An add that always goes left. *)
RECURSIVE addLeft(_, _)
addLeft(x, h) ==
  IF h = Empty THEN Leaf(x)
  ELSE LET top  == IF Greater(x, h.elt) THEN x ELSE h.elt
           down == IF Greater(x, h.elt) THEN h.elt ELSE x
       IN Node(IF h.node = "Same" THEN "Diff" ELSE "Same", addLeft(down, h.left), top, h.right)

(* The smaller of the two goes down: to the left of a Same, to the right of a Diff. *)
RECURSIVE add(_, _)
add(x, h) ==
  IF h = Empty THEN Leaf(x)
  ELSE LET top  == IF Greater(x, h.elt) THEN x ELSE h.elt
           down == IF Greater(x, h.elt) THEN h.elt ELSE x
       IN IF h.node = "Same" THEN Diff(add(down, h.left), top, h.right)
                             ELSE Same(h.left, top, add(down, h.right))

maximum(h) == h.elt

(* An element of the bottom level and the tree without it. *)
RECURSIVE extract_last(_)
extract_last(h) ==
  IF IsLeaf(h) THEN <<h.elt, Empty>>
  ELSE IF h.node = "Same"
       THEN LET e == extract_last(h.right) IN <<e[1], Diff(h.left, h.elt, e[2])>>
       ELSE LET e == extract_last(h.left)  IN <<e[1], Same(e[2], h.elt, h.right)>>

(* A descent that looks at the left side only. *)
RECURSIVE descentLeft(_, _)
descentLeft(x, h) ==
  IF IsLeaf(h) THEN Leaf(x)
  ELSE IF Greater(x, maximum(h.left)) THEN [h EXCEPT !.elt = x]
  ELSE [h EXCEPT !.elt = maximum(h.left), !.left = descentLeft(x, h.left)]

(* x replaces the top and goes down to the greater side. *)
RECURSIVE descent(_, _)
descent(x, h) ==
  IF IsLeaf(h) THEN Leaf(x)
  ELSE IF h.node = "Diff" /\ h.right = Empty
       THEN LET z == maximum(h.left)
            IN IF Greater(x, z) THEN Diff(h.left, x, Empty) ELSE Diff(Leaf(x), z, Empty)
  ELSE LET ml == maximum(h.left)
           mr == maximum(h.right)
       IN IF Greater(x, ml) /\ Greater(x, mr) THEN [h EXCEPT !.elt = x]
          ELSE IF Greater(ml, mr) THEN [h EXCEPT !.elt = ml, !.left = descent(x, h.left)]
          ELSE [h EXCEPT !.elt = mr, !.right = descent(x, h.right)]

remove(h) ==
  IF IsLeaf(h) THEN Empty ELSE LET e == extract_last(h) IN descent(e[1], e[2])

RECURSIVE Size(_), Height(_), Contents(_)
Size(h) == IF h = Empty THEN 0 ELSE Size(h.left) + 1 + Size(h.right)
Height(h) ==
  IF h = Empty THEN 0
  ELSE 1 + (IF Height(h.left) > Height(h.right) THEN Height(h.left) ELSE Height(h.right))
Contents(h) ==
  IF h = Empty THEN EmptyBag ELSE Contents(h.left) (+) SetToBag({h.elt}) (+) Contents(h.right)

Init == heap = Empty /\ popped = {}
Add(x) == Size(heap) < Capacity /\ heap' = add(x, heap) /\ popped' = {}
PopMaximum == heap # Empty /\ popped' = {maximum(heap)} /\ heap' = remove(heap)

Next == (\E x \in Element : Add(x)) \/ PopMaximum
Spec == Init /\ [][Next]_vars
-----------------------------------------------------------------------------
RECURSIVE HasShape(_)
HasShape(h) ==
  h = Empty \/ /\ Size(h.left) = Size(h.right) + (IF h.node = "Diff" THEN 1 ELSE 0)
               /\ HasShape(h.left) /\ HasShape(h.right)

(* heap.ml's representation invariant: the left side has as many nodes as the right, *)
(* or one more, as the constructor says (maximum of an empty side would raise), and   *)
(* a tree of height h has between 2^(h-1) and 2^h elements.                           *)
Balanced ==
  /\ HasShape(heap)
  /\ heap # Empty => 2 ^ (Height(heap) - 1) <= Size(heap) /\ Size(heap) <= 2 ^ Height(heap)

(* The tree implements the priority queue: whatever was added and popped before, and *)
(* with equal keys in it, a pop returns a greatest element and loses no other.       *)
Queue == INSTANCE PriorityQueue WITH bag <- Contents(heap)
ImplementsQueue == Queue!Spec
=============================================================================
