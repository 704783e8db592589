-------------------------------- MODULE Values --------------------------------
(***************************************************************************)
(* OCaml values as byterun/mlvalues.h lays them out, for the primitives    *)
(* that walk over them.  A value is an immediate integer or the address of *)
(* a block; a block has a tag and fields, or data: the bytes of a string,  *)
(* the numbers and bytes of floats, the number of an object or a custom    *)
(* block.                                                                  *)
(***************************************************************************)
EXTENDS Integers, Sequences

CONSTANT Heap            \* the blocks: address -> [tag, fields, data, out]
Addr == DOMAIN Heap

Long(n) == [isBlock |-> FALSE, n |-> n]
Ptr(a) == [isBlock |-> TRUE, n |-> a]
Block(v) == Heap[v.n]

ClosureTag == 247
ObjectTag == 248
InfixTag == 249
ForwardTag == 250
AbstractTag == 251
StringTag == 252
DoubleTag == 253
DoubleArrayTag == 254
CustomTag == 255

Byte(b) == [num |-> b, nan |-> FALSE, byte |-> b]
Float(x, b) == [num |-> x, nan |-> FALSE, byte |-> b]
NaN(b) == [num |-> 0, nan |-> TRUE, byte |-> b]

Outside(v) == v.isBlock /\ Block(v).out                   \* neither atom, young nor in the heap
IsForward(v) == v.isBlock /\ ~Outside(v) /\ Block(v).tag = ForwardTag
Around(v) == Block(v).fields[1]                            \* the closure an infix pointer is in
Size(v) == Len(Block(v).fields)
Opaque == {ClosureTag, InfixTag, AbstractTag}

Value == [isBlock : BOOLEAN, n : Int]

\* What a value is when forwarding blocks are looked through; no cycle consists of them alone.
Deref(v) == LET d[u \in Value] == IF IsForward(u) THEN d[Block(u).fields[1]] ELSE u
            IN d[v]

\* Two values have the same contents, down to a depth; floats as numbers, NaN the same as NaN.
SameDatum(x, y) == x.nan = y.nan /\ x.num = y.num
SameContents(depth, v, w, datum(_, _)) ==
  LET same[d \in 0..depth, x, y \in Value] ==
        \/ d = 0
        \/ LET p == Deref(x)
               q == Deref(y)
           IN \/ p = q
              \/ /\ p.isBlock /\ q.isBlock /\ ~Outside(p) /\ ~Outside(q)
                 /\ Block(p).tag = Block(q).tag
                 /\ Len(Block(p).data) = Len(Block(q).data) /\ Size(p) = Size(q)
                 /\ \A i \in DOMAIN Block(p).data : datum(Block(p).data[i], Block(q).data[i])
                 /\ \A i \in DOMAIN Block(p).fields : same[d - 1, Block(p).fields[i], Block(q).fields[i]]
  IN same[depth, v, w]
Same(depth, v, w) == SameContents(depth, v, w, SameDatum)
SameBytes(depth, v, w) == SameContents(depth, v, w, =)
================================================================================
