-------------------------------- MODULE Compare --------------------------------
(***************************************************************************)
(* byterun/compare.c: structural comparison with a stack of its own.  The  *)
(* comparisons of three values one after another, each step one round of   *)
(* the loop of compare_val.                                                *)
(***************************************************************************)
EXTENDS Values, FiniteSets

CONSTANTS W,             \* bits of a word
          Types,         \* sets of values: those compared have one type
          StackInit, StackMax, \* COMPARE_STACK_INIT_SIZE, COMPARE_STACK_MAX_SIZE
          Depth          \* of the subjects that have no cycle

CompareAssumption == StackInit \in Nat \ {0} /\ StackMax \in Nat

VARIABLES subject,       \* three values
          total,         \* TRUE in caml_compare
          turn,          \* the comparison: 1 of the first two, 2 of the last two, 3 of the outer two
          pc, v1, v2,
          stack,         \* the items: two blocks, the next field and how many are left
          limit,         \* compare_stack_limit - compare_stack
          results        \* what the comparisons returned, or "invalid" or "memory"
vars == <<subject, total, turn, pc, v1, v2, stack, limit, results>>

Unordered == -(2^(W - 1))
Result(kind, n) == [kind |-> kind, n |-> n]
Left(t) == IF t = 2 THEN subject[2] ELSE subject[1]
Right(t) == IF t = 1 THEN subject[2] ELSE subject[3]

Init == /\ \E type \in Types : subject \in [1..3 -> type]
        /\ total \in BOOLEAN /\ turn = 1 /\ pc = "compare"
        /\ v1 = subject[1] /\ v2 = subject[2] /\ stack = <<>> /\ limit = StackInit /\ results = <<>>

EndedKeeping(r) == /\ results' = Append(results, r) /\ stack' = <<>> /\ limit' = limit
                   /\ pc' = IF turn = 3 THEN "done" ELSE "compare"
                   /\ turn' = turn + 1
                   /\ v1' = (IF turn = 3 THEN v1 ELSE Left(turn + 1)) /\ v2' = (IF turn = 3 THEN v2 ELSE Right(turn + 1))
                   /\ UNCHANGED <<subject, total>>
\* caml_compare and its sisters release the stack however the comparison ends by a return.
Ended(r) == /\ results' = Append(results, r) /\ stack' = <<>> /\ limit' = StackInit
            /\ pc' = IF turn = 3 THEN "done" ELSE "compare"
            /\ turn' = turn + 1
            /\ v1' = (IF turn = 3 THEN v1 ELSE Left(turn + 1)) /\ v2' = (IF turn = 3 THEN v2 ELSE Right(turn + 1))
            /\ UNCHANGED <<subject, total>>
Return(n) == Ended(Result("int", n))
Raise(what) == Ended(Result(what, 0))

\* next_item: the next fields of the last item, which goes with its last ones.
NextItem ==
  IF stack = <<>> THEN Return(0)
  ELSE LET sp == stack[Len(stack)]
           rest == SubSeq(stack, 1, Len(stack) - 1)
       IN /\ v1' = Block(sp.b1).fields[sp.i] /\ v2' = Block(sp.b2).fields[sp.i]
          /\ stack' = IF sp.count = 1 THEN rest
                      ELSE Append(rest, [sp EXCEPT !.i = sp.i + 1, !.count = sp.count - 1])
          /\ UNCHANGED <<subject, total, turn, pc, limit, results>>
GoOnWith(x, y) == v1' = x /\ v2' = y /\ UNCHANGED <<subject, total, turn, pc, stack, limit, results>>

Comparing == pc = "compare"
Identical == v1 = v2 /\ (total \/ ~v1.isBlock)
Shortcut == Comparing /\ Identical /\ NextItem

Longs == /\ Comparing /\ ~Identical /\ ~v1.isBlock /\ ~v2.isBlock
         /\ Return(v1.n - v2.n)
Through(v) == Block(v).fields[1]                           \* Forward_val
LongAndBlock == /\ Comparing /\ v1.isBlock # v2.isBlock
                /\ IF v1.isBlock
                   THEN IF IsForward(v1) THEN GoOnWith(Through(v1), v2) ELSE Return(1)
                   ELSE IF IsForward(v2) THEN GoOnWith(v1, Through(v2)) ELSE Return(-1)
Blocks == Comparing /\ ~Identical /\ v1.isBlock /\ v2.isBlock
Addresses == /\ Blocks /\ (Outside(v1) \/ Outside(v2))
             /\ IF v1 = v2 THEN NextItem ELSE Return(v1.n - v2.n)
InHeap == Blocks /\ ~Outside(v1) /\ ~Outside(v2)
ForwardKeeps == /\ InHeap /\ (IsForward(v1) \/ IsForward(v2))
                /\ IF IsForward(v1) THEN GoOnWith(Through(v1), v2) ELSE GoOnWith(v1, v2)
Forward == /\ InHeap /\ (IsForward(v1) \/ IsForward(v2))
           /\ IF IsForward(v1) THEN GoOnWith(Through(v1), v2) ELSE GoOnWith(v1, Through(v2))
Tag(v) == Block(v).tag
Tags == /\ InHeap /\ ~IsForward(v1) /\ ~IsForward(v2) /\ Tag(v1) # Tag(v2) /\ Return(Tag(v1) - Tag(v2))
SameTag(tags) == InHeap /\ ~IsForward(v1) /\ Tag(v1) = Tag(v2) /\ Tag(v1) \in tags

\* The first place where two sequences of data differ, or 0.
Data(v) == Block(v).data
FirstDifference(differ(_, _)) ==
  LET common == {i \in DOMAIN Data(v1) \cap DOMAIN Data(v2) : differ(Data(v1)[i], Data(v2)[i])}
  IN IF common = {} THEN 0 ELSE CHOOSE i \in common : \A j \in common : i <= j
Strings == /\ SameTag({StringTag})
           /\ LET i == FirstDifference(LAMBDA x, y : x.byte # y.byte)
              IN IF i # 0 THEN Return(Data(v1)[i].byte - Data(v2)[i].byte)
                 ELSE IF Len(Data(v1)) # Len(Data(v2)) THEN Return(Len(Data(v1)) - Len(Data(v2)))
                 ELSE NextItem
FloatsDifferUnordered(x, y) == IF x.nan \/ y.nan THEN ~total ELSE x.num # y.num
\* Floats: NaN is below all others in a total order, and unordered otherwise, also with itself.
FloatsDiffer(x, y) == IF x.nan \/ y.nan THEN ~total \/ x.nan # y.nan ELSE x.num # y.num
FloatOrderNoNaN(x, y) == IF x.nan \/ y.nan THEN (IF ~total THEN Unordered ELSE 1) ELSE IF x.num < y.num THEN -1 ELSE 1
FloatOrderTotal(x, y) == IF x.nan \/ y.nan THEN (IF y.nan THEN 1 ELSE -1) ELSE IF x.num < y.num THEN -1 ELSE 1
FloatOrder(x, y) == IF x.nan \/ y.nan THEN (IF ~total THEN Unordered ELSE IF y.nan THEN 1 ELSE -1)
                    ELSE IF x.num < y.num THEN -1 ELSE 1
Floats == /\ SameTag({DoubleTag, DoubleArrayTag})
          /\ IF Len(Data(v1)) # Len(Data(v2)) THEN Return(Len(Data(v1)) - Len(Data(v2)))
             ELSE LET i == FirstDifference(FloatsDiffer)
                  IN IF i # 0 THEN Return(FloatOrder(Data(v1)[i], Data(v2)[i])) ELSE NextItem
OpaqueBlocks == SameTag(Opaque) /\ Raise("invalid")
\* Objects by their number; custom blocks by their own function, if they have one.  None of those
\* of the repository sets caml_compare_unordered, whose effect is left out.
Numbered == /\ SameTag({ObjectTag, CustomTag})
            /\ IF Data(v1) = <<>> THEN Raise("invalid")
               ELSE IF Data(v1)[1].num # Data(v2)[1].num THEN Return(Data(v1)[1].num - Data(v2)[1].num)
               ELSE NextItem

\* Blocks with fields: first the sizes, then the first fields; an item remembers the others.  The
\* stack doubles when it is full, up to a maximum.
Item == [b1 |-> v1, b2 |-> v2, i |-> 2, count |-> Size(v1) - 1]
Structured == InHeap /\ ~IsForward(v1) /\ Tag(v1) = Tag(v2) /\ Tag(v1) < ClosureTag
Fields == /\ Structured
          /\ IF Size(v1) # Size(v2) THEN Return(Size(v1) - Size(v2))
             ELSE IF Size(v1) = 0 THEN NextItem
             ELSE IF Size(v1) = 1 THEN GoOnWith(Through(v1), Through(v2))
             ELSE IF Len(stack) + 1 < limit
               THEN /\ stack' = Append(stack, Item) /\ v1' = Through(v1) /\ v2' = Through(v2)
                    /\ UNCHANGED <<subject, total, turn, pc, limit, results>>
             ELSE IF 2 * limit >= StackMax THEN Raise("memory")
             ELSE /\ limit' = 2 * limit
                  /\ stack' = Append(stack, Item) /\ v1' = Through(v1) /\ v2' = Through(v2)
                  /\ UNCHANGED <<subject, total, turn, pc, results>>

Next == \/ Shortcut \/ Longs \/ LongAndBlock \/ Addresses \/ Forward \/ Tags \/ Strings \/ Floats
        \/ OpaqueBlocks \/ Numbered \/ Fields
Spec == Init /\ [][Next]_vars /\ WF_vars(Next)

(* The predicates, from what compare_val returned. *)
Equal(n) == n = 0
LessThan(n) == n < 0 /\ n # Unordered
LessEqual(n) == n <= 0 /\ n # Unordered
GreaterThan(n) == n > 0
GreaterEqual(n) == n >= 0

(* ------------------------------ Properties ------------------------------ *)
Sign(n) == IF n < 0 THEN -1 ELSE IF n > 0 THEN 1 ELSE 0
Ints == pc = "done" /\ \A t \in 1..3 : results[t].kind = "int"
R(t) == results[t].n

\* compare is a total order: reflexive, transitive and, with the operands swapped, reversed.
IsTotalOrder ==
  Ints /\ total =>
    /\ \A t \in 1..3 : Left(t) = Right(t) => R(t) = 0
    /\ R(1) <= 0 /\ R(2) <= 0 => R(3) <= 0 /\ (R(1) < 0 \/ R(2) < 0 => R(3) < 0)
    /\ subject[1] = subject[3] => Sign(R(1)) = -Sign(R(2))

\* The six predicates: an order that leaves only what has a NaN in it unordered.
HasNaN(v) == LET d == Deref(v) IN d.isBlock /\
               \/ \E i \in DOMAIN Block(d).data : Block(d).data[i].nan
               \/ \E i \in DOMAIN Block(d).fields : LET f == Deref(Block(d).fields[i])
                                                    IN f.isBlock /\ \E j \in DOMAIN Block(f).data : Block(f).data[j].nan
PredicatesAgree ==
  Ints /\ ~total =>
    /\ \A t \in 1..3 : LET n == R(t)
                       IN /\ Cardinality({k \in 1..3 : <<LessThan(n), Equal(n), GreaterThan(n)>>[k]}) = (IF n = Unordered THEN 0 ELSE 1)
                          /\ LessEqual(n) = (LessThan(n) \/ Equal(n)) /\ GreaterEqual(n) = (GreaterThan(n) \/ Equal(n))
                          /\ n = Unordered => HasNaN(Left(t)) \/ HasNaN(Right(t))
    /\ LessEqual(R(1)) /\ LessEqual(R(2)) => LessEqual(R(3))
    /\ subject[1] = subject[3] => LessThan(R(1)) = GreaterThan(R(2)) /\ Equal(R(1)) = Equal(R(2))

\* Two values compare as equal exactly if they have the same contents.
EqualMeansSame ==
  \A t \in DOMAIN results : results[t].kind = "int" =>
    /\ R(t) = 0 => Same(Depth, Left(t), Right(t))
    /\ total /\ Same(Depth, Left(t), Right(t)) => R(t) = 0

\* The stack holds what it has room for, and is the initial one again between comparisons, also
\* after an exception.
StackIsReleased == /\ Len(stack) < limit /\ limit < StackMax
                   /\ \A i \in DOMAIN stack : stack[i].count \in 1..Size(stack[i].b1) - 1
                   /\ pc = "done" => limit = StackInit

================================================================================
