------------------------------- MODULE HashValue -------------------------------
(***************************************************************************)
(* byterun/hash.c: the generic hash.  Two values are hashed one after the  *)
(* other; each step enters one value or leaves the block it is in.         *)
(***************************************************************************)
EXTENDS Values, FiniteSets

CONSTANTS Pairs,         \* what is hashed: pairs of values
          Counts, Limits, \* the parameters of hash_param
          Depth, M       \* of the values compared; the accumulator is taken modulo M

HashAssumption == M \in Nat \ {0} /\ Counts \subseteq Nat /\ Limits \subseteq Nat

VARIABLES pair, n, m,    \* hash_param n m
          turn, pc, obj, count, limit, accu,
          todo,          \* the blocks hash_aux is in: the block and the fields left
          results,
          meaningful     \* of the value being hashed: the leaves taken into account
vars == <<pair, n, m, turn, pc, obj, count, limit, accu, todo, results, meaningful>>

Init == /\ pair \in Pairs /\ n \in Counts /\ m \in Limits
        /\ turn = 1 /\ pc = "enter" /\ obj = pair[1] /\ count = n /\ limit = m /\ accu = 0 /\ todo = <<>>
        /\ results = <<>> /\ meaningful = 0

Alpha == 65599
Beta == 19
Combine(x) == (accu * Alpha + x) % M
Small(xs) == LET h[i \in 0..Len(xs)] == IF i = 0 THEN accu ELSE (h[i - 1] * Beta + xs[i]) % M
             IN h[Len(xs)]                                 \* Combine_small of each
Bytes(d) == [i \in DOMAIN d |-> d[i].byte]

ExhaustedNodes == limit - 1 < 0
\* hash_aux returns at once when either budget is used up.
Exhausted == count < 0 \/ limit - 1 < 0
GiveUp == /\ pc = "enter" /\ Exhausted
          /\ limit' = limit - 1 /\ pc' = "leave"
          /\ UNCHANGED <<pair, n, m, turn, obj, count, accu, todo, results, meaningful>>
Hashes(spend, leaf, a, left) ==
  /\ limit' = limit - 1 /\ count' = count - spend /\ meaningful' = meaningful + leaf /\ accu' = a
  /\ todo' = left /\ pc' = "leave" /\ UNCHANGED <<pair, n, m, turn, obj, results>>
Entering == pc = "enter" /\ ~Exhausted
o == Deref(obj)                                            \* goto again
Tag == Block(o).tag
HashLong == Entering /\ ~o.isBlock /\ Hashes(1, 1, Combine(o.n), todo)
HashAddress == Entering /\ Outside(o) /\ Hashes(0, 0, Combine(o.n), todo)
InHeap == Entering /\ o.isBlock /\ ~Outside(o)
\* A pointer into a closure: hash_aux once more, on the closure around it.
HashInfix == /\ InHeap /\ Tag = InfixTag
             /\ limit' = limit - 1 /\ obj' = Around(o)
             /\ UNCHANGED <<pair, n, m, turn, pc, count, accu, todo, results, meaningful>>
HashString == InHeap /\ Tag = StringTag /\ Hashes(1, 1, Small(Bytes(Block(o).data)), todo)
\* Floats by the bytes of their representation.
HashFloats == InHeap /\ Tag \in {DoubleTag, DoubleArrayTag} /\ Hashes(1, 1, Small(Bytes(Block(o).data)), todo)
HashNothing == /\ InHeap /\ (Tag = AbstractTag \/ (Tag = CustomTag /\ Block(o).data = <<>>))
               /\ Hashes(0, 0, accu, todo)
HashNumber == InHeap /\ Tag \in {ObjectTag, CustomTag} /\ Block(o).data # <<>> /\ Hashes(1, 1, Combine(Block(o).data[1].num), todo)
HashBlockAddress == InHeap /\ Tag <= ClosureTag /\ Hashes(1, 0, Combine(o.n), Append(todo, [b |-> o, i |-> Size(o)]))
\* A block counts, and its fields are hashed from the last one to the first.
HashBlock == InHeap /\ Tag <= ClosureTag /\ Hashes(1, 0, Small(<<Tag>>), Append(todo, [b |-> o, i |-> Size(o)]))

LeaveStays == /\ pc = "leave"
              /\ IF todo = <<>>
                 THEN /\ results' = Append(results, accu) /\ turn' = turn + 1
                      /\ IF turn = 2 THEN pc' = "done" /\ UNCHANGED <<obj, count, limit, accu, meaningful>>
                         ELSE /\ pc' = "enter" /\ obj' = pair[2] /\ count' = n /\ limit' = m /\ accu' = 0 /\ meaningful' = 0
                      /\ UNCHANGED todo
                 ELSE LET top == todo[Len(todo)]
                          rest == SubSeq(todo, 1, Len(todo) - 1)
                      IN /\ UNCHANGED <<turn, count, limit, accu, results, meaningful>>
                         /\ IF top.i = 0 THEN todo' = todo /\ UNCHANGED <<pc, obj>>
                            ELSE /\ todo' = Append(rest, [top EXCEPT !.i = top.i - 1])
                                 /\ pc' = "enter" /\ obj' = Block(top.b).fields[top.i]
              /\ UNCHANGED <<pair, n, m>>
Leave == /\ pc = "leave"
         /\ IF todo = <<>>
            THEN /\ results' = Append(results, accu) /\ turn' = turn + 1
                 /\ IF turn = 2 THEN pc' = "done" /\ UNCHANGED <<obj, count, limit, accu, meaningful>>
                    ELSE /\ pc' = "enter" /\ obj' = pair[2] /\ count' = n /\ limit' = m /\ accu' = 0 /\ meaningful' = 0
                 /\ UNCHANGED todo
            ELSE LET top == todo[Len(todo)]
                     rest == SubSeq(todo, 1, Len(todo) - 1)
                 IN /\ UNCHANGED <<turn, count, limit, accu, results, meaningful>>
                    /\ IF top.i = 0 THEN todo' = rest /\ UNCHANGED <<pc, obj>>
                       ELSE /\ todo' = Append(rest, [top EXCEPT !.i = top.i - 1])
                            /\ pc' = "enter" /\ obj' = Block(top.b).fields[top.i]
         /\ UNCHANGED <<pair, n, m>>

Next == \/ GiveUp \/ HashLong \/ HashAddress \/ HashString \/ HashFloats \/ HashNothing \/ HashNumber
        \/ HashInfix \/ HashBlock \/ Leave
Spec == Init /\ [][Next]_vars /\ WF_vars(Next)

(* ------------------------------ Properties ------------------------------ *)
\* Values with the same contents, their floats byte by byte, hash alike, whatever the budgets cut
\* off.  A float that is equal to another but has other bytes, as 0.0 and -0.0 or two NaNs, does
\* not, whenever it is hashed at all (hashtbl.mli:159 says that equal values hash alike).
IsFloat(v) == v.isBlock /\ Block(v).tag = DoubleTag
SameHash == pc = "done" =>
  /\ SameBytes(Depth, pair[1], pair[2]) => results[1] = results[2]
  /\ IsFloat(pair[1]) /\ IsFloat(pair[2]) =>
       results[1] = results[2] <=> m = 0 \/ SameBytes(Depth, pair[1], pair[2])

\* No more than m values are looked at.  No more than n + 1 are counted, and blocks count: the
\* leaves are at most n, but for n = 0, when one leaf by itself is hashed all the same
\* (hashtbl.mli:169 says that hashing stops after n leaves, and does not count blocks).
IsLeaf(v) == ~v.isBlock \/ (~Outside(v) /\ Block(v).tag \in {StringTag, DoubleTag, DoubleArrayTag})
BudgetIsKept ==
  /\ count >= -1 /\ meaningful <= m
  /\ meaningful <= n \/ (n = 0 /\ meaningful = 1)
  /\ pc = "leave" /\ todo = <<>> /\ m > 0 /\ IsLeaf(pair[turn]) => meaningful = 1

================================================================================
