------------------------------ MODULE Compact ------------------------------
(***************************************************************************)
(* caml_compact_heap (byterun/compact.c): compaction by pointer inversion. *)
(* Memory is the words of the heap chunks, of the roots and of the list of *)
(* weak arrays, at addresses that are multiples of 4; a word is a number,  *)
(* as in the code: a header, an odd integer or an address.                 *)
(***************************************************************************)
EXTENDS Integers, Sequences, FiniteSets, SequencesExt

CONSTANTS Chunks,        \* the chunks, in the order of the list: [lo, words]
          RootSlots,     \* addresses of the roots, finalisable values included
          WeakHead,      \* the address of caml_weak_list_head
          Heaps          \* the contents of memory before the compaction

VARIABLES mem, before,   \* memory, and what it was at the start
          pass, todo,    \* the pass, and the addresses it still has to visit
          alloc, fl,     \* Chunk_alloc of each chunk, compact_fl (an index of Chunks)
          fault,         \* the size of the chunk after the last one was read
          kept           \* the chunks left after shrinking
vars == <<mem, before, pass, todo, alloc, fl, fault, kept>>

Null == 0
Closure == 247   Infix == 249   NoScan == 251   StringTag == 252
Hi(c) == c.lo + 4 * c.words
InHeap(q) == \E i \in DOMAIN Chunks : Chunks[i].lo <= q /\ q < Hi(Chunks[i])
Header(wo, tag, color) == wo * 1024 + color * 256 + tag     \* Make_header
White == 0
Blue == 2
Wosize(h) == h \div 1024
TagOf(h) == h % 256
IsBlue(h) == (h \div 256) % 4 = Blue
Ehd(wo, tag) == wo * 1024 + tag * 4 + 3           \* Make_ehd, of color 3
TagEhd(h) == (h \div 4) % 256
Ecolor(w) == w % 4

\* Every header of a chunk, in order, while headers are plain.
RECURSIVE Walk(_, _, _)
Walk(m, p, hi) == IF p >= hi THEN <<>> ELSE <<p>> \o Walk(m, p + 4 * (Wosize(m[p]) + 1), hi)
HeadersOf(m) == FlattenSeq([i \in DOMAIN Chunks |-> Walk(m, Chunks[i].lo, Hi(Chunks[i]))])

Init == /\ mem \in Heaps /\ before = mem
        /\ pass = "encode" /\ todo = HeadersOf(mem)
        /\ alloc = [i \in DOMAIN Chunks |-> 0] /\ fl = 1 /\ fault = FALSE /\ kept = DOMAIN Chunks

(* ------------------------- First pass: headers -------------------------- *)
Encode == /\ pass = "encode"
          /\ mem' = [p \in DOMAIN mem |->
               IF p \in Range(todo)
               THEN Ehd(Wosize(mem[p]), IF IsBlue(mem[p]) THEN StringTag ELSE TagOf(mem[p]))
               ELSE mem[p]]
          /\ pass' = "roots" /\ todo' = SetToSortSeq(RootSlots, <)
          /\ UNCHANGED <<before, alloc, fl, fault, kept>>

(* ---------------------- Second pass: inverted lists --------------------- *)
\* The end of an inverted list: the first word that is no longer a link.
RECURSIVE EndOf(_, _)
EndOf(m, p) == IF Ecolor(m[p]) = 0 THEN EndOf(m, m[p]) ELSE p
RECURSIVE EndOfInfix(_, _)
EndOfInfix(m, p) == IF Ecolor(m[p]) = 3 THEN p ELSE EndOfInfix(m, (m[p] \div 4) * 4)

InvertFirstInfix(m, p) ==
  LET q == m[p]  h == m[q - 4]
      val == q - 4 * Wosize(h)
      hp == EndOf(m, val - 4)
  IN IF ~(Ecolor(q) = 0 /\ InHeap(q)) THEN m
     ELSE CASE Ecolor(h) \in {0, 3} -> [m EXCEPT ![p] = h, ![q - 4] = p]
            [] Ecolor(h) = 2 -> [m EXCEPT ![p] = h, ![q - 4] = p + 2]
            [] OTHER -> [m EXCEPT ![p] = m[hp], ![q - 4] = p + 2, ![hp] = Ehd((q - val) \div 4 - 1, Infix)]
\* invert_pointer_at: the word at p joins the list of what it points to.
InvertAt(m, p) ==
  LET q == m[p]  h == m[q - 4]
      val == q - 4 * Wosize(h)                    \* the block around an infix header
      hp == EndOf(m, val - 4)
      to == Ehd((q - val) \div 4 - 1, Infix)
  IN IF ~(Ecolor(q) = 0 /\ InHeap(q)) THEN m
     ELSE CASE Ecolor(h) \in {0, 3} -> [m EXCEPT ![p] = h, ![q - 4] = p]
            [] Ecolor(h) = 2 -> [m EXCEPT ![p] = h, ![q - 4] = p + 2]
            [] TagEhd(m[hp]) = Closure -> [m EXCEPT ![p] = m[hp], ![q - 4] = p + 2, ![hp] = to]
            [] OTHER -> [m EXCEPT ![p] = val + 4 * Wosize(m[hp]) + 1, ![q - 4] = p + 2, ![hp] = to]
\* The encoded header of the block at p, however deep its lists hide it.
HeaderAt(m, p) ==
  LET e == m[EndOf(m, p)]
  IN IF TagEhd(e) = Infix THEN m[EndOfInfix(m, p + 4 * (Wosize(e) + 1))] ELSE e
Words(m, p) == Wosize(HeaderAt(m, p)) + 1

InvertRoot == /\ pass = "roots"
              /\ IF todo = <<>> THEN pass' = "invert" /\ todo' = <<1, Chunks[1].lo>> /\ UNCHANGED mem
                 ELSE mem' = InvertAt(mem, Head(todo)) /\ todo' = Tail(todo) /\ UNCHANGED pass
              /\ UNCHANGED <<before, alloc, fl, fault, kept>>

\* Where a walk of the heap goes after the block at p of the chunk i.
After(i, p, n) == IF p + 4 * n < Hi(Chunks[i]) THEN <<i, p + 4 * n>>
                  ELSE IF i < Len(Chunks) THEN <<i + 1, Chunks[i + 1].lo>> ELSE <<>>
InvertBlock ==
  /\ pass = "invert"
  /\ IF todo = <<>> THEN pass' = "weak" /\ todo' = <<WeakHead>> /\ UNCHANGED mem
     ELSE LET p == todo[2]  n == Words(mem, p)
              fields == IF TagEhd(HeaderAt(mem, p)) < NoScan THEN [i \in 1..(n - 1) |-> p + 4 * i] ELSE <<>>
          IN /\ mem' = FoldLeft(InvertAt, mem, fields)
             /\ todo' = After(todo[1], p, n) /\ UNCHANGED pass
  /\ UNCHANGED <<before, alloc, fl, fault, kept>>

\* One array of the list of weak arrays: its pointers, then the link to it.
InvertWeak ==
  /\ pass = "weak"
  /\ LET pp == todo[1]  p == mem[pp]
         fields == [i \in 1..(Wosize(mem[EndOf(mem, p - 4)]) - 1) |-> p + 4 * i]
     IN IF p = Null THEN pass' = "revert" /\ todo' = <<1, Chunks[1].lo>> /\ UNCHANGED mem
        ELSE /\ mem' = InvertAt(FoldLeft(InvertAt, mem, fields), pp)
             /\ todo' = <<p>> /\ UNCHANGED pass
  /\ UNCHANGED <<before, alloc, fl, fault, kept>>

(* ----------------------- Third pass: new addresses ---------------------- *)
\* compact_allocate: the chunk the block goes to.  Chunks at compact_fl with room for three
\* fields or less are given up when the next one is as full; the code asks for the size of the
\* next one even when there is none: the program stops there (fault).
Room(a, i) == 4 * Chunks[i].words - a[i]
Full(a, i) == Room(a, i) <= 16
RECURSIVE Advanced(_, _)
Advanced(a, i) == IF i < Len(Chunks) /\ Full(a, i) /\ Full(a, i + 1) THEN Advanced(a, i + 1) ELSE i
ReadsPastUnlessFull(a, i) == Full(a, Len(Chunks))
ReadsPastLast(a, i) == Full(a, Len(Chunks)) /\ Advanced(a, i) = Len(Chunks)
ChunkFor(n) == CHOOSE i \in Advanced(alloc, fl)..Len(Chunks) :
                  /\ Room(alloc, i) >= 4 * n
                  /\ \A j \in Advanced(alloc, fl)..(i - 1) : Room(alloc, j) < 4 * n
Allocate(n) == /\ alloc' = [alloc EXCEPT ![ChunkFor(n)] = @ + 4 * n]
               /\ fl' = Advanced(alloc, fl)
NewAddress(n) == Chunks[ChunkFor(n)].lo + alloc[ChunkFor(n)]

\* The words of an inverted list get the new address back; the header ends it.
RECURSIVE Revert(_, _, _)
Revert(m, q, val) == IF Ecolor(q) # 0 THEN m ELSE Revert([m EXCEPT ![q] = val], m[q], val)
\* One infix header after the other, each with its list.
RECURSIVE RevertList(_, _, _), RevertInfixes(_, _, _, _)
RevertList(m, q, val) == IF Ecolor(q) # 2 THEN <<m, q>>
                         ELSE RevertList([m EXCEPT ![q - 2] = val], m[q - 2], val)
RevertInfixes(m, p, new, inf) ==
  IF Ecolor(inf) = 3 THEN m
  ELSE LET at == (inf \div 4) * 4
           r == RevertList(m, m[at], new + 4 + (at - p))
       IN RevertInfixes([r[1] EXCEPT ![at] = Header((at - p) \div 4, Infix, White)], p, new, r[2])

RevertBlock ==
  /\ pass = "revert" /\ todo # <<>> /\ ~fault
  /\ LET p == todo[2]  q == mem[p]  n == Words(mem, p)  tag == TagEhd(HeaderAt(mem, p))
         e == mem[EndOf(mem, p)]
         used == Ecolor(q) = 0 \/ TagEhd(q) = Infix
         new == NewAddress(n)
         plain == [Revert(mem, q, new + 4) EXCEPT ![p] = Header(n - 1, tag, White)]
     IN IF used /\ ReadsPastLast(alloc, fl) THEN fault' = TRUE /\ UNCHANGED <<mem, todo, alloc, fl>>
        ELSE /\ IF used
                THEN /\ Allocate(n)
                     /\ mem' = IF TagEhd(e) = Infix
                               THEN RevertInfixes(plain, p, new, p + 4 * (Wosize(e) + 1)) ELSE plain
                ELSE mem' = [mem EXCEPT ![p] = Header(Wosize(q), TagEhd(q), Blue)] /\ UNCHANGED <<alloc, fl>>
             /\ todo' = After(todo[1], p, n) /\ UNCHANGED fault
  /\ UNCHANGED <<before, pass, kept>>
StartMovingFull ==
               /\ pass = "revert" /\ todo = <<>>
               /\ pass' = "move" /\ todo' = HeadersOf(mem)
               /\ UNCHANGED <<mem, before, alloc, fl, fault, kept>>
StartMoving == /\ pass = "revert" /\ todo = <<>>
               /\ pass' = "move" /\ todo' = HeadersOf(mem)
               /\ alloc' = [i \in DOMAIN Chunks |-> 0] /\ fl' = 1
               /\ UNCHANGED <<mem, before, fault, kept>>

(* ------------------ Fourth pass: moving; the free space ----------------- *)
SkipsNothing(p) == FALSE
Skips(p) == IsBlue(mem[p])
Move == /\ pass = "move" /\ todo # <<>>
        /\ LET p == Head(todo)  n == Wosize(mem[p]) + 1  new == NewAddress(n)
           IN IF Skips(p) THEN UNCHANGED <<mem, alloc, fl>>
              ELSE /\ Allocate(n)
                   /\ mem' = [a \in DOMAIN mem |->
                        IF a >= new /\ a < new + 4 * n THEN mem[p + (a - new)] ELSE mem[a]]
        /\ todo' = Tail(todo)
        /\ UNCHANGED <<before, pass, fault, kept>>

\* Empty chunks are kept until there is room enough; what is free becomes one free block.
FreeAt(i) == Chunks[i].lo + alloc[i]
FreeBefore(i) == FoldLeft(LAMBDA n, j : n + (IF alloc[j] # 0 \/ j < i THEN Room(alloc, j) ELSE 0),
                          0, [j \in DOMAIN Chunks |-> j])
KeepsEnough(i, wanted) == FreeBefore(i) < wanted
Keeps(i, wanted) == alloc[i] # 0 \/ FreeBefore(i) < wanted
Shrink(wanted) ==
  /\ pass = "move" /\ todo = <<>>
  /\ kept' = {i \in DOMAIN Chunks : Keeps(i, wanted)} \cup {1}
  /\ mem' = [a \in DOMAIN mem |->
       IF \E i \in DOMAIN Chunks : a = FreeAt(i) /\ Room(alloc, i) > 0
       THEN LET i == CHOOSE j \in DOMAIN Chunks : a = FreeAt(j) /\ Room(alloc, j) > 0
            IN Header(Room(alloc, i) \div 4 - 1, 0, IF Room(alloc, i) = 4 THEN White ELSE Blue)
       ELSE mem[a]]
  /\ pass' = "done"
  /\ UNCHANGED <<before, todo, alloc, fl, fault>>

Next == Encode \/ InvertRoot \/ InvertBlock \/ InvertWeak \/ RevertBlock \/ StartMoving \/ Move
        \/ \E wanted \in {0, 1000} : Shrink(wanted)
Spec == Init /\ [][Next]_vars

(* ------------------------------ Properties ------------------------------ *)
\* The blocks of a plain memory that its roots reach: the heap as the program sees it.
IsValue(m, v) == Ecolor(v) = 0 /\ InHeap(v)
BlockOf(m, v) == IF TagOf(m[v - 4]) = Infix THEN v - 4 * Wosize(m[v - 4]) ELSE v
Fields(m, b) == [i \in 1..Wosize(m[b - 4]) |-> m[b + 4 * (i - 1)]]
Scanned(m, b) == TagOf(m[b - 4]) < NoScan
Grow(m, s) == s \cup {BlockOf(m, v) : v \in {w \in UNION {Range(Fields(m, b)) : b \in {c \in s : Scanned(m, c)}} :
                                              IsValue(m, w)}}
RECURSIVE Closed(_, _)
Closed(m, s) == IF Grow(m, s) = s THEN s ELSE Closed(m, Grow(m, s))
Live(m) == Closed(m, {BlockOf(m, m[r]) : r \in {s \in RootSlots : IsValue(m, m[s])}})

\* The chunks are blocks, and values point to blocks.
PointsToBlocks(m) ==
  LET hs == Range(HeadersOf(m))
      slots == RootSlots \cup UNION {{h + 4 * i : i \in 1..Wosize(m[h])} :
                                        h \in {g \in hs : ~IsBlue(m[g]) /\ TagOf(m[g]) < NoScan}}
  IN \A p \in slots : p \in DOMAIN m /\ (IsValue(m, m[p]) => m[p] - 4 \in DOMAIN m /\ BlockOf(m, m[p]) - 4 \in hs)

\* The same program: the roots and the reachable blocks correspond one to one, with their
\* sizes, tags, integers, bytes, and pointers into the corresponding place, infix pointers and
\* weak pointers to reachable blocks included.
Moved(m, f, v, w) == IF IsValue(before, v) THEN /\ IsValue(m, w)
                        /\ BlockOf(before, v) \in DOMAIN f =>
                              BlockOf(m, w) = f[BlockOf(before, v)] /\ w - BlockOf(m, w) = v - BlockOf(before, v)
                     ELSE w = v
GraphIsKept ==
  pass = "done" => PointsToBlocks(mem) /\
    \E f \in {g \in [Live(before) -> Live(mem)] : \A a, b \in Live(before) : g[a] = g[b] => a = b} :
      /\ \A r \in RootSlots : Moved(mem, f, before[r], mem[r])
      /\ \A b \in Live(before) :
           /\ mem[f[b] - 4] = before[b - 4]
           /\ IF TagOf(before[b - 4]) = StringTag THEN Fields(mem, f[b]) = Fields(before, b)
              ELSE \A i \in 1..Wosize(before[b - 4]) : Moved(mem, f, Fields(before, b)[i], Fields(mem, f[b])[i])

\* Free space is at the end of each chunk, in one block: what compaction is for.
IsCompact == pass = "done" =>
   \A i \in DOMAIN Chunks :
      LET hs == Walk(mem, Chunks[i].lo, Hi(Chunks[i]))
      IN \A k \in 1..(Len(hs) - 1) : ~IsBlue(mem[hs[k]])

\* A block never moves up, nor over one that has not moved yet (the assertion of pass 4).
MovesDown == pass = "move" => \A i \in DOMAIN todo :
   LET p == todo[i] IN ~IsBlue(mem[p]) => \A j \in DOMAIN Chunks :
      Chunks[j].lo <= p /\ p < Hi(Chunks[j]) => FreeAt(j) <= p

\* The chunk after the last one is asked for its size (compact.c:132) only when every chunk is
\* left with room for three fields or less: then the compaction goes no further, though the block
\* to place may have had room.  It never happens while a chunk has more.
FaultsOnlyWhenFull == fault => \A i \in DOMAIN Chunks : Full(alloc, i)

\* No chunk in use is given back.
KeptAreUsed == pass = "done" => \A b \in Live(mem) : \E i \in kept : Chunks[i].lo < b /\ b <= Hi(Chunks[i])
=============================================================================
