------------------------------ MODULE FreeList ------------------------------
(***************************************************************************)
(* The major heap's memory: the free list of byterun/freelist.c, the sweep *)
(* of major_gc.c that fills it and the allocation of memory.c that empties *)
(* it, interleaved slice by slice.  Memory is words; a block is a header   *)
(* word at address a and hd[a].wo words after it.  Address 0 stands for    *)
(* the sentinel Fl_head.                                                   *)
(***************************************************************************)
EXTENDS Integers, Sequences, FiniteSets, SequencesExt

CONSTANTS MaxWosize,     \* Max_wosize
          Chunk,         \* chunks [lo, hi] malloc may return, none adjacent to another
          FirstChunk,    \* the initial heap
          Wosizes,       \* the sizes the program allocates
          SizeModulus    \* an asize_t counts modulo this

FreeListAssumption ==
  /\ MaxWosize \in Nat \ {0} /\ FirstChunk \in Chunk
  /\ \A c \in Chunk : c.lo \in Nat \ {0} /\ c.hi \in Nat /\ c.lo < c.hi
  /\ \A c, d \in Chunk : c = d \/ c.hi + 1 < d.lo \/ d.hi + 1 < c.lo
  /\ \A c \in Chunk : (c.hi - c.lo + 1) % (MaxWosize + 1) # 1     \* both are whole pages
  /\ Wosizes \subseteq 1..MaxWosize
  /\ SizeModulus \in Nat /\ \A c \in Chunk : c.hi < SizeModulus

VARIABLES hd,          \* headers: address -> [wo, color]
          fl,          \* the free list: addresses in the order of the links
          flPrev,      \* fl_prev: where the next search starts
          flMerge,     \* caml_fl_merge: where the sweep inserts
          flSize,      \* caml_fl_cur_size
          fragment,    \* last_fragment
          phase,       \* caml_gc_phase
          sweepHp, limit,
          chunks,      \* the chunks of the heap
          live,        \* the program's blocks, as <<address, wosize>>
          untold       \* history: words added to the list that flSize was not told of

vars == <<hd, fl, flPrev, flMerge, flSize, fragment, phase, sweepHp, limit, chunks, live, untold>>
list == <<fl, flPrev, flMerge, flSize>>
sweep == <<fragment, phase, sweepHp, limit>>

Header(wo, color) == [wo |-> wo, color |-> color]
Wrap(n) == n % SizeModulus
After(a) == a + hd[a].wo + 1                     \* the header that follows
IndexOf(a) == IF a = 0 THEN 0 ELSE CHOOSE i \in DOMAIN fl : fl[i] = a
Elem(i) == IF i = 0 THEN 0 ELSE fl[i]            \* what fl[i + 1] is the Next of
InsertAtEnd(a, s) == fl \o s
InsertAfter(a, s) == LET i == IndexOf(a) IN SubSeq(fl, 1, i) \o s \o SubSeq(fl, i + 1, Len(fl))

(* caml_make_free_blocks and the loop of expand_heap: a chunk cut into pieces *)
PieceStarts(c) == {a \in c.lo..c.hi : (a - c.lo) % (MaxWosize + 1) = 0}
Pieces(c) == [a \in PieceStarts(c) |->
                Header(IF a + MaxWosize <= c.hi THEN MaxWosize ELSE c.hi - a, "blue")]
FreePieces(c) == SetToSortSeq(PieceStarts(c), <)

Init == /\ hd = Pieces(FirstChunk) /\ fl = FreePieces(FirstChunk)
        /\ flPrev = 0 /\ flMerge = Last(FreePieces(FirstChunk))
        /\ flSize = FirstChunk.hi - FirstChunk.lo + 1
        /\ fragment = 0 /\ phase = "idle" /\ sweepHp = FirstChunk.lo /\ limit = FirstChunk.lo
        /\ chunks = {FirstChunk} /\ live = {} /\ untold = 0

(* ------------------------------ Allocation ------------------------------ *)
\* caml_fl_allocate (first fit) looks from fl_prev to the end, then from the start to fl_prev.
SearchOrder == LET p == IndexOf(flPrev) IN [i \in 1..Len(fl) |-> ((p + i - 1) % Len(fl)) + 1]
Fits(wo) == {k \in 1..Len(fl) : hd[fl[SearchOrder[k]]].wo >= wo}
Found(wo) == SearchOrder[CHOOSE k \in Fits(wo) : \A j \in Fits(wo) : k <= j]

AllocationColorStrict(hp) == IF phase = "mark" \/ (phase = "sweep" /\ hp > sweepHp) THEN "black" ELSE "white"
\* caml_allocation_color.
AllocationColor(hp) == IF phase = "mark" \/ (phase = "sweep" /\ hp >= sweepHp) THEN "black" ELSE "white"
\* allocate_block: the right end of the free block is taken; what is left stays on the list
\* if it can hold a link, and is a fragment if it is a lone header.
Splits(a, wo) == hd[a].wo >= wo + 2
MergeAfterTaking(a, prev) == IF flMerge = a THEN prev ELSE flMerge
Allocate(wo) ==
  /\ Fits(wo) # {}
  /\ LET i == Found(wo)  a == fl[i]  prev == Elem(i - 1)
         hp == a + hd[a].wo - wo
         rest == IF Splits(a, wo) THEN Header(hd[a].wo - wo - 1, "blue") ELSE Header(0, "white")
     IN /\ hd' = [b \in DOMAIN hd \cup {hp} |->
                    CASE b = hp -> Header(wo, AllocationColor(hp)) [] b = a -> rest [] OTHER -> hd[b]]
        /\ IF Splits(a, wo)
           THEN flSize' = Wrap(flSize - (wo + 1)) /\ UNCHANGED <<fl, flMerge>>
           ELSE /\ flSize' = Wrap(flSize - (hd[a].wo + 1))
                /\ fl' = RemoveAt(fl, i) /\ flMerge' = MergeAfterTaking(a, prev)
        /\ flPrev' = prev
        /\ live' = live \cup {<<hp, wo>>}
  /\ UNCHANGED <<sweep, chunks, untold>>

\* expand_heap, caml_add_to_heap and caml_fl_add_blocks; the allocation is then tried again.
LastBefore(a) == LET s == {i \in DOMAIN fl : fl[i] < a}
                 IN IF s = {} THEN 0 ELSE fl[CHOOSE i \in s : \A j \in s : j <= i]
\* Only the first piece of a chunk is counted.
AddedSize(c) == Pieces(c)[c.lo].wo + 1
MergeIgnoresAdding(c, prev) == flMerge
MergeAfterAdding(c, prev) == IF flMerge = prev /\ c.lo < sweepHp THEN Last(FreePieces(c)) ELSE flMerge
Expand(wo, c) ==
  /\ Fits(wo) = {} /\ c \notin chunks
  /\ LET prev == LastBefore(c.lo)
     IN /\ hd' = [a \in DOMAIN hd \cup PieceStarts(c) |-> IF a \in PieceStarts(c) THEN Pieces(c)[a] ELSE hd[a]]
        /\ fl' = InsertAfter(prev, FreePieces(c))
        /\ flMerge' = MergeAfterAdding(c, prev)
  /\ flSize' = Wrap(flSize + AddedSize(c))
  /\ untold' = untold + (c.hi - c.lo + 1) - (Pieces(c)[c.lo].wo + 1)
  /\ chunks' = chunks \cup {c}
  /\ UNCHANGED <<flPrev, sweep, live>>

(* -------------------------------- Cycles -------------------------------- *)
StartMark == /\ phase = "idle" /\ phase' = "mark"
             /\ UNCHANGED <<hd, list, fragment, sweepHp, limit, chunks, live, untold>>

\* Marking ends: the blocks in dead were found unreachable, the others are black.
FirstOf(cs) == CHOOSE c \in cs : \A d \in cs : c.lo <= d.lo
White == {b \in live : hd[b[1]].color = "white"}
EndMark(dead) ==
  /\ phase = "mark" /\ dead \subseteq White
  /\ hd' = [a \in DOMAIN hd |-> IF \E b \in live \ dead : b[1] = a THEN Header(hd[a].wo, "black") ELSE hd[a]]
  /\ live' = live \ dead
  /\ phase' = "sweep" /\ fragment' = 0 /\ flMerge' = 0
  /\ sweepHp' = FirstOf(chunks).lo /\ limit' = FirstOf(chunks).hi + 1
  /\ UNCHANGED <<fl, flPrev, flSize, chunks, untold>>

Sweeping(color) == phase = "sweep" /\ sweepHp < limit /\ hd[sweepHp].color = color

SweepBlack == /\ Sweeping("black")
              /\ hd' = [hd EXCEPT ![sweepHp].color = "white"] /\ sweepHp' = After(sweepHp)
              /\ UNCHANGED <<list, fragment, phase, limit, chunks, live, untold>>
SweepBlue == /\ Sweeping("blue")
             /\ flMerge' = sweepHp /\ sweepHp' = After(sweepHp)
             /\ UNCHANGED <<hd, fl, flPrev, flSize, fragment, phase, limit, chunks, live, untold>>

\* caml_fl_merge_block: with the fragment before it, the free block after it, then the free
\* block before it; or on the list; or remembered as a fragment.
JoinsFragment(a) == fragment # 0 /\ fragment + 1 = a /\ hd[a].wo + 1 <= MaxWosize
Start(a) == IF JoinsFragment(a) THEN fragment ELSE a
GrownShort(a) == hd[a].wo
Grown(a) == IF JoinsFragment(a) THEN hd[a].wo + 1 ELSE hd[a].wo
NextFree == IF IndexOf(flMerge) < Len(fl) THEN fl[IndexOf(flMerge) + 1] ELSE 0
JoinsNext(a) == /\ NextFree # 0 /\ After(a) = NextFree
                /\ Grown(a) + hd[NextFree].wo + 1 <= MaxWosize
Total(a) == IF JoinsNext(a) THEN Grown(a) + hd[NextFree].wo + 1 ELSE Grown(a)
JoinsPrevious(a) == /\ flMerge # 0 /\ After(flMerge) = Start(a)
                    /\ hd[flMerge].wo + Total(a) + 1 < MaxWosize
PrevKept(a) == flPrev
PrevAfterJoin(a) == IF JoinsNext(a) /\ flPrev = NextFree THEN flMerge ELSE flPrev
CountedFragment(a) == flSize + hd[a].wo + 1 + (IF JoinsFragment(a) THEN 1 ELSE 0)
Counted(a) == flSize + hd[a].wo + 1 + (IF JoinsFragment(a) THEN 1 ELSE 0)
              - (IF Total(a) = 0 /\ ~JoinsPrevious(a) THEN 1 ELSE 0)
SweepWhite ==
  /\ Sweeping("white")
  /\ LET a == sweepHp  b == Start(a)
         gone == {a} \cup (IF JoinsNext(a) THEN {NextFree} ELSE {})
         head == IF JoinsPrevious(a) THEN flMerge ELSE b
         wo == IF JoinsPrevious(a) THEN hd[flMerge].wo + Total(a) + 1 ELSE Total(a)
         listed == IF JoinsNext(a) THEN RemoveAt(fl, IndexOf(NextFree)) ELSE fl
         i == IndexOf(flMerge)
         isFragment == Total(a) = 0 /\ ~JoinsPrevious(a)
     IN /\ hd' = [x \in ((DOMAIN hd \ gone) \ {b}) \cup {head} |->
                    IF x = head THEN Header(wo, IF isFragment THEN "white" ELSE "blue") ELSE hd[x]]
        /\ flPrev' = PrevAfterJoin(a)
        /\ flSize' = Wrap(Counted(a))
        /\ IF JoinsPrevious(a) \/ isFragment THEN fl' = listed /\ UNCHANGED flMerge
           ELSE fl' = SubSeq(listed, 1, i) \o <<b>> \o SubSeq(listed, i + 1, Len(listed)) /\ flMerge' = b
        /\ fragment' = IF isFragment THEN b ELSE fragment
        /\ sweepHp' = b + Total(a) + 1
  /\ UNCHANGED <<phase, limit, chunks, live, untold>>

Later == {c \in chunks : c.lo >= limit}
NextChunkSkips == /\ phase = "sweep" /\ sweepHp >= limit /\ Later # {}
                  /\ \E d \in Later : /\ \A c \in Later : c.lo <= d.lo
                                        /\ sweepHp' = d.lo /\ limit' = d.hi + 1
                  /\ UNCHANGED <<hd, list, fragment, phase, chunks, live, untold>>
NextChunk == /\ phase = "sweep" /\ sweepHp >= limit /\ Later # {}
             /\ sweepHp' = FirstOf(Later).lo /\ limit' = FirstOf(Later).hi + 1
             /\ UNCHANGED <<hd, list, fragment, phase, chunks, live, untold>>
EndSweep == /\ phase = "sweep" /\ sweepHp >= limit /\ Later = {}
            /\ phase' = "idle"
            /\ UNCHANGED <<hd, list, fragment, sweepHp, limit, chunks, live, untold>>

Slice == \/ StartMark \/ \E dead \in SUBSET White : EndMark(dead)
         \/ SweepBlack \/ SweepBlue \/ SweepWhite \/ NextChunk \/ EndSweep
Next == \/ \E wo \in Wosizes : Allocate(wo) \/ \E c \in Chunk : Expand(wo, c)
        \/ Slice
Spec == Init /\ [][Next]_vars

(* ------------------------------ Statistics ------------------------------ *)
\* The words of the blocks at as, which do not overlap.
WordsIn(as) == Cardinality(UNION {a..(a + hd[a].wo) : a \in as})
UnsweptIsLive(a) == hd[a].color = "blue"
\* heap_stats: a white block that the sweep has still to pass is free already.
CountsAsFree(a) == \/ hd[a].color = "blue"
                   \/ hd[a].color = "white" /\ hd[a].wo > 0 /\ phase = "sweep" /\ a >= sweepHp
HeapStats == LET fragments == {a \in DOMAIN hd : hd[a].wo = 0}
                 free == {a \in DOMAIN hd : CountsAsFree(a)}
             IN [live |-> WordsIn(DOMAIN hd \ (free \cup fragments)), free |-> WordsIn(free),
                 fragments |-> Cardinality(fragments)]

(* ------------------------------ Properties ------------------------------ *)
\* The types of the pointers.
TypeOK == /\ flPrev \in {0} \cup DOMAIN hd /\ flMerge \in {0} \cup DOMAIN hd
          /\ flSize \in 0..(SizeModulus - 1) /\ phase \in {"idle", "mark", "sweep"}
          /\ \A a \in DOMAIN hd : hd[a].wo \in 0..MaxWosize /\ hd[a].color \in {"white", "black", "blue"}

\* The blocks of a chunk follow one another without gap or overlap, up to its end: what
\* the sweep and every walk of the heap rely on.
HeapIsTiled == \A c \in chunks :
   LET starts == {a \in DOMAIN hd : a \in c.lo..c.hi}
   IN c.lo \in starts /\ \A a \in starts : After(a) = c.hi + 1 \/ After(a) \in starts

\* What fl_check and the searches rely on: the list is sorted by address and holds
\* the blue blocks, fl_prev is on it.
ListIsBlue == /\ {fl[i] : i \in DOMAIN fl} = {a \in DOMAIN hd : hd[a].color = "blue"}
              /\ \A i \in 1..(Len(fl) - 1) : fl[i] < fl[i + 1]
              /\ flPrev \in {0} \cup {fl[i] : i \in DOMAIN fl}

\* freelist.c:284: caml_fl_merge is the last free block before the sweep pointer.
MergeIsLastSwept == phase = "sweep" => flMerge = LastBefore(sweepHp)

\* caml_fl_cur_size is the number of words in the free list, with headers, without fragments,
\* less those of every piece but the first of a chunk that was cut up (freelist.c:265).
Words == FoldLeft(LAMBDA n, a : n + hd[a].wo + 1, 0, fl)
SizeIsExact == Wrap(flSize + untold) = Words
\* freelist.c:48 and the assertion at freelist.c:76: it is that number.
SizeIsThatOfList == flSize = Words

\* A block of the program keeps its place and size until it is found dead, and the sweep
\* leaves it for the next cycle to mark again: white behind the pointer, black before it.
LiveIsIntact == \A b \in live : /\ b[1] \in DOMAIN hd /\ hd[b[1]].wo = b[2]
                                /\ hd[b[1]].color # "blue"
                                /\ phase = "sweep" => (hd[b[1]].color = "black") = (b[1] >= sweepHp)
                                /\ phase = "idle" => hd[b[1]].color = "white"

\* Gc.stat at any point of a cycle: its live words are those of the blocks not found dead, and
\* with the free ones and the fragments they make up the heap (assertion of heap_stats); between
\* cycles its free words are those of the free list, counted or not.
StatIsExact ==
  LET stat == HeapStats
  IN /\ stat.live = Cardinality(UNION {b[1]..(b[1] + b[2]) : b \in live})
     /\ stat.live + stat.free + stat.fragments = Cardinality(UNION {c.lo..c.hi : c \in chunks})
     /\ phase # "sweep" => stat.free = Wrap(flSize + untold)

\* Once a sweep is over every word is a live block, a free block or a header of its own: no
\* dead block is left out of the free list.
NothingIsLost == phase = "idle" =>
   \A a \in DOMAIN hd : \/ hd[a].color = "blue" \/ hd[a].wo = 0 \/ <<a, hd[a].wo>> \in live
=============================================================================
