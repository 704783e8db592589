------------------------------- MODULE GcHeap -------------------------------
(***************************************************************************)
(* The two heaps of byterun: a minor heap emptied by copying (minor_gc.c)  *)
(* and a major heap marked and swept a slice at a time (major_gc.c), with  *)
(* the write barrier of memory.h, the weak arrays of weak.c and the        *)
(* finalised values of finalise.c.  A block is its address in 1..N and has *)
(* one field; a weak array has one pointer.                                *)
(***************************************************************************)
EXTENDS Naturals, Sequences, FiniteSets, SequencesExt, FiniteSetTheorems, WellFoundedInduction,
        NaturalsInduction, TLAPS

CONSTANTS N,          \* addresses
          Roots,      \* stack slots, C roots and globals
          GrayCap,    \* gray_vals_size when it cannot grow
          GrayKept,   \* what realloc_gray_vals keeps: half, or nothing if realloc fails
          Weak,       \* the program uses weak arrays
          Finalise    \* the program registers finalisation functions

GcHeapAssumption == /\ N \in Nat \ {0} /\ Roots # {} /\ GrayKept \in Nat /\ GrayCap \in Nat
                    /\ GrayKept < GrayCap /\ Weak \in BOOLEAN /\ Finalise \in BOOLEAN

VARIABLES where,      \* of an address: "free", "young" or "old"
          weak,       \* the addresses of weak arrays (Abstract_tag: not scanned)
          field,      \* the field of a block, the pointer of a weak array
          root,       \* the values of the roots
          refTable,   \* caml_ref_table: old blocks whose field is registered
          weakRefs,   \* caml_weak_ref_table
          marks,      \* [color, stack, pure]: headers, gray_vals, heap_is_pure
          phase, sub, \* caml_gc_phase, caml_gc_subphase
          markhp, sweepHp,
          weakList, weakPrev,   \* caml_weak_list_head and its links, weak_prev
          final, todo           \* final_table, to_do_hd

vars == <<where, weak, field, root, refTable, weakRefs, marks, phase, sub, markhp, sweepHp,
          weakList, weakPrev, final, todo>>
heap == <<where, weak, field>>
tables == <<refTable, weakRefs>>
cycle == <<phase, sub, markhp, sweepHp, weakPrev>>
others == <<weakList, final, todo>>

Addr == 1..N
None == 0              \* an immediate value, caml_weak_none
Junk == N + 1          \* a pointer into the emptied minor heap
Young == {a \in Addr : where[a] = "young"}
Old == {a \in Addr : where[a] = "old"}
Free == {a \in Addr : where[a] = "free"}

Init == /\ where = [a \in Addr |-> "free"] /\ weak = {} /\ field = [a \in Addr |-> None]
        /\ root = [r \in Roots |-> None]
        /\ refTable = {} /\ weakRefs = {}
        /\ marks = [color |-> [a \in Addr |-> "white"], stack |-> <<>>, pure |-> TRUE]
        /\ phase = "idle" /\ sub = "main" /\ markhp = 0 /\ sweepHp = 0
        /\ weakList = <<>> /\ weakPrev = None /\ final = {} /\ todo = <<>>

\* All that next leads to from the nodes of s, N steps being enough.
Spread(s, next) == LET reach[n \in 0..N] == IF n = 0 THEN s
                         ELSE reach[n - 1] \cup UNION {next[a] : a \in reach[n - 1]}
                   IN reach[N]

(* ------------------------------- Marking ------------------------------- *)
PushForgets(m, a) ==
  LET s == Append(m.stack, a)
  IN [m EXCEPT !.color[a] = "gray", !.stack = IF Len(s) < GrayCap THEN s ELSE SubSeq(s, 1, GrayKept)]
\* A push on gray_vals; realloc_gray_vals forgets the top when there is no room left.
Push(m, a) ==
  LET s == Append(m.stack, a)
  IN IF Len(s) < GrayCap THEN [m EXCEPT !.color[a] = "gray", !.stack = s]
     ELSE [color |-> [m.color EXCEPT ![a] = "gray"], stack |-> SubSeq(s, 1, GrayKept), pure |-> FALSE]
\* caml_darken: a block that is not scanned turns black at once.
IsWhiteIn(m, a) == a \in Old /\ m.color[a] = "white"
Darken(m, a) == IF ~IsWhiteIn(m, a) THEN m
                ELSE IF a \in weak THEN [m EXCEPT !.color[a] = "black"] ELSE Push(m, a)
DarkenAll(m, s) == LET after[n \in 0..Len(s)] == IF n = 0 THEN m ELSE Darken(after[n - 1], s[n])
                   IN after[Len(s)]
DarkenNever(a) == marks
DarkenIfMarking(a) == IF phase = "mark" THEN Darken(marks, a) ELSE marks

AllocationWhite(a) == "white"
AllocationColor(a) == IF phase = "mark" \/ (phase = "sweep" /\ a >= sweepHp) THEN "black" ELSE "white"

(* ------------------------------ The program ----------------------------- *)
\* Alloc_small: the new block's field is initialised from a root.
AllocSmall(r, s, a) ==
  /\ a \in Free
  /\ where' = [where EXCEPT ![a] = "young"] /\ field' = [field EXCEPT ![a] = root[s]]
  /\ root' = [root EXCEPT ![r] = a]
  /\ UNCHANGED <<weak, tables, marks, cycle, others>>

\* caml_alloc_shr and caml_initialize.
AllocShr(r, s, a) ==
  /\ a \in Free
  /\ where' = [where EXCEPT ![a] = "old"] /\ field' = [field EXCEPT ![a] = root[s]]
  /\ marks' = [marks EXCEPT !.color[a] = AllocationColor(a)]
  /\ refTable' = IF root[s] \in Young THEN refTable \cup {a} ELSE refTable
  /\ root' = [root EXCEPT ![r] = a]
  /\ UNCHANGED <<weak, weakRefs, cycle, others>>

Load(r, s) == /\ root[s] \in Addr \ weak
              /\ root' = [root EXCEPT ![r] = field[root[s]]]
              /\ UNCHANGED <<heap, tables, marks, cycle, others>>
Forget(r) == /\ root[r] # None /\ root' = [root EXCEPT ![r] = None]
             /\ UNCHANGED <<heap, tables, marks, cycle, others>>

RecordOverNone(old, v) == v \in Young /\ old = None
\* Modify, of the block in root r with the value of root s.
MustRecord(old, v) == v \in Young /\ old \notin Young
Modify(r, s) ==
  /\ root[r] \in Addr \ weak
  /\ LET a == root[r]  v == root[s]
     IN /\ field' = [field EXCEPT ![a] = v]
        /\ marks' = IF a \in Old THEN DarkenIfMarking(field[a]) ELSE marks
        /\ refTable' = IF a \in Old /\ MustRecord(field[a], v) THEN refTable \cup {a} ELSE refTable
  /\ UNCHANGED <<where, weak, root, weakRefs, cycle, others>>

(* ----------------------------- Weak arrays ----------------------------- *)
WeakCreate(r, a) ==
  /\ Weak /\ a \in Free
  /\ where' = [where EXCEPT ![a] = "old"] /\ weak' = weak \cup {a} /\ field' = [field EXCEPT ![a] = None]
  /\ marks' = [marks EXCEPT !.color[a] = AllocationColor(a)]
  /\ weakList' = <<a>> \o weakList /\ root' = [root EXCEPT ![r] = a]
  /\ UNCHANGED <<tables, cycle, final, todo>>

\* do_set, of the array a with the value v.
Set(a, v) == /\ field' = [field EXCEPT ![a] = v]
             /\ weakRefs' = IF MustRecord(field[a], v) THEN weakRefs \cup {a} ELSE weakRefs
WeakSet(r, s) == /\ root[r] \in weak /\ Set(root[r], root[s])
                 /\ UNCHANGED <<where, weak, root, refTable, marks, cycle, others>>
\* caml_weak_get: the value becomes strong again, and must be marked in this cycle.
WeakGet(r, s) == /\ root[s] \in weak
                 /\ root' = [root EXCEPT ![r] = field[root[s]]]
                 /\ marks' = DarkenIfMarking(field[root[s]])
                 /\ UNCHANGED <<heap, tables, cycle, others>>
\* caml_weak_get_copy: a new block with the same field, which is what gets darkened.
WeakGetCopy(r, s, a) ==
  /\ root[s] \in weak /\ field[root[s]] \in Addr \ weak /\ a \in Free
  /\ LET f == field[field[root[s]]]
     IN /\ where' = [where EXCEPT ![a] = "young"] /\ field' = [field EXCEPT ![a] = f]
        /\ marks' = DarkenIfMarking(f)
  /\ root' = [root EXCEPT ![r] = a]
  /\ UNCHANGED <<weak, tables, cycle, others>>

BlitKeeps(v) == FALSE
\* caml_weak_blit: while the fields are being cleaned, a white source is erased first.
BlitErases(v) == phase = "mark" /\ sub = "weak1" /\ IsWhiteIn(marks, v)
WeakBlit(r, s) ==
  /\ root[r] \in weak /\ root[s] \in weak
  /\ LET a == root[r]  b == root[s]  v == IF BlitErases(field[b]) THEN None ELSE field[b]
     IN /\ field' = [field EXCEPT ![b] = v, ![a] = v]
        /\ weakRefs' = IF a # b /\ MustRecord(field[a], v) THEN weakRefs \cup {a} ELSE weakRefs
  /\ UNCHANGED <<where, weak, root, refTable, marks, cycle, others>>

(* ----------------------------- Finalisation ----------------------------- *)
FinalRegister(r) == /\ Finalise /\ root[r] \in Addr
                    /\ final' = final \cup {root[r]}
                    /\ UNCHANGED <<heap, root, tables, marks, cycle, weakList, todo>>
\* caml_final_do_calls: the function gets the value.
FinalCall(r) == /\ todo # <<>>
                /\ root' = [root EXCEPT ![r] = Last(todo)] /\ todo' = Front(todo)
                /\ UNCHANGED <<heap, tables, marks, cycle, weakList, final>>

(* --------------------------- Minor collection --------------------------- *)
RegisteredRoots == {root[r] : r \in Roots} \cup {field[a] : a \in refTable}
MinorRoots == {root[r] : r \in Roots} \cup {field[a] : a \in refTable} \cup final
Survivors == Spread(MinorRoots \cap Young, [a \in Addr |-> {field[a]} \cap Young])

\* What a slot of the major heap holds afterwards: only the registered ones are updated.
Updated(a, kept) == IF field[a] \notin Young THEN field[a]
                    ELSE IF a \notin refTable \cup weakRefs THEN Junk
                    ELSE IF field[a] \in kept THEN field[a] ELSE None
EmptyMinorHeap ==
  /\ Young # {}
  /\ LET kept == Survivors
     IN /\ where' = [a \in Addr |-> IF a \in kept THEN "old" ELSE IF a \in Young THEN "free" ELSE where[a]]
        /\ field' = [a \in Addr |-> IF a \in Old THEN Updated(a, kept)
                                    ELSE IF a \in kept THEN field[a] ELSE None]
        /\ marks' = [marks EXCEPT !.color = [a \in Addr |->
                       IF a \in kept THEN AllocationColor(a) ELSE marks.color[a]]]
  /\ refTable' = {} /\ weakRefs' = {}
  /\ UNCHANGED <<weak, root, cycle, others>>

(* ---------------------- Slices of the major collector ------------------- *)
\* A slice runs right after a minor collection.
Slice(p) == Young = {} /\ phase = p
RootValues == SetToSeq({root[r] : r \in Roots} \cup {todo[i] : i \in DOMAIN todo})

StartCycle == /\ Slice("idle")
              /\ marks' = DarkenAll(marks, RootValues)
              /\ phase' = "mark" /\ sub' = "main" /\ markhp' = 0
              /\ UNCHANGED <<heap, root, tables, sweepHp, weakPrev, others>>

MarkOne == /\ Slice("mark") /\ marks.stack # <<>>
           /\ LET a == Last(marks.stack)
                  m == [marks EXCEPT !.color[a] = "black", !.stack = Front(marks.stack)]
              IN marks' = IF a \notin weak /\ IsWhiteIn(m, field[a]) THEN Push(m, field[a]) ELSE m
           /\ UNCHANGED <<heap, root, tables, cycle, others>>

\* The heap is walked for gray blocks that gray_vals forgot.
StartWalk == /\ Slice("mark") /\ marks.stack = <<>> /\ markhp = 0 /\ ~marks.pure
             /\ marks' = [marks EXCEPT !.pure = TRUE] /\ markhp' = 1
             /\ UNCHANGED <<heap, root, tables, phase, sub, sweepHp, weakPrev, others>>
Walk == /\ Slice("mark") /\ marks.stack = <<>> /\ markhp # 0
        /\ marks' = IF markhp \in Old /\ marks.color[markhp] = "gray"
                    THEN [marks EXCEPT !.stack = <<markhp>>] ELSE marks
        /\ markhp' = IF markhp = N THEN 0 ELSE markhp + 1
        /\ UNCHANGED <<heap, root, tables, phase, sub, sweepHp, weakPrev, others>>

NothingGray == Slice("mark") /\ marks.stack = <<>> /\ markhp = 0 /\ marks.pure
NextIndex == IF weakPrev = None THEN 1 ELSE 1 + CHOOSE j \in DOMAIN weakList : weakList[j] = weakPrev
NextWeak == IF NextIndex \in DOMAIN weakList THEN weakList[NextIndex] ELSE None

EndMain == /\ NothingGray /\ sub = "main" /\ sub' = "weak1" /\ weakPrev' = None
           /\ UNCHANGED <<heap, root, tables, marks, phase, markhp, sweepHp, others>>
\* weak1: pointers to dead values are erased.
Erased(a) == IF IsWhiteIn(marks, field[a]) THEN None ELSE field[a]
CleanWeak == /\ NothingGray /\ sub = "weak1"
             /\ IF NextWeak # None
                THEN /\ field' = [field EXCEPT ![NextWeak] = Erased(NextWeak)]
                     /\ weakPrev' = NextWeak /\ UNCHANGED sub
                ELSE sub' = "weak2" /\ weakPrev' = None /\ UNCHANGED field
             /\ UNCHANGED <<where, weak, root, tables, marks, phase, markhp, sweepHp, others>>
\* weak2: dead arrays leave the list.
DropWeak == /\ NothingGray /\ sub = "weak2" /\ NextWeak # None
            /\ IF marks.color[NextWeak] = "white"
               THEN weakList' = RemoveAt(weakList, NextIndex) /\ UNCHANGED weakPrev
               ELSE weakPrev' = NextWeak /\ UNCHANGED weakList
            /\ UNCHANGED <<heap, root, tables, marks, phase, sub, markhp, sweepHp, final, todo>>
\* caml_final_update: dead finalisable values are kept for their functions, and marked.
FinalUpdate == /\ NothingGray /\ sub = "weak2" /\ NextWeak = None
               /\ LET dead == SetToSeq({a \in final : marks.color[a] = "white"})
                  IN /\ marks' = DarkenAll(marks, dead)
                     /\ todo' = todo \o dead
                     /\ final' = {a \in final : marks.color[a] # "white"}
               /\ sub' = "final"
               /\ UNCHANGED <<heap, root, tables, phase, markhp, sweepHp, weakPrev, weakList>>
StartSweep == /\ NothingGray /\ sub = "final"
              /\ phase' = "sweep" /\ sweepHp' = 1
              /\ UNCHANGED <<heap, root, tables, marks, sub, markhp, weakPrev, others>>

SweepKeepsBlack ==
         /\ Slice("sweep") /\ sweepHp <= N
         /\ LET a == sweepHp  dead == a \in Old /\ marks.color[a] = "white"
            IN /\ where' = IF dead THEN [where EXCEPT ![a] = "free"] ELSE where
               /\ weak' = IF dead THEN weak \ {a} ELSE weak
               /\ field' = IF dead THEN [field EXCEPT ![a] = None] ELSE field
         /\ sweepHp' = sweepHp + 1
         /\ UNCHANGED <<root, tables, marks, phase, sub, markhp, weakPrev, others>>
Sweep == /\ Slice("sweep") /\ sweepHp <= N
         /\ LET a == sweepHp  dead == a \in Old /\ marks.color[a] = "white"
            IN /\ where' = IF dead THEN [where EXCEPT ![a] = "free"] ELSE where
               /\ weak' = IF dead THEN weak \ {a} ELSE weak
               /\ field' = IF dead THEN [field EXCEPT ![a] = None] ELSE field
               /\ marks' = [marks EXCEPT !.color[a] = "white"]
         /\ sweepHp' = sweepHp + 1
         /\ UNCHANGED <<root, tables, phase, sub, markhp, weakPrev, others>>
EndSweep == /\ Slice("sweep") /\ sweepHp > N
            /\ phase' = "idle" /\ sweepHp' = 0
            /\ UNCHANGED <<heap, root, tables, marks, sub, markhp, weakPrev, others>>

MajorSlice == \/ StartCycle \/ MarkOne \/ StartWalk \/ Walk
              \/ EndMain \/ CleanWeak \/ DropWeak \/ FinalUpdate \/ StartSweep \/ Sweep \/ EndSweep
\* Allocation takes the first free address: which one it is does not matter to the program.
Program == \E r, s \in Roots :
             \/ Load(r, s) \/ Modify(r, s) \/ WeakSet(r, s) \/ WeakGet(r, s) \/ WeakBlit(r, s)
             \/ Forget(r) \/ FinalRegister(r) \/ FinalCall(r)
             \/ \E a \in Free : \/ AllocSmall(r, s, a) \/ AllocShr(r, s, a)
                                \/ WeakCreate(r, a) \/ WeakGetCopy(r, s, a)
Next == Program \/ EmptyMinorHeap \/ MajorSlice
Spec == Init /\ [][Next]_vars

(* ------------------------------ Properties ------------------------------ *)
\* What the program can reach: from its roots and the values awaiting finalisation, not
\* through weak pointers.
Strong(a) == IF a \in Addr \ weak THEN {field[a]} \ {None} ELSE {}
Reachable == Spread(({root[r] : r \in Roots} \cup {todo[i] : i \in DOMAIN todo}) \ {None},
                    [a \in 1..Junk |-> Strong(a)])

\* The types, and the headers no phase leaves behind: gray only while marking, nothing
\* marked once the sweep has passed.
TypeOK == /\ where \in [Addr -> {"free", "young", "old"}] /\ weak \subseteq Old
          /\ refTable \subseteq Old \ weak /\ weakRefs \subseteq weak
          /\ Range(weakList) \subseteq Addr /\ final \subseteq Addr
          /\ \A a \in Old : /\ marks.color[a] = "gray" => phase = "mark"
                            /\ marks.color[a] = "black" => phase = "mark" \/ (phase = "sweep" /\ a >= sweepHp)

\* Whatever the program can reach is still there, at its place: neither collector takes
\* away, or leaves behind in the minor heap, a block in use.
ReachableIsAllocated == Reachable \subseteq Young \cup Old

\* Every pointer from a major block in use to the minor heap is in a table.
TablesAreComplete == \A a \in Old \cap Reachable :
   field[a] \in Young => a \in IF a \in weak THEN weakRefs ELSE refTable

\* A gray block is on gray_vals once, or is ahead of the walk, or another walk will come
\* (the comment on heap_is_pure).
GrayIsFound == phase = "mark" =>
   /\ \A i, j \in DOMAIN marks.stack : marks.stack[i] = marks.stack[j] => i = j
   /\ \A i \in DOMAIN marks.stack : marks.color[marks.stack[i]] = "gray"
   /\ \A a \in Old : marks.color[a] = "gray" =>
         a \in Range(marks.stack) \/ ~marks.pure \/ (markhp # 0 /\ a >= markhp)

\* A weak pointer the program can get holds a block that is still there: its erasure
\* comes before the sweep of what it points to.
WeakNeverDangles == \A a \in weak \cap Reachable : field[a] \in {None} \cup Young \cup Old

\* The old blocks the program has lost.
Lost == Old \ (Reachable \cup final)

\* A finalisable value is there until its function has had it.
FinalisableIsAllocated == final \cup Range(todo) \subseteq Young \cup Old

(* -------------------------------- Proofs -------------------------------- *)
Shape == /\ where \in [Addr -> {"free", "young", "old"}] /\ weak \subseteq Old
         /\ field \in [Addr -> 0..Junk] /\ root \in [Roots -> 0..N]
         /\ refTable \subseteq Old \ weak /\ weakRefs \subseteq weak
         /\ marks \in [color : [Addr -> {"white", "gray", "black"}], stack : Seq(Addr), pure : BOOLEAN]
         /\ phase \in {"idle", "mark", "sweep"} /\ sub \in {"main", "weak1", "weak2", "final"}
         /\ markhp \in 0..N /\ sweepHp \in 0..(N + 1)
         /\ weakList \in Seq(Addr) /\ weakPrev \in 0..N /\ final \subseteq Addr /\ todo \in Seq(Addr)

\* What the program does not use stays empty.
Unused == /\ ~Weak => weak = {} /\ weakList = <<>>
          /\ ~Finalise => final = {} /\ todo = <<>>

ColorOf(a) == marks.color[a]
White == {a \in Old : ColorOf(a) = "white"}
Marked == Old \ White
NoneGray == \A a \in Old : ColorOf(a) # "gray"

\* The values of the blocks that the sweep will not free.
Doomed == {a \in White : phase = "sweep" /\ a >= sweepHp}
Sound == {None} \cup ((Young \cup Old) \ Doomed)
ValuesAreSound == /\ \A r \in Roots : root[r] \in Sound
                  /\ Range(todo) \subseteq Sound \cap Old /\ final \subseteq Sound
                  /\ \A a \in Sound \cap Addr : field[a] \in Sound

\* Their pointers to young blocks are registered.
Registered == /\ \A a \in Sound \cap Old : field[a] \in Young => a \in refTable \cup weakRefs
              /\ Young = {} => refTable = {} /\ weakRefs = {}

\* The marks of a phase.
Headers == /\ phase = "idle" => Marked = {}
           /\ phase = "sweep" => /\ NoneGray /\ sweepHp > 0
                                 /\ \A a \in Marked : a >= sweepHp
           /\ phase # "mark" => marks.stack = <<>>
GraysAreFound == phase = "mark" => GrayIsFound /\ Range(marks.stack) \subseteq Old

\* What is marked, and what the marking will find from the gray blocks.
Scanned == [a \in Addr |-> IF a \in Old \ weak /\ ColorOf(a) # "black" THEN {field[a]} \cap Old ELSE {}]
Found == Spread(Marked, Scanned)
Fine == {None} \cup Young \cup Found
ReachableIsFound == phase = "mark" =>
   /\ \A r \in Roots : root[r] \in Fine
   /\ Range(todo) \subseteq Fine /\ (sub = "final" => final \subseteq Fine)
   /\ \A a \in Young : field[a] \in Fine
   /\ \A a \in Old \ weak : ColorOf(a) = "black" => field[a] \in Fine

\* The weak arrays are on their list until they are found dead; those that are passed are clean.
Passed == {weakList[i] : i \in 1..(NextIndex - 1)}
Cleaning == phase = "mark" /\ sub = "weak1"
Dropping == phase = "mark" /\ sub = "weak2"
Cleaned == phase = "mark" /\ sub \in {"weak2", "final"}
ArraysAreListed ==
   /\ Range(weakList) \subseteq weak
   /\ \A i, j \in DOMAIN weakList : weakList[i] = weakList[j] => i = j
   /\ Cleaning \/ Dropping => weakPrev \in {None} \cup Range(weakList)
   /\ \A w \in weak \ Range(weakList) : w \in Doomed \/ (Cleaned /\ w \in White)
   /\ Range(weakList) \cap Doomed = {}
ArraysAreClean ==
   /\ Cleaning => \A w \in Passed : field[w] \in Fine
   /\ Cleaned /\ Weak => NoneGray /\ \A w \in weak \cap Marked : field[w] \in Fine
   /\ Dropping => Passed \subseteq Marked
   /\ Cleaned /\ ~Dropping => Range(weakList) \subseteq Marked

HeapInv == /\ Shape /\ Unused /\ ValuesAreSound /\ Registered /\ Headers /\ GraysAreFound
           /\ ReachableIsFound /\ ArraysAreListed /\ ArraysAreClean

\* Induction over the natural numbers, for a set.
LEMMA LeastNumber == ASSUME NEW S \in SUBSET Nat, S # {} PROVE \E m \in S : \A k \in S : ~(k < m)
<1>1. PICK m \in S : \A k \in S : <<k, m>> \notin OpToRel(<, Nat)
  BY WFMin, NatLessThanWellFounded, Zenon
<1>. QED
  BY <1>1, Zenon DEF OpToRel

LEMMA Induction ==
  ASSUME NEW S, 0 \in S, \A n \in Nat : n \in S => n + 1 \in S
  PROVE  Nat \subseteq S
<1>. SUFFICES ASSUME Nat \ S # {} PROVE FALSE
  OBVIOUS
<1>1. PICK m \in Nat \ S : \A k \in Nat \ S : ~(k < m)
  BY LeastNumber
<1>2. m # 0 /\ m - 1 \in Nat /\ m - 1 < m /\ (m - 1) + 1 = m
  BY <1>1
<1>. QED
  BY <1>1, <1>2

\* The function that Spread takes its value from.
Step(s, next) == s \cup UNION {next[a] : a \in s}
Spreads(f, n, s, next) == f = [k \in 0..n |-> IF k = 0 THEN s ELSE Step(f[k - 1], next)]

LEMMA SpreadExists == \A s, next : \A n \in Nat : \E f : Spreads(f, n, s, next)
<1>. SUFFICES ASSUME NEW s, NEW next PROVE \A n \in Nat : \E f : Spreads(f, n, s, next)
  OBVIOUS
<1>. DEFINE S == {n \in Nat : \E f : Spreads(f, n, s, next)}
<1>1. 0 \in S
  <2>. DEFINE f == [k \in 0..0 |-> s]
  <2>1. f = [k \in 0..0 |-> IF k = 0 THEN s ELSE Step(f[k - 1], next)]
    OBVIOUS
  <2>. QED
    BY <2>1 DEF Spreads
<1>2. ASSUME NEW n \in Nat, n \in S PROVE n + 1 \in S
  <2>1. PICK f : Spreads(f, n, s, next)
    BY <1>2
  <2>. DEFINE g == [k \in 0..(n + 1) |-> IF k = n + 1 THEN Step(f[n], next) ELSE f[k]]
  <2>2. \A k \in 0..n : g[k] = f[k]
    OBVIOUS
  <2>3. ASSUME NEW k \in 0..(n + 1) PROVE g[k] = IF k = 0 THEN s ELSE Step(g[k - 1], next)
    <3>1. CASE k = n + 1
      <4>1. n \in 0..n /\ k - 1 = n /\ k # 0
        BY <3>1
      <4>. QED
        BY <2>2, <3>1, <4>1
    <3>2. CASE k \in 0..n /\ k # 0
      <4>1. k - 1 \in 0..n
        BY <3>2
      <4>2. f[k] = Step(f[k - 1], next)
        BY <2>1, <3>2 DEF Spreads
      <4>. QED
        BY <2>2, <3>2, <4>1, <4>2
    <3>3. CASE k = 0
      <4>1. f[0] = s /\ 0 \in 0..n
        BY <2>1 DEF Spreads
      <4>. QED
        BY <2>2, <3>3, <4>1
    <3>. QED
      BY <3>1, <3>2, <3>3
  <2>4. g = [k \in 0..(n + 1) |-> IF k = 0 THEN s ELSE Step(g[k - 1], next)]
    BY <2>3
  <2>5. Spreads(g, n + 1, s, next)
    BY <2>4 DEF Spreads
  <2>. QED
    BY <2>5
<1>3. Nat \subseteq S
  <2>. HIDE DEF S
  <2>. QED
    BY <1>1, <1>2, Induction
<1>. QED
  BY <1>3

LEMMA SpreadIs ==
  ASSUME NEW s, NEW next, N \in Nat
  PROVE  \E f : Spreads(f, N, s, next) /\ Spread(s, next) = f[N]
<1>. DEFINE f == CHOOSE g : Spreads(g, N, s, next)
<1>1. Spreads(f, N, s, next)
  BY SpreadExists, Zenon
<1>2. Spread(s, next) = f[N]
  BY Zenon DEF Spread, Spreads, Step
<1>. QED
  BY <1>1, <1>2

LEMMA SpreadBegins == ASSUME NEW s, NEW next, N \in Nat PROVE s \subseteq Spread(s, next)
<1>1. PICK f : Spreads(f, N, s, next) /\ Spread(s, next) = f[N]
  BY SpreadIs
<1>. DEFINE S == {n \in Nat : n <= N => s \subseteq f[n]}
<1>2. 0 \in S
  BY <1>1 DEF Spreads
<1>3. ASSUME NEW n \in Nat, n \in S PROVE n + 1 \in S
  <2>. SUFFICES ASSUME n + 1 <= N PROVE s \subseteq f[n + 1]
    OBVIOUS
  <2>1. n + 1 \in 0..N /\ n + 1 # 0 /\ (n + 1) - 1 = n /\ n <= N
    OBVIOUS
  <2>2. f[n + 1] = Step(f[n], next)
    BY <1>1, <2>1 DEF Spreads
  <2>. QED
    BY <1>3, <2>1, <2>2 DEF Step
<1>4. Nat \subseteq S
  <2>. HIDE DEF S
  <2>. QED
    BY <1>2, <1>3, Induction
<1>. QED
  BY <1>1, <1>4

\* Spread is the least set of its kind.
LEMMA SpreadIsLeast ==
  ASSUME NEW s, NEW next, N \in Nat, NEW T, s \subseteq T, \A a \in T : next[a] \subseteq T
  PROVE  Spread(s, next) \subseteq T
<1>1. PICK f : Spreads(f, N, s, next) /\ Spread(s, next) = f[N]
  BY SpreadIs
<1>. DEFINE S == {n \in Nat : n <= N => f[n] \subseteq T}
<1>2. 0 \in S
  BY <1>1 DEF Spreads
<1>3. ASSUME NEW n \in Nat, n \in S PROVE n + 1 \in S
  <2>. SUFFICES ASSUME n + 1 <= N PROVE f[n + 1] \subseteq T
    OBVIOUS
  <2>1. n + 1 \in 0..N /\ n + 1 # 0 /\ (n + 1) - 1 = n /\ n <= N
    OBVIOUS
  <2>2. f[n + 1] = Step(f[n], next)
    BY <1>1, <2>1 DEF Spreads
  <2>. QED
    BY <1>3, <2>1, <2>2 DEF Step
<1>4. Nat \subseteq S
  <2>. HIDE DEF S
  <2>. QED
    BY <1>2, <1>3, Induction
<1>. QED
  BY <1>1, <1>4

\* N steps are enough: each adds a node, or nothing is left to add.
LEMMA SpreadCloses ==
  ASSUME NEW s, NEW next, N \in Nat, NEW T \in SUBSET (1..Junk),
         s \subseteq T, \A a \in T : next[a] \subseteq T
  PROVE  \A a \in Spread(s, next) : next[a] \subseteq Spread(s, next)
<1>1. PICK f : Spreads(f, N, s, next) /\ Spread(s, next) = f[N]
  BY SpreadIs
<1>2. 1..Junk = 1..(N + 1) /\ IsFiniteSet(1..Junk) /\ Cardinality(1..Junk) = N + 1
  BY FS_Interval DEF Junk
<1>3. IsFiniteSet(T) /\ Cardinality(T) \in Nat /\ Cardinality(T) <= N + 1
  BY <1>2, FS_Subset, FS_CardinalityType
<1>4. \A X \in SUBSET T : IsFiniteSet(X) /\ Cardinality(X) \in Nat /\ Cardinality(X) <= Cardinality(T)
                         /\ (Cardinality(X) = Cardinality(T) => X = T)
  BY <1>3, FS_Subset, FS_CardinalityType
<1>. DEFINE Closed(X) == \A a \in X : next[a] \subseteq X
            S == {n \in Nat : n <= N => f[n] \subseteq T /\ (Closed(f[n]) \/ Cardinality(f[n]) >= n + 1)}
<1>5. 0 \in S
  <2>1. f[0] = s
    BY <1>1 DEF Spreads
  <2>2. CASE s = {}
    BY <2>1, <2>2
  <2>3. CASE s # {}
    <3>1. Cardinality(s) # 0
      BY <1>4, <2>3, FS_EmptySet
    <3>2. Cardinality(s) \in Nat
      BY <1>4
    <3>3. Cardinality(s) >= 1 /\ 1 = 0 + 1
      BY <3>1, <3>2
    <3>. QED
      BY <2>1, <3>3
  <2>. QED
    BY <2>2, <2>3
<1>6. ASSUME NEW n \in Nat, n \in S PROVE n + 1 \in S
  <2>. SUFFICES ASSUME n + 1 <= N
                PROVE  f[n + 1] \subseteq T /\ (Closed(f[n + 1]) \/ Cardinality(f[n + 1]) >= (n + 1) + 1)
    OBVIOUS
  <2>1. n + 1 \in 0..N /\ n + 1 # 0 /\ (n + 1) - 1 = n /\ n <= N
    OBVIOUS
  <2>2. f[n + 1] = Step(f[n], next)
    BY <1>1, <2>1 DEF Spreads
  <2>3. f[n] \subseteq T /\ (Closed(f[n]) \/ Cardinality(f[n]) >= n + 1)
    BY <1>6, <2>1
  <2>4. f[n + 1] \subseteq T /\ f[n] \subseteq f[n + 1]
    BY <2>2, <2>3 DEF Step
  <2>5. CASE Closed(f[n])
    <3>1. f[n + 1] = f[n]
      BY <2>2, <2>5 DEF Step
    <3>. QED
      BY <2>4, <2>5, <3>1
  <2>6. CASE ~Closed(f[n])
    <3>1. f[n + 1] # f[n]
      BY <2>2, <2>6 DEF Step
    <3>2. IsFiniteSet(f[n + 1]) /\ Cardinality(f[n + 1]) \in Nat
      BY <1>4, <2>4
    <3>3. Cardinality(f[n]) <= Cardinality(f[n + 1]) /\ Cardinality(f[n]) # Cardinality(f[n + 1])
      BY <2>4, <3>1, <3>2, FS_Subset
    <3>4. Cardinality(f[n]) \in Nat /\ Cardinality(f[n]) >= n + 1
      BY <1>4, <2>3, <2>6
    <3>. QED
      BY <2>4, <3>2, <3>3, <3>4
  <2>. QED
    BY <2>5, <2>6
<1>7. Nat \subseteq S
  <2>. HIDE DEF S
  <2>. QED
    BY <1>5, <1>6, Induction
<1>8. f[N] \subseteq T /\ (Closed(f[N]) \/ Cardinality(f[N]) >= N + 1)
  BY <1>7
<1>9. CASE Closed(f[N])
  BY <1>1, <1>9
<1>10. CASE Cardinality(f[N]) >= N + 1
  <2>1. f[N] = T
    BY <1>3, <1>4, <1>8, <1>10
  <2>. QED
    BY <1>1, <2>1
<1>. QED
  BY <1>8, <1>9, <1>10

(* ------------------------------- Marking ------------------------------- *)
Headings == [color : [Addr -> {"white", "gray", "black"}], stack : Seq(Addr), pure : BOOLEAN]
\* What GrayIsFound says, of any headers, of the old blocks and of the place of the walk.
Tidy(m, old, hp) ==
   /\ \A i, j \in DOMAIN m.stack : m.stack[i] = m.stack[j] => i = j
   /\ \A i \in DOMAIN m.stack : m.stack[i] \in old /\ m.color[m.stack[i]] = "gray"
   /\ \A a \in old : m.color[a] = "gray" => a \in Range(m.stack) \/ ~m.pure \/ (hp # 0 /\ a >= hp)

LEMMA GraysAreTidy == GraysAreFound <=> (phase = "mark" => Tidy(marks, Old, markhp))
BY DEF GraysAreFound, GrayIsFound, Tidy, Range
LEMMA GraysAreTidyThen == GraysAreFound' <=> (phase' = "mark" => Tidy(marks', Old', markhp'))
BY DEF GraysAreFound, GrayIsFound, Tidy, Range

\* A push on gray_vals colors one block, and hides no gray block from the walk.
LEMMA PushIsTidy ==
  ASSUME GcHeapAssumption, NEW m \in Headings, NEW hp, NEW old \in SUBSET Addr, Tidy(m, old, hp),
         NEW a \in old, m.color[a] = "white"
  PROVE  /\ Push(m, a) \in Headings /\ Tidy(Push(m, a), old, hp)
         /\ Push(m, a).color = [m.color EXCEPT ![a] = "gray"]
<1>. DEFINE s == Append(m.stack, a)
            c == [m.color EXCEPT ![a] = "gray"]
<1>1. m.stack \in Seq(Addr) /\ m.color \in [Addr -> {"white", "gray", "black"}] /\ a \in Addr /\ m.pure \in BOOLEAN
  BY DEF Headings
<1>2. s \in Seq(Addr) /\ Len(s) = Len(m.stack) + 1 /\ Len(m.stack) \in Nat
  BY <1>1
<1>3. \A i \in 1..Len(m.stack) : s[i] = m.stack[i]
  BY <1>1
<1>4. s[Len(s)] = a
  BY <1>1, <1>2
<1>5. c \in [Addr -> {"white", "gray", "black"}] /\ c[a] = "gray" /\ \A b \in Addr : b # a => c[b] = m.color[b]
  BY <1>1
<1>6. DOMAIN m.stack = 1..Len(m.stack) /\ DOMAIN s = 1..Len(s)
  BY <1>1, <1>2
<1>7. \A i \in DOMAIN m.stack : m.stack[i] \in Addr /\ m.stack[i] # a
  BY <1>1 DEF Tidy
<1>8. \A i \in 1..Len(s) : s[i] \in old /\ c[s[i]] = "gray"
  <2>. TAKE i \in 1..Len(s)
  <2>1. CASE i = Len(s)
    BY <1>4, <1>5, <2>1
  <2>2. CASE i \in 1..Len(m.stack)
    <3>1. s[i] = m.stack[i] /\ m.stack[i] \in old /\ m.color[m.stack[i]] = "gray"
      BY <1>3, <1>6, <2>2 DEF Tidy
    <3>. QED
      BY <1>5, <1>6, <1>7, <2>2, <3>1
  <2>. QED
    BY <1>2, <2>1, <2>2
<1>9. \A i, j \in 1..Len(s) : s[i] = s[j] => i = j
  <2>. TAKE i, j \in 1..Len(s)
  <2>1. CASE i \in 1..Len(m.stack) /\ j \in 1..Len(m.stack)
    BY <1>3, <1>6, <2>1 DEF Tidy
  <2>2. CASE i = Len(s) /\ j \in 1..Len(m.stack)
    BY <1>3, <1>4, <1>6, <1>7, <2>2
  <2>3. CASE j = Len(s) /\ i \in 1..Len(m.stack)
    BY <1>3, <1>4, <1>6, <1>7, <2>3
  <2>. QED
    BY <1>2, <2>1, <2>2, <2>3
<1>10. CASE Len(s) < GrayCap
  <2>1. Push(m, a) = [m EXCEPT !.color[a] = "gray", !.stack = s]
    BY <1>10, Zenon DEF Push
  <2>2. Push(m, a).color = c /\ Push(m, a).stack = s /\ Push(m, a).pure = m.pure /\ Push(m, a) \in Headings
    BY <1>1, <1>2, <1>5, <2>1 DEF Headings
  <2>3. \A b \in old : c[b] = "gray" => b \in Range(s) \/ ~m.pure \/ (hp # 0 /\ b >= hp)
    <3>. SUFFICES ASSUME NEW b \in old, c[b] = "gray", m.pure, ~(hp # 0 /\ b >= hp) PROVE b \in Range(s)
      BY <1>1
    <3>1. CASE b = a
      BY <1>2, <1>4, <1>6, <3>1 DEF Range
    <3>2. CASE b # a
      <4>1. b \in Range(m.stack)
        BY <1>5, <3>2 DEF Tidy
      <4>. QED
        BY <1>2, <1>3, <1>6, <4>1 DEF Range
    <3>. QED
      BY <3>1, <3>2
  <2>. QED
    BY <1>6, <1>8, <1>9, <2>2, <2>3 DEF Tidy
<1>11. CASE ~(Len(s) < GrayCap)
  <2>. DEFINE t == SubSeq(s, 1, GrayKept)
  <2>1. Push(m, a) = [color |-> c, stack |-> t, pure |-> FALSE]
    BY <1>11, Zenon DEF Push
  <2>2. GrayKept \in Nat /\ GrayKept <= Len(s)
    BY <1>2, <1>11 DEF GcHeapAssumption
  <2>3. t \in Seq(Addr) /\ Len(t) = GrayKept /\ DOMAIN t = 1..GrayKept /\ \A i \in 1..GrayKept : t[i] = s[i]
    BY <1>2, <2>2
  <2>5. \A i \in 1..GrayKept : i \in 1..Len(s)
    BY <1>2, <2>2
  <2>. HIDE DEF s, t, c
  <2>4. Push(m, a).color = c /\ Push(m, a).stack = t /\ Push(m, a).pure = FALSE /\ Push(m, a) \in Headings
    BY <1>5, <2>1, <2>3 DEF Headings
  <2>6. \A i, j \in DOMAIN t : t[i] = t[j] => i = j
    BY <1>9, <2>3, <2>5
  <2>7. \A i \in DOMAIN t : t[i] \in old /\ c[t[i]] = "gray"
    BY <1>8, <2>3, <2>5
  <2>. QED
    BY <2>4, <2>6, <2>7 DEF Tidy, c
<1>. QED
  BY <1>10, <1>11

\* From m to n some white blocks have been darkened: black if they are not scanned.
Darker(m, n) == \A a \in Addr :
   \/ n.color[a] = m.color[a]
   \/ a \in Old /\ m.color[a] = "white" /\ n.color[a] = IF a \in weak THEN "black" ELSE "gray"

LEMMA DarkenIsTidy ==
  ASSUME GcHeapAssumption, NEW m \in Headings, NEW hp, Tidy(m, Old, hp), NEW a
  PROVE  /\ Darken(m, a) \in Headings /\ Tidy(Darken(m, a), Old, hp) /\ Darker(m, Darken(m, a))
         /\ a \in Old => Darken(m, a).color[a] # "white"
<1>. DEFINE n == Darken(m, a)
<1>0. Old \subseteq Addr
  BY DEF Old
<1>1. CASE ~IsWhiteIn(m, a)
  <2>1. n = m
    BY <1>1, Zenon DEF Darken
  <2>. QED
    BY <1>1, <2>1 DEF Darker, IsWhiteIn
<1>2. CASE IsWhiteIn(m, a) /\ a \in weak
  <2>1. n = [m EXCEPT !.color[a] = "black"]
    BY <1>2, Zenon DEF Darken
  <2>2. a \in Addr /\ a \in Old /\ m.color[a] = "white"
    BY <1>2, <1>0 DEF IsWhiteIn
  <2>3. n \in Headings /\ n.color = [m.color EXCEPT ![a] = "black"] /\ n.stack = m.stack /\ n.pure = m.pure
    BY <2>1, <2>2 DEF Headings
  <2>4. n.color[a] = "black" /\ \A b \in Addr : b # a => n.color[b] = m.color[b]
    BY <2>2, <2>3 DEF Headings
  <2>5. Darker(m, n)
    BY <1>2, <2>2, <2>4 DEF Darker
  <2>. HIDE DEF n
  <2>6. \A i \in DOMAIN n.stack : n.stack[i] \in Old /\ n.color[n.stack[i]] = "gray"
    BY <1>0, <2>2, <2>3, <2>4 DEF Tidy
  <2>7. Tidy(n, Old, hp)
    BY <1>0, <2>3, <2>4, <2>6 DEF Tidy
  <2>. QED
    BY <2>2, <2>3, <2>4, <2>5, <2>7 DEF n
<1>3. CASE IsWhiteIn(m, a) /\ a \notin weak
  <2>1. n = Push(m, a)
    BY <1>3, Zenon DEF Darken
  <2>2. a \in Addr /\ a \in Old /\ m.color[a] = "white"
    BY <1>3, <1>0 DEF IsWhiteIn
  <2>3. n \in Headings /\ Tidy(n, Old, hp) /\ n.color = [m.color EXCEPT ![a] = "gray"]
    BY <1>0, <2>1, <2>2, PushIsTidy
  <2>4. n.color[a] = "gray" /\ \A b \in Addr : b # a => n.color[b] = m.color[b]
    BY <2>2, <2>3 DEF Headings
  <2>5. Darker(m, n)
    BY <1>3, <2>2, <2>4 DEF Darker
  <2>. QED
    BY <2>2, <2>3, <2>4, <2>5
<1>. QED
  BY <1>1, <1>2, <1>3

\* The function that DarkenAll takes its value from.
Darkens(f, k, m, s) == f = [n \in 0..k |-> IF n = 0 THEN m ELSE Darken(f[n - 1], s[n])]

LEMMA DarkensExists == \A m, s : \A k \in Nat : \E f : Darkens(f, k, m, s)
<1>. SUFFICES ASSUME NEW m, NEW s PROVE \A k \in Nat : \E f : Darkens(f, k, m, s)
  OBVIOUS
<1>. DEFINE S == {n \in Nat : \E f : Darkens(f, n, m, s)}
<1>1. 0 \in S
  <2>. DEFINE f == [k \in 0..0 |-> m]
  <2>1. f = [k \in 0..0 |-> IF k = 0 THEN m ELSE Darken(f[k - 1], s[k])]
    OBVIOUS
  <2>. QED
    BY <2>1 DEF Darkens
<1>2. ASSUME NEW n \in Nat, n \in S PROVE n + 1 \in S
  <2>1. PICK f : Darkens(f, n, m, s)
    BY <1>2
  <2>. DEFINE g == [k \in 0..(n + 1) |-> IF k = n + 1 THEN Darken(f[n], s[n + 1]) ELSE f[k]]
  <2>2. \A k \in 0..n : g[k] = f[k]
    OBVIOUS
  <2>3. ASSUME NEW k \in 0..(n + 1) PROVE g[k] = IF k = 0 THEN m ELSE Darken(g[k - 1], s[k])
    <3>1. CASE k = n + 1
      <4>1. n \in 0..n /\ k - 1 = n /\ k # 0
        BY <3>1
      <4>. QED
        BY <2>2, <3>1, <4>1
    <3>2. CASE k \in 0..n /\ k # 0
      <4>1. k - 1 \in 0..n
        BY <3>2
      <4>2. f[k] = Darken(f[k - 1], s[k])
        BY <2>1, <3>2 DEF Darkens
      <4>. QED
        BY <2>2, <3>2, <4>1, <4>2
    <3>3. CASE k = 0
      <4>1. f[0] = m /\ 0 \in 0..n
        BY <2>1 DEF Darkens
      <4>. QED
        BY <2>2, <3>3, <4>1
    <3>. QED
      BY <3>1, <3>2, <3>3
  <2>4. g = [k \in 0..(n + 1) |-> IF k = 0 THEN m ELSE Darken(g[k - 1], s[k])]
    BY <2>3
  <2>5. Darkens(g, n + 1, m, s)
    BY <2>4 DEF Darkens
  <2>. QED
    BY <2>5
<1>3. Nat \subseteq S
  <2>. HIDE DEF S
  <2>. QED
    BY <1>1, <1>2, Induction
<1>. QED
  BY <1>3

LEMMA DarkenAllIs == ASSUME NEW m, NEW s, Len(s) \in Nat
                     PROVE  \E f : Darkens(f, Len(s), m, s) /\ DarkenAll(m, s) = f[Len(s)]
<1>. DEFINE f == CHOOSE g : Darkens(g, Len(s), m, s)
<1>1. Darkens(f, Len(s), m, s)
  BY DarkensExists, Zenon
<1>2. DarkenAll(m, s) = f[Len(s)]
  BY Zenon DEF DarkenAll, Darkens
<1>. QED
  BY <1>1, <1>2

LEMMA DarkerIsTransitive ==
  ASSUME NEW m, NEW n, NEW k, Darker(m, n), Darker(n, k) PROVE Darker(m, k)
BY DEF Darker

LEMMA DarkenAllIsTidy ==
  ASSUME GcHeapAssumption, NEW m \in Headings, NEW hp, Tidy(m, Old, hp), NEW X, NEW s \in Seq(X)
  PROVE  /\ DarkenAll(m, s) \in Headings /\ Tidy(DarkenAll(m, s), Old, hp) /\ Darker(m, DarkenAll(m, s))
         /\ \A i \in DOMAIN s : s[i] \in Old => DarkenAll(m, s).color[s[i]] # "white"
<1>0. Len(s) \in Nat /\ DOMAIN s = 1..Len(s) /\ Old \subseteq Addr
  BY DEF Old
<1>1. PICK f : Darkens(f, Len(s), m, s) /\ DarkenAll(m, s) = f[Len(s)]
  BY <1>0, DarkenAllIs
<1>. DEFINE Good(k) == /\ f[k] \in Headings /\ Tidy(f[k], Old, hp) /\ Darker(m, f[k])
                       /\ \A i \in 1..k : s[i] \in Old => f[k].color[s[i]] # "white"
            S == {k \in Nat : k <= Len(s) => Good(k)}
<1>2. 0 \in S
  <2>1. f[0] = m
    BY <1>0, <1>1 DEF Darkens
  <2>2. Darker(m, m)
    BY DEF Darker
  <2>. QED
    BY <2>1, <2>2
<1>3. ASSUME NEW k \in Nat, k \in S PROVE k + 1 \in S
  <2>. SUFFICES ASSUME k + 1 <= Len(s) PROVE Good(k + 1)
    OBVIOUS
  <2>1. k + 1 \in 0..Len(s) /\ k + 1 # 0 /\ (k + 1) - 1 = k /\ k <= Len(s) /\ k + 1 \in 1..Len(s)
    BY <1>0
  <2>2. f[k + 1] = Darken(f[k], s[k + 1])
    BY <1>1, <2>1 DEF Darkens
  <2>3. Good(k)
    BY <1>3, <2>1
  <2>4. /\ f[k + 1] \in Headings /\ Tidy(f[k + 1], Old, hp) /\ Darker(f[k], f[k + 1])
        /\ s[k + 1] \in Old => f[k + 1].color[s[k + 1]] # "white"
    BY <2>2, <2>3, DarkenIsTidy
  <2>5. Darker(m, f[k + 1])
    BY <2>3, <2>4, DarkerIsTransitive
  <2>6. \A i \in 1..(k + 1) : s[i] \in Old => f[k + 1].color[s[i]] # "white"
    <3>. SUFFICES ASSUME NEW i \in 1..(k + 1), s[i] \in Old PROVE f[k + 1].color[s[i]] # "white"
      OBVIOUS
    <3>1. CASE i = k + 1
      BY <2>4, <3>1
    <3>2. CASE i \in 1..k
      <4>1. f[k].color[s[i]] # "white" /\ s[i] \in Addr
        BY <1>0, <2>1, <2>3, <3>2
      <4>. QED
        BY <2>4, <4>1 DEF Darker
    <3>. QED
      BY <3>1, <3>2
  <2>. QED
    BY <2>4, <2>5, <2>6
<1>4. Nat \subseteq S
  <2>. HIDE DEF S
  <2>. QED
    BY <1>2, <1>3, Induction
<1>. QED
  BY <1>0, <1>1, <1>4

LEMMA DarkenNone == ASSUME NEW m PROVE DarkenAll(m, <<>>) = m
<1>1. Len(<<>>) = 0 /\ 0 \in Nat /\ 0 \in 0..0
  OBVIOUS
<1>2. PICK f : Darkens(f, 0, m, <<>>) /\ DarkenAll(m, <<>>) = f[0]
  BY <1>1, DarkenAllIs
<1>. QED
  BY <1>1, <1>2 DEF Darkens

(* ------------------------------ Sequences ------------------------------ *)
LEMMA ListOfSet ==
  ASSUME NEW S, IsFiniteSet(S) PROVE SetToSeq(S) \in Seq(S) /\ Range(SetToSeq(S)) = S
<1>. DEFINE n == Cardinality(S)
            f == SetToSeq(S)
<1>1. n \in Nat /\ ExistsBijection(1..n, S)
  BY FS_CardinalityType
<1>2. PICK g : g \in Bijection(1..n, S)
  BY <1>1 DEF ExistsBijection
<1>3. g \in [1..n -> S] /\ IsInjective(g)
  BY <1>2 DEF Bijection, Injection
<1>4. f \in [1..n -> S] /\ IsInjective(f)
  BY <1>3, Zenon DEF SetToSeq
<1>5. f \in Injection(1..n, S)
  BY <1>4 DEF Injection
<1>6. IsFiniteSet(1..n) /\ Cardinality(1..n) = n
  BY <1>1, FS_Interval
<1>7. f \in Surjection(1..n, S)
  BY <1>5, <1>6, FS_Injection
<1>8. Range(f) = S
  BY <1>4, <1>7 DEF Surjection, Range
<1>9. f \in Seq(S)
  BY <1>1, <1>4
<1>. QED
  BY <1>8, <1>9

LEMMA LastAndFront ==
  ASSUME NEW S, NEW s \in Seq(S), s # <<>>
  PROVE  /\ Last(s) = s[Len(s)] /\ Last(s) \in S /\ Len(s) \in DOMAIN s
         /\ Front(s) \in Seq(S) /\ Len(Front(s)) = Len(s) - 1
         /\ \A i \in DOMAIN Front(s) : i \in DOMAIN s /\ i # Len(s) /\ Front(s)[i] = s[i]
         /\ \A i \in DOMAIN s : i = Len(s) \/ (i \in DOMAIN Front(s) /\ Front(s)[i] = s[i])
<1>. DEFINE n == Len(s)
            f == Front(s)
<1>1. n \in Nat /\ n # 0 /\ DOMAIN s = 1..n
  OBVIOUS
<1>2. Last(s) = s[n] /\ n \in DOMAIN s /\ s[n] \in S
  BY <1>1 DEF Last
<1>3. f \in Seq(S) /\ Len(f) = n - 1 /\ \A i \in 1..(n - 1) : f[i] = s[i]
  BY <1>1 DEF Front
<1>4. DOMAIN f = 1..(n - 1)
  BY <1>3
<1>. HIDE DEF n, f
<1>5. \A i \in DOMAIN f : i \in DOMAIN s /\ i # n /\ f[i] = s[i]
  BY <1>1, <1>3, <1>4
<1>6. \A i \in DOMAIN s : i = n \/ (i \in DOMAIN f /\ f[i] = s[i])
  BY <1>1, <1>3, <1>4
<1>. QED
  BY <1>2, <1>3, <1>5, <1>6 DEF n, f

LEMMA AfterConcat ==
  ASSUME NEW S, NEW u \in Seq(S), NEW v \in Seq(S), NEW i \in (Len(u) + 1)..(Len(u) + Len(v))
  PROVE  (u \o v)[i] = v[i - Len(u)]
OBVIOUS

LEMMA RemovedAt ==
  ASSUME NEW S, NEW s \in Seq(S), NEW k \in DOMAIN s
  PROVE  /\ RemoveAt(s, k) \in Seq(S) /\ Len(RemoveAt(s, k)) = Len(s) - 1
         /\ \A i \in 1..(Len(s) - 1) : RemoveAt(s, k)[i] = IF i < k THEN s[i] ELSE s[i + 1]
<1>1. k \in 1..Len(s) /\ Len(s) \in Nat
  OBVIOUS
<1>. DEFINE u == SubSeq(s, 1, k - 1)
            v == SubSeq(s, k + 1, Len(s))
<1>2. u \in Seq(S) /\ Len(u) = k - 1 /\ \A i \in 1..(k - 1) : u[i] = s[i]
  BY <1>1
<1>3. v \in Seq(S) /\ Len(v) = Len(s) - k /\ \A i \in 1..(Len(s) - k) : v[i] = s[k + i]
  BY <1>1
<1>4. RemoveAt(s, k) = u \o v
  BY DEF RemoveAt
<1>. HIDE DEF u, v
<1>5. u \o v \in Seq(S) /\ Len(u \o v) = Len(s) - 1
  BY <1>1, <1>2, <1>3
<1>6. \A i \in 1..(Len(s) - 1) : (u \o v)[i] = IF i < k THEN s[i] ELSE s[i + 1]
  <2>. TAKE i \in 1..(Len(s) - 1)
  <2>1. CASE i < k
    BY <1>1, <1>2, <1>3, <2>1
  <2>2. CASE ~(i < k)
    <3>0. i \in (Len(u) + 1)..(Len(u) + Len(v)) /\ i - Len(u) = i - (k - 1)
      BY <1>1, <1>2, <1>3, <2>2
    <3>1. (u \o v)[i] = v[i - (k - 1)]
      <4>1. (u \o v)[i] = v[i - Len(u)]
        BY <1>2, <1>3, <3>0, AfterConcat
      <4>. QED
        BY <3>0, <4>1
    <3>2. i - (k - 1) \in 1..(Len(s) - k) /\ k + (i - (k - 1)) = i + 1
      BY <1>1, <2>2
    <3>. QED
      BY <1>3, <2>2, <3>1, <3>2
  <2>. QED
    BY <2>1, <2>2
<1>. QED
  BY <1>4, <1>5, <1>6

(* ------------------------- What the marking finds ----------------------- *)
LEMMA Blocks == ASSUME GcHeapAssumption
                PROVE  /\ N \in Nat /\ N # 0 /\ Junk = N + 1 /\ 0 \notin Addr /\ Junk \notin Addr
                       /\ Young \subseteq Addr /\ Old \subseteq Addr /\ Young \cap Old = {}
                       /\ Marked \subseteq Old /\ White \subseteq Old /\ Doomed \subseteq Old
BY DEF GcHeapAssumption, Junk, Addr, Young, Old, Marked, White, Doomed

FoundIs == /\ Marked \subseteq Found /\ Found \subseteq Old
           /\ \A a \in Found \ weak : ColorOf(a) # "black" /\ field[a] \in Old => field[a] \in Found

LEMMA FoundIsClosed == GcHeapAssumption => FoundIs
<1>. SUFFICES ASSUME GcHeapAssumption PROVE FoundIs
  OBVIOUS
<1>1. N \in Nat /\ Old \in SUBSET (1..Junk) /\ Marked \subseteq Old /\ Old \subseteq Addr
  BY DEF GcHeapAssumption, Junk, Addr, Old, Marked
<1>2. \A a \in Old : Scanned[a] \subseteq Old
  BY <1>1 DEF Scanned
<1>3. Marked \subseteq Found /\ Found \subseteq Old
  BY <1>1, <1>2, SpreadBegins, SpreadIsLeast DEF Found
<1>4. \A a \in Found : Scanned[a] \subseteq Found
  BY <1>1, <1>2, SpreadCloses DEF Found
<1>5. \A a \in Old \ weak : ColorOf(a) # "black" /\ field[a] \in Old => field[a] \in Scanned[a]
  BY <1>1 DEF Scanned
<1>. QED
  BY <1>3, <1>4, <1>5 DEF FoundIs

LEMMA FoundIsClosedThen == GcHeapAssumption => FoundIs'
<1>. SUFFICES ASSUME GcHeapAssumption PROVE FoundIs'
  OBVIOUS
<1>1. N \in Nat /\ Old' \in SUBSET (1..Junk) /\ Marked' \subseteq Old' /\ Old' \subseteq Addr
  BY DEF GcHeapAssumption, Junk, Addr, Old, Marked
<1>2. \A a \in Old' : Scanned'[a] \subseteq Old'
  BY <1>1 DEF Scanned
<1>3. Marked' \subseteq Found' /\ Found' \subseteq Old'
  BY <1>1, <1>2, SpreadBegins, SpreadIsLeast DEF Found
<1>4. \A a \in Found' : Scanned'[a] \subseteq Found'
  BY <1>1, <1>2, SpreadCloses DEF Found
<1>5. \A a \in Old' \ weak' : ColorOf(a)' # "black" /\ field'[a] \in Old' => field'[a] \in Scanned'[a]
  BY <1>1 DEF Scanned, ColorOf
<1>. QED
  BY <1>3, <1>4, <1>5 DEF FoundIs

LEMMA FoundIsLeast ==
  ASSUME GcHeapAssumption, NEW T, Marked \subseteq T, T \subseteq Old,
         \A a \in T \ weak : ColorOf(a) # "black" /\ field[a] \in Old => field[a] \in T
  PROVE  Found \subseteq T
<1>1. N \in Nat /\ Old \subseteq Addr
  BY DEF GcHeapAssumption, Addr, Old
<1>2. \A a \in T : Scanned[a] \subseteq T
  BY <1>1 DEF Scanned
<1>. QED
  BY <1>1, <1>2, SpreadIsLeast DEF Found

\* A step of the marking, or of the program during it, loses nothing that it would find, if the
\* field it overwrites, or the field of the block it blackens, is marked.
MarksGrow == \A a \in Old : ColorOf(a)' = ColorOf(a) \/ ColorOf(a)' # "white"
LEMMA FoundGrows ==
  ASSUME GcHeapAssumption, Old \subseteq Old', MarksGrow, \A a \in Old : a \in weak' => a \in weak,
         \A a \in Old \ weak : \/ field'[a] = field[a] /\ (ColorOf(a)' = "black" => ColorOf(a) = "black")
                               \/ field[a] \notin Old
                               \/ field[a] \in Marked'
  PROVE  Found \subseteq Found'
<1>1. FoundIs'
  BY FoundIsClosedThen
<1>. DEFINE T == Found' \cap Old
<1>2. Marked \subseteq T
  BY <1>1 DEF FoundIs, Marked, White, MarksGrow
<1>3. ASSUME NEW a \in T \ weak, ColorOf(a) # "black", field[a] \in Old PROVE field[a] \in T
  <2>1. CASE field[a] \in Marked'
    BY <1>1, <1>3, <2>1 DEF FoundIs
  <2>2. CASE field'[a] = field[a] /\ ColorOf(a)' # "black"
    BY <1>1, <1>3, <2>2 DEF FoundIs
  <2>. QED
    BY <1>3, <2>1, <2>2
<1>. HIDE DEF T
<1>4. Found \subseteq T
  <2>1. T \subseteq Old
    BY DEF T
  <2>. QED
    BY <1>2, <1>3, <2>1, FoundIsLeast
<1>. QED
  BY <1>4 DEF T

\* Nothing gray is left: what is marked is all that will be.
LEMMA AllIsFound == ASSUME GcHeapAssumption, Shape, NoneGray PROVE Found = Marked
<1>1. FoundIs /\ Marked \subseteq Old /\ Old \subseteq Addr
  BY FoundIsClosed, Blocks
<1>2. \A a \in Marked : ColorOf(a) = "black"
  BY <1>1 DEF Shape, NoneGray, Marked, White, ColorOf
<1>3. Found \subseteq Marked
  BY <1>1, <1>2, FoundIsLeast
<1>. QED
  BY <1>1, <1>3 DEF FoundIs

\* What the program can hold.
Value(v) == v \in Sound /\ v \in 0..N /\ (phase = "mark" => v \in Fine)

LEMMA ValuesAre ==
  ASSUME GcHeapAssumption, Shape, ValuesAreSound, ReachableIsFound
  PROVE  /\ Value(None) /\ \A r \in Roots : Value(root[r])
         /\ \A i \in DOMAIN todo : Value(todo[i])
         /\ \A a \in Addr \ weak : Value(a) => Value(field[a])
<1>1. Sound \subseteq 0..N /\ None \in Sound /\ None \in Fine
  BY Blocks DEF Sound, Fine, None, Addr
<1>2. \A r \in Roots : Value(root[r])
  BY <1>1 DEF Value, ValuesAreSound, ReachableIsFound
<1>3. \A i \in DOMAIN todo : Value(todo[i])
  BY <1>1 DEF Value, ValuesAreSound, ReachableIsFound, Range
<1>4. ASSUME NEW a \in Addr \ weak, Value(a) PROVE Value(field[a])
  <2>1. field[a] \in Sound /\ field[a] \in 0..N
    BY <1>1, <1>4 DEF Value, ValuesAreSound
  <2>2. ASSUME phase = "mark" PROVE field[a] \in Fine
    <3>1. a \in Young \cup Found
      BY <1>4, <2>2, Blocks DEF Value, Fine, None
    <3>2. CASE a \in Young
      BY <2>2, <3>2 DEF ReachableIsFound
    <3>3. CASE a \in Found /\ ColorOf(a) = "black"
      BY <1>4, <2>2, <3>3, FoundIsClosed DEF FoundIs, ReachableIsFound
    <3>4. CASE a \in Found /\ ColorOf(a) # "black"
      <4>1. field[a] \in Old => field[a] \in Found
        BY <1>4, <3>4, FoundIsClosed DEF FoundIs
      <4>. QED
        BY <2>1, <4>1 DEF Sound, Fine
    <3>. QED
      BY <3>1, <3>2, <3>3, <3>4
  <2>. QED
    BY <2>1, <2>2 DEF Value
<1>. QED
  BY <1>1, <1>2, <1>3, <1>4 DEF Value, None

\* The blocks stay where they are, and the marks stay.
Stay == /\ UNCHANGED <<phase, sweepHp>> /\ Young \subseteq Young' /\ Old \subseteq Old' /\ MarksGrow
        /\ phase # "mark" => \A a \in Old : ColorOf(a)' = ColorOf(a)
        /\ \A a \in Old : a \in weak' => a \in weak
LEMMA BlocksStay == ASSUME GcHeapAssumption, Stay PROVE Sound \subseteq Sound' /\ Marked \subseteq Marked'
<1>1. Sound \subseteq Sound'
  <2>1. \A a \in Doomed' \cap Old : a \in Doomed
    BY DEF Stay, Doomed, White
  <2>2. Doomed' \cap Young = {}
    BY DEF Stay, Doomed, White, Young, Old
  <2>. QED
    BY <2>1, <2>2 DEF Stay, Sound
<1>2. Marked \subseteq Marked'
  BY DEF Stay, Marked, White, MarksGrow
<1>. QED
  BY <1>1, <1>2

LEMMA FineGrows ==
  ASSUME GcHeapAssumption, Stay,
         \A a \in Old \ weak : \/ field'[a] = field[a] /\ (ColorOf(a)' = "black" => ColorOf(a) = "black")
                               \/ field[a] \notin Old
                               \/ field[a] \in Marked'
  PROVE  Fine \subseteq Fine'
<1>1. Found \subseteq Found'
  BY FoundGrows DEF Stay
<1>. QED
  BY <1>1 DEF Stay, Fine

(* ----------------------------- The program ----------------------------- *)
\* A step that gives a root a value the program can hold.
RootStep(r, v) ==
  /\ Value(v) /\ root' = [root EXCEPT ![r] = v] /\ UNCHANGED <<heap, tables, marks, cycle, weakList, final>>
  /\ todo' \in Seq(Addr) /\ Range(todo') \subseteq Range(todo)

LEMMA RootStepKeeps ==
  ASSUME GcHeapAssumption, HeapInv, NEW r \in Roots, NEW v, RootStep(r, v), todo = <<>> => todo' = <<>>
  PROVE  HeapInv'
<1>. USE DEF HeapInv, RootStep
<1>1. /\ UNCHANGED <<where, weak, field, refTable, weakRefs, marks, phase, sub, markhp, sweepHp, weakPrev, weakList, final>>
      /\ root' = [root EXCEPT ![r] = v] /\ v \in 0..N /\ root \in [Roots -> 0..N]
  BY DEF heap, tables, cycle, Shape, Value
<1>2. \A q \in Roots : root'[q] = v \/ root'[q] = root[q]
  BY <1>1
<1>3. UNCHANGED <<Young, Old>>
  BY <1>1 DEF Young, Old
<1>4. UNCHANGED <<White, Marked, NoneGray, Doomed, Sound>>
  BY <1>1, <1>3 DEF White, Marked, NoneGray, Doomed, Sound, ColorOf
<1>5. UNCHANGED <<Found, Fine, Passed>>
  BY <1>1, <1>3, <1>4 DEF Found, Fine, Scanned, Passed, NextIndex, ColorOf
<1>6. Shape'
  BY <1>1, <1>3 DEF Shape
<1>7. Unused'
  BY <1>1 DEF Unused
<1>8. ValuesAreSound'
  BY <1>1, <1>2, <1>3, <1>4 DEF ValuesAreSound, Value
<1>9. Registered'
  BY <1>1, <1>3, <1>4 DEF Registered
<1>10. Headers'
  BY <1>1, <1>3, <1>4 DEF Headers
<1>11. GraysAreFound'
  BY <1>1, <1>3, <1>4 DEF GraysAreFound, GrayIsFound
<1>12. ReachableIsFound'
  BY <1>1, <1>2, <1>3, <1>4, <1>5 DEF ReachableIsFound, ColorOf, Value
<1>13. ArraysAreListed'
  BY <1>1, <1>3, <1>4 DEF ArraysAreListed, Cleaning, Dropping, Cleaned
<1>14. ArraysAreClean'
  BY <1>1, <1>3, <1>4, <1>5 DEF ArraysAreClean, Cleaning, Dropping, Cleaned
<1>. QED
  BY <1>6, <1>7, <1>8, <1>9, <1>10, <1>11, <1>12, <1>13, <1>14

LEMMA LoadKeeps ==
  ASSUME GcHeapAssumption, HeapInv, NEW r \in Roots, NEW s \in Roots, Load(r, s) PROVE HeapInv'
<1>1. Value(field[root[s]])
  BY ValuesAre DEF HeapInv, Load
<1>2. RootStep(r, field[root[s]]) /\ todo' = todo
  BY <1>1 DEF RootStep, Load, others, HeapInv, Shape
<1>. QED
  BY <1>2, RootStepKeeps

LEMMA ForgetKeeps ==
  ASSUME GcHeapAssumption, HeapInv, NEW r \in Roots, Forget(r) PROVE HeapInv'
<1>1. Value(None)
  BY ValuesAre DEF HeapInv
<1>2. RootStep(r, None) /\ todo' = todo
  BY <1>1 DEF RootStep, Forget, others, HeapInv, Shape
<1>. QED
  BY <1>2, RootStepKeeps

LEMMA FinalCallKeeps ==
  ASSUME GcHeapAssumption, HeapInv, NEW r \in Roots, FinalCall(r) PROVE HeapInv'
<1>1. todo # <<>> /\ todo \in Seq(Addr)
  BY DEF FinalCall, HeapInv, Shape
<1>2. /\ Last(todo) = todo[Len(todo)] /\ Len(todo) \in DOMAIN todo /\ Front(todo) \in Seq(Addr)
      /\ Range(Front(todo)) \subseteq Range(todo)
  BY <1>1, LastAndFront DEF Range
<1>3. Value(Last(todo))
  BY <1>2, ValuesAre DEF HeapInv
<1>4. RootStep(r, Last(todo))
  BY <1>2, <1>3 DEF RootStep, FinalCall
<1>. QED
  BY <1>1, <1>4, RootStepKeeps

\* The other steps of the program: blocks stay and are allocated, some are darkened while
\* marking, and a field that is overwritten then held none, a young block or a marked one.
Fresh == (Young' \cup Old') \ (Young \cup Old)
Steady ==
  /\ UNCHANGED <<phase, sub, markhp, sweepHp, weakPrev, final, todo>>
  /\ Young \subseteq Young' /\ Old \subseteq Old' /\ \A a \in Old : a \in weak' <=> a \in weak
  /\ MarksGrow /\ \A a \in Old \ weak : ColorOf(a)' = "black" => ColorOf(a) = "black"
  /\ phase # "mark" \/ (Cleaned /\ Weak) => marks'.stack = marks.stack /\ \A a \in Old : ColorOf(a)' = ColorOf(a)
  /\ \A a \in Old' \ Old : ColorOf(a)' = AllocationColor(a)
  /\ phase = "mark" => \A a \in Old \ weak : \/ field'[a] = field[a]
                                             \/ field[a] \notin Old
                                             \/ field[a] \in Marked'
NewValue(v) == v \in Sound' /\ (phase = "mark" => v \in Fine')

LEMMA SteadyGrows ==
  ASSUME GcHeapAssumption, Steady
  PROVE  /\ Sound \subseteq Sound' /\ Marked \subseteq Marked' /\ (phase = "mark" => Fine \subseteq Fine')
         /\ \A v : Value(v) => NewValue(v)
         /\ \A a \in Fresh : NewValue(a)
         /\ \A a \in Sound' : a \in Sound \/ a \in Fresh
<1>1. Stay
  BY DEF Steady, Stay
<1>2. Sound \subseteq Sound' /\ Marked \subseteq Marked'
  BY <1>1, BlocksStay
<1>3. ASSUME phase = "mark" PROVE Fine \subseteq Fine'
  <2>1. \A a \in Old \ weak : \/ field'[a] = field[a] /\ (ColorOf(a)' = "black" => ColorOf(a) = "black")
                              \/ field[a] \notin Old
                              \/ field[a] \in Marked'
    BY <1>3 DEF Steady
  <2>. QED
    BY <1>1, <2>1, FineGrows
<1>4. \A v : Value(v) => NewValue(v)
  BY <1>2, <1>3 DEF Value, NewValue
<1>5. ASSUME NEW a \in Fresh PROVE NewValue(a)
  <2>1. CASE a \in Young'
    <3>1. Young' \cap Old' = {}
      BY DEF Young, Old
    <3>. QED
      BY <2>1, <3>1 DEF NewValue, Sound, Doomed, White, Fine
  <2>2. CASE a \in Old' \ Old
    <3>1. ColorOf(a)' = AllocationColor(a) /\ UNCHANGED <<phase, sweepHp>>
      BY <2>2 DEF Steady
    <3>2. a \notin Doomed'
      BY <3>1 DEF Doomed, White, AllocationColor
    <3>3. ASSUME phase = "mark" PROVE a \in Found'
      <4>1. a \in Marked'
        BY <2>2, <3>1, <3>3 DEF Marked, White, AllocationColor
      <4>2. FoundIs'
        BY FoundIsClosedThen
      <4>. QED
        BY <4>1, <4>2 DEF FoundIs
    <3>. QED
      BY <2>2, <3>2, <3>3 DEF NewValue, Sound, Fine
  <2>. QED
    BY <1>5, <2>1, <2>2 DEF Fresh
<1>6. ASSUME NEW a \in Sound', a \notin Fresh PROVE a \in Sound
  <2>1. a = None \/ a \in Young \cup Old
    BY <1>6 DEF Sound, Fresh
  <2>2. a \notin Doomed
    <3>. SUFFICES ASSUME a \in Doomed PROVE FALSE
      OBVIOUS
    <3>1. phase = "sweep" /\ a >= sweepHp /\ a \in Old /\ ColorOf(a) = "white"
      BY DEF Doomed, White
    <3>2. a \in Doomed'
      BY <3>1 DEF Steady, Doomed, White
    <3>. QED
      BY <1>6, <3>1, <3>2, Blocks DEF Sound, None
  <2>. QED
    BY <2>1, <2>2 DEF Sound
<1>. QED
  BY <1>2, <1>3, <1>4, <1>5, <1>6

\* The list of weak arrays stays, or a new array is put in front.
Lists == \/ UNCHANGED <<weak, weakList>>
         \/ \E a \in Old' \ Old : weak' = weak \cup {a} /\ weakList' = <<a>> \o weakList
LEMMA ListsAre ==
  ASSUME Shape, Shape', ArraysAreListed, Lists, UNCHANGED <<weakPrev>>
  PROVE  /\ Range(weakList') \subseteq weak'
         /\ \A i, j \in DOMAIN weakList' : weakList'[i] = weakList'[j] => i = j
         /\ Range(weakList) \subseteq Range(weakList') /\ Range(weakList') \subseteq Range(weakList) \cup (Old' \ Old)
         /\ weak' \ Range(weakList') = weak \ Range(weakList)
         /\ weakPrev \in {None} \cup Range(weakList) => Passed' \subseteq Passed \cup (Old' \ Old)
<1>1. CASE UNCHANGED <<weak, weakList>>
  BY <1>1 DEF ArraysAreListed, Passed, NextIndex
<1>2. ASSUME NEW a \in Old' \ Old, weak' = weak \cup {a}, weakList' = <<a>> \o weakList
      PROVE  /\ Range(weakList') \subseteq weak'
             /\ \A i, j \in DOMAIN weakList' : weakList'[i] = weakList'[j] => i = j
             /\ Range(weakList') = Range(weakList) \cup {a}
             /\ weak' \ Range(weakList') = weak \ Range(weakList)
             /\ weakPrev \in {None} \cup Range(weakList) => Passed' \subseteq Passed \cup (Old' \ Old)
  <2>0. weakList \in Seq(Addr) /\ Len(weakList) \in Nat /\ a \in Addr
    BY DEF Shape, Old
  <2>1. /\ Len(weakList') = Len(weakList) + 1 /\ weakList'[1] = a
        /\ \A i \in 1..Len(weakList) : weakList'[i + 1] = weakList[i]
    BY <1>2, <2>0
  <2>2. DOMAIN weakList = 1..Len(weakList) /\ DOMAIN weakList' = 1..(Len(weakList) + 1)
    BY <1>2, <2>0, <2>1
  <2>3. a \notin weak /\ \A i \in 1..Len(weakList) : weakList[i] \in weak
    <3>1. weak \subseteq Old /\ Range(weakList) \subseteq weak
      BY DEF Shape, ArraysAreListed
    <3>2. \A i \in 1..Len(weakList) : weakList[i] \in Range(weakList)
      BY <2>2 DEF Range
    <3>. QED
      BY <3>1, <3>2
  <2>4. \A i \in DOMAIN weakList' : i = 1 \/ (i - 1 \in 1..Len(weakList) /\ weakList'[i] = weakList[i - 1])
    <3>. SUFFICES ASSUME NEW i \in 1..(Len(weakList) + 1), i # 1
                  PROVE  i - 1 \in 1..Len(weakList) /\ weakList'[i] = weakList[i - 1]
      BY <2>2
    <3>1. i - 1 \in 1..Len(weakList) /\ (i - 1) + 1 = i
      BY <2>0
    <3>. QED
      BY <2>1, <3>1
  <2>5. \A i \in DOMAIN weakList : i + 1 \in DOMAIN weakList' /\ weakList'[i + 1] = weakList[i]
    BY <2>0, <2>1, <2>2
  <2>6. Range(weakList') = Range(weakList) \cup {a}
    <3>1. ASSUME NEW x \in Range(weakList') PROVE x \in Range(weakList) \cup {a}
      BY <2>1, <2>2, <2>4, <3>1 DEF Range
    <3>2. Range(weakList) \subseteq Range(weakList')
      BY <2>5 DEF Range
    <3>3. 1 \in DOMAIN weakList'
      BY <2>0, <2>2
    <3>4. a \in Range(weakList')
      BY <2>1, <3>3 DEF Range
    <3>. QED
      BY <3>1, <3>2, <3>4
  <2>7. \A i, j \in DOMAIN weakList' : weakList'[i] = weakList'[j] => i = j
    <3>. SUFFICES ASSUME NEW i \in DOMAIN weakList', NEW j \in DOMAIN weakList', weakList'[i] = weakList'[j]
                  PROVE  i = j
      OBVIOUS
    <3>1. CASE i = 1
      BY <2>1, <2>3, <2>4, <3>1
    <3>2. CASE j = 1
      BY <2>1, <2>3, <2>4, <3>2
    <3>3. CASE i # 1 /\ j # 1
      <4>1. i - 1 \in DOMAIN weakList /\ j - 1 \in DOMAIN weakList /\ weakList[i - 1] = weakList[j - 1]
        BY <2>2, <2>4, <3>3
      <4>2. i - 1 = j - 1
        BY <4>1 DEF ArraysAreListed
      <4>. QED
        BY <2>0, <2>2, <4>2
    <3>. QED
      BY <3>1, <3>2, <3>3
  <2>8. ASSUME weakPrev \in {None} \cup Range(weakList) PROVE Passed' \subseteq Passed \cup (Old' \ Old)
    <3>1. CASE weakPrev = None
      BY <3>1 DEF Passed, NextIndex
    <3>2. CASE weakPrev # None
      <4>1. PICK k \in DOMAIN weakList : weakList[k] = weakPrev
        BY <2>8, <3>2 DEF Range
      <4>2. \A j \in DOMAIN weakList : weakList[j] = weakPrev => j = k
        BY <4>1 DEF ArraysAreListed
      <4>3. (CHOOSE j \in DOMAIN weakList : weakList[j] = weakPrev) = k
        BY <4>1, <4>2
      <4>4. NextIndex = 1 + k
        BY <3>2, <4>3 DEF NextIndex
      <4>5. k + 1 \in DOMAIN weakList' /\ weakList'[k + 1] = weakPrev
        BY <2>5, <4>1
      <4>6. \A j \in DOMAIN weakList' : weakList'[j] = weakPrev => j = k + 1
        BY <2>7, <4>5
      <4>7. (CHOOSE j \in DOMAIN weakList' : weakList'[j] = weakPrev) = k + 1
        BY <4>5, <4>6
      <4>8. NextIndex' = 1 + (k + 1)
        BY <3>2, <4>7 DEF NextIndex
      <4>9. k \in Nat /\ NextIndex - 1 = k /\ NextIndex' - 1 = k + 1 /\ k \in 1..Len(weakList)
        BY <2>0, <2>2, <4>1, <4>4, <4>8
      <4>10. ASSUME NEW i \in 1..(k + 1) PROVE weakList'[i] = a \/ \E j \in 1..k : weakList'[i] = weakList[j]
        <5>1. CASE i = 1
          BY <2>1, <5>1
        <5>2. CASE i # 1
          <6>1. i \in DOMAIN weakList' /\ i - 1 \in 1..k
            BY <2>0, <2>2, <4>9, <5>2
          <6>. QED
            BY <2>4, <5>2, <6>1
        <5>. QED
          BY <5>1, <5>2
      <4>. QED
        BY <4>9, <4>10 DEF Passed
    <3>. QED
      BY <3>1, <3>2
  <2>. QED
    BY <1>2, <2>3, <2>6, <2>7, <2>8 DEF ArraysAreListed
<1>3. CASE \E a \in Old' \ Old : weak' = weak \cup {a} /\ weakList' = <<a>> \o weakList
  <2>1. PICK a \in Old' \ Old : weak' = weak \cup {a} /\ weakList' = <<a>> \o weakList
    BY <1>3
  <2>. QED
    BY <1>2, <2>1
<1>. QED
  BY <1>1, <1>3 DEF Lists

LEMMA NextIs ==
  ASSUME Shape, ArraysAreListed, weakPrev \in {None} \cup Range(weakList)
  PROVE  /\ NextIndex \in 1..(Len(weakList) + 1)
         /\ weakPrev # None => NextIndex - 1 \in DOMAIN weakList /\ weakList[NextIndex - 1] = weakPrev
         /\ weakPrev = None => NextIndex = 1
         /\ Passed \subseteq Range(weakList)
<1>1. weakList \in Seq(Addr) /\ Len(weakList) \in Nat /\ DOMAIN weakList = 1..Len(weakList)
  BY DEF Shape
<1>2. CASE weakPrev = None
  BY <1>1, <1>2 DEF NextIndex, Passed, Range
<1>3. CASE weakPrev # None
  <2>1. PICK k \in DOMAIN weakList : weakList[k] = weakPrev
    BY <1>3 DEF Range
  <2>2. \A j \in DOMAIN weakList : weakList[j] = weakPrev => j = k
    BY <2>1 DEF ArraysAreListed
  <2>3. (CHOOSE j \in DOMAIN weakList : weakList[j] = weakPrev) = k
    BY <2>1, <2>2
  <2>4. NextIndex = 1 + k
    BY <1>3, <2>3 DEF NextIndex
  <2>5. NextIndex - 1 = k /\ NextIndex \in 1..(Len(weakList) + 1) /\ 1..k \subseteq DOMAIN weakList
    BY <1>1, <2>1, <2>4
  <2>6. Passed \subseteq Range(weakList)
    BY <2>5 DEF Passed, Range
  <2>. QED
    BY <1>3, <2>1, <2>5, <2>6
<1>. QED
  BY <1>2, <1>3

\* All the program writes is a value it holds, or a block it just got; into a weak array, what
\* another one holds, which is marked once the arrays are being cleaned.
NewWeakValue(v) == v \in Sound' /\ (phase = "mark" /\ sub # "main" => v \in Fine')
Writes == /\ \A r \in Roots : NewValue(root'[r])
          /\ \A a \in Young' \cup Old' : \/ NewValue(field'[a])
                                        \/ (a \in weak' /\ NewWeakValue(field'[a]))
                                        \/ (a \notin Fresh /\ field'[a] = field[a])
ProgramStep == Steady /\ Lists /\ Writes /\ Shape' /\ Unused' /\ Registered' /\ GraysAreFound'

LEMMA ProgramStepKeeps == ASSUME GcHeapAssumption, HeapInv, ProgramStep PROVE HeapInv'
<1>0. Steady /\ Lists /\ Writes /\ Shape' /\ Unused' /\ Registered' /\ GraysAreFound'
  BY DEF ProgramStep
<1>1. /\ UNCHANGED <<phase, sub, markhp, sweepHp, weakPrev, final, todo>>
      /\ Young \subseteq Young' /\ Old \subseteq Old'
      /\ \A a \in Old : a \in weak' <=> a \in weak
  BY <1>0 DEF Steady
<1>2. /\ Sound \subseteq Sound' /\ Marked \subseteq Marked' /\ (phase = "mark" => Fine \subseteq Fine')
      /\ \A a \in Fresh : NewValue(a)
      /\ \A a \in Sound' : a \in Sound \/ a \in Fresh
  BY <1>0, SteadyGrows
<1>3. Shape /\ Old \subseteq Addr /\ Old' \subseteq Addr /\ Young' \subseteq Addr /\ Young' \cap Old' = {}
  BY Blocks DEF HeapInv, Young, Old
<1>4. \A a \in Fresh : a \in Young' \/ a \in Old' \ Old
  BY DEF Fresh
<1>5. ValuesAreSound'
  <2>1. \A r \in Roots : root'[r] \in Sound'
    BY <1>0 DEF Writes, NewValue
  <2>2. Range(todo') \subseteq Sound' \cap Old' /\ final' \subseteq Sound'
    BY <1>1, <1>2 DEF HeapInv, ValuesAreSound
  <2>3. ASSUME NEW a \in Sound' \cap Addr PROVE field'[a] \in Sound'
    <3>1. a \in Young' \cup Old'
      BY <2>3, Blocks DEF Sound, None
    <3>2. CASE NewValue(field'[a]) \/ NewWeakValue(field'[a])
      BY <3>2 DEF NewValue, NewWeakValue
    <3>3. CASE a \notin Fresh /\ field'[a] = field[a]
      BY <1>2, <2>3, <3>3 DEF HeapInv, ValuesAreSound
    <3>. QED
      BY <1>0, <3>1, <3>2, <3>3 DEF Writes
  <2>. QED
    BY <2>1, <2>2, <2>3 DEF ValuesAreSound
<1>6. Headers'
  <2>1. \A a \in Old' : (a \in Old /\ ColorOf(a)' = ColorOf(a)) \/ ColorOf(a)' = AllocationColor(a) \/ phase = "mark"
    BY <1>0 DEF Steady
  <2>2. phase = "idle" => Marked' = {}
    BY <2>1 DEF HeapInv, Headers, AllocationColor, Marked, White
  <2>3. ASSUME phase = "sweep" PROVE NoneGray' /\ \A a \in Marked' : a >= sweepHp
    BY <2>1, <2>3 DEF HeapInv, Headers, AllocationColor, Marked, White, NoneGray
  <2>. QED
    BY <1>0, <1>1, <2>2, <2>3 DEF HeapInv, Headers, Steady
<1>7. ReachableIsFound'
  <2>. SUFFICES ASSUME phase = "mark" PROVE ReachableIsFound'
    BY <1>1 DEF ReachableIsFound
  <2>1. \A r \in Roots : root'[r] \in Fine'
    BY <1>0 DEF Writes, NewValue
  <2>2. Range(todo') \subseteq Fine' /\ (sub' = "final" => final' \subseteq Fine')
    BY <1>1, <1>2 DEF HeapInv, ReachableIsFound
  <2>3. ASSUME NEW a \in Young' PROVE field'[a] \in Fine'
    <3>1. CASE NewValue(field'[a])
      BY <3>1 DEF NewValue
    <3>2. CASE a \notin Fresh /\ field'[a] = field[a]
      <4>1. a \in Young
        BY <1>1, <1>3, <2>3, <3>2 DEF Fresh
      <4>. QED
        BY <1>2, <3>2, <4>1 DEF HeapInv, ReachableIsFound
    <3>3. a \notin weak'
      BY <1>0, <1>3, <2>3 DEF Shape
    <3>. QED
      BY <1>0, <2>3, <3>1, <3>2, <3>3 DEF Writes
  <2>4. ASSUME NEW a \in Old' \ weak', ColorOf(a)' = "black" PROVE field'[a] \in Fine'
    <3>1. CASE NewValue(field'[a])
      BY <3>1 DEF NewValue
    <3>2. CASE a \notin Fresh /\ field'[a] = field[a]
      <4>1. a \in Old \ weak
        BY <1>1, <1>3, <2>4, <3>2 DEF Fresh
      <4>2. ColorOf(a) = "black"
        BY <1>0, <2>4, <4>1 DEF Steady
      <4>. QED
        BY <1>2, <3>2, <4>1, <4>2 DEF HeapInv, ReachableIsFound
    <3>. QED
      BY <1>0, <2>4, <3>1, <3>2 DEF Writes
  <2>. QED
    BY <2>1, <2>2, <2>3, <2>4 DEF ReachableIsFound
<1>8. /\ Range(weakList') \subseteq weak'
      /\ \A i, j \in DOMAIN weakList' : weakList'[i] = weakList'[j] => i = j
      /\ Range(weakList) \subseteq Range(weakList') /\ Range(weakList') \subseteq Range(weakList) \cup (Old' \ Old)
      /\ weak' \ Range(weakList') = weak \ Range(weakList)
      /\ weakPrev \in {None} \cup Range(weakList) => Passed' \subseteq Passed \cup (Old' \ Old)
  BY <1>0, <1>1, <1>3, ListsAre DEF HeapInv
<1>9. weak # {} \/ weakList # <<>> \/ weak' # {} => Weak
  BY <1>0 DEF HeapInv, Unused
<1>10. weak \subseteq Old /\ weak' \subseteq Old'
  BY <1>0, <1>3 DEF Shape
<1>11. ArraysAreListed'
  <2>1. ASSUME NEW w \in weak' \ Range(weakList') PROVE (w \in Doomed \/ (Cleaned /\ w \in White))'
    <3>1. w \in weak \ Range(weakList) /\ w \in Old
      BY <1>8, <1>10, <2>1
    <3>2. w \in Doomed \/ (Cleaned /\ w \in White)
      BY <3>1 DEF HeapInv, ArraysAreListed
    <3>3. phase # "mark" \/ (Cleaned /\ Weak)
      BY <1>9, <3>1, <3>2 DEF Doomed
    <3>4. ColorOf(w)' = ColorOf(w) /\ w \in Old'
      BY <1>0, <1>1, <3>1, <3>3 DEF Steady
    <3>. QED
      BY <1>1, <3>2, <3>4 DEF Doomed, White, Cleaned
  <2>2. Range(weakList') \cap Doomed' = {}
    <3>. SUFFICES ASSUME NEW w \in Range(weakList'), w \in Doomed' PROVE FALSE
      OBVIOUS
    <3>1. CASE w \in Range(weakList)
      <4>1. w \in Old /\ w \notin Doomed
        BY <1>10, <3>1 DEF HeapInv, ArraysAreListed
      <4>2. phase = "sweep" /\ w \in White'
        BY <1>1 DEF Doomed
      <4>3. w \in White
        BY <1>0, <4>1, <4>2 DEF Steady, White
      <4>. QED
        BY <1>1, <4>1, <4>3 DEF Doomed
    <3>2. CASE w \in Old' \ Old
      <4>1. w \in Sound' /\ w # None
        <5>1. w \in Fresh /\ w \in Addr
          BY <1>1, <1>3, <3>2 DEF Fresh
        <5>. QED
          BY <1>2, <5>1, Blocks DEF NewValue, None
      <4>. QED
        BY <4>1 DEF Sound
    <3>. QED
      BY <1>8, <3>1, <3>2
  <2>. QED
    BY <1>1, <1>8, <2>1, <2>2 DEF HeapInv, ArraysAreListed, Cleaning, Dropping
<1>12. ArraysAreClean'
  <2>. SUFFICES ASSUME phase = "mark" PROVE ArraysAreClean'
    BY <1>1 DEF ArraysAreClean, Cleaning, Dropping, Cleaned
  <2>1. \A a \in Old' \ Old : a \in Marked' /\ ColorOf(a)' = "black"
    BY <1>0 DEF Steady, AllocationColor, Marked, White
  <2>2. \A a \in Old' \ Old : a \in Fresh
    BY <1>1, <1>3 DEF Fresh
  <2>3. ASSUME NEW w \in Old', w \in Old => field[w] \in Fine, sub # "main" PROVE field'[w] \in Fine'
    <3>1. CASE NewValue(field'[w]) \/ NewWeakValue(field'[w])
      BY <2>3, <3>1 DEF NewValue, NewWeakValue
    <3>2. CASE w \notin Fresh /\ field'[w] = field[w]
      BY <1>2, <2>2, <2>3, <3>2
    <3>. QED
      BY <1>0, <2>3, <3>1, <3>2 DEF Writes
  <2>4. ASSUME Cleaning' PROVE \A w \in Passed' : field'[w] \in Fine'
    <3>1. Cleaning /\ Passed' \subseteq Passed \cup (Old' \ Old)
      BY <1>1, <1>8, <2>4 DEF Cleaning, HeapInv, ArraysAreListed
    <3>2. ASSUME NEW w \in Passed' PROVE field'[w] \in Fine'
      <4>1. CASE w \in Passed
        <5>1. field[w] \in Fine
          BY <3>1, <4>1 DEF HeapInv, ArraysAreClean
        <5>2. w \in Range(weakList)
          BY <1>3, <3>1, <4>1, NextIs DEF HeapInv, ArraysAreListed
        <5>3. w \in Old'
          BY <1>1, <1>10, <5>2 DEF HeapInv, ArraysAreListed
        <5>. QED
          BY <2>3, <3>1, <5>1, <5>3 DEF Cleaning
      <4>2. CASE w \in Old' \ Old
        BY <2>3, <3>1, <4>2 DEF Cleaning
      <4>. QED
        BY <3>1, <3>2, <4>1, <4>2
    <3>. QED
      BY <3>2
  <2>5. ASSUME Cleaned', Weak PROVE NoneGray' /\ \A w \in weak' \cap Marked' : field'[w] \in Fine'
    <3>1. Cleaned /\ \A a \in Old : ColorOf(a)' = ColorOf(a)
      BY <1>0, <1>1, <2>5 DEF Cleaned, Steady
    <3>2. NoneGray'
      BY <2>1, <2>5, <3>1 DEF NoneGray, HeapInv, ArraysAreClean
    <3>3. ASSUME NEW w \in weak' \cap Marked' PROVE field'[w] \in Fine'
      <4>1. w \in Old' /\ (w \in Old => w \in weak \cap Marked)
        BY <1>1, <1>10, <3>1, <3>3 DEF Marked, White
      <4>2. w \in Old => field[w] \in Fine
        BY <2>5, <3>1, <4>1 DEF HeapInv, ArraysAreClean
      <4>. QED
        BY <2>3, <3>1, <4>1, <4>2 DEF Cleaned
    <3>. QED
      BY <3>2, <3>3
  <2>6. Dropping' => Passed' \subseteq Marked'
    BY <1>1, <1>2, <1>8, <2>1 DEF Dropping, HeapInv, ArraysAreListed, ArraysAreClean
  <2>7. Cleaned' /\ ~Dropping' => Range(weakList') \subseteq Marked'
    BY <1>1, <1>2, <1>8, <2>1 DEF Dropping, Cleaned, HeapInv, ArraysAreClean
  <2>. QED
    BY <2>4, <2>5, <2>6, <2>7 DEF ArraysAreClean
<1>. QED
  BY <1>0, <1>5, <1>6, <1>7, <1>11, <1>12 DEF HeapInv

\* What darkening does to the headers of the old blocks.
MarkStep == /\ marks' \in Headings /\ (phase = "mark" => Tidy(marks', Old, markhp)) /\ MarksGrow
            /\ \A a \in Old \ weak : ColorOf(a)' = "black" => ColorOf(a) = "black"
            /\ phase # "mark" \/ (Cleaned /\ Weak) => marks' = marks

LEMMA MarksStay == ASSUME HeapInv, marks' = marks PROVE MarkStep
<1>1. marks \in Headings /\ (phase = "mark" => Tidy(marks, Old, markhp))
  BY GraysAreTidy DEF HeapInv, Shape, Headings
<1>. QED
  BY <1>1 DEF MarkStep, MarksGrow, ColorOf

LEMMA Darkened ==
  ASSUME GcHeapAssumption, HeapInv, NEW v, marks' = DarkenIfMarking(v), Cleaned /\ Weak => v \in Fine
  PROVE  MarkStep /\ (phase = "mark" /\ v \in Old => marks'.color[v] # "white")
<1>1. marks \in Headings /\ (phase = "mark" => Tidy(marks, Old, markhp)) /\ Shape /\ Old \subseteq Addr
  BY GraysAreTidy, Blocks DEF HeapInv, Shape, Headings
<1>2. CASE phase # "mark"
  <2>1. marks' = marks
    BY <1>2 DEF DarkenIfMarking
  <2>. QED
    BY <1>2, <2>1, MarksStay
<1>3. CASE phase = "mark"
  <2>1. marks' = Darken(marks, v)
    BY <1>3 DEF DarkenIfMarking
  <2>2. /\ marks' \in Headings /\ Tidy(marks', Old, markhp) /\ Darker(marks, marks')
        /\ v \in Old => marks'.color[v] # "white"
    BY <1>1, <1>3, <2>1, DarkenIsTidy
  <2>3. MarksGrow
    BY <1>1, <2>2 DEF Darker, MarksGrow, ColorOf
  <2>4. \A a \in Old \ weak : ColorOf(a)' = "black" => ColorOf(a) = "black"
    BY <1>1, <2>2 DEF Darker, ColorOf
  <2>5. ASSUME Cleaned, Weak PROVE marks' = marks
    <3>1. Found = Marked
      BY <1>1, <2>5, AllIsFound DEF HeapInv, ArraysAreClean
    <3>2. ~IsWhiteIn(marks, v)
      BY <2>5, <3>1, Blocks DEF Fine, IsWhiteIn, Marked, White, ColorOf, None
    <3>. QED
      BY <2>1, <3>2 DEF Darken
  <2>. QED
    BY <1>3, <2>2, <2>3, <2>4, <2>5 DEF MarkStep, ColorOf
<1>. QED
  BY <1>2, <1>3

\* The value of a weak array the program holds: it can be white until the arrays are clean.
LEMMA WeakValue ==
  ASSUME GcHeapAssumption, HeapInv, NEW w \in weak, Value(w)
  PROVE  field[w] \in Sound /\ field[w] \in 0..N /\ (Cleaned /\ Weak => field[w] \in Fine)
<1>1. w \in Addr /\ w \in Old /\ Sound \subseteq 0..N /\ Shape
  <2>1. Shape /\ w \in Old /\ Old \subseteq Addr
    BY Blocks DEF HeapInv, Shape
  <2>2. Sound \subseteq 0..N
    BY Blocks DEF Sound, None, Addr
  <2>. QED
    BY <2>1, <2>2
<1>2. field[w] \in Sound /\ field[w] \in 0..N
  BY <1>1 DEF HeapInv, ValuesAreSound, Value
<1>3. ASSUME Cleaned, Weak PROVE field[w] \in Fine
  <2>1. Found = Marked
    BY <1>1, <1>3, AllIsFound DEF HeapInv, ArraysAreClean
  <2>2. w \in Marked
    BY <1>1, <1>3, <2>1, Blocks DEF Value, Fine, Cleaned, None
  <2>. QED
    BY <1>3, <2>2 DEF HeapInv, ArraysAreClean
<1>. QED
  BY <1>2, <1>3

\* A value that has just been darkened can be held.
LEMMA DarkenedIsValue ==
  ASSUME GcHeapAssumption, Steady, NEW v \in Sound, phase = "mark" /\ v \in Old => marks'.color[v] # "white"
  PROVE  NewValue(v)
<1>1. v \in Sound' /\ UNCHANGED phase
  BY SteadyGrows DEF Steady
<1>2. ASSUME phase = "mark" PROVE v \in Fine'
  <2>1. CASE v \in Old
    <3>1. v \in Marked'
      BY <1>2, <2>1 DEF Steady, Marked, White, ColorOf
    <3>2. FoundIs'
      BY FoundIsClosedThen
    <3>. QED
      BY <3>1, <3>2 DEF FoundIs, Fine
  <2>2. CASE v \notin Old
    BY <2>2 DEF Sound, Fine, Steady, None
  <2>. QED
    BY <2>1, <2>2
<1>. QED
  BY <1>1, <1>2 DEF NewValue

LEMMA FreshIsTidy ==
  ASSUME GraysAreFound, UNCHANGED <<phase, markhp>>, marks'.stack = marks.stack, marks'.pure = marks.pure,
         Old \subseteq Old', \A a \in Old : ColorOf(a)' = ColorOf(a), \A a \in Old' \ Old : ColorOf(a)' # "gray"
  PROVE  GraysAreFound'
<1>. SUFFICES ASSUME phase = "mark" PROVE GraysAreFound'
  BY DEF GraysAreFound
<1>1. Tidy(marks, Old, markhp)
  BY GraysAreTidy
<1>2. Tidy(marks', Old', markhp')
  BY <1>1 DEF Tidy, ColorOf
<1>3. GraysAreFound' <=> (phase' = "mark" => Tidy(marks', Old', markhp'))
  BY GraysAreTidyThen
<1>. QED
  BY <1>2, <1>3

\* A young block for the value v, which is held or has just been darkened.
YoungStep(r, v, a) ==
  /\ a \in Free /\ where' = [where EXCEPT ![a] = "young"] /\ field' = [field EXCEPT ![a] = v]
  /\ root' = [root EXCEPT ![r] = a] /\ UNCHANGED <<weak, tables, cycle, others>>
  /\ MarkStep /\ v \in Sound /\ (phase = "mark" /\ v \in Old => v \in Fine \/ marks'.color[v] # "white")
LEMMA YoungStepKeeps ==
  ASSUME GcHeapAssumption, HeapInv, NEW r \in Roots, NEW v \in 0..N, NEW a, YoungStep(r, v, a) PROVE HeapInv'
<1>1. /\ a \in Addr /\ where[a] = "free" /\ where' = [where EXCEPT ![a] = "young"]
      /\ field' = [field EXCEPT ![a] = v] /\ root' = [root EXCEPT ![r] = a]
      /\ UNCHANGED <<weak, refTable, weakRefs, phase, sub, markhp, sweepHp, weakPrev, weakList, final, todo>>
      /\ marks' \in Headings
  BY DEF YoungStep, Free, tables, cycle, others, MarkStep
<1>2. Shape /\ N \in Nat /\ 0 \notin Addr /\ Old \subseteq Addr /\ Junk = N + 1
  BY Blocks DEF HeapInv
<1>3. Old' = Old /\ Young' = Young \cup {a} /\ a \notin Young /\ a \notin Old
  BY <1>1, <1>2 DEF Shape, Old, Young
<1>4. /\ field' \in [Addr -> 0..Junk] /\ field'[a] = v /\ \A b \in Addr : b # a => field'[b] = field[b]
      /\ root' \in [Roots -> 0..N] /\ root'[r] = a /\ \A q \in Roots : q # r => root'[q] = root[q]
  BY <1>1, <1>2 DEF Shape, Addr
<1>5. Steady
  BY <1>1, <1>2, <1>3, <1>4 DEF YoungStep, MarkStep, Steady, ColorOf
<1>6. Lists
  BY <1>1 DEF Lists
<1>7. /\ \A x : Value(x) => NewValue(x)
      /\ \A x \in Fresh : NewValue(x)
      /\ Fresh = {a} /\ (phase = "mark" => Fine \subseteq Fine')
      /\ \A x \in Sound' : x \in Sound \/ x \in Fresh
  BY <1>3, <1>5, SteadyGrows DEF Fresh
<1>8. NewValue(v)
  <2>1. CASE phase = "mark" /\ v \in Fine
    BY <1>7, <2>1 DEF NewValue, YoungStep, Value
  <2>2. CASE ~(phase = "mark" /\ v \in Fine)
    BY <1>5, <2>2, DarkenedIsValue DEF YoungStep
  <2>. QED
    BY <2>1, <2>2
<1>9. Writes
  <2>1. \A q \in Roots : NewValue(root'[q])
    BY <1>4, <1>7, ValuesAre DEF HeapInv
  <2>2. \A b \in Young' \cup Old' : NewValue(field'[b]) \/ (b \notin Fresh /\ field'[b] = field[b])
    BY <1>2, <1>3, <1>4, <1>7, <1>8 DEF Young
  <2>. QED
    BY <2>1, <2>2 DEF Writes
<1>10. Shape'
  <2>1. where' \in [Addr -> {"free", "young", "old"}]
    BY <1>1, <1>2 DEF Shape
  <2>. QED
    BY <1>1, <1>2, <1>3, <1>4, <2>1 DEF Shape, Headings
<1>11. Unused'
  BY <1>1 DEF HeapInv, Unused
<1>12. Registered'
  <2>1. ASSUME NEW b \in Sound' \cap Old', field'[b] \in Young' PROVE b \in refTable' \cup weakRefs'
    <3>1. b \in Sound \cap Old /\ b # a /\ b \in Addr
      BY <1>2, <1>3, <1>7, <2>1
    <3>2. field'[b] = field[b] /\ field[b] \in Sound
      BY <1>4, <3>1 DEF HeapInv, ValuesAreSound
    <3>3. field[b] # a
      BY <1>1, <1>2, <1>3, <3>2 DEF Sound, None
    <3>. QED
      BY <1>1, <1>3, <2>1, <3>1, <3>2, <3>3 DEF HeapInv, Registered
  <2>. QED
    BY <1>1, <1>3, <2>1 DEF Registered
<1>13. GraysAreFound'
  <2>1. phase = "mark" => Tidy(marks', Old', markhp')
    BY <1>1, <1>3 DEF YoungStep, MarkStep
  <2>2. GraysAreFound' <=> (phase' = "mark" => Tidy(marks', Old', markhp'))
    BY GraysAreTidyThen
  <2>. QED
    BY <1>1, <2>1, <2>2
<1>. QED
  BY <1>5, <1>6, <1>9, <1>10, <1>11, <1>12, <1>13, ProgramStepKeeps DEF ProgramStep

LEMMA AllocSmallKeeps ==
  ASSUME GcHeapAssumption, HeapInv, NEW r \in Roots, NEW s \in Roots, NEW a, AllocSmall(r, s, a) PROVE HeapInv'
<1>1. Value(root[s])
  BY ValuesAre DEF HeapInv
<1>2. MarkStep
  BY MarksStay DEF AllocSmall
<1>3. phase = "mark" /\ root[s] \in Old => root[s] \in Fine
  BY <1>1 DEF Value
<1>4. YoungStep(r, root[s], a) /\ root[s] \in 0..N
  BY <1>1, <1>2, <1>3 DEF AllocSmall, YoungStep, Value
<1>. QED
  BY <1>4, YoungStepKeeps

LEMMA WeakGetCopyKeeps ==
  ASSUME GcHeapAssumption, HeapInv, NEW r \in Roots, NEW s \in Roots, NEW a, WeakGetCopy(r, s, a) PROVE HeapInv'
<1>. DEFINE w == root[s]
            f == field[field[w]]
<1>1. /\ w \in weak /\ field[w] \in Addr \ weak /\ a \in Free
      /\ where' = [where EXCEPT ![a] = "young"] /\ field' = [field EXCEPT ![a] = f]
      /\ marks' = DarkenIfMarking(f) /\ root' = [root EXCEPT ![r] = a]
      /\ UNCHANGED <<weak, tables, cycle, others>>
  BY DEF WeakGetCopy
<1>2. Value(w)
  BY ValuesAre DEF HeapInv
<1>3. field[w] \in Sound /\ (Cleaned /\ Weak => field[w] \in Fine)
  BY <1>1, <1>2, WeakValue
<1>4. f \in Sound /\ f \in 0..N
  <2>1. Sound \subseteq 0..N
    BY Blocks DEF Sound, None, Addr
  <2>. QED
    BY <1>1, <1>3, <2>1 DEF HeapInv, ValuesAreSound
<1>5. Cleaned /\ Weak => f \in Fine
  <2>1. Sound \subseteq 0..N
    BY Blocks DEF Sound, None, Addr
  <2>2. Cleaned /\ Weak => Value(field[w]) /\ phase = "mark"
    BY <1>3, <2>1 DEF Value, Cleaned
  <2>. QED
    BY <1>1, <2>2, ValuesAre DEF HeapInv, Value
<1>6. MarkStep /\ (phase = "mark" /\ f \in Old => marks'.color[f] # "white")
  BY <1>1, <1>5, Darkened
<1>. HIDE DEF f
<1>7. YoungStep(r, f, a)
  BY <1>1, <1>4, <1>6 DEF YoungStep
<1>. QED
  BY <1>4, <1>7, YoungStepKeeps

\* An old block, allocated black where the sweep has not been; the table gets its young value.
OldStep(r, v, a) ==
  /\ a \in Free /\ where' = [where EXCEPT ![a] = "old"] /\ field' = [field EXCEPT ![a] = v]
  /\ marks' = [marks EXCEPT !.color[a] = AllocationColor(a)]
  /\ root' = [root EXCEPT ![r] = a] /\ UNCHANGED <<weakRefs, cycle, final, todo>>
  /\ refTable' = IF v \in Young THEN refTable \cup {a} ELSE refTable
  /\ Value(v) /\ Lists /\ weakList' \in Seq(Addr)
  /\ \/ weak' = weak /\ weakList' = weakList
     \/ weak' = weak \cup {a} /\ Weak /\ v \notin Young
LEMMA OldStepKeeps ==
  ASSUME GcHeapAssumption, HeapInv, NEW r \in Roots, NEW v, NEW a, OldStep(r, v, a) PROVE HeapInv'
<1>1. /\ a \in Addr /\ where[a] = "free" /\ where' = [where EXCEPT ![a] = "old"]
      /\ field' = [field EXCEPT ![a] = v] /\ root' = [root EXCEPT ![r] = a]
      /\ UNCHANGED <<weakRefs, phase, sub, markhp, sweepHp, weakPrev, final, todo>>
      /\ Value(v) /\ v \in 0..N /\ Lists
  BY DEF OldStep, Free, cycle, Value
<1>2. Shape /\ N \in Nat /\ 0 \notin Addr /\ Old \subseteq Addr /\ Young \subseteq Addr /\ Young \cap Old = {} /\ Junk = N + 1
  BY Blocks DEF HeapInv
<1>3. Young' = Young /\ Old' = Old \cup {a} /\ a \notin Young /\ a \notin Old
  BY <1>1, <1>2 DEF Shape, Old, Young
<1>4. /\ field' \in [Addr -> 0..Junk] /\ field'[a] = v /\ \A b \in Addr : b # a => field'[b] = field[b]
      /\ root' \in [Roots -> 0..N] /\ root'[r] = a /\ \A q \in Roots : q # r => root'[q] = root[q]
  BY <1>1, <1>2 DEF Shape, Addr
<1>. DEFINE c == AllocationColor(a)
<1>5. /\ marks' \in Headings /\ marks'.stack = marks.stack /\ marks'.pure = marks.pure
      /\ ColorOf(a)' = c /\ \A b \in Addr : b # a => ColorOf(b)' = ColorOf(b)
  <2>1. c \in {"white", "black"} /\ marks \in Headings /\ marks' = [marks EXCEPT !.color[a] = c]
    BY <1>2 DEF AllocationColor, OldStep, Shape, Headings
  <2>. HIDE DEF c
  <2>. QED
    BY <1>1, <2>1 DEF ColorOf, Headings
<1>. HIDE DEF c
<1>6. Steady
  <2>1. \A b \in Old : b \in Addr /\ b # a /\ ColorOf(b)' = ColorOf(b) /\ field'[b] = field[b] /\ (b \in weak' <=> b \in weak)
    BY <1>2, <1>3, <1>4, <1>5 DEF OldStep
  <2>2. MarksGrow
    BY <2>1 DEF MarksGrow
  <2>. QED
    BY <1>1, <1>3, <1>5, <2>1, <2>2 DEF Steady, c
<1>7. /\ \A x : Value(x) => NewValue(x)
      /\ \A x \in Fresh : NewValue(x)
      /\ Fresh = {a}
      /\ \A x \in Sound' : x \in Sound \/ x \in Fresh
  BY <1>2, <1>3, <1>6, SteadyGrows DEF Fresh
<1>8. Writes
  <2>1. \A q \in Roots : NewValue(root'[q])
    BY <1>4, <1>7, ValuesAre DEF HeapInv
  <2>2. \A b \in Young' \cup Old' : NewValue(field'[b]) \/ (b \notin Fresh /\ field'[b] = field[b])
    BY <1>1, <1>2, <1>3, <1>4, <1>7
  <2>. QED
    BY <2>1, <2>2 DEF Writes
<1>9. Shape'
  <2>1. where' \in [Addr -> {"free", "young", "old"}]
    BY <1>1, <1>2 DEF Shape
  <2>2. weak' \subseteq Old' /\ refTable' \subseteq Old' \ weak' /\ weakRefs' \subseteq weak'
    BY <1>1, <1>2, <1>3 DEF Shape, OldStep
  <2>3. weakList' \in Seq(Addr)
    BY DEF OldStep
  <2>. QED
    BY <1>1, <1>2, <1>4, <1>5, <2>1, <2>2, <2>3 DEF Shape, Headings
<1>10. Unused'
  BY <1>1 DEF HeapInv, Unused, OldStep
<1>11. Registered'
  <2>1. ASSUME NEW b \in Sound' \cap Old', field'[b] \in Young' PROVE b \in refTable' \cup weakRefs'
    <3>1. CASE b = a
      BY <1>3, <1>4, <2>1, <3>1 DEF OldStep
    <3>2. CASE b # a
      <4>1. b \in Sound \cap Old /\ field'[b] = field[b]
        BY <1>2, <1>3, <1>4, <1>7, <2>1, <3>2
      <4>. QED
        BY <1>1, <1>3, <2>1, <4>1 DEF HeapInv, Registered, OldStep
    <3>. QED
      BY <3>1, <3>2
  <2>2. Young' = {} => refTable' = {} /\ weakRefs' = {}
    BY <1>1, <1>3 DEF HeapInv, Registered, OldStep
  <2>. QED
    BY <2>1, <2>2 DEF Registered
<1>12. GraysAreFound'
  <2>1. \A b \in Old : ColorOf(b)' = ColorOf(b)
    BY <1>2, <1>3, <1>5
  <2>2. \A b \in Old' \ Old : ColorOf(b)' # "gray"
    BY <1>3, <1>5 DEF c, AllocationColor
  <2>. QED
    BY <1>1, <1>3, <1>5, <2>1, <2>2, FreshIsTidy DEF HeapInv
<1>. QED
  BY <1>1, <1>6, <1>8, <1>9, <1>10, <1>11, <1>12, ProgramStepKeeps DEF ProgramStep

LEMMA AllocShrKeeps ==
  ASSUME GcHeapAssumption, HeapInv, NEW r \in Roots, NEW s \in Roots, NEW a, AllocShr(r, s, a) PROVE HeapInv'
<1>1. Value(root[s]) /\ weakList \in Seq(Addr)
  BY ValuesAre DEF HeapInv, Shape
<1>2. UNCHANGED <<weak, weakList, final, todo>>
  BY DEF AllocShr, others
<1>3. Lists
  BY <1>2 DEF Lists
<1>4. OldStep(r, root[s], a)
  BY <1>1, <1>2, <1>3 DEF AllocShr, OldStep
<1>. QED
  BY <1>4, OldStepKeeps

LEMMA WeakCreateKeeps ==
  ASSUME GcHeapAssumption, HeapInv, NEW r \in Roots, NEW a, WeakCreate(r, a) PROVE HeapInv'
<1>1. Value(None) /\ None \notin Young /\ weakList \in Seq(Addr) /\ Shape /\ a \in Addr /\ where[a] = "free"
  BY ValuesAre, Blocks DEF HeapInv, Shape, None, WeakCreate, Free
<1>2. a \in Old' \ Old
  BY <1>1 DEF WeakCreate, Shape, Old
<1>3. weakList' = <<a>> \o weakList /\ weakList' \in Seq(Addr)
  BY <1>1 DEF WeakCreate
<1>4. Lists
  BY <1>2, <1>3 DEF Lists, WeakCreate
<1>5. OldStep(r, None, a)
  BY <1>1, <1>3, <1>4 DEF WeakCreate, OldStep, tables
<1>. QED
  BY <1>5, OldStepKeeps

\* The blocks stay, some fields and roots are written.
InPlace ==
  /\ UNCHANGED <<where, weak, cycle, others>> /\ MarkStep
  /\ field' \in [Addr -> 0..Junk] /\ root' \in [Roots -> 0..N]
  /\ refTable' \subseteq Old \ weak /\ weakRefs' \subseteq weak
  /\ refTable \subseteq refTable' /\ weakRefs \subseteq weakRefs'
  /\ Young = {} => refTable' = refTable /\ weakRefs' = weakRefs
  /\ \A a \in Sound \cap Old : field'[a] = field[a] \/ field'[a] \notin Young \/ a \in refTable' \cup weakRefs'
  /\ phase = "mark" => \A a \in Old \ weak : \/ field'[a] = field[a]
                                             \/ field[a] \notin Old
                                             \/ marks'.color[field[a]] # "white"

LEMMA InPlaceIsSteady ==
  ASSUME GcHeapAssumption, HeapInv, InPlace
  PROVE  Steady /\ Young' = Young /\ Old' = Old /\ \A x : Value(x) => NewValue(x)
<1>1. Young' = Young /\ Old' = Old
  BY DEF InPlace, Young, Old
<1>2. Steady
  <2>1. UNCHANGED <<phase, sub, markhp, sweepHp, weakPrev, final, todo>> /\ weak' = weak
    BY DEF InPlace, cycle, others
  <2>2. MarksGrow /\ \A a \in Old \ weak : ColorOf(a)' = "black" => ColorOf(a) = "black"
    BY DEF InPlace, MarkStep
  <2>3. phase # "mark" \/ (Cleaned /\ Weak) => marks'.stack = marks.stack /\ \A a \in Old : ColorOf(a)' = ColorOf(a)
    BY DEF InPlace, MarkStep, ColorOf
  <2>4. ASSUME phase = "mark", NEW a \in Old \ weak
        PROVE  field'[a] = field[a] \/ field[a] \notin Old \/ field[a] \in Marked'
    <3>1. field'[a] = field[a] \/ field[a] \notin Old \/ marks'.color[field[a]] # "white"
      BY <2>4 DEF InPlace
    <3>2. ASSUME field[a] \in Old, marks'.color[field[a]] # "white" PROVE field[a] \in Marked'
      BY <1>1, <3>2 DEF Marked, White, ColorOf
    <3>. QED
      BY <3>1, <3>2
  <2>. QED
    BY <1>1, <2>1, <2>2, <2>3, <2>4 DEF Steady
<1>. QED
  BY <1>1, <1>2, SteadyGrows

LEMMA InPlaceKeeps == ASSUME GcHeapAssumption, HeapInv, InPlace, Writes PROVE HeapInv'
<1>1. Steady /\ Young' = Young /\ Old' = Old
  BY InPlaceIsSteady
<1>2. Lists
  BY DEF InPlace, Lists, others
<1>3. /\ UNCHANGED <<where, weak, phase, sub, markhp, sweepHp, weakPrev, weakList, final, todo>>
      /\ marks' \in Headings /\ Shape
  BY DEF InPlace, MarkStep, cycle, others, HeapInv
<1>4. Shape'
  BY <1>1, <1>3 DEF InPlace, Shape, Headings
<1>5. Unused'
  BY <1>3 DEF HeapInv, Unused
<1>6. Registered'
  <2>1. \A x \in Sound' : x \in Sound
    BY <1>1, SteadyGrows DEF Fresh
  <2>. QED
    BY <1>1, <2>1 DEF HeapInv, Registered, InPlace
<1>7. GraysAreFound'
  <2>1. phase = "mark" => Tidy(marks', Old', markhp')
    BY <1>1, <1>3 DEF InPlace, MarkStep
  <2>2. GraysAreFound' <=> (phase' = "mark" => Tidy(marks', Old', markhp'))
    BY GraysAreTidyThen
  <2>. QED
    BY <1>3, <2>1, <2>2
<1>. QED
  BY <1>1, <1>2, <1>4, <1>5, <1>6, <1>7, ProgramStepKeeps DEF ProgramStep

LEMMA ModifyKeeps ==
  ASSUME GcHeapAssumption, HeapInv, NEW r \in Roots, NEW s \in Roots, Modify(r, s) PROVE HeapInv'
<1>. DEFINE a == root[r]
            v == root[s]
<1>1. /\ a \in Addr \ weak /\ field' = [field EXCEPT ![a] = v]
      /\ marks' = (IF a \in Old THEN DarkenIfMarking(field[a]) ELSE marks)
      /\ refTable' = (IF a \in Old /\ MustRecord(field[a], v) THEN refTable \cup {a} ELSE refTable)
      /\ UNCHANGED <<where, weak, root, weakRefs, cycle, others>>
  BY DEF Modify
<1>2. Value(a) /\ Value(v) /\ Value(field[a])
  BY <1>1, ValuesAre DEF HeapInv
<1>3. Shape /\ Old \subseteq Addr /\ N \in Nat /\ Junk = N + 1 /\ Young \cap Old = {}
  BY Blocks DEF HeapInv
<1>4. MarkStep /\ (phase = "mark" /\ a \in Old /\ field[a] \in Old => marks'.color[field[a]] # "white")
  <2>1. CASE a \in Old
    <3>1. Cleaned => field[a] \in Fine
      BY <1>2 DEF Value, Cleaned
    <3>. QED
      BY <1>1, <2>1, <3>1, Darkened
  <2>2. CASE a \notin Old
    BY <1>1, <2>2, MarksStay
  <2>. QED
    BY <2>1, <2>2
<1>5. /\ field' \in [Addr -> 0..Junk] /\ field'[a] = v /\ \A b \in Addr : b # a => field'[b] = field[b]
  BY <1>1, <1>2, <1>3 DEF Shape, Value
<1>. HIDE DEF a, v
<1>6. InPlace
  <2>1. refTable' \subseteq Old \ weak /\ refTable \subseteq refTable'
    BY <1>1, <1>3 DEF Shape
  <2>2. ASSUME a \in Old, v \in Young PROVE a \in refTable' \cup weakRefs'
    <3>1. field[a] \in Young => a \in refTable \cup weakRefs
      BY <1>2, <2>2 DEF HeapInv, Registered, Value
    <3>. QED
      BY <1>1, <2>2, <3>1 DEF MustRecord
  <2>3. Young = {} => refTable' = refTable
    BY <1>1 DEF MustRecord
  <2>4. root' \in [Roots -> 0..N] /\ weakRefs' = weakRefs /\ weakRefs \subseteq weak
    BY <1>1, <1>3 DEF Shape
  <2>5. \A b \in Sound \cap Old : field'[b] = field[b] \/ field'[b] \notin Young \/ b \in refTable' \cup weakRefs'
    BY <1>3, <1>5, <2>2
  <2>6. phase = "mark" => \A b \in Old \ weak : \/ field'[b] = field[b]
                                                \/ field[b] \notin Old
                                                \/ marks'.color[field[b]] # "white"
    BY <1>3, <1>4, <1>5
  <2>. QED
    BY <1>1, <1>4, <1>5, <2>1, <2>3, <2>4, <2>5, <2>6 DEF InPlace
<1>7. Old' = Old /\ Young' = Young /\ \A x : Value(x) => NewValue(x)
  BY <1>6, InPlaceIsSteady
<1>8. Writes
  <2>1. \A q \in Roots : NewValue(root'[q])
    BY <1>1, <1>7, ValuesAre DEF HeapInv
  <2>2. \A b \in Young' \cup Old' : NewValue(field'[b]) \/ (b \notin Fresh /\ field'[b] = field[b])
    BY <1>2, <1>5, <1>7 DEF Fresh, Young, Old
  <2>. QED
    BY <2>1, <2>2 DEF Writes
<1>. QED
  BY <1>6, <1>8, InPlaceKeeps

LEMMA WeakGetKeeps ==
  ASSUME GcHeapAssumption, HeapInv, NEW r \in Roots, NEW s \in Roots, WeakGet(r, s) PROVE HeapInv'
<1>. DEFINE w == root[s]
            v == field[w]
<1>1. /\ w \in weak /\ root' = [root EXCEPT ![r] = v] /\ marks' = DarkenIfMarking(v)
      /\ UNCHANGED <<where, weak, field, refTable, weakRefs, cycle, others>>
  BY DEF WeakGet, heap, tables
<1>2. Value(w)
  BY ValuesAre DEF HeapInv
<1>3. v \in Sound /\ v \in 0..N /\ (Cleaned /\ Weak => v \in Fine)
  BY <1>1, <1>2, WeakValue
<1>4. MarkStep /\ (phase = "mark" /\ v \in Old => marks'.color[v] # "white")
  BY <1>1, <1>3, Darkened
<1>. HIDE DEF w, v
<1>5. InPlace
  BY <1>1, <1>3, <1>4 DEF InPlace, HeapInv, Shape
<1>6. Steady /\ Old' = Old /\ Young' = Young /\ \A x : Value(x) => NewValue(x)
  BY <1>5, InPlaceIsSteady
<1>7. NewValue(v)
  BY <1>3, <1>4, <1>6, DarkenedIsValue
<1>8. \A q \in Roots : root'[q] = v \/ root'[q] = root[q]
  BY <1>1 DEF HeapInv, Shape
<1>9. Writes
  <2>1. \A q \in Roots : NewValue(root'[q])
    BY <1>6, <1>7, <1>8, ValuesAre DEF HeapInv
  <2>. QED
    BY <1>1, <1>6, <2>1 DEF Writes, Fresh
<1>. QED
  BY <1>5, <1>9, InPlaceKeeps

LEMMA WeakSetKeeps ==
  ASSUME GcHeapAssumption, HeapInv, NEW r \in Roots, NEW s \in Roots, WeakSet(r, s) PROVE HeapInv'
<1>. DEFINE w == root[r]
            v == root[s]
<1>1. /\ w \in weak /\ field' = [field EXCEPT ![w] = v]
      /\ weakRefs' = (IF MustRecord(field[w], v) THEN weakRefs \cup {w} ELSE weakRefs)
      /\ UNCHANGED <<where, weak, root, refTable, marks, cycle, others>>
  BY DEF WeakSet, Set
<1>2. Value(w) /\ Value(v)
  BY ValuesAre DEF HeapInv
<1>3. Shape /\ w \in Old /\ Old \subseteq Addr /\ N \in Nat /\ Junk = N + 1
  BY <1>1, Blocks DEF HeapInv, Shape
<1>4. MarkStep
  BY <1>1, MarksStay
<1>5. /\ field' \in [Addr -> 0..Junk] /\ field'[w] = v /\ \A b \in Addr : b # w => field'[b] = field[b]
  BY <1>1, <1>2, <1>3 DEF Shape, Value
<1>. HIDE DEF w, v
<1>6. InPlace
  <2>1. weakRefs' \subseteq weak /\ weakRefs \subseteq weakRefs'
    BY <1>1, <1>3 DEF Shape
  <2>2. ASSUME v \in Young PROVE w \in refTable' \cup weakRefs'
    <3>1. field[w] \in Young => w \in refTable \cup weakRefs
      BY <1>2, <1>3 DEF HeapInv, Registered, Value
    <3>. QED
      BY <1>1, <2>2, <3>1 DEF MustRecord
  <2>3. Young = {} => weakRefs' = weakRefs
    BY <1>1 DEF MustRecord
  <2>4. root' \in [Roots -> 0..N] /\ refTable' = refTable /\ refTable \subseteq Old \ weak
    BY <1>1, <1>3 DEF Shape
  <2>5. \A b \in Sound \cap Old : field'[b] = field[b] \/ field'[b] \notin Young \/ b \in refTable' \cup weakRefs'
    BY <1>3, <1>5, <2>2
  <2>6. \A b \in Old \ weak : field'[b] = field[b]
    BY <1>1, <1>3, <1>5
  <2>. QED
    BY <1>1, <1>4, <1>5, <2>1, <2>3, <2>4, <2>5, <2>6 DEF InPlace
<1>7. Old' = Old /\ Young' = Young /\ \A x : Value(x) => NewValue(x)
  BY <1>6, InPlaceIsSteady
<1>8. Writes
  <2>1. \A q \in Roots : NewValue(root'[q])
    BY <1>1, <1>7, ValuesAre DEF HeapInv
  <2>2. \A b \in Young' \cup Old' : NewValue(field'[b]) \/ (b \notin Fresh /\ field'[b] = field[b])
    BY <1>2, <1>5, <1>7 DEF Fresh, Young, Old
  <2>. QED
    BY <2>1, <2>2 DEF Writes
<1>. QED
  BY <1>6, <1>8, InPlaceKeeps

LEMMA WeakBlitKeeps ==
  ASSUME GcHeapAssumption, HeapInv, NEW r \in Roots, NEW s \in Roots, WeakBlit(r, s) PROVE HeapInv'
<1>. DEFINE a == root[r]
            b == root[s]
            v == IF BlitErases(field[b]) THEN None ELSE field[b]
<1>1. /\ a \in weak /\ b \in weak /\ field' = [field EXCEPT ![b] = v, ![a] = v]
      /\ weakRefs' = (IF a # b /\ MustRecord(field[a], v) THEN weakRefs \cup {a} ELSE weakRefs)
      /\ UNCHANGED <<where, weak, root, refTable, marks, cycle, others>>
  BY DEF WeakBlit
<1>2. Value(a) /\ Value(b) /\ Value(None)
  BY ValuesAre DEF HeapInv
<1>3. Shape /\ a \in Old /\ b \in Old /\ Old \subseteq Addr /\ N \in Nat /\ Junk = N + 1 /\ Young \cap Old = {} /\ None \notin Young
  BY <1>1, Blocks DEF HeapInv, Shape, None
<1>4. field[b] \in Sound /\ field[b] \in 0..N /\ (Cleaned /\ Weak => field[b] \in Fine)
  BY <1>1, <1>2, WeakValue
<1>5. v \in Sound /\ v \in 0..N /\ (Cleaned /\ Weak => v \in Fine) /\ (v # None => v = field[b])
  BY <1>2, <1>4 DEF Value, Cleaned
<1>6. Cleaning => v \in Fine
  <2>. SUFFICES ASSUME Cleaning PROVE v \in Fine
    OBVIOUS
  <2>1. v = None \/ ~IsWhiteIn(marks, v)
    BY DEF BlitErases, Cleaning
  <2>2. v \in Young \/ v = None \/ v \in Marked
    BY <1>5, <2>1 DEF IsWhiteIn, Sound, Marked, White, ColorOf
  <2>. QED
    BY <2>2, FoundIsClosed DEF FoundIs, Fine
<1>7. MarkStep
  BY <1>1, MarksStay
<1>. HIDE DEF a, b, v
<1>8. /\ field' \in [Addr -> 0..Junk] /\ field'[a] = v /\ field'[b] = v
      /\ \A d \in Addr : d # a /\ d # b => field'[d] = field[d]
  <2>1. field \in [Addr -> 0..Junk] /\ v \in 0..Junk /\ a \in Addr /\ b \in Addr
    BY <1>3, <1>5 DEF Shape
  <2>. QED
    BY <1>1, <2>1
<1>9. InPlace
  <2>1. weakRefs' \subseteq weak /\ weakRefs \subseteq weakRefs'
    BY <1>1, <1>3 DEF Shape
  <2>2. ASSUME v \in Young, field'[a] # field[a] PROVE a \in refTable' \cup weakRefs'
    <3>1. field[a] \in Young => a \in refTable \cup weakRefs
      BY <1>2, <1>3 DEF HeapInv, Registered, Value
    <3>2. a # b
      BY <1>3, <1>5, <1>8, <2>2
    <3>. QED
      BY <1>1, <2>2, <3>1, <3>2 DEF MustRecord
  <2>3. ASSUME v \in Young, b # a PROVE field'[b] = field[b]
    BY <1>3, <1>5, <1>8, <2>3
  <2>4. Young = {} => weakRefs' = weakRefs
    BY <1>1 DEF MustRecord
  <2>5. root' \in [Roots -> 0..N] /\ refTable' = refTable /\ refTable \subseteq Old \ weak
    BY <1>1, <1>3 DEF Shape
  <2>6. \A d \in Sound \cap Old : field'[d] = field[d] \/ field'[d] \notin Young \/ d \in refTable' \cup weakRefs'
    BY <1>3, <1>8, <2>2, <2>3
  <2>7. \A d \in Old \ weak : field'[d] = field[d]
    BY <1>1, <1>3, <1>8
  <2>. QED
    BY <1>1, <1>7, <1>8, <2>1, <2>4, <2>5, <2>6, <2>7 DEF InPlace
<1>10. Steady /\ Old' = Old /\ Young' = Young /\ (\A x : Value(x) => NewValue(x)) /\ UNCHANGED weak
  BY <1>1, <1>9, InPlaceIsSteady
<1>11. NewWeakValue(v)
  <2>1. Sound \subseteq Sound' /\ (phase = "mark" => Fine \subseteq Fine')
    BY <1>10, SteadyGrows
  <2>2. phase = "mark" /\ sub # "main" => Cleaning \/ (Cleaned /\ Weak)
    BY <1>1, <1>3 DEF Cleaning, Cleaned, Shape, HeapInv, Unused
  <2>. QED
    BY <1>5, <1>6, <2>1, <2>2 DEF NewWeakValue
<1>12. Writes
  <2>1. \A q \in Roots : NewValue(root'[q])
    BY <1>1, <1>10, ValuesAre DEF HeapInv
  <2>2. \A d \in Young' \cup Old' : (d \in weak' /\ NewWeakValue(field'[d])) \/ (d \notin Fresh /\ field'[d] = field[d])
    BY <1>1, <1>8, <1>10, <1>11 DEF Fresh, Young, Old
  <2>. QED
    BY <2>1, <2>2 DEF Writes
<1>. QED
  BY <1>9, <1>12, InPlaceKeeps

LEMMA FinalRegisterKeeps ==
  ASSUME GcHeapAssumption, HeapInv, NEW r \in Roots, FinalRegister(r) PROVE HeapInv'
<1>. USE DEF HeapInv
<1>1. /\ UNCHANGED <<where, weak, field, root, refTable, weakRefs, marks, phase, sub, markhp, sweepHp, weakPrev, weakList, todo>>
      /\ Finalise /\ root[r] \in Addr /\ final' = final \cup {root[r]}
  BY DEF FinalRegister, heap, tables, cycle
<1>2. Value(root[r])
  BY ValuesAre
<1>3. UNCHANGED <<Young, Old>>
  BY <1>1 DEF Young, Old
<1>4. UNCHANGED <<White, Marked, NoneGray, Doomed, Sound>>
  BY <1>1, <1>3 DEF White, Marked, NoneGray, Doomed, Sound, ColorOf
<1>5. UNCHANGED <<Found, Fine, Passed>>
  BY <1>1, <1>3, <1>4 DEF Found, Fine, Scanned, Passed, NextIndex, ColorOf
<1>6. Shape' /\ Unused' /\ Registered' /\ Headers'
  BY <1>1, <1>3, <1>4 DEF Shape, Unused, Registered, Headers
<1>7. ValuesAreSound'
  BY <1>1, <1>2, <1>3, <1>4 DEF ValuesAreSound, Value
<1>8. GraysAreFound'
  BY <1>1, <1>3 DEF GraysAreFound, GrayIsFound
<1>9. ReachableIsFound'
  BY <1>1, <1>2, <1>3, <1>5 DEF ReachableIsFound, ColorOf, Value
<1>10. ArraysAreListed' /\ ArraysAreClean'
  BY <1>1, <1>3, <1>4, <1>5 DEF ArraysAreListed, ArraysAreClean, Cleaning, Dropping, Cleaned
<1>. QED
  BY <1>6, <1>7, <1>8, <1>9, <1>10

(* --------------------------- Minor collection --------------------------- *)
LEMMA SurvivorsAre ==
  ASSUME GcHeapAssumption
  PROVE  /\ Survivors \subseteq Young /\ MinorRoots \cap Young \subseteq Survivors
         /\ \A a \in Survivors : field[a] \in Young => field[a] \in Survivors
<1>. DEFINE next == [a \in Addr |-> {field[a]} \cap Young]
<1>1. N \in Nat /\ Young \in SUBSET (1..Junk) /\ Young \subseteq Addr
  BY DEF GcHeapAssumption, Junk, Addr, Young
<1>2. \A a \in Young : next[a] \subseteq Young
  BY <1>1
<1>3. \A a \in Young : field[a] \in Young => field[a] \in next[a]
  BY <1>1
<1>. HIDE DEF next
<1>4. Survivors = Spread(MinorRoots \cap Young, next)
  BY DEF Survivors, next
<1>5. Survivors \subseteq Young /\ MinorRoots \cap Young \subseteq Survivors
  BY <1>1, <1>2, <1>4, SpreadBegins, SpreadIsLeast
<1>6. \A a \in Survivors : next[a] \subseteq Survivors
  BY <1>1, <1>2, <1>4, SpreadCloses
<1>. QED
  BY <1>3, <1>5, <1>6

LEMMA EmptyMinorHeapKeeps == ASSUME GcHeapAssumption, HeapInv, EmptyMinorHeap PROVE HeapInv'
<1>. DEFINE kept == Survivors
<1>1. /\ where' = [a \in Addr |-> IF a \in kept THEN "old" ELSE IF a \in Young THEN "free" ELSE where[a]]
      /\ field' = [a \in Addr |-> IF a \in Old THEN Updated(a, kept) ELSE IF a \in kept THEN field[a] ELSE None]
      /\ marks' = [marks EXCEPT !.color = [a \in Addr |-> IF a \in kept THEN AllocationColor(a) ELSE marks.color[a]]]
      /\ refTable' = {} /\ weakRefs' = {}
      /\ UNCHANGED <<weak, root, phase, sub, markhp, sweepHp, weakPrev, weakList, final, todo>>
  BY DEF EmptyMinorHeap, cycle, others
<1>2. /\ kept \subseteq Young /\ \A a \in kept : field[a] \in Young => field[a] \in kept
      /\ \A r \in Roots : root[r] \in Young => root[r] \in kept
      /\ \A a \in final : a \in Young => a \in kept
  BY SurvivorsAre DEF MinorRoots
<1>. HIDE DEF kept
<1>3. Shape /\ N \in Nat /\ 0 \notin Addr /\ Old \subseteq Addr /\ Young \subseteq Addr /\ Young \cap Old = {} /\ Junk = N + 1
  BY Blocks DEF HeapInv
<1>4. where' \in [Addr -> {"free", "young", "old"}] /\ Young' = {} /\ Old' = Old \cup kept
  <2>1. \A a \in Addr : where'[a] = IF a \in kept THEN "old" ELSE IF a \in Young THEN "free" ELSE where[a]
    BY <1>1
  <2>2. where' \in [Addr -> {"free", "young", "old"}]
    BY <1>1, <1>3 DEF Shape
  <2>3. \A a \in Addr : where'[a] # "young" /\ (where'[a] = "old" <=> a \in Old \cup kept)
    BY <1>2, <1>3, <2>1 DEF Young, Old
  <2>. QED
    BY <1>2, <1>3, <2>2, <2>3 DEF Young, Old
<1>5. /\ marks' \in Headings /\ marks'.stack = marks.stack /\ marks'.pure = marks.pure
      /\ \A a \in Addr : ColorOf(a)' = IF a \in kept THEN AllocationColor(a) ELSE ColorOf(a)
  <2>. DEFINE c == [a \in Addr |-> IF a \in kept THEN AllocationColor(a) ELSE marks.color[a]]
  <2>1. marks \in Headings
    BY <1>3 DEF Shape, Headings
  <2>2. c \in [Addr -> {"white", "gray", "black"}]
    BY <2>1 DEF Headings, AllocationColor
  <2>3. \A a \in Addr : c[a] = IF a \in kept THEN AllocationColor(a) ELSE ColorOf(a)
    BY DEF ColorOf
  <2>. HIDE DEF c
  <2>4. marks' = [marks EXCEPT !.color = c]
    BY <1>1 DEF c
  <2>. QED
    BY <2>1, <2>2, <2>3, <2>4 DEF Headings, ColorOf
<1>6. field' \in [Addr -> 0..Junk] /\ \A a \in Addr \ (Old \cup kept) : field'[a] = None
  <2>1. \A a \in Addr : Updated(a, kept) \in 0..Junk
    BY <1>3 DEF Shape, Updated, None
  <2>2. \A a \in Addr : field[a] \in 0..Junk
    BY <1>3 DEF Shape
  <2>. QED
    BY <1>1, <1>3, <2>1, <2>2 DEF None
<1>7. \A a \in Sound \cap (Old \cup kept) :
         (field'[a] = field[a] /\ (field[a] \in Young => field[a] \in kept)) \/ field'[a] = None
  <2>. TAKE a \in Sound \cap (Old \cup kept)
  <2>1. CASE a \in Old
    <3>1. field'[a] = Updated(a, kept)
      BY <1>1, <1>3, <2>1
    <3>2. field[a] \in Young => a \in refTable \cup weakRefs
      BY <2>1 DEF HeapInv, Registered
    <3>. QED
      BY <3>1, <3>2 DEF Updated
  <2>2. CASE a \in kept
    BY <1>1, <1>2, <1>3, <2>2
  <2>. QED
    BY <2>1, <2>2
<1>8. Doomed' = Doomed
  <2>1. \A a \in Old : a \notin kept /\ a \in Addr
    BY <1>2, <1>3
  <2>2. \A a \in kept : ~(phase = "sweep" /\ a >= sweepHp /\ ColorOf(a)' = "white")
    BY <1>2, <1>3, <1>5 DEF AllocationColor
  <2>. QED
    BY <1>1, <1>4, <1>5, <2>1, <2>2 DEF Doomed, White
<1>9. Sound' = {None} \cup ((Old \cup kept) \ Doomed) /\ kept \cap Doomed = {} /\ kept \subseteq Sound
  BY <1>2, <1>3, <1>4, <1>8, Blocks DEF Sound
<1>10. \A v \in Sound : (v \in Young => v \in kept) => v \in Sound'
  BY <1>9 DEF Sound
<1>11. None \notin Young
  BY <1>3 DEF None
<1>12. ValuesAreSound'
  <2>1. \A r \in Roots : root'[r] \in Sound'
    BY <1>1, <1>2, <1>10 DEF HeapInv, ValuesAreSound
  <2>2. Range(todo') \subseteq Sound' \cap Old' /\ final' \subseteq Sound'
    BY <1>1, <1>2, <1>3, <1>4, <1>10 DEF HeapInv, ValuesAreSound
  <2>3. ASSUME NEW a \in Sound' \cap Addr PROVE field'[a] \in Sound'
    <3>1. a \in Sound \cap (Old \cup kept)
      BY <1>3, <1>9, <2>3 DEF Sound, None
    <3>2. field[a] \in Sound
      BY <2>3, <3>1 DEF HeapInv, ValuesAreSound
    <3>. QED
      BY <1>7, <1>9, <1>10, <3>1, <3>2
  <2>. QED
    BY <2>1, <2>2, <2>3 DEF ValuesAreSound
<1>13. Shape'
  BY <1>1, <1>3, <1>4, <1>5, <1>6 DEF Shape, Headings
<1>14. Unused' /\ Registered'
  BY <1>1, <1>4 DEF HeapInv, Unused, Registered
<1>15. \A a \in Old : ColorOf(a)' = ColorOf(a)
  BY <1>2, <1>3, <1>5
<1>16. \A a \in kept : ColorOf(a)' = AllocationColor(a)
  BY <1>2, <1>3, <1>5
<1>17. Headers'
  <2>1. phase = "idle" => Marked' = {}
    BY <1>4, <1>15, <1>16 DEF HeapInv, Headers, Marked, White, AllocationColor
  <2>2. phase = "sweep" => NoneGray' /\ \A a \in Marked' : a >= sweepHp
    BY <1>4, <1>15, <1>16 DEF HeapInv, Headers, Marked, White, AllocationColor, NoneGray
  <2>. QED
    BY <1>1, <1>5, <2>1, <2>2 DEF HeapInv, Headers
<1>18. GraysAreFound'
  <2>1. \A a \in Old' \ Old : ColorOf(a)' # "gray"
    BY <1>4, <1>16 DEF AllocationColor
  <2>. QED
    BY <1>1, <1>4, <1>5, <1>15, <2>1, FreshIsTidy DEF HeapInv
<1>19. Found \subseteq Found' /\ FoundIs /\ FoundIs'
  <2>1. MarksGrow
    BY <1>15 DEF MarksGrow
  <2>2. ASSUME NEW a \in Old \ weak
        PROVE  \/ field'[a] = field[a] /\ (ColorOf(a)' = "black" => ColorOf(a) = "black")
               \/ field[a] \notin Old
               \/ field[a] \in Marked'
    <3>1. field'[a] = Updated(a, kept)
      BY <1>1, <1>3
    <3>. QED
      BY <1>3, <1>15, <3>1 DEF Updated
  <2>3. Found \subseteq Found'
    BY <1>1, <1>4, <2>1, <2>2, FoundGrows
  <2>. QED
    BY <2>3, FoundIsClosed, FoundIsClosedThen
<1>20. phase = "mark" => kept \subseteq Found' /\ \A v \in Fine : (v \in Young => v \in kept) => v \in Fine'
  <2>. SUFFICES ASSUME phase = "mark" PROVE kept \subseteq Found' /\ \A v \in Fine : (v \in Young => v \in kept) => v \in Fine'
    OBVIOUS
  <2>1. kept \subseteq Marked'
    BY <1>4, <1>16 DEF AllocationColor, Marked, White
  <2>. QED
    BY <1>19, <2>1 DEF FoundIs, Fine
<1>21. phase = "mark" => \A a \in Old \cup kept : a \in Sound
  BY <1>9, <1>3 DEF Sound, Doomed
<1>22. phase = "mark" => \A a \in Old \cup kept : field[a] \in Fine => field'[a] \in Fine'
  BY <1>7, <1>20, <1>21 DEF Fine
<1>23. ReachableIsFound'
  <2>. SUFFICES ASSUME phase = "mark" PROVE ReachableIsFound'
    BY <1>1 DEF ReachableIsFound
  <2>1. \A r \in Roots : root'[r] \in Fine'
    BY <1>1, <1>2, <1>20 DEF HeapInv, ReachableIsFound
  <2>2. Range(todo') \subseteq Fine' /\ (sub' = "final" => final' \subseteq Fine')
    BY <1>1, <1>2, <1>3, <1>20 DEF HeapInv, ReachableIsFound, ValuesAreSound
  <2>3. ASSUME NEW a \in Old' \ weak', ColorOf(a)' = "black" PROVE field'[a] \in Fine'
    <3>1. field[a] \in Fine
      BY <1>1, <1>2, <1>4, <1>15, <2>3 DEF HeapInv, ReachableIsFound
    <3>. QED
      BY <1>4, <1>22, <2>3, <3>1
  <2>. QED
    BY <1>4, <2>1, <2>2, <2>3 DEF ReachableIsFound
<1>24. ArraysAreListed'
  <2>1. \A w \in weak : w \in Old /\ (w \in White' <=> w \in White)
    BY <1>3, <1>4, <1>15 DEF Shape, White
  <2>2. UNCHANGED <<Cleaning, Dropping, Cleaned>>
    BY <1>1 DEF Cleaning, Dropping, Cleaned
  <2>. QED
    BY <1>1, <1>8, <2>1, <2>2 DEF HeapInv, ArraysAreListed
<1>25. ArraysAreClean'
  <2>1. UNCHANGED <<Cleaning, Dropping, Cleaned, Passed>>
    BY <1>1 DEF Cleaning, Dropping, Cleaned, Passed, NextIndex
  <2>2. Cleaning => Passed \subseteq weak
    BY <1>3, NextIs DEF HeapInv, ArraysAreListed
  <2>3. weak \subseteq Old /\ Marked \subseteq Marked'
    BY <1>3, <1>4, <1>15 DEF Shape, Marked, White
  <2>4. Cleaning' => \A w \in Passed' : field'[w] \in Fine'
    BY <1>22, <2>1, <2>2, <2>3 DEF HeapInv, ArraysAreClean, Cleaning
  <2>5. ASSUME Cleaned', Weak PROVE NoneGray' /\ \A w \in weak' \cap Marked' : field'[w] \in Fine'
    <3>1. Cleaned /\ phase = "mark"
      BY <2>1, <2>5 DEF Cleaned
    <3>2. NoneGray'
      BY <1>4, <1>15, <1>16, <2>5, <3>1 DEF NoneGray, HeapInv, ArraysAreClean, AllocationColor
    <3>3. ASSUME NEW w \in weak' \cap Marked' PROVE field'[w] \in Fine'
      <4>1. w \in weak \cap Marked /\ w \in Old
        BY <1>1, <1>15, <2>3, <3>3 DEF Marked, White
      <4>. QED
        BY <1>22, <2>5, <3>1, <4>1 DEF HeapInv, ArraysAreClean
    <3>. QED
      BY <3>2, <3>3
  <2>6. (Dropping' => Passed' \subseteq Marked') /\ (Cleaned' /\ ~Dropping' => Range(weakList') \subseteq Marked')
    BY <1>1, <2>1, <2>3 DEF HeapInv, ArraysAreClean
  <2>. QED
    BY <2>4, <2>5, <2>6 DEF ArraysAreClean
<1>. QED
  BY <1>12, <1>13, <1>14, <1>17, <1>18, <1>23, <1>24, <1>25 DEF HeapInv

(* ------------------------ Slices: the marking --------------------------- *)
LEMMA NothingGrayIs == ASSUME HeapInv, NothingGray PROVE NoneGray /\ Young = {} /\ phase = "mark" /\ marks.stack = <<>>
<1>1. Tidy(marks, Old, markhp) /\ phase = "mark" /\ marks.stack = <<>> /\ marks.pure /\ markhp = 0 /\ Young = {}
  BY GraysAreTidy DEF HeapInv, NothingGray, Slice
<1>2. Range(marks.stack) = {}
  BY <1>1 DEF Range
<1>. QED
  BY <1>1, <1>2 DEF Tidy, NoneGray, ColorOf

LEMMA SeqWidens == ASSUME NEW S, NEW T, S \subseteq T, NEW s \in Seq(S) PROVE s \in Seq(T)
OBVIOUS

LEMMA RootValuesAre ==
  ASSUME GcHeapAssumption, HeapInv
  PROVE  /\ RootValues \in Seq(0..N)
         /\ Range(RootValues) = {root[r] : r \in Roots} \cup {todo[i] : i \in DOMAIN todo}
<1>. DEFINE S == {root[r] : r \in Roots} \cup {todo[i] : i \in DOMAIN todo}
<1>1. S \subseteq 0..N /\ N \in Nat
  BY Blocks DEF HeapInv, Shape, Addr
<1>2. IsFiniteSet(0..N)
  BY <1>1, FS_Interval
<1>3. IsFiniteSet(S)
  BY <1>1, <1>2, FS_Subset
<1>4. RootValues \in Seq(S) /\ Range(RootValues) = S
  BY <1>3, ListOfSet DEF RootValues
<1>. HIDE DEF S
<1>5. RootValues \in Seq(0..N)
  <2>. HIDE DEF RootValues
  <2>. QED
    BY <1>1, <1>4, SeqWidens
<1>. QED
  BY <1>4, <1>5 DEF S

LEMMA StartCycleKeeps == ASSUME GcHeapAssumption, HeapInv, StartCycle PROVE HeapInv'
<1>1. /\ Young = {} /\ phase = "idle" /\ marks' = DarkenAll(marks, RootValues)
      /\ phase' = "mark" /\ sub' = "main" /\ markhp' = 0
      /\ UNCHANGED <<where, weak, field, root, refTable, weakRefs, sweepHp, weakPrev, weakList, final, todo>>
  BY DEF StartCycle, Slice, heap, tables, others
<1>2. Shape /\ Old \subseteq Addr /\ marks \in Headings /\ marks.stack = <<>> /\ N \in Nat /\ 0 \in 0..N
  BY <1>1, Blocks DEF HeapInv, Shape, Headings, Headers
<1>3. \A a \in Old : marks.color[a] = "white"
  BY <1>1 DEF HeapInv, Headers, Marked, White, ColorOf
<1>4. Tidy(marks, Old, 0)
  BY <1>2, <1>3 DEF Tidy
<1>5. /\ marks' \in Headings /\ Tidy(marks', Old, 0) /\ Darker(marks, marks')
      /\ \A i \in DOMAIN RootValues : RootValues[i] \in Old => marks'.color[RootValues[i]] # "white"
  BY <1>1, <1>2, <1>4, RootValuesAre, DarkenAllIsTidy
<1>6. \A v \in Range(RootValues) : v \in Old => marks'.color[v] # "white"
  BY <1>5 DEF Range
<1>7. Old' = Old /\ Young' = {} /\ Doomed = {} /\ Doomed' = {}
  BY <1>1 DEF Old, Young, Doomed
<1>8. Sound = {None} \cup Old /\ Sound' = Sound
  BY <1>1, <1>7 DEF Sound
<1>9. Shape'
  BY <1>1, <1>2, <1>5, <1>7 DEF Shape, Headings
<1>10. Unused' /\ Registered' /\ Headers' /\ ValuesAreSound'
  BY <1>1, <1>7, <1>8 DEF HeapInv, Unused, Registered, Headers, ValuesAreSound
<1>11. GraysAreFound'
  <2>1. GraysAreFound' <=> (phase' = "mark" => Tidy(marks', Old', markhp'))
    BY GraysAreTidyThen
  <2>. QED
    BY <1>1, <1>5, <1>7, <2>1
<1>12. ReachableIsFound'
  <2>1. Marked' \subseteq Found'
    BY FoundIsClosedThen DEF FoundIs
  <2>2. \A v \in Range(RootValues) : v \in Sound => v \in Fine'
    BY <1>6, <1>7, <1>8, <2>1 DEF Fine, Marked, White, ColorOf
  <2>3. (\A r \in Roots : root'[r] \in Fine') /\ Range(todo') \subseteq Fine'
    BY <1>1, <2>2, RootValuesAre DEF HeapInv, ValuesAreSound, Range
  <2>4. \A a \in Old' \ weak' : ColorOf(a)' # "black"
    BY <1>1, <1>2, <1>3, <1>5, <1>7 DEF Darker, ColorOf
  <2>. QED
    BY <1>1, <1>7, <2>3, <2>4 DEF ReachableIsFound
<1>13. ArraysAreListed' /\ ArraysAreClean'
  BY <1>1, <1>7 DEF HeapInv, ArraysAreListed, ArraysAreClean, Cleaning, Dropping, Cleaned
<1>. QED
  BY <1>9, <1>10, <1>11, <1>12, <1>13 DEF HeapInv

\* A slice that only marks.
MarkingStep ==
  /\ phase = "mark" /\ Young = {}
  /\ UNCHANGED <<where, weak, field, root, refTable, weakRefs, phase, sub, sweepHp, weakPrev, weakList, final, todo>>
  /\ marks' \in Headings /\ markhp' \in 0..N /\ Tidy(marks', Old, markhp') /\ MarksGrow
  /\ Cleaned /\ Weak => \A a \in Old : ColorOf(a)' = ColorOf(a)
  /\ \A a \in Old \ weak : ColorOf(a)' = "black" /\ field[a] \in Old => ColorOf(a) = "black" \/ field[a] \in Marked'
LEMMA MarkingStepKeeps == ASSUME GcHeapAssumption, HeapInv, MarkingStep PROVE HeapInv'
<1>. USE DEF MarkingStep
<1>1. Old' = Old /\ Young' = {} /\ Doomed = {} /\ Doomed' = {}
  BY DEF Old, Young, Doomed
<1>2. Sound' = Sound /\ Sound = {None} \cup Old /\ Shape /\ Old \subseteq Addr
  BY <1>1, Blocks DEF Sound, HeapInv
<1>3. Marked \subseteq Marked'
  BY <1>1 DEF Marked, White, MarksGrow
<1>4. Fine \subseteq Fine' /\ Marked' \subseteq Found'
  <2>1. \A a \in Old \ weak : \/ field'[a] = field[a] /\ (ColorOf(a)' = "black" => ColorOf(a) = "black")
                              \/ field[a] \notin Old
                              \/ field[a] \in Marked'
    OBVIOUS
  <2>2. Found \subseteq Found'
    BY <1>1, <2>1, FoundGrows
  <2>3. FoundIs'
    BY FoundIsClosedThen
  <2>. QED
    BY <1>1, <2>2, <2>3 DEF Fine, FoundIs
<1>5. Shape'
  BY <1>1, <1>2 DEF Shape, Headings
<1>6. Unused' /\ Registered' /\ Headers' /\ ValuesAreSound'
  BY <1>1, <1>2 DEF HeapInv, Unused, Registered, Headers, ValuesAreSound
<1>7. GraysAreFound'
  <2>1. GraysAreFound' <=> (phase' = "mark" => Tidy(marks', Old', markhp'))
    BY GraysAreTidyThen
  <2>. QED
    BY <1>1, <2>1
<1>8. ReachableIsFound'
  <2>1. ASSUME NEW a \in Old' \ weak', ColorOf(a)' = "black" PROVE field'[a] \in Fine'
    <3>1. field[a] \in Sound
      BY <1>1, <1>2, <2>1 DEF HeapInv, ValuesAreSound
    <3>2. CASE field[a] \notin Old
      BY <1>2, <3>1, <3>2 DEF Fine
    <3>3. CASE field[a] \in Old /\ ColorOf(a) = "black"
      BY <1>1, <1>4, <2>1, <3>3 DEF HeapInv, ReachableIsFound
    <3>4. CASE field[a] \in Marked'
      BY <1>4, <3>4 DEF Fine
    <3>. QED
      BY <1>1, <2>1, <3>2, <3>3, <3>4
  <2>. QED
    BY <1>1, <1>4, <2>1 DEF HeapInv, ReachableIsFound
<1>9. UNCHANGED <<Cleaning, Dropping, Cleaned, Passed>>
  BY DEF Cleaning, Dropping, Cleaned, Passed, NextIndex
<1>10. ArraysAreListed'
  <2>1. ASSUME NEW w \in weak', Cleaned, w \in White PROVE w \in White'
    <3>1. Weak /\ w \in Old
      BY <2>1 DEF HeapInv, Unused, White
    <3>. QED
      BY <1>1, <2>1, <3>1 DEF White
  <2>. QED
    BY <1>1, <1>9, <2>1 DEF HeapInv, ArraysAreListed
<1>11. ArraysAreClean'
  <2>1. ASSUME Cleaned, Weak PROVE NoneGray' /\ Marked' = Marked
    BY <1>1, <2>1 DEF HeapInv, ArraysAreClean, NoneGray, Marked, White
  <2>. QED
    BY <1>3, <1>4, <1>9, <2>1 DEF HeapInv, ArraysAreClean
<1>. QED
  BY <1>5, <1>6, <1>7, <1>8, <1>10, <1>11 DEF HeapInv

LEMMA MarkOneKeeps == ASSUME GcHeapAssumption, HeapInv, MarkOne PROVE HeapInv'
<1>. DEFINE a == Last(marks.stack)
            m == [marks EXCEPT !.color[a] = "black", !.stack = Front(marks.stack)]
            b == field[a]
<1>1. /\ Young = {} /\ phase = "mark" /\ marks.stack # <<>>
      /\ marks' = IF a \notin weak /\ IsWhiteIn(m, b) THEN Push(m, b) ELSE m
      /\ UNCHANGED <<where, weak, field, root, refTable, weakRefs, phase, sub, markhp, sweepHp, weakPrev, weakList, final, todo>>
  BY DEF MarkOne, Slice, heap, tables, cycle, others
<1>2. /\ Shape /\ Old \subseteq Addr /\ marks \in Headings /\ marks.stack \in Seq(Addr)
      /\ marks.color \in [Addr -> {"white", "gray", "black"}] /\ Tidy(marks, Old, markhp) /\ markhp \in 0..N
  BY <1>1, Blocks, GraysAreTidy DEF HeapInv, Shape, Headings
<1>. DEFINE s == Front(marks.stack)
            l == Len(marks.stack)
<1>3. /\ a = marks.stack[l] /\ l \in DOMAIN marks.stack /\ s \in Seq(Addr)
      /\ \A i \in DOMAIN s : i \in DOMAIN marks.stack /\ i # l /\ s[i] = marks.stack[i]
      /\ \A i \in DOMAIN marks.stack : i = l \/ (i \in DOMAIN s /\ s[i] = marks.stack[i])
  BY <1>1, <1>2, LastAndFront
<1>4. a \in Old /\ marks.color[a] = "gray"
  BY <1>2, <1>3 DEF Tidy
<1>5. /\ m \in Headings /\ m.stack = s /\ m.pure = marks.pure /\ m.color[a] = "black"
      /\ \A d \in Addr : d # a => m.color[d] = marks.color[d]
  <2>1. s \in Seq(Addr) /\ a \in Addr
    BY <1>2, <1>3, <1>4
  <2>. HIDE DEF a, s
  <2>. QED
    BY <1>2, <2>1 DEF Headings, a, s
<1>. HIDE DEF a, m, b, s, l
<1>6. \A i \in DOMAIN s : s[i] # a
  BY <1>2, <1>3 DEF Tidy
<1>7. Tidy(m, Old, markhp)
  <2>1. \A i, j \in DOMAIN s : s[i] = s[j] => i = j
    BY <1>2, <1>3 DEF Tidy
  <2>2. \A i \in DOMAIN s : s[i] \in Old /\ m.color[s[i]] = "gray"
    BY <1>2, <1>3, <1>5, <1>6 DEF Tidy
  <2>3. ASSUME NEW d \in Old, m.color[d] = "gray" PROVE d \in Range(s) \/ ~m.pure \/ (markhp # 0 /\ d >= markhp)
    <3>1. d # a /\ marks.color[d] = "gray"
      BY <1>2, <1>5, <2>3
    <3>2. d \in Range(marks.stack) => d \in Range(s)
      BY <1>3, <3>1 DEF Range
    <3>. QED
      BY <1>2, <1>5, <3>1, <3>2 DEF Tidy
  <2>. QED
    BY <1>5, <2>1, <2>2, <2>3 DEF Tidy
<1>8. ~(Cleaned /\ Weak)
  BY <1>4 DEF HeapInv, ArraysAreClean, NoneGray, ColorOf
<1>9. CASE a \notin weak /\ IsWhiteIn(m, b)
  <2>1. b \in Old /\ m.color[b] = "white" /\ marks' = Push(m, b) /\ b \in Addr
    BY <1>1, <1>2, <1>9 DEF IsWhiteIn
  <2>2. /\ marks' \in Headings /\ Tidy(marks', Old, markhp) /\ marks'.color = [m.color EXCEPT ![b] = "gray"]
    BY <1>2, <1>5, <1>7, <2>1, PushIsTidy
  <2>3. marks'.color[b] = "gray" /\ \A d \in Addr : d # b => marks'.color[d] = m.color[d]
    BY <1>5, <2>1, <2>2 DEF Headings
  <2>5. b # a
    BY <1>5, <2>1
  <2>6. \A d \in Old : d # b /\ d # a => ColorOf(d)' = ColorOf(d)
    BY <1>2, <1>5, <2>3 DEF ColorOf
  <2>7. marks'.color[b] = "gray" /\ ColorOf(b) = "white" /\ marks'.color[a] = "black"
    BY <1>2, <1>4, <1>5, <2>1, <2>3, <2>5 DEF ColorOf
  <2>8. field[a] \in Marked'
    BY <1>1, <2>1, <2>7 DEF b, Marked, White, Old, ColorOf
  <2>. QED
    <3>1. MarksGrow
      BY <2>6, <2>7 DEF MarksGrow, ColorOf
    <3>2. \A d \in Old \ weak : ColorOf(d)' = "black" => ColorOf(d) = "black" \/ field[d] \in Marked'
      BY <2>3, <2>6, <2>7, <2>8 DEF ColorOf
    <3>. QED
      BY <1>1, <1>2, <1>8, <2>2, <3>1, <3>2, MarkingStepKeeps DEF MarkingStep
<1>10. CASE ~(a \notin weak /\ IsWhiteIn(m, b))
  <2>1. marks' = m
    BY <1>1, <1>10
  <2>2. \A d \in Old : d # a => ColorOf(d)' = ColorOf(d)
    BY <1>2, <1>5, <2>1 DEF ColorOf
  <2>3. marks'.color[a] = "black"
    BY <1>4, <1>5, <2>1 DEF ColorOf
  <2>4. a \notin weak /\ field[a] \in Old => field[a] \in Marked'
    BY <1>1, <1>10, <2>1 DEF b, IsWhiteIn, Marked, White, Old, ColorOf
  <2>. QED
    <3>1. MarksGrow
      BY <2>2, <2>3 DEF MarksGrow, ColorOf
    <3>2. \A d \in Old \ weak : ColorOf(d)' = "black" /\ field[d] \in Old => ColorOf(d) = "black" \/ field[d] \in Marked'
      BY <2>2, <2>4
    <3>. QED
      BY <1>1, <1>2, <1>5, <1>7, <1>8, <2>1, <3>1, <3>2, MarkingStepKeeps DEF MarkingStep
<1>. QED
  BY <1>9, <1>10

LEMMA WalkKeeps == ASSUME GcHeapAssumption, HeapInv, StartWalk \/ Walk PROVE HeapInv'
<1>1. /\ Young = {} /\ phase = "mark" /\ marks.stack = <<>>
      /\ UNCHANGED <<where, weak, field, root, refTable, weakRefs, phase, sub, sweepHp, weakPrev, weakList, final, todo>>
  BY DEF StartWalk, Walk, Slice, heap, tables, others
<1>2. /\ Shape /\ Old \subseteq 1..N /\ marks \in Headings /\ Tidy(marks, Old, markhp) /\ markhp \in 0..N /\ N \in Nat
      /\ Range(marks.stack) = {} /\ Addr = 1..N /\ N # 0
  <2>1. Shape /\ GraysAreFound
    BY DEF HeapInv
  <2>2. Tidy(marks, Old, markhp)
    BY <1>1, <2>1, GraysAreTidy
  <2>3. marks \in Headings /\ markhp \in 0..N
    BY <2>1 DEF Shape, Headings
  <2>4. Range(marks.stack) = {}
    BY <1>1 DEF Range
  <2>. QED
    BY <2>1, <2>2, <2>3, <2>4, Blocks DEF Addr
<1>3. CASE StartWalk
  <2>1. marks' = [marks EXCEPT !.pure = TRUE] /\ markhp' = 1
    BY <1>3 DEF StartWalk
  <2>2. marks' \in Headings /\ marks'.color = marks.color /\ marks'.stack = <<>>
    BY <1>1, <1>2, <2>1 DEF Headings
  <2>3. Tidy(marks', Old, markhp')
    BY <1>2, <2>1, <2>2 DEF Tidy
  <2>. QED
    BY <1>1, <1>2, <2>1, <2>2, <2>3, MarkingStepKeeps DEF MarkingStep, MarksGrow, ColorOf
<1>4. CASE Walk
  <2>1. /\ markhp # 0 /\ markhp' = IF markhp = N THEN 0 ELSE markhp + 1
        /\ marks' = IF markhp \in Old /\ marks.color[markhp] = "gray" THEN [marks EXCEPT !.stack = <<markhp>>] ELSE marks
    BY <1>4 DEF Walk
  <2>2. \A a \in Old : marks.color[a] = "gray" => a = markhp \/ ~marks.pure \/ (markhp' # 0 /\ a >= markhp')
    <3>1. \A a \in Old : marks.color[a] = "gray" => ~marks.pure \/ a >= markhp
      BY <1>2 DEF Tidy
    <3>2. \A a \in Old : a >= markhp => a = markhp \/ (markhp' # 0 /\ a >= markhp')
      BY <1>2, <2>1
    <3>. QED
      BY <3>1, <3>2
  <2>3. markhp' \in 0..N
    BY <1>2, <2>1
  <2>4. CASE markhp \in Old /\ marks.color[markhp] = "gray"
    <3>1. marks' = [marks EXCEPT !.stack = <<markhp>>]
      BY <2>1, <2>4
    <3>2. <<markhp>> \in Seq(Addr)
      BY <1>2, <2>4
    <3>3. marks' \in Headings /\ marks'.color = marks.color /\ marks'.stack = <<markhp>> /\ marks'.pure = marks.pure
      BY <1>2, <3>1, <3>2 DEF Headings
    <3>4. DOMAIN <<markhp>> = {1} /\ <<markhp>>[1] = markhp /\ markhp \in Range(<<markhp>>)
      BY DEF Range
    <3>5. Tidy(marks', Old, markhp')
      BY <2>2, <2>4, <3>3, <3>4 DEF Tidy
    <3>. QED
      BY <1>1, <1>2, <2>3, <3>3, <3>5, MarkingStepKeeps DEF MarkingStep, MarksGrow, ColorOf
  <2>5. CASE ~(markhp \in Old /\ marks.color[markhp] = "gray")
    <3>1. marks' = marks
      BY <2>1, <2>5
    <3>2. Tidy(marks', Old, markhp')
      BY <1>1, <1>2, <2>2, <2>5, <3>1 DEF Tidy
    <3>. QED
      BY <1>1, <1>2, <2>3, <3>1, <3>2, MarkingStepKeeps DEF MarkingStep, MarksGrow, ColorOf
  <2>. QED
    BY <2>4, <2>5
<1>. QED
  BY <1>3, <1>4

(* ------------------- Slices: weak arrays and finalisation ---------------- *)
\* In a slice of the marking all blocks that are there are sound, and all are old.
LEMMA InMark ==
  ASSUME GcHeapAssumption, HeapInv, phase = "mark", Young = {}
  PROVE  /\ Shape /\ Old \subseteq Addr /\ Doomed = {} /\ Sound = {None} \cup Old /\ None \notin Addr
         /\ Fine = {None} \cup Found /\ refTable = {} /\ weakRefs = {} /\ FoundIs
         /\ weak \ Range(weakList) # {} => Cleaned
BY Blocks, FoundIsClosed DEF Doomed, Sound, Fine, HeapInv, Registered, ArraysAreListed, None

LEMMA EndMainKeeps == ASSUME GcHeapAssumption, HeapInv, EndMain PROVE HeapInv'
<1>. USE DEF HeapInv
<1>1. /\ Young = {} /\ phase = "mark" /\ sub = "main" /\ sub' = "weak1" /\ weakPrev' = None
      /\ UNCHANGED <<where, weak, field, root, refTable, weakRefs, marks, phase, markhp, sweepHp, weakList, final, todo>>
  BY DEF EndMain, NothingGray, Slice, heap, tables, others
<1>2. UNCHANGED <<Young, Old>>
  BY <1>1 DEF Young, Old
<1>3. UNCHANGED <<White, Marked, Doomed, Sound>>
  BY <1>1, <1>2 DEF White, Marked, Doomed, Sound, ColorOf
<1>4. UNCHANGED Fine
  BY <1>1, <1>2, <1>3 DEF Found, Fine, Scanned, ColorOf
<1>5. Shape' /\ Unused' /\ Registered' /\ Headers' /\ ValuesAreSound'
  <2>1. weakPrev' \in 0..N
    BY <1>1, Blocks DEF None
  <2>2. Shape'
    BY <1>1, <1>2, <2>1 DEF Shape
  <2>. QED
    BY <1>1, <1>2, <1>3, <2>2 DEF Unused, Registered, Headers, ValuesAreSound
<1>6. GraysAreFound' /\ ReachableIsFound'
  BY <1>1, <1>2, <1>4 DEF GraysAreFound, GrayIsFound, ReachableIsFound, ColorOf
<1>7. ArraysAreListed'
  BY <1>1, <1>3 DEF ArraysAreListed, Cleaning, Dropping, Cleaned
<1>8. Passed' = {}
  BY <1>1 DEF Passed, NextIndex
<1>9. ArraysAreClean'
  BY <1>1, <1>8 DEF ArraysAreClean, Cleaning, Dropping, Cleaned
<1>. QED
  BY <1>5, <1>6, <1>7, <1>9

\* The next array of the list, if there is one.
LEMMA NextWeakIs ==
  ASSUME Shape, ArraysAreListed, weakPrev \in {None} \cup Range(weakList), 0 \notin Addr
  PROVE  /\ NextWeak # None => /\ NextIndex \in DOMAIN weakList /\ weakList[NextIndex] = NextWeak
                               /\ NextWeak \in Range(weakList) /\ NextWeak \in weak
         /\ NextWeak = None => Passed = Range(weakList)
<1>1. weakList \in Seq(Addr) /\ Len(weakList) \in Nat /\ DOMAIN weakList = 1..Len(weakList)
  BY DEF Shape
<1>2. NextIndex \in 1..(Len(weakList) + 1)
  BY NextIs
<1>3. ASSUME NextWeak # None
      PROVE  /\ NextIndex \in DOMAIN weakList /\ weakList[NextIndex] = NextWeak
             /\ NextWeak \in Range(weakList) /\ NextWeak \in weak
  BY <1>3 DEF NextWeak, Range, ArraysAreListed
<1>4. ASSUME NextWeak = None PROVE Passed = Range(weakList)
  <2>1. NextIndex \notin DOMAIN weakList
    BY <1>1, <1>4 DEF NextWeak, None
  <2>2. NextIndex - 1 = Len(weakList)
    BY <1>1, <1>2, <2>1
  <2>. QED
    BY <1>1, <2>2 DEF Passed, Range
<1>. QED
  BY <1>3, <1>4

\* When weakPrev moves on, the array it moves to has been passed.
LEMMA PassedGrows ==
  ASSUME Shape, ArraysAreListed, weakPrev \in {None} \cup Range(weakList), 0 \notin Addr,
         NextWeak # None, weakPrev' = NextWeak, weakList' = weakList
  PROVE  Passed' \subseteq Passed \cup {NextWeak}
<1>1. /\ weakList \in Seq(Addr) /\ Len(weakList) \in Nat /\ DOMAIN weakList = 1..Len(weakList)
      /\ NextIndex \in DOMAIN weakList /\ weakList[NextIndex] = NextWeak
  BY NextWeakIs DEF Shape
<1>2. \A j \in DOMAIN weakList : weakList[j] = NextWeak => j = NextIndex
  BY <1>1 DEF ArraysAreListed
<1>3. (CHOOSE j \in DOMAIN weakList : weakList[j] = NextWeak) = NextIndex
  BY <1>1, <1>2
<1>4. NextIndex' = 1 + NextIndex
  BY <1>3 DEF NextIndex
<1>5. NextIndex' - 1 = NextIndex /\ NextIndex \in Nat
  BY <1>1, <1>4
<1>6. \A i \in 1..NextIndex : i = NextIndex \/ i \in 1..(NextIndex - 1)
  BY <1>5
<1>. QED
  BY <1>1, <1>5, <1>6 DEF Passed

LEMMA CleanWeakKeeps == ASSUME GcHeapAssumption, HeapInv, CleanWeak PROVE HeapInv'
<1>1. /\ Young = {} /\ phase = "mark" /\ sub = "weak1" /\ NoneGray
      /\ UNCHANGED <<where, weak, root, refTable, weakRefs, marks, phase, markhp, sweepHp, weakList, final, todo>>
  BY NothingGrayIs DEF CleanWeak, tables, others
<1>2. /\ Shape /\ Old \subseteq Addr /\ Doomed = {} /\ Sound = {None} \cup Old /\ None \notin Addr
      /\ Fine = {None} \cup Found /\ FoundIs /\ weak \subseteq Old
      /\ Range(weakList) = weak
  BY <1>1, InMark DEF Cleaned, Shape, HeapInv, ArraysAreListed
<1>3. /\ Cleaning /\ weakPrev \in {None} \cup Range(weakList) /\ ArraysAreListed /\ 0 \notin Addr
  BY <1>1, <1>2 DEF Cleaning, HeapInv, ArraysAreListed, None
<1>4. Young' = {} /\ Old' = Old /\ White' = White /\ Marked' = Marked /\ NoneGray'
  BY <1>1 DEF Young, Old, White, Marked, ColorOf, NoneGray
<1>5. Sound' = Sound /\ Doomed' = {}
  BY <1>1, <1>2, <1>4 DEF Sound, Doomed
<1>6. CASE NextWeak # None
  <2>. DEFINE a == NextWeak
  <2>1. field' = [field EXCEPT ![a] = Erased(a)] /\ weakPrev' = a /\ sub' = sub
    BY <1>6 DEF CleanWeak
  <2>2. a \in weak /\ a \in Addr /\ a \in Range(weakList)
    BY <1>2, <1>3, <1>6, NextWeakIs
  <2>3. Erased(a) \in {None} \cup Marked /\ Erased(a) \in 0..Junk
    <3>1. field[a] \in {None} \cup Old /\ field[a] \in 0..Junk
      BY <1>2, <2>2 DEF HeapInv, ValuesAreSound, Shape
    <3>. QED
      BY <1>2, <3>1, Blocks DEF Erased, IsWhiteIn, Marked, White, ColorOf, None
  <2>. HIDE DEF a
  <2>4. field' \in [Addr -> 0..Junk] /\ field'[a] = Erased(a) /\ \A b \in Addr : b # a => field'[b] = field[b]
    BY <1>2, <2>1, <2>2, <2>3 DEF Shape
  <2>5. Found \subseteq Found' /\ Fine \subseteq Fine' /\ Marked \subseteq Fine'
    <3>1. \A b \in Old \ weak : field'[b] = field[b] /\ ColorOf(b)' = ColorOf(b)
      BY <1>1, <1>2, <2>2, <2>4 DEF ColorOf
    <3>2. Found \subseteq Found'
      BY <1>1, <1>4, <3>1, FoundGrows DEF MarksGrow, ColorOf
    <3>3. FoundIs'
      BY FoundIsClosedThen
    <3>. QED
      BY <1>2, <1>4, <3>2, <3>3 DEF Fine, FoundIs
  <2>6. Shape'
    <3>1. weakPrev' \in 0..N
      BY <2>1, <2>2 DEF Addr
    <3>. QED
      BY <1>1, <1>2, <1>4, <2>1, <2>4, <3>1 DEF Shape
  <2>7. Unused' /\ Registered' /\ Headers'
    BY <1>1, <1>4, <1>5, <2>1 DEF HeapInv, Unused, Registered, Headers
  <2>8. ValuesAreSound'
    <3>1. \A b \in Sound' \cap Addr : field'[b] \in Sound'
      BY <1>2, <1>4, <1>5, <2>3, <2>4, Blocks DEF HeapInv, ValuesAreSound
    <3>. QED
      BY <1>1, <1>4, <1>5, <3>1 DEF HeapInv, ValuesAreSound
  <2>9. GraysAreFound'
    BY <1>1, <1>4 DEF HeapInv, GraysAreFound, GrayIsFound
  <2>10. ReachableIsFound'
    <3>1. ASSUME NEW b \in Old' \ weak', ColorOf(b)' = "black" PROVE field'[b] \in Fine'
      <4>1. b \in Old \ weak /\ ColorOf(b) = "black" /\ b \in Addr /\ b # a
        BY <1>1, <1>2, <1>4, <2>2, <3>1 DEF ColorOf
      <4>. QED
        BY <1>1, <2>4, <2>5, <4>1 DEF HeapInv, ReachableIsFound
    <3>. QED
      BY <1>1, <1>4, <2>1, <2>5, <3>1 DEF HeapInv, ReachableIsFound
  <2>11. ArraysAreListed'
    BY <1>1, <1>4, <1>5, <2>1, <2>2, <1>2 DEF HeapInv, ArraysAreListed, Cleaning, Dropping
  <2>12. ArraysAreClean'
    <3>1. Passed' \subseteq Passed \cup {a} /\ Passed \subseteq Range(weakList)
      BY <1>1, <1>2, <1>3, <1>6, <2>1, PassedGrows, NextIs DEF a
    <3>2. ASSUME NEW w \in Passed' PROVE field'[w] \in Fine'
      <4>1. CASE w = a
        BY <2>3, <2>4, <2>5, <4>1 DEF Fine
      <4>2. CASE w # a
        <5>1. w \in Passed /\ w \in Addr
          BY <1>2, <3>1, <3>2, <4>2
        <5>. QED
          BY <1>3, <2>4, <2>5, <4>2, <5>1 DEF HeapInv, ArraysAreClean
      <4>. QED
        BY <4>1, <4>2
    <3>. QED
      BY <1>1, <2>1, <3>2 DEF ArraysAreClean, Cleaning, Dropping, Cleaned
  <2>. QED
    BY <2>6, <2>7, <2>8, <2>9, <2>10, <2>11, <2>12 DEF HeapInv
<1>7. CASE NextWeak = None
  <2>1. sub' = "weak2" /\ weakPrev' = None /\ field' = field
    BY <1>7 DEF CleanWeak
  <2>2. UNCHANGED Fine
    BY <1>1, <1>4, <2>1 DEF Found, Fine, Scanned, ColorOf
  <2>10. Shape'
    <3>1. weakPrev' \in 0..N
      BY <2>1, Blocks DEF None
    <3>. QED
      BY <1>1, <1>2, <1>4, <2>1, <3>1 DEF Shape
  <2>3. Unused' /\ Registered' /\ Headers' /\ ValuesAreSound'
    BY <1>1, <1>4, <1>5, <2>1 DEF HeapInv, Unused, Registered, Headers, ValuesAreSound
  <2>4. GraysAreFound' /\ ReachableIsFound'
    BY <1>1, <1>4, <2>1, <2>2 DEF HeapInv, GraysAreFound, GrayIsFound, ReachableIsFound, ColorOf
  <2>5. Passed = weak
    BY <1>2, <1>3, <1>7, NextWeakIs
  <2>6. ArraysAreListed'
    BY <1>1, <1>2, <1>5, <2>1 DEF HeapInv, ArraysAreListed
  <2>7. Passed' = {}
    BY <2>1 DEF Passed, NextIndex
  <2>8. \A w \in weak : field[w] \in Fine
    BY <1>3, <2>5 DEF HeapInv, ArraysAreClean
  <2>9. ArraysAreClean'
    BY <1>1, <1>4, <2>1, <2>2, <2>7, <2>8 DEF ArraysAreClean, Cleaning, Dropping, Cleaned
  <2>. QED
    BY <2>3, <2>4, <2>6, <2>9, <2>10 DEF HeapInv
<1>. QED
  BY <1>6, <1>7

LEMMA DropWeakKeeps == ASSUME GcHeapAssumption, HeapInv, DropWeak PROVE HeapInv'
<1>1. /\ Young = {} /\ phase = "mark" /\ sub = "weak2" /\ NextWeak # None
      /\ UNCHANGED <<where, weak, field, root, refTable, weakRefs, marks, phase, sub, markhp, sweepHp, final, todo>>
  BY NothingGrayIs DEF DropWeak, heap, tables
<1>2. /\ Shape /\ Old \subseteq Addr /\ Doomed = {} /\ None \notin Addr /\ weak \subseteq Old
  BY <1>1, InMark DEF Shape
<1>3. /\ Dropping /\ Cleaned /\ ~Cleaning /\ weakPrev \in {None} \cup Range(weakList) /\ ArraysAreListed /\ 0 \notin Addr
  BY <1>1, <1>2 DEF Dropping, Cleaned, Cleaning, HeapInv, ArraysAreListed, None
<1>4. UNCHANGED <<Young, Old, White, Marked, NoneGray, Doomed, Sound, Found, Fine, Dropping, Cleaned, Cleaning>>
  <2>1. UNCHANGED <<Young, Old>>
    BY <1>1 DEF Young, Old
  <2>2. UNCHANGED <<White, Marked, NoneGray, Doomed, Sound>>
    BY <1>1, <2>1 DEF White, Marked, NoneGray, Doomed, Sound, ColorOf
  <2>3. UNCHANGED <<Found, Fine, Dropping, Cleaned, Cleaning>>
    BY <1>1, <2>1, <2>2 DEF Found, Fine, Scanned, ColorOf, Dropping, Cleaned, Cleaning
  <2>. QED
    BY <2>1, <2>2, <2>3
<1>. DEFINE a == NextWeak
            k == NextIndex
<1>5. k \in DOMAIN weakList /\ weakList[k] = a /\ a \in weak
  BY <1>1, <1>2, <1>3, NextWeakIs
<1>6. weakList \in Seq(Addr) /\ Len(weakList) \in Nat /\ DOMAIN weakList = 1..Len(weakList)
  BY <1>2 DEF Shape
<1>7. Registered' /\ Headers' /\ ValuesAreSound' /\ GraysAreFound' /\ ReachableIsFound'
  BY <1>1, <1>4 DEF HeapInv, Registered, Headers, ValuesAreSound, GraysAreFound, GrayIsFound, ReachableIsFound, ColorOf
<1>8. Weak
  BY <1>5 DEF HeapInv, Unused
<1>9. CASE marks.color[a] # "white"
  <2>1. weakPrev' = a /\ weakList' = weakList
    BY <1>9 DEF DropWeak
  <2>. HIDE DEF a
  <2>2. Shape' /\ Unused'
    <3>1. weakPrev' \in 0..N
      BY <1>2, <1>5, <2>1 DEF Addr
    <3>2. Shape'
      BY <1>1, <1>2, <1>4, <2>1, <3>1 DEF Shape
    <3>. QED
      BY <1>1, <1>8, <2>1, <3>2 DEF HeapInv, Unused
  <2>3. ArraysAreListed'
    BY <1>1, <1>4, <1>5, <2>1 DEF HeapInv, ArraysAreListed, Range
  <2>4. Passed' \subseteq Passed \cup {a} /\ a \in Marked
    BY <1>1, <1>2, <1>3, <1>5, <1>9, <2>1, PassedGrows DEF a, Marked, White, ColorOf
  <2>5. ArraysAreClean'
    BY <1>1, <1>3, <1>4, <2>1, <2>4 DEF HeapInv, ArraysAreClean
  <2>. QED
    BY <1>7, <2>2, <2>3, <2>5 DEF HeapInv
<1>10. CASE marks.color[a] = "white"
  <2>1. weakPrev' = weakPrev /\ weakList' = RemoveAt(weakList, k)
    BY <1>10 DEF DropWeak
  <2>2. a \in White
    BY <1>2, <1>5, <1>10 DEF White, ColorOf
  <2>. HIDE DEF a, k
  <2>3. /\ weakList' \in Seq(Addr) /\ Len(weakList') = Len(weakList) - 1
        /\ \A i \in 1..(Len(weakList) - 1) : weakList'[i] = IF i < k THEN weakList[i] ELSE weakList[i + 1]
    BY <1>5, <1>6, <2>1, RemovedAt
  <2>4. DOMAIN weakList' = 1..(Len(weakList) - 1) /\ k \in Nat /\ k <= Len(weakList) /\ k > 0
    BY <1>5, <1>6, <2>3
  <2>5. \A i, j \in DOMAIN weakList : weakList[i] = weakList[j] => i = j
    BY <1>3 DEF ArraysAreListed
  <2>6. \A i, j \in DOMAIN weakList' : weakList'[i] = weakList'[j] => i = j
    <3>. SUFFICES ASSUME NEW i \in 1..(Len(weakList) - 1), NEW j \in 1..(Len(weakList) - 1), weakList'[i] = weakList'[j]
                  PROVE  i = j
      BY <2>4
    <3>. DEFINE f(x) == IF x < k THEN x ELSE x + 1
    <3>1. f(i) \in DOMAIN weakList /\ f(j) \in DOMAIN weakList /\ (f(i) = f(j) => i = j)
      BY <1>6, <2>4
    <3>2. weakList'[i] = weakList[f(i)] /\ weakList'[j] = weakList[f(j)]
      BY <2>3
    <3>. HIDE DEF f
    <3>. QED
      BY <2>5, <3>1, <3>2
  <2>7. Range(weakList') = Range(weakList) \ {a}
    <3>1. ASSUME NEW i \in DOMAIN weakList' PROVE weakList'[i] \in Range(weakList) \ {a}
      <4>. DEFINE n == IF i < k THEN i ELSE i + 1
      <4>1. n \in DOMAIN weakList /\ n # k
        BY <1>6, <2>4, <3>1
      <4>2. weakList'[i] = weakList[n]
        BY <2>3, <2>4, <3>1
      <4>3. weakList[n] # a
        BY <1>5, <2>5, <4>1
      <4>. HIDE DEF n
      <4>. QED
        BY <4>1, <4>2, <4>3 DEF Range
    <3>2. ASSUME NEW n \in DOMAIN weakList, weakList[n] # a PROVE weakList[n] \in Range(weakList')
      <4>1. CASE n < k
        <5>1. n \in DOMAIN weakList' /\ weakList'[n] = weakList[n]
          BY <1>6, <2>3, <2>4, <4>1
        <5>. QED
          BY <5>1 DEF Range
      <4>2. CASE n > k
        <5>1. n - 1 \in 1..(Len(weakList) - 1) /\ ~(n - 1 < k) /\ (n - 1) + 1 = n
          BY <1>6, <2>4, <4>2
        <5>2. n - 1 \in DOMAIN weakList' /\ weakList'[n - 1] = weakList[n]
          BY <2>3, <2>4, <5>1
        <5>. QED
          BY <5>2 DEF Range
      <4>3. n # k
        BY <1>5, <3>2
      <4>. QED
        BY <1>6, <2>4, <4>1, <4>2, <4>3
    <3>. QED
      BY <3>1, <3>2 DEF Range
  <2>8. weakPrev # None => /\ k - 1 \in DOMAIN weakList /\ weakList[k - 1] = weakPrev
                           /\ k - 1 \in DOMAIN weakList' /\ weakList'[k - 1] = weakPrev
    <3>1. weakPrev # None => k - 1 \in DOMAIN weakList /\ weakList[k - 1] = weakPrev
      BY <1>2, <1>3, NextIs DEF k
    <3>. QED
      BY <1>6, <2>3, <2>4, <3>1
  <2>9. NextIndex' = k
    <3>1. CASE weakPrev = None
      BY <2>1, <3>1 DEF NextIndex, k
    <3>2. CASE weakPrev # None
      <4>1. \A j \in DOMAIN weakList' : weakList'[j] = weakPrev => j = k - 1
        BY <2>6, <2>8, <3>2
      <4>2. (CHOOSE j \in DOMAIN weakList' : weakList'[j] = weakPrev) = k - 1
        BY <2>8, <3>2, <4>1
      <4>3. NextIndex' = 1 + (k - 1)
        BY <2>1, <3>2, <4>2 DEF NextIndex
      <4>. QED
        BY <2>4, <4>3
    <3>. QED
      BY <3>1, <3>2
  <2>10. Passed' \subseteq Passed
    <3>1. \A i \in 1..(k - 1) : weakList'[i] = weakList[i]
      BY <1>6, <2>3, <2>4
    <3>2. NextIndex = k
      BY DEF k
    <3>. QED
      BY <2>9, <3>1, <3>2 DEF Passed
  <2>11. Shape' /\ Unused'
    <3>1. Shape'
      BY <1>1, <1>2, <1>4, <2>1, <2>3 DEF Shape
    <3>. QED
      BY <1>1, <1>8, <3>1 DEF HeapInv, Unused
  <2>12. ArraysAreListed'
    <3>1. weakPrev \in {None} \cup Range(weakList')
      BY <2>8 DEF Range
    <3>2. Range(weakList') \subseteq weak /\ Range(weakList') \cap Doomed = {}
      BY <1>3, <2>7 DEF ArraysAreListed
    <3>3. \A w \in weak \ Range(weakList') : w \in Doomed \/ w \in White
      BY <1>3, <2>2, <2>7 DEF ArraysAreListed
    <3>. QED
      BY <1>1, <1>3, <1>4, <2>1, <2>6, <3>1, <3>2, <3>3 DEF ArraysAreListed
  <2>13. ArraysAreClean'
    BY <1>1, <1>3, <1>4, <2>10 DEF HeapInv, ArraysAreClean
  <2>. QED
    BY <1>7, <2>11, <2>12, <2>13 DEF HeapInv
<1>. QED
  BY <1>9, <1>10

LEMMA FinalUpdateKeeps ==
  ASSUME GcHeapAssumption, ~(Weak /\ Finalise), HeapInv, FinalUpdate PROVE HeapInv'
<1>. DEFINE S == {a \in final : marks.color[a] = "white"}
            dead == SetToSeq(S)
<1>1. /\ Young = {} /\ phase = "mark" /\ sub = "weak2" /\ NoneGray /\ NextWeak = None
      /\ marks' = DarkenAll(marks, dead) /\ todo' = todo \o dead
      /\ final' = {a \in final : marks.color[a] # "white"} /\ sub' = "final"
      /\ UNCHANGED <<where, weak, field, root, refTable, weakRefs, phase, markhp, sweepHp, weakPrev, weakList>>
  BY NothingGrayIs, Zenon DEF FinalUpdate, heap, tables
<1>2. /\ Shape /\ Old \subseteq Addr /\ Doomed = {} /\ Sound = {None} \cup Old /\ None \notin Addr
      /\ Fine = {None} \cup Found /\ FoundIs /\ weak \subseteq Old /\ 0 \notin Addr
  BY <1>1, InMark DEF Shape, None
<1>3. final \subseteq Old
  BY <1>2 DEF HeapInv, ValuesAreSound, Shape
<1>4. IsFiniteSet(S)
  <2>0. N \in Nat
    BY DEF GcHeapAssumption
  <2>1. IsFiniteSet(1..N)
    BY <2>0, FS_Interval
  <2>2. S \subseteq 1..N
    BY <1>2, <1>3 DEF Addr
  <2>. QED
    BY <2>1, <2>2, FS_Subset
<1>5. dead \in Seq(S) /\ Range(dead) = S
  BY <1>4, ListOfSet
<1>6. dead \in Seq(Addr)
  BY <1>2, <1>3, <1>5
<1>7. marks \in Headings /\ Tidy(marks, Old, markhp) /\ todo \in Seq(Addr)
  BY <1>1, GraysAreTidy DEF HeapInv, Shape, Headings
<1>8. S = {} => dead = <<>>
  <2>. SUFFICES ASSUME S = {} PROVE dead = <<>>
    OBVIOUS
  <2>1. Range(dead) = {} /\ dead \in Seq(Addr)
    BY <1>5, <1>6
  <2>. HIDE DEF dead
  <2>2. DOMAIN dead = {}
    BY <2>1 DEF Range
  <2>. QED
    BY <2>1, <2>2
<1>9. S = {} => marks' = marks /\ todo' = todo
  <2>. SUFFICES ASSUME S = {} PROVE marks' = marks /\ todo' = todo
    OBVIOUS
  <2>1. dead = <<>>
    BY <1>8
  <2>. HIDE DEF dead
  <2>2. marks' = marks
    BY <1>1, <2>1, DarkenNone
  <2>3. todo \o <<>> = todo
    BY <1>7
  <2>. QED
    BY <1>1, <2>1, <2>2, <2>3
<1>10. Weak => S = {}
  BY DEF HeapInv, Unused
<1>11. ~Finalise => S = {}
  BY DEF HeapInv, Unused
<1>12. /\ marks' \in Headings /\ Tidy(marks', Old, markhp) /\ Darker(marks, marks')
       /\ \A i \in DOMAIN dead : dead[i] \in Old => marks'.color[dead[i]] # "white"
  BY <1>1, <1>6, <1>7, DarkenAllIsTidy
<1>13. \A a \in S : a \in Old /\ ColorOf(a)' # "white"
  BY <1>3, <1>5, <1>12 DEF Range, ColorOf
<1>14. todo' \in Seq(Addr) /\ Range(todo') \subseteq Range(todo) \cup S
  <2>1. todo' = todo \o dead /\ todo \in Seq(Addr) /\ dead \in Seq(Addr)
    BY <1>1, <1>6, <1>7
  <2>. HIDE DEF dead
  <2>2. Range(todo') \subseteq Range(todo) \cup Range(dead)
    BY <2>1 DEF Range
  <2>. QED
    BY <1>5, <2>1, <2>2
<1>. HIDE DEF dead, S
<1>15. Young' = {} /\ Old' = Old
  BY <1>1 DEF Young, Old
<1>16. MarksGrow /\ \A a \in Old \ weak : ColorOf(a)' = "black" => ColorOf(a) = "black"
  BY <1>2, <1>12 DEF MarksGrow, Darker, ColorOf
<1>17. Marked \subseteq Marked' /\ Found \subseteq Found' /\ FoundIs'
  <2>1. Marked \subseteq Marked'
    BY <1>15, <1>16 DEF MarksGrow, Marked, White
  <2>2. Found \subseteq Found'
    BY <1>1, <1>15, <1>16, FoundGrows
  <2>3. FoundIs'
    BY FoundIsClosedThen
  <2>. QED
    BY <2>1, <2>2, <2>3
<1>18. Fine \subseteq Fine' /\ Marked' \subseteq Fine' /\ S \subseteq Fine'
  <2>1. S \subseteq Marked'
    BY <1>13, <1>15 DEF Marked, White
  <2>. QED
    BY <1>2, <1>15, <1>17, <2>1 DEF Fine, FoundIs
<1>19. Doomed' = {} /\ Sound' = Sound
  BY <1>1, <1>2, <1>15 DEF Doomed, Sound
<1>20. Shape'
  BY <1>1, <1>2, <1>3, <1>12, <1>14, <1>15 DEF Shape, Headings
<1>21. Unused'
  BY <1>1, <1>9, <1>11 DEF HeapInv, Unused
<1>22. ValuesAreSound'
  BY <1>1, <1>2, <1>13, <1>14, <1>15, <1>19 DEF HeapInv, ValuesAreSound
<1>23. Registered' /\ Headers'
  BY <1>1, <1>15, <1>19 DEF HeapInv, Registered, Headers
<1>24. GraysAreFound'
  <2>1. GraysAreFound' <=> (phase' = "mark" => Tidy(marks', Old', markhp'))
    BY GraysAreTidyThen
  <2>. QED
    BY <1>1, <1>12, <1>15, <2>1
<1>25. ReachableIsFound'
  <2>1. \A r \in Roots : root'[r] \in Fine'
    BY <1>1, <1>18 DEF HeapInv, ReachableIsFound
  <2>2. Range(todo') \subseteq Fine'
    BY <1>1, <1>14, <1>18 DEF HeapInv, ReachableIsFound
  <2>3. final' \subseteq Fine'
    <3>1. final' \subseteq Marked
      BY <1>1, <1>3 DEF Marked, White, ColorOf
    <3>. QED
      BY <1>17, <1>18, <3>1
  <2>4. \A a \in Old' \ weak' : ColorOf(a)' = "black" => field'[a] \in Fine'
    BY <1>1, <1>15, <1>16, <1>18 DEF HeapInv, ReachableIsFound
  <2>. QED
    BY <1>15, <2>1, <2>2, <2>3, <2>4 DEF ReachableIsFound
<1>26. Weak => marks' = marks
  BY <1>9, <1>10
<1>27. weak # {} => Weak
  BY DEF HeapInv, Unused
<1>28. ArraysAreListed'
  <2>1. \A w \in weak : w \in White => w \in White'
    BY <1>15, <1>26, <1>27 DEF White, ColorOf
  <2>2. \A w \in weak \ Range(weakList) : w \in White
    BY <1>2 DEF HeapInv, ArraysAreListed
  <2>. QED
    BY <1>1, <1>19, <2>1, <2>2 DEF HeapInv, ArraysAreListed, Cleaning, Dropping, Cleaned
<1>29. ArraysAreClean'
  <2>1. Dropping /\ Cleaned /\ weakPrev \in {None} \cup Range(weakList)
    BY <1>1 DEF Dropping, Cleaned, HeapInv, ArraysAreListed
  <2>2. Range(weakList) \subseteq Marked
    BY <1>1, <1>2, <2>1, NextWeakIs DEF HeapInv, ArraysAreClean
  <2>3. ASSUME Weak PROVE NoneGray' /\ \A w \in weak' \cap Marked' : field'[w] \in Fine'
    <3>1. marks' = marks /\ NoneGray' /\ Marked' = Marked
      BY <1>1, <1>15, <1>26, <2>3 DEF NoneGray, Marked, White, ColorOf
    <3>. QED
      BY <1>1, <1>18, <2>1, <2>3, <3>1 DEF HeapInv, ArraysAreClean
  <2>. QED
    BY <1>1, <1>17, <2>2, <2>3 DEF ArraysAreClean, Cleaning, Dropping, Cleaned
<1>. QED
  BY <1>20, <1>21, <1>22, <1>23, <1>24, <1>25, <1>28, <1>29 DEF HeapInv

(* -------------------------- Slices: the sweep --------------------------- *)
LEMMA StartSweepKeeps == ASSUME GcHeapAssumption, HeapInv, StartSweep PROVE HeapInv'
<1>1. /\ Young = {} /\ phase = "mark" /\ sub = "final" /\ NoneGray /\ marks.stack = <<>>
      /\ phase' = "sweep" /\ sweepHp' = 1
      /\ UNCHANGED <<where, weak, field, root, refTable, weakRefs, marks, sub, markhp, weakPrev, weakList, final, todo>>
  BY NothingGrayIs DEF StartSweep, heap, tables, others
<1>2. /\ Shape /\ Old \subseteq Addr /\ None \notin Addr /\ Fine = {None} \cup Found
      /\ Found = Marked /\ Marked \subseteq Old /\ weak \subseteq Old
      /\ 1 \in 0..(N + 1) /\ \A a \in Addr : a >= 1
  <2>1. N \in Nat
    BY DEF GcHeapAssumption
  <2>2. 1 \in 0..(N + 1) /\ \A a \in Addr : a >= 1
    BY <2>1 DEF Addr
  <2>. QED
    BY <1>1, <2>2, InMark, AllIsFound, Blocks DEF Shape
<1>3. Young' = {} /\ Old' = Old /\ Marked' = Marked /\ White' = White /\ NoneGray'
  BY <1>1 DEF Young, Old, Marked, White, NoneGray, ColorOf
<1>4. Doomed' = White
  BY <1>1, <1>2, <1>3 DEF Doomed, White
<1>5. Sound' = {None} \cup Marked
  BY <1>2, <1>3, <1>4 DEF Sound, Marked, None
<1>6. Shape'
  BY <1>1, <1>2, <1>3 DEF Shape
<1>7. Unused' /\ Registered' /\ GraysAreFound' /\ ReachableIsFound'
  BY <1>1, <1>3 DEF HeapInv, Unused, Registered, GraysAreFound, ReachableIsFound
<1>8. Headers'
  <2>1. \A a \in Marked' : a >= 1
    BY <1>2, <1>3
  <2>. QED
    BY <1>1, <1>3, <2>1 DEF Headers
<1>9. ValuesAreSound'
  <2>1. (\A r \in Roots : root[r] \in Fine) /\ Range(todo) \subseteq Fine /\ final \subseteq Fine
    BY <1>1 DEF HeapInv, ReachableIsFound
  <2>2. Range(todo) \subseteq Old
    BY DEF HeapInv, ValuesAreSound
  <2>3. ASSUME NEW a \in Marked PROVE field[a] \in Fine
    <3>1. ColorOf(a) = "black"
      BY <1>1, <1>2, <2>3 DEF Shape, NoneGray, Marked, White, ColorOf
    <3>2. CASE a \in weak
      BY <1>1, <2>3, <3>2 DEF HeapInv, Unused, ArraysAreClean, Cleaned
    <3>3. CASE a \notin weak
      BY <1>1, <1>2, <2>3, <3>1, <3>3 DEF HeapInv, ReachableIsFound
    <3>. QED
      BY <3>2, <3>3
  <2>. QED
    BY <1>1, <1>2, <1>3, <1>5, <2>1, <2>2, <2>3 DEF ValuesAreSound
<1>10. ArraysAreListed'
  <2>1. \A w \in weak \ Range(weakList) : w \in White
    BY <1>1 DEF HeapInv, ArraysAreListed, Doomed
  <2>2. Range(weakList) \cap White = {}
    BY <1>1 DEF HeapInv, ArraysAreClean, Cleaned, Dropping, Marked
  <2>. QED
    BY <1>1, <1>4, <2>1, <2>2 DEF HeapInv, ArraysAreListed, Cleaning, Dropping
<1>11. ArraysAreClean'
  BY <1>1 DEF ArraysAreClean, Cleaning, Dropping, Cleaned
<1>. QED
  BY <1>6, <1>7, <1>8, <1>9, <1>10, <1>11 DEF HeapInv

LEMMA SweepKeeps == ASSUME GcHeapAssumption, HeapInv, Sweep PROVE HeapInv'
<1>. DEFINE a == sweepHp
            dead == a \in Old /\ marks.color[a] = "white"
<1>1. /\ Young = {} /\ phase = "sweep" /\ a <= N
      /\ where' = (IF dead THEN [where EXCEPT ![a] = "free"] ELSE where)
      /\ weak' = (IF dead THEN weak \ {a} ELSE weak)
      /\ field' = (IF dead THEN [field EXCEPT ![a] = None] ELSE field)
      /\ marks' = [marks EXCEPT !.color[a] = "white"] /\ sweepHp' = a + 1
      /\ UNCHANGED <<root, refTable, weakRefs, phase, sub, markhp, weakPrev, weakList, final, todo>>
  BY DEF Sweep, Slice, tables, others
<1>2. /\ Shape /\ Old \subseteq Addr /\ None \notin Addr /\ 0 \notin Addr /\ weak \subseteq Old
      /\ refTable = {} /\ weakRefs = {} /\ a > 0 /\ NoneGray /\ marks.stack = <<>>
      /\ \A b \in Marked : b >= a
  BY <1>1, Blocks DEF HeapInv, Shape, Registered, Headers, None
<1>3. a \in Addr /\ a + 1 \in 0..(N + 1) /\ a \in Nat /\ a + 1 > 0 /\ Addr \subseteq Nat /\ 0 \in 0..Junk
  <2>1. a \in 0..(N + 1) /\ N \in Nat
    BY <1>2, Blocks DEF Shape
  <2>2. a + 1 \in 0..(N + 1) /\ a \in Nat /\ a \in Addr /\ a + 1 > 0
    BY <1>1, <1>2, <2>1 DEF Addr
  <2>. QED
    BY <2>1, <2>2 DEF Addr, Junk
<1>4. marks' \in Headings /\ marks'.stack = <<>> /\ marks'.color[a] = "white" /\ \A b \in Addr : b # a => ColorOf(b)' = ColorOf(b)
  <2>1. marks \in Headings /\ marks' = [marks EXCEPT !.color[a] = "white"]
    BY <1>1, <1>2 DEF Shape, Headings
  <2>. HIDE DEF a
  <2>2. marks' \in Headings /\ marks'.stack = marks.stack /\ marks'.color = [marks.color EXCEPT ![a] = "white"]
    BY <1>3, <2>1 DEF Headings
  <2>3. marks.color \in [Addr -> {"white", "gray", "black"}]
    BY <2>1 DEF Headings
  <2>. QED
    BY <1>2, <1>3, <2>2, <2>3 DEF ColorOf
<1>5. dead <=> a \in Doomed
  BY <1>1, <1>3 DEF Doomed, White, ColorOf
<1>. HIDE DEF a, dead
<1>6. /\ where' \in [Addr -> {"free", "young", "old"}] /\ Young' = {}
      /\ Old' = IF dead THEN Old \ {a} ELSE Old
  <2>1. CASE dead
    <3>1. where' = [where EXCEPT ![a] = "free"] /\ where \in [Addr -> {"free", "young", "old"}]
      BY <1>1, <1>2, <2>1 DEF Shape
    <3>2. where'[a] = "free" /\ \A b \in Addr : b # a => where'[b] = where[b]
      BY <1>3, <3>1
    <3>. QED
      BY <1>1, <1>3, <2>1, <3>1, <3>2 DEF Young, Old
  <2>2. CASE ~dead
    BY <1>1, <1>2, <2>2 DEF Young, Old, Shape
  <2>. QED
    BY <2>1, <2>2
<1>7. field' \in [Addr -> 0..Junk] /\ \A b \in Addr : b # a \/ ~dead => field'[b] = field[b]
  <2>1. field \in [Addr -> 0..Junk]
    BY <1>2 DEF Shape
  <2>. QED
    BY <1>1, <1>3, <2>1 DEF None
<1>8. Doomed' = Doomed \ {a}
  <2>1. \A b \in Addr : b >= a + 1 <=> (b >= a /\ b # a)
    BY <1>2, <1>3
  <2>2. \A b \in Addr : b \in Old' /\ b # a <=> b \in Old /\ b # a
    BY <1>6
  <2>3. \A b \in Addr : b # a => ColorOf(b)' = ColorOf(b)
    BY <1>4
  <2>4. Old' \subseteq Addr /\ phase' = "sweep" /\ sweepHp' = a + 1 /\ sweepHp = a
    BY <1>1, <1>2, <1>6 DEF a
  <2>. QED
    BY <1>1, <1>2, <2>1, <2>2, <2>3, <2>4 DEF Doomed, White
<1>9. Sound' = Sound
  BY <1>1, <1>5, <1>6, <1>8 DEF Sound
<1>10. Shape'
  BY <1>1, <1>2, <1>3, <1>4, <1>6, <1>7 DEF Shape, Headings
<1>11. Unused' /\ Registered' /\ GraysAreFound' /\ ReachableIsFound'
  BY <1>1, <1>6 DEF HeapInv, Unused, Registered, GraysAreFound, ReachableIsFound
<1>12. Headers'
  <2>0. Old' \subseteq Old /\ \A b \in Old' : b # a => ColorOf(b)' = ColorOf(b)
    BY <1>2, <1>4, <1>6
  <2>. DEFINE c(b) == marks'.color[b]
  <2>4. \A b \in Old' : c(b) = "white" \/ (b # a /\ c(b) = ColorOf(b))
    BY <1>4, <2>0 DEF ColorOf
  <2>1. NoneGray'
    BY <1>2, <2>0, <2>4 DEF NoneGray, ColorOf
  <2>2. \A b \in Marked' : b \in Marked /\ b # a
    BY <2>0, <2>4 DEF Marked, White, ColorOf
  <2>3. \A b \in Marked' : b >= a + 1
    <3>1. Marked \subseteq Addr /\ \A b \in Marked : b >= a
      BY <1>2 DEF Marked
    <3>2. \A b \in Marked' : b \in Nat /\ b >= a /\ b # a
      BY <1>3, <2>2, <3>1
    <3>. QED
      BY <1>3, <3>2
  <2>. QED
    BY <1>1, <1>3, <1>4, <2>1, <2>3 DEF Headers
<1>13. ValuesAreSound'
  <2>1. Range(todo') \subseteq Sound' \cap Old'
    BY <1>1, <1>2, <1>3, <1>5, <1>6, <1>9 DEF HeapInv, ValuesAreSound, Sound
  <2>2. \A b \in Sound' \cap Addr : field'[b] \in Sound'
    BY <1>2, <1>5, <1>7, <1>9 DEF HeapInv, ValuesAreSound, Sound
  <2>. QED
    BY <1>1, <1>9, <2>1, <2>2 DEF HeapInv, ValuesAreSound
<1>14. ArraysAreListed'
  <2>1. Range(weakList) \subseteq weak'
    BY <1>1, <1>5 DEF HeapInv, ArraysAreListed
  <2>2. \A w \in weak' \ Range(weakList) : w \in Doomed'
    BY <1>1, <1>5, <1>8 DEF HeapInv, ArraysAreListed, Cleaned
  <2>3. Range(weakList) \cap Doomed' = {}
    BY <1>8 DEF HeapInv, ArraysAreListed
  <2>. QED
    BY <1>1, <2>1, <2>2, <2>3 DEF HeapInv, ArraysAreListed, Cleaning, Dropping
<1>15. ArraysAreClean'
  BY <1>1 DEF ArraysAreClean, Cleaning, Dropping, Cleaned
<1>. QED
  BY <1>10, <1>11, <1>12, <1>13, <1>14, <1>15 DEF HeapInv

LEMMA EndSweepKeeps == ASSUME GcHeapAssumption, HeapInv, EndSweep PROVE HeapInv'
<1>1. /\ Young = {} /\ phase = "sweep" /\ sweepHp > N /\ phase' = "idle" /\ sweepHp' = 0
      /\ UNCHANGED <<where, weak, field, root, refTable, weakRefs, marks, sub, markhp, weakPrev, weakList, final, todo>>
  BY DEF EndSweep, Slice, heap, tables, others
<1>2. Shape /\ Old \subseteq 1..N /\ N \in Nat /\ sweepHp \in Nat
  BY Blocks DEF HeapInv, Shape, Addr
<1>3. Young' = {} /\ Old' = Old /\ Marked' = Marked
  BY <1>1 DEF Young, Old, Marked, White, ColorOf
<1>4. \A b \in Old : ~(b >= sweepHp)
  BY <1>1, <1>2
<1>5. Doomed = {} /\ Doomed' = {} /\ Sound' = Sound
  BY <1>1, <1>3, <1>4 DEF Doomed, White, Sound
<1>6. Shape'
  BY <1>1, <1>2, <1>3 DEF Shape
<1>7. Unused' /\ Registered' /\ GraysAreFound' /\ ReachableIsFound' /\ ValuesAreSound'
  BY <1>1, <1>3, <1>5 DEF HeapInv, Unused, Registered, GraysAreFound, ReachableIsFound, ValuesAreSound
<1>8. Headers'
  BY <1>1, <1>3, <1>4 DEF HeapInv, Headers, Marked
<1>9. ArraysAreListed'
  BY <1>1, <1>5 DEF HeapInv, ArraysAreListed, Cleaning, Dropping, Cleaned
<1>10. ArraysAreClean'
  BY <1>1 DEF ArraysAreClean, Cleaning, Dropping, Cleaned
<1>. QED
  BY <1>6, <1>7, <1>8, <1>9, <1>10 DEF HeapInv

(* ------------------------------ The theorem ----------------------------- *)
LEMMA HeapInvInit == ASSUME GcHeapAssumption, Init PROVE HeapInv
<1>1. Young = {} /\ Old = {} /\ N \in Nat
  BY DEF Init, Young, Old, GcHeapAssumption
<1>2. Marked = {} /\ Doomed = {} /\ Sound = {None}
  BY <1>1 DEF Marked, White, Doomed, Sound
<1>3. Range(todo) = {} /\ Range(weakList) = {}
  BY DEF Init, Range
<1>4. Shape
  BY <1>1 DEF Init, Shape, None, Junk
<1>. QED
  BY <1>1, <1>2, <1>3, <1>4 DEF Init, HeapInv, Unused, ValuesAreSound, Registered, Headers, GraysAreFound,
     ReachableIsFound, ArraysAreListed, ArraysAreClean, Cleaning, Dropping, Cleaned

LEMMA HeapInvNext ==
  ASSUME GcHeapAssumption, ~(Weak /\ Finalise), HeapInv, [Next]_vars PROVE HeapInv'
<1>1. ASSUME NEW r \in Roots, NEW s \in Roots,
             \/ Load(r, s) \/ Modify(r, s) \/ WeakSet(r, s) \/ WeakGet(r, s) \/ WeakBlit(r, s)
             \/ Forget(r) \/ FinalRegister(r) \/ FinalCall(r)
      PROVE  HeapInv'
  <2>1. FinalCall(r) => todo # <<>>
    BY DEF FinalCall
  <2>. QED
    BY <1>1, LoadKeeps, ModifyKeeps, WeakSetKeeps, WeakGetKeeps, WeakBlitKeeps, ForgetKeeps,
       FinalRegisterKeeps, FinalCallKeeps
<1>2. ASSUME NEW r \in Roots, NEW s \in Roots, NEW a \in Free,
             AllocSmall(r, s, a) \/ AllocShr(r, s, a) \/ WeakCreate(r, a) \/ WeakGetCopy(r, s, a)
      PROVE  HeapInv'
  BY <1>2, AllocSmallKeeps, AllocShrKeeps, WeakCreateKeeps, WeakGetCopyKeeps
<1>3. CASE EmptyMinorHeap
  BY <1>3, EmptyMinorHeapKeeps
<1>4. CASE StartCycle \/ MarkOne \/ StartWalk \/ Walk
  BY <1>4, StartCycleKeeps, MarkOneKeeps, WalkKeeps
<1>5. CASE EndMain \/ CleanWeak \/ DropWeak \/ FinalUpdate
  BY <1>5, EndMainKeeps, CleanWeakKeeps, DropWeakKeeps, FinalUpdateKeeps
<1>6. CASE StartSweep \/ Sweep \/ EndSweep
  BY <1>6, StartSweepKeeps, SweepKeeps, EndSweepKeeps
<1>7. CASE UNCHANGED vars
  <2>1. /\ UNCHANGED <<where, weak, field, root, refTable, weakRefs, marks, phase, sub, markhp, sweepHp,
                       weakList, weakPrev, final, todo>>
    BY <1>7 DEF vars
  <2>2. UNCHANGED <<Young, Old>>
    BY <2>1 DEF Young, Old
  <2>3. UNCHANGED <<White, Marked, NoneGray, Doomed, Sound>>
    BY <2>1, <2>2 DEF White, Marked, NoneGray, Doomed, Sound, ColorOf
  <2>4. UNCHANGED <<Found, Fine, Passed>>
    BY <2>1, <2>2, <2>3 DEF Found, Fine, Scanned, Passed, NextIndex, ColorOf
  <2>5. Shape' /\ Unused' /\ ValuesAreSound' /\ Registered' /\ Headers'
    BY <2>1, <2>2, <2>3 DEF HeapInv, Shape, Unused, ValuesAreSound, Registered, Headers
  <2>6. GraysAreFound' /\ ReachableIsFound'
    BY <2>1, <2>2, <2>4 DEF HeapInv, GraysAreFound, GrayIsFound, ReachableIsFound, ColorOf
  <2>7. ArraysAreListed' /\ ArraysAreClean'
    BY <2>1, <2>3, <2>4 DEF HeapInv, ArraysAreListed, ArraysAreClean, Cleaning, Dropping, Cleaned
  <2>. QED
    BY <2>5, <2>6, <2>7 DEF HeapInv
<1>. QED
  BY <1>1, <1>2, <1>3, <1>4, <1>5, <1>6, <1>7 DEF Next, Program, MajorSlice

\* What the invariant says of the blocks the program can reach.
LEMMA ReachableIsSound == ASSUME GcHeapAssumption, HeapInv PROVE Reachable \subseteq Sound \cap Addr
<1>. DEFINE next == [a \in 1..Junk |-> Strong(a)]
            s == ({root[r] : r \in Roots} \cup {todo[i] : i \in DOMAIN todo}) \ {None}
            T == Sound \cap Addr
<1>1. N \in Nat /\ Sound \subseteq {None} \cup Addr /\ Addr \subseteq 1..Junk /\ None \notin Addr
  BY Blocks DEF Sound, Addr, None
<1>2. s \subseteq T
  BY <1>1 DEF HeapInv, ValuesAreSound, Range
<1>3. ASSUME NEW a \in T PROVE next[a] \subseteq T
  <2>1. next[a] = Strong(a)
    BY <1>1
  <2>2. field[a] \in Sound
    BY DEF HeapInv, ValuesAreSound
  <2>. QED
    BY <1>1, <2>1, <2>2 DEF Strong
<1>. HIDE DEF next, s, T
<1>4. Spread(s, next) \subseteq T
  BY <1>1, <1>2, <1>3, SpreadIsLeast
<1>. QED
  BY <1>4 DEF Reachable, s, next, T

\* What the invariant says of the heaps.
LEMMA HeapInvShows ==
  ASSUME GcHeapAssumption, HeapInv
  PROVE  /\ TypeOK /\ ReachableIsAllocated /\ TablesAreComplete /\ GrayIsFound
         /\ WeakNeverDangles /\ FinalisableIsAllocated
<1>1. /\ Shape /\ ValuesAreSound /\ Registered /\ Headers /\ GraysAreFound /\ ArraysAreListed
      /\ Reachable \subseteq Sound \cap Addr /\ Old \subseteq Addr /\ Young \subseteq Addr /\ None \notin Addr
      /\ Young \cap Old = {}
  BY ReachableIsSound, Blocks DEF HeapInv, None
<1>2. TypeOK
  <2>1. \A a \in Old : /\ marks.color[a] = "gray" => phase = "mark"
                       /\ marks.color[a] = "black" => phase = "mark" \/ (phase = "sweep" /\ a >= sweepHp)
    BY <1>1 DEF Shape, Headers, NoneGray, Marked, White, ColorOf
  <2>2. Range(weakList) \subseteq Addr
    BY <1>1 DEF ArraysAreListed, Shape
  <2>. QED
    BY <1>1, <2>1, <2>2 DEF TypeOK, Shape
<1>3. ReachableIsAllocated
  BY <1>1 DEF ReachableIsAllocated, Sound
<1>4. TablesAreComplete
  BY <1>1 DEF TablesAreComplete, Registered, Shape
<1>5. GrayIsFound
  <2>1. phase = "mark" => GrayIsFound
    BY <1>1 DEF GraysAreFound
  <2>2. phase # "mark" => GrayIsFound
    BY DEF GrayIsFound
  <2>. QED
    BY <2>1, <2>2
<1>6. WeakNeverDangles
  BY <1>1 DEF WeakNeverDangles, ValuesAreSound, Sound
<1>7. FinalisableIsAllocated
  BY <1>1 DEF FinalisableIsAllocated, ValuesAreSound, Sound, Shape
<1>. QED
  BY <1>2, <1>3, <1>4, <1>5, <1>6, <1>7

\* What the program can reach is never taken away from it, by either collector: every block it
\* reaches from a root or from the queue of finalised values is allocated, its pointers to young
\* blocks are registered, the weak pointers it can get hold blocks that are there, finalisable
\* values are kept for their functions, and no gray block is forgotten.  For every heap, set of
\* roots and capacity of gray_vals; the program uses weak arrays or finalisation functions, not both.
THEOREM ReachableIsNeverFreed ==
  ASSUME GcHeapAssumption, ~(Weak /\ Finalise)
  PROVE  Spec => [](TypeOK /\ ReachableIsAllocated /\ TablesAreComplete /\ GrayIsFound
                    /\ WeakNeverDangles /\ FinalisableIsAllocated)
<1>1. Init => HeapInv
  BY HeapInvInit
<1>2. HeapInv /\ [Next]_vars => HeapInv'
  BY HeapInvNext
<1>3. HeapInv => /\ TypeOK /\ ReachableIsAllocated /\ TablesAreComplete /\ GrayIsFound
                 /\ WeakNeverDangles /\ FinalisableIsAllocated
  BY HeapInvShows
<1>. QED
  BY <1>1, <1>2, <1>3, PTL DEF Spec
=============================================================================
