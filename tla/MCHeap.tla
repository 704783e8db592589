------------------------------- MODULE MCHeap -------------------------------
(***************************************************************************)
(* The heap: the table of young pointers (RefTable), the free list and its *)
(* sweep (FreeList), the compaction (Compact), the primitives that make    *)
(* blocks (Blocks), and a collector that must find the garbage (GcHeap).   *)
(* A behaviour runs one of them, part; the others keep to an initial state.*)
(***************************************************************************)
EXTENDS RefTable, TLC, SequencesExt

CONSTANTS Parts, MaxOps

VARIABLES part,
          hd, fl, flPrev, flMerge, flSize, fragment, phase, sweepHp, sweepLimit, chunks, live, untold,
          mem, before, pass, todo, alloc, compactFl, fault, kept,
          where, fields, raw, roots, global, bTable, call, ops, finals,
          gWhere, weak, field, root, refTable, weakRefs, marks, gPhase, sub, markhp, gSweepHp,
          weakList, weakPrev, final, gTodo
listVars == <<hd, fl, flPrev, flMerge, flSize, fragment, phase, sweepHp, sweepLimit, chunks, live, untold>>
compactVars == <<mem, before, pass, todo, alloc, compactFl, fault, kept>>
blockVars == <<where, fields, raw, roots, global, bTable, call, ops, finals>>
gcVars == <<gWhere, weak, field, root, refTable, weakRefs, marks, gPhase, sub, markhp, gSweepHp,
            weakList, weakPrev, final, gTodo>>
allVars == <<part, refVars, listVars, compactVars, blockVars, gcVars>>

(* ------------------------------- Free list ------------------------------ *)
\* A first chunk of seven words in the middle, one of three below it and one of three above it
\* that the heap may grow by; blocks of one and two words.
Words(lo, hi) == [lo |-> lo, hi |-> hi]
ListChunks == {Words(2, 4), Words(6, 12), Words(14, 16)}
L == INSTANCE FreeList WITH MaxWosize <- 6, Chunk <- ListChunks, FirstChunk <- Words(6, 12),
                            Wosizes <- {1, 2}, SizeModulus <- 32, limit <- sweepLimit
\* Blocks of at most three words: the first chunk and the one above it are cut in two.
P == INSTANCE FreeList WITH MaxWosize <- 3, Chunk <- {Words(6, 12), Words(14, 19)},
                            FirstChunk <- Words(6, 12),
                            Wosizes <- {1, 3}, SizeModulus <- 32, limit <- sweepLimit

(* ------------------------------ Compaction ------------------------------ *)
\* Two chunks of ten and eight words.  A layout says which blocks fill each of them; the fields
\* of scanned blocks (Open), the pointers of weak arrays and the roots are any values.
Open == -1
Hdr(wo, tag) == 1024 * wo + tag               \* white
Closure == 247   Infix == 249   NoScan == 251   String == 252
Plain1 == <<Hdr(1, 0), Open>>
Plain2 == <<Hdr(2, 0), Open, Open>>
Str1 == <<Hdr(1, String), 804>>
Closure1 == <<Hdr(3, Closure), 1, Hdr(2, Infix), 3>>
Closure2 == <<Hdr(5, Closure), 1, Hdr(2, Infix), 3, Hdr(4, Infix), 5>>
Weak1 == <<Hdr(2, NoScan), 0, Open>>
Hole(n) == <<1024 * (n - 1) + 512>> \o [i \in 1..(n - 1) |-> 404]
StrOf(n) == <<Hdr(n - 1, String)>> \o [i \in 1..(n - 1) |-> 1]
Layouts == {<<Hole(2) \o Closure2 \o Plain1, Plain2 \o Hole(5)>>,
            <<Plain1 \o Hole(3) \o Closure1 \o <<Hdr(0, 0)>>, Plain2 \o Hole(5)>>,
            <<Hole(3) \o Plain2 \o Str1 \o Hole(2), Closure1 \o Hole(4)>>,
            <<Weak1 \o Hole(3) \o Plain1 \o Str1, Plain1 \o Hole(6)>>,
            <<StrOf(10), Plain2 \o StrOf(3) \o StrOf(2)>>,
            <<StrOf(10), Plain2 \o StrOf(2) \o <<Hdr(0, 0)>> \o StrOf(2)>>,
            <<Plain2 \o Hole(5) \o StrOf(2), StrOf(6) \o StrOf(2)>>}
Fill(layout) ==
  LET word(a) == IF a < 800 THEN layout[1][(a - 400) \div 4 + 1] ELSE layout[2][(a - 800) \div 4 + 1]
      addrs == {400 + 4 * i : i \in 0..9} \cup {800 + 4 * i : i \in 0..7}
      open == {a \in addrs : word(a) = Open} \cup {4, 8}
      headers == {Hdr(w, t) : w \in 1..9, t \in {0, String, Closure, Infix, NoScan}}
      arrays == {a \in addrs : word(a) = Weak1[1]}
      values == {1} \cup {a + 4 : a \in {b \in addrs : word(b) \in headers}}
  IN {[a \in addrs \cup {4, 8, 12} |->
         IF a \in open THEN f[a]
         ELSE IF a = 12 THEN IF arrays = {} THEN 0 ELSE 4 + CHOOSE b \in arrays : TRUE
         ELSE word(a)] : f \in [open -> values]}
Memories == UNION {Fill(l) : l \in Layouts}
C == INSTANCE Compact WITH Chunks <- <<[lo |-> 400, words |-> 10], [lo |-> 800, words |-> 8]>>,
                           RootSlots <- {4, 8}, WeakHead <- 12, Heaps <- Memories, fl <- compactFl

(* ----------------------- Primitives and the garbage --------------------- *)
\* Blocks of up to two fields, small ones of one.
B == INSTANCE Blocks WITH Ids <- 1..4, Roots <- {"x", "y"}, MaxYoung <- 1, MaxSize <- 2, MaxFinals <- 1,
                          table <- bTable
\* Two blocks, one of them perhaps a weak array, and a gray stack that overflows at every push.
G == INSTANCE GcHeap WITH N <- 2, Roots <- {"x", "y"}, GrayCap <- 1, GrayKept <- 0, Weak <- TRUE,
                          Finalise <- FALSE, where <- gWhere, phase <- gPhase, sweepHp <- gSweepHp, todo <- gTodo

ASSUME PartAssumptions == L!FreeListAssumption /\ P!FreeListAssumption /\ B!BlocksAssumption /\ G!GcHeapAssumption

AllInit ==
  /\ part \in Parts
  /\ RefInit /\ G!Init
  /\ IF part = "pieces" THEN P!Init ELSE L!Init
  /\ where = [b \in 1..4 |-> IF b = 1 THEN "old" ELSE "free"] /\ B!Init
  /\ part # "compact" => mem = CHOOSE m \in Memories : TRUE
  /\ C!Init

TablePart == part = "table" /\ RefNext /\ UNCHANGED <<part, listVars, compactVars, blockVars, gcVars>>
ListPart == part = "list" /\ L!Next /\ UNCHANGED <<part, refVars, compactVars, blockVars, gcVars>>
PiecesPart == part = "pieces" /\ P!Next /\ UNCHANGED <<part, refVars, compactVars, blockVars, gcVars>>
CompactPart == part = "compact" /\ C!Next /\ UNCHANGED <<part, refVars, listVars, blockVars, gcVars>>
BlockPart == part = "blocks" /\ B!Next /\ UNCHANGED <<part, refVars, listVars, compactVars, gcVars>>
OtherThanGc == UNCHANGED <<part, refVars, listVars, compactVars, blockVars>>
ProgramPart == part = "garbage" /\ G!Program /\ OtherThanGc
MinorPart == part = "garbage" /\ G!EmptyMinorHeap /\ OtherThanGc
MajorPart == part = "garbage" /\ G!MajorSlice /\ OtherThanGc
AllNext == TablePart \/ ListPart \/ PiecesPart \/ CompactPart \/ BlockPart \/ ProgramPart \/ MinorPart \/ MajorPart

\* A program that keeps allocating fills the minor heap; each collection runs a slice.
AllSpec == AllInit /\ [][AllNext]_allVars /\ WF_allVars(MinorPart) /\ SF_allVars(MajorPart)

(* ------------------------------ Properties ------------------------------ *)
\* The chunks are tiled, and the list holds their free blocks in order, whatever allocations
\* and new chunks come between two steps of a sweep: no block in use is on it, no dead one off it.
FreeListIsExact ==
  /\ part = "list" => /\ L!TypeOK /\ L!HeapIsTiled /\ L!ListIsBlue /\ L!MergeIsLastSwept
                      /\ L!SizeIsExact /\ L!StatIsExact /\ L!LiveIsIntact /\ L!NothingIsLost
  /\ part = "pieces" => /\ P!TypeOK /\ P!HeapIsTiled /\ P!ListIsBlue /\ P!MergeIsLastSwept
                        /\ P!SizeIsExact /\ P!StatIsExact /\ P!LiveIsIntact /\ P!NothingIsLost

\* freelist.c:48 and :76: caml_fl_cur_size is the number of words in the free list.
CurSizeIsThatOfList == part = "pieces" => P!SizeIsThatOfList

\* Compaction keeps the program's graph of blocks, moves none up or over another, leaves the
\* free words of each chunk in one piece, and gives back no chunk in use; it looks for a chunk
\* after the last one only when every chunk is full but for three fields.
CompactionKeepsGraph == part = "compact" =>
  C!GraphIsKept /\ C!IsCompact /\ C!MovesDown /\ C!KeptAreUsed /\ C!FaultsOnlyWhenFull

\* A primitive's result is what was asked for wherever collections come in it, and leaves no
\* uninitialised field and no young pointer the tables do not know.
BlocksAreWhole == part = "blocks" => B!HeapIsSound /\ B!OldIsRemembered /\ B!ResultIsWhole

\* Each block of the major heap that the program has lost is collected in this cycle or the next,
\* unless a weak pointer gives it back.
GarbageGoes == \A a \in 1..2 : []<>(part = "garbage" => a \notin G!Lost)
=============================================================================
