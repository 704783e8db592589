-------------------------------- MODULE MCGc --------------------------------
(***************************************************************************)
(* The collector: the order of its work and its counters (GcControl, small *)
(* sizes), and the two heaps it works on (GcHeap), with weak arrays, with  *)
(* finalisation functions, and with both in the hands of a program that    *)
(* allocates nothing more.  A behaviour runs one of them, part; the other  *)
(* keeps to an initial state.                                              *)
(***************************************************************************)
EXTENDS GcControl, TLC

CONSTANTS r1, r2, Parts

VARIABLES part,
          where, weak, field, root, refTable, weakRefs, marks, hPhase, sub, markhp, sweepHp,
          weakList, weakPrev, final, hTodo
heapVars == <<where, weak, field, root, refTable, weakRefs, marks, hPhase, sub, markhp, sweepHp,
              weakList, weakPrev, final, hTodo>>
allVars == <<part, vars, heapVars>>

Roots == {r1, r2}
Symmetry == Permutations(Roots)

\* Three blocks, weak arrays, and a gray stack of two.
W == INSTANCE GcHeap WITH N <- 3, GrayCap <- 2, GrayKept <- 1, Weak <- TRUE, Finalise <- FALSE,
                          phase <- hPhase, todo <- hTodo
\* Two blocks with finalisation functions, and a gray stack that overflows at every push.
F == INSTANCE GcHeap WITH N <- 2, GrayCap <- 1, GrayKept <- 0, Weak <- FALSE, Finalise <- TRUE,
                          phase <- hPhase, todo <- hTodo

ASSUME HeapAssumptions == W!GcHeapAssumption /\ F!GcHeapAssumption

\* A program gave 1 a finalisation function; 1 points to the weak array 2, and the array to 3,
\* which one of its roots holds.  From there on it allocates nothing.
QuietInit ==
  /\ where = [a \in 1..3 |-> "old"] /\ weak = {2} /\ field = <<2, 3, 0>>
  /\ \E r \in Roots : root = [s \in Roots |-> IF s = r THEN 3 ELSE 0]
  /\ refTable = {} /\ weakRefs = {}
  /\ marks = [color |-> [a \in 1..3 |-> "white"], stack |-> <<>>, pure |-> TRUE]
  /\ hPhase = "idle" /\ sub = "main" /\ markhp = 0 /\ sweepHp = 0
  /\ weakList = <<2>> /\ weakPrev = 0 /\ final = {1} /\ hTodo = <<>>
QuietNext == \/ \E r, s \in Roots : W!Load(r, s) \/ W!WeakGet(r, s) \/ W!Forget(r) \/ W!FinalCall(r)
             \/ W!MajorSlice

OneOf(S) == CHOOSE x \in S : TRUE
AllInit ==
  /\ part \in Parts
  /\ Init
  /\ part # "control" => /\ minorSize = NormMin(OneOf(MinorSizes)) /\ increment = NormIncr(OneOf(Increments))
                         /\ percentMax = OneOf(Overheads)
  /\ CASE part = "quiet" -> QuietInit
       [] part = "final" -> F!Init
       [] OTHER -> W!Init

ControlStep == part = "control" /\ Next /\ UNCHANGED <<part, heapVars>>
WeakStep == part = "weak" /\ W!Next /\ UNCHANGED <<part, vars>>
FinalStep == part = "final" /\ F!Next /\ UNCHANGED <<part, vars>>
QuietStep == part = "quiet" /\ QuietNext /\ UNCHANGED <<part, vars>>
AllNext == ControlStep \/ WeakStep \/ FinalStep \/ QuietStep
AllSpec == AllInit /\ [][AllNext]_allVars

(* ------------------------------ Properties ------------------------------ *)
\* Whatever the program can reach, through its roots or a finalisation function, is there and
\* found by the next minor collection, and a weak pointer is erased before what it points to goes.
ReachableIsKept ==
  /\ part = "weak" => W!ReachableIsAllocated /\ W!TablesAreComplete /\ W!WeakNeverDangles
  /\ part = "final" => F!ReachableIsAllocated /\ F!FinalisableIsAllocated

\* The heap is whole: its size is that of its chunks, and no block is marked twice or forgotten
\* gray, or keeps a mark into the next cycle.
HeapsAreWhole == /\ HeapIsItsChunks
                 /\ part = "weak" => W!TypeOK /\ W!GrayIsFound
                 /\ part = "final" => F!TypeOK /\ F!GrayIsFound

\* weak.mli:25: a weak pointer is "empty if the value was erased by the GC".
WeakNeverDangles == part = "quiet" => W!WeakNeverDangles
=============================================================================
