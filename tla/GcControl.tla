------------------------------ MODULE GcControl -------------------------------
(***************************************************************************)
(* The order of the collector's work: what each allocation and each        *)
(* operation of Gc asks of the minor heap, the major cycle, the compacter  *)
(* and the finalisers, with the counters and the parameters of Gc          *)
(* (byterun/gc_ctrl.c, minor_gc.c, major_gc.c, memory.c, compact.c).       *)
(* `todo' is what the C functions under way have still to do.  Sizes are   *)
(* in words; overheads are multiples of the live data.                     *)
(***************************************************************************)
EXTENDS Naturals, Sequences, SequencesExt

CONSTANTS MinorMin,      \* Minor_heap_min
          WordSize,      \* sizeof (value)
          ChunkMin,      \* Heap_chunk_min, of one page
          MaxYoung,      \* Max_young_wosize + 1
          Never,         \* the overhead of 1000000 %
          WarmUp,        \* the cycles before the first automatic compaction
          MinorSizes, Increments, Overheads,   \* what Gc.set is called with
          MaxWords, MaxCalls, MaxFinals        \* bounds: words, calls of Gc, finalisers

ASSUME GcAssumption == /\ MinorMin \in Nat \ {0} /\ WordSize \in Nat \ {0} /\ ChunkMin \in Nat \ {0}
                       /\ MaxYoung \in Nat \ {0} /\ MaxYoung * WordSize <= MinorMin
                       /\ MinorMin % WordSize = 0     \* 4096, and 4 or 8
                       /\ {Never, WarmUp, MaxWords, MaxCalls, MaxFinals} \subseteq Nat
                       /\ MinorSizes \cup Increments \cup Overheads \subseteq Nat

VARIABLES young,         \* words between young_ptr and young_end
          minorSize, increment, percentMax,
          allocated,     \* caml_allocated_words
          stat,          \* the caml_stat_ counters
          chunks, heapSize, top, free, atChange,
          phase, force,
          todo,
          running,       \* running_finalisation_function
          did            \* history: the words allocated; the calls and finalisers run
vars == <<young, minorSize, increment, percentMax, allocated, stat, chunks, heapSize, top, free,
          atChange, phase, force, todo, running, did>>
heap == <<chunks, heapSize, top, free>>
settings == <<minorSize, increment, percentMax>>

MaxOf(a, b) == IF a < b THEN b ELSE a
MinOf(a, b) == IF a < b THEN a ELSE b
PagesAndOne(n) == (n \div ChunkMin + 1) * ChunkMin
Pages(n) == ((n + ChunkMin - 1) \div ChunkMin) * ChunkMin
\* norm_heapincr, norm_minsize (of a size in bytes), caml_round_heap_chunk_size.
NormIncr(i) == MaxOf(Pages(i), ChunkMin)
NormMin(s) == MaxOf(s, MinorMin)
RoundChunk(n) == Pages(MaxOf(MaxOf(n, increment), ChunkMin))

Init == /\ \E s \in MinorSizes : minorSize = NormMin(s)
        /\ \E i \in Increments : increment = NormIncr(i)
        /\ percentMax \in Overheads
        /\ chunks = <<ChunkMin>> /\ heapSize = ChunkMin /\ top = ChunkMin
        /\ free = ChunkMin - 1      \* something is always live
        /\ young = 0 /\ allocated = 0 /\ atChange = 0 /\ phase = "idle" /\ force = FALSE
        /\ stat = [minor |-> 0, promoted |-> 0, major |-> 0, minors |-> 0, majors |-> 0, compactions |-> 0]
        /\ todo = <<>> /\ running = FALSE
        /\ did = [minor |-> 0, promoted |-> 0, direct |-> 0, calls |-> 0, finals |-> 0]

Do(op) == [op |-> op, size |-> 0]
Sized(op, n) == [op |-> op, size |-> n]
Steps(ops) == [i \in DOMAIN ops |-> Do(ops[i])]
MinorCollectionHurried == Steps(<<"collect", "slice", "unforce", "final">>)
MinorCollectionEager == Steps(<<"collect", "unforce", "slice", "final", "empty">>)
\* caml_minor_collection.
MinorCollection == Steps(<<"collect", "slice", "unforce", "final", "empty">>)
At(op) == todo # <<>> /\ Head(todo).op = op

\* caml_add_to_heap
AddToHeap(c) == chunks' = Append(chunks, c) /\ heapSize' = heapSize + c /\ top' = MaxOf(top, heapSize + c)
\* caml_alloc_shr of n words in all: from the free list, or from a new chunk (expand_heap).
AllocShr(n) ==
  /\ IF free >= n THEN free' = free - n /\ UNCHANGED <<chunks, heapSize, top>>
     ELSE AddToHeap(RoundChunk(n)) /\ free' = free + RoundChunk(n) - n
  /\ allocated' = allocated + n
  /\ force' = (force \/ (n > 0 /\ allocated + n > minorSize))

(* ---------------------------- What is asked ----------------------------- *)
\* Alloc_small of n words, header included: at once, or after a minor collection.
FillYoung(n, then) == /\ young' = young + n /\ did' = [did EXCEPT !.minor = @ + n] /\ todo' = then
                      /\ UNCHANGED <<settings, allocated, stat, heap, atChange, phase, force>>
AllocSmall(n, then) ==
  /\ did.minor + did.direct + n <= MaxWords
  /\ IF young + n <= minorSize THEN FillYoung(n, then)
     ELSE /\ todo' = MinorCollection \o <<Sized("young", n)>> \o then
          /\ UNCHANGED <<young, settings, allocated, stat, heap, atChange, phase, force, did>>
AllocLarge(n, then) == /\ did.minor + did.direct + n <= MaxWords /\ AllocShr(n)
                       /\ did' = [did EXCEPT !.direct = @ + n] /\ todo' = then
                       /\ UNCHANGED <<young, settings, stat, atChange, phase>>

OperationsHurried == {<<"empty", "finish", "final", "finish", "test", "final">>}
\* caml_gc_minor, caml_gc_major, caml_gc_full_major, caml_gc_major_slice, caml_gc_compaction.
Operations == {<<"empty", "finish", "test", "final">>,
               <<"empty", "finish", "final", "empty", "finish", "test", "final">>,
               <<"empty", "slice">>,
               <<"empty", "finish", "finish", "compact", "final">>}
Call(then) == /\ did.calls < MaxCalls /\ did' = [did EXCEPT !.calls = @ + 1]
              /\ \E w \in {MinorCollection} \cup {Steps(o) : o \in Operations} : todo' = w \o then
              /\ UNCHANGED <<young, settings, allocated, stat, heap, atChange, phase, force>>
\* caml_gc_set: the minor heap comes last, as its change runs a minor collection.
Set(then) ==
  /\ did.calls < MaxCalls /\ did' = [did EXCEPT !.calls = @ + 1]
  /\ percentMax' \in Overheads /\ \E i \in Increments : increment' = NormIncr(i)
  /\ \E s \in MinorSizes : LET bytes == NormMin(s * WordSize) IN
       todo' = (IF bytes = minorSize * WordSize THEN <<>>
                ELSE (IF young # 0 THEN MinorCollection ELSE <<>>) \o <<Sized("resize", bytes \div WordSize)>>) \o then
  /\ UNCHANGED <<young, minorSize, allocated, stat, heap, atChange, phase, force>>
\* caml_process_event, caml_check_urgent_gc.
Urgent(then) == /\ force /\ todo' = MinorCollection \o then
                /\ UNCHANGED <<young, settings, allocated, stat, heap, atChange, phase, force, did>>
\* What OCaml code may ask next, then being what its caller has still to do.
Program(then) == \/ \E n \in 1..MaxYoung : AllocSmall(n, then)
                 \/ \E n \in 1..MaxWords : n > MaxYoung /\ AllocLarge(n, then)
                 \/ Call(then) \/ Set(then) \/ Urgent(then)

(* ------------------------------ What is done ----------------------------- *)
\* caml_empty_minor_heap: n of the young words survive.
EmptyMinor(n) == /\ n <= young /\ AllocShr(n) /\ young' = 0
                 /\ did' = [did EXCEPT !.promoted = @ + n]
Empty == /\ At("empty") /\ todo' = Tail(todo)
         /\ \E n \in 0..young : EmptyMinor(n)
         /\ stat' = [stat EXCEPT !.minor = @ + young]
         /\ UNCHANGED <<settings, atChange, phase, running>>
Collect == /\ At("collect") /\ todo' = Tail(todo)
           /\ \E n \in 0..young : EmptyMinor(n)
           /\ stat' = [stat EXCEPT !.minor = @ + young, !.minors = @ + 1,
                                   !.promoted = @ + (allocated' - allocated)]
           /\ UNCHANGED <<settings, atChange, phase, running>>

\* Bound: what a slice finds dead is nothing, or all but a word.
Swept(g) == free' = free + g /\ UNCHANGED <<chunks, heapSize, top>>
\* caml_major_collection_slice: from idle a cycle starts; a slice marks or sweeps, not both.
MarkSlice == /\ At("slice") /\ phase \in {"idle", "mark"}
             /\ phase' \in {"mark", "sweep"} /\ atChange' = (IF phase' = "sweep" THEN free ELSE atChange)
             /\ todo' = <<Do("account")>> \o Tail(todo)
             /\ UNCHANGED <<young, settings, allocated, stat, heap, force, did, running>>
SweepSlice == /\ At("slice") /\ phase = "sweep"
              /\ phase' \in {"sweep", "idle"} /\ \E g \in {0, heapSize - free - 1} : Swept(g)
              /\ stat' = [stat EXCEPT !.majors = @ + IF phase' = "idle" THEN 1 ELSE 0]
              /\ todo' = Steps(IF phase' = "idle" THEN <<"maybe", "account">> ELSE <<"account">>) \o Tail(todo)
              /\ UNCHANGED <<young, settings, allocated, atChange, force, did, running>>
AccountedNot == stat' = [stat EXCEPT !.major = @ + allocated] /\ allocated' = allocated
Accounted == stat' = [stat EXCEPT !.major = @ + allocated] /\ allocated' = 0
Account == /\ At("account") /\ todo' = Tail(todo) /\ Accounted
           /\ UNCHANGED <<young, settings, heap, atChange, phase, force, did, running>>
\* caml_finish_major_cycle: from idle a whole cycle.
Finish == /\ At("finish") /\ todo' = Tail(todo) /\ phase' = "idle"
          /\ \E g \in {0, heapSize - free - 1} : Swept(g)
          /\ atChange' = (IF phase = "sweep" THEN atChange ELSE free)
          /\ stat' = [stat EXCEPT !.major = @ + allocated, !.majors = @ + 1] /\ allocated' = 0
          /\ UNCHANGED <<young, settings, force, did, running>>

\* free words f are at least percentMax of the rest; all the heap free counts as Never.
TooFree(f) == percentMax <= Never /\ (f >= heapSize \/ f >= percentMax * (heapSize - f))
\* caml_compact_heap_maybe: on an estimate of the free words at the end of an incremental cycle.
Estimate == IF 3 * free < 2 * atChange THEN free ELSE 3 * free - 2 * atChange
Maybe == /\ At("maybe")
         /\ todo' = (IF percentMax < Never /\ stat.majors >= WarmUp /\ Len(chunks) >= 2 /\ TooFree(Estimate)
                     THEN Steps(<<"finish", "compact">>) ELSE <<>>) \o Tail(todo)
         /\ UNCHANGED <<young, settings, allocated, stat, heap, atChange, phase, force, did, running>>
\* test_and_compact.
Test == /\ At("test")
        /\ todo' = (IF TooFree(free) /\ Len(chunks) > 1 THEN Steps(<<"compact">>) ELSE <<>>) \o Tail(todo)
        /\ UNCHANGED <<young, settings, allocated, stat, heap, atChange, phase, force, did, running>>
ShrinkUncounted(i) == /\ chunks' = RemoveAt(chunks, i) /\ heapSize' = heapSize - 1
                      /\ free' = MinOf(free, heapSize - 1) /\ UNCHANGED top
\* caml_compact_heap: some chunks, never the first, are given back (caml_shrink_heap).
Shrink(i) == /\ chunks' = RemoveAt(chunks, i) /\ heapSize' = heapSize - chunks[i] /\ free' = free - chunks[i]
             /\ UNCHANGED top
Compacted == /\ At("compact") /\ todo' = Tail(todo) /\ stat' = [stat EXCEPT !.compactions = @ + 1]
             /\ \/ UNCHANGED heap
                \/ \E i \in 2..Len(chunks) : chunks[i] <= free /\ Shrink(i)
             /\ UNCHANGED <<young, settings, allocated, atChange, phase, force, did, running>>

Unforce == /\ At("unforce") /\ todo' = Tail(todo) /\ force' = FALSE
           /\ UNCHANGED <<young, settings, allocated, stat, heap, atChange, phase, did, running>>
\* caml_final_do_calls, unless it runs: a finaliser asks for anything, ends, or raises over all
\* that is to do.
Finaliser == At("final") /\ ~running /\ did.finals < MaxFinals /\ running' = TRUE
             /\ Program(<<Do("ended")>> \o todo)
Ended == /\ At("ended") /\ todo' = Tail(todo) /\ running' = FALSE
         /\ did' = [did EXCEPT !.finals = @ + 1]
         /\ UNCHANGED <<young, settings, allocated, stat, heap, atChange, phase, force>>
FinalRaises == /\ At("ended") /\ todo' = <<>>
               /\ did' = [did EXCEPT !.finals = @ + 1]
               /\ UNCHANGED <<young, settings, allocated, stat, heap, atChange, phase, force, running>>
FinalDone == /\ At("final") /\ todo' = Tail(todo)
             /\ UNCHANGED <<young, settings, allocated, stat, heap, atChange, phase, force, did, running>>
AllocAgain == At("young") /\ FillYoung(Head(todo).size, Tail(todo)) /\ UNCHANGED running
\* caml_set_minor_heap_size: the new heap, or Out_of_memory with the old one.
Resize == /\ At("resize") /\ minorSize' = Head(todo).size /\ todo' = Tail(todo)
          /\ UNCHANGED <<young, increment, percentMax, allocated, stat, heap, atChange, phase, force, did, running>>
ResizeFails == /\ At("resize") /\ todo' = <<>>
               /\ UNCHANGED <<young, settings, allocated, stat, heap, atChange, phase, force, did, running>>

Ask == todo = <<>> /\ Program(<<>>) /\ UNCHANGED running
Next == \/ Ask \/ Empty \/ Collect \/ MarkSlice \/ SweepSlice \/ Account \/ Finish \/ Maybe
        \/ Test \/ Compacted \/ Unforce \/ FinalRaises \/ FinalDone \/ AllocAgain \/ Resize \/ ResizeFails
        \/ Finaliser \/ Ended
Spec == Init /\ [][Next]_vars

(* ------------------------------ Properties ------------------------------ *)
\* The major collector and the compacter only ever work with the minor heap empty (comment of
\* caml_finish_major_cycle), the compacter between cycles (assertion of caml_compact_heap), and
\* no allocation overruns the minor heap, whatever the finalisers allocate.
MajorWorksAlone == todo # <<>> => /\ Head(todo).op \in {"slice", "finish", "compact", "resize"} => young = 0
                                  /\ Head(todo).op = "compact" => phase = "idle"
MinorHeapFits == young <= minorSize
\* What Gc.counters returns: the words ever allocated in the minor heap, and those allocated in
\* the major heap with the promoted ones, in the middle of any operation.
Counters == [minor |-> stat.minor + young, major |-> stat.major + allocated]
CountersAreExact == Counters = [minor |-> did.minor, major |-> did.direct + did.promoted]
Total(s) == LET upTo[n \in 0..Len(s)] == IF n = 0 THEN 0 ELSE upTo[n - 1] + s[n] IN upTo[Len(s)]
\* The size of the heap is that of its chunks (caml_stat_heap_size).
HeapIsItsChunks == heapSize = Total(chunks)
\* It has been at most top (Gc.stat), and the free words are some of the heap's.
SizesAreOrdered == free <= heapSize /\ heapSize <= top
\* A request for a slice is dropped only once all that was allocated is accounted for.
RequestsAreServed == [][force /\ ~force' => allocated = 0]_vars
\* Gc.set (Gc.get ()) changes no parameter and runs no collection: sizes are rounded once.
SizesAreStable == NormIncr(increment) = increment /\ NormMin(minorSize * WordSize) = minorSize * WordSize
\* The collectors take turns: nothing is left in the minor heap when the major one or the
\* compacter works, no allocation overruns it, and the sizes keep to their limits and settings.
CollectionsAreInOrder == MajorWorksAlone /\ MinorHeapFits /\ SizesAreOrdered /\ SizesAreStable
================================================================================
