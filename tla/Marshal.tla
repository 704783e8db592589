------------------------------- MODULE Marshal -------------------------------
(***************************************************************************)
(* byterun/extern.c and byterun/intern.c: a value is written as a message  *)
(* and read back, here or on a machine with another word size.  Each step  *)
(* is one round of extern_rec or intern_rec; their recursion is a sequence *)
(* of values left to write, or of places left to fill.                     *)
(* A byte has ByteBits bits, so that every width of the format is small.   *)
(***************************************************************************)
EXTENDS Integers, Sequences, FiniteSets, SequencesExt

CONSTANTS Graphs,        \* [heap, root]: a value and the blocks it is made of
          ByteBits,
          Buffers,       \* where to write: 0 for the buffers of extern.c, n for a user's buffer of n bytes
          OutputBlock,   \* SIZE_EXTERN_OUTPUT_BLOCK
          TrailEntries,  \* ENTRIES_PER_TRAIL_BLOCK
          MaxWosize      \* above it intern_alloc takes a chunk of its own

MarshalAssumption == {ByteBits, OutputBlock, TrailEntries, MaxWosize} \subseteq Nat \ {0}

VARIABLES graph, sharing, closures, buffer,          \* what is asked: the value, the flags, where to
          phase, error,
          heap, todo, trail, counter, size,          \* extern: size[w], for words of w bytes
          out,                                       \* the output blocks: [toks, used, limit]
          wordSize, sameCode, message,               \* the reader
          src, dests, made, table, used, held, header, root
asked == <<graph, sharing, closures, buffer>>
externing == <<heap, todo, trail, counter, size, out>>
reader == <<wordSize, sameCode, message>>
interning == <<src, dests, made, table, used, held, header, root>>
vars == <<asked, phase, error, externing, reader, interning>>

Int_(n) == [k |-> "int", n |-> n]
Raw(n) == [k |-> "raw", n |-> n]              \* bytes that are no value
PtrTo(a) == [k |-> "ptr", n |-> a]
InfixTo(a) == [k |-> "infix", n |-> a]        \* into the closure at a
AtomOf(t) == [k |-> "atom", n |-> t]

(* ------------------------------- The format ----------------------------- *)
Pow2(n) == 2^n
BytesOf(v, k) == [i \in 1..k |-> (v \div Pow2(ByteBits * (k - i))) % Pow2(ByteBits)]
Unsigned(b) == FoldLeft(LAMBDA acc, x : acc * Pow2(ByteBits) + x, 0, b)
Signed(b) == LET half == Pow2(ByteBits * Len(b) - 1)
             IN IF Unsigned(b) >= half THEN Unsigned(b) - 2 * half ELSE Unsigned(b)
Fits(v, k) == -Pow2(ByteBits * k - 1) <= v /\ v < Pow2(ByteBits * k - 1)
Tok(code, arg, len) == [code |-> code, arg |-> arg, len |-> len]
Code(code, v, k) == Tok(code, BytesOf(v, k), 1 + k)      \* writecode8, 16, 32, 64
SmallInt == Pow2(ByteBits - 2)                           \* of 0x40 in a byte of 8 bits
SmallString == 1
SmallSize == 3
SmallTag == 2
BigSize == 5                                             \* a header that takes more than 32 bits

IntToken(n) == IF 0 <= n /\ n < SmallInt THEN Tok("SMALL_INT", <<n>>, 1)
               ELSE IF Fits(n, 1) THEN Code("INT8", n, 1)
               ELSE IF Fits(n, 2) THEN Code("INT16", n, 2)
               ELSE IF ~Fits(n, 4) THEN Code("INT64", n, 8)
               ELSE Code("INT32", n, 4)
SharedTokenNarrow(d) == Code("SHARED8", d, 1)
SharedToken(d) == IF d < Pow2(ByteBits) THEN Code("SHARED8", d, 1)
                  ELSE IF d < Pow2(2 * ByteBits) THEN Code("SHARED16", d, 2)
                  ELSE Code("SHARED32", d, 4)
AtomToken(t) == IF t < SmallTag THEN Tok("SMALL_BLOCK", <<0, t>>, 1) ELSE Tok("BLOCK32", <<0, t>>, 5)
BlockToken(n, t) == IF t < SmallTag /\ n < SmallSize THEN Tok("SMALL_BLOCK", <<n, t>>, 1)
                    ELSE IF n >= BigSize THEN Tok("BLOCK64", <<n, t>>, 9)
                    ELSE Tok("BLOCK32", <<n, t>>, 5)
\* field 1 holds the start of the data of strings and floats, the operations of customs.
DataTokens(block) ==
  LET data == [i \in DOMAIN block.fields |-> block.fields[i].n]
      n == block.n
  IN CASE block.tag = "string" ->
            << IF n < SmallString THEN Tok("SMALL_STRING", <<n>>, 1)
               ELSE IF n < Pow2(ByteBits) THEN Code("STRING8", n, 1) ELSE Code("STRING32", n, 4),
               Tok("data", data, n) >>
       [] block.tag = "double" -> << Tok("DOUBLE", <<>>, 1), Tok("data", data, 8) >>
       [] block.tag = "double_array" ->
            << IF n < Pow2(ByteBits) THEN Code("DOUBLE_ARRAY8", n, 1) ELSE Code("DOUBLE_ARRAY32", n, 4),
               Tok("data", data, 8 * n) >>
Words(bytes, w) == (bytes + w - 1) \div w
ExternedSizeTight(block, w) == CASE block.tag = "string" -> Words(block.n, w)
                                 [] block.tag = "double" -> 8 \div w
                                 [] OTHER -> (block.n * 8) \div w
\* Words of w bytes of a block of data, as extern.c computes them and as intern.c does.
ExternedSize(block, w) == CASE block.tag = "string" -> (block.n + w) \div w
                            [] block.tag = "double" -> 8 \div w
                            [] OTHER -> (block.n * 8) \div w
\* ints.c: Int32, Int64 and Nativeint have n = 4, 8 and 0; a custom block without a
\* serialize function has n = 1.
Contents(block) == block.fields[2].n
CustomTokens(block) ==
  <<Tok("CUSTOM", <<>>, 1), Tok("data", <<block.n>>, 3)>> \o
  CASE block.n = 4 -> <<Tok("data", BytesOf(Contents(block), 4), 4)>>
    [] block.n = 8 -> <<Tok("data", BytesOf(Contents(block), 8), 8)>>
    [] OTHER -> IF Fits(Contents(block), 4)
                THEN <<Tok("data", <<1>>, 1), Tok("data", BytesOf(Contents(block), 4), 4)>>
                ELSE <<Tok("data", <<2>>, 1), Tok("data", BytesOf(Contents(block), 8), 8)>>
CustomBytes(block, w) == IF block.n = 0 THEN w ELSE block.n

(* -------------------------------- extern -------------------------------- *)
HeaderBytes == 20
FirstLimit == IF buffer = 0 THEN OutputBlock ELSE buffer     \* init_extern_output, or a buffer of the caller
Init ==
  /\ graph \in Graphs /\ sharing \in BOOLEAN /\ closures \in BOOLEAN /\ buffer \in Buffers
  /\ (~sharing => graph.tree) /\ phase = "extern" /\ error = ""
  /\ heap = graph.heap /\ todo = <<graph.root>> /\ trail = <<<<>>>> /\ counter = 0 /\ size = [w \in {4, 8} |-> 0]
  /\ out = <<[toks |-> <<>>, used |-> HeaderBytes, limit |-> FirstLimit]>>
  /\ wordSize = 8 /\ sameCode = TRUE /\ message = [toks |-> <<>>, size |-> 0, objects |-> 0]
  /\ src = <<>> /\ dests = <<>> /\ made = <<>> /\ table = <<>> /\ used = 0 /\ held = {} /\ header = "none"
  /\ root = Int_(0)

\* writeblock and its kin: what does not fit goes to a new block, or is refused by a user's buffer.
Overflow == [toks |-> <<>>, used |-> 0, limit |-> -1]
WriteInOne(blocks, tok) ==
  LET b == Last(blocks)
  IN IF b.used + tok.len <= b.limit
     THEN Append(Front(blocks), [b EXCEPT !.toks = Append(@, tok), !.used = @ + tok.len])
     ELSE IF buffer # 0 THEN Append(blocks, Overflow)
     ELSE Append(blocks, [toks |-> <<tok>>, used |-> tok.len, limit |-> OutputBlock])
Write(blocks, tok) ==
  LET b == Last(blocks)
      extra == IF tok.len <= OutputBlock \div 2 THEN 0 ELSE tok.len
  IN IF b.used + tok.len <= b.limit
     THEN Append(Front(blocks), [b EXCEPT !.toks = Append(@, tok), !.used = @ + tok.len])
     ELSE IF buffer # 0 THEN Append(blocks, Overflow)
     ELSE Append(blocks, [toks |-> <<tok>>, used |-> tok.len, limit |-> OutputBlock + extra])
Written(toks) == FoldLeft(Write, out, toks)

\* extern_replay_trail: the blocks of the trail from the last to the first.
ReplayEntry(h, e) == [h EXCEPT ![e.obj].color = e.color, ![e.obj].fields[1] = e.field0]
ReplayLast(blocks) == FoldLeft(ReplayEntry, heap, Last(blocks))
Replay(blocks) == FoldLeft(LAMBDA h, b : FoldLeft(ReplayEntry, h, b), heap, Reverse(blocks))
Fail(e) == /\ phase' = "extern failed" /\ error' = e
           /\ heap' = Replay(trail) /\ trail' = <<<<>>>> /\ out' = <<>>
           /\ UNCHANGED <<asked, todo, counter, size, reader, interning>>

\* extern_record_location: the block is blue and its first field holds its number.
NewTrailBlock == Len(Last(trail)) = TrailEntries
RecordedWhite(a) == [heap EXCEPT ![a].fields[1] = Raw(counter)]
Recorded(a) == [heap EXCEPT ![a].color = "blue", ![a].fields[1] = Raw(counter)]
Record(a) ==
  IF ~sharing THEN UNCHANGED <<heap, trail, counter>>
  ELSE LET entry == [obj |-> a, color |-> heap[a].color, field0 |-> heap[a].fields[1]]
       IN /\ trail' = IF NewTrailBlock THEN Append(trail, <<entry>>)
                      ELSE Append(Front(trail), Append(Last(trail), entry))
          /\ heap' = Recorded(a) /\ counter' = counter + 1

\* One round of extern_rec: the tokens, the block to record (0 for none), its words, what is left.
Round(toks, a, words, rest) ==
  LET blocks == Written(toks)
  IN IF \E i \in DOMAIN blocks : blocks[i] = Overflow THEN Fail("buffer overflow")
     ELSE \/ Len(blocks) > Len(out) /\ Fail("out of memory")
          \/ a # 0 /\ sharing /\ NewTrailBlock /\ Fail("out of memory")
          \/ /\ out' = blocks /\ todo' = rest
             /\ IF a = 0 THEN UNCHANGED <<heap, trail, counter>> ELSE Record(a)
             /\ size' = [w \in {4, 8} |-> size[w] + words[w]]
             /\ UNCHANGED <<asked, phase, error, reader, interning>>
NoWords == [w \in {4, 8} |-> 0]
\* A forwarding block is skipped, unless that could make a float of it, or a lazy value.
Forwarded(f) == ~(f.k = "ptr" /\ heap[f.n].tag \in {"forward", "lazy", "double"})

V == Head(todo)
Seen == heap[V.n].color = "blue"
Block == heap[V.n]
Externing(kind) == phase = "extern" /\ todo # <<>> /\ V.k = kind
InHeap(tags) == Externing("ptr") /\ Block.tag \in tags /\ ~Seen

OutInt == Externing("int") /\ Round(<<IntToken(V.n)>>, 0, NoWords, Tail(todo))
OutAtom == Externing("atom") /\ Round(<<AtomToken(V.n)>>, 0, NoWords, Tail(todo))
\* The field may hold the number of the block already: it is then taken for a value.
AsValue(f) == IF f.k # "raw" THEN f ELSE IF f.n % 2 = 1 THEN Int_(f.n \div 2) ELSE [k |-> "outside", n |-> 0]
Skipped == Block.tag = "forward" /\ Forwarded(Block.fields[1])
OutForward == /\ Externing("ptr") /\ Skipped
              /\ todo' = <<AsValue(Block.fields[1])>> \o Tail(todo)
              /\ UNCHANGED <<asked, phase, error, heap, trail, counter, size, out, reader, interning>>
OutShared == /\ Externing("ptr") /\ Seen /\ ~Skipped
             /\ Round(<<SharedToken(counter - Block.fields[1].n)>>, 0, NoWords, Tail(todo))
OutData == /\ InHeap({"string", "double", "double_array"})
           /\ Round(DataTokens(Block), V.n, [w \in {4, 8} |-> 1 + ExternedSize(Block, w)], Tail(todo))
OutAbstract == \/ InHeap({"abstract"}) /\ Fail("abstract value")
               \/ Externing("outside") /\ Fail("abstract value")
               \/ InHeap({"custom"}) /\ Block.n = 1 /\ Fail("abstract value")
OutInfix == /\ Externing("infix")
            /\ Round(<<Code("INFIXPOINTER", 2, 4)>>, 0, NoWords, <<PtrTo(V.n)>> \o Tail(todo))
OutCustom == /\ InHeap({"custom"}) /\ Block.n # 1
             /\ Round(CustomTokens(Block), V.n, [w \in {4, 8} |-> 2 + Words(CustomBytes(Block, w), w)], Tail(todo))
OutBlock == /\ InHeap({"block", "closure", "lazy", "forward"})
            /\ ~Skipped
            /\ Round(<<BlockToken(Len(Block.fields), Block.n)>>, V.n,
                     [w \in {4, 8} |-> 1 + Len(Block.fields)], Block.fields \o Tail(todo))
OutCode == /\ Externing("code")
           /\ IF closures THEN Round(<<Code("CODEPOINTER", V.n, 4), Tok("data", <<>>, 16)>>, 0, NoWords, Tail(todo))
              ELSE Fail("functional value")

\* The end of extern_value: the blocks of the program as they were, and the sizes in the header.
\* The reader is any: of another word size, running another program, on a channel cut short.
Finish ==
  /\ phase = "extern" /\ todo = <<>>
  /\ heap' = Replay(trail) /\ trail' = <<<<>>>>
  /\ \E w \in {4, 8}, same \in BOOLEAN, cut \in BOOLEAN :
       /\ (w = 8 \/ graph.portable) /\ (cut => buffer = 0)
       /\ wordSize' = w /\ sameCode' = same
       /\ message' = [toks |-> FoldLeft(LAMBDA acc, b : acc \o b.toks, <<>>, out), size |-> size[w], objects |-> counter]
       /\ phase' = IF cut THEN "truncated" ELSE "input"
  /\ UNCHANGED <<asked, error, todo, counter, size, out, interning>>

(* -------------------------------- intern -------------------------------- *)
\* caml_input_val and intern_alloc
FromBlock == {}          \* the bytes read are the caller's
FromChannel == IF buffer = 0 THEN {"input"} ELSE FromBlock
Truncated == /\ phase = "truncated" /\ phase' = "intern failed" /\ error' = "truncated object"
             /\ UNCHANGED <<asked, externing, reader, interning>>
Chunk == message.size - 1 > MaxWosize
HasTable == message.size > 0 /\ message.objects > 0
InChunk == IF message.size > 0 /\ Chunk THEN {"chunk"} ELSE {}
InHeapBlock == IF message.size > 0 /\ ~Chunk THEN "whole" ELSE "none"
\* An exception of the channel, or of an allocation, leaves what was allocated before it.
Leaves(e, hs, h) == /\ phase' = "intern failed" /\ error' = e /\ held' = hs /\ header' = h
                    /\ UNCHANGED <<asked, externing, reader, src, dests, made, table, used, root>>
ReadRaises == /\ phase \in {"input", "truncated"} /\ buffer = 0
              /\ Leaves("read raised", {"input"}, "none")
AllocRaises == /\ phase = "input" /\ message.size > 0
               /\ \/ Leaves("no block", FromChannel, "none")
                  \/ HasTable /\ Leaves("no table", FromChannel \cup InChunk, InHeapBlock)
Input == /\ phase = "input" /\ phase' = "intern"
         /\ src' = message.toks /\ dests' = <<[at |-> 0, i |-> 0, infix |-> FALSE]>>
         /\ held' = FromChannel \cup (IF HasTable THEN {"table"} ELSE {}) \cup InChunk
         /\ header' = InHeapBlock
         /\ made' = <<>> /\ table' = <<>> /\ used' = 0
         /\ UNCHANGED <<asked, error, externing, reader, root>>

CleanedButChunk(hs) == hs \ {"input", "table"}
\* intern_cleanup
Cleaned(hs) == hs \ {"input", "table", "chunk"}
InputFails(e) == /\ phase' = "intern failed" /\ error' = e
                 /\ held' = Cleaned(held)
                 /\ header' = IF header = "none" THEN "none" ELSE "whole"
                 /\ UNCHANGED <<asked, externing, reader, src, dests, made, table, used, root>>

T == Head(src)
D == Head(dests)
Place(m, v) == LET w == IF D.infix THEN InfixTo(v.n) ELSE v
               IN [m EXCEPT ![D.at].fields[D.i] = w]
Reading(codes) == phase = "intern" /\ dests # <<>> /\ src # <<>> /\ T.code \in codes
\* *dest = v, in a field of the new block or in the result
Store(m, v, tab, rest, words, left) ==
  /\ IF D.at = 0 THEN root' = (IF D.infix THEN InfixTo(v.n) ELSE v) /\ made' = m
     ELSE made' = Place(m, v) /\ root' = root
  /\ table' = tab /\ dests' = rest /\ used' = used + words /\ src' = left
  /\ header' = IF words > 0 /\ header # "none" THEN "partial" ELSE header
  /\ UNCHANGED <<asked, phase, error, externing, reader, held>>
Plain(v) == Store(made, v, table, Tail(dests), 0, Tail(src))
New == Len(made) + 1
InTable == IF HasTable THEN Append(table, New) ELSE table
Fresh(tag, n, fields) == Append(made, [tag |-> tag, n |-> n, color |-> "white", fields |-> fields])
Narrowed(n) == LET half == Pow2(ByteBits * wordSize - 2)          \* Val_long
               IN ((n + half) % (2 * half)) - half

InInt == \/ Reading({"SMALL_INT"}) /\ Plain(Int_(T.arg[1]))
         \/ Reading({"INT8", "INT16", "INT32"}) /\ Plain(Int_(Narrowed(Signed(T.arg))))
         \/ Reading({"INT64"}) /\ wordSize = 8 /\ Plain(Int_(Signed(T.arg)))
         \/ Reading({"INT64"}) /\ wordSize = 4 /\ InputFails("integer too large")
InAtom == Reading({"SMALL_BLOCK", "BLOCK32"}) /\ T.arg[1] = 0 /\ Plain(AtomOf(T.arg[2]))
InBlock == /\ Reading({"SMALL_BLOCK", "BLOCK32", "BLOCK64"}) /\ T.arg[1] > 0
           /\ (T.code = "BLOCK64" => wordSize = 8)
           /\ Store(Fresh("block", T.arg[2], [i \in 1..T.arg[1] |-> Raw(0)]), PtrTo(New), InTable,
                    [i \in 1..T.arg[1] |-> [at |-> New, i |-> i, infix |-> FALSE]] \o Tail(dests),
                    1 + T.arg[1], Tail(src))
InBigBlock == Reading({"BLOCK64"}) /\ wordSize = 4 /\ InputFails("data block too large")
InShared == /\ Reading({"SHARED8", "SHARED16", "SHARED32"})
            /\ Plain(PtrTo(table[Len(table) - Unsigned(T.arg) + 1]))
InternedSize(tag, n) == CASE tag = "string" -> (n + wordSize) \div wordSize
                          [] tag = "double" -> 8 \div wordSize
                          [] OTHER -> (n * 8) \div wordSize
ReadData(tag, n) ==
  Store(Fresh(tag, n, [i \in DOMAIN src[2].arg |-> Raw(src[2].arg[i])]), PtrTo(New), InTable, Tail(dests),
        1 + InternedSize(tag, n), SubSeq(src, 3, Len(src)))
InData == \/ Reading({"SMALL_STRING"}) /\ ReadData("string", T.arg[1])
          \/ Reading({"STRING8", "STRING32"}) /\ ReadData("string", Unsigned(T.arg))
          \/ Reading({"DOUBLE"}) /\ ReadData("double", 0)
          \/ Reading({"DOUBLE_ARRAY8", "DOUBLE_ARRAY32"}) /\ ReadData("double_array", Unsigned(T.arg))
InCode == /\ Reading({"CODEPOINTER"})
          /\ IF sameCode
             THEN Store(made, [k |-> "code", n |-> Unsigned(T.arg)], table, Tail(dests), 0, SubSeq(src, 3, Len(src)))
             ELSE InputFails("code mismatch")
InInfix == /\ Reading({"INFIXPOINTER"})
           /\ dests' = <<[D EXCEPT !.infix = TRUE]>> \o Tail(dests) /\ src' = Tail(src)
           /\ UNCHANGED <<asked, phase, error, externing, reader, made, table, used, held, header, root>>
InCustom ==
  /\ Reading({"CUSTOM"})
  /\ LET kind == src[2].arg[1]
         wide == kind = 0 /\ src[3].arg[1] = 2
         data == IF kind = 0 THEN src[4] ELSE src[3]
         left == SubSeq(src, IF kind = 0 THEN 5 ELSE 4, Len(src))
         bytes == IF kind = 0 THEN wordSize ELSE kind
     IN IF wide /\ wordSize = 4 THEN InputFails("native integer value too large")
        ELSE Store(Fresh("custom", kind, <<Raw(0), Raw(Signed(data.arg))>>), PtrTo(New), InTable, Tail(dests),
                   2 + Words(bytes, wordSize), left)
AddedToHeap(hs) == hs \ {"chunk"}
Complete == /\ phase = "intern" /\ dests = <<>> /\ phase' = "done"
            /\ held' = AddedToHeap(held) \ {"input", "table"} /\ header' = IF header = "none" THEN "none" ELSE "filled"
            /\ UNCHANGED <<asked, error, externing, reader, src, dests, made, table, used, root>>

Extern == OutInt \/ OutAtom \/ OutForward \/ OutShared \/ OutData \/ OutAbstract \/ OutInfix \/ OutCustom
          \/ OutBlock \/ OutCode \/ Finish
Intern == Truncated \/ ReadRaises \/ AllocRaises \/ Input \/ InInt \/ InAtom \/ InBlock \/ InBigBlock \/ InShared \/ InData \/ InCode \/ InInfix
          \/ InCustom \/ Complete
Next == Extern \/ Intern
Spec == Init /\ [][Next]_vars /\ WF_vars(Next)

(* ------------------------------ Properties ------------------------------ *)
\* Blocks are marked while they are written: afterwards, and after any failure, the program's
\* heap is as it was.
HeapIsRestored == phase # "extern" => heap = graph.heap

\* The block of the result is filled to the word, with the sizes the writer computed for the
\* words of the reader; never beyond.
SizesAreExact == used <= message.size /\ (phase = "done" => used = message.size)

\* Nothing is written beyond an output block or a user's buffer.
OutputInBounds == \A i \in DOMAIN out : out[i].used <= out[i].limit \/ (buffer # 0 /\ out[i].toks = <<>>)

\* A message that cannot be read leaves no memory behind, unless the channel raises over it or
\* the result cannot be allocated: the input block stays then, and a chunk without its table
\* (intern.c:343, :365, :411), though intern.c:40 has it freed on error.  The collector can walk
\* what is left of a block.
Leaked == CASE error = "read raised" -> {"input"}
            [] error = "no block" -> FromChannel
            [] error = "no table" -> FromChannel \cup InChunk
            [] OTHER -> {}
FailuresLeave == phase = "intern failed" => held = Leaked /\ header # "partial"

\* Old: what a value is, forwarding blocks left out; two values are the same when following
\* their fields pairs their blocks one to one.
RECURSIVE Behind(_)
Behind(v) == IF v.k = "ptr" /\ heap[v.n].tag = "forward" /\ Forwarded(heap[v.n].fields[1])
             THEN Behind(heap[v.n].fields[1]) ELSE v
Kids(p) == IF heap[p[1]].tag \in {"block", "closure", "lazy", "forward"}
           THEN {<<Behind(heap[p[1]].fields[i]), made[p[2]].fields[i]>> : i \in DOMAIN heap[p[1]].fields} ELSE {}
Blocks(pairs) == {<<q[1].n, q[2].n>> : q \in {r \in pairs : r[1].k \in {"ptr", "infix"} /\ r[2].k = r[1].k}}
RECURSIVE Paired(_, _)
Paired(done, new) == IF new = {} THEN done
                     ELSE LET kids == UNION {Kids(p) : p \in Blocks(new)}
                          IN Paired(done \cup new, kids \ (done \cup new))
SameShape(a, b) ==
  /\ a.n = b.n /\ (b.tag = "block" \/ a.tag = b.tag)
  /\ IF b.tag = "custom" THEN a.fields[2] = b.fields[2]
     ELSE IF b.tag = "block" THEN Len(a.fields) = Len(b.fields) ELSE a.fields = b.fields
\* A forwarding block that is kept and met again: the number in its first field is taken for
\* what it forwards to (extern.c:119, :314), an integer if it is odd.
MetAgain(q, blocks) ==
  /\ q[1].k = "ptr" /\ heap[q[1].n].tag = "forward" /\ sharing
  /\ \E p \in blocks : p[1] = q[1].n /\ p[2] % 2 = 0 /\ q[2] = Int_(p[2] \div 2 - 1)
ReadsBack(narrow) ==
  LET pairs == Paired({}, {<<Behind(graph.root), root>>})
      blocks == Blocks(pairs)
  IN /\ \A q \in pairs : \/ q[1].k = q[2].k /\ (q[1].k \in {"ptr", "infix"} \/ q[1].n = q[2].n
                               \/ (narrow /\ q[1].k = "int" /\ Narrowed(q[1].n) # q[1].n))
                         \/ MetAgain(q, blocks)
     /\ \A p \in blocks : SameShape(heap[p[1]], made[p[2]])
     /\ sharing => \A p, q \in blocks : p[1] = q[1] <=> p[2] = q[2]

\* The value read is the value written, with its sharing; apart from integers of more than 31
\* bits when the reader has words of 32, and from a forwarding block met again.
RoundTrip == phase = "done" => ReadsBack(wordSize = 4)
\* Marshaling is over: with sharing detected it comes to this, whatever cycles the value has.
Ended == phase \in {"done", "extern failed", "intern failed"}
=============================================================================
