---------------------------- MODULE MCInputOutput ----------------------------
(***************************************************************************)
(* What crosses the border of a bytecode program: output and input         *)
(* channels, marshaled values, digests, integers as text, and the lexers   *)
(* that read characters.  A behaviour runs one of them, part, and leaves   *)
(* the others in a state they start from.                                  *)
(***************************************************************************)
EXTENDS Channels, TLC

CONSTANT TextLength          \* the longest number read, without its sign and base

VARIABLES part,
          graph, sharing, closures, msgBuffer, phase, error, heap, todo, trail, counter, size,
          msgOut, wordSize, sameCode, message, src, dests, made, table, used, held, header, root,
          in, low, high, done, length, final,
          pc, nbits, text, textP, base, sign, res, fmt, x, width, alternate, plus, minus, conv,
          stream, fed, lexPc, state, lexBuffer, lexSize, abs, start, lexCurr, last, action,
          eof, mem, startP, currP, tokens, failed, took

marshalVars == <<graph, sharing, closures, msgBuffer, phase, error, heap, todo, trail, counter,
                 size, msgOut, wordSize, sameCode, message, src, dests, made, table, used, held,
                 header, root>>
digestVars == <<in, low, high, done, length, final>>
textVars == <<pc, nbits, text, textP, base, sign, res, fmt, x, width, alternate, plus, minus, conv>>
lexVars == <<stream, fed, lexPc, state, lexBuffer, lexSize, abs, start, lexCurr, last, action,
             eof, mem, startP, currP, tokens, failed, took>>
allVars == <<part, vars, inputVars, marshalVars, digestVars, textVars, lexVars>>

(* ------------------------------ Marshaling ------------------------------ *)
\* Values with every kind of block; portable: it has no closures.
IntOf(n) == [k |-> "int", n |-> n]
RawOf(n) == [k |-> "raw", n |-> n]
PtrTo(a) == [k |-> "ptr", n |-> a]
BlockOf(tag, n, fields) == [tag |-> tag, n |-> n, color |-> "white", fields |-> fields]
RecordOf(fields) == BlockOf("block", 0, fields)
PairOf(a, b) == RecordOf(<<a, b>>)
StringOf(n) == BlockOf("string", n, [i \in 1..((n + 8) \div 8) |-> RawOf(n + i)])
CodePtr == [k |-> "code", n |-> 3]
Graph(rt, hp, tree) == [root |-> rt, heap |-> hp, tree |-> tree,
                        portable |-> \A i \in DOMAIN hp : hp[i].tag # "closure"]
Chain == [i \in 1..6 |-> IF i = 6 THEN PairOf(PtrTo(1), PtrTo(5)) ELSE PairOf(PtrTo(i + 1), PtrTo(1))]
Alone == {Graph(IntOf(n), <<>>, TRUE) :
            n \in {-200, -129, -128, -64, -9, -8, -3, -2, -1, 0, 1, 2, 7, 8, 63, 127, 128}}
         \cup {Graph([k |-> "atom", n |-> t], <<>>, TRUE) : t \in {0, 2}}
Strings == {Graph(PtrTo(1), <<StringOf(n), RecordOf(<<PtrTo(1)>>)>>, TRUE) : n \in {0, 3, 4, 7, 8}}
Customs == {Graph(PtrTo(1), <<PairOf(PtrTo(2), PtrTo(3)), BlockOf("custom", c[1], <<RawOf(9), RawOf(c[2])>>), StringOf(2)>>, TRUE) :
              c \in {<<0, 5>>, <<0, 200>>, <<4, -3>>, <<8, 200>>, <<1, 0>>}}
Shared == Graph(PtrTo(1), <<PairOf(PtrTo(2), PtrTo(2)), PairOf(PtrTo(3), IntOf(1)), StringOf(1)>>, TRUE)
Cyclic == {Graph(PtrTo(1), <<PairOf(PtrTo(1), PtrTo(2)), BlockOf("block", 3, <<IntOf(5), PtrTo(1), PtrTo(2)>>)>>, FALSE),
           Graph(PtrTo(1), Chain, FALSE)}
Floats == {Graph(PtrTo(1), <<RecordOf(<<PtrTo(2), IntOf(0), PtrTo(2), IntOf(9), PtrTo(3)>>), BlockOf("double", 0, <<RawOf(4)>>),
                          BlockOf("double_array", 4, <<RawOf(1), RawOf(2), RawOf(3), RawOf(4)>>)>>, TRUE),
           Graph(PtrTo(1), <<PairOf(PtrTo(2), PtrTo(3)), BlockOf("double_array", 1, <<RawOf(1)>>),
                          BlockOf("abstract", 0, <<RawOf(3)>>)>>, TRUE)}
ForwardTo(a) == BlockOf("forward", 250, <<PtrTo(a)>>)
Forwards == {Graph(PtrTo(1), <<PairOf(PtrTo(2), PtrTo(2)), ForwardTo(3), StringOf(1)>>, TRUE),
             Graph(PtrTo(1), <<PairOf(PtrTo(2), PtrTo(3)), ForwardTo(3), BlockOf("double", 0, <<RawOf(1)>>)>>, TRUE),
             Graph(PtrTo(2), <<BlockOf("lazy", 246, <<IntOf(4)>>), ForwardTo(3), ForwardTo(1)>>, TRUE),
             Graph(PtrTo(1), <<PairOf(PtrTo(2), PtrTo(2)), ForwardTo(3), BlockOf("double", 0, <<RawOf(1)>>)>>, TRUE),
             Graph(PtrTo(1), <<RecordOf(<<PtrTo(4), PtrTo(2), PtrTo(2)>>), ForwardTo(3),
                               BlockOf("double", 0, <<RawOf(1)>>), StringOf(1)>>, TRUE)}
Closures == {Graph(PtrTo(1), <<PairOf([k |-> "infix", n |-> 2], PtrTo(2)),
                            BlockOf("closure", 247, <<CodePtr, IntOf(9), CodePtr, PtrTo(1)>>)>>, FALSE)}
Outside == Graph(PtrTo(1), <<PairOf(PtrTo(2), [k |-> "outside", n |-> 0]), StringOf(0)>>, TRUE)

M == INSTANCE Marshal WITH
       Graphs <- Alone \cup Strings \cup Customs \cup {Shared, Outside} \cup Cyclic \cup Floats
                 \cup Forwards \cup Closures,
       ByteBits <- 2, Buffers <- {0, 24, 30}, OutputBlock <- 24, TrailEntries <- 2, MaxWosize <- 6,
       buffer <- msgBuffer, out <- msgOut

(* --------------------------- Digests and text --------------------------- *)
D == INSTANCE Md5Buffer WITH Block <- 4, Bits <- 2, Word <- 8, MaxPart <- 10, MaxLength <- 66

\* Characters as IntText numbers them: digits, 16 to 20 an underscore, a minus, x, o, a plus,
\* 22 no part of a number, 11 also b, 23 a hash, 25 and 26 the conversions d and u.
Bodies == UNION {[1..n -> {0, 1, 4, 8, 15, 16, 22}] : n \in 0..TextLength}
Bases == {<<>>, <<0, 18>>, <<0, 19>>, <<0, 11>>}
Numbers4 == {s \o b \o d : s \in {<<>>, <<17>>}, b \in Bases, d \in Bodies}
FormatFlags == {<<>>, <<17>>, <<23>>, <<20>>, <<23, 17>>}
N == INSTANCE IntText WITH
       W <- 4, Widths <- {2, 3, 4}, Texts <- Numbers4,
       Formats <- {f \o <<c>> : f \in FormatFlags, c \in {25, 26, 18, 19}}, p <- textP

(* -------------------------------- Lexers -------------------------------- *)
\* The tables of  'a' {0} | ('a'+ as x) 'b' {1} | 'b' {2} | eof {3}
Nowhere == [a |-> -1, b |-> -1, c |-> -1, eof |-> -1]
On(a, b, e) == [a |-> a, b |-> b, c |-> -1, eof |-> e]
OnA == [a |-> <<<<0, -1>>>>, b |-> <<>>, c |-> <<>>, eof |-> <<>>]
NoX == <<<<1, -1>>>>
Ended(s) == s \o <<"eof", "eof", "eof", "eof", "eof">>
Streams == {Ended(s) : s \in UNION {[1..n -> {"a", "b"}] : n \in 0..5}}
           \cup {Ended(<<"a", "eof", "a", "b">>), Ended(<<"a", "a", "eof", "a">>),
                 Ended(<<"a", "b", "eof", "eof", "a">>), Ended(<<"a", "a", "a", "a", "a", "a", "b">>),
                 Ended(<<"b", "a", "a", "a", "a", "a", "b">>), Ended(<<"a", "c">>), Ended(<<"c", "a">>)}
\* The reference: the rules by themselves.
As(s) == LET others == {i \in DOMAIN s : s[i] # "a"}
         IN (CHOOSE i \in others : \A j \in others : i <= j) - 1
Longest(s) ==
  IF s = <<>> THEN [act |-> -2, len |-> 0, x |-> -1]
  ELSE CASE s[1] = "a" -> IF s[As(s) + 1] = "b" THEN [act |-> 1, len |-> As(s) + 1, x |-> As(s)]
                          ELSE [act |-> 0, len |-> 1, x |-> -1]
         [] s[1] = "b" -> [act |-> 2, len |-> 1, x |-> -1]
         [] s[1] = "eof" -> [act |-> 3, len |-> 1, x |-> -1]
         [] OTHER -> [act |-> -1, len |-> 0, x |-> -1]
L == INSTANCE Lexing WITH
       Streams <- Streams, Start <- 1,
       Trans <- << On(2, 3, 4), On(5, 6, -1), Nowhere, Nowhere, On(5, 6, -1), Nowhere >>,
       Final <- << -1, -1, 2, 3, -1, 1 >>, Backtrk <- << -1, 0, -1, -1, -1, -1 >>,
       Moves <- << OnA, OnA, OnA, OnA, OnA, OnA >>,           \* cell 0 follows the a's
       Tags <- << <<>>, <<>>, NoX, NoX, <<>>, <<<<1, 0>>>> >>, \* cell 1 is x
       BacktrkTags <- << <<>>, NoX, <<>>, <<>>, <<>>, <<>> >>,
       Cells <- {0, 1}, AuxSize <- 2, InitialSize <- 2, MaxStringLength <- 6, MaxTokens <- 4,
       Match <- Longest,
       pc <- lexPc, buffer <- lexBuffer, size <- lexSize, curr <- lexCurr, out <- tokens

ASSUME ComponentAssumptions ==
  /\ M!MarshalAssumption /\ D!Md5Assumption /\ N!TextAssumption
  /\ L!LexingAssumption

(* ------------------------------ Behaviours ------------------------------ *)
\* A component that does not run keeps to one of its initial states.
AllInit ==
  /\ part \in {"output", "input", "marshal", "digest", "text", "lexer"}
  /\ part = "marshal" \/ (graph = Shared /\ sharing = TRUE /\ closures = TRUE /\ msgBuffer = 0)
  /\ part = "text" \/ (pc = "sign" /\ text = <<>> /\ nbits = 4)
  /\ part = "lexer" \/ stream = Ended(<<>>)
  /\ Init /\ I!Init /\ M!Init /\ D!Init /\ N!Init /\ L!Init

Rest == UNCHANGED <<part, inputVars, marshalVars, digestVars, textVars, lexVars>>
OutStep == part = "output" /\ Next /\ Rest
OutProgress == part = "output" /\ Progress /\ Rest
OutWritten == part = "output" /\ (\E k \in 1..Size : Write(k)) /\ Rest
OutRefused == part = "output" /\ ~open /\ WriteFails /\ Rest
InRest == UNCHANGED <<part, vars, marshalVars, digestVars, textVars, lexVars>>
InStep == part = "input" /\ I!Next /\ InRest
InProgress == part = "input" /\ I!Progress /\ InRest
InRefused == part = "input" /\ ~iOpen /\ I!ReadFails /\ InRest
MarshalStep == part = "marshal" /\ M!Next /\ UNCHANGED <<part, vars, inputVars, digestVars, textVars, lexVars>>
DigestStep == part = "digest" /\ D!Next /\ UNCHANGED <<part, vars, inputVars, marshalVars, textVars, lexVars>>
TextStep == part = "text" /\ N!Next /\ UNCHANGED <<part, vars, inputVars, marshalVars, digestVars, lexVars>>
LexRest == UNCHANGED <<part, vars, inputVars, marshalVars, digestVars, textVars>>
LexStep == part = "lexer" /\ L!Next /\ LexRest
LexProgress == part = "lexer" /\ (L!Engine \/ L!Refill) /\ LexRest

AllNext == OutStep \/ InStep \/ MarshalStep \/ DigestStep \/ TextStep \/ LexStep

\* The code runs on, and a read or a write is answered, with EBADF on a closed channel.
AllSpec == /\ AllInit /\ [][AllNext]_allVars
           /\ WF_allVars(OutProgress) /\ WF_allVars(OutWritten) /\ WF_allVars(OutRefused)
           /\ WF_allVars(InProgress) /\ WF_allVars(InRefused)
           /\ WF_allVars(MarshalStep) /\ WF_allVars(TextStep) /\ WF_allVars(LexProgress)

(* ------------------------------ Properties ------------------------------ *)
\* A value written is read back with its sharing, on any machine, within the sizes announced,
\* and a message that cannot be read leaves what it must; a digest is of the padded message, however it came; a
\* number is read exactly, and reads back what was printed.
DataIsExact ==
  /\ part = "marshal" => /\ M!HeapIsRestored /\ M!SizesAreExact /\ M!OutputInBounds
                         /\ M!FailuresLeave /\ M!RoundTrip
  /\ part = "digest" => D!PartsAreTheMessage /\ D!CountIsRight /\ D!PaddingIsRight
  /\ part = "text" => N!ParsesExactly /\ N!RoundTrips

\* Every call of a channel, scan of a lexer, message and conversion ends, a scan with the
\* longest match, which is the token it answers.
Quiet == CASE part = "output" -> Idle
           [] part = "input" -> I!Idle
           [] part = "marshal" -> M!Ended
           [] part = "digest" -> TRUE
           [] part = "text" -> N!Ended
           [] part = "lexer" -> L!Quiet
CallsComplete == []<>Quiet /\ L!IsLongestMatch
=============================================================================
