------------------------------- MODULE Lexing -------------------------------
(***************************************************************************)
(* byterun/lexing.c with stdlib/lexing.ml: the automaton of the lexers     *)
(* that ocamllex makes, and its buffer.  The engine leaves whenever it     *)
(* needs characters; the refill moves or grows the buffer under it.        *)
(* The packed tables are functions; they come from outside (ocamllex).     *)
(* flush_input is not called when the end was met and not yet consumed.    *)
(***************************************************************************)
EXTENDS Integers, Sequences, SequencesExt

CONSTANTS Streams,                 \* what the reading function returns in all, "eof" for each 0
          Start, Final, Backtrk,   \* state -> action or -1
          Trans,                   \* state -> character -> state or -1
          Moves, Tags, BacktrkTags,   \* memory: pairs of a cell and where it comes from, -1 for here or nowhere
          Cells,
          AuxSize, InitialSize, MaxStringLength,
          MaxTokens,
          Match(_)                 \* the longest match of a stream: [act, len, x], act -1 for none

LexingAssumption == AuxSize \in Nat \ {0} /\ InitialSize >= AuxSize /\ MaxStringLength >= InitialSize

VARIABLES stream, fed,
          pc, state,
          buffer, size, abs, start, curr, last, action, eof, mem,     \* the lexbuf
          startP, currP,
          out, failed,
          took                     \* the scan consumed the end
reading == <<stream, fed>>
positions == <<startP, currP>>
vars == <<reading, pc, state, buffer, size, abs, start, curr, last, action, eof, mem, positions, out, failed, took>>

Init ==
  /\ stream \in Streams /\ fed = 0 /\ pc = "idle" /\ state = Start
  /\ buffer = <<>> /\ size = InitialSize /\ abs = 0 /\ start = 0 /\ curr = 0 /\ last = 0 /\ action = 0
  /\ eof = FALSE /\ mem = [i \in Cells |-> -1] /\ startP = 0 /\ currP = 0
  /\ out = <<>> /\ failed = FALSE /\ took = FALSE

(* ------------------------------ The engine ------------------------------ *)
Enter == /\ pc = "idle" /\ Len(out) < MaxTokens /\ pc' = "scan"
         /\ last' = curr /\ start' = curr /\ action' = -1 /\ state' = Start
         /\ UNCHANGED <<reading, buffer, size, abs, curr, eof, mem, positions, out, failed, took>>

\* run_mem and run_tag: moves in order, here being a position or nothing.
Run(moves, here) == FoldLeft(LAMBDA m, mv : [m EXCEPT ![mv[1]] = IF mv[2] < 0 THEN here ELSE m[mv[2]]], mem, moves)
RunFrom(m0, moves, here) == FoldLeft(LAMBDA m, mv : [m EXCEPT ![mv[1]] = IF mv[2] < 0 THEN here ELSE m[mv[2]]], m0, moves)

\* The state seen as a place to come back to.
Comeback == Backtrk[state] >= 0
LastHere == IF Comeback THEN curr ELSE last
ActionHere == IF Comeback THEN Backtrk[state] ELSE action
MemHere == IF Comeback THEN Run(BacktrkTags[state], -1) ELSE mem
Scanning == pc = "scan" /\ Final[state] < 0
AtEnd == curr >= Len(buffer)
Char == IF AtEnd THEN "eof" ELSE buffer[curr + 1]
NextState == Trans[state][Char]

Return(act, to, m) ==
  /\ pc' = "idle" /\ curr' = to /\ mem' = m /\ took' = FALSE
  /\ startP' = currP /\ currP' = abs + to
  /\ out' = Append(out, [act |-> act, text |-> SubSeq(buffer, start + 1, to), from |-> currP, to |-> abs + to,
                         x |-> IF m[1] < 0 THEN -1 ELSE abs + m[1]])
NeedChars == /\ Scanning /\ AtEnd /\ ~eof /\ pc' = "refill"
             /\ last' = LastHere /\ action' = ActionHere /\ mem' = MemHere
             /\ UNCHANGED <<reading, state, buffer, size, abs, start, curr, eof, positions, out, failed, took>>
EofAfter == IF AtEnd THEN FALSE ELSE eof
Advance == /\ Scanning /\ (AtEnd => eof) /\ NextState >= 0
           /\ state' = NextState /\ last' = LastHere /\ action' = ActionHere
           /\ curr' = (IF AtEnd THEN curr ELSE curr + 1) /\ eof' = EofAfter /\ took' = AtEnd
           /\ mem' = RunFrom(MemHere, Moves[state][Char], curr')
           /\ UNCHANGED <<reading, pc, buffer, size, abs, start, positions, out, failed>>
Accept == /\ pc = "scan" /\ Final[state] >= 0 /\ Return(Final[state], curr, Run(Tags[state], -1))
          /\ UNCHANGED <<reading, state, buffer, size, abs, start, last, action, eof, failed>>
Stopped == Scanning /\ (AtEnd => eof) /\ NextState < 0
ComeBack == /\ Stopped /\ ActionHere >= 0 /\ Return(ActionHere, LastHere, MemHere)
            /\ last' = LastHere /\ action' = ActionHere
            /\ UNCHANGED <<reading, state, buffer, size, abs, start, eof, failed>>
EmptyToken == /\ Stopped /\ ActionHere < 0 /\ pc' = "failed" /\ failed' = TRUE /\ curr' = last
              /\ UNCHANGED <<reading, state, buffer, size, abs, start, last, action, eof, mem, positions, out, took>>

(* ------------------------------ lex_refill ------------------------------ *)
Reads == IF fed = Len(stream) THEN {}
         ELSE IF stream[fed + 1] = "eof" THEN {<<>>}
         ELSE {SubSeq(stream, fed + 1, fed + n) :
                 n \in {k \in 1..AuxSize : fed + k <= Len(stream) /\ \A i \in 1..k : stream[fed + i] # "eof"}}
Smaller(a, b) == IF a < b THEN a ELSE b
Room == Smaller(2 * size, MaxStringLength)
\* Memory cells move with the data; -1 stays.
MemUnshifted == mem
MemShifted == [i \in Cells |-> IF mem[i] >= 0 THEN mem[i] - start ELSE mem[i]]
Kept == Len(buffer) - start
EofIgnored(cs) == eof
EofReached(cs) == eof \/ cs = <<>>
Put(cs) == /\ pc' = "scan" /\ eof' = EofReached(cs)
           /\ fed' = fed + (IF cs = <<>> THEN 1 ELSE Len(cs))
RefillInPlace == \E cs \in Reads :
  /\ pc = "refill" /\ Len(buffer) + Len(cs) <= size /\ Put(cs)
  /\ buffer' = buffer \o cs
  /\ UNCHANGED <<stream, state, size, abs, start, curr, last, action, mem, positions, out, failed, took>>
RefillShifted == \E cs \in Reads :
  /\ pc = "refill" /\ Len(buffer) + Len(cs) > size
  /\ (Kept + Len(cs) > size => Kept + Len(cs) <= Room) /\ Put(cs)
  /\ size' = IF Kept + Len(cs) <= size THEN size ELSE Room
  /\ buffer' = SubSeq(buffer, start + 1, Len(buffer)) \o cs
  /\ abs' = abs + start /\ curr' = curr - start /\ start' = 0 /\ last' = last - start
  /\ mem' = MemShifted
  /\ UNCHANGED <<stream, state, action, positions, out, failed, took>>
CannotGrow == \E cs \in Reads :
  /\ pc = "refill" /\ Kept + Len(cs) > size /\ Kept + Len(cs) > Room
  /\ pc' = "failed"
  /\ UNCHANGED <<reading, state, buffer, size, abs, start, curr, last, action, eof, mem, positions, out, failed, took>>
FlushInput == /\ pc = "idle" /\ ~eof /\ Len(out) < MaxTokens
              /\ curr' = 0 /\ abs' = 0 /\ currP' = 0 /\ buffer' = <<>>
              /\ UNCHANGED <<reading, pc, state, size, start, last, action, eof, mem, startP, out, failed, took>>

Engine == Enter \/ NeedChars \/ Advance \/ Accept \/ ComeBack \/ EmptyToken
Refill == RefillInPlace \/ RefillShifted \/ CannotGrow
Next == Engine \/ Refill \/ FlushInput
Spec == Init /\ [][Next]_vars /\ WF_vars(Engine \/ Refill)

(* ------------------------------ Properties ------------------------------ *)
\* What is still to come: the characters in the buffer, and an end that is pending or taken by
\* the scan.
FirstToCome == IF pc # "idle" THEN start ELSE curr
Consumed == fed - (Len(buffer) - FirstToCome) - (IF eof \/ took THEN 1 ELSE 0)
Pos == abs + FirstToCome
Chars(s) == SelectSeq(s, LAMBDA c : c # "eof")
Here == SubSeq(stream, Consumed + 1, Len(stream))
Found == Match(Here)

Feeds == fed' \in fed + 1..Len(stream) /\ UNCHANGED <<Consumed, Pos, out, failed>>
Token ==
  LET text == Chars(SubSeq(Here, 1, Found.len))
  IN /\ ~failed /\ Found.act >= 0 /\ Consumed + Found.len <= fed
     /\ out' = Append(out, [act |-> Found.act, text |-> text, from |-> Pos, to |-> Pos + Len(text),
                            x |-> IF Found.x < 0 THEN -1 ELSE Pos + Found.x])
     /\ Consumed' = Consumed + Found.len /\ Pos' = Pos + Len(text) /\ UNCHANGED <<fed, failed>>
NoToken == ~failed /\ failed' /\ Found.act < 0 /\ UNCHANGED <<Consumed, fed, Pos, out>>
Flushed == Consumed' = fed /\ Pos' = 0 /\ UNCHANGED <<fed, out, failed>>

\* Every token is the longest match in the stream, with its text, its place and the places
\* remembered in it, whatever the reads, the moves of the buffer and the returns.
IsLongestMatch == [][Feeds \/ Token \/ NoToken \/ Flushed]_<<Consumed, fed, Pos, out, failed>>

\* The engine is entered and left in the middle of a token; between tokens, and after a
\* failure, nothing is under way.
Quiet == pc \in {"idle", "failed"}
=============================================================================
