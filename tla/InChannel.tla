------------------------------ MODULE InChannel ------------------------------
(***************************************************************************)
(* A buffered input channel: the input half of byterun/io.c.  read(2) may  *)
(* return fewer bytes than asked, none at the end of the file, or fail;    *)
(* the blocking section around it runs signal handlers as it is left, and  *)
(* one that raises loses what was read.                                    *)
(* Every byte of the file is a different number, so that a byte tells its  *)
(* place; those of NewLines end lines.  0 stands for an uninitialised byte *)
(* of the buffer.                                                          *)
(***************************************************************************)
EXTENDS Integers, Sequences

CONSTANTS Size,       \* IO_BUFFER_SIZE
          FileLen, NewLines,
          Dests,      \* where seek_in may go
          MaxWant     \* the longest block asked for

InChannelAssumption ==
  /\ Size \in Nat \ {0} /\ FileLen \in Nat /\ MaxWant \in Nat \ {0}
  /\ NewLines \subseteq 1..FileLen /\ Dests \subseteq 0..FileLen

VARIABLES offset, buff, curr, max,   \* struct channel; buff[curr+1..max] is unread
          fdPos, open,
          lost,                      \* history: bytes read since the last lseek that no call kept
          op, want, got,             \* the call, the bytes it still wants and has
          p,                         \* caml_input_scan_line's pointer
          status, result

vars == <<offset, buff, curr, max, fdPos, open, lost, op, want, got, p, status, result>>
channel == <<offset, buff, curr, max>>

File == [i \in 1..FileLen |-> i]
Avail == max - curr
PosIn == offset - Avail          \* caml_pos_in
Smaller(m, n) == IF m < n THEN m ELSE n

\* caml_open_descriptor_in.
Init == /\ offset = 0 /\ buff = [i \in 1..Size |-> 0] /\ curr = 0 /\ max = 0
        /\ fdPos = 0 /\ open = TRUE /\ lost = 0
        /\ op = "idle" /\ want = 0 /\ got = <<>> /\ p = 0 /\ status = "ok" /\ result = 0

(* -------------------------------- Calls -------------------------------- *)
Idle == op = "idle"
Begin(o, n) == /\ Idle
               /\ op' = o /\ want' = n /\ got' = <<>> /\ p' = curr
               /\ status' = "running" /\ result' = 0
               /\ UNCHANGED <<channel, fdPos, lost, open>>
InputChar == Begin("chars", 1)
InputBinaryInt == Begin("chars", 4)
Input(n) == Begin("input", n)
ReallyInput(n) == Begin("really", n)
ScanLine == Begin("scan", 0)

End(how, r) == op' = "idle" /\ status' = how /\ result' = r /\ want' = 0 /\ p' = 0
Working(o) == op = o /\ (o \in {"chars", "really"} => want > 0)

\* caml_ml_close_channel: the buffer is made to look read.
CloseUsesUp == curr' = Size /\ max' = Size
Close == /\ Idle /\ open
         /\ open' = FALSE /\ CloseUsesUp
         /\ UNCHANGED <<offset, buff, fdPos, lost, op, want, got, p, status, result>>

\* caml_seek_in: inside the buffer it only moves curr.
InBufferOffByOne(d) == d >= offset - max - 1 /\ d <= offset
InBuffer(d) == d >= offset - max /\ d <= offset
SeekIn(d) ==
  /\ Idle
  /\ got' = <<>> /\ result' = 0
  /\ \/ /\ InBuffer(d)
        /\ curr' = max - (offset - d) /\ status' = "ok"
        /\ UNCHANGED <<offset, max, fdPos, lost>>
     \/ /\ ~InBuffer(d) /\ open
        /\ fdPos' = d /\ offset' = d /\ lost' = 0 /\ curr' = 0 /\ max' = 0 /\ status' = "ok"
     \/ /\ ~InBuffer(d) /\ ~open
        /\ status' = "raised"
        /\ UNCHANGED <<offset, curr, max, fdPos, lost>>
  /\ UNCHANGED <<buff, open, op, want, p>>

(* --------------------------------- read --------------------------------- *)
\* k bytes at file position fdPos, put into the buffer after its first `at' bytes.
ReadInto(b, at, k) == [i \in 1..Size |-> IF i \in (at + 1)..(at + k) THEN File[fdPos + i - at]
                                         ELSE b[i]]
Readable(room) == 1..Smaller(room, FileLen - fdPos)
AtEof == fdPos >= FileLen

\* A call that needs bytes and finds none in the buffer.
MustRead == \/ \E o \in {"chars", "really", "input"} : Working(o) /\ Avail = 0
            \/ op = "scan" /\ p >= max /\ max - curr < Size
\* A scan moves the unread bytes to the front first.
Moved == [i \in 1..Size |-> IF i + curr <= max THEN buff[i + curr] ELSE buff[i]]
\* An error, or a handler that raises before the read or over one that got nothing.
ReadFails ==
  /\ MustRead
  /\ IF op = "scan" THEN buff' = Moved /\ curr' = 0 /\ max' = Avail
                    ELSE UNCHANGED <<buff, curr, max>>
  /\ End("raised", 0)
  /\ UNCHANGED <<offset, fdPos, lost, open, got>>
\* A handler raises over k bytes: they are in the buffer and the descriptor is behind them,
\* but neither offset nor max is told of them.
ReadRaises(k) ==
  /\ MustRead /\ open
  /\ \/ /\ op = "scan" /\ k \in Readable(Size - Avail)
        /\ buff' = ReadInto(Moved, Avail, k) /\ curr' = 0 /\ max' = Avail
     \/ /\ op # "scan" /\ k \in Readable(Size)
        /\ buff' = ReadInto(buff, 0, k) /\ UNCHANGED <<curr, max>>
  /\ fdPos' = fdPos + k /\ lost' = lost + k
  /\ End("raised", 0)
  /\ UNCHANGED <<offset, open, got>>

(* -------------------------- Characters and blocks -------------------------- *)
\* getch from the buffer.
GetChar ==
  /\ Working("chars") /\ Avail > 0
  /\ got' = Append(got, buff[curr + 1]) /\ curr' = curr + 1 /\ want' = want - 1
  /\ UNCHANGED <<offset, buff, max, fdPos, lost, open, op, p, status, result>>

RefillKeepsFirst(k) ==
  /\ Working("chars") /\ Avail = 0 /\ open /\ k \in Readable(Size)
  /\ buff' = ReadInto(buff, 0, k) /\ fdPos' = fdPos + k
  /\ offset' = offset + k /\ max' = k /\ curr' = 0
  /\ got' = Append(got, File[fdPos + 1]) /\ want' = want - 1
  /\ UNCHANGED <<lost, open, op, p, status, result>>

\* caml_refill: a whole buffer is asked for, its first byte is the answer.
Refill(k) ==
  /\ Working("chars") /\ Avail = 0 /\ open /\ k \in Readable(Size)
  /\ buff' = ReadInto(buff, 0, k) /\ fdPos' = fdPos + k
  /\ offset' = offset + k /\ max' = k /\ curr' = 1
  /\ got' = Append(got, File[fdPos + 1]) /\ want' = want - 1
  /\ UNCHANGED <<lost, open, op, p, status, result>>
RefillEofEarly ==
  /\ Working("chars") /\ open /\ AtEof
  /\ End("eof", 0) /\ UNCHANGED <<channel, fdPos, lost, open, got>>
RefillEof ==
  /\ Working("chars") /\ Avail = 0 /\ open /\ AtEof
  /\ End("eof", 0) /\ UNCHANGED <<channel, fdPos, lost, open, got>>

\* caml_getblock and the body of caml_ml_input: what the buffer has, or one read.
BlockFrom(n) == got' = got \o SubSeq(buff, curr + 1, curr + n)
GetBlock ==
  /\ Working("input") \/ Working("really")
  /\ want <= Avail \/ Avail > 0
  /\ LET n == Smaller(want, Avail)
     IN BlockFrom(n) /\ curr' = curr + n /\ want' = (IF op = "input" THEN 0 ELSE want - n)
  /\ op' = IF op = "input" THEN "done" ELSE op
  /\ UNCHANGED <<offset, buff, max, fdPos, lost, open, p, status, result>>
GetBlockRead(k) ==
  /\ Working("input") \/ Working("really")
  /\ want > 0 /\ Avail = 0 /\ open /\ k \in Readable(Size)
  /\ buff' = ReadInto(buff, 0, k) /\ fdPos' = fdPos + k /\ offset' = offset + k /\ max' = k
  /\ LET n == Smaller(want, k)
     IN /\ got' = got \o SubSeq(File, fdPos + 1, fdPos + n) /\ curr' = n
        /\ want' = IF op = "input" THEN 0 ELSE want - n
  /\ op' = IF op = "input" THEN "done" ELSE op
  /\ UNCHANGED <<lost, open, p, status, result>>
GetBlockNoBreak ==
  /\ Working("really") /\ Avail = 0 /\ open /\ AtEof
  /\ max' = 0 /\ curr' = 0
  /\ UNCHANGED <<offset, buff, fdPos, lost, open, op, want, got, p, status, result>>
\* Nothing to read: caml_ml_input answers 0, caml_really_getblock breaks its loop.
GetBlockEof ==
  /\ Working("input") \/ Working("really")
  /\ want > 0 /\ Avail = 0 /\ open /\ AtEof
  /\ max' = 0 /\ curr' = 0
  /\ End("short", Len(got)) /\ UNCHANGED <<offset, buff, fdPos, lost, open, got>>

Finished ==
  /\ op = "done" \/ (op \in {"chars", "really"} /\ want = 0)
  /\ End("ok", Len(got)) /\ UNCHANGED <<channel, fdPos, lost, open, got>>

(* ------------------------- caml_input_scan_line ------------------------- *)
ScanCharDropsNewline ==
  /\ op = "scan" /\ p < max
  /\ IF buff[p + 1] \in NewLines THEN End("ok", p - curr)
     ELSE p' = p + 1 /\ UNCHANGED <<op, want, status, result>>
  /\ UNCHANGED <<channel, fdPos, lost, open, got>>
ScanChar ==
  /\ op = "scan" /\ p < max
  /\ IF buff[p + 1] \in NewLines THEN End("ok", p + 1 - curr)
     ELSE p' = p + 1 /\ UNCHANGED <<op, want, status, result>>
  /\ UNCHANGED <<channel, fdPos, lost, open, got>>

\* The unread bytes are at the front; the buffer is full, or more is read behind them.
ScanFull ==
  /\ op = "scan" /\ p >= max /\ Avail >= Size
  /\ End("ok", -Avail) /\ UNCHANGED <<channel, fdPos, lost, open, got>>
ScanReadKeepsOffset(k) ==
  /\ op = "scan" /\ p >= max /\ open /\ k \in Readable(Size - Avail)
  /\ buff' = ReadInto(Moved, Avail, k)
  /\ curr' = 0 /\ p' = p - curr /\ max' = Avail + k
  /\ fdPos' = fdPos + k
  /\ UNCHANGED <<offset, lost, open, op, want, got, status, result>>
ScanRead(k) ==
  /\ op = "scan" /\ p >= max /\ open /\ k \in Readable(Size - Avail)
  /\ buff' = ReadInto(Moved, Avail, k)
  /\ curr' = 0 /\ p' = p - curr /\ max' = Avail + k
  /\ offset' = offset + k /\ fdPos' = fdPos + k
  /\ UNCHANGED <<lost, open, op, want, got, status, result>>
ScanEof ==
  /\ op = "scan" /\ p >= max /\ Avail < Size /\ open /\ AtEof
  /\ buff' = Moved /\ curr' = 0 /\ max' = Avail
  /\ End("ok", -Avail) /\ UNCHANGED <<offset, fdPos, lost, open, got>>

Operation == \/ InputChar \/ InputBinaryInt \/ ScanLine \/ Close
             \/ \E n \in 1..MaxWant : Input(n) \/ ReallyInput(n)
             \/ \E d \in Dests : SeekIn(d)
Progress == \/ GetChar \/ RefillEof \/ GetBlock \/ GetBlockEof \/ Finished
            \/ ScanChar \/ ScanFull \/ ScanEof
            \/ \E k \in 1..Size : Refill(k) \/ GetBlockRead(k) \/ ScanRead(k)
Interrupted == ReadFails \/ \E k \in 1..Size : ReadRaises(k)
Next == Operation \/ Progress \/ Interrupted
Spec == Init /\ [][Next]_vars

(* ------------------------------ Properties ------------------------------ *)
\* offset lags behind the descriptor by exactly what raising handlers lost; the bytes in the
\* buffer, read ones included, come from the file and, while nothing is lost, are those before
\* offset: what caml_seek_in counts on.  An lseek makes up for the loss (io.c:342).
BufferMirrorsFile ==
  /\ 0 <= curr /\ curr <= max /\ max <= Size
  /\ open => /\ offset + lost = fdPos
             /\ \A i \in 1..max : /\ buff[i] \in 1..fdPos
                                  /\ lost = 0 => buff[i] = offset - max + i

\* A scan answers the length of the next line with its newline, or, negated, the number of
\* bytes it can offer without one: a full buffer or the end of the file (io.c:373, :381, :390).
Newlines(n) == {i \in 1..n : buff[curr + i] \in NewLines}
ScanTellsLine == (Idle /\ open /\ status = "ok" /\ got = <<>> /\ result # 0) =>
   IF result > 0 THEN Newlines(result) = {result}
   ELSE /\ Newlines(-result) = {}
        /\ -result = Avail /\ (Avail = Size \/ offset + lost = FileLen)

\* End_of_file, or a block cut short, only where the file ends, counting what was lost.
EofAtEnd == (Idle /\ open /\ status \in {"eof", "short"}) => PosIn + lost = FileLen

\* Until it is closed, a step of the channel starts a call, delivers bytes or moves the place by
\* a seek.  The bytes delivered are as many as the place moves and, until a handler raises over
\* a read, those that follow it in the file.
Place == PosIn
StartsCall == got' = <<>> /\ Place' = Place
BytesAt(k) == IF lost = 0 THEN {SubSeq(File, Place + 1, Place + k)} ELSE [1..k -> 1..FileLen]
Delivers == \E k \in 1..(FileLen - Place) :
              /\ Place' = Place + k
              /\ \E s \in BytesAt(k) : got' = got \o s
Seeks == Place' \in Dests /\ got' = <<>>
ImplementsReader == [][open' => StartsCall \/ Delivers \/ Seeks]_<<Place, got>>
=============================================================================
