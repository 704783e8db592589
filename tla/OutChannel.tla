----------------------------- MODULE OutChannel -----------------------------
(***************************************************************************)
(* A buffered output channel: the output half of byterun/io.c.  Operations *)
(* are calls that may block in write(2), where the kernel takes part of    *)
(* the bytes, is interrupted, would block or fails, and where a signal     *)
(* handler that does not use the channel may run.  Every byte the program  *)
(* outputs is a different number.                                          *)
(***************************************************************************)
EXTENDS Integers, Sequences, FiniteSets

CONSTANTS Size,       \* IO_BUFFER_SIZE
          MaxOut,     \* how many bytes the program outputs (bounds the runs)
          MaxBlock,   \* the longest single output
          Dests,      \* the positions seek_out is called with
          MaxRaises   \* how often a signal handler run by a write raises (bounds the runs)

ASSUME OutChannelAssumption ==
  {Size, MaxOut, MaxBlock} \subseteq Nat \ {0} /\ Dests \subseteq Nat /\ MaxRaises \in Nat

VARIABLES file,       \* the file's bytes
          fdPos,      \* the kernel's position of the descriptor
          open,       \* channel->fd # -1
          offset, buff, curr,   \* struct channel; buff[1..curr] waits to be written
          op,         \* the call under way
          rest,       \* its bytes not yet accepted
          dest,       \* where its seek goes
          towrite,    \* do_write's n, 0 outside do_write
          written,    \* what write returned and the channel has not yet accounted for
          next,       \* the next byte to output
          status,     \* how the last call ended
          raises      \* history: how often a handler run by a write raised

vars == <<file, fdPos, open, offset, buff, curr, op, rest, dest, towrite, written, next, status, raises>>
kernel == <<file, fdPos, raises>>
channel == <<offset, buff, curr>>
call == <<op, rest, dest>>

\* s written at position p of f; a gap left by a seek is filled with zeros.
Overlay(f, p, s) ==
  IF s = <<>> THEN f ELSE
  LET length == IF p + Len(s) > Len(f) THEN p + Len(s) ELSE Len(f)
  IN [i \in 1..length |-> IF i \in (p + 1)..(p + Len(s)) THEN s[i - p]
                          ELSE IF i \in DOMAIN f THEN f[i] ELSE 0]

Pending == [i \in 1..curr |-> buff[i]]

\* caml_open_descriptor_out on a new file.
Init == /\ file = <<>> /\ fdPos = 0 /\ open = TRUE
        /\ offset = 0 /\ buff = [i \in 1..Size |-> 0] /\ curr = 0
        /\ op = "idle" /\ rest = <<>> /\ dest = 0 /\ towrite = 0 /\ written = 0
        /\ next = 1 /\ status = "ok" /\ raises = 0

(* -------------------------------- Calls -------------------------------- *)
Idle == op = "idle"
Begin(o, bytes, d) == /\ Idle
                      /\ op' = o /\ rest' = bytes /\ dest' = d /\ status' = "running"
                      /\ UNCHANGED <<kernel, open, channel, towrite, written>>
Bytes(n) == [i \in 1..n |-> next + i - 1]
Feasible(n) == next + n - 1 <= MaxOut

\* output_char and output_binary_int are one and four uses of putch.
OutputChars(n) == Feasible(n) /\ next' = next + n /\ Begin("chars", Bytes(n), 0)
Output(n) == Feasible(n) /\ next' = next + n /\ Begin("output", Bytes(n), 0)
\* caml_ml_flush and caml_ml_flush_partial do nothing on a closed channel.
FlushCall == open /\ Begin("flush", <<>>, 0) /\ UNCHANGED next
FlushPartialCall == open /\ curr > 0 /\ Begin("partial", <<>>, 0) /\ UNCHANGED next
SeekOut(d) == Begin("seek", <<>>, d) /\ UNCHANGED next

\* caml_ml_close_channel.  Nothing is flushed; the buffer is made to look full.
CloseEmpties == curr' = 0
CloseFills == curr' = Size
Close == /\ Idle /\ open
         /\ open' = FALSE /\ CloseFills
         /\ UNCHANGED <<kernel, offset, buff, call, towrite, written, next, status>>

Finish(how) == op' = "idle" /\ status' = how /\ rest' = <<>> /\ dest' = 0

(* ------------------------------ Buffering ------------------------------ *)
Running == op # "idle" /\ towrite = 0 /\ written = 0

\* putch when there is room.
PutChar ==
  /\ Running /\ op = "chars" /\ rest # <<>> /\ curr < Size
  /\ buff' = [buff EXCEPT ![curr + 1] = Head(rest)] /\ curr' = curr + 1
  /\ rest' = Tail(rest)
  /\ UNCHANGED <<kernel, open, offset, op, dest, towrite, written, next, status>>

Copied(n) == [i \in 1..Size |-> IF i \in (curr + 1)..(curr + n) THEN rest[i - curr] ELSE buff[i]]

\* caml_putblock, the request fits and leaves room.
PutBlockFits ==
  /\ Running /\ op = "output" /\ rest # <<>> /\ Len(rest) < Size - curr
  /\ buff' = Copied(Len(rest)) /\ curr' = curr + Len(rest)
  /\ rest' = <<>>
  /\ UNCHANGED <<kernel, open, offset, op, dest, towrite, written, next, status>>

\* caml_putblock, the request fills the buffer: fill it and write it.  curr moves only
\* when the write has returned.
PutBlockFills ==
  /\ Running /\ op = "output" /\ rest # <<>> /\ Len(rest) >= Size - curr
  /\ buff' = Copied(Size - curr)
  /\ towrite' = Size
  /\ UNCHANGED <<kernel, open, offset, curr, call, written, next, status>>

FlushPartialWhole ==
  /\ Running /\ curr > 0
  /\ op \in {"chars", "flush", "partial", "seek"} /\ (op = "chars" => rest # <<>> /\ curr = Size)
  /\ towrite' = Size
  /\ UNCHANGED <<kernel, open, channel, call, written, next, status>>

\* caml_flush_partial, called by putch on a full buffer and by the loop of caml_flush.
FlushPartial ==
  /\ Running /\ curr > 0
  /\ \/ op = "chars" /\ rest # <<>> /\ curr = Size
     \/ op \in {"flush", "partial", "seek"}
  /\ towrite' = curr
  /\ UNCHANGED <<kernel, open, channel, call, written, next, status>>

Done ==
  /\ Running
  /\ \/ op \in {"chars", "output"} /\ rest = <<>>
     \/ op = "flush" /\ curr = 0
  /\ Finish("ok")
  /\ UNCHANGED <<kernel, open, channel, towrite, written, next>>

SeekAgain == /\ Running /\ op = "seek" /\ curr = 0
             /\ fdPos' = dest /\ offset' = dest
             /\ UNCHANGED <<file, raises, open, buff, curr, call, towrite, written, next, status>>
SeekKeepsOffset == /\ Running /\ op = "seek" /\ curr = 0
                   /\ fdPos' = dest /\ Finish("ok")
                   /\ UNCHANGED <<file, raises, open, channel, towrite, written, next>>

\* caml_seek_out, after its flush.
SeekDone ==
  /\ Running /\ op = "seek" /\ curr = 0
  /\ fdPos' = dest /\ offset' = dest
  /\ Finish("ok")
  /\ UNCHANGED <<file, raises, open, buff, curr, towrite, written, next>>

(* ------------------------------- do_write ------------------------------- *)
Fail(how) == Finish(how) /\ towrite' = 0 /\ written' = 0

\* The kernel takes k bytes of the buffer.
Write(k) ==
  /\ towrite > 0 /\ written = 0 /\ open /\ k \in 1..towrite
  /\ file' = Overlay(file, fdPos, [i \in 1..k |-> buff[i]]) /\ fdPos' = fdPos + k
  /\ written' = k
  /\ UNCHANGED <<open, channel, call, towrite, next, status, raises>>

\* EAGAIN: once more with a single byte.
WriteWouldBlock ==
  /\ towrite > 1 /\ written = 0 /\ open
  /\ towrite' = 1
  /\ UNCHANGED <<kernel, open, channel, call, written, next, status>>

\* An error (EBADF on a closed channel), or Sys_blocked_io when one byte would block too.
WriteFails ==
  /\ towrite > 0 /\ written = 0
  /\ Fail("raised")
  /\ UNCHANGED <<kernel, open, channel, next>>

\* caml_flush_partial goes on: what remains moves to the front.
ShiftedByOneLess(k) == [i \in 1..Size |-> IF i + k - 1 \in 1..curr THEN buff[i + k - 1] ELSE buff[i]]
Shifted(k) == [i \in 1..Size |-> IF i + k \in 1..curr THEN buff[i + k] ELSE buff[i]]
FlushPartialReturns ==
  /\ written > 0 /\ op # "output"
  /\ offset' = offset + written /\ buff' = Shifted(written) /\ curr' = curr - written
  /\ towrite' = 0 /\ written' = 0
  /\ IF op = "partial" THEN Finish("ok") ELSE UNCHANGED <<call, status>>
  /\ UNCHANGED <<kernel, open, next>>

\* caml_putblock goes on: it accepted the bytes that filled the buffer.
Free == Size - curr
PutBlockKeepsOffset ==
  /\ written > 0 /\ op = "output"
  /\ buff' = [i \in 1..Size |-> IF i + written <= Size THEN buff[i + written] ELSE buff[i]]
  /\ curr' = Size - written
  /\ rest' = SubSeq(rest, Free + 1, Len(rest))
  /\ towrite' = 0 /\ written' = 0
  /\ UNCHANGED <<kernel, open, offset, op, dest, next, status>>
PutBlockReturns ==
  /\ written > 0 /\ op = "output"
  /\ offset' = offset + written
  /\ buff' = [i \in 1..Size |-> IF i + written <= Size THEN buff[i + written] ELSE buff[i]]
  /\ curr' = Size - written
  /\ rest' = SubSeq(rest, Free + 1, Len(rest))
  /\ towrite' = 0 /\ written' = 0
  /\ UNCHANGED <<kernel, open, op, dest, next, status>>

\* caml_leave_blocking_section runs the handlers of pending signals once the write is done.
HandlerRaises ==
  /\ written > 0 /\ raises < MaxRaises
  /\ Fail("raised") /\ raises' = raises + 1
  /\ UNCHANGED <<file, fdPos, open, channel, next>>

Operation == \/ \E n \in {1, 4} : OutputChars(n)
             \/ \E n \in 1..MaxBlock : Output(n)
             \/ FlushCall \/ FlushPartialCall \/ Close
             \/ \E d \in Dests : SeekOut(d)
Progress == \/ PutChar \/ PutBlockFits \/ PutBlockFills \/ FlushPartial \/ Done \/ SeekDone
            \/ FlushPartialReturns \/ PutBlockReturns
Kernel == (\E k \in 1..Size : Write(k)) \/ WriteWouldBlock \/ WriteFails
Next == Operation \/ Progress \/ Kernel \/ HandlerRaises
Spec == Init /\ [][Next]_vars

(* ------------------------------ Properties ------------------------------ *)
\* io.h:43: curr is a position in the buffer, whatever way the calls before it ended.
CurrInBuffer == curr \in 0..Size

\* io.h:59: offset is the position in the file of the beginning of the buffer, whenever
\* no write is being accounted for.  A handler that raises over a write leaves its bytes
\* written and not accounted for.
OffsetIsFdPos == (raises = 0 /\ open /\ written = 0) => offset = fdPos

\* Where the buffer is in the file, and the program in the buffer.
BufferIsPlaced == CurrInBuffer /\ OffsetIsFdPos

\* Every byte output so far that was accepted is in the file or in the buffer, once, unless
\* a seek wrote over it: no partial write, retry or error repeats one.
Occurrences(b) == Cardinality({i \in DOMAIN file : file[i] = b})
                  + Cardinality({i \in 1..curr : buff[i] = b})
NoByteTwice == (raises = 0 /\ open /\ written = 0) => \A b \in 1..(next - 1) : Occurrences(b) <= 1

\* The comment of caml_ml_close_channel (io.c:486): every output on a closed channel raises.
ClosedRaises == [][(~open /\ op \in {"chars", "output", "seek"} /\ op' = "idle")
                      => status' = "raised"]_vars

\* What the program believes its file to be: the file with the buffer laid over it.  A block
\* is accepted when its write is done.
Held == IF op = "output" /\ written > 0 THEN buff ELSE Pending
Believed == Overlay(file, offset, Held)
Place == offset + Len(Held)

\* Each step of the channel changes that file by bytes of the program, accepted in order at
\* the place it is at, or by a seek, which moves the place and loses nothing.
Accepts == \E n \in 1..Size, b \in 1..MaxOut :
             LET s == [i \in 1..n |-> b + i - 1]
             IN Believed' = Overlay(Believed, Place, s) /\ Place' = Place + n
Seeks == Place' \in Dests /\ Believed' = Believed
ImplementsWriter == [][open' /\ raises' = 0 => Accepts \/ Seeks]_<<Believed, Place>>
=============================================================================
