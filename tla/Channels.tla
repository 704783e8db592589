------------------------------ MODULE Channels ------------------------------
(***************************************************************************)
(* The channels of a program, output and input, and what they are to it:   *)
(* files.  The two kinds share no state but IO_BUFFER_SIZE.                *)
(***************************************************************************)
EXTENDS OutChannel, FiniteSetTheorems, SequenceTheorems, TLAPS

CONSTANTS FileLen, NewLines,   \* the file that is read, and where its lines end
          InDests,             \* where seek_in may go
          MaxWant              \* the longest block asked for

VARIABLES iOffset, iBuff, iCurr, max, iFdPos, iOpen, lost, iOp, want, got, iP, iStatus, result

I == INSTANCE InChannel WITH
       Dests <- InDests,
       offset <- iOffset, buff <- iBuff, curr <- iCurr, fdPos <- iFdPos, open <- iOpen,
       op <- iOp, p <- iP, status <- iStatus

ASSUME InputAssumption == I!InChannelAssumption

inputVars == <<iOffset, iBuff, iCurr, max, iFdPos, iOpen, lost, iOp, want, got, iP, iStatus, result>>

\* A program uses channels of both kinds.
ChannelsInit == Init /\ I!Init
ChannelsNext == \/ Next /\ UNCHANGED inputVars
                \/ I!Next /\ UNCHANGED vars
ChannelsSpec == ChannelsInit /\ [][ChannelsNext]_<<vars, inputVars>>

(* ------------------------------ Properties ------------------------------ *)
\* A byte that was output is in the file or in the buffer, once; what an input buffer holds is
\* what the file has there, and a scan, or the end of the file, is told as it is.
ChannelsMirrorFiles == NoByteTwice /\ I!BufferMirrorsFile /\ I!ScanTellsLine /\ I!EofAtEnd

\* Channels are files to their program: they accept and deliver bytes in order, at a place only
\* seeks move, and output to a closed one is refused.
StreamsAreInOrder == ClosedRaises /\ ImplementsWriter /\ I!ImplementsReader

(* ------------------------------- Proofs -------------------------------- *)
\* The places and counts of a channel.
Numbers == /\ offset \in Nat /\ fdPos \in Nat /\ open \in BOOLEAN
           /\ curr \in 0..Size /\ towrite \in 0..Size /\ written \in 0..towrite
           /\ next \in Nat /\ raises \in Nat /\ rest \in Seq(Nat) /\ dest \in Nat
\* The descriptor is ahead of the buffer by what write has returned, unless a handler raised
\* over the account.
Ahead == raises = 0 /\ open => fdPos = offset + written
\* A write is of what the buffer holds, or of a buffer that is being filled.
Writing == /\ towrite > 0 => op # "idle"
           /\ towrite > 0 /\ op # "output" => towrite <= curr

ChannelInv == Numbers /\ Ahead /\ Writing

LEMMA ChannelInit == Init => ChannelInv
BY OutChannelAssumption, EmptySeq DEF Init, ChannelInv, Numbers, Ahead, Writing

LEMMA BytesAreNumbers == ASSUME next \in Nat, NEW n \in Nat PROVE Bytes(n) \in Seq(Nat)
BY DEF Bytes

LEMMA ChannelStep == ASSUME ChannelInv, [Next]_vars PROVE ChannelInv'
<1>. USE OutChannelAssumption DEF ChannelInv, Numbers, Ahead, Writing
<1>1. ASSUME NEW n \in Nat, OutputChars(n) PROVE ChannelInv'
  <2>1. Bytes(n) \in Seq(Nat) /\ next + n \in Nat
    BY <1>1, BytesAreNumbers DEF OutputChars
  <2>. QED
    BY <1>1, <2>1 DEF OutputChars, Begin, Idle, kernel, channel
<1>2. ASSUME NEW n \in Nat, Output(n) PROVE ChannelInv'
  <2>1. Bytes(n) \in Seq(Nat) /\ next + n \in Nat
    BY <1>2, BytesAreNumbers DEF Output
  <2>. QED
    BY <1>2, <2>1 DEF Output, Begin, Idle, kernel, channel
<1>3. CASE FlushCall
  BY <1>3, EmptySeq DEF FlushCall, Begin, Idle, kernel, channel
<1>4. CASE FlushPartialCall
  BY <1>4, EmptySeq DEF FlushPartialCall, Begin, Idle, kernel, channel
<1>5. ASSUME NEW d \in Dests, SeekOut(d) PROVE ChannelInv'
  BY <1>5, EmptySeq DEF SeekOut, Begin, Idle, kernel, channel
<1>6. CASE Close
  <2>1. /\ op = "idle" /\ towrite = 0 /\ open' = FALSE /\ curr' \in 0..Size
        /\ UNCHANGED <<fdPos, raises, offset, op, rest, dest, towrite, written, next>>
    BY <1>6 DEF Close, CloseFills, Idle, kernel, call
  <2>. QED
    BY <2>1
<1>7. CASE PutChar
  BY <1>7 DEF PutChar, Running, kernel
<1>8. CASE PutBlockFits
  BY <1>8, EmptySeq DEF PutBlockFits, Running, kernel
<1>9. CASE PutBlockFills
  BY <1>9 DEF PutBlockFills, Running, kernel, call
<1>10. CASE FlushPartial
  BY <1>10 DEF FlushPartial, Running, kernel, channel, call
<1>11. CASE Done
  BY <1>11, EmptySeq DEF Done, Finish, Running, kernel, channel
<1>12. CASE SeekDone
  BY <1>12, EmptySeq DEF SeekDone, Finish, Running
<1>13. CASE FlushPartialReturns
  <2>1. /\ offset' = offset + written /\ curr' = curr - written /\ towrite' = 0 /\ written' = 0
        /\ UNCHANGED <<kernel, open, next>> /\ written > 0 /\ written <= curr
    BY <1>13 DEF FlushPartialReturns
  <2>2. rest' \in Seq(Nat) /\ dest' \in Nat
    <3>1. CASE op = "partial"
      BY <1>13, <3>1, EmptySeq DEF FlushPartialReturns, Finish
    <3>2. CASE op # "partial"
      BY <1>13, <3>2 DEF FlushPartialReturns, call
    <3>. QED
      BY <3>1, <3>2
  <2>3. curr' \in 0..Size /\ offset' \in Nat
    BY <2>1
  <2>. QED
    BY <2>1, <2>2, <2>3 DEF kernel
<1>14. CASE PutBlockReturns
  <2>1. SubSeq(rest, Free + 1, Len(rest)) \in Seq(Nat)
    BY DEF Free
  <2>2. /\ offset' = offset + written /\ curr' = Size - written /\ towrite' = 0 /\ written' = 0
        /\ rest' = SubSeq(rest, Free + 1, Len(rest)) /\ UNCHANGED <<kernel, open, next, dest>>
        /\ written \in 1..Size
    BY <1>14 DEF PutBlockReturns
  <2>. QED
    BY <2>1, <2>2 DEF kernel
<1>15. ASSUME NEW k \in 1..Size, Write(k) PROVE ChannelInv'
  BY <1>15 DEF Write, channel, call
<1>16. CASE WriteWouldBlock
  BY <1>16 DEF WriteWouldBlock, kernel, channel, call
<1>17. CASE WriteFails
  BY <1>17, EmptySeq DEF WriteFails, Fail, Finish, kernel, channel
<1>18. CASE UNCHANGED vars
  BY <1>18 DEF vars, kernel, channel, call
<1>19. CASE HandlerRaises
  BY <1>19, EmptySeq DEF HandlerRaises, Fail, Finish, kernel, channel
<1>. QED
  BY <1>1, <1>2, <1>3, <1>4, <1>5, <1>6, <1>7, <1>8, <1>9, <1>10, <1>11, <1>12, <1>13, <1>14,
     <1>15, <1>16, <1>17, <1>18, <1>19 DEF Next, Operation, Progress, Kernel

\* A channel's write pointer stays in its buffer, on a closed channel and when a handler
\* raises over a write too; between two accounts its offset is the position of its descriptor,
\* through partial writes, writes that would block, errors and seeks (caml_flush_partial,
\* caml_putblock, caml_seek_out, caml_ml_close_channel).
THEOREM BufferIsAlwaysPlaced == Spec => []BufferIsPlaced
<1>1. ChannelInv => BufferIsPlaced
  BY DEF ChannelInv, Numbers, Ahead, BufferIsPlaced, CurrInBuffer, OffsetIsFdPos
<1>2. ChannelInv /\ [Next]_vars => ChannelInv'
  BY ChannelStep
<1>. QED
  BY <1>1, <1>2, ChannelInit, PTL DEF Spec

(* ---------------------- Laying a buffer over a file ---------------------- *)
LEMMA SameSeq ==
  ASSUME NEW a \in Seq(Nat), NEW b \in Seq(Nat), Len(a) = Len(b), \A i \in 1..Len(a) : a[i] = b[i]
  PROVE  a = b
OBVIOUS

\* A position among the first l of the m after p.
LEMMA Among ==
  ASSUME NEW p \in Nat, NEW l \in Nat, NEW m \in Nat, l <= m, NEW i \in (p + 1)..(p + l)
  PROVE  /\ i \in Nat /\ i - p \in 1..l /\ i \in (p + 1)..(p + m) /\ p + (i - p) = i
         /\ i \notin (p + l + 1)..(p + m) /\ i <= p + l
OBVIOUS

LEMMA OverlayNothing == ASSUME NEW f, NEW p PROVE Overlay(f, p, <<>>) = f
BY DEF Overlay

\* g is f with s over it from position p.
Lies(g, f, p, s) ==
  /\ g \in Seq(Nat) /\ Len(g) = IF p + Len(s) > Len(f) THEN p + Len(s) ELSE Len(f)
  /\ \A i \in 1..Len(g) : g[i] = IF i \in (p + 1)..(p + Len(s)) THEN s[i - p]
                                 ELSE IF i \in 1..Len(f) THEN f[i] ELSE 0

LEMMA OverlayIs ==
  ASSUME NEW f \in Seq(Nat), NEW p \in Nat, NEW s \in Seq(Nat), s # <<>>
  PROVE  Lies(Overlay(f, p, s), f, p, s)
<1>. DEFINE length == IF p + Len(s) > Len(f) THEN p + Len(s) ELSE Len(f)
            g == [i \in 1..length |-> IF i \in (p + 1)..(p + Len(s)) THEN s[i - p]
                                      ELSE IF i \in DOMAIN f THEN f[i] ELSE 0]
<1>1. Overlay(f, p, s) = g
  BY DEF Overlay
<1>2. length \in Nat /\ DOMAIN f = 1..Len(f)
  OBVIOUS
<1>. HIDE DEF length
<1>3. \A i \in 1..length : g[i] \in Nat
  BY <1>2
<1>4. g \in [1..length -> Nat]
  BY <1>3
<1>5. g \in Seq(Nat) /\ Len(g) = length
  BY <1>2, <1>4
<1>6. \A i \in 1..length : g[i] = IF i \in (p + 1)..(p + Len(s)) THEN s[i - p]
                                  ELSE IF i \in 1..Len(f) THEN f[i] ELSE 0
  BY <1>2
<1>. HIDE DEF g
<1>. QED
  BY <1>1, <1>5, <1>6 DEF length, Lies

\* c is a and then b.
Joins(a, b, c) == /\ Len(c) = Len(a) + Len(b) /\ \A i \in 1..Len(a) : c[i] = a[i]
                  /\ \A i \in 1..Len(b) : c[Len(a) + i] = b[i]

\* Two runs of bytes, the second at the end of the first, are one run.
LEMMA OverlayTwice ==
  ASSUME NEW f \in Seq(Nat), NEW p \in Nat, NEW a \in Seq(Nat), NEW b \in Seq(Nat), NEW c \in Seq(Nat),
         Joins(a, b, c)
  PROVE  Overlay(Overlay(f, p, a), p + Len(a), b) = Overlay(f, p, c)
<1>4. /\ Len(c) = Len(a) + Len(b) /\ \A i \in 1..Len(a) : c[i] = a[i]
      /\ \A i \in 1..Len(b) : c[Len(a) + i] = b[i]
  BY DEF Joins
<1>1. CASE b = <<>>
  <2>1. c = a
    BY <1>1, <1>4, SameSeq
  <2>. QED
    BY <1>1, <2>1, OverlayNothing
<1>2. CASE a = <<>>
  <2>1. c = b /\ p + Len(a) = p
    BY <1>2, <1>4, SameSeq
  <2>. QED
    BY <1>2, <2>1, OverlayNothing
<1>3. CASE a # <<>> /\ b # <<>>
  <2>. DEFINE g == Overlay(f, p, a)
              h == Overlay(g, p + Len(a), b)
              k == Overlay(f, p, c)
  <2>1. Len(a) \in Nat \ {0} /\ Len(b) \in Nat \ {0} /\ c # <<>> /\ p + Len(a) \in Nat /\ Len(f) \in Nat
    BY <1>3, <1>4
  <2>7. Lies(g, f, p, a) /\ Lies(k, f, p, c)
    BY <1>3, <2>1, OverlayIs
  <2>. HIDE DEF g, k
  <2>2. /\ g \in Seq(Nat) /\ Len(g) = IF p + Len(a) > Len(f) THEN p + Len(a) ELSE Len(f)
        /\ \A i \in 1..Len(g) : g[i] = IF i \in (p + 1)..(p + Len(a)) THEN a[i - p]
                                       ELSE IF i \in 1..Len(f) THEN f[i] ELSE 0
    BY <2>7 DEF Lies
  <2>3. /\ k \in Seq(Nat) /\ Len(k) = IF p + Len(c) > Len(f) THEN p + Len(c) ELSE Len(f)
        /\ \A i \in 1..Len(k) : k[i] = IF i \in (p + 1)..(p + Len(c)) THEN c[i - p]
                                       ELSE IF i \in 1..Len(f) THEN f[i] ELSE 0
    BY <2>7 DEF Lies
  <2>8. Lies(h, g, p + Len(a), b)
    BY <1>3, <2>1, <2>2, OverlayIs
  <2>. HIDE DEF h
  <2>4. /\ h \in Seq(Nat) /\ Len(h) = IF (p + Len(a)) + Len(b) > Len(g) THEN (p + Len(a)) + Len(b) ELSE Len(g)
        /\ \A i \in 1..Len(h) : h[i] = IF i \in (p + Len(a) + 1)..(p + Len(a) + Len(b)) THEN b[i - (p + Len(a))]
                                       ELSE IF i \in 1..Len(g) THEN g[i] ELSE 0
    BY <2>8 DEF Lies
  <2>9. Len(c) = Len(a) + Len(b)
    BY <1>4
  <2>5. Len(h) = Len(k)
    <3>1. /\ Len(g) = IF p + Len(a) > Len(f) THEN p + Len(a) ELSE Len(f)
          /\ Len(k) = IF p + Len(c) > Len(f) THEN p + Len(c) ELSE Len(f)
          /\ Len(h) = IF (p + Len(a)) + Len(b) > Len(g) THEN (p + Len(a)) + Len(b) ELSE Len(g)
      BY <2>2, <2>3, <2>4
    <3>2. p + Len(c) = (p + Len(a)) + Len(b)
      BY <2>1, <2>9
    <3>. QED
      BY <2>1, <3>1, <3>2
  <2>6. ASSUME NEW i \in 1..Len(h) PROVE h[i] = k[i]
    <3>1. CASE i \in (p + Len(a) + 1)..(p + Len(a) + Len(b))
      <4>1. i - (p + Len(a)) \in 1..Len(b) /\ Len(a) + (i - (p + Len(a))) = i - p
            /\ i \in (p + 1)..(p + Len(c))
        BY <2>1, <2>9, <3>1
      <4>2. c[i - p] = b[i - (p + Len(a))]
        BY <1>4, <4>1
      <4>. QED
        BY <2>3, <2>4, <2>5, <3>1, <4>1, <4>2
    <3>2. CASE i \in (p + 1)..(p + Len(a))
      <4>3. Len(g) \in Nat /\ p + Len(a) <= Len(g)
        BY <2>1, <2>2
      <4>4. Len(a) <= Len(c) /\ Len(a) \in Nat /\ Len(c) \in Nat /\ p + Len(a) + Len(b) = p + Len(c)
        BY <2>1, <2>9
      <4>5. /\ i \in Nat /\ i - p \in 1..Len(a) /\ i \in (p + 1)..(p + Len(c)) /\ i <= p + Len(a)
            /\ i \notin (p + Len(a) + 1)..(p + Len(c))
        BY <3>2, <4>4, Among
      <4>6. i \in 1..Len(g)
        BY <2>1, <4>3, <4>5
      <4>1. /\ i - p \in 1..Len(a) /\ i \in (p + 1)..(p + Len(c)) /\ i \in 1..Len(g)
            /\ i \notin (p + Len(a) + 1)..(p + Len(a) + Len(b))
        BY <4>4, <4>5, <4>6
      <4>2. c[i - p] = a[i - p]
        BY <1>4, <4>1
      <4>. QED
        BY <2>2, <2>3, <2>4, <2>5, <3>2, <4>1, <4>2
    <3>3. CASE i \notin (p + 1)..(p + Len(a)) /\ i \notin (p + Len(a) + 1)..(p + Len(a) + Len(b))
      <4>1. i \notin (p + 1)..(p + Len(c)) /\ i \in Nat
        BY <2>1, <2>9, <3>3
      <4>2. h[i] = IF i \in 1..Len(g) THEN g[i] ELSE 0
        BY <2>4, <3>3
      <4>3. k[i] = IF i \in 1..Len(f) THEN f[i] ELSE 0
        BY <2>3, <2>5, <4>1
      <4>4. i \in 1..Len(g) => g[i] = IF i \in 1..Len(f) THEN f[i] ELSE 0
        BY <2>2, <3>3
      <4>5. i \in 1..Len(f) => i \in 1..Len(g)
        BY <2>1, <2>2
      <4>. QED
        BY <4>2, <4>3, <4>4, <4>5
    <3>. QED
      BY <3>1, <3>2, <3>3
  <2>. QED
    BY <2>3, <2>4, <2>5, <2>6, SameSeq DEF h, k, g
<1>. QED
  BY <1>1, <1>2, <1>3

\* Writing a prefix of what lies over a file changes nothing.
LEMMA OverlayAgain ==
  ASSUME NEW f \in Seq(Nat), NEW p \in Nat, NEW a \in Seq(Nat), NEW s \in Seq(Nat),
         Len(a) \in 1..Len(s), \A i \in 1..Len(a) : a[i] = s[i]
  PROVE  Overlay(Overlay(f, p, a), p, s) = Overlay(f, p, s)
<1>. DEFINE g == Overlay(f, p, a)
            h == Overlay(g, p, s)
            k == Overlay(f, p, s)
<1>1. a # <<>> /\ s # <<>> /\ Len(a) \in Nat /\ Len(s) \in Nat /\ Len(f) \in Nat /\ Len(a) <= Len(s)
  OBVIOUS
<1>7. Lies(g, f, p, a) /\ Lies(k, f, p, s)
  BY <1>1, OverlayIs
<1>. HIDE DEF g, k
<1>2. /\ g \in Seq(Nat) /\ Len(g) = IF p + Len(a) > Len(f) THEN p + Len(a) ELSE Len(f)
      /\ \A i \in 1..Len(g) : g[i] = IF i \in (p + 1)..(p + Len(a)) THEN a[i - p]
                                     ELSE IF i \in 1..Len(f) THEN f[i] ELSE 0
  BY <1>7 DEF Lies
<1>3. /\ k \in Seq(Nat) /\ Len(k) = IF p + Len(s) > Len(f) THEN p + Len(s) ELSE Len(f)
      /\ \A i \in 1..Len(k) : k[i] = IF i \in (p + 1)..(p + Len(s)) THEN s[i - p]
                                     ELSE IF i \in 1..Len(f) THEN f[i] ELSE 0
  BY <1>7 DEF Lies
<1>8. Lies(h, g, p, s)
  BY <1>1, <1>2, OverlayIs
<1>. HIDE DEF h
<1>4. /\ h \in Seq(Nat) /\ Len(h) = IF p + Len(s) > Len(g) THEN p + Len(s) ELSE Len(g)
      /\ \A i \in 1..Len(h) : h[i] = IF i \in (p + 1)..(p + Len(s)) THEN s[i - p]
                                     ELSE IF i \in 1..Len(g) THEN g[i] ELSE 0
  BY <1>8 DEF Lies
<1>5. Len(h) = Len(k)
  <2>1. /\ Len(g) = IF p + Len(a) > Len(f) THEN p + Len(a) ELSE Len(f)
        /\ Len(k) = IF p + Len(s) > Len(f) THEN p + Len(s) ELSE Len(f)
        /\ Len(h) = IF p + Len(s) > Len(g) THEN p + Len(s) ELSE Len(g)
    BY <1>2, <1>3, <1>4
  <2>2. p + Len(a) \in Nat /\ p + Len(s) \in Nat /\ Len(f) \in Nat /\ p + Len(a) <= p + Len(s)
    BY <1>1
  <2>3. CASE p + Len(s) > Len(f)
    <3>1. Len(k) = p + Len(s)
      BY <2>1, <2>3
    <3>2. Len(g) = p + Len(a) \/ Len(g) = Len(f)
      BY <2>1
    <3>3. Len(g) \in Nat /\ Len(g) <= p + Len(s)
      BY <2>2, <2>3, <3>2
    <3>4. p + Len(s) > Len(g) \/ p + Len(s) = Len(g)
      BY <2>2, <3>3
    <3>5. Len(h) = p + Len(s)
      BY <2>1, <3>4
    <3>. QED
      BY <3>1, <3>5
  <2>4. CASE ~(p + Len(s) > Len(f))
    <3>1. Len(k) = Len(f)
      BY <2>1, <2>4
    <3>2. Len(g) = Len(f)
      <4>1. ~(p + Len(a) > Len(f))
        BY <2>2, <2>4
      <4>. QED
        BY <2>1, <4>1
    <3>3. Len(h) = Len(g)
      BY <2>1, <2>4, <3>2
    <3>. QED
      BY <3>1, <3>2, <3>3
  <2>. QED
    BY <2>3, <2>4
<1>6. ASSUME NEW i \in 1..Len(h) PROVE h[i] = k[i]
  <2>1. CASE i \in (p + 1)..(p + Len(s))
    BY <1>3, <1>4, <1>5, <2>1
  <2>2. CASE i \notin (p + 1)..(p + Len(s))
    <3>1. i \notin (p + 1)..(p + Len(a)) /\ i \in Nat
      BY <1>1, <2>2
    <3>2. i \in 1..Len(f) => i \in 1..Len(g)
      BY <1>1, <1>2
    <3>3. i \in 1..Len(g) => g[i] = IF i \in 1..Len(f) THEN f[i] ELSE 0
      BY <1>2, <3>1
    <3>4. h[i] = (IF i \in 1..Len(g) THEN g[i] ELSE 0) /\ k[i] = (IF i \in 1..Len(f) THEN f[i] ELSE 0)
      BY <1>3, <1>4, <1>5, <2>2
    <3>. QED
      BY <3>2, <3>3, <3>4
  <2>. QED
    BY <2>1, <2>2
<1>. QED
  BY <1>3, <1>4, <1>5, <1>6, SameSeq DEF g, h, k

\* f has the first n bytes of s after position p; r is what remains of s.
Has(f, p, s, n) == n \in 1..Len(s) /\ \A i \in 1..n : p + i <= Len(f) /\ f[p + i] = s[i]
Remains(r, s, n) == Len(r) = Len(s) - n /\ \A i \in 1..Len(r) : r[i] = s[i + n]

\* What a file has already need not be laid over it.
LEMMA OverlayWritten ==
  ASSUME NEW f \in Seq(Nat), NEW p \in Nat, NEW s \in Seq(Nat), NEW n, NEW r \in Seq(Nat),
         Has(f, p, s, n), Remains(r, s, n)
  PROVE  Overlay(f, p + n, r) = Overlay(f, p, s)
<1>. DEFINE h == Overlay(f, p + n, r)
            k == Overlay(f, p, s)
<1>1. s # <<>> /\ n \in Nat \ {0} /\ n <= Len(s) /\ p + n \in Nat /\ Len(f) \in Nat /\ Len(s) \in Nat
      /\ p + n <= Len(f)
  <2>1. n \in 1..Len(s) /\ Len(s) \in Nat /\ Len(f) \in Nat
    BY DEF Has
  <2>2. n \in 1..n
    BY <2>1
  <2>3. p + n <= Len(f)
    BY <2>2 DEF Has
  <2>. QED
    BY <2>1, <2>3
<1>. USE DEF Has, Remains
<1>5. Lies(k, f, p, s)
  BY <1>1, OverlayIs
<1>. HIDE DEF k
<1>2. /\ k \in Seq(Nat) /\ Len(k) = IF p + Len(s) > Len(f) THEN p + Len(s) ELSE Len(f)
      /\ \A i \in 1..Len(k) : k[i] = IF i \in (p + 1)..(p + Len(s)) THEN s[i - p]
                                     ELSE IF i \in 1..Len(f) THEN f[i] ELSE 0
  BY <1>5 DEF Lies
<1>3. /\ h \in Seq(Nat) /\ Len(h) = IF p + Len(s) > Len(f) THEN p + Len(s) ELSE Len(f)
      /\ \A i \in 1..Len(h) : h[i] = IF i \in (p + n + 1)..(p + Len(s)) THEN s[i - p]
                                     ELSE IF i \in 1..Len(f) THEN f[i] ELSE 0
  <2>1. CASE r = <<>>
    <3>1. h = f /\ n = Len(s)
      BY <1>1, <2>1, OverlayNothing
    <3>. HIDE DEF h
    <3>2. Len(h) = (IF p + Len(s) > Len(f) THEN p + Len(s) ELSE Len(f)) /\ (p + n + 1)..(p + Len(s)) = {}
      BY <1>1, <3>1
    <3>. QED
      BY <3>1, <3>2
  <2>2. CASE r # <<>>
    <3>4. Lies(h, f, p + n, r)
      BY <1>1, <2>2, OverlayIs
    <3>. HIDE DEF h
    <3>1. /\ h \in Seq(Nat) /\ Len(h) = IF (p + n) + Len(r) > Len(f) THEN (p + n) + Len(r) ELSE Len(f)
          /\ \A i \in 1..Len(h) : h[i] = IF i \in (p + n + 1)..(p + n + Len(r)) THEN r[i - (p + n)]
                                         ELSE IF i \in 1..Len(f) THEN f[i] ELSE 0
      BY <3>4 DEF Lies
    <3>2. (p + n) + Len(r) = p + Len(s) /\ p + n + Len(r) = p + Len(s)
      BY <1>1
    <3>3. ASSUME NEW i \in (p + n + 1)..(p + Len(s)) PROVE r[i - (p + n)] = s[i - p]
      <4>1. i - (p + n) \in 1..Len(r) /\ (i - (p + n)) + n = i - p
        BY <1>1, <3>2
      <4>. QED
        BY <4>1
    <3>. QED
      BY <3>1, <3>2, <3>3
  <2>. QED
    BY <2>1, <2>2
<1>. HIDE DEF h
<1>6. Len(h) = Len(k)
  BY <1>2, <1>3
<1>4. ASSUME NEW i \in 1..Len(h) PROVE h[i] = k[i]
  <2>4. i \in 1..Len(k) /\ i \in Nat
    BY <1>6
  <2>5. k[i] = IF i \in (p + 1)..(p + Len(s)) THEN s[i - p] ELSE IF i \in 1..Len(f) THEN f[i] ELSE 0
    BY <1>2, <2>4
  <2>6. h[i] = IF i \in (p + n + 1)..(p + Len(s)) THEN s[i - p] ELSE IF i \in 1..Len(f) THEN f[i] ELSE 0
    BY <1>3
  <2>1. CASE i \in (p + n + 1)..(p + Len(s))
    <3>1. i \in (p + 1)..(p + Len(s))
      BY <1>1, <2>1
    <3>. QED
      BY <2>1, <2>5, <2>6, <3>1
  <2>2. CASE i \in (p + 1)..(p + n)
    <3>1. i - p \in 1..n /\ p + (i - p) = i /\ i \in (p + 1)..(p + Len(s)) /\ i \in 1..Len(f)
          /\ i \notin (p + n + 1)..(p + Len(s))
      <4>1. /\ i \in Nat /\ i - p \in 1..n /\ i \in (p + 1)..(p + Len(s)) /\ p + (i - p) = i
            /\ i \notin (p + n + 1)..(p + Len(s)) /\ i <= p + n
        BY <1>1, <2>2, Among
      <4>2. i \in 1..Len(f)
        BY <1>1, <2>2, <4>1
      <4>. QED
        BY <4>1, <4>2
    <3>2. f[i] = s[i - p]
      <4>1. \A j \in 1..n : f[p + j] = s[j]
        OBVIOUS
      <4>2. f[p + (i - p)] = s[i - p]
        BY <3>1, <4>1
      <4>. QED
        BY <3>1, <4>2
    <3>. QED
      BY <2>5, <2>6, <3>1, <3>2
  <2>3. CASE i \notin (p + n + 1)..(p + Len(s)) /\ i \notin (p + 1)..(p + n)
    <3>1. i \notin (p + 1)..(p + Len(s))
      BY <1>1, <2>3
    <3>. QED
      BY <2>3, <2>5, <2>6, <3>1
  <2>. QED
    BY <2>1, <2>2, <2>3
<1>. QED
  BY <1>2, <1>3, <1>4, SameSeq DEF h, k

(* ------------------------ The writer it implements ----------------------- *)
\* What a call has not accepted are numbers in a row.
Numbered(s) == \A i \in 1..Len(s) : s[i] = s[1] + (i - 1) /\ s[i] \in 1..MaxOut
Contents == /\ file \in Seq(Nat) /\ buff \in [1..Size -> Nat] /\ next > 0
            /\ Numbered(rest) /\ (op = "seek" => dest \in Dests)
\* A block that is being written ends with the bytes its call accepts when write returns.
Filled == towrite > 0 /\ op = "output" => Free <= Len(rest) /\ \A i \in 1..Free : buff[curr + i] = rest[i]
\* What write has taken is before the descriptor.
Taken == \A i \in 1..written : /\ (fdPos - written) + i <= Len(file)
                               /\ file[(fdPos - written) + i] = buff[i]

WriterInv == ChannelInv /\ Contents /\ Filled /\ Taken

LEMMA EmptyIsNumbered == Numbered(<<>>)
BY DEF Numbered

LEMMA RestIsNumbered ==
  ASSUME NEW s \in Seq(Nat), Numbered(s), NEW m \in 1..Len(s) + 1
  PROVE  SubSeq(s, m, Len(s)) \in Seq(Nat) /\ Numbered(SubSeq(s, m, Len(s)))
<1>. DEFINE t == SubSeq(s, m, Len(s))
<1>1. /\ t \in Seq(Nat) /\ Len(t) = Len(s) - m + 1 /\ Len(s) \in Nat
      /\ \A i \in 1..Len(t) : t[i] = s[m + i - 1]
  OBVIOUS
<1>. HIDE DEF t
<1>2. ASSUME NEW i \in 1..Len(t) PROVE t[i] = t[1] + (i - 1) /\ t[i] \in 1..MaxOut
  <2>1. m + i - 1 \in 1..Len(s) /\ m \in 1..Len(s) /\ 1 \in 1..Len(t) /\ m + 1 - 1 = m /\ i \in Nat
    BY <1>1
  <2>2. s[m + i - 1] = s[1] + ((m + i - 1) - 1) /\ s[m] = s[1] + (m - 1) /\ s[m + i - 1] \in 1..MaxOut
    BY <2>1 DEF Numbered
  <2>3. t[i] = s[m + i - 1] /\ t[1] = s[m]
    BY <1>1, <2>1
  <2>4. s[1] \in Nat /\ s[m] \in Nat
    BY <2>1
  <2>5. s[1] + ((m + i - 1) - 1) = (s[1] + (m - 1)) + (i - 1)
    <3>1. \A x, y, z \in Nat : x + ((y + z - 1) - 1) = (x + (y - 1)) + (z - 1)
      OBVIOUS
    <3>2. m \in Nat /\ i \in Nat
      BY <2>1
    <3>. QED
      BY <2>4, <3>1, <3>2
  <2>. QED
    BY <2>2, <2>3, <2>5
<1>3. Numbered(t)
  BY <1>2 DEF Numbered
<1>. QED
  BY <1>1, <1>3 DEF t

LEMMA BytesAreNumbered ==
  ASSUME next \in Nat \ {0}, NEW n \in Nat, Feasible(n)
  PROVE  Bytes(n) \in Seq(Nat) /\ Numbered(Bytes(n))
<1>1. Bytes(n) \in Seq(Nat) /\ Len(Bytes(n)) = n /\ \A i \in 1..n : Bytes(n)[i] = next + i - 1
  BY DEF Bytes
<1>2. ASSUME NEW i \in 1..n PROVE Bytes(n)[i] = Bytes(n)[1] + (i - 1) /\ Bytes(n)[i] \in 1..MaxOut
  <2>1. 1 \in 1..n /\ next + n - 1 <= MaxOut /\ Bytes(n)[1] = next + 1 - 1 /\ Bytes(n)[i] = next + i - 1
    BY <1>1 DEF Feasible
  <2>. QED
    BY <2>1, OutChannelAssumption
<1>. QED
  BY <1>1, <1>2 DEF Numbered

\* No write is under way between calls.
LEMMA IdleIsStill == ASSUME ChannelInv, op = "idle" PROVE towrite = 0 /\ written = 0
BY OutChannelAssumption DEF ChannelInv, Numbers, Writing

\* When no write is under way only the contents count.
LEMMA StillWriter == ASSUME ChannelInv', Contents', towrite' = 0, written' = 0 PROVE WriterInv'
BY DEF WriterInv, Filled, Taken

LEMMA WriterInit == Init => WriterInv
<1>. SUFFICES ASSUME Init PROVE WriterInv
  OBVIOUS
<1>1. Contents
  BY OutChannelAssumption, EmptySeq, EmptyIsNumbered DEF Init, Contents
<1>2. Filled /\ Taken
  BY DEF Init, Filled, Taken
<1>. QED
  BY <1>1, <1>2, ChannelInit DEF WriterInv

\* A step that accepts nothing keeps the contents.
LEMMA ContentsStay ==
  ASSUME Contents, file' \in Seq(Nat), buff' \in [1..Size -> Nat], next' = next,
         rest' = rest \/ rest' = <<>>, op' = "idle" \/ (op' = op /\ dest' = dest)
  PROVE  Contents'
<1>1. Numbered(rest)'
  <2>1. CASE rest' = rest
    BY <2>1 DEF Contents, Numbered
  <2>2. CASE rest' = <<>>
    BY <2>2 DEF Numbered
  <2>. QED
    BY <2>1, <2>2
<1>2. next' > 0 /\ (op' = "seek" => dest' \in Dests)
  BY DEF Contents
<1>. QED
  BY <1>1, <1>2 DEF Contents

LEMMA BufferIsBytes == ASSUME Contents
                       PROVE  buff \in Seq(Nat) /\ Len(buff) = Size
<1>1. \A n \in Nat : \A g \in [1..n -> Nat] : g \in Seq(Nat) /\ Len(g) = n
  OBVIOUS
<1>. QED
  BY <1>1, OutChannelAssumption DEF Contents

LEMMA WriterStep == ASSUME WriterInv, [Next]_vars PROVE WriterInv'
<1>0. /\ ChannelInv /\ Contents /\ Filled /\ Taken /\ ChannelInv' /\ Size \in Nat \ {0}
      /\ curr \in 0..Size /\ towrite \in 0..Size /\ written \in 0..towrite /\ next \in Nat \ {0}
      /\ rest \in Seq(Nat) /\ fdPos \in Nat
      /\ file \in Seq(Nat) /\ buff \in [1..Size -> Nat] /\ Numbered(rest)
      /\ (op = "seek" => dest \in Dests)
  <2>1. ChannelInv /\ Contents /\ Filled /\ Taken /\ ChannelInv'
    BY ChannelStep DEF WriterInv
  <2>2. /\ curr \in 0..Size /\ towrite \in 0..Size /\ written \in 0..towrite /\ next \in Nat
        /\ rest \in Seq(Nat) /\ fdPos \in Nat
    BY <2>1 DEF ChannelInv, Numbers
  <2>3. /\ next > 0 /\ file \in Seq(Nat) /\ buff \in [1..Size -> Nat] /\ Numbered(rest)
        /\ (op = "seek" => dest \in Dests)
    BY <2>1 DEF Contents
  <2>. QED
    BY <2>1, <2>2, <2>3, OutChannelAssumption
<1>1. ASSUME NEW n \in Nat, OutputChars(n) PROVE WriterInv'
  <2>1. towrite' = 0 /\ written' = 0
    BY <1>0, <1>1, IdleIsStill DEF OutputChars, Begin, Idle
  <2>2. Bytes(n) \in Seq(Nat) /\ Numbered(Bytes(n))
    BY <1>0, <1>1, BytesAreNumbered DEF OutputChars
  <2>3. rest' = Bytes(n) /\ op' = "chars" /\ next' = next + n /\ file' = file /\ buff' = buff
    BY <1>1 DEF OutputChars, Begin, kernel, channel
  <2>4. Contents'
    BY <1>0, <2>2, <2>3 DEF Contents
  <2>. QED
    BY <1>0, <2>1, <2>4, StillWriter
<1>2. ASSUME NEW n \in Nat, Output(n) PROVE WriterInv'
  <2>1. towrite' = 0 /\ written' = 0
    BY <1>0, <1>2, IdleIsStill DEF Output, Begin, Idle
  <2>2. Bytes(n) \in Seq(Nat) /\ Numbered(Bytes(n))
    BY <1>0, <1>2, BytesAreNumbered DEF Output
  <2>3. rest' = Bytes(n) /\ op' = "output" /\ next' = next + n /\ file' = file /\ buff' = buff
    BY <1>2 DEF Output, Begin, kernel, channel
  <2>4. Contents'
    BY <1>0, <2>2, <2>3 DEF Contents
  <2>. QED
    BY <1>0, <2>1, <2>4, StillWriter
<1>3. CASE FlushCall \/ FlushPartialCall \/ \E d \in Dests : SeekOut(d)
  <2>1. towrite' = 0 /\ written' = 0
    BY <1>0, <1>3, IdleIsStill DEF FlushCall, FlushPartialCall, SeekOut, Begin, Idle
  <2>2. /\ rest' = <<>> /\ next' = next /\ file' = file /\ buff' = buff
        /\ (op' = "seek" => dest' \in Dests)
    BY <1>3 DEF FlushCall, FlushPartialCall, SeekOut, Begin, kernel, channel
  <2>4. rest' \in Seq(Nat) /\ Numbered(rest')
    BY <2>2, EmptySeq, EmptyIsNumbered
  <2>3. Contents'
    BY <1>0, <2>2, <2>4 DEF Contents
  <2>. QED
    BY <1>0, <2>1, <2>3, StillWriter
<1>4. CASE Close
  <2>1. towrite' = 0 /\ written' = 0
    BY <1>0, <1>4, IdleIsStill DEF Close, Idle
  <2>2. UNCHANGED <<file, buff, next, rest, op, dest>>
    BY <1>4 DEF Close, kernel, call
  <2>3. Contents'
    BY <1>0, <2>2, ContentsStay
  <2>. QED
    BY <1>0, <2>1, <2>3, StillWriter
<1>5. CASE PutChar
  <2>1. /\ towrite' = 0 /\ written' = 0 /\ rest # <<>> /\ curr < Size
        /\ UNCHANGED <<file, next, op, dest>> /\ op = "chars"
        /\ rest' = Tail(rest) /\ buff' = [buff EXCEPT ![curr + 1] = Head(rest)]
    BY <1>5 DEF PutChar, Running, kernel
  <2>2. Head(rest) \in Nat /\ Tail(rest) = SubSeq(rest, 2, Len(rest)) /\ 2 \in 1..Len(rest) + 1
    BY <1>0, <2>1
  <2>3. rest' \in Seq(Nat) /\ Numbered(Tail(rest))
    BY <1>0, <2>1, <2>2, RestIsNumbered
  <2>4. buff' \in [1..Size -> Nat]
    BY <1>0, <2>1, <2>2
  <2>5. Contents'
    BY <1>0, <2>1, <2>3, <2>4 DEF Contents
  <2>. QED
    BY <1>0, <2>1, <2>5, StillWriter
<1>6. CASE PutBlockFits
  <2>1. /\ towrite' = 0 /\ written' = 0 /\ UNCHANGED <<file, next, op, dest>> /\ op = "output"
        /\ rest' = <<>> /\ buff' = Copied(Len(rest)) /\ Len(rest) < Size - curr
    BY <1>6 DEF PutBlockFits, Running, kernel
  <2>2. buff' \in [1..Size -> Nat]
    BY <1>0, <2>1 DEF Copied
  <2>3. Contents'
    BY <1>0, <2>1, <2>2, ContentsStay
  <2>. QED
    BY <1>0, <2>1, <2>3, StillWriter
<1>7. CASE PutBlockFills
  <2>1. /\ written = 0 /\ UNCHANGED <<file, next, op, dest, rest, curr, fdPos, written>> /\ op = "output"
        /\ buff' = Copied(Size - curr) /\ Size - curr <= Len(rest)
    BY <1>7 DEF PutBlockFills, Running, kernel, call
  <2>2. buff' \in [1..Size -> Nat]
    BY <1>0, <2>1 DEF Copied
  <2>3. Contents'
    BY <1>0, <2>1, <2>2, ContentsStay
  <2>4. \A i \in 1..(Size - curr) : buff'[curr + i] = rest[i]
    BY <1>0, <2>1 DEF Copied
  <2>5. Filled'
    BY <2>1, <2>4 DEF Filled, Free
  <2>6. Taken'
    BY <2>1 DEF Taken
  <2>. QED
    BY <1>0, <2>3, <2>5, <2>6 DEF WriterInv
<1>8. CASE FlushPartial
  <2>1. op # "output" /\ written = 0 /\ UNCHANGED <<file, next, op, dest, rest, curr, fdPos, written, buff>>
    BY <1>8 DEF FlushPartial, Running, kernel, channel, call
  <2>2. Contents'
    BY <1>0, <2>1, ContentsStay
  <2>3. Filled' /\ Taken'
    BY <2>1 DEF Filled, Taken
  <2>. QED
    BY <1>0, <2>2, <2>3 DEF WriterInv
<1>9. CASE Done \/ SeekDone \/ WriteFails \/ HandlerRaises
  <2>1. towrite' = 0 /\ written' = 0
    BY <1>9 DEF Done, SeekDone, WriteFails, HandlerRaises, Running, Fail
  <2>2. UNCHANGED <<file, buff, next>> /\ rest' = <<>> /\ op' = "idle"
    BY <1>9 DEF Done, SeekDone, WriteFails, HandlerRaises, Fail, Finish, kernel, channel
  <2>3. Contents'
    BY <1>0, <2>2, ContentsStay
  <2>. QED
    BY <1>0, <2>1, <2>3, StillWriter
<1>10. CASE FlushPartialReturns
  <2>1. towrite' = 0 /\ written' = 0 /\ UNCHANGED <<file, next>> /\ buff' = Shifted(written)
    BY <1>10 DEF FlushPartialReturns, kernel
  <2>2. /\ rest' = <<>> \/ rest' = rest
        /\ op' = "idle" \/ (op' = op /\ dest' = dest)
    BY <1>10 DEF FlushPartialReturns, Finish, call
  <2>3. buff' \in [1..Size -> Nat]
    <3>1. \A j \in 1..curr : buff[j] \in Nat
      <4>1. \A j \in 1..curr : j \in 1..Size
        BY <1>0
      <4>. QED
        BY <1>0, <4>1
    <3>. QED
      BY <1>0, <2>1, <3>1 DEF Shifted
  <2>4. Contents'
    BY <1>0, <2>1, <2>2, <2>3, ContentsStay
  <2>. QED
    BY <1>0, <2>1, <2>4, StillWriter
<1>11. CASE PutBlockReturns
  <2>1. /\ towrite' = 0 /\ written' = 0 /\ UNCHANGED <<file, next, op, dest>>
        /\ buff' = [i \in 1..Size |-> IF i + written <= Size THEN buff[i + written] ELSE buff[i]]
        /\ op = "output" /\ written > 0 /\ rest' = SubSeq(rest, Free + 1, Len(rest))
    BY <1>11 DEF PutBlockReturns, kernel
  <2>2. Free + 1 \in 1..Len(rest) + 1
    BY <1>0, <2>1 DEF Filled, Free
  <2>3. SubSeq(rest, Free + 1, Len(rest)) \in Seq(Nat) /\ Numbered(SubSeq(rest, Free + 1, Len(rest)))
    BY <1>0, <2>2, RestIsNumbered
  <2>4. buff' \in [1..Size -> Nat]
    BY <1>0, <2>1
  <2>5. Contents'
    BY <1>0, <2>1, <2>3, <2>4 DEF Contents
  <2>. QED
    BY <1>0, <2>1, <2>5, StillWriter
<1>12. ASSUME NEW k \in 1..Size, Write(k) PROVE WriterInv'
  <2>. DEFINE a == [i \in 1..k |-> buff[i]]
  <2>1. /\ UNCHANGED <<next, op, dest, rest, curr, buff, towrite>> /\ k \in 1..towrite
        /\ file' = Overlay(file, fdPos, a) /\ fdPos' = fdPos + k /\ written' = k
    BY <1>12 DEF Write, channel, call
  <2>2. a \in Seq(Nat) /\ a # <<>> /\ Len(a) = k /\ \A i \in 1..k : a[i] = buff[i]
    <3>0. buff \in [1..Size -> Nat] /\ Size \in Nat
      BY <1>0
    <3>1. \A i \in 1..k : i \in 1..Size /\ buff[i] \in Nat
      BY <3>0
    <3>2. a \in [1..k -> Nat] /\ k \in Nat \ {0} /\ \A i \in 1..k : a[i] = buff[i]
      BY <3>1
    <3>. HIDE DEF a
    <3>3. a \in Seq(Nat) /\ Len(a) = k
      BY <3>2
    <3>. QED
      BY <3>2, <3>3
  <2>. HIDE DEF a
  <2>3. Lies(file', file, fdPos, a)
    BY <1>0, <2>1, <2>2, OverlayIs
  <2>4. Contents'
    BY <1>0, <2>1, <2>3 DEF Contents, Lies
  <2>5. Filled'
    BY <1>0, <2>1 DEF Filled, Free
  <2>6. ASSUME NEW i \in 1..k PROVE fdPos + i <= Len(file') /\ file'[fdPos + i] = buff[i]
    <3>1. Len(file) \in Nat /\ Len(file') = IF fdPos + k > Len(file) THEN fdPos + k ELSE Len(file)
      BY <1>0, <2>2, <2>3 DEF Lies
    <3>2. fdPos + i <= Len(file') /\ fdPos + i \in 1..Len(file')
      BY <1>0, <3>1
    <3>3. fdPos + i \in (fdPos + 1)..(fdPos + Len(a)) /\ (fdPos + i) - fdPos = i
      BY <1>0, <2>2
    <3>4. file'[fdPos + i] = a[(fdPos + i) - fdPos]
      BY <2>3, <3>2, <3>3 DEF Lies
    <3>. QED
      BY <2>2, <3>2, <3>3, <3>4
  <2>7. fdPos' - written' = fdPos
    BY <1>0, <2>1
  <2>8. Taken'
    BY <2>1, <2>6, <2>7 DEF Taken
  <2>. QED
    BY <1>0, <2>4, <2>5, <2>8 DEF WriterInv
<1>13. CASE WriteWouldBlock
  <2>1. written = 0 /\ towrite > 0
        /\ UNCHANGED <<file, next, op, dest, rest, curr, fdPos, written, buff>>
    BY <1>13, <1>0 DEF WriteWouldBlock, kernel, channel, call
  <2>2. Contents'
    BY <1>0, <2>1, ContentsStay
  <2>3. Filled' /\ Taken'
    BY <1>0, <2>1 DEF Filled, Taken, Free
  <2>. QED
    BY <1>0, <2>2, <2>3 DEF WriterInv
<1>14. CASE UNCHANGED vars
  <2>1. UNCHANGED <<file, next, op, dest, rest, curr, fdPos, written, buff, towrite>>
    BY <1>14 DEF vars
  <2>2. Contents' /\ Filled' /\ Taken'
    BY <1>0, <2>1 DEF Contents, Filled, Taken, Free
  <2>. QED
    BY <1>0, <2>2 DEF WriterInv
<1>. QED
  BY <1>1, <1>2, <1>3, <1>4, <1>5, <1>6, <1>7, <1>8, <1>9, <1>10, <1>11, <1>12, <1>13, <1>14
  DEF Next, Operation, Progress, Kernel

LEMMA PendingIs ==
  ASSUME Contents, curr \in 0..Size
  PROVE  Pending \in Seq(Nat) /\ Len(Pending) = curr /\ \A i \in 1..curr : Pending[i] = buff[i]
<1>1. \A i \in 1..curr : i \in 1..Size /\ buff[i] \in Nat
  <2>1. Size \in Nat /\ buff \in [1..Size -> Nat]
    BY OutChannelAssumption DEF Contents
  <2>. QED
    BY <2>1
<1>2. Pending \in [1..curr -> Nat] /\ curr \in Nat /\ \A i \in 1..curr : Pending[i] = buff[i]
  BY <1>1 DEF Pending
<1>3. Pending \in Seq(Nat) /\ Len(Pending) = curr
  BY <1>2
<1>. QED
  BY <1>2, <1>3

\* Bytes put after what is held are accepted.
LEMMA PuttingAccepts ==
  ASSUME NEW f \in Seq(Nat), NEW p \in Nat, NEW a \in Seq(Nat), NEW s \in Seq(Nat), NEW c \in Seq(Nat),
         Believed = Overlay(f, p, a), Place = p + Len(a), Believed' = Overlay(f, p, c),
         Place' = p + Len(c), Len(s) \in 1..Size, Numbered(s), Joins(a, s, c)
  PROVE  Accepts
<1>. DEFINE r == [i \in 1..Len(s) |-> s[1] + i - 1]
<1>1. s[1] \in 1..MaxOut /\ \A i \in 1..Len(s) : s[i] = s[1] + i - 1
  BY DEF Numbered
<1>2. s = r
  <2>1. s = [i \in 1..Len(s) |-> s[i]]
    OBVIOUS
  <2>. QED
    BY <1>1, <2>1
<1>. HIDE DEF r
<1>3. Believed' = Overlay(Believed, Place, s)
  <2>1. Overlay(Overlay(f, p, a), p + Len(a), s) = Overlay(f, p, c)
    BY OverlayTwice
  <2>. QED
    BY <2>1
<1>4. Place' = Place + Len(s)
  BY DEF Joins
<1>5. Believed' = Overlay(Believed, Place, r) /\ Place' = Place + Len(s)
  BY <1>2, <1>3, <1>4
<1>. QED
  BY <1>1, <1>5 DEF Accepts, r

\* A step that leaves the file, its place and what is held leaves what the program believes.
LEMMA HoldingStays ==
  ASSUME Contents, Contents', curr \in 0..Size, UNCHANGED <<file, offset, curr>>,
         written = 0, written' = 0, \A i \in 1..curr : buff'[i] = buff[i]
  PROVE  UNCHANGED <<Believed, Place>>
<1>1. Held = Pending /\ Held' = Pending'
  BY DEF Held
<1>2. Pending' = Pending
  BY DEF Pending
<1>. QED
  BY <1>1, <1>2 DEF Believed, Place

LEMMA WriterRefines ==
  ASSUME WriterInv, [Next]_vars, open', raises' = 0
  PROVE  Accepts \/ Seeks \/ UNCHANGED <<Believed, Place>>
<1>0. /\ ChannelInv /\ Contents /\ Filled /\ Taken /\ Contents' /\ Size \in Nat \ {0}
      /\ curr \in 0..Size /\ towrite \in 0..Size /\ written \in 0..towrite /\ offset \in Nat
      /\ rest \in Seq(Nat) /\ file \in Seq(Nat) /\ buff \in [1..Size -> Nat] /\ Numbered(rest)
      /\ (open /\ raises = 0 => fdPos = offset + written)
      /\ (towrite > 0 /\ op # "output" => towrite <= curr) /\ (op = "seek" => dest \in Dests)
      /\ curr' \in 0..Size
  <2>1. ChannelInv /\ Contents /\ Filled /\ Taken /\ WriterInv'
    BY WriterStep DEF WriterInv
  <2>2. /\ curr \in 0..Size /\ towrite \in 0..Size /\ written \in 0..towrite /\ offset \in Nat
        /\ rest \in Seq(Nat) /\ (open /\ raises = 0 => fdPos = offset + written)
        /\ (towrite > 0 /\ op # "output" => towrite <= curr)
    BY <2>1 DEF ChannelInv, Numbers, Ahead, Writing
  <2>3. /\ file \in Seq(Nat) /\ buff \in [1..Size -> Nat] /\ Numbered(rest)
        /\ (op = "seek" => dest \in Dests)
    BY <2>1 DEF Contents
  <2>4. Contents' /\ curr' \in 0..Size
    BY <2>1 DEF WriterInv, ChannelInv, Numbers
  <2>. QED
    BY <2>1, <2>2, <2>3, <2>4, OutChannelAssumption
<1>1. Pending \in Seq(Nat) /\ Len(Pending) = curr /\ \A i \in 1..curr : Pending[i] = buff[i]
  BY <1>0, PendingIs
<1>2. Pending' \in Seq(Nat) /\ Len(Pending)' = curr' /\ \A i \in 1..curr' : Pending'[i] = buff'[i]
  <2>1. ASSUME Size \in Nat, Contents', curr' \in 0..Size
        PROVE  Pending' \in Seq(Nat) /\ Len(Pending') = curr' /\ \A i \in 1..curr' : Pending'[i] = buff'[i]
    <3>1. \A i \in 1..curr' : i \in 1..Size /\ buff'[i] \in Nat
      BY <2>1 DEF Contents
    <3>2. Pending' \in [1..curr' -> Nat] /\ curr' \in Nat /\ \A i \in 1..curr' : Pending'[i] = buff'[i]
      BY <2>1, <3>1 DEF Pending
    <3>3. Pending' \in Seq(Nat) /\ Len(Pending') = curr'
      BY <3>2
    <3>. QED
      BY <3>2, <3>3
  <2>. QED
    BY <1>0, <2>1
<1>3. ASSUME written = 0, written' = 0, UNCHANGED <<file, offset, curr>>,
             \A i \in 1..curr : buff'[i] = buff[i]
      PROVE  UNCHANGED <<Believed, Place>>
  BY <1>0, <1>3, HoldingStays
<1>4. CASE \/ \E n \in Nat : OutputChars(n) \/ Output(n)
           \/ FlushCall \/ FlushPartialCall \/ \E d \in Dests : SeekOut(d)
  <2>1. op = "idle" /\ UNCHANGED <<file, offset, curr, buff, written>>
    BY <1>4 DEF OutputChars, Output, FlushCall, FlushPartialCall, SeekOut, Begin, Idle, kernel, channel
  <2>. QED
    BY <1>0, <1>3, <2>1, IdleIsStill
<1>5. CASE Close
  BY <1>5 DEF Close
<1>6. CASE PutChar
  <2>1. /\ written = 0 /\ written' = 0 /\ rest # <<>> /\ curr < Size
        /\ UNCHANGED <<file, offset, op>> /\ op = "chars" /\ curr' = curr + 1
        /\ rest' = Tail(rest) /\ buff' = [buff EXCEPT ![curr + 1] = Head(rest)]
    BY <1>6 DEF PutChar, Running, kernel
  <2>2. Held = Pending /\ Held' = Pending'
    BY <2>1 DEF Held
  <2>3. /\ Believed = Overlay(file, offset, Pending) /\ Place = offset + Len(Pending)
        /\ Believed' = Overlay(file, offset, Pending') /\ Place' = offset + Len(Pending')
    BY <2>1, <2>2 DEF Believed, Place
  <2>. DEFINE s == <<Head(rest)>>
  <2>4. Head(rest) = rest[1] /\ 1 \in 1..Len(rest) /\ Head(rest) \in Nat
    BY <1>0, <2>1
  <2>5. s \in Seq(Nat) /\ Len(s) = 1 /\ s[1] = Head(rest)
    BY <2>4
  <2>. HIDE DEF s
  <2>6. rest[1] \in 1..MaxOut
    BY <1>0, <2>4 DEF Numbered
  <2>7. Numbered(s)
    BY <2>4, <2>5, <2>6 DEF Numbered
  <2>8. buff'[curr + 1] = Head(rest) /\ \A i \in 1..curr : buff'[i] = buff[i]
    BY <1>0, <2>1
  <2>10. Len(Pending') = curr + 1 /\ Len(Pending) = curr /\ curr \in Nat
    BY <1>0, <1>1, <1>2, <2>1
  <2>11. \A i \in 1..curr : Pending'[i] = Pending[i]
    BY <1>0, <1>1, <1>2, <2>1, <2>8
  <2>12. Pending'[curr + 1] = s[1]
    BY <1>0, <1>2, <2>1, <2>5, <2>8
  <2>13. Len(s) \in 1..Size
    BY <1>0, <2>5
  <2>9. Joins(Pending, s, Pending') /\ Len(s) \in 1..Size
    BY <2>5, <2>10, <2>11, <2>12, <2>13 DEF Joins
  <2>. QED
    BY <1>0, <1>1, <1>2, <2>3, <2>5, <2>7, <2>9, PuttingAccepts
<1>7. CASE PutBlockFits
  <2>1. /\ written = 0 /\ written' = 0 /\ rest # <<>> /\ UNCHANGED <<file, offset, op>>
        /\ curr' = curr + Len(rest) /\ buff' = Copied(Len(rest)) /\ Len(rest) < Size - curr
    BY <1>7 DEF PutBlockFits, Running, kernel
  <2>2. Held = Pending /\ Held' = Pending'
    BY <2>1 DEF Held
  <2>3. /\ Believed = Overlay(file, offset, Pending) /\ Place = offset + Len(Pending)
        /\ Believed' = Overlay(file, offset, Pending') /\ Place' = offset + Len(Pending')
    BY <2>1, <2>2 DEF Believed, Place
  <2>4. Len(rest) \in 1..Size
    BY <1>0, <2>1
  <2>5. /\ \A i \in 1..curr : buff'[i] = buff[i]
        /\ \A i \in 1..Len(rest) : buff'[curr + i] = rest[i]
    <3>1. \A i \in 1..curr : i \in 1..Size /\ i \notin (curr + 1)..(curr + Len(rest))
      BY <1>0, <2>4
    <3>2. \A i \in 1..Len(rest) : curr + i \in 1..Size /\ curr + i \in (curr + 1)..(curr + Len(rest))
                                  /\ (curr + i) - curr = i
      BY <1>0, <2>1, <2>4
    <3>. QED
      BY <2>1, <3>1, <3>2 DEF Copied
  <2>6. Joins(Pending, rest, Pending')
    <3>1. /\ curr' = curr + Len(rest) /\ curr \in Nat /\ Len(rest) \in Nat
          /\ \A i \in 1..curr : i \in 1..curr'
          /\ \A i \in 1..Len(rest) : curr + i \in 1..curr'
      BY <1>0, <2>1, <2>4
    <3>. QED
      BY <1>1, <1>2, <2>5, <3>1 DEF Joins
  <2>. QED
    BY <1>0, <1>1, <1>2, <2>3, <2>4, <2>6, PuttingAccepts
<1>8. CASE PutBlockFills
  <2>1. /\ written = 0 /\ written' = 0 /\ UNCHANGED <<file, offset, curr>> /\ buff' = Copied(Size - curr)
    BY <1>8 DEF PutBlockFills, Running, kernel, call
  <2>2. \A i \in 1..curr : buff'[i] = buff[i]
    BY <1>0, <2>1 DEF Copied
  <2>. QED
    BY <1>3, <2>1, <2>2
<1>9. CASE FlushPartial \/ Done \/ WriteWouldBlock \/ WriteFails \/ UNCHANGED vars
  <2>1. UNCHANGED <<file, offset, curr, buff>>
    BY <1>9 DEF FlushPartial, Done, WriteWouldBlock, WriteFails, kernel, channel, vars
  <2>2. (written = 0 /\ written' = 0) \/ UNCHANGED vars
    BY <1>9 DEF FlushPartial, Done, WriteWouldBlock, WriteFails, Running, Fail
  <2>3. CASE UNCHANGED vars
    BY <2>3 DEF vars, Believed, Place, Held, Pending
  <2>. QED
    BY <1>3, <2>1, <2>2, <2>3
<1>10. CASE SeekDone
  <2>1. /\ curr = 0 /\ written = 0 /\ written' = 0 /\ offset' = dest /\ op = "seek" /\ dest \in Dests
        /\ UNCHANGED <<file, curr, buff>>
    BY <1>0, <1>10 DEF SeekDone, Running
  <2>2. Held = Pending /\ Held' = Pending' /\ Pending' = Pending /\ Pending = <<>>
    BY <1>1, <2>1 DEF Held, Pending
  <2>4. Believed = Overlay(file, offset, <<>>) /\ Believed' = Overlay(file, dest, <<>>) /\ Len(<<>>) = 0
    BY <2>1, <2>2 DEF Believed
  <2>5. Place' = dest + Len(<<>>) /\ dest \in Nat
    BY <2>1, <2>2, OutChannelAssumption DEF Place
  <2>3. Believed = file /\ Believed' = file /\ Place' = dest + 0 /\ dest \in Nat
    BY <2>4, <2>5, OverlayNothing
  <2>. QED
    BY <2>1, <2>3 DEF Seeks
<1>11. CASE FlushPartialReturns
  <2>1. /\ written > 0 /\ op # "output" /\ offset' = offset + written /\ buff' = Shifted(written)
        /\ curr' = curr - written /\ written' = 0 /\ UNCHANGED <<file, open, raises, fdPos>>
    BY <1>11 DEF FlushPartialReturns, kernel
  <2>2. Held = Pending /\ Held' = Pending'
    BY <2>1 DEF Held
  <2>3. written \in 1..Len(Pending) /\ fdPos - written = offset
    BY <1>0, <1>1, <2>1
  <2>4. \A i \in 1..written : offset + i <= Len(file) /\ file[offset + i] = Pending[i]
    <3>1. \A i \in 1..written : i \in 1..curr
      BY <1>0, <1>1, <2>3
    <3>2. \A i \in 1..written : offset + i <= Len(file) /\ file[offset + i] = buff[i]
      BY <1>0, <2>3 DEF Taken
    <3>. QED
      BY <1>1, <3>1, <3>2
  <2>5. \A i \in 1..(curr - written) : buff'[i] = buff[i + written]
    BY <1>0, <1>1, <2>1, <2>3 DEF Shifted
  <2>6. Len(Pending') = Len(Pending) - written /\ \A i \in 1..Len(Pending') : Pending'[i] = Pending[i + written]
    BY <1>0, <1>1, <1>2, <2>1, <2>3, <2>5
  <2>7. Overlay(file, offset + written, Pending') = Overlay(file, offset, Pending)
    <3>1. Pending \in Seq(Nat) /\ Pending' \in Seq(Nat) /\ file \in Seq(Nat) /\ offset \in Nat
      BY <1>0, <1>1, <1>2
    <3>2. Has(file, offset, Pending, written) /\ Remains(Pending', Pending, written)
      BY <2>3, <2>4, <2>6 DEF Has, Remains
    <3>. QED
      BY <3>1, <3>2, OverlayWritten
  <2>8. offset' + Len(Pending') = offset + Len(Pending)
    BY <1>0, <1>1, <2>1, <2>6
  <2>. QED
    BY <2>1, <2>2, <2>7, <2>8 DEF Believed, Place
<1>12. CASE PutBlockReturns
  <2>1. /\ written > 0 /\ op = "output" /\ offset' = offset + written
        /\ buff' = [i \in 1..Size |-> IF i + written <= Size THEN buff[i + written] ELSE buff[i]]
        /\ curr' = Size - written /\ written' = 0 /\ UNCHANGED <<file, open, raises, fdPos>>
    BY <1>12 DEF PutBlockReturns, kernel
  <2>2. Held = buff /\ Held' = Pending'
    BY <2>1 DEF Held
  <2>3. buff \in Seq(Nat) /\ Len(buff) = Size /\ written \in 1..Len(buff) /\ fdPos - written = offset
    BY <1>0, <2>1, BufferIsBytes
  <2>4. \A i \in 1..written : offset + i <= Len(file) /\ file[offset + i] = buff[i]
    BY <1>0, <2>3 DEF Taken
  <2>5. \A i \in 1..(Size - written) : buff'[i] = buff[i + written]
    <3>1. \A i \in 1..(Size - written) : i \in 1..Size /\ i + written <= Size
      BY <1>0, <2>3
    <3>. QED
      BY <2>1, <3>1
  <2>6. Len(Pending') = Len(buff) - written /\ \A i \in 1..Len(Pending') : Pending'[i] = buff[i + written]
    BY <1>0, <1>2, <2>1, <2>3, <2>5
  <2>7. Overlay(file, offset + written, Pending') = Overlay(file, offset, buff)
    <3>1. Pending' \in Seq(Nat) /\ file \in Seq(Nat) /\ offset \in Nat
      BY <1>0, <1>2
    <3>2. Has(file, offset, buff, written) /\ Remains(Pending', buff, written)
      BY <2>3, <2>4, <2>6 DEF Has, Remains
    <3>. QED
      BY <2>3, <3>1, <3>2, OverlayWritten
  <2>8. offset' + Len(Pending') = offset + Len(buff)
    BY <1>0, <2>1, <2>3, <2>6
  <2>. QED
    BY <2>1, <2>2, <2>7, <2>8 DEF Believed, Place
<1>13. ASSUME NEW k \in 1..Size, Write(k) PROVE Accepts \/ UNCHANGED <<Believed, Place>>
  <2>. DEFINE a == [i \in 1..k |-> buff[i]]
  <2>1. /\ UNCHANGED <<offset, op, curr, buff, raises, open>> /\ k \in 1..towrite /\ written = 0
        /\ file' = Overlay(file, fdPos, a) /\ written' = k /\ open
    BY <1>13 DEF Write, channel, call
  <2>2. a \in Seq(Nat) /\ Len(a) = k /\ \A i \in 1..k : a[i] = buff[i]
    <3>0. buff \in [1..Size -> Nat] /\ Size \in Nat
      BY <1>0
    <3>1. \A i \in 1..k : i \in 1..Size /\ buff[i] \in Nat
      BY <3>0
    <3>2. a \in [1..k -> Nat] /\ k \in Nat \ {0} /\ \A i \in 1..k : a[i] = buff[i]
      BY <3>1
    <3>. HIDE DEF a
    <3>3. a \in Seq(Nat) /\ Len(a) = k
      BY <3>2
    <3>. QED
      BY <3>2, <3>3
  <2>. HIDE DEF a
  <2>3. fdPos = offset /\ Held = Pending /\ Pending' = Pending /\ k > 0
    BY <1>0, <2>1 DEF Held, Pending
  <2>4. Believed = Overlay(file, offset, Pending) /\ Place = offset + Len(Pending)
    BY <2>3 DEF Believed, Place
  <2>5. CASE op # "output"
    <3>1. Held' = Pending
      BY <2>1, <2>3, <2>5 DEF Held
    <3>2. k \in 1..curr /\ \A i \in 1..k : i \in 1..curr
      BY <1>0, <2>1, <2>5
    <3>4. Len(a) \in 1..Len(Pending) /\ \A i \in 1..Len(a) : a[i] = Pending[i]
      BY <1>1, <2>2, <3>2
    <3>5. Pending \in Seq(Nat) /\ file \in Seq(Nat) /\ offset \in Nat /\ a \in Seq(Nat)
      BY <1>0, <1>1, <2>2
    <3>3. Overlay(Overlay(file, offset, a), offset, Pending) = Overlay(file, offset, Pending)
      BY <3>4, <3>5, OverlayAgain
    <3>. QED
      BY <2>1, <2>3, <2>4, <3>1, <3>3 DEF Believed, Place
  <2>6. CASE op = "output"
    <3>1. Held' = buff
      BY <2>1, <2>3, <2>6 DEF Held
    <3>2. buff \in Seq(Nat) /\ Len(buff) = Size /\ k \in 1..Len(buff) /\ towrite > 0
      BY <1>0, <2>1, BufferIsBytes
    <3>7. Len(a) \in 1..Len(buff) /\ (\A i \in 1..Len(a) : a[i] = buff[i]) /\ a \in Seq(Nat)
      BY <2>2, <3>2
    <3>8. file \in Seq(Nat) /\ offset \in Nat /\ buff \in Seq(Nat)
      BY <1>0, <3>2
    <3>3. Overlay(Overlay(file, offset, a), offset, buff) = Overlay(file, offset, buff)
      BY <3>7, <3>8, OverlayAgain
    <3>4. Believed' = Overlay(file, offset, buff) /\ Place' = offset + Len(buff)
      BY <2>1, <2>3, <3>1, <3>3 DEF Believed, Place
    <3>5. CASE curr = Size
      <4>1. Pending = buff
        BY <1>1, <3>2, <3>5, SameSeq
      <4>. QED
        BY <2>4, <3>4, <4>1
    <3>6. CASE curr # Size
      <4>. DEFINE s == [i \in 1..Free |-> rest[i]]
      <4>5. Free <= Len(rest) /\ \A i \in 1..Free : buff[curr + i] = rest[i]
        BY <1>0, <2>6, <3>2 DEF Filled
      <4>6. Free \in 1..Size /\ curr + Free = Size
        BY <1>0, <3>6 DEF Free
      <4>1. Free \in 1..Size /\ curr + Free = Size /\ Free <= Len(rest) /\ \A i \in 1..Free : buff[curr + i] = rest[i]
        BY <4>5, <4>6
      <4>2. s \in Seq(Nat) /\ Len(s) = Free /\ \A i \in 1..Free : s[i] = rest[i]
        <5>1. \A i \in 1..Free : rest[i] \in Nat
          <6>1. \A i \in 1..Free : i \in 1..Len(rest)
            BY <1>0, <4>1
          <6>. QED
            BY <1>0, <6>1
        <5>2. s \in [1..Free -> Nat] /\ Free \in Nat /\ \A i \in 1..Free : s[i] = rest[i]
          BY <4>1, <5>1
        <5>. HIDE DEF s
        <5>3. s \in Seq(Nat) /\ Len(s) = Free
          BY <5>2
        <5>. QED
          BY <5>2, <5>3
      <4>. HIDE DEF s
      <4>3. Numbered(s)
        <5>1. \A i \in 1..Free : rest[i] = rest[1] + (i - 1) /\ rest[i] \in 1..MaxOut
          <6>1. \A i \in 1..Free : i \in 1..Len(rest)
            BY <1>0, <4>1
          <6>. QED
            BY <1>0, <6>1 DEF Numbered
        <5>2. 1 \in 1..Free
          BY <4>1
        <5>. QED
          BY <4>2, <5>1, <5>2 DEF Numbered
      <4>4. Len(s) \in 1..Size /\ Joins(Pending, s, buff)
        BY <1>1, <3>2, <4>1, <4>2 DEF Joins
      <4>. QED
        BY <1>0, <1>1, <2>4, <3>2, <3>4, <4>2, <4>3, <4>4, PuttingAccepts
    <3>. QED
      BY <3>5, <3>6
  <2>. QED
    BY <2>5, <2>6
<1>14. CASE HandlerRaises
  BY <1>0, <1>14 DEF HandlerRaises, ChannelInv, Numbers
<1>. QED
  BY <1>4, <1>5, <1>6, <1>7, <1>8, <1>9, <1>10, <1>11, <1>12, <1>13, <1>14
  DEF Next, Operation, Progress, Kernel

\* A channel implements a writer whose bytes go where it is, one after the other: a step of the
\* program, of a buffer that is written in parts, moved and sought, or of the kernel adds bytes
\* in order, moves the place of an empty buffer, or changes nothing that the program could see
\* (caml_putblock, caml_flush_partial, caml_seek_out).
THEOREM ChannelImplementsWriter == Spec => ImplementsWriter
<1>1. WriterInv /\ [Next]_vars => WriterInv'
  BY WriterStep
<1>2. WriterInv /\ [Next]_vars => [open' /\ raises' = 0 => Accepts \/ Seeks]_<<Believed, Place>>
  BY WriterRefines
<1>. QED
  BY <1>1, <1>2, WriterInit, PTL DEF Spec, ImplementsWriter

(* ---------------------------- Closed channels ---------------------------- *)
\* The buffer of a closed channel looks full, so what is output on it is never accepted.
Shut == ~open => curr = Size /\ written = 0 /\ (op \in {"chars", "output"} => rest # <<>>)
ShutInv == ChannelInv /\ Shut

LEMMA ShutStep == ASSUME ShutInv, [Next]_vars PROVE ShutInv'
<1>. USE OutChannelAssumption
<1>0. /\ ChannelInv /\ ChannelInv' /\ Shut /\ curr \in 0..Size /\ written \in 0..towrite /\ towrite \in 0..Size
      /\ Size \in Nat \ {0} /\ next \in Nat /\ rest \in Seq(Nat) /\ (towrite > 0 => op # "idle")
  BY ChannelStep DEF ShutInv, ChannelInv, Numbers, Writing
<1>. SUFFICES ASSUME ~open' PROVE Shut'
  BY <1>0 DEF ShutInv, Shut
<1>1. ASSUME NEW n \in Nat \ {0}, OutputChars(n) \/ Output(n) PROVE Shut'
  <2>1. /\ UNCHANGED <<open, curr, written>> /\ rest' = Bytes(n)
    BY <1>1 DEF OutputChars, Output, Begin, kernel, channel
  <2>2. Bytes(n) # <<>>
    <3>1. Bytes(n) \in Seq(Nat) /\ Len(Bytes(n)) = n
      BY <1>0 DEF Bytes
    <3>. HIDE DEF Bytes
    <3>. QED
      BY <3>1
  <2>. QED
    BY <1>0, <2>1, <2>2 DEF Shut
<1>2. CASE FlushCall \/ FlushPartialCall \/ \E d \in Dests : SeekOut(d)
  <2>1. UNCHANGED <<open, curr, written>> /\ op' \in {"flush", "partial", "seek"}
    BY <1>2 DEF FlushCall, FlushPartialCall, SeekOut, Begin, channel
  <2>. QED
    BY <1>0, <2>1 DEF Shut
<1>3. CASE Close
  <2>1. op = "idle" /\ op' = op /\ curr' = Size /\ written' = written
    BY <1>3 DEF Close, CloseFills, Idle, call
  <2>. QED
    BY <1>0, <2>1, IdleIsStill DEF Shut
<1>4. CASE PutChar \/ PutBlockFits \/ FlushPartialReturns \/ PutBlockReturns \/ HandlerRaises
           \/ \E k \in 1..Size : Write(k)
  <2>1. open' = open /\ (curr < Size \/ Len(rest) < Size - curr \/ written > 0 \/ open)
    BY <1>4 DEF PutChar, PutBlockFits, FlushPartialReturns, PutBlockReturns, HandlerRaises, Write
  <2>2. Len(rest) \in Nat
    BY <1>0
  <2>. QED
    BY <1>0, <2>1, <2>2 DEF Shut
<1>5. CASE PutBlockFills \/ FlushPartial \/ WriteWouldBlock \/ UNCHANGED vars
  <2>1. UNCHANGED <<open, curr, written, op, rest>>
    BY <1>5 DEF PutBlockFills, FlushPartial, WriteWouldBlock, vars, channel, call
  <2>. QED
    BY <1>0, <2>1 DEF Shut
<1>6. CASE Done \/ WriteFails
  <2>1. UNCHANGED <<open, curr>> /\ op' = "idle" /\ (written' = written \/ written' = 0)
    BY <1>6 DEF Done, WriteFails, Finish, Fail, channel
  <2>. QED
    BY <1>0, <2>1 DEF Shut
<1>7. CASE SeekDone
  <2>1. curr = 0 /\ open' = open
    BY <1>7 DEF SeekDone
  <2>. QED
    BY <1>0, <2>1 DEF Shut
<1>8. \A n \in {1, 4} \cup 1..MaxBlock : n \in Nat \ {0}
  OBVIOUS
<1>. QED
  BY <1>1, <1>2, <1>3, <1>4, <1>5, <1>6, <1>7, <1>8 DEF Next, Operation, Progress, Kernel

\* An output or a seek on a closed channel always raises: its buffer, made to look full, sends
\* the first byte to a write on no descriptor (caml_ml_close_channel, putch, caml_putblock).
THEOREM ClosedAlwaysRaises == Spec => ClosedRaises
<1>1. Init => ShutInv
  BY ChannelInit DEF Init, ShutInv, Shut
<1>2. ShutInv /\ [Next]_vars => ShutInv'
  BY ShutStep
<1>3. ASSUME ShutInv, [Next]_vars, ~open, op \in {"chars", "output", "seek"}, op' = "idle"
      PROVE  status' = "raised"
  <2>1. /\ curr = Size /\ written = 0 /\ (op \in {"chars", "output"} => rest # <<>>) /\ op # "idle"
        /\ Size > 0
    BY <1>3, OutChannelAssumption DEF ShutInv, Shut
  <2>2. CASE Done \/ SeekDone
    BY <2>1, <2>2, <1>3 DEF Done, SeekDone
  <2>3. CASE WriteFails
    BY <2>3 DEF WriteFails, Fail, Finish
  <2>4. CASE FlushPartialReturns \/ PutBlockReturns \/ HandlerRaises
    BY <2>1, <2>4 DEF FlushPartialReturns, PutBlockReturns, HandlerRaises
  <2>5. CASE Operation
    BY <2>1, <2>5 DEF Operation, OutputChars, Output, FlushCall, FlushPartialCall, Close, SeekOut, Begin, Idle
  <2>6. CASE PutChar \/ PutBlockFits \/ PutBlockFills \/ FlushPartial \/ WriteWouldBlock
             \/ (\E k \in 1..Size : Write(k)) \/ UNCHANGED vars
    <3>1. op' = op
      BY <2>6 DEF PutChar, PutBlockFits, PutBlockFills, FlushPartial, WriteWouldBlock, Write, vars, call
    <3>. QED
      BY <1>3, <2>1, <3>1
  <2>. QED
    BY <1>3, <2>2, <2>3, <2>4, <2>5, <2>6 DEF Next, Progress, Kernel
<1>4. ShutInv /\ [Next]_vars
        => [(~open /\ op \in {"chars", "output", "seek"} /\ op' = "idle") => status' = "raised"]_vars
  BY <1>3
<1>. QED
  BY <1>1, <1>2, <1>4, PTL DEF Spec, ClosedRaises

(* ------------------------- No byte is written twice ------------------------- *)
\* The bytes still to be written: those that wait in the buffer, then the rest of the call's.
Waiting == curr + Len(rest)
Coming(j) == IF j <= curr THEN buff[j] ELSE rest[j - curr]
\* The bytes of the file differ; those to come follow them and one another, and those not yet
\* output follow all.
FileOnce == \A i, j \in 1..Len(file) : file[i] > 0 /\ file[i] = file[j] => i = j
FileBefore == /\ \A i \in 1..Len(file) : file[i] < next
              /\ \A i \in 1..Len(file), j \in (written + 1)..Waiting : file[i] < Coming(j)
ComingInOrder == /\ \A j \in 1..Waiting : Coming(j) \in 1..(next - 1)
                 /\ \A i, j \in 1..Waiting : i < j => Coming(i) < Coming(j)
EachOnce == (raises = 0 /\ open) => FileOnce /\ FileBefore /\ ComingInOrder
OnceInv == WriterInv /\ EachOnce

\* What the buffer and the call hold are numbers.
LEMMA ComingIs ==
  ASSUME WriterInv
  PROVE  /\ curr \in Nat /\ curr <= Size /\ Size \in Nat /\ Len(rest) \in Nat /\ Waiting \in Nat
         /\ Waiting = curr + Len(rest) /\ written \in Nat /\ next \in Nat /\ next > 0
         /\ file \in Seq(Nat) /\ Len(file) \in Nat /\ \A i \in 1..Len(file) : file[i] \in Nat
         /\ \A j \in 1..Waiting : Coming(j) \in Nat
<1>1. /\ curr \in Nat /\ curr <= Size /\ Size \in Nat /\ rest \in Seq(Nat) /\ Len(rest) \in Nat
      /\ buff \in [1..Size -> Nat] /\ written \in Nat /\ next \in Nat /\ next > 0 /\ file \in Seq(Nat)
  BY OutChannelAssumption DEF WriterInv, ChannelInv, Numbers, Contents
<1>2. Len(file) \in Nat /\ \A i \in 1..Len(file) : file[i] \in Nat
  BY <1>1
<1>3. Waiting \in Nat /\ Waiting = curr + Len(rest)
  BY <1>1 DEF Waiting
<1>4. ASSUME NEW j \in 1..Waiting PROVE Coming(j) \in Nat
  <2>1. CASE j <= curr
    <3>1. j \in 1..Size
      BY <1>1, <2>1
    <3>. QED
      BY <1>1, <2>1, <3>1 DEF Coming
  <2>2. CASE ~(j <= curr)
    <3>1. j - curr \in 1..Len(rest)
      BY <1>1, <1>3, <2>2
    <3>. QED
      BY <1>1, <2>2, <3>1 DEF Coming
  <2>. QED
    BY <2>1, <2>2
<1>. QED
  BY <1>1, <1>2, <1>3, <1>4

LEMMA WaitingAfter == ASSUME WriterInv' PROVE Waiting' \in Nat /\ written' \in Nat
<1>1. written' \in Nat /\ curr' \in Nat /\ rest' \in Seq(Nat)
  BY OutChannelAssumption DEF WriterInv, ChannelInv, Numbers
<1>2. Len(rest') \in Nat
  BY <1>1
<1>. QED
  BY <1>1, <1>2 DEF Waiting

LEMMA InWindow == \A m, n, k \in Nat : m + k <= n => \A j \in 1..m : j + k \in 1..n
OBVIOUS

LEMMA AfterWindow == \A m, n, k, v, w \in Nat :
  m + k <= n /\ v <= w + k => \A j \in (w + 1)..m : j \in 1..m /\ j + k \in (v + 1)..n
OBVIOUS

\* A step that writes nothing and brings no new byte: what comes is what came, but the first k,
\* already written, and perhaps the last.
LEMMA OnceMoves ==
  ASSUME WriterInv, WriterInv', EachOnce, open' => open, raises' = raises, file' = file, next' = next,
         NEW k \in Nat, Waiting' + k <= Waiting, written <= written' + k,
         \A j \in 1..Waiting' : Coming(j)' = Coming(j + k)
  PROVE  EachOnce'
<1>. SUFFICES ASSUME raises' = 0, open' PROVE (FileOnce /\ FileBefore /\ ComingInOrder)'
  BY DEF EachOnce
<1>1. FileOnce /\ FileBefore /\ ComingInOrder
  BY DEF EachOnce
<1>2. /\ Waiting \in Nat /\ Waiting' \in Nat /\ written \in Nat /\ written' \in Nat
  BY ComingIs, WaitingAfter
<1>3. ASSUME NEW j \in 1..Waiting' PROVE j + k \in 1..Waiting
  BY <1>2, InWindow
<1>4. FileOnce'
  BY <1>1 DEF FileOnce
<1>5. FileBefore'
  <2>1. ASSUME NEW i \in 1..Len(file), NEW j \in (written' + 1)..Waiting' PROVE file[i] < Coming(j)'
    <3>1. j \in 1..Waiting' /\ j + k \in (written + 1)..Waiting
      BY <1>2, AfterWindow
    <3>2. file[i] < Coming(j + k)
      BY <1>1, <3>1 DEF FileBefore
    <3>. QED
      BY <3>1, <3>2
  <2>. QED
    BY <1>1, <2>1 DEF FileBefore
<1>6. ComingInOrder'
  <2>1. ASSUME NEW j \in 1..Waiting' PROVE Coming(j)' \in 1..(next - 1)
    BY <1>1, <1>3 DEF ComingInOrder
  <2>2. ASSUME NEW i \in 1..Waiting', NEW j \in 1..Waiting', i < j PROVE Coming(i)' < Coming(j)'
    <3>1. i + k \in 1..Waiting /\ j + k \in 1..Waiting /\ i + k < j + k
      BY <1>3, <2>2, <1>2
    <3>. QED
      BY <1>1, <3>1 DEF ComingInOrder
  <2>. QED
    BY <2>1, <2>2 DEF ComingInOrder
<1>. QED
  BY <1>4, <1>5, <1>6

\* A call that outputs bytes brings the next ones.
LEMMA OnceBegins ==
  ASSUME WriterInv, WriterInv', EachOnce, NEW n \in Nat, next' = next + n, rest' = Bytes(n),
         UNCHANGED <<file, curr, buff, written, open, raises>>, written = 0,
         Waiting' = curr + n
  PROVE  EachOnce'
<1>. SUFFICES ASSUME raises' = 0, open' PROVE (FileOnce /\ FileBefore /\ ComingInOrder)'
  BY DEF EachOnce
<1>1. FileOnce /\ FileBefore /\ ComingInOrder
  BY DEF EachOnce
<1>2. /\ curr \in Nat /\ next \in Nat /\ next > 0 /\ Len(rest) \in Nat /\ Waiting = curr + Len(rest)
      /\ \A i \in 1..Len(file) : file[i] \in Nat
  BY ComingIs
<1>3. ASSUME NEW j \in 1..curr PROVE Coming(j)' = Coming(j) /\ j \in 1..Waiting
  BY <1>2 DEF Coming
<1>4. ASSUME NEW j \in (curr + 1)..(curr + n) PROVE Coming(j)' = next + (j - curr) - 1
  <2>1. j - curr \in 1..n /\ ~(j <= curr)
    BY <1>2
  <2>. QED
    BY <2>1 DEF Coming, Bytes
<1>5. \A j \in 1..(curr + n) : j \in 1..curr \/ j \in (curr + 1)..(curr + n)
  BY <1>2
<1>6. ASSUME NEW j \in 1..curr PROVE Coming(j)' \in 1..(next - 1)
  BY <1>1, <1>3 DEF ComingInOrder
<1>7. ASSUME NEW j \in (curr + 1)..(curr + n) PROVE Coming(j)' \in next..(next + n - 1)
  BY <1>2, <1>4
<1>8. FileOnce'
  BY <1>1 DEF FileOnce
<1>9. FileBefore'
  <2>1. ASSUME NEW i \in 1..Len(file) PROVE file[i] < next + n
    BY <1>1, <1>2 DEF FileBefore
  <2>2. ASSUME NEW i \in 1..Len(file), NEW j \in 1..(curr + n) PROVE file[i] < Coming(j)'
    <3>1. CASE j \in 1..curr
      <4>1. j \in (written + 1)..Waiting
        BY <1>2, <1>3, <3>1
      <4>. QED
        BY <1>1, <1>3, <3>1, <4>1 DEF FileBefore
    <3>2. CASE j \in (curr + 1)..(curr + n)
      <4>1. file[i] < next
        BY <1>1 DEF FileBefore
      <4>. QED
        BY <1>2, <1>7, <3>2, <4>1
    <3>. QED
      BY <1>5, <3>1, <3>2
  <2>3. \A j \in (written' + 1)..Waiting' : j \in 1..(curr + n)
    BY <1>2
  <2>. QED
    BY <2>1, <2>2, <2>3 DEF FileBefore
<1>10. ComingInOrder'
  <2>1. ASSUME NEW j \in 1..(curr + n) PROVE Coming(j)' \in 1..(next + n - 1)
    BY <1>2, <1>5, <1>6, <1>7
  <2>2. ASSUME NEW i \in 1..(curr + n), NEW j \in 1..(curr + n), i < j PROVE Coming(i)' < Coming(j)'
    <3>1. CASE j \in 1..curr
      <4>1. i \in 1..curr
        BY <1>2, <2>2, <3>1
      <4>2. Coming(i) < Coming(j)
        BY <1>1, <1>3, <2>2, <3>1, <4>1 DEF ComingInOrder
      <4>. QED
        BY <1>3, <3>1, <4>1, <4>2
    <3>2. CASE j \in (curr + 1)..(curr + n) /\ i \in 1..curr
      BY <1>2, <1>6, <1>7, <3>2
    <3>3. CASE j \in (curr + 1)..(curr + n) /\ i \in (curr + 1)..(curr + n)
      BY <1>2, <1>4, <2>2, <3>3
    <3>. QED
      BY <1>5, <3>1, <3>2, <3>3
  <2>0. (\A j \in 1..Waiting' : j \in 1..(curr + n)) /\ next' - 1 = next + n - 1
    BY <1>2
  <2>3. \A j \in 1..Waiting' : Coming(j)' \in 1..(next' - 1)
    BY <2>0, <2>1
  <2>4. \A i, j \in 1..Waiting' : i < j => Coming(i)' < Coming(j)'
    BY <2>0, <2>2
  <2>. QED
    BY <2>3, <2>4 DEF ComingInOrder
<1>. QED
  BY <1>8, <1>9, <1>10

\* What the kernel takes of the buffer is what comes first.
LEMMA OnceWrites ==
  ASSUME WriterInv, WriterInv', EachOnce, NEW k \in 1..Size, Write(k)
  PROVE  EachOnce'
<1>. DEFINE a == [i \in 1..k |-> buff[i]]
            g == Overlay(file, fdPos, a)
<1>. SUFFICES ASSUME raises' = 0, open' PROVE (FileOnce /\ FileBefore /\ ComingInOrder)'
  BY DEF EachOnce
<1>1. /\ UNCHANGED <<curr, buff, rest, next, open, raises>> /\ written = 0 /\ written' = k
      /\ k \in 1..towrite /\ file' = g /\ Waiting' = Waiting
  BY DEF Write, channel, call, Waiting
<1>2. FileOnce /\ FileBefore /\ ComingInOrder
  BY <1>1 DEF EachOnce
<1>3. /\ curr \in Nat /\ curr <= Size /\ Size \in Nat /\ Len(rest) \in Nat /\ Waiting = curr + Len(rest)
      /\ next \in Nat /\ next > 0 /\ k \in Nat /\ k > 0 /\ Len(file) \in Nat
      /\ \A i \in 1..Len(file) : file[i] \in Nat
      /\ \A j \in 1..Waiting : Coming(j) \in Nat
  BY ComingIs
<1>4. /\ file \in Seq(Nat) /\ fdPos \in Nat /\ buff \in [1..Size -> Nat] /\ towrite \in 0..Size
      /\ (towrite > 0 /\ op # "output" => towrite <= curr)
      /\ (towrite > 0 /\ op = "output" => Free <= Len(rest) /\ \A i \in 1..Free : buff[curr + i] = rest[i])
  BY DEF WriterInv, ChannelInv, Numbers, Writing, Contents, Filled
<1>5. a \in Seq(Nat) /\ Len(a) = k /\ \A i \in 1..k : a[i] = buff[i]
  <2>1. \A i \in 1..k : i \in 1..Size
    BY <1>3
  <2>2. a \in [1..k -> Nat] /\ \A i \in 1..k : a[i] = buff[i]
    BY <1>4, <2>1
  <2>. HIDE DEF a
  <2>3. a \in Seq(Nat) /\ Len(a) = k
    BY <1>3, <2>2
  <2>. QED
    BY <2>2, <2>3
<1>. HIDE DEF a, g
<1>6. k <= Waiting /\ \A j \in 1..k : a[j] = Coming(j)
  <2>1. CASE op # "output"
    <3>1. k <= curr
      BY <1>1, <1>3, <1>4, <2>1
    <3>. QED
      BY <1>3, <1>5, <3>1 DEF Coming
  <2>2. CASE op = "output"
    <3>1. Free <= Len(rest) /\ (\A i \in 1..Free : buff[curr + i] = rest[i]) /\ Free = Size - curr
          /\ k <= Size
      BY <1>1, <1>3, <1>4, <2>2 DEF Free
    <3>2. k <= Waiting
      BY <1>3, <3>1
    <3>3. ASSUME NEW j \in 1..k, ~(j <= curr) PROVE a[j] = rest[j - curr]
      <4>1. j - curr \in 1..Free /\ curr + (j - curr) = j
        BY <1>3, <3>1, <3>3
      <4>2. buff[curr + (j - curr)] = rest[j - curr]
        BY <3>1, <4>1
      <4>. QED
        BY <1>5, <4>1, <4>2
    <3>. QED
      BY <1>5, <3>2, <3>3 DEF Coming
  <2>. QED
    BY <2>1, <2>2
<1>7. \A j \in 1..k : j \in (written + 1)..Waiting /\ j \in 1..Waiting
  BY <1>1, <1>3, <1>6
\* A byte of the new file is one of the old, one that was taken, or a gap's zero.
<1>8. ASSUME NEW i \in 1..Len(g)
      PROVE  \/ i \in (fdPos + 1)..(fdPos + k) /\ i - fdPos \in 1..k /\ g[i] = Coming(i - fdPos)
             \/ i \notin (fdPos + 1)..(fdPos + k) /\ i \in 1..Len(file) /\ g[i] = file[i]
             \/ i \notin (fdPos + 1)..(fdPos + k) /\ g[i] = 0
  <2>1. a # <<>>
    BY <1>3, <1>5
  <2>2. Lies(g, file, fdPos, a)
    BY <1>4, <1>5, <2>1, OverlayIs DEF g
  <2>3. g[i] = IF i \in (fdPos + 1)..(fdPos + k) THEN a[i - fdPos]
               ELSE IF i \in 1..Len(file) THEN file[i] ELSE 0
    BY <1>5, <2>2 DEF Lies
  <2>4. i \in (fdPos + 1)..(fdPos + k) => i - fdPos \in 1..k
    BY <1>3, <1>4
  <2>. QED
    BY <1>6, <2>3, <2>4
<1>9. ASSUME NEW i \in 1..Len(g) PROVE g[i] \in Nat
  <2>1. CASE i - fdPos \in 1..k /\ g[i] = Coming(i - fdPos)
    BY <1>3, <1>7, <2>1
  <2>2. CASE i \in 1..Len(file) /\ g[i] = file[i]
    BY <1>3, <2>2
  <2>. QED
    BY <1>8, <2>1, <2>2
<1>10. ASSUME NEW i \in 1..Len(g), i \in (fdPos + 1)..(fdPos + k)
       PROVE  \E u \in 1..k : i = fdPos + u /\ g[i] = Coming(u)
  <2>1. i - fdPos \in 1..k /\ g[i] = Coming(i - fdPos)
    BY <1>8, <1>10
  <2>. QED
    BY <1>3, <1>4, <2>1
<1>11. FileOnce'
  <2>1. ASSUME NEW i \in 1..Len(g), NEW j \in 1..Len(g), g[i] > 0, g[i] = g[j], ~(i = j), i \in (fdPos + 1)..(fdPos + k)
        PROVE  FALSE
    <3>1. PICK u \in 1..k : i = fdPos + u /\ g[i] = Coming(u)
      BY <1>10, <2>1
    <3>4. Coming(u) \in Nat /\ u \in 1..Waiting /\ u \in (written + 1)..Waiting
      BY <1>3, <1>7
    <3>2. CASE j \in (fdPos + 1)..(fdPos + k)
      <4>1. PICK v \in 1..k : j = fdPos + v /\ g[j] = Coming(v)
        BY <1>10, <3>2
      <4>2. u < v \/ v < u
        BY <1>3, <1>4, <2>1, <3>1, <4>1
      <4>3. Coming(v) \in Nat /\ v \in 1..Waiting
        BY <1>3, <1>7
      <4>4. Coming(u) < Coming(v) \/ Coming(v) < Coming(u)
        BY <1>2, <3>4, <4>2, <4>3 DEF ComingInOrder
      <4>5. Coming(u) = Coming(v)
        BY <2>1, <3>1, <4>1
      <4>. QED
        BY <3>4, <4>3, <4>4, <4>5
    <3>3. CASE j \in 1..Len(file) /\ g[j] = file[j]
      <4>1. file[j] < Coming(u) /\ file[j] \in Nat
        BY <1>2, <1>3, <3>3, <3>4 DEF FileBefore
      <4>2. file[j] = Coming(u)
        BY <2>1, <3>1, <3>3
      <4>. QED
        BY <3>4, <4>1, <4>2
    <3>. QED
      BY <1>8, <1>9, <2>1, <3>2, <3>3
  <2>2. ASSUME NEW i \in 1..Len(g), NEW j \in 1..Len(g), g[i] > 0, g[i] = g[j]
        PROVE  i = j
    <3>1. CASE i \in (fdPos + 1)..(fdPos + k) \/ j \in (fdPos + 1)..(fdPos + k)
      BY <2>1, <2>2, <3>1
    <3>2. CASE i \notin (fdPos + 1)..(fdPos + k) /\ j \notin (fdPos + 1)..(fdPos + k)
      <4>1. /\ i \in 1..Len(file) /\ g[i] = file[i]
            /\ j \in 1..Len(file) /\ g[j] = file[j]
        BY <1>8, <2>2, <3>2
      <4>. QED
        BY <1>2, <2>2, <4>1 DEF FileOnce
    <3>. QED
      BY <3>1, <3>2
  <2>. QED
    BY <1>1, <2>2 DEF FileOnce
<1>12. FileBefore'
  <2>1. ASSUME NEW i \in 1..Len(g) PROVE g[i] < next
    <3>1. \A j \in 1..k : Coming(j) \in 1..(next - 1)
      BY <1>2, <1>7 DEF ComingInOrder
    <3>2. \A j \in 1..Len(file) : file[j] < next
      BY <1>2 DEF FileBefore
    <3>3. CASE i - fdPos \in 1..k /\ g[i] = Coming(i - fdPos)
      BY <1>3, <3>1, <3>3
    <3>4. CASE i \in 1..Len(file) /\ g[i] = file[i]
      BY <3>2, <3>4
    <3>. QED
      BY <1>3, <1>8, <3>3, <3>4
  <2>2. ASSUME NEW i \in 1..Len(g), NEW j \in (k + 1)..Waiting PROVE g[i] < Coming(j)
    <3>0. j \in 1..Waiting /\ j \in (written + 1)..Waiting /\ Coming(j) > 0
      <4>1. j \in 1..Waiting /\ j \in (written + 1)..Waiting
        BY <1>1, <1>3
      <4>. QED
        BY <1>2, <1>3, <4>1 DEF ComingInOrder
    <3>1. CASE i \in (fdPos + 1)..(fdPos + k)
      <4>1. g[i] = 0 \/ (i - fdPos \in 1..k /\ g[i] = Coming(i - fdPos))
        BY <1>8, <3>1
      <4>2. i - fdPos \in 1..k => i - fdPos < j
        BY <1>3
      <4>. QED
        BY <1>2, <1>7, <3>0, <4>1, <4>2 DEF ComingInOrder
    <3>2. CASE i \in 1..Len(file) /\ g[i] = file[i]
      BY <1>2, <3>0, <3>2 DEF FileBefore
    <3>. QED
      BY <1>8, <3>0, <3>1, <3>2
  <2>3. Len(file') = Len(g) /\ \A i \in 1..Len(g) : file'[i] = g[i]
    BY <1>1
  <2>4. \A j : Coming(j)' = Coming(j)
    BY <1>1 DEF Coming
  <2>5. \A i \in 1..Len(file') : file'[i] < next'
    BY <1>1, <2>1, <2>3
  <2>6. \A i \in 1..Len(file'), j \in (written' + 1)..Waiting' : file'[i] < Coming(j)'
    BY <1>1, <2>2, <2>3, <2>4
  <2>. QED
    BY <2>5, <2>6 DEF FileBefore
<1>13. ComingInOrder'
  <2>1. \A j : Coming(j)' = Coming(j)
    BY <1>1 DEF Coming
  <2>. QED
    BY <1>1, <1>2, <2>1 DEF ComingInOrder
<1>. QED
  BY <1>11, <1>12, <1>13

\* A step that leaves what waits, and the rest of the call or nothing of it.
LEMMA OnceStays ==
  ASSUME WriterInv, WriterInv', EachOnce, UNCHANGED <<file, next, open, raises, curr, written>>,
         \A j \in 1..curr : buff'[j] = buff[j], rest' = rest \/ rest' = <<>>
  PROVE  EachOnce'
<1>1. /\ curr \in Nat /\ Len(rest) \in Nat /\ Waiting = curr + Len(rest) /\ Waiting \in Nat
  BY ComingIs
<1>2. (Waiting' = Waiting /\ rest' = rest) \/ Waiting' = curr
  <2>1. CASE rest' = rest
    BY <2>1 DEF Waiting
  <2>2. CASE rest' = <<>>
    BY <1>1, <2>2 DEF Waiting
  <2>. QED
    BY <2>1, <2>2
<1>3. ASSUME NEW j \in 1..Waiting' PROVE Coming(j)' = Coming(j)
  <2>1. j <= curr => j \in 1..curr
    BY <1>1, <1>2
  <2>2. ~(j <= curr) => rest' = rest
    BY <1>1, <1>2
  <2>. QED
    BY <2>1, <2>2 DEF Coming
<1>. DEFINE k == 0
<1>4. k \in Nat /\ Waiting' + k <= Waiting /\ written <= written' + k
  BY <1>1, <1>2, ComingIs
<1>5. \A j \in 1..Waiting' : j + k = j
  BY <1>1, <1>2
<1>6. \A j \in 1..Waiting' : Coming(j)' = Coming(j + k)
  BY <1>3, <1>5
<1>. HIDE DEF k
<1>. QED
  BY <1>4, <1>6, OnceMoves

\* A step that copies n bytes of the call behind those that wait.
LEMMA OnceCopies ==
  ASSUME WriterInv, WriterInv', EachOnce, UNCHANGED <<file, next, open, raises, written>>,
         NEW n \in 1..Len(rest), curr + n <= Size, curr' = curr + n,
         \A j \in 1..curr : buff'[j] = buff[j], \A j \in 1..n : buff'[curr + j] = rest[j],
         Len(rest') = Len(rest) - n, \A j \in 1..Len(rest') : rest'[j] = rest[n + j]
  PROVE  EachOnce'
<1>1. /\ curr \in Nat /\ Len(rest) \in Nat /\ Waiting = curr + Len(rest) /\ Waiting \in Nat
  BY ComingIs
<1>2. Waiting' = Waiting
  BY <1>1 DEF Waiting
<1>3. ASSUME NEW j \in 1..Waiting PROVE Coming(j)' = Coming(j)
  <2>1. CASE j <= curr
    BY <1>1, <2>1 DEF Coming
  <2>2. CASE ~(j <= curr) /\ j <= curr + n
    <3>1. j - curr \in 1..n /\ curr + (j - curr) = j
      BY <1>1, <2>2
    <3>2. buff'[curr + (j - curr)] = rest[j - curr]
      BY <3>1
    <3>. QED
      BY <2>2, <3>1, <3>2 DEF Coming
  <2>3. CASE ~(j <= curr + n)
    <3>1. j - (curr + n) \in 1..Len(rest') /\ n + (j - (curr + n)) = j - curr /\ ~(j <= curr)
      <4>1. n \in Nat /\ j \in Nat /\ j <= curr + Len(rest) /\ Len(rest) - n \in Nat
        BY <1>1
      <4>2. j - (curr + n) \in 1..(Len(rest) - n)
        BY <1>1, <2>3, <4>1
      <4>. QED
        BY <1>1, <2>3, <4>1, <4>2
    <3>2. rest'[j - (curr + n)] = rest[n + (j - (curr + n))]
      BY <3>1
    <3>. QED
      BY <2>3, <3>1, <3>2 DEF Coming
  <2>. QED
    BY <2>1, <2>2, <2>3
<1>. DEFINE k == 0
<1>4. k \in Nat /\ Waiting' + k <= Waiting /\ written <= written' + k
  BY <1>1, <1>2, ComingIs
<1>5. \A j \in 1..Waiting' : j + k = j
  BY <1>1, <1>2
<1>6. \A j \in 1..Waiting' : Coming(j)' = Coming(j + k)
  BY <1>2, <1>3, <1>5
<1>. HIDE DEF k
<1>. QED
  BY <1>4, <1>6, OnceMoves

LEMMA DropIs ==
  ASSUME NEW s \in Seq(Nat), NEW m \in Nat, m <= Len(s)
  PROVE  /\ Len(SubSeq(s, m + 1, Len(s))) = Len(s) - m
         /\ \A j \in 1..(Len(s) - m) : SubSeq(s, m + 1, Len(s))[j] = s[m + j]
OBVIOUS

\* A write that returns: what it took no longer waits.
LEMMA OnceReturns ==
  ASSUME WriterInv, WriterInv', EachOnce, FlushPartialReturns \/ PutBlockReturns
  PROVE  EachOnce'
<1>. DEFINE k == written
<1>1. /\ UNCHANGED <<file, next, open, raises>> /\ written' = 0 /\ written > 0
  BY DEF FlushPartialReturns, PutBlockReturns, kernel
<1>2. /\ curr \in Nat /\ curr <= Size /\ Size \in Nat /\ Len(rest) \in Nat /\ Waiting = curr + Len(rest)
      /\ Waiting \in Nat /\ k \in Nat /\ rest \in Seq(Nat) /\ k <= towrite /\ towrite \in 0..Size
      /\ (towrite > 0 /\ op # "output" => towrite <= curr)
      /\ (towrite > 0 /\ op = "output" => Free <= Len(rest) /\ \A i \in 1..Free : buff[curr + i] = rest[i])
  BY ComingIs DEF WriterInv, ChannelInv, Numbers, Writing, Filled
<1>3. CASE FlushPartialReturns
  <2>1. /\ op # "output" /\ buff' = Shifted(written) /\ curr' = curr - written
        /\ rest' = rest \/ rest' = <<>>
    BY <1>3 DEF FlushPartialReturns, Finish, call
  <2>2. k <= curr /\ curr' \in Nat
    BY <1>1, <1>2, <2>1
  <2>3. (Waiting' = Waiting - k /\ rest' = rest) \/ Waiting' = curr'
    <3>1. CASE rest' = rest
      BY <1>2, <2>1, <3>1 DEF Waiting
    <3>2. CASE rest' = <<>>
      <4>1. Waiting' = curr' + 0
        BY <3>2 DEF Waiting
      <4>2. curr - written + 0 = curr - written
        BY <1>2
      <4>. QED
        BY <2>1, <4>1, <4>2
    <3>. QED
      BY <2>1, <3>1, <3>2
  <2>4. ASSUME NEW j \in 1..Waiting' PROVE Coming(j)' = Coming(j + k)
    <3>1. CASE j <= curr'
      <4>1. j \in 1..Size /\ j + k \in 1..curr /\ j + k <= curr
        BY <1>2, <2>1, <2>2, <2>3, <3>1
      <4>2. buff'[j] = buff[j + k]
        BY <2>1, <4>1 DEF Shifted
      <4>. QED
        BY <3>1, <4>1, <4>2 DEF Coming
    <3>2. CASE ~(j <= curr')
      <4>1. rest' = rest /\ ~(j + k <= curr) /\ (j + k) - curr = j - curr'
        BY <1>2, <2>1, <2>2, <2>3, <3>2
      <4>. QED
        BY <3>2, <4>1 DEF Coming
    <3>. QED
      BY <3>1, <3>2
  <2>5. Waiting' + k <= Waiting /\ written <= written' + k
    BY <1>1, <1>2, <2>1, <2>2, <2>3
  <2>. HIDE DEF k
  <2>. QED
    BY <1>1, <1>2, <2>4, <2>5, OnceMoves
<1>4. CASE PutBlockReturns
  <2>1. /\ op = "output"
        /\ buff' = [i \in 1..Size |-> IF i + written <= Size THEN buff[i + written] ELSE buff[i]]
        /\ curr' = Size - written /\ rest' = SubSeq(rest, Free + 1, Len(rest))
    BY <1>4 DEF PutBlockReturns
  <2>2. /\ Free <= Len(rest) /\ (\A i \in 1..Free : buff[curr + i] = rest[i]) /\ Free = Size - curr
        /\ Free \in Nat /\ k <= Size /\ curr' \in Nat
    BY <1>1, <1>2, <2>1 DEF Free
  <2>3. Len(rest') = Len(rest) - Free /\ \A j \in 1..Len(rest') : rest'[j] = rest[Free + j]
    <3>1. rest \in Seq(Nat) /\ Free \in Nat /\ Free <= Len(rest) /\ rest' = SubSeq(rest, Free + 1, Len(rest))
      BY <1>2, <2>1, <2>2
    <3>. DEFINE t == SubSeq(rest, Free + 1, Len(rest))
    <3>2. Len(t) = Len(rest) - Free /\ \A j \in 1..(Len(rest) - Free) : t[j] = rest[Free + j]
      BY <3>1, DropIs
    <3>3. rest' = t
      BY <3>1
    <3>. HIDE DEF t
    <3>. QED
      BY <3>2, <3>3
  <2>4. Waiting' = Waiting - k
    <3>1. Waiting' = curr' + Len(rest')
      BY DEF Waiting
    <3>2. Waiting' = (Size - k) + (Len(rest) - (Size - curr))
      BY <2>1, <2>2, <2>3, <3>1
    <3>. QED
      BY <1>2, <3>2
  <2>5. ASSUME NEW j \in 1..Waiting' PROVE Coming(j)' = Coming(j + k)
    <3>1. CASE j <= curr'
      <4>1. j \in 1..Size /\ j + k <= Size
        BY <1>2, <2>1, <2>2, <3>1
      <4>2. buff'[j] = buff[j + k]
        BY <2>1, <4>1
      <4>3. CASE j + k <= curr
        BY <3>1, <4>2, <4>3 DEF Coming
      <4>4. CASE ~(j + k <= curr)
        <5>1. (j + k) - curr \in 1..Free /\ curr + ((j + k) - curr) = j + k
          BY <1>2, <2>2, <4>1, <4>4
        <5>2. buff[curr + ((j + k) - curr)] = rest[(j + k) - curr]
          BY <2>2, <5>1
        <5>. QED
          BY <3>1, <4>2, <4>4, <5>1, <5>2 DEF Coming
      <4>. QED
        BY <4>3, <4>4
    <3>2. CASE ~(j <= curr')
      <4>1. /\ j - curr' \in 1..Len(rest') /\ Free + (j - curr') = (j + k) - curr /\ ~(j + k <= curr)
        BY <1>2, <2>1, <2>2, <2>3, <2>4, <3>2
      <4>2. rest'[j - curr'] = rest[Free + (j - curr')]
        BY <2>3, <4>1
      <4>. QED
        BY <3>2, <4>1, <4>2 DEF Coming
    <3>. QED
      BY <3>1, <3>2
  <2>6. Waiting' + k <= Waiting /\ written <= written' + k
    BY <1>1, <1>2, <2>4
  <2>. HIDE DEF k
  <2>. QED
    BY <1>1, <1>2, <2>5, <2>6, OnceMoves
<1>. QED
  BY <1>3, <1>4

LEMMA OnceInit == Init => OnceInv
<1>. SUFFICES ASSUME Init PROVE EachOnce
  BY WriterInit DEF OnceInv
<1>1. Len(file) = 0 /\ Waiting = 0
  BY DEF Init, Waiting
<1>. QED
  BY <1>1, OutChannelAssumption DEF EachOnce, FileOnce, FileBefore, ComingInOrder, Init

LEMMA OnceStep == ASSUME OnceInv, [Next]_vars PROVE OnceInv'
<1>1. WriterInv /\ WriterInv' /\ EachOnce
  BY WriterStep DEF OnceInv
<1>. SUFFICES EachOnce'
  BY <1>1 DEF OnceInv
<1>2. /\ rest \in Seq(Nat) /\ curr \in 0..Size /\ Size \in Nat /\ ChannelInv /\ buff \in [1..Size -> Nat]
      /\ next \in Nat /\ curr \in Nat
  BY <1>1, OutChannelAssumption DEF WriterInv, ChannelInv, Numbers, Contents
<1>3. ASSUME NEW n \in Nat, OutputChars(n) \/ Output(n) PROVE EachOnce'
  <2>1. /\ next' = next + n /\ rest' = Bytes(n) /\ op = "idle"
        /\ UNCHANGED <<file, curr, buff, written, open, raises>>
    BY <1>3 DEF OutputChars, Output, Begin, Idle, kernel, channel
  <2>2. written = 0
    BY <1>2, <2>1, IdleIsStill
  <2>3. Len(Bytes(n)) = n
    BY DEF Bytes
  <2>4. Waiting' = curr + n
    BY <2>1, <2>3 DEF Waiting
  <2>. QED
    BY <1>1, <2>1, <2>2, <2>4, OnceBegins
<1>4. CASE FlushCall \/ FlushPartialCall \/ \E d \in Dests : SeekOut(d)
  <2>1. rest' = <<>> /\ UNCHANGED <<file, next, open, raises, curr, written, buff>>
    BY <1>4 DEF FlushCall, FlushPartialCall, SeekOut, Begin, kernel, channel
  <2>. QED
    BY <1>1, <2>1, OnceStays
<1>5. CASE Close
  BY <1>5 DEF Close, EachOnce
<1>6. CASE PutChar
  <2>. DEFINE n == 1
  <2>1. /\ rest # <<>> /\ curr < Size /\ rest' = Tail(rest) /\ curr' = curr + n
        /\ buff' = [buff EXCEPT ![curr + n] = Head(rest)]
        /\ UNCHANGED <<file, next, open, raises, written>>
    BY <1>6 DEF PutChar, kernel
  <2>2. n \in 1..Len(rest) /\ curr + n <= Size /\ Head(rest) = rest[1]
    BY <1>2, <2>1
  <2>3. \A j \in 1..curr : buff'[j] = buff[j]
    BY <1>2, <2>1
  <2>4. \A j \in 1..n : buff'[curr + j] = rest[j]
    BY <1>2, <2>1, <2>2
  <2>5. Len(rest') = Len(rest) - n /\ \A j \in 1..Len(rest') : rest'[j] = rest[n + j]
    BY <1>2, <2>1
  <2>. HIDE DEF n
  <2>. QED
    BY <1>1, <2>1, <2>2, <2>3, <2>4, <2>5, OnceCopies
<1>7. CASE PutBlockFits
  <2>. DEFINE n == Len(rest)
  <2>1. /\ rest # <<>> /\ n < Size - curr /\ rest' = <<>> /\ curr' = curr + n /\ buff' = Copied(n)
        /\ UNCHANGED <<file, next, open, raises, written>>
    BY <1>7 DEF PutBlockFits, kernel
  <2>2. n \in 1..Len(rest) /\ curr + n <= Size
    BY <1>2, <2>1
  <2>3. \A j \in 1..curr : buff'[j] = buff[j]
    BY <1>2, <2>1, <2>2 DEF Copied
  <2>4. ASSUME NEW j \in 1..n PROVE buff'[curr + j] = rest[j]
    <3>1. curr + j \in 1..Size /\ curr + j \in (curr + 1)..(curr + n) /\ (curr + j) - curr = j
      BY <1>2, <2>2
    <3>. QED
      BY <2>1, <3>1 DEF Copied
  <2>5. Len(rest') = Len(rest) - n /\ \A j \in 1..Len(rest') : rest'[j] = rest[n + j]
    BY <1>2, <2>1
  <2>. HIDE DEF n
  <2>. QED
    BY <1>1, <2>1, <2>2, <2>3, <2>4, <2>5, OnceCopies
<1>8. CASE PutBlockFills
  <2>1. /\ buff' = Copied(Size - curr) /\ UNCHANGED <<file, next, open, raises, curr, written, rest>>
    BY <1>8 DEF PutBlockFills, kernel, call
  <2>2. \A j \in 1..curr : buff'[j] = buff[j]
    BY <1>2, <2>1 DEF Copied
  <2>. QED
    BY <1>1, <2>1, <2>2, OnceStays
<1>9. CASE FlushPartial \/ WriteWouldBlock \/ UNCHANGED vars
  <2>1. UNCHANGED <<file, next, open, raises, curr, written, rest, buff>>
    BY <1>9 DEF FlushPartial, WriteWouldBlock, vars, kernel, channel, call
  <2>. QED
    BY <1>1, <2>1, OnceStays
<1>10. CASE Done \/ SeekDone \/ WriteFails
  <2>1. rest' = <<>> /\ UNCHANGED <<file, next, open, raises, curr, written, buff>>
    BY <1>10 DEF Done, SeekDone, WriteFails, Fail, Finish, kernel, channel
  <2>. QED
    BY <1>1, <2>1, OnceStays
<1>11. CASE FlushPartialReturns \/ PutBlockReturns
  BY <1>1, <1>11, OnceReturns
<1>12. ASSUME NEW k \in 1..Size, Write(k) PROVE EachOnce'
  BY <1>1, <1>12, OnceWrites
<1>13. CASE HandlerRaises
  <2>1. raises' = raises + 1 /\ raises \in Nat
    BY <1>1, <1>13 DEF HandlerRaises, WriterInv, ChannelInv, Numbers
  <2>. QED
    BY <2>1 DEF EachOnce
<1>. QED
  BY <1>3, <1>4, <1>5, <1>6, <1>7, <1>8, <1>9, <1>10, <1>11, <1>12, <1>13
  DEF Next, Operation, Progress, Kernel

\* The places where one byte is are one place at most.
LEMMA OnePlace ==
  ASSUME NEW S, \A i, j \in S : i = j
  PROVE  IsFiniteSet(S) /\ Cardinality(S) \in 0..1 /\ (S # {} => Cardinality(S) = 1)
         /\ (S = {} => Cardinality(S) = 0)
<1>1. CASE S = {}
  BY <1>1, FS_EmptySet
<1>2. CASE S # {}
  <2>1. PICK x \in S : S = {x}
    BY <1>2
  <2>. QED
    BY <1>2, <2>1, FS_Singleton
<1>. QED
  BY <1>1, <1>2

LEMMA OnceMeansOnce == ASSUME OnceInv PROVE NoByteTwice
<1>. SUFFICES ASSUME raises = 0, open, written = 0, NEW b \in 1..(next - 1)
              PROVE  Occurrences(b) <= 1
  BY DEF NoByteTwice
<1>. DEFINE F == {i \in DOMAIN file : file[i] = b}
            B == {i \in 1..curr : buff[i] = b}
<1>1. WriterInv /\ FileOnce /\ FileBefore /\ ComingInOrder
  BY DEF OnceInv, EachOnce
<1>2. /\ curr \in Nat /\ curr <= Size /\ Len(rest) \in Nat /\ Waiting = curr + Len(rest) /\ next \in Nat
      /\ file \in Seq(Nat) /\ \A j \in 1..Waiting : Coming(j) \in Nat
  BY <1>1, ComingIs
<1>3. DOMAIN file = 1..Len(file) /\ b > 0
  BY <1>2
<1>4. \A i \in 1..curr : Coming(i) = buff[i] /\ i \in 1..Waiting /\ i \in (written + 1)..Waiting
  BY <1>2 DEF Coming
<1>5. \A i, j \in F : i = j
  BY <1>1, <1>3 DEF FileOnce
<1>6. ASSUME NEW i \in B, NEW j \in B PROVE i = j
  <2>1. /\ i \in 1..Waiting /\ j \in 1..Waiting /\ Coming(i) = b /\ Coming(j) = b
    BY <1>4
  <2>2. ~(i < j) /\ ~(j < i)
    BY <1>1, <2>1 DEF ComingInOrder
  <2>. QED
    BY <1>2, <2>2
<1>7. F = {} \/ B = {}
  <2>. SUFFICES ASSUME NEW i \in F, NEW j \in B PROVE FALSE
    OBVIOUS
  <2>1. file[i] = b /\ Coming(j) = b /\ i \in 1..Len(file) /\ j \in (written + 1)..Waiting
    BY <1>3, <1>4
  <2>2. file[i] < Coming(j)
    BY <1>1, <2>1 DEF FileBefore
  <2>. QED
    BY <2>1, <2>2
<1>8. Occurrences(b) = Cardinality(F) + Cardinality(B)
  BY DEF Occurrences
<1>. HIDE DEF F, B
<1>9. /\ Cardinality(F) \in 0..1 /\ (F = {} => Cardinality(F) = 0)
      /\ Cardinality(B) \in 0..1 /\ (B = {} => Cardinality(B) = 0)
  BY <1>5, <1>6, OnePlace
<1>. QED
  BY <1>7, <1>8, <1>9
(* --------------------------- The input channel --------------------------- *)
InTypes ==
  /\ iOffset \in 0..FileLen /\ iFdPos \in 0..FileLen
  /\ iBuff \in [1..Size -> Nat] /\ lost \in Nat /\ max \in 0..Size /\ iCurr \in 0..max
  /\ iOpen \in BOOLEAN /\ want \in Nat /\ got \in Seq(Nat) /\ iP \in Nat /\ result \in Int
\* What the buffer holds lies before offset, and offset before the descriptor by what was lost.
InMirror == iOpen => /\ iOffset + lost = iFdPos /\ max <= iOffset
                     /\ \A i \in 1..max : iBuff[i] \in 1..iFdPos
                     /\ lost = 0 => \A i \in 1..max : iBuff[i] = iOffset - max + i
\* A scan has met no newline yet; an input has something to read.
Scanned == /\ iOp = "scan" => /\ iCurr <= iP /\ iP <= max
                              /\ iOpen => \A i \in (iCurr + 1)..iP : iBuff[i] \notin NewLines
           /\ iOp = "input" => want > 0

InInv == InTypes /\ InMirror /\ Scanned /\ I!ScanTellsLine /\ I!EofAtEnd

\* The sizes of the file and of the buffer.
LEMMA InSizes == /\ Size \in Nat /\ Size > 0 /\ FileLen \in Nat /\ MaxWant \in Nat /\ MaxWant > 0
                 /\ NewLines \subseteq 1..FileLen /\ InDests \subseteq 0..FileLen
BY InputAssumption DEF I!InChannelAssumption

LEMMA InputInit == I!Init => InInv
<1>. SUFFICES ASSUME I!Init PROVE InInv
  OBVIOUS
<1>1. InTypes
  BY InSizes, EmptySeq DEF I!Init, InTypes
<1>2. InMirror /\ Scanned /\ I!ScanTellsLine /\ I!EofAtEnd
  BY InSizes DEF I!Init, InMirror, Scanned, I!ScanTellsLine, I!EofAtEnd
<1>. QED
  BY <1>1, <1>2 DEF InInv

\* What read puts behind the first at bytes of the buffer.
LEMMA ReadGives ==
  ASSUME iFdPos \in 0..FileLen, NEW b \in [1..Size -> Nat], NEW at \in 0..Size, NEW k \in I!Readable(Size - at)
  PROVE  /\ k \in Nat /\ k > 0 /\ iFdPos + k <= FileLen /\ at + k <= Size
         /\ I!ReadInto(b, at, k) \in [1..Size -> Nat]
         /\ \A i \in 1..at : I!ReadInto(b, at, k)[i] = b[i]
         /\ \A i \in (at + 1)..(at + k) : I!ReadInto(b, at, k)[i] = iFdPos + i - at
<1>1. /\ k \in Nat /\ k > 0 /\ iFdPos + k <= FileLen /\ at + k <= Size
  BY InSizes DEF I!Readable, I!Smaller
<1>2. ASSUME NEW i \in (at + 1)..(at + k)
      PROVE  iFdPos + i - at \in 1..FileLen /\ i \in 1..Size
  BY <1>1, InSizes
<1>3. \A i \in (at + 1)..(at + k) : I!File[iFdPos + i - at] = iFdPos + i - at /\ iFdPos + i - at \in Nat
  BY <1>2 DEF I!File
<1>4. I!ReadInto(b, at, k) \in [1..Size -> Nat]
  BY <1>3 DEF I!ReadInto
<1>5. \A i \in (at + 1)..(at + k) : I!ReadInto(b, at, k)[i] = iFdPos + i - at
  BY <1>2, <1>3 DEF I!ReadInto
<1>6. \A i \in 1..at : I!ReadInto(b, at, k)[i] = b[i]
  <2>1. ASSUME NEW i \in 1..at PROVE i \in 1..Size /\ i \notin (at + 1)..(at + k)
    BY InSizes
  <2>. QED
    BY <2>1 DEF I!ReadInto
<1>. QED
  BY <1>1, <1>4, <1>5, <1>6

\* A step into a call, or within one, promises nothing of scans and ends.
LEMMA BusySaysNothing ==
  ASSUME iOp' # "idle"
  PROVE  I!ScanTellsLine' /\ I!EofAtEnd'
BY DEF I!ScanTellsLine, I!EofAtEnd, I!Idle

\* Nor does the end of a call that neither scans nor meets the end of the file.
LEMMA OtherSaysNothing ==
  ASSUME iStatus' \notin {"eof", "short"}, got' = <<>> => result' = 0
  PROVE  I!ScanTellsLine' /\ I!EofAtEnd'
BY DEF I!ScanTellsLine, I!EofAtEnd

LEMMA ClosedSaysNothing ==
  ASSUME ~iOpen'
  PROVE  I!ScanTellsLine' /\ I!EofAtEnd'
BY DEF I!ScanTellsLine, I!EofAtEnd

LEMMA BeginKeeps ==
  ASSUME InInv, NEW o \in {"chars", "input", "really", "scan"}, NEW n \in Nat, I!Begin(o, n),
         o = "input" => n > 0
  PROVE  InInv' /\ got' = <<>> /\ I!Place' = I!Place
<1>1. InTypes' /\ InMirror'
  BY EmptySeq, InSizes DEF InInv, InTypes, InMirror, I!Begin, I!channel
<1>2. Scanned'
  BY InSizes DEF InInv, InTypes, Scanned, I!Begin, I!channel
<1>3. I!ScanTellsLine' /\ I!EofAtEnd'
  BY BusySaysNothing DEF I!Begin
<1>. QED
  BY <1>1, <1>2, <1>3 DEF InInv, I!Begin, I!channel, I!Place, I!PosIn, I!Avail

LEMMA InCloseKeeps ==
  ASSUME InInv, I!Close
  PROVE  InInv'
<1>0. /\ iCurr' = Size /\ max' = Size /\ iOpen' = FALSE /\ iOp' = "idle"
      /\ UNCHANGED <<iOffset, iBuff, iFdPos, lost, want, got, iP, result>>
  BY DEF I!Close, I!CloseUsesUp, I!Idle
<1>1. InMirror' /\ Scanned'
  BY <1>0 DEF InMirror, Scanned
<1>3. InTypes'
  <2>1. Size \in 0..Size
    BY InSizes
  <2>2. iCurr' \in 0..max' /\ max' \in 0..Size
    BY <1>0, <2>1
  <2>3. iOpen' \in BOOLEAN
    BY <1>0
  <2>. QED
    BY <1>0, <2>2, <2>3 DEF InInv, InTypes
<1>2. I!ScanTellsLine' /\ I!EofAtEnd'
  BY ClosedSaysNothing DEF I!Close
<1>. QED
  BY <1>1, <1>2, <1>3 DEF InInv

LEMMA SeekInKeeps ==
  ASSUME InInv, NEW d \in InDests, I!SeekIn(d)
  PROVE  InInv' /\ got' = <<>> /\ (iOpen' => I!Place' = d)
<1>1. /\ got' = <<>> /\ result' = 0 /\ iOp' = "idle" /\ iStatus' \notin {"eof", "short"}
      /\ UNCHANGED <<iBuff, iOpen, want, iP>> /\ d \in 0..FileLen
  BY InSizes DEF I!SeekIn, I!Idle
<1>2. I!ScanTellsLine' /\ I!EofAtEnd'
  BY <1>1, OtherSaysNothing
<1>3. Scanned'
  BY <1>1 DEF Scanned
<1>4. CASE I!InBuffer(d)
  <2>1. iCurr' = max - (iOffset - d) /\ UNCHANGED <<iOffset, max, iFdPos, lost>>
    BY <1>4 DEF I!SeekIn
  <2>2. iCurr' \in 0..max
    BY <1>1, <1>4, <2>1, InSizes DEF InInv, InTypes, I!InBuffer
  <2>3. InTypes' /\ InMirror'
    BY <1>1, <2>1, <2>2, EmptySeq DEF InInv, InTypes, InMirror
  <2>4. I!Place' = d
    BY <1>1, <1>4, <2>1, InSizes DEF InInv, InTypes, I!InBuffer, I!Place, I!PosIn, I!Avail
  <2>. QED
    BY <1>1, <1>2, <1>3, <2>3, <2>4 DEF InInv
<1>5. CASE ~I!InBuffer(d) /\ iOpen
  <2>1. iFdPos' = d /\ iOffset' = d /\ lost' = 0 /\ iCurr' = 0 /\ max' = 0
    BY <1>5 DEF I!SeekIn
  <2>2. InTypes' /\ InMirror' /\ I!Place' = d
    BY <1>1, <2>1, EmptySeq, InSizes DEF InInv, InTypes, InMirror, I!Place, I!PosIn, I!Avail
  <2>. QED
    BY <1>1, <1>2, <1>3, <2>2 DEF InInv
<1>6. CASE ~I!InBuffer(d) /\ ~iOpen
  <2>1. UNCHANGED <<iOffset, iCurr, max, iFdPos, lost>>
    BY <1>6 DEF I!SeekIn
  <2>2. InTypes' /\ InMirror'
    BY <1>1, <1>6, <2>1, EmptySeq, InSizes DEF InInv, InTypes, InMirror
  <2>. QED
    BY <1>1, <1>2, <1>3, <1>6, <2>2 DEF InInv
<1>. QED
  BY <1>4, <1>5, <1>6

\* The n elements of a sequence from the one after a on.
LEMMA SliceIs ==
  ASSUME NEW s \in Seq(Nat), NEW a \in Nat, NEW n \in Nat, a + n <= Len(s)
  PROVE  /\ SubSeq(s, a + 1, a + n) \in Seq(Nat) /\ Len(SubSeq(s, a + 1, a + n)) = n
         /\ \A i \in 1..n : SubSeq(s, a + 1, a + n)[i] = s[a + i]
OBVIOUS

LEMMA FileIsSeq == I!File \in Seq(Nat) /\ Len(I!File) = FileLen /\ \A i \in 1..FileLen : I!File[i] = i
BY InSizes DEF I!File

\* Bytes of the file are bytes a reader may be given at the place of the channel.
LEMMA FileBytesAt ==
  ASSUME NEW at \in Nat, NEW n \in Nat, n > 0, at + n <= FileLen, lost = 0 => I!Place = at
  PROVE  SubSeq(I!File, at + 1, at + n) \in I!BytesAt(n)
<1>. DEFINE v == SubSeq(I!File, at + 1, at + n)
<1>1. v \in Seq(Nat) /\ Len(v) = n /\ \A i \in 1..n : v[i] = I!File[at + i]
  <2>1. I!File \in Seq(Nat) /\ Len(I!File) = FileLen
    BY FileIsSeq
  <2>. QED
    BY <2>1, SliceIs
<1>2. CASE lost = 0
  BY <1>2 DEF I!BytesAt
<1>3. CASE lost # 0
  <2>1. \A i \in 1..n : at + i \in 1..FileLen
    BY InSizes
  <2>2. \A i \in 1..n : v[i] \in 1..FileLen
    BY <1>1, <2>1, FileIsSeq
  <2>. HIDE DEF v
  <2>3. v \in [1..n -> 1..FileLen]
    BY <1>1, <2>2
  <2>. QED
    BY <1>3, <2>3 DEF I!BytesAt, v
<1>. QED
  BY <1>2, <1>3

\* What the buffer has unread are bytes a reader may be given.
LEMMA UnreadIsFile ==
  ASSUME InInv, NEW n \in Nat, n > 0, n <= I!Avail
  PROVE  /\ SubSeq(iBuff, iCurr + 1, iCurr + n) \in Seq(Nat)
         /\ iOpen => /\ I!Place \in Nat /\ I!Place + n <= FileLen
                     /\ SubSeq(iBuff, iCurr + 1, iCurr + n) \in I!BytesAt(n)
<1>. DEFINE u == SubSeq(iBuff, iCurr + 1, iCurr + n)
            v == SubSeq(I!File, I!Place + 1, I!Place + n)
<1>1. /\ iBuff \in Seq(Nat) /\ Len(iBuff) = Size /\ iCurr \in Nat /\ iCurr + n <= Size /\ max \in Nat
      /\ iCurr + n <= max
  BY InSizes DEF InInv, InTypes, I!Avail
<1>2. u \in Seq(Nat) /\ Len(u) = n /\ \A i \in 1..n : u[i] = iBuff[iCurr + i]
  BY <1>1, SliceIs
<1>3. ASSUME iOpen
      PROVE  /\ I!Place \in Nat /\ I!Place + n <= FileLen
             /\ I!Place = iOffset - (max - iCurr) /\ iOffset \in Nat
  BY <1>1, <1>3, InSizes DEF InInv, InTypes, InMirror, I!Place, I!PosIn, I!Avail
<1>4. ASSUME iOpen, lost # 0 PROVE u \in I!BytesAt(n)
  <2>1. ASSUME NEW i \in 1..n PROVE u[i] \in 1..FileLen
    <3>1. iCurr + i \in 1..max
      BY <1>1
    <3>2. iBuff[iCurr + i] \in 1..iFdPos /\ iFdPos \in 0..FileLen
      BY <1>4, <3>1 DEF InInv, InTypes, InMirror
    <3>. QED
      BY <1>2, <3>2, InSizes
  <2>. HIDE DEF u
  <2>2. u \in [1..n -> 1..FileLen]
    BY <1>2, <2>1
  <2>. QED
    BY <1>4, <2>2 DEF I!BytesAt
<1>5. ASSUME iOpen, lost = 0 PROVE u \in I!BytesAt(n)
  <2>1. ASSUME NEW i \in 1..n PROVE iBuff[iCurr + i] = I!File[I!Place + i]
    <3>1. iCurr + i \in 1..max /\ I!Place + i \in 1..FileLen
      BY <1>1, <1>3, <1>5, InSizes
    <3>2. iBuff[iCurr + i] = iOffset - max + (iCurr + i)
      BY <1>5, <3>1 DEF InInv, InMirror
    <3>3. I!File[I!Place + i] = I!Place + i
      BY <3>1, FileIsSeq
    <3>4. iOffset - max + (iCurr + i) = (iOffset - (max - iCurr)) + i
      BY <1>1, <1>3, <1>5
    <3>. QED
      BY <1>3, <1>5, <3>2, <3>3, <3>4
  <2>2. v \in Seq(Nat) /\ Len(v) = n /\ \A i \in 1..n : v[i] = I!File[I!Place + i]
    <3>1. I!File \in Seq(Nat) /\ Len(I!File) = FileLen
      BY FileIsSeq
    <3>2. I!Place \in Nat /\ I!Place + n <= FileLen
      BY <1>3, <1>5
    <3>. QED
      BY <3>1, <3>2, SliceIs
  <2>. HIDE DEF u, v
  <2>3. u = v
    BY <1>2, <2>1, <2>2, SeqEqual
  <2>. QED
    BY <1>5, <2>3 DEF v, I!BytesAt
<1>. QED
  BY <1>2, <1>3, <1>4, <1>5

LEMMA OneByte ==
  ASSUME NEW g \in Seq(Nat), NEW s \in Seq(Nat), NEW k \in 1..Len(s)
  PROVE  Append(g, s[k]) \in Seq(Nat) /\ Append(g, s[k]) = g \o SubSeq(s, k, k)
<1>. DEFINE u == SubSeq(s, k, k)
            v == Append(g, s[k])
            w == g \o u
<1>1. u \in Seq(Nat) /\ Len(u) = 1 /\ u[1] = s[k]
  <2>. DEFINE a == k - 1
              n == 1
  <2>1. a \in Nat /\ n \in Nat /\ a + n <= Len(s) /\ a + n = k /\ a + 1 = k /\ 1 \in 1..n
    OBVIOUS
  <2>. HIDE DEF a
  <2>2. /\ SubSeq(s, a + 1, a + n) \in Seq(Nat) /\ Len(SubSeq(s, a + 1, a + n)) = n
        /\ \A i \in 1..n : SubSeq(s, a + 1, a + n)[i] = s[a + i]
    <3>. HIDE DEF n
    <3>. QED
      BY <2>1, SliceIs
  <2>3. SubSeq(s, a + 1, a + n) = u
    BY <2>1
  <2>. HIDE DEF u
  <2>. QED
    BY <2>1, <2>2, <2>3
<1>. HIDE DEF u
<1>2. s[k] \in Nat
  BY ElementOfSeq
<1>3. v \in Seq(Nat) /\ Len(v) = Len(g) + 1 /\ v[Len(g) + 1] = s[k] /\ \A i \in 1..Len(g) : v[i] = g[i]
  BY <1>2
<1>4. w \in Seq(Nat) /\ Len(w) = Len(g) + 1 /\ w[Len(g) + 1] = s[k] /\ \A i \in 1..Len(g) : w[i] = g[i]
  <2>1. /\ w \in Seq(Nat) /\ Len(w) = Len(g) + Len(u)
        /\ \A i \in 1..(Len(g) + Len(u)) : w[i] = IF i <= Len(g) THEN g[i] ELSE u[i - Len(g)]
    BY <1>1, ConcatProperties
  <2>. HIDE DEF w
  <2>2. /\ Len(g) \in Nat /\ (Len(g) + 1) - Len(g) = 1 /\ ~(Len(g) + 1 <= Len(g))
        /\ Len(g) + 1 \in 1..(Len(g) + 1) /\ \A i \in 1..Len(g) : i \in 1..(Len(g) + 1) /\ i <= Len(g)
    OBVIOUS
  <2>3. /\ w \in Seq(Nat) /\ Len(w) = Len(g) + 1
        /\ \A i \in 1..(Len(g) + 1) : w[i] = IF i <= Len(g) THEN g[i] ELSE u[i - Len(g)]
    BY <1>1, <2>1
  <2>4. w[Len(g) + 1] = s[k]
    BY <1>1, <2>2, <2>3
  <2>5. \A i \in 1..Len(g) : w[i] = g[i]
    BY <2>2, <2>3
  <2>. QED
    BY <2>3, <2>4, <2>5
<1>. HIDE DEF v, w
<1>5. ASSUME NEW i \in 1..Len(v) PROVE v[i] = w[i]
  <2>1. CASE i \in 1..Len(g)
    BY <1>3, <1>4, <2>1
  <2>2. CASE i = Len(g) + 1
    BY <1>3, <1>4, <2>2
  <2>3. i \in 1..(Len(g) + 1) /\ Len(g) \in Nat
    BY <1>3
  <2>. QED
    BY <2>1, <2>2, <2>3
<1>6. v = w
  BY <1>3, <1>4, <1>5, SeqEqual
<1>. QED
  BY <1>3, <1>6 DEF u, v, w

\* A call under way keeps what it does not read.
Still == UNCHANGED <<iOffset, iBuff, max, iFdPos, lost, iOpen>>

LEMMA GetCharKeeps ==
  ASSUME InInv, I!GetChar
  PROVE  InInv' /\ (iOpen => I!Delivers)
<1>1. /\ Still /\ UNCHANGED <<iOp, iP, iStatus, result>> /\ iOp = "chars" /\ want > 0
      /\ iCurr' = iCurr + 1 /\ want' = want - 1 /\ got' = Append(got, iBuff[iCurr + 1])
      /\ 1 <= I!Avail
  BY DEF I!GetChar, I!Working, Still, InInv, InTypes, I!Avail
<1>2. iCurr + 1 \in 1..max /\ iCurr + 1 \in 1..Size /\ iBuff[iCurr + 1] \in Nat
  BY <1>1, InSizes DEF InInv, InTypes, I!Avail
<1>3. InTypes' /\ InMirror' /\ Scanned'
  BY <1>1, <1>2 DEF Still, InInv, InTypes, InMirror, Scanned
<1>4. I!ScanTellsLine' /\ I!EofAtEnd'
  BY <1>1, BusySaysNothing
<1>5. ASSUME iOpen PROVE I!Delivers
  <2>1. /\ I!Place \in Nat /\ I!Place + 1 <= FileLen
        /\ SubSeq(iBuff, iCurr + 1, iCurr + 1) \in I!BytesAt(1)
    <3>. DEFINE n == 1
    <3>1. n \in Nat /\ n > 0 /\ n <= I!Avail
      BY <1>1
    <3>. HIDE DEF n
    <3>2. /\ I!Place \in Nat /\ I!Place + n <= FileLen
          /\ SubSeq(iBuff, iCurr + 1, iCurr + n) \in I!BytesAt(n)
      BY <1>5, <3>1, UnreadIsFile
    <3>. QED
      BY <3>2 DEF n
  <2>2. iBuff \in Seq(Nat) /\ iCurr + 1 \in 1..Len(iBuff)
    BY <1>2, InSizes DEF InInv, InTypes
  <2>3. got' = got \o SubSeq(iBuff, iCurr + 1, iCurr + 1)
    BY <1>1, <2>1, <2>2, OneByte DEF InInv, InTypes
  <2>4. I!Place' = I!Place + 1
    BY <1>1 DEF Still, InInv, InTypes, I!Place, I!PosIn, I!Avail
  <2>5. 1 \in 1..(FileLen - I!Place)
    BY <2>1, InSizes
  <2>. QED
    BY <2>1, <2>3, <2>4, <2>5 DEF I!Delivers
<1>. QED
  BY <1>3, <1>4, <1>5 DEF InInv

LEMMA GetBlockKeeps ==
  ASSUME InInv, I!GetBlock
  PROVE  InInv' /\ (iOpen => I!Delivers)
<1>. DEFINE n == I!Smaller(want, I!Avail)
<1>1. /\ Still /\ UNCHANGED <<iP, iStatus, result>> /\ iOp \in {"input", "really"}
      /\ iCurr' = iCurr + n /\ want' = (IF iOp = "input" THEN 0 ELSE want - n)
      /\ got' = got \o SubSeq(iBuff, iCurr + 1, iCurr + n) /\ iOp' = (IF iOp = "input" THEN "done" ELSE iOp)
  BY DEF I!GetBlock, I!BlockFrom, I!Working, Still
<1>2. n \in Nat /\ n > 0 /\ n <= I!Avail /\ n <= want /\ want - n \in Nat
  <2>1. want \in Nat /\ want > 0 /\ I!Avail \in Nat /\ I!Avail > 0
    BY InSizes DEF InInv, InTypes, Scanned, I!Avail, I!GetBlock, I!Working
  <2>. QED
    BY <2>1 DEF I!Smaller
<1>. HIDE DEF n
<1>3. iCurr + n \in 0..max
  BY <1>2 DEF InInv, InTypes, I!Avail
<1>4. got' \in Seq(Nat)
  BY <1>1, <1>2, UnreadIsFile DEF InInv, InTypes
<1>5. InTypes' /\ InMirror' /\ Scanned'
  BY <1>1, <1>2, <1>3, <1>4 DEF Still, InInv, InTypes, InMirror, Scanned
<1>6. I!ScanTellsLine' /\ I!EofAtEnd'
  BY <1>1, BusySaysNothing
<1>7. ASSUME iOpen PROVE I!Delivers
  <2>1. /\ I!Place \in Nat /\ I!Place + n <= FileLen
        /\ SubSeq(iBuff, iCurr + 1, iCurr + n) \in I!BytesAt(n)
    BY <1>2, <1>7, UnreadIsFile
  <2>2. I!Place' = I!Place + n
    BY <1>1, <1>2 DEF Still, InInv, InTypes, I!Place, I!PosIn, I!Avail
  <2>3. n \in 1..(FileLen - I!Place)
    BY <1>2, <2>1, InSizes
  <2>. QED
    BY <1>1, <2>1, <2>2, <2>3 DEF I!Delivers
<1>. QED
  BY <1>5, <1>6, <1>7 DEF InInv

\* What a read delivers at once is at the descriptor, since nothing is left to deliver before.
LEMMA ReadDelivers ==
  ASSUME InInv, iOpen, I!Avail = 0, NEW n \in Nat, n > 0, iFdPos + n <= FileLen,
         got' = got \o SubSeq(I!File, iFdPos + 1, iFdPos + n),
         iOffset' - (max' - iCurr') = iOffset + n
  PROVE  I!Delivers
<1>1. /\ I!Place = iOffset /\ iOffset \in Nat /\ iFdPos \in Nat /\ iOffset <= iFdPos
      /\ lost = 0 => I!Place = iFdPos
  BY InSizes DEF InInv, InTypes, InMirror, I!Place, I!PosIn, I!Avail
<1>2. I!Place' = I!Place + n
  BY <1>1 DEF I!Place, I!PosIn, I!Avail
<1>3. n \in 1..(FileLen - I!Place)
  BY <1>1, InSizes
<1>4. SubSeq(I!File, iFdPos + 1, iFdPos + n) \in I!BytesAt(n)
  BY <1>1, FileBytesAt
<1>. QED
  BY <1>2, <1>3, <1>4 DEF I!Delivers

\* A whole buffer is read.
LEMMA RefillMirrors ==
  ASSUME InInv, iOpen, iOpen', NEW k \in I!Readable(Size), NEW c \in 0..k,
         iBuff' = I!ReadInto(iBuff, 0, k), iFdPos' = iFdPos + k, iOffset' = iOffset + k,
         max' = k, iCurr' = c, lost' = lost
  PROVE  /\ InMirror' /\ iOffset' \in 0..FileLen /\ iFdPos' \in 0..FileLen
         /\ iBuff' \in [1..Size -> Nat] /\ max' \in 0..Size /\ iCurr' \in 0..max'
<1>1. 0 \in 0..Size /\ iFdPos \in 0..FileLen /\ iBuff \in [1..Size -> Nat] /\ Size - 0 = Size
      /\ iOffset + lost = iFdPos /\ iOffset \in Nat /\ lost \in Nat
  BY InSizes DEF InInv, InTypes, InMirror
<1>2. /\ k \in Nat /\ k > 0 /\ iFdPos + k <= FileLen /\ 0 + k <= Size
      /\ I!ReadInto(iBuff, 0, k) \in [1..Size -> Nat]
      /\ \A i \in (0 + 1)..(0 + k) : I!ReadInto(iBuff, 0, k)[i] = iFdPos + i - 0
  BY <1>1, ReadGives
<1>3. ASSUME NEW i \in 1..k
      PROVE  iBuff'[i] \in 1..(iFdPos + k) /\ (lost = 0 => iBuff'[i] = (iOffset + k) - k + i)
  <2>1. iBuff'[i] = iFdPos + i
    BY <1>1, <1>2
  <2>2. iFdPos + i \in 1..(iFdPos + k) /\ (lost = 0 => iFdPos + i = (iOffset + k) - k + i)
    BY <1>1, <1>2
  <2>. QED
    BY <2>1, <2>2
<1>4. InMirror'
  <2>1. (iOffset + k) + lost = iFdPos + k /\ k <= iOffset + k
    BY <1>1, <1>2
  <2>. QED
    BY <1>3, <2>1 DEF InMirror
<1>5. iOffset + k \in 0..FileLen /\ iFdPos + k \in 0..FileLen
  BY <1>1, <1>2, InSizes
<1>. QED
  BY <1>1, <1>2, <1>4, <1>5, InSizes

LEMMA RefillKeeps ==
  ASSUME InInv, NEW k \in 1..Size, I!Refill(k)
  PROVE  InInv' /\ I!Delivers
<1>1. /\ iOp = "chars" /\ want > 0 /\ I!Avail = 0 /\ iOpen /\ k \in I!Readable(Size)
      /\ iBuff' = I!ReadInto(iBuff, 0, k) /\ iFdPos' = iFdPos + k /\ iOffset' = iOffset + k
      /\ max' = k /\ iCurr' = 1 /\ got' = Append(got, I!File[iFdPos + 1]) /\ want' = want - 1
      /\ UNCHANGED <<lost, iOpen, iOp, iP, iStatus, result>>
  BY DEF I!Refill, I!Working
<1>2. k \in Nat /\ k > 0 /\ iFdPos + k <= FileLen /\ iFdPos \in Nat
  BY <1>1, InSizes DEF InInv, InTypes, I!Readable, I!Smaller
<1>3. /\ InMirror' /\ iOffset' \in 0..FileLen /\ iFdPos' \in 0..FileLen
      /\ iBuff' \in [1..Size -> Nat] /\ max' \in 0..Size /\ iCurr' \in 0..max'
  <2>. DEFINE c == 1
  <2>1. c \in 0..k
    BY <1>2
  <2>. HIDE DEF c
  <2>2. iCurr' = c
    BY <1>1 DEF c
  <2>. QED
    BY <1>1, <2>1, <2>2, RefillMirrors
<1>4. /\ got' \in Seq(Nat) /\ got' = got \o SubSeq(I!File, iFdPos + 1, iFdPos + 1)
  <2>1. I!File \in Seq(Nat) /\ iFdPos + 1 \in 1..Len(I!File) /\ got \in Seq(Nat)
    BY <1>2, FileIsSeq, InSizes DEF InInv, InTypes
  <2>. QED
    BY <1>1, <2>1, OneByte
<1>5. InTypes' /\ Scanned'
  <2>1. want' \in Nat /\ UNCHANGED <<lost, iOpen, iP, result>>
    BY <1>1 DEF InInv, InTypes
  <2>2. InTypes'
    BY <1>3, <1>4, <2>1 DEF InInv, InTypes
  <2>3. Scanned'
    BY <1>1 DEF Scanned
  <2>. QED
    BY <2>2, <2>3
<1>6. I!ScanTellsLine' /\ I!EofAtEnd'
  BY <1>1, BusySaysNothing
<1>7. I!Delivers
  <2>. DEFINE n == 1
  <2>1. n \in Nat /\ n > 0 /\ iFdPos + n <= FileLen
    BY <1>2, InSizes
  <2>2. got' = got \o SubSeq(I!File, iFdPos + 1, iFdPos + n)
    BY <1>4
  <2>3. iOffset' - (max' - iCurr') = iOffset + n
    BY <1>1, <1>2, InSizes DEF InInv, InTypes
  <2>. HIDE DEF n
  <2>. QED
    BY <1>1, <2>1, <2>2, <2>3, ReadDelivers
<1>. QED
  BY <1>3, <1>5, <1>6, <1>7 DEF InInv

LEMMA GetBlockReadKeeps ==
  ASSUME InInv, NEW k \in 1..Size, I!GetBlockRead(k)
  PROVE  InInv' /\ I!Delivers
<1>. DEFINE n == I!Smaller(want, k)
<1>1. /\ iOp \in {"input", "really"} /\ want > 0 /\ I!Avail = 0 /\ iOpen /\ k \in I!Readable(Size)
      /\ iBuff' = I!ReadInto(iBuff, 0, k) /\ iFdPos' = iFdPos + k /\ iOffset' = iOffset + k
      /\ max' = k /\ iCurr' = n /\ got' = got \o SubSeq(I!File, iFdPos + 1, iFdPos + n)
      /\ want' = (IF iOp = "input" THEN 0 ELSE want - n) /\ iOp' = (IF iOp = "input" THEN "done" ELSE iOp)
      /\ UNCHANGED <<lost, iOpen, iP, iStatus, result>>
  BY DEF I!GetBlockRead, I!Working
<1>2. k \in Nat /\ k > 0 /\ iFdPos + k <= FileLen /\ iFdPos \in Nat
  BY <1>1, InSizes DEF InInv, InTypes, I!Readable, I!Smaller
<1>3. n \in Nat /\ n > 0 /\ n <= k /\ want - n \in Nat
  BY <1>1, <1>2 DEF InInv, InTypes, I!Smaller
<1>. HIDE DEF n
<1>4. /\ InMirror' /\ iOffset' \in 0..FileLen /\ iFdPos' \in 0..FileLen
      /\ iBuff' \in [1..Size -> Nat] /\ max' \in 0..Size /\ iCurr' \in 0..max'
  <2>1. n \in 0..k
    BY <1>2, <1>3
  <2>. QED
    BY <1>1, <2>1, RefillMirrors
<1>5. got' \in Seq(Nat)
  <2>1. I!File \in Seq(Nat) /\ iFdPos + n <= Len(I!File)
    BY <1>2, <1>3, FileIsSeq, InSizes
  <2>2. SubSeq(I!File, iFdPos + 1, iFdPos + n) \in Seq(Nat)
    BY <1>2, <1>3, <2>1, SliceIs
  <2>. QED
    BY <1>1, <2>2, ConcatProperties DEF InInv, InTypes
<1>6. InTypes'
  <2>1. want' \in Nat /\ UNCHANGED <<lost, iOpen, iP, result>>
    BY <1>1, <1>3
  <2>. QED
    BY <1>4, <1>5, <2>1 DEF InInv, InTypes
<1>7. Scanned'
  BY <1>1 DEF Scanned
<1>8. I!ScanTellsLine' /\ I!EofAtEnd'
  BY <1>1, BusySaysNothing
<1>9. I!Delivers
  <2>1. iFdPos + n <= FileLen
    BY <1>2, <1>3, InSizes
  <2>2. iOffset' - (max' - iCurr') = iOffset + n
    BY <1>1, <1>2, <1>3, InSizes DEF InInv, InTypes
  <2>. QED
    BY <1>1, <1>3, <2>1, <2>2, ReadDelivers
<1>. QED
  BY <1>4, <1>6, <1>7, <1>8, <1>9 DEF InInv

\* The ends of the other calls, and the steps of a scan, leave the channel where it is.
LEMMA RefillEofKeeps ==
  ASSUME InInv, I!RefillEof
  PROVE  InInv' /\ got' = got /\ I!Place' = I!Place
<1>1. /\ Still /\ iCurr' = iCurr /\ got' = got /\ iOp' = "idle" /\ iStatus' = "eof" /\ result' = 0
      /\ want' = 0 /\ iP' = 0 /\ I!Avail = 0 /\ iOpen /\ iFdPos >= FileLen
  BY DEF I!RefillEof, I!End, I!channel, I!AtEof, Still
<1>2. InTypes' /\ InMirror' /\ Scanned'
  BY <1>1 DEF Still, InInv, InTypes, InMirror, Scanned
<1>3. I!Place' = I!Place /\ I!PosIn' + lost' = FileLen
  BY <1>1, InSizes DEF Still, InInv, InTypes, InMirror, I!Place, I!PosIn, I!Avail
<1>4. I!ScanTellsLine' /\ I!EofAtEnd'
  BY <1>1, <1>3 DEF I!ScanTellsLine, I!EofAtEnd
<1>. QED
  BY <1>1, <1>2, <1>3, <1>4 DEF InInv

LEMMA GetBlockEofKeeps ==
  ASSUME InInv, I!GetBlockEof
  PROVE  InInv' /\ got' = got /\ I!Place' = I!Place
<1>1. /\ UNCHANGED <<iOffset, iBuff, iFdPos, lost, iOpen, got>> /\ max' = 0 /\ iCurr' = 0
      /\ iOp' = "idle" /\ iStatus' = "short" /\ result' = Len(got)
      /\ want' = 0 /\ iP' = 0 /\ I!Avail = 0 /\ iOpen /\ iFdPos >= FileLen
  BY DEF I!GetBlockEof, I!End, I!AtEof
<1>2. InTypes' /\ InMirror' /\ Scanned'
  BY <1>1, InSizes DEF InInv, InTypes, InMirror, Scanned
<1>3. I!Place' = I!Place /\ I!PosIn' + lost' = FileLen
  BY <1>1, InSizes DEF InInv, InTypes, InMirror, I!Place, I!PosIn, I!Avail
<1>4. I!ScanTellsLine' /\ I!EofAtEnd'
  BY <1>1, <1>3 DEF I!ScanTellsLine, I!EofAtEnd
<1>. QED
  BY <1>1, <1>2, <1>3, <1>4 DEF InInv

LEMMA FinishedKeeps ==
  ASSUME InInv, I!Finished
  PROVE  InInv' /\ got' = got /\ I!Place' = I!Place
<1>1. /\ Still /\ iCurr' = iCurr /\ got' = got /\ iOp' = "idle" /\ iStatus' = "ok" /\ result' = Len(got)
      /\ want' = 0 /\ iP' = 0
  BY DEF I!Finished, I!End, I!channel, Still
<1>2. InTypes' /\ InMirror' /\ Scanned'
  BY <1>1 DEF Still, InInv, InTypes, InMirror, Scanned
<1>3. got' = <<>> => result' = 0
  BY <1>1
<1>4. I!ScanTellsLine' /\ I!EofAtEnd'
  BY <1>1, <1>3, OtherSaysNothing
<1>. QED
  BY <1>1, <1>2, <1>4 DEF InInv, Still, I!Place, I!PosIn, I!Avail

\* The unread bytes, moved to the front, are still those before the descriptor.
LEMMA MovedIs ==
  ASSUME InInv
  PROVE  /\ I!Moved \in [1..Size -> Nat] /\ I!Avail \in 0..Size
         /\ \A i \in 1..I!Avail : iCurr + i \in 1..max /\ I!Moved[i] = iBuff[iCurr + i]
         /\ iOpen => /\ \A i \in 1..I!Avail : I!Moved[i] \in 1..iFdPos
                     /\ lost = 0 => \A i \in 1..I!Avail : I!Moved[i] = iOffset - I!Avail + i
<1>1. /\ iBuff \in [1..Size -> Nat] /\ iCurr \in Nat /\ max \in Nat /\ I!Avail \in 0..Size
      /\ I!Avail = max - iCurr /\ max <= Size /\ iOffset \in Nat
  BY InSizes DEF InInv, InTypes, I!Avail
<1>2. I!Moved \in [1..Size -> Nat]
  <2>1. \A i \in 1..Size : i + iCurr <= max => i + iCurr \in 1..Size
    <3>1. Size \in Nat
      BY InSizes
    <3>. QED
      BY <1>1, <3>1
  <2>. QED
    BY <1>1, <2>1 DEF I!Moved
<1>3. ASSUME NEW i \in 1..I!Avail
      PROVE  /\ iCurr + i \in 1..max /\ I!Moved[i] = iBuff[iCurr + i]
             /\ iOpen => I!Moved[i] \in 1..iFdPos
             /\ iOpen /\ lost = 0 => I!Moved[i] = iOffset - I!Avail + i
  <2>1. i \in 1..Size /\ i + iCurr <= max /\ i + iCurr = iCurr + i /\ iCurr + i \in 1..max
    BY <1>1, InSizes
  <2>2. I!Moved[i] = iBuff[iCurr + i]
    BY <2>1 DEF I!Moved
  <2>3. ASSUME iOpen PROVE I!Moved[i] \in 1..iFdPos
    BY <2>1, <2>2, <2>3 DEF InInv, InMirror
  <2>4. ASSUME iOpen, lost = 0 PROVE I!Moved[i] = iOffset - I!Avail + i
    <3>1. iBuff[iCurr + i] = iOffset - max + (iCurr + i)
      BY <2>1, <2>4 DEF InInv, InMirror
    <3>. QED
      BY <1>1, <2>2, <3>1
  <2>. QED
    BY <2>1, <2>2, <2>3, <2>4
<1>. QED
  BY <1>1, <1>2, <1>3

LEMMA ReadFailsKeeps ==
  ASSUME InInv, I!ReadFails
  PROVE  InInv' /\ got' = got /\ I!Place' = I!Place
<1>1. /\ UNCHANGED <<iOffset, iFdPos, lost, iOpen, got>> /\ iOp' = "idle" /\ iStatus' = "raised"
      /\ result' = 0 /\ want' = 0 /\ iP' = 0
  BY DEF I!ReadFails, I!End
<1>2. I!ScanTellsLine' /\ I!EofAtEnd'
  BY <1>1, OtherSaysNothing
<1>3. Scanned'
  BY <1>1 DEF Scanned
<1>4. CASE iOp # "scan"
  <2>1. UNCHANGED <<iBuff, iCurr, max>>
    BY <1>4 DEF I!ReadFails
  <2>2. InTypes' /\ InMirror' /\ I!Place' = I!Place
    BY <1>1, <2>1 DEF InInv, InTypes, InMirror, I!Place, I!PosIn, I!Avail
  <2>. QED
    BY <1>1, <1>2, <1>3, <2>2 DEF InInv
<1>5. CASE iOp = "scan"
  <2>1. iBuff' = I!Moved /\ iCurr' = 0 /\ max' = I!Avail
    BY <1>5 DEF I!ReadFails
  <2>2. InTypes'
    BY <1>1, <2>1, MovedIs, InSizes DEF InInv, InTypes
  <2>3. InMirror'
    <3>1. iOpen => I!Avail <= iOffset
      BY InSizes DEF InInv, InTypes, InMirror, I!Avail
    <3>. QED
      BY <1>1, <2>1, <3>1, MovedIs DEF InInv, InMirror
  <2>4. I!Place' = I!Place
    BY <1>1, <2>1, MovedIs DEF InInv, InTypes, I!Place, I!PosIn, I!Avail
  <2>. QED
    BY <1>1, <1>2, <1>3, <2>2, <2>3, <2>4 DEF InInv
<1>. QED
  BY <1>4, <1>5

\* A handler that raises over a read leaves offset, what is unread and the place alone.
LEMMA ReadRaisesKeeps ==
  ASSUME InInv, NEW k \in 1..Size, I!ReadRaises(k)
  PROVE  InInv' /\ got' = got /\ I!Place' = I!Place
<1>1. /\ UNCHANGED <<iOffset, iOpen, got>> /\ iOp' = "idle" /\ iStatus' = "raised" /\ iOpen
      /\ result' = 0 /\ want' = 0 /\ iP' = 0 /\ iFdPos' = iFdPos + k /\ lost' = lost + k
  BY DEF I!ReadRaises, I!End
<1>2. I!ScanTellsLine' /\ I!EofAtEnd'
  BY <1>1, OtherSaysNothing
<1>3. Scanned'
  BY <1>1 DEF Scanned
<1>4. /\ iFdPos \in 0..FileLen /\ iOffset \in Nat /\ lost \in Nat /\ iOffset + lost = iFdPos
      /\ max <= iOffset /\ max \in Nat /\ iCurr \in 0..max /\ iBuff \in [1..Size -> Nat]
      /\ \A i \in 1..max : iBuff[i] \in 1..iFdPos
  BY <1>1, InSizes DEF InInv, InTypes, InMirror
<1>5. CASE iOp # "scan"
  <2>1. k \in I!Readable(Size) /\ iBuff' = I!ReadInto(iBuff, 0, k) /\ UNCHANGED <<iCurr, max>>
    BY <1>5 DEF I!ReadRaises
  <2>2. 0 \in 0..Size /\ Size - 0 = Size
    BY InSizes
  <2>3. /\ k \in Nat /\ k > 0 /\ iFdPos + k <= FileLen /\ I!ReadInto(iBuff, 0, k) \in [1..Size -> Nat]
        /\ \A i \in (0 + 1)..(0 + k) : I!ReadInto(iBuff, 0, k)[i] = iFdPos + i - 0
    BY <1>4, <2>1, <2>2, ReadGives
  <2>4. ASSUME NEW i \in 1..max PROVE iBuff'[i] \in 1..(iFdPos + k)
    <3>1. i \in 1..Size /\ iBuff[i] \in 1..iFdPos
      BY <1>4, InSizes DEF InInv, InTypes
    <3>2. CASE i <= k
      <4>1. i \in (0 + 1)..(0 + k) /\ iFdPos + i - 0 \in 1..(iFdPos + k)
        BY <1>4, <2>3, <3>1, <3>2
      <4>. QED
        BY <2>1, <2>3, <4>1
    <3>3. CASE ~(i <= k)
      <4>1. i \notin (0 + 1)..(0 + k) /\ iBuff[i] \in 1..(iFdPos + k)
        BY <1>4, <2>3, <3>1, <3>3
      <4>2. I!ReadInto(iBuff, 0, k)[i] = iBuff[i]
        BY <3>1, <4>1 DEF I!ReadInto
      <4>. QED
        BY <2>1, <4>1, <4>2
    <3>. QED
      BY <3>2, <3>3
  <2>5. InMirror'
    BY <1>1, <1>4, <2>1, <2>3, <2>4 DEF InMirror
  <2>6. InTypes'
    <3>1. iFdPos' \in 0..FileLen /\ lost' \in Nat
      BY <1>1, <1>4, <2>3, InSizes
    <3>2. iBuff' \in [1..Size -> Nat] /\ UNCHANGED <<iCurr, max>>
      BY <2>1, <2>3
    <3>. QED
      BY <1>1, <3>1, <3>2 DEF InInv, InTypes
  <2>7. I!Place' = I!Place
    BY <1>1, <2>1 DEF I!Place, I!PosIn, I!Avail
  <2>. QED
    BY <1>1, <1>2, <1>3, <2>5, <2>6, <2>7 DEF InInv
<1>6. CASE iOp = "scan"
  <2>. DEFINE a == I!Avail
  <2>1. /\ k \in I!Readable(Size - a) /\ iBuff' = I!ReadInto(I!Moved, a, k) /\ iCurr' = 0 /\ max' = a
    BY <1>6 DEF I!ReadRaises
  <2>2. /\ I!Moved \in [1..Size -> Nat] /\ a \in 0..Size /\ \A i \in 1..a : I!Moved[i] \in 1..iFdPos
        /\ a = max - iCurr
    BY <1>1, MovedIs DEF I!Avail
  <2>. HIDE DEF a
  <2>3. /\ k \in Nat /\ k > 0 /\ iFdPos + k <= FileLen
        /\ I!ReadInto(I!Moved, a, k) \in [1..Size -> Nat]
        /\ \A i \in 1..a : I!ReadInto(I!Moved, a, k)[i] = I!Moved[i]
    BY <1>4, <2>1, <2>2, ReadGives
  <2>4. ASSUME NEW i \in 1..a PROVE iBuff'[i] \in 1..(iFdPos + k)
    <3>1. iBuff'[i] = I!Moved[i] /\ I!Moved[i] \in 1..iFdPos
      BY <2>1, <2>2, <2>3
    <3>. QED
      BY <1>4, <2>3, <3>1
  <2>5. InMirror'
    <3>1. a <= iOffset /\ iOffset + (lost + k) = iFdPos + k /\ lost + k # 0
      BY <1>4, <2>2, <2>3
    <3>. QED
      BY <1>1, <2>1, <2>4, <3>1 DEF InMirror
  <2>6. InTypes'
    <3>1. iFdPos' \in 0..FileLen /\ lost' \in Nat
      BY <1>1, <1>4, <2>3, InSizes
    <3>2. iBuff' \in [1..Size -> Nat] /\ max' \in 0..Size /\ iCurr' \in 0..max'
      BY <2>1, <2>2, <2>3, InSizes
    <3>. QED
      BY <1>1, <3>1, <3>2 DEF InInv, InTypes
  <2>7. I!Place' = I!Place
    BY <1>1, <1>4, <2>1, <2>2 DEF I!Place, I!PosIn, I!Avail
  <2>. QED
    BY <1>1, <1>2, <1>3, <2>5, <2>6, <2>7 DEF InInv
<1>. QED
  BY <1>5, <1>6

\* What a scan has gone over holds no newline.
LEMMA ScannedIs ==
  ASSUME InInv, iOpen, iOp = "scan"
  PROVE  \A i \in 1..(iP - iCurr) : iBuff[iCurr + i] \notin NewLines
<1>1. iCurr \in Nat /\ iP \in Nat /\ iCurr <= iP
  BY DEF InInv, InTypes, Scanned
<1>2. ASSUME NEW i \in 1..(iP - iCurr) PROVE iBuff[iCurr + i] \notin NewLines
  <2>1. iCurr + i \in (iCurr + 1)..iP
    BY <1>1
  <2>. QED
    BY <2>1 DEF InInv, Scanned
<1>. QED
  BY <1>2

LEMMA ScanCharKeeps ==
  ASSUME InInv, I!ScanChar
  PROVE  InInv' /\ got' = got /\ I!Place' = I!Place
<1>1. Still /\ iCurr' = iCurr /\ got' = got /\ iOp = "scan" /\ iP < max
  BY DEF I!ScanChar, I!channel, Still
<1>2. InMirror' /\ I!Place' = I!Place /\ I!PosIn' = I!PosIn
  BY <1>1 DEF Still, InInv, InTypes, InMirror, I!Place, I!PosIn, I!Avail
<1>3. iCurr \in Nat /\ iP \in Nat /\ iCurr <= iP /\ max \in Nat /\ I!Avail = max - iCurr
  BY <1>1 DEF InInv, InTypes, Scanned, I!Avail
<1>4. CASE iBuff[iP + 1] \notin NewLines
  <2>1. iP' = iP + 1 /\ UNCHANGED <<iOp, want, iStatus, result>>
    BY <1>4 DEF I!ScanChar
  <2>2. Scanned'
    <3>1. ASSUME iOpen, NEW i \in (iCurr + 1)..(iP + 1) PROVE iBuff[i] \notin NewLines
      <4>1. i \in (iCurr + 1)..iP \/ i = iP + 1
        BY <1>3
      <4>. QED
        BY <1>1, <1>4, <3>1, <4>1 DEF InInv, Scanned
    <3>. QED
      BY <1>1, <1>3, <2>1, <3>1 DEF Scanned, Still
  <2>3. InTypes'
    BY <1>1, <1>3, <2>1 DEF Still, InInv, InTypes
  <2>4. I!ScanTellsLine' /\ I!EofAtEnd'
    BY <1>1, <2>1, BusySaysNothing
  <2>. QED
    BY <1>1, <1>2, <2>2, <2>3, <2>4 DEF InInv
<1>5. CASE iBuff[iP + 1] \in NewLines
  <2>1. iOp' = "idle" /\ iStatus' = "ok" /\ result' = iP + 1 - iCurr /\ want' = 0 /\ iP' = 0
    BY <1>5 DEF I!ScanChar, I!End
  <2>2. InTypes' /\ Scanned'
    BY <1>1, <1>3, <2>1 DEF Still, InInv, InTypes, Scanned
  <2>3. I!EofAtEnd'
    BY <2>1 DEF I!EofAtEnd
  <2>. DEFINE r == iP + 1 - iCurr
  <2>4. r \in Nat /\ r > 0 /\ r \in 1..I!Avail /\ iCurr + r = iP + 1
    BY <1>1, <1>3
  <2>5. iBuff[iCurr + r] \in NewLines
    BY <1>5, <2>4
  <2>6. ASSUME iOpen, NEW i \in 1..r, iBuff[iCurr + i] \in NewLines PROVE i = r
    <3>1. i \in 1..(iP - iCurr) \/ i = r
      BY <1>3
    <3>. QED
      BY <1>1, <2>6, <3>1, ScannedIs
  <2>. HIDE DEF r
  <2>7. I!ScanTellsLine'
    <3>1. result' = r /\ iOpen' = iOpen /\ iBuff' = iBuff /\ iCurr' = iCurr
      BY <1>1, <2>1 DEF r, Still
    <3>2. ASSUME iOpen PROVE {i \in 1..r : iBuff[iCurr + i] \in NewLines} = {r}
      BY <2>4, <2>5, <2>6, <3>2
    <3>. QED
      BY <2>4, <3>1, <3>2 DEF I!ScanTellsLine, I!Newlines
  <2>. QED
    BY <1>1, <1>2, <2>2, <2>3, <2>7 DEF InInv
<1>. QED
  BY <1>4, <1>5

\* A scan that offers all the buffer has has gone over all of it.
LEMMA OfferIsTold ==
  ASSUME InInv, iOp = "scan", iP >= max, iOpen' = iOpen, I!Avail' = I!Avail, result' = -I!Avail,
         \A i \in 1..I!Avail : iBuff'[iCurr' + i] = iBuff[iCurr + i],
         iOpen => I!Avail' = Size \/ iOffset' + lost' = FileLen
  PROVE  I!ScanTellsLine'
<1>1. I!Avail \in Nat /\ iP - iCurr = I!Avail
  BY InSizes DEF InInv, InTypes, Scanned, I!Avail
<1>. DEFINE a == I!Avail
<1>2. /\ a \in Nat /\ result' = -a /\ I!Avail' = a
      /\ iOpen => {i \in 1..a : iBuff'[iCurr' + i] \in NewLines} = {}
  BY <1>1, ScannedIs
<1>. HIDE DEF a
<1>3. ~(result' > 0) /\ -result' = a
  BY <1>2
<1>. QED
  BY <1>2, <1>3 DEF I!ScanTellsLine, I!Newlines

LEMMA ScanFullKeeps ==
  ASSUME InInv, I!ScanFull
  PROVE  InInv' /\ got' = got /\ I!Place' = I!Place
<1>1. /\ Still /\ iCurr' = iCurr /\ got' = got /\ iOp' = "idle" /\ iStatus' = "ok" /\ result' = -I!Avail
      /\ want' = 0 /\ iP' = 0 /\ iOp = "scan" /\ iP >= max /\ I!Avail >= Size
  BY DEF I!ScanFull, I!End, I!channel, Still
<1>2. I!Avail \in Nat /\ I!Avail = Size /\ I!Avail' = I!Avail /\ I!Place' = I!Place
  BY <1>1, InSizes DEF Still, InInv, InTypes, I!Place, I!PosIn, I!Avail
<1>3. InTypes' /\ InMirror' /\ Scanned'
  BY <1>1, <1>2 DEF Still, InInv, InTypes, InMirror, Scanned
<1>4. I!ScanTellsLine'
  BY <1>1, <1>2, OfferIsTold DEF Still
<1>5. I!EofAtEnd'
  BY <1>1 DEF I!EofAtEnd
<1>. QED
  BY <1>1, <1>2, <1>3, <1>4, <1>5 DEF InInv

LEMMA ScanEofKeeps ==
  ASSUME InInv, I!ScanEof
  PROVE  InInv' /\ got' = got /\ I!Place' = I!Place
<1>1. /\ UNCHANGED <<iOffset, iFdPos, lost, iOpen, got>> /\ iOp' = "idle" /\ iStatus' = "ok"
      /\ result' = -I!Avail /\ want' = 0 /\ iP' = 0 /\ iOp = "scan" /\ iP >= max
      /\ iBuff' = I!Moved /\ iCurr' = 0 /\ max' = I!Avail /\ iOpen /\ iFdPos >= FileLen
  BY DEF I!ScanEof, I!End, I!AtEof
<1>2. /\ I!Avail \in Nat /\ I!Avail' = I!Avail /\ I!Place' = I!Place
      /\ iOffset' + lost' = FileLen /\ I!Avail <= iOffset
  BY <1>1, InSizes DEF InInv, InTypes, InMirror, I!Place, I!PosIn, I!Avail
<1>3. InTypes'
  BY <1>1, <1>2, MovedIs, InSizes DEF InInv, InTypes
<1>4. InMirror' /\ Scanned'
  BY <1>1, <1>2, MovedIs DEF InInv, InMirror, Scanned
<1>5. I!ScanTellsLine'
  <2>1. \A i \in 1..I!Avail : iBuff'[iCurr' + i] = iBuff[iCurr + i]
    <3>1. \A i \in 1..I!Avail : 0 + i = i /\ I!Moved[i] = iBuff[iCurr + i]
      BY <1>2, MovedIs
    <3>. QED
      BY <1>1, <3>1
  <2>. QED
    BY <1>1, <1>2, <2>1, OfferIsTold
<1>6. I!EofAtEnd'
  BY <1>1 DEF I!EofAtEnd
<1>. QED
  BY <1>1, <1>2, <1>3, <1>4, <1>5, <1>6 DEF InInv

LEMMA ScanReadKeeps ==
  ASSUME InInv, NEW k \in 1..Size, I!ScanRead(k)
  PROVE  InInv' /\ got' = got /\ I!Place' = I!Place
<1>. DEFINE a == I!Avail
<1>1. /\ iOp = "scan" /\ iP >= max /\ iOpen /\ k \in I!Readable(Size - a)
      /\ iBuff' = I!ReadInto(I!Moved, a, k) /\ iCurr' = 0 /\ iP' = iP - iCurr /\ max' = a + k
      /\ iOffset' = iOffset + k /\ iFdPos' = iFdPos + k
      /\ UNCHANGED <<lost, iOpen, iOp, want, got, iStatus, result>>
  BY DEF I!ScanRead
<1>2. /\ I!Moved \in [1..Size -> Nat] /\ a \in 0..Size
      /\ \A i \in 1..a : iCurr + i \in 1..max /\ I!Moved[i] = iBuff[iCurr + i]
      /\ \A i \in 1..a : I!Moved[i] \in 1..iFdPos
      /\ lost = 0 => \A i \in 1..a : I!Moved[i] = iOffset - a + i
  BY <1>1, MovedIs
<1>3. /\ iFdPos \in 0..FileLen /\ iOffset + lost = iFdPos /\ a <= iOffset /\ iP - iCurr = a
      /\ iOffset \in Nat /\ lost \in Nat
      /\ iOffset - a = I!Place /\ max \in Nat /\ iCurr \in Nat /\ a = max - iCurr /\ iP = max
  BY <1>1, InSizes DEF InInv, InTypes, InMirror, Scanned, I!Place, I!PosIn, I!Avail
<1>. HIDE DEF a
<1>4. /\ k \in Nat /\ k > 0 /\ iFdPos + k <= FileLen /\ a + k <= Size
      /\ I!ReadInto(I!Moved, a, k) \in [1..Size -> Nat]
      /\ \A i \in 1..a : I!ReadInto(I!Moved, a, k)[i] = I!Moved[i]
      /\ \A i \in (a + 1)..(a + k) : I!ReadInto(I!Moved, a, k)[i] = iFdPos + i - a
  BY <1>1, <1>2, <1>3, ReadGives
<1>5. InTypes'
  BY <1>1, <1>2, <1>3, <1>4, InSizes DEF InInv, InTypes
<1>6. InMirror'
  <2>1. ASSUME NEW i \in 1..(a + k)
        PROVE  iBuff'[i] \in 1..(iFdPos + k) /\ (lost = 0 => iBuff'[i] = (iOffset + k) - (a + k) + i)
    <3>1. CASE i \in 1..a
      <4>1. iBuff'[i] = I!Moved[i] /\ I!Moved[i] \in 1..iFdPos /\ (lost = 0 => I!Moved[i] = iOffset - a + i)
        BY <1>1, <1>2, <1>4, <3>1
      <4>2. (iOffset + k) - (a + k) + i = iOffset - a + i
        BY <1>2, <1>3, <1>4
      <4>. QED
        BY <1>3, <1>4, <4>1, <4>2
    <3>2. CASE i \in (a + 1)..(a + k)
      <4>1. iBuff'[i] = iFdPos + i - a
        BY <1>1, <1>4, <3>2
      <4>2. /\ iFdPos + i - a \in 1..(iFdPos + k)
            /\ lost = 0 => (iOffset + k) - (a + k) + i = iFdPos + i - a
        BY <1>2, <1>3, <1>4, <3>2
      <4>. QED
        BY <4>1, <4>2
    <3>3. i \in 1..a \/ i \in (a + 1)..(a + k)
      BY <1>2, <1>4
    <3>. QED
      BY <3>1, <3>2, <3>3
  <2>2. a + k <= iOffset + k /\ (iOffset + k) + lost = iFdPos + k
    BY <1>2, <1>3, <1>4
  <2>. QED
    BY <1>1, <2>1, <2>2 DEF InMirror
<1>7. Scanned'
  <2>1. ASSUME NEW i \in 1..a PROVE iBuff'[i] \notin NewLines
    <3>1. iCurr + i \in (iCurr + 1)..iP /\ iBuff'[i] = iBuff[iCurr + i]
      BY <1>1, <1>2, <1>3, <1>4
    <3>. QED
      BY <1>1, <3>1 DEF InInv, Scanned
  <2>2. iCurr' = 0 /\ iP' = a /\ max' = a + k /\ a \in Nat /\ iOp' = "scan" /\ 0 + 1 = 1
    BY <1>1, <1>2, <1>3
  <2>. QED
    BY <1>4, <2>1, <2>2 DEF Scanned
<1>8. I!ScanTellsLine' /\ I!EofAtEnd'
  BY <1>1, BusySaysNothing
<1>9. I!Place' = I!Place
  BY <1>1, <1>2, <1>3, <1>4 DEF I!Place, I!PosIn, I!Avail
<1>. QED
  BY <1>1, <1>5, <1>6, <1>7, <1>8, <1>9 DEF InInv

\* The invariant of the input channel, and what a step of an open one is to its reader.
LEMMA InputStep ==
  ASSUME InInv, [I!Next]_inputVars
  PROVE  InInv' /\ (iOpen' => I!StartsCall \/ I!Delivers \/ I!Seeks \/ UNCHANGED <<I!Place, got>>)
<1>. DEFINE Reads == iOpen' => I!StartsCall \/ I!Delivers \/ I!Seeks \/ UNCHANGED <<I!Place, got>>
<1>1. CASE I!InputChar \/ I!InputBinaryInt \/ I!ScanLine
  BY <1>1, BeginKeeps DEF I!InputChar, I!InputBinaryInt, I!ScanLine, I!StartsCall
<1>2. ASSUME NEW n \in 1..MaxWant, I!Input(n) \/ I!ReallyInput(n)
      PROVE  InInv' /\ Reads
  <2>1. n \in Nat /\ n > 0
    BY InSizes
  <2>. QED
    BY <1>2, <2>1, BeginKeeps DEF I!Input, I!ReallyInput, I!StartsCall
<1>3. CASE I!Close
  BY <1>3, InCloseKeeps DEF I!Close
<1>4. ASSUME NEW d \in InDests, I!SeekIn(d) PROVE InInv' /\ Reads
  BY <1>4, SeekInKeeps DEF I!Seeks
<1>5. CASE I!GetChar \/ I!GetBlock
  <2>1. iOpen' = iOpen
    BY <1>5 DEF I!GetChar, I!GetBlock
  <2>. QED
    BY <1>5, <2>1, GetCharKeeps, GetBlockKeeps
<1>6. ASSUME NEW k \in 1..Size, I!Refill(k) \/ I!GetBlockRead(k) PROVE InInv' /\ Reads
  BY <1>6, RefillKeeps, GetBlockReadKeeps
<1>7. CASE I!RefillEof \/ I!GetBlockEof \/ I!Finished \/ I!ScanChar \/ I!ScanFull \/ I!ScanEof \/ I!ReadFails
         \/ \E k \in 1..Size : I!ReadRaises(k)
  BY <1>7, RefillEofKeeps, GetBlockEofKeeps, FinishedKeeps, ScanCharKeeps, ScanFullKeeps, ScanEofKeeps,
     ReadFailsKeeps, ReadRaisesKeeps
<1>8. ASSUME NEW k \in 1..Size, I!ScanRead(k) PROVE InInv' /\ Reads
  BY <1>8, ScanReadKeeps
<1>9. CASE UNCHANGED inputVars
  <2>1. InTypes' /\ InMirror' /\ Scanned'
    BY <1>9 DEF inputVars, InInv, InTypes, InMirror, Scanned
  <2>2. I!PosIn' = I!PosIn /\ I!Avail' = I!Avail /\ I!Place' = I!Place /\ UNCHANGED got
    BY <1>9 DEF inputVars, I!Place, I!PosIn, I!Avail
  <2>3. \A m : I!Newlines(m)' = I!Newlines(m)
    BY <1>9 DEF inputVars, I!Newlines
  <2>4. I!ScanTellsLine' /\ I!EofAtEnd'
    BY <1>9, <2>2, <2>3 DEF inputVars, InInv, I!ScanTellsLine, I!EofAtEnd, I!Idle
  <2>. QED
    BY <2>1, <2>2, <2>4 DEF InInv
<1>. QED
  BY <1>1, <1>2, <1>3, <1>4, <1>5, <1>6, <1>7, <1>8, <1>9 DEF I!Next, I!Operation, I!Progress,
     I!Interrupted

\* The buffer of an input channel mirrors its file, and scans and ends are told as they are.
LEMMA InMirrorsFile == InInv => I!BufferMirrorsFile /\ I!ScanTellsLine /\ I!EofAtEnd
BY InSizes DEF InInv, InTypes, InMirror, I!BufferMirrorsFile

(* ---------------------------- Both kinds together ---------------------------- *)
LEMMA EachMoves == [ChannelsNext]_<<vars, inputVars>> => [Next]_vars /\ [I!Next]_inputVars
BY DEF ChannelsNext

\* Both kinds of channel, together, mirror the files of a program: what it outputs is held once,
\* by the file or by the buffer, and what a buffer has read is what the file has there, so that a
\* line or an end is told as it is (caml_flush_partial, caml_putblock, caml_seek_in, caml_refill,
\* caml_input_scan_line).
THEOREM ChannelsAlwaysMirror == ChannelsSpec => []ChannelsMirrorFiles
<1>. DEFINE Inv == OnceInv /\ InInv
<1>1. ChannelsInit => Inv
  BY OnceInit, InputInit DEF ChannelsInit
<1>2. Inv /\ [ChannelsNext]_<<vars, inputVars>> => Inv'
  BY EachMoves, OnceStep, InputStep
<1>3. Inv => ChannelsMirrorFiles
  BY OnceMeansOnce, InMirrorsFile DEF ChannelsMirrorFiles
<1>. QED
  BY <1>1, <1>2, <1>3, PTL DEF ChannelsSpec

\* An input channel implements a reader: it delivers the bytes of the file that follow its place,
\* in order, however they came into the buffer (caml_getch, caml_getblock, caml_seek_in).
LEMMA InputImplementsReader == ChannelsSpec => I!ImplementsReader
<1>1. ChannelsInit => InInv
  BY InputInit DEF ChannelsInit
<1>2. InInv /\ [ChannelsNext]_<<vars, inputVars>> => InInv'
  BY EachMoves, InputStep
<1>3. InInv /\ [ChannelsNext]_<<vars, inputVars>>
        => [iOpen' => I!StartsCall \/ I!Delivers \/ I!Seeks]_<<I!Place, got>>
  BY EachMoves, InputStep
<1>. QED
  BY <1>1, <1>2, <1>3, PTL DEF ChannelsSpec, I!ImplementsReader

\* To its program a channel is a file that is read and written in order: every step accepts or
\* delivers the bytes at its place, or seeks, and a closed one refuses output.
THEOREM StreamsStayInOrder == ChannelsSpec => StreamsAreInOrder
<1>1. ChannelsInit => Init
  BY DEF ChannelsInit
<1>2. ChannelsSpec => Spec
  BY <1>1, EachMoves, PTL DEF ChannelsSpec, Spec
<1>. QED
  BY <1>2, ChannelImplementsWriter, ClosedAlwaysRaises, InputImplementsReader DEF StreamsAreInOrder
=============================================================================
