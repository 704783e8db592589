------------------------------ MODULE LocalRoots ------------------------------
(***************************************************************************)
(* The C stack of the run-time system: C functions that declare their      *)
(* variables to the collector (the macros of byterun/memory.h), the        *)
(* interpreters they call back into (callback.c, interp.c), and exceptions *)
(* (fail.c), which jump over their frames with longjmp.  A frame is known  *)
(* by its depth, a variable by its frame and its place there.              *)
(***************************************************************************)
EXTENDS Integers, Sequences, SequencesExt

CONSTANTS Sizes,         \* of declared arrays of values; numbers of variables declared together
          Debugging,     \* caml_debugger_in_use
          MaxDepth, MaxBlocks, MaxTraps   \* bounds: frames, blocks of caml_local_roots, traps of an interpreter

LocalRootsAssumption == Sizes \subseteq Nat \ {0} /\ {MaxDepth, MaxBlocks, MaxTraps} \subseteq Nat

VARIABLES stack,         \* frames, the innermost last
          roots,         \* caml_local_roots: blocks, the first first
          raiseBuf,      \* caml_external_raise: a depth, or 0
          traps,         \* how many trap frames caml_trapsp leads to
          depth,         \* caml_callback_depth
          thrown,        \* caml_callback_exn has returned an exception to the frame on top
          handlers,      \* history: the frames that handle exceptions, as the program set them up
          exiting        \* caml_fatal_uncaught_exception runs at_exit
vars == <<stack, roots, raiseBuf, traps, depth, thrown, handlers, exiting>>
machine == <<raiseBuf, traps, depth, thrown, handlers, exiting>>

\* A frame: its kind, what it saved of roots, raiseBuf and traps, the variables it declared, a
\* set for each block, with the chain before it, and whether it is in caml_callback_exn.
Frame(kind) == [kind |-> kind, roots |-> IF kind \in {"param", "interp"} THEN roots ELSE <<>>,
                raiseBuf |-> raiseBuf, traps |-> traps,
                declared |-> <<>>, before |-> <<>>, catches |-> FALSE]
Top == Last(stack)
Depth == Len(stack)
Kind(k) == stack # <<>> /\ Top.kind = k
InC == ~thrown /\ (Kind("param") \/ Kind("begin"))
InCaml == ~thrown /\ Kind("interp")
OnTop(frame) == stack' = Front(stack) \o <<frame>>
Push(frame) == Depth < MaxDepth /\ stack' = Append(stack, frame)

Init == /\ stack = <<>> /\ roots = <<>> /\ raiseBuf = 0 /\ traps = 0 /\ depth = 0
        /\ thrown = FALSE /\ handlers = <<>> /\ exiting = FALSE

(* ----------------------------- Declarations ----------------------------- *)
\* The n-th block of frame d: ntables variables of nitems values each.
Scalars(d, n, k) == [tables |-> {<<d, n, i>> : i \in 1..k}, nitems |-> 1]
Array(d, n, size) == [tables |-> {<<d, n, 1>>}, nitems |-> size]
\* What the collector looks at.
Scanned == UNION {{Append(t, j) : t \in block.tables, j \in 1..block.nitems} : block \in ToSet(roots)}

Declare(block, items) ==
  /\ InC /\ Len(roots) < MaxBlocks
  /\ roots' = <<block>> \o roots
  /\ OnTop([Top EXCEPT !.declared = <<items>> \o @, !.before = <<roots>> \o @])
  /\ UNCHANGED machine
\* CAMLxparam1 to 5, CAMLlocal1 to 5, Begin_roots1 to 5; CAMLxparamN, CAMLlocalN, Begin_roots_block.
DeclareScalars == \E k \in Sizes : LET n == Len(Top.declared) + 1
                                  IN Declare(Scalars(Depth, n, k), {<<Depth, n, i, 1>> : i \in 1..k})
DeclareArray == \E size \in Sizes : LET n == Len(Top.declared) + 1
                                     IN Declare(Array(Depth, n, size), {<<Depth, n, 1, j>> : j \in 1..size})
EndRoots == /\ InC /\ Kind("begin") /\ Top.declared # <<>>
            /\ roots' = Head(Top.before)
            /\ OnTop([Top EXCEPT !.declared = Tail(@), !.before = Tail(@)])
            /\ UNCHANGED machine

(* -------------------------------- Calls --------------------------------- *)
\* A function that starts with CAMLparam0, or one that has Begin_roots; called by the host
\* program, by another, as a primitive, or by the debugger (caml_output_val).
Styles == {"param", "begin"}
CallC == /\ stack = <<>> \/ InC \/ InCaml \/ (Kind("debugger") /\ ~thrown)
         /\ \E style \in Styles : Push(Frame(style))
         /\ UNCHANGED roots /\ UNCHANGED machine
\* CAMLreturn drops all a function declared; the other kind has closed its blocks.
ReturnRoots(frame) == IF frame.kind = "param" THEN frame.roots ELSE roots
Return == /\ InC /\ (Kind("begin") => Top.declared = <<>>)
          /\ roots' = ReturnRoots(Top)
          /\ stack' = Front(stack)
          /\ UNCHANGED machine

\* caml_interprete, called by caml_main, caml_callback or caml_callback_exn.
Interprete(catches) ==
  /\ Depth < MaxDepth
  /\ stack' = (IF stack = <<>> THEN <<>> ELSE Front(stack) \o <<[Top EXCEPT !.catches = catches]>>) \o <<Frame("interp")>>
  /\ raiseBuf' = Depth + 1 /\ depth' = depth + 1
  /\ handlers' = IF catches THEN Append(handlers, Depth) ELSE handlers
  /\ UNCHANGED <<roots, traps, thrown>>
Callback == /\ stack = <<>> \/ InC
            /\ \E catches \in BOOLEAN : (catches => stack # <<>>) /\ Interprete(catches)
            /\ UNCHANGED exiting
AtExit == Kind("exit") /\ ~exiting /\ exiting' = TRUE /\ Interprete(TRUE)
\* caml_interprete returns to its caller.
LeaveBuffer(frame) == UNCHANGED raiseBuf /\ depth' = depth - 1   \* mutant: the buffer stays
Leave(frame) == raiseBuf' = frame.raiseBuf /\ depth' = depth - 1
Stop == /\ InCaml /\ traps = Top.traps
        /\ Leave(Top)
        /\ LET callers == Front(stack)
           IN IF callers # <<>> /\ Last(callers).catches
              THEN stack' = Front(callers) \o <<[Last(callers) EXCEPT !.catches = FALSE]>> /\ handlers' = Front(handlers)
              ELSE stack' = callers /\ UNCHANGED handlers
        /\ UNCHANGED <<roots, traps, thrown, exiting>>

\* safe_output_value, of a debugger that stopped the interpreter.
Debugger == /\ InCaml /\ Debugging /\ Len(roots) <= MaxBlocks /\ Push(Frame("debugger"))
            /\ raiseBuf' = Depth + 1 /\ handlers' = Append(handlers, Depth + 1)
            /\ UNCHANGED <<roots, traps, depth, thrown, exiting>>
DebuggerGoesOn == /\ Kind("debugger") /\ ~thrown
                  /\ stack' = Front(stack) /\ raiseBuf' = Top.raiseBuf /\ handlers' = Front(handlers)
                  /\ UNCHANGED <<roots, traps, depth, thrown, exiting>>

(* ------------------------------ Exceptions ------------------------------ *)
PushTrap == /\ InCaml /\ traps - Top.traps < MaxTraps
            /\ traps' = traps + 1 /\ handlers' = Append(handlers, Depth)
            /\ UNCHANGED <<stack, roots, raiseBuf, depth, thrown, exiting>>
PopTrap == /\ InCaml /\ traps > Top.traps
           /\ traps' = traps - 1 /\ handlers' = Front(handlers)
           /\ UNCHANGED <<stack, roots, raiseBuf, depth, thrown, exiting>>

\* caml_fatal_uncaught_exception, over the frames there are.
Fatal(frames, declared) == frames \o <<[Frame("exit") EXCEPT !.declared = declared]>>
\* raise_exception: the trap is of this interpreter, or else it returns the exception.
HandledAny(frame) == traps > 0                             \* mutant: a trap of any interpreter
Handled(frame) == traps > frame.traps
Dispatch(frames) ==
  IF Handled(Last(frames))
  THEN traps' = traps - 1 /\ stack' = frames /\ thrown' = FALSE /\ UNCHANGED <<raiseBuf, depth>>
  ELSE /\ Leave(Last(frames)) /\ UNCHANGED traps
       /\ LET callers == Front(frames)
          IN stack' = (IF callers = <<>> THEN Fatal(callers, <<>>) ELSE callers) /\ thrown' = (callers # <<>>)
\* By the program's meaning the newest handler takes an exception.
Taken == handlers' = IF handlers = <<>> THEN <<>> ELSE Front(handlers)
RaiseInCaml == InCaml /\ Dispatch(stack) /\ Taken /\ UNCHANGED <<roots, exiting>>

\* caml_raise, with the chain as it is now: a jump to the frame of the buffer.
RestoredNot(frame, now) == now                             \* mutant: nothing restored
Restored(frame, now) == IF frame.kind = "interp" THEN frame.roots ELSE now
Jump(now, declared) ==
  IF raiseBuf = 0
  THEN stack' = Fatal(stack, declared) /\ roots' = now /\ thrown' = FALSE /\ UNCHANGED <<raiseBuf, traps, depth>>
  ELSE LET frames == SubSeq(stack, 1, raiseBuf)
           target == Last(frames)
       IN /\ roots' = Restored(target, now)
          /\ IF target.kind = "interp" THEN Dispatch(frames)
             ELSE stack' = Front(frames) /\ raiseBuf' = target.raiseBuf /\ thrown' = FALSE /\ UNCHANGED <<traps, depth>>
\* caml_failwith and the others declare what they make the exception of.
RaiseInC == /\ InC /\ Jump(<<Scalars(Depth + 1, 1, 1)>> \o roots, <<{<<Depth + 1, 1, 1, 1>>}>>)
            /\ Taken /\ UNCHANGED exiting
\* caml_callback raises the exception again; caml_callback_exn has handled it.
Again == thrown /\ ~Top.catches /\ Jump(roots, <<>>) /\ UNCHANGED <<handlers, exiting>>
Caught == thrown /\ Top.catches /\ thrown' = FALSE /\ OnTop([Top EXCEPT !.catches = FALSE])
          /\ UNCHANGED <<roots, raiseBuf, traps, depth, handlers, exiting>>

Next == \/ DeclareScalars \/ DeclareArray \/ EndRoots \/ CallC \/ Return \/ Callback \/ AtExit \/ Stop
        \/ Debugger \/ DebuggerGoesOn \/ PushTrap \/ PopTrap \/ RaiseInCaml \/ RaiseInC \/ Again \/ Caught
Spec == Init /\ [][Next]_vars

(* ------------------------------ Properties ------------------------------ *)
\* At every point the collector looks at the variables that the active functions have declared,
\* all of them, and at no other place on the C stack.
RootsAreTheDeclared == Scanned = UNION {UNION ToSet(frame.declared) : frame \in ToSet(stack)}

\* caml_raise jumps into a function that is active, the newest that has set a buffer.
BufferIsActive ==
  LET buffers == {d \in DOMAIN stack : stack[d].kind \in {"interp", "debugger"}}
  IN raiseBuf = (IF buffers = {} THEN 0 ELSE CHOOSE d \in buffers : \A e \in buffers : e <= d)

\* An exception goes on in the newest handler of the program, of whatever kind, and leaves the
\* others as they were.
HandlersOf(d) ==
  LET inner == {e \in DOMAIN stack : e > d /\ stack[e].kind = "interp"}
      until == IF inner = {} THEN traps ELSE stack[CHOOSE e \in inner : \A f \in inner : e <= f].traps
  IN CASE stack[d].kind = "interp" -> [i \in 1..(until - stack[d].traps) |-> d]
       [] stack[d].kind = "debugger" \/ stack[d].catches -> <<d>>
       [] OTHER -> <<>>
NearestHandlerTakes == ~thrown => handlers = FlattenSeq([d \in DOMAIN stack |-> HandlersOf(d)])
================================================================================
