------------------------------- MODULE Interp -------------------------------
(***************************************************************************)
(* The abstract machine of byterun/interp.c with its stack (stacks.c),     *)
(* exceptions (fail.c) and calls from C back into Caml (callback.c).       *)
(* A code pointer is the sequence of instructions it points to.  The stack *)
(* is a sequence, sp[i] being stk[i + 1]; pointers into it are addresses:  *)
(* growing the stack moves it.                                             *)
(***************************************************************************)
EXTENDS Integers, Sequences, FiniteSets, SequencesExt, FiniteSetsExt

CONSTANTS Programs,      \* [code, max, outcome]: bytecode as the compiler emits it, caml_max_stack_size,
                         \* and what the source means
          Threshold,     \* Stack_threshold
          StackSize,     \* Stack_size, in words
          Signals        \* bound: signals delivered

InterpAssumption == {Threshold, StackSize, Signals} \subseteq Nat /\ Threshold < StackSize

VARIABLES program,
          pc, accu, env, extraArgs, stk,
          trapsp, high, size,    \* caml_trapsp, caml_stack_high, the size of the stack
          runs,                  \* the C frames of caml_interprete, and why each was called
          something,             \* caml_something_to_do
          signals,
          result                 \* of the outermost run
vars == <<program, pc, accu, env, extraArgs, stk, trapsp, high, size, runs, something, signals, result>>
registers == <<pc, accu, env, extraArgs>>
area == <<trapsp, high, size>>

\* A word: an integer, or the address of a block; a block of closures holds the code of each,
\* and an address in it is that of closure at.
Word(n, codes, fields) == [int |-> n, codes |-> codes, at |-> 1, fields |-> fields]
Val(n) == Word(n, <<>>, <<>>)
Block(fields) == Word(0, <<>>, fields)
Closure(code, fields) == Word(0, <<code>>, fields)
Ptr(code) == Closure(code, <<>>)
CodeOf(v) == v.codes[v.at]
Unit == Val(0)
Atom0 == Unit
Op(op) == [op |-> op]
Op1(op, n) == [op |-> op, n |-> n]
OpTo(op, code) == [op |-> op, to |-> code]
Run(why, offset, back) == [why |-> why, offset |-> offset, back |-> back]
Returned(v) == [kind |-> "value", of |-> v]
Exception(v) == [kind |-> "exception", of |-> v]
Running == [kind |-> "running"]
StackOverflow == Val(-1)

Sp == high - Len(stk)
Drop(s, n) == SubSeq(s, n + 1, Len(s))
Take(s, n) == SubSeq(s, 1, n)

Init == /\ program \in Programs
        /\ pc = program.code /\ accu = Unit /\ env = Atom0 /\ extraArgs = 0 /\ stk = <<>>
        /\ trapsp = 0 /\ high = 0 /\ size = StackSize
        /\ runs = <<Run("main", 0, <<>>)>>
        /\ something = FALSE /\ signals = 0 /\ result = Running

I == Head(pc)
At(op) == result = Running /\ pc # <<>> /\ I.op = op
Go(code) == pc' = code
Step == Go(Tail(pc))
Quiet == UNCHANGED <<program, runs, something, signals, result>>
Registers(c, a, e, x) == pc' = c /\ accu' = a /\ env' = e /\ extraArgs' = x

(* --------------------------- Stack and values --------------------------- *)
Acc == At("ACC") /\ Step /\ accu' = stk[I.n + 1] /\ UNCHANGED <<env, extraArgs, stk, area>> /\ Quiet
Push == At("PUSH") /\ Step /\ stk' = <<accu>> \o stk /\ UNCHANGED <<accu, env, extraArgs, area>> /\ Quiet
Pop == At("POP") /\ Step /\ stk' = Drop(stk, I.n) /\ UNCHANGED <<accu, env, extraArgs, area>> /\ Quiet
EnvAcc == /\ At("ENVACC") /\ Step /\ accu' = env.fields[I.n]
          /\ UNCHANGED <<env, extraArgs, stk, area>> /\ Quiet
ConstInt == At("CONSTINT") /\ Step /\ accu' = Val(I.n) /\ UNCHANGED <<env, extraArgs, stk, area>> /\ Quiet
OffsetInt == /\ At("OFFSETINT") /\ Step /\ accu' = Val(accu.int + I.n)
             /\ UNCHANGED <<env, extraArgs, stk, area>> /\ Quiet
BranchIfNot == /\ At("BRANCHIFNOT") /\ Go(IF accu = Val(0) THEN I.to ELSE Tail(pc))
               /\ UNCHANGED <<accu, env, extraArgs, stk, area>> /\ Quiet
MakeBlock == /\ At("MAKEBLOCK") /\ Step
             /\ accu' = Block(<<accu>> \o Take(stk, I.n - 1)) /\ stk' = Drop(stk, I.n - 1)
             /\ UNCHANGED <<env, extraArgs, area>> /\ Quiet
GetField == /\ At("GETFIELD") /\ Step /\ accu' = accu.fields[I.n + 1]
            /\ UNCHANGED <<env, extraArgs, stk, area>> /\ Quiet

(* ------------------------------ Functions ------------------------------- *)
\* check_stacks, then CHECK_SIGNALS: the instruction goes on at code, unless the stack must
\* grow and cannot, or a signal is to be processed.
\* The size doubles until there is room; caml_max_stack_size bounds what is doubled.
Grown(s) == LET doublings == {size * 2, size * 4, size * 8}
            IN Min({n \in doublings : n >= Len(s) + Threshold})
\* caml_realloc_stack: the frames of the handlers are linked by addresses; s is the stack
\* with its lowest word at address bottom, p a handler of the list.
Distance == 1000                      \* how far the new stack is from the old one
RECURSIVE ShiftLinks(_, _, _)
ShiftLinks(s, bottom, p) ==
  IF p >= high THEN s
  ELSE LET i == p - bottom + 2
       IN [ShiftLinks(s, bottom, s[i].int) EXCEPT ![i] = Val(@.int + Distance)]
MoveNothing(s) == s
MoveStack(s) == ShiftLinks(s, high - Len(s), trapsp)
EventFrame(c, a, e, x) == <<a, Unit, Unit, Ptr(c), e, Val(x)>>
CallbackCode(narg) == <<Op1("ACC", narg + 3), Op1("APPLY", narg), Op1("POP", 1), Op("STOP")>>
CallbackFrame(args, closure) == args \o <<Ptr(<<Op1("POP", 1), Op("STOP")>>), Unit, Val(0), closure>>
Handler == Closure(<<Op1("CONSTINT", 7), Op1("RETURN", 1)>>, <<>>)      \* a signal handler

\* process_signal: the registers go into a frame, the handler runs in a run of its own.
ProcessSignal(c, a, e, x, s) ==
  LET frame == CallbackFrame(<<Val(2)>>, Handler) \o EventFrame(c, a, e, x) \o s
  IN /\ something' = FALSE
     /\ stk' = frame
     /\ runs' = Append(runs, Run("event", Len(frame), <<>>))
     /\ Registers(CallbackCode(1), Unit, Atom0, 0)
     /\ UNCHANGED <<program, signals, result>>

FitsBarely(s) == size > Len(s)
Fits(s) == size - Len(s) >= Threshold
CheckStacks(c, a, e, x, s) ==
  IF Fits(s)
  THEN /\ UNCHANGED area
       /\ IF something THEN ProcessSignal(c, a, e, x, s)
          ELSE Registers(c, a, e, x) /\ stk' = s /\ Quiet
  ELSE IF Grown(s) \div 2 >= program.max
       THEN /\ Registers(<<Op("RAISE")>>, StackOverflow, e, x) /\ stk' = s
            /\ UNCHANGED area /\ Quiet
       ELSE LET t == MoveStack(s)
            IN /\ size' = Grown(s) /\ high' = high + Distance /\ trapsp' = trapsp + Distance
               /\ IF something THEN ProcessSignal(c, a, e, x, t)
                  ELSE Registers(c, a, e, x) /\ stk' = t /\ Quiet

PushRetaddr == /\ At("PUSH_RETADDR") /\ Step /\ stk' = <<Ptr(I.to), env, Val(extraArgs)>> \o stk
               /\ UNCHANGED <<accu, env, extraArgs, area>> /\ Quiet
ApplyStays == /\ At("APPLY") /\ CheckStacks(pc, accu, accu, I.n - 1, stk)
Apply == /\ At("APPLY") /\ CheckStacks(CodeOf(accu), accu, accu, I.n - 1, stk)
\* APPLY1, APPLY2, APPLY3 push the return frame under the arguments themselves.
ApplyN == /\ At("APPLYN")
          /\ CheckStacks(CodeOf(accu), accu, accu, I.n - 1,
                         Take(stk, I.n) \o <<Ptr(Tail(pc)), env, Val(extraArgs)>> \o Drop(stk, I.n))
AppTerm == /\ At("APPTERM")
           /\ CheckStacks(CodeOf(accu), accu, accu, extraArgs + I.n - 1,
                          Take(stk, I.n) \o Drop(stk, I.slots))
\* A function that returns with arguments left applies its result to them.
PopFrame(s, v) == Registers(CodeOf(s[1]), v, s[2], s[3].int) /\ stk' = Drop(s, 3)
Return ==
  /\ At("RETURN")
  /\ LET s == Drop(stk, I.n)
     IN IF extraArgs > 0 THEN Registers(CodeOf(accu), accu, accu, extraArgs - 1) /\ stk' = s
        ELSE PopFrame(s, accu)
  /\ UNCHANGED area /\ Quiet
\* GRAB: too few arguments are put in a closure that RESTARTs.
ClosureOverArgs(n) == Closure(<<Op("RESTART")>> \o pc, <<env>> \o Take(stk, n))
Grab ==
  /\ At("GRAB")
  /\ IF extraArgs >= I.n THEN Step /\ extraArgs' = extraArgs - I.n /\ UNCHANGED <<accu, env, stk>>
     ELSE PopFrame(Drop(stk, 1 + extraArgs), ClosureOverArgs(1 + extraArgs))
  /\ UNCHANGED area /\ Quiet
RestartedBackwards(args) == Reverse(args)
RestartedArgs(args) == args
Restart ==
  /\ At("RESTART") /\ Step
  /\ LET args == Tail(env.fields)
     IN stk' = RestartedArgs(args) \o stk /\ extraArgs' = extraArgs + Len(args)
  /\ env' = Head(env.fields)
  /\ UNCHANGED <<accu, area>> /\ Quiet
MakeClosure ==
  /\ At("CLOSURE") /\ Step
  /\ LET s == IF I.n > 0 THEN <<accu>> \o stk ELSE stk
     IN accu' = Closure(I.code, Take(s, I.n)) /\ stk' = Drop(s, I.n)
  /\ UNCHANGED <<env, extraArgs, area>> /\ Quiet
\* Functions that call each other share a block; each finds the others at an offset of its own.
ClosureRec ==
  /\ At("CLOSUREREC") /\ Step
  /\ LET s == IF I.n > 0 THEN <<accu>> \o stk ELSE stk
         block == Word(0, I.codes, Take(s, I.n))
     IN /\ accu' = block
        /\ stk' = [i \in DOMAIN I.codes |-> [block EXCEPT !.at = Len(I.codes) + 1 - i]] \o Drop(s, I.n)
  /\ UNCHANGED <<env, extraArgs, area>> /\ Quiet
OffsetClosure == /\ At("OFFSETCLOSURE") /\ Step /\ accu' = [env EXCEPT !.at = @ + I.n]
                 /\ UNCHANGED <<env, extraArgs, stk, area>> /\ Quiet

(* ------------------------------ Exceptions ------------------------------ *)
PushTrap == /\ At("PUSHTRAP") /\ Step
            /\ stk' = <<Ptr(I.to), Val(trapsp), env, Val(extraArgs)>> \o stk
            /\ trapsp' = Sp - 4
            /\ UNCHANGED <<accu, env, extraArgs, high, size>> /\ Quiet
PopTrap == /\ At("POPTRAP") /\ ~something /\ Step
           /\ trapsp' = stk[2].int /\ stk' = Drop(stk, 4)
           /\ UNCHANGED <<accu, env, extraArgs, high, size>> /\ Quiet
\* A pending signal is processed inside the handler it may raise to; POPTRAP starts again.
PopTrapSignal == /\ At("POPTRAP") /\ something
                 /\ ProcessSignal(pc, accu, env, extraArgs, stk) /\ UNCHANGED area

\* caml_callbackN_exn and caml_callback give an exception back to C, or on to the run below.
AfterException(offset) == Drop(stk, Len(stk) - offset)
ExceptionLeavesArgs(s, frame) == s
ExceptionDropsArgs(s, frame) == Drop(s, frame)
Back == Last(runs).back
\* The C function whose call of Caml ended returns to its own caller.
BackInC(s, v) == Registers(Back.pc, v, s[1], Back.extra) /\ stk' = Drop(Tail(s), Back.pops)

RaisedInRun == trapsp >= high - Last(runs).offset
Raise ==
  /\ At("RAISE") /\ ~RaisedInRun
  /\ LET s == Drop(stk, Len(stk) - (high - trapsp))
     IN /\ Registers(CodeOf(s[1]), accu, s[3], s[4].int) /\ trapsp' = s[2].int /\ stk' = Drop(s, 4)
  /\ UNCHANGED <<high, size>> /\ Quiet
RaiseOut ==
  /\ At("RAISE") /\ RaisedInRun
  /\ LET s == ExceptionDropsArgs(AfterException(Last(runs).offset), 5)
     IN CASE Last(runs).why = "main" ->
               result' = Exception(accu) /\ stk' = AfterException(0) /\ UNCHANGED <<registers, runs>>
          [] Last(runs).why = "caml_callback_exn" ->
               runs' = Front(runs) /\ BackInC(s, Val(9)) /\ UNCHANGED result
          [] OTHER ->           \* caml_callback, caml_process_event: caml_raise
               runs' = Front(runs) /\ stk' = s /\ UNCHANGED <<registers, result>>
  /\ UNCHANGED <<program, area, something, signals>>

(* ------------------------- C calls and callbacks ------------------------ *)
\* C_CALL2 of a primitive that applies its first argument, a function, to the second.
CCall == /\ At("C_CALL2")
         /\ LET s == CallbackFrame(<<stk[1]>>, accu) \o <<env>> \o stk
            IN /\ stk' = s
               /\ runs' = Append(runs, Run(I.prim, Len(s), [pc |-> Tail(pc), extra |-> extraArgs, pops |-> 1]))
         /\ Registers(CallbackCode(1), Unit, Atom0, 0)
         /\ UNCHANGED <<program, area, something, signals, result>>
Stop == /\ At("STOP")
        /\ CASE Last(runs).why = "main" -> result' = Returned(accu) /\ UNCHANGED <<registers, stk, runs>>
             [] Last(runs).why = "event" ->
                  /\ runs' = Front(runs) /\ UNCHANGED result
                  /\ Registers(CodeOf(stk[4]), stk[1], stk[5], stk[6].int) /\ stk' = Drop(stk, 6)
             [] OTHER -> runs' = Front(runs) /\ BackInC(stk, accu) /\ UNCHANGED result
        /\ UNCHANGED <<program, area, something, signals>>

\* Any time a signal may be recorded; several are recorded as one.
Signal == /\ result = Running /\ ~something /\ signals < Signals
          /\ something' = TRUE /\ signals' = signals + 1
          /\ UNCHANGED <<program, registers, stk, area, runs, result>>

Execute == /\ UNCHANGED signals
           /\ \/ Acc \/ Push \/ Pop \/ EnvAcc \/ ConstInt
              \/ OffsetInt \/ BranchIfNot \/ MakeBlock \/ GetField
              \/ PushRetaddr \/ Apply \/ ApplyN \/ AppTerm \/ Return \/ Grab \/ Restart \/ MakeClosure
              \/ ClosureRec \/ OffsetClosure
              \/ PushTrap \/ PopTrap \/ PopTrapSignal \/ Raise \/ RaiseOut \/ CCall \/ Stop
Next == Execute \/ Signal
Spec == Init /\ [][Next]_vars /\ WF_vars(Execute)

(* ------------------------------ Properties ------------------------------ *)
\* The handlers: caml_trapsp, and the frames its links lead to, newest first.
RECURSIVE Traps(_)
Traps(p) == IF p >= high \/ p < Sp THEN <<p>>
            ELSE <<p>> \o Traps(stk[p - Sp + 2].int)

\* Every handler is a frame of the stack, in order, and the chain ends at the bottom:
\* also after the stack has moved, and across the runs of C callbacks.
TrapsAreFrames == LET t == Traps(trapsp)
                  IN /\ \A i \in 1..(Len(t) - 1) : t[i] < t[i + 1]
                     /\ Last(t) = high

\* What is pushed between two checks fits above the threshold.
StackFits == Len(stk) <= size

\* A program gives the outcome its source has, whatever signals come in between, unless the
\* stack is at its limit.
OutcomeIsRight == result # Running => result = program.outcome \/ 2 * size > program.max
\* At the end every frame is gone, the handlers and the runs of callbacks too.
LeavesNothing == result # Running => stk = <<>> /\ trapsp = high /\ Len(runs) = 1
\* Every program here ends.
Ends == <>(result # Running)
=============================================================================
