------------------------------- MODULE Debugger -------------------------------
(***************************************************************************)
(* Programs under the debugger: bytecode is threaded when it is loaded     *)
(* (byterun/fix_code.c) and patched while it runs (debugger.c, interp.c),  *)
(* a stopped process takes commands, and a checkpoint is a process forked  *)
(* from another.                                                           *)
(***************************************************************************)
EXTENDS Integers, Sequences, FiniteSets

CONSTANTS Programs,      \* sequences of words
          Processes, Start,
          MaxGo, MaxLevel, MaxPatches, MaxProcesses   \* bounds: events of a GO; trap barriers;
                                                      \* patches of a process; processes at a time

DebuggerAssumption == Start \in Processes /\ {MaxGo, MaxLevel, MaxPatches, MaxProcesses} \subseteq Nat

VARIABLES source,        \* the program, from the file
          saved,         \* caml_saved_code
          proc           \* processes: code, machine and what their debugger asked

B == INSTANCE Bytecode WITH machines <- [p \in Processes |-> proc[p].machine]
vars == <<source, saved, proc>>

EVENT == 10
BREAK == 11
Radix == 16                                          \* the halves of the word after SWITCH
Threaded(op) == 100 + op                             \* caml_instr_table
Byte(word) == word % 256

\* mutant: an instruction is not in the table
OperandsFewer(code, p) ==
  CASE code[p] \in {B!CONSTINT, B!BRANCH} -> 1
    [] code[p] = B!BEQ -> 2
    [] code[p] = B!SWITCH -> 1 + (code[p + 1] % Radix) + (code[p + 1] \div Radix)
    [] code[p] = B!CLOSUREREC -> 2 + code[p + 1]
    [] OTHER -> 0
\* caml_thread_code: which words are opcodes, by a walk over all.
Operands(code, p) ==
  CASE code[p] \in {B!CONSTINT, B!BRANCH, B!PUSHTRAP} -> 1
    [] code[p] = B!BEQ -> 2
    [] code[p] = B!SWITCH -> 1 + (code[p + 1] % Radix) + (code[p + 1] \div Radix)
    [] code[p] = B!CLOSUREREC -> 2 + code[p + 1]
    [] OTHER -> 0
Opcodes(code) ==
  LET from[p \in 1..(Len(code) + 1)] == IF p > Len(code) THEN {} ELSE {p} \cup from[p + 1 + Operands(code, p)]
  IN from[1]
ThreadCode(code) == LET ops == Opcodes(code) IN [p \in DOMAIN code |-> IF p \in ops THEN Threaded(code[p]) ELSE code[p]]

\* A process: its mode ("absent", "runs", "stopped" or "dead"), the event it last reported, the
\* count down to the next, its barrier, how it goes on; history: its patches.
NoProcess == [machine |-> B!Absent, code |-> <<>>, mode |-> "absent", event |-> "none", count |-> 0,
              barrier |-> 0, goes |-> "fetch", patches |-> <<>>]
Init == /\ source \in Programs
        /\ saved = [p \in DOMAIN source |-> Byte(source[p])]
        /\ proc = [p \in Processes |->
             IF p = Start THEN [NoProcess EXCEPT !.machine = B!Begin, !.code = ThreadCode(source), !.mode = "stopped",
                                                 !.event = "start", !.patches = [i \in DOMAIN source |-> "none"]]
             ELSE NoProcess]

Set(p, new) == proc' = [proc EXCEPT ![p] = new] /\ UNCHANGED <<source, saved>>
Stopped(p) == proc[p].mode = "stopped"

(* ------------------------------- Commands ------------------------------- *)
Starts == Opcodes(source)
\* caml_set_instruction.
Patched(p, i, op, kind) == [proc[p] EXCEPT !.code[i] = Threaded(op), !.patches[i] = kind]
Patches(p) == {i \in DOMAIN source : proc[p].patches[i] # "none"}
SetEvent(p, i) == Stopped(p) /\ Cardinality(Patches(p) \cup {i}) <= MaxPatches /\ Set(p, Patched(p, i, EVENT, "event"))
SetBreakpoint(p, i) == Stopped(p) /\ Cardinality(Patches(p) \cup {i}) <= MaxPatches /\ Set(p, Patched(p, i, BREAK, "break"))
ResetInstrRaw(p, i) == Stopped(p) /\ Set(p, [proc[p] EXCEPT !.code[i] = saved[i], !.patches[i] = "none"])   \* mutant: not threaded
ResetInstr(p, i) == Stopped(p) /\ Set(p, Patched(p, i, saved[i], "none"))
SetTrapBarrier(p, level) == Stopped(p) /\ Set(p, [proc[p] EXCEPT !.barrier = level])
\* A stop for the end of the program is its last.
AtEnd(p) == proc[p].event \in {"exited", "uncaught"}
Go(p, n) == Stopped(p) /\ Set(p, [proc[p] EXCEPT !.mode = IF AtEnd(p) THEN "dead" ELSE "runs", !.count = n])
Checkpoint(p) == /\ Stopped(p) /\ ~AtEnd(p)
                 /\ Cardinality({q \in Processes : proc[q].mode # "absent"}) < MaxProcesses
                 /\ \E child \in Processes : proc[child].mode = "absent" /\ Set(child, proc[p])
CheckpointFails(p) == Stopped(p) /\ UNCHANGED vars
Kill(p) == Stopped(p) /\ Set(p, NoProcess)

(* ------------------------------ Execution ------------------------------- *)
Stop(p, event, goes) == Set(p, [proc[p] EXCEPT !.mode = "stopped", !.event = event, !.goes = goes])
\* The debugger hears of a program that ends.
Ended(new) == CASE new.status = "ended" -> "exited" [] new.status = "uncaught" -> "uncaught" [] OTHER -> "none"
Do(p, op, count) ==
  LET new == B!Effect(proc[p].code, op, proc[p].machine)
  IN Set(p, [proc[p] EXCEPT !.machine = new, !.goes = "fetch", !.count = count, !.event = Ended(new),
                            !.mode = IF new.status = "runs" THEN "runs" ELSE "stopped"])
\* RAISE, when the trap it would take is not before the barrier, stops first.
BarrierStopsLate(m, barrier) == Len(m.traps) < barrier   \* mutant: past the barrier
BarrierStops(m, barrier) == Len(m.traps) <= barrier
Dispatch(p, op, count) ==
  IF op = B!RAISE /\ BarrierStops(proc[p].machine, proc[p].barrier)
  THEN Set(p, [proc[p] EXCEPT !.mode = "stopped", !.event = "trap", !.goes = "unwind", !.count = count])
  ELSE Do(p, op, count)
Instruction(p) == LET word == proc[p].code[proc[p].machine.pc] IN IF word >= 100 THEN word - 100 ELSE word
\* Restart_curr_instr.
Original(p) == saved[proc[p].machine.pc]

Runs(p, goes) == proc[p].mode = "runs" /\ proc[p].goes = goes
Fetch(p) == Runs(p, "fetch") /\ Instruction(p) \notin {EVENT, BREAK} /\ Dispatch(p, Instruction(p), proc[p].count)
Event(p) == /\ Runs(p, "fetch") /\ Instruction(p) = EVENT
            /\ IF proc[p].count = 1
               THEN Set(p, [proc[p] EXCEPT !.mode = "stopped", !.event = "event", !.goes = "restart", !.count = 0])
               ELSE Dispatch(p, Original(p), proc[p].count - 1)
Break(p) == Runs(p, "fetch") /\ Instruction(p) = BREAK /\ Stop(p, "break", "restart")
Restart(p) == Runs(p, "restart") /\ Dispatch(p, Original(p), proc[p].count)
Unwind(p) == Runs(p, "unwind") /\ Do(p, B!RAISE, proc[p].count)

Next == \E p \in Processes :
  \/ \E i \in Starts : SetEvent(p, i) \/ SetBreakpoint(p, i) \/ ResetInstr(p, i)
  \/ \E level \in 0..MaxLevel : SetTrapBarrier(p, level)
  \/ \E n \in 1..MaxGo : Go(p, n)
  \/ Checkpoint(p) \/ CheckpointFails(p) \/ Kill(p)
  \/ Fetch(p) \/ Event(p) \/ Break(p) \/ Restart(p) \/ Unwind(p)
Spec == Init /\ [][Next]_vars

(* ------------------------------ Properties ------------------------------ *)
\* Events, breakpoints and the barrier, set and reset at any stop, never change what a program
\* does: every process takes the steps that the program in the file takes.
IsTheProgram == B!Spec

\* The code of a process is the program's with the patches of its debugger, and no other word
\* is touched: not by threading, by a reset, or by the commands to another process.
CodeIsTheProgram ==
  \A p \in Processes : proc[p].mode # "absent" =>
    \A i \in DOMAIN source :
      proc[p].code[i] = CASE proc[p].patches[i] = "event" -> Threaded(EVENT)
                          [] proc[p].patches[i] = "break" -> Threaded(BREAK)
                          [] OTHER -> IF i \in Starts THEN Threaded(source[i]) ELSE source[i]

\* No process passes a breakpoint, the last of the events it was to run, or the barrier, but after
\* it has reported it.
Executes(p) == proc'[p].machine # proc[p].machine /\ proc'[p].mode \in {"runs", "stopped"} /\ proc[p].mode = "runs"
StopsWhereAsked ==
  [][\A p \in Processes : Executes(p) =>
       LET m == proc[p].machine
       IN /\ proc[p].patches[m.pc] = "break" /\ proc[p].goes = "fetch" => FALSE
          /\ proc[p].patches[m.pc] = "event" /\ proc[p].count = 1 => proc[p].goes # "fetch"
          /\ source[m.pc] = B!RAISE /\ Len(m.traps) <= proc[p].barrier => proc[p].goes = "unwind"]_vars
================================================================================
