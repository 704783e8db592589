------------------------------- MODULE Bytecode -------------------------------
(***************************************************************************)
(* What bytecode means: an abstract machine for each process, each at some *)
(* point of the same program.  A process may be a copy of another one.     *)
(***************************************************************************)
EXTENDS Integers, Sequences

\* The opcodes of instruct.h in an order of their own: one with no operand, with one, with two...
NOP == 0
CONSTINT == 1
BEQ == 2
BRANCH == 3
SWITCH == 4
CLOSUREREC == 5
PUSHTRAP == 6
POPTRAP == 7
RAISE == 8
STOP == 9

CONSTANTS Processes, Start
VARIABLES source, machines     \* the program; a machine, or Absent, of each process

Begin == [pc |-> 1, accu |-> 0, traps |-> <<>>, status |-> "runs"]
Absent == [pc |-> 0, accu |-> 0, traps |-> <<>>, status |-> "absent"]

\* One instruction, its operands read from the code.
Effect(code, op, m) ==
  LET arg(i) == code[m.pc + i]
      at(p) == [m EXCEPT !.pc = p]
  IN CASE op = NOP -> at(m.pc + 1)
       [] op = CONSTINT -> [at(m.pc + 2) EXCEPT !.accu = arg(1)]
       [] op = BEQ -> at(IF arg(1) = m.accu THEN m.pc + 2 + arg(2) ELSE m.pc + 3)
       [] op = BRANCH -> at(m.pc + 1 + arg(1))
       [] op = SWITCH -> at(m.pc + 2 + arg(2 + m.accu))
       [] op = CLOSUREREC -> at(m.pc + 3 + arg(1))
       [] op = PUSHTRAP -> [at(m.pc + 2) EXCEPT !.traps = <<m.pc + 1 + arg(1)>> \o @]
       [] op = POPTRAP -> [at(m.pc + 1) EXCEPT !.traps = Tail(@)]
       [] op = RAISE -> IF m.traps = <<>> THEN [m EXCEPT !.status = "uncaught"]
                        ELSE [at(Head(m.traps)) EXCEPT !.traps = Tail(@)]
       [] op = STOP -> [m EXCEPT !.status = "ended"]

Init == machines = [p \in Processes |-> IF p = Start THEN Begin ELSE Absent]
Step(p) == /\ machines[p].status = "runs"
           /\ machines' = [machines EXCEPT ![p] = Effect(source, source[@.pc], @)]
Copy(p, q) == machines[p].status = "runs" /\ machines' = [machines EXCEPT ![q] = machines[p]]
Die(p) == machines' = [machines EXCEPT ![p] = Absent]
Next == /\ \E p \in Processes : Step(p) \/ Die(p) \/ \E q \in Processes : Copy(p, q)
        /\ UNCHANGED source
Spec == Init /\ [][Next]_<<source, machines>>
================================================================================
