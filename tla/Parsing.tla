------------------------------- MODULE Parsing -------------------------------
(***************************************************************************)
(* byterun/parsing.c with stdlib/parsing.ml: the automaton of the parsers  *)
(* that ocamlyacc makes.  The engine returns to the ML code for a token, a *)
(* larger stack, a semantic action or an error, and goes on where it was.  *)
(* The packed tables are functions; they come from outside (ocamlyacc).    *)
(* The value of a symbol is the sequence of the tokens it stands for.      *)
(***************************************************************************)
EXTENDS Integers, Sequences, FiniteSets, SequencesExt

CONSTANTS Inputs,                        \* sequences of tokens; "eof" follows
          Rules,                         \* rule n: [lhs, len]; EntryRule leaves the parser
          EntryRule,
          DefRed,                        \* state -> rule reduced whatever follows, 0 for none
          ShiftTo, ReduceBy,             \* state -> token -> state, rule; 0 for none
          GoTo,                          \* state -> left-hand side -> state
          InitialSize,
          RaisingRules                   \* rules whose action may raise Parse_error

ParsingAssumption == InitialSize \in Nat \ {0} /\ RaisingRules \subseteq DOMAIN Rules

VARIABLES input, pos,                    \* tokens read so far
          pc, stack, size, sp, state, errflag, curr, lval, symb,
          asp, rule,
          errors, shifted,               \* calls of the error function; tokens shifted since the last
          raised, astray                 \* an action raised Parse_error; and no state, or a stale one, was dropped
reading == <<input, pos>>
ghosts == <<errors, shifted, raised, astray>>
vars == <<reading, pc, stack, size, sp, state, errflag, curr, lval, symb, asp, rule, ghosts>>

Base == 1                                \* stackbase: env.sp + 1
TokenAt(i) == IF i <= Len(input) THEN input[i] ELSE "eof"
StartOf(i) == 3 * i                      \* two characters, and one between tokens
EndOf(i) == 3 * i + 2
Blank == [s |-> 0, v |-> <<>>, b |-> 0, e |-> 0]

Init ==
  /\ input \in Inputs /\ pos = 0
  /\ stack = [i \in 0..InitialSize - 1 |-> Blank] /\ size = InitialSize /\ sp = 0
  /\ pc = "loop" /\ state = 0 /\ errflag = 0 /\ curr = "entry"
  /\ lval = <<>> /\ symb = [b |-> 0, e |-> EndOf(0)] /\ asp = 0 /\ rule = 0
  /\ errors = 0 /\ shifted = 0 /\ raised = FALSE /\ astray = FALSE

(* ------------------------------ The engine ------------------------------ *)
ShiftAtLate(p, s) == /\ pc' = IF p <= size THEN "push" ELSE "grow1"
                     /\ sp' = p /\ state' = s
\* A shift to s at place p; what is shifted is stored once the stacks are large enough.
ShiftAt(p, s) == /\ pc' = IF p < size THEN "push" ELSE "grow1"
                 /\ sp' = p /\ state' = s
CountedAway(flag) == 0
Counted(flag) == IF flag > 0 THEN flag - 1 ELSE 0
Push == /\ pc = "push" /\ pc' = "loop"
        /\ stack' = [stack EXCEPT ![sp] = [s |-> state, v |-> lval, b |-> symb.b, e |-> symb.e]]
        /\ UNCHANGED <<reading, size, sp, state, errflag, curr, lval, symb, asp, rule, ghosts>>

UncoveredHigh(n) == stack[sp - Rules[n].len + 1].s
\* The state is looked up under the symbols that the rule takes off.
Uncovered(n) == stack[sp - Rules[n].len].s
Reduce(n) ==
  LET top == sp - Rules[n].len + 1
  IN /\ pc' = IF top < size THEN "action" ELSE "grow2"
     /\ asp' = sp /\ rule' = n /\ sp' = top
     /\ state' = GoTo[Uncovered(n)][Rules[n].lhs]
     /\ UNCHANGED <<reading, stack, size, errflag, curr, lval, symb, ghosts>>
ReduceByDefault == pc = "loop" /\ DefRed[state] # 0 /\ Reduce(DefRed[state])

AskToken == /\ pc = "loop" /\ DefRed[state] = 0 /\ curr = "none" /\ pc' = "read"
            /\ UNCHANGED <<reading, stack, size, sp, state, errflag, curr, lval, symb, asp, rule, ghosts>>
Deciding == pc = "loop" /\ DefRed[state] = 0 /\ curr # "none"
TargetUnchecked(s, t) == LET ts == {x \in DOMAIN ShiftTo[s] : ShiftTo[s][x] # 0}
                         IN IF ts = {} THEN 0 ELSE ShiftTo[s][CHOOSE x \in ts : t \in ts => x = t]
Target(s, t) == ShiftTo[s][t]
Shift == /\ Deciding /\ Target(state, curr) # 0
         /\ ShiftAt(sp + 1, Target(state, curr))
         /\ curr' = "none" /\ errflag' = Counted(errflag) /\ shifted' = shifted + 1
         /\ UNCHANGED <<reading, stack, size, lval, symb, asp, rule, errors, raised, astray>>
ReduceOnToken == /\ Deciding /\ Target(state, curr) = 0 /\ ReduceBy[state][curr] # 0
                 /\ Reduce(ReduceBy[state][curr])
Stuck == Deciding /\ Target(state, curr) = 0 /\ ReduceBy[state][curr] = 0
Reported == /\ Stuck /\ errflag = 0 /\ pc' = "error"
            /\ UNCHANGED <<reading, stack, size, sp, state, errflag, curr, lval, symb, asp, rule, ghosts>>
NotReported == /\ Stuck /\ errflag > 0 /\ pc' = "recover"
               /\ UNCHANGED <<reading, stack, size, sp, state, errflag, curr, lval, symb, asp, rule, ghosts>>

\* recover: states are dropped until one shifts the error token; a second error before three
\* tokens drops the token instead.
Recovering == {p \in 0..sp : (p >= Base \/ p = sp) /\ ShiftTo[stack[p].s]["error"] # 0}
DropStates == /\ pc = "recover" /\ errflag < 3 /\ Recovering # {}
              /\ LET p == CHOOSE q \in Recovering : \A r \in Recovering : r <= q
                 IN ShiftAt(p + 1, ShiftTo[stack[p].s]["error"])
              /\ errflag' = 3
              /\ UNCHANGED <<reading, stack, size, curr, lval, symb, asp, rule, ghosts>>
GiveUp == /\ pc = "recover"
          /\ IF errflag < 3 THEN Recovering = {} ELSE curr = "eof"
          /\ pc' = "raised"
          /\ UNCHANGED <<reading, stack, size, sp, state, errflag, curr, lval, symb, asp, rule, ghosts>>
AfterKept == curr
AfterDropped == "none"
DropToken == /\ pc = "recover" /\ errflag = 3 /\ curr # "eof"
             /\ pc' = "loop" /\ curr' = AfterDropped
             /\ UNCHANGED <<reading, stack, size, sp, state, errflag, lval, symb, asp, rule, ghosts>>

(* ------------------------------ The ML code ----------------------------- *)
ReadToken == /\ pc = "read" /\ pc' = "loop"
             /\ pos' = pos + 1 /\ curr' = TokenAt(pos + 1) /\ lval' = <<pos + 1>>
             /\ symb' = [b |-> StartOf(pos + 1), e |-> EndOf(pos + 1)]
             /\ UNCHANGED <<input, stack, size, sp, state, errflag, asp, rule, ghosts>>
ErrorFunction == /\ pc = "error" /\ pc' = "recover" /\ errors' = errors + 1 /\ shifted' = 0
                 /\ UNCHANGED <<reading, stack, size, sp, state, errflag, curr, lval, symb, asp, rule, raised, astray>>
GrownShort == [i \in 0..2 * size - 1 |-> IF i < size - 1 THEN stack[i] ELSE Blank]
Grown == [i \in 0..2 * size - 1 |-> IF i < size THEN stack[i] ELSE Blank]
GrowStacks == /\ pc \in {"grow1", "grow2"} /\ pc' = IF pc = "grow1" THEN "push" ELSE "action"
              /\ stack' = Grown /\ size' = 2 * size
              /\ UNCHANGED <<reading, sp, state, errflag, curr, lval, symb, asp, rule, ghosts>>

IsError(p) == p > 0 /\ stack[p].s = ShiftTo[stack[p - 1].s]["error"]
YieldOf(places) == FoldLeft(LAMBDA acc, p : IF IsError(p) THEN acc ELSE acc \o stack[p].v, <<>>, places)
Places(from, to) == [i \in 1..to - from + 1 |-> from + i - 1]
\* An empty production starts where it ends, at the end of what precedes it.
SpanStartOld == stack[sp].b
SpanStart == IF sp > asp THEN stack[asp].e ELSE stack[sp].b
SemanticAction ==
  /\ pc = "action" /\ rule # EntryRule /\ pc' = "loop"
  /\ stack' = [stack EXCEPT ![sp] = [s |-> state, v |-> YieldOf(Places(sp, asp)), b |-> SpanStart, e |-> stack[asp].e]]
  /\ UNCHANGED <<reading, size, sp, state, errflag, curr, lval, symb, asp, rule, ghosts>>
Exit == /\ pc = "action" /\ rule = EntryRule /\ pc' = "accepted"          \* YYexit
        /\ UNCHANGED <<reading, stack, size, sp, state, errflag, curr, lval, symb, asp, rule, ghosts>>
\* recover starts from the place of the left-hand side, which still holds the first symbol of the
\* right side, or what was last there when that is empty; within three tokens of an error it
\* drops the next token and goes on in the state of the left-hand side, which is not on the stack.
ParseError ==
  /\ pc = "action" /\ rule \in RaisingRules /\ pc' = "recover" /\ raised' = TRUE
  /\ astray' = (astray \/ errflag = 3 \/ (Rules[rule].len = 0 /\ ShiftTo[stack[sp].s]["error"] # 0))
  /\ UNCHANGED <<reading, stack, size, sp, state, errflag, curr, lval, symb, asp, rule, errors, shifted>>

Next == \/ Push \/ ReduceByDefault \/ AskToken \/ Shift \/ ReduceOnToken \/ Reported \/ NotReported
        \/ DropStates \/ GiveUp \/ DropToken
        \/ ReadToken \/ ErrorFunction \/ GrowStacks \/ SemanticAction \/ Exit \/ ParseError
Spec == Init /\ [][Next]_vars /\ WF_vars(Next)

(* ------------------------------ Properties ------------------------------ *)
Settled == pc \in {"loop", "read", "error"}
\* The engine asks for larger stacks before it is beyond them, and never goes below its part of them.
StackInBounds == sp \in 0..size /\ (sp = size => pc \in {"grow1", "grow2"}) /\ (pos > 0 => sp >= Base)

\* What is on the stack is a path of the automaton that ends in its state: errors drop a suffix
\* of it, growing keeps all of it.  So does an action that raises Parse_error, unless it raises
\* within three tokens of an error or from an empty rule over a stale place (parsing.c:191, :272).
Leads(s, t) == (\E x \in DOMAIN ShiftTo[s] : ShiftTo[s][x] = t) \/ (\E x \in DOMAIN GoTo[s] : GoTo[s][x] = t)
OnAPath == Settled => /\ stack[sp].s = state
                      /\ \A p \in Base..sp : Leads(stack[p - 1].s, stack[p].s)
StackIsAPath == ~astray => OnAPath

\* The values on the stack are tokens read, in order: all of them until an error.
YieldOnStack == YieldOf(Places(Base + 1, sp))
Flawless == errors = 0 /\ ~raised
ValuesAreTheTokens ==
  Settled /\ ~astray =>
    /\ \A i, j \in DOMAIN YieldOnStack : i < j => YieldOnStack[i] < YieldOnStack[j]
    /\ Flawless => YieldOnStack = [i \in 1..(IF curr \in {"none", "entry"} THEN pos ELSE pos - 1) |-> i]

\* The position of a symbol ends with its last token, starts before its first and after what precedes.
SpansAreTheTokens ==
  Settled /\ ~astray =>
    \A p \in Base + 1..sp :
      ~IsError(p) => IF stack[p].v = <<>> THEN Flawless => stack[p].b = stack[p].e
                     ELSE stack[p].e = EndOf(Last(stack[p].v)) /\ stack[p].b <= StartOf(stack[p].v[1])
                          /\ (Flawless => stack[p].b >= stack[p - 1].e)

\* Two calls of the error function have three tokens between them.
ReportsAreApart == pc = "error" /\ errors > 0 => shifted >= 3

\* Whatever the tokens, the parser returns.
Ends == <>(pc \in {"accepted", "raised"})
=============================================================================
