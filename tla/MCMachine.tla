------------------------------ MODULE MCMachine ------------------------------
(***************************************************************************)
(* The virtual machine: its signals (Signals), interpreter (Interp), roots *)
(* and exceptions of C functions (LocalRoots), parser engine (Parsing),    *)
(* debugger (Debugger), arithmetic (Arith, Int64Emul), comparison          *)
(* (Compare) and hash (HashValue).  A behaviour runs one of them, part;    *)
(* the others keep to an initial state.                                    *)
(***************************************************************************)
EXTENDS Signals, Integers, SequencesExt, FiniteSetsExt, TLC

CONSTANTS Parts, p1, p2

VARIABLES part,
          program, pc, accu, env, extraArgs, stk, trapsp, high, size, runs, something, signals, result,
          frames, roots, raiseBuf, traps, depth, thrown, catchers, exiting,
          input, pos, pPc, pStack, pSize, sp, pState, errflag, curr, lval, symb, asp, rule,
          errors, shifted, raised, astray,
          source, saved, proc,
          arch, safe, kind, reg, number, state,
          eX, eY, eOp, ePc, modulus, divisor, quotient, eMask, res,
          subject, total, turn, cPc, v1, v2, items, limit, results,
          pair, hN, hM, hTurn, hPc, obj, count, hLimit, hAccu, hTodo, hResults, meaningful
interpVars == <<program, pc, accu, env, extraArgs, stk, trapsp, high, size, runs, something, signals, result>>
rootVars == <<frames, roots, raiseBuf, traps, depth, thrown, catchers, exiting>>
parseVars == <<input, pos, pPc, pStack, pSize, sp, pState, errflag, curr, lval, symb, asp, rule,
               errors, shifted, raised, astray>>
debugVars == <<source, saved, proc>>
arithVars == <<arch, safe, kind, reg, number, state>>
emulVars == <<eX, eY, eOp, ePc, modulus, divisor, quotient, eMask, res>>
compareVars == <<subject, total, turn, cPc, v1, v2, items, limit, results>>
hashVars == <<pair, hN, hM, hTurn, hPc, obj, count, hLimit, hAccu, hTodo, hResults, meaningful>>
allVars == <<part, vars, interpVars, rootVars, parseVars, debugVars, arithVars, emulVars, compareVars, hashVars>>

(* ----------------- The interpreter: programs and meaning ---------------- *)
\* The words and outcomes of Interp.
Op(name) == [op |-> name]
Op1(name, k) == [op |-> name, n |-> k]
OpTo(name, code) == [op |-> name, to |-> code]
Val(k) == [int |-> k, codes |-> <<>>, at |-> 1, fields |-> <<>>]
Returned(v) == [kind |-> "value", of |-> v]
Exception(v) == [kind |-> "exception", of |-> v]

\* Terms, how the compiler emits them, and what they mean.  Variables are numbers; calls evaluate
\* their arguments from right to left, then the function.
Num(n) == [e |-> "int", n |-> n]
Var(x) == [e |-> "var", x |-> x]
Fun(xs, b) == [e |-> "fun", xs |-> xs, b |-> b]
App(f, as) == [e |-> "app", f |-> f, as |-> as]
Rais(a) == [e |-> "raise", a |-> a]
Try(b, x, h) == [e |-> "try", b |-> b, x |-> x, h |-> h]
Let(x, a, b) == [e |-> "let", x |-> x, a |-> a, b |-> b]
If(c, a, b) == [e |-> "if", c |-> c, a |-> a, b |-> b]
Pred(a) == [e |-> "pred", a |-> a]
Tuple(as) == [e |-> "tuple", as |-> as]
Field(n, a) == [e |-> "field", n |-> n, a |-> a]
Rec(fs, b) == [e |-> "rec", fs |-> fs, b |-> b]         \* fs: a sequence of [f, xs, b]
Def(f, xs, b) == [f |-> f, xs |-> xs, b |-> b]
Names(fs) == [i \in DOMAIN fs |-> fs[i].f]
Prim(p, f, a) == [e |-> "prim", p |-> p, f |-> f, a |-> a]

RECURSIVE Vars(_)
Vars(t) == CASE t.e = "int" -> {}
             [] t.e = "var" -> {t.x}
             [] t.e = "fun" -> Vars(t.b) \ ToSet(t.xs)
             [] t.e = "app" -> Vars(t.f) \cup UNION {Vars(t.as[i]) : i \in DOMAIN t.as}
             [] t.e \in {"raise", "pred", "field"} -> Vars(t.a)
             [] t.e = "let" -> Vars(t.a) \cup (Vars(t.b) \ {t.x})
             [] t.e = "if" -> Vars(t.c) \cup Vars(t.a) \cup Vars(t.b)
             [] t.e = "tuple" -> UNION {Vars(t.as[i]) : i \in DOMAIN t.as}
             [] t.e = "rec" -> (Vars(t.b) \cup UNION {Vars(t.fs[i].b) \ ToSet(t.fs[i].xs) : i \in DOMAIN t.fs})
                               \ ToSet(Names(t.fs))
             [] t.e = "try" -> Vars(t.b) \cup (Vars(t.h) \ {t.x})
             [] OTHER -> Vars(t.f) \cup Vars(t.a)

(* ----------------------------- The compiler ----------------------------- *)
\* loc: where each variable is, on the stack or in the closure; sz: the words of this frame.
Stack(p) == [in |-> "stack", p |-> p]
InEnv(p) == [in |-> "env", p |-> p]
NextTo(p) == [in |-> "block", p |-> p]
IsTail(c) == c # <<>> /\ Head(c).op = "RETURN"
AddPop(n, c) == IF IsTail(c) THEN <<Op1("RETURN", Head(c).n + n)>> \o Tail(c) ELSE <<Op1("POP", n)>> \o c
Index(s, x) == CHOOSE i \in DOMAIN s : s[i] = x
Bind(f, x, v) == [y \in DOMAIN f \cup {x} |-> IF y = x THEN v ELSE f[y]]
RECURSIVE Comp(_, _, _, _), CompAll(_, _, _, _), CompFun(_, _, _, _)
VarsBackwards(fv) == Reverse([i \in DOMAIN fv |-> Var(fv[i])])
\* The code of a function; fs: the names of the functions of its block, of which it is the me-th.
CompFun(t, fv, fs, me) ==
  LET n == Len(t.xs)
      place == [v \in ToSet(t.xs) \cup ToSet(fv) \cup ToSet(fs) |->
                  IF v \in ToSet(t.xs) THEN Stack(n + 1 - Index(t.xs, v))
                  ELSE IF v \in ToSet(fs) THEN NextTo(Index(fs, v) - me)
                  ELSE InEnv(Index(fv, v))]
      body == Comp(t.b, place, n, <<Op1("RETURN", n)>>)
  IN IF n > 1 THEN <<Op1("GRAB", n - 1)>> \o body ELSE body
CompAll(ts, loc, sz, c) ==
  IF Len(ts) = 1 THEN Comp(ts[1], loc, sz, c)
  ELSE Comp(ts[1], loc, sz, <<Op("PUSH")>> \o CompAll(Tail(ts), loc, sz + 1, c))
Comp(t, loc, sz, c) ==
  CASE t.e = "int" -> <<Op1("CONSTINT", t.n)>> \o c
    [] t.e = "var" -> <<IF loc[t.x].in = "stack" THEN Op1("ACC", sz - loc[t.x].p)
                        ELSE Op1(IF loc[t.x].in = "env" THEN "ENVACC" ELSE "OFFSETCLOSURE", loc[t.x].p)>> \o c
    [] t.e = "fun" ->
         LET fv == SetToSortSeq(Vars(t), <)
             close == <<[op |-> "CLOSURE", n |-> Len(fv), code |-> CompFun(t, fv, <<>>, 0)]>> \o c
         IN IF fv = <<>> THEN close ELSE CompAll(VarsBackwards(fv), loc, sz, close)
    [] t.e = "rec" ->
         LET fv == SetToSortSeq(UNION {Vars(t.fs[i].b) \ ToSet(t.fs[i].xs) : i \in DOMAIN t.fs}
                                \ ToSet(Names(t.fs)), <)
             n == Len(t.fs)
             codes == [i \in 1..n |-> CompFun(t.fs[i], fv, Names(t.fs), i)]
             inner == [v \in DOMAIN loc \cup ToSet(Names(t.fs)) |->
                         IF v \in ToSet(Names(t.fs)) THEN Stack(sz + Index(Names(t.fs), v)) ELSE loc[v]]
             close == <<[op |-> "CLOSUREREC", n |-> Len(fv), codes |-> codes]>>
                      \o Comp(t.b, inner, sz + n, AddPop(n, c))
         IN IF fv = <<>> THEN close ELSE CompAll(VarsBackwards(fv), loc, sz, close)
    [] t.e = "let" -> Comp(t.a, loc, sz, <<Op("PUSH")>> \o
                           Comp(t.b, Bind(loc, t.x, Stack(sz + 1)), sz + 1, AddPop(1, c)))
    [] t.e = "if" -> Comp(t.c, loc, sz, <<OpTo("BRANCHIFNOT", Comp(t.b, loc, sz, c))>> \o Comp(t.a, loc, sz, c))
    [] t.e = "pred" -> Comp(t.a, loc, sz, <<Op1("OFFSETINT", -1)>> \o c)
    [] t.e = "tuple" -> CompAll(Reverse(t.as), loc, sz, <<Op1("MAKEBLOCK", Len(t.as))>> \o c)
    [] t.e = "field" -> Comp(t.a, loc, sz, <<Op1("GETFIELD", t.n)>> \o c)
    [] t.e = "app" ->
         LET n == Len(t.as)  args == Reverse(t.as)
         IN IF IsTail(c)
            THEN CompAll(args, loc, sz, <<Op("PUSH")>> \o
                   Comp(t.f, loc, sz + n, <<[op |-> "APPTERM", n |-> n, slots |-> sz + n]>>))
            ELSE IF n = 1
            THEN CompAll(args, loc, sz, <<Op("PUSH")>> \o Comp(t.f, loc, sz + n, <<Op1("APPLYN", n)>> \o c))
            ELSE <<OpTo("PUSH_RETADDR", c)>> \o
                 CompAll(args, loc, sz + 3, <<Op("PUSH")>> \o Comp(t.f, loc, sz + 3 + n, <<Op1("APPLY", n)>>))
    [] t.e = "raise" -> Comp(t.a, loc, sz, <<Op("RAISE")>>)
    [] t.e = "try" ->
         <<OpTo("PUSHTRAP", <<Op("PUSH")>> \o Comp(t.h, Bind(loc, t.x, Stack(sz + 1)), sz + 1, AddPop(1, c)))>>
         \o Comp(t.b, loc, sz + 4, <<Op("POPTRAP")>> \o c)
    [] OTHER -> CompAll(<<t.a, t.f>>, loc, sz, <<[op |-> "C_CALL2", prim |-> t.p]>> \o c)
Compiled(t) == Comp(t, <<>>, 0, <<Op("STOP")>>)

(* ------------------------------- Meaning -------------------------------- *)
\* A function of a recursive definition gets its siblings when it is applied.
Fn(t, rho, fs) == [xs |-> t.xs, b |-> t.b, rho |-> rho, fs |-> fs]
Grasp(rho, fs) == [v \in DOMAIN rho \cup ToSet(Names(fs)) |->
                     IF v \in ToSet(Names(fs)) THEN Fn(fs[Index(Names(fs), v)], rho, fs) ELSE rho[v]]
Then(r, F(_)) == IF r.kind = "value" THEN F(r.of) ELSE r
RECURSIVE Eval(_, _), EvalArgs(_, _, _), ApplyTo(_, _)
EvalArgs(as, rho, done) ==
  IF as = <<>> THEN Returned(done)
  ELSE LET step(v) == EvalArgs(Front(as), rho, <<v>> \o done) IN Then(Eval(Last(as), rho), step)
ApplyTo(f, as) ==
  IF as = <<>> THEN Returned(f)
  ELSE LET rho == Bind(Grasp(f.rho, f.fs), Head(f.xs), Head(as))
           rest(g) == ApplyTo(g, Tail(as))
       IN IF Len(f.xs) > 1 THEN ApplyTo([f EXCEPT !.xs = Tail(@), !.rho = rho, !.fs = <<>>], Tail(as))
          ELSE Then(Eval(f.b, rho), rest)
Eval(t, rho) ==
  CASE t.e = "int" -> Returned(Val(t.n))
    [] t.e = "var" -> Returned(rho[t.x])
    [] t.e = "fun" -> Returned(Fn(t, rho, <<>>))
    [] t.e = "app" -> LET call(as) == LET to(f) == ApplyTo(f, as) IN Then(Eval(t.f, rho), to)
                      IN Then(EvalArgs(t.as, rho, <<>>), call)
    [] t.e = "rec" -> Eval(t.b, Grasp(rho, t.fs))
    [] t.e = "let" -> LET in(v) == Eval(t.b, Bind(rho, t.x, v)) IN Then(Eval(t.a, rho), in)
    [] t.e = "if" -> LET branch(v) == Eval(IF v = Val(0) THEN t.b ELSE t.a, rho) IN Then(Eval(t.c, rho), branch)
    [] t.e = "pred" -> LET less(v) == Returned(Val(v.int - 1)) IN Then(Eval(t.a, rho), less)
    [] t.e = "tuple" -> EvalArgs(t.as, rho, <<>>)
    [] t.e = "field" -> LET get(v) == Returned(v[t.n + 1]) IN Then(Eval(t.a, rho), get)
    [] t.e = "raise" -> LET up(v) == Exception(v) IN Then(Eval(t.a, rho), up)
    [] t.e = "try" -> LET r == Eval(t.b, rho)
                      IN IF r.kind = "exception" THEN Eval(t.h, Bind(rho, t.x, r.of)) ELSE r
    [] OTHER -> LET call(as) == ApplyTo(as[1], <<as[2]>>)
                    r == Then(EvalArgs(<<t.f, t.a>>, rho, <<>>), call)
                IN IF r.kind = "exception" /\ t.p = "caml_callback_exn" THEN Returned(Val(9)) ELSE r

(* ------------------------------- Programs ------------------------------- *)
vx == 1
vy == 2
vz == 3
vf == 4
vg == 5
First == Fun(<<vx, vy>>, Var(vx))
Second == Fun(<<vx, vy>>, Var(vy))
Twice == Fun(<<vf, vx>>, App(Var(vf), <<App(Var(vf), <<Var(vx)>>)>>))
Const3 == Fun(<<vx, vy, vz>>, Var(vx))
Thrower == Fun(<<vx>>, Rais(Var(vx)))
Catcher == Fun(<<vf, vx>>, Try(App(Var(vf), <<Var(vx)>>), vy, Var(vy)))
Callbacks == {"caml_callback", "caml_callback_exn"}
Terms ==
  {App(First, <<Num(1), Num(2)>>),
   App(App(Second, <<Num(1)>>), <<Num(2)>>),                              \* partial, then the rest
   App(Fun(<<vx>>, First), <<Num(1), Num(2), Num(3)>>),                    \* over-application
   App(Fun(<<vx>>, App(First, <<Fun(<<vy>>, Var(vx)), Num(5)>>)), <<Num(4), Num(6)>>),  \* in tail position
   App(App(Const3, <<Num(1), Num(2)>>), <<Num(3)>>),
   App(App(App(Const3, <<Num(1)>>), <<Num(2)>>), <<Num(3)>>),
   App(Twice, <<App(First, <<Fun(<<vy>>, Var(vy)), Num(0)>>), Num(8)>>),
   App(Twice, <<Twice, Fun(<<vy>>, Var(vy)), Num(6)>>),
   Try(App(Thrower, <<Num(3)>>), vx, Var(vx)),
   Try(Try(App(Thrower, <<Num(3)>>), vx, App(Thrower, <<Num(4)>>)), vy, Var(vy)),
   App(Catcher, <<Thrower, Num(5)>>),
   App(Catcher, <<App(Catcher, <<Thrower>>), Num(5)>>),
   App(App(Catcher, <<Fun(<<vx>>, Thrower)>>), <<Num(5), Num(6)>>),        \* raises outside the handler
   Let(vx, Tuple(<<Num(1), Fun(<<vy>>, Var(vy))>>), App(Field(1, Var(vx)), <<Field(0, Var(vx))>>)),
   Rec(<<Def(vf, <<vx>>, If(Var(vx), App(Var(vg), <<Pred(Var(vx))>>), Num(1))),           \* even and odd
         Def(vg, <<vx>>, If(Var(vx), App(Var(vf), <<Pred(Var(vx))>>), Num(0)))>>, App(Var(vf), <<Num(3)>>)),
   Let(vz, Num(5), Rec(<<Def(vf, <<vx, vy>>,                                               \* not a tail call
                             If(Var(vx), App(Second, <<Num(0), App(App(Var(vf), <<Pred(Var(vx))>>), <<Var(vy)>>)>>),
                                Var(vz)))>>, App(Var(vf), <<Num(3), Num(1)>>))),
   Rec(<<Def(vf, <<vx>>, Try(If(Var(vx), App(Second, <<Num(0), App(Var(vf), <<Pred(Var(vx))>>)>>),  \* handlers pile up
                                App(Thrower, <<Num(7)>>)), vy, App(Thrower, <<Var(vy)>>)))>>,
       Try(App(Var(vf), <<Num(2)>>), vz, Var(vz))),
   Rais(Num(2))}
  \cup UNION {{Prim(p, Fun(<<vx>>, Var(vx)), Num(1)),
         Prim(p, Thrower, Num(3)),
         App(Fun(<<vy>>, App(First, <<Prim(p, App(First, <<Fun(<<vx>>, Var(vy)), Num(1)>>), Num(0)), Var(vy)>>)), <<Num(4)>>),
         Try(Prim(p, Thrower, Num(3)), vx, Prim(p, Fun(<<vy>>, Var(vx)), Num(2))),
         App(Fun(<<vy>>, App(Second, <<Prim(p, Thrower, Num(1)), Var(vy)>>)), <<Num(4)>>),
         App(Fun(<<vy>>, Try(Prim(p, App(Catcher, <<Thrower>>), Var(vy)), vx, Num(1))), <<Num(4)>>),
         Prim(p, Fun(<<vx>>, Prim(p, Thrower, Var(vx))), Num(6))} : p \in Callbacks}
InterpPrograms == {[code |-> Compiled(t), max |-> m, outcome |-> Eval(t, <<>>)] : t \in Terms, m \in {20, 1000}}
I == INSTANCE Interp WITH Programs <- InterpPrograms, Threshold <- 22, StackSize <- 26, Signals <- 2

(* ----------------------- Roots and exceptions of C ---------------------- *)
R == INSTANCE LocalRoots WITH Sizes <- {2}, Debugging <- FALSE, MaxDepth <- 4, MaxBlocks <- 3, MaxTraps <- 1,
                              stack <- frames, handlers <- catchers
Rd == INSTANCE LocalRoots WITH Sizes <- {2}, Debugging <- TRUE, MaxDepth <- 4, MaxBlocks <- 1, MaxTraps <- 1,
                               stack <- frames, handlers <- catchers

(* ------------------------------- A parser ------------------------------- *)
\*   main: list eof;  list: | list stmt ";";
\*   stmt: "a" | "a" "a" | "(" list ")" | error
ParseRules == << [lhs |-> "main", len |-> 2], [lhs |-> "main", len |-> 2], [lhs |-> "list", len |-> 0],
              [lhs |-> "list", len |-> 3], [lhs |-> "stmt", len |-> 1], [lhs |-> "stmt", len |-> 2],
              [lhs |-> "stmt", len |-> 3], [lhs |-> "stmt", len |-> 1] >>
Edges == { <<0, "entry", 1>>, <<1, "list", 2>>, <<1, "main", 8>>,
           <<2, "eof", 3>>, <<2, "stmt", 4>>, <<2, "a", 5>>, <<2, "(", 6>>, <<2, "error", 7>>,
           <<4, ";", 9>>, <<5, "a", 10>>, <<6, "list", 11>>,
           <<11, ")", 12>>, <<11, "stmt", 4>>, <<11, "a", 5>>, <<11, "(", 6>>, <<11, "error", 7>> }
ParseStates == 0..12
To(s, x) == LET es == {e \in Edges : e[1] = s /\ e[2] = x} IN IF es = {} THEN 0 ELSE (CHOOSE e \in es : TRUE)[3]
ParseShiftTo == [s \in ParseStates |-> [t \in {"entry", "eof", ";", "error", "a", "(", ")"} |-> To(s, t)]]
UsualGoTo == [main |-> 8, list |-> 2, stmt |-> 4]                             \* dgoto
ParseGoTo == [s \in ParseStates |-> [x \in DOMAIN UsualGoTo |-> IF To(s, x) # 0 THEN To(s, x) ELSE UsualGoTo[x]]]
DefaultRules == << 3, 0, 2, 0, 0, 3, 8, 1, 4, 6, 0, 7 >>
ParseDefRed == [s \in ParseStates |-> IF s = 0 THEN 0 ELSE DefaultRules[s]]
ParseReduceBy == [s \in ParseStates |-> [t \in {"entry", "eof", ";", "a", "(", ")"} |-> IF s = 5 /\ t = ";" THEN 5 ELSE 0]]
ParseInputs == UNION {[1..n -> {"a", ";", "(", ")"}] : n \in 0..4}
            \cup {<<"(", "a", ";", "(", ")", ";", ")", ";">>, <<"(", "(", "(", "(", ")", "a">>,
                  <<";", "a", ";", "a", ";", "a", ";", "a", "a", ";">>, <<"a", "a", ";", "a", ";", ";", "a", ";", "a">>}

P == INSTANCE Parsing WITH Inputs <- ParseInputs, Rules <- ParseRules, EntryRule <- 1, DefRed <- ParseDefRed,
                           ShiftTo <- ParseShiftTo, ReduceBy <- ParseReduceBy, GoTo <- ParseGoTo,
                           InitialSize <- 3, RaisingRules <- {3, 7, 8},
                           pc <- pPc, stack <- pStack, size <- pSize, state <- pState

\* The language by itself: depth of parentheses, and how far the statement is.
Read(st, t) ==
  CASE ~st.ok -> st
    [] t = "a" -> [st EXCEPT !.ok = st.at \in {"none", "a"}, !.at = IF @ = "none" THEN "a" ELSE "all"]
    [] t = ";" -> [st EXCEPT !.ok = st.at # "none", !.at = "none"]
    [] t = "(" -> [st EXCEPT !.ok = st.at = "none", !.depth = @ + 1]
    [] t = ")" -> [st EXCEPT !.ok = st.at = "none" /\ st.depth > 0, !.depth = @ - 1, !.at = "all"]
    [] t = "eof" -> [st EXCEPT !.ok = st.at = "none" /\ st.depth = 0]
Starts(tokens) == FoldLeft(Read, [ok |-> TRUE, depth |-> 0, at |-> "none"], tokens).ok
TokensRead(n) == [i \in 1..n |-> P!TokenAt(i)]
(* ------------------------------- Debugger ------------------------------- *)
\* A handler and a loop through a switch, with a table that looks like opcodes; a trap that is
\* popped, a comparison, and an exception nothing handles; the end, by a switch.
Loops == <<6, 6, 5, 1, 0, 8, 8, 1, 1, 4, 18, 3, 3, 9, 3, -8>>
Raises == <<1, 10, 6, 3, 7, 0, 2, 10, 2, 9, 8>>
Ends == <<4, 1, 1, 9>>
\* A trap, an exception it takes, the end.
Short == <<6, 2, 8, 9>>
D == INSTANCE Debugger WITH Programs <- {Loops, Raises, Ends}, Processes <- {p1, p2}, Start <- p1,
                            MaxGo <- 2, MaxLevel <- 1, MaxPatches <- 2, MaxProcesses <- 1
D2 == INSTANCE Debugger WITH Programs <- {Short, Ends}, Processes <- {p1, p2}, Start <- p1,
                             MaxGo <- 2, MaxLevel <- 0, MaxPatches <- 1, MaxProcesses <- 2

(* ------------------------------ Arithmetic ------------------------------ *)
A == INSTANCE Arith WITH Archs <- {[word |-> 8, i32 |-> 4], [word |-> 4, i32 |-> 4]},
                         Operands <- {-128, -127, -65, -64, -8, -7, -5, -4, -3, -2, -1} \cup (0..9) \cup {63, 64, 127}
E == INSTANCE Int64Emul WITH H <- 4, Xs <- 0..255,
                             Ys <- {0, 1, 2, 3, 7, 8, 15, 16, 17, 33, 100, 127, 128, 129, 200, 240, 254, 255},
                             x <- eX, y <- eY, op <- eOp, pc <- ePc, mask <- eMask

(* -------------------------- Comparison and hash ------------------------- *)
V == INSTANCE Values WITH Heap <- <<>>
Blk(tag, fields) == [tag |-> tag, fields |-> fields, data |-> <<>>, out |-> FALSE]
Dat(tag, data) == [tag |-> tag, fields |-> <<>>, data |-> data, out |-> FALSE]
OutBlk == [tag |-> 0, fields |-> <<V!Long(1)>>, data |-> <<>>, out |-> TRUE]
Ptrs(addresses) == {V!Ptr(a) : a \in addresses}
CompareHeap == <<
  Dat(V!StringTag, <<V!Byte(97), V!Byte(98)>>), Dat(V!StringTag, <<V!Byte(98)>>), Dat(V!StringTag, <<V!Byte(97)>>),  \* 1..3
  Dat(V!DoubleTag, <<V!Float(0, 0)>>), Dat(V!DoubleTag, <<V!Float(0, 128)>>), Dat(V!DoubleTag, <<V!Float(1, 63)>>), \* 4: 0.0, 5: -0.0
  Dat(V!DoubleTag, <<V!NaN(127)>>), Dat(V!DoubleTag, <<V!NaN(255)>>),                                       \* 7, 8
  Blk(0, <<V!Long(1), V!Ptr(4)>>), Blk(0, <<V!Long(1), V!Ptr(5)>>), Blk(V!ForwardTag, <<V!Ptr(9)>>),              \* 9..11
  Blk(1, <<V!Ptr(11)>>), Blk(1, <<V!Ptr(10)>>), Blk(0, <<V!Long(1), V!Ptr(7), V!Long(2)>>),                      \* 12..14
  Dat(V!DoubleArrayTag, <<V!Float(1, 63), V!NaN(127)>>), Dat(V!DoubleArrayTag, <<V!Float(1, 63), V!Float(2, 64)>>), \* 15, 16
  Blk(V!ClosureTag, <<>>), Blk(V!InfixTag, <<>>), Blk(V!AbstractTag, <<>>),                                 \* 17..19
  Dat(V!ObjectTag, <<V!Byte(1)>>), Dat(V!ObjectTag, <<V!Byte(2)>>), Dat(V!CustomTag, <<V!Byte(1)>>),               \* 20..22
  Dat(V!CustomTag, <<V!Byte(2)>>), Dat(V!CustomTag, <<>>), OutBlk, OutBlk,                                       \* 23..26
  Blk(0, <<V!Ptr(28), V!Long(0)>>), Blk(0, <<V!Ptr(29), V!Long(0)>>), Blk(0, <<V!Ptr(30), V!Long(0)>>), Blk(0, <<V!Ptr(9), V!Long(1)>>), \* 27..30
  Blk(V!ForwardTag, <<V!Long(5)>>), Blk(0, <<V!Ptr(22), V!Long(3), V!Ptr(17)>>), Blk(0, <<V!Ptr(22), V!Long(3), V!Ptr(19)>>), Blk(0, <<>>), Blk(0, <<V!Ptr(24)>>), \* 31..35
  Blk(0, <<V!Ptr(36), V!Long(0)>>), Blk(0, <<V!Ptr(37), V!Long(0)>>),     \* 36, 37: cycles through the first field
  Blk(0, <<V!Long(0), V!Ptr(38)>>), Blk(0, <<V!Long(0), V!Ptr(39)>>)>>    \* 38, 39: cycles through the last one
Integers12 == {V!Long(5), V!Long(0), V!Long(2^10 - 1), V!Long(-(2^10))}
Variant == {V!Long(0), V!Long(5)} \cup Ptrs((9..14) \cup {27, 30, 31, 34})
CompareTypes == {Integers12, Variant, Ptrs(1..3), Ptrs(4..8), Ptrs({15, 16}), Ptrs({17, 18}), Ptrs({19}), Ptrs(20..21), Ptrs(22..23),
            Ptrs(25..26), Ptrs({32, 33}), Ptrs({35}), Ptrs({36, 37}), Ptrs({38, 39})}
C == INSTANCE Compare WITH W <- 12, Heap <- CompareHeap, Types <- CompareTypes, StackInit <- 2, StackMax <- 8, Depth <- 6,
                           pc <- cPc, stack <- items
\* Two lists that come round again are compared for ever, if they are not the same list.
Endless == subject[1] \in Ptrs({38, 39}) /\ (~total \/ \E t \in 2..3 : subject[t] # subject[1])

HashHeap == <<
  Dat(V!StringTag, <<V!Byte(97), V!Byte(98)>>), Dat(V!StringTag, <<V!Byte(97), V!Byte(98)>>),         \* 1, 2
  Dat(V!DoubleTag, <<V!Float(0, 0)>>), Dat(V!DoubleTag, <<V!Float(0, 128)>>), Dat(V!DoubleTag, <<V!Float(1, 63)>>), \* 3..5
  Blk(0, <<V!Long(1), V!Ptr(1), V!Ptr(5)>>), Blk(0, <<V!Long(1), V!Ptr(8), V!Ptr(5)>>), Blk(V!ForwardTag, <<V!Ptr(2)>>), \* 6..8
  Blk(1, <<V!Ptr(6), V!Ptr(6)>>), Blk(1, <<V!Ptr(6), V!Ptr(7)>>), Blk(0, <<V!Long(2), V!Ptr(11)>>), Blk(0, <<V!Ptr(12), V!Ptr(13)>>), \* 9..12; 11, 12: cyclic
  Blk(V!ForwardTag, <<V!Ptr(12)>>), Dat(V!AbstractTag, <<>>), Dat(V!CustomTag, <<V!Byte(3)>>), Dat(V!CustomTag, <<>>), OutBlk, \* 13..17
  Dat(V!ObjectTag, <<V!Byte(3)>>), Blk(0, <<V!Ptr(15), V!Ptr(14), V!Ptr(17), V!Ptr(18), V!Ptr(16)>>),           \* 18, 19
  Blk(0, <<V!Ptr(15), V!Ptr(14), V!Ptr(17), V!Ptr(18), V!Ptr(16)>>), Dat(V!DoubleArrayTag, <<V!Float(1, 63), V!Float(2, 64)>>), \* 20, 21
  Dat(V!DoubleArrayTag, <<V!Float(1, 63), V!Float(2, 64)>>), Blk(0, <<V!Long(1), V!Long(2)>>), Blk(0, <<V!Long(1), V!Long(2)>>), \* 22..24
  Blk(V!ClosureTag, <<V!Ptr(17), V!Long(3)>>), Blk(V!InfixTag, <<V!Ptr(25)>>), Blk(V!ClosureTag, <<V!Ptr(17), V!Long(3)>>), \* 25..27
  Blk(V!InfixTag, <<V!Ptr(27)>>), Blk(0, <<V!Ptr(26), V!Ptr(5)>>), Blk(0, <<V!Ptr(28), V!Ptr(5)>>),             \* 28..30
  Dat(V!DoubleTag, <<V!NaN(127)>>), Dat(V!DoubleTag, <<V!NaN(255)>>)>>                                      \* 31, 32
HashPairs == {<<V!Ptr(p[1]), V!Ptr(p[2])>> : p \in {<<1, 2>>, <<3, 3>>, <<5, 4>>, <<6, 7>>, <<9, 10>>, <<11, 11>>, <<12, 13>>, <<14, 14>>,
                                              <<17, 17>>, <<19, 20>>, <<21, 22>>, <<23, 24>>,
                                              <<3, 4>>, <<31, 32>>, <<26, 28>>, <<29, 30>>}} \cup {<<V!Long(3), V!Ptr(3)>>}
H == INSTANCE HashValue WITH Heap <- HashHeap, Pairs <- HashPairs, Counts <- {0, 1, 2, 3, 4, 10},
                             Limits <- {0, 1, 2, 3, 4, 5, 6, 12}, Depth <- 4, M <- 16384,
                             n <- hN, m <- hM, turn <- hTurn, pc <- hPc, obj <- obj, count <- count, limit <- hLimit,
                             accu <- hAccu, todo <- hTodo, results <- hResults

ASSUME PartAssumptions ==
  /\ I!InterpAssumption /\ R!LocalRootsAssumption /\ P!ParsingAssumption /\ D!DebuggerAssumption
  /\ A!ArithAssumption /\ E!EmulAssumption /\ C!CompareAssumption /\ H!HashAssumption

OneOf(S) == CHOOSE e \in S : TRUE
AllInit ==
  /\ part \in Parts
  /\ (part # "signals" => mayRaise = FALSE) /\ Init
  /\ (part # "interp" => program = OneOf(InterpPrograms)) /\ I!Init
  /\ R!Init
  /\ (part # "parsing" => input = <<>>) /\ P!Init
  /\ (part \notin {"debugger", "checkpoints"} => source = Ends) /\ (IF part = "checkpoints" THEN D2!Init ELSE D!Init)
  /\ (part # "arith" => arch = OneOf({[word |-> 8, i32 |-> 4]}) /\ safe = TRUE) /\ A!Init
  /\ (part # "emul" => eX = E!Zero /\ eY = E!Zero /\ eOp = "div") /\ E!Init
  /\ (part # "compare" => subject = [i \in 1..3 |-> V!Long(0)] /\ total = TRUE) /\ C!Init
  /\ (part # "hash" => pair = <<V!Long(3), V!Ptr(3)>> /\ hN = 0 /\ hM = 0) /\ H!Init

SignalStep ==
  /\ part = "signals" /\ Step
  /\ UNCHANGED <<part, interpVars, rootVars, parseVars, debugVars, arithVars, emulVars, compareVars, hashVars>>
SignalArrival ==
  /\ part = "signals" /\ (UrgeMajorSlice \/ CallBlocking \/ \E s \in Sig : Deliver(s) \/ Install(s) \/ Ignore(s))
  /\ UNCHANGED <<part, interpVars, rootVars, parseVars, debugVars, arithVars, emulVars, compareVars, hashVars>>
Interpreted ==
  /\ part = "interp" /\ I!Execute
  /\ UNCHANGED <<part, vars, rootVars, parseVars, debugVars, arithVars, emulVars, compareVars, hashVars>>
InterpSignal ==
  /\ part = "interp" /\ I!Signal
  /\ UNCHANGED <<part, vars, rootVars, parseVars, debugVars, arithVars, emulVars, compareVars, hashVars>>
RootStep ==
  /\ part = "roots" /\ R!Next
  /\ UNCHANGED <<part, vars, interpVars, parseVars, debugVars, arithVars, emulVars, compareVars, hashVars>>
DebuggedRootStep ==
  /\ part = "debugged roots" /\ Rd!Next
  /\ UNCHANGED <<part, vars, interpVars, parseVars, debugVars, arithVars, emulVars, compareVars, hashVars>>
Parsed ==
  /\ part = "parsing" /\ P!Next
  /\ UNCHANGED <<part, vars, interpVars, rootVars, debugVars, arithVars, emulVars, compareVars, hashVars>>
DebuggerStep ==
  /\ part = "debugger" /\ D!Next
  /\ UNCHANGED <<part, vars, interpVars, rootVars, parseVars, arithVars, emulVars, compareVars, hashVars>>
CheckpointStep ==
  /\ part = "checkpoints" /\ D2!Next
  /\ UNCHANGED <<part, vars, interpVars, rootVars, parseVars, arithVars, emulVars, compareVars, hashVars>>
Calculated ==
  /\ part = "arith" /\ A!Next
  /\ UNCHANGED <<part, vars, interpVars, rootVars, parseVars, debugVars, emulVars, compareVars, hashVars>>
Divided ==
  /\ part = "emul" /\ E!Next
  /\ UNCHANGED <<part, vars, interpVars, rootVars, parseVars, debugVars, arithVars, compareVars, hashVars>>
Compared ==
  /\ part = "compare" /\ C!Next
  /\ UNCHANGED <<part, vars, interpVars, rootVars, parseVars, debugVars, arithVars, emulVars, hashVars>>
Hashed ==
  /\ part = "hash" /\ H!Next
  /\ UNCHANGED <<part, vars, interpVars, rootVars, parseVars, debugVars, arithVars, emulVars, compareVars>>
SignalReturn ==
  /\ part = "signals" /\ Return
  /\ UNCHANGED <<part, interpVars, rootVars, parseVars, debugVars, arithVars, emulVars, compareVars, hashVars>>

Proceeds == SignalStep \/ Interpreted \/ Parsed \/ Divided \/ Compared \/ Hashed
AllNext == Proceeds \/ SignalArrival \/ InterpSignal \/ RootStep \/ DebuggedRootStep \/ DebuggerStep
           \/ CheckpointStep \/ Calculated
\* The machine runs on; a signal handler or finaliser returns however often it is interrupted.
AllSpec == AllInit /\ [][AllNext]_allVars /\ WF_allVars(Proceeds) /\ SF_allVars(SignalReturn)

(* ------------------------------ Properties ------------------------------ *)
\* The interpreter's frames, handlers and runs are where the code that returns, raises or stops
\* looks for them, so that each program gives the outcome its source means and leaves nothing;
\* and a C function's declared variables are the collector's roots while it is active, an
\* exception going to the newest handler over any number of frames.
FramesAreRight ==
  /\ part = "interp" => I!TrapsAreFrames /\ I!StackFits /\ I!OutcomeIsRight /\ I!LeavesNothing
  /\ part = "roots" => R!RootsAreTheDeclared /\ R!BufferIsActive /\ R!NearestHandlerTakes
  /\ part = "debugged roots" => Rd!NearestHandlerTakes

\* An error is reported at the first token that no sentence continues with, and only then; what is
\* accepted without one is a sentence.
ErrorAtFirstBadToken ==
  P!Flawless => /\ pPc = "error" => Starts(TokensRead(pos - 1)) /\ ~Starts(TokensRead(pos))
                /\ pPc = "accepted" => Starts(Append(input, "eof"))
\* Through growing stacks and recovery the parser's stack is a path of its automaton, with the
\* values and positions of the tokens read; when an action raises Parse_error soon after an error,
\* or from an empty rule over a stale place, it need not be (parsing.mli:59 has no such exception).
ParsesTheLanguage == part = "parsing" =>
  /\ P!StackInBounds /\ P!StackIsAPath /\ P!ValuesAreTheTokens /\ P!SpansAreTheTokens
  /\ P!ReportsAreApart /\ ErrorAtFirstBadToken

\* A program under the debugger, and each checkpoint of it, takes the steps of the program in the
\* file, stops where it was asked to, and keeps the file's code but for the patches not yet reset.
DebuggedIsTheProgram == D!IsTheProgram /\ D!StopsWhereAsked /\ []D!CodeIsTheProgram

\* Arithmetic on tagged, boxed and paired words is that of the numbers modulo their width, with
\* division rounded towards zero and orders that agree, but for the smallest boxed number divided
\* by -1, which may trap.  Structural comparison is a total order that finds the same contents
\* equal, also through NaNs and forwarding blocks.  The same bytes hash alike within the budgets,
\* and equal floats with other bytes do not.
ValuesAreRight ==
  /\ part = "arith" => A!StandsForItsNumber /\ A!WordsCompare /\ A!TrapsAtSmallest
  /\ part = "emul" => /\ E!ArithmeticIsModular /\ E!ShiftsCrossWords /\ E!ComparisonsAgree
                       /\ E!LoopDivides /\ E!QuotientIsRounded
  /\ part = "compare" => C!IsTotalOrder /\ C!PredicatesAgree /\ C!EqualMeansSame /\ C!StackIsReleased
  /\ part = "hash" => H!SameHash /\ H!BudgetIsKept

\* A recorded signal is handled unless a handler raises; programs, parsers and divisions end,
\* whatever signals and errors come in between, and so do hashes, also of cyclic values.
\* Comparisons end for values without cycles, and for those whose cycles exhaust the stack; the
\* others never do, as pervasives.mli:52 says.
Quiet(s) == CASE part = "signals" -> Handled(s)
              [] part = "interp" -> result # I!Running
              [] part = "parsing" -> pPc \in {"accepted", "raised"}
              [] part = "emul" -> ePc \in {"done", "raised"}
              [] part = "compare" -> (cPc = "done") = ~Endless
              [] part = "hash" -> hPc = "done"
              [] OTHER -> TRUE
Completes == \A s \in Sig : []<>Quiet(s)
=============================================================================
