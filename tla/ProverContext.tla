--------------------------- MODULE ProverContext ---------------------------
(***************************************************************************)
(* The two prover interfaces over a record of Z3's context.                *)
(* dsolve's: TheoremProver.set_and_filter over TheoremProverZ3.Prover's    *)
(* axiom, set, filter and finish.  One query asserts the left-hand side,   *)
(* then asks for each candidate in turn.                                   *)
(* The fixpoint solver's, tpZ3.ml: each call runs between a push and a pop *)
(* (z3Do).  The solver calls set_filter; once it has stopped,              *)
(* counterexample.ml calls is_contra and unsat_suffix.                     *)
(***************************************************************************)
EXTENDS Z3Context, SequencesExt, SequenceTheorems, WellFoundedInduction, TLAPS

CONSTANTS VV,          \* Common.qual_test_var, whose sort changes from query to query
          Tautologies, \* predicates P.is_taut recognises
          Axiom,       \* predicates the .mlq files declare as axioms
          Query,       \* queries and calls of set_filter [env, lhs, cands]
          AxiomEnv,    \* the environment axioms are translated in
          MaxPushes,   \* bound: scopes pushed before the last query starts
          Env,         \* environments the counterexample calls use
          Chain,       \* unsat_suffix calls [p, ps], ps a sequence
          Cex,         \* Constants.cex: counterexamples are generated
          MaxCalls     \* bound: calls of tpZ3.ml per behaviour

QueriesAreTyped ==
  /\ VV \in Name /\ Axiom \subseteq Pred /\ Tautologies \subseteq Pred /\ MaxPushes \in Nat
  /\ AxiomEnv \in [Name -> Sort]
  /\ Query \subseteq [env : [Name -> Sort], lhs : SUBSET Pred, cands : SUBSET Pred]
  /\ \A p \in Tautologies : Entails({}, p)

\* mlqmod.ml, load_axiom: an axiom uses only identifiers the declarations bind, and VV is not one.
AxiomsAreClosed == \A p \in Axiom : VV \notin VarsOf[p]

CallsAreTyped ==
  /\ MaxCalls \in Nat /\ Cex \in BOOLEAN /\ Env \subseteq [Name -> Sort]
  /\ \A ch \in Chain : ch.p \in Pred /\ ch.ps \in Seq(Pred) /\ ch.ps # <<>>

VARIABLES me,      \* z3_instance: scopes, memo tables, declarations
          count,   \* me.count: the pushes push and pop keep count of
          axioms,  \* axioms asserted so far
          phase,   \* "axioms" | "idle" | "finish" | "filter" | "valid" | "failed"
          query, todo, answer
proverVars == <<me, count, axioms, phase, query, todo, answer>>

VARIABLES fme,     \* the record of tpZ3.ml
          calls,
          stage,   \* "solving" | "explaining" | "killers" | "failed"
          last     \* the last call: its name, its argument, its answer, and whether its terms were live
fixVars == <<fme, calls, stage, last>>

(* ------------------------ dsolve's interface --------------------------- *)

(* theoremProverZ3 looks a name up by its path alone. *)
ByPath == [n \in Name |-> n]

NoQuery == [env |-> AxiomEnv, lhs |-> {}, cands |-> {}]

ProverInit ==
  /\ me = Fresh /\ count = 0 /\ axioms = {} /\ phase = "axioms"
  /\ query = NoQuery /\ todo = {} /\ answer = {}

(* push_axiom: translated and asserted in the base scope; an inconsistent theory is fatal. *)
PushAxiom(p) ==
  LET translated == Translate(me, {p}, ByPath, AxiomEnv)
      asserted   == AssertFacts(translated, {Term(translated, p, ByPath)})
  IN /\ phase = "axioms" /\ p \notin axioms
     /\ me' = asserted
     /\ axioms' = axioms \cup {p}
     /\ phase' = IF Unsat(asserted) THEN "failed" ELSE "axioms"
     /\ UNCHANGED <<count, query, todo, answer>>

StartSolving ==
  /\ phase = "axioms" /\ phase' = "idle"
  /\ UNCHANGED <<me, count, axioms, query, todo, answer>>

(* set: forget the constant of VV, translate the left-hand side, put the barrier *)
(* and a scope, then assert the left-hand side in a second scope and check it.   *)
ForgetNothing(m) == m
ForgetVV(m) == Forget(m, VV)
PrepPreds(m, q) == Push(Barrier(Translate(m, q.lhs, ByPath, q.env)), {})

Set(q) ==
  LET prepared == PrepPreds(ForgetVV(me), q)
      pushed   == Push(prepared, Terms(prepared, q.lhs, ByPath))
  IN /\ phase = "idle" /\ me.pushes < MaxPushes
     /\ me' = pushed
     /\ count' = count + 1
     /\ query' = q
     /\ phase' = IF Unsat(pushed) THEN "finish" ELSE "filter"
     /\ UNCHANGED <<axioms, todo, answer>>

(* A finish that leaves the left-hand side asserted. *)
FinishWithoutPop ==
  /\ phase = "finish" /\ phase' = "idle"
  /\ count' = count - 1 /\ answer' = query.cands
  /\ UNCHANGED <<me, axioms, query, todo>>

(* set_and_filter returns every candidate when set answers true. *)
Finish ==
  /\ phase = "finish" /\ phase' = "idle"
  /\ me' = Pop(me) /\ count' = count - 1
  /\ answer' = query.cands
  /\ UNCHANGED <<axioms, query, todo>>

(* filter: all candidates are translated before the first is tried. *)
StartFilter ==
  LET asked == query.cands \ Tautologies
  IN /\ phase = "filter" /\ phase' = "valid"
     /\ me' = Translate(me, asked, ByPath, query.env)
     /\ todo' = asked
     /\ answer' = query.cands \cap Tautologies
     /\ UNCHANGED <<count, axioms, query>>

(* A valid that forgets its pop. *)
ValidWithoutPop(p) ==
  LET pushed == Push(me, {Negated(Term(me, p, ByPath))})
  IN /\ phase = "valid" /\ p \in todo
     /\ me' = pushed
     /\ answer' = IF Unsat(pushed) THEN answer \cup {p} ELSE answer
     /\ todo' = todo \ {p}
     /\ UNCHANGED <<count, axioms, phase, query>>

(* valid: pushes the negated candidate, checks, pops. *)
Valid(p) ==
  LET pushed == Push(me, {Negated(Term(me, p, ByPath))})
  IN /\ phase = "valid" /\ p \in todo
     /\ me' = Pop(pushed)
     /\ answer' = IF Unsat(pushed) THEN answer \cup {p} ELSE answer
     /\ todo' = todo \ {p}
     /\ UNCHANGED <<count, axioms, phase, query>>

(* A filter that keeps the candidates' declarations. *)
CloseKeepingDecls(m) == Pop(m)

(* One pop for the two scopes set pushed, then the candidates' declarations go. *)
CloseQuery(m) == CleanDecls(Pop(m))

EndFilter ==
  /\ phase = "valid" /\ todo = {} /\ phase' = "idle"
  /\ me' = CloseQuery(me) /\ count' = count - 1
  /\ UNCHANGED <<axioms, query, todo, answer>>

ProverNext ==
  \/ \E p \in Axiom : PushAxiom(p)
  \/ StartSolving
  \/ \E q \in Query : Set(q)
  \/ Finish
  \/ StartFilter
  \/ \E p \in Pred : Valid(p)
  \/ EndFilter

ProverSpec == ProverInit /\ [][ProverNext]_proverVars

(* --------------------- The fixpoint solver's --------------------------- *)
(* tpZ3 looks a name up by its name and its sort. *)
BySort(env) == [n \in Name |-> <<n, env[n]>>]

FixInit == fme = Fresh /\ calls = 0 /\ stage = "solving" /\ last = [call |-> "create", live |-> TRUE]

Called(call, arg, result, inside) ==
  /\ calls < MaxCalls /\ calls' = calls + 1
  /\ last' = [call |-> call, arg |-> arg, answer |-> result,
              live |-> ConstsAreLive(inside, Consts(Facts(inside)))]

(* set_filter: the left-hand side is translated before the push, behind a barrier; *)
(* the candidates after it, and their declarations are cleaned before the pop.     *)
HandleVV(m, env) == Forget(m, <<VV, env[VV]>>)
TranslateLhs(m, q) == Barrier(Translate(m, q.lhs, BySort(q.env), q.env))
EndSetFilterKeepingDecls(m) == Pop(m)
EndSetFilterInScope(m) == CleanDecls(m)
EndSetFilter(m) == Pop(CleanDecls(m))

SetFilter(q) ==
  LET key    == BySort(q.env)
      before == TranslateLhs(HandleVV(fme, q.env), q)
      set    == Push(before, Terms(before, q.lhs, key))
      asked  == q.cands \ Tautologies
      inside == Translate(set, asked, key, q.env)
      Z3Valid(p) == Unsat(Push(inside, {Negated(Term(inside, p, key))}))
  IN /\ stage = "solving"
     /\ fme' = EndSetFilter(inside)
     /\ Called("set_filter", q, (q.cands \cap Tautologies) \cup {p \in asked : Z3Valid(p)},
               Push(inside, Terms(inside, asked, key)))
     /\ UNCHANGED stage

(* solve runs Dom.ctr_examples last, if -cex is given and a constraint failed its test. *)
StartExplaining ==
  /\ stage = "solving" /\ Cex /\ stage' = "explaining"
  /\ last.call = "set_filter" /\ last.answer # last.arg.cands
  /\ UNCHANGED <<fme, calls, last>>

(* is_contra: translated before the push, and never cleaned.  explain asks it which *)
(* step first failed, and after unsat_suffix which fact is the killer.              *)
IsContra(env, p) ==
  LET before == Translate(fme, {p}, BySort(env), env)
      inside == Push(before, {Term(before, p, BySort(env))})
  IN /\ stage \in {"explaining", "killers"}
     /\ fme' = Pop(inside)
     /\ Called("is_contra", p, Unsat(inside), inside)
     /\ UNCHANGED stage

(* explain goes on to the fact that killed this one. *)
NextFact == stage = "killers" /\ stage' = "explaining" /\ UNCHANGED <<fme, calls, last>>

(* unsat_suffix: translated after the push, and never cleaned.  The loop asserts  *)
(* p, then the last of ps, the one before it, ... until the context is            *)
(* inconsistent: it answers the index it stopped at, or -1 for None.  getKillStep  *)
(* fails (assertf) unless the index is one of ps.                                 *)
SuffixIndexFromOne(n, i) == n + 2 - i
SuffixIndex(n, i) == n + 1 - i
StartSuffix(m, ch, env) == Translate(Push(m, {}), {ch.p} \cup Range(ch.ps), BySort(env), env)

UnsatSuffix(env, ch) ==
  LET n       == Len(ch.ps)
      inside  == StartSuffix(fme, ch, env)
      Listed  == <<ch.p>> \o Reverse(ch.ps)
      After(i) == AssertFacts(inside, Terms(inside, {Listed[j] : j \in 1..i}, BySort(env)))
      Stops   == {i \in 1..n + 1 : Unsat(After(i))}
  IN /\ stage = "explaining" /\ ~Unsat(fme)
     /\ fme' = Pop(inside)
     /\ Called("unsat_suffix", ch,
               IF Stops = {} THEN -1 ELSE SuffixIndex(n, CHOOSE i \in Stops : \A j \in Stops : i <= j),
               After(n + 1))
     /\ stage' = IF last'.answer \in 0..n - 1 THEN "killers" ELSE "failed"

FixNext ==
  \/ \E q \in Query : SetFilter(q)
  \/ StartExplaining
  \/ \E env \in Env, p \in Pred : IsContra(env, p)
  \/ NextFact
  \/ \E env \in Env, ch \in Chain : UnsatSuffix(env, ch)

FixSpec == FixInit /\ [][FixNext]_fixVars

(* The two interfaces share no state: a process runs one of them. *)
InterfacesInit == ProverInit /\ FixInit
InterfacesNext == \/ ProverNext /\ UNCHANGED fixVars
                  \/ FixNext /\ UNCHANGED proverVars
InterfacesSpec == InterfacesInit /\ [][InterfacesNext]_<<proverVars, fixVars>>
-----------------------------------------------------------------------------
IsConst(c) == c.name \in Name /\ c.sort \in Sort /\ c.serial \in Nat /\ c.scope \in 0..me.pushes

(* The type invariant: the prover's tables and stacks keep their shape, and the *)
(* counter of pushes never goes below zero.                                     *)
ContextTypeOK ==
  /\ me.pushes \in Nat /\ me.fresh \in Nat
  /\ Len(me.scopes) > 0 /\ Len(me.decls) > 0
  /\ DOMAIN me.memo \subseteq Name /\ \A n \in DOMAIN me.memo : IsConst(me.memo[n])
  /\ \A i \in DOMAIN me.decls : me.decls[i] \subseteq Name
  /\ count \in 0..1 /\ axioms \subseteq Axiom /\ query \in Query \cup {NoQuery}
  /\ todo \subseteq Pred /\ answer \subseteq Pred
  /\ phase \in {"axioms", "idle", "finish", "filter", "valid", "failed"}

(* Every memoised constant was created in a scope that is still pushed: a pop that *)
(* leaves a name in vart or funt would make the next query use a term Z3 has freed *)
(* (filter pops, and clean_decls must drop what was declared since the barrier).   *)
MemoIsLive == ConstsAreLive(me, {me.memo[n] : n \in DOMAIN me.memo})

(* While a query runs, its test variable has the sort this query's environment gives *)
(* it, though an earlier query may have memoised it at another sort.                  *)
VVHasSortOfQuery ==
  \A c \in Consts(Facts(me)) :
     (phase \in {"finish", "filter", "valid"} /\ c.name = VV) => c.sort = query.env[VV]

(* The scope each query leaves behind (set pushes two and pops one) holds no fact: *)
(* between queries only the axioms are asserted, whatever was asked before.        *)
OnlyAxiomsStay ==
  phase = "idle" => /\ {f.pred : f \in Facts(me)} = axioms
                    /\ \A i \in 2..Len(me.scopes) : me.scopes[i].facts = {}

(* A finished query answers exactly the candidates the axioms and the left-hand side *)
(* entail: no earlier query's facts, stale constants or skipped checks get in.       *)
AnswerIsEntailed ==
  phase = "idle" =>
     answer = {p \in query.cands : p \in Tautologies \/ Entails(axioms \cup query.lhs, p)}
(* Between two calls the prover is back in its base scope with nothing asserted, *)
(* whichever calls were made.                                                    *)
CallsAreBalanced == fme.scopes = <<BaseScope>>

(* set_filter answers the candidates the left-hand side entails, though constants *)
(* of earlier calls are reused.                                                   *)
SetFilterIsEntailment ==
  last.call = "set_filter" =>
     last.answer = {p \in last.arg.cands : p \in Tautologies \/ Entails(last.arg.lhs, p)}

(* proverArch.ml: unsat_suffix answers the greatest j such that p and the predicates *)
(* from j on are inconsistent (as long as its terms are valid).                      *)
SuffixIsGreatest ==
  (last.call = "unsat_suffix" /\ last.live) =>
     LET From(j) == {last.arg.p} \cup {last.arg.ps[i] : i \in j + 1..Len(last.arg.ps)}
         Bad == {j \in 0..Len(last.arg.ps) : Contradictory(From(j))}
     IN IF Bad = {} THEN last.answer = -1
        ELSE last.answer \in Bad /\ \A j \in Bad : j <= last.answer

(* z3_api.h: a term is not used after the scope it was created in was popped. *)
TermsAreLive == last.live

(* The calls of the refinement loop respect it: clean_decls forgets what was *)
(* translated inside the scope, the barrier keeps what was translated before. *)
SolverTermsAreLive == last.call = "set_filter" => last.live

(* What dsolve's queries leave in the prover (theoremProverZ3.ml): no constant of a popped *)
(* scope in the memo, a test variable of this query's sort, no fact but the axioms.  The   *)
(* calls of tpZ3.ml give the context back as they took it, and those of the refinement     *)
(* loop use no term of a scope that is gone.                                               *)
ContextIsClean == /\ MemoIsLive /\ VVHasSortOfQuery /\ OnlyAxiomsStay
                  /\ CallsAreBalanced /\ SolverTermsAreLive

(* Both interfaces answer what is entailed: a query its candidates, set_filter its own,   *)
(* and unsat_suffix the last inconsistent suffix.                                         *)
AnswersAreEntailed == AnswerIsEntailed /\ SetFilterIsEntailment /\ SuffixIsGreatest
-----------------------------------------------------------------------------
(***************************************************************************)
(* Every query is answered by entailment, for all predicates, axioms and   *)
(* queries.  First what each operation on the record does to its fields.   *)
(***************************************************************************)
Assumptions == PredicatesAreSemantic /\ QueriesAreTyped /\ AxiomsAreClosed /\ Value # {}

Const == [name : Name, sort : Sort, serial : Nat, scope : Nat]
Memo(K) == UNION {[N -> Const] : N \in SUBSET K}
Fact == [pred : Pred, sign : BOOLEAN, consts : Memo(Name)]
Scope == [id : Nat, facts : SUBSET Fact]
Context(K) == [scopes : Seq(Scope), pushes : Nat, fresh : Nat, memo : Memo(K), decls : Seq(SUBSET K)]
NamesOf(preds) == UNION {VarsOf[p] : p \in preds}
FactsOf(s) == UNION {s[i].facts : i \in DOMAIN s}
Ids(s) == {s[i].id : i \in DOMAIN s}
Under(s) == SubSeq(s, 1, Len(s) - 1)

LEMMA MemoParts ==
  ASSUME NEW K, NEW m \in Memo(K)
  PROVE  DOMAIN m \subseteq K /\ \A n \in DOMAIN m : m[n] \in Const
  BY DEF Memo

LEMMA MemoWhole ==
  ASSUME NEW K, NEW N \in SUBSET K, NEW m \in [N -> Const]
  PROVE  m \in Memo(K)
  BY DEF Memo

LEMMA PushFields ==
  ASSUME NEW K, NEW m \in Context(K), NEW facts \in SUBSET Fact
  PROVE  /\ Push(m, facts) \in Context(K)
         /\ Push(m, facts).scopes = Append(m.scopes, [id |-> m.pushes + 1, facts |-> facts])
         /\ Push(m, facts).memo = m.memo /\ Push(m, facts).decls = m.decls
         /\ Push(m, facts).pushes = m.pushes + 1
<1> DEFINE s == Append(m.scopes, [id |-> m.pushes + 1, facts |-> facts])
<1>1. [id |-> m.pushes + 1, facts |-> facts] \in Scope
  BY DEF Context, Scope
<1>2. s \in Seq(Scope)
  <2>1. \A S : \A x \in Seq(S), y \in S : Append(x, y) \in Seq(S)
    OBVIOUS
  <2> QED BY <1>1, <2>1 DEF Context
<1>3. Push(m, facts) = [m EXCEPT !.pushes = m.pushes + 1, !.scopes = s]
  BY DEF Push, Context
<1>4. s = Append(m.scopes, [id |-> m.pushes + 1, facts |-> facts])
  OBVIOUS
<1> HIDE DEF s, Scope, Fact, Memo
<1>5. Push(m, facts) = [scopes |-> s, pushes |-> m.pushes + 1, fresh |-> m.fresh,
                        memo |-> m.memo, decls |-> m.decls]
  BY <1>3 DEF Context
<1> QED BY <1>2, <1>4, <1>5 DEF Context

LEMMA UnderAppend ==
  ASSUME NEW S, NEW s \in Seq(S), NEW e \in S
  PROVE  /\ Under(Append(s, e)) = s /\ Len(Append(s, e)) = Len(s) + 1 /\ Len(s) \in Nat
         /\ Append(s, e)[Len(s) + 1] = e /\ Append(s, e) \in Seq(S)
<1>1. /\ Len(Append(s, e)) = Len(s) + 1 /\ Len(s) \in Nat /\ Append(s, e)[Len(s) + 1] = e
      /\ Append(s, e) \in Seq(S)
  OBVIOUS
<1>2. SubSeq(Append(s, e), 1, Len(s)) = s
  <2> DEFINE t == SubSeq(Append(s, e), 1, Len(s))
  <2>1. \A i \in 1..Len(s) : Append(s, e)[i] = s[i] /\ s[i] \in S
    OBVIOUS
  <2>2. t \in Seq(S) /\ Len(t) = Len(s) /\ \A i \in 1..Len(s) : t[i] = s[i]
    BY <1>1, <2>1, SubSeqProperties
  <2> HIDE DEF t
  <2>3. t = s
    BY <2>2, SeqEqual
  <2> QED BY <2>3 DEF t
<1> QED BY <1>1, <1>2 DEF Under

LEMMA UnderSeq ==
  ASSUME NEW S, NEW s \in Seq(S), Len(s) > 1
  PROVE  /\ Under(s) \in Seq(S) /\ Len(Under(s)) = Len(s) - 1
         /\ \A i \in 1..Len(s) - 1 : Under(s)[i] = s[i]
         /\ Ids(s) = Ids(Under(s)) \cup {s[Len(s)].id}
         /\ FactsOf(s) = FactsOf(Under(s)) \cup s[Len(s)].facts
<1>1. Len(s) \in Nat /\ \A i \in 1..Len(s) - 1 : s[i] \in S
  OBVIOUS
<1>2. /\ Under(s) \in Seq(S) /\ Len(Under(s)) = Len(s) - 1
      /\ \A i \in 1..Len(s) - 1 : Under(s)[i] = s[i]
  BY <1>1, SubSeqProperties DEF Under
<1>3. DOMAIN Under(s) = 1..Len(s) - 1 /\ DOMAIN s = 1..Len(s)
  BY <1>2, LenProperties
<1>4. 1..Len(s) = (1..Len(s) - 1) \cup {Len(s)}
  BY <1>1
<1>5. Ids(s) = Ids(Under(s)) \cup {s[Len(s)].id}
  BY <1>2, <1>3, <1>4 DEF Ids
<1>6. FactsOf(s) = FactsOf(Under(s)) \cup s[Len(s)].facts
  BY <1>2, <1>3, <1>4 DEF FactsOf
<1> QED BY <1>2, <1>5, <1>6

LEMMA SeenAppend ==
  ASSUME NEW s \in Seq(Scope), NEW e \in Scope
  PROVE  /\ FactsOf(Append(s, e)) = FactsOf(s) \cup e.facts
         /\ Ids(Append(s, e)) = Ids(s) \cup {e.id}
<1>1. /\ DOMAIN Append(s, e) = (1..Len(s)) \cup {Len(s) + 1} /\ DOMAIN s = 1..Len(s) /\ Len(s) \in Nat
      /\ \A i \in 1..Len(s) : Append(s, e)[i] = s[i]
      /\ Append(s, e)[Len(s) + 1] = e
  OBVIOUS
<1> QED BY <1>1 DEF FactsOf, Ids

LEMMA PopFields ==
  ASSUME NEW K, NEW m \in Context(K), Len(m.scopes) > 1
  PROVE  /\ Pop(m) \in Context(K) /\ Pop(m).scopes = Under(m.scopes)
         /\ Pop(m).memo = m.memo /\ Pop(m).decls = m.decls /\ Pop(m).pushes = m.pushes
<1> DEFINE s == Under(m.scopes)
<1>1. s \in Seq(Scope)
  BY UnderSeq DEF Context
<1>2. Pop(m) = [m EXCEPT !.scopes = s]
  BY DEF Pop, Under
<1> HIDE DEF s, Scope, Memo
<1>3. Pop(m) = [scopes |-> s, pushes |-> m.pushes, fresh |-> m.fresh, memo |-> m.memo, decls |-> m.decls]
  BY <1>2 DEF Context
<1> QED BY <1>1, <1>3 DEF Context, s

LEMMA BarrierFields ==
  ASSUME NEW K, NEW m \in Context(K)
  PROVE  /\ Barrier(m) \in Context(K) /\ Barrier(m).scopes = m.scopes /\ Barrier(m).memo = m.memo
         /\ Barrier(m).pushes = m.pushes
         /\ Barrier(m).decls # <<>> /\ Barrier(m).decls[1] = {}
<1> DEFINE d == << {} >> \o m.decls
<1>1. d \in Seq(SUBSET K) /\ d # <<>> /\ d[1] = {}
  <2>1. << {} >> \in Seq(SUBSET K) /\ Len(<< {} >>) = 1 /\ << {} >>[1] = {} /\ m.decls \in Seq(SUBSET K)
    BY DEF Context
  <2>2. /\ d \in Seq(SUBSET K) /\ Len(d) = Len(<< {} >>) + Len(m.decls)
        /\ \A i \in 1..Len(<< {} >>) + Len(m.decls) : d[i] = IF i <= Len(<< {} >>) THEN << {} >>[i]
                                                             ELSE m.decls[i - Len(<< {} >>)]
    BY <2>1, ConcatProperties
  <2>3. Len(m.decls) \in Nat
    BY <2>1
  <2>4. 1 \in 1..Len(<< {} >>) + Len(m.decls)
    BY <2>1, <2>3
  <2> QED BY <2>1, <2>2, <2>3, <2>4
<1>2. Barrier(m) = [m EXCEPT !.decls = d]
  BY DEF Barrier
<1> HIDE DEF d, Scope, Memo
<1>3. Barrier(m) = [scopes |-> m.scopes, pushes |-> m.pushes, fresh |-> m.fresh, memo |-> m.memo, decls |-> d]
  BY <1>2 DEF Context
<1> QED BY <1>1, <1>3 DEF Context

LEMMA ForgetFields ==
  ASSUME NEW K, NEW m \in Context(K), NEW k
  PROVE  /\ Forget(m, k) \in Context(K) /\ Forget(m, k).scopes = m.scopes /\ Forget(m, k).decls = m.decls
         /\ Forget(m, k).pushes = m.pushes
         /\ DOMAIN Forget(m, k).memo = DOMAIN m.memo \ {k}
         /\ \A n \in DOMAIN m.memo \ {k} : Forget(m, k).memo[n] = m.memo[n]
<1> DEFINE f == [j \in DOMAIN m.memo \ {k} |-> m.memo[j]]
<1>1. m.memo \in Memo(K)
  BY DEF Context
<1>2. f \in Memo(K)
  <2>1. DOMAIN m.memo \ {k} \in SUBSET K /\ f \in [DOMAIN m.memo \ {k} -> Const]
    BY <1>1, MemoParts
  <2> QED BY <2>1, MemoWhole
<1>3. DOMAIN f = DOMAIN m.memo \ {k} /\ \A n \in DOMAIN m.memo \ {k} : f[n] = m.memo[n]
  OBVIOUS
<1>4. Forget(m, k) = [m EXCEPT !.memo = f]
  BY DEF Forget
<1> HIDE DEF f, Scope, Memo
<1>5. Forget(m, k) = [scopes |-> m.scopes, pushes |-> m.pushes, fresh |-> m.fresh, memo |-> f, decls |-> m.decls]
  BY <1>4 DEF Context
<1> QED BY <1>2, <1>3, <1>5 DEF Context

LEMMA CleanFields ==
  ASSUME NEW K, NEW m \in Context(K), m.decls # <<>>
  PROVE  /\ CleanDecls(m) \in Context(K) /\ CleanDecls(m).scopes = m.scopes
         /\ CleanDecls(m).pushes = m.pushes /\ CleanDecls(m).decls # <<>>
         /\ DOMAIN CleanDecls(m).memo = DOMAIN m.memo \ m.decls[1]
         /\ \A n \in DOMAIN m.memo \ m.decls[1] : CleanDecls(m).memo[n] = m.memo[n]
<1> DEFINE f == [j \in DOMAIN m.memo \ m.decls[1] |-> m.memo[j]]
           d == IF Len(m.decls) = 1 THEN << {} >> ELSE Tail(m.decls)
<1>1. m.memo \in Memo(K) /\ m.decls \in Seq(SUBSET K)
  BY DEF Context
<1>2. f \in Memo(K)
  <2>1. DOMAIN m.memo \ m.decls[1] \in SUBSET K /\ f \in [DOMAIN m.memo \ m.decls[1] -> Const]
    BY <1>1, MemoParts
  <2> QED BY <2>1, MemoWhole
<1>3. DOMAIN f = DOMAIN m.memo \ m.decls[1] /\ \A n \in DOMAIN m.memo \ m.decls[1] : f[n] = m.memo[n]
  OBVIOUS
<1>4. d \in Seq(SUBSET K) /\ d # <<>>
  <2>1. /\ Tail(m.decls) \in Seq(SUBSET K) /\ Len(Tail(m.decls)) = Len(m.decls) - 1
        /\ Len(m.decls) \in Nat \ {0}
    BY <1>1, HeadTailProperties, EmptySeq
  <2>2. << {} >> \in Seq(SUBSET K) /\ << {} >> # <<>>
    OBVIOUS
  <2>3. Len(m.decls) # 1 => Tail(m.decls) # <<>>
    <3>1. Len(m.decls) # 1 => Len(Tail(m.decls)) # 0
      BY <2>1
    <3>2. Len(<<>>) = 0
      OBVIOUS
    <3> QED BY <3>1, <3>2
  <2> QED BY <2>1, <2>2, <2>3
<1>5. CleanDecls(m) = [m EXCEPT !.memo = f, !.decls = d]
  BY DEF CleanDecls
<1> HIDE DEF f, d, Scope, Memo
<1>6. CleanDecls(m) = [scopes |-> m.scopes, pushes |-> m.pushes, fresh |-> m.fresh, memo |-> f, decls |-> d]
  BY <1>5 DEF Context
<1> QED BY <1>2, <1>3, <1>4, <1>6 DEF Context

\* A way to look names up: each has its own key.
Keyed(key, K) == key \in [Name -> K] /\ \A n, x \in Name : key[n] = key[x] => n = x
KeysOf(preds, key) == {key[n] : n \in NamesOf(preds)}

LEMMA ByPathIsKeyed == Keyed(ByPath, Name)
  BY DEF Keyed, ByPath

LEMMA KeysByPath ==
  ASSUME PredicatesAreSemantic, NEW preds \in SUBSET Pred
  PROVE  KeysOf(preds, ByPath) = NamesOf(preds) /\ NamesOf(preds) \subseteq Name
<1>1. NamesOf(preds) \subseteq Name
  BY DEF NamesOf, PredicatesAreSemantic
<1> QED BY <1>1 DEF KeysOf, ByPath

\* t is m with constants for the names of preds that the memo lacked, in its top scope.
TranslatedAt(t, m, preds, key, env, K) ==
  /\ t \in Context(K) /\ t.scopes = m.scopes /\ t.pushes = m.pushes /\ t.decls # <<>>
  /\ t.decls[1] = m.decls[1] \cup (KeysOf(preds, key) \ DOMAIN m.memo)
  /\ DOMAIN t.memo = DOMAIN m.memo \cup KeysOf(preds, key)
  /\ \A k \in DOMAIN m.memo : t.memo[k] = m.memo[k]
  /\ \A n \in NamesOf(preds) : key[n] \notin DOMAIN m.memo =>
       /\ t.memo[key[n]].name = n /\ t.memo[key[n]].sort = env[n]
       /\ t.memo[key[n]].scope = m.scopes[Len(m.scopes)].id

LEMMA TranslateFieldsAt ==
  ASSUME PredicatesAreSemantic, NEW K, NEW key, Keyed(key, K), NEW m \in Context(K),
         NEW preds \in SUBSET Pred, NEW env \in [Name -> Sort], m.scopes # <<>>, m.decls # <<>>
  PROVE  TranslatedAt(Translate(m, preds, key, env), m, preds, key, env, K)
<1> DEFINE new == KeysOf(preds, key) \ DOMAIN m.memo
           id == m.scopes[Len(m.scopes)].id
           of(k) == CHOOSE n \in NamesOf(preds) : key[n] = k
           c(k) == [name |-> of(k), sort |-> env[of(k)], serial |-> m.fresh, scope |-> id]
           consts == [k \in new |-> c(k)]
           f == [k \in DOMAIN m.memo \cup new |-> IF k \in DOMAIN m.memo THEN m.memo[k] ELSE c(k)]
           d == [m.decls EXCEPT ![1] = @ \cup new]
<1>1. NamesOf(preds) \subseteq Name /\ m.memo \in Memo(K) /\ m.decls \in Seq(SUBSET K) /\ m.fresh \in Nat
  BY DEF NamesOf, PredicatesAreSemantic, Context
<1>2. id \in Nat
  <2>1. m.scopes \in Seq(Scope) /\ Len(m.scopes) \in 1..Len(m.scopes)
    <3>1. m.scopes \in Seq(Scope)
      BY DEF Context
    <3> QED BY <3>1, EmptySeq
  <2>2. m.scopes[Len(m.scopes)] \in Scope
    BY <2>1, ElementOfSeq
  <2> QED BY <2>2 DEF Scope
<1>a. \A n \in NamesOf(preds) : of(key[n]) = n
  <2> SUFFICES ASSUME NEW n \in NamesOf(preds) PROVE of(key[n]) = n
    OBVIOUS
  <2>1. \A x \in NamesOf(preds) : key[x] = key[n] => x = n
    BY <1>1 DEF Keyed
  <2> QED BY <2>1
<1>b. \A k \in KeysOf(preds, key) : of(k) \in NamesOf(preds) /\ key[of(k)] = k /\ k \in K
  BY <1>1, <1>a DEF KeysOf, Keyed
<1> HIDE DEF of
<1>3. f \in Memo(K)
  <2>1. \A k \in new : c(k) \in Const
    BY <1>1, <1>2, <1>b DEF Const
  <2>2. DOMAIN m.memo \subseteq K /\ \A k \in DOMAIN m.memo : m.memo[k] \in Const
    BY <1>1, MemoParts
  <2>3. DOMAIN m.memo \cup new \in SUBSET K /\ f \in [DOMAIN m.memo \cup new -> Const]
    BY <2>1, <2>2, <1>b
  <2> QED BY <2>3, MemoWhole
<1>4. d \in Seq(SUBSET K) /\ d # <<>> /\ d[1] = m.decls[1] \cup new
  <2>1. 1 \in 1..Len(m.decls) /\ Len(m.decls) # 0
    BY <1>1, EmptySeq
  <2>2. m.decls[1] \cup new \in SUBSET K
    BY <2>1, <1>1, <1>b, ElementOfSeq
  <2>3. d \in Seq(SUBSET K) /\ Len(d) = Len(m.decls) /\ d[1] = m.decls[1] \cup new
    BY <2>1, <2>2, <1>1, ExceptSeq
  <2>4. Len(<<>>) = 0
    OBVIOUS
  <2> QED BY <2>1, <2>3, <2>4
<1>5. Translate(m, preds, key, env)
        = [m EXCEPT !.memo = f, !.decls = d, !.fresh = m.fresh + 1]
  <2> DEFINE a == {n \in UNION {VarsOf[p] : p \in preds} : key[n] \notin DOMAIN m.memo}
             b == [k \in {key[n] : n \in a} |-> NewConst(m, CHOOSE n \in a : key[n] = k, env)]
  <2>1. Translate(m, preds, key, env)
          = [m EXCEPT !.memo = [k \in DOMAIN @ \cup DOMAIN b |-> IF k \in DOMAIN @ THEN @[k] ELSE b[k]],
                      !.decls[1] = @ \cup DOMAIN b,
                      !.fresh = @ + 1]
    BY DEF Translate
  <2>2. b = consts
    <3>1. a = {n \in NamesOf(preds) : key[n] \notin DOMAIN m.memo} /\ {key[n] : n \in a} = new
      BY DEF NamesOf, KeysOf
    <3>2. \A k \in new : (CHOOSE n \in a : key[n] = k) = of(k)
      <4> SUFFICES ASSUME NEW k \in new PROVE (CHOOSE n \in a : key[n] = k) = of(k)
        OBVIOUS
      <4>1. of(k) \in a /\ key[of(k)] = k
        BY <1>b, <3>1
      <4>2. \A n \in a : key[n] = k => n = of(k)
        BY <3>1, <1>a
      <4> HIDE DEF a
      <4> QED BY <4>1, <4>2
    <3>3. \A k : NewConst(m, of(k), env) = c(k)
      BY DEF NewConst, Top
    <3> HIDE DEF new, c, a
    <3> QED BY <3>1, <3>2, <3>3
  <2>3. DOMAIN b = new
    BY <2>2
  <2>4. [k \in DOMAIN m.memo \cup DOMAIN b |-> IF k \in DOMAIN m.memo THEN m.memo[k] ELSE b[k]] = f
    <3> HIDE DEF b
    <3> QED BY <2>2
  <2> HIDE DEF new, c, consts, f, a, b
  <2>5. Translate(m, preds, key, env) = [m EXCEPT !.memo = f, !.decls[1] = @ \cup new, !.fresh = @ + 1]
    BY <2>1, <2>3, <2>4
  <2> QED BY <2>5
<1>6. /\ DOMAIN f = DOMAIN m.memo \cup KeysOf(preds, key)
      /\ \A k \in DOMAIN m.memo : f[k] = m.memo[k]
      /\ \A n \in NamesOf(preds) : key[n] \notin DOMAIN m.memo =>
           f[key[n]].name = n /\ f[key[n]].sort = env[n] /\ f[key[n]].scope = id
  <2>1. \A n \in NamesOf(preds) : key[n] \in KeysOf(preds, key)
    BY DEF KeysOf
  <2>2. \A n \in NamesOf(preds) : key[n] \notin DOMAIN m.memo => f[key[n]] = c(key[n])
    BY <2>1
  <2>3. \A k : c(k).name = of(k) /\ c(k).sort = env[of(k)] /\ c(k).scope = id
    OBVIOUS
  <2>4. DOMAIN f = DOMAIN m.memo \cup KeysOf(preds, key) /\ \A k \in DOMAIN m.memo : f[k] = m.memo[k]
    OBVIOUS
  <2> HIDE DEF f, c, id
  <2> QED BY <2>2, <2>3, <2>4, <1>a
<1>7. d[1] = m.decls[1] \cup (KeysOf(preds, key) \ DOMAIN m.memo)
  BY <1>4
<1>8. id = m.scopes[Len(m.scopes)].id
  OBVIOUS
<1> HIDE DEF new, id, c, consts, f, d, Scope, Memo
<1>9. Translate(m, preds, key, env) = [scopes |-> m.scopes, pushes |-> m.pushes, fresh |-> m.fresh + 1, memo |-> f, decls |-> d]
  BY <1>5 DEF Context
<1> DEFINE t == Translate(m, preds, key, env)
<1> HIDE DEF t
<1>10. t = [scopes |-> m.scopes, pushes |-> m.pushes, fresh |-> m.fresh + 1, memo |-> f, decls |-> d]
  BY <1>9 DEF t
<1>11. TranslatedAt(t, m, preds, key, env, K)
  BY <1>1, <1>3, <1>4, <1>6, <1>7, <1>8, <1>10 DEF Context, TranslatedAt
<1> QED BY <1>11 DEF t

\* The same for names that are their own keys.
Translated(t, m, preds, env) ==
  /\ t \in Context(Name) /\ t.scopes = m.scopes /\ t.pushes = m.pushes /\ t.decls # <<>>
  /\ t.decls[1] = m.decls[1] \cup (NamesOf(preds) \ DOMAIN m.memo)
  /\ DOMAIN t.memo = DOMAIN m.memo \cup NamesOf(preds)
  /\ \A n \in DOMAIN m.memo : t.memo[n] = m.memo[n]
  /\ \A n \in NamesOf(preds) \ DOMAIN m.memo :
       /\ t.memo[n].name = n /\ t.memo[n].sort = env[n]
       /\ t.memo[n].scope = m.scopes[Len(m.scopes)].id

LEMMA TranslateFields ==
  ASSUME PredicatesAreSemantic, NEW m \in Context(Name), NEW preds \in SUBSET Pred,
         NEW env \in [Name -> Sort], m.scopes # <<>>, m.decls # <<>>
  PROVE  Translated(Translate(m, preds, ByPath, env), m, preds, env)
<1> DEFINE t == Translate(m, preds, ByPath, env)
<1>1. TranslatedAt(t, m, preds, ByPath, env, Name)
  BY TranslateFieldsAt, ByPathIsKeyed
<1>2. KeysOf(preds, ByPath) = NamesOf(preds) /\ NamesOf(preds) \subseteq Name
  BY KeysByPath
<1>3. \A n \in NamesOf(preds) : ByPath[n] = n
  BY <1>2 DEF ByPath
<1> HIDE DEF t
<1>4. \A n \in NamesOf(preds) \ DOMAIN m.memo :
        /\ t.memo[n].name = n /\ t.memo[n].sort = env[n]
        /\ t.memo[n].scope = m.scopes[Len(m.scopes)].id
  BY <1>1, <1>3 DEF TranslatedAt
<1>5. Translated(t, m, preds, env)
  BY <1>1, <1>2, <1>4 DEF TranslatedAt, Translated
<1> QED BY <1>5 DEF t

\* a is m with facts added to its top scope.
AssertedAt(a, m, facts, K) ==
  /\ a \in Context(K) /\ a.memo = m.memo /\ a.pushes = m.pushes /\ a.decls = m.decls
  /\ Len(a.scopes) = Len(m.scopes) /\ Ids(a.scopes) = Ids(m.scopes)
  /\ \A i \in 1..Len(m.scopes) : a.scopes[i].id = m.scopes[i].id
  /\ a.scopes[Len(m.scopes)].facts = m.scopes[Len(m.scopes)].facts \cup facts
  /\ FactsOf(a.scopes) = FactsOf(m.scopes) \cup facts

LEMMA AssertFieldsAt ==
  ASSUME NEW K, NEW m \in Context(K), NEW facts \in SUBSET Fact, m.scopes # <<>>,
         NEW a, a = AssertFacts(m, facts)
  PROVE  AssertedAt(a, m, facts, K)
<1> DEFINE l == Len(m.scopes)
           e == [m.scopes[l] EXCEPT !.facts = @ \cup facts]
           s == [m.scopes EXCEPT ![l] = e]
<1>1. m.scopes \in Seq(Scope) /\ l \in 1..l /\ l \in Nat /\ DOMAIN m.scopes = 1..l
  <2>1. m.scopes \in Seq(Scope)
    BY DEF Context
  <2> QED BY <2>1, EmptySeq
<1>2. m.scopes[l] \in Scope
  BY <1>1, ElementOfSeq
<1>3. e \in Scope /\ e.id = m.scopes[l].id /\ e.facts = m.scopes[l].facts \cup facts
  BY <1>2 DEF Scope
<1> HIDE DEF e
<1>4. s \in Seq(Scope) /\ Len(s) = l /\ s[l] = e /\ DOMAIN s = 1..l /\ \A i \in 1..l : i # l => s[i] = m.scopes[i]
  BY <1>1, <1>3, ExceptSeq
<1>5. AssertFacts(m, facts) = [m EXCEPT !.scopes = s]
  BY DEF AssertFacts, Context, e
<1> HIDE DEF s, l, Scope, Memo
<1>6. \A i \in 1..l : s[i].id = m.scopes[i].id
  BY <1>3, <1>4
<1>7. Ids(s) = Ids(m.scopes)
  BY <1>1, <1>4, <1>6 DEF Ids
<1>8. FactsOf(s) = FactsOf(m.scopes) \cup facts
  <2>1. \A i \in 1..l : s[i].facts = m.scopes[i].facts \cup (IF i = l THEN facts ELSE {})
    BY <1>3, <1>4
  <2> QED BY <2>1, <1>1, <1>4 DEF FactsOf
<1>9. a = [scopes |-> s, pushes |-> m.pushes, fresh |-> m.fresh, memo |-> m.memo, decls |-> m.decls]
  BY <1>5 DEF Context
<1>10. a \in Context(K) /\ a.scopes = s /\ a.memo = m.memo /\ a.pushes = m.pushes /\ a.decls = m.decls
  BY <1>4, <1>9 DEF Context
<1> QED BY <1>3, <1>4, <1>6, <1>7, <1>8, <1>10 DEF AssertedAt, l

\* The same for an only scope.
Asserted(a, m, facts) ==
  /\ a \in Context(Name) /\ a.memo = m.memo /\ a.pushes = m.pushes /\ a.decls = m.decls
  /\ Len(a.scopes) = 1 /\ a.scopes[1].id = m.scopes[1].id
  /\ a.scopes[1].facts = m.scopes[1].facts \cup facts

LEMMA AssertFields ==
  ASSUME NEW m \in Context(Name), NEW facts \in SUBSET Fact, Len(m.scopes) = 1,
         NEW a, a = AssertFacts(m, facts)
  PROVE  Asserted(a, m, facts)
<1>1. m.scopes # <<>>
  <2>1. Len(<<>>) = 0
    OBVIOUS
  <2> QED BY <2>1
<1>2. AssertedAt(a, m, facts, Name)
  BY <1>1, AssertFieldsAt
<1> QED BY <1>2 DEF AssertedAt, Asserted

(* ------------------ What the prover's verdict says ----------------------- *)
Named(M) == \A n \in DOMAIN M : M[n].name = n
Shaped(F, M) == \A f \in F : /\ f.pred \in Pred /\ f.sign \in BOOLEAN
                             /\ VarsOf[f.pred] \subseteq DOMAIN M
                             /\ f.consts = [n \in VarsOf[f.pred] |-> M[n]]
Meant(w, f) == ([n \in VarsOf[f.pred] |-> w[n]] \in Holds[f.pred]) = f.sign

\* Facts whose names all stand for the memo's constants are inconsistent when no valuation
\* of the names satisfies them: a constant knows the one name it stands for.
LEMMA UnsatIsNoValuation ==
  ASSUME PredicatesAreSemantic, Value # {}, NEW M \in Memo(Name), Named(M), NEW F, Shaped(F, M)
  PROVE  (\A v \in [Consts(F) -> Value] : \E f \in F : ~Satisfies(v, f))
           <=> (\A w \in [Name -> Value] : \E f \in F : ~Meant(w, f))
<1>1. ASSUME NEW f \in F
      PROVE  /\ DOMAIN f.consts = VarsOf[f.pred]
             /\ \A n \in VarsOf[f.pred] : /\ n \in Name /\ n \in DOMAIN M /\ f.consts[n] = M[n]
                                          /\ M[n].name = n /\ M[n] \in Consts(F)
  <2>1. DOMAIN f.consts = VarsOf[f.pred] /\ \A n \in VarsOf[f.pred] : f.consts[n] = M[n]
    BY DEF Shaped
  <2>2. VarsOf[f.pred] \subseteq Name /\ VarsOf[f.pred] \subseteq DOMAIN M
    BY DEF Shaped, PredicatesAreSemantic
  <2>3. \A n \in VarsOf[f.pred] : f.consts[n] \in Consts(F)
    BY <2>1 DEF Consts
  <2> QED BY <2>1, <2>2, <2>3 DEF Named
<1>2. ASSUME NEW v, NEW w, NEW f \in F, \A n \in VarsOf[f.pred] : v[M[n]] = w[n]
      PROVE  Satisfies(v, f) = Meant(w, f)
  <2>1. [n \in DOMAIN f.consts |-> v[f.consts[n]]] = [n \in VarsOf[f.pred] |-> w[n]]
    BY <1>1, <1>2
  <2> QED BY <2>1, Zenon DEF Satisfies, Meant
<1>3. ASSUME \A v \in [Consts(F) -> Value] : \E f \in F : ~Satisfies(v, f), NEW w \in [Name -> Value]
      PROVE  \E f \in F : ~Meant(w, f)
  <2> DEFINE v == [c \in Consts(F) |-> w[c.name]]
  <2>1. \A c \in Consts(F) : c.name \in Name
    <3> SUFFICES ASSUME NEW f \in F, NEW n \in DOMAIN f.consts PROVE f.consts[n].name \in Name
      BY DEF Consts
    <3> QED BY <1>1
  <2>2. v \in [Consts(F) -> Value]
    BY <2>1
  <2>3. PICK f \in F : ~Satisfies(v, f)
    BY <1>3, <2>2
  <2>4. \A n \in VarsOf[f.pred] : v[M[n]] = w[n]
    BY <1>1
  <2> HIDE DEF v
  <2> QED BY <2>3, <2>4, <1>2
<1>4. ASSUME \A w \in [Name -> Value] : \E f \in F : ~Meant(w, f), NEW v \in [Consts(F) -> Value]
      PROVE  \E f \in F : ~Satisfies(v, f)
  <2> DEFINE w == [n \in Name |-> IF n \in DOMAIN M /\ M[n] \in Consts(F) THEN v[M[n]] ELSE CHOOSE x \in Value : TRUE]
  <2>1. w \in [Name -> Value]
    OBVIOUS
  <2>2. PICK f \in F : ~Meant(w, f)
    BY <1>4, <2>1
  <2>3. \A n \in VarsOf[f.pred] : v[M[n]] = w[n]
    BY <1>1
  <2> HIDE DEF w
  <2> QED BY <2>2, <2>3, <1>2
<1> QED BY <1>3, <1>4

LEMMA TermParts ==
  ASSUME NEW m, NEW p, NEW key
  PROVE  LET consts == [n \in VarsOf[p] |-> m.memo[key[n]]]
         IN /\ Term(m, p, key) = [pred |-> p, sign |-> TRUE, consts |-> consts]
            /\ Negated(Term(m, p, key)) = [pred |-> p, sign |-> FALSE, consts |-> consts]
<1> DEFINE b == [n \in VarsOf[p] |-> m.memo[key[n]]]
           t == Term(m, p, key)
<1>1. t = [pred |-> p, sign |-> TRUE, consts |-> b]
  BY DEF Term
<1> HIDE DEF b
<1>2. Negated(t) = [pred |-> p, sign |-> ~TRUE, consts |-> b]
  <2>1. Negated(t) = [t EXCEPT !.sign = ~t.sign]
    BY DEF Negated
  <2> HIDE DEF t
  <2>2. t.sign = TRUE
    BY <1>1
  <2>3. [t EXCEPT !.sign = ~TRUE] = [pred |-> p, sign |-> ~TRUE, consts |-> b]
    BY <1>1
  <2> QED BY <2>1, <2>2, <2>3, Zenon
<1>3. (~TRUE) = FALSE
  OBVIOUS
<1>4. Negated(t) = [pred |-> p, sign |-> FALSE, consts |-> b]
  BY <1>2, <1>3, Zenon
<1> HIDE DEF t
<1> QED BY <1>1, <1>4 DEF b, t

LEMMA TermsAgreeAt ==
  ASSUME NEW key, NEW m, NEW k, NEW preds,
         \A n \in NamesOf(preds) : m.memo[key[n]] = k.memo[key[n]]
  PROVE  Terms(m, preds, key) = Terms(k, preds, key)
<1>1. ASSUME NEW p \in preds PROVE Term(m, p, key) = Term(k, p, key)
  <2> DEFINE a == [n \in VarsOf[p] |-> m.memo[key[n]]]
             b == [n \in VarsOf[p] |-> k.memo[key[n]]]
  <2>1. a = b
    BY DEF NamesOf
  <2>2. /\ Term(m, p, key) = [pred |-> p, sign |-> TRUE, consts |-> a]
        /\ Term(k, p, key) = [pred |-> p, sign |-> TRUE, consts |-> b]
    BY DEF Term
  <2> HIDE DEF a, b
  <2> QED BY <2>1, <2>2
<1> QED BY <1>1 DEF Terms

LEMMA TermsAgree ==
  ASSUME PredicatesAreSemantic, NEW m, NEW k, NEW preds \in SUBSET Pred,
         \A n \in NamesOf(preds) : m.memo[n] = k.memo[n]
  PROVE  Terms(m, preds, ByPath) = Terms(k, preds, ByPath)
<1>1. \A n \in NamesOf(preds) : ByPath[n] = n
  BY KeysByPath DEF ByPath
<1>2. \A n \in NamesOf(preds) : m.memo[ByPath[n]] = k.memo[ByPath[n]]
  BY <1>1
<1> QED BY <1>2, TermsAgreeAt

\* The constants the names of a call stand for.
View(m, key) == [n \in {x \in Name : key[x] \in DOMAIN m.memo} |-> m.memo[key[n]]]

LEMMA ViewParts ==
  ASSUME NEW K, NEW key, Keyed(key, K), NEW m \in Context(K)
  PROVE  /\ View(m, key) \in Memo(Name)
         /\ \A x : x \in DOMAIN View(m, key) <=> x \in Name /\ key[x] \in DOMAIN m.memo
         /\ \A n \in DOMAIN View(m, key) : View(m, key)[n] = m.memo[key[n]]
<1>1. m.memo \in Memo(K)
  BY DEF Context
<1>2. \A k \in DOMAIN m.memo : m.memo[k] \in Const
  BY <1>1, MemoParts
<1> DEFINE N == {x \in Name : key[x] \in DOMAIN m.memo}
<1>3. View(m, key) \in [N -> Const] /\ N \in SUBSET Name
  BY <1>2 DEF View
<1>4. View(m, key) \in Memo(Name)
  <2> HIDE DEF N
  <2> QED BY <1>3, MemoWhole
<1> QED BY <1>3, <1>4 DEF View

LEMMA ViewByPath ==
  ASSUME NEW m \in Context(Name)
  PROVE  View(m, ByPath) = m.memo
<1>1. m.memo \in Memo(Name)
  BY DEF Context
<1>2. DOMAIN m.memo \subseteq Name /\ m.memo = [n \in DOMAIN m.memo |-> m.memo[n]]
  BY <1>1, MemoParts DEF Memo
<1>3. {x \in Name : ByPath[x] \in DOMAIN m.memo} = DOMAIN m.memo
  BY <1>2 DEF ByPath
<1>4. \A n \in DOMAIN m.memo : ByPath[n] = n
  BY <1>2 DEF ByPath
<1> QED BY <1>2, <1>3, <1>4 DEF View

LEMMA TermsTypedAt ==
  ASSUME PredicatesAreSemantic, NEW K, NEW key, Keyed(key, K), NEW m \in Context(K),
         NEW preds \in SUBSET Pred, KeysOf(preds, key) \subseteq DOMAIN m.memo
  PROVE  Terms(m, preds, key) \in SUBSET Fact /\ Shaped(Terms(m, preds, key), View(m, key))
<1> DEFINE M == View(m, key)
           c(p) == [n \in VarsOf[p] |-> M[n]]
<1>1. M \in Memo(Name) /\ (\A x : x \in DOMAIN M <=> x \in Name /\ key[x] \in DOMAIN m.memo)
      /\ \A n \in DOMAIN M : M[n] = m.memo[key[n]]
  BY ViewParts
<1> HIDE DEF M
<1>2. ASSUME NEW p \in preds
      PROVE  /\ Term(m, p, key) = [pred |-> p, sign |-> TRUE, consts |-> c(p)]
             /\ VarsOf[p] \subseteq DOMAIN M /\ p \in Pred /\ c(p) \in Memo(Name)
  <2>1. VarsOf[p] \in SUBSET Name /\ p \in Pred
    BY DEF PredicatesAreSemantic
  <2>2. VarsOf[p] \subseteq DOMAIN M
    BY <2>1, <1>1 DEF KeysOf, NamesOf
  <2>3. c(p) \in [VarsOf[p] -> Const]
    BY <1>1, <2>2, MemoParts
  <2>4. c(p) \in Memo(Name)
    BY <2>1, <2>3, MemoWhole
  <2>5. c(p) = [n \in VarsOf[p] |-> m.memo[key[n]]]
    BY <1>1, <2>2
  <2>6. Term(m, p, key) = [pred |-> p, sign |-> TRUE, consts |-> [n \in VarsOf[p] |-> m.memo[key[n]]]]
    BY DEF Term
  <2> QED BY <2>1, <2>2, <2>4, <2>5, <2>6
<1>3. ASSUME NEW f \in Terms(m, preds, key)
      PROVE  /\ f \in Fact
             /\ f.pred \in Pred /\ f.sign \in BOOLEAN
             /\ VarsOf[f.pred] \subseteq DOMAIN M /\ f.consts = c(f.pred)
  <2>1. PICK p \in preds : f = Term(m, p, key)
    BY DEF Terms
  <2>2. f = [pred |-> p, sign |-> TRUE, consts |-> c(p)] /\ p \in Pred /\ c(p) \in Memo(Name)
    BY <2>1, <1>2
  <2>3. VarsOf[p] \subseteq DOMAIN M
    BY <1>2
  <2> HIDE DEF c, Memo
  <2>4. f.pred = p /\ f.sign = TRUE /\ f.consts = c(p)
    BY <2>2
  <2>5. f \in Fact
    BY <2>2 DEF Fact
  <2> QED BY <2>2, <2>3, <2>4, <2>5
<1>4. \A f \in Terms(m, preds, key) : f.consts = [n \in VarsOf[f.pred] |-> M[n]]
  BY <1>3
<1>5. Terms(m, preds, key) \in SUBSET Fact /\ Shaped(Terms(m, preds, key), M)
  BY <1>3, <1>4 DEF Shaped
<1> QED BY <1>5 DEF M

LEMMA TermsTyped ==
  ASSUME PredicatesAreSemantic, NEW m \in Context(Name), NEW preds \in SUBSET Pred,
         NamesOf(preds) \subseteq DOMAIN m.memo
  PROVE  Terms(m, preds, ByPath) \in SUBSET Fact /\ Shaped(Terms(m, preds, ByPath), m.memo)
<1>1. KeysOf(preds, ByPath) \subseteq DOMAIN m.memo
  BY KeysByPath
<1>2. Terms(m, preds, ByPath) \in SUBSET Fact /\ Shaped(Terms(m, preds, ByPath), View(m, ByPath))
  BY <1>1, TermsTypedAt, ByPathIsKeyed
<1> QED BY <1>2, ViewByPath

\* The prover finds the facts of a set of predicates inconsistent when they are.
LEMMA UnsatIsContradictory ==
  ASSUME PredicatesAreSemantic, Value # {}, NEW K, NEW key, Keyed(key, K), NEW m \in Context(K),
         Named(View(m, key)), NEW preds \in SUBSET Pred, KeysOf(preds, key) \subseteq DOMAIN m.memo,
         NEW k, Facts(k) = Terms(m, preds, key)
  PROVE  Unsat(k) <=> Contradictory(preds)
<1> DEFINE F == Terms(m, preds, key)
           M == View(m, key)
<1>1. Shaped(F, M) /\ M \in Memo(Name)
  BY TermsTypedAt, ViewParts
<1> HIDE DEF M
<1>2. Unsat(k) <=> \A w \in [Name -> Value] : \E f \in F : ~Meant(w, f)
  <2>1. Named(M)
    BY DEF M
  <2> QED BY <1>1, <2>1, UnsatIsNoValuation DEF Unsat
<1>3. ASSUME NEW w, NEW p \in preds
      PROVE  Meant(w, Term(m, p, key)) <=> [n \in VarsOf[p] |-> w[n]] \in Holds[p]
  <2>1. Term(m, p, key).pred = p /\ Term(m, p, key).sign = TRUE
    BY DEF Term
  <2> QED BY <2>1, Zenon DEF Meant
<1>4. ASSUME NEW w
      PROVE  (\E f \in F : ~Meant(w, f)) <=> \E p \in preds : [n \in VarsOf[p] |-> w[n]] \notin Holds[p]
  BY <1>3 DEF Terms
<1> HIDE DEF F
<1> QED BY <1>2, <1>4 DEF Contradictory

\* A candidate's negation is inconsistent with them when they entail it.
LEMMA UnsatIsEntailed ==
  ASSUME PredicatesAreSemantic, Value # {}, NEW K, NEW key, Keyed(key, K), NEW m \in Context(K),
         Named(View(m, key)), NEW preds \in SUBSET Pred, NEW p \in Pred,
         KeysOf(preds \cup {p}, key) \subseteq DOMAIN m.memo,
         NEW k, Facts(k) = Terms(m, preds, key) \cup {Negated(Term(m, p, key))}
  PROVE  Unsat(k) <=> Entails(preds, p)
<1> DEFINE neg == Negated(Term(m, p, key))
           F == Terms(m, preds, key) \cup {neg}
           M == View(m, key)
<1>1. /\ M \in Memo(Name) /\ (\A x : x \in DOMAIN M <=> x \in Name /\ key[x] \in DOMAIN m.memo) /\ Named(M)
      /\ \A n \in DOMAIN M : M[n] = m.memo[key[n]]
  BY ViewParts
<1>2. VarsOf[p] \subseteq DOMAIN M
  <2>1. VarsOf[p] \subseteq Name
    BY DEF PredicatesAreSemantic
  <2> HIDE DEF M
  <2> QED BY <2>1, <1>1 DEF KeysOf, NamesOf
<1>3. neg.pred = p /\ neg.sign = FALSE /\ neg.consts = [n \in VarsOf[p] |-> M[n]]
  <2>1. neg.pred = p /\ neg.sign = FALSE /\ neg.consts = [n \in VarsOf[p] |-> m.memo[key[n]]]
    BY TermParts
  <2> HIDE DEF M, neg
  <2> QED BY <2>1, <1>1, <1>2
<1>4. Shaped(F, M)
  <2>1. KeysOf(preds, key) \subseteq DOMAIN m.memo
    BY DEF KeysOf, NamesOf
  <2>2. Shaped(Terms(m, preds, key), M)
    BY <2>1, TermsTypedAt
  <2> HIDE DEF neg, M
  <2> QED BY <2>2, <1>2, <1>3 DEF Shaped
<1> HIDE DEF M
<1>5. Unsat(k) <=> \A w \in [Name -> Value] : \E f \in F : ~Meant(w, f)
  BY <1>1, <1>4, UnsatIsNoValuation DEF Unsat
<1>6. ASSUME NEW w, NEW q \in preds
      PROVE  Meant(w, Term(m, q, key)) <=> [n \in VarsOf[q] |-> w[n]] \in Holds[q]
  <2>1. Term(m, q, key).pred = q /\ Term(m, q, key).sign = TRUE
    BY DEF Term
  <2> QED BY <2>1, Zenon DEF Meant
<1>7. ASSUME NEW w
      PROVE  Meant(w, neg) <=> ~([n \in VarsOf[p] |-> w[n]] \in Holds[p])
  <2> HIDE DEF neg
  <2> DEFINE val == [n \in VarsOf[p] |-> w[n]]
  <2>1. Meant(w, neg) <=> ((val \in Holds[p]) = FALSE)
    BY <1>3, Zenon DEF Meant
  <2>2. ((val \in Holds[p]) = FALSE) <=> ~(val \in Holds[p])
    OBVIOUS
  <2> QED BY <2>1, <2>2, Zenon
<1>8. ASSUME NEW w
      PROVE  (\E f \in F : ~Meant(w, f))
               <=> \/ \E q \in preds : [n \in VarsOf[q] |-> w[n]] \notin Holds[q]
                   \/ [n \in VarsOf[p] |-> w[n]] \in Holds[p]
  <2>1. (\E f \in F : ~Meant(w, f))
          <=> (\E f \in Terms(m, preds, key) : ~Meant(w, f)) \/ ~Meant(w, neg)
    <3> HIDE DEF neg
    <3> QED BY Zenon
  <2> HIDE DEF neg, F
  <2>2. (\E f \in Terms(m, preds, key) : ~Meant(w, f))
          <=> \E q \in preds : ~Meant(w, Term(m, q, key))
    BY Zenon DEF Terms
  <2>3. (\E q \in preds : ~Meant(w, Term(m, q, key)))
          <=> \E q \in preds : [n \in VarsOf[q] |-> w[n]] \notin Holds[q]
    BY <1>6, Zenon
  <2> QED BY <2>1, <2>2, <2>3, <1>7, Zenon
<1> HIDE DEF F
<1> QED BY <1>5, <1>8 DEF Entails

(* --------------------------- The invariant ------------------------------- *)
Asking == phase \in {"finish", "filter", "valid"}
Based(s, F) == s # <<>> /\ s[1].facts = F /\ \A i \in 2..Len(s) : s[i].facts = {}

\* Names stand for their own constants, and those of the axioms stay.
RecordInv ==
  /\ me \in Context(Name) /\ me.scopes # <<>> /\ me.decls # <<>>
  /\ Ids(me.scopes) \subseteq 0..me.pushes
  /\ count = (IF Asking THEN 1 ELSE 0)
  /\ axioms \in SUBSET Axiom /\ query \in Query \cup {NoQuery}
  /\ todo \in SUBSET Pred /\ answer \in SUBSET Pred
  /\ phase \in {"axioms", "idle", "finish", "filter", "valid", "failed"}
  /\ Named(me.memo) /\ NamesOf(axioms) \subseteq DOMAIN me.memo

\* Between queries only the axioms are asserted, in the base scope.
QuietInv ==
  ~Asking =>
    /\ Based(me.scopes, Terms(me, axioms, ByPath))
    /\ \A n \in DOMAIN me.memo : me.memo[n].scope \in Ids(me.scopes)
    /\ phase \in {"axioms", "failed"} => Len(me.scopes) = 1 /\ query = NoQuery /\ answer = {}
    /\ AnswerIsEntailed

\* While one is asked, its left-hand side is on top of them, and what was declared since the
\* barrier is all that the last pop leaves dangling.
AskInv ==
  Asking =>
    /\ Len(me.scopes) > 1 /\ query \in Query
    /\ Based(Under(me.scopes), Terms(me, axioms, ByPath))
    /\ me.scopes[Len(me.scopes)].facts = Terms(me, query.lhs, ByPath)
    /\ NamesOf(query.lhs) \subseteq DOMAIN me.memo
    /\ NamesOf(axioms) \cap me.decls[1] = {}
    /\ \A n \in DOMAIN me.memo :
         me.memo[n].scope \in IF n \in me.decls[1] THEN Ids(me.scopes) ELSE Ids(Under(me.scopes))
    /\ VV \in DOMAIN me.memo => me.memo[VV].sort = query.env[VV]
    /\ phase # "valid" => me.decls[1] = {}
    /\ phase = "finish" => Contradictory(axioms \cup query.lhs)
    /\ phase = "valid" =>
         /\ todo \subseteq query.cands \ Tautologies /\ NamesOf(todo) \subseteq DOMAIN me.memo
         /\ answer = {p \in query.cands \ todo : p \in Tautologies \/ Entails(axioms \cup query.lhs, p)}

ProverInv == RecordInv /\ QuietInv /\ AskInv

LEMMA BasedFacts ==
  ASSUME NEW s \in Seq(Scope), NEW F, Based(s, F)
  PROVE  FactsOf(s) = F
<1>1. Len(s) \in Nat \ {0} /\ DOMAIN s = 1..Len(s)
  BY EmptySeq DEF Based
<1>2. \A i \in 1..Len(s) : i = 1 \/ i \in 2..Len(s)
  BY <1>1
<1>3. 1 \in 1..Len(s)
  BY <1>1
<1> QED BY <1>1, <1>2, <1>3 DEF Based, FactsOf

LEMMA BasedAppend ==
  ASSUME NEW s \in Seq(Scope), NEW F, Based(s, F), NEW e \in Scope, e.facts = {}
  PROVE  Based(Append(s, e), F)
<1>1. /\ Len(Append(s, e)) = Len(s) + 1 /\ Len(s) \in Nat \ {0}
      /\ \A i \in 1..Len(s) : Append(s, e)[i] = s[i]
      /\ Append(s, e)[Len(s) + 1] = e /\ Append(s, e) # <<>>
  BY EmptySeq DEF Based
<1>2. 1 \in 1..Len(s) /\ \A i \in 2..Len(s) + 1 : (i \in 1..Len(s) /\ i \in 2..Len(s)) \/ i = Len(s) + 1
  BY <1>1
<1> QED BY <1>1, <1>2 DEF Based

LEMMA QueryParts ==
  ASSUME Assumptions, NEW q \in Query
  PROVE  q.env \in [Name -> Sort] /\ q.lhs \in SUBSET Pred /\ q.cands \in SUBSET Pred
  BY DEF Assumptions, QueriesAreTyped

LEMMA ForAxioms ==
  ASSUME Assumptions, RecordInv
  PROVE  axioms \in SUBSET Pred /\ VV \notin NamesOf(axioms) /\ VV \in Name
  BY DEF Assumptions, QueriesAreTyped, AxiomsAreClosed, RecordInv, NamesOf

\* The facts of a query that is being asked.
LEMMA AskedFacts ==
  ASSUME NEW s \in Seq(Scope), Len(s) > 1, NEW F, NEW G, Based(Under(s), F), s[Len(s)].facts = G
  PROVE  FactsOf(s) = F \cup G
<1>1. Under(s) \in Seq(Scope) /\ FactsOf(s) = FactsOf(Under(s)) \cup s[Len(s)].facts
  BY UnderSeq
<1>2. FactsOf(Under(s)) = F
  BY <1>1, BasedFacts
<1> QED BY <1>1, <1>2

LEMMA FactsAre ==
  ASSUME NEW m
  PROVE  Facts(m) = FactsOf(m.scopes) /\ LiveScopes(m) = Ids(m.scopes)
  BY DEF Facts, FactsOf, LiveScopes, Ids

LEMMA LastIsLive ==
  ASSUME NEW s \in Seq(Scope), s # <<>>
  PROVE  s[Len(s)].id \in Ids(s)
<1>1. Len(s) \in DOMAIN s
  BY EmptySeq
<1> QED BY <1>1 DEF Ids

LEMMA TermsUnion ==
  ASSUME NEW m, NEW A, NEW B
  PROVE  \A key : Terms(m, A \cup B, key) = Terms(m, A, key) \cup Terms(m, B, key)
  BY DEF Terms

LEMMA NamesUnion ==
  ASSUME NEW A, NEW B
  PROVE  NamesOf(A \cup B) = NamesOf(A) \cup NamesOf(B)
  BY DEF NamesOf

LEMMA ContextParts ==
  ASSUME NEW K, NEW m \in Context(K)
  PROVE  m.scopes \in Seq(Scope) /\ m.pushes \in Nat /\ m.fresh \in Nat /\ m.memo \in Memo(K) /\ m.decls \in Seq(SUBSET K)
  BY DEF Context

LEMMA PushAxiomKeeps ==
  ASSUME Assumptions, ProverInv, NEW p \in Axiom, PushAxiom(p)
  PROVE  ProverInv'
<1> DEFINE t == Translate(me, {p}, ByPath, AxiomEnv)
           a == AssertFacts(t, {Term(t, p, ByPath)})
<1>1. /\ phase = "axioms" /\ me' = a /\ axioms' = axioms \cup {p} /\ phase' \in {"failed", "axioms"}
      /\ UNCHANGED <<count, query, todo, answer>>
  BY DEF PushAxiom
<1>2. p \in Pred /\ AxiomEnv \in [Name -> Sort] /\ VV \in Name /\ PredicatesAreSemantic
  BY DEF Assumptions, QueriesAreTyped
<1>3. /\ me \in Context(Name) /\ me.scopes # <<>> /\ me.decls # <<>> /\ Named(me.memo)
      /\ Len(me.scopes) = 1 /\ query = NoQuery /\ answer = {} /\ me.scopes \in Seq(Scope)
      /\ Based(me.scopes, Terms(me, axioms, ByPath)) /\ Ids(me.scopes) \subseteq 0..me.pushes
      /\ \A n \in DOMAIN me.memo : me.memo[n].scope \in Ids(me.scopes)
  BY <1>1, ContextParts DEF ProverInv, RecordInv, QuietInv, Asking
<1> {p} \in SUBSET Pred
  BY <1>2
<1> HIDE DEF t, a
<1>4. /\ t \in Context(Name) /\ t.scopes = me.scopes /\ t.pushes = me.pushes /\ t.decls # <<>>
      /\ DOMAIN t.memo = DOMAIN me.memo \cup NamesOf({p})
      /\ \A n \in DOMAIN me.memo : t.memo[n] = me.memo[n]
      /\ \A n \in NamesOf({p}) \ DOMAIN me.memo :
           t.memo[n].name = n /\ t.memo[n].scope = me.scopes[Len(me.scopes)].id
  <2>1. t = Translate(me, {p}, ByPath, AxiomEnv)
    BY DEF t
  <2>2. Translated(t, me, {p}, AxiomEnv)
    BY <2>1, <1>2, <1>3, TranslateFields
  <2> QED BY <2>2 DEF Translated
<1>5. {Term(t, p, ByPath)} = Terms(t, {p}, ByPath)
  BY DEF Terms
<1>6. Terms(t, {p}, ByPath) \in SUBSET Fact
  BY <1>2, <1>4, TermsTyped
<1>7. /\ a \in Context(Name) /\ a.memo = t.memo /\ a.pushes = me.pushes /\ a.decls # <<>>
      /\ Len(a.scopes) = 1 /\ a.scopes[1].id = me.scopes[1].id
      /\ a.scopes[1].facts = me.scopes[1].facts \cup Terms(t, {p}, ByPath)
  <2>1. a = AssertFacts(t, Terms(t, {p}, ByPath))
    BY <1>5 DEF a
  <2>2. Len(t.scopes) = 1 /\ t.scopes[1] = me.scopes[1] /\ t.pushes = me.pushes /\ t.decls # <<>>
    BY <1>3, <1>4
  <2>3. Asserted(a, t, Terms(t, {p}, ByPath))
    BY <2>1, <2>2, <1>4, <1>6, AssertFields
  <2> QED BY <2>2, <2>3 DEF Asserted
<1>8. axioms \in SUBSET Pred /\ NamesOf(axioms) \subseteq DOMAIN me.memo
  BY ForAxioms DEF ProverInv, RecordInv
<1>9. /\ Terms(a, axioms \cup {p}, ByPath) = Terms(me, axioms, ByPath) \cup Terms(t, {p}, ByPath)
      /\ NamesOf(axioms \cup {p}) \subseteq DOMAIN a.memo
  <2>1. Terms(a, axioms, ByPath) = Terms(me, axioms, ByPath)
    BY <1>2, <1>4, <1>7, <1>8, TermsAgree
  <2>2. Terms(a, {p}, ByPath) = Terms(t, {p}, ByPath)
    BY <1>2, <1>7, TermsAgree
  <2>3. NamesOf(axioms \cup {p}) = NamesOf(axioms) \cup NamesOf({p})
    BY NamesUnion
  <2>4. Terms(a, axioms \cup {p}, ByPath) = Terms(a, axioms, ByPath) \cup Terms(a, {p}, ByPath)
    BY TermsUnion
  <2> QED BY <2>1, <2>2, <2>3, <2>4, <1>4, <1>7, <1>8
<1>10. a.scopes # <<>> /\ Ids(a.scopes) = Ids(me.scopes) /\ a.scopes \in Seq(Scope)
  <2>1. a.scopes \in Seq(Scope) /\ me.scopes \in Seq(Scope)
    BY <1>3, <1>7, ContextParts
  <2>2. DOMAIN a.scopes = {1} /\ DOMAIN me.scopes = {1} /\ a.scopes # <<>>
    BY <2>1, <1>3, <1>7, LenProperties, EmptySeq
  <2> QED BY <2>1, <2>2, <1>7 DEF Ids
<1>11. Based(a.scopes, Terms(a, axioms \cup {p}, ByPath))
  <2>1. \A i \in 2..Len(a.scopes) : FALSE
    BY <1>7
  <2>2. me.scopes[1].facts = Terms(me, axioms, ByPath)
    BY <1>3 DEF Based
  <2> QED BY <2>1, <2>2, <1>7, <1>9, <1>10 DEF Based
<1>12. Named(a.memo) /\ \A n \in DOMAIN a.memo : a.memo[n].scope \in Ids(a.scopes)
  <2>1. me.scopes[Len(me.scopes)].id \in Ids(me.scopes)
    BY <1>3, LastIsLive
  <2>2. ASSUME NEW n \in DOMAIN me.memo
        PROVE  a.memo[n].name = n /\ a.memo[n].scope \in Ids(a.scopes)
    BY <1>3, <1>4, <1>7, <1>10 DEF Named
  <2>3. ASSUME NEW n \in NamesOf({p}) \ DOMAIN me.memo
        PROVE  a.memo[n].name = n /\ a.memo[n].scope \in Ids(a.scopes)
    BY <2>1, <1>4, <1>7, <1>10
  <2>4. DOMAIN a.memo = DOMAIN me.memo \cup (NamesOf({p}) \ DOMAIN me.memo)
    BY <1>4, <1>7
  <2> QED BY <2>2, <2>3, <2>4 DEF Named
<1>13. RecordInv'
  BY <1>1, <1>3, <1>7, <1>8, <1>9, <1>10, <1>12 DEF ProverInv, RecordInv, Asking
<1>14. QuietInv'
  BY <1>1, <1>3, <1>7, <1>11, <1>12 DEF QuietInv, Asking, AnswerIsEntailed
<1>15. AskInv'
  BY <1>1 DEF AskInv, Asking
<1> QED BY <1>13, <1>14, <1>15 DEF ProverInv

LEMMA SetKeeps ==
  ASSUME Assumptions, ProverInv, NEW q \in Query, Set(q)
  PROVE  ProverInv'
<1> DEFINE f == Forget(me, VV)
           t == Translate(f, q.lhs, ByPath, q.env)
           b == Barrier(t)
           prepared == Push(b, {})
           pushed == Push(prepared, Terms(prepared, q.lhs, ByPath))
           e1 == [id |-> me.pushes + 1, facts |-> {}]
           e2 == [id |-> me.pushes + 2, facts |-> Terms(pushed, q.lhs, ByPath)]
<1>1. /\ phase = "idle" /\ me' = pushed /\ count' = count + 1 /\ query' = q
      /\ phase' = (IF Unsat(pushed) THEN "finish" ELSE "filter")
      /\ UNCHANGED <<axioms, todo, answer>>
  BY DEF Set, PrepPreds, ForgetVV
<1>2. /\ q.env \in [Name -> Sort] /\ q.lhs \in SUBSET Pred /\ VV \in Name /\ PredicatesAreSemantic
      /\ axioms \in SUBSET Pred /\ VV \notin NamesOf(axioms) /\ Value # {}
  BY QueryParts, ForAxioms DEF Assumptions, QueriesAreTyped, ProverInv
<1>3. /\ me \in Context(Name) /\ me.scopes # <<>> /\ me.decls # <<>> /\ Named(me.memo)
      /\ me.scopes \in Seq(Scope) /\ me.pushes \in Nat
      /\ Based(me.scopes, Terms(me, axioms, ByPath)) /\ Ids(me.scopes) \subseteq 0..me.pushes
      /\ \A n \in DOMAIN me.memo : me.memo[n].scope \in Ids(me.scopes)
      /\ NamesOf(axioms) \subseteq DOMAIN me.memo
  BY <1>1, ContextParts DEF ProverInv, RecordInv, QuietInv, Asking
<1>4. /\ f \in Context(Name) /\ f.scopes = me.scopes /\ f.decls = me.decls /\ f.pushes = me.pushes
      /\ DOMAIN f.memo = DOMAIN me.memo \ {VV}
      /\ \A n \in DOMAIN me.memo \ {VV} : f.memo[n] = me.memo[n]
  BY <1>3, ForgetFields
<1> HIDE DEF f
<1>5. /\ t \in Context(Name) /\ t.scopes = me.scopes /\ t.pushes = me.pushes
      /\ DOMAIN t.memo = (DOMAIN me.memo \ {VV}) \cup NamesOf(q.lhs)
      /\ \A n \in DOMAIN me.memo \ {VV} : t.memo[n] = me.memo[n]
      /\ \A n \in NamesOf(q.lhs) \ (DOMAIN me.memo \ {VV}) :
           /\ t.memo[n].name = n /\ t.memo[n].sort = q.env[n]
           /\ t.memo[n].scope = me.scopes[Len(me.scopes)].id
  <2> HIDE DEF t
  <2>1. t = Translate(f, q.lhs, ByPath, q.env)
    BY DEF t
  <2>2. f.scopes # <<>> /\ f.decls # <<>>
    BY <1>3, <1>4
  <2>3. Translated(t, f, q.lhs, q.env)
    BY <2>1, <2>2, <1>2, <1>4, TranslateFields
  <2> QED BY <2>3, <1>4 DEF Translated
<1> HIDE DEF t
<1>6. /\ b \in Context(Name) /\ b.scopes = me.scopes /\ b.memo = t.memo /\ b.pushes = me.pushes
      /\ b.decls # <<>> /\ b.decls[1] = {}
  BY <1>5, BarrierFields
<1> HIDE DEF b
<1>7. /\ prepared \in Context(Name) /\ prepared.scopes = Append(me.scopes, e1) /\ prepared.memo = t.memo
      /\ prepared.decls = b.decls /\ prepared.pushes = me.pushes + 1
  <2>1. /\ Push(b, {}) \in Context(Name) /\ Push(b, {}).memo = b.memo /\ Push(b, {}).decls = b.decls
        /\ Push(b, {}).scopes = Append(b.scopes, [id |-> b.pushes + 1, facts |-> {}])
        /\ Push(b, {}).pushes = b.pushes + 1
    BY <1>6, PushFields
  <2> QED BY <2>1, <1>6
<1> HIDE DEF prepared
<1>8. Terms(prepared, q.lhs, ByPath) \in SUBSET Fact
  BY <1>2, <1>5, <1>7, TermsTyped
<1>9. /\ pushed \in Context(Name) /\ pushed.memo = t.memo /\ pushed.decls = b.decls
      /\ pushed.pushes = me.pushes + 2
      /\ pushed.scopes = Append(prepared.scopes,
                                [id |-> prepared.pushes + 1, facts |-> Terms(prepared, q.lhs, ByPath)])
  <2>1. /\ pushed \in Context(Name) /\ pushed.memo = prepared.memo /\ pushed.decls = prepared.decls
        /\ pushed.pushes = prepared.pushes + 1
        /\ pushed.scopes = Append(prepared.scopes,
                                  [id |-> prepared.pushes + 1, facts |-> Terms(prepared, q.lhs, ByPath)])
    BY <1>7, <1>8, PushFields
  <2> HIDE DEF pushed
  <2>2. prepared.pushes + 1 = me.pushes + 2
    BY <1>3, <1>7
  <2> QED BY <2>1, <2>2, <1>7
<1>10. Terms(pushed, q.lhs, ByPath) = Terms(prepared, q.lhs, ByPath)
  BY <1>2, <1>7, <1>9, TermsAgree
<1> HIDE DEF pushed
<1>11. pushed.scopes = Append(Append(me.scopes, e1), e2)
  <2>1. prepared.pushes + 1 = me.pushes + 2
    BY <1>3, <1>7
  <2> QED BY <2>1, <1>7, <1>9, <1>10
<1>12. e1 \in Scope /\ e2 \in Scope /\ e1.facts = {} /\ e2.facts = Terms(pushed, q.lhs, ByPath)
       /\ e1.id = me.pushes + 1 /\ e2.id = me.pushes + 2
  BY <1>3, <1>8, <1>10 DEF Scope
<1> HIDE DEF e1, e2
<1> DEFINE s == Append(me.scopes, e1)
<1>13. s \in Seq(Scope) /\ Under(pushed.scopes) = s /\ Len(pushed.scopes) > 1
       /\ pushed.scopes[Len(pushed.scopes)] = e2 /\ pushed.scopes \in Seq(Scope)
  <2>1. s \in Seq(Scope) /\ Len(s) = Len(me.scopes) + 1 /\ Len(me.scopes) \in Nat \ {0}
    BY <1>3, <1>12, UnderAppend, EmptySeq
  <2> HIDE DEF s
  <2>2. pushed.scopes = Append(s, e2)
    BY <1>11 DEF s
  <2> QED BY <2>1, <2>2, <1>12, UnderAppend
<1>14. /\ Based(s, Terms(me, axioms, ByPath))
       /\ Ids(s) = Ids(me.scopes) \cup {me.pushes + 1}
       /\ Ids(pushed.scopes) = Ids(me.scopes) \cup {me.pushes + 1, me.pushes + 2}
  <2>1. Based(s, Terms(me, axioms, ByPath)) /\ Ids(s) = Ids(me.scopes) \cup {e1.id}
    BY <1>3, <1>12, BasedAppend, SeenAppend
  <2>3. pushed.scopes = Append(s, e2)
    BY <1>11
  <2>4. s \in Seq(Scope) /\ e2 \in Scope
    BY <1>12, <1>13
  <2> HIDE DEF s
  <2>2. Ids(pushed.scopes) = Ids(s) \cup {e2.id}
    BY <2>3, <2>4, SeenAppend
  <2> QED BY <2>1, <2>2, <1>12
<1> HIDE DEF s
<1>15. Terms(pushed, axioms, ByPath) = Terms(me, axioms, ByPath) /\ NamesOf(axioms) \subseteq DOMAIN pushed.memo
  <2>1. pushed.memo = t.memo
    BY <1>9
  <2>2. \A n \in NamesOf(axioms) : n \in DOMAIN me.memo \ {VV}
    BY <1>2, <1>3
  <2>3. \A n \in NamesOf(axioms) : pushed.memo[n] = me.memo[n]
    BY <2>1, <2>2, <1>5
  <2>4. NamesOf(axioms) \subseteq DOMAIN pushed.memo
    BY <2>1, <2>2, <1>5
  <2>5. PredicatesAreSemantic /\ axioms \in SUBSET Pred
    BY <1>2
  <2>6. Terms(pushed, axioms, ByPath) = Terms(me, axioms, ByPath)
    BY <2>3, <2>5, TermsAgree
  <2> QED BY <2>4, <2>6
<1>16. Named(pushed.memo) /\ \A n \in DOMAIN pushed.memo : pushed.memo[n].scope \in Ids(s)
  <2>1. me.scopes[Len(me.scopes)].id \in Ids(me.scopes)
    BY <1>3, LastIsLive
  <2>2. pushed.memo = t.memo /\ Ids(me.scopes) \subseteq Ids(s)
    BY <1>9, <1>14
  <2>3. ASSUME NEW n \in DOMAIN me.memo \ {VV}
        PROVE  t.memo[n].name = n /\ t.memo[n].scope \in Ids(me.scopes)
    BY <1>3, <1>5 DEF Named
  <2>4. ASSUME NEW n \in NamesOf(q.lhs) \ (DOMAIN me.memo \ {VV})
        PROVE  t.memo[n].name = n /\ t.memo[n].scope \in Ids(me.scopes)
    BY <2>1, <1>5
  <2>5. \A n \in DOMAIN t.memo : t.memo[n].name = n /\ t.memo[n].scope \in Ids(me.scopes)
    BY <2>3, <2>4, <1>5
  <2> QED BY <2>2, <2>5 DEF Named
<1>17. VV \in DOMAIN pushed.memo => pushed.memo[VV].sort = q.env[VV]
  BY <1>5, <1>9
<1>18. Unsat(pushed) <=> Contradictory(axioms \cup q.lhs)
  <2>1. Facts(pushed) = Terms(pushed, axioms \cup q.lhs, ByPath)
    <3>1. Facts(pushed) = FactsOf(pushed.scopes)
      BY FactsAre
    <3>2. FactsOf(pushed.scopes) = Terms(pushed, axioms, ByPath) \cup Terms(pushed, q.lhs, ByPath)
      BY <1>12, <1>13, <1>14, <1>15, AskedFacts
    <3> QED BY <3>1, <3>2, TermsUnion
  <2>2. NamesOf(axioms \cup q.lhs) \subseteq DOMAIN pushed.memo
    <3>1. NamesOf(axioms \cup q.lhs) = NamesOf(axioms) \cup NamesOf(q.lhs)
      BY NamesUnion
    <3> QED BY <3>1, <1>5, <1>9, <1>15
  <2>3. Named(View(pushed, ByPath)) /\ KeysOf(axioms \cup q.lhs, ByPath) \subseteq DOMAIN pushed.memo
    BY <2>2, <1>2, <1>9, <1>16, ViewByPath, KeysByPath
  <2> QED BY <2>1, <2>3, <1>2, <1>9, ByPathIsKeyed, UnsatIsContradictory
<1>19. RecordInv'
  <2>1. Ids(pushed.scopes) \subseteq 0..pushed.pushes /\ pushed.scopes # <<>>
    <3>1. pushed.scopes # <<>>
      BY <1>13, EmptySeq
    <3>2. me.pushes + 1 \in 0..pushed.pushes /\ me.pushes + 2 \in 0..pushed.pushes
          /\ 0..me.pushes \subseteq 0..pushed.pushes
      BY <1>3, <1>9
    <3> QED BY <3>1, <3>2, <1>3, <1>14
  <2>2. count' = 1 /\ phase' \in {"finish", "filter"}
    BY <1>1 DEF ProverInv, RecordInv, Asking
  <2> QED BY <2>1, <2>2, <1>1, <1>6, <1>9, <1>15, <1>16 DEF ProverInv, RecordInv, Asking
<1>20. AskInv'
  <2>1. phase' \in {"finish", "filter"} /\ (phase' = "finish" => Unsat(pushed))
    BY <1>1
  <2>2. Len(me'.scopes) > 1 /\ query' \in Query /\ me'.decls[1] = {}
    BY <1>1, <1>6, <1>9, <1>13
  <2>3. Based(Under(me'.scopes), Terms(me', axioms', ByPath))
    BY <1>1, <1>13, <1>14, <1>15
  <2>4. me'.scopes[Len(me'.scopes)].facts = Terms(me', query'.lhs, ByPath)
    BY <1>1, <1>12, <1>13
  <2>5. NamesOf(query'.lhs) \subseteq DOMAIN me'.memo
    BY <1>1, <1>5, <1>9
  <2>6. \A n \in DOMAIN me'.memo :
          me'.memo[n].scope \in IF n \in me'.decls[1] THEN Ids(me'.scopes) ELSE Ids(Under(me'.scopes))
    BY <1>1, <1>13, <1>16, <2>2
  <2>7. VV \in DOMAIN me'.memo => me'.memo[VV].sort = query'.env[VV]
    BY <1>1, <1>17
  <2>8. phase' = "finish" => Contradictory(axioms' \cup query'.lhs)
    BY <1>1, <1>18, <2>1
  <2> QED BY <2>1, <2>2, <2>3, <2>4, <2>5, <2>6, <2>7, <2>8 DEF AskInv
<1>21. QuietInv'
  BY <1>1 DEF QuietInv, Asking
<1> QED BY <1>19, <1>20, <1>21 DEF ProverInv

LEMMA StartFilterKeeps ==
  ASSUME Assumptions, ProverInv, StartFilter
  PROVE  ProverInv'
<1> DEFINE asked == query.cands \ Tautologies
           t == Translate(me, asked, ByPath, query.env)
<1>1. /\ phase = "filter" /\ phase' = "valid" /\ me' = t /\ todo' = asked
      /\ answer' = query.cands \cap Tautologies /\ UNCHANGED <<count, axioms, query>>
  BY DEF StartFilter
<1>2. /\ query \in Query /\ query.env \in [Name -> Sort] /\ query.lhs \in SUBSET Pred
      /\ query.cands \in SUBSET Pred /\ asked \in SUBSET Pred
      /\ VV \in Name /\ PredicatesAreSemantic
      /\ axioms \in SUBSET Pred /\ VV \notin NamesOf(axioms)
  <2>1. query \in Query
    BY <1>1 DEF ProverInv, AskInv, Asking
  <2> QED BY <2>1, QueryParts, ForAxioms DEF Assumptions, QueriesAreTyped, ProverInv
<1>3. /\ me \in Context(Name) /\ me.scopes # <<>> /\ me.decls # <<>> /\ Named(me.memo)
      /\ me.scopes \in Seq(Scope) /\ me.pushes \in Nat /\ Ids(me.scopes) \subseteq 0..me.pushes
      /\ NamesOf(axioms) \subseteq DOMAIN me.memo /\ count = 1 /\ axioms \in SUBSET Axiom
  BY <1>1, ContextParts DEF ProverInv, RecordInv, Asking
<1>4. /\ Len(me.scopes) > 1 /\ me.decls[1] = {}
      /\ Based(Under(me.scopes), Terms(me, axioms, ByPath))
      /\ me.scopes[Len(me.scopes)].facts = Terms(me, query.lhs, ByPath)
      /\ NamesOf(query.lhs) \subseteq DOMAIN me.memo
      /\ \A n \in DOMAIN me.memo : me.memo[n].scope \in Ids(Under(me.scopes))
      /\ VV \in DOMAIN me.memo => me.memo[VV].sort = query.env[VV]
  BY <1>1 DEF ProverInv, AskInv, Asking
<1> HIDE DEF t
<1>5. Translated(t, me, asked, query.env)
  BY <1>2, <1>3, TranslateFields DEF t
<1> DEFINE new == NamesOf(asked) \ DOMAIN me.memo
<1>6. /\ t \in Context(Name) /\ t.scopes = me.scopes /\ t.pushes = me.pushes /\ t.decls # <<>>
      /\ t.decls[1] = new
      /\ DOMAIN t.memo = DOMAIN me.memo \cup new
      /\ NamesOf(asked) \subseteq DOMAIN t.memo
      /\ \A n \in DOMAIN me.memo : t.memo[n] = me.memo[n]
      /\ \A n \in new : /\ t.memo[n].name = n /\ t.memo[n].sort = query.env[n]
                        /\ t.memo[n].scope = me.scopes[Len(me.scopes)].id
  BY <1>4, <1>5 DEF Translated
<1>7. Terms(t, axioms, ByPath) = Terms(me, axioms, ByPath) /\ Terms(t, query.lhs, ByPath) = Terms(me, query.lhs, ByPath)
  <2>1. \A n \in NamesOf(axioms) \cup NamesOf(query.lhs) : t.memo[n] = me.memo[n]
    BY <1>3, <1>4, <1>6
  <2> QED BY <2>1, <1>2, TermsAgree
<1> HIDE DEF asked, new
<1>8. Named(t.memo) /\ new \cap DOMAIN me.memo = {}
  <2>1. new \cap DOMAIN me.memo = {}
    BY DEF new
  <2> QED BY <2>1, <1>3, <1>6 DEF Named
<1>9. \A n \in DOMAIN t.memo :
        t.memo[n].scope \in IF n \in t.decls[1] THEN Ids(t.scopes) ELSE Ids(Under(t.scopes))
  <2>1. me.scopes[Len(me.scopes)].id \in Ids(me.scopes)
    BY <1>3, LastIsLive
  <2>2. ASSUME NEW n \in new PROVE n \in t.decls[1] /\ t.memo[n].scope \in Ids(t.scopes)
    BY <2>1, <1>6
  <2>3. ASSUME NEW n \in DOMAIN me.memo
        PROVE  n \notin t.decls[1] /\ t.memo[n].scope \in Ids(Under(t.scopes))
    BY <1>4, <1>6, <1>8
  <2> QED BY <2>2, <2>3, <1>6
<1>10. VV \in DOMAIN t.memo => t.memo[VV].sort = query.env[VV]
  BY <1>4, <1>6
<1>11. RecordInv'
  <2>1. NamesOf(axioms) \subseteq DOMAIN t.memo
    BY <1>3, <1>6
  <2>2. todo' \in SUBSET Pred /\ answer' \in SUBSET Pred
    BY <1>1, <1>2
  <2>3. Ids(t.scopes) \subseteq 0..t.pushes /\ t.scopes # <<>>
    BY <1>3, <1>6
  <2>4. count' = 1 /\ Asking'
    BY <1>1, <1>3 DEF Asking
  <2> QED BY <2>1, <2>2, <2>3, <2>4, <1>1, <1>2, <1>3, <1>6, <1>8 DEF RecordInv
<1>12. AskInv'
  <2>1. Len(me'.scopes) > 1 /\ query' \in Query
    BY <1>1, <1>2, <1>4, <1>6
  <2>2. Based(Under(me'.scopes), Terms(me', axioms', ByPath))
    BY <1>1, <1>4, <1>6, <1>7
  <2>3. me'.scopes[Len(me'.scopes)].facts = Terms(me', query'.lhs, ByPath)
    BY <1>1, <1>4, <1>6, <1>7
  <2>4. NamesOf(query'.lhs) \subseteq DOMAIN me'.memo
    BY <1>1, <1>4, <1>6
  <2>5. NamesOf(axioms') \cap me'.decls[1] = {}
    BY <1>1, <1>3, <1>6, <1>8
  <2>6. \A n \in DOMAIN me'.memo :
          me'.memo[n].scope \in IF n \in me'.decls[1] THEN Ids(me'.scopes) ELSE Ids(Under(me'.scopes))
    BY <1>1, <1>9
  <2>7. VV \in DOMAIN me'.memo => me'.memo[VV].sort = query'.env[VV]
    BY <1>1, <1>10
  <2>8. todo' \subseteq query'.cands \ Tautologies /\ NamesOf(todo') \subseteq DOMAIN me'.memo
    BY <1>1, <1>6 DEF asked
  <2>9. answer' = {p \in query'.cands \ todo' : p \in Tautologies \/ Entails(axioms' \cup query'.lhs, p)}
    <3>1. query.cands \ asked = query.cands \cap Tautologies
      BY DEF asked
    <3> QED BY <3>1, <1>1
  <2> QED BY <2>1, <2>2, <2>3, <2>4, <2>5, <2>6, <2>7, <2>8, <2>9, <1>1 DEF AskInv
<1>13. QuietInv'
  BY <1>1 DEF QuietInv, Asking
<1> QED BY <1>11, <1>12, <1>13 DEF ProverInv

LEMMA ValidKeeps ==
  ASSUME Assumptions, ProverInv, NEW p \in Pred, Valid(p)
  PROVE  ProverInv'
<1> DEFINE neg == Negated(Term(me, p, ByPath))
           pushed == Push(me, {neg})
           a == Pop(pushed)
           e == [id |-> me.pushes + 1, facts |-> {neg}]
           known == axioms \cup query.lhs
<1>1. /\ phase = "valid" /\ p \in todo /\ me' = a /\ todo' = todo \ {p}
      /\ answer' = (IF Unsat(pushed) THEN answer \cup {p} ELSE answer)
      /\ UNCHANGED <<count, axioms, phase, query>>
  BY DEF Valid
<1>2. /\ query \in Query /\ query.lhs \in SUBSET Pred /\ query.cands \in SUBSET Pred
      /\ PredicatesAreSemantic /\ VarsOf[p] \subseteq Name /\ Value # {} /\ axioms \in SUBSET Pred
  <2>1. query \in Query
    BY <1>1 DEF ProverInv, AskInv, Asking
  <2> QED BY <2>1, QueryParts, ForAxioms DEF Assumptions, PredicatesAreSemantic, ProverInv
<1>3. /\ me \in Context(Name) /\ me.scopes # <<>> /\ me.decls # <<>> /\ Named(me.memo)
      /\ me.scopes \in Seq(Scope) /\ me.pushes \in Nat /\ Ids(me.scopes) \subseteq 0..me.pushes
      /\ NamesOf(axioms) \subseteq DOMAIN me.memo /\ count = 1 /\ axioms \in SUBSET Axiom
      /\ todo \in SUBSET Pred /\ answer \in SUBSET Pred
  BY <1>1, ContextParts DEF ProverInv, RecordInv, Asking
<1>4. /\ Len(me.scopes) > 1
      /\ Based(Under(me.scopes), Terms(me, axioms, ByPath))
      /\ me.scopes[Len(me.scopes)].facts = Terms(me, query.lhs, ByPath)
      /\ NamesOf(query.lhs) \subseteq DOMAIN me.memo
      /\ NamesOf(axioms) \cap me.decls[1] = {}
      /\ \A n \in DOMAIN me.memo :
           me.memo[n].scope \in IF n \in me.decls[1] THEN Ids(me.scopes) ELSE Ids(Under(me.scopes))
      /\ VV \in DOMAIN me.memo => me.memo[VV].sort = query.env[VV]
      /\ todo \subseteq query.cands \ Tautologies /\ NamesOf(todo) \subseteq DOMAIN me.memo
      /\ answer = {x \in query.cands \ todo : x \in Tautologies \/ Entails(known, x)}
  BY <1>1 DEF ProverInv, AskInv, Asking
<1>5. VarsOf[p] \subseteq DOMAIN me.memo
  BY <1>1, <1>4 DEF NamesOf
<1>6. neg \in Fact
  <2> DEFINE b == [n \in VarsOf[p] |-> me.memo[ByPath[n]]]
  <2>1. b \in Memo(Name)
    <3>1. me.memo \in Memo(Name) /\ \A n \in VarsOf[p] : ByPath[n] = n
      BY <1>2, <1>3, ContextParts DEF ByPath
    <3>2. b \in [VarsOf[p] -> Const]
      BY <3>1, <1>5, MemoParts
    <3> QED BY <3>2, <1>2, MemoWhole
  <2>2. neg = [pred |-> p, sign |-> FALSE, consts |-> b]
    BY TermParts
  <2> HIDE DEF b, neg, Memo
  <2> QED BY <2>1, <2>2 DEF Fact
<1> HIDE DEF neg, known
<1>7. e \in Scope /\ e.facts = {neg}
  BY <1>3, <1>6 DEF Scope
<1>8. /\ pushed \in Context(Name) /\ pushed.scopes = Append(me.scopes, e)
      /\ pushed.memo = me.memo /\ pushed.decls = me.decls /\ pushed.pushes = me.pushes + 1
  BY <1>3, <1>6, PushFields
<1> HIDE DEF pushed, e
<1>9. /\ a \in Context(Name) /\ a.scopes = me.scopes /\ a.memo = me.memo /\ a.decls = me.decls
      /\ a.pushes = me.pushes + 1
  <2>1. Under(pushed.scopes) = me.scopes /\ Len(pushed.scopes) > 1
    BY <1>3, <1>4, <1>7, <1>8, UnderAppend
  <2> QED BY <2>1, <1>8, PopFields
<1> HIDE DEF a
<1>10. Unsat(pushed) <=> Entails(known, p)
  <2>1. Facts(pushed) = FactsOf(me.scopes) \cup {neg}
    <3>1. FactsOf(Append(me.scopes, e)) = FactsOf(me.scopes) \cup e.facts
      BY <1>3, <1>7, SeenAppend
    <3> QED BY <3>1, <1>7, <1>8, FactsAre
  <2>2. FactsOf(me.scopes) = Terms(me, known, ByPath)
    <3>1. FactsOf(me.scopes) = Terms(me, axioms, ByPath) \cup Terms(me, query.lhs, ByPath)
      BY <1>3, <1>4, AskedFacts
    <3> QED BY <3>1, TermsUnion DEF known
  <2>3. NamesOf(known) \subseteq DOMAIN me.memo /\ known \in SUBSET Pred
    <3>1. NamesOf(known) = NamesOf(axioms) \cup NamesOf(query.lhs)
      BY NamesUnion DEF known
    <3>2. known \in SUBSET Pred
      BY <1>2 DEF known
    <3> QED BY <3>1, <3>2, <1>3, <1>4
  <2>4. Facts(pushed) = Terms(me, known, ByPath) \cup {Negated(Term(me, p, ByPath))}
    BY <2>1, <2>2 DEF neg
  <2>5. Named(View(me, ByPath)) /\ KeysOf(known \cup {p}, ByPath) \subseteq DOMAIN me.memo
    <3>1. NamesOf(known \cup {p}) = NamesOf(known) \cup VarsOf[p]
      BY DEF NamesOf
    <3>2. known \cup {p} \in SUBSET Pred
      BY <2>3
    <3>3. KeysOf(known \cup {p}, ByPath) = NamesOf(known \cup {p})
      BY <3>2, <1>2, KeysByPath
    <3> QED BY <3>1, <3>3, <2>3, <1>3, <1>5, ViewByPath
  <2> QED BY <2>3, <2>4, <2>5, <1>2, <1>3, ByPathIsKeyed, UnsatIsEntailed
<1>11. Terms(a, axioms, ByPath) = Terms(me, axioms, ByPath) /\ Terms(a, query.lhs, ByPath) = Terms(me, query.lhs, ByPath)
  BY <1>2, <1>9, TermsAgree
<1>12. answer' = {x \in query.cands \ todo' : x \in Tautologies \/ Entails(known, x)}
  <2>1. p \in query.cands /\ p \notin Tautologies
    BY <1>1, <1>4
  <2>2. query.cands \ todo' = (query.cands \ todo) \cup {p}
    BY <1>1, <2>1
  <2>3. answer' = IF Entails(known, p) THEN answer \cup {p} ELSE answer
    BY <1>1, <1>10
  <2> QED BY <2>1, <2>2, <2>3, <1>4
<1>13. RecordInv'
  <2>1. Ids(a.scopes) \subseteq 0..a.pushes
    BY <1>3, <1>9
  <2>2. answer' \in SUBSET Pred /\ todo' \in SUBSET Pred
    BY <1>1, <1>3
  <2>3. count' = 1 /\ Asking'
    BY <1>1, <1>3 DEF Asking
  <2> QED BY <2>1, <2>2, <2>3, <1>1, <1>2, <1>3, <1>9 DEF RecordInv
<1>14. AskInv'
  <2>1. NamesOf(todo') \subseteq DOMAIN me.memo /\ todo' \subseteq query.cands \ Tautologies
    BY <1>1, <1>4 DEF NamesOf
  <2>2. answer' = {x \in query'.cands \ todo' : x \in Tautologies \/ Entails(axioms' \cup query'.lhs, x)}
    BY <1>1, <1>12 DEF known
  <2>3. Based(Under(me'.scopes), Terms(me', axioms', ByPath))
    BY <1>1, <1>4, <1>9, <1>11
  <2>4. me'.scopes[Len(me'.scopes)].facts = Terms(me', query'.lhs, ByPath)
    BY <1>1, <1>4, <1>9, <1>11
  <2>5. \A n \in DOMAIN me'.memo :
          me'.memo[n].scope \in IF n \in me'.decls[1] THEN Ids(me'.scopes) ELSE Ids(Under(me'.scopes))
    BY <1>1, <1>4, <1>9
  <2> QED BY <2>1, <2>2, <2>3, <2>4, <2>5, <1>1, <1>2, <1>4, <1>9 DEF AskInv
<1>15. QuietInv'
  BY <1>1 DEF QuietInv, Asking
<1> QED BY <1>13, <1>14, <1>15 DEF ProverInv

\* A query over, what is left is the scope the query pushed first, with no fact in it.
LEMMA FinishKeeps ==
  ASSUME Assumptions, ProverInv, Finish
  PROVE  ProverInv'
<1> DEFINE a == Pop(me)
<1>1. /\ phase = "finish" /\ phase' = "idle" /\ me' = a /\ count' = count - 1 /\ answer' = query.cands
      /\ UNCHANGED <<axioms, query, todo>>
  BY DEF Finish
<1>2. /\ query \in Query /\ query.cands \in SUBSET Pred
      /\ PredicatesAreSemantic /\ axioms \in SUBSET Pred
  <2>1. query \in Query
    BY <1>1 DEF ProverInv, AskInv, Asking
  <2> QED BY <2>1, QueryParts, ForAxioms DEF Assumptions, ProverInv
<1>3. /\ me \in Context(Name) /\ me.decls # <<>> /\ Named(me.memo)
      /\ me.scopes \in Seq(Scope) /\ Ids(me.scopes) \subseteq 0..me.pushes
      /\ NamesOf(axioms) \subseteq DOMAIN me.memo /\ count = 1 /\ axioms \in SUBSET Axiom
      /\ todo \in SUBSET Pred
  BY <1>1, ContextParts DEF ProverInv, RecordInv, Asking
<1>4. /\ Len(me.scopes) > 1 /\ me.decls[1] = {}
      /\ Based(Under(me.scopes), Terms(me, axioms, ByPath))
      /\ \A n \in DOMAIN me.memo : me.memo[n].scope \in Ids(Under(me.scopes))
      /\ Contradictory(axioms \cup query.lhs)
  BY <1>1 DEF ProverInv, AskInv, Asking
<1>5. /\ a \in Context(Name) /\ a.scopes = Under(me.scopes) /\ a.memo = me.memo /\ a.decls = me.decls
      /\ a.pushes = me.pushes
  BY <1>3, <1>4, PopFields
<1> HIDE DEF a
<1>6. Terms(a, axioms, ByPath) = Terms(me, axioms, ByPath)
  BY <1>2, <1>5, TermsAgree
<1>7. Ids(a.scopes) \subseteq Ids(me.scopes) /\ a.scopes # <<>>
  BY <1>3, <1>4, <1>5, UnderSeq DEF Based
<1>8. RecordInv'
  <2>1. ~Asking' /\ count' = 0
    BY <1>1, <1>3 DEF Asking
  <2> QED BY <2>1, <1>1, <1>2, <1>3, <1>5, <1>7 DEF RecordInv
<1>9. QuietInv'
  <2>1. \A x : Entails(axioms \cup query.lhs, x)
    BY <1>4 DEF Contradictory, Entails
  <2>2. AnswerIsEntailed'
    BY <2>1, <1>1 DEF AnswerIsEntailed
  <2> QED BY <2>2, <1>1, <1>4, <1>5, <1>6 DEF QuietInv
<1>10. AskInv'
  BY <1>1 DEF AskInv, Asking
<1> QED BY <1>8, <1>9, <1>10 DEF ProverInv

LEMMA EndFilterKeeps ==
  ASSUME Assumptions, ProverInv, EndFilter
  PROVE  ProverInv'
<1> DEFINE u == Pop(me)
           a == CleanDecls(u)
<1>1. /\ phase = "valid" /\ todo = {} /\ phase' = "idle" /\ me' = a /\ count' = count - 1
      /\ UNCHANGED <<axioms, query, todo, answer>>
  BY DEF EndFilter, CloseQuery
<1>2. query \in Query /\ PredicatesAreSemantic /\ axioms \in SUBSET Pred
  BY <1>1, ForAxioms DEF Assumptions, ProverInv, AskInv, Asking
<1>3. /\ me \in Context(Name) /\ me.decls # <<>> /\ Named(me.memo)
      /\ me.scopes \in Seq(Scope) /\ Ids(me.scopes) \subseteq 0..me.pushes
      /\ NamesOf(axioms) \subseteq DOMAIN me.memo /\ count = 1 /\ axioms \in SUBSET Axiom
      /\ answer \in SUBSET Pred
  BY <1>1, ContextParts DEF ProverInv, RecordInv, Asking
<1>4. /\ Len(me.scopes) > 1
      /\ Based(Under(me.scopes), Terms(me, axioms, ByPath))
      /\ NamesOf(axioms) \cap me.decls[1] = {}
      /\ \A n \in DOMAIN me.memo \ me.decls[1] : me.memo[n].scope \in Ids(Under(me.scopes))
      /\ answer = {x \in query.cands \ todo : x \in Tautologies \/ Entails(axioms \cup query.lhs, x)}
  BY <1>1 DEF ProverInv, AskInv, Asking
<1>5. /\ u \in Context(Name) /\ u.scopes = Under(me.scopes) /\ u.memo = me.memo /\ u.decls = me.decls
      /\ u.pushes = me.pushes
  BY <1>3, <1>4, PopFields
<1> HIDE DEF u
<1>6. /\ a \in Context(Name) /\ a.scopes = Under(me.scopes) /\ a.pushes = me.pushes /\ a.decls # <<>>
      /\ DOMAIN a.memo = DOMAIN me.memo \ me.decls[1]
      /\ \A n \in DOMAIN me.memo \ me.decls[1] : a.memo[n] = me.memo[n]
  BY <1>3, <1>5, CleanFields
<1> HIDE DEF a
<1>7. NamesOf(axioms) \subseteq DOMAIN a.memo /\ Terms(a, axioms, ByPath) = Terms(me, axioms, ByPath)
  <2>1. NamesOf(axioms) \subseteq DOMAIN me.memo \ me.decls[1]
    BY <1>3, <1>4
  <2>2. \A n \in NamesOf(axioms) : a.memo[n] = me.memo[n]
    BY <2>1, <1>6
  <2> QED BY <2>1, <2>2, <1>2, <1>6, TermsAgree
<1>8. Ids(a.scopes) \subseteq Ids(me.scopes) /\ a.scopes # <<>>
  BY <1>3, <1>4, <1>6, UnderSeq DEF Based
<1>9. Named(a.memo)
  BY <1>3, <1>6 DEF Named
<1>10. RecordInv'
  <2>1. ~Asking' /\ count' = 0
    BY <1>1, <1>3 DEF Asking
  <2>2. todo' \in SUBSET Pred
    BY <1>1
  <2> QED BY <2>1, <2>2, <1>1, <1>2, <1>3, <1>6, <1>7, <1>8, <1>9 DEF RecordInv
<1>11. QuietInv'
  <2>1. query.cands \ todo = query.cands
    BY <1>1
  <2>2. AnswerIsEntailed'
    BY <2>1, <1>1, <1>4 DEF AnswerIsEntailed
  <2>3. \A n \in DOMAIN a.memo : a.memo[n].scope \in Ids(a.scopes)
    BY <1>4, <1>6
  <2> QED BY <2>2, <2>3, <1>1, <1>4, <1>6, <1>7 DEF QuietInv
<1>12. AskInv'
  BY <1>1 DEF AskInv, Asking
<1> QED BY <1>10, <1>11, <1>12 DEF ProverInv

LEMMA InitIsQuiet ==
  ASSUME Assumptions, ProverInit
  PROVE  ProverInv
<1>1. me = Fresh /\ count = 0 /\ axioms = {} /\ phase = "axioms" /\ query = NoQuery /\ todo = {} /\ answer = {}
  BY DEF ProverInit
<1> DEFINE s == <<BaseScope>>
           d == << {} >>
           none == << >>
<1>2. s \in Seq(Scope) /\ s # <<>> /\ Len(s) = 1 /\ s[1].facts = {} /\ s[1].id = 0 /\ DOMAIN s = {1}
  <2>1. BaseScope \in Scope /\ BaseScope.facts = {} /\ BaseScope.id = 0
    BY DEF BaseScope, Scope
  <2> HIDE DEF Scope
  <2> QED BY <2>1
<1>3. d \in Seq(SUBSET Name) /\ d # <<>>
  OBVIOUS
<1>4. none \in Memo(Name) /\ DOMAIN none = {}
  <2>1. DOMAIN none = {}
    OBVIOUS
  <2>2. none = [n \in {} |-> n] /\ [n \in {} |-> n] \in [{} -> Const]
    BY <2>1
  <2> QED BY <2>1, <2>2, MemoWhole
<1> HIDE DEF s, d, none, Scope, Memo
<1>5. me = [scopes |-> s, pushes |-> 0, fresh |-> 0, memo |-> none, decls |-> d]
  BY <1>1 DEF Fresh, s, d, none
<1>6. /\ me \in Context(Name) /\ me.scopes = s /\ me.pushes = 0 /\ me.memo = none /\ me.decls = d
  BY <1>2, <1>3, <1>4, <1>5 DEF Context
<1>7. NamesOf(axioms) = {} /\ Terms(me, axioms, ByPath) = {}
  BY <1>1 DEF NamesOf, Terms
<1>8. RecordInv
  <2>1. Ids(me.scopes) \subseteq 0..me.pushes
    BY <1>2, <1>6 DEF Ids
  <2>2. Named(me.memo)
    BY <1>4, <1>6 DEF Named
  <2> QED BY <2>1, <2>2, <1>1, <1>2, <1>3, <1>6, <1>7 DEF RecordInv, Asking
<1>9. QuietInv
  <2>1. Based(me.scopes, {})
    <3>1. Len(me.scopes) = 1 /\ me.scopes # <<>> /\ me.scopes[1].facts = {}
      BY <1>2, <1>6
    <3>2. \A i \in 2..Len(me.scopes) : FALSE
      BY <3>1
    <3> QED BY <3>1, <3>2, Zenon DEF Based
  <2>2. AnswerIsEntailed
    BY <1>1 DEF AnswerIsEntailed
  <2>3. \A n \in DOMAIN me.memo : me.memo[n].scope \in Ids(me.scopes)
    BY <1>4, <1>6
  <2> QED BY <2>1, <2>2, <2>3, <1>1, <1>2, <1>6, <1>7 DEF QuietInv
<1>10. AskInv
  BY <1>1 DEF AskInv, Asking
<1> QED BY <1>8, <1>9, <1>10 DEF ProverInv

LEMMA StartSolvingKeeps ==
  ASSUME ProverInv, StartSolving
  PROVE  ProverInv'
<1>1. phase = "axioms" /\ phase' = "idle" /\ UNCHANGED <<me, count, axioms, query, todo, answer>>
  BY DEF StartSolving
<1>2. RecordInv'
  BY <1>1 DEF ProverInv, RecordInv, Asking
<1>3. QuietInv'
  <2>1. query = NoQuery /\ answer = {} /\ Based(me.scopes, Terms(me, axioms, ByPath))
        /\ \A n \in DOMAIN me.memo : me.memo[n].scope \in Ids(me.scopes)
    BY <1>1 DEF ProverInv, QuietInv, Asking
  <2>2. AnswerIsEntailed'
    BY <1>1, <2>1 DEF AnswerIsEntailed, NoQuery
  <2> QED BY <2>1, <2>2, <1>1 DEF QuietInv
<1>4. AskInv'
  BY <1>1 DEF AskInv, Asking
<1> QED BY <1>2, <1>3, <1>4 DEF ProverInv

LEMMA StutterKeeps ==
  ASSUME ProverInv, UNCHANGED proverVars
  PROVE  ProverInv'
<1>1. UNCHANGED <<me, count, axioms, phase, query, todo, answer>>
  BY DEF proverVars
<1> QED BY <1>1 DEF ProverInv, RecordInv, QuietInv, AskInv, Asking, AnswerIsEntailed

\* The invariant gives the properties the runs check.
LEMMA InvIsTyped ==
  ASSUME Assumptions, ProverInv
  PROVE  ContextTypeOK
<1>1. /\ me \in Context(Name) /\ me.scopes \in Seq(Scope) /\ me.decls \in Seq(SUBSET Name) /\ me.memo \in Memo(Name)
      /\ me.pushes \in Nat /\ me.fresh \in Nat /\ me.scopes # <<>> /\ me.decls # <<>>
      /\ Ids(me.scopes) \subseteq 0..me.pushes
  BY ContextParts DEF ProverInv, RecordInv
<1>2. Len(me.scopes) > 0 /\ Len(me.decls) > 0
  BY <1>1, EmptySeq
<1>3. \A i \in DOMAIN me.decls : me.decls[i] \subseteq Name
  BY <1>1
<1>4. DOMAIN me.memo \subseteq Name /\ \A n \in DOMAIN me.memo : me.memo[n] \in Const
  BY <1>1, MemoParts
<1>5. \A n \in DOMAIN me.memo : me.memo[n].scope \in Ids(me.scopes)
  <2>1. Asking => Ids(Under(me.scopes)) \subseteq Ids(me.scopes)
    <3>1. Asking => Len(me.scopes) > 1
      BY DEF ProverInv, AskInv
    <3> QED BY <3>1, <1>1, UnderSeq
  <2>2. ASSUME Asking, NEW n \in DOMAIN me.memo
        PROVE  me.memo[n].scope \in Ids(me.scopes)
    BY <2>1, <2>2 DEF ProverInv, AskInv
  <2>3. ASSUME ~Asking, NEW n \in DOMAIN me.memo
        PROVE  me.memo[n].scope \in Ids(me.scopes)
    BY <2>3 DEF ProverInv, QuietInv
  <2> QED BY <2>2, <2>3
<1>6. \A n \in DOMAIN me.memo : IsConst(me.memo[n])
  BY <1>1, <1>4, <1>5 DEF IsConst, Const
<1> QED BY <1>1, <1>2, <1>3, <1>4, <1>6 DEF ContextTypeOK, ProverInv, RecordInv

LEMMA InvIsLive ==
  ASSUME ProverInv
  PROVE  MemoIsLive
<1>1. me.scopes \in Seq(Scope)
  BY ContextParts DEF ProverInv, RecordInv
<1>2. Asking => Ids(Under(me.scopes)) \subseteq Ids(me.scopes)
  BY <1>1, UnderSeq DEF ProverInv, AskInv
<1>3. ASSUME NEW n \in DOMAIN me.memo PROVE me.memo[n].scope \in Ids(me.scopes)
  <2>1. CASE Asking
    BY <2>1, <1>2 DEF ProverInv, AskInv
  <2>2. CASE ~Asking
    BY <2>2 DEF ProverInv, QuietInv
  <2> QED BY <2>1, <2>2
<1> QED BY <1>3, FactsAre DEF MemoIsLive, ConstsAreLive

LEMMA InvHasSort ==
  ASSUME Assumptions, ProverInv
  PROVE  VVHasSortOfQuery
<1> SUFFICES ASSUME Asking, NEW c \in Consts(Facts(me)), c.name = VV PROVE c.sort = query.env[VV]
  BY DEF VVHasSortOfQuery, Asking
<1>1. /\ me \in Context(Name) /\ me.scopes \in Seq(Scope) /\ Named(me.memo)
      /\ axioms \in SUBSET Pred /\ PredicatesAreSemantic /\ NamesOf(axioms) \subseteq DOMAIN me.memo
  BY ContextParts, ForAxioms DEF ProverInv, RecordInv, Assumptions
<1>2. /\ Len(me.scopes) > 1 /\ query \in Query
      /\ Based(Under(me.scopes), Terms(me, axioms, ByPath))
      /\ me.scopes[Len(me.scopes)].facts = Terms(me, query.lhs, ByPath)
      /\ NamesOf(query.lhs) \subseteq DOMAIN me.memo
      /\ VV \in DOMAIN me.memo => me.memo[VV].sort = query.env[VV]
  BY DEF ProverInv, AskInv
<1>3. query.lhs \in SUBSET Pred
  BY <1>2, QueryParts
<1>4. Facts(me) = Terms(me, axioms, ByPath) \cup Terms(me, query.lhs, ByPath)
  BY <1>1, <1>2, AskedFacts, FactsAre
<1>5. Shaped(Terms(me, axioms, ByPath), me.memo) /\ Shaped(Terms(me, query.lhs, ByPath), me.memo)
  BY <1>1, <1>2, <1>3, TermsTyped
<1>6. PICK f \in Facts(me) : \E n \in DOMAIN f.consts : c = f.consts[n]
  BY DEF Consts
<1>7. VarsOf[f.pred] \subseteq DOMAIN me.memo /\ f.consts = [n \in VarsOf[f.pred] |-> me.memo[n]]
  BY <1>4, <1>5, <1>6 DEF Shaped
<1>8. PICK n \in DOMAIN me.memo : c = me.memo[n]
  BY <1>6, <1>7
<1>9. n = VV
  BY <1>1, <1>8 DEF Named
<1> QED BY <1>2, <1>8, <1>9

LEMMA InvKeepsAxioms ==
  ASSUME ProverInv
  PROVE  OnlyAxiomsStay
<1> SUFFICES ASSUME phase = "idle"
             PROVE  /\ {f.pred : f \in Facts(me)} = axioms
                    /\ \A i \in 2..Len(me.scopes) : me.scopes[i].facts = {}
  BY DEF OnlyAxiomsStay
<1>1. me.scopes \in Seq(Scope) /\ Based(me.scopes, Terms(me, axioms, ByPath))
  BY ContextParts DEF ProverInv, RecordInv, QuietInv, Asking
<1>2. Facts(me) = {Term(me, p, ByPath) : p \in axioms}
  BY <1>1, BasedFacts, FactsAre DEF Terms
<1>3. \A p \in axioms : Term(me, p, ByPath).pred = p
  BY DEF Term
<1> QED BY <1>1, <1>2, <1>3 DEF Based

LEMMA QueriesKeep ==
  ASSUME Assumptions, ProverInv, [ProverNext]_proverVars
  PROVE  ProverInv'
<1>1. ASSUME NEW p \in Axiom, PushAxiom(p) PROVE ProverInv'
  BY <1>1, PushAxiomKeeps
<1>2. CASE StartSolving
  BY <1>2, StartSolvingKeeps
<1>3. ASSUME NEW q \in Query, Set(q) PROVE ProverInv'
  BY <1>3, SetKeeps
<1>4. CASE Finish
  BY <1>4, FinishKeeps
<1>5. CASE StartFilter
  BY <1>5, StartFilterKeeps
<1>6. ASSUME NEW p \in Pred, Valid(p) PROVE ProverInv'
  BY <1>6, ValidKeeps
<1>7. CASE EndFilter
  BY <1>7, EndFilterKeeps
<1>8. CASE UNCHANGED proverVars
  BY <1>8, StutterKeeps
<1> QED BY <1>1, <1>2, <1>3, <1>4, <1>5, <1>6, <1>7, <1>8 DEF ProverNext

LEMMA ProverInvShows ==
  ASSUME Assumptions, ProverInv
  PROVE  ContextTypeOK /\ MemoIsLive /\ VVHasSortOfQuery /\ OnlyAxiomsStay /\ AnswerIsEntailed
<1>1. AnswerIsEntailed
  BY DEF ProverInv, QuietInv, Asking, AnswerIsEntailed
<1> QED BY <1>1, InvIsTyped, InvIsLive, InvHasSort, InvKeepsAxioms

(* Whatever is asked, in whatever order: the prover's tables keep their shape, no name stands *)
(* for a constant of a popped scope, the test variable has the sort of the query it is used   *)
(* in, only the axioms stay asserted, and every query is answered by entailment alone.        *)
THEOREM QueriesAreAnsweredByEntailment ==
  ASSUME Assumptions
  PROVE  ProverSpec => [](ContextTypeOK /\ MemoIsLive /\ VVHasSortOfQuery /\ OnlyAxiomsStay /\ AnswerIsEntailed)
<1>1. ProverInit => ProverInv
  BY InitIsQuiet
<1>2. ProverInv /\ [ProverNext]_proverVars => ProverInv'
  BY QueriesKeep
<1>3. ProverInv => ContextTypeOK /\ MemoIsLive /\ VVHasSortOfQuery /\ OnlyAxiomsStay /\ AnswerIsEntailed
  BY ProverInvShows
<1> QED BY <1>1, <1>2, <1>3, PTL DEF ProverSpec

(***************************************************************************)
(* The calls of tpZ3.ml, by the same lemmas: a name is looked up by its    *)
(* name and its sort, and every call starts and ends in the base scope.    *)
(***************************************************************************)
Sorted == Name \X Sort
CallAssumptions == PredicatesAreSemantic /\ QueriesAreTyped /\ CallsAreTyped /\ Value # {}
NamedBySort(M) == \A k \in DOMAIN M : M[k].name = k[1]

\* What every call finds and leaves.
CallRecord(m) ==
  m \in Context(Sorted) /\ m.scopes = <<BaseScope>> /\ m.decls # <<>> /\ NamedBySort(m.memo)

\* While the solver runs, what a call leaves in the memo it translated in the base scope.
FixInv ==
  /\ CallRecord(fme)
  /\ stage = "solving" => \A k \in DOMAIN fme.memo : fme.memo[k].scope = 0
  /\ SetFilterIsEntailment /\ SolverTermsAreLive /\ SuffixIsGreatest

LEMMA BySortIsKeyed ==
  ASSUME NEW env \in [Name -> Sort]
  PROVE  Keyed(BySort(env), Sorted) /\ \A n \in Name : BySort(env)[n] = <<n, env[n]>>
  BY DEF Keyed, BySort, Sorted

LEMMA SortedIsNamed ==
  ASSUME NEW m \in Context(Sorted), NamedBySort(m.memo), NEW env \in [Name -> Sort]
  PROVE  Named(View(m, BySort(env)))
<1> DEFINE M == View(m, BySort(env))
<1>1. /\ \A x : x \in DOMAIN M <=> x \in Name /\ BySort(env)[x] \in DOMAIN m.memo
      /\ \A n \in DOMAIN M : M[n] = m.memo[BySort(env)[n]]
  BY BySortIsKeyed, ViewParts
<1> HIDE DEF M
<1>2. ASSUME NEW n \in DOMAIN M PROVE M[n].name = n
  <2>1. BySort(env)[n] = <<n, env[n]>> /\ BySort(env)[n] \in DOMAIN m.memo
    BY <1>1, BySortIsKeyed
  <2> QED BY <2>1, <1>1 DEF NamedBySort
<1>3. Named(M)
  BY <1>2 DEF Named
<1> QED BY <1>3 DEF M

LEMMA TranslatedIsNamed ==
  ASSUME PredicatesAreSemantic, NEW preds \in SUBSET Pred, NEW env \in [Name -> Sort], NEW t, NEW m,
         TranslatedAt(t, m, preds, BySort(env), env, Sorted), NamedBySort(m.memo),
         NEW id, m.scopes[Len(m.scopes)].id = id
  PROVE  /\ NamedBySort(t.memo)
         /\ \A k \in DOMAIN t.memo : k \notin DOMAIN m.memo => t.memo[k].scope = id
<1>1. NamesOf(preds) \subseteq Name
  BY KeysByPath
<1>2. ASSUME NEW k \in DOMAIN t.memo, k \notin DOMAIN m.memo
      PROVE  t.memo[k].name = k[1] /\ t.memo[k].scope = id
  <2>1. PICK n \in NamesOf(preds) : k = BySort(env)[n]
    BY <1>2 DEF TranslatedAt, KeysOf
  <2>2. k[1] = n
    BY <2>1, <1>1, BySortIsKeyed
  <2> QED BY <2>1, <2>2, <1>2 DEF TranslatedAt
<1>3. ASSUME NEW k \in DOMAIN t.memo, k \in DOMAIN m.memo
      PROVE  t.memo[k].name = k[1]
  BY <1>3 DEF TranslatedAt, NamedBySort
<1> QED BY <1>2, <1>3 DEF NamedBySort

LEMMA BaseParts ==
  ASSUME NEW s, s = <<BaseScope>>
  PROVE  /\ s \in Seq(Scope) /\ s # <<>> /\ Len(s) = 1 /\ s[Len(s)].id = 0
         /\ FactsOf(s) = {} /\ Ids(s) = {0}
<1>1. BaseScope \in Scope /\ BaseScope.facts = {} /\ BaseScope.id = 0
  BY DEF BaseScope, Scope
<1> HIDE DEF Scope
<1>2. s \in Seq(Scope) /\ s # <<>> /\ Len(s) = 1 /\ s[1] = BaseScope /\ DOMAIN s = {1}
  BY <1>1
<1> QED BY <1>1, <1>2 DEF FactsOf, Ids

LEMMA CallQueryParts ==
  ASSUME CallAssumptions
  PROVE  /\ PredicatesAreSemantic /\ Value # {}
         /\ \A q \in Query : q.env \in [Name -> Sort] /\ q.lhs \in SUBSET Pred /\ q.cands \in SUBSET Pred
         /\ \A env \in Env : env \in [Name -> Sort]
         /\ \A ch \in Chain : ch.p \in Pred /\ ch.ps \in Seq(Pred)
  BY DEF CallAssumptions, QueriesAreTyped, CallsAreTyped

\* The constants that facts use are those of the memo.
LEMMA ConstsOfTerms ==
  ASSUME NEW m, NEW preds, NEW key
  PROVE  \A c \in Consts(Terms(m, preds, key)) : \E n \in NamesOf(preds) : c = m.memo[key[n]]
<1> SUFFICES ASSUME NEW c \in Consts(Terms(m, preds, key))
             PROVE  \E n \in NamesOf(preds) : c = m.memo[key[n]]
  OBVIOUS
<1>1. PICK f \in Terms(m, preds, key) : c \in {f.consts[n] : n \in DOMAIN f.consts}
  BY DEF Consts
<1>2. PICK p \in preds : f = Term(m, p, key)
  BY DEF Terms
<1>3. DOMAIN f.consts = VarsOf[p] /\ \A n \in VarsOf[p] : f.consts[n] = m.memo[key[n]]
  BY <1>2 DEF Term
<1>4. PICK n \in VarsOf[p] : c = m.memo[key[n]]
  BY <1>1, <1>3
<1> QED BY <1>4 DEF NamesOf

\* The record inside a call of set_filter: the facts are the left-hand side's, in the one scope
\* over the base, and what was declared since the barrier is what the candidates added.
Inside(m, fm, q, asked) ==
  LET key == BySort(q.env)
  IN /\ m \in Context(Sorted) /\ NamedBySort(m.memo) /\ m.decls # <<>>
     /\ m.scopes = Append(<<BaseScope>>, [id |-> fm.pushes + 1, facts |-> Terms(m, q.lhs, key)])
     /\ m.pushes = fm.pushes + 1
     /\ Terms(m, q.lhs, key) \in SUBSET Fact
     /\ KeysOf(q.lhs \cup asked, key) \subseteq DOMAIN m.memo
     /\ \A k \in DOMAIN m.memo : k \notin m.decls[1] => m.memo[k].scope = 0
     /\ \A k \in DOMAIN m.memo : m.memo[k].scope \in {0, fm.pushes + 1}

LEMMA SetFilterInside ==
  ASSUME CallAssumptions, FixInv, stage = "solving", NEW q \in Query, NEW asked \in SUBSET Pred
  PROVE  LET key    == BySort(q.env)
             before == TranslateLhs(HandleVV(fme, q.env), q)
             set    == Push(before, Terms(before, q.lhs, key))
         IN Inside(Translate(set, asked, key, q.env), fme, q, asked)
<1> DEFINE key == BySort(q.env)
           f == Forget(fme, <<VV, q.env[VV]>>)
           t == Translate(f, q.lhs, key, q.env)
           b == Barrier(t)
           e == [id |-> fme.pushes + 1, facts |-> Terms(b, q.lhs, key)]
           set == Push(b, Terms(b, q.lhs, key))
           m == Translate(set, asked, key, q.env)
<1>1. q.env \in [Name -> Sort] /\ q.lhs \in SUBSET Pred /\ PredicatesAreSemantic
  BY CallQueryParts
<1>2. Keyed(key, Sorted)
  BY <1>1, BySortIsKeyed
<1>3. /\ fme \in Context(Sorted) /\ fme.scopes = <<BaseScope>> /\ fme.decls # <<>> /\ NamedBySort(fme.memo)
      /\ \A k \in DOMAIN fme.memo : fme.memo[k].scope = 0
      /\ fme.pushes \in Nat
  BY ContextParts DEF FixInv, CallRecord
<1>4. /\ fme.scopes \in Seq(Scope) /\ fme.scopes # <<>> /\ fme.scopes[Len(fme.scopes)].id = 0
  BY <1>3, BaseParts
<1>5. /\ f \in Context(Sorted) /\ f.scopes = fme.scopes /\ f.decls # <<>> /\ f.pushes = fme.pushes
      /\ NamedBySort(f.memo) /\ \A k \in DOMAIN f.memo : f.memo[k].scope = 0
  <2>1. /\ f \in Context(Sorted) /\ f.scopes = fme.scopes /\ f.decls = fme.decls /\ f.pushes = fme.pushes
        /\ DOMAIN f.memo = DOMAIN fme.memo \ {<<VV, q.env[VV]>>}
        /\ \A k \in DOMAIN fme.memo \ {<<VV, q.env[VV]>>} : f.memo[k] = fme.memo[k]
    BY <1>3, ForgetFields
  <2> HIDE DEF f
  <2> QED BY <2>1, <1>3 DEF NamedBySort
<1> HIDE DEF f, key
<1>6. TranslatedAt(t, f, q.lhs, key, q.env, Sorted)
  <2>1. f.scopes # <<>> /\ f.decls # <<>>
    BY <1>4, <1>5
  <2> QED BY <2>1, <1>1, <1>2, <1>5, TranslateFieldsAt
<1> HIDE DEF t
<1>7. /\ NamedBySort(t.memo) /\ \A k \in DOMAIN t.memo : t.memo[k].scope = 0
      /\ KeysOf(q.lhs, key) \subseteq DOMAIN t.memo
      /\ t \in Context(Sorted) /\ t.scopes = fme.scopes /\ t.pushes = fme.pushes
  <2>1. NamedBySort(t.memo) /\ \A k \in DOMAIN t.memo : k \notin DOMAIN f.memo => t.memo[k].scope = 0
    <3>1. TranslatedAt(t, f, q.lhs, BySort(q.env), q.env, Sorted) /\ NamedBySort(f.memo)
      BY <1>5, <1>6 DEF key
    <3>2. f.scopes[Len(f.scopes)].id = 0
      BY <1>4, <1>5
    <3> DEFINE id == f.scopes[Len(f.scopes)].id
    <3>3. f.scopes[Len(f.scopes)].id = id /\ id = 0
      BY <3>2
    <3> HIDE DEF id
    <3>4. NamedBySort(t.memo) /\ \A k \in DOMAIN t.memo : k \notin DOMAIN f.memo => t.memo[k].scope = id
      BY <3>1, <3>3, <1>1, TranslatedIsNamed
    <3> QED BY <3>3, <3>4
  <2>2. /\ KeysOf(q.lhs, key) \subseteq DOMAIN t.memo /\ \A k \in DOMAIN f.memo : t.memo[k] = f.memo[k]
        /\ t \in Context(Sorted) /\ t.scopes = fme.scopes /\ t.pushes = fme.pushes
    BY <1>5, <1>6 DEF TranslatedAt
  <2> QED BY <2>1, <2>2, <1>4, <1>5
<1>8. /\ b \in Context(Sorted) /\ b.scopes = fme.scopes /\ b.memo = t.memo /\ b.pushes = fme.pushes
      /\ b.decls # <<>> /\ b.decls[1] = {}
  BY <1>7, BarrierFields
<1> HIDE DEF b
<1>9. Terms(b, q.lhs, key) \in SUBSET Fact
  BY <1>1, <1>2, <1>7, <1>8, TermsTypedAt
<1>10. /\ set \in Context(Sorted) /\ set.scopes = Append(fme.scopes, e) /\ set.memo = t.memo
       /\ set.decls = b.decls /\ set.pushes = fme.pushes + 1
  BY <1>8, <1>9, PushFields
<1>11. e \in Scope /\ e.id = fme.pushes + 1
  BY <1>3, <1>9 DEF Scope
<1> HIDE DEF set, e
<1>12. /\ set.scopes # <<>> /\ set.scopes[Len(set.scopes)].id = fme.pushes + 1
  <2>1. /\ Len(set.scopes) = Len(fme.scopes) + 1 /\ Len(fme.scopes) \in Nat
        /\ set.scopes[Len(fme.scopes) + 1] = e /\ set.scopes \in Seq(Scope)
    BY <1>4, <1>10, <1>11, UnderAppend
  <2> QED BY <2>1, <1>11, EmptySeq
<1>13. TranslatedAt(m, set, asked, key, q.env, Sorted)
  BY <1>1, <1>2, <1>8, <1>10, <1>12, TranslateFieldsAt
<1> HIDE DEF m
<1>14. /\ m \in Context(Sorted) /\ m.scopes = set.scopes /\ m.pushes = set.pushes /\ m.decls # <<>>
       /\ m.decls[1] = KeysOf(asked, key) \ DOMAIN t.memo
       /\ DOMAIN m.memo = DOMAIN t.memo \cup KeysOf(asked, key)
       /\ \A k \in DOMAIN t.memo : m.memo[k] = t.memo[k]
  BY <1>8, <1>10, <1>13 DEF TranslatedAt
<1>15. /\ NamedBySort(m.memo)
       /\ \A k \in DOMAIN m.memo : k \notin DOMAIN t.memo => m.memo[k].scope = fme.pushes + 1
  <2>1. TranslatedAt(m, set, asked, BySort(q.env), q.env, Sorted) /\ NamedBySort(set.memo)
    BY <1>7, <1>10, <1>13 DEF key
  <2>2. /\ NamedBySort(m.memo)
        /\ \A k \in DOMAIN m.memo : k \notin DOMAIN set.memo => m.memo[k].scope = fme.pushes + 1
    BY <2>1, <1>1, <1>12, TranslatedIsNamed
  <2> QED BY <2>2, <1>10, <1>12
<1>16. Terms(m, q.lhs, key) = Terms(b, q.lhs, key)
  <2>1. \A n \in NamesOf(q.lhs) : key[n] \in DOMAIN t.memo
    BY <1>7 DEF KeysOf
  <2> QED BY <2>1, <1>8, <1>14, TermsAgreeAt
<1>17. KeysOf(q.lhs \cup asked, key) \subseteq DOMAIN m.memo
  <2>1. KeysOf(q.lhs \cup asked, key) = KeysOf(q.lhs, key) \cup KeysOf(asked, key)
    BY NamesUnion DEF KeysOf
  <2> QED BY <2>1, <1>7, <1>14
<1>18. \A k \in DOMAIN m.memo : m.memo[k].scope = IF k \in m.decls[1] THEN fme.pushes + 1 ELSE 0
  BY <1>7, <1>14, <1>15
<1>19. m.scopes = Append(<<BaseScope>>, [id |-> fme.pushes + 1, facts |-> Terms(m, q.lhs, key)])
  BY <1>3, <1>10, <1>14, <1>16 DEF e
<1>20. Inside(m, fme, q, asked)
  BY <1>9, <1>10, <1>14, <1>15, <1>16, <1>17, <1>18, <1>19 DEF Inside, key
<1> QED BY <1>20 DEF TranslateLhs, HandleVV, m, set, b, t, f, key

LEMMA NegatedTyped ==
  ASSUME PredicatesAreSemantic, NEW K, NEW key, Keyed(key, K), NEW m \in Context(K),
         NEW p \in Pred, KeysOf({p}, key) \subseteq DOMAIN m.memo
  PROVE  Negated(Term(m, p, key)) \in Fact
<1> DEFINE c == [n \in VarsOf[p] |-> m.memo[key[n]]]
<1>1. Term(m, p, key) = [pred |-> p, sign |-> TRUE, consts |-> c]
      /\ Negated(Term(m, p, key)) = [pred |-> p, sign |-> FALSE, consts |-> c]
  BY TermParts
<1>2. Terms(m, {p}, key) \in SUBSET Fact /\ Term(m, p, key) \in Terms(m, {p}, key)
  <2>1. {p} \in SUBSET Pred
    OBVIOUS
  <2>2. Terms(m, {p}, key) \in SUBSET Fact
    <3> DEFINE ps == {p}
    <3>1. ps \in SUBSET Pred /\ KeysOf(ps, key) \subseteq DOMAIN m.memo
      BY <2>1
    <3> HIDE DEF ps
    <3>2. Terms(m, ps, key) \in SUBSET Fact
      BY <3>1, TermsTypedAt
    <3> QED BY <3>2 DEF ps
  <2> QED BY <2>2 DEF Terms
<1> HIDE DEF c
<1>3. c \in Memo(Name)
  <2>1. Term(m, p, key) \in Fact /\ Term(m, p, key).consts = c
    BY <1>1, <1>2
  <2> QED BY <2>1 DEF Fact
<1> HIDE DEF Memo
<1>4. [pred |-> p, sign |-> FALSE, consts |-> c] \in Fact
  BY <1>3 DEF Fact
<1> QED BY <1>1, <1>4

\* What is pushed inside a call of set_filter is checked with its left-hand side.
LEMMA PushInside ==
  ASSUME NEW fm, fm.pushes \in Nat, NEW q, NEW asked, NEW m, Inside(m, fm, q, asked),
         NEW X \in SUBSET Fact
  PROVE  /\ Facts(Push(m, X)) = Terms(m, q.lhs, BySort(q.env)) \cup X
         /\ {0, fm.pushes + 1} \subseteq LiveScopes(Push(m, X))
<1> DEFINE F == Terms(m, q.lhs, BySort(q.env))
           s == <<BaseScope>>
           e1 == [id |-> fm.pushes + 1, facts |-> F]
           e2 == [id |-> m.pushes + 1, facts |-> X]
           k == Push(m, X)
<1>1. m \in Context(Sorted) /\ F \in SUBSET Fact /\ m.scopes = Append(s, e1) /\ m.pushes \in Nat
  BY DEF Inside
<1>2. s \in Seq(Scope) /\ FactsOf(s) = {} /\ Ids(s) = {0}
  BY BaseParts
<1>3. e1 \in Scope /\ e2 \in Scope /\ e1.facts = F /\ e1.id = fm.pushes + 1 /\ e2.facts = X
  BY <1>1 DEF Scope
<1>4. k.scopes = Append(m.scopes, e2)
  BY <1>1, PushFields
<1> HIDE DEF s, e1, e2, F, k
<1>5. m.scopes \in Seq(Scope)
  BY <1>1, ContextParts
<1>6. FactsOf(m.scopes) = F /\ Ids(m.scopes) = {0, fm.pushes + 1}
  <2>1. FactsOf(Append(s, e1)) = FactsOf(s) \cup e1.facts /\ Ids(Append(s, e1)) = Ids(s) \cup {e1.id}
    BY <1>2, <1>3, SeenAppend
  <2> QED BY <2>1, <1>1, <1>2, <1>3
<1>7. FactsOf(k.scopes) = FactsOf(m.scopes) \cup e2.facts /\ Ids(k.scopes) = Ids(m.scopes) \cup {e2.id}
  <2>1. FactsOf(Append(m.scopes, e2)) = FactsOf(m.scopes) \cup e2.facts
        /\ Ids(Append(m.scopes, e2)) = Ids(m.scopes) \cup {e2.id}
    BY <1>3, <1>5, SeenAppend
  <2> QED BY <2>1, <1>4
<1>8. Facts(k) = F \cup X /\ {0, fm.pushes + 1} \subseteq LiveScopes(k)
  BY <1>3, <1>6, <1>7, FactsAre
<1> QED BY <1>8 DEF F, k

LEMMA InsideAnswers ==
  ASSUME CallAssumptions, NEW fm, fm.pushes \in Nat, NEW q \in Query, NEW asked \in SUBSET Pred,
         NEW m, Inside(m, fm, q, asked)
  PROVE  LET key == BySort(q.env)
         IN /\ \A p \in asked : Unsat(Push(m, {Negated(Term(m, p, key))})) <=> Entails(q.lhs, p)
            /\ LET all == Push(m, Terms(m, asked, key)) IN ConstsAreLive(all, Consts(Facts(all)))
<1> DEFINE key == BySort(q.env)
<1>1. q.env \in [Name -> Sort] /\ q.lhs \in SUBSET Pred /\ PredicatesAreSemantic /\ Value # {}
  BY CallQueryParts
<1>2. Keyed(key, Sorted)
  BY <1>1, BySortIsKeyed
<1>3. /\ m \in Context(Sorted) /\ NamedBySort(m.memo) /\ KeysOf(q.lhs \cup asked, key) \subseteq DOMAIN m.memo
      /\ \A k \in DOMAIN m.memo : m.memo[k].scope \in {0, fm.pushes + 1}
  BY DEF Inside
<1>4. Named(View(m, key))
  BY <1>1, <1>3, SortedIsNamed
<1> HIDE DEF key
<1>5. ASSUME NEW p \in asked
      PROVE  Unsat(Push(m, {Negated(Term(m, p, key))})) <=> Entails(q.lhs, p)
  <2> DEFINE k == Push(m, {Negated(Term(m, p, key))})
  <2>1. KeysOf({p}, key) \subseteq DOMAIN m.memo /\ KeysOf(q.lhs \cup {p}, key) \subseteq DOMAIN m.memo
    <3>1. NamesOf({p}) \subseteq NamesOf(q.lhs \cup asked) /\ NamesOf(q.lhs \cup {p}) \subseteq NamesOf(q.lhs \cup asked)
      BY DEF NamesOf
    <3> QED BY <3>1, <1>3 DEF KeysOf
  <2>2. Negated(Term(m, p, key)) \in Fact /\ p \in Pred
    BY <2>1, <1>1, <1>2, <1>3, NegatedTyped
  <2>3. Facts(k) = Terms(m, q.lhs, key) \cup {Negated(Term(m, p, key))}
    <3>1. {Negated(Term(m, p, key))} \in SUBSET Fact
      BY <2>2
    <3> QED BY <3>1, PushInside DEF key
  <2> HIDE DEF k
  <2>4. Unsat(k) <=> Entails(q.lhs, p)
    BY <2>1, <2>2, <2>3, <1>1, <1>2, <1>3, <1>4, UnsatIsEntailed
  <2> QED BY <2>4 DEF k
<1> DEFINE all == Push(m, Terms(m, asked, key))
<1>6. ConstsAreLive(all, Consts(Facts(all)))
  <2>1. Terms(m, asked, key) \in SUBSET Fact
    <3>1. KeysOf(asked, key) \subseteq DOMAIN m.memo
      BY <1>3 DEF KeysOf, NamesOf
    <3> QED BY <3>1, <1>1, <1>2, <1>3, TermsTypedAt
  <2>2. Facts(all) = Terms(m, q.lhs, key) \cup Terms(m, asked, key) /\ {0, fm.pushes + 1} \subseteq LiveScopes(all)
    BY <2>1, PushInside DEF key
  <2> HIDE DEF all
  <2>3. Facts(all) = Terms(m, q.lhs \cup asked, key)
    BY <2>2, TermsUnion
  <2>4. \A c \in Consts(Facts(all)) : \E n \in NamesOf(q.lhs \cup asked) : c = m.memo[key[n]]
    BY <2>3, ConstsOfTerms
  <2>5. \A n \in NamesOf(q.lhs \cup asked) : m.memo[key[n]].scope \in {0, fm.pushes + 1}
    BY <1>3 DEF KeysOf
  <2> QED BY <2>2, <2>4, <2>5 DEF ConstsAreLive
<1> QED BY <1>5, <1>6 DEF key

LEMMA SetFilterKeeps ==
  ASSUME CallAssumptions, FixInv, NEW q \in Query, SetFilter(q)
  PROVE  FixInv'
<1> DEFINE key == BySort(q.env)
           before == TranslateLhs(HandleVV(fme, q.env), q)
           set == Push(before, Terms(before, q.lhs, key))
           asked == q.cands \ Tautologies
           m == Translate(set, asked, key, q.env)
           all == Push(m, Terms(m, asked, key))
           valid == {p \in asked : Unsat(Push(m, {Negated(Term(m, p, key))}))}
           result == (q.cands \cap Tautologies) \cup valid
           live == ConstsAreLive(all, Consts(Facts(all)))
<1>1. /\ stage = "solving" /\ stage' = stage /\ fme' = EndSetFilter(m)
      /\ last' = [call |-> "set_filter", arg |-> q, answer |-> result, live |-> live]
  BY DEF SetFilter, Called
<1>2. asked \in SUBSET Pred /\ fme.pushes \in Nat
  <2>1. q.cands \in SUBSET Pred
    BY CallQueryParts
  <2>2. fme.pushes \in Nat
    BY ContextParts DEF FixInv, CallRecord
  <2> QED BY <2>1, <2>2
<1>3. Inside(m, fme, q, asked)
  <2> HIDE DEF asked
  <2> QED BY <1>1, <1>2, SetFilterInside
<1> HIDE DEF m
<1>4. live /\ \A p \in asked : Unsat(Push(m, {Negated(Term(m, p, key))})) <=> Entails(q.lhs, p)
  <2> HIDE DEF asked
  <2> QED BY <1>2, <1>3, InsideAnswers
<1> HIDE DEF live, all
<1>5. result = {p \in q.cands : p \in Tautologies \/ Entails(q.lhs, p)}
  BY <1>4
<1> HIDE DEF result
<1>6. last'.call = "set_filter" /\ last'.arg = q /\ last'.answer = result /\ last'.live = live
  BY <1>1
<1>7. /\ m \in Context(Sorted) /\ NamedBySort(m.memo) /\ m.decls # <<>>
      /\ \A k \in DOMAIN m.memo : k \notin m.decls[1] => m.memo[k].scope = 0
      /\ \E e \in Scope : m.scopes = Append(<<BaseScope>>, e)
  <2>1. [id |-> fme.pushes + 1, facts |-> Terms(m, q.lhs, BySort(q.env))] \in Scope
    BY <1>2, <1>3 DEF Inside, Scope
  <2> QED BY <2>1, <1>3 DEF Inside
<1>8. /\ Under(m.scopes) = <<BaseScope>> /\ Len(m.scopes) > 1
  <2>1. PICK e \in Scope : m.scopes = Append(<<BaseScope>>, e)
    BY <1>7
  <2>2. <<BaseScope>> \in Seq(Scope) /\ Len(<<BaseScope>>) = 1
    BY BaseParts
  <2> DEFINE s == <<BaseScope>>
  <2> HIDE DEF s
  <2>3. Under(Append(s, e)) = s /\ Len(Append(s, e)) = Len(s) + 1
    BY <2>2, UnderAppend DEF s
  <2>4. Under(m.scopes) = s /\ Len(m.scopes) = 2
    BY <2>1, <2>2, <2>3 DEF s
  <2> QED BY <2>4 DEF s
<1> DEFINE c == CleanDecls(m)
<1>9. /\ c \in Context(Sorted) /\ c.scopes = m.scopes /\ c.decls # <<>>
      /\ DOMAIN c.memo = DOMAIN m.memo \ m.decls[1]
      /\ \A k \in DOMAIN m.memo \ m.decls[1] : c.memo[k] = m.memo[k]
  BY <1>7, CleanFields
<1>10. /\ Pop(c) \in Context(Sorted) /\ Pop(c).scopes = Under(c.scopes) /\ Pop(c).memo = c.memo
       /\ Pop(c).decls = c.decls
  <2> HIDE DEF c
  <2> QED BY <1>8, <1>9, PopFields
<1>11. fme' = Pop(c)
  BY <1>1 DEF EndSetFilter
<1> HIDE DEF c
<1>12. CallRecord(fme') /\ \A k \in DOMAIN fme'.memo : fme'.memo[k].scope = 0
  BY <1>7, <1>8, <1>9, <1>10, <1>11 DEF CallRecord, NamedBySort
<1>13. SetFilterIsEntailment'
  BY <1>5, <1>6 DEF SetFilterIsEntailment
<1>14. SolverTermsAreLive' /\ SuffixIsGreatest'
  BY <1>4, <1>6 DEF SolverTermsAreLive, SuffixIsGreatest
<1> QED BY <1>12, <1>13, <1>14 DEF FixInv

LEMMA IsContraKeeps ==
  ASSUME CallAssumptions, FixInv, NEW env \in Env, NEW p \in Pred, IsContra(env, p)
  PROVE  FixInv'
<1> DEFINE key == BySort(env)
           ps == {p}
           t == Translate(fme, ps, key, env)
           e == [id |-> t.pushes + 1, facts |-> {Term(t, p, key)}]
           inside == Push(t, {Term(t, p, key)})
<1>1. stage' = stage /\ stage # "solving" /\ fme' = Pop(inside) /\ last'.call = "is_contra"
  BY DEF IsContra, Called
<1>2. env \in [Name -> Sort] /\ PredicatesAreSemantic /\ ps \in SUBSET Pred
  BY CallQueryParts
<1> HIDE DEF ps
<1>3. Keyed(key, Sorted)
  BY <1>2, BySortIsKeyed
<1>4. /\ fme \in Context(Sorted) /\ fme.scopes = <<BaseScope>> /\ fme.decls # <<>> /\ NamedBySort(fme.memo)
  BY DEF FixInv, CallRecord
<1>5. fme.scopes # <<>> /\ fme.scopes \in Seq(Scope) /\ Len(fme.scopes) = 1 /\ fme.scopes[Len(fme.scopes)].id = 0
  BY <1>4, BaseParts
<1> HIDE DEF key
<1>6. TranslatedAt(t, fme, ps, key, env, Sorted)
  BY <1>2, <1>3, <1>4, <1>5, TranslateFieldsAt
<1> HIDE DEF t
<1>7. NamedBySort(t.memo)
  <2> DEFINE id == fme.scopes[Len(fme.scopes)].id
  <2>1. fme.scopes[Len(fme.scopes)].id = id
    OBVIOUS
  <2> HIDE DEF id
  <2>2. TranslatedAt(t, fme, ps, BySort(env), env, Sorted)
    BY <1>6 DEF key
  <2> QED BY <2>1, <2>2, <1>2, <1>4, TranslatedIsNamed
<1>8. /\ t \in Context(Sorted) /\ t.scopes = fme.scopes /\ t.decls # <<>> /\ KeysOf(ps, key) \subseteq DOMAIN t.memo
  BY <1>6 DEF TranslatedAt
<1>9. {Term(t, p, key)} \in SUBSET Fact
  <2>1. Terms(t, ps, key) \in SUBSET Fact
    BY <1>2, <1>3, <1>8, TermsTypedAt
  <2> QED BY <2>1 DEF Terms, ps
<1>10. /\ inside \in Context(Sorted) /\ inside.scopes = Append(t.scopes, e) /\ inside.memo = t.memo
       /\ inside.decls = t.decls
  BY <1>8, <1>9, PushFields
<1>11. e \in Scope
  <2>1. t.pushes \in Nat
    BY <1>8, ContextParts
  <2> QED BY <2>1, <1>9 DEF Scope
<1> HIDE DEF inside, e
<1>12. Under(inside.scopes) = fme.scopes /\ Len(inside.scopes) > 1
  BY <1>5, <1>8, <1>10, <1>11, UnderAppend
<1>13. /\ Pop(inside) \in Context(Sorted) /\ Pop(inside).scopes = fme.scopes /\ Pop(inside).memo = t.memo
       /\ Pop(inside).decls = t.decls
  BY <1>10, <1>12, PopFields
<1>14. CallRecord(fme')
  BY <1>1, <1>4, <1>7, <1>8, <1>13 DEF CallRecord
<1>15. SetFilterIsEntailment' /\ SolverTermsAreLive' /\ SuffixIsGreatest'
  BY <1>1 DEF SetFilterIsEntailment, SolverTermsAreLive, SuffixIsGreatest
<1> QED BY <1>1, <1>14, <1>15 DEF FixInv

LEMMA LeastNumber ==
  ASSUME NEW S \in SUBSET Nat, S # {}
  PROVE  LET least == CHOOSE i \in S : \A j \in S : i <= j
         IN least \in S /\ \A j \in S : least <= j
<1>1. PICK i \in S : \A j \in S : ~(<<j, i>> \in OpToRel(<, Nat))
  BY NatLessThanWellFounded, WFMin
<1>2. \A j \in S : ~(j < i)
  BY <1>1, Zenon DEF OpToRel
<1>3. \A j \in S : i <= j
  BY <1>2
<1> QED BY <1>3

\* What unsat_suffix has asserted after i steps is what the suffix from n + 1 - i on holds.
First(ch, i) == {(<<ch.p>> \o Reverse(ch.ps))[j] : j \in 1..i}
SuffixFrom(ch, j) == {ch.p} \cup {ch.ps[i] : i \in j + 1..Len(ch.ps)}

LEMMA FirstIsSuffix ==
  ASSUME NEW ch, ch.p \in Pred, ch.ps \in Seq(Pred)
  PROVE  /\ Len(ch.ps) \in Nat
         /\ \A i \in 1..Len(ch.ps) + 1 : /\ First(ch, i) = SuffixFrom(ch, Len(ch.ps) + 1 - i)
                                         /\ First(ch, i) \subseteq {ch.p} \cup Range(ch.ps)
<1> DEFINE n == Len(ch.ps)
           r == Reverse(ch.ps)
           l == <<ch.p>> \o r
<1>1. n \in Nat /\ ch.ps \in [1..n -> Pred] /\ DOMAIN ch.ps = 1..n
  OBVIOUS
<1>2. r = [i \in 1..n |-> ch.ps[(n - i) + 1]]
  BY DEF Reverse
<1>3. r \in Seq(Pred) /\ Len(r) = n
  <2>1. \A i \in 1..n : ch.ps[(n - i) + 1] \in Pred
    BY <1>1
  <2> HIDE DEF r
  <2>2. r \in [1..n -> Pred]
    BY <2>1, <1>2
  <2> HIDE DEF n
  <2> QED BY <2>2, <1>1, SeqDef, LenProperties
<1>4. \A i \in 1..n : r[i] = ch.ps[(n - i) + 1]
  BY <1>2
<1> HIDE DEF r
<1>5. l[1] = ch.p /\ \A i \in 2..n + 1 : l[i] = r[i - 1]
  <2>1. <<ch.p>> \in Seq(Pred) /\ Len(<<ch.p>>) = 1 /\ <<ch.p>>[1] = ch.p
    OBVIOUS
  <2>2. \A i \in 1..Len(<<ch.p>>) + Len(r) :
          l[i] = IF i <= Len(<<ch.p>>) THEN <<ch.p>>[i] ELSE r[i - Len(<<ch.p>>)]
    BY <2>1, <1>3, ConcatProperties
  <2>3. \A i \in 1..1 + n : l[i] = IF i <= 1 THEN ch.p ELSE r[i - 1]
    <3> HIDE DEF l, n
    <3>1. \A i \in 1..1 + n : i <= 1 => i = 1
      BY <1>1
    <3> QED BY <3>1, <2>1, <2>2, <1>3
  <2> HIDE DEF l, n
  <2> QED BY <2>3, <1>1
<1> HIDE DEF l
<1>6. ASSUME NEW i \in 1..n + 1
      PROVE  /\ First(ch, i) = SuffixFrom(ch, n + 1 - i)
             /\ First(ch, i) \subseteq {ch.p} \cup Range(ch.ps)
  <2> HIDE DEF n
  <2>1. First(ch, i) = {l[j] : j \in 1..i}
    BY DEF First, l, r
  <2>2. \A j \in 2..i : l[j] = ch.ps[n + 2 - j] /\ n + 2 - j \in (n + 1 - i) + 1..n /\ n + 2 - j \in 1..n
    <3> SUFFICES ASSUME NEW j \in 2..i
                 PROVE  l[j] = ch.ps[n + 2 - j] /\ n + 2 - j \in (n + 1 - i) + 1..n /\ n + 2 - j \in 1..n
      OBVIOUS
    <3>1. j \in 2..n + 1 /\ j - 1 \in 1..n /\ (n - (j - 1)) + 1 = n + 2 - j
      BY <1>1
    <3> QED BY <3>1, <1>1, <1>4, <1>5
  <2>3. \A x \in (n + 1 - i) + 1..n : n + 2 - x \in 2..i /\ n + 2 - (n + 2 - x) = x
    BY <1>1
  <2>4. \A j \in 1..i : j = 1 \/ j \in 2..i
    BY <1>1
  <2>5. 1 \in 1..i /\ 2..i \subseteq 1..i
    BY <1>1
  <2>6. SuffixFrom(ch, n + 1 - i) = {ch.p} \cup {ch.ps[x] : x \in (n + 1 - i) + 1..n}
    BY DEF SuffixFrom, n
  <2>7. \A y \in First(ch, i) : y \in SuffixFrom(ch, n + 1 - i) /\ y \in {ch.p} \cup Range(ch.ps)
    <3> SUFFICES ASSUME NEW j \in 1..i
                 PROVE  l[j] \in SuffixFrom(ch, n + 1 - i) /\ l[j] \in {ch.p} \cup Range(ch.ps)
      BY <2>1
    <3>1. CASE j = 1
      BY <3>1, <1>5, <2>6
    <3>2. CASE j \in 2..i
      BY <3>2, <2>2, <2>6, <1>1 DEF Range
    <3> QED BY <3>1, <3>2, <2>4
  <2>8. \A x \in (n + 1 - i) + 1..n : ch.ps[x] \in First(ch, i)
    <3> SUFFICES ASSUME NEW x \in (n + 1 - i) + 1..n PROVE ch.ps[x] \in First(ch, i)
      OBVIOUS
    <3>1. l[n + 2 - x] = ch.ps[n + 2 - (n + 2 - x)] /\ n + 2 - x \in 1..i
      BY <2>2, <2>3, <2>5
    <3>2. l[n + 2 - x] = ch.ps[x]
      BY <3>1, <2>3
    <3> QED BY <3>1, <3>2, <2>1
  <2>9. ch.p \in First(ch, i)
    BY <1>5, <2>1, <2>5
  <2> QED BY <2>6, <2>7, <2>8, <2>9
<1> QED BY <1>1, <1>6

\* The step it stops at, and the index it answers.
LEMMA LeastStopIsGreatest ==
  ASSUME NEW ch, ch.p \in Pred, ch.ps \in Seq(Pred), NEW n, n = Len(ch.ps), NEW Stops, NEW index,
         \A i : i \in Stops <=> i \in 1..n + 1 /\ Contradictory(First(ch, i)),
         Stops = {} => index = -1,
         Stops # {} => \E i \in Stops : index = SuffixIndex(n, i) /\ \A j \in Stops : i <= j
  PROVE  \/ index = -1 /\ \A j \in 0..n : ~Contradictory(SuffixFrom(ch, j))
         \/ /\ index \in 0..n /\ Contradictory(SuffixFrom(ch, index))
            /\ \A j \in 0..n : Contradictory(SuffixFrom(ch, j)) => j <= index
<1>1. n \in Nat /\ \A i \in 1..n + 1 : First(ch, i) = SuffixFrom(ch, n + 1 - i)
  BY FirstIsSuffix
<1>2. ASSUME NEW j \in 0..n, Contradictory(SuffixFrom(ch, j)) PROVE n + 1 - j \in Stops
  <2>1. n + 1 - j \in 1..n + 1 /\ n + 1 - (n + 1 - j) = j
    BY <1>1
  <2> QED BY <2>1, <1>1, <1>2
<1>3. CASE Stops = {}
  BY <1>2, <1>3
<1>4. CASE Stops # {}
  <2>1. PICK i \in Stops : index = n + 1 - i /\ \A j \in Stops : i <= j
    BY <1>4 DEF SuffixIndex
  <2>2. i \in 1..n + 1 /\ Contradictory(SuffixFrom(ch, index)) /\ n \in Nat
    BY <2>1, <1>1
  <2>3. index \in 0..n
    BY <2>1, <2>2
  <2>4. ASSUME NEW j \in 0..n, Contradictory(SuffixFrom(ch, j)) PROVE j <= index
    <3>1. i <= n + 1 - j
      BY <2>1, <2>4, <1>2
    <3> QED BY <3>1, <2>1, <2>2
  <2> QED BY <2>2, <2>3, <2>4
<1> QED BY <1>3, <1>4

LEMMA SuffixInside ==
  ASSUME CallAssumptions, FixInv, NEW env \in Env, NEW ch \in Chain
  PROVE  LET key == BySort(env)
             m   == StartSuffix(fme, ch, env)
             preds == {ch.p} \cup Range(ch.ps)
         IN /\ CallRecord(Pop(m))
            /\ \A some \in SUBSET preds :
                 Unsat(AssertFacts(m, Terms(m, some, key))) <=> Contradictory(some)
<1> DEFINE key == BySort(env)
           s == <<BaseScope>>
           e == [id |-> fme.pushes + 1, facts |-> {}]
           pushed == Push(fme, {})
           preds == {ch.p} \cup Range(ch.ps)
           m == Translate(pushed, preds, key, env)
<1>1. env \in [Name -> Sort] /\ PredicatesAreSemantic /\ Value # {} /\ ch.p \in Pred /\ ch.ps \in Seq(Pred)
  BY CallQueryParts
<1>2. preds \in SUBSET Pred
  <2>1. \A i \in DOMAIN ch.ps : ch.ps[i] \in Pred
    BY <1>1
  <2> QED BY <2>1, <1>1 DEF Range
<1> HIDE DEF preds
<1>3. Keyed(key, Sorted)
  BY <1>1, BySortIsKeyed
<1>4. /\ fme \in Context(Sorted) /\ fme.scopes = s /\ fme.decls # <<>> /\ NamedBySort(fme.memo)
      /\ fme.pushes \in Nat
  BY ContextParts DEF FixInv, CallRecord
<1>5. /\ s \in Seq(Scope) /\ Len(s) = 1 /\ FactsOf(s) = {}
  BY BaseParts
<1>6. e \in Scope /\ e.facts = {}
  BY <1>4 DEF Scope
<1>7. /\ pushed \in Context(Sorted) /\ pushed.scopes = Append(fme.scopes, e) /\ pushed.memo = fme.memo
      /\ pushed.decls = fme.decls
  <2>1. {} \in SUBSET Fact
    OBVIOUS
  <2> QED BY <2>1, <1>4, PushFields
<1> HIDE DEF pushed, s, e, key
<1>8. /\ Under(pushed.scopes) = s /\ Len(pushed.scopes) = 2 /\ pushed.scopes \in Seq(Scope) /\ pushed.scopes # <<>>
      /\ FactsOf(pushed.scopes) = {}
  <2>1. Under(Append(s, e)) = s /\ Len(Append(s, e)) = 2 /\ Append(s, e) \in Seq(Scope)
    <3>1. Under(Append(s, e)) = s /\ Len(Append(s, e)) = Len(s) + 1 /\ Append(s, e) \in Seq(Scope)
      BY <1>5, <1>6, UnderAppend
    <3> QED BY <3>1, <1>5
  <2>2. FactsOf(Append(s, e)) = FactsOf(s) \cup e.facts
    BY <1>5, <1>6, SeenAppend
  <2>3. Len(<<>>) = 0
    OBVIOUS
  <2> QED BY <2>1, <2>2, <2>3, <1>4, <1>5, <1>6, <1>7
<1>9. TranslatedAt(m, pushed, preds, key, env, Sorted)
  BY <1>1, <1>2, <1>3, <1>4, <1>7, <1>8, TranslateFieldsAt
<1> HIDE DEF m
<1>10. NamedBySort(m.memo)
  <2> DEFINE id == pushed.scopes[Len(pushed.scopes)].id
  <2>1. pushed.scopes[Len(pushed.scopes)].id = id
    OBVIOUS
  <2> HIDE DEF id
  <2>2. TranslatedAt(m, pushed, preds, BySort(env), env, Sorted) /\ NamedBySort(pushed.memo)
    BY <1>4, <1>7, <1>9 DEF key
  <2> QED BY <2>1, <2>2, <1>1, <1>2, TranslatedIsNamed
<1>11. /\ m \in Context(Sorted) /\ m.scopes = pushed.scopes /\ m.decls # <<>> /\ KeysOf(preds, key) \subseteq DOMAIN m.memo
  BY <1>9 DEF TranslatedAt
<1>12. CallRecord(Pop(m))
  <2>1. /\ Pop(m) \in Context(Sorted) /\ Pop(m).scopes = Under(m.scopes) /\ Pop(m).memo = m.memo
        /\ Pop(m).decls = m.decls
    BY <1>8, <1>11, PopFields
  <2> QED BY <2>1, <1>8, <1>10, <1>11 DEF CallRecord, s
<1>13. ASSUME NEW some \in SUBSET preds
       PROVE  Unsat(AssertFacts(m, Terms(m, some, key))) <=> Contradictory(some)
  <2> DEFINE a == AssertFacts(m, Terms(m, some, key))
  <2>1. some \in SUBSET Pred /\ KeysOf(some, key) \subseteq DOMAIN m.memo
    BY <1>2, <1>11 DEF KeysOf, NamesOf
  <2>2. Terms(m, some, key) \in SUBSET Fact
    BY <2>1, <1>1, <1>3, <1>11, TermsTypedAt
  <2>3. AssertedAt(a, m, Terms(m, some, key), Sorted)
    BY <2>2, <1>8, <1>11, AssertFieldsAt
  <2> HIDE DEF a
  <2>4. Facts(a) = Terms(m, some, key)
    <3>1. FactsOf(a.scopes) = FactsOf(m.scopes) \cup Terms(m, some, key)
      BY <2>3 DEF AssertedAt
    <3> QED BY <3>1, <1>8, <1>11, FactsAre
  <2>5. Named(View(m, key))
    BY <1>1, <1>10, <1>11, SortedIsNamed DEF key
  <2>6. Unsat(a) <=> Contradictory(some)
    BY <2>1, <2>4, <2>5, <1>1, <1>3, <1>11, UnsatIsContradictory
  <2> QED BY <2>6 DEF a
<1> QED BY <1>12, <1>13 DEF StartSuffix, m, pushed, key, preds

LEMMA UnsatSuffixKeeps ==
  ASSUME CallAssumptions, FixInv, NEW env \in Env, NEW ch \in Chain, UnsatSuffix(env, ch)
  PROVE  FixInv'
<1> DEFINE n == Len(ch.ps)
           m == StartSuffix(fme, ch, env)
           Listed == <<ch.p>> \o Reverse(ch.ps)
           After(i) == AssertFacts(m, Terms(m, {Listed[j] : j \in 1..i}, BySort(env)))
           Stops == {i \in 1..n + 1 : Unsat(After(i))}
           index == IF Stops = {} THEN -1 ELSE SuffixIndex(n, CHOOSE i \in Stops : \A j \in Stops : i <= j)
           live == ConstsAreLive(After(n + 1), Consts(Facts(After(n + 1))))
<1>1. /\ fme' = Pop(m) /\ stage' \in {"killers", "failed"}
      /\ last' = [call |-> "unsat_suffix", arg |-> ch, answer |-> index, live |-> live]
  BY DEF UnsatSuffix, Called
<1>2. ch.p \in Pred /\ ch.ps \in Seq(Pred)
  BY CallQueryParts
<1>3. n \in Nat /\ \A i \in 1..n + 1 : First(ch, i) \in SUBSET ({ch.p} \cup Range(ch.ps))
  BY <1>2, FirstIsSuffix
<1> HIDE DEF m
<1>4. /\ CallRecord(Pop(m))
      /\ \A some \in SUBSET ({ch.p} \cup Range(ch.ps)) :
           Unsat(AssertFacts(m, Terms(m, some, BySort(env)))) <=> Contradictory(some)
  BY SuffixInside DEF m
<1>5. \A i : After(i) = AssertFacts(m, Terms(m, First(ch, i), BySort(env)))
  BY DEF First
<1> HIDE DEF After, live
<1>6. \A i : i \in Stops <=> i \in 1..n + 1 /\ Contradictory(First(ch, i))
  BY <1>3, <1>4, <1>5
<1> HIDE DEF Stops
<1>7. /\ Stops = {} => index = -1
      /\ Stops # {} => \E i \in Stops : index = SuffixIndex(n, i) /\ \A j \in Stops : i <= j
  <2>1. Stops \in SUBSET Nat
    BY <1>3, <1>6
  <2>2. ASSUME Stops # {} PROVE \E i \in Stops : index = SuffixIndex(n, i) /\ \A j \in Stops : i <= j
    <3> DEFINE least == CHOOSE i \in Stops : \A j \in Stops : i <= j
    <3>1. least \in Stops /\ \A j \in Stops : least <= j
      BY <2>1, <2>2, LeastNumber
    <3>2. index = SuffixIndex(n, least)
      BY <2>2
    <3> HIDE DEF least, index
    <3> QED BY <3>1, <3>2
  <2> QED BY <2>2
<1> HIDE DEF index, n
<1>8. \/ index = -1 /\ \A j \in 0..n : ~Contradictory(SuffixFrom(ch, j))
      \/ /\ index \in 0..n /\ Contradictory(SuffixFrom(ch, index))
         /\ \A j \in 0..n : Contradictory(SuffixFrom(ch, j)) => j <= index
  <2>1. n = Len(ch.ps)
    BY DEF n
  <2> QED BY <2>1, <1>2, <1>6, <1>7, LeastStopIsGreatest
<1>9. last'.call = "unsat_suffix" /\ last'.arg = ch /\ last'.answer = index
  BY <1>1
<1>10. SuffixIsGreatest'
  <2> DEFINE From(j) == {ch.p} \cup {ch.ps[i] : i \in j + 1..Len(ch.ps)}
             Bad == {j \in 0..Len(ch.ps) : Contradictory(From(j))}
  <2>1. \A j : j \in Bad <=> j \in 0..n /\ Contradictory(SuffixFrom(ch, j))
    BY DEF SuffixFrom, n
  <2>2. SuffixIsGreatest' <=> (last'.live => IF Bad = {} THEN index = -1 ELSE index \in Bad /\ \A j \in Bad : j <= index)
    BY <1>9 DEF SuffixIsGreatest
  <2> HIDE DEF Bad
  <2> QED BY <2>1, <2>2, <1>8
<1>11. SetFilterIsEntailment' /\ SolverTermsAreLive'
  BY <1>9 DEF SetFilterIsEntailment, SolverTermsAreLive
<1> QED BY <1>1, <1>4, <1>10, <1>11 DEF FixInv

LEMMA FixInitIsBase ==
  ASSUME FixInit
  PROVE  FixInv
<1>1. fme = Fresh /\ last.call = "create"
  BY DEF FixInit
<1> DEFINE s == <<BaseScope>>
           d == << {} >>
           none == << >>
<1>2. s \in Seq(Scope)
  BY BaseParts
<1>3. d \in Seq(SUBSET Sorted) /\ d # <<>>
  OBVIOUS
<1>4. none \in Memo(Sorted) /\ DOMAIN none = {}
  <2>1. DOMAIN none = {}
    OBVIOUS
  <2>2. none = [n \in {} |-> n] /\ [n \in {} |-> n] \in [{} -> Const]
    BY <2>1
  <2> QED BY <2>1, <2>2, MemoWhole
<1> HIDE DEF s, d, none, Scope, Memo
<1>5. fme = [scopes |-> s, pushes |-> 0, fresh |-> 0, memo |-> none, decls |-> d]
  BY <1>1 DEF Fresh, s, d, none
<1>6. fme \in Context(Sorted) /\ fme.scopes = s /\ fme.memo = none /\ fme.decls = d
  BY <1>2, <1>3, <1>4, <1>5 DEF Context
<1>7. CallRecord(fme) /\ \A k \in DOMAIN fme.memo : fme.memo[k].scope = 0
  BY <1>3, <1>4, <1>6 DEF CallRecord, NamedBySort, s
<1>8. SetFilterIsEntailment /\ SolverTermsAreLive /\ SuffixIsGreatest
  BY <1>1 DEF SetFilterIsEntailment, SolverTermsAreLive, SuffixIsGreatest
<1> QED BY <1>7, <1>8 DEF FixInv

LEMMA CallsKeep ==
  ASSUME CallAssumptions, FixInv, [FixNext]_fixVars
  PROVE  FixInv'
<1>1. ASSUME NEW q \in Query, SetFilter(q) PROVE FixInv'
  BY <1>1, SetFilterKeeps
<1>2. ASSUME NEW env \in Env, NEW p \in Pred, IsContra(env, p) PROVE FixInv'
  BY <1>2, IsContraKeeps
<1>3. ASSUME NEW env \in Env, NEW ch \in Chain, UnsatSuffix(env, ch) PROVE FixInv'
  BY <1>3, UnsatSuffixKeeps
<1>4. ASSUME UNCHANGED <<fme, last>>, stage' = stage \/ stage' = "explaining" PROVE FixInv'
  BY <1>4 DEF FixInv, SetFilterIsEntailment, SolverTermsAreLive, SuffixIsGreatest
<1>5. CASE StartExplaining
  BY <1>4, <1>5 DEF StartExplaining
<1>6. CASE NextFact
  BY <1>4, <1>6 DEF NextFact
<1>7. CASE UNCHANGED fixVars
  BY <1>4, <1>7 DEF fixVars
<1> QED BY <1>1, <1>2, <1>3, <1>5, <1>6, <1>7 DEF FixNext

LEMMA FixInvShows ==
  ASSUME FixInv
  PROVE  CallsAreBalanced /\ SolverTermsAreLive /\ SetFilterIsEntailment /\ SuffixIsGreatest
  BY DEF FixInv, CallRecord, CallsAreBalanced

(* Whatever calls the refinement loop and the counterexamples make, in whatever environments: *)
(* each gives the context back as it took it, set_filter answers by entailment alone and uses *)
(* no term of a scope that is gone, and unsat_suffix answers the greatest inconsistent suffix.*)
THEOREM CallsAreAnsweredByEntailment ==
  ASSUME CallAssumptions
  PROVE  FixSpec => [](CallsAreBalanced /\ SolverTermsAreLive /\ SetFilterIsEntailment /\ SuffixIsGreatest)
<1>1. FixInit => FixInv
  BY FixInitIsBase
<1>2. FixInv /\ [FixNext]_fixVars => FixInv'
  BY CallsKeep
<1>3. FixInv => CallsAreBalanced /\ SolverTermsAreLive /\ SetFilterIsEntailment /\ SuffixIsGreatest
  BY FixInvShows
<1> QED BY <1>1, <1>2, <1>3, PTL DEF FixSpec

(***************************************************************************)
(* Side by side, each interface keeps its own invariant.                   *)
(***************************************************************************)
InterfacesInv == ProverInv /\ FixInv

LEMMA InterfacesStart ==
  ASSUME CallAssumptions, Assumptions, InterfacesInit
  PROVE  InterfacesInv
  BY InitIsQuiet, FixInitIsBase DEF InterfacesInit, InterfacesInv

LEMMA InterfacesStep ==
  ASSUME CallAssumptions, Assumptions, InterfacesInv, [InterfacesNext]_<<proverVars, fixVars>>
  PROVE  InterfacesInv'
<1>1. [ProverNext]_proverVars /\ [FixNext]_fixVars
  BY DEF InterfacesNext
<1>2. ProverInv'
  BY <1>1, QueriesKeep DEF InterfacesInv
<1>3. FixInv'
  BY <1>1, CallsKeep DEF InterfacesInv
<1> QED BY <1>2, <1>3 DEF InterfacesInv

(* Whatever is asked of the two interfaces (theoremProverZ3.ml, tpZ3.ml), each gives the   *)
(* context back as it took it: no stale constant, no wrong sort, no fact of another query. *)
THEOREM ContextStaysClean ==
  ASSUME CallAssumptions, Assumptions
  PROVE  InterfacesSpec => []ContextIsClean
<1>1. InterfacesInv => ContextIsClean
  BY ProverInvShows, FixInvShows DEF InterfacesInv, ContextIsClean
<1>2. InterfacesInit => InterfacesInv
  BY InterfacesStart
<1>3. InterfacesInv /\ [InterfacesNext]_<<proverVars, fixVars>> => InterfacesInv'
  BY InterfacesStep
<1> QED BY <1>1, <1>2, <1>3, PTL DEF InterfacesSpec

(* Both answer by entailment alone, whatever was asked before, and unsat_suffix with the *)
(* greatest inconsistent suffix.                                                         *)
THEOREM AnswersStayEntailed ==
  ASSUME CallAssumptions, Assumptions
  PROVE  InterfacesSpec => []AnswersAreEntailed
<1>1. InterfacesInv => AnswersAreEntailed
  BY ProverInvShows, FixInvShows DEF InterfacesInv, AnswersAreEntailed
<1>2. InterfacesInit => InterfacesInv
  BY InterfacesStart
<1>3. InterfacesInv /\ [InterfacesNext]_<<proverVars, fixVars>> => InterfacesInv'
  BY InterfacesStep
<1> QED BY <1>1, <1>2, <1>3, PTL DEF InterfacesSpec
=============================================================================
