------------------------- MODULE LiquidConstraints -------------------------
(***************************************************************************)
(* The refinement constraints of dsolve, as its solver sees them after     *)
(* splitting (liquid/consdef.ml, liquid/constraint.ml), and what one       *)
(* constraint asks of a solution.                                          *)
(*                                                                         *)
(* A refinement variable (kvar) stands for an unknown conjunction of       *)
(* qualifiers; a solution maps each kvar to the qualifiers it keeps.  A    *)
(* predicate is a qualifier said of a place: a program variable, or V, the *)
(* value being refined.  A substitution pending on a kvar is part of the   *)
(* place, so <<x, k>> reads "kvar k, said of x".                           *)
(***************************************************************************)
EXTENDS Integers, FiniteSets, Sequences

CONSTANTS
  KVar,              \* refinement variables
  Qual,              \* qualifier bodies, instantiated
  Place,             \* what a qualifier can be said of
  V,                 \* qual_test_var: the value being refined
  Const,             \* right-hand side that is a predicate, not a kvar
  Contra,            \* predicates P.is_contra recognises by their syntax
  UseSimple,         \* ~(Clflags.no_simple \/ Clflags.verify_simple)
  MinSol,            \* Clflags.minsol
  Problems,          \* the constraint systems to solve
  Entails(_, _)      \* the prover: does this set of facts imply the predicate?

Pred == Place \X Qual

\* An occurrence of a kvar: the place it is said of, and the kvar.
Occurrence == Place \X KVar

(***************************************************************************)
(* SubRef(_, env, g, r1, (subs, rhs), id): under environment env and guard *)
(* g, the refinement r1 of V implies rhs.  facts are the predicates of env *)
(* and g, r1facts those of r1; at is V under rhs's substitution; goal is   *)
(* the predicate of a constant right-hand side; fc is the id of the frame  *)
(* constraint it was split from.                                           *)
(***************************************************************************)
SubRef == [ env     : SUBSET Occurrence,
            facts   : SUBSET Pred,
            r1      : SUBSET Occurrence,
            r1facts : SUBSET Pred,
            rhs     : KVar \cup {Const},
            at      : Place,
            goal    : Pred,
            fc      : Nat ]

(***************************************************************************)
(* WFRef(env, (subs, k), id): quals are the qualifiers instantiated over   *)
(* env and filtered, wf those that are well formed in env.                 *)
(***************************************************************************)
WFRef == [ k : KVar, quals : SUBSET Qual, wf : SUBSET Qual ]

(***************************************************************************)
(* One run's input: the SubRefs and WFRefs in list order, the kvars of     *)
(* formal parameters, and the qualifiers that mention no variable, which   *)
(* is what instantiation over the empty environment of a SubRef gives.     *)
(***************************************************************************)
Problem == [ subs    : Seq(SubRef),
             wfs     : Seq(WFRef),
             formals : SUBSET KVar,
             closed  : SUBSET Qual ]

Assignment == [KVar -> SUBSET Qual]

\* Constraint generation emits a well-formedness constraint for every frame
\* with fresh kvars, so every kvar has one.
EveryKVarHasWF(p) == \A k \in KVar : \E i \in DOMAIN p.wfs : p.wfs[i].k = k

IsProblem(p) == p \in Problem /\ EveryKVarHasWF(p)

ASSUME ConstantsAssumption ==
  /\ V \in Place
  /\ Const \notin KVar
  /\ Contra \subseteq Pred
  /\ UseSimple \in BOOLEAN
  /\ MinSol \in BOOLEAN

ASSUME ProblemsAssumption == \A p \in Problems : IsProblem(p)

-----------------------------------------------------------------------------
\* consdef.ml: every disjunct of r1 is a bare list of kvars, and no
\* substitution is pending on either side.
IsSimple(c) ==
  /\ c.rhs \in KVar
  /\ c.at = V
  /\ c.r1facts = {}
  /\ \A o \in c.r1 : o[1] = V

\* Mutant: the environment is forgotten.
LhsKsOfR1Only(c) == {o[2] : o \in c.r1}

\* The kvars a SubRef reads, in its environment and in r1.
LhsKs(c) == {o[2] : o \in c.env \cup c.r1}

\* lhs_preds: everything the left-hand side says under solution s.
LhsPreds(c, s) ==
  c.facts \cup c.r1facts
    \cup UNION {{<<o[1], q>> : q \in s[o[2]]} : o \in c.env \cup c.r1}

(***************************************************************************)
(* What refine_sub decides about one candidate q of c's right-hand kvar.   *)
(* refine_simple keeps q when some kvar of r1 has it.  refine_tp keeps     *)
(* everything under a left-hand side with a syntactic contradiction, drops *)
(* candidates that are contradictions, and keeps those that are literally  *)
(* on the left or that the prover derives.                                 *)
(***************************************************************************)
KeptSimple(c, s, q) == \E o \in c.r1 : q \in s[o[2]]

KeptByProver(c, s, q) ==
  LET lhs == LhsPreds(c, s)
  IN  \/ lhs \cap Contra # {}
      \/ /\ <<c.at, q>> \notin Contra
         /\ <<c.at, q>> \in lhs \/ Entails(lhs, <<c.at, q>>)

Kept(c, s, q) ==
  IF IsSimple(c) /\ UseSimple THEN KeptSimple(c, s, q) ELSE KeptByProver(c, s, q)

Refined(c, s) == {q \in s[c.rhs] : Kept(c, s, q)}

\* A SubRef with a kvar on the right that refine_sub would leave alone.
Satisfied(c, s) == c.rhs \in KVar => \A q \in s[c.rhs] : Kept(c, s, q)

\* sat, for a SubRef with a predicate on the right.
GoalHolds(c, s) == Entails(LhsPreds(c, s), c.goal)

(***************************************************************************)
(* What the constraint means, with no reference to how it is refined: the  *)
(* left-hand side entails all of the right-hand side.                      *)
(***************************************************************************)
Valid(c, s) ==
  IF c.rhs = Const
  THEN GoalHolds(c, s)
  ELSE \A q \in s[c.rhs] : Entails(LhsPreds(c, s), <<c.at, q>>)

\* s has no qualifier that t lacks.
Below(s, t) == \A k \in KVar : s[k] \subseteq t[k]
=============================================================================
