-------------------------- MODULE FixConstraints --------------------------
(***************************************************************************)
(* The constraints of the fixpoint library (external/fixpoint), and what   *)
(* its predicate-abstraction domain, predAbs.ml, decides about one of them.*)
(*                                                                         *)
(* A predicate is a qualifier said of a place: the value VV, or what a     *)
(* substitution or an environment binding puts in its stead.               *)
(***************************************************************************)
EXTENDS Integers, FiniteSets, Sequences

CONSTANTS
  KVar,            \* predicate variables
  Qual,            \* qualifiers
  Place,           \* what a qualifier can be said of
  VV,              \* the value being refined: no substitution
  Contra,          \* predicates P.is_contra recognises by their syntax
  UseSimple,       \* Constants.simple
  Problems,        \* the systems to solve
  Entails(_, _)    \* the prover: does this set of facts imply the predicate?

Pred == Place \X Qual

\* Kvar (su, k): the place su makes of the value, and the kvar.
Occurrence == Place \X KVar

(***************************************************************************)
(* FixConstraint.t: iguard holds the guard and the concrete predicates of  *)
(* the environment, env its kvars; lhs and lhsps are the kvars and the     *)
(* predicates of the left-hand side, rhs and goal those of the right.      *)
(***************************************************************************)
FixConstraint == [ iguard : SUBSET Pred,
                   env    : SUBSET Occurrence,
                   lhs    : SUBSET Occurrence,
                   lhsps  : SUBSET Pred,
                   rhs    : SUBSET Occurrence,
                   goal   : SUBSET Pred,
                   tag    : Nat ]

Assignment == [KVar -> SUBSET Qual]

(***************************************************************************)
(* FixConfig.cfg: the constraints in id order, the qualifiers each kvar    *)
(* starts with, the seed solution assm, and the pairs of tags between      *)
(* which dependencies are added and deleted.                               *)
(***************************************************************************)
Problem == [ cs   : Seq(FixConstraint),
             init : Assignment,
             assm : Assignment,
             adds : SUBSET (Nat \X Nat),
             dels : SUBSET (Nat \X Nat) ]

\* A right-hand side is all predicates or all kvars (is_conc_rhs asserts it),
\* says something (simplify_ts drops tautologies), and names a kvar once.
WellFormedRhs(c) ==
  /\ (c.goal = {}) # (c.rhs = {})
  /\ \A o, p \in c.rhs : o[2] = p[2] => o = p

IsProblem(p) ==
  p \in Problem /\ \A i \in DOMAIN p.cs : WellFormedRhs(p.cs[i])

ASSUME ConstantsAssumption ==
  /\ IsFiniteSet(Qual)
  /\ VV \in Place
  /\ Contra \subseteq Pred
  /\ UseSimple \in BOOLEAN

ASSUME ProblemsAssumption == \A p \in Problems : IsProblem(p)

-----------------------------------------------------------------------------
\* Mutant: the environment is forgotten.
LhsKsOfLhs(c) == {o[2] : o \in c.lhs}

LhsKs(c) == {o[2] : o \in c.env \cup c.lhs}

RhsKs(c) == {o[2] : o \in c.rhs}

IsConcRhs(c) == c.goal # {}

\* No substitution and no predicate on either side; the environment is free.
IsSimple(c) ==
  /\ UseSimple
  /\ c.lhsps = {} /\ c.goal = {}
  /\ \A o \in c.lhs \cup c.rhs : o[1] = VV

\* PredAbs.read: the seed is assumed along with what the kvar keeps.
Read(p, s, k) == p.assm[k] \cup s[k]

PredsOf(p, s, os) == UNION {{<<o[1], q>> : q \in Read(p, s, o[2])} : o \in os}

PredsOfLhs(p, c, s) == c.iguard \cup c.lhsps \cup PredsOf(p, s, c.env \cup c.lhs)

\* What of it is there to be matched literally: iguard is one conjunction, so
\* its conjuncts are hidden unless there is only one.
LiteralLhs(p, c, s) ==
  {g \in c.iguard : c.iguard = {g}}
    \cup c.lhsps \cup PredsOf(p, s, c.env \cup c.lhs)

(***************************************************************************)
(* refine, for one candidate g on the right: kept under a left-hand side   *)
(* with a syntactic contradiction; else it must not be one itself, and     *)
(* must be literally on the left or, unless the constraint is simple,      *)
(* follow from it.                                                         *)
(***************************************************************************)
Keeps(p, c, s, g) ==
  \/ LiteralLhs(p, c, s) \cap Contra # {}
  \/ /\ g \notin Contra
     /\ \/ g \in LiteralLhs(p, c, s)
        \/ ~IsSimple(c) /\ Entails(PredsOfLhs(p, c, s), g)

\* refine and p_update: only the candidates of the kvars on the right change.
Refine(p, c, s) ==
  [k \in KVar |->
     {q \in s[k] : \A o \in c.rhs : o[2] = k => Keeps(p, c, s, <<o[1], q>>)}]

\* Mutant: only predicates on the right are asked about, as dsolve's sat does.
UnsatOfGoals(p, c, s) == \E g \in c.goal : ~Entails(PredsOfLhs(p, c, s), g)

\* unsat: the left-hand side does not entail the whole right-hand side.
Unsat(p, c, s) ==
  \E g \in c.goal \cup PredsOf(p, s, c.rhs) : ~Entails(PredsOfLhs(p, c, s), g)

(***************************************************************************)
(* What the constraint means, with no reference to how it is refined or    *)
(* tested: everything on the right follows from the left.                  *)
(***************************************************************************)
Valid(p, c, s) ==
  \A g \in c.goal \cup PredsOf(p, s, c.rhs) : Entails(PredsOfLhs(p, c, s), g)

\* s has no qualifier that t lacks.
Below(s, t) == \A k \in KVar : s[k] \subseteq t[k]
=============================================================================
