---------------------------- MODULE MCFixSolver ----------------------------
(***************************************************************************)
(* Small instances of FixSolver, over a small world of predicates.         *)
(***************************************************************************)
EXTENDS FixSolver

CONSTANTS k1, k2, k3, x

(***************************************************************************)
(* Qualifiers say of the value VV, or of x, how it compares to a           *)
(* constant or to x.  The prover is complete: it decides entailment        *)
(* over all values 0..2 of VV and x.                                       *)
(***************************************************************************)
MCPlace  == {VV, x}
MCQual   == {"pos", "small", "big", "isx", "dec", "false"}
MCContra == {<<VV, "false">>, <<x, "false">>}

\* What a qualifier says of the value at p.
Meaning(env, p, q) ==
  CASE q = "pos"   -> env[p] > 0
    [] q = "small" -> env[p] < 2
    [] q = "big"   -> env[p] = 2
    [] q = "isx"   -> env[p] = env[x]
    [] q = "dec"   -> env[p] = env[x] - 1
    [] q = "false" -> FALSE

Models(ps) == {env \in [MCPlace -> 0..2] : \A f \in ps : Meaning(env, f[1], f[2])}
MCEntails(ps, g) == \A env \in Models(ps) : Meaning(env, g[1], g[2])

\* It is a prover as the proofs ask: it derives what it is given, anything
\* from a contradiction, and no less from more facts.
ASSUME ProverAssumption ==
  LET derived == [ps \in SUBSET Pred |-> {g \in Pred : Entails(ps, g)}]
  IN  \A ps \in SUBSET Pred :
        /\ ps \subseteq derived[ps]
        /\ ps \cap Contra # {} => derived[ps] = Pred
        /\ \A f \in Pred : derived[ps] \subseteq derived[ps \cup {f}]

Cons(iguard, env, lhs, lhsps, rhs, goal, tag) ==
  [ iguard |-> iguard, env |-> env, lhs |-> lhs, lhsps |-> lhsps, rhs |-> rhs,
    goal |-> goal, tag |-> tag ]

\* k flows to l; a simple constraint.
Flow(k, l) == Cons({}, {}, {<<VV, k>>}, {}, {<<VV, l>>}, {}, 1)

\* k holds of x, and V is x - 1, as in a loop that counts down.
Step(k, l) == Cons({}, {<<x, k>>}, {}, {<<VV, "dec">>}, {<<VV, l>>}, {}, 2)

\* V is at most 1; and V is 2, but only a guard says so of a simple constraint.
Source(l)  == Cons({}, {}, {}, {<<VV, "small">>}, {<<VV, l>>}, {}, 1)
Guarded(l) == Cons({<<VV, "big">>}, {}, {}, {}, {<<VV, l>>}, {}, 1)

Check(k) == Cons({}, {}, {<<VV, k>>}, {}, {}, {<<VV, "pos">>}, 3)

\* Writes two kvars, one of them at x.
Split(k) == Cons({}, {}, {<<VV, k>>}, {<<VV, "isx">>}, {<<x, k2>>, <<VV, k3>>}, {}, 2)

Family ==
  { Source(k1), Guarded(k2),
    Flow(k1, k2), Flow(k2, k1), Step(k2, k1), Step(k1, k1), Flow(k3, k3),
    Split(k1), Check(k1) }

None == [k \in KVar |-> {}]
All  == [k \in KVar |-> {"pos", "big"}]

(***************************************************************************)
(* Four constraints: a check or a source first, three of the family, and   *)
(* three variants of the rest of the input: nothing; a seed for k2 with a  *)
(* contradiction among the candidates; dependencies added and deleted.     *)
(***************************************************************************)
Variants ==
  { [ init |-> All, assm |-> None, adds |-> {}, dels |-> {} ],
    [ init |-> [All EXCEPT ![k1] = {"pos", "false"}],
      assm |-> [None EXCEPT ![k2] = {"pos"}], adds |-> {}, dels |-> {} ],
    [ init |-> All, assm |-> None, adds |-> {<<3, 1>>}, dels |-> {<<1, 2>>} ] }

System(cs, v) ==
  [ cs |-> cs, init |-> v.init, assm |-> v.assm, adds |-> v.adds, dels |-> v.dels ]

FixProblems ==
  {System(<<a, b, c, d>>, v) :
     a \in {Check(k1), Guarded(k1)}, b \in Family, c \in Family,
     d \in Family, v \in Variants}
=============================================================================
