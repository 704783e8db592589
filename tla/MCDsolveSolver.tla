-------------------------- MODULE MCDsolveSolver --------------------------
(***************************************************************************)
(* Small instances of DsolveSolver, over a small world of predicates.      *)
(***************************************************************************)
EXTENDS DsolveSolver

CONSTANTS k1, k2, k3, x

(***************************************************************************)
(* Qualifiers say of the value V, or of x, how it compares to a            *)
(* constant or to x.  The prover is complete: it decides entailment        *)
(* over all values 0..2 of V and x.                                        *)
(***************************************************************************)
MCPlace  == {V, x}
MCQual   == {"pos", "small", "big", "isx", "dec", "false"}
MCContra == {<<V, "false">>, <<x, "false">>}

\* What a qualifier says of the value at p.
Meaning(env, p, q) ==
  CASE q = "pos"   -> env[p] > 0
    [] q = "small" -> env[p] < 2
    [] q = "big"   -> env[p] = 2
    [] q = "isx"   -> env[p] = env[x]
    [] q = "dec"   -> env[p] = env[x] - 1
    [] q = "false" -> FALSE

Models(ps) == {env \in [MCPlace -> 0..2] : \A f \in ps : Meaning(env, f[1], f[2])}
MCEntails(ps, g) == \A env \in Models(ps) : Meaning(env, g[1], g[2])

\* It is a prover as the proofs ask: it derives what it is given, anything
\* from a contradiction, and no less from more facts.
ASSUME ProverAssumption ==
  LET derived == [ps \in SUBSET Pred |-> {g \in Pred : Entails(ps, g)}]
  IN  \A ps \in SUBSET Pred :
        /\ ps \subseteq derived[ps]
        /\ ps \cap Contra # {} => derived[ps] = Pred
        /\ \A f \in Pred : derived[ps] \subseteq derived[ps \cup {f}]

Sub(env, r1, r1facts, rhs) ==
  [ env |-> env, facts |-> {}, r1 |-> r1, r1facts |-> r1facts, rhs |-> rhs,
    at |-> V, goal |-> <<V, "pos">>, fc |-> 0 ]

WF(k, quals, wf) == [ k |-> k, quals |-> quals, wf |-> wf ]

System(subs, wfs, formals) ==
  [ subs |-> subs, wfs |-> wfs, formals |-> formals, closed |-> {"pos"} ]

-----------------------------------------------------------------------------
(***************************************************************************)
(* Pairs: every pair of SubRefs over two kvars whose left-hand side reads  *)
(* a kvar, or none, at V and at x, with or without a fact, V = x or        *)
(* V = x - 1, that lets what is known of x bear on V.  The kvars come by   *)
(* their candidates in two ways: once each, and k1 twice with an empty     *)
(* instantiation first.                                                    *)
(***************************************************************************)
Shapes ==
  {Sub(env, r1, r1facts, rhs) :
     env \in {{}, {<<x, k1>>}, {<<x, k2>>}},
     r1 \in {{}, {<<V, k1>>}},
     r1facts \in {{}, {<<V, "isx">>}, {<<V, "dec">>}},
     rhs \in {k1, k2, Const}}

Variants ==
  { [ formals |-> {k1},
      wfs |-> <<WF(k1, {"pos", "big"}, MCQual),
                WF(k2, {"pos", "false"}, {"pos", "false"})>> ],
    [ formals |-> {},
      wfs |-> <<WF(k1, {}, MCQual), WF(k2, {"big"}, MCQual),
                WF(k2, {"small", "pos"}, {"pos"}),
                WF(k1, {"small", "pos"}, {"pos", "big"})>> ],
    [ formals |-> {},
      wfs |-> <<WF(k1, {"pos", "big"}, MCQual), WF(k2, {"pos"}, MCQual)>> ] }

PairProblems ==
  {System(<<a, b>>, Append(v.wfs, WF(k3, {}, {})), v.formals) :
     a \in Shapes, b \in Shapes, v \in Variants}

(***************************************************************************)
(* Chains: four SubRefs over three kvars: a source that only allows V < 2, *)
(* a check, and flows from one kvar to the next, the last of which closes  *)
(* a cycle; one reads its kvar in the environment.  Two of them come from  *)
(* one frame constraint.  They are solved with the options minsol and      *)
(* no_simple: Ch is the solver under these, on the same state.             *)
(***************************************************************************)
Flow(k, rhs) == Sub({}, {<<V, k>>}, {}, rhs)

Source == Sub({}, {}, {<<V, "small">>}, k1)
Links  ==
  { Source,
    Flow(k1, k2), Flow(k2, k3), Flow(k3, k1), Flow(k3, k3),
    Sub({<<x, k2>>}, {}, {<<V, "isx">>}, k3),
    Flow(k2, Const) }

Three == [i \in 1..3 |-> WF(<<k1, k2, k3>>[i], {"pos", "small"}, {"pos", "small"})]

ChainProblems ==
  {System(<<[a EXCEPT !.fc = 1], [b EXCEPT !.fc = 1], [c EXCEPT !.fc = 2], d>>,
          Three, {}) :
     a \in {Source, Flow(k1, k3)}, b \in Links, c \in Links, d \in Links}

MCProblems == PairProblems \cup ChainProblems

Ch == INSTANCE DsolveSolver WITH
        UseSimple <- FALSE, MinSol <- TRUE, Problems <- ChainProblems

IsChain == Len(prob.subs) = 4

-----------------------------------------------------------------------------
AllInit == (prob \in PairProblems /\ Init) \/ Ch!Init
AllNext == (~IsChain /\ Next) \/ (IsChain /\ Ch!Next)
AllSpec == AllInit /\ [][AllNext]_vars /\ WF_vars(AllNext)
=============================================================================
