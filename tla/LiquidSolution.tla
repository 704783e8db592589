-------------------------- MODULE LiquidSolution --------------------------
(***************************************************************************)
(* What solving promises, with no worklist, no order and no index: one     *)
(* step that answers a constraint system with the greatest solution below  *)
(* its starting point, and the constraints that solution fails.            *)
(***************************************************************************)
EXTENDS LiquidConstraints

VARIABLES
  prob,     \* the constraint system
  result    \* NoResult, or the answer

NoResult == [ answered |-> FALSE ]
Result(s, errs) == [ answered |-> TRUE, sol |-> s, errors |-> errs ]

-----------------------------------------------------------------------------
RhsKs(p) == {p.subs[i].rhs : i \in DOMAIN p.subs} \ {Const}
R1Ks(p)  == {o[2] : o \in UNION {p.subs[i].r1 : i \in DOMAIN p.subs}}

WFsOf(p, k) == {i \in DOMAIN p.wfs : p.wfs[i].k = k}
LastWF(p, k) ==
  p.wfs[CHOOSE i \in WFsOf(p, k) : \A j \in WFsOf(p, k) : j <= i]

(***************************************************************************)
(* Which kvars start with qualifiers at all: those some constraint bounds  *)
(* from below, and those that are only assumed (on the left, in r1) unless *)
(* they belong to a formal parameter or an instantiation came out empty.   *)
(***************************************************************************)
Starts(p, k) ==
  \/ k \in RhsKs(p)
  \/ /\ k \in R1Ks(p)
     /\ MinSol \/ k \notin p.formals
     /\ p.closed # {}
     /\ \A i \in WFsOf(p, k) : p.wfs[i].quals # {}

\* The last well-formedness constraint of a kvar decides its candidates; all
\* of them decide which candidates survive.
Start(p) ==
  [k \in KVar |->
     IF Starts(p, k)
     THEN {q \in LastWF(p, k).quals : \A i \in WFsOf(p, k) : q \in p.wfs[i].wf}
     ELSE {}]

IsFixpoint(p, s) == \A i \in DOMAIN p.subs : Satisfied(p.subs[i], s)

\* The solutions of p that only use its candidates, and the union of them all.
Solutions(p) ==
  LET start == Start(p)
  IN  {s \in [KVar -> SUBSET UNION {start[k] : k \in KVar}] :
         Below(s, start) /\ IsFixpoint(p, s)}

Greatest(p) ==
  LET sols == Solutions(p)
  IN  [k \in KVar |-> UNION {s[k] : s \in sols}]

Failing(p, s) ==
  {i \in DOMAIN p.subs : p.subs[i].rhs = Const /\ ~GoalHolds(p.subs[i], s)}

-----------------------------------------------------------------------------
Init == IsProblem(prob) /\ result = NoResult

Answer ==
  /\ ~result.answered /\ result'.answered
  /\ LET best == Greatest(prob)
     IN  result' = Result(best, Failing(prob, best))
  /\ UNCHANGED prob

Spec == Init /\ [][Answer]_<<prob, result>>
=============================================================================
