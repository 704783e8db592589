------------------------ MODULE DsolveSolver_proofs ------------------------
(***************************************************************************)
(* Proofs about DsolveSolver, for every constraint system, every set of    *)
(* qualifiers and every prover.                                            *)
(***************************************************************************)
EXTENDS DsolveSolver, TLAPS

-----------------------------------------------------------------------------
(***************************************************************************)
(* Lemmas about one constraint.                                            *)
(***************************************************************************)

\* refine_sub never adds a qualifier, so a solution stays a solution.
LEMMA RefinedShrinks ==
  ASSUME NEW c, NEW s \in Assignment, c.rhs \in KVar
  PROVE  /\ Refined(c, s) \subseteq s[c.rhs]
         /\ [s EXCEPT ![c.rhs] = Refined(c, s)] \in Assignment
<1>1. Refined(c, s) \subseteq s[c.rhs]
  BY DEF Refined
<1>2. s[c.rhs] \in SUBSET Qual
  BY DEF Assignment
<1> QED
  BY <1>1, <1>2 DEF Assignment

\* What c's left-hand side says, and what refinement keeps of its kvar,
\* depends only on the kvars that lhs_ks lists.
LEMMA LhsDependsOnLhsKs ==
  ASSUME NEW c, NEW s, NEW t,
         \A k \in LhsKs(c) : s[k] = t[k]
  PROVE  /\ LhsPreds(c, s) = LhsPreds(c, t)
         /\ \A q : Kept(c, s, q) <=> Kept(c, t, q)
<1>1. \A o \in c.env \cup c.r1 : s[o[2]] = t[o[2]]
  BY DEF LhsKs
<1>2. {{<<o[1], q>> : q \in s[o[2]]} : o \in c.env \cup c.r1}
        = {{<<o[1], q>> : q \in t[o[2]]} : o \in c.env \cup c.r1}
  BY <1>1
<1>3. LhsPreds(c, s) = LhsPreds(c, t)
  BY <1>2 DEF LhsPreds
<1>4. ASSUME NEW q
      PROVE  Kept(c, s, q) <=> Kept(c, t, q)
  <2>1. KeptSimple(c, s, q) <=> KeptSimple(c, t, q)
    BY <1>1 DEF KeptSimple
  <2>2. KeptByProver(c, s, q) <=> KeptByProver(c, t, q)
    BY <1>3 DEF KeptByProver
  <2> QED
    BY <2>1, <2>2 DEF Kept
<1> QED
  BY <1>3, <1>4

-----------------------------------------------------------------------------
(***************************************************************************)
(* Type correctness of the solver.                                         *)
(***************************************************************************)
LEMMA ProblemTypes ==
  ASSUME TypeOK
  PROVE  /\ \A i \in Ids : SubAt(i) \in SubRef
         /\ \A i \in DOMAIN prob.wfs : prob.wfs[i] \in WFRef
         /\ prob.closed \subseteq Qual
         /\ Ids = 1..Len(prob.subs) /\ Len(prob.subs) \in Nat
         /\ DOMAIN prob.wfs = 1..Len(prob.wfs) /\ Len(prob.wfs) \in Nat
<1>1. prob \in Problem
  BY DEF TypeOK, IsProblem
<1>2. prob.subs \in Seq(SubRef) /\ prob.wfs \in Seq(WFRef) /\ prob.closed \subseteq Qual
  BY <1>1 DEF Problem
<1> QED
  BY <1>2 DEF Ids, SubAt

\* Every run starts in a well-typed state.
LEMMA TypeInit == Init => TypeOK
BY ProblemsAssumption DEF Init, TypeOK, Phases, Assignment

\* Every step keeps the state well typed: one case per action.
LEMMA TypeStep == TypeOK /\ [Next]_vars => TypeOK'
<1> SUFFICES ASSUME TypeOK, [Next]_vars
             PROVE  TypeOK'
  OBVIOUS
<1>1. CASE PassSubs
  <2>1. sol' \in Assignment
    BY <1>1, ProblemTypes DEF PassSubs, TypeOK, Assignment
  <2>2. srhs' \subseteq KVar
    BY <1>1, ProblemTypes DEF PassSubs, RhsSeen, SubRef
  <2>3. slhs' \subseteq KVar
    BY <1>1, ProblemTypes DEF PassSubs, R1Seen, SubRef, Occurrence
  <2> QED
    BY <1>1, <2>1, <2>2, <2>3
    DEF PassSubs, TypeOK, Phases, workVars, Ids, Entry
<1>2. CASE PassWF
  <2>1. prob.wfs[next].quals \subseteq Qual
    BY <1>2, ProblemTypes DEF PassWF, WFRef
  <2>2. sol' \in Assignment
    BY <1>2, <2>1 DEF PassWF, TypeOK, Assignment, AppSol
  <2> QED
    BY <1>2, <2>2 DEF PassWF, TypeOK, Phases, workVars, initVars, Ids, Entry
<1>3. CASE EndPassWF
  BY <1>3 DEF EndPassWF, TypeOK, Phases, workVars, initVars, Ids, Entry
<1>4. CASE RefineWF
  <2>1. sol' \in Assignment
    BY <1>4 DEF RefineWF, TypeOK, Assignment
  <2> QED
    BY <1>4, <2>1 DEF RefineWF, TypeOK, Phases, workVars, initVars, Ids, Entry
<1>5. CASE EndRefineWF
  BY <1>5 DEF EndRefineWF, TypeOK, Phases, workVars, initVars, Ids, Entry
<1>6. CASE MakeIndex
  <2>1. rank' \in [Ids -> Int]
    BY <1>6, ProblemTypes DEF MakeIndex, SccRankings
  <2> QED
    BY <1>6, <2>1
    DEF MakeIndex, Push, TypeOK, Phases, initVars, Ids, Entry
<1>7. ASSUME NEW e \in heap, RefineSub(e)
      PROVE  TypeOK'
  <2>1. Deps(e.id) \subseteq Ids
    BY DEF Deps, Readers
  <2>2. CASE Changes(SubAt(e.id))
    <3> DEFINE c == SubAt(e.id)
    <3>a. c.rhs \in KVar /\ sol' = [sol EXCEPT ![c.rhs] = Refined(c, sol)]
      BY <1>7, <2>2 DEF RefineSub, Changes
    <3>b. sol \in Assignment
      BY DEF TypeOK
    <3>1. sol' \in Assignment
      <4> HIDE DEF c
      <4> QED
        BY <3>a, <3>b, RefinedShrinks
    <3>2. heap' \subseteq Entry /\ pend' \subseteq Ids /\ timestamp' \in Nat
      BY <1>7, <2>1, <2>2 DEF RefineSub, Push, HeapAfterPop, PendAfterPop, TypeOK, Entry
    <3> QED
      BY <1>7, <3>1, <3>2 DEF RefineSub, TypeOK, Phases, initVars, Ids, Entry
  <2>3. CASE ~Changes(SubAt(e.id))
    BY <1>7, <2>3 DEF RefineSub, HeapAfterPop, PendAfterPop, TypeOK, Phases, initVars, Ids, Entry
  <2> QED
    BY <2>2, <2>3
<1>8. CASE EndSolve
  BY <1>8 DEF EndSolve, TypeOK, Phases, workVars, initVars, Ids, Entry
<1>9. CASE TestSol
  BY <1>9 DEF TestSol, TypeOK, Phases, workVars, initVars, Ids, Entry
<1>10. CASE UNCHANGED vars
  BY <1>10 DEF vars, TypeOK, Ids, Entry
<1> QED
  BY <1>1, <1>2, <1>3, <1>4, <1>5, <1>6, <1>7, <1>8, <1>9, <1>10 DEF Next

(***************************************************************************)
(* The solver's variables keep their types: a solution only ever maps      *)
(* kvars to qualifiers, and the worklist only ever holds known ids.        *)
(***************************************************************************)
THEOREM TypeCorrect == Spec => []TypeOK
BY TypeInit, TypeStep, PTL DEF Spec

-----------------------------------------------------------------------------
(***************************************************************************)
(* The pending table mirrors the heap.                                     *)
(***************************************************************************)
\* Pushing onto a heap that its table mirrors gives one that its table mirrors.
LEMMA PushKeepsMirror ==
  ASSUME timestamp \in Nat, NEW h, NEW p, NEW ids, Push(h, p, ids),
         p = {d.id : d \in h},
         \A c, d \in h : c.id = d.id => c = d,
         \A d \in h : d.ts \in Nat /\ d.ts <= timestamp
  PROVE  PendIsHeap'
<1> DEFINE new == {[id |-> i, ts |-> timestamp + 1] : i \in ids \ p}
<1>1. heap' = h \cup new /\ pend' = p \cup ids /\ timestamp' = timestamp + 1
  BY DEF Push
<1>2. /\ \A d \in new : d.id \in ids \ p /\ d.ts = timestamp + 1
      /\ \A i \in ids \ p : [id |-> i, ts |-> timestamp + 1] \in new
  OBVIOUS
<1>3. \A i \in pend' : \E d \in heap' : d.id = i
  <2> SUFFICES ASSUME NEW i \in pend'
               PROVE  \E d \in heap' : d.id = i
    OBVIOUS
  <2>1. CASE i \in p
    BY <1>1, <2>1
  <2>2. CASE i \notin p
    <3>1. [id |-> i, ts |-> timestamp + 1] \in heap'
      BY <1>1, <1>2, <2>2
    <3> QED
      BY <3>1
  <2> QED
    BY <2>1, <2>2
<1>4. \A d \in heap' : d.id \in pend'
  BY <1>1, <1>2
<1>5. \A c, d \in heap' : c.id = d.id => c = d
  BY <1>1
<1>6. \A d \in heap' : d.ts <= timestamp'
  BY <1>1, <1>2
<1> QED
  BY <1>3, <1>4, <1>5, <1>6 DEF PendIsHeap

LEMMA PendStep == TypeOK /\ PendIsHeap /\ [Next]_vars => PendIsHeap'
<1> SUFFICES ASSUME TypeOK, PendIsHeap, [Next]_vars
             PROVE  PendIsHeap'
  OBVIOUS
<1>1. CASE UNCHANGED workVars
  BY <1>1 DEF workVars, PendIsHeap
<1>2. CASE MakeIndex
  BY <1>2, PushKeepsMirror DEF MakeIndex, TypeOK
<1>3. ASSUME NEW e \in heap, RefineSub(e)
      PROVE  PendIsHeap'
  <2> DEFINE h == heap \ {e}
             p == pend \ {e.id}
  <2>1. /\ timestamp \in Nat
        /\ p = {d.id : d \in h}
        /\ \A c, d \in h : c.id = d.id => c = d
        /\ \A d \in h : d.ts \in Nat /\ d.ts <= timestamp
    BY DEF PendIsHeap, TypeOK, Entry
  <2>2. CASE Changes(SubAt(e.id))
    <3>1. Push(h, p, Deps(e.id))
      BY <1>3, <2>2 DEF RefineSub, HeapAfterPop, PendAfterPop
    <3> HIDE DEF h, p
    <3> QED
      BY <2>1, <3>1, PushKeepsMirror
  <2>3. CASE ~Changes(SubAt(e.id))
    BY <1>3, <2>1, <2>3 DEF RefineSub, HeapAfterPop, PendAfterPop, PendIsHeap
  <2> QED
    BY <2>2, <2>3
<1> QED
  BY <1>1, <1>2, <1>3
  DEF Next, PassSubs, PassWF, EndPassWF, RefineWF, EndRefineWF, EndSolve,
      TestSol, vars, workVars

(***************************************************************************)
(* pend and the heap never disagree: no SubRef is lost because it is       *)
(* marked without being queued, and none is queued twice.                  *)
(***************************************************************************)
THEOREM PendMirrorsHeap == Spec => []PendIsHeap
<1>1. Init => PendIsHeap
  BY DEF Init, PendIsHeap
<1> QED
  BY <1>1, PendStep, TypeCorrect, PTL DEF Spec

-----------------------------------------------------------------------------
(***************************************************************************)
(* Idle constraints are satisfied.                                         *)
(***************************************************************************)

\* The step that matters: refining the constraint of e, whose kvar loses
\* qualifiers, leaves every constraint that is not pushed satisfied.
LEMMA RefineKeepsIdle ==
  ASSUME TypeOK, IdleIsSatisfied, NEW e \in heap, RefineSub(e)
  PROVE  IdleIsSatisfied'
<1> DEFINE c == SubAt(e.id)
           k == c.rhs
<1> SUFFICES ASSUME NEW i \in Ids, i \notin pend', SubAt(i).rhs \in KVar
             PROVE  \A q \in sol'[SubAt(i).rhs] : Kept(SubAt(i), sol', q)
  BY DEF RefineSub, IdleIsSatisfied, Satisfied, Ids, SubAt
<1>1. Solving
  BY DEF RefineSub, Solving
<1>2. sol \in Assignment
  BY DEF TypeOK
<1>3. i \in pend => i = e.id
  BY DEF RefineSub, Push, HeapAfterPop, PendAfterPop
<1>4. CASE Changes(c)
  <2>1. /\ k \in KVar
        /\ sol' = [sol EXCEPT ![k] = Refined(c, sol)]
        /\ pend' = (pend \ {e.id}) \cup Deps(e.id)
    BY <1>4 DEF RefineSub, Push, HeapAfterPop, PendAfterPop, Changes
  <2>2. k \notin LhsKs(SubAt(i))
    BY <2>1, ConstantsAssumption DEF Deps, Readers
  <2>3. \A m \in LhsKs(SubAt(i)) : sol[m] = sol'[m]
    BY <1>2, <2>1, <2>2 DEF Assignment
  <2>4. \A q : Kept(SubAt(i), sol, q) <=> Kept(SubAt(i), sol', q)
    BY <2>3, LhsDependsOnLhsKs
  <2>5. CASE i = e.id
    <3>1. sol'[k] = Refined(c, sol)
      BY <1>2, <2>1 DEF Assignment
    <3> QED
      BY <2>4, <2>5, <3>1 DEF Refined
  <2>6. CASE i # e.id
    <3>1. Satisfied(SubAt(i), sol)
      BY <1>1, <1>3, <2>6 DEF IdleIsSatisfied
    <3>2. sol'[SubAt(i).rhs] \subseteq sol[SubAt(i).rhs]
      BY <1>2, <2>1 DEF Assignment, Refined
    <3> QED
      BY <2>4, <3>1, <3>2 DEF Satisfied
  <2> QED
    BY <2>5, <2>6
<1>5. CASE ~Changes(c)
  <2>1. sol' = sol
    BY <1>5 DEF RefineSub
  <2>2. CASE i = e.id
    BY <1>5, <2>1, <2>2 DEF Changes, Refined
  <2>3. CASE i # e.id
    BY <1>1, <1>3, <2>1, <2>3 DEF IdleIsSatisfied, Satisfied
  <2> QED
    BY <2>2, <2>3
<1> QED
  BY <1>4, <1>5

LEMMA IdleStep == TypeOK /\ IdleIsSatisfied /\ [Next]_vars => IdleIsSatisfied'
<1> SUFFICES ASSUME TypeOK, IdleIsSatisfied, [Next]_vars
             PROVE  IdleIsSatisfied'
  OBVIOUS
<1>1. CASE PassSubs \/ PassWF \/ EndPassWF \/ RefineWF \/ EndRefineWF
  BY <1>1
  DEF PassSubs, PassWF, EndPassWF, RefineWF, EndRefineWF, IdleIsSatisfied, Solving
<1>2. CASE MakeIndex
  <2>1. pend' = Ids /\ prob' = prob
    BY <1>2 DEF MakeIndex, Push
  <2> QED
    BY <2>1 DEF IdleIsSatisfied, Ids
<1>3. ASSUME NEW e \in heap, RefineSub(e)
      PROVE  IdleIsSatisfied'
  BY <1>3, RefineKeepsIdle
<1>4. CASE EndSolve \/ TestSol \/ UNCHANGED vars
  BY <1>4
  DEF EndSolve, TestSol, vars, workVars, IdleIsSatisfied, Solving, Ids, SubAt
<1> QED
  BY <1>1, <1>2, <1>3, <1>4 DEF Next

(***************************************************************************)
(* Every SubRef outside the worklist is satisfied by the current solution. *)
(***************************************************************************)
THEOREM IdleAlwaysSatisfied == Spec => []IdleIsSatisfied
<1>1. Init => IdleIsSatisfied
  BY DEF Init, IdleIsSatisfied, Solving
<1> QED
  BY <1>1, IdleStep, TypeCorrect, PTL DEF Spec

-----------------------------------------------------------------------------
(***************************************************************************)
(* Soundness of the answer.                                                *)
(***************************************************************************)

\* What the theorem asks of the prover: it derives what is literally assumed,
\* and anything from a left-hand side that contradicts itself.
EntailsSound ==
  \A ps \in SUBSET Pred, g \in Pred :
    g \in ps \/ ps \cap Contra # {} => Entails(ps, g)

\* Under such a prover, what refinement keeps is entailed.
LEMMA KeptIsEntailed ==
  ASSUME EntailsSound, NEW c \in SubRef, NEW s \in Assignment, c.rhs \in KVar,
         NEW q \in Qual, Kept(c, s, q)
  PROVE  Entails(LhsPreds(c, s), <<c.at, q>>)
<1>1. <<c.at, q>> \in Pred
  BY DEF SubRef, Pred
<1>2. LhsPreds(c, s) \in SUBSET Pred
  <2>1. ASSUME NEW o \in c.env \cup c.r1
        PROVE  {<<o[1], r>> : r \in s[o[2]]} \subseteq Pred
    <3>1. o[1] \in Place /\ o[2] \in KVar
      BY DEF SubRef, Occurrence
    <3> QED
      BY <3>1 DEF Assignment, Pred
  <2>2. c.facts \subseteq Pred /\ c.r1facts \subseteq Pred
    BY DEF SubRef
  <2> QED
    BY <2>1, <2>2 DEF LhsPreds
<1>3. CASE IsSimple(c) /\ UseSimple
  <2>1. PICK o \in c.r1 : q \in s[o[2]]
    BY <1>3 DEF Kept, KeptSimple
  <2>2. o[1] = V /\ c.at = V
    BY <1>3 DEF IsSimple
  <2>3. <<c.at, q>> \in LhsPreds(c, s)
    BY <2>1, <2>2 DEF LhsPreds
  <2> QED
    BY <1>1, <1>2, <2>3 DEF EntailsSound
<1>4. CASE ~(IsSimple(c) /\ UseSimple)
  BY <1>1, <1>2, <1>4 DEF Kept, KeptByProver, EntailsSound
<1> QED
  BY <1>3, <1>4

\* When solving is over the worklist is empty, and errors lists exactly the
\* constant right-hand sides that do not hold.
Finished ==
  /\ phase \in {"test", "done"} => heap = {}
  /\ phase = "done" =>
       errors = {i \in Ids : SubAt(i).rhs = Const /\ ~GoalHolds(SubAt(i), sol)}

LEMMA FinishedInvariant == Spec => []Finished
<1>1. Init => Finished
  BY DEF Init, Finished
<1>2. Finished /\ [Next]_vars => Finished'
  BY DEF Finished, Next, PassSubs, PassWF, EndPassWF, RefineWF, EndRefineWF,
         MakeIndex, RefineSub, EndSolve, TestSol, vars, workVars, Ids, SubAt
<1> QED
  BY <1>1, <1>2, PTL DEF Spec

(***************************************************************************)
(* When test_sol reports no error every constraint is entailed, those with *)
(* a kvar on the right included, which sat does not ask the prover about.  *)
(***************************************************************************)
THEOREM SafeAnswerIsValid ==
  ASSUME EntailsSound
  PROVE  Spec => []SafeMeansValid
<1>1. TypeOK /\ PendIsHeap /\ IdleIsSatisfied /\ Finished => SafeMeansValid
  <2> SUFFICES ASSUME TypeOK, PendIsHeap, IdleIsSatisfied, Finished,
                      phase = "done", errors = {}, NEW i \in Ids
               PROVE  Valid(SubAt(i), sol)
    BY DEF SafeMeansValid
  <2>1. SubAt(i) \in SubRef /\ sol \in Assignment
    BY ProblemTypes DEF TypeOK
  <2>2. CASE SubAt(i).rhs = Const
    BY <2>2 DEF Finished, Valid
  <2>3. CASE SubAt(i).rhs # Const
    <3>1. SubAt(i).rhs \in KVar
      BY <2>1, <2>3 DEF SubRef
    <3>2. pend = {}
      BY DEF Finished, PendIsHeap
    <3>3. Satisfied(SubAt(i), sol)
      BY <3>2 DEF IdleIsSatisfied, Solving
    <3>4. ASSUME NEW q \in sol[SubAt(i).rhs]
          PROVE  Entails(LhsPreds(SubAt(i), sol), <<SubAt(i).at, q>>)
      <4>1. q \in Qual
        BY <2>1, <3>1 DEF Assignment
      <4> QED
        BY <2>1, <3>1, <3>3, <4>1, KeptIsEntailed DEF Satisfied
    <3> QED
      BY <2>3, <3>4 DEF Valid
  <2> QED
    BY <2>2, <2>3
<1> QED
  BY <1>1, TypeCorrect, PendMirrorsHeap, IdleAlwaysSatisfied, FinishedInvariant, PTL

-----------------------------------------------------------------------------
(***************************************************************************)
(* The formal parameters of uncalled functions.                            *)
(***************************************************************************)

\* They have no qualifier from the first pass on, and no pass gives them one.
FormalsStartEmpty ==
  /\ phase = "rhslhs" => \A k \in KVar : sol[k] = {}
  /\ phase # "rhslhs" /\ ~MinSol => \A k \in prob.formals \ srhs : sol[k] = {}

LEMMA FormalsStep == TypeOK /\ FormalsStartEmpty /\ [Next]_vars => FormalsStartEmpty'
<1> SUFFICES ASSUME TypeOK, FormalsStartEmpty, [Next]_vars
             PROVE  FormalsStartEmpty'
  OBVIOUS
<1>1. prob.formals \subseteq KVar
  BY DEF TypeOK, IsProblem, Problem
<1>2. CASE PassSubs
  <2>1. phase' # "rhslhs" /\ prob' = prob /\ phase = "rhslhs"
    BY <1>2 DEF PassSubs
  <2>2. ASSUME ~MinSol, NEW k \in prob.formals \ srhs'
        PROVE  sol'[k] = {}
    <3>1. k \in KVar /\ sol[k] = {}
      BY <1>1, <2>1 DEF FormalsStartEmpty
    <3>2. sol'[k] = IF k \in slhs' /\ ~MinSol /\ k \in prob.formals /\ k \notin srhs'
                    THEN {} ELSE IF k \in srhs' \cup slhs' THEN prob.closed ELSE sol[k]
      BY <1>2, <3>1 DEF PassSubs
    <3> QED
      BY <2>2, <3>1, <3>2
  <2> QED
    BY <2>1, <2>2 DEF FormalsStartEmpty
<1>3. CASE PassWF
  <2>1. phase = "initwf" /\ phase' = "initwf" /\ prob' = prob /\ srhs' = srhs
    BY <1>3 DEF PassWF, initVars
  <2>2. ASSUME ~MinSol, NEW k \in prob.formals \ srhs
        PROVE  sol'[k] = {}
    <3>1. sol[k] = {} /\ k \in KVar
      BY <1>1, <2>1, <2>2 DEF FormalsStartEmpty
    <3> QED
      BY <1>3, <3>1 DEF PassWF, KeepsCandidates, TypeOK, Assignment
  <2> QED
    BY <2>1, <2>2 DEF FormalsStartEmpty
<1>4. CASE RefineWF
  <2>1. phase = "refinewf" /\ phase' = "refinewf" /\ prob' = prob /\ srhs' = srhs
    BY <1>4 DEF RefineWF, initVars
  <2>2. \A k \in KVar : sol'[k] \subseteq sol[k]
    BY <1>4 DEF RefineWF, TypeOK, Assignment
  <2> QED
    BY <1>1, <2>1, <2>2 DEF FormalsStartEmpty
<1>5. ASSUME NEW e \in heap, RefineSub(e)
      PROVE  FormalsStartEmpty'
  <2>1. phase = "solve" /\ phase' = "solve" /\ prob' = prob /\ srhs' = srhs
    BY <1>5 DEF RefineSub, initVars
  <2>2. \A k \in KVar : sol'[k] \subseteq sol[k]
    BY <1>5, RefinedShrinks DEF RefineSub, Changes, TypeOK, Assignment
  <2> QED
    BY <1>1, <2>1, <2>2 DEF FormalsStartEmpty
<1>6. CASE EndPassWF \/ EndRefineWF \/ MakeIndex \/ EndSolve \/ TestSol \/ UNCHANGED vars
  <2>1. prob' = prob /\ srhs' = srhs /\ sol' = sol /\ (phase' = "rhslhs" <=> phase = "rhslhs")
    BY <1>6 DEF EndPassWF, EndRefineWF, MakeIndex, EndSolve, TestSol, vars, initVars
  <2> QED
    BY <2>1 DEF FormalsStartEmpty
<1> QED
  BY <1>2, <1>3, <1>4, <1>5, <1>6 DEF Next

(***************************************************************************)
(* Whatever the order of the well-formedness constraints and of the loop,  *)
(* the formals of an uncalled function are left with the type that assumes *)
(* nothing, for every constraint system and every prover.                  *)
(***************************************************************************)
THEOREM UncalledFormalsAssumeNothing == Spec => []UncalledAssumesNothing
<1>1. Init => FormalsStartEmpty
  BY DEF Init, FormalsStartEmpty
<1>2. FormalsStartEmpty => UncalledAssumesNothing
  BY DEF FormalsStartEmpty, UncalledAssumesNothing
<1> QED
  BY <1>1, <1>2, FormalsStep, TypeCorrect, PTL DEF Spec

-----------------------------------------------------------------------------
(***************************************************************************)
(* The order of the worklist.                                              *)
(***************************************************************************)

\* No dependency climbs: what make_ref_index numbered stays so.
RanksDescend == Solving => \A i \in Ids : \A j \in Deps(i) : rank[i] >= rank[j]

LEMMA RankStep == RanksDescend /\ [Next]_vars => RanksDescend'
<1> SUFFICES ASSUME RanksDescend, [Next]_vars
             PROVE  RanksDescend'
  OBVIOUS
<1>1. CASE MakeIndex
  <2>1. rank' \in SccRankings(Ids, RankEdges) /\ prob' = prob
    BY <1>1 DEF MakeIndex
  <2>2. ASSUME NEW i \in Ids, NEW j \in Deps(i)
        PROVE  rank'[i] >= rank'[j]
    <3>1. j \in Ids
      BY DEF Deps, Readers
    <3>2. <<i, j>> \in RankEdges
      BY <3>1 DEF RankEdges
    <3> QED
      BY <2>1, <3>1, <3>2 DEF SccRankings
  <2>3. Ids' = Ids /\ \A i : Deps(i)' = Deps(i)
    BY <2>1 DEF Ids, Deps, Readers, SubAt
  <2> QED
    BY <2>2, <2>3 DEF RanksDescend
<1>2. CASE PassSubs \/ PassWF \/ EndPassWF \/ RefineWF \/ EndRefineWF
  <2>1. ~Solving'
    BY <1>2 DEF PassSubs, PassWF, EndPassWF, RefineWF, EndRefineWF, Solving
  <2> QED
    BY <2>1 DEF RanksDescend
<1>3. CASE (\E e \in heap : RefineSub(e)) \/ EndSolve \/ TestSol \/ UNCHANGED vars
  <2>1. prob' = prob /\ rank' = rank /\ (Solving' => Solving)
    BY <1>3 DEF RefineSub, EndSolve, TestSol, vars, workVars, Solving
  <2>2. Ids' = Ids /\ \A i : Deps(i)' = Deps(i)
    BY <2>1 DEF Ids, Deps, Readers, SubAt
  <2> QED
    BY <2>1, <2>2 DEF RanksDescend
<1> QED
  BY <1>1, <1>2, <1>3 DEF Next

\* What a turn of the loop does to the worklist.
LEMMA TurnOfLoop ==
  ASSUME NEW e \in heap, RefineSub(e)
  PROVE  /\ heap \ heap' \subseteq {e}
         /\ \A d \in heap' \ heap : d.id \in Deps(e.id) /\ d.ts = timestamp + 1
<1>1. CASE Changes(SubAt(e.id))
  <2>1. Push(HeapAfterPop(e), PendAfterPop(e.id), Deps(e.id))
    BY <1>1 DEF RefineSub
  <2> DEFINE new == {[id |-> i, ts |-> timestamp + 1] : i \in Deps(e.id) \ PendAfterPop(e.id)}
  <2>2. heap' = HeapAfterPop(e) \cup new
    BY <2>1 DEF Push
  <2>3. \A d \in new : d.id \in Deps(e.id) /\ d.ts = timestamp + 1
    OBVIOUS
  <2> HIDE DEF new
  <2> QED
    BY <2>2, <2>3 DEF HeapAfterPop
<1>2. CASE ~Changes(SubAt(e.id))
  BY <1>2 DEF RefineSub, HeapAfterPop
<1> QED
  BY <1>1, <1>2

LEMMA MaximumComesFirst ==
  ASSUME TypeOK, phase = "solve", NEW e \in heap, IsMaximum(e), NEW d \in heap
  PROVE  /\ rank[e.id] >= rank[d.id]
         /\ rank[d.id] = rank[e.id] => e.ts <= d.ts
<1>1. rank[e.id] \in Int /\ rank[d.id] \in Int /\ e.ts \in Nat /\ d.ts \in Nat
  BY DEF TypeOK, Entry
<1>2. ~(rank[d.id] > rank[e.id]) /\ (rank[d.id] = rank[e.id] => ~(d.ts < e.ts))
  BY DEF IsMaximum, Before
<1> QED
  BY <1>1, <1>2

LEMMA OrderOfTurn ==
  ASSUME TypeOK, PendIsHeap, RanksDescend, phase = "solve", NEW x \in heap, RefineSub(x)
  PROVE  /\ \A e \in heap \ heap', d \in heap \cup heap' : rank[e.id] >= rank[d.id]
         /\ \A d \in heap :
              /\ \A e \in heap \ heap' : rank[d.id] = rank[e.id] => e.ts <= d.ts
              /\ \A e \in heap' \ heap : rank[d.id] = rank[e.id] => d.ts < e.ts
<1>1. IsMaximum(x)
  BY DEF RefineSub
<1>2. \A d \in heap : rank[x.id] >= rank[d.id] /\ (rank[d.id] = rank[x.id] => x.ts <= d.ts)
  BY <1>1, MaximumComesFirst
<1>3. \A d \in heap' \ heap : rank[x.id] >= rank[d.id]
  <2>1. x.id \in Ids
    BY DEF TypeOK, Entry
  <2> QED
    BY <2>1, TurnOfLoop DEF RanksDescend, Solving
<1>4. \A e \in heap \ heap' : e = x
  BY TurnOfLoop
<1>5. \A d \in heap, e \in heap' \ heap : d.ts < e.ts
  <2>1. \A d \in heap : d.ts \in Nat /\ d.ts <= timestamp
    BY DEF TypeOK, Entry, PendIsHeap
  <2>2. \A e \in heap' \ heap : e.ts = timestamp + 1
    BY TurnOfLoop
  <2>3. timestamp \in Nat
    BY DEF TypeOK
  <2>4. \A a, b \in Nat : a <= b => a < b + 1
    OBVIOUS
  <2> QED
    BY <2>1, <2>2, <2>3, <2>4
<1> QED
  BY <1>2, <1>3, <1>4, <1>5

(***************************************************************************)
(* The loop takes the components of the dependency graph from the highest  *)
(* rank down and never returns to one it has left, and inside one takes    *)
(* what has waited longest: for every system and every numbering that      *)
(* scc_rank may give.                                                      *)
(***************************************************************************)
THEOREM WorklistTakesInOrder == Spec => TakesInOrder
<1>1. Init => RanksDescend
  BY DEF Init, RanksDescend, Solving
<1>2. ASSUME TypeOK, PendIsHeap, RanksDescend, [Next]_vars
      PROVE  /\ [phase = "solve" =>
                   \A e \in heap \ heap', d \in heap \cup heap' : rank[e.id] >= rank[d.id]]_vars
             /\ [phase = "solve" =>
                   \A d \in heap :
                     /\ \A e \in heap \ heap' : rank[d.id] = rank[e.id] => e.ts <= d.ts
                     /\ \A e \in heap' \ heap : rank[d.id] = rank[e.id] => d.ts < e.ts]_vars
  <2>1. CASE \E x \in heap : phase = "solve" /\ RefineSub(x)
    BY <1>2, <2>1, OrderOfTurn
  <2>2. CASE phase = "solve" /\ heap' = heap
    BY <2>2
  <2>3. CASE phase # "solve"
    BY <2>3
  <2>4. CASE UNCHANGED vars
    BY <2>4
  <2> QED
    BY <1>2, <2>1, <2>2, <2>3, <2>4
    DEF Next, PassSubs, PassWF, EndPassWF, RefineWF, EndRefineWF, MakeIndex, RefineSub, EndSolve, TestSol, workVars
<1> QED
  BY <1>1, <1>2, RankStep, TypeCorrect, PendMirrorsHeap, PTL
     DEF Spec, TakesInOrder, ComponentsInOrder, OldestFirst

-----------------------------------------------------------------------------
(***************************************************************************)
(* The solver implements LiquidSolution.                                   *)
(***************************************************************************)

\* What the implementation asks of the prover: more facts entail no less.
EntailsMonotone ==
  \A ps, qs \in SUBSET Pred, g \in Pred :
    ps \subseteq qs /\ Entails(ps, g) => Entails(qs, g)

\* The abstract specification reads a constraint as the solver does.
LEMMA SameReading ==
  ASSUME NEW c, NEW s
  PROVE  /\ Abstract!Satisfied(c, s) <=> Satisfied(c, s)
         /\ Abstract!GoalHolds(c, s) <=> GoalHolds(c, s)
<1>1. /\ Abstract!LhsPreds(c, s) = LhsPreds(c, s)
      /\ Abstract!IsSimple(c) <=> IsSimple(c)
      /\ \A q : Abstract!KeptSimple(c, s, q) <=> KeptSimple(c, s, q)
  BY DEF Abstract!LhsPreds, LhsPreds, Abstract!IsSimple, IsSimple, Abstract!KeptSimple, KeptSimple
<1>2. \A q : Abstract!KeptByProver(c, s, q) <=> KeptByProver(c, s, q)
  BY <1>1 DEF Abstract!KeptByProver, KeptByProver
<1>3. \A q : Abstract!Kept(c, s, q) <=> Kept(c, s, q)
  BY <1>1, <1>2 DEF Abstract!Kept, Kept
<1> QED
  BY <1>1, <1>3 DEF Abstract!Satisfied, Satisfied, Abstract!GoalHolds, GoalHolds

\* What a constraint keeps under a solution it keeps under a larger one.
LEMMA LhsGrows ==
  ASSUME NEW c \in SubRef, NEW s \in Assignment, NEW t \in Assignment, Below(s, t)
  PROVE  /\ LhsPreds(c, s) \subseteq LhsPreds(c, t)
         /\ LhsPreds(c, s) \in SUBSET Pred /\ LhsPreds(c, t) \in SUBSET Pred
<1> DEFINE os == c.env \cup c.r1
           says(u) == UNION {{<<o[1], q>> : q \in u[o[2]]} : o \in os}
<1>1. os \in SUBSET Occurrence /\ c.facts \in SUBSET Pred /\ c.r1facts \in SUBSET Pred
  BY DEF SubRef
<1>2. \A o \in os : o[1] \in Place /\ o[2] \in KVar
  BY <1>1 DEF Occurrence
<1> HIDE DEF os
<1>3. ASSUME NEW g \in says(s)
      PROVE  g \in says(t)
  <2>1. PICK o \in os : \E q \in s[o[2]] : g = <<o[1], q>>
    OBVIOUS
  <2>2. \E q \in t[o[2]] : g = <<o[1], q>>
    BY <1>2, <2>1 DEF Below
  <2> QED
    BY <2>2
<1>4. ASSUME NEW u \in Assignment
      PROVE  says(u) \in SUBSET Pred
  BY <1>2 DEF Assignment, Pred
<1>5. \A u : LhsPreds(c, u) = c.facts \cup c.r1facts \cup says(u)
  BY DEF LhsPreds, os
<1> HIDE DEF says
<1> QED
  BY <1>1, <1>3, <1>4, <1>5

LEMMA KeptGrows ==
  ASSUME EntailsMonotone, NEW c \in SubRef, c.rhs \in KVar,
         NEW s \in Assignment, NEW t \in Assignment, Below(s, t),
         NEW q \in Qual, Kept(c, s, q)
  PROVE  Kept(c, t, q)
<1>1. <<c.at, q>> \in Pred
  BY DEF SubRef, Pred
<1>2. KeptSimple(c, s, q) => KeptSimple(c, t, q)
  BY DEF KeptSimple, Below, SubRef, Occurrence
<1>3. KeptByProver(c, s, q) => KeptByProver(c, t, q)
  BY <1>1, LhsGrows DEF KeptByProver, EntailsMonotone
<1> QED
  BY <1>2, <1>3 DEF Kept

(***************************************************************************)
(* The candidates.  The third pass has put into each kvar what the last    *)
(* well-formedness constraint met so far offers, if it starts with         *)
(* qualifiers at all; the fourth keeps what is well formed in those met.   *)
(***************************************************************************)
Met(k) == {i \in DOMAIN prob.wfs : prob.wfs[i].k = k /\ i < next}
First(k) == IF k \in slhs /\ ~MinSol /\ k \in prob.formals /\ k \notin srhs THEN {}
            ELSE IF k \in srhs \cup slhs THEN prob.closed ELSE {}
\* k starts with qualifiers, as far as S, some well-formedness constraints, says.
StartsWith(k, S) ==
  k \in srhs \/ (k \in slhs /\ First(k) # {} /\ \A i \in S : prob.wfs[i].quals # {})
Offered(k, S) ==
  IF S = {} THEN sol[k] = First(k)
  ELSE \E m \in S : /\ \A j \in S : j <= m
                    /\ sol[k] = IF StartsWith(k, S) THEN prob.wfs[m].quals ELSE {}
Base(k) == IF Abstract!Starts(prob, k) THEN Abstract!LastWF(prob, k).quals ELSE {}

SidesAreSeen == phase # "rhslhs" => srhs = Abstract!RhsKs(prob) /\ slhs = Abstract!R1Ks(prob)
PassesGoOn == /\ phase \in {"rhslhs", "initwf", "refinewf"} => next \in 1..Len(prob.wfs) + 1
              /\ phase = "rhslhs" => next = 1 /\ \A k \in KVar : sol[k] = {}
CandidatesOffered == phase = "initwf" => \A k \in KVar : Offered(k, Met(k))
CandidatesWellFormed ==
  phase = "refinewf" =>
    \A k \in KVar : sol[k] = {q \in Base(k) : \A i \in Met(k) : q \in prob.wfs[i].wf}
\* From then on the solution lies between the start and every fixpoint below.
SolIsBetween ==
  /\ phase = "index" => sol = Abstract!Start(prob)
  /\ Solving => /\ Below(sol, Abstract!Start(prob))
                /\ \A s \in Assignment :
                     Below(s, Abstract!Start(prob)) /\ (\A i \in Ids : Satisfied(SubAt(i), s))
                       => Below(s, sol)
StartInv == SidesAreSeen /\ PassesGoOn /\ CandidatesOffered /\ CandidatesWellFormed /\ SolIsBetween

\* Met grows by the constraint a pass is at, when it is one of k.
LEMMA MetGrows ==
  ASSUME TypeOK, next \in DOMAIN prob.wfs, prob' = prob, next' = next + 1, NEW k \in KVar
  PROVE  Met(k)' = Met(k) \cup (IF prob.wfs[next].k = k THEN {next} ELSE {})
<1>1. DOMAIN prob.wfs \subseteq Nat /\ next \in Nat
  BY ProblemTypes
<1>2. \A i \in DOMAIN prob.wfs : i < next + 1 <=> i < next \/ i = next
  BY <1>1
<1> QED
  BY <1>2 DEF Met

\* At the end of a pass all of them have been met, and there is a last one.
LEMMA AllMet ==
  ASSUME TypeOK, next = Len(prob.wfs) + 1, NEW k \in KVar
  PROVE  Met(k) = Abstract!WFsOf(prob, k) /\ Met(k) # {}
<1>1. DOMAIN prob.wfs = 1..Len(prob.wfs) /\ Len(prob.wfs) \in Nat
  BY ProblemTypes
<1>2. \E i \in DOMAIN prob.wfs : prob.wfs[i].k = k
  BY DEF TypeOK, IsProblem, EveryKVarHasWF
<1>3. \A i \in DOMAIN prob.wfs : i < next
  BY <1>1
<1> QED
  BY <1>2, <1>3 DEF Met, Abstract!WFsOf

LEMMA NoneMet == ASSUME TypeOK, next = 1, NEW k PROVE Met(k) = {}
<1>1. DOMAIN prob.wfs = 1..Len(prob.wfs) /\ Len(prob.wfs) \in Nat
  BY ProblemTypes
<1> QED
  BY <1>1 DEF Met

LEMMA LastIsLast ==
  ASSUME NEW k, DOMAIN prob.wfs \subseteq Nat, NEW m \in Abstract!WFsOf(prob, k), \A j \in Abstract!WFsOf(prob, k) : j <= m
  PROVE  Abstract!LastWF(prob, k) = prob.wfs[m]
<1> DEFINE S == Abstract!WFsOf(prob, k)
           n == CHOOSE i \in S : \A j \in S : j <= i
<1>1. n \in S /\ \A j \in S : j <= n
  OBVIOUS
<1>2. S \subseteq Nat
  BY DEF Abstract!WFsOf
<1>3. Abstract!LastWF(prob, k) = prob.wfs[n]
  BY DEF Abstract!LastWF
<1> HIDE DEF S, n
<1>4. m \in S /\ \A j \in S : j <= m
  BY DEF S
<1>5. n = m
  BY <1>1, <1>2, <1>4
<1> QED
  BY <1>3, <1>5

\* Whether a kvar starts with qualifiers is what the abstract specification says.
LEMMA StartsAgree ==
  ASSUME TypeOK, SidesAreSeen, phase # "rhslhs", NEW k \in KVar
  PROVE  StartsWith(k, Abstract!WFsOf(prob, k)) <=> Abstract!Starts(prob, k)
BY DEF SidesAreSeen, StartsWith, First, Abstract!Starts

\* The third pass at one well-formedness constraint.
LEMMA OfferStep ==
  ASSUME TypeOK, CandidatesOffered, PassWF, NEW k \in KVar
  PROVE  Offered(k, Met(k))'
<1> DEFINE S == Met(k)
           w == prob.wfs[next]
<1>1. /\ phase = "initwf" /\ next \in DOMAIN prob.wfs /\ next' = next + 1
      /\ prob' = prob /\ srhs' = srhs /\ slhs' = slhs
      /\ sol' = [sol EXCEPT ![w.k] = IF KeepsCandidates(w) THEN AppSol(w) ELSE {}]
  BY DEF PassWF, initVars
<1>2. Offered(k, S)
  BY <1>1 DEF CandidatesOffered
<1>3. Met(k)' = S \cup (IF w.k = k THEN {next} ELSE {})
  BY <1>1, MetGrows
<1>4. First(k)' = First(k) /\ \A T : StartsWith(k, T)' <=> StartsWith(k, T)
  BY <1>1 DEF First, StartsWith
<1>5. DOMAIN prob.wfs \subseteq Nat /\ next \in Nat /\ w \in WFRef /\ sol \in Assignment
  BY <1>1, ProblemTypes DEF TypeOK
<1>6. CASE w.k # k
  <2>1. Met(k)' = S /\ sol'[k] = sol[k]
    BY <1>1, <1>3, <1>5, <1>6 DEF Assignment
  <2> QED
    BY <1>1, <1>2, <1>4, <2>1 DEF Offered
<1>7. CASE w.k = k
  <2>1. Met(k)' = S \cup {next} /\ next \in S \cup {next}
    BY <1>3, <1>7
  <2>2. \A j \in S \cup {next} : j <= next
    BY <1>5 DEF Met
  <2>3. sol'[k] = IF KeepsCandidates(w) THEN w.quals ELSE {}
    BY <1>1, <1>5, <1>7 DEF Assignment, AppSol
  <2>4. k \notin srhs => (KeepsCandidates(w) <=> StartsWith(k, S))
    <3>1. CASE S = {}
      BY <1>2, <1>7, <3>1 DEF Offered, KeepsCandidates, StartsWith
    <3>2. CASE S # {}
      BY <1>2, <1>7, <3>2 DEF Offered, KeepsCandidates, StartsWith
    <3> QED
      BY <3>1, <3>2
  <2>5. k \in srhs => KeepsCandidates(w)
    BY <1>7 DEF KeepsCandidates
  <2>6. StartsWith(k, S \cup {next}) <=> k \in srhs \/ (StartsWith(k, S) /\ w.quals # {})
    BY DEF StartsWith
  <2>7. sol'[k] = IF StartsWith(k, S \cup {next}) THEN w.quals ELSE {}
    <3>1. CASE k \in srhs
      BY <2>3, <2>5, <2>6, <3>1
    <3>2. CASE k \notin srhs
      BY <2>3, <2>4, <2>6, <3>2
    <3> QED
      BY <3>1, <3>2
  <2>8. S \cup {next} # {} /\ prob'.wfs[next] = w
    BY <1>1
  <2> HIDE DEF S, w
  <2> QED
    BY <1>4, <2>1, <2>2, <2>7, <2>8 DEF Offered
<1> QED
  BY <1>6, <1>7

\* The fourth pass at one well-formedness constraint.
LEMMA WellFormedStep ==
  ASSUME TypeOK, CandidatesWellFormed, RefineWF, NEW k \in KVar
  PROVE  sol'[k] = {q \in Base(k) : \A i \in Met(k)' : q \in prob.wfs[i].wf}
<1>1. /\ phase = "refinewf" /\ next \in DOMAIN prob.wfs /\ next' = next + 1 /\ prob' = prob
      /\ sol' = [sol EXCEPT ![prob.wfs[next].k] = @ \cap prob.wfs[next].wf]
  BY DEF RefineWF
<1>2. sol[k] = {q \in Base(k) : \A i \in Met(k) : q \in prob.wfs[i].wf}
  BY <1>1 DEF CandidatesWellFormed
<1>3. Met(k)' = Met(k) \cup (IF prob.wfs[next].k = k THEN {next} ELSE {})
  BY <1>1, MetGrows
<1>4. sol'[k] = IF prob.wfs[next].k = k THEN sol[k] \cap prob.wfs[next].wf ELSE sol[k]
  BY <1>1 DEF TypeOK, Assignment
<1>5. CASE prob.wfs[next].k = k
  BY <1>2, <1>3, <1>4, <1>5
<1>6. CASE prob.wfs[next].k # k
  BY <1>2, <1>3, <1>4, <1>6
<1> QED
  BY <1>5, <1>6

\* What the third pass leaves is what the abstract start is made of.
LEMMA OfferedIsBase ==
  ASSUME TypeOK, SidesAreSeen, CandidatesOffered, phase = "initwf", next = Len(prob.wfs) + 1, NEW k \in KVar
  PROVE  sol[k] = Base(k)
<1>1. Met(k) = Abstract!WFsOf(prob, k) /\ Met(k) # {}
  BY AllMet
<1>2. PICK m \in Met(k) : /\ \A j \in Met(k) : j <= m
                          /\ sol[k] = IF StartsWith(k, Met(k)) THEN prob.wfs[m].quals ELSE {}
  BY <1>1 DEF CandidatesOffered, Offered
<1>3. DOMAIN prob.wfs \subseteq Nat
  BY ProblemTypes
<1>4. Abstract!LastWF(prob, k) = prob.wfs[m]
  BY <1>1, <1>2, <1>3, LastIsLast
<1>5. StartsWith(k, Met(k)) <=> Abstract!Starts(prob, k)
  BY <1>1, StartsAgree
<1> QED
  BY <1>2, <1>4, <1>5 DEF Base

\* What the fourth leaves is the abstract start.
LEMMA WellFormedIsStart ==
  ASSUME TypeOK, CandidatesWellFormed, phase = "refinewf", next = Len(prob.wfs) + 1
  PROVE  sol = Abstract!Start(prob)
<1>1. ASSUME NEW k \in KVar
      PROVE  sol[k] = Abstract!Start(prob)[k]
  <2>1. Met(k) = Abstract!WFsOf(prob, k)
    BY AllMet
  <2>2. sol[k] = {q \in Base(k) : \A i \in Met(k) : q \in prob.wfs[i].wf}
    BY DEF CandidatesWellFormed
  <2>3. Abstract!Start(prob)[k] =
          IF Abstract!Starts(prob, k)
          THEN {q \in Abstract!LastWF(prob, k).quals : \A i \in Abstract!WFsOf(prob, k) : q \in prob.wfs[i].wf}
          ELSE {}
    BY DEF Abstract!Start
  <2> QED
    BY <2>1, <2>2, <2>3 DEF Base
<1>2. sol = [k \in KVar |-> sol[k]] /\ Abstract!Start(prob) = [k \in KVar |-> Abstract!Start(prob)[k]]
  BY DEF TypeOK, Assignment, Abstract!Start
<1> QED
  BY <1>1, <1>2

LEMMA StartIsAssignment == ASSUME TypeOK PROVE Abstract!Start(prob) \in Assignment
<1>1. ASSUME NEW k \in KVar
      PROVE  Abstract!Start(prob)[k] \subseteq Qual
  <2>1. PICK m \in DOMAIN prob.wfs : prob.wfs[m].k = k
    BY DEF TypeOK, IsProblem, EveryKVarHasWF
  <2>2. ASSUME NEW q \in Abstract!Start(prob)[k]
        PROVE  q \in prob.wfs[m].wf
    BY <2>1, <2>2 DEF Abstract!Start, Abstract!WFsOf
  <2>3. prob.wfs[m].wf \subseteq Qual
    BY ProblemTypes DEF WFRef
  <2> QED
    BY <2>2, <2>3
<1>2. Abstract!Start(prob) = [k \in KVar |-> Abstract!Start(prob)[k]]
  BY DEF Abstract!Start
<1> QED
  BY <1>1, <1>2 DEF Assignment

\* A turn of the loop removes nothing that a fixpoint below has.
LEMMA FixpointStaysBelow ==
  ASSUME EntailsMonotone, TypeOK, NEW e \in heap, RefineSub(e),
         NEW s \in Assignment, \A i \in Ids : Satisfied(SubAt(i), s), Below(s, sol)
  PROVE  Below(s, sol')
<1> DEFINE c == SubAt(e.id)
<1>1. e.id \in Ids /\ c \in SubRef /\ sol \in Assignment
  BY ProblemTypes DEF TypeOK, Entry
<1>2. CASE Changes(c)
  <2>1. c.rhs \in KVar /\ sol' = [sol EXCEPT ![c.rhs] = Refined(c, sol)]
    BY <1>2 DEF RefineSub, Changes
  <2>2. ASSUME NEW q \in s[c.rhs]
        PROVE  q \in Refined(c, sol)
    <3>1. Kept(c, s, q) /\ q \in Qual /\ q \in sol[c.rhs]
      BY <1>1, <2>1 DEF Satisfied, Assignment, Below
    <3>2. Kept(c, sol, q)
      BY <1>1, <2>1, <3>1, KeptGrows
    <3> QED
      BY <3>1, <3>2 DEF Refined
  <2>3. \A k \in KVar : sol'[k] = IF k = c.rhs THEN Refined(c, sol) ELSE sol[k]
    BY <1>1, <2>1 DEF Assignment
  <2> QED
    BY <2>2, <2>3 DEF Below
<1>3. CASE ~Changes(c)
  BY <1>3 DEF RefineSub
<1> QED
  BY <1>2, <1>3

LEMMA SolShrinks ==
  ASSUME TypeOK, NEW e \in heap, RefineSub(e)
  PROVE  Below(sol', sol)
BY RefinedShrinks DEF RefineSub, Changes, TypeOK, Assignment, Below

\* The facts of an unchanged constraint system that the invariant is made of.
LEMMA ProblemStays ==
  ASSUME prob' = prob
  PROVE  /\ Ids' = Ids /\ \A i : SubAt(i)' = SubAt(i)
         /\ \A k : Base(k)' = Base(k)
         /\ Abstract!Start(prob)' = Abstract!Start(prob)
         /\ Abstract!RhsKs(prob)' = Abstract!RhsKs(prob) /\ Abstract!R1Ks(prob)' = Abstract!R1Ks(prob)
BY DEF Ids, SubAt, Base, Abstract!Start, Abstract!Starts, Abstract!LastWF, Abstract!WFsOf,
       Abstract!RhsKs, Abstract!R1Ks

LEMMA StartInit == Init => StartInv
<1> SUFFICES ASSUME Init PROVE StartInv
  OBVIOUS
<1>1. TypeOK
  BY TypeInit
<1>2. Len(prob.wfs) \in Nat
  BY <1>1, ProblemTypes
<1>3. PassesGoOn
  BY <1>2 DEF Init, PassesGoOn
<1>4. SidesAreSeen /\ CandidatesOffered /\ CandidatesWellFormed /\ SolIsBetween
  BY DEF Init, SidesAreSeen, CandidatesOffered, CandidatesWellFormed, SolIsBetween, Solving
<1> QED
  BY <1>3, <1>4 DEF StartInv

LEMMA PassSubsStarts == ASSUME TypeOK, StartInv, PassSubs PROVE StartInv'
<1>1. /\ phase = "rhslhs" /\ phase' = "initwf" /\ prob' = prob /\ next' = next
      /\ srhs' = RhsSeen /\ slhs' = R1Seen
  BY DEF PassSubs
<1>2. next = 1 /\ next \in 1..Len(prob.wfs) + 1 /\ \A k \in KVar : sol[k] = {}
  BY <1>1 DEF StartInv, PassesGoOn
<1>3. SidesAreSeen'
  BY <1>1 DEF SidesAreSeen, RhsSeen, R1Seen, SubAt, Ids, Abstract!RhsKs, Abstract!R1Ks
<1>4. PassesGoOn'
  BY <1>1, <1>2 DEF PassesGoOn
<1>5. ASSUME NEW k \in KVar
      PROVE  Offered(k, Met(k))'
  <2>1. Met(k)' = {}
    BY <1>1, <1>2, NoneMet DEF Met
  <2>2. sol'[k] = First(k)'
    BY <1>1, <1>2 DEF PassSubs, First
  <2> QED
    BY <2>1, <2>2 DEF Offered
<1>6. CandidatesOffered' /\ CandidatesWellFormed' /\ SolIsBetween'
  BY <1>1, <1>5 DEF CandidatesOffered, CandidatesWellFormed, SolIsBetween, Solving
<1> QED
  BY <1>3, <1>4, <1>6 DEF StartInv

LEMMA PassWFStarts == ASSUME TypeOK, StartInv, PassWF PROVE StartInv'
<1>1. /\ phase = "initwf" /\ phase' = "initwf" /\ prob' = prob /\ next \in DOMAIN prob.wfs /\ next' = next + 1
      /\ srhs' = srhs /\ slhs' = slhs
  BY DEF PassWF, initVars
<1>2. SidesAreSeen'
  BY <1>1, ProblemStays DEF StartInv, SidesAreSeen
<1>3. PassesGoOn'
  <2>1. DOMAIN prob.wfs = 1..Len(prob.wfs) /\ Len(prob.wfs) \in Nat
    BY ProblemTypes
  <2>2. next + 1 \in 1..Len(prob.wfs) + 1
    BY <1>1, <2>1
  <2> QED
    BY <1>1, <2>2 DEF PassesGoOn
<1>4. CandidatesOffered'
  BY OfferStep DEF StartInv, CandidatesOffered
<1>5. CandidatesWellFormed' /\ SolIsBetween'
  BY <1>1 DEF CandidatesWellFormed, SolIsBetween, Solving
<1> QED
  BY <1>2, <1>3, <1>4, <1>5 DEF StartInv

LEMMA EndPassWFStarts == ASSUME TypeOK, StartInv, EndPassWF PROVE StartInv'
<1>1. /\ phase = "initwf" /\ phase' = "refinewf" /\ prob' = prob /\ next = Len(prob.wfs) + 1 /\ next' = 1
      /\ srhs' = srhs /\ slhs' = slhs /\ sol' = sol
  BY DEF EndPassWF, initVars
<1>2. SidesAreSeen' /\ SidesAreSeen
  BY <1>1, ProblemStays DEF StartInv, SidesAreSeen
<1>3. PassesGoOn'
  <2>1. Len(prob.wfs) \in Nat
    BY ProblemTypes
  <2>2. 1 \in 1..Len(prob.wfs) + 1
    BY <2>1
  <2> QED
    BY <1>1, <2>2 DEF PassesGoOn
<1>4. ASSUME NEW k \in KVar
      PROVE  sol'[k] = {q \in Base(k)' : \A i \in Met(k)' : q \in prob'.wfs[i].wf}
  <2>1. Met(k)' = {}
    <3>1. DOMAIN prob.wfs = 1..Len(prob.wfs) /\ Len(prob.wfs) \in Nat
      BY ProblemTypes
    <3> QED
      BY <1>1, <3>1 DEF Met
  <2>2. sol[k] = Base(k)
    BY <1>1, <1>2, OfferedIsBase DEF StartInv
  <2> QED
    BY <1>1, <2>1, <2>2, ProblemStays
<1>5. CandidatesWellFormed' /\ CandidatesOffered' /\ SolIsBetween'
  BY <1>1, <1>4 DEF CandidatesWellFormed, CandidatesOffered, SolIsBetween, Solving
<1> QED
  BY <1>2, <1>3, <1>5 DEF StartInv

LEMMA RefineWFStarts == ASSUME TypeOK, StartInv, RefineWF PROVE StartInv'
<1>1. /\ phase = "refinewf" /\ phase' = "refinewf" /\ prob' = prob /\ next \in DOMAIN prob.wfs /\ next' = next + 1
      /\ srhs' = srhs /\ slhs' = slhs
  BY DEF RefineWF, initVars
<1>2. SidesAreSeen'
  BY <1>1, ProblemStays DEF StartInv, SidesAreSeen
<1>3. PassesGoOn'
  <2>1. DOMAIN prob.wfs = 1..Len(prob.wfs) /\ Len(prob.wfs) \in Nat
    BY ProblemTypes
  <2>2. next + 1 \in 1..Len(prob.wfs) + 1
    BY <1>1, <2>1
  <2> QED
    BY <1>1, <2>2 DEF PassesGoOn
<1>4. CandidatesWellFormed'
  BY <1>1, WellFormedStep, ProblemStays DEF StartInv, CandidatesWellFormed
<1>5. CandidatesOffered' /\ SolIsBetween'
  BY <1>1 DEF CandidatesOffered, SolIsBetween, Solving
<1> QED
  BY <1>2, <1>3, <1>4, <1>5 DEF StartInv

LEMMA EndRefineWFStarts == ASSUME TypeOK, StartInv, EndRefineWF PROVE StartInv'
<1>1. /\ phase = "refinewf" /\ phase' = "index" /\ prob' = prob /\ next = Len(prob.wfs) + 1
      /\ srhs' = srhs /\ slhs' = slhs /\ sol' = sol
  BY DEF EndRefineWF, initVars
<1>2. SidesAreSeen'
  BY <1>1, ProblemStays DEF StartInv, SidesAreSeen
<1>3. sol = Abstract!Start(prob)
  BY <1>1, WellFormedIsStart DEF StartInv
<1>4. SolIsBetween' /\ PassesGoOn' /\ CandidatesOffered' /\ CandidatesWellFormed'
  BY <1>1, <1>3, ProblemStays DEF SolIsBetween, PassesGoOn, CandidatesOffered, CandidatesWellFormed, Solving
<1> QED
  BY <1>2, <1>4 DEF StartInv

LEMMA LoopStarts ==
  ASSUME EntailsMonotone, TypeOK, StartInv,
         MakeIndex \/ (\E e \in heap : RefineSub(e)) \/ EndSolve \/ TestSol
  PROVE  StartInv'
<1>1. /\ prob' = prob /\ srhs' = srhs /\ slhs' = slhs
      /\ phase \in {"index", "solve", "test"} /\ phase' \in {"solve", "test", "done"}
  BY DEF MakeIndex, RefineSub, EndSolve, TestSol, initVars
<1>2. SidesAreSeen' /\ PassesGoOn' /\ CandidatesOffered' /\ CandidatesWellFormed'
  BY <1>1, ProblemStays
  DEF StartInv, SidesAreSeen, PassesGoOn, CandidatesOffered, CandidatesWellFormed
<1> DEFINE start == Abstract!Start(prob)
           fix(s) == \A i \in Ids : Satisfied(SubAt(i), s)
<1>3. ASSUME Below(sol', start),
             \A s \in Assignment : Below(s, start) /\ fix(s) => Below(s, sol')
      PROVE  SolIsBetween'
  BY <1>1, <1>3, ProblemStays DEF SolIsBetween
<1>4. CASE MakeIndex
  <2>1. sol = start /\ sol' = sol
    BY <1>4 DEF MakeIndex, StartInv, SolIsBetween
  <2>2. Below(sol', start)
    BY <2>1 DEF Below
  <2> QED
    BY <1>2, <1>3, <2>1, <2>2 DEF StartInv
<1>5. phase # "index" => Below(sol, start) /\ \A s \in Assignment : Below(s, start) /\ fix(s) => Below(s, sol)
  BY <1>1 DEF StartInv, SolIsBetween, Solving
<1>6. ASSUME NEW e \in heap, RefineSub(e)
      PROVE  StartInv'
  <2>1. phase # "index"
    BY <1>6 DEF RefineSub
  <2>2. Below(sol', sol)
    BY <1>6, SolShrinks
  <2>3. Below(sol', start)
    BY <1>5, <2>1, <2>2 DEF Below
  <2>4. \A s \in Assignment : Below(s, start) /\ fix(s) => Below(s, sol')
    BY <1>5, <1>6, <2>1, FixpointStaysBelow
  <2> QED
    BY <1>2, <1>3, <2>3, <2>4 DEF StartInv
<1>7. CASE EndSolve \/ TestSol
  <2>1. sol' = sol /\ phase # "index"
    BY <1>7 DEF EndSolve, TestSol
  <2> QED
    BY <1>2, <1>3, <1>5, <2>1 DEF StartInv
<1> QED
  BY <1>4, <1>6, <1>7

LEMMA StartStep ==
  ASSUME EntailsMonotone
  PROVE  TypeOK /\ StartInv /\ [Next]_vars => StartInv'
<1> SUFFICES ASSUME TypeOK, StartInv, [Next]_vars
             PROVE  StartInv'
  OBVIOUS
<1>1. CASE UNCHANGED vars
  <2>1. UNCHANGED <<prob, phase, next, sol, srhs, slhs>>
    BY <1>1 DEF vars
  <2>2. \A k : Met(k)' = Met(k) /\ First(k)' = First(k)
    BY <2>1 DEF Met, First
  <2>3. \A k, S : Offered(k, S)' <=> Offered(k, S)
    BY <2>1, <2>2 DEF Offered, StartsWith
  <2>4. SidesAreSeen' /\ PassesGoOn'
    BY <2>1, ProblemStays DEF StartInv, SidesAreSeen, PassesGoOn
  <2>5. CandidatesOffered'
    BY <2>1, <2>2, <2>3 DEF StartInv, CandidatesOffered
  <2>6. CandidatesWellFormed'
    BY <2>1, <2>2, ProblemStays DEF StartInv, CandidatesWellFormed
  <2>7. SolIsBetween'
    BY <2>1, ProblemStays DEF StartInv, SolIsBetween, Solving
  <2> QED
    BY <2>4, <2>5, <2>6, <2>7 DEF StartInv
<1> QED
  BY <1>1, PassSubsStarts, PassWFStarts, EndPassWFStarts, RefineWFStarts, EndRefineWFStarts, LoopStarts
  DEF Next

LEMMA StartInvariant == ASSUME EntailsMonotone PROVE Spec => []StartInv
BY StartInit, StartStep, TypeCorrect, PTL DEF Spec

\* When the loop has ended, the solution is the greatest of the abstract ones.
LEMMA AnswerIsGreatest ==
  ASSUME TypeOK, PendIsHeap, IdleIsSatisfied, Finished, StartInv, phase = "test"
  PROVE  sol = Abstract!Greatest(prob)
<1> DEFINE start == Abstract!Start(prob)
           fix(s) == \A i \in Ids : Satisfied(SubAt(i), s)
           sols == Abstract!Solutions(prob)
<1>1. sol \in Assignment
  BY DEF TypeOK
<1>2. fix(sol)
  BY DEF Finished, PendIsHeap, IdleIsSatisfied, Solving
<1>3. Below(sol, start) /\ \A s \in Assignment : Below(s, start) /\ fix(s) => Below(s, sol)
  BY DEF StartInv, SolIsBetween, Solving
<1>4. start \in Assignment
  BY <1>1, StartIsAssignment
<1>5. \A s : s \in sols <=> /\ s \in [KVar -> SUBSET UNION {start[k] : k \in KVar}]
                            /\ Below(s, start) /\ fix(s)
  BY SameReading DEF Abstract!Solutions, Abstract!Below, Below, Abstract!IsFixpoint, Ids, SubAt
<1> HIDE DEF start, sols, fix
<1>6. sol \in sols
  <2>1. sol \in [KVar -> SUBSET UNION {start[k] : k \in KVar}]
    BY <1>1, <1>3 DEF Below, Assignment
  <2> QED
    BY <1>2, <1>3, <1>5, <2>1
<1>7. \A s \in sols : Below(s, sol)
  <2>1. \A s \in sols : s \in Assignment
    BY <1>4, <1>5 DEF Assignment
  <2> QED
    BY <1>3, <1>5, <2>1
<1>8. Abstract!Greatest(prob) = [k \in KVar |-> UNION {s[k] : s \in sols}]
  BY DEF Abstract!Greatest, sols
<1>9. \A k \in KVar : sol[k] = UNION {s[k] : s \in sols}
  BY <1>6, <1>7 DEF Below
<1> QED
  BY <1>1, <1>8, <1>9 DEF Assignment

(***************************************************************************)
(* The passes, the index and the worklist together answer as LiquidSolution*)
(* does in one step: with the greatest solution below the start, and the   *)
(* constraints it fails; for every constraint system, every numbering of   *)
(* the components, every order among equals, and every prover that entails *)
(* no less from more facts.                                                *)
(***************************************************************************)
THEOREM SolverImplementsSolution ==
  ASSUME EntailsMonotone
  PROVE  Spec => AnswersGreatest
<1> DEFINE result == IF phase = "done" THEN [answered |-> TRUE, sol |-> sol, errors |-> errors]
                     ELSE [answered |-> FALSE]
<1>1. Init => Abstract!Init
  <2>1. Abstract!SubRef = SubRef /\ Abstract!WFRef = WFRef
    BY DEF Abstract!SubRef, SubRef, Abstract!WFRef, WFRef, Abstract!Occurrence, Occurrence, Abstract!Pred, Pred
  <2>2. Abstract!Problem = Problem
    BY <2>1 DEF Abstract!Problem, Problem
  <2>3. \A p : IsProblem(p) => Abstract!IsProblem(p)
    BY <2>2 DEF Abstract!IsProblem, IsProblem, Abstract!EveryKVarHasWF, EveryKVarHasWF
  <2> QED
    BY <2>3, ProblemsAssumption DEF Init, Abstract!Init, Abstract!NoResult
<1>2. ASSUME TypeOK, PendIsHeap, IdleIsSatisfied, Finished, StartInv, [Next]_vars
      PROVE  [Abstract!Answer]_<<prob, result>>
  <2>1. CASE TestSol
    <3>1. phase = "test" /\ phase' = "done" /\ prob' = prob /\ sol' = sol
          /\ errors' = {i \in Ids : SubAt(i).rhs = Const /\ ~GoalHolds(SubAt(i), sol)}
      BY <2>1 DEF TestSol
    <3>2. sol = Abstract!Greatest(prob)
      BY <1>2, <3>1, AnswerIsGreatest
    <3>3. errors' = Abstract!Failing(prob, sol)
      BY <3>1, SameReading DEF Abstract!Failing, Ids, SubAt
    <3>4. result = [answered |-> FALSE] /\ result' = [answered |-> TRUE, sol |-> sol, errors |-> errors']
      BY <3>1
    <3>5. result' = Abstract!Result(Abstract!Greatest(prob), Abstract!Failing(prob, Abstract!Greatest(prob)))
      BY <3>2, <3>3, <3>4 DEF Abstract!Result
    <3> QED
      BY <3>1, <3>4, <3>5 DEF Abstract!Answer
  <2>2. CASE ~TestSol
    <3>1. prob' = prob
      BY <1>2, <2>2 DEF Next, PassSubs, PassWF, EndPassWF, RefineWF, EndRefineWF, MakeIndex, RefineSub, EndSolve, vars
    <3>2. result' = result
      BY <1>2, <2>2 DEF Next, PassSubs, PassWF, EndPassWF, RefineWF, EndRefineWF, MakeIndex, RefineSub, EndSolve, vars
    <3> QED
      BY <3>1, <3>2
  <2> QED
    BY <2>1, <2>2
<1> QED
  BY <1>1, <1>2, TypeCorrect, PendMirrorsHeap, IdleAlwaysSatisfied, FinishedInvariant, StartInvariant, PTL
  DEF Spec, AnswersGreatest, Abstract!Spec
=============================================================================
