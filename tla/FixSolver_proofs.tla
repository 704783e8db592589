------------------------- MODULE FixSolver_proofs -------------------------
(***************************************************************************)
(* Proofs about FixSolver, for every system of constraints, every choice   *)
(* of the flags, and every prover.                                         *)
(***************************************************************************)
EXTENDS FixSolver, FiniteSetTheorems, TLAPS

-----------------------------------------------------------------------------
(***************************************************************************)
(* Lemmas about one constraint.                                            *)
(***************************************************************************)

\* Refining never adds a qualifier.
LEMMA RefineShrinks ==
  ASSUME NEW p, NEW c, NEW s \in Assignment
  PROVE  /\ Refine(p, c, s) \in Assignment
         /\ \A k \in KVar : Refine(p, c, s)[k] \subseteq s[k]
<1>1. \A k \in KVar : s[k] \in SUBSET Qual
  BY DEF Assignment
<1> QED
  BY <1>1 DEF Refine, Assignment

\* update compares lengths only; since nothing is added, equal lengths mean
\* that nothing changed.
LEMMA SameLengthsUnchanged ==
  ASSUME NEW p, NEW c, NEW s \in Assignment,
         \A k \in KVar : Cardinality(Refine(p, c, s)[k]) = Cardinality(s[k])
  PROVE  Refine(p, c, s) = s
<1>1. \A k \in KVar : IsFiniteSet(s[k])
  BY FS_Subset, ConstantsAssumption DEF Assignment
<1>2. \A k \in KVar : Refine(p, c, s)[k] = s[k]
  BY <1>1, FS_Subset, RefineShrinks
<1> QED
  BY <1>2, RefineShrinks DEF Assignment

\* What the left-hand side says depends only on the kvars it reads.
LEMMA LhsDependsOnLhsKs ==
  ASSUME NEW p, NEW c, NEW s, NEW t,
         \A k \in LhsKs(c) : s[k] = t[k]
  PROVE  /\ PredsOfLhs(p, c, s) = PredsOfLhs(p, c, t)
         /\ LiteralLhs(p, c, s) = LiteralLhs(p, c, t)
         /\ \A g : Keeps(p, c, s, g) <=> Keeps(p, c, t, g)
<1>1. \A o \in c.env \cup c.lhs : Read(p, s, o[2]) = Read(p, t, o[2])
  BY DEF LhsKs, Read
<1>2. PredsOf(p, s, c.env \cup c.lhs) = PredsOf(p, t, c.env \cup c.lhs)
  BY <1>1 DEF PredsOf
<1>3. /\ PredsOfLhs(p, c, s) = PredsOfLhs(p, c, t)
      /\ LiteralLhs(p, c, s) = LiteralLhs(p, c, t)
  BY <1>2 DEF PredsOfLhs, LiteralLhs
<1> QED
  BY <1>3 DEF Keeps

\* A constraint stays satisfied when kvars it does not read lose qualifiers.
LEMMA SatisfiedBelow ==
  ASSUME NEW p, NEW c, NEW s \in Assignment, NEW t \in Assignment,
         \A k \in LhsKs(c) : t[k] = s[k],
         \A k \in KVar : \A q \in t[k] :
           \A o \in c.rhs : o[2] = k => Keeps(p, c, s, <<o[1], q>>)
  PROVE  Refine(p, c, t) = t
<1>1. \A g : Keeps(p, c, s, g) <=> Keeps(p, c, t, g)
  BY LhsDependsOnLhsKs
<1>2. \A k \in KVar : Refine(p, c, t)[k] = t[k]
  BY <1>1 DEF Refine
<1> QED
  BY <1>2, RefineShrinks DEF Assignment

-----------------------------------------------------------------------------
(***************************************************************************)
(* Type correctness.                                                       *)
(***************************************************************************)
LEMMA TypeInit == Init => TypeOK
BY ProblemsAssumption DEF Init, TypeOK, Phases, IsProblem, Problem

LEMMA TypeStep == TypeOK /\ [Next]_vars => TypeOK'
<1> SUFFICES ASSUME TypeOK, [Next]_vars
             PROVE  TypeOK'
  OBVIOUS
<1>1. CASE CreateIndex
  <2>1. live' \subseteq Ids
    BY <1>1 DEF CreateIndex, Lives
  <2>2. rank' \in [live' -> Nat]
    BY <1>1 DEF CreateIndex, SccRankings
  <2>3. heap' = {} /\ pend' = {} /\ refined' = {} /\ unsat' = {}
    BY <1>1 DEF CreateIndex, TypeOK, workVars
  <2> QED
    BY <1>1, <2>1, <2>2, <2>3 DEF CreateIndex, TypeOK, Phases, workVars, Ids, Entry
<1>2. CASE TrueUnconstrainedKVars
  <2>1. sol' \in Assignment
    BY <1>2 DEF TrueUnconstrainedKVars, TypeOK, Assignment
  <2> QED
    BY <1>2, <2>1
    DEF TrueUnconstrainedKVars, TypeOK, Phases, indexVars, workVars, Ids, Entry
<1>3. CASE WInit
  <2>1. Roots \subseteq live
    BY DEF Roots
  <2> QED
    BY <1>3, <2>1 DEF WInit, Push, TypeOK, Phases, indexVars, Ids, Entry
<1>4. ASSUME NEW e \in heap, RefineConstraint(e)
      PROVE  TypeOK'
  <2>1. sol' \in Assignment
    BY <1>4, RefineShrinks DEF RefineConstraint, TypeOK
  <2>2. Deps(e.id) \subseteq live
    BY DEF Deps
  <2>3. heap' \subseteq Entry /\ pend' \subseteq live /\ timestamp' \in Nat
    <3>1. CASE Push(WorkAfterPop(e), PendAfterPop(e.id), Deps(e.id))
      BY <1>4, <3>1, <2>2
      DEF Push, WorkAfterPop, PendAfterPop, TypeOK, Entry, RefineConstraint, Ids
    <3>2. CASE heap' = WorkAfterPop(e) /\ pend' = PendAfterPop(e.id) /\ UNCHANGED timestamp
      BY <1>4, <3>2
      DEF WorkAfterPop, PendAfterPop, TypeOK, Entry, RefineConstraint, Ids
    <3> QED
      BY <1>4, <3>1, <3>2 DEF RefineConstraint
  <2>4. e.id \in live
    BY DEF TypeOK, Entry
  <2> QED
    BY <1>4, <2>1, <2>3, <2>4 DEF RefineConstraint, TypeOK, Phases, indexVars, Ids, Entry
<1>5. CASE TestSolution
  BY <1>5 DEF TestSolution, TypeOK, Phases, indexVars, workVars, Ids, Entry
<1>6. CASE UNCHANGED vars
  BY <1>6 DEF vars, TypeOK, Ids, Entry
<1> QED
  BY <1>1, <1>2, <1>3, <1>4, <1>5, <1>6 DEF Next

(***************************************************************************)
(* The solver's variables keep their types; in particular the worklist and *)
(* the table of pending ids only ever hold constraints of the index, so    *)
(* that get_ref_constraint finds each.                                     *)
(***************************************************************************)
THEOREM TypeCorrect == Spec => []TypeOK
BY TypeInit, TypeStep, PTL DEF Spec

-----------------------------------------------------------------------------
(***************************************************************************)
(* The pending table mirrors the heap.                                     *)
(***************************************************************************)
\* Pushing onto a heap that its table mirrors gives one that its table mirrors.
LEMMA PushKeepsMirror ==
  ASSUME NEW h, NEW p, NEW ids, Push(h, p, ids),
         p = {d.id : d \in h},
         \A c, d \in h : c.id = d.id => c = d
  PROVE  PendIsHeap' /\ Waiting' = p \cup ids
<1> DEFINE new == {[id |-> i, ts |-> timestamp + 1] : i \in ids \ p}
<1>1. heap' = h \cup new /\ pend' = p \cup ids
  BY DEF Push
<1>2. /\ \A d \in new : d.id \in ids \ p
      /\ \A i \in ids \ p : \E d \in new : d.id = i
      /\ \A c, d \in new : c.id = d.id => c = d
  <2>1. \A i \in ids \ p : [id |-> i, ts |-> timestamp + 1] \in new
    OBVIOUS
  <2>2. \A d \in new : \E i \in ids \ p : d = [id |-> i, ts |-> timestamp + 1]
    OBVIOUS
  <2>3. \A d \in new : d.id \in ids \ p /\ d = [id |-> d.id, ts |-> timestamp + 1]
    BY <2>2
  <2>4. \A i \in ids \ p : [id |-> i, ts |-> timestamp + 1].id = i
    OBVIOUS
  <2>5. \A i \in ids \ p : \E d \in new : d.id = i
    BY <2>1, <2>4
  <2> HIDE DEF new
  <2>6. \A c, d \in new : c.id = d.id => c = d
    BY <2>3
  <2> QED
    BY <2>3, <2>5, <2>6
<1> HIDE DEF new
<1>3. \A i \in pend' : \E d \in heap' : d.id = i
  BY <1>1, <1>2
<1>4. \A d \in heap' : d.id \in pend'
  BY <1>1, <1>2
<1>5. \A c, d \in heap' : c.id = d.id => c = d
  BY <1>1, <1>2
<1>6. Waiting' = pend'
  BY <1>3, <1>4 DEF Waiting
<1> QED
  BY <1>1, <1>5, <1>6 DEF PendIsHeap

\* Popping an entry removes its id from both.
LEMMA PopKeepsMirror ==
  ASSUME PendIsHeap, NEW e \in heap
  PROVE  /\ PendAfterPop(e.id) = {d.id : d \in WorkAfterPop(e)}
         /\ \A c, d \in WorkAfterPop(e) : c.id = d.id => c = d
BY DEF PendIsHeap, Waiting, PendAfterPop, WorkAfterPop

\* A turn of the loop either pushes the successors or does not change sol.
LEMMA RefineOutcome ==
  ASSUME TypeOK, PendIsHeap, NEW e \in heap, RefineConstraint(e)
  PROVE  /\ PendIsHeap'
         /\ sol' = Refine(prob, Cstr(e.id), sol)
         /\ \/ Waiting' = (Waiting \ {e.id}) \cup Deps(e.id)
            \/ Waiting' = Waiting \ {e.id} /\ sol' = sol
<1> DEFINE s == Refine(prob, Cstr(e.id), sol)
           h == WorkAfterPop(e)
           p == PendAfterPop(e.id)
<1>1. sol' = s
  BY DEF RefineConstraint
<1>2. p = {d.id : d \in h} /\ \A c, d \in h : c.id = d.id => c = d
  BY PopKeepsMirror
<1>3. p = Waiting \ {e.id}
  BY DEF PendIsHeap, PendAfterPop
<1>4. CASE \E k \in KVar : Cardinality(s[k]) # Cardinality(sol[k])
  <2>1. Push(h, p, Deps(e.id))
    BY <1>4 DEF RefineConstraint
  <2> HIDE DEF h, p
  <2> QED
    BY <1>1, <1>2, <1>3, <2>1, PushKeepsMirror
<1>5. CASE ~\E k \in KVar : Cardinality(s[k]) # Cardinality(sol[k])
  <2>1. heap' = h /\ pend' = p
    BY <1>5 DEF RefineConstraint
  <2>2. sol' = sol
    BY <1>1, <1>5, SameLengthsUnchanged DEF TypeOK
  <2>3. PendIsHeap' /\ Waiting' = p
    BY <1>2, <2>1 DEF PendIsHeap, Waiting
  <2> QED
    BY <1>1, <1>3, <2>2, <2>3
<1> QED
  BY <1>4, <1>5

LEMMA PendStep == TypeOK /\ PendIsHeap /\ [Next]_vars => PendIsHeap'
<1> SUFFICES ASSUME TypeOK, PendIsHeap, [Next]_vars
             PROVE  PendIsHeap'
  OBVIOUS
<1>1. CASE UNCHANGED workVars
  BY <1>1 DEF workVars, PendIsHeap, Waiting
<1>2. CASE WInit
  <2>1. Push({}, {}, Roots)
    BY <1>2 DEF WInit
  <2> QED
    BY <2>1, PushKeepsMirror
<1>3. ASSUME NEW e \in heap, RefineConstraint(e)
      PROVE  PendIsHeap'
  BY <1>3, RefineOutcome
<1> QED
  BY <1>1, <1>2, <1>3
  DEF Next, CreateIndex, TrueUnconstrainedKVars, TestSolution, vars, workVars

(***************************************************************************)
(* pend and the heap never disagree: no constraint is lost because it is   *)
(* marked without being queued, and none is queued twice.                  *)
(***************************************************************************)
THEOREM PendMirrorsHeap == Spec => []PendIsHeap
<1>1. Init => PendIsHeap
  BY DEF Init, PendIsHeap, Waiting
<1> QED
  BY <1>1, PendStep, TypeCorrect, PTL DEF Spec

-----------------------------------------------------------------------------
(***************************************************************************)
(* Constraints that were refined stay satisfied.                           *)
(***************************************************************************)
LEMMA ProblemTypes ==
  ASSUME TypeOK
  PROVE  /\ \A i \in Ids : Cstr(i) \in FixConstraint
         /\ \A i \in Ids : LhsKs(Cstr(i)) \subseteq KVar
         /\ prob.assm \in Assignment
<1>1. prob \in Problem
  BY DEF TypeOK, IsProblem
<1>2. prob.cs \in Seq(FixConstraint) /\ prob.assm \in Assignment
  BY <1>1 DEF Problem
<1>3. \A i \in Ids : Cstr(i) \in FixConstraint
  BY <1>2 DEF Ids, Cstr
<1> QED
  BY <1>2, <1>3 DEF FixConstraint, LhsKs, Occurrence

\* The step that matters: refining the constraint of e leaves every refined
\* constraint that does not wait afterwards satisfied.
LEMMA RefineKeepsSatisfied ==
  ASSUME TypeOK, PendIsHeap, RefinedIsSatisfied,
         NEW e \in heap, RefineConstraint(e)
  PROVE  RefinedIsSatisfied'
<1> DEFINE c == Cstr(e.id)
<1>1. prob' = prob /\ live' = live /\ refined' = refined \cup {e.id}
  BY DEF RefineConstraint, indexVars
<1>2. e.id \in live /\ live \subseteq Ids /\ refined \subseteq live /\ sol \in Assignment
  BY DEF TypeOK, Entry
<1>3. sol' = Refine(prob, c, sol)
  BY RefineOutcome
<1>4. SUFFICES ASSUME NEW i \in refined \cup {e.id}, i \notin Waiting'
               PROVE  Refine(prob, Cstr(i), sol') = sol'
  BY <1>1 DEF RefinedIsSatisfied, Cstr
<1>5. CASE Waiting' = (Waiting \ {e.id}) \cup Deps(e.id)
  <2>1. \A k \in LhsKs(Cstr(i)) : sol'[k] = sol[k]
    <3>1. SUFFICES ASSUME NEW k \in LhsKs(Cstr(i))
                   PROVE  sol'[k] = sol[k]
      OBVIOUS
    <3>2. i \in live /\ i \notin Deps(e.id)
      BY <1>2, <1>4, <1>5
    <3>3. <<e.id, i>> \in live \X live /\ <<e.id, i>> \notin RealDeps(live)
      BY <1>2, <3>2 DEF Deps
    <3>4. RhsKs(c) \cap LhsKs(Cstr(i)) = {}
      BY <3>3 DEF RealDeps
    <3>5. k \in KVar /\ \A o \in c.rhs : o[2] # k
      BY <1>2, <3>1, <3>2, <3>4, ProblemTypes DEF RhsKs
    <3> QED
      BY <1>3, <3>5 DEF Refine
  <2>2. sol' \in Assignment /\ \A k \in KVar : sol'[k] \subseteq sol[k]
    BY <1>2, <1>3, RefineShrinks
  <2>3. \A k \in KVar : \A q \in sol'[k] : \A o \in Cstr(i).rhs :
          o[2] = k => Keeps(prob, Cstr(i), sol, <<o[1], q>>)
    <3>1. CASE i = e.id
      BY <1>3, <3>1 DEF Refine
    <3>2. CASE i # e.id
      <4>1. Refine(prob, Cstr(i), sol) = sol
        BY <1>4, <1>5, <3>2 DEF RefinedIsSatisfied
      <4>2. \A k \in KVar : sol'[k] \subseteq Refine(prob, Cstr(i), sol)[k]
        BY <2>2, <4>1
      <4> QED
        BY <4>2 DEF Refine
    <3> QED
      BY <3>1, <3>2
  <2> QED
    BY <1>2, <2>1, <2>2, <2>3, SatisfiedBelow
<1>6. CASE Waiting' = Waiting \ {e.id} /\ sol' = sol
  BY <1>3, <1>4, <1>6 DEF RefinedIsSatisfied
<1> QED
  BY <1>5, <1>6, RefineOutcome

LEMMA SatisfiedStep ==
  TypeOK /\ PendIsHeap /\ RefinedIsSatisfied /\ [Next]_vars => RefinedIsSatisfied'
<1> SUFFICES ASSUME TypeOK, PendIsHeap, RefinedIsSatisfied, [Next]_vars
             PROVE  RefinedIsSatisfied'
  OBVIOUS
<1>1. CASE CreateIndex \/ TrueUnconstrainedKVars \/ WInit
  <2>1. refined' = {}
    BY <1>1 DEF CreateIndex, TrueUnconstrainedKVars, WInit, TypeOK
  <2> QED
    BY <2>1 DEF RefinedIsSatisfied
<1>2. ASSUME NEW e \in heap, RefineConstraint(e)
      PROVE  RefinedIsSatisfied'
  BY <1>2, RefineKeepsSatisfied
<1>3. CASE TestSolution \/ UNCHANGED vars
  BY <1>3 DEF TestSolution, vars, workVars, RefinedIsSatisfied, Waiting, Cstr
<1> QED
  BY <1>1, <1>2, <1>3 DEF Next

(***************************************************************************)
(* The dependencies that push successors are the real ones and survive the *)
(* slice: whatever the input adds or deletes, a refined constraint that    *)
(* does not wait is satisfied.                                             *)
(***************************************************************************)
THEOREM RefinedStaysSatisfied == Spec => []RefinedIsSatisfied
<1>1. Init => RefinedIsSatisfied
  BY DEF Init, RefinedIsSatisfied
<1> QED
  BY <1>1, SatisfiedStep, TypeCorrect, PendMirrorsHeap, PTL DEF Spec

-----------------------------------------------------------------------------
(***************************************************************************)
(* A clean answer solves the whole input.                                  *)
(***************************************************************************)

\* What the index of a run has: every goal, and every writer of what it reads.
LiveIsClosed ==
  phase # "index" =>
    /\ \A i \in Ids : IsConcRhs(Cstr(i)) => i \in live
    /\ \A i, j \in Ids :
         j \in live /\ RhsKs(Cstr(i)) \cap LhsKs(Cstr(j)) # {} => i \in live

\* What the final test found, kept.
UnsatIsTested == phase = "done" => unsat = {i \in live : Unsat(prob, Cstr(i), sol)}

LEMMA LivesAreClosed ==
  /\ \A i \in Ids : IsConcRhs(Cstr(i)) => i \in Lives
  /\ \A i, j \in Ids :
       j \in Lives /\ RhsKs(Cstr(i)) \cap LhsKs(Cstr(j)) # {} => i \in Lives
<1>1. \A i \in Ids : IsConcRhs(Cstr(i)) => i \in Lives
  BY DEF Lives
<1>2. ASSUME NEW i \in Ids, NEW j \in Ids,
             j \in Lives, RhsKs(Cstr(i)) \cap LhsKs(Cstr(j)) # {}
      PROVE  i \in Lives
  <2>1. <<i, j>> \in RealDeps(Ids)
    BY <1>2 DEF RealDeps
  <2> QED
    BY <1>2, <2>1 DEF Lives
<1> QED
  BY <1>1, <1>2

LEMMA AnswerStep ==
  LiveIsClosed /\ UnsatIsTested /\ [Next]_vars => (LiveIsClosed /\ UnsatIsTested)'
<1> SUFFICES ASSUME LiveIsClosed, UnsatIsTested, [Next]_vars
             PROVE  (LiveIsClosed /\ UnsatIsTested)'
  OBVIOUS
<1>1. CASE CreateIndex
  <2>1. prob' = prob /\ phase' = "top" /\ live' = (IF Slice THEN Lives ELSE Ids)
    BY <1>1 DEF CreateIndex
  <2>2. CASE Slice
    BY <2>1, <2>2, LivesAreClosed DEF LiveIsClosed, UnsatIsTested, Ids, Cstr
  <2>3. CASE ~Slice
    BY <2>1, <2>3 DEF LiveIsClosed, UnsatIsTested, Ids, Cstr
  <2> QED
    BY <2>2, <2>3
<1>2. CASE TrueUnconstrainedKVars \/ WInit \/ \E e \in heap : RefineConstraint(e)
  <2>1. /\ prob' = prob /\ live' = live
        /\ phase # "index" /\ phase' # "done"
    BY <1>2 DEF TrueUnconstrainedKVars, WInit, RefineConstraint, indexVars
  <2> QED
    BY <2>1 DEF LiveIsClosed, UnsatIsTested, Ids, Cstr
<1>3. CASE TestSolution
  BY <1>3 DEF TestSolution, indexVars, LiveIsClosed, UnsatIsTested, Ids, Cstr
<1>4. CASE UNCHANGED vars
  BY <1>4 DEF vars, LiveIsClosed, UnsatIsTested, Ids, Cstr
<1> QED
  BY <1>1, <1>2, <1>3, <1>4 DEF Next

LEMMA CleanAnswer == TypeOK /\ LiveIsClosed /\ UnsatIsTested => SatMeansSolution
<1> SUFFICES ASSUME TypeOK, LiveIsClosed, UnsatIsTested, phase = "done", unsat = {},
                    NEW i \in Ids
             PROVE  Valid(WithoutDeadSeed, Cstr(i), WholeSolution)
  BY DEF SatMeansSolution
<1> DEFINE c == Cstr(i)
           p == WithoutDeadSeed
           w == WholeSolution
           read(k) == \E j \in live : k \in LhsKs(Cstr(j))
<1>1. \A k \in KVar : Read(p, w, k) = IF read(k) THEN Read(prob, sol, k) ELSE {}
  <2>1. prob \in Problem
    BY DEF TypeOK, IsProblem
  <2>2. p.assm = [k \in KVar |-> IF read(k) THEN prob.assm[k] ELSE {}]
    BY <2>1 DEF WithoutDeadSeed, Problem
  <2>3. w = [k \in KVar |-> IF read(k) THEN sol[k] ELSE {}]
    BY DEF WholeSolution
  <2> HIDE DEF p, w, read
  <2> QED
    BY <2>2, <2>3 DEF Read
<1>2. c \in FixConstraint
  BY ProblemTypes
<1>3. \A o \in c.env \cup c.lhs \cup c.rhs : o[2] \in KVar
  BY <1>2 DEF FixConstraint, Occurrence
<1>4. CASE i \in live
  <2>1. ~Unsat(prob, c, sol)
    BY <1>4 DEF UnsatIsTested
  <2>2. \A o \in c.env \cup c.lhs : Read(p, w, o[2]) = Read(prob, sol, o[2])
    BY <1>1, <1>3, <1>4 DEF LhsKs
  <2>3. PredsOf(p, w, c.env \cup c.lhs) = PredsOf(prob, sol, c.env \cup c.lhs)
    <3> HIDE DEF p, w
    <3> QED
      BY <2>2 DEF PredsOf
  <2>4. PredsOfLhs(p, c, w) = PredsOfLhs(prob, c, sol)
    BY <2>3 DEF PredsOfLhs
  <2>5. \A o \in c.rhs : Read(p, w, o[2]) \subseteq Read(prob, sol, o[2])
    BY <1>1, <1>3
  <2>6. PredsOf(p, w, c.rhs) \subseteq PredsOf(prob, sol, c.rhs)
    <3> HIDE DEF p, w
    <3> QED
      BY <2>5 DEF PredsOf
  <2> QED
    BY <2>1, <2>4, <2>6 DEF Valid, Unsat
<1>5. CASE i \notin live
  <2>1. phase # "index"
    OBVIOUS
  <2>2. c.goal = {}
    BY <1>5, <2>1 DEF LiveIsClosed, IsConcRhs
  <2>3. \A o \in c.rhs : ~read(o[2])
    <3>1. SUFFICES ASSUME NEW o \in c.rhs, NEW j \in live, o[2] \in LhsKs(Cstr(j))
                   PROVE  FALSE
      OBVIOUS
    <3>2. o[2] \in RhsKs(c) \cap LhsKs(Cstr(j)) /\ j \in Ids
      BY <3>1 DEF RhsKs, TypeOK
    <3> QED
      BY <1>5, <2>1, <3>2 DEF LiveIsClosed
  <2>4. \A o \in c.rhs : Read(p, w, o[2]) = {}
    BY <1>1, <1>3, <2>3
  <2>5. PredsOf(p, w, c.rhs) = {}
    <3> HIDE DEF p, w
    <3> QED
      BY <2>4 DEF PredsOf
  <2> QED
    BY <2>2, <2>5 DEF Valid
<1> QED
  BY <1>4, <1>5

(***************************************************************************)
(* Slicing loses nothing: when the final test finds every constraint of    *)
(* the index satisfied, what the answer says of the kvars the index reads, *)
(* and nothing of the others, solves every constraint of the input.        *)
(***************************************************************************)
THEOREM CleanAnswerSolvesInput == Spec => []SatMeansSolution
<1>1. Init => LiveIsClosed /\ UnsatIsTested
  BY DEF Init, LiveIsClosed, UnsatIsTested
<1> QED
  BY <1>1, AnswerStep, CleanAnswer, TypeCorrect, PTL DEF Spec

-----------------------------------------------------------------------------
(***************************************************************************)
(* The answer against the greatest fixpoint.                               *)
(***************************************************************************)

\* What the next theorems ask of the prover: more facts entail no less; and
\* it derives what is literally assumed, and anything from a left-hand side
\* that contradicts itself.
EntailsMonotone ==
  \A ps, qs \in SUBSET Pred, g \in Pred :
    ps \subseteq qs /\ Entails(ps, g) => Entails(qs, g)
EntailsSound ==
  \A ps \in SUBSET Pred, g \in Pred :
    g \in ps \/ ps \cap Contra # {} => Entails(ps, g)

\* What a kvar's occurrences say grows with what the kvars keep.
LEMMA PredsGrow ==
  ASSUME NEW p, p.assm \in Assignment, NEW os \in SUBSET Occurrence,
         NEW s \in Assignment, NEW t \in Assignment, Below(s, t)
  PROVE  /\ PredsOf(p, s, os) \subseteq PredsOf(p, t, os)
         /\ PredsOf(p, t, os) \in SUBSET Pred
<1>1. \A o \in os : Read(p, s, o[2]) \subseteq Read(p, t, o[2])
  BY DEF Read, Below, Occurrence
<1>2. \A o \in os : o[1] \in Place /\ Read(p, t, o[2]) \subseteq Qual
  BY DEF Read, Occurrence, Assignment
<1>3. ASSUME NEW g \in PredsOf(p, s, os)
      PROVE  g \in PredsOf(p, t, os)
  <2>1. PICK o \in os : \E q \in Read(p, s, o[2]) : g = <<o[1], q>>
    BY DEF PredsOf
  <2>2. \E q \in Read(p, t, o[2]) : g = <<o[1], q>>
    BY <1>1, <2>1
  <2> QED
    BY <2>2 DEF PredsOf
<1>4. ASSUME NEW g \in PredsOf(p, t, os)
      PROVE  g \in Pred
  <2>1. PICK o \in os : \E q \in Read(p, t, o[2]) : g = <<o[1], q>>
    BY DEF PredsOf
  <2> QED
    BY <1>2, <2>1 DEF Pred
<1> QED
  BY <1>3, <1>4

LEMMA LhsGrows ==
  ASSUME NEW p, p.assm \in Assignment, NEW c \in FixConstraint,
         NEW s \in Assignment, NEW t \in Assignment, Below(s, t)
  PROVE  /\ PredsOfLhs(p, c, s) \subseteq PredsOfLhs(p, c, t)
         /\ LiteralLhs(p, c, s) \subseteq LiteralLhs(p, c, t)
         /\ LiteralLhs(p, c, t) \subseteq PredsOfLhs(p, c, t)
         /\ PredsOfLhs(p, c, s) \in SUBSET Pred /\ PredsOfLhs(p, c, t) \in SUBSET Pred
<1> DEFINE os == c.env \cup c.lhs
<1>1. os \in SUBSET Occurrence /\ c.iguard \in SUBSET Pred /\ c.lhsps \in SUBSET Pred
  BY DEF FixConstraint
<1> HIDE DEF os
<1>2. PredsOf(p, s, os) \subseteq PredsOf(p, t, os) /\ PredsOf(p, t, os) \in SUBSET Pred
  BY <1>1, PredsGrow
<1> QED
  BY <1>1, <1>2 DEF PredsOfLhs, LiteralLhs, os

\* What a constraint keeps under a solution it keeps under a larger one.
LEMMA KeepsGrows ==
  ASSUME EntailsMonotone, NEW p, p.assm \in Assignment, NEW c \in FixConstraint,
         NEW s \in Assignment, NEW t \in Assignment, Below(s, t),
         NEW g \in Pred, Keeps(p, c, s, g)
  PROVE  Keeps(p, c, t, g)
BY LhsGrows DEF Keeps, EntailsMonotone

\* So no refinement removes what a fixpoint below has.
LEMMA FixpointStaysBelow ==
  ASSUME EntailsMonotone, NEW p, p.assm \in Assignment, NEW c \in FixConstraint,
         NEW s \in Assignment, NEW t \in Assignment, Below(s, t), Refine(p, c, s) = s
  PROVE  Below(s, Refine(p, c, t))
<1> SUFFICES ASSUME NEW k \in KVar, NEW q \in s[k]
             PROVE  q \in Refine(p, c, t)[k]
  BY DEF Below
<1>1. q \in t[k] /\ q \in Qual
  BY DEF Below, Assignment
<1>2. q \in Refine(p, c, s)[k]
  OBVIOUS
<1>3. \A o \in c.rhs : o[2] = k => Keeps(p, c, s, <<o[1], q>>)
  BY <1>2 DEF Refine
<1>4. \A o \in c.rhs : <<o[1], q>> \in Pred
  BY <1>1 DEF FixConstraint, Occurrence, Pred
<1>5. \A o \in c.rhs : o[2] = k => Keeps(p, c, t, <<o[1], q>>)
  BY <1>3, <1>4, KeepsGrows
<1> QED
  BY <1>1, <1>5 DEF Refine

\* What is true once the starting solution is chosen: no fixpoint is lost, and
\* nothing is added.
Started == phase \notin {"index", "top"}
FixpointOfIndex(s) == \A i \in live : Refine(prob, Cstr(i), s) = s
SolIsBetween ==
  Started => /\ Below(sol, Start)
             /\ \A s \in Assignment : Below(s, Start) /\ FixpointOfIndex(s) => Below(s, sol)
SolIsFirst == phase \in {"index", "top"} => sol = prob.init
HeapIsDone == phase = "done" => heap = {}

LEMMA BetweenStep ==
  ASSUME EntailsMonotone
  PROVE  TypeOK /\ SolIsFirst /\ SolIsBetween /\ [Next]_vars => (SolIsFirst /\ SolIsBetween)'
<1> SUFFICES ASSUME TypeOK, SolIsFirst, SolIsBetween, [Next]_vars
             PROVE  (SolIsFirst /\ SolIsBetween)'
  OBVIOUS
<1>1. CASE CreateIndex
  BY <1>1 DEF CreateIndex, SolIsFirst, SolIsBetween, Started
<1>2. CASE TrueUnconstrainedKVars
  <2>1. sol = prob.init /\ prob' = prob /\ live' = live /\ phase' = "winit"
    BY <1>2 DEF TrueUnconstrainedKVars, SolIsFirst, indexVars
  <2>2. sol' = Start
    BY <1>2, <2>1 DEF TrueUnconstrainedKVars, Start
  <2>3. Start' = Start
    BY <2>1 DEF Start, UnconstrainedKVars, Cstr
  <2> QED
    BY <2>1, <2>2, <2>3 DEF SolIsFirst, SolIsBetween, Below
<1>3. ASSUME Started, prob' = prob, live' = live, phase' \notin {"index", "top"}
      PROVE  /\ Started' /\ Start' = Start /\ SolIsFirst'
             /\ \A s : FixpointOfIndex(s)' = FixpointOfIndex(s)
  BY <1>3 DEF Started, Start, UnconstrainedKVars, Cstr, SolIsFirst, FixpointOfIndex
<1>4. CASE (Started /\ (WInit \/ TestSolution)) \/ (Started /\ UNCHANGED vars)
  <2>1. prob' = prob /\ live' = live /\ phase' \notin {"index", "top"} /\ sol' = sol /\ Started
    BY <1>4 DEF WInit, TestSolution, vars, indexVars, Started
  <2> QED
    BY <1>3, <2>1 DEF SolIsBetween
<1>5. ASSUME NEW e \in heap, RefineConstraint(e)
      PROVE  (SolIsFirst /\ SolIsBetween)'
  <2>1. prob' = prob /\ live' = live /\ phase' \notin {"index", "top"} /\ Started
    BY <1>5 DEF RefineConstraint, indexVars, Started
  <2>2. sol' = Refine(prob, Cstr(e.id), sol) /\ sol \in Assignment
    BY <1>5 DEF RefineConstraint, TypeOK
  <2>3. Below(sol', Start)
    BY <2>1, <2>2, RefineShrinks DEF SolIsBetween, Below
  <2>4. e.id \in live /\ Cstr(e.id) \in FixConstraint /\ prob.assm \in Assignment
    BY ProblemTypes DEF TypeOK, Entry
  <2>5. \A s \in Assignment : Below(s, Start) /\ FixpointOfIndex(s) => Below(s, sol')
    BY <2>1, <2>2, <2>4, FixpointStaysBelow DEF SolIsBetween, FixpointOfIndex
  <2> QED
    BY <1>3, <2>1, <2>3, <2>5 DEF SolIsBetween
<1>6. CASE ~Started /\ UNCHANGED vars
  BY <1>6 DEF vars, SolIsFirst, SolIsBetween, Started
<1>7. CASE WInit \/ TestSolution
  BY <1>4, <1>7 DEF WInit, TestSolution, Started
<1> QED
  BY <1>1, <1>2, <1>4, <1>5, <1>6, <1>7 DEF Next

LEMMA BetweenInvariant ==
  ASSUME EntailsMonotone
  PROVE  Spec => [](SolIsBetween /\ HeapIsDone)
<1>1. Init => SolIsFirst /\ SolIsBetween /\ HeapIsDone
  BY DEF Init, SolIsFirst, SolIsBetween, Started, HeapIsDone
<1>2. HeapIsDone /\ [Next]_vars => HeapIsDone'
  BY DEF HeapIsDone, Next, CreateIndex, TrueUnconstrainedKVars, WInit, RefineConstraint,
         TestSolution, vars, workVars
<1> QED
  BY <1>1, <1>2, BetweenStep, TypeCorrect, PTL DEF Spec

(***************************************************************************)
(* No order of refinement removes a qualifier of the greatest fixpoint,    *)
(* and when every constraint of the index has been refined the answer is   *)
(* that fixpoint: for every system, every choice of the flags, and every   *)
(* prover that entails no less from more facts.                            *)
(***************************************************************************)
THEOREM AnswersAreGreatest ==
  ASSUME EntailsMonotone
  PROVE  Spec => []AnswersGreatest
<1>1. TypeOK /\ RefinedIsSatisfied /\ SolIsBetween /\ HeapIsDone => AnswersGreatest
  <2> SUFFICES ASSUME TypeOK, RefinedIsSatisfied, SolIsBetween, HeapIsDone, phase = "done"
               PROVE  Below(Greatest, sol) /\ (refined = live => sol = Greatest)
    BY DEF AnswersGreatest
  <2>1. sol \in Assignment /\ Start \in Assignment
    BY DEF TypeOK, Start, IsProblem, Problem, Assignment
  <2>2. \A s \in Fixpoints : s \in Assignment /\ Below(s, sol)
    <3>1. \A s \in Fixpoints : s \in Assignment
      BY <2>1 DEF Fixpoints, Assignment
    <3> QED
      BY <3>1 DEF Fixpoints, SolIsBetween, Started, FixpointOfIndex
  <2>3. \A k \in KVar : Greatest[k] = UNION {s[k] : s \in Fixpoints}
    BY DEF Greatest
  <2>4. Below(Greatest, sol)
    BY <2>2, <2>3 DEF Below
  <2>5. ASSUME refined = live
        PROVE  sol = Greatest
    <3>1. Waiting = {}
      BY DEF HeapIsDone, Waiting
    <3>2. \A i \in live : Refine(prob, Cstr(i), sol) = sol
      BY <2>5, <3>1 DEF RefinedIsSatisfied
    <3>3. Below(sol, Start)
      BY DEF SolIsBetween, Started
    <3>4. sol \in [KVar -> SUBSET UNION {Start[k] : k \in KVar}]
      BY <2>1, <3>3 DEF Below, Assignment
    <3>5. sol \in Fixpoints
      BY <3>2, <3>3, <3>4 DEF Fixpoints
    <3>6. \A k \in KVar : sol[k] = Greatest[k]
      BY <2>3, <2>4, <3>5 DEF Below
    <3>7. Greatest = [k \in KVar |-> Greatest[k]] /\ sol = [k \in KVar |-> sol[k]]
      BY <2>1 DEF Greatest, Assignment
    <3> QED
      BY <3>6, <3>7
  <2> QED
    BY <2>4, <2>5
<1> QED
  BY <1>1, TypeCorrect, RefinedStaysSatisfied, BetweenInvariant, PTL

\* Under a prover that derives what it is given, what refinement keeps holds.
LEMMA KeptIsEntailed ==
  ASSUME EntailsSound, NEW p, p.assm \in Assignment, NEW c \in FixConstraint,
         NEW s \in Assignment, NEW g \in Pred, Keeps(p, c, s, g)
  PROVE  Entails(PredsOfLhs(p, c, s), g)
<1>1. Below(s, s)
  BY DEF Below
<1>2. LiteralLhs(p, c, s) \subseteq PredsOfLhs(p, c, s) /\ PredsOfLhs(p, c, s) \in SUBSET Pred
  BY <1>1, LhsGrows
<1> QED
  BY <1>2 DEF Keeps, EntailsSound

(***************************************************************************)
(* When the seed is a fixpoint by itself, as its comment demands, and all  *)
(* of the index was refined, only constraints with a concrete right-hand   *)
(* side can fail: for every system, all flags, and every prover that       *)
(* derives what it is given and no less from more facts.                   *)
(***************************************************************************)
THEOREM OnlyGoalsEverFail ==
  ASSUME EntailsMonotone, EntailsSound
  PROVE  Spec => []OnlyGoalsFail
<1>1. TypeOK /\ RefinedIsSatisfied /\ UnsatIsTested /\ HeapIsDone => OnlyGoalsFail
  <2> SUFFICES ASSUME TypeOK, RefinedIsSatisfied, UnsatIsTested, HeapIsDone, phase = "done",
                      refined = live, SeedIsFixpoint, NEW i \in unsat, ~IsConcRhs(Cstr(i))
               PROVE  FALSE
    BY DEF OnlyGoalsFail
  <2> DEFINE c == Cstr(i)
             none == [k \in KVar |-> {}]
  <2>1. i \in live /\ Unsat(prob, c, sol) /\ i \in Ids
    BY DEF UnsatIsTested, TypeOK
  <2>2. c \in FixConstraint /\ prob.assm \in Assignment /\ sol \in Assignment /\ none \in Assignment
    BY <2>1, ProblemTypes DEF TypeOK, Assignment
  <2>3. PICK g \in PredsOf(prob, sol, c.rhs) : ~Entails(PredsOfLhs(prob, c, sol), g)
    BY <2>1 DEF Unsat, IsConcRhs
  <2>3a. PICK o \in c.rhs : \E q \in Read(prob, sol, o[2]) : g = <<o[1], q>>
    BY <2>3 DEF PredsOf
  <2>4. PICK q \in Read(prob, sol, o[2]) : g = <<o[1], q>>
    BY <2>3a
  <2>5. o[1] \in Place /\ o[2] \in KVar
    BY <2>2 DEF FixConstraint, Occurrence
  <2>6. q \in Qual /\ g \in Pred
    BY <2>2, <2>4, <2>5 DEF Read, Assignment, Pred
  <2>7. CASE q \in sol[o[2]]
    <3>1. Refine(prob, c, sol) = sol
      BY <2>1 DEF RefinedIsSatisfied, HeapIsDone, Waiting
    <3>2. q \in Refine(prob, c, sol)[o[2]]
      BY <2>7, <3>1
    <3>3. Keeps(prob, c, sol, g)
      BY <2>4, <2>5, <3>2 DEF Refine
    <3> QED
      BY <2>2, <2>3, <2>6, <3>3, KeptIsEntailed
  <2>8. CASE q \in prob.assm[o[2]]
    <3>1. Valid(prob, c, none)
      BY <2>1 DEF SeedIsFixpoint
    <3>2. g \in PredsOf(prob, none, c.rhs)
      BY <2>4, <2>5, <2>8 DEF PredsOf, Read
    <3>3. Entails(PredsOfLhs(prob, c, none), g)
      BY <3>1, <3>2 DEF Valid
    <3>4. Below(none, sol)
      BY DEF Below
    <3> HIDE DEF none, c
    <3>5. /\ PredsOfLhs(prob, c, none) \subseteq PredsOfLhs(prob, c, sol)
          /\ PredsOfLhs(prob, c, none) \in SUBSET Pred /\ PredsOfLhs(prob, c, sol) \in SUBSET Pred
      BY <2>2, <3>4, LhsGrows
    <3> QED
      BY <2>3, <2>6, <3>3, <3>5 DEF EntailsMonotone
  <2> QED
    BY <2>4, <2>7, <2>8 DEF Read
<1>2. Init => LiveIsClosed /\ UnsatIsTested
  BY DEF Init, LiveIsClosed, UnsatIsTested
<1> QED
  BY <1>1, <1>2, AnswerStep, TypeCorrect, RefinedStaysSatisfied, BetweenInvariant, PTL DEF Spec
=============================================================================
