----------------------------- MODULE FixSolver -----------------------------
(***************************************************************************)
(* The fixpoint library's solver: the constraint index with its slice and  *)
(* its ranks (external/fixpoint/cindex.ml) and the refinement loop over it *)
(* (solve.ml), with predicate abstraction as the domain.                   *)
(***************************************************************************)
EXTENDS FixConstraints, SccRank

CONSTANTS
  Slice,              \* Constants.slice
  TrueUnconstrained,  \* Constants.true_unconstrained
  AdjDeps             \* Constants.adjdeps

ASSUME FlagsAssumption ==
  Slice \in BOOLEAN /\ TrueUnconstrained \in BOOLEAN /\ AdjDeps \in BOOLEAN

VARIABLES
  prob,       \* the system being solved
  phase,      \* how far create and solve have come
  live,       \* ids of the constraints in the index (the domain of cnst)
  rank,       \* rnkm: id -> number of its strongly connected component
  sol,        \* m: kvar -> qualifiers
  heap,       \* the worklist, a heap of (timestamp, rank)
  pend,       \* pend: ids that are in the worklist
  timestamp,  \* wpush's counter
  refined,    \* stat_cfreqt: ids refined at least once
  unsat       \* ids of the constraints the final test finds unsatisfied

vars == <<prob, phase, live, rank, sol, heap, pend, timestamp, refined, unsat>>
indexVars == <<live, rank>>
workVars  == <<heap, pend, timestamp>>

Ids == DOMAIN prob.cs
Cstr(i) == prob.cs[i]

Phases == {"index", "top", "winit", "refine", "done"}

-----------------------------------------------------------------------------
\* make_deps: j reads a kvar that i writes.
RealDeps(S) ==
  {d \in S \X S : RhsKs(Cstr(d[1])) \cap LhsKs(Cstr(d[2])) # {}}

\* adjust_deps: the dependencies the input deletes, then those it adds.
AdjustedDeps(S) ==
  LET tags(d) == <<Cstr(d[1]).tag, Cstr(d[2]).tag>>
  IN  IF AdjDeps
      THEN {d \in RealDeps(S) : tags(d) \notin prob.dels}
             \cup {d \in S \X S : tags(d) \in prob.adds}
      ELSE RealDeps(S)

(***************************************************************************)
(* make_lives: Pre* of the constraints with a concrete right-hand side,    *)
(* the least set that has them and every writer of what a member reads.    *)
(***************************************************************************)
Lives ==
  LET conc == {i \in Ids : IsConcRhs(Cstr(i))}
      closed(S) == conc \subseteq S /\ \A d \in RealDeps(Ids) : d[2] \in S => d[1] \in S
  IN  {i \in Ids : \A S \in SUBSET Ids : closed(S) => i \in S}

\* Mutants: successors by the adjusted dependencies; not itself.
DepsAdjusted(i) == {j \in live : <<i, j>> \in AdjustedDeps(live)}
DepsOfOthers(i) == {j \in live : <<i, j>> \in RealDeps(live) /\ j # i}

Deps(i) == {j \in live : <<i, j>> \in RealDeps(live)}

-----------------------------------------------------------------------------
\* WH.compare: higher component, older entry, larger tag, simple; then the
\* heap's shape decides.
Entry == [ id : live, ts : Nat ]

Before(d, e) ==
  LET simpl(i) == IF IsSimple(Cstr(i)) THEN 1 ELSE 0
  IN  \/ rank[d.id] > rank[e.id]
      \/ /\ rank[d.id] = rank[e.id]
         /\ \/ d.ts < e.ts
            \/ /\ d.ts = e.ts
               /\ \/ Cstr(d.id).tag > Cstr(e.id).tag
                  \/ /\ Cstr(d.id).tag = Cstr(e.id).tag
                     /\ simpl(d.id) > simpl(e.id)

IsMaximum(e) == e \in heap /\ \A d \in heap : ~Before(d, e)

\* wpush: one new timestamp; ids already pending stay where they are.
Push(h, p, ids) ==
  /\ timestamp' = timestamp + 1
  /\ pend' = p \cup ids
  /\ heap' = h \cup {[id |-> i, ts |-> timestamp + 1] : i \in ids \ p}

-----------------------------------------------------------------------------
Init ==
  /\ prob \in Problems
  /\ phase = "index"
  /\ live = {} /\ rank = <<>>
  /\ sol = prob.init
  /\ heap = {} /\ pend = {} /\ timestamp = 0
  /\ refined = {}
  /\ unsat = {}

\* Solve.create: index the constraints, slice them, rank what is left.
CreateIndex ==
  /\ phase = "index"
  /\ live' = IF Slice THEN Lives ELSE Ids
  /\ rank' \in SccRankings(live', AdjustedDeps(live'))
  /\ phase' = "top"
  /\ UNCHANGED <<prob, sol, workVars, refined, unsat>>

\* unconstrained_kvars: read by the index, on no right-hand side of it.
UnconstrainedKVars(k) ==
  /\ \E i \in live : k \in LhsKs(Cstr(i))
  /\ \A i \in live : k \notin RhsKs(Cstr(i))

TrueUnconstrainedKVars ==
  /\ phase = "top"
  /\ sol' = [k \in KVar |->
               IF TrueUnconstrained /\ UnconstrainedKVars(k) THEN {} ELSE sol[k]]
  /\ phase' = "winit"
  /\ UNCHANGED <<prob, indexVars, workVars, refined, unsat>>

\* roots: of each component, the constraint with the smallest id.
Roots == {i \in live : \A j \in live : rank[j] = rank[i] => i <= j}

WInit ==
  /\ phase = "winit"
  /\ Push({}, {}, Roots)
  /\ phase' = "refine"
  /\ UNCHANGED <<prob, sol, indexVars, refined, unsat>>

\* Mutant: the loop goes on with the worklist it popped from.
WorkAfterPopUnchanged(e) == heap

WorkAfterPop(e) == heap \ {e}

\* Mutant: the popped id stays marked.
PendAfterPopUnchanged(i) == pend

PendAfterPop(i) == pend \ {i}

(***************************************************************************)
(* One turn of acsolve: pop the maximum, refine it, and push its           *)
(* successors if the solution changed.  update tells a change by the       *)
(* length of the list, which is right as long as refining only removes.    *)
(***************************************************************************)
RefineConstraint(e) ==
  /\ phase = "refine"
  /\ IsMaximum(e)
  /\ LET s == Refine(prob, Cstr(e.id), sol)
         h == WorkAfterPop(e)
         p == PendAfterPop(e.id)
     IN  /\ sol' = s
         /\ IF \E k \in KVar : Cardinality(s[k]) # Cardinality(sol[k])
            THEN Push(h, p, Deps(e.id))
            ELSE heap' = h /\ pend' = p /\ UNCHANGED timestamp
  /\ refined' = refined \cup {e.id}
  /\ UNCHANGED <<prob, phase, indexVars, unsat>>

\* The empty heap ends the loop; unsat_constraints tests all of the index.
TestSolution ==
  /\ phase = "refine"
  /\ heap = {}
  /\ unsat' = {i \in live : Unsat(prob, Cstr(i), sol)}
  /\ phase' = "done"
  /\ UNCHANGED <<prob, sol, indexVars, workVars, refined>>

Next ==
  \/ CreateIndex
  \/ TrueUnconstrainedKVars
  \/ WInit
  \/ \E e \in heap : RefineConstraint(e)
  \/ TestSolution

\* The solver is sequential and nothing preempts it: while it can take a
\* step, it does.
Spec == Init /\ [][Next]_vars /\ WF_vars(Next)
-----------------------------------------------------------------------------
TypeOK ==
  /\ IsProblem(prob)
  /\ phase \in Phases
  /\ live \subseteq Ids
  /\ phase # "index" => rank \in [live -> Nat]
  /\ sol \in Assignment
  /\ heap \subseteq Entry
  /\ pend \subseteq live
  /\ timestamp \in Nat
  /\ refined \subseteq live
  /\ phase \in {"index", "top", "winit"} => heap = {} /\ pend = {} /\ refined = {}
  /\ unsat \subseteq live
  /\ phase # "done" => unsat = {}

\* The constraints that wait in the worklist.
Waiting == {e.id : e \in heap}

(***************************************************************************)
(* pend and the heap agree: an id is marked exactly when one entry of the  *)
(* heap carries it.                                                        *)
(***************************************************************************)
PendIsHeap ==
  /\ pend = Waiting
  /\ \A d, e \in heap : d.id = e.id => d = e

(***************************************************************************)
(* A constraint that has been refined and does not wait is satisfied:      *)
(* every removal pushes all constraints that read the kvar, however the    *)
(* input adjusts the dependencies and whatever was sliced away.            *)
(***************************************************************************)
RefinedIsSatisfied ==
  \A i \in refined \ Waiting : Refine(prob, Cstr(i), sol) = sol

(***************************************************************************)
(* An answer without unsatisfied constraints is a solution of the whole    *)
(* input, the constraints sliced away included, once the kvars the index   *)
(* does not read are taken to keep nothing.                                *)
(***************************************************************************)
WholeSolution ==
  [k \in KVar |-> IF \E i \in live : k \in LhsKs(Cstr(i)) THEN sol[k] ELSE {}]

WithoutDeadSeed == [prob EXCEPT !.assm = [k \in KVar |->
  IF \E i \in live : k \in LhsKs(Cstr(i)) THEN prob.assm[k] ELSE {}]]

SatMeansSolution ==
  phase = "done" /\ unsat = {} =>
    \A i \in Ids : Valid(WithoutDeadSeed, Cstr(i), WholeSolution)

(***************************************************************************)
(* What the solver should answer: the union of all assignments below the   *)
(* starting one that every constraint of the index leaves alone.           *)
(***************************************************************************)
Start ==
  [k \in KVar |->
     IF TrueUnconstrained /\ UnconstrainedKVars(k) THEN {} ELSE prob.init[k]]

Fixpoints ==
  {s \in [KVar -> SUBSET UNION {Start[k] : k \in KVar}] :
     Below(s, Start) /\ \A i \in live : Refine(prob, Cstr(i), s) = s}

Greatest == [k \in KVar |-> UNION {s[k] : s \in Fixpoints}]

(***************************************************************************)
(* No order of refinement removes a qualifier the greatest fixpoint keeps, *)
(* and when every constraint of the index has been refined once the answer *)
(* is the greatest fixpoint.                                               *)
(***************************************************************************)
AnswersGreatest ==
  phase = "done" =>
    /\ Below(Greatest, sol)
    /\ refined = live => sol = Greatest

(***************************************************************************)
(* assm "must be a fixpoint wrt constraints".  If it is, and every         *)
(* constraint of the index was refined, then only constraints with a       *)
(* concrete right-hand side can be left unsatisfied.                       *)
(***************************************************************************)
SeedIsFixpoint ==
  LET none == [k \in KVar |-> {}]
  IN  \A i \in Ids : IsConcRhs(Cstr(i)) \/ Valid(prob, Cstr(i), none)

OnlyGoalsFail ==
  phase = "done" /\ refined = live /\ SeedIsFixpoint =>
    \A i \in unsat : IsConcRhs(Cstr(i))

\* The loop ends, whatever the order in which constraints are popped.
Terminates == <>(phase = "done")

(***************************************************************************)
(* solve.ml calls itself a fixpoint solver: when the loop ends, refining   *)
(* any constraint again changes nothing.                                   *)
(***************************************************************************)
SolutionIsFixpoint ==
  phase = "done" => \A i \in live : Refine(prob, Cstr(i), sol) = sol
=============================================================================
