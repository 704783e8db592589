--------------------------- MODULE DsolveSolver ---------------------------
(***************************************************************************)
(* dsolve's constraint solver, liquid/constraint.ml from                   *)
(* make_initial_solution to test_sol: the passes that choose the starting  *)
(* solution, refinement of the well-formedness constraints, the reference  *)
(* index with its dependencies and ranks, the worklist loop solve_sub, and *)
(* the final test of the constraints with a predicate on the right.        *)
(***************************************************************************)
EXTENDS LiquidConstraints, SccRank

VARIABLES
  prob,      \* the constraint system being solved
  phase,     \* which pass runs
  next,      \* index of the next WFRef of a pass over the list
  sol,       \* Sol.t: kvar -> qualifiers
  srhs,      \* kvars seen on a right-hand side
  slhs,      \* kvars seen in an r1
  rank,      \* sri.rank: id -> index of its strongly connected component
  heap,      \* the worklist, a heap of (id, timestamp)
  pend,      \* sri.pend: ids that are in the worklist
  timestamp, \* push_worklist's counter
  errors     \* ids of the constraints test_sol finds unsatisfied

vars == <<prob, phase, next, sol, srhs, slhs, rank, heap, pend, timestamp, errors>>
initVars == <<srhs, slhs>>
workVars == <<rank, heap, pend, timestamp>>

Ids == DOMAIN prob.subs
SubAt(i) == prob.subs[i]

Phases == {"rhslhs", "initwf", "refinewf", "index", "solve", "test", "done"}

-----------------------------------------------------------------------------
(***************************************************************************)
(* make_rank_map: the SubRefs that read a kvar (km), the successors of a   *)
(* SubRef (depm), and the edges of the graph that scc_rank numbers.        *)
(***************************************************************************)
Readers(k) == {i \in Ids : k \in LhsKs(SubAt(i))}

\* Mutant: a constraint is not its own successor.
DepsOfOthers(i) ==
  IF SubAt(i).rhs = Const THEN {} ELSE Readers(SubAt(i).rhs) \ {i}

Deps(i) == IF SubAt(i).rhs = Const THEN {} ELSE Readers(SubAt(i).rhs)

\* Each SubRef also has an edge to itself, so that it has a rank at all.
RankEdges == {d \in Ids \X Ids : d[2] = d[1] \/ d[2] \in Deps(d[1])}

(***************************************************************************)
(* WH.compare: higher component first, then the older entry, then simple   *)
(* constraints, then the smaller frame constraint id.  Entries equal in    *)
(* all four come out in an order the heap's shape decides.                 *)
(***************************************************************************)
Entry == [ id : Ids, ts : Nat ]

\* Mutants: the lowest component first; the newest entry first.
BeforeByLowRank(d, e) ==
  rank[d.id] < rank[e.id] \/ (rank[d.id] = rank[e.id] /\ d.ts < e.ts)
BeforeByNewest(d, e) ==
  rank[d.id] > rank[e.id] \/ (rank[d.id] = rank[e.id] /\ d.ts > e.ts)

Before(d, e) ==
  LET simple(x) == IF IsSimple(SubAt(x.id)) THEN 1 ELSE 0
      fc(x)     == SubAt(x.id).fc
  IN  \/ rank[d.id] > rank[e.id]
      \/ /\ rank[d.id] = rank[e.id]
         /\ \/ d.ts < e.ts
            \/ /\ d.ts = e.ts
               /\ \/ simple(d) > simple(e)
                  \/ simple(d) = simple(e) /\ fc(d) < fc(e)

IsMaximum(e) == e \in heap /\ \A d \in heap : ~Before(d, e)

\* push_worklist: one new timestamp; ids already pending stay where they are.
Push(h, p, ids) ==
  /\ timestamp' = timestamp + 1
  /\ pend' = p \cup ids
  /\ heap' = h \cup {[id |-> i, ts |-> timestamp + 1] : i \in ids \ p}

-----------------------------------------------------------------------------
Init ==
  /\ prob \in Problems
  /\ phase = "rhslhs"
  /\ next = 1
  /\ sol = [k \in KVar |-> {}]
  /\ srhs = {} /\ slhs = {}
  /\ rank = <<>>
  /\ heap = {} /\ pend = {} /\ timestamp = 0
  /\ errors = {}

RhsSeen == {SubAt(i).rhs : i \in Ids} \ {Const}
R1Seen  == {o[2] : o \in UNION {SubAt(i).r1 : i \in Ids}}

(***************************************************************************)
(* The first two passes of make_initial_solution: every kvar of a          *)
(* right-hand side, then every kvar of an r1, starts with the qualifiers   *)
(* of its SubRef; one of a formal that nothing bounds starts with none.    *)
(***************************************************************************)
PassSubs ==
  /\ phase = "rhslhs"
  /\ srhs' = RhsSeen
  /\ slhs' = R1Seen
  /\ sol' = [k \in KVar |->
               IF k \in slhs' /\ ~MinSol /\ k \in prob.formals /\ k \notin srhs'
               THEN {}
               ELSE IF k \in srhs' \cup slhs' THEN prob.closed ELSE sol[k]]
  /\ phase' = "initwf"
  /\ UNCHANGED <<prob, next, workVars, errors>>

\* Mutant: a kvar of the left is a candidate whatever it started with.
KeepsCandidatesOfLhs(w) == w.k \in srhs \cup slhs

KeepsCandidates(w) == w.k \in srhs \/ (w.k \in slhs /\ sol[w.k] # {})

\* Mutant: candidates accumulate over the WFRefs of a kvar.
AppSolUnion(w) == sol[w.k] \cup w.quals

\* app_sol replaces what an earlier WFRef of the same kvar put there.
AppSol(w) == w.quals

\* The third pass, one WFRef at a time in list order.
PassWF ==
  /\ phase = "initwf"
  /\ next \in DOMAIN prob.wfs
  /\ LET w == prob.wfs[next]
     IN  sol' = [sol EXCEPT ![w.k] = IF KeepsCandidates(w) THEN AppSol(w) ELSE {}]
  /\ next' = next + 1
  /\ UNCHANGED <<prob, phase, initVars, workVars, errors>>

EndPassWF ==
  /\ phase = "initwf"
  /\ next = Len(prob.wfs) + 1
  /\ phase' = "refinewf"
  /\ next' = 1
  /\ UNCHANGED <<prob, sol, initVars, workVars, errors>>

\* solve_wf: refine_wf on each WFRef, once.
RefineWF ==
  /\ phase = "refinewf"
  /\ next \in DOMAIN prob.wfs
  /\ LET w == prob.wfs[next]
     IN  sol' = [sol EXCEPT ![w.k] = @ \cap w.wf]
  /\ next' = next + 1
  /\ UNCHANGED <<prob, phase, initVars, workVars, errors>>

EndRefineWF ==
  /\ phase = "refinewf"
  /\ next = Len(prob.wfs) + 1
  /\ phase' = "index"
  /\ UNCHANGED <<prob, next, sol, initVars, workVars, errors>>

\* make_ref_index and make_initial_worklist: every SubRef is pushed.
MakeIndex ==
  /\ phase = "index"
  /\ rank' \in SccRankings(Ids, RankEdges)
  /\ Push({}, {}, Ids)
  /\ phase' = "solve"
  /\ UNCHANGED <<prob, next, sol, initVars, errors>>

\* Mutant: solve_sub goes on with w instead of w'.
HeapAfterPopUnchanged(e) == heap

HeapAfterPop(e) == heap \ {e}

PendAfterPop(i) == pend \ {i}

\* refine_sol_update: did refining c remove anything?
Changes(c) == c.rhs \in KVar /\ Refined(c, sol) # sol[c.rhs]

(***************************************************************************)
(* One turn of solve_sub: pop the maximum, refine it, and push the readers *)
(* of its kvar when its solution changed.                                  *)
(***************************************************************************)
RefineSub(e) ==
  /\ phase = "solve"
  /\ IsMaximum(e)
  /\ LET c == SubAt(e.id)
         h == HeapAfterPop(e)
         p == PendAfterPop(e.id)
     IN  IF Changes(c)
         THEN /\ sol' = [sol EXCEPT ![c.rhs] = Refined(c, sol)]
              /\ Push(h, p, Deps(e.id))
         ELSE /\ heap' = h /\ pend' = p
              /\ UNCHANGED <<sol, timestamp>>
  /\ UNCHANGED <<prob, phase, next, initVars, rank, errors>>

\* The empty heap ends the loop.
EndSolve ==
  /\ phase = "solve"
  /\ heap = {}
  /\ phase' = "test"
  /\ UNCHANGED <<prob, next, sol, initVars, workVars, errors>>

\* test_sol: sat asks the prover about constant right-hand sides only, and
\* takes a constraint with a kvar on the right as satisfied.
TestSol ==
  /\ phase = "test"
  /\ errors' = {i \in Ids : SubAt(i).rhs = Const /\ ~GoalHolds(SubAt(i), sol)}
  /\ phase' = "done"
  /\ UNCHANGED <<prob, next, sol, initVars, workVars>>

Next ==
  \/ PassSubs
  \/ PassWF \/ EndPassWF
  \/ RefineWF \/ EndRefineWF
  \/ MakeIndex
  \/ \E e \in heap : RefineSub(e)
  \/ EndSolve
  \/ TestSol

\* solve is a sequential program that nothing preempts: while it can take a
\* step, it does.
Spec == Init /\ [][Next]_vars /\ WF_vars(Next)
-----------------------------------------------------------------------------
TypeOK ==
  /\ IsProblem(prob)
  /\ phase \in Phases
  /\ next \in Nat
  /\ sol \in Assignment
  /\ srhs \subseteq KVar /\ slhs \subseteq KVar
  /\ phase \in {"solve", "test", "done"} => rank \in [Ids -> Int]
  /\ heap \subseteq Entry
  /\ pend \subseteq Ids
  /\ timestamp \in Nat
  /\ errors \subseteq Ids

(***************************************************************************)
(* The pending table and the heap agree: an id is marked pending exactly   *)
(* when one entry of the heap carries it, and no entry is from the future. *)
(* A stale mark would lose a constraint, a missing one refine it twice.    *)
(***************************************************************************)
PendIsHeap ==
  /\ pend = {e.id : e \in heap}
  /\ \A d, e \in heap : d.id = e.id => d = e
  /\ \A e \in heap : e.ts <= timestamp

Solving == phase \in {"solve", "test", "done"}

(***************************************************************************)
(* Every SubRef that is not waiting in the worklist is satisfied by the    *)
(* current solution: removing a qualifier pushes all constraints that had  *)
(* relied on it, the constraint just refined included.                     *)
(***************************************************************************)
IdleIsSatisfied ==
  Solving => \A i \in Ids \ pend : Satisfied(SubAt(i), sol)

(***************************************************************************)
(* sat answers true without asking for every constraint with a kvar on the *)
(* right.  This is why it may: when test_sol reports no error, every       *)
(* constraint of the program is entailed, by what the prover derives.      *)
(***************************************************************************)
SafeMeansValid ==
  phase = "done" /\ errors = {} => \A i \in Ids : Valid(SubAt(i), sol)

(***************************************************************************)
(* The formal parameters of an uncalled function, which only ever appear   *)
(* on the left, get the type that assumes nothing of the input.            *)
(***************************************************************************)
UncalledAssumesNothing ==
  phase = "done" /\ ~MinSol =>
    \A k \in prob.formals \ srhs : sol[k] = {}

(***************************************************************************)
(* The comment above is_formal says this of every variable that only ever  *)
(* appears on the left.                                                    *)
(***************************************************************************)
UnconstrainedAssumesNothing ==
  phase = "done" /\ ~MinSol => \A k \in slhs \ srhs : sol[k] = {}

(***************************************************************************)
(* The loop works through the components of the dependency graph from the  *)
(* highest rank down and never returns to one it has left: what a step     *)
(* takes ranks at least as high as all that waits before and after it.     *)
(***************************************************************************)
ComponentsInOrder ==
  [][phase = "solve" =>
       \A e \in heap \ heap', d \in heap \cup heap' : rank[e.id] >= rank[d.id]]_vars

(***************************************************************************)
(* Inside a component the loop is fair: it takes the entry that has waited *)
(* longest, and what it pushes goes behind every entry already there.      *)
(***************************************************************************)
OldestFirst ==
  [][phase = "solve" =>
       \A d \in heap :
         /\ \A e \in heap \ heap' : rank[d.id] = rank[e.id] => e.ts <= d.ts
         /\ \A e \in heap' \ heap : rank[d.id] = rank[e.id] => d.ts < e.ts]_vars

\* The worklist's order: by component, then by age.
TakesInOrder == ComponentsInOrder /\ OldestFirst

\* Solving ends, whatever the order in which constraints are popped.
Terminates == <>(phase = "done")

(***************************************************************************)
(* The answer is the one LiquidSolution promises: the greatest fixpoint    *)
(* below the starting solution, and exactly the failing constraints.       *)
(***************************************************************************)
Abstract ==
  INSTANCE LiquidSolution WITH
    result <- IF phase = "done"
              THEN [ answered |-> TRUE, sol |-> sol, errors |-> errors ]
              ELSE [ answered |-> FALSE ]
AnswersGreatest == Abstract!Spec
=============================================================================
