----------------------------- MODULE MCSupport -----------------------------
(***************************************************************************)
(* What the two solvers stand on, and what runs their tests: the prover    *)
(* interface of dsolve, the one of the fixpoint solver, the heap of both   *)
(* worklists and the regression test runner.  The four share nothing: a    *)
(* behaviour runs one of them, part, and leaves the others as they start.  *)
(***************************************************************************)
EXTENDS ProverContext, TestRunner, TLC

CONSTANTS Parts,                       \* the components to run
          vv, x, IntSort, ObjSort      \* two variables, vv of a changing sort

ASSUME PartsAssumption == Parts \subseteq {"prover", "fixprover", "heap", "tests"}

VARIABLES part,
          heap, popped

heapVars == <<heap, popped>>
allVars == <<part, proverVars, fixVars, heapVars, vars>>

(* ------------------------------ Predicates ----------------------------- *)
\* Predicates that relate the two variables, by the valuations that satisfy them.
MCVarsOf == ("v=1" :> {vv}) @@ ("v=0" :> {vv}) @@ ("x=1" :> {x}) @@ ("v=x" :> {vv, x})
              @@ ("v=v" :> {vv}) @@ ("x=0" :> {x})
Valuations(n) == [n -> Value]
MCHolds ==
  ("v=1" :> {f \in Valuations({vv}) : f[vv] = 1}) @@
  ("v=0" :> {f \in Valuations({vv}) : f[vv] = 0}) @@
  ("x=1" :> {f \in Valuations({x}) : f[x] = 1}) @@
  ("v=x" :> {f \in Valuations({vv, x}) : f[vv] = f[x]}) @@
  ("x=0" :> {f \in Valuations({x}) : f[x] = 0}) @@
  ("v=v" :> Valuations({vv}))
EnvOf(s) == (vv :> s) @@ (x :> IntSort)
MCEnv == {EnvOf(IntSort), EnvOf(ObjSort)}
MCQuery == [env : MCEnv,
            lhs : {{}, {"v=1", "v=0"}, {"v=x"}, {"x=1", "v=x"}},
            cands : {{"v=1", "v=v"}, {"v=0"}, {"v=x", "x=1"}}]
\* Chains of up to two predicates for the counterexamples.
MCChain == [p : {"x=1", "v=1"},
           ps : {<<"v=0">>, <<"v=0", "v=x">>, <<"v=x", "v=0">>, <<"v=1", "v=0", "v=x">>}]

MCAxiomEnv == EnvOf(IntSort)

H == INSTANCE FunctionalHeap WITH Key <- 1..3, Label <- {"a", "b"}, Capacity <- 7

ASSUME ComponentAssumptions == Assumptions /\ CallAssumptions /\ H!HeapIsBounded /\ RunnerIsSized

(* ------------------------------ Behaviours ------------------------------ *)
AllInit == /\ part \in Parts
           /\ InterfacesInit /\ H!Init /\ Init
           /\ part # "tests" => \A t \in Test : expected[t] = 0 /\ outcome[t] = 0

ProverStep == part = "prover" /\ ProverNext /\ UNCHANGED <<part, fixVars, heapVars, vars>>
FixProverStep == part = "fixprover" /\ FixNext /\ UNCHANGED <<part, proverVars, heapVars, vars>>
HeapStep == part = "heap" /\ H!Next /\ UNCHANGED <<part, proverVars, fixVars, vars>>
Others == UNCHANGED <<part, proverVars, fixVars, heapVars>>
Working(w) == part = "tests" /\ WorkerStep(w) /\ Others
Reporting == part = "tests" /\ MainStep /\ Others
Logging == part = "tests" /\ LogStep /\ Others

AllNext == ProverStep \/ FixProverStep \/ HeapStep \/ (\E w \in Worker : Working(w)) \/ Reporting \/ Logging

\* Each thread of the test runner is scheduled again and again.
AllSpec == /\ AllInit /\ [][AllNext]_allVars
           /\ \A w \in Worker : WF_allVars(Working(w))
           /\ WF_allVars(Reporting) /\ WF_allVars(Logging)

(* ------------------------------ Properties ------------------------------ *)
\* The tree of heap.ml keeps its shape, and is a priority queue.
HeapIsQueue == H!ImplementsQueue /\ []H!Balanced

\* A test run ends, unless a test raises.
TestsEnd == part = "tests" => EndsUnlessATestRaises
=============================================================================
