# dsolve in TLA+

dsolve checks OCaml programs against liquid types. It reads a program and the
signatures beside it, generates subtyping constraints in which unknown
refinements are variables (*kvars*), starts each kvar with all the qualifiers
that could describe it, and removes qualifiers until every constraint holds or
nothing is left to remove. The constraints that still fail are its error
report. `external/fixpoint` is the same idea as a library of its own, with its
own constraint language, index, solver and prover interface. The tree also
holds the OCaml system dsolve is built from; its bytecode runtime, `byterun`, is
the largest body of stateful code in the repository.

This directory models both: the parts of dsolve that decide whether its answer
can be trusted (the two solvers, what they ask of Z3 and how, the worklist heap,
the threaded runner of the regression tests), and the runtime where a long
sequence of legal steps, or a signal, a collection or a short write between two
of them, can go wrong.

## Inventory

Paths are relative to `src/`.

### The checker

| Component | State it keeps | Operations | Modules |
|---|---|---|---|
| dsolve solver, `liquid/constraint.ml`, `consdef.ml` | solution (`Sol.t`), reference index with ranks and dependencies, worklist, `pend`, timestamp | `make_initial_solution`, `solve_wf`, `make_ref_index`, `solve_sub`, `test_sol` | `LiquidConstraints`, `DsolveSolver`; abstractly `LiquidSolution` |
| component ranks, `typing/common.ml`, `external/misc/fcommon.ml` | none | `scc_rank` | `SccRank` |
| worklist heap, `utils/heap.ml` (and the identical `external/misc/heaps.ml`) | a balanced tree | `add`, `maximum`, `remove` | `FunctionalHeap`; abstractly `PriorityQueue` |
| prover interface, `liquid/theoremProver.ml`, `theoremProverZ3.ml` | Z3's scopes, memo tables `vart` and `funt`, declarations cut by barriers, push counter | `push_axiom`, `set_and_filter` over `set`, `filter`, `finish` | `Z3Context`, `ProverContext` |
| fixpoint index, `external/fixpoint/cindex.ml` | live constraints, dependencies, ranks, `pend`, worklist | `create`, `slice`, `deps`, `wpush`, `wpop`, `winit` | `FixSolver` |
| fixpoint solver, `solve.ml`, `predAbs.ml`, `fixConstraint.ml`, `fixConfig.ml` there | kvar to qualifiers, the seed `assm` | `create`, `acsolve`, `refine_constraint`, `unsat_constraints` | `FixConstraints`, `FixSolver` |
| fixpoint prover interface, `tpZ3.ml`, and its caller `counterexample.ml` | as dsolve's | `set_filter`, `is_contra`, `unsat_suffix` | `Z3Context`, `ProverContext` |
| regression tests, `external/misc/rtest.py`, `pmap.py`, `regrtest.py` | queue of tests, results per worker, log queue, `halt` | `pmap.map`, worker, logger, `run_tests` | `TestRunner` |
| constraint splitting, frames, environments: `liquid/constraint.ml` 157-340, `frame.ml`, `liqenv.ml` | none | `split_sub`, `split_wf`, substitution, unfolding | planned |
| qualifier instantiation, `liquid/constraint.ml` 619-665, `qualdecl.ml` | a trie of environments as a cache | `instantiate_quals_in_env` | planned |
| constraint generation, `liquid/qualifymod.ml`, `measure.ml` | fresh kvars, lists of constraints | `constrain_*` | planned |
| script, `dsolve.py`, `depsplit` | files named after the source | `gen_quals`, `solve_quals` | planned |
| driver, normalisation, signatures: `liquid/liquid.ml`, `normalize.ml`, `mlqmod.ml` | command line flags | one pass over one file | not modelled: sequential, no state that outlives a pass |
| `liquid/fixInterface.ml` | none | `solver` | not modelled: its translations of solutions are stubs |
| `external/fixpoint/timeout.ml` | a task's result, a lock | `do_timeout` | not modelled: no live caller |
| simplification, exporters and syntax of `external/fixpoint` | none | rewriting, printing | not modelled: pure |

### The runtime, `byterun/`

| Component | State it keeps | Operations | Modules |
|---|---|---|---|
| signals, `signals.c`, `signals_byt.c` | pending signals, the flags, the async mode, the table of handlers, the C stack | `handle_signal`, polls, blocking sections, `caml_install_signal_handler` | `Signals` |
| output channels, `io.c` | buffer, `curr`, `offset`; the descriptor | output, flush, seek, close | `OutChannel` |
| input channels, `io.c` | buffer, `curr`, `max`, `offset` | input, refill, scan for a line, seek, close | `InChannel` |
| marshaling, `extern.c`, `intern.c` | trail, output blocks; table of objects, places to fill | `extern_rec`, `intern_rec` | `Marshal` |
| digests, `md5.c` | odd bytes, count of bits | update, final | `Md5Buffer` |
| integers, `ints.c`, `int64_format.h`, `int64_emul.h` | none; registers of words | parsing, printing, arithmetic | `IntText`, `Arith`, `Int64Emul` |
| lexer engine, `lexing.c` with `stdlib/lexing.ml` | buffer, positions, memory cells | engine, refill | `Lexing` |
| parser engine, `parsing.c` with `stdlib/parsing.ml` | stacks, `errflag`, lookahead | engine, driver, recovery | `Parsing` |
| interpreter, `interp.c`, `stacks.c`, `fail.c`, `callback.c` | stack, `caml_trapsp`, environment | instructions, growth, callbacks | `Interp` |
| local roots, `memory.h`, `roots.c` | chain of roots through C frames, exception buffers | `CAMLparam`, `CAMLreturn`, raise | `LocalRoots` |
| debugger, `debugger.c`, `fix_code.c` | patched code, event counts, checkpoints | commands, stops | `Debugger`; abstractly `Bytecode` |
| comparison and hashing, `compare.c`, `hash.c` | a stack of its own; budgets | `compare_val`, `caml_hash_univ_param` | `Values`, `Compare`, `HashValue` |
| block primitives, `alloc.c`, `array.c`, `obj.c` | blocks, table of old fields | make, copy, update, truncate | `Blocks` |
| collector, `major_gc.c`, `minor_gc.c`, `weak.c`, `finalise.c` | colours, gray stack, sweep pointer, weak list, finalisers | mark, sweep, copy, write barrier | `GcHeap` |
| order of collections, `gc_ctrl.c` and the entries of the above | counters, parameters, what is under way | every call of `Gc`, allocation | `GcControl` |
| free list, `freelist.c`, `memory.c` | free list, sweep pointer, chunks | allocate, merge, extend | `FreeList` |
| compaction, `compact.c` | words of the heap | four passes | `Compact` |
| table of young pointers, `minor_gc.c` | array with threshold and reserve | add, realloc, empty | `RefTable` |
| rest: `startup.c`, `sys.c`, `unix.c`, `floats.c`, `str.c`, ... | none beyond a call | | not modelled |

OCaml's parser, typer and library, ocamlgraph, Z3 and CamlIDL are third-party
code and not modelled. Z3 appears in `Z3Context` as an external decision
procedure.

### How the parts interact

- The driver pushes the axioms into the prover, generates constraints and calls
  `Constraint.solve` once. The solver calls `TheoremProver.set_and_filter`, one
  call per refinement and per tested constraint. The prover keeps its context
  across all of these calls, so what one call leaves in it the next call sees.
- The solvers call the heap through `add`, `maximum` and `remove`, with a
  comparison that reads the ranks of the index.
- The fixpoint solver calls `TpZ3.set_filter` from `PredAbs.refine`. Under
  `-cex`, once the loop has ended with failures, `Counterexample.explain` calls
  `is_contra` and `unsat_suffix` on the same context.
- `regrtest.py` runs `dsolve.run` on worker threads. These share the queue of
  tests with the main thread and the queue of log records with the logger. The
  `halt` flag is written by one thread and read by another with no lock.
- In the runtime everything meets at a few points. A signal interrupts between
  any two steps and is recorded or, in a blocking section, run at once; channels
  are such blocking sections. The interpreter polls one flag,
  `caml_something_to_do`, for signals and for urged slices of the collector. A
  primitive may collect wherever it allocates, so the collector sees the roots
  it has declared so far. `GcControl` decides when `GcHeap`, `FreeList`,
  `Compact` and `RefTable` do their work, and finalisers put the program in the
  middle of it.

### What is hard in it, and what makes each part correct

- **Solvers.** Correctness is a relation between the solution and the work that
  is left: whatever does not wait in the worklist must be satisfied now. A
  removal can break any reader of the kvar, in its environment as well as in its
  left refinement, the constraint itself included. dsolve reports success
  without testing constraints with a kvar on the right, so for it a lost wake-up
  is an unsound "safe". The fixpoint library does test them, but starts from one
  constraint per component, slices constraints away and lets its input edit the
  dependencies.
- **Prover interfaces.** They hold two stacks (scopes, declarations) and a memo
  table which change at different times: a constant made in a scope that has
  been popped must not be found in the memo again, a fact of one query must not
  be there in the next, and the test variable changes its sort between queries.
- **Heap.** The tree is balanced by its constructors alone, and ties are common
  (all entries of one push have one timestamp).
- **Test runner.** Threads interleave; a test may raise; the main thread waits
  on a count which only the workers lower; the logger is told to stop while it
  may be holding a record.
- **Signals.** A flag that is up must be looked at before the program sleeps; a
  handler runs inside another signal's handler, in the middle of a blocking
  section, and may raise over all of it.
- **Channels, marshaling, text.** Partial writes, interrupted and refused ones;
  a buffer, an offset and a descriptor that must agree at every return; a failure
  in the middle of a value whose blocks are marked.
- **Interpreter, roots, debugger.** A stack that moves while handlers are linked
  through it; an exception over C frames with declared roots; code that is
  patched while several processes run it.
- **Collector.** Interleaving with a program that moves pointers; a gray stack
  that forgets; weak pointers, finalisers and sweeping in one order; allocation
  on either side of the sweep pointer; a compaction that inverts pointers in
  place; a table that fills while it is being emptied.

Nothing here is persisted except files a later pass reads, so there are no
crashes and restarts to model. The `hazards` of `PROJECT.json` list each place
with its line and the properties about it.

## The modules

| Module | What it is |
|---|---|
| `LiquidConstraints` | SubRef and WFRef constraints, what one constraint asks of a solution, what `refine_sub` keeps |
| `LiquidSolution` | the promise: one step that answers with the greatest solution and the constraints it fails |
| `DsolveSolver` | passes, index, worklist loop and test, as actions; implements `LiquidSolution` |
| `SccRank` | every numbering of strongly connected components a run of ocamlgraph may give |
| `FixConstraints`, `FixSolver` | the same for the fixpoint library |
| `Z3Context` | the record both prover interfaces keep, and an external Z3 that decides satisfiability by enumerating valuations |
| `ProverContext` | the two prover interfaces, `ProverSpec` for dsolve's, `FixSpec` for the fixpoint library's with the order in which solver and counterexample generator call it, and `InterfacesSpec` for both |
| `PriorityQueue`, `FunctionalHeap` | a bag from which one takes a greatest element; `Heap.Functional`, which implements it |
| `TestRunner` | main, worker and logger threads |
| `Signals` | signals, polls and blocking sections over a C stack |
| `OutChannel`, `InChannel`, `Channels` | channels under partial, interrupted and failing system calls; each with the stream it implements; both together, with their theorems |
| `Marshal`, `Md5Buffer`, `IntText`, `Lexing` | marshaling, digests, integers as text, the lexer engine |
| `Interp`, `LocalRoots`, `Parsing`, `Bytecode`, `Debugger` | the abstract machine, roots and exceptions in C, the parser engine, the debugger over what bytecode means |
| `Arith`, `Int64Emul`, `Values`, `Compare`, `HashValue` | machine arithmetic, emulated 64-bit words, comparison, hash |
| `GcHeap`, `GcControl`, `FreeList`, `Compact`, `RefTable`, `Blocks` | the collector and the primitives that allocate |
| `DsolveSolver_proofs`, `FixSolver_proofs`, `Signals_proofs`, `Gc_proofs` | theorems, the last one's on `GcControl`, `RefTable` and the heaps of `MCGc`; those of `ProverContext`, `TestRunner`, `Channels` and `GcHeap` are at the end of these modules |
| `MCDsolveSolver`, `MCFixSolver` | small worlds of predicates with a complete prover, for the solvers |
| `MCSupport`, `MCInputOutput`, `MCGc`, `MCHeap`, `MCMachine` | instances of the components that share nothing: a variable `part` picks the one that runs, the others keep to one initial state |

**Solvers.** `sol` is `Sol.t` (`predAbs`'s `m`); `heap`, `pend` and `timestamp`
are the worklist, the pending table and the counter of `push_worklist`
(`wpush`); `rank` is the rank map of the index. `phase` is the program counter
between passes, `next` the position in a pass over the WFRefs. One turn of
`solve_sub` (`acsolve`) is one action: pop the maximum, refine, and push the
readers if something changed. The heap is a set of entries from which the action
takes any that `compare` puts first, so entries that tie come out in every
order; that the tree may be seen this way is what `FunctionalHeap` shows. The
prover is the constant operator `Entails`, which is what `ProverContext` shows
the prover interfaces to answer. Kvars, qualifiers and places
are model values; a substitution pending on a kvar is the place the kvar is said
of. `refined` in `FixSolver` is `stat_cfreqt`, the ids that have been refined.

**Prover interfaces.** `me` holds the scopes with their facts, the memo (`vart`
and `funt` as one), the declarations between barriers, and the identity of each
scope. A predicate is the set of valuations that satisfy it; a fact is a
predicate whose names have been replaced by the constants the memo gave, so two
constants of one name, made at different times, vary independently, as they do
in Z3. `Set`, `StartFilter`, `Valid`, `EndFilter` and `Finish` are the steps of
one `set_and_filter`. The fixpoint library's record is `fme`; each call is one
action, because `z3Do` brackets it.

**Test runner.** One action per step another thread could see: a queue
operation, an append to a result list, the read and the write of `halt`.
`wstate`, `mstate` and `lstate` are the program counters. `unfinished` is
`Queue`'s count of tasks, which `q.join` waits for.

**Signals.** The control state is the C stack, a sequence of frames with a
place each; the head runs, the others have called it or were interrupted by it.
`Deliver` pushes a frame of `handle_signal` at any place. An allocation of the C
code may collect, and the collection runs finalisers that poll (`CollectUnder`):
under an event, and between `sigaction` and the table's entry in
`caml_install_signal_handler`. `mayRaise` says whether handlers and finalisers
may end in an exception; `unentered` holds the signals that the kernel delivers
although the table has no entry for them yet.

**Channels.** An action is a call, an answer of the kernel or the code up to the
next system call. Each byte the program writes, and each byte of the file it
reads, is a different number, so that a lost, repeated or misplaced byte shows.
A handler may raise as the blocking section of a system call is left, over what
the call has written (`raises`) or read: `lost` counts the bytes that a read took
from the descriptor and no call kept, until the next `lseek` makes up for them.

**Collector.** In `GcHeap` a block is its address and has one field. In
`FreeList` and `Compact` memory is words. In `GcControl`, `todo` is the sequence
of what the C functions under way have still to do, so that finalisers, which
run in the middle and may call anything, put their own work before it.

**Interpreter.** Code pointers are sequences of instructions; the stack is a
sequence, and pointers into it are addresses that a growth changes. `MCMachine`
holds a small compiler from terms and what terms mean; `Interp` must give each
program the outcome of its term.

### Composition

`DsolveSolver` and `FixSolver` extend their constraint modules and `SccRank`.
`ProverContext` extends `Z3Context`; the two interfaces in it share no variable, nor do the
two kinds of channel that `Channels` puts together. Refinement mappings:
`DsolveSolver` to `LiquidSolution`, `FunctionalHeap` to `PriorityQueue`,
`Debugger` to `Bytecode`, and each channel to the stream of bytes it stands for.
The solvers, the heap and the prover are checked apart and meet at the
interfaces named above: composing them would multiply the state by the choices
each of them has been shown to hide. The same holds in the runtime: `GcControl`
calls a collection one step, `GcHeap` shows what its steps do under a program,
`FreeList` and `Compact` what they do to the words.

## What is checked

| Run | Instance | Properties and what they show |
|---|---|---|
| `dsolve_systems` | all pairs of 54 SubRef shapes with 3 ways of getting candidates; 4 SubRefs over 3 kvars with cycles, ties, every ranking, under the options `minsol` and `no_simple` | `IdleIsSatisfied`, `SafeMeansValid`, `UncalledAssumesNothing`, `Terminates`; `TakesInOrder`: components by rank, oldest entry first; `AnswersGreatest`: the solver implements `LiquidSolution`, whatever the order |
| `dsolve_lhs_only` | the pairs of `dsolve_systems` | fails: see findings |
| `fix_systems` | 4 constraints of a family of 9, 3 variants of seed, candidates and adjusted dependencies | `RefinedIsSatisfied`, `SatMeansSolution`, `OnlyGoalsFail`, `AnswersGreatest`, `Terminates` |
| `fix_fixpoint` | as `fix_systems`, no adjusted dependencies | fails: see findings |
| `support` | prover: queries of 24 kinds after any 2 axioms; fixpoint prover: 4 calls; heap: 7 elements, 3 keys; tests: 3 on 2 workers | `ContextIsClean`, `AnswersAreEntailed`: no stale term, no leaked fact, exactly what is entailed; `HeapIsQueue`; `ReportsAreComplete`, `TestsEnd` |
| `fix_stale_terms` | the fixpoint prover's part of `support` | fails: see findings |
| `input_output` | buffers of 3 bytes; values of every kind and word size; integers of 2 to 4 bits; every input of 5 characters; handlers that raise over a write or a read | `BufferIsPlaced`, `ChannelsMirrorFiles`, `StreamsAreInOrder`, `DataIsExact`; `CallsComplete`, a lexer's scans with the longest match |
| `gc` | `GcControl`: 4 words, 2 calls of Gc, a finaliser; `GcHeap`: 3 blocks or 2, 2 roots, gray stacks that overflow | `CountersAreExact`, `CollectionsAreInOrder`, `RequestsAreServed`, `HeapsAreWhole`, `ReachableIsKept` |
| `gc_dangling` | 3 blocks, a program that allocates nothing more | fails: see findings |
| `heap` | table of 4 entries at most; 3 chunks, and 2 that are cut in pieces; all memories of 7 layouts of 2 chunks; 4 blocks under all primitives; 2 blocks for the garbage | `TableIsComplete`, `GrowthIsUrged`, `FreeListIsExact`, `CompactionKeepsGraph`, `BlocksAreWhole`, `GarbageGoes` |
| `heap_size` | the chunks that are cut in pieces | fails: see findings |
| `machine` | 2 signals arriving 3 times; 30 programs; 4 frames of C; all inputs of 4 tokens; 3 programs under a debugger; words of 4 to 8 bits; values of every kind, cyclic ones too | `SignalsAreSeen`, `HandlersAreBracketed`, `FramesAreRight`, `ParsesTheLanguage`, `DebuggedIsTheProgram`, `ValuesAreRight`, `Completes` |

The definition of each property says in a comment what it promises and cites the
line of the code that relies on it. A property of a composite run is the
conjunction of the properties of its components, each under `part = ...`.

### Bounds, and why they are enough

- *Solvers.* The hazards are about one kvar with two constraints (written by
  one, read by the other, in the environment or in the left refinement; a
  constraint that reads what it writes; a kvar on the left only) and about
  components (a cycle, two components no path links, a constraint that writes
  two kvars). Pairs over two kvars have every case of the first kind, four
  constraints over three kvars the second. The qualifiers include two with a
  contradiction between them, one that relates V to x, one that makes a loop
  lose qualifiers one at a time, and a syntactic contradiction. The theorems
  below remove the bound.
- *`MaxPushes` = 10 (`ProverContext`).* Each query pushes two scopes, and one
  more for each candidate it tries, so between three and five queries follow one
  another. The hazards need two, a third to see what a barrier left behind does,
  and a query that ends in `finish` between two that end in `filter`. A theorem
  removes this bound.
- *`MaxCalls` = 4 (the fixpoint library's prover).* A refinement query that fails, the suffix
  query, and two killers queries, which is one round of `explain`. A theorem
  removes this bound too.
- *`Capacity` = 7 (heap).* A complete tree of three levels and every smaller
  one: all the patterns of `descent` and `extract_last`, on an inner node as
  well as on the root.
- *Tests.* Three tests on two workers is the smallest instance in which one
  worker takes a second test while the other still runs one. A test's status is
  0, or 2, which no directory expects; the directories expect 0 (safe) and 1
  (unsafe), so right, wrong and wrong with an unknown status all occur.
- *`Size` = 3, `MaxOut` = 4, `MaxBlock` = 4, `MaxRaises` = 1 (channels).* A
  block that fits, one that fills the buffer and one larger than it; a write of
  one, two or three bytes of what was asked; a seek inside and outside what was
  written; one handler that raises over a write, and any number that raise over
  a read. The input file of six bytes has one newline and a line longer than the
  buffer.
- *`ByteBits` = 2, blocks of 24 bytes, a trail of 2 (`Marshal`).* Every width of
  the format is reached by an integer of a few bits; a value of six blocks needs
  several blocks of output and of trail. Graphs with a forward block that is met
  twice, one that is short-circuited and one that is not, and messages that
  cannot be read at each place where reading may fail.
- *Words of 2 to 8 bits (`IntText`, `Arith`, `Int64Emul`).* The algorithms treat
  all widths alike; 4 bits have the smallest and the greatest number, overflow
  in each operation, and every carry between two halves.
- *Lexer and parser.* All inputs of up to five characters over two letters, up
  to four tokens over four, and longer ones that make the buffer and the stacks
  grow again.
- *`N` = 3 or 2, `GrayCap` = 2 or 1 (`GcHeap`).* A chain of two pointers and a
  third block that is lost; gray stacks that overflow after two blocks, or
  after one. Weak arrays and finalisers in instances of their own, and both in
  `gc_dangling`. `MCHeap`'s instance `G` is about liveness and has two blocks.
- *`GcControl`.* A minor heap of two words, and sizes that round up, so that
  four words fill it twice; two calls of `Gc` and one finaliser that calls. The
  theorems remove all of these.
- *`RefTable`.* Three fields, a table of one entry and one of reserve, which
  doubles twice.
- *`FreeList`.* Chunks of seven, three and three words, one above and one below
  the first; blocks of one and two words leave a fragment of one. In a second
  instance (`P`) blocks have three words at most, so that both chunks are cut.
  `caml_fl_cur_size` counts modulo 32.
- *`Compact`.* Seven layouts that have closures with infix pointers, strings,
  weak arrays, headers without fields and holes; all values in all fields and
  two roots. Two layouts fill both chunks, or leave too little for a header and
  two fields in each; one fills the first chunk only.
- *`MaxSent` = 3, `NSig` = 2 (`Signals`).* A handler interrupted by the other
  signal, and a third arrival at any place of that. A run of finalisers counts as
  an arrival.
- *`Interp`.* Thirty terms: each kind of application with too few, enough and too
  many arguments, in tail position or not; handlers in and around them; both
  callbacks; recursive functions; stacks that double and stacks at their limit.
- *`LocalRoots` four frames deep, `Debugger` with two processes and two patches,
  `Compare` on three values of one type with a stack of 2 to 8 entries, or on
  cyclic ones, `HashValue` with every budget from none to more than the value
  has.*

Runs set `CHECK_DEADLOCK FALSE` because the programs stop: the solvers at
`done`, the prover interfaces at their bound (or `failed`), the runner when all
threads have ended (or when `q.join` waits for ever), the runtime's components
when a bound is reached or a program has ended.

### Fairness

- The solvers are sequential programs: `WF_vars(Next)` says that a program that
  can take a step takes one. The prover in them is assumed to answer.
- In the test runner each worker, the main thread and the logger have weak
  fairness of their own: the threads are preemptive, none holds a lock for longer
  than a queue operation, and a test ends (`dsolve.run` waits for a child
  process; a test that never ends would hang the runner and says nothing about
  it).
- `MCInputOutput`: the code goes on (`OutProgress`, `InProgress`, the engine and
  refill of the lexer, the steps of `Marshal` and `IntText`), a read is answered
  (`InProgress` has the answers of `read`), a write that is retried goes through
  in the end (`OutWritten`), and a closed descriptor is refused (`OutRefused`,
  `InRefused`). Errors, EAGAIN, raising handlers and new calls have no fairness.
- `MCMachine`: the running program goes on (`Proceeds`), and a handler or a
  finaliser returns however often it is interrupted (`SF` of `SignalReturn`;
  arrivals are bounded by `MaxSent`). Nothing is assumed of arrivals, debugger commands or C code.
- `MCHeap`, for `GarbageGoes`: a program that keeps allocating fills the minor
  heap (`WF` of `MinorPart`), and each collection runs a slice (`SF` of
  `MajorPart`, since a slice is disabled while the minor heap has something in
  it). A program that allocates nothing collects nothing, and the property says
  nothing of it.

### Findings

- `constraint.ml:702`: the comment above `is_formal` (668-671) says that a
  variable that only appears on the left is unconstrained and nothing is known
  of its value; the code empties it only if it belongs to a formal parameter.
  `dsolve_lhs_only` shows such a kvar keeping its qualifiers.
- `cindex.ml:327`: `roots` gives one constraint per component to `winit`. A
  constraint of the component which no change wakes is never refined, so the
  loop of a "fixpoint solver" (`solve.ml:24`) can end on something that is not
  a fixpoint (`fix_fixpoint`). The final test reports such constraints as
  failing, so the effect is a false alarm, never an unsound answer:
  `SatMeansSolution` is proved.
- `tpZ3.ml:568`: `unsat_suffix` translates inside its scope and does not forget
  what it declared, so the queries of the counterexample generator after it use
  constants whose scope is gone, which `z3_api.h:3513` excludes
  (`fix_stale_terms`). The refinement loop itself never does
  (`ContextIsClean`).
- `major_gc.c:252`: a weak array that only a finalised value reaches leaves the
  list of weak arrays before `caml_final_update` brings the value back. It is
  never erased again and its pointer dangles (`gc_dangling`).
- `freelist.c:265`: `caml_fl_add_blocks` counts the first block of an extension
  only, so `caml_fl_cur_size` is not "Number of words in the free list"
  (`freelist.c:48`), which the assertion at `freelist.c:76` repeats, once an
  extension is cut into several blocks (`heap_size`). What holds of the counter
  is `SizeIsExact`: it lacks exactly the words of the other pieces.

More of what the models show, at odds with a document or with what one would
expect. None of it has a run of its own: it is part of a passing property, which
says what the code does instead, and how far that goes.

- `pmap.py:15`: a test that raises ends its worker without `task_done`, and the
  run never reports anything (`NoReportAfterARaise` in `ReportsAreComplete`).
- `io.c:181`: a signal handler that raises over a write leaves its bytes written
  and the buffer as it was, so the next flush writes them again. The properties
  of output channels hold until then (`raises = 0`).
- `io.c:264-271`: a handler that raises over a read leaves the bytes read in the
  buffer and the descriptor behind them, but neither `offset` nor `max` is told.
  The next read skips them, and `offset`, "Absolute position of fd in the file"
  (`io.h:30`), lags behind until the next `lseek`: by exactly `lost` in
  `BufferMirrorsFile`. Within `StreamsAreInOrder` the bytes delivered are then
  bytes of the file, no more.
- `io.c:339`: on a closed input channel a seek within the buffer succeeds, and
  input answers from it; the properties of input channels end with a close.
- `extern.c:314` looks at the tag of a forward block before it asks whether the
  block has been met, and `extern.c:119` has put the block's new place over its
  first field. A forward block that is not short-circuited and is met again is
  therefore followed to the number of that place, which is no value of the
  program. `RoundTrip` lets the reader find that number there, and nowhere else
  (`MetAgain`).
- `intern.c:343`, `intern.c:365` and `intern.c:411` raise without
  `intern_cleanup`: the input block stays, which `intern.c:40` has freed "in case
  of error", and the second leaves the chunk that was to hold the value too.
  `FailuresLeave` says what each failure leaves: nothing but in these three
  cases, and there exactly that.
- `gc_ctrl.c:343`: `norm_minsize` compares a size in bytes with a minimum in
  words. The model keeps this (`MinorSizesFit` is what follows from it);
  `Minor_heap_max` is out of the model's range.
- `compact.c:132-134`: when every chunk has room for three fields at most,
  `compact_allocate` goes past the last chunk and reads the size of none, in front
  of its own assertion (`compact.c:140`). `FaultsOnlyWhenFull` says that this
  happens on such a heap only.
- `signals.c:283-303`: `caml_install_signal_handler` lets the kernel deliver a
  signal, allocates, and then enters the handler. A finaliser that runs in the
  allocation may poll: then the signal is handled by what the table had before,
  or by nothing (`unentered` in `HandlerIsInstalled`); and it may install a
  handler of its own over which the outer call then writes.
- `signals_byt.c:42`: a finaliser that raises out of the collection of an event
  leaves the event before it looks at the signals, and the flag is down; they wait
  for the next signal or slice to raise it again (`PollSeesEvents`).
- `parsing.ml:132-138`: an action that raises `Parse_error` starts the recovery
  which `parsing.mli:59` promises, but the engine goes on at `parsing.c:191`
  without having put the state of the left-hand side on the stack (272-279).
  Within three tokens of an error (`errflag` = 3) it drops a token and goes on in
  that state, and over an empty rule it may take what was last on that place for
  a state. Then (`astray`) the stack is no path of the automaton and an action
  may get values of the wrong kind. `ParsesTheLanguage` says that the path, the
  values and the spans are kept through every other recovery.
- `hash.c:74-88` against `hashtbl.mli:159`, equal values hash alike: `0.0` and
  `-0.0` are equal and do not, nor do NaNs that `compare` puts together. What
  `SameHash` has is that values of the same bytes hash alike, and that two floats
  do only if their bytes are the same or nothing of them is hashed.
- `hash.c:52` against `hashtbl.mli:169`, hashing stops after `n` meaningful nodes:
  blocks count against the meaningful ones too, and one leaf is hashed even with
  `n` = 0 (`BudgetIsKept`).
- `int32.mli:21`: "all arithmetic operations over int32 are taken modulo 2^32". On
  a processor that traps, the smallest number divided by -1 ends the program
  (`TrapsAtSmallest` in `ValuesAreRight`).
- `compare.c` on cyclic structures: for `pervasives.mli:52` and `:74` it "does
  not terminate", for `:89` it "may not". `Completes` says when: cycles through
  the last field, which `compare.c` follows in a loop, are followed for ever
  (`Endless`, unless they are physically the same and the comparison is total);
  cycles through another field end by exhausting the comparison's stack.

## What is proved

tlapm checks the theorems of eight modules, each for every value of the
constants that satisfies the named assumptions. They cover all that the runs
`dsolve_systems` and `fix_systems` check but termination, all of `gc`, and
ten more of the runs' properties.

| Theorem | Says |
|---|---|
| `DsolveSolver_proofs!TypeCorrect`, `PendMirrorsHeap` | the types; a constraint is marked pending exactly when it is on the heap |
| `...!IdleAlwaysSatisfied` | `IdleIsSatisfied`: what does not wait in the worklist is satisfied now |
| `...!SafeAnswerIsValid` | `SafeMeansValid`: an answer without errors entails every constraint |
| `...!UncalledFormalsAssumeNothing` | `UncalledAssumesNothing` |
| `...!WorklistTakesInOrder` | `TakesInOrder`, an action property |
| `...!SolverImplementsSolution` | `AnswersGreatest`: the solver implements `LiquidSolution` |
| `FixSolver_proofs!TypeCorrect`, `PendMirrorsHeap` | as above |
| `...!RefinedStaysSatisfied` | `RefinedIsSatisfied` |
| `...!CleanAnswerSolvesInput` | `SatMeansSolution` |
| `...!AnswersAreGreatest` | `AnswersGreatest`: a full sweep answers the greatest fixpoint |
| `...!OnlyGoalsEverFail` | `OnlyGoalsFail` |
| `ProverContext!QueriesAreAnsweredByEntailment` | `ContextTypeOK`, `MemoIsLive`, `VVHasSortOfQuery`, `OnlyAxiomsStay`, `AnswerIsEntailed`: dsolve's interface |
| `...!CallsAreAnsweredByEntailment` | `CallsAreBalanced`, `SolverTermsAreLive`, `SetFilterIsEntailment`, `SuffixIsGreatest`: the fixpoint library's interface |
| `...!ContextStaysClean`, `AnswersStayEntailed` | `ContextIsClean`, `AnswersAreEntailed`: both, of `InterfacesSpec`, whose steps are those of `support` |
| `TestRunner!ReportsStayComplete` | `TypeOK` and `ReportsAreComplete` |
| `Signals_proofs!SignalsKeepTheirStack` | the inductive invariant `SignalInv` |
| `...!AllSignalsAreSeen` | `SignalsAreSeen` |
| `...!AllHandlersAreBracketed` | `HandlersAreBracketed` |
| `Channels!BufferIsAlwaysPlaced` | `BufferIsPlaced` |
| `...!ChannelImplementsWriter` | `ImplementsWriter`: the channel implements a stream, the output half of `StreamsAreInOrder` |
| `...!ClosedAlwaysRaises` | `ClosedRaises`: output or seek on a closed channel raises |
| `...!ChannelsAlwaysMirror` | `ChannelsMirrorFiles`: `NoByteTwice` of the output channel, `BufferMirrorsFile`, `ScanTellsLine` and `EofAtEnd` of the input channel |
| `...!StreamsStayInOrder` | `StreamsAreInOrder`: `ImplementsWriter`, `ClosedRaises` and `ImplementsReader` |
| `GcHeap!ReachableIsNeverFreed` | `TypeOK`, `ReachableIsAllocated`, `TablesAreComplete`, `GrayIsFound`, `WeakNeverDangles`, `FinalisableIsAllocated`, unless a program uses both weak arrays and finalisation functions |
| `Gc_proofs!ReachableStaysKept` | `ReachableIsKept` |
| `...!HeapsStayWhole` | `HeapsAreWhole` |
| `...!CountersStayExact` | `CountersAreExact` |
| `...!CollectionsStayInOrder` | `CollectionsAreInOrder` |
| `...!RequestsAreAlwaysServed` | `RequestsAreServed`, an action property |
| `...!TableStaysComplete` | `TableIsComplete` |
| `...!GrowthIsAlwaysUrged` | `GrowthIsUrged`, an action property |

### The arguments

**The loop of the solvers.** `TypeOK` is inductive by itself. For `PendIsHeap`,
`PushKeepsMirror` says that a push adds the same ids to both records and none
twice; popping removes one from each. `IdleIsSatisfied` is inductive together
with these two. Its step is `RefineKeepsIdle`: what a constraint decides depends
on the solution only through the kvars it reads (`LhsDependsOnLhsKs`), so a
constraint that does not read the changed kvar is as satisfied as before; one
that does is among `Deps` and is pushed; and one that writes the same kvar
without reading it has only lost candidates (`RefinedShrinks`). `PendIsHeap` is
what turns "pushed" into "not idle": without it a constraint could be marked
pending and wait nowhere. `SafeAnswerIsValid` combines `IdleIsSatisfied` on an
empty heap with what `TestSol` tests. `WorklistTakesInOrder` needs one more
invariant, that ranks never rise along a dependency (`RanksDescend`): what a
turn pushes are readers, which rank no higher than what was taken.

**The greatest solution.** `StartInv` follows the four passes:
which kvars have been seen on each side, what the last WFRef met so far has
offered to each kvar, and what of it is well formed in those met. At the end of
the passes this is `LiquidSolution`'s start. From then on the solution lies
between that start and every fixpoint below it: a step removes a candidate only
if the left-hand side does not entail it, a smaller fixpoint has no more facts
on its left, and a prover that entails no less from more facts entails no more
from fewer (`FixpointStaysBelow`). When the heap is empty the solution is itself
a fixpoint, hence the greatest, and `Answer` maps to the abstract step.
`AnswersAreGreatest` and `OnlyGoalsEverFail` of the fixpoint library take the
same road with its seed and its sliced constraints. `CleanAnswerSolvesInput`
needs neither the worklist nor the ranks: the final test, and that the live
constraints are closed under "writes what a live one reads" (`LiveIsClosed`),
are enough. This is why slicing, adjusted dependencies and the roots cannot make
the answer unsound.

**dsolve's prover.** `ProverInv` has three parts. `RecordInv`: the types, and
each name of the memo stands for a constant of its own. `QuietInv`, between
queries: the axioms are asserted in the base scope, the scopes above it that
earlier queries left are empty, and every constant of the memo is of a scope
that is there. `AskInv`, during a query: the axioms are below, exactly the
left-hand side is in the top scope, no axiom's name was declared since the
barrier, and what was declared since is all that the pop at the end leaves
dangling, so that `clean_decls` forgets enough; and the answer so far is what is
entailed of the candidates tried. `UnsatIsNoValuation` leads from facts about
constants to predicates about names: facts over the constants of a memo are
unsatisfiable exactly if no valuation of the names satisfies the predicates,
because different names have different constants.

**The fixpoint library's prover.** `FixInv` says what every call finds and
leaves: one scope without facts, a memo in which each constant has the name and
the sort of its key, and, while the solver runs, only constants of the base scope
(`set_filter` translates its left-hand side before the push, and `clean_decls`
forgets the candidates'). The lemmas on scopes, memo, valuations and
`UnsatIsNoValuation` are the same for both interfaces: their memos differ in the
key, a path or a path with a sort, so the lemmas take the set of keys and the
function from names to keys as parameters (`Keyed`). Within `unsat_suffix` the
facts in the scope after each turn are the background predicate and the
predicates from the index on, so the first contradiction going down is the
greatest index. The two interfaces share no variable, so `InterfacesInv` is the
conjunction of `ProverInv` and `FixInv`.

**Test runner.** `RunnerInv`: each test is in one place, the queue, a worker's
hand or a list of results (`TestsArePlaced`); each kept result, and the result of
a worker between the two steps, has one record among the log, the logger's hand
and its queue (`RecordsAreOwed`); the halt comes after the join (`HaltIsLast`).
That `unfinished` counts queue and hands is what lets `q.join` return only when
all results are in.

**Signals.** `SignalInv` describes the C stack from the top down. `Fits` says
under which frames a frame may lie, with the handlers entered and the mask it
saved; a handler is entered, or its signal is one of those that a collection
under `caml_install_signal_handler` left without an entry (`Entered`). A frame is `Exposed` if only frames of `handle_signal` are above it. With
these, each flag is a fact about the exposed frame: the asynchronous mode is on
exactly if it is inside a blocking section (`Modes`), a pending signal has a
poll or a scan to come (`Polls`, `InView`), nobody sleeps over a recorded signal
but one whose handler has just run (`Sleeps`), an urged slice has an event to
come (`Slices`). The induction has one lemma for each action, over lemmas on
pushing, replacing and unwinding frames (`Pushed`, `Rest`, `Unwinds`).
`HandlersAreBracketed` and `SignalsAreSeen` except what a handler or a finaliser
that raises may strand, as the code does.

**Collections.** `CountInv` (`Amounts`, `Counts`, `Exact`) is inductive by
itself: a word that leaves the minor heap is counted where it goes in the same
step. `OrderInv` says that `todo` is a chain: `Follows(a, b)` when what `b` needs
(an empty minor heap, an idle major collector, nothing left to account for) is
what `a` leaves, and what the head needs is true now. A finaliser breaks no
link, because what follows one needs nothing (`NothingNeeds`). The rest of it is
about sizes: rounding to pages rounds a rounded size to itself, the free words
are fewer than the heap has, which the compacter's chunk arithmetic needs. That
the size of the heap is the sum of its chunks (`HeapIsItsChunks`) follows from
what a step does to the chunks (`ChunkSteps`) and how the sum changes when one is
added at the end or taken from the middle (`TotalOfOneMore`, `TotalOfOneLess`).

**The two heaps.** `HeapInv` is the tricolour invariant, in a form that a weak
array, a resurrected value and a gray stack that overflows do not break. Its
parts say, of the blocks the sweep will not free (`Sound`): a root, a value
awaiting its function and a field of a sound block hold only sound values
(`ValuesAreSound`), and pointers from old to young are in a table
(`Registered`). While marking, `Found` is what the marking will have marked when
it ends: the blocks that scanned fields lead to from those that are marked
(`Spread`, the least set closed under a step). The roots, the young blocks and
the fields of black blocks hold only values that are found (`ReachableIsFound`).
So a write barrier need not darken the new value: it was in a root, hence found.
It has to darken the old one, which may have been found only through the field
that is overwritten (`Darkened`, `SteadyGrows`). At the end of the marking no
block is gray and `Found` is what is marked (`AllIsFound`); what is white then
is not sound, and only that is swept. `GraysAreFound` is the gray stack: after
an overflow the heap is not pure, or the walk has still to come to what was
dropped. `ArraysAreListed` and `ArraysAreClean` are about weak arrays: each is on
the list, once, until it is found dead, and those that the cleaning has passed
hold no pointer that the sweep will strand.
`EmptyMinorHeap` renames what survives to where it is copied: what is reachable
in the young heap is copied, hence allocated, and what a table does not name
did not point there.

The hypothesis `~(Weak /\ Finalise)` is what the code needs, not what the proof
needs: with both, `final_update` darkens values after the weak arrays of the dead
were dropped from the list, which is the counterexample of `gc_dangling`. It is
used in one place, where `FinalUpdateKeeps` has to leave every marked weak array
clean. `MCGc` runs one heap with weak arrays and one with finalisation functions,
and `ReachableStaysKept` takes the theorem to both instances.

**Output channel.** `ChannelInv`: a descriptor is ahead of the buffer by what the
write under way has returned, until a handler raises over it. `WriterInv` adds
what the bytes are: those still to put are numbered in a row (`Numbered`); a
buffer that fills while a block is put ends with the block's next bytes, which
are accepted when the flush ends (`Filled`); what a write under way has taken is
in the file, just before its descriptor (`Taken`). The state the program sees is
the file with the rest of the buffer laid over it (`Believed`, with `Overlay`),
so the refinement rests on lemmas of `Overlay`: writing the first bytes and then
the others is writing them at once (`OverlayTwice`), writing some of them again
changes nothing (`OverlayAgain`), and what was taken remains (`OverlayWritten`).
With them a flush, a shift of the buffer or a retry is a stutter, and a byte put
is a byte accepted (`PuttingAccepts`). For a closed channel `ShutInv` says that
its buffer looks full and an operation on it that has begun has bytes to put.
`NoByteTwice` needs an order: the bytes that wait in the buffer and then the rest
of the call are one sequence (`Coming`), increasing, and beyond everything in the
file but what the write under way has taken (`EachOnce`). Filling, copying and
shifting only move along that sequence (`OnceMoves`), and a write takes its first
bytes (`OnceWrites`).

**Input channel.** `InInv`: an open channel's `offset` and what raising handlers
have lost make its descriptor's place; the buffer holds bytes of the file and,
while nothing is lost, those just before `offset` (`InMirror`); what a scan has
passed has no newline (`Scanned`). So, until something is lost, what is unread is
what the file has at the channel's place (`UnreadIsFile`), which makes a block a
delivery; the answer of a scan is true when it moves the unread bytes to the front
and reads on behind them (`MovedIs`, `ScannedIs`). A scan that meets the end
offers what is left, and an end is told only when nothing is.

**Table of young pointers.** `TableInv`: the entries are below the limit, the threshold is a reserve
below the end, whatever is beyond the threshold has urged a slice, and no field
with a young value is missing.

### What they rest on

The assumptions are named ASSUMEs or hypotheses of the theorems, and a run
evaluates each of them on its instance.

- `LiquidConstraints`, `FixConstraints`, `FixSolver`: V is a place, `Const` is
  not a kvar, the systems are well formed (every kvar has a WFRef, as constraint
  generation emits them; a right-hand side is all kvars or all predicates, as
  `is_conc_rhs` asserts).
- Of the solvers' prover: `EntailsSound`, it derives what is literally assumed
  and anything from a contradiction (the two shortcuts that refinement takes
  without asking), and `EntailsMonotone`, no less from more facts. Only the
  theorems that name them use them. Any complete prover has both, and
  `QueriesAreAnsweredByEntailment` says that the interface answers like one.
- `ProverContext`: a predicate is a set of valuations of its names, queries,
  calls and axioms are well sorted, chains are not empty, and a value exists.
- `TestRunner`: finitely many tests and workers, at least one worker, and
  `Raises` is not a status.
- The runtime: sizes are positive and in the order the code checks them.

**Only model-checked.**

- Liveness: `Terminates`, `TestsEnd`, `CallsComplete`, `GarbageGoes`,
  `Completes`. It needs ENABLED, which is out of the prover's reach.
- What is about RECURSIVE operators, or is recursive in itself: `HeapIsQueue`, `CompactionKeepsGraph`,
  `DataIsExact` (`Marshal`), `FramesAreRight`, `ParsesTheLanguage`,
  `DebuggedIsTheProgram`, and `ValuesAreRight`, whose words need `Bitwise`.
  Recursive functions are within reach, at a price: the induction theorems of the
  library cannot be cited, so `GcHeap` proves that every set of numbers that has 0
  and the successor of each of its members has them all (`Induction`), and each
  function is shown to exist (`SpreadExists`, `DarkensExists`, `SumsExist`).
- Not proved yet: `FreeListIsExact`, `BlocksAreWhole`, what `DataIsExact` says
  of digests and of integers as text, and `IsLongestMatch` of lexers, which is in
  `CallsComplete`.

## What the models leave out

- The translation of predicates into Z3's terms: a predicate is its set of
  satisfying valuations. Quantifiers, hence `z3Bind`'s bound entries, are left
  out, and so is `fixdiv`.
- Statistics, printing, the two caches of results that are switched off.
- In dsolve: the bag-of-qualifiers variant of `refine_sub` and the path through
  `FixInterface`, neither of which the answer depends on.
- In the fixpoint library: `apply_facts`, `refine_sort`, the subsumption graph of
  `min_read`, the breadcrumbs of counterexamples, and what `explain` builds.
- In the test runner: a test is its exit status; `TestConfig.exceptions`, which
  is written and never read; `regrtest.py` dropping the result of `run`.
- In the runtime: a custom comparison that answers "unordered" (`compare.c:206`;
  nothing in the repository sets it), floats (their bits are model values), strings, backtraces,
  global roots, native code, the byte order of scalars, the list of all channels
  and their finalisation, the numbering of signals, the speed of slices, the
  debugger's inspection requests, start-up and the operating system's calls.
- The tables of lexers and parsers, programs of the interpreter and classes of
  values come from outside; the instances fix small ones.

## Plan

Done: the solvers and their abstract specification, the heap, the prover
interfaces, the test runner, and the runtime's components above; the theorems
listed.

Next theorems: `FreeList`'s `ListIsBlue`, `MergeIsLastSwept` and `LiveIsIntact`.

Modules that would add most: `SplitFrames` (`split_sub` and `split_wf` over small
frames: polarity, the scope of each SubRef, the direction of the renaming in
`split_sub_params`); `TrieCache` (instantiation with its cached answers, against
instantiation with none); `DsolveRun` (`dsolve.py`, `depsplit` and the files they
share); `FixFacts` (`apply_facts` and `refine_sort`); constraint generation (every
fresh kvar gets its well-formedness constraint, which `EveryKVarHasWF` assumes).

## Running

    tlc -workers 2 -config DsolveSystems.cfg MCDsolveSolver.tla
    tlapm DsolveSolver_proofs.tla

`PROJECT.json` names the module and the configuration of each run, maps each
definition to the lines it models, and gives for each checked property a
mutated definition under which TLC finds it violated.
