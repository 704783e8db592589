---------------------------- MODULE TestRunner ----------------------------
(***************************************************************************)
(* The regression test runner, rtest.py over pmap.py: a main thread, a     *)
(* pool of worker threads that take tests from one queue, and a logger     *)
(* thread that writes their results from another.                          *)
(***************************************************************************)
EXTENDS Integers, Sequences, FiniteSets, SequencesExt, FiniteSetTheorems, SequenceTheorems, TLAPS

CONSTANTS Test,        \* files, one entry of the queue each
          Worker,      \* pool of options.threadcount threads
          Status,      \* exit statuses of dsolve
          ValidExits,  \* the expected statuses of the test directories
          Raises,      \* a status of a run that raises instead of returning (OSError, IOError)
          NoTest       \* a worker between two tests

RunnerIsSized ==
  IsFiniteSet(Test) /\ IsFiniteSet(Worker) /\ Worker # {} /\ Raises \notin Status /\ NoTest \notin Test

VARIABLES
  expected,   \* [Test -> ValidExits], by the directory a test is in
  outcome,    \* [Test -> Status or Raises], what the run of a test will do
  q,          \* pmap's queue of tests
  unfinished, \* q.unfinished_tasks: what q.join waits for
  wstate, held, results,   \* workers: where they are, the test they run, PMapWorker.results
  mstate,     \* main: "starting" | "joining" | "finalizing" | "reporting" | "exited"
  report,     \* what run_tests prints: the failed tests and those that threw
  logq, lstate, lheld, log, halt  \* the logger: its queue, its state, its record, the file, its flag

vars == <<expected, outcome, q, unfinished, wstate, held, results, mstate, report, logq, lstate, lheld, log, halt>>
mainVars == <<mstate, report>>
workVars == <<q, unfinished, wstate, held, results>>
logVars  == <<logq, lstate, lheld, log, halt>>
inputs   == <<expected, outcome>>

Result(t) == [test |-> t, ok |-> outcome[t] = expected[t], odd |-> outcome[t] \notin ValidExits]

(* TestConfig.__init__ has started the logger; pmap.map has filled the queue. *)
Init ==
  /\ expected \in [Test -> ValidExits] /\ outcome \in [Test -> Status \cup {Raises}]
  /\ q = SetToSeq(Test) /\ unfinished = Cardinality(Test)
  /\ wstate = [w \in Worker |-> "unstarted"] /\ held = [w \in Worker |-> NoTest]
  /\ results = [w \in Worker |-> <<>>]
  /\ mstate = "starting" /\ report = [failed |-> {}, odd |-> {}]
  /\ logq = <<>> /\ lstate = "checking" /\ lheld = <<>> /\ log = <<>> /\ halt = FALSE

(* The workers' run loop. *)
GetTest(w) ==
  /\ wstate[w] = "getting" /\ q # <<>>
  /\ held' = [held EXCEPT ![w] = Head(q)] /\ q' = Tail(q)
  /\ wstate' = [wstate EXCEPT ![w] = "running"]
  /\ UNCHANGED <<unfinished, results, mainVars, logVars, inputs>>

GetNothing(w) ==
  /\ wstate[w] = "getting" /\ q = <<>>
  /\ wstate' = [wstate EXCEPT ![w] = "stopped"]
  /\ UNCHANGED <<q, unfinished, held, results, mainVars, logVars, inputs>>

(* run_test and log_test: the record is queued for the logger before the worker *)
(* keeps the result.                                                            *)
RunTest(w) ==
  /\ wstate[w] = "running" /\ outcome[held[w]] # Raises
  /\ logq' = Append(logq, [test |-> held[w], ok |-> Result(held[w]).ok])
  /\ wstate' = [wstate EXCEPT ![w] = "appending"]
  /\ UNCHANGED <<q, unfinished, held, results, mainVars, lstate, lheld, log, halt, inputs>>

(* A worker that reports its task done whatever happens. *)
RunTestRaisesDone(w) ==
  /\ wstate[w] = "running" /\ outcome[held[w]] = Raises
  /\ wstate' = [wstate EXCEPT ![w] = "dead"]
  /\ held' = [held EXCEPT ![w] = NoTest] /\ unfinished' = unfinished - 1
  /\ UNCHANGED <<q, results, mainVars, logVars, inputs>>

(* An exception other than Queue.Empty ends the thread, before its task_done. *)
RunTestRaises(w) ==
  /\ wstate[w] = "running" /\ outcome[held[w]] = Raises
  /\ wstate' = [wstate EXCEPT ![w] = "dead"]
  /\ UNCHANGED <<q, unfinished, held, results, mainVars, logVars, inputs>>

AppendResult(w) ==
  /\ wstate[w] = "appending"
  /\ results' = [results EXCEPT ![w] = Append(@, Result(held[w]))]
  /\ wstate' = [wstate EXCEPT ![w] = "finishing"]
  /\ UNCHANGED <<q, unfinished, held, mainVars, logVars, inputs>>

TaskDone(w) ==
  /\ wstate[w] = "finishing"
  /\ unfinished' = unfinished - 1
  /\ held' = [held EXCEPT ![w] = NoTest]
  /\ wstate' = [wstate EXCEPT ![w] = "getting"]
  /\ UNCHANGED <<q, results, mainVars, logVars, inputs>>

(* The main thread: pmap.map, then the rest of run_tests. *)
StartWorker(w) ==
  /\ mstate = "starting" /\ wstate[w] = "unstarted"
  /\ wstate' = [wstate EXCEPT ![w] = "getting"]
  /\ mstate' = IF \A v \in Worker \ {w} : wstate[v] # "unstarted" THEN "joining" ELSE "starting"
  /\ UNCHANGED <<q, unfinished, held, results, report, logVars, inputs>>

JoinWhenEmpty == q = <<>>   \* waiting for the queue to be empty instead
JoinReturns == unfinished = 0

Join ==
  /\ mstate = "joining" /\ JoinReturns /\ mstate' = "finalizing"
  /\ UNCHANGED <<workVars, report, logVars, inputs>>

HaltNothing == halt
HaltAfterFinalize == TRUE

Finalize ==
  /\ mstate = "finalizing" /\ mstate' = "reporting"
  /\ halt' = HaltAfterFinalize
  /\ UNCHANGED <<workVars, report, logq, lstate, lheld, log, inputs>>

Gathered == UNION {Range(results[w]) : w \in Worker}

Report ==
  /\ mstate = "reporting" /\ mstate' = "exited"
  /\ report' = [failed |-> {r.test : r \in {s \in Gathered : ~s.ok}},
                odd    |-> {r.test : r \in {s \in Gathered : ~s.ok /\ s.odd}}]
  /\ UNCHANGED <<workVars, logVars, inputs>>

(* The logger's run loop: halt is read, then a record waited for, then written. *)
LogCheck ==
  /\ lstate = "checking"
  /\ lstate' = IF halt THEN "stopped" ELSE "waiting"
  /\ UNCHANGED <<workVars, mainVars, logq, lheld, log, halt, inputs>>

LogGet ==
  /\ lstate = "waiting" /\ logq # <<>>
  /\ lheld' = <<Head(logq)>> /\ logq' = Tail(logq) /\ lstate' = "writing"
  /\ UNCHANGED <<workVars, mainVars, log, halt, inputs>>

(* get times out after a second, Queue.Empty is caught. *)
LogTimeout ==
  /\ lstate = "waiting" /\ logq = <<>> /\ lstate' = "checking"
  /\ UNCHANGED <<workVars, mainVars, logq, lheld, log, halt, inputs>>

(* A logger that gives up the record it holds when it is told to stop. *)
LogWrittenUnlessHalted == IF halt THEN log ELSE log \o lheld
LogWritten == log \o lheld

LogWrite ==
  /\ lstate = "writing"
  /\ log' = LogWritten /\ lheld' = <<>> /\ lstate' = "checking"
  /\ UNCHANGED <<workVars, mainVars, logq, halt, inputs>>

WorkerStep(w) == GetTest(w) \/ GetNothing(w) \/ RunTest(w) \/ RunTestRaises(w) \/ AppendResult(w) \/ TaskDone(w)
MainStep == (\E w \in Worker : StartWorker(w)) \/ Join \/ Finalize \/ Report
LogStep == LogCheck \/ LogGet \/ LogTimeout \/ LogWrite

Next == (\E w \in Worker : WorkerStep(w)) \/ MainStep \/ LogStep

(* Each thread is scheduled again and again: preemptive threads, and a test run ends. *)
Spec ==
  /\ Init /\ [][Next]_vars
  /\ \A w \in Worker : WF_vars(WorkerStep(w))
  /\ WF_vars(MainStep) /\ WF_vars(LogStep)
-----------------------------------------------------------------------------
AllRecords == log \o lheld \o logq
Dead == {w \in Worker : wstate[w] = "dead"}

(* The type invariant; unfinished counts exactly the tests whose task_done is to come. *)
TypeOK ==
  /\ expected \in [Test -> ValidExits] /\ outcome \in [Test -> Status \cup {Raises}]
  /\ Range(q) \subseteq Test
  /\ unfinished = Len(q) + Cardinality({w \in Worker : held[w] # NoTest})
  /\ held \in [Worker -> Test \cup {NoTest}]
  /\ wstate \in [Worker -> {"unstarted", "getting", "running", "appending", "finishing", "stopped", "dead"}]
  /\ mstate \in {"starting", "joining", "finalizing", "reporting", "exited"}
  /\ lstate \in {"checking", "waiting", "writing", "stopped"} /\ Len(lheld) \in 0..1 /\ halt \in BOOLEAN

(* The report names exactly the tests that did not end as their directory expects, *)
(* however the tests were spread over the workers.                                 *)
ReportIsComplete ==
  mstate = "exited" =>
    /\ report.failed = {t \in Test : outcome[t] # expected[t]}
    /\ report.odd = {t \in Test : outcome[t] # expected[t] /\ outcome[t] \notin ValidExits}

(* A result that a worker has kept has exactly one record, written, in the logger's *)
(* hands or still queued, with the verdict the report uses: the logger neither      *)
(* drops nor repeats one, even when it is halted while it holds it.                 *)
EveryResultHasARecord ==
  /\ \A i, j \in DOMAIN AllRecords : AllRecords[i].test = AllRecords[j].test => i = j
  /\ \A r \in Gathered : \E i \in DOMAIN AllRecords : AllRecords[i] = [test |-> r.test, ok |-> r.ok]

(* The log can end before the results do, but only by the records that were still *)
(* queued when the logger saw the halt of finalize: it never leaves while main      *)
(* waits for the tests.                                                             *)
LogEndsAfterTheTests ==
  (lstate = "stopped" /\ logq # <<>>) => (mstate \in {"reporting", "exited"} /\ unfinished = 0)

(* The run comes to its end, all threads stopped, unless a test raises: then the *)
(* worker that ran it is gone and q.join waits for a task_done nobody will give. *)
Finished ==
  mstate = "exited" /\ lstate = "stopped" /\ \A w \in Worker : wstate[w] = "stopped"
EndsUnlessATestRaises == <>(Finished \/ Dead # {})

(* A raising test takes the verdict on all the others with it. *)
NoReportAfterARaise == Dead # {} => mstate \in {"starting", "joining"}

(* The report of a test run and its log say of every test what became of it. *)
ReportsAreComplete ==
  ReportIsComplete /\ EveryResultHasARecord /\ LogEndsAfterTheTests /\ NoReportAfterARaise

-----------------------------------------------------------------------------
(***************************************************************************)
(* Safety, for every number of tests and of workers.                       *)
(***************************************************************************)
Verdict == {Result(t) : t \in Test}
Record(t) == [test |-> t, ok |-> Result(t).ok]
Entry == [test : Test, ok : BOOLEAN]
Busy == {w \in Worker : held[w] # NoTest}
AtWork == {"running", "appending", "finishing", "dead"}

Typed ==
  /\ expected \in [Test -> ValidExits] /\ outcome \in [Test -> Status \cup {Raises}]
  /\ q \in Seq(Test) /\ unfinished \in Nat
  /\ held \in [Worker -> Test \cup {NoTest}]
  /\ wstate \in [Worker -> {"unstarted", "getting", "running", "appending", "finishing", "stopped", "dead"}]
  /\ results \in [Worker -> Seq(Verdict)]
  /\ mstate \in {"starting", "joining", "finalizing", "reporting", "exited"}
  /\ lstate \in {"checking", "waiting", "writing", "stopped"} /\ halt \in BOOLEAN
  /\ logq \in Seq(Entry) /\ lheld \in Seq(Entry) /\ log \in Seq(Entry)
  /\ Len(lheld) \in 0..1 /\ (lstate # "writing" => lheld = <<>>)

\* A test is queued, in one worker's hands or done, and unfinished counts the first two.
TestsArePlaced ==
  /\ unfinished = Len(q) + Cardinality(Busy)
  /\ \A w \in Worker : held[w] # NoTest <=> wstate[w] \in AtWork
  /\ IsInjective(q) /\ \A w \in Worker : held[w] \notin Range(q)
  /\ \A v, w \in Worker : held[v] # NoTest /\ held[v] = held[w] => v = w
  /\ \A t \in Test : \/ t \in Range(q)
                     \/ \E w \in Worker : held[w] = t
                     \/ Result(t) \in Gathered
  /\ \A w \in Worker : wstate[w] = "finishing" => Result(held[w]) \in Gathered
  /\ mstate \in {"finalizing", "reporting", "exited"} => unfinished = 0

\* Only a test whose run is over has a record, and only one.
RecordsAreOwed ==
  /\ \A i, j \in DOMAIN AllRecords : AllRecords[i].test = AllRecords[j].test => i = j
  /\ \A a \in Range(AllRecords) :
       /\ a.test \notin Range(q)
       /\ \A w \in Worker : wstate[w] = "running" => held[w] # a.test
  /\ \A w \in Worker : wstate[w] = "appending" => Record(held[w]) \in Range(AllRecords)
  /\ \A t \in Test : Result(t) \in Gathered => Record(t) \in Range(AllRecords)

\* The logger stops only when told to, and is told only after the tests.
HaltIsLast ==
  /\ halt => mstate \in {"reporting", "exited"}
  /\ lstate = "stopped" => halt

RunnerInv == Typed /\ TestsArePlaced /\ RecordsAreOwed /\ HaltIsLast /\ ReportIsComplete

LEMMA RangeAppend ==
  ASSUME NEW S, NEW s \in Seq(S), NEW e \in S
  PROVE  Range(Append(s, e)) = Range(s) \cup {e}
<1>1. /\ DOMAIN Append(s, e) = 1..(Len(s) + 1) /\ DOMAIN s = 1..Len(s) /\ Len(s) \in Nat
      /\ \A i \in 1..Len(s) : Append(s, e)[i] = s[i]
      /\ Append(s, e)[Len(s) + 1] = e
  OBVIOUS
<1>2. ASSUME NEW i \in 1..(Len(s) + 1) PROVE i \in 1..Len(s) \/ i = Len(s) + 1
  BY <1>1
<1>3. 1..Len(s) \subseteq 1..(Len(s) + 1) /\ Len(s) + 1 \in 1..(Len(s) + 1)
  BY <1>1
<1> HIDE <1>3
<1>4. Range(Append(s, e)) \subseteq Range(s) \cup {e}
  <2> SUFFICES ASSUME NEW i \in 1..(Len(s) + 1) PROVE Append(s, e)[i] \in Range(s) \cup {e}
    BY <1>1 DEF Range
  <2> QED BY <1>1, <1>2 DEF Range
<1>5. Range(s) \cup {e} \subseteq Range(Append(s, e))
  <2>1. ASSUME NEW i \in 1..Len(s) PROVE s[i] \in Range(Append(s, e))
    BY <1>1, <1>3 DEF Range
  <2>2. e \in Range(Append(s, e))
    BY <1>1, <1>3 DEF Range
  <2> QED BY <2>1, <2>2, <1>1 DEF Range
<1> QED BY <1>4, <1>5

LEMMA TailOfInjection ==
  ASSUME NEW S, NEW s \in Seq(S), s # <<>>, IsInjective(s)
  PROVE  /\ Head(s) \in Range(s) /\ Range(Tail(s)) = Range(s) \ {Head(s)}
         /\ IsInjective(Tail(s)) /\ Tail(s) \in Seq(S) /\ Len(s) \in Nat \ {0}
         /\ Len(Tail(s)) = Len(s) - 1 /\ Head(s) \in S
<1>1. /\ Len(s) \in Nat \ {0} /\ DOMAIN s = 1..Len(s) /\ DOMAIN Tail(s) = 1..(Len(s) - 1)
      /\ Head(s) = s[1] /\ 1 \in 1..Len(s) /\ Head(s) \in S
      /\ Tail(s) \in Seq(S) /\ Len(Tail(s)) = Len(s) - 1
      /\ \A i \in 1..(Len(s) - 1) : Tail(s)[i] = s[i + 1] /\ i + 1 \in 1..Len(s)
  BY HeadTailProperties, EmptySeq
<1>2. ASSUME NEW i \in 1..Len(s) PROVE i = 1 \/ (i - 1 \in 1..(Len(s) - 1) /\ i = (i - 1) + 1)
  BY <1>1
<1>3. ASSUME NEW i \in 1..(Len(s) - 1), NEW j \in 1..(Len(s) - 1)
      PROVE  i + 1 # 1 /\ (i + 1 = j + 1 => i = j)
  BY <1>1
<1>4. IsInjective(Tail(s))
  BY <1>1, <1>3 DEF IsInjective
<1>5. Range(Tail(s)) \subseteq Range(s) \ {Head(s)}
  <2> SUFFICES ASSUME NEW i \in 1..(Len(s) - 1) PROVE Tail(s)[i] \in Range(s) \ {Head(s)}
    BY <1>1 DEF Range
  <2>1. s[i + 1] \in Range(s)
    BY <1>1 DEF Range
  <2>2. s[i + 1] # s[1]
    BY <1>1, <1>3 DEF IsInjective
  <2> QED BY <1>1, <2>1, <2>2
<1>6. Range(s) \ {Head(s)} \subseteq Range(Tail(s))
  <2> SUFFICES ASSUME NEW i \in 1..Len(s), s[i] # s[1] PROVE s[i] \in Range(Tail(s))
    BY <1>1 DEF Range
  <2>1. i - 1 \in 1..(Len(s) - 1) /\ s[i] = Tail(s)[i - 1]
    BY <1>1, <1>2
  <2> QED BY <2>1, <1>1 DEF Range
<1>7. Head(s) \in Range(s)
  BY <1>1 DEF Range
<1> QED BY <1>1, <1>4, <1>5, <1>6, <1>7

\* SetToSeq lists a finite set, each element once.
LEMMA SetToSeqLists ==
  ASSUME NEW S, IsFiniteSet(S)
  PROVE  /\ SetToSeq(S) \in Seq(S) /\ IsInjective(SetToSeq(S))
         /\ Len(SetToSeq(S)) = Cardinality(S) /\ Range(SetToSeq(S)) = S
<1> DEFINE n == Cardinality(S)
<1>1. n \in Nat /\ ExistsBijection(1..n, S)
  BY FS_CardinalityType
<1> HIDE DEF n
<1>2. PICK f \in [1..n -> S] : IsInjective(f)
  BY <1>1 DEF ExistsBijection, Bijection, Injection
<1>3. SetToSeq(S) \in [1..n -> S] /\ IsInjective(SetToSeq(S))
  BY <1>2 DEF SetToSeq, n
<1> DEFINE s == SetToSeq(S)
<1> HIDE DEF s
<1>4. s \in [1..n -> S] /\ IsInjective(s)
  BY <1>3 DEF s
<1>5. s \in Seq(S) /\ Len(s) = n
  BY <1>1, <1>4
<1>6. s \in Injection(1..n, S)
  BY <1>4 DEF Injection
<1>7. Cardinality(1..n) = n /\ IsFiniteSet(1..n)
  BY <1>1, FS_Interval
<1>8. s \in Surjection(1..n, S)
  BY <1>6, <1>7, FS_Injection DEF n
<1>9. Range(s) = S
  BY <1>4, <1>8 DEF Surjection, Range
<1> QED BY <1>4, <1>5, <1>9 DEF s, n

LEMMA BusyGrows ==
  ASSUME RunnerIsSized, Typed, NEW w \in Worker, held[w] = NoTest, NEW t \in Test,
         held' = [held EXCEPT ![w] = t]
  PROVE  Cardinality(Busy) \in Nat /\ Cardinality(Busy') = Cardinality(Busy) + 1
<1>1. IsFiniteSet(Busy) /\ Cardinality(Busy) \in Nat
  BY FS_Subset, FS_CardinalityType DEF RunnerIsSized, Busy
<1>2. Busy' = Busy \cup {w} /\ w \notin Busy
  BY DEF RunnerIsSized, Typed, Busy
<1> QED BY <1>1, <1>2, FS_AddElement

LEMMA BusyShrinks ==
  ASSUME RunnerIsSized, Typed, NEW w \in Worker, held[w] # NoTest,
         held' = [held EXCEPT ![w] = NoTest]
  PROVE  /\ Cardinality(Busy) \in Nat /\ Cardinality(Busy) > 0
         /\ Cardinality(Busy') = Cardinality(Busy) - 1
<1>1. IsFiniteSet(Busy) /\ Cardinality(Busy) \in Nat
  BY FS_Subset, FS_CardinalityType DEF RunnerIsSized, Busy
<1>2. Busy' = Busy \ {w} /\ w \in Busy
  BY DEF Typed, Busy
<1>3. Cardinality(Busy) # 0
  BY <1>1, <1>2, FS_EmptySet
<1>4. Cardinality(Busy \ {w}) = Cardinality(Busy) - 1
  BY <1>1, <1>2, FS_RemoveElement
<1> QED BY <1>1, <1>2, <1>3, <1>4

LEMMA GatheredGrows ==
  ASSUME Typed, NEW w \in Worker, NEW r \in Verdict,
         results' = [results EXCEPT ![w] = Append(@, r)]
  PROVE  Gathered' = Gathered \cup {r}
<1>1. Range(results'[w]) = Range(results[w]) \cup {r}
  <2>1. results'[w] = Append(results[w], r) /\ results[w] \in Seq(Verdict)
    BY DEF Typed
  <2> QED BY <2>1, RangeAppend
<1>2. \A v \in Worker : v # w => Range(results'[v]) = Range(results[v])
  BY DEF Typed
<1> DEFINE g == [v \in Worker |-> Range(results'[v])]
           k == [v \in Worker |-> Range(results[v])]
<1>3. g[w] = k[w] \cup {r} /\ \A v \in Worker : v # w => g[v] = k[v]
  BY <1>1, <1>2
<1>4. Gathered' = UNION {g[v] : v \in Worker} /\ Gathered = UNION {k[v] : v \in Worker}
  BY DEF Gathered
<1> HIDE DEF g, k
<1>5. UNION {g[v] : v \in Worker} = (UNION {k[v] : v \in Worker}) \cup {r}
  BY <1>3, Zenon
<1> QED BY <1>4, <1>5

LEMMA RecordsAppend ==
  ASSUME NEW S, NEW a \in Seq(S), NEW b \in Seq(S), NEW c \in Seq(S), NEW e \in S
  PROVE  a \o b \o Append(c, e) = Append(a \o b \o c, e) /\ a \o b \o c \in Seq(S)
  OBVIOUS

LEMMA RecordsShift ==
  ASSUME NEW S, NEW a \in Seq(S), NEW c \in Seq(S), c # <<>>
  PROVE  a \o <<Head(c)>> \o Tail(c) = a \o <<>> \o c
<1>1. <<Head(c)>> \o Tail(c) = c /\ <<Head(c)>> \in Seq(S) /\ Tail(c) \in Seq(S) /\ <<>> \in Seq(S)
  BY HeadTailProperties, EmptySeq
<1>2. a \o <<Head(c)>> \o Tail(c) = a \o (<<Head(c)>> \o Tail(c))
  BY <1>1, ConcatAssociative
<1> QED BY <1>1, <1>2, ConcatEmptySeq

LEMMA OneMore ==
  ASSUME NEW s \in Seq(Entry), NEW e \in Entry,
         \A i, j \in DOMAIN s : s[i].test = s[j].test => i = j,
         \A a \in Range(s) : a.test # e.test
  PROVE  \A i, j \in DOMAIN Append(s, e) : Append(s, e)[i].test = Append(s, e)[j].test => i = j
<1>1. /\ DOMAIN Append(s, e) = 1..(Len(s) + 1) /\ DOMAIN s = 1..Len(s) /\ Len(s) \in Nat
      /\ \A i \in 1..Len(s) : Append(s, e)[i] = s[i]
      /\ Append(s, e)[Len(s) + 1] = e
  OBVIOUS
<1>2. \A i \in 1..(Len(s) + 1) : i \in 1..Len(s) \/ i = Len(s) + 1
  BY <1>1
<1>3. \A i \in 1..Len(s) : s[i].test # e.test
  BY <1>1 DEF Range
<1> QED BY <1>1, <1>2, <1>3

LEMMA InputsFixed ==
  ASSUME UNCHANGED inputs
  PROVE  Verdict' = Verdict /\ \A t : Result(t)' = Result(t) /\ Record(t)' = Record(t)
  BY DEF inputs, Verdict, Record, Result

LEMMA TestsPair ==
  ASSUME NEW t, NEW u
  PROVE  Result(t) = Result(u) => t = u
  BY DEF Result

LEMMA RecordTyped ==
  ASSUME NEW t \in Test
  PROVE  /\ Record(t) \in Entry /\ Record(t).test = t /\ Record(t) = [test |-> t, ok |-> Result(t).ok]
         /\ Result(t) \in Verdict /\ Result(t).test = t
         /\ Result(t).ok = (outcome[t] = expected[t]) /\ Result(t).odd = (outcome[t] \notin ValidExits)
  BY DEF Record, Result, Entry, Verdict

\* A step of a worker that leaves queues and results alone.
LEMMA QueueFixed ==
  ASSUME UNCHANGED <<q, results, logVars, inputs>>
  PROVE  /\ Gathered' = Gathered /\ AllRecords' = AllRecords /\ Verdict' = Verdict
         /\ \A t : Result(t)' = Result(t) /\ Record(t)' = Record(t)
  BY InputsFixed DEF Gathered, AllRecords, logVars

LEMMA GetTestKeeps ==
  ASSUME RunnerIsSized, RunnerInv, NEW w \in Worker, GetTest(w)
  PROVE  RunnerInv'
<1> USE DEF RunnerInv
<1>1. /\ wstate[w] = "getting" /\ q # <<>> /\ held' = [held EXCEPT ![w] = Head(q)] /\ q' = Tail(q)
      /\ wstate' = [wstate EXCEPT ![w] = "running"]
      /\ UNCHANGED <<unfinished, results, mstate, report, logVars, inputs>>
  BY DEF GetTest, mainVars
<1>2. /\ Gathered' = Gathered /\ AllRecords' = AllRecords /\ Verdict' = Verdict
      /\ \A t : Result(t)' = Result(t) /\ Record(t)' = Record(t)
  BY <1>1, InputsFixed DEF Gathered, AllRecords, logVars
<1>3. /\ Head(q) \in Range(q) /\ Range(q') = Range(q) \ {Head(q)} /\ IsInjective(q') /\ q' \in Seq(Test)
      /\ Len(q) \in Nat \ {0} /\ Len(q') = Len(q) - 1 /\ Head(q) \in Test
  BY <1>1, TailOfInjection DEF Typed, TestsArePlaced
<1>4. held[w] = NoTest /\ Head(q) # NoTest
  BY <1>1, <1>3 DEF TestsArePlaced, AtWork, RunnerIsSized
<1>5. Typed'
  BY <1>1, <1>2, <1>3 DEF Typed, logVars, inputs
<1>6. TestsArePlaced'
  <2>1. (unfinished = Len(q) + Cardinality(Busy))'
    <3>1. Cardinality(Busy) \in Nat /\ Cardinality(Busy') = Cardinality(Busy) + 1
      BY <1>1, <1>3, <1>4, BusyGrows
    <3> QED BY <1>1, <1>3, <3>1 DEF TestsArePlaced
  <2>2. (\A v \in Worker : held[v] # NoTest <=> wstate[v] \in AtWork)'
    BY <1>1, <1>4 DEF Typed, TestsArePlaced, AtWork
  <2>3. (IsInjective(q) /\ \A v \in Worker : held[v] \notin Range(q))'
    BY <1>1, <1>3, <1>4 DEF Typed, TestsArePlaced
  <2>4. (\A u, v \in Worker : held[u] # NoTest /\ held[u] = held[v] => u = v)'
    BY <1>1, <1>3 DEF Typed, TestsArePlaced
  <2>5. (\A t \in Test : t \in Range(q) \/ (\E v \in Worker : held[v] = t) \/ Result(t) \in Gathered)'
    <3> SUFFICES ASSUME NEW t \in Test, t \notin Range(q)', Result(t) \notin Gathered
                 PROVE  \E v \in Worker : held'[v] = t
      BY <1>2
    <3>1. CASE t = Head(q)
      BY <3>1, <1>1 DEF Typed
    <3>2. CASE t # Head(q)
      <4>1. PICK v \in Worker : held[v] = t
        BY <3>2, <1>3 DEF TestsArePlaced
      <4>2. v # w
        BY <4>1, <1>4 DEF RunnerIsSized
      <4> QED BY <4>1, <4>2, <1>1 DEF Typed
    <3> QED BY <3>1, <3>2
  <2>6. (\A v \in Worker : wstate[v] = "finishing" => Result(held[v]) \in Gathered)'
    BY <1>1, <1>2 DEF Typed, TestsArePlaced
  <2>7. (mstate \in {"finalizing", "reporting", "exited"} => unfinished = 0)'
    BY <1>1 DEF TestsArePlaced
  <2> QED BY <2>1, <2>2, <2>3, <2>4, <2>5, <2>6, <2>7 DEF TestsArePlaced
<1>7. RecordsAreOwed'
  <2>1. \A a \in Range(AllRecords) : a.test \notin Range(q') /\ a.test # Head(q)
    BY <1>3 DEF RecordsAreOwed
  <2>2. (\A a \in Range(AllRecords) : /\ a.test \notin Range(q)
                                      /\ \A v \in Worker : wstate[v] = "running" => held[v] # a.test)'
    BY <2>1, <1>1, <1>2 DEF RecordsAreOwed, Typed
  <2>3. (\A v \in Worker : wstate[v] = "appending" => Record(held[v]) \in Range(AllRecords))'
    BY <1>1, <1>2 DEF RecordsAreOwed, Typed
  <2> QED BY <2>2, <2>3, <1>2 DEF RecordsAreOwed
<1>8. HaltIsLast' /\ ReportIsComplete'
  BY <1>1 DEF HaltIsLast, ReportIsComplete, logVars, inputs
<1> QED BY <1>5, <1>6, <1>7, <1>8

\* A worker that stops, dies or starts: it holds what it held.
LEMMA WorkerMoves ==
  ASSUME RunnerInv, NEW w \in Worker, NEW s \in {"getting", "stopped", "dead"},
         UNCHANGED <<q, unfinished, held, results, report, logVars, inputs>>,
         wstate[w] \in AtWork <=> s \in AtWork,
         wstate' = [wstate EXCEPT ![w] = s],
         mstate' \in {"starting", "joining", mstate},
         mstate' # mstate => mstate = "starting"
  PROVE  RunnerInv'
<1> USE DEF RunnerInv
<1>1. /\ Gathered' = Gathered /\ AllRecords' = AllRecords /\ Verdict' = Verdict
      /\ \A t : Result(t)' = Result(t) /\ Record(t)' = Record(t)
  BY QueueFixed
<1>2. Typed'
  BY <1>1 DEF Typed, logVars, inputs
<1>3. TestsArePlaced'
  <2>1. (\A v \in Worker : held[v] # NoTest <=> wstate[v] \in AtWork)'
    BY DEF Typed, TestsArePlaced
  <2>2. (\A v \in Worker : wstate[v] = "finishing" => Result(held[v]) \in Gathered)'
    BY <1>1 DEF Typed, TestsArePlaced
  <2>3. (\A t \in Test : t \in Range(q) \/ (\E v \in Worker : held[v] = t) \/ Result(t) \in Gathered)'
    BY <1>1 DEF TestsArePlaced
  <2>4. (unfinished = Len(q) + Cardinality(Busy))'
    BY DEF TestsArePlaced, Busy
  <2>5. (mstate \in {"finalizing", "reporting", "exited"} => unfinished = 0)'
    BY DEF TestsArePlaced
  <2> QED BY <2>1, <2>2, <2>3, <2>4, <2>5 DEF TestsArePlaced
<1>4. RecordsAreOwed'
  <2>1. (\A a \in Range(AllRecords) : /\ a.test \notin Range(q)
                                      /\ \A v \in Worker : wstate[v] = "running" => held[v] # a.test)'
    BY <1>1 DEF RecordsAreOwed, Typed
  <2>2. (\A v \in Worker : wstate[v] = "appending" => Record(held[v]) \in Range(AllRecords))'
    BY <1>1 DEF RecordsAreOwed, Typed
  <2> QED BY <2>1, <2>2, <1>1 DEF RecordsAreOwed
<1>5. HaltIsLast' /\ ReportIsComplete'
  BY DEF HaltIsLast, ReportIsComplete, logVars, inputs
<1> QED BY <1>2, <1>3, <1>4, <1>5

LEMMA RunTestKeeps ==
  ASSUME RunnerIsSized, RunnerInv, NEW w \in Worker, RunTest(w)
  PROVE  RunnerInv'
<1>1. /\ wstate[w] = "running" /\ logq' = Append(logq, Record(held[w]))
      /\ wstate' = [wstate EXCEPT ![w] = "appending"]
      /\ UNCHANGED <<q, unfinished, held, results, mstate, report, lstate, lheld, log, halt, inputs>>
  BY DEF RunTest, mainVars, Record
<1> USE DEF RunnerInv
<1>2. Gathered' = Gathered /\ Verdict' = Verdict /\ \A t : Result(t)' = Result(t) /\ Record(t)' = Record(t)
  BY <1>1, InputsFixed DEF Gathered
<1>3. held[w] # NoTest /\ held[w] \in Test
  BY <1>1 DEF TestsArePlaced, AtWork, Typed
<1>4. Record(held[w]) \in Entry /\ Record(held[w]).test = held[w]
  BY <1>3, RecordTyped
<1>5. AllRecords' = Append(AllRecords, Record(held[w])) /\ AllRecords \in Seq(Entry)
  <2>1. log \in Seq(Entry) /\ lheld \in Seq(Entry) /\ logq \in Seq(Entry)
    BY DEF Typed
  <2>2. log' = log /\ lheld' = lheld /\ logq' = Append(logq, Record(held[w]))
    BY <1>1
  <2>3. AllRecords' = log \o lheld \o Append(logq, Record(held[w]))
    BY <2>2 DEF AllRecords
  <2>4. \A e \in Entry : /\ log \o lheld \o Append(logq, e) = Append(log \o lheld \o logq, e)
                         /\ log \o lheld \o logq \in Seq(Entry)
    BY <2>1, RecordsAppend
  <2> QED BY <2>3, <2>4, <1>4 DEF AllRecords
<1>6. Range(AllRecords') = Range(AllRecords) \cup {Record(held[w])}
  BY <1>4, <1>5, RangeAppend
<1>7. Typed'
  <2>1. logq' \in Seq(Entry)
    BY <1>1, <1>4 DEF Typed
  <2> QED BY <1>1, <1>2, <2>1 DEF Typed, inputs
<1>8. TestsArePlaced'
  <2>1. (\A v \in Worker : held[v] # NoTest <=> wstate[v] \in AtWork)'
    BY <1>1 DEF Typed, TestsArePlaced, AtWork
  <2>2. (\A v \in Worker : wstate[v] = "finishing" => Result(held[v]) \in Gathered)'
    BY <1>1, <1>2 DEF Typed, TestsArePlaced
  <2>3. (\A t \in Test : t \in Range(q) \/ (\E v \in Worker : held[v] = t) \/ Result(t) \in Gathered)'
    BY <1>1, <1>2 DEF TestsArePlaced
  <2>4. (unfinished = Len(q) + Cardinality(Busy))'
    BY <1>1 DEF TestsArePlaced, Busy
  <2> QED BY <1>1, <2>1, <2>2, <2>3, <2>4 DEF TestsArePlaced
<1>9. RecordsAreOwed'
  <2>1. (\A i, j \in DOMAIN AllRecords : AllRecords[i].test = AllRecords[j].test => i = j)'
    <3>1. \A a \in Range(AllRecords) : a.test # Record(held[w]).test
      BY <1>1, <1>4 DEF RecordsAreOwed
    <3> HIDE DEF Entry
    <3> QED BY <3>1, <1>4, <1>5, OneMore DEF RecordsAreOwed
  <2>2. (\A a \in Range(AllRecords) : /\ a.test \notin Range(q)
                                      /\ \A v \in Worker : wstate[v] = "running" => held[v] # a.test)'
    <3>1. held[w] \notin Range(q) /\ \A v \in Worker : v # w => held[v] # held[w]
      BY <1>3 DEF TestsArePlaced
    <3>2. ASSUME NEW a \in Range(AllRecords')
          PROVE  /\ a.test \notin Range(q)
                 /\ \A v \in Worker : wstate'[v] = "running" => held[v] # a.test
      <4>1. CASE a = Record(held[w])
        BY <4>1, <3>1, <1>1, <1>4 DEF Typed
      <4>2. CASE a \in Range(AllRecords)
        BY <4>2, <1>1 DEF RecordsAreOwed, Typed
      <4> QED BY <4>1, <4>2, <1>6
    <3> QED BY <3>2, <1>1
  <2>3. (\A v \in Worker : wstate[v] = "appending" => Record(held[v]) \in Range(AllRecords))'
    BY <1>1, <1>2, <1>6 DEF RecordsAreOwed, Typed
  <2>4. (\A t \in Test : Result(t) \in Gathered => Record(t) \in Range(AllRecords))'
    BY <1>2, <1>6 DEF RecordsAreOwed
  <2> QED BY <2>1, <2>2, <2>3, <2>4 DEF RecordsAreOwed
<1>10. HaltIsLast' /\ ReportIsComplete'
  BY <1>1 DEF HaltIsLast, ReportIsComplete, inputs
<1> QED BY <1>7, <1>8, <1>9, <1>10

LEMMA AppendResultKeeps ==
  ASSUME RunnerIsSized, RunnerInv, NEW w \in Worker, AppendResult(w)
  PROVE  RunnerInv'
<1> USE DEF RunnerInv
<1>1. /\ wstate[w] = "appending"
      /\ results' = [results EXCEPT ![w] = Append(@, Result(held[w]))]
      /\ wstate' = [wstate EXCEPT ![w] = "finishing"]
      /\ UNCHANGED <<q, unfinished, held, mstate, report, logVars, inputs>>
  BY DEF AppendResult, mainVars
<1>2. /\ AllRecords' = AllRecords /\ Verdict' = Verdict
      /\ \A t : Result(t)' = Result(t) /\ Record(t)' = Record(t)
  BY <1>1, InputsFixed DEF AllRecords, logVars
<1>3. held[w] # NoTest /\ held[w] \in Test /\ Result(held[w]) \in Verdict
  BY <1>1, RecordTyped DEF TestsArePlaced, AtWork, Typed
<1>4. Gathered' = Gathered \cup {Result(held[w])}
  BY <1>1, <1>3, GatheredGrows
<1>5. Typed'
  <2>1. results' \in [Worker -> Seq(Verdict)]
    BY <1>1, <1>3 DEF Typed
  <2> QED BY <1>1, <1>2, <2>1 DEF Typed, logVars, inputs
<1>6. TestsArePlaced'
  <2>1. (\A v \in Worker : held[v] # NoTest <=> wstate[v] \in AtWork)'
    BY <1>1 DEF Typed, TestsArePlaced, AtWork
  <2>2. (\A v \in Worker : wstate[v] = "finishing" => Result(held[v]) \in Gathered)'
    BY <1>1, <1>2, <1>4 DEF Typed, TestsArePlaced
  <2>3. (\A t \in Test : t \in Range(q) \/ (\E v \in Worker : held[v] = t) \/ Result(t) \in Gathered)'
    BY <1>1, <1>2, <1>4 DEF TestsArePlaced
  <2>4. (unfinished = Len(q) + Cardinality(Busy))'
    BY <1>1 DEF TestsArePlaced, Busy
  <2> QED BY <1>1, <2>1, <2>2, <2>3, <2>4 DEF TestsArePlaced
<1>7. RecordsAreOwed'
  <2>1. (\A a \in Range(AllRecords) : /\ a.test \notin Range(q)
                                      /\ \A v \in Worker : wstate[v] = "running" => held[v] # a.test)'
    BY <1>1, <1>2 DEF RecordsAreOwed, Typed
  <2>2. (\A v \in Worker : wstate[v] = "appending" => Record(held[v]) \in Range(AllRecords))'
    BY <1>1, <1>2 DEF RecordsAreOwed, Typed
  <2>3. (\A t \in Test : Result(t) \in Gathered => Record(t) \in Range(AllRecords))'
    <3> SUFFICES ASSUME NEW t \in Test, Result(t) \in Gathered' PROVE Record(t) \in Range(AllRecords)
      BY <1>2
    <3>1. CASE Result(t) = Result(held[w])
      BY <3>1, <1>1, TestsPair DEF RecordsAreOwed
    <3> QED BY <3>1, <1>4 DEF RecordsAreOwed
  <2> QED BY <1>2, <2>1, <2>2, <2>3 DEF RecordsAreOwed
<1>8. HaltIsLast' /\ ReportIsComplete'
  BY <1>1 DEF HaltIsLast, ReportIsComplete, logVars, inputs
<1> QED BY <1>5, <1>6, <1>7, <1>8

LEMMA TaskDoneKeeps ==
  ASSUME RunnerIsSized, RunnerInv, NEW w \in Worker, TaskDone(w)
  PROVE  RunnerInv'
<1> USE DEF RunnerInv
<1>1. /\ wstate[w] = "finishing" /\ unfinished' = unfinished - 1
      /\ held' = [held EXCEPT ![w] = NoTest] /\ wstate' = [wstate EXCEPT ![w] = "getting"]
      /\ UNCHANGED <<q, results, mstate, report, logVars, inputs>>
  BY DEF TaskDone, mainVars
<1>2. /\ Gathered' = Gathered /\ AllRecords' = AllRecords /\ Verdict' = Verdict
      /\ \A t : Result(t)' = Result(t) /\ Record(t)' = Record(t)
  BY <1>1, QueueFixed
<1>3. held[w] # NoTest /\ held[w] \in Test /\ Result(held[w]) \in Gathered
  BY <1>1 DEF TestsArePlaced, AtWork, Typed
<1>4. /\ Cardinality(Busy) \in Nat /\ Cardinality(Busy) > 0
      /\ Cardinality(Busy') = Cardinality(Busy) - 1
  BY <1>1, <1>3, BusyShrinks
<1>5. Typed'
  <2>1. unfinished' \in Nat
    BY <1>1, <1>4 DEF Typed, TestsArePlaced
  <2> QED BY <1>1, <1>2, <2>1 DEF Typed, logVars, inputs
<1>6. TestsArePlaced'
  <2>1. (unfinished = Len(q) + Cardinality(Busy))'
    BY <1>1, <1>4 DEF TestsArePlaced, Typed
  <2>2. (\A v \in Worker : held[v] # NoTest <=> wstate[v] \in AtWork)'
    BY <1>1 DEF Typed, TestsArePlaced, AtWork
  <2>3. (IsInjective(q) /\ \A v \in Worker : held[v] \notin Range(q))'
    <3>1. NoTest \notin Range(q)
      <4>1. Range(q) \subseteq Test
        BY RangeOfSeq DEF Typed
      <4> QED BY <4>1 DEF RunnerIsSized
    <3> QED BY <3>1, <1>1 DEF Typed, TestsArePlaced
  <2>4. (\A u, v \in Worker : held[u] # NoTest /\ held[u] = held[v] => u = v)'
    BY <1>1 DEF Typed, TestsArePlaced
  <2>5. (\A t \in Test : t \in Range(q) \/ (\E v \in Worker : held[v] = t) \/ Result(t) \in Gathered)'
    <3> SUFFICES ASSUME NEW t \in Test, t \notin Range(q), Result(t) \notin Gathered
                 PROVE  \E v \in Worker : held'[v] = t
      BY <1>1, <1>2
    <3>1. PICK v \in Worker : held[v] = t
      BY DEF TestsArePlaced
    <3>2. v # w
      BY <3>1, <1>3
    <3> QED BY <3>1, <3>2, <1>1 DEF Typed
  <2>6. (\A v \in Worker : wstate[v] = "finishing" => Result(held[v]) \in Gathered)'
    BY <1>1, <1>2 DEF Typed, TestsArePlaced
  <2>7. (mstate \in {"finalizing", "reporting", "exited"} => unfinished = 0)'
    BY <1>1, <1>4 DEF TestsArePlaced, Typed
  <2> QED BY <2>1, <2>2, <2>3, <2>4, <2>5, <2>6, <2>7 DEF TestsArePlaced
<1>7. RecordsAreOwed'
  <2>1. (\A a \in Range(AllRecords) : /\ a.test \notin Range(q)
                                      /\ \A v \in Worker : wstate[v] = "running" => held[v] # a.test)'
    BY <1>1, <1>2 DEF RecordsAreOwed, Typed
  <2>2. (\A v \in Worker : wstate[v] = "appending" => Record(held[v]) \in Range(AllRecords))'
    BY <1>1, <1>2 DEF RecordsAreOwed, Typed
  <2> QED BY <2>1, <2>2, <1>2 DEF RecordsAreOwed
<1>8. HaltIsLast' /\ ReportIsComplete'
  BY <1>1 DEF HaltIsLast, ReportIsComplete, logVars, inputs
<1> QED BY <1>5, <1>6, <1>7, <1>8

\* Once unfinished is zero, every test has its result with a worker.
LEMMA AllIsGathered ==
  ASSUME RunnerIsSized, Typed, TestsArePlaced, unfinished = 0
  PROVE  Gathered = Verdict /\ Busy = {}
<1>1. IsFiniteSet(Busy) /\ Cardinality(Busy) \in Nat
  BY FS_Subset, FS_CardinalityType DEF RunnerIsSized, Busy
<1>2. Len(q) \in Nat /\ Len(q) = 0 /\ Cardinality(Busy) = 0
  <2>1. Len(q) \in Nat
    BY DEF Typed
  <2> QED BY <2>1, <1>1 DEF TestsArePlaced
<1>3. q = <<>> /\ Busy = {}
  BY <1>1, <1>2, FS_EmptySet, EmptySeq DEF Typed
<1>4. Range(q) = {}
  BY <1>3 DEF Range
<1>5. \A w \in Worker : held[w] \notin Test
  BY <1>3 DEF Busy, RunnerIsSized
<1>6. Verdict \subseteq Gathered
  BY <1>4, <1>5 DEF TestsArePlaced, Verdict
<1>7. Gathered \subseteq Verdict
  BY RangeOfSeq DEF Gathered, Typed
<1> QED BY <1>3, <1>6, <1>7

\* The steps of main after the start, and those of the logger.
LEMMA MainKeeps ==
  ASSUME RunnerIsSized, RunnerInv, Join \/ Finalize \/ Report
  PROVE  RunnerInv'
<1> USE DEF RunnerInv
<1>1. UNCHANGED <<workVars, logq, lstate, lheld, log, inputs>>
  BY DEF Join, Finalize, Report, logVars
<1>2. /\ Gathered' = Gathered /\ AllRecords' = AllRecords /\ Verdict' = Verdict
      /\ \A t : Result(t)' = Result(t) /\ Record(t)' = Record(t)
  BY <1>1, InputsFixed DEF Gathered, AllRecords, workVars
<1>3. Typed'
  <2>1. halt' \in BOOLEAN /\ mstate' \in {"finalizing", "reporting", "exited"}
    BY DEF Join, Finalize, Report, logVars, Typed, HaltAfterFinalize
  <2> QED BY <1>1, <1>2, <2>1 DEF Typed, workVars, inputs
<1>4. TestsArePlaced'
  <2>1. unfinished = 0
    BY DEF Join, Finalize, Report, TestsArePlaced, JoinReturns
  <2>2. (\A t \in Test : t \in Range(q) \/ (\E v \in Worker : held[v] = t) \/ Result(t) \in Gathered)'
    BY <1>1, <1>2 DEF TestsArePlaced, workVars
  <2>3. (\A v \in Worker : wstate[v] = "finishing" => Result(held[v]) \in Gathered)'
    BY <1>1, <1>2 DEF TestsArePlaced, workVars
  <2>4. (unfinished = Len(q) + Cardinality(Busy))'
    BY <1>1 DEF TestsArePlaced, Busy, workVars
  <2> QED BY <1>1, <2>1, <2>2, <2>3, <2>4 DEF TestsArePlaced, workVars
<1>5. RecordsAreOwed'
  <2>1. (\A a \in Range(AllRecords) : /\ a.test \notin Range(q)
                                      /\ \A v \in Worker : wstate[v] = "running" => held[v] # a.test)'
    BY <1>1, <1>2 DEF RecordsAreOwed, workVars
  <2>2. (\A v \in Worker : wstate[v] = "appending" => Record(held[v]) \in Range(AllRecords))'
    BY <1>1, <1>2 DEF RecordsAreOwed, workVars
  <2> QED BY <2>1, <2>2, <1>2 DEF RecordsAreOwed
<1>6. HaltIsLast'
  BY DEF Join, Finalize, Report, HaltIsLast, logVars
<1>7. ReportIsComplete'
  <2>1. CASE Report
    <3>1. Gathered = Verdict
      BY <2>1, AllIsGathered DEF Report, TestsArePlaced
    <3>2. /\ {r.test : r \in {s \in Verdict : ~s.ok}} = {t \in Test : outcome[t] # expected[t]}
          /\ {r.test : r \in {s \in Verdict : ~s.ok /\ s.odd}}
               = {t \in Test : outcome[t] # expected[t] /\ outcome[t] \notin ValidExits}
      <4>1. \A r \in Verdict : \E t \in Test : r = Result(t)
        BY DEF Verdict
      <4>2. \A t \in Test : /\ Result(t) \in Verdict /\ Result(t).test = t
                            /\ Result(t).ok = (outcome[t] = expected[t])
                            /\ Result(t).odd = (outcome[t] \notin ValidExits)
        BY RecordTyped
      <4> HIDE DEF Verdict
      <4>3. ASSUME NEW t \in Test
            PROVE  /\ outcome[t] # expected[t] => t \in {r.test : r \in {s \in Verdict : ~s.ok}}
                   /\ outcome[t] # expected[t] /\ outcome[t] \notin ValidExits
                        => t \in {r.test : r \in {s \in Verdict : ~s.ok /\ s.odd}}
        <5>1. Result(t) \in Verdict /\ Result(t).test = t
          BY <4>2
        <5>2. outcome[t] # expected[t] => Result(t) \in {s \in Verdict : ~s.ok}
          BY <4>2
        <5>3. outcome[t] # expected[t] /\ outcome[t] \notin ValidExits
                => Result(t) \in {s \in Verdict : ~s.ok /\ s.odd}
          BY <4>2
        <5> QED BY <5>1, <5>2, <5>3
      <4>4. \A r \in Verdict : /\ r.test \in Test /\ r.ok = (outcome[r.test] = expected[r.test])
                              /\ r.odd = (outcome[r.test] \notin ValidExits)
        BY <4>1, <4>2
      <4> QED BY <4>3, <4>4
    <3>3. /\ report'.failed = {r.test : r \in {s \in Gathered : ~s.ok}}
          /\ report'.odd = {r.test : r \in {s \in Gathered : ~s.ok /\ s.odd}}
      BY <2>1 DEF Report
    <3> QED BY <3>1, <3>2, <3>3, <1>1 DEF ReportIsComplete, inputs
  <2>2. CASE Join \/ Finalize
    BY <2>2 DEF Join, Finalize, ReportIsComplete
  <2> QED BY <2>1, <2>2
<1> QED BY <1>3, <1>4, <1>5, <1>6, <1>7

LEMMA LogKeeps ==
  ASSUME RunnerInv, LogStep
  PROVE  RunnerInv'
<1> USE DEF RunnerInv
<1>1. UNCHANGED <<workVars, mainVars, halt, inputs>>
  BY DEF LogStep, LogCheck, LogGet, LogTimeout, LogWrite
<1>2. /\ Gathered' = Gathered /\ Verdict' = Verdict
      /\ \A t : Result(t)' = Result(t) /\ Record(t)' = Record(t)
  BY <1>1, InputsFixed DEF Gathered, workVars
<1>3. /\ AllRecords' = AllRecords
      /\ logq' \in Seq(Entry) /\ lheld' \in Seq(Entry) /\ log' \in Seq(Entry)
      /\ Len(lheld') \in 0..1 /\ (lstate' # "writing" => lheld' = <<>>)
      /\ lstate' \in {"checking", "waiting", "writing", "stopped"}
      /\ (lstate' = "stopped" => halt)
  <2>1. CASE LogCheck
    BY <2>1 DEF LogCheck, AllRecords, Typed, HaltIsLast
  <2>2. CASE LogGet
    <3>1. Head(logq) \in Entry /\ Tail(logq) \in Seq(Entry)
      BY <2>2, HeadTailProperties DEF LogGet, Typed
    <3>2. AllRecords' = AllRecords
      <4>1. lheld = <<>> /\ lheld' = <<Head(logq)>> /\ logq' = Tail(logq) /\ log' = log /\ logq # <<>>
        BY <2>2 DEF LogGet, Typed
      <4> HIDE DEF Entry
      <4> QED BY <4>1, RecordsShift DEF AllRecords, Typed
    <3>3. lheld' \in Seq(Entry) /\ Len(lheld') = 1
      BY <2>2, <3>1 DEF LogGet
    <3> QED BY <2>2, <3>1, <3>2, <3>3 DEF LogGet, Typed, HaltIsLast
  <2>3. CASE LogTimeout
    BY <2>3 DEF LogTimeout, AllRecords, Typed, HaltIsLast
  <2>4. CASE LogWrite
    <3>1. log' = log \o lheld /\ lheld' = <<>> /\ lstate' = "checking" /\ logq' = logq
      BY <2>4 DEF LogWrite, LogWritten
    <3>2. log \o lheld \in Seq(Entry) /\ (log \o lheld) \o <<>> = log \o lheld
      BY ConcatProperties, ConcatEmptySeq DEF Typed
    <3> QED BY <3>1, <3>2, EmptySeq DEF AllRecords, Typed
  <2> QED BY <2>1, <2>2, <2>3, <2>4 DEF LogStep
<1>4. Typed'
  BY <1>1, <1>2, <1>3 DEF Typed, workVars, mainVars, inputs
<1>5. TestsArePlaced'
  <2>1. (\A t \in Test : t \in Range(q) \/ (\E v \in Worker : held[v] = t) \/ Result(t) \in Gathered)'
    BY <1>1, <1>2 DEF TestsArePlaced, workVars
  <2>2. (\A v \in Worker : wstate[v] = "finishing" => Result(held[v]) \in Gathered)'
    BY <1>1, <1>2 DEF TestsArePlaced, workVars
  <2>3. (unfinished = Len(q) + Cardinality(Busy))'
    BY <1>1 DEF TestsArePlaced, Busy, workVars
  <2> QED BY <1>1, <2>1, <2>2, <2>3 DEF TestsArePlaced, workVars, mainVars
<1>6. RecordsAreOwed'
  <2>1. (\A a \in Range(AllRecords) : /\ a.test \notin Range(q)
                                      /\ \A v \in Worker : wstate[v] = "running" => held[v] # a.test)'
    BY <1>1, <1>3 DEF RecordsAreOwed, workVars
  <2>2. (\A v \in Worker : wstate[v] = "appending" => Record(held[v]) \in Range(AllRecords))'
    BY <1>1, <1>2, <1>3 DEF RecordsAreOwed, workVars
  <2> QED BY <1>2, <1>3, <2>1, <2>2 DEF RecordsAreOwed
<1>7. HaltIsLast' /\ ReportIsComplete'
  BY <1>1, <1>3 DEF HaltIsLast, ReportIsComplete, mainVars, inputs
<1> QED BY <1>4, <1>5, <1>6, <1>7

LEMMA RunnerInit ==
  ASSUME RunnerIsSized, Init
  PROVE  RunnerInv
<1>1. /\ q \in Seq(Test) /\ IsInjective(q) /\ Len(q) = Cardinality(Test) /\ Range(q) = Test
      /\ Cardinality(Test) \in Nat
  BY SetToSeqLists, FS_CardinalityType DEF Init, RunnerIsSized
<1>2. Gathered = {}
  <2>1. \A w \in Worker : Range(results[w]) = {}
    BY DEF Init, Range
  <2> QED BY <2>1 DEF Gathered
<1>3. DOMAIN AllRecords = {} /\ Range(AllRecords) = {}
  <2>1. AllRecords = <<>>
    BY DEF Init, AllRecords
  <2> QED BY <2>1 DEF Range
<1>4. Busy = {} /\ Cardinality(Busy) = 0
  <2>1. Busy = {}
    BY DEF Init, Busy
  <2> QED BY <2>1, FS_EmptySet
<1>5. Typed
  <2>1. \A S : <<>> \in Seq(S) /\ Len(<<>>) = 0
    BY EmptySeq
  <2>2. lheld = <<>> /\ logq = <<>> /\ log = <<>> /\ unfinished = Cardinality(Test)
    BY DEF Init
  <2>3. results \in [Worker -> Seq(Verdict)]
    BY <2>1 DEF Init
  <2>4. /\ logq \in Seq(Entry) /\ lheld \in Seq(Entry) /\ log \in Seq(Entry)
        /\ Len(lheld) \in 0..1 /\ unfinished \in Nat
    BY <1>1, <2>1, <2>2
  <2> QED BY <1>1, <2>2, <2>3, <2>4 DEF Init, Typed
<1>6. TestsArePlaced
  BY <1>1, <1>4 DEF Init, TestsArePlaced, AtWork, RunnerIsSized
<1>7. RecordsAreOwed
  BY <1>2, <1>3 DEF RecordsAreOwed, Init
<1> QED BY <1>5, <1>6, <1>7 DEF RunnerInv, Init, HaltIsLast, ReportIsComplete

LEMMA RunnerStep ==
  ASSUME RunnerIsSized, RunnerInv, [Next]_vars
  PROVE  RunnerInv'
<1>1. ASSUME NEW w \in Worker, GetNothing(w)
      PROVE  RunnerInv'
  <2>1. mstate' \in {"starting", "joining", mstate} /\ (mstate' # mstate => mstate = "starting")
    BY <1>1 DEF GetNothing, mainVars
  <2> QED BY <1>1, <2>1, WorkerMoves DEF GetNothing, mainVars, AtWork
<1>2. ASSUME NEW w \in Worker, RunTestRaises(w)
      PROVE  RunnerInv'
  <2>1. mstate' \in {"starting", "joining", mstate} /\ (mstate' # mstate => mstate = "starting")
    BY <1>2 DEF RunTestRaises, mainVars
  <2> QED BY <1>2, <2>1, WorkerMoves DEF RunTestRaises, mainVars, AtWork
<1>3. ASSUME NEW w \in Worker, StartWorker(w)
      PROVE  RunnerInv'
  <2>1. mstate' \in {"starting", "joining", mstate} /\ (mstate' # mstate => mstate = "starting")
    BY <1>3 DEF StartWorker
  <2> QED BY <1>3, <2>1, WorkerMoves DEF StartWorker, AtWork
<1>4. CASE UNCHANGED vars
  <2>1. /\ Gathered' = Gathered /\ AllRecords' = AllRecords /\ Verdict' = Verdict
        /\ \A t : Result(t)' = Result(t) /\ Record(t)' = Record(t)
    BY <1>4, QueueFixed DEF vars, logVars, inputs
  <2> QED BY <1>4, <2>1 DEF vars, RunnerInv, Typed, TestsArePlaced, Busy, RecordsAreOwed, HaltIsLast,
                              ReportIsComplete
<1> QED BY <1>1, <1>2, <1>3, <1>4, GetTestKeeps, RunTestKeeps, AppendResultKeeps, TaskDoneKeeps,
           MainKeeps, LogKeeps DEF Next, WorkerStep, MainStep

\* While a worker is gone with its test, q.join keeps waiting (pmap.py: no task_done on that path).
LEMMA RunnerSafe ==
  ASSUME RunnerIsSized, RunnerInv
  PROVE  TypeOK /\ ReportIsComplete /\ EveryResultHasARecord /\ LogEndsAfterTheTests /\ NoReportAfterARaise
<1> USE DEF RunnerInv
<1>1. TypeOK
  <2>1. Range(q) \subseteq Test
    BY RangeOfSeq DEF Typed
  <2>2. unfinished = Len(q) + Cardinality({w \in Worker : held[w] # NoTest})
    BY DEF TestsArePlaced, Busy
  <2> QED BY <2>1, <2>2 DEF TypeOK, Typed
<1>2. EveryResultHasARecord
  <2> SUFFICES ASSUME NEW r \in Gathered
               PROVE  \E i \in DOMAIN AllRecords : AllRecords[i] = [test |-> r.test, ok |-> r.ok]
    BY DEF EveryResultHasARecord, RecordsAreOwed
  <2>1. r \in Verdict
    BY RangeOfSeq DEF Gathered, Typed
  <2>2. PICK t \in Test : r = Result(t)
    BY <2>1 DEF Verdict
  <2>3. Record(t) \in Range(AllRecords) /\ Record(t) = [test |-> r.test, ok |-> r.ok]
    BY <2>2, RecordTyped DEF RecordsAreOwed
  <2> QED BY <2>3 DEF Range
<1>3. LogEndsAfterTheTests
  BY DEF LogEndsAfterTheTests, HaltIsLast, TestsArePlaced
<1>4. NoReportAfterARaise
  <2> SUFFICES ASSUME NEW w \in Worker, wstate[w] = "dead", unfinished = 0 PROVE FALSE
    BY DEF NoReportAfterARaise, Dead, TestsArePlaced, Typed
  <2>1. w \in Busy
    BY DEF TestsArePlaced, AtWork, Busy
  <2> QED BY <2>1, AllIsGathered
<1> QED BY <1>1, <1>2, <1>3, <1>4

(***************************************************************************)
(* The report names exactly the tests that did not end as expected, every  *)
(* kept result has one record, the logger outlives the tests and nothing   *)
(* is reported after a raise (run_tests, pmap.map, LogTestResults.run),    *)
(* for any tests on any number of workers, whatever each test does.        *)
(***************************************************************************)
THEOREM ReportsStayComplete ==
  ASSUME RunnerIsSized
  PROVE  Spec => [](TypeOK /\ ReportsAreComplete)
<1>1. Init => RunnerInv
  BY RunnerInit
<1>2. RunnerInv /\ [Next]_vars => RunnerInv'
  BY RunnerStep
<1>3. RunnerInv => TypeOK /\ ReportsAreComplete
  BY RunnerSafe DEF ReportsAreComplete
<1> QED BY <1>1, <1>2, <1>3, PTL DEF Spec
=============================================================================
