------------------------------ MODULE Gc_proofs ------------------------------
(***************************************************************************)
(* The collector, for every size of its heaps and tables and every         *)
(* setting.  The order of its work (GcControl): what Gc.counters returns   *)
(* is exact in the middle of any operation; the minor collector, the major *)
(* one and the compacter take turns; the sizes keep to their limits; and a *)
(* request for a slice is dropped only when it has been served.  The table *)
(* of young pointers (RefTable): it forgets no field.  And the heaps of    *)
(* the run (MCGc), by the invariant of GcHeap.                             *)
(***************************************************************************)
EXTENDS MCGc, RefTable, SequenceTheorems, TLAPS

(* ----------------------- The order of the collector ---------------------- *)
Ops == {"collect", "empty", "slice", "account", "finish", "maybe", "test", "compact", "unforce",
        "final", "ended"}
\* An allocation that waits for room is a small one, a new size at least the smallest.
Work == {w \in [op : Ops \cup {"young", "resize"}, size : Nat] :
           /\ w.op = "young" => w.size <= MaxYoung
           /\ w.op = "resize" => MinorMin <= w.size * WordSize}
Stats == [minor : Nat, promoted : Nat, major : Nat, minors : Nat, majors : Nat, compactions : Nat]
Done == [minor : Nat, promoted : Nat, direct : Nat, calls : Nat, finals : Nat]
\* The numbers the counts are made of, and what is left to do.
Amounts == /\ young \in Nat /\ allocated \in Nat /\ minorSize \in Nat /\ todo \in Seq(Work)
Counts == stat \in Stats /\ did \in Done
Exact == /\ stat.minor + young = did.minor
         /\ stat.major + allocated = did.direct + did.promoted
CountInv == Amounts /\ Counts /\ Exact

(* ---------------------------- Records of counts -------------------------- *)
LEMMA DoneMinor == ASSUME NEW d \in Done, NEW n \in Nat, NEW e, e = [d EXCEPT !.minor = @ + n]
                   PROVE  e \in Done /\ e.minor = d.minor + n /\ e.direct = d.direct /\ e.promoted = d.promoted
BY DEF Done
LEMMA DoneDirect == ASSUME NEW d \in Done, NEW n \in Nat, NEW e, e = [d EXCEPT !.direct = @ + n]
                    PROVE  e \in Done /\ e.direct = d.direct + n /\ e.minor = d.minor /\ e.promoted = d.promoted
BY DEF Done
LEMMA DonePromoted == ASSUME NEW d \in Done, NEW n \in Nat, NEW e, e = [d EXCEPT !.promoted = @ + n]
                      PROVE  e \in Done /\ e.promoted = d.promoted + n /\ e.minor = d.minor /\ e.direct = d.direct
BY DEF Done
LEMMA DoneCalls == ASSUME NEW d \in Done, NEW e, e = [d EXCEPT !.calls = @ + 1] \/ e = [d EXCEPT !.finals = @ + 1]
                   PROVE  e \in Done /\ e.minor = d.minor /\ e.direct = d.direct /\ e.promoted = d.promoted
BY DEF Done

LEMMA StatsMinor == ASSUME NEW s \in Stats, NEW y \in Nat, NEW e, e = [s EXCEPT !.minor = @ + y]
                    PROVE  e \in Stats /\ e.minor = s.minor + y /\ e.major = s.major
BY DEF Stats
LEMMA StatsMajor == ASSUME NEW s \in Stats, NEW n \in Nat, NEW e, e = [s EXCEPT !.major = @ + n, !.majors = @ + 1]
                    PROVE  e \in Stats /\ e.minor = s.minor /\ e.major = s.major + n
<1>. DEFINE a == s.major + n
            b == s.majors + 1
<1>1. a \in Nat /\ b \in Nat
  BY DEF Stats
<1>2. e = [s EXCEPT !.major = a, !.majors = b]
  BY DEF Stats
<1>. HIDE DEF a, b
<1>3. e \in Stats /\ e.major = a /\ e.minor = s.minor
  BY <1>1, <1>2 DEF Stats
<1>. QED
  BY <1>3 DEF a
LEMMA StatsOnlyMajor == ASSUME NEW s \in Stats, NEW n \in Nat, NEW e, e = [s EXCEPT !.major = @ + n]
                        PROVE  e \in Stats /\ e.minor = s.minor /\ e.major = s.major + n
<1>. DEFINE a == s.major + n
<1>1. a \in Nat
  BY DEF Stats
<1>2. e = [s EXCEPT !.major = a]
  BY DEF Stats
<1>. HIDE DEF a
<1>3. e \in Stats /\ e.major = a /\ e.minor = s.minor
  BY <1>1, <1>2 DEF Stats
<1>. QED
  BY <1>3 DEF a
LEMMA StatsMajors == ASSUME NEW s \in Stats, NEW k \in Nat, NEW e, e = [s EXCEPT !.majors = @ + k]
                     PROVE  e \in Stats /\ e.minor = s.minor /\ e.major = s.major
BY DEF Stats

LEMMA CountsAreNat == ASSUME CountInv
                      PROVE  /\ stat.minor \in Nat /\ stat.major \in Nat /\ young \in Nat /\ allocated \in Nat
                             /\ did.minor \in Nat /\ did.direct \in Nat /\ did.promoted \in Nat
BY DEF CountInv, Amounts, Counts, Stats, Done
LEMMA SumGrows == ASSUME NEW a \in Nat, NEW b \in Nat, NEW c \in Nat, NEW n \in Nat, a + b = c
                  PROVE  a + (b + n) = c + n
OBVIOUS
LEMMA MajorGrows == ASSUME CountInv, NEW n \in Nat
                    PROVE  /\ stat.major + (allocated + n) = (did.direct + n) + did.promoted
                           /\ stat.major + (allocated + n) = did.direct + (did.promoted + n)
<1>1. stat.major + allocated = did.direct + did.promoted
  BY DEF CountInv, Exact
<1>2. \A a, b, c, d \in Nat : a + b = c + d => /\ a + (b + n) = (c + n) + d
                                             /\ a + (b + n) = c + (d + n)
  OBVIOUS
<1>. QED
  BY <1>1, <1>2, CountsAreNat

(* ------------------------------ What is to do ---------------------------- *)
LEMMA DoIsWork == /\ \A op \in Ops : Do(op) \in Work /\ Do(op).op = op
                  /\ \A n \in 1..MaxYoung : Sized("young", n) \in Work /\ Sized("young", n).op = "young"
                  /\ \A n \in Nat : MinorMin <= n * WordSize =>
                                     Sized("resize", n) \in Work /\ Sized("resize", n).op = "resize"
BY GcAssumption DEF Do, Sized, Work, Ops

\* The sizes caml_gc_set asks for are a whole number of words, and never below the least.
LEMMA NewSizeIsWork ==
  ASSUME NEW s \in MinorSizes
  PROVE  /\ NormMin(s * WordSize) \div WordSize \in Nat
         /\ MinorMin <= (NormMin(s * WordSize) \div WordSize) * WordSize
<1>1. PICK k \in Nat : MinorMin = k * WordSize
  <2>1. \A m \in Nat, w \in Nat \ {0} : m % w = 0 => m \div w \in Nat /\ m = (m \div w) * w
    OBVIOUS
  <2>. QED
    BY <2>1, GcAssumption
<1>2. s \in Nat /\ WordSize \in Nat \ {0} /\ MinorMin \in Nat
  BY GcAssumption
<1>3. \A a \in Nat, w \in Nat \ {0} : (a * w) \div w = a /\ a * w \in Nat
  OBVIOUS
<1>4. PICK a \in Nat : NormMin(s * WordSize) = a * WordSize /\ MinorMin <= a * WordSize
  <2>1. CASE s * WordSize < MinorMin
    BY <1>1, <1>2, <2>1 DEF NormMin, MaxOf
  <2>2. CASE ~(s * WordSize < MinorMin)
    BY <1>2, <1>3, <2>2 DEF NormMin, MaxOf
  <2>. QED
    BY <2>1, <2>2
<1>5. (a * WordSize) \div WordSize = a
  BY <1>2, <1>3
<1>. QED
  BY <1>4, <1>5

LEMMA StepsAreWork == ASSUME NEW ops \in Seq(Ops) PROVE Steps(ops) \in Seq(Work)
<1>1. \A i \in 1..Len(ops) : Do(ops[i]) \in Work
  BY DoIsWork
<1>2. Len(ops) \in Nat /\ DOMAIN ops = 1..Len(ops)
  OBVIOUS
<1>. QED
  BY <1>1, <1>2 DEF Steps

LEMMA CollectionIsWork == MinorCollection \in Seq(Work)
<1>1. <<"collect", "slice", "unforce", "final", "empty">> \in Seq(Ops)
  BY DEF Ops
<1>. QED
  BY <1>1, StepsAreWork DEF MinorCollection

LEMMA OperationsAreWork == \A o \in Operations : Steps(o) \in Seq(Work)
<1>1. <<"empty", "finish", "test", "final">> \in Seq(Ops)
  BY DEF Ops
<1>2. <<"empty", "finish", "final", "empty", "finish", "test", "final">> \in Seq(Ops)
  BY DEF Ops
<1>3. <<"empty", "slice">> \in Seq(Ops)
  BY DEF Ops
<1>4. <<"empty", "finish", "finish", "compact", "final">> \in Seq(Ops)
  BY DEF Ops
<1>. QED
  BY <1>1, <1>2, <1>3, <1>4, StepsAreWork DEF Operations

LEMMA WorkFollows == ASSUME NEW s \in Seq(Work), NEW t \in Seq(Work) PROVE s \o t \in Seq(Work)
BY ConcatProperties

LEMMA OneIsWork == \A w \in Work : <<w>> \in Seq(Work)
OBVIOUS

LEMMA NoneIsWork == <<>> \in Seq(Work)
OBVIOUS

LEMMA RestIsWork == ASSUME todo \in Seq(Work), todo # <<>> PROVE Tail(todo) \in Seq(Work) /\ Head(todo) \in Work
BY HeadTailProperties

(* --------------------------- What a program asks -------------------------- *)
\* Words put in the minor heap are counted there at once.
LEMMA FillCounts == ASSUME CountInv, NEW n \in Nat, NEW then \in Seq(Work), FillYoung(n, then) PROVE CountInv'
<1>1. /\ young' = young + n /\ todo' = then /\ minorSize' = minorSize /\ allocated' = allocated /\ stat' = stat
      /\ did' = [did EXCEPT !.minor = @ + n]
  BY DEF FillYoung, settings
<1>2. did' \in Done /\ did'.minor = did.minor + n /\ did'.direct = did.direct /\ did'.promoted = did.promoted
  BY <1>1, DoneMinor DEF CountInv, Counts
<1>3. stat.minor + (young + n) = did.minor + n
  BY CountsAreNat, SumGrows DEF CountInv, Exact
<1>4. Exact'
  BY <1>1, <1>2, <1>3 DEF CountInv, Exact
<1>. QED
  BY <1>1, <1>2, <1>4 DEF CountInv, Amounts, Counts

\* A step that changes no count that matters.
LEMMA NoCountChanges ==
  ASSUME CountInv, UNCHANGED <<young, minorSize, allocated, stat>>, todo' \in Seq(Work),
         did' = did \/ did' = [did EXCEPT !.calls = @ + 1] \/ did' = [did EXCEPT !.finals = @ + 1]
  PROVE  CountInv'
<1>1. did' \in Done /\ did'.minor = did.minor /\ did'.direct = did.direct /\ did'.promoted = did.promoted
  BY DoneCalls DEF CountInv, Counts
<1>. QED
  BY <1>1 DEF CountInv, Amounts, Counts, Exact

LEMMA ProgramCounts == ASSUME CountInv, NEW then \in Seq(Work), Program(then) PROVE CountInv'
<1>1. ASSUME NEW n \in 1..MaxYoung, AllocSmall(n, then) PROVE CountInv'
  <2>1. MaxYoung \in Nat /\ n \in Nat
    BY GcAssumption
  <2>2. CASE young + n <= minorSize
    <3>1. FillYoung(n, then)
      BY <1>1, <2>2 DEF AllocSmall
    <3>. QED
      BY <2>1, <3>1, FillCounts
  <2>3. CASE ~(young + n <= minorSize)
    <3>1. <<Sized("young", n)>> \in Seq(Work)
      BY <2>1, DoIsWork, OneIsWork
    <3>2. (MinorCollection \o <<Sized("young", n)>>) \o then \in Seq(Work)
      BY <3>1, CollectionIsWork, WorkFollows
    <3>3. /\ todo' = (MinorCollection \o <<Sized("young", n)>>) \o then
          /\ UNCHANGED <<young, minorSize, allocated, stat, did>>
      BY <1>1, <2>3 DEF AllocSmall, settings
    <3>. QED
      BY <3>2, <3>3, NoCountChanges
  <2>. QED
    BY <2>2, <2>3
<1>2. ASSUME NEW n \in 1..MaxWords, AllocLarge(n, then) PROVE CountInv'
  <2>1. n \in Nat
    BY GcAssumption
  <2>2. /\ allocated' = allocated + n /\ todo' = then /\ young' = young /\ minorSize' = minorSize
        /\ stat' = stat /\ did' = [did EXCEPT !.direct = @ + n]
    BY <1>2 DEF AllocLarge, AllocShr, AddToHeap, settings
  <2>3. did' \in Done /\ did'.minor = did.minor /\ did'.direct = did.direct + n /\ did'.promoted = did.promoted
    BY <2>1, <2>2, DoneDirect DEF CountInv, Counts
  <2>4. stat.major + (allocated + n) = (did.direct + n) + did.promoted
    BY <2>1, MajorGrows
  <2>5. Exact'
    BY <2>2, <2>3, <2>4 DEF CountInv, Exact
  <2>. QED
    BY <2>1, <2>2, <2>3, <2>5 DEF CountInv, Amounts, Counts
<1>3. CASE Call(then)
  <2>1. todo' \in Seq(Work)
    BY <1>3, CollectionIsWork, OperationsAreWork, WorkFollows DEF Call
  <2>2. did' = [did EXCEPT !.calls = @ + 1] /\ UNCHANGED <<young, minorSize, allocated, stat>>
    BY <1>3 DEF Call, settings
  <2>. QED
    BY <2>1, <2>2, NoCountChanges
<1>4. CASE Set(then)
  <2>1. did' = [did EXCEPT !.calls = @ + 1] /\ UNCHANGED <<young, minorSize, allocated, stat>>
    BY <1>4 DEF Set
  <2>2. PICK s \in MinorSizes : todo' = (IF NormMin(s * WordSize) = minorSize * WordSize THEN <<>>
                ELSE (IF young # 0 THEN MinorCollection ELSE <<>>)
                     \o <<Sized("resize", NormMin(s * WordSize) \div WordSize)>>) \o then
    BY <1>4 DEF Set
  <2>. DEFINE resize == <<Sized("resize", NormMin(s * WordSize) \div WordSize)>>
              before == IF young # 0 THEN MinorCollection ELSE <<>>
  <2>4. resize \in Seq(Work)
    BY NewSizeIsWork, DoIsWork, OneIsWork
  <2>5. before \in Seq(Work)
    BY CollectionIsWork, NoneIsWork
  <2>. HIDE DEF resize, before
  <2>6. before \o resize \in Seq(Work)
    BY <2>4, <2>5, WorkFollows
  <2>7. todo' = <<>> \o then \/ todo' = (before \o resize) \o then
    BY <2>2 DEF resize, before
  <2>8. todo' \in Seq(Work)
    BY <2>6, <2>7, NoneIsWork, WorkFollows
  <2>. QED
    BY <2>1, <2>8, NoCountChanges
<1>5. CASE Urgent(then)
  <2>1. MinorCollection \o then \in Seq(Work)
    BY CollectionIsWork, WorkFollows
  <2>2. todo' = MinorCollection \o then /\ UNCHANGED <<young, minorSize, allocated, stat, did>>
    BY <1>5 DEF Urgent, settings
  <2>. QED
    BY <2>1, <2>2, NoCountChanges
<1>. QED
  BY <1>1, <1>2, <1>3, <1>4, <1>5 DEF Program

(* ------------------------------ What is done ----------------------------- *)
\* A minor collection: n of the young words become words of the major heap.
LEMMA EmptyCounts ==
  ASSUME CountInv, NEW n \in 0..young, EmptyMinor(n), todo' \in Seq(Work), minorSize' = minorSize,
         stat' \in Stats, stat'.minor = stat.minor + young, stat'.major = stat.major
  PROVE  CountInv'
<1>1. /\ allocated' = allocated + n /\ young' = 0 /\ did' = [did EXCEPT !.promoted = @ + n]
  BY DEF EmptyMinor, AllocShr, AddToHeap
<1>2. n \in Nat
  BY CountsAreNat
<1>3. did' \in Done /\ did'.minor = did.minor /\ did'.direct = did.direct /\ did'.promoted = did.promoted + n
  BY <1>1, <1>2, DonePromoted DEF CountInv, Counts
<1>4. stat.major + (allocated + n) = did.direct + (did.promoted + n)
  BY <1>2, MajorGrows
<1>5. stat'.minor = did'.minor /\ stat'.minor \in Nat
  BY <1>3, CountsAreNat DEF CountInv, Exact
<1>6. stat'.minor + young' = did'.minor
  <2>1. \A a \in Nat : a + 0 = a
    OBVIOUS
  <2>. QED
    BY <1>1, <1>5, <2>1
<1>7. Exact'
  BY <1>1, <1>3, <1>4, <1>6 DEF Exact
<1>8. Amounts'
  BY <1>1, <1>2, CountsAreNat DEF CountInv, Amounts
<1>. QED
  BY <1>3, <1>7, <1>8 DEF CountInv, Counts

\* Words that are accounted for: they leave one count for the other.
LEMMA AccountCounts ==
  ASSUME CountInv, todo' \in Seq(Work), UNCHANGED <<young, minorSize, did>>, allocated' = 0,
         stat' \in Stats, stat'.minor = stat.minor, stat'.major = stat.major + allocated
  PROVE  CountInv'
<1>1. stat'.major = did.direct + did.promoted /\ stat'.major \in Nat
  BY CountsAreNat DEF CountInv, Exact
<1>2. stat'.major + allocated' = did'.direct + did'.promoted
  <2>1. \A a \in Nat : a + 0 = a
    OBVIOUS
  <2>. QED
    BY <1>1, <2>1
<1>. QED
  BY <1>2 DEF CountInv, Amounts, Counts, Exact

\* A step of which the counters hear nothing but other numbers.
LEMMA OtherCounts ==
  ASSUME CountInv, todo' \in Seq(Work), UNCHANGED <<young, minorSize, allocated, did>>,
         stat' \in Stats, stat'.minor = stat.minor, stat'.major = stat.major
  PROVE  CountInv'
BY DEF CountInv, Amounts, Counts, Exact

LEMMA CountInit == Init => CountInv
<1>. SUFFICES ASSUME Init PROVE CountInv
  OBVIOUS
<1>1. minorSize \in Nat
  BY GcAssumption DEF Init, NormMin, MaxOf
<1>2. Amounts
  BY <1>1, NoneIsWork DEF Init, Amounts
<1>3. Counts
  BY DEF Init, Counts, Stats, Done
<1>4. stat.minor = 0 /\ young = 0 /\ did.minor = 0 /\ stat.major = 0 /\ allocated = 0 /\ did.direct = 0 /\ did.promoted = 0
  BY DEF Init
<1>5. Exact
  BY <1>4 DEF Exact
<1>. QED
  BY <1>2, <1>3, <1>5 DEF CountInv

\* The sequences of steps that are put before the rest.
LEMMA SomeSteps == /\ <<Do("account")>> \in Seq(Work) /\ <<Do("ended")>> \in Seq(Work)
                   /\ Steps(<<"maybe", "account">>) \in Seq(Work) /\ Steps(<<"account">>) \in Seq(Work)
                   /\ Steps(<<"finish", "compact">>) \in Seq(Work) /\ Steps(<<"compact">>) \in Seq(Work)
<1>1. /\ <<"maybe", "account">> \in Seq(Ops) /\ <<"account">> \in Seq(Ops)
      /\ <<"finish", "compact">> \in Seq(Ops) /\ <<"compact">> \in Seq(Ops)
  BY DEF Ops
<1>2. Do("account") \in Work /\ Do("ended") \in Work
  BY DoIsWork DEF Ops
<1>. QED
  BY <1>1, <1>2, StepsAreWork, OneIsWork

LEMMA CountStep == ASSUME CountInv, [Next]_vars PROVE CountInv'
<1>1. todo \in Seq(Work) /\ stat \in Stats /\ did \in Done
  BY DEF CountInv, Amounts, Counts
<1>2. todo # <<>> => Tail(todo) \in Seq(Work) /\ Head(todo) \in Work /\ Head(todo).size \in Nat
  BY <1>1, RestIsWork DEF Work
<1>3. CASE Ask
  BY <1>3, NoneIsWork, ProgramCounts DEF Ask
<1>4. CASE Empty
  <2>1. stat' \in Stats /\ stat'.minor = stat.minor + young /\ stat'.major = stat.major
    <3>1. PICK y \in Nat : y = young /\ stat' = [stat EXCEPT !.minor = @ + y]
      BY <1>4, CountsAreNat DEF Empty
    <3>. QED
      BY <1>1, <3>1, StatsMinor
  <2>. QED
    BY <1>2, <1>4, <2>1, EmptyCounts DEF Empty, At, settings
<1>5. CASE Collect
  <2>1. PICK n \in 0..young : EmptyMinor(n)
    BY <1>5 DEF Collect
  <2>2. allocated' - allocated = n /\ n \in Nat
    BY <2>1, CountsAreNat DEF EmptyMinor, AllocShr, AddToHeap
  <2>3. stat' = [stat EXCEPT !.minor = @ + young, !.minors = @ + 1, !.promoted = @ + n]
    BY <1>5, <2>2 DEF Collect
  <2>5. PICK a \in Nat, b \in Nat, c \in Nat :
           a = stat.minor + young /\ stat' = [stat EXCEPT !.minor = a, !.minors = b, !.promoted = c]
    <3>1. stat.minor + young \in Nat
      BY CountsAreNat
    <3>2. stat.minors + 1 \in Nat /\ stat.promoted + n \in Nat
      BY <1>1, <2>2 DEF Stats
    <3>3. stat' = [stat EXCEPT !.minor = stat.minor + young, !.minors = stat.minors + 1, !.promoted = stat.promoted + n]
      BY <2>3
    <3>. QED
      BY <3>1, <3>2, <3>3
  <2>4. stat' \in Stats /\ stat'.minor = stat.minor + young /\ stat'.major = stat.major
    <3>1. stat' \in Stats /\ stat'.minor = a /\ stat'.major = stat.major
      BY <1>1, <2>5 DEF Stats
    <3>. QED
      BY <2>5, <3>1
  <2>. QED
    BY <1>2, <1>5, <2>1, <2>4, EmptyCounts DEF Collect, At, settings
<1>6. CASE MarkSlice
  BY <1>2, <1>6, SomeSteps, WorkFollows, NoCountChanges DEF MarkSlice, At, settings
<1>7. CASE SweepSlice
  <2>1. stat' \in Stats /\ stat'.minor = stat.minor /\ stat'.major = stat.major
    <3>. DEFINE k == IF phase' = "idle" THEN 1 ELSE 0
    <3>1. k \in Nat
      OBVIOUS
    <3>2. stat' = [stat EXCEPT !.majors = @ + k]
      BY <1>7 DEF SweepSlice
    <3>. HIDE DEF k
    <3>. QED
      BY <1>1, <3>1, <3>2, StatsMajors
  <2>2. todo' \in Seq(Work)
    <3>1. todo' = Steps(<<"maybe", "account">>) \o Tail(todo) \/ todo' = Steps(<<"account">>) \o Tail(todo)
      BY <1>7 DEF SweepSlice
    <3>2. Tail(todo) \in Seq(Work)
      BY <1>2, <1>7 DEF SweepSlice, At
    <3>. QED
      BY <3>1, <3>2, SomeSteps, WorkFollows
  <2>. QED
    BY <1>7, <2>1, <2>2, OtherCounts DEF SweepSlice, settings
<1>8. CASE Account
  <2>1. stat' \in Stats /\ stat'.minor = stat.minor /\ stat'.major = stat.major + allocated
    <3>1. stat' = [stat EXCEPT !.major = @ + allocated] /\ allocated \in Nat
      BY <1>8, CountsAreNat DEF Account, Accounted
    <3>. QED
      BY <1>1, <3>1, StatsOnlyMajor
  <2>. QED
    BY <1>2, <1>8, <2>1, AccountCounts DEF Account, Accounted, At, settings
<1>9. CASE Finish
  <2>1. stat' \in Stats /\ stat'.minor = stat.minor /\ stat'.major = stat.major + allocated
    <3>1. stat' = [stat EXCEPT !.major = @ + allocated, !.majors = @ + 1] /\ allocated \in Nat
      BY <1>9, CountsAreNat DEF Finish
    <3>. QED
      BY <1>1, <3>1, StatsMajor
  <2>. QED
    BY <1>2, <1>9, <2>1, AccountCounts DEF Finish, At, settings
<1>10. CASE Maybe \/ Test
  <2>1. Tail(todo) \in Seq(Work)
    BY <1>2, <1>10 DEF Maybe, Test, At
  <2>2. todo' = Steps(<<"finish", "compact">>) \o Tail(todo) \/ todo' = Steps(<<"compact">>) \o Tail(todo)
        \/ todo' = <<>> \o Tail(todo)
    BY <1>10 DEF Maybe, Test
  <2>3. todo' \in Seq(Work)
    BY <2>1, <2>2, SomeSteps, NoneIsWork, WorkFollows
  <2>. QED
    BY <1>10, <2>3, NoCountChanges DEF Maybe, Test, settings
<1>11. CASE Compacted
  <2>1. stat' \in Stats /\ stat'.minor = stat.minor /\ stat'.major = stat.major
    BY <1>1, <1>11 DEF Compacted, Stats
  <2>. QED
    BY <1>2, <1>11, <2>1, OtherCounts DEF Compacted, At, settings
<1>12. CASE Unforce \/ FinalDone
  BY <1>2, <1>12, NoCountChanges DEF Unforce, FinalDone, At, settings
<1>13. CASE Finaliser
  <2>1. <<Do("ended")>> \o todo \in Seq(Work)
    BY <1>1, SomeSteps, WorkFollows
  <2>. QED
    BY <1>13, <2>1, ProgramCounts DEF Finaliser
<1>14. CASE Ended
  BY <1>2, <1>14, NoCountChanges DEF Ended, At, settings
<1>15. CASE FinalRaises
  BY <1>15, NoneIsWork, NoCountChanges DEF FinalRaises, settings
<1>16. CASE AllocAgain
  BY <1>2, <1>16, FillCounts DEF AllocAgain, At
<1>17. CASE Resize
  BY <1>2, <1>17 DEF Resize, At, CountInv, Amounts, Counts, Exact
<1>18. CASE ResizeFails
  BY <1>18, NoneIsWork, NoCountChanges DEF ResizeFails, settings
<1>19. CASE UNCHANGED vars
  BY <1>1, <1>19, NoCountChanges DEF vars, settings
<1>. QED
  BY <1>3, <1>4, <1>5, <1>6, <1>7, <1>8, <1>9, <1>10, <1>11, <1>12, <1>13, <1>14, <1>15, <1>16,
     <1>17, <1>18, <1>19 DEF Next

\* The two counts that Gc.counters adds up are those of the words ever allocated, whatever
\* collections, slices, finalisers and changes of the parameters lie between (caml_gc_counters).
THEOREM CountersStayExact == Spec => []CountersAreExact
<1>1. CountInv => CountersAreExact
  BY DEF CountInv, Exact, CountersAreExact, Counters
<1>2. CountInv /\ [Next]_vars => CountInv'
  BY CountStep
<1>. QED
  BY <1>1, <1>2, CountInit, PTL DEF Spec

(***************************************************************************)
(* The order of the work.  What is to do is a chain: each operation that   *)
(* needs an empty minor heap comes after one that empties it or keeps it   *)
(* empty, the compacter and its test come after the end of a cycle, and a  *)
(* request is dropped after a slice has been accounted for.  Finalisers    *)
(* break no link: what follows one needs nothing.                          *)
(***************************************************************************)
Clear == {"slice", "account", "finish", "maybe", "test", "compact", "unforce", "resize", "young"}
Clearing == {"collect", "empty", "slice", "account", "finish", "maybe", "test", "compact", "unforce", "resize"}
Follows(a, b) == /\ b \in Clear => a \in Clearing
                 /\ b \in {"compact", "test"} => a = "finish"
                 /\ b = "unforce" => a \in {"slice", "account"}
Linked(s) == \A i \in 1..Len(s) - 1 : Follows(s[i].op, s[i + 1].op)
Ready(b) == /\ b \in Clear => young = 0
            /\ b \in {"compact", "test"} => phase = "idle"
            /\ b = "unforce" => allocated = 0
\* What a caller still has to do may follow anything.
Loose(s) == Linked(s) /\ (s # <<>> => Head(s).op \notin Clear)
Chained == Linked(todo) /\ (todo # <<>> => Ready(Head(todo).op))

Increment == increment \in Nat /\ NormIncr(increment) = increment
HeapSizes == /\ heapSize \in Nat /\ free \in Nat /\ top \in Nat /\ free < heapSize /\ heapSize <= top
             /\ chunks \in Seq(Nat)
MinorSizesFit == young <= minorSize /\ MinorMin <= minorSize * WordSize
OrderInv == Chained /\ Increment /\ HeapSizes /\ MinorSizesFit

(* --------------------------------- Sizes --------------------------------- *)
\* Rounding to pages gives a multiple that is no smaller, and rounds a multiple to itself.
LEMMA PagesRound == ASSUME NEW n \in Nat
                    PROVE  \E k \in Nat : Pages(n) = k * ChunkMin /\ n <= k * ChunkMin
<1>1. ChunkMin \in Nat /\ ChunkMin # 0
  BY GcAssumption
<1>2. \A m, w \in Nat : w # 0 => (m + w - 1) \div w \in Nat /\ m <= ((m + w - 1) \div w) * w
  OBVIOUS
<1>. QED
  BY <1>1, <1>2 DEF Pages

LEMMA PagesAreRound == ASSUME NEW k \in Nat PROVE Pages(k * ChunkMin) = k * ChunkMin
<1>1. ChunkMin \in Nat /\ ChunkMin # 0
  BY GcAssumption
<1>2. \A a, w \in Nat : w # 0 => (a * w + w - 1) \div w = a
  OBVIOUS
<1>. QED
  BY <1>1, <1>2 DEF Pages

LEMMA IncrementIsRound == ASSUME NEW i \in Nat PROVE NormIncr(i) \in Nat /\ NormIncr(NormIncr(i)) = NormIncr(i)
<1>1. ChunkMin \in Nat /\ ChunkMin # 0
  BY GcAssumption
<1>2. PICK k \in Nat : Pages(i) = k * ChunkMin
  BY PagesRound
<1>3. PICK m \in Nat : NormIncr(i) = m * ChunkMin /\ ChunkMin <= m * ChunkMin
  <2>1. CASE k * ChunkMin < ChunkMin
    <3>1. NormIncr(i) = ChunkMin
      BY <1>2, <2>1 DEF NormIncr, MaxOf
    <3>2. ChunkMin = 1 * ChunkMin
      BY <1>1
    <3>. QED
      BY <1>1, <3>1, <3>2
  <2>2. CASE ~(k * ChunkMin < ChunkMin)
    <3>1. NormIncr(i) = k * ChunkMin
      BY <1>2, <2>2 DEF NormIncr, MaxOf
    <3>2. \A a, w \in Nat : a * w \in Nat
      OBVIOUS
    <3>3. ChunkMin <= k * ChunkMin
      BY <1>1, <2>2, <3>2
    <3>. QED
      BY <3>1, <3>3
  <2>. QED
    BY <2>1, <2>2
<1>4. m * ChunkMin \in Nat
  BY <1>1
<1>5. Pages(m * ChunkMin) = m * ChunkMin
  BY PagesAreRound
<1>6. NormIncr(m * ChunkMin) = m * ChunkMin
  BY <1>1, <1>3, <1>4, <1>5 DEF NormIncr, MaxOf
<1>. QED
  BY <1>3, <1>4, <1>6

LEMMA ChunkHolds == ASSUME NEW n \in Nat, increment \in Nat PROVE RoundChunk(n) \in Nat /\ n <= RoundChunk(n)
<1>. DEFINE m == MaxOf(MaxOf(n, increment), ChunkMin)
<1>1. ChunkMin \in Nat /\ m \in Nat /\ n <= m
  BY GcAssumption DEF MaxOf
<1>. HIDE DEF m
<1>2. PICK k \in Nat : Pages(m) = k * ChunkMin /\ m <= k * ChunkMin
  BY <1>1, PagesRound
<1>3. k * ChunkMin \in Nat
  BY <1>1
<1>. QED
  BY <1>1, <1>2, <1>3 DEF RoundChunk, m

\* caml_alloc_shr takes from the free words, or adds a chunk that holds what is asked for.
LEMMA AllocKeepsSizes == ASSUME HeapSizes, increment \in Nat, NEW n \in Nat, AllocShr(n) PROVE HeapSizes'
<1>1. CASE free >= n
  BY <1>1 DEF AllocShr, HeapSizes
<1>2. CASE ~(free >= n)
  <2>. DEFINE c == RoundChunk(n)
  <2>1. c \in Nat /\ n <= c
    BY ChunkHolds
  <2>2. chunks' = Append(chunks, c) /\ heapSize' = heapSize + c /\ top' = MaxOf(top, heapSize + c) /\ free' = free + c - n
    BY <1>2 DEF AllocShr, AddToHeap
  <2>. HIDE DEF c
  <2>3. chunks' \in Seq(Nat)
    BY <2>1, <2>2, AppendProperties DEF HeapSizes
  <2>4. heapSize' \in Nat /\ free' \in Nat /\ free' < heapSize'
    BY <2>1, <2>2 DEF HeapSizes
  <2>5. top' \in Nat /\ heapSize' <= top'
    BY <2>1, <2>2 DEF HeapSizes, MaxOf
  <2>. QED
    BY <2>3, <2>4, <2>5 DEF HeapSizes
<1>. QED
  BY <1>1, <1>2

LEMMA SweepKeepsSizes == ASSUME HeapSizes, NEW g \in {0, heapSize - free - 1}, Swept(g) PROVE HeapSizes'
BY DEF Swept, HeapSizes

LEMMA ShrinkKeepsSizes ==
  ASSUME HeapSizes, NEW i \in 2..Len(chunks), chunks[i] <= free, Shrink(i) PROVE HeapSizes'
<1>1. chunks \in Seq(Nat) /\ Len(chunks) \in Nat /\ i \in 1..Len(chunks)
  BY LenProperties DEF HeapSizes
<1>2. chunks[i] \in Nat
  BY <1>1, ElementOfSeq
<1>3. chunks' \in Seq(Nat)
  <2>1. RemoveAt(chunks, i) = SubSeq(chunks, 1, i - 1) \o SubSeq(chunks, i + 1, Len(chunks))
    BY DEF RemoveAt
  <2>2. SubSeq(chunks, 1, i - 1) \in Seq(Nat)
    <3>1. i - 1 \in Int /\ \A j \in 1..i - 1 : j \in 1..Len(chunks)
      BY <1>1
    <3>2. \A j \in 1..i - 1 : chunks[j] \in Nat
      BY <1>1, <3>1, ElementOfSeq
    <3>. QED
      BY <3>1, <3>2, SubSeqProperties
  <2>3. SubSeq(chunks, i + 1, Len(chunks)) \in Seq(Nat)
    <3>1. i + 1 \in Int /\ Len(chunks) \in Int /\ \A j \in i + 1..Len(chunks) : j \in 1..Len(chunks)
      BY <1>1
    <3>2. \A j \in i + 1..Len(chunks) : chunks[j] \in Nat
      BY <1>1, <3>1, ElementOfSeq
    <3>. QED
      BY <3>1, <3>2, SubSeqProperties
  <2>4. chunks' = RemoveAt(chunks, i)
    BY DEF Shrink
  <2>. QED
    BY <2>1, <2>2, <2>3, <2>4, ConcatProperties
<1>4. heapSize' = heapSize - chunks[i] /\ free' = free - chunks[i] /\ top' = top
  BY DEF Shrink
<1>5. \A h, f, t, c \in Nat : f < h /\ h <= t /\ c <= f =>
        h - c \in Nat /\ f - c \in Nat /\ f - c < h - c /\ h - c <= t
  OBVIOUS
<1>6. heapSize - chunks[i] \in Nat /\ free - chunks[i] \in Nat /\ free - chunks[i] < heapSize - chunks[i]
      /\ heapSize - chunks[i] <= top
  BY <1>2, <1>5 DEF HeapSizes
<1>. QED
  BY <1>3, <1>4, <1>6 DEF HeapSizes

(* --------------------------------- Chains -------------------------------- *)
LEMMA LinkedConcat ==
  ASSUME NEW s \in Seq(Work), NEW t \in Seq(Work), Linked(s), Linked(t),
         s # <<>> /\ t # <<>> => Follows(s[Len(s)].op, Head(t).op)
  PROVE  Linked(s \o t)
<1>1. /\ s \o t \in Seq(Work) /\ Len(s \o t) = Len(s) + Len(t) /\ Len(s) \in Nat /\ Len(t) \in Nat
      /\ \A i \in 1..Len(s) + Len(t) : (s \o t)[i] = IF i <= Len(s) THEN s[i] ELSE t[i - Len(s)]
  BY ConcatProperties, LenProperties
<1>2. ASSUME NEW i \in 1..Len(s \o t) - 1 PROVE Follows((s \o t)[i].op, (s \o t)[i + 1].op)
  <2>1. i \in 1..Len(s) + Len(t) /\ i + 1 \in 1..Len(s) + Len(t)
    BY <1>1
  <2>2. CASE i < Len(s)
    <3>1. i \in 1..Len(s) - 1 /\ (s \o t)[i] = s[i] /\ (s \o t)[i + 1] = s[i + 1]
      BY <1>1, <2>1, <2>2
    <3>. QED
      BY <3>1 DEF Linked
  <2>3. CASE i = Len(s)
    <3>1. (s \o t)[i] = s[Len(s)] /\ (s \o t)[i + 1] = t[1] /\ Len(s) # 0 /\ Len(t) # 0
      BY <1>1, <2>1, <2>3
    <3>2. s # <<>> /\ t # <<>>
      BY <3>1, EmptySeq
    <3>. QED
      BY <3>1, <3>2
  <2>4. CASE i > Len(s)
    <3>1. i - Len(s) \in 1..Len(t) - 1 /\ i + 1 - Len(s) = (i - Len(s)) + 1
      BY <1>1, <2>1, <2>4
    <3>2. (s \o t)[i] = t[i - Len(s)] /\ (s \o t)[i + 1] = t[(i - Len(s)) + 1]
      BY <1>1, <2>1, <2>4, <3>1
    <3>. QED
      BY <3>1, <3>2 DEF Linked
  <2>. QED
    BY <1>1, <2>2, <2>3, <2>4
<1>. QED
  BY <1>2 DEF Linked

LEMMA LooseConcat == ASSUME NEW s \in Seq(Work), NEW t \in Seq(Work), Linked(s), Loose(t) PROVE Linked(s \o t)
<1>1. t # <<>> => \A a : Follows(a, Head(t).op)
  BY DEF Loose, Follows, Clear
<1>. QED
  BY <1>1, LinkedConcat DEF Loose

LEMMA RestIsLinked ==
  ASSUME NEW s \in Seq(Work), s # <<>>, Linked(s)
  PROVE  /\ Tail(s) \in Seq(Work) /\ Linked(Tail(s))
         /\ Tail(s) # <<>> => Follows(Head(s).op, Head(Tail(s)).op)
<1>. DEFINE t == Tail(s)
<1>1. /\ t \in Seq(Work) /\ Len(t) = Len(s) - 1 /\ \A i \in 1..Len(t) : t[i] = s[i + 1]
      /\ Len(s) \in Nat \ {0} /\ Head(s) = s[1]
  BY HeadTailProperties, EmptySeq
<1>. HIDE DEF t
<1>2. Linked(t)
  <2>1. ASSUME NEW i \in 1..Len(t) - 1 PROVE Follows(t[i].op, t[i + 1].op)
    <3>1. i + 1 \in 1..Len(s) - 1 /\ t[i] = s[i + 1] /\ t[i + 1] = s[(i + 1) + 1]
      BY <1>1
    <3>. QED
      BY <3>1 DEF Linked
  <2>. QED
    BY <2>1 DEF Linked
<1>3. ASSUME t # <<>> PROVE Follows(Head(s).op, Head(t).op)
  <2>1. Len(t) \in Nat \ {0} /\ Head(t) = t[1]
    BY <1>1, <1>3, EmptySeq
  <2>2. 1 \in 1..Len(s) - 1 /\ t[1] = s[1 + 1]
    BY <1>1, <2>1
  <2>. QED
    BY <1>1, <2>1, <2>2 DEF Linked
<1>. QED
  BY <1>1, <1>2, <1>3 DEF t

\* One operation in the place of another that as much may follow.
LEMMA LinkedInPlace ==
  ASSUME NEW s \in Seq(Work), s # <<>>, Linked(s), NEW w \in Work,
         \A b : Follows(Head(s).op, b) => Follows(w.op, b)
  PROVE  Linked(<<w>> \o Tail(s))
<1>1. Tail(s) \in Seq(Work) /\ Linked(Tail(s)) /\ (Tail(s) # <<>> => Follows(w.op, Head(Tail(s)).op))
  BY RestIsLinked
<1>2. <<w>> \in Seq(Work) /\ Len(<<w>>) = 1 /\ <<w>>[1] = w
  OBVIOUS
<1>3. Linked(<<w>>)
  BY <1>2 DEF Linked
<1>. QED
  BY <1>1, <1>2, <1>3, LinkedConcat

\* What stands at the head of a chain needs nothing of what is put before it if it is loose.
LEMMA OneIsLinked == \A w \in Work : Linked(<<w>>) /\ Len(<<w>>) = 1 /\ Head(<<w>>) = w /\ <<w>>[1] = w /\ <<w>> # <<>>
BY DEF Linked

LEMMA NothingIsLinked == Linked(<<>>) /\ Loose(<<>>)
BY DEF Linked, Loose

LEMMA TwoAreLinked == ASSUME NEW v \in Work, NEW w \in Work, Follows(v.op, w.op)
                      PROVE  Linked(<<v, w>>) /\ <<v, w>> \in Seq(Work) /\ Head(<<v, w>>) = v
BY DEF Linked

LEMMA CollectionIsLinked == /\ Linked(MinorCollection) /\ MinorCollection # <<>> /\ Len(MinorCollection) = 5
                            /\ Head(MinorCollection).op = "collect" /\ MinorCollection[5].op = "empty"
BY DEF MinorCollection, Steps, Do, Linked, Follows, Clear, Clearing

LEMMA OperationsAreLinked ==
  \A o \in Operations : Linked(Steps(o)) /\ Steps(o) # <<>> /\ Head(Steps(o)).op = "empty"
<1>. DEFINE o1 == <<"empty", "finish", "test", "final">>
            o2 == <<"empty", "finish", "final", "empty", "finish", "test", "final">>
            o3 == <<"empty", "slice">>
            o4 == <<"empty", "finish", "finish", "compact", "final">>
<1>1. Linked(Steps(o1)) /\ Steps(o1) # <<>> /\ Head(Steps(o1)).op = "empty"
  BY DEF Steps, Do, Linked, Follows, Clear, Clearing
<1>2. Linked(Steps(o2)) /\ Steps(o2) # <<>> /\ Head(Steps(o2)).op = "empty"
  BY DEF Steps, Do, Linked, Follows, Clear, Clearing
<1>3. Linked(Steps(o3)) /\ Steps(o3) # <<>> /\ Head(Steps(o3)).op = "empty"
  BY DEF Steps, Do, Linked, Follows, Clear, Clearing
<1>4. Linked(Steps(o4)) /\ Steps(o4) # <<>> /\ Head(Steps(o4)).op = "empty"
  BY DEF Steps, Do, Linked, Follows, Clear, Clearing
<1>. QED
  BY <1>1, <1>2, <1>3, <1>4 DEF Operations

LEMMA HeadOfConcat == ASSUME NEW s \in Seq(Work), NEW t \in Seq(Work), s # <<>>
                      PROVE  s \o t # <<>> /\ Head(s \o t) = Head(s) /\ s \o t \in Seq(Work)
<1>1. Len(s) \in Nat \ {0} /\ Len(t) \in Nat
  BY EmptySeq, LenProperties
<1>2. Len(s \o t) = Len(s) + Len(t) /\ (s \o t)[1] = s[1] /\ s \o t \in Seq(Work)
  BY <1>1, ConcatProperties
<1>3. s \o t # <<>>
  BY <1>1, <1>2, EmptySeq
<1>. QED
  BY <1>2, <1>3, HeadTailProperties

\* What is put before what a caller has still to do is again a chain.
LEMMA PutBefore ==
  ASSUME NEW s \in Seq(Work), NEW then \in Seq(Work), Linked(s), Loose(then), todo' = s \o then,
         s # <<>> => Ready(Head(s).op)'
  PROVE  Chained'
<1>1. Linked(s \o then)
  BY LooseConcat
<1>2. CASE s # <<>>
  <2>1. s \o then # <<>> /\ Head(s \o then) = Head(s)
    BY <1>2, HeadOfConcat
  <2>2. Ready(Head(s).op)'
    BY <1>2
  <2>. QED
    BY <1>1, <2>1, <2>2 DEF Chained
<1>3. CASE s = <<>>
  <2>1. s \o then = then
    BY <1>3, ConcatEmptySeq
  <2>2. then # <<>> => Ready(Head(then).op)'
    BY DEF Loose, Ready, Clear
  <2>. QED
    BY <1>1, <2>1, <2>2 DEF Chained
<1>. QED
  BY <1>2, <1>3

\* An operation that is done, after which what may follow it is ready.
LEMMA PopKeepsChain ==
  ASSUME CountInv, Chained, todo # <<>>, todo' = Tail(todo),
         \A b : Ready(Head(todo).op) /\ Follows(Head(todo).op, b) => Ready(b)'
  PROVE  Chained'
<1>1. todo \in Seq(Work) /\ Linked(todo) /\ Ready(Head(todo).op)
  BY DEF CountInv, Amounts, Chained
<1>2. /\ Linked(Tail(todo))
      /\ Tail(todo) # <<>> => Follows(Head(todo).op, Head(Tail(todo)).op)
  BY <1>1, RestIsLinked
<1>. QED
  BY <1>1, <1>2 DEF Chained

LEMMA OrderFacts == ASSUME CountInv, OrderInv
                    PROVE  /\ young \in Nat /\ minorSize \in Nat /\ allocated \in Nat /\ increment \in Nat
                           /\ HeapSizes /\ Increment /\ MinorSizesFit /\ Chained
BY DEF CountInv, Amounts, OrderInv, Increment

\* Nothing is needed by an operation that may come anywhere.
LEMMA CollectsFirst == Ready("collect")' /\ Ready("empty")' /\ Ready("final")' /\ Ready("ended")'
BY DEF Ready, Clear

\* What a program asks, in front of what its caller has still to do.
LEMMA ProgramOrders ==
  ASSUME CountInv, OrderInv, NEW then \in Seq(Work), Loose(then), Program(then) PROVE OrderInv'
<1>0. MaxYoung \in Nat /\ MaxWords \in Nat /\ MinorSizes \subseteq Nat /\ Increments \subseteq Nat /\ WordSize \in Nat \ {0}
  BY GcAssumption
<1>e. then = <<>> \o then
  BY ConcatEmptySeq
<1>w. MinorCollection \in Seq(Work)
  BY CollectionIsWork
<1>1. ASSUME NEW n \in 1..MaxYoung, AllocSmall(n, then) PROVE OrderInv'
  <2>1. UNCHANGED <<increment, minorSize, chunks, heapSize, top, free>>
    BY <1>1 DEF AllocSmall, FillYoung, settings, heap
  <2>2. Increment' /\ HeapSizes'
    BY <2>1, OrderFacts DEF Increment, HeapSizes, NormIncr, Pages
  <2>3. CASE young + n <= minorSize
    <3>1. young' = young + n /\ todo' = then
      BY <1>1, <2>3 DEF AllocSmall, FillYoung
    <3>2. MinorSizesFit'
      BY <2>1, <2>3, <3>1, OrderFacts DEF MinorSizesFit
    <3>3. Chained'
      BY <1>e, <3>1, NoneIsWork, NothingIsLinked, PutBefore
    <3>. QED
      BY <2>2, <3>2, <3>3 DEF OrderInv
  <2>4. CASE ~(young + n <= minorSize)
    <3>. DEFINE room == <<Sized("young", n)>>
    <3>1. todo' = (MinorCollection \o room) \o then /\ young' = young
      BY <1>1, <2>4 DEF AllocSmall
    <3>2. room \in Seq(Work) /\ Linked(room) /\ Head(room).op = "young"
      BY <1>0, DoIsWork, OneIsWork, OneIsLinked
    <3>. HIDE DEF room
    <3>3. Linked(MinorCollection \o room)
      <4>1. Follows("empty", "young")
        BY DEF Follows, Clear, Clearing
      <4>. QED
        BY <1>w, <3>2, <4>1, CollectionIsLinked, LinkedConcat
    <3>4. /\ MinorCollection \o room \in Seq(Work)
          /\ Head(MinorCollection \o room).op = "collect"
      BY <1>w, <3>2, CollectionIsLinked, HeadOfConcat
    <3>5. Chained'
      BY <3>1, <3>3, <3>4, CollectsFirst, PutBefore
    <3>6. MinorSizesFit'
      BY <2>1, <3>1, OrderFacts DEF MinorSizesFit
    <3>. QED
      BY <2>2, <3>5, <3>6 DEF OrderInv
  <2>. QED
    BY <2>3, <2>4
<1>2. ASSUME NEW n \in 1..MaxWords, AllocLarge(n, then) PROVE OrderInv'
  <2>1. AllocShr(n) /\ todo' = then /\ UNCHANGED <<young, minorSize, increment>>
    BY <1>2 DEF AllocLarge, settings
  <2>2. n \in Nat
    BY <1>0
  <2>3. HeapSizes'
    BY <2>1, <2>2, OrderFacts, AllocKeepsSizes
  <2>4. Increment' /\ MinorSizesFit'
    BY <2>1, OrderFacts DEF Increment, MinorSizesFit, NormIncr, Pages
  <2>5. Chained'
    BY <1>e, <2>1, NoneIsWork, NothingIsLinked, PutBefore
  <2>. QED
    BY <2>3, <2>4, <2>5 DEF OrderInv
<1>3. CASE Call(then)
  <2>1. UNCHANGED <<young, minorSize, increment, chunks, heapSize, top, free>>
    BY <1>3 DEF Call, settings, heap
  <2>2. Increment' /\ HeapSizes' /\ MinorSizesFit'
    BY <2>1, OrderFacts DEF Increment, HeapSizes, MinorSizesFit, NormIncr, Pages
  <2>3. PICK w \in Seq(Work) : todo' = w \o then /\ Linked(w) /\ Head(w).op \in {"collect", "empty"}
    BY <1>3, <1>w, OperationsAreWork, CollectionIsLinked, OperationsAreLinked DEF Call
  <2>4. Chained'
    BY <2>3, CollectsFirst, PutBefore
  <2>. QED
    BY <2>2, <2>4 DEF OrderInv
<1>4. CASE Set(then)
  <2>1. UNCHANGED <<young, minorSize, chunks, heapSize, top, free>>
    BY <1>4 DEF Set, heap
  <2>2. HeapSizes' /\ MinorSizesFit'
    BY <2>1, OrderFacts DEF HeapSizes, MinorSizesFit
  <2>3. Increment'
    <3>1. PICK i \in Increments : increment' = NormIncr(i)
      BY <1>4 DEF Set
    <3>2. NormIncr(i) \in Nat /\ NormIncr(NormIncr(i)) = NormIncr(i)
      BY <1>0, IncrementIsRound
    <3>. QED
      BY <3>1, <3>2 DEF Increment, NormIncr, Pages
  <2>4. PICK s \in MinorSizes : todo' = (IF NormMin(s * WordSize) = minorSize * WordSize THEN <<>>
                ELSE (IF young # 0 THEN MinorCollection ELSE <<>>)
                     \o <<Sized("resize", NormMin(s * WordSize) \div WordSize)>>) \o then
    BY <1>4 DEF Set
  <2>. DEFINE resize == <<Sized("resize", NormMin(s * WordSize) \div WordSize)>>
  <2>5. resize \in Seq(Work) /\ Linked(resize) /\ Head(resize).op = "resize" /\ resize # <<>>
    BY NewSizeIsWork, DoIsWork, OneIsWork, OneIsLinked
  <2>. HIDE DEF resize
  <2>6. ASSUME todo' = <<>> \o then PROVE Chained'
    BY <2>6, NoneIsWork, NothingIsLinked, PutBefore
  <2>7. ASSUME young # 0 /\ todo' = (MinorCollection \o resize) \o then PROVE Chained'
    <3>1. Linked(MinorCollection \o resize)
      <4>1. Follows("empty", "resize")
        BY DEF Follows, Clear, Clearing
      <4>. QED
        BY <1>w, <2>5, <4>1, CollectionIsLinked, LinkedConcat
    <3>2. /\ MinorCollection \o resize \in Seq(Work)
          /\ Head(MinorCollection \o resize).op = "collect"
      BY <1>w, <2>5, CollectionIsLinked, HeadOfConcat
    <3>. QED
      BY <2>7, <3>1, <3>2, CollectsFirst, PutBefore
  <2>8. ASSUME young = 0 /\ todo' = (<<>> \o resize) \o then PROVE Chained'
    <3>1. <<>> \o resize = resize
      BY <2>5, ConcatEmptySeq
    <3>2. Ready("resize")'
      BY <2>1, <2>8 DEF Ready, Clear
    <3>. QED
      BY <2>5, <2>8, <3>1, <3>2, PutBefore
  <2>9. Chained'
    BY <2>4, <2>6, <2>7, <2>8 DEF resize
  <2>. QED
    BY <2>2, <2>3, <2>9 DEF OrderInv
<1>5. CASE Urgent(then)
  <2>1. todo' = MinorCollection \o then
        /\ UNCHANGED <<young, minorSize, increment, chunks, heapSize, top, free>>
    BY <1>5 DEF Urgent, settings, heap
  <2>2. Increment' /\ HeapSizes' /\ MinorSizesFit'
    BY <2>1, OrderFacts DEF Increment, HeapSizes, MinorSizesFit, NormIncr, Pages
  <2>3. Chained'
    BY <1>w, <2>1, CollectionIsLinked, CollectsFirst, PutBefore
  <2>. QED
    BY <2>2, <2>3 DEF OrderInv
<1>. QED
  BY <1>1, <1>2, <1>3, <1>4, <1>5 DEF Program

\* Operations in the place of the first, after the last of which as much may follow.
LEMMA PutInPlace ==
  ASSUME CountInv, Chained, todo # <<>>, NEW s \in Seq(Work), s # <<>>, Linked(s), todo' = s \o Tail(todo),
         \A b : Follows(Head(todo).op, b) => Follows(s[Len(s)].op, b), Ready(Head(s).op)'
  PROVE  Chained'
<1>1. todo \in Seq(Work) /\ Linked(todo)
  BY DEF CountInv, Amounts, Chained
<1>2. /\ Tail(todo) \in Seq(Work) /\ Linked(Tail(todo))
      /\ Tail(todo) # <<>> => Follows(s[Len(s)].op, Head(Tail(todo)).op)
  BY <1>1, RestIsLinked
<1>3. Linked(s \o Tail(todo))
  BY <1>2, LinkedConcat
<1>4. s \o Tail(todo) # <<>> /\ Head(s \o Tail(todo)) = Head(s)
  BY <1>2, HeadOfConcat
<1>. QED
  BY <1>3, <1>4 DEF Chained

LEMMA SettingsStay ==
  ASSUME CountInv, OrderInv, increment' = increment, minorSize' = minorSize, young' = young \/ young' = 0
  PROVE  Increment' /\ MinorSizesFit'
BY OrderFacts DEF Increment, MinorSizesFit, NormIncr, Pages

LEMMA SizesStay == ASSUME OrderInv, UNCHANGED heap PROVE HeapSizes'
BY DEF OrderInv, HeapSizes, heap

\* The first of what is to do, and that it is ready.
LEMMA FirstIsReady == ASSUME CountInv, OrderInv, NEW op, At(op)
                      PROVE  Head(todo).op = op /\ Ready(op) /\ todo # <<>>
BY DEF At, OrderInv, Chained

\* The steps that leave the settings and the sizes alone, and do the first of what is to do.
LEMMA JustPops ==
  ASSUME CountInv, OrderInv, todo # <<>>, todo' = Tail(todo), UNCHANGED <<heap, increment, minorSize, young>>,
         \A b : Ready(Head(todo).op) /\ Follows(Head(todo).op, b) => Ready(b)'
  PROVE  OrderInv'
BY SettingsStay, SizesStay, PopKeepsChain DEF OrderInv

LEMMA EmptyOrders ==
  ASSUME CountInv, OrderInv, NEW op \in {"empty", "collect"}, At(op), todo' = Tail(todo), UNCHANGED settings,
         NEW n \in 0..young, EmptyMinor(n)
  PROVE  OrderInv'
<1>1. n \in Nat /\ AllocShr(n) /\ young' = 0
  BY OrderFacts DEF EmptyMinor
<1>2. HeapSizes'
  BY <1>1, OrderFacts, AllocKeepsSizes
<1>3. Increment' /\ MinorSizesFit'
  BY <1>1, SettingsStay DEF settings
<1>4. \A b : Follows(op, b) => Ready(b)'
  BY <1>1 DEF Follows, Ready
<1>5. Head(todo).op = op /\ todo # <<>>
  BY FirstIsReady
<1>6. Chained'
  BY <1>4, <1>5, OrderFacts, PopKeepsChain
<1>. QED
  BY <1>2, <1>3, <1>6 DEF OrderInv

LEMMA MarkOrders == ASSUME CountInv, OrderInv, MarkSlice PROVE OrderInv'
<1>1. Head(todo).op = "slice" /\ Ready("slice") /\ todo # <<>>
  BY FirstIsReady DEF MarkSlice
<1>2. todo' = <<Do("account")>> \o Tail(todo) /\ UNCHANGED <<heap, increment, minorSize, young>>
  BY DEF MarkSlice, settings
<1>3. Do("account") \in Work /\ Do("account").op = "account"
  BY DoIsWork DEF Ops
<1>4. Ready("account")'
  BY <1>1, <1>2 DEF Ready, Clear
<1>5. \A b : Follows("slice", b) => Follows("account", b)
  BY DEF Follows, Clearing
<1>6. Chained'
  <2>. DEFINE s == <<Do("account")>>
  <2>1. s \in Seq(Work) /\ s # <<>> /\ Linked(s) /\ Head(s).op = "account" /\ s[Len(s)].op = "account"
    BY <1>3, OneIsWork, OneIsLinked
  <2>2. todo' = s \o Tail(todo)
    BY <1>2
  <2>. HIDE DEF s
  <2>. QED
    BY <1>1, <1>4, <1>5, <2>1, <2>2, OrderFacts, PutInPlace
<1>. QED
  BY <1>2, <1>6, SettingsStay, SizesStay DEF OrderInv

\* The sequences put in the place of an operation.
LEMMA SomeChains ==
  LET ma == Steps(<<"maybe", "account">>) a == Steps(<<"account">>)
      fc == Steps(<<"finish", "compact">>) c == Steps(<<"compact">>)
  IN /\ ma # <<>> /\ Linked(ma) /\ Head(ma).op = "maybe" /\ ma[Len(ma)].op = "account"
     /\ a # <<>> /\ Linked(a) /\ Head(a).op = "account" /\ a[Len(a)].op = "account"
     /\ fc # <<>> /\ Linked(fc) /\ Head(fc).op = "finish" /\ fc[Len(fc)].op = "compact"
     /\ c # <<>> /\ Linked(c) /\ Head(c).op = "compact" /\ c[Len(c)].op = "compact"
BY DEF Steps, Do, Linked, Follows, Clear, Clearing

LEMMA SweepOrders == ASSUME CountInv, OrderInv, SweepSlice PROVE OrderInv'
<1>1. Head(todo).op = "slice" /\ Ready("slice") /\ todo # <<>>
  BY FirstIsReady DEF SweepSlice
<1>2. UNCHANGED <<increment, minorSize, young>>
  BY DEF SweepSlice, settings
<1>3. HeapSizes'
  BY OrderFacts, SweepKeepsSizes DEF SweepSlice
<1>4. Ready("account")' /\ Ready("maybe")'
  BY <1>1, <1>2 DEF Ready, Clear
<1>5. \A b : Follows("slice", b) => Follows("account", b)
  BY DEF Follows, Clearing
<1>6. PICK s \in Seq(Work) : /\ s # <<>> /\ Linked(s) /\ s[Len(s)].op = "account" /\ todo' = s \o Tail(todo)
                             /\ Head(s).op \in {"maybe", "account"}
  <2>1. CASE todo' = Steps(<<"maybe", "account">>) \o Tail(todo)
    BY <2>1, SomeSteps, SomeChains
  <2>2. CASE todo' = Steps(<<"account">>) \o Tail(todo)
    BY <2>2, SomeSteps, SomeChains
  <2>. QED
    BY <2>1, <2>2 DEF SweepSlice
<1>7. Chained'
  BY <1>1, <1>4, <1>5, <1>6, OrderFacts, PutInPlace
<1>. QED
  BY <1>2, <1>3, <1>7, SettingsStay DEF OrderInv

LEMMA AccountOrders == ASSUME CountInv, OrderInv, Account PROVE OrderInv'
<1>1. Head(todo).op = "account" /\ Ready("account") /\ todo # <<>>
  BY FirstIsReady DEF Account
<1>2. todo' = Tail(todo) /\ allocated' = 0 /\ UNCHANGED <<heap, increment, minorSize, young, phase>>
  BY DEF Account, Accounted, settings
<1>3. \A b : Ready("account") /\ Follows("account", b) => Ready(b)'
  BY <1>2 DEF Ready, Follows, Clear
<1>. QED
  BY <1>1, <1>2, <1>3, JustPops

LEMMA FinishOrders == ASSUME CountInv, OrderInv, Finish PROVE OrderInv'
<1>1. Head(todo).op = "finish" /\ Ready("finish") /\ todo # <<>>
  BY FirstIsReady DEF Finish
<1>2. todo' = Tail(todo) /\ phase' = "idle" /\ UNCHANGED <<increment, minorSize, young>>
  BY DEF Finish, settings
<1>3. HeapSizes'
  BY OrderFacts, SweepKeepsSizes DEF Finish
<1>4. \A b : Ready("finish") /\ Follows("finish", b) => Ready(b)'
  BY <1>2 DEF Ready, Follows, Clear
<1>5. Chained'
  BY <1>1, <1>2, <1>4, OrderFacts, PopKeepsChain
<1>. QED
  BY <1>2, <1>3, <1>5, SettingsStay DEF OrderInv

LEMMA MaybeOrders == ASSUME CountInv, OrderInv, Maybe PROVE OrderInv'
<1>1. Head(todo).op = "maybe" /\ Ready("maybe") /\ todo # <<>>
  BY FirstIsReady DEF Maybe
<1>2. UNCHANGED <<heap, increment, minorSize, young, phase, allocated>>
  BY DEF Maybe, settings
<1>3. Tail(todo) \in Seq(Work)
  BY <1>1, RestIsWork DEF CountInv, Amounts
<1>4. CASE todo' = Steps(<<"finish", "compact">>) \o Tail(todo)
  <2>1. Ready("finish")'
    BY <1>1, <1>2 DEF Ready, Clear
  <2>2. \A b : Follows("maybe", b) => Follows("compact", b)
    BY DEF Follows, Clearing
  <2>3. Chained'
    BY <1>1, <1>4, <2>1, <2>2, OrderFacts, SomeSteps, SomeChains, PutInPlace
  <2>. QED
    BY <1>2, <2>3, SettingsStay, SizesStay DEF OrderInv
<1>5. CASE todo' = <<>> \o Tail(todo)
  <2>1. todo' = Tail(todo)
    BY <1>3, <1>5, ConcatEmptySeq
  <2>2. \A b : Ready("maybe") /\ Follows("maybe", b) => Ready(b)'
    BY <1>2 DEF Ready, Follows, Clear
  <2>. QED
    BY <1>1, <1>2, <2>1, <2>2, JustPops
<1>. QED
  BY <1>4, <1>5 DEF Maybe

LEMMA TestOrders == ASSUME CountInv, OrderInv, Test PROVE OrderInv'
<1>1. Head(todo).op = "test" /\ Ready("test") /\ todo # <<>>
  BY FirstIsReady DEF Test
<1>2. UNCHANGED <<heap, increment, minorSize, young, phase, allocated>>
  BY DEF Test, settings
<1>3. Tail(todo) \in Seq(Work)
  BY <1>1, RestIsWork DEF CountInv, Amounts
<1>4. CASE todo' = Steps(<<"compact">>) \o Tail(todo)
  <2>1. Ready("compact")'
    BY <1>1, <1>2 DEF Ready, Clear
  <2>2. \A b : Follows("test", b) => Follows("compact", b)
    BY DEF Follows, Clearing
  <2>3. Chained'
    BY <1>1, <1>4, <2>1, <2>2, OrderFacts, SomeSteps, SomeChains, PutInPlace
  <2>. QED
    BY <1>2, <2>3, SettingsStay, SizesStay DEF OrderInv
<1>5. CASE todo' = <<>> \o Tail(todo)
  <2>1. todo' = Tail(todo)
    BY <1>3, <1>5, ConcatEmptySeq
  <2>2. \A b : Ready("test") /\ Follows("test", b) => Ready(b)'
    BY <1>2 DEF Ready, Follows, Clear
  <2>. QED
    BY <1>1, <1>2, <2>1, <2>2, JustPops
<1>. QED
  BY <1>4, <1>5 DEF Test

LEMMA CompactedOrders == ASSUME CountInv, OrderInv, Compacted PROVE OrderInv'
<1>1. Head(todo).op = "compact" /\ Ready("compact") /\ todo # <<>>
  BY FirstIsReady DEF Compacted
<1>2. todo' = Tail(todo) /\ UNCHANGED <<increment, minorSize, young, phase, allocated>>
  BY DEF Compacted, settings
<1>3. HeapSizes'
  BY OrderFacts, SizesStay, ShrinkKeepsSizes DEF Compacted
<1>4. \A b : Ready("compact") /\ Follows("compact", b) => Ready(b)'
  BY <1>2 DEF Ready, Follows, Clear
<1>5. Chained'
  BY <1>1, <1>2, <1>4, OrderFacts, PopKeepsChain
<1>. QED
  BY <1>2, <1>3, <1>5, SettingsStay DEF OrderInv

LEMMA UnforceOrders == ASSUME CountInv, OrderInv, Unforce PROVE OrderInv'
<1>1. Head(todo).op = "unforce" /\ todo # <<>>
  BY FirstIsReady DEF Unforce
<1>2. todo' = Tail(todo) /\ UNCHANGED <<heap, increment, minorSize, young>>
  BY DEF Unforce, settings
<1>3. \A b : Ready("unforce") /\ Follows("unforce", b) => Ready(b)'
  BY <1>2 DEF Ready, Follows, Clear
<1>. QED
  BY <1>1, <1>2, <1>3, JustPops

\* After a finaliser nothing may come that needs anything.
LEMMA NothingNeeds == \A a \in {"final", "ended", "young"} : \A b : Follows(a, b) => Ready(b)'
BY DEF Follows, Clearing, Clear, Ready

LEMMA FinaliserOrders == ASSUME CountInv, OrderInv, Finaliser PROVE OrderInv'
<1>. DEFINE ended == <<Do("ended")>>
<1>1. Head(todo).op = "final" /\ todo # <<>> /\ todo \in Seq(Work) /\ Linked(todo)
  BY FirstIsReady, OrderFacts DEF Finaliser, CountInv, Amounts, Chained
<1>2. Do("ended") \in Work /\ Do("ended").op = "ended"
  BY DoIsWork DEF Ops
<1>3. ended \in Seq(Work) /\ Linked(ended) /\ Head(ended).op = "ended" /\ ended # <<>>
  BY <1>2, OneIsWork, OneIsLinked
<1>4. Program(ended \o todo)
  BY DEF Finaliser
<1>. HIDE DEF ended
<1>5. Loose(todo)
  BY <1>1 DEF Loose, Clear
<1>6. /\ ended \o todo \in Seq(Work) /\ Linked(ended \o todo) /\ Head(ended \o todo).op = "ended"
  BY <1>1, <1>3, <1>5, LooseConcat, HeadOfConcat
<1>7. Loose(ended \o todo)
  BY <1>6 DEF Loose, Clear
<1>. QED
  BY <1>4, <1>6, <1>7, ProgramOrders

\* An allocation that waited has an empty minor heap, which holds any small block.
LEMMA AgainOrders == ASSUME CountInv, OrderInv, AllocAgain PROVE OrderInv'
<1>1. Head(todo).op = "young" /\ Ready("young") /\ todo # <<>>
  BY FirstIsReady DEF AllocAgain
<1>2. Head(todo) \in Work
  BY <1>1, RestIsWork DEF CountInv, Amounts
<1>3. Head(todo).size \in Nat /\ Head(todo).size <= MaxYoung
  BY <1>1, <1>2 DEF Work
<1>4. young = 0
  BY <1>1 DEF Ready, Clear
<1>5. young' = Head(todo).size /\ todo' = Tail(todo) /\ UNCHANGED <<heap, increment, minorSize>>
  BY <1>3, <1>4 DEF AllocAgain, FillYoung, settings
<1>6. MaxYoung <= minorSize
  <2>1. \A a, b, m \in Nat, w \in Nat \ {0} : a * w <= m /\ m <= b * w => a <= b
    <3>1. \A a, b \in Nat, w \in Nat \ {0} : b < a => b * w < a * w
      OBVIOUS
    <3>2. \A a \in Nat, w \in Nat \ {0} : a * w \in Nat
      OBVIOUS
    <3>. QED
      BY <3>1, <3>2
  <2>. QED
    BY <2>1, OrderFacts, GcAssumption DEF MinorSizesFit
<1>7. MinorSizesFit'
  <2>1. Head(todo).size <= minorSize
    BY <1>3, <1>6, OrderFacts, GcAssumption
  <2>2. MinorMin <= minorSize * WordSize
    BY OrderFacts DEF MinorSizesFit
  <2>. QED
    BY <1>5, <2>1, <2>2 DEF MinorSizesFit
<1>8. Increment'
  BY <1>5, OrderFacts DEF Increment, NormIncr, Pages
<1>9. Chained'
  BY <1>1, <1>5, NothingNeeds, OrderFacts, PopKeepsChain
<1>. QED
  BY <1>5, <1>7, <1>8, <1>9, SizesStay DEF OrderInv

LEMMA ResizeOrders == ASSUME CountInv, OrderInv, Resize PROVE OrderInv'
<1>1. Head(todo).op = "resize" /\ Ready("resize") /\ todo # <<>>
  BY FirstIsReady DEF Resize
<1>2. Head(todo) \in Work
  BY <1>1, RestIsWork DEF CountInv, Amounts
<1>3. Head(todo).size \in Nat /\ MinorMin <= Head(todo).size * WordSize
  BY <1>1, <1>2 DEF Work
<1>4. /\ minorSize' = Head(todo).size /\ todo' = Tail(todo)
      /\ UNCHANGED <<heap, increment, young, phase, allocated>>
  BY DEF Resize
<1>5. young = 0
  BY <1>1 DEF Ready, Clear
<1>6. MinorSizesFit'
  BY <1>3, <1>4, <1>5 DEF MinorSizesFit
<1>7. Increment'
  BY <1>4, OrderFacts DEF Increment, NormIncr, Pages
<1>8. \A b : Ready("resize") /\ Follows("resize", b) => Ready(b)'
  BY <1>4 DEF Ready, Follows, Clear
<1>9. Chained'
  BY <1>1, <1>4, <1>8, OrderFacts, PopKeepsChain
<1>. QED
  BY <1>4, <1>6, <1>7, <1>9, SizesStay DEF OrderInv

LEMMA OrderInit == Init => OrderInv
<1>. SUFFICES ASSUME Init PROVE OrderInv
  OBVIOUS
<1>1. ChunkMin \in Nat \ {0} /\ MinorMin \in Nat /\ WordSize \in Nat \ {0} /\ MinorSizes \cup Increments \subseteq Nat
  BY GcAssumption
<1>2. Chained
  BY NothingIsLinked DEF Init, Chained
<1>3. Increment
  BY <1>1, IncrementIsRound DEF Init, Increment
<1>4. HeapSizes
  BY <1>1 DEF Init, HeapSizes
<1>5. MinorSizesFit
  <2>1. minorSize \in Nat /\ MinorMin <= minorSize /\ young = 0
    BY <1>1 DEF Init, NormMin, MaxOf
  <2>2. \A a, b \in Nat, w \in Nat \ {0} : a <= b => a <= b * w
    OBVIOUS
  <2>. QED
    BY <1>1, <2>1, <2>2 DEF MinorSizesFit
<1>. QED
  BY <1>2, <1>3, <1>4, <1>5 DEF OrderInv

LEMMA OrderStep == ASSUME CountInv, OrderInv, [Next]_vars PROVE OrderInv'
<1>1. CASE Ask
  BY <1>1, NoneIsWork, NothingIsLinked, ProgramOrders DEF Ask
<1>2. CASE Empty
  BY <1>2, EmptyOrders DEF Empty
<1>3. CASE Collect
  BY <1>3, EmptyOrders DEF Collect
<1>4. CASE FinalRaises \/ ResizeFails
  <2>1. todo' = <<>> /\ UNCHANGED <<heap, increment, minorSize, young>>
    BY <1>4 DEF FinalRaises, ResizeFails, settings
  <2>2. Chained'
    BY <2>1, NothingIsLinked DEF Chained
  <2>. QED
    BY <2>1, <2>2, SettingsStay, SizesStay DEF OrderInv
<1>5. CASE FinalDone \/ Ended
  <2>1. Head(todo).op \in {"final", "ended"} /\ todo # <<>>
    BY <1>5, FirstIsReady DEF FinalDone, Ended
  <2>2. todo' = Tail(todo) /\ UNCHANGED <<heap, increment, minorSize, young>>
    BY <1>5 DEF FinalDone, Ended, settings
  <2>. QED
    BY <2>1, <2>2, NothingNeeds, JustPops
<1>6. CASE UNCHANGED vars
  <2>1. UNCHANGED <<heap, increment, minorSize, young, todo, phase, allocated>>
    BY <1>6 DEF vars, heap
  <2>2. Chained'
    BY <2>1 DEF OrderInv, Chained, Ready
  <2>. QED
    BY <2>1, <2>2, SettingsStay, SizesStay DEF OrderInv
<1>. QED
  BY <1>1, <1>2, <1>3, <1>4, <1>5, <1>6, MarkOrders, SweepOrders, AccountOrders, FinishOrders, MaybeOrders,
     TestOrders, CompactedOrders, UnforceOrders, FinaliserOrders, AgainOrders, ResizeOrders DEF Next

\* The collectors take turns and the sizes keep to their limits, for every size of the heaps
\* and every setting: when the major collector, the compacter or a resize comes, nothing is left
\* in the minor heap; no allocation overruns it; and the free words, the heap and its highest
\* size are in order (caml_minor_collection, caml_gc_set, caml_compact_heap_maybe).
THEOREM CollectionsStayInOrder == Spec => []CollectionsAreInOrder
<1>1. ASSUME CountInv, OrderInv PROVE CollectionsAreInOrder
  <2>1. MajorWorksAlone
    BY <1>1 DEF OrderInv, Chained, Ready, Clear, MajorWorksAlone
  <2>2. MinorHeapFits /\ SizesAreOrdered
    BY <1>1, OrderFacts DEF MinorHeapFits, SizesAreOrdered, MinorSizesFit, HeapSizes
  <2>3. NormMin(minorSize * WordSize) = minorSize * WordSize
    <3>1. minorSize * WordSize \in Nat /\ MinorMin \in Nat /\ MinorMin <= minorSize * WordSize
      BY <1>1, OrderFacts, GcAssumption DEF MinorSizesFit
    <3>. QED
      BY <3>1 DEF NormMin, MaxOf
  <2>4. SizesAreStable
    BY <1>1, <2>3, OrderFacts DEF SizesAreStable, Increment
  <2>. QED
    BY <2>1, <2>2, <2>4 DEF CollectionsAreInOrder
<1>2. Init => CountInv /\ OrderInv
  BY CountInit, OrderInit
<1>3. CountInv /\ OrderInv /\ [Next]_vars => CountInv' /\ OrderInv'
  BY CountStep, OrderStep
<1>. QED
  BY <1>1, <1>2, <1>3, PTL DEF Spec

\* A request for a slice is dropped only by the step that ends a minor collection, and there all
\* the words allocated in the major heap have been accounted for (caml_minor_collection).
THEOREM RequestsAreAlwaysServed == Spec => RequestsAreServed
<1>1. ASSUME CountInv, OrderInv, [Next]_vars PROVE [force /\ ~force' => allocated = 0]_vars
  <2>1. CASE Unforce
    BY <1>1, <2>1, FirstIsReady DEF Unforce, Ready
  <2>2. ASSUME ~Unforce, force, [Next]_vars PROVE force'
    <3>1. CASE Ask
      BY <2>2, <3>1 DEF Ask, Program, AllocSmall, FillYoung, AllocLarge, AllocShr, Call, Set, Urgent
    <3>2. CASE Finaliser
      BY <2>2, <3>2 DEF Finaliser, Program, AllocSmall, FillYoung, AllocLarge, AllocShr, Call, Set, Urgent
    <3>3. CASE Empty \/ Collect
      BY <2>2, <3>3 DEF Empty, Collect, EmptyMinor, AllocShr
    <3>4. CASE UNCHANGED vars
      BY <2>2, <3>4 DEF vars
    <3>. QED
      BY <2>2, <3>1, <3>2, <3>3, <3>4
         DEF Next, MarkSlice, SweepSlice, Account, Finish, Maybe, Test, Compacted, FinalRaises, FinalDone,
             AllocAgain, FillYoung, Resize, ResizeFails, Ended
  <2>. QED
    BY <1>1, <2>1, <2>2
<1>2. Init => CountInv /\ OrderInv
  BY CountInit, OrderInit
<1>3. CountInv /\ OrderInv /\ [Next]_vars => CountInv' /\ OrderInv'
  BY CountStep, OrderStep
<1>. QED
  BY <1>1, <1>2, <1>3, PTL DEF Spec, RequestsAreServed

(* ---------------------------- The heap's chunks -------------------------- *)
\* The function that Total takes its value from.
Sums(f, n, s) == f = [k \in 0..n |-> IF k = 0 THEN 0 ELSE f[k - 1] + s[k]]

LEMMA SumsExist == \A s : \A n \in Nat : \E f : Sums(f, n, s)
<1>. SUFFICES ASSUME NEW s PROVE \A n \in Nat : \E f : Sums(f, n, s)
  OBVIOUS
<1>. DEFINE S == {n \in Nat : \E f : Sums(f, n, s)}
<1>1. 0 \in S
  <2>. DEFINE f == [k \in 0..0 |-> 0]
  <2>1. f = [k \in 0..0 |-> IF k = 0 THEN 0 ELSE f[k - 1] + s[k]]
    OBVIOUS
  <2>. QED
    BY <2>1 DEF Sums
<1>2. ASSUME NEW n \in Nat, n \in S PROVE n + 1 \in S
  <2>1. PICK f : Sums(f, n, s)
    BY <1>2
  <2>. DEFINE g == [k \in 0..(n + 1) |-> IF k = n + 1 THEN f[n] + s[n + 1] ELSE f[k]]
  <2>2. \A k \in 0..n : g[k] = f[k]
    OBVIOUS
  <2>3. ASSUME NEW k \in 0..(n + 1) PROVE g[k] = IF k = 0 THEN 0 ELSE g[k - 1] + s[k]
    <3>1. CASE k = n + 1
      <4>1. n \in 0..n /\ k - 1 = n /\ k # 0
        BY <3>1
      <4>. QED
        BY <2>2, <3>1, <4>1
    <3>2. CASE k \in 0..n /\ k # 0
      <4>1. k - 1 \in 0..n
        BY <3>2
      <4>2. f[k] = f[k - 1] + s[k]
        BY <2>1, <3>2 DEF Sums
      <4>. QED
        BY <2>2, <3>2, <4>1, <4>2
    <3>3. CASE k = 0
      <4>1. f[0] = 0 /\ 0 \in 0..n
        BY <2>1 DEF Sums
      <4>. QED
        BY <2>2, <3>3, <4>1
    <3>. QED
      BY <3>1, <3>2, <3>3
  <2>4. g = [k \in 0..(n + 1) |-> IF k = 0 THEN 0 ELSE g[k - 1] + s[k]]
    BY <2>3
  <2>5. Sums(g, n + 1, s)
    BY <2>4 DEF Sums
  <2>. QED
    BY <2>5
<1>3. Nat \subseteq S
  <2>. HIDE DEF S
  <2>. QED
    BY <1>1, <1>2, W!Induction
<1>. QED
  BY <1>3

LEMMA TotalIs == ASSUME NEW s \in Seq(Nat)
                 PROVE  \E f : Sums(f, Len(s), s) /\ Total(s) = f[Len(s)]
<1>. DEFINE f == CHOOSE g : Sums(g, Len(s), s)
<1>0. Len(s) \in Nat
  OBVIOUS
<1>1. Sums(f, Len(s), s)
  BY <1>0, SumsExist, Zenon
<1>2. Total(s) = f[Len(s)]
  BY Zenon DEF Total, Sums
<1>. QED
  BY <1>1, <1>2

\* Its values, one by one, are numbers.
LEMMA SumsAre ==
  ASSUME NEW n \in Nat, NEW s, \A k \in 1..n : s[k] \in Nat, NEW f, Sums(f, n, s)
  PROVE  f[0] = 0 /\ \A k \in 0..n : f[k] \in Nat /\ (k # 0 => f[k] = f[k - 1] + s[k])
<1>1. \A k \in 0..n : f[k] = IF k = 0 THEN 0 ELSE f[k - 1] + s[k]
  BY DEF Sums
<1>. DEFINE S == {k \in Nat : k <= n => f[k] \in Nat}
<1>2. 0 \in S
  BY <1>1
<1>3. ASSUME NEW k \in Nat, k \in S PROVE k + 1 \in S
  <2>1. CASE k + 1 <= n
    <3>1. k \in 0..n /\ k + 1 \in 0..n /\ k + 1 \in 1..n /\ k + 1 # 0 /\ (k + 1) - 1 = k
      BY <2>1
    <3>2. f[k] \in Nat /\ s[k + 1] \in Nat
      BY <1>3, <3>1
    <3>3. f[k + 1] = f[k] + s[k + 1]
      BY <1>1, <3>1
    <3>. QED
      BY <3>2, <3>3
  <2>2. CASE ~(k + 1 <= n)
    BY <2>2
  <2>. QED
    BY <2>1, <2>2
<1>4. Nat \subseteq S
  <2>. HIDE DEF S
  <2>. QED
    BY <1>2, <1>3, W!Induction
<1>5. \A k \in 0..n : f[k] \in Nat
  BY <1>4
<1>. QED
  BY <1>1, <1>5

\* Two such functions agree as far as their sequences do.
LEMMA SumsAgree ==
  ASSUME NEW n \in Nat, NEW m \in Nat, NEW r, NEW s, NEW f, NEW g, Sums(f, n, s), Sums(g, m, r),
         NEW j \in Nat, j <= n, j <= m, \A k \in 1..j : s[k] = r[k]
  PROVE  f[j] = g[j]
<1>1. /\ \A k \in 0..n : f[k] = IF k = 0 THEN 0 ELSE f[k - 1] + s[k]
      /\ \A k \in 0..m : g[k] = IF k = 0 THEN 0 ELSE g[k - 1] + r[k]
  BY DEF Sums
<1>. DEFINE S == {k \in Nat : k <= j => f[k] = g[k]}
<1>2. 0 \in S
  BY <1>1
<1>3. ASSUME NEW k \in Nat, k \in S PROVE k + 1 \in S
  <2>1. CASE k + 1 <= j
    <3>1. k <= j /\ k + 1 \in 0..n /\ k + 1 \in 0..m /\ k + 1 \in 1..j /\ k + 1 # 0 /\ (k + 1) - 1 = k
      BY <2>1
    <3>2. f[k] = g[k] /\ s[k + 1] = r[k + 1]
      BY <1>3, <3>1
    <3>3. f[k + 1] = f[k] + s[k + 1] /\ g[k + 1] = g[k] + r[k + 1]
      BY <1>1, <3>1
    <3>. QED
      BY <3>2, <3>3
  <2>2. CASE ~(k + 1 <= j)
    BY <2>2
  <2>. QED
    BY <2>1, <2>2
<1>4. Nat \subseteq S
  <2>. HIDE DEF S
  <2>. QED
    BY <1>2, <1>3, W!Induction
<1>. QED
  BY <1>4

LEMMA TotalOfOneMore == ASSUME NEW s \in Seq(Nat), NEW c \in Nat
                        PROVE  Total(Append(s, c)) = Total(s) + c /\ Total(s) \in Nat
<1>. DEFINE r == Append(s, c)
            n == Len(s)
<1>1. /\ r \in Seq(Nat) /\ Len(r) = n + 1 /\ n \in Nat /\ r[n + 1] = c
      /\ \A k \in 1..n : s[k] = r[k] /\ s[k] \in Nat
      /\ \A k \in 1..(n + 1) : r[k] \in Nat
  OBVIOUS
<1>2. PICK f : Sums(f, n, s) /\ Total(s) = f[n]
  BY TotalIs
<1>3. PICK g : Sums(g, n + 1, r) /\ Total(r) = g[n + 1]
  BY <1>1, TotalIs
<1>. HIDE DEF r, n
<1>4. n + 1 \in Nat /\ n <= n /\ n <= n + 1 /\ n + 1 \in 0..(n + 1) /\ n \in 0..n /\ n + 1 # 0 /\ (n + 1) - 1 = n
  BY <1>1
<1>5. f[n] = g[n]
  BY <1>1, <1>2, <1>3, <1>4, SumsAgree
<1>6. g[n + 1] = g[n] + c
  <2>1. \A k \in 0..(n + 1) : g[k] = IF k = 0 THEN 0 ELSE g[k - 1] + r[k]
    BY <1>3 DEF Sums
  <2>. QED
    BY <1>1, <1>4, <2>1
<1>7. f[n] \in Nat
  BY <1>1, <1>2, <1>4, SumsAre
<1>. QED
  BY <1>2, <1>3, <1>5, <1>6, <1>7 DEF r

LEMMA TotalOfOneLess == ASSUME NEW s \in Seq(Nat), NEW i \in 1..Len(s)
                        PROVE  Total(RemoveAt(s, i)) = Total(s) - s[i]
<1>. DEFINE r == RemoveAt(s, i)
            n == Len(s)
<1>1. /\ r \in Seq(Nat) /\ Len(r) = n - 1 /\ n \in Nat /\ n # 0 /\ n - 1 \in Nat /\ i \in 1..n
      /\ \A k \in 1..n : s[k] \in Nat
  <2>1. i \in DOMAIN s
    OBVIOUS
  <2>2. r \in Seq(Nat) /\ Len(r) = Len(s) - 1
    BY <2>1, W!RemovedAt DEF RemoveAt, W!RemoveAt
  <2>3. Len(s) \in Nat /\ Len(s) # 0 /\ Len(s) - 1 \in Nat /\ \A k \in 1..Len(s) : s[k] \in Nat
    OBVIOUS
  <2>. QED
    BY <2>2, <2>3
<1>2. \A k \in 1..(n - 1) : r[k] = IF k < i THEN s[k] ELSE s[k + 1]
  <2>1. i \in DOMAIN s
    OBVIOUS
  <2>. QED
    BY <2>1, W!RemovedAt DEF RemoveAt, W!RemoveAt
<1>3. PICK f : Sums(f, n, s) /\ Total(s) = f[n]
  BY TotalIs
<1>4. PICK g : Sums(g, n - 1, r) /\ Total(r) = g[n - 1]
  BY <1>1, TotalIs
<1>. HIDE DEF r, n
<1>5. \A k \in 0..n : f[k] \in Nat /\ (k # 0 => f[k] = f[k - 1] + s[k])
  BY <1>1, <1>3, SumsAre
<1>6. \A k \in 0..(n - 1) : k # 0 => g[k] = g[k - 1] + r[k]
  BY <1>1, <1>4 DEF Sums
<1>. DEFINE S == {k \in Nat : i - 1 <= k /\ k <= n - 1 => g[k] = f[k + 1] - s[i]}
<1>7. i - 1 \in Nat /\ i - 1 <= n - 1 /\ i - 1 <= n /\ i \in 0..n /\ i # 0
  BY <1>1
<1>8. g[i - 1] = f[i - 1]
  <2>1. \A k \in 1..(i - 1) : s[k] = r[k]
    BY <1>1, <1>2
  <2>. QED
    BY <1>1, <1>3, <1>4, <1>7, <2>1, SumsAgree
<1>9. g[i - 1] = f[(i - 1) + 1] - s[i]
  <2>1. (i - 1) + 1 = i /\ f[i] = f[i - 1] + s[i] /\ f[i - 1] \in Nat /\ s[i] \in Nat
    BY <1>1, <1>5, <1>7
  <2>. QED
    BY <1>8, <2>1
<1>10. 0 \in S
  <2>1. i - 1 <= 0 => i - 1 = 0
    BY <1>7
  <2>. QED
    BY <1>9, <2>1
<1>11. ASSUME NEW k \in Nat, k \in S PROVE k + 1 \in S
  <2>. SUFFICES ASSUME i - 1 <= k + 1, k + 1 <= n - 1 PROVE g[k + 1] = f[(k + 1) + 1] - s[i]
    OBVIOUS
  <2>1. CASE k + 1 = i - 1
    BY <1>9, <2>1
  <2>2. CASE i - 1 <= k
    <3>1. /\ k + 1 \in 0..(n - 1) /\ k + 1 \in 1..(n - 1) /\ k + 1 # 0 /\ (k + 1) - 1 = k /\ ~(k + 1 < i)
          /\ k + 2 \in 0..n /\ k + 2 # 0 /\ (k + 2) - 1 = k + 1 /\ (k + 1) + 1 = k + 2 /\ k + 1 \in 0..n
          /\ k + 2 \in 1..n
      BY <1>1, <2>2
    <3>2. g[k] = f[k + 1] - s[i]
      BY <1>11, <2>2, <1>1
    <3>3. g[k + 1] = g[k] + s[k + 2]
      BY <1>2, <1>6, <3>1
    <3>4. f[k + 2] = f[k + 1] + s[k + 2] /\ f[k + 1] \in Nat /\ s[k + 2] \in Nat /\ s[i] \in Nat
      BY <1>1, <1>5, <3>1
    <3>. QED
      BY <3>1, <3>2, <3>3, <3>4
  <2>. QED
    BY <2>1, <2>2, <1>1
<1>12. Nat \subseteq S
  <2>. HIDE DEF S
  <2>. QED
    BY <1>10, <1>11, W!Induction
<1>13. g[n - 1] = f[(n - 1) + 1] - s[i] /\ (n - 1) + 1 = n
  BY <1>1, <1>7, <1>12
<1>. QED
  BY <1>3, <1>4, <1>13 DEF r

\* Each step adds a chunk, gives one back, or leaves them as they are.
LEMMA ChunkSteps ==
  ASSUME CountInv, OrderInv, [Next]_vars
  PROVE  \/ chunks' = chunks /\ heapSize' = heapSize
         \/ \E c \in Nat : chunks' = Append(chunks, c) /\ heapSize' = heapSize + c
         \/ \E i \in 1..Len(chunks) : chunks' = RemoveAt(chunks, i) /\ heapSize' = heapSize - chunks[i]
<1>. DEFINE Moves == \/ chunks' = chunks /\ heapSize' = heapSize
                     \/ \E c \in Nat : chunks' = Append(chunks, c) /\ heapSize' = heapSize + c
                     \/ \E i \in 1..Len(chunks) : chunks' = RemoveAt(chunks, i) /\ heapSize' = heapSize - chunks[i]
<1>. SUFFICES Moves
  OBVIOUS
<1>1. ASSUME NEW n \in Nat, AllocShr(n) PROVE Moves
  <2>1. RoundChunk(n) \in Nat
    BY ChunkHolds DEF OrderInv, Increment
  <2>. QED
    BY <1>1, <2>1 DEF AllocShr, AddToHeap
<1>2. ASSUME UNCHANGED heap PROVE Moves
  BY <1>2 DEF heap
<1>3. ASSUME NEW g, Swept(g) PROVE Moves
  BY <1>3 DEF Swept
<1>4. ASSUME NEW then, Program(then) PROVE Moves
  <2>1. ASSUME NEW n \in Nat, AllocSmall(n, then) PROVE UNCHANGED heap
    BY <2>1 DEF AllocSmall, FillYoung
  <2>2. ASSUME NEW n \in 1..MaxWords, AllocLarge(n, then) PROVE Moves
    <3>1. n \in Nat /\ AllocShr(n)
      BY <2>2, GcAssumption DEF AllocLarge
    <3>. QED
      BY <1>1, <3>1
  <2>3. ASSUME Call(then) \/ Set(then) \/ Urgent(then) PROVE UNCHANGED heap
    BY <2>3 DEF Call, Set, Urgent
  <2>4. \A n \in 1..MaxYoung : n \in Nat
    BY GcAssumption
  <2>. HIDE DEF Moves
  <2>. QED
    BY <1>2, <1>4, <2>1, <2>2, <2>3, <2>4 DEF Program
<1>5. ASSUME \E n \in 0..young : EmptyMinor(n) PROVE Moves
  <2>1. PICK n \in 0..young : EmptyMinor(n)
    BY <1>5
  <2>2. n \in Nat /\ AllocShr(n)
    BY <2>1 DEF EmptyMinor, CountInv, Amounts
  <2>. QED
    BY <1>1, <2>2
<1>6. ASSUME Compacted PROVE Moves
  <2>1. ASSUME NEW i \in 2..Len(chunks), Shrink(i) PROVE Moves
    <3>1. i \in 1..Len(chunks)
      OBVIOUS
    <3>. QED
      BY <2>1, <3>1 DEF Shrink
  <2>. HIDE DEF Moves
  <2>. QED
    BY <1>2, <1>6, <2>1 DEF Compacted
<1>7. ASSUME Empty \/ Collect PROVE Moves
  <2>. HIDE DEF Moves
  <2>. QED
    BY <1>5, <1>7 DEF Empty, Collect
<1>8. ASSUME SweepSlice \/ Finish PROVE Moves
  <2>. HIDE DEF Moves
  <2>. QED
    BY <1>3, <1>8 DEF SweepSlice, Finish
<1>9. ASSUME Ask \/ Finaliser PROVE Moves
  <2>. HIDE DEF Moves
  <2>. QED
    BY <1>4, <1>9 DEF Ask, Finaliser
<1>10. ASSUME MarkSlice \/ Account \/ Maybe \/ Test \/ Unforce \/ FinalRaises \/ FinalDone PROVE UNCHANGED heap
  BY <1>10 DEF MarkSlice, Account, Maybe, Test, Unforce, FinalRaises, FinalDone
<1>11. ASSUME AllocAgain \/ Resize \/ ResizeFails \/ Ended \/ UNCHANGED vars PROVE UNCHANGED heap
  BY <1>11 DEF AllocAgain, FillYoung, Resize, ResizeFails, Ended, vars, heap
<1>. HIDE DEF Moves
<1>. QED
  BY <1>2, <1>6, <1>7, <1>8, <1>9, <1>10, <1>11 DEF Next

LEMMA ChunksInit == Init => HeapIsItsChunks
<1>. SUFFICES ASSUME Init PROVE HeapIsItsChunks
  OBVIOUS
<1>1. chunks = Append(<<>>, ChunkMin) /\ heapSize = ChunkMin /\ ChunkMin \in Nat /\ <<>> \in Seq(Nat) /\ Len(<<>>) = 0
  BY GcAssumption DEF Init
<1>2. Total(<<>>) = 0
  <2>1. PICK f : Sums(f, 0, <<>>) /\ Total(<<>>) = f[0]
    BY <1>1, TotalIs
  <2>. QED
    BY <2>1 DEF Sums
<1>3. Total(chunks) = 0 + ChunkMin
  BY <1>1, <1>2, TotalOfOneMore
<1>. QED
  BY <1>1, <1>3 DEF HeapIsItsChunks

LEMMA ChunksStep == ASSUME CountInv, OrderInv, HeapIsItsChunks, [Next]_vars PROVE HeapIsItsChunks'
<1>. chunks \in Seq(Nat) /\ heapSize = Total(chunks)
  BY DEF OrderInv, HeapSizes, HeapIsItsChunks
<1>1. CASE chunks' = chunks /\ heapSize' = heapSize
  BY <1>1 DEF HeapIsItsChunks
<1>2. ASSUME NEW c \in Nat, chunks' = Append(chunks, c), heapSize' = heapSize + c PROVE HeapIsItsChunks'
  BY <1>2, TotalOfOneMore DEF HeapIsItsChunks
<1>3. ASSUME NEW i \in 1..Len(chunks), chunks' = RemoveAt(chunks, i), heapSize' = heapSize - chunks[i]
      PROVE  HeapIsItsChunks'
  BY <1>3, TotalOfOneLess DEF HeapIsItsChunks
<1>. QED
  BY <1>1, <1>2, <1>3, ChunkSteps

(* ----------------------- The table of young pointers --------------------- *)
Shape == /\ table \in Seq(Cells) /\ youngCells \subseteq Cells
         /\ size \in Nat /\ threshold \in Nat /\ limit \in Nat /\ end \in Nat
         /\ base \in BOOLEAN /\ forceSlice \in BOOLEAN /\ fresh \in BOOLEAN /\ finalising \in BOOLEAN

\* Without an array all is nothing; with one the reserve lies past the threshold, and the limit
\* is at one of its ends.
Sizes == /\ ~base => table = <<>> /\ limit = 0 /\ threshold = 0
         /\ base => /\ size > 0 /\ threshold = size /\ end = size + Reserve
                    /\ limit = threshold \/ limit = end
         /\ Len(table) <= limit /\ limit <= end

\* Behind the threshold only with a slice urged; and before it in an empty minor heap.
Urging == /\ limit # threshold => forceSlice
          /\ ~fresh => limit = threshold

TableInv == Shape /\ Sizes /\ Urging /\ NoneIsForgotten

LEMMA EmptyTable == <<>> \in Seq(Cells) /\ Len(<<>>) = 0
OBVIOUS

LEMMA TableInit == RefInit => TableInv
<1>. SUFFICES ASSUME RefInit PROVE TableInv
  OBVIOUS
<1>1. Shape
  BY EmptyTable DEF RefInit, Shape
<1>2. Sizes
  BY EmptyTable DEF RefInit, Sizes
<1>3. Urging
  BY DEF RefInit, Urging
<1>4. NoneIsForgotten
  BY DEF RefInit, NoneIsForgotten
<1>. QED
  BY <1>1, <1>2, <1>3, <1>4 DEF TableInv

\* A full table gets room for one entry more.
LEMMA ReallocMakesRoom ==
  ASSUME Shape, Sizes, Full, Realloc
  PROVE  /\ base' = TRUE /\ size' \in Nat /\ threshold' \in Nat /\ limit' \in Nat /\ end' \in Nat
         /\ forceSlice' \in BOOLEAN /\ size' > 0 /\ threshold' = size' /\ end' = size' + Reserve
         /\ limit' = threshold' \/ limit' = end'
         /\ Len(table) + 1 <= limit' /\ limit' <= end'
<1>. USE TableAssumption DEF Shape, Sizes, Full
<1>1. CASE ~base
  BY <1>1 DEF Realloc, Allocated, Limits
<1>2. CASE base /\ limit = threshold
  BY <1>2 DEF Realloc, Urged, Limits
<1>3. CASE base /\ limit # threshold
  BY <1>3 DEF Realloc, Doubled, Limits
<1>. QED
  BY <1>1, <1>2, <1>3

\* The slice is urged before the table leaves its threshold behind.
LEMMA ReallocUrges ==
  ASSUME Shape, Sizes, Urging, Realloc
  PROVE  (limit' # threshold' => forceSlice') /\ (size' > size /\ base => forceSlice)
<1>. USE TableAssumption DEF Shape, Sizes, Urging
<1>1. CASE ~base
  BY <1>1 DEF Realloc, Allocated, Limits
<1>2. CASE base /\ limit = threshold
  BY <1>2 DEF Realloc, Urged, Limits
<1>3. CASE base /\ limit # threshold
  BY <1>3 DEF Realloc, Doubled, Limits
<1>. QED
  BY <1>1, <1>2, <1>3

LEMMA StoreKeeps == ASSUME TableInv, NEW c \in Cells, StoreYoung(c) PROVE TableInv'
<1>. USE DEF TableInv
<1>1. fresh' = fresh /\ finalising' = finalising /\ youngCells' = youngCells \cup {c} /\ fresh
  BY DEF StoreYoung
<1>2. CASE c \in youngCells
  <2>1. UNCHANGED <<table, base, size, threshold, limit, end, forceSlice>>
    BY <1>2 DEF StoreYoung
  <2>. QED
    BY <1>1, <1>2, <2>1 DEF Shape, Sizes, Urging, NoneIsForgotten
<1>3. CASE c \notin youngCells
  <2>1. table' = Append(table, c)
    BY <1>3 DEF StoreYoung
  <2>2. table' \in Seq(Cells) /\ Len(table') = Len(table) + 1 /\ Len(table) \in Nat
    BY <2>1 DEF Shape
  <2>3. NoneIsForgotten'
    <3>1. ASSUME NEW d \in youngCells' PROVE \E i \in DOMAIN table' : table'[i] = d
      <4>1. CASE d = c
        <5>1. Len(table) + 1 \in DOMAIN table' /\ table'[Len(table) + 1] = c
          BY <2>1 DEF Shape
        <5>. QED
          BY <4>1, <5>1
      <4>2. CASE d \in youngCells
        <5>1. PICK i \in DOMAIN table : table[i] = d
          BY <4>2 DEF NoneIsForgotten
        <5>2. i \in DOMAIN table' /\ table'[i] = d
          BY <2>1, <5>1 DEF Shape
        <5>. QED
          BY <5>2
      <4>. QED
        BY <1>1, <3>1, <4>1, <4>2
    <3>. QED
      BY <1>1, <3>1 DEF NoneIsForgotten
  <2>4. CASE Full
    <3>1. Realloc
      BY <1>3, <2>4 DEF StoreYoung
    <3>2. Shape'
      BY <1>1, <2>2, <2>4, <3>1, ReallocMakesRoom DEF Shape
    <3>3. Sizes'
      BY <2>2, <2>4, <3>1, ReallocMakesRoom DEF Sizes
    <3>4. Urging'
      BY <1>1, <3>1, ReallocUrges DEF Urging
    <3>. QED
      BY <2>3, <3>2, <3>3, <3>4
  <2>5. CASE ~Full
    <3>1. UNCHANGED <<base, size, threshold, limit, end, forceSlice>>
      BY <1>3, <2>5 DEF StoreYoung
    <3>2. Len(table') <= limit
      BY <2>2, <2>5 DEF Full, Shape
    <3>3. base
      BY <2>2, <3>2 DEF Shape, Sizes
    <3>. QED
      BY <1>1, <2>2, <2>3, <3>1, <3>2, <3>3 DEF Shape, Sizes, Urging
  <2>. QED
    BY <2>4, <2>5
<1>. QED
  BY <1>2, <1>3

\* A minor collection follows every entry, so no field is left with a young value.
LEMMA EmptyKeeps == ASSUME TableInv, EmptyMinorHeap, UNCHANGED <<base, size, threshold, end>>
                    PROVE  /\ youngCells' = {} /\ table' \in Seq(Cells) /\ limit' = threshold /\ fresh' = FALSE
                           /\ Sizes'
<1>. USE DEF TableInv
<1>1. CASE fresh
  <2>1. table' = <<>> /\ limit' = threshold /\ fresh' = FALSE
    BY <1>1 DEF EmptyMinorHeap
  <2>2. youngCells' = {}
    BY <1>1 DEF EmptyMinorHeap, NoneIsForgotten
  <2>3. table' \in Seq(Cells) /\ Len(table') = 0
    BY <2>1, EmptyTable
  <2>4. Sizes'
    <3>1. 0 <= threshold /\ threshold <= end
      BY TableAssumption DEF Shape, Sizes
    <3>. QED
      BY <2>1, <2>3, <3>1 DEF Shape, Sizes
  <2>. QED
    BY <2>1, <2>2, <2>3, <2>4
<1>2. CASE ~fresh
  BY <1>2 DEF EmptyMinorHeap, NoneIsForgotten, Urging, Shape, Sizes
<1>. QED
  BY <1>1, <1>2 DEF Shape

LEMMA TableStep == TableInv /\ [RefNext]_refVars => TableInv'
<1>. SUFFICES ASSUME TableInv, [RefNext]_refVars PROVE TableInv'
  OBVIOUS
<1>1. ASSUME NEW c \in Cells, StoreYoung(c) PROVE TableInv'
  BY <1>1, StoreKeeps
<1>2. ASSUME NEW c \in Cells, StoreOld(c) PROVE TableInv'
  BY <1>2 DEF TableInv, StoreOld, Shape, Sizes, Urging, NoneIsForgotten
<1>3. CASE Allocate
  BY <1>3 DEF TableInv, Allocate, Shape, Sizes, Urging, NoneIsForgotten
<1>4. CASE CollectMinor
  <2>1. EmptyMinorHeap /\ UNCHANGED <<base, size, threshold, end>> /\ forceSlice' = FALSE /\ finalising' = TRUE
    BY <1>4 DEF CollectMinor
  <2>2. /\ youngCells' = {} /\ table' \in Seq(Cells) /\ limit' = threshold /\ fresh' = FALSE /\ Sizes'
    BY <2>1, EmptyKeeps
  <2>. QED
    BY <2>1, <2>2 DEF TableInv, Shape, Urging, NoneIsForgotten
<1>5. CASE Finalised
  <2>1. EmptyMinorHeap /\ UNCHANGED <<base, size, threshold, end>> /\ forceSlice' = forceSlice /\ finalising' = FALSE
    BY <1>5 DEF Finalised
  <2>2. /\ youngCells' = {} /\ table' \in Seq(Cells) /\ limit' = threshold /\ fresh' = FALSE /\ Sizes'
    BY <2>1, EmptyKeeps
  <2>. QED
    BY <2>1, <2>2 DEF TableInv, Shape, Urging, NoneIsForgotten
<1>6. CASE SetMinorHeapSize
  <2>1. /\ base' = FALSE /\ size' = 0 /\ threshold' = 0 /\ limit' = 0 /\ end' = 0 /\ table' = <<>>
        /\ UNCHANGED <<forceSlice, youngCells, fresh, finalising>> /\ ~fresh
    BY <1>6 DEF SetMinorHeapSize, Limits
  <2>2. Shape'
    BY <2>1, EmptyTable DEF TableInv, Shape
  <2>3. Sizes'
    BY <2>1, EmptyTable DEF Sizes
  <2>4. Urging' /\ NoneIsForgotten'
    BY <2>1 DEF TableInv, Urging, NoneIsForgotten
  <2>. QED
    BY <2>2, <2>3, <2>4 DEF TableInv
<1>7. CASE UNCHANGED refVars
  BY <1>7 DEF refVars, TableInv, Shape, Sizes, Urging, NoneIsForgotten
<1>. QED
  BY <1>1, <1>2, <1>3, <1>4, <1>5, <1>6, <1>7 DEF RefNext

\* Every field with a young value has its entry at every moment, so no collection of the minor
\* heap leaves a field pointing into it, and the entries never leave the array (caml_modify,
\* caml_empty_minor_heap, caml_realloc_ref_table).
THEOREM TableStaysComplete == RefSpec => []TableIsComplete
<1>1. TableInv => TableIsComplete
  BY TableAssumption DEF TableInv, Shape, Sizes, LimitsAreInOrder, TableIsComplete
<1>. QED
  BY <1>1, TableInit, TableStep, PTL DEF RefSpec

\* The array is made larger only when a slice has been urged (the assertion of
\* caml_realloc_ref_table).
THEOREM GrowthIsAlwaysUrged == RefSpec => GrowthIsUrged
<1>1. ASSUME TableInv, [RefNext]_refVars PROVE [size' > size /\ base => forceSlice]_refVars
  <2>. USE <1>1 DEF TableInv
  <2>2. ASSUME size' = size PROVE size' > size /\ base => forceSlice
    BY <2>2 DEF Shape
  <2>1. ASSUME NEW c \in Cells, StoreYoung(c) PROVE size' > size /\ base => forceSlice
    <3>1. Realloc \/ size' = size
      BY <2>1 DEF StoreYoung
    <3>. QED
      BY <2>2, <3>1, ReallocUrges
  <2>3. ASSUME NEW c \in Cells, StoreOld(c) PROVE size' = size
    BY <2>3 DEF StoreOld
  <2>4. CASE Allocate \/ CollectMinor \/ Finalised
    BY <2>4, <2>2 DEF Allocate, CollectMinor, Finalised
  <2>5. CASE SetMinorHeapSize
    BY <2>5 DEF SetMinorHeapSize, Limits, Shape
  <2>. QED
    BY <2>1, <2>2, <2>3, <2>4, <2>5 DEF RefNext
<1>. QED
  BY <1>1, TableInit, TableStep, PTL DEF RefSpec, GrowthIsUrged

(* ------------------------------ The run's heaps -------------------------- *)
\* The heap of the part that a behaviour runs keeps to the invariant of GcHeap.
HeapsInv == /\ part = "weak" => W!HeapInv
            /\ part = "final" => F!HeapInv

LEMMA HeapsInit == AllInit => HeapsInv
<1>. SUFFICES ASSUME AllInit PROVE HeapsInv
  OBVIOUS
<1>1. (part = "weak" => W!Init) /\ (part = "final" => F!Init)
  BY DEF AllInit
<1>. QED
  BY <1>1, W!HeapInvInit, F!HeapInvInit, HeapAssumptions DEF HeapsInv

LEMMA HeapsStep == HeapsInv /\ [AllNext]_allVars => HeapsInv'
<1>. SUFFICES ASSUME HeapsInv, [AllNext]_allVars PROVE HeapsInv'
  OBVIOUS
<1>1. part' = part
  BY DEF AllNext, ControlStep, WeakStep, FinalStep, QuietStep, allVars
<1>2. ASSUME part = "weak" PROVE W!HeapInv'
  <2>1. [W!Next]_(W!vars)
    BY <1>2 DEF AllNext, ControlStep, WeakStep, FinalStep, QuietStep, allVars, heapVars, W!vars
  <2>. QED
    BY <1>2, <2>1, W!HeapInvNext, HeapAssumptions DEF HeapsInv
<1>3. ASSUME part = "final" PROVE F!HeapInv'
  <2>1. [F!Next]_(F!vars)
    BY <1>3 DEF AllNext, ControlStep, WeakStep, FinalStep, QuietStep, allVars, heapVars, F!vars
  <2>. QED
    BY <1>3, <2>1, F!HeapInvNext, HeapAssumptions DEF HeapsInv
<1>. QED
  BY <1>1, <1>2, <1>3 DEF HeapsInv

\* Whatever the program can reach is kept by both collectors, in the heap with weak arrays and in
\* the one with finalisation functions.
THEOREM ReachableStaysKept == AllSpec => []ReachableIsKept
<1>1. AllInit => HeapsInv
  BY HeapsInit
<1>2. HeapsInv /\ [AllNext]_allVars => HeapsInv'
  BY HeapsStep
<1>3. HeapsInv => ReachableIsKept
  BY HeapAssumptions, W!HeapInvShows, F!HeapInvShows DEF HeapsInv, ReachableIsKept
<1>. QED
  BY <1>1, <1>2, <1>3, PTL DEF AllSpec

\* The size of the heap is at every moment that of its chunks, however often it grew and was
\* compacted, and the headers of the marked heaps are in order: none gray outside a marking or
\* forgotten by it, none marked where the sweep has passed.
THEOREM HeapsStayWhole == AllSpec => []HeapsAreWhole
<1>. DEFINE IInv == CountInv /\ OrderInv /\ HeapIsItsChunks /\ HeapsInv
<1>1. AllInit => IInv
  <2>1. AllInit => Init
    BY DEF AllInit
  <2>. QED
    BY <2>1, CountInit, OrderInit, ChunksInit, HeapsInit
<1>2. IInv /\ [AllNext]_allVars => IInv'
  <2>1. [AllNext]_allVars => [Next]_vars
    BY DEF AllNext, ControlStep, WeakStep, FinalStep, QuietStep, allVars
  <2>. QED
    BY <2>1, CountStep, OrderStep, ChunksStep, HeapsStep
<1>3. IInv => HeapsAreWhole
  BY HeapAssumptions, W!HeapInvShows, F!HeapInvShows DEF HeapsInv, HeapsAreWhole
<1>. QED
  BY <1>1, <1>2, <1>3, PTL DEF AllSpec
==============================================================================
