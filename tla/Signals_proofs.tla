---------------------------- MODULE Signals_proofs ----------------------------
(***************************************************************************)
(* The discipline of signals, for every number of signals and arrivals and *)
(* however the Entered nest: the mode and the mask say what runs, no      *)
(* handler runs before its table entry exists, and whatever is recorded or *)
(* urged is looked at.  The invariant describes the C stack from the top   *)
(* down; what it says of a flag is a matter of the frame that is exposed,  *)
(* the innermost one that is no handle_signal.                             *)
(***************************************************************************)
EXTENDS Signals, SequenceTheorems, TLAPS

(* ------------------------------- The stack ------------------------------- *)
AboutSignal == {"handle", "handled", "exec", "execIn", "running", "runningIn", "install",
                "replace", "table", "fault"}
\* The frames there are: a scan counts from one, what is about a signal has one.
Frames == {f \in [at : Places, sig : Nat, saved : SUBSET Sig, ran : BOOLEAN] :
             (f.at = "scan" => f.sig > 0) /\ (f.at \in AboutSignal => f.sig \in Sig)}

Placed(P) == {f \in Frames : f.at \in P}
Blocking == Placed({"entered", "syscall", "leave"})
Events == Placed({"event"})
Looks == Placed({"event", "process"})
Asleep == {f \in Frames : f.at = "syscall" /\ ~f.ran}
RanHandles == {f \in Frames : f.at = "handle" /\ f.ran}
NonHandles == {f \in Frames : f.at # "handle"}
Installs(g) == {f \in Frames : f.at = "install" /\ f.sig = g}
Scans(g) == {f \in Frames : f.at = "scan" /\ f.sig <= g}
Runners == {"handle", "handled", "running", "runningIn", "execIn"}
Runs(g) == {f \in Frames : f.at \in Runners /\ f.sig = g}

\* A frame of F is on the stack s; it is there under frames of handle_signal only; the
\* stack holds Caml code, so that an exception has where to go; the signals that run in s.
Has(s, F) == \E i \in DOMAIN s : s[i] \in F
Exposed(s, F) == \E i \in DOMAIN s : s[i] \in F /\ \A j \in 1..i - 1 : s[j].at = "handle"
Catches(s) == \E i \in DOMAIN s : s[i].at = "ml" /\ \A j \in 1..i - 1 : s[j].at # "ml"
Running(s) == {g \in Sig : Has(s, Runs(g))}

\* The signals with an entry in the table, or a collection that has come in its place.
Entered == handlers \cup unentered
LEMMA SameEntered == UNCHANGED <<handlers, unentered>> => Entered' = Entered
BY DEF Entered

\* Frame f may lie over the stack t, with the hs the signals with an entry or a collection in its place: handle_signal runs for a
\* signal whose entry is there, or about to be; it has left the blocking section under it; a
\* handler runs with its entry there, and f saved the mask of what runs under it.
Fits(f, t, hs, quiet) ==
  IF t = <<>> THEN f.at = "ml"
  ELSE /\ Catches(t) /\ Exposed(t, NonHandles)
       /\ f.at = "ml" => Head(t).at \in {"running", "runningIn", "finalise"}
       /\ f.at = "finalise" => Head(t).at \in {"process", "replace", "table"}
       /\ f.at \in {"process", "scan"} => Head(t).at \in {"ml", "enter"}
       /\ f.at \in {"event", "install", "replace", "table", "enter", "entered", "syscall", "leave"} =>
            Head(t).at = "ml"
       /\ f.at \in {"exec", "running"} => Head(t).at = "scan"
       /\ f.at \in {"execIn", "runningIn"} => Head(t).at = "handled" /\ Head(t).sig = f.sig
       /\ f.at = "handle" => f.sig \in hs \/ Exposed(t, Installs(f.sig))
       /\ f.at = "handled" => Exposed(t, Blocking)
       /\ f.at \in {"handled", "exec", "execIn", "running", "runningIn", "replace", "table", "fault"} =>
            f.sig \in hs
       /\ quiet /\ f.at \in {"handle", "handled", "running"} => f.saved = Running(t)
Under(s, i) == SubSeq(s, i + 1, Len(s))
Nested(s, hs, quiet) == \A i \in 1..Len(s) : Fits(s[i], Under(s, i), hs, quiet)
Stack(s, hs, quiet) == s \in Seq(Frames) /\ s # <<>> /\ Nested(s, hs, quiet)

(* ----------------------------- The invariant ----------------------------- *)
Tables == /\ pending \subseteq Sig /\ action \subseteq Sig /\ handlers \subseteq Sig /\ unentered \subseteq Sig
          /\ mask \subseteq Sig /\ sent \in 0..MaxSent
          /\ arePending \in BOOLEAN /\ somethingToDo \in BOOLEAN /\ forceSlice \in BOOLEAN
          /\ asyncMode \in BOOLEAN /\ mayRaise \in BOOLEAN /\ finalising \in BOOLEAN
Stacked == Stack(stack, Entered, ~mayRaise)
Modes == asyncMode <=> Exposed(stack, Blocking)
Entries == \A g \in pending \cup action : g \in Entered \/ Exposed(stack, Installs(g))
Sleeps == Exposed(stack, Asleep) /\ arePending => Exposed(stack, RanHandles)
Slices == forceSlice => somethingToDo \/ Exposed(stack, Events)
\* Unless handlers and finalisers may raise.
Polls == arePending => somethingToDo \/ Has(stack, Looks)
InView == \A g \in pending : arePending \/ Has(stack, Scans(g))
Masked == mask = Running(stack)
Quiet == mayRaise \/ (Polls /\ InView /\ Masked)

SignalInv == Tables /\ Stacked /\ Modes /\ Entries /\ Sleeps /\ Slices /\ Quiet

(* ---------------------------- Stacks of frames --------------------------- *)
LEMMA FrameFields == ASSUME NEW f \in Frames
                     PROVE  /\ f.at \in Places /\ f.sig \in Nat /\ f.saved \in SUBSET Sig /\ f.ran \in BOOLEAN
                            /\ f.at \in AboutSignal => f.sig \in Sig
                            /\ f.at = "scan" => f.sig > 0
BY DEF Frames

\* A frame that goes on to another place, about the same signal.
LEMMA Moved == ASSUME NEW f \in Frames, NEW p \in Places \ {"scan"}, p \in AboutSignal => f.sig \in Sig
               PROVE  /\ [f EXCEPT !.at = p] \in Frames /\ [f EXCEPT !.at = p].at = p
                      /\ [f EXCEPT !.at = p].sig = f.sig /\ [f EXCEPT !.at = p].saved = f.saved
                      /\ [f EXCEPT !.at = p].ran = f.ran
BY DEF Frames

\* One frame over a stack.
LEMMA Cons == ASSUME NEW f \in Frames, NEW t \in Seq(Frames)
              PROVE  /\ <<f>> \o t \in Seq(Frames) /\ <<f>> \o t # <<>>
                     /\ Head(<<f>> \o t) = f /\ Tail(<<f>> \o t) = t
                     /\ Len(<<f>> \o t) = Len(t) + 1 /\ DOMAIN (<<f>> \o t) = 1..Len(t) + 1
                     /\ Len(t) \in Nat /\ DOMAIN t = 1..Len(t)
                     /\ (<<f>> \o t)[1] = f /\ \A i \in 1..Len(t) : (<<f>> \o t)[i + 1] = t[i]
<1>. DEFINE s == <<f>> \o t
<1>1. <<f>> \in Seq(Frames) /\ Len(<<f>>) = 1 /\ <<f>>[1] = f
  OBVIOUS
<1>2. /\ s \in Seq(Frames) /\ Len(s) = Len(t) + 1 /\ Len(t) \in Nat
      /\ \A i \in 1..Len(t) + 1 : s[i] = IF i <= 1 THEN <<f>>[i] ELSE t[i - 1]
  BY <1>1, ConcatProperties, LenProperties
<1>3. DOMAIN s = 1..Len(t) + 1 /\ DOMAIN t = 1..Len(t)
  BY <1>2, LenProperties
<1>4. s[1] = f /\ \A i \in 1..Len(t) : s[i + 1] = t[i]
  BY <1>1, <1>2
<1>5. s # <<>>
  BY <1>2, EmptySeq
<1>6. Head(s) = f
  BY <1>2, <1>4, <1>5
<1>7. Tail(s) \in Seq(Frames) /\ Len(Tail(s)) = Len(t) /\ \A i \in 1..Len(t) : Tail(s)[i] = t[i]
  BY <1>2, <1>4, <1>5, HeadTailProperties
<1>8. Tail(s) = t
  BY <1>7, SeqEqual
<1>. QED
  BY <1>2, <1>3, <1>4, <1>5, <1>6, <1>8

LEMMA TopAndRest == ASSUME NEW s \in Seq(Frames), s # <<>>
                    PROVE  /\ Head(s) \in Frames /\ Tail(s) \in Seq(Frames) /\ s = <<Head(s)>> \o Tail(s)
                           /\ Head(s) = s[1] /\ Len(s) \in Nat \ {0}
<1>1. /\ Head(s) \in Frames /\ Tail(s) \in Seq(Frames) /\ Len(Tail(s)) = Len(s) - 1
      /\ \A i \in 1..Len(Tail(s)) : Tail(s)[i] = s[i + 1]
  BY HeadTailProperties
<1>2. Len(s) \in Nat \ {0} /\ Head(s) = s[1]
  BY EmptySeq
<1>. DEFINE t == <<Head(s)>> \o Tail(s)
<1>3. /\ t \in Seq(Frames) /\ Len(t) = Len(s) /\ t[1] = s[1]
      /\ \A i \in 1..Len(s) - 1 : t[i + 1] = s[i + 1]
  BY <1>1, <1>2, Cons
<1>4. \A i \in 1..Len(s) : t[i] = s[i]
  <2>1. \A i \in 1..Len(s) : i = 1 \/ (i - 1 \in 1..Len(s) - 1 /\ (i - 1) + 1 = i)
    BY <1>2
  <2>. QED
    BY <1>3, <2>1
<1>5. t = s
  BY <1>3, <1>4, SeqEqual
<1>. QED
  BY <1>1, <1>2, <1>5

LEMMA HasCons == ASSUME NEW f \in Frames, NEW t \in Seq(Frames), NEW F
                 PROVE  Has(<<f>> \o t, F) <=> f \in F \/ Has(t, F)
<1>. DEFINE s == <<f>> \o t
<1>1. /\ DOMAIN s = 1..Len(t) + 1 /\ DOMAIN t = 1..Len(t) /\ Len(t) \in Nat /\ s[1] = f
      /\ \A i \in 1..Len(t) : s[i + 1] = t[i]
  BY Cons
<1>. HIDE DEF s
<1>2. ASSUME NEW i \in 1..Len(t) + 1, s[i] \in F PROVE f \in F \/ Has(t, F)
  <2>1. i = 1 \/ (i - 1 \in 1..Len(t) /\ s[i] = t[i - 1])
    BY <1>1
  <2>. QED
    BY <1>1, <1>2, <2>1 DEF Has
<1>3. ASSUME NEW i \in 1..Len(t), t[i] \in F PROVE Has(s, F)
  <2>1. i + 1 \in DOMAIN s /\ s[i + 1] = t[i]
    BY <1>1
  <2>. QED
    BY <1>3, <2>1 DEF Has
<1>4. f \in F => Has(s, F)
  <2>1. 1 \in DOMAIN s
    BY <1>1
  <2>. QED
    BY <1>1, <2>1 DEF Has
<1>5. Has(s, F) <=> f \in F \/ Has(t, F)
  BY <1>1, <1>2, <1>3, <1>4 DEF Has
<1>. QED
  BY <1>5 DEF s

LEMMA ExposedCons == ASSUME NEW f \in Frames, NEW t \in Seq(Frames), NEW F
                     PROVE  Exposed(<<f>> \o t, F) <=> f \in F \/ (f.at = "handle" /\ Exposed(t, F))
<1>. DEFINE s == <<f>> \o t
<1>1. /\ DOMAIN s = 1..Len(t) + 1 /\ DOMAIN t = 1..Len(t) /\ Len(t) \in Nat /\ s[1] = f
      /\ \A i \in 1..Len(t) : s[i + 1] = t[i]
  BY Cons
<1>. HIDE DEF s
<1>2. ASSUME NEW i \in 1..Len(t) + 1, s[i] \in F, \A j \in 1..i - 1 : s[j].at = "handle"
      PROVE  f \in F \/ (f.at = "handle" /\ Exposed(t, F))
  <2>1. CASE i = 1
    BY <1>1, <1>2, <2>1
  <2>2. CASE i # 1
    <3>1. i - 1 \in DOMAIN t /\ s[i] = t[i - 1] /\ 1 \in 1..i - 1
      BY <1>1, <2>2
    <3>2. \A j \in 1..(i - 1) - 1 : j + 1 \in 1..i - 1 /\ t[j] = s[j + 1]
      BY <1>1, <2>2
    <3>3. \A j \in 1..(i - 1) - 1 : t[j].at = "handle"
      BY <1>2, <3>2
    <3>4. Exposed(t, F)
      BY <1>2, <3>1, <3>3 DEF Exposed
    <3>. QED
      BY <1>1, <1>2, <3>1, <3>4
  <2>. QED
    BY <2>1, <2>2
<1>3. ASSUME NEW i \in 1..Len(t), t[i] \in F, \A j \in 1..i - 1 : t[j].at = "handle", f.at = "handle"
      PROVE  Exposed(s, F)
  <2>1. i + 1 \in DOMAIN s /\ s[i + 1] = t[i]
    BY <1>1
  <2>2. ASSUME NEW j \in 1..(i + 1) - 1 PROVE s[j].at = "handle"
    <3>1. j = 1 \/ (j - 1 \in 1..i - 1 /\ j - 1 \in 1..Len(t) /\ (j - 1) + 1 = j)
      BY <1>1
    <3>. QED
      BY <1>1, <1>3, <3>1
  <2>. QED
    BY <1>3, <2>1, <2>2 DEF Exposed
<1>4. f \in F => Exposed(s, F)
  <2>1. 1 \in DOMAIN s /\ \A j \in 1..1 - 1 : s[j].at = "handle"
    BY <1>1
  <2>. QED
    BY <1>1, <2>1 DEF Exposed
<1>5. Exposed(s, F) <=> f \in F \/ (f.at = "handle" /\ Exposed(t, F))
  BY <1>1, <1>2, <1>3, <1>4 DEF Exposed
<1>. QED
  BY <1>5 DEF s

LEMMA CatchesCons == ASSUME NEW f \in Frames, NEW t \in Seq(Frames), f.at = "ml" \/ Catches(t)
                     PROVE  Catches(<<f>> \o t)
<1>. DEFINE s == <<f>> \o t
<1>1. /\ DOMAIN s = 1..Len(t) + 1 /\ DOMAIN t = 1..Len(t) /\ Len(t) \in Nat /\ s[1] = f
      /\ \A i \in 1..Len(t) : s[i + 1] = t[i]
  BY Cons
<1>. HIDE DEF s
<1>2. CASE f.at = "ml"
  <2>1. 1 \in DOMAIN s /\ \A j \in 1..1 - 1 : s[j].at # "ml"
    BY <1>1
  <2>2. Catches(s)
    BY <1>1, <1>2, <2>1 DEF Catches
  <2>. QED
    BY <2>2 DEF s
<1>3. CASE f.at # "ml" /\ Catches(t)
  <2>1. PICK i \in 1..Len(t) : t[i].at = "ml" /\ \A j \in 1..i - 1 : t[j].at # "ml"
    BY <1>1, <1>3 DEF Catches
  <2>2. i + 1 \in DOMAIN s /\ s[i + 1] = t[i]
    BY <1>1
  <2>3. ASSUME NEW j \in 1..(i + 1) - 1 PROVE s[j].at # "ml"
    <3>1. j = 1 \/ (j - 1 \in 1..i - 1 /\ j - 1 \in 1..Len(t) /\ (j - 1) + 1 = j)
      BY <1>1
    <3>. QED
      BY <1>1, <1>3, <2>1, <3>1
  <2>4. Catches(s)
    BY <2>1, <2>2, <2>3 DEF Catches
  <2>. QED
    BY <2>4 DEF s
<1>. QED
  BY <1>2, <1>3

LEMMA RunningCons ==
  ASSUME NEW f \in Frames, NEW t \in Seq(Frames)
  PROVE  Running(<<f>> \o t) = Running(t) \cup (IF f.at \in Runners THEN {f.sig} ELSE {})
<1>1. \A g \in Sig : Has(<<f>> \o t, Runs(g)) <=> f \in Runs(g) \/ Has(t, Runs(g))
  BY HasCons
<1>2. \A g : f \in Runs(g) <=> f.at \in Runners /\ f.sig = g
  BY DEF Runs
<1>3. f.at \in Runners => f.sig \in Sig
  BY FrameFields DEF AboutSignal, Runners
<1>. QED
  BY <1>1, <1>2, <1>3 DEF Running

LEMMA NestedCons ==
  ASSUME NEW f \in Frames, NEW t \in Seq(Frames), NEW hs, NEW quiet
  PROVE  Nested(<<f>> \o t, hs, quiet) <=> Fits(f, t, hs, quiet) /\ Nested(t, hs, quiet)
<1>. DEFINE s == <<f>> \o t
<1>1. /\ s \in Seq(Frames) /\ s # <<>> /\ Tail(s) = t /\ Len(s) = Len(t) + 1 /\ Len(t) \in Nat /\ s[1] = f
      /\ \A i \in 1..Len(t) : s[i + 1] = t[i]
  BY Cons
<1>. HIDE DEF s
<1>2. Under(s, 1) = t
  <2>1. Tail(s) = SubSeq(s, 2, Len(s))
    BY <1>1, TailIsSubSeq
  <2>. QED
    BY <1>1, <2>1 DEF Under
<1>3. ASSUME NEW i \in 1..Len(t) PROVE Under(s, i + 1) = Under(t, i)
  <2>1. \A k \in (i + 1) + 1..Len(s) : s[k] \in Frames
    BY <1>1, ElementOfSeq
  <2>2. \A k \in i + 1..Len(t) : t[k] \in Frames
    BY <1>1, ElementOfSeq
  <2>3. /\ Under(s, i + 1) \in Seq(Frames) /\ Len(Under(s, i + 1)) = Len(t) - i
        /\ \A k \in 1..Len(t) - i : Under(s, i + 1)[k] = s[i + 1 + k]
    <3>1. (i + 1) + 1 \in Int /\ Len(s) \in Int
      BY <1>1
    <3>2. /\ SubSeq(s, (i + 1) + 1, Len(s)) \in Seq(Frames)
          /\ Len(SubSeq(s, (i + 1) + 1, Len(s))) =
               IF (i + 1) + 1 <= Len(s) THEN Len(s) - ((i + 1) + 1) + 1 ELSE 0
          /\ \A k \in 1..Len(s) - ((i + 1) + 1) + 1 :
               SubSeq(s, (i + 1) + 1, Len(s))[k] = s[((i + 1) + 1) + k - 1]
      BY <2>1, <3>1, SubSeqProperties
    <3>3. \A k \in Int : ((i + 1) + 1) + k - 1 = i + 1 + k
      OBVIOUS
    <3>. QED
      BY <1>1, <3>2, <3>3 DEF Under
  <2>4. /\ Under(t, i) \in Seq(Frames) /\ Len(Under(t, i)) = Len(t) - i
        /\ \A k \in 1..Len(t) - i : Under(t, i)[k] = t[i + k]
    <3>2. /\ SubSeq(t, i + 1, Len(t)) \in Seq(Frames)
          /\ Len(SubSeq(t, i + 1, Len(t))) = IF i + 1 <= Len(t) THEN Len(t) - (i + 1) + 1 ELSE 0
          /\ \A k \in 1..Len(t) - (i + 1) + 1 : SubSeq(t, i + 1, Len(t))[k] = t[(i + 1) + k - 1]
      BY <1>1, <2>2, SubSeqProperties
    <3>3. \A k \in Int : (i + 1) + k - 1 = i + k
      OBVIOUS
    <3>. QED
      BY <1>1, <3>2, <3>3 DEF Under
  <2>5. \A k \in 1..Len(t) - i : i + k \in 1..Len(t) /\ i + 1 + k = (i + k) + 1
    BY <1>1
  <2>6. \A k \in 1..Len(t) - i : Under(s, i + 1)[k] = Under(t, i)[k]
    BY <1>1, <2>3, <2>4, <2>5
  <2>. QED
    BY <2>3, <2>4, <2>6, SeqEqual
<1>4. ASSUME Nested(s, hs, quiet) PROVE Fits(f, t, hs, quiet) /\ Nested(t, hs, quiet)
  <2>1. 1 \in 1..Len(s) /\ \A i \in 1..Len(t) : i + 1 \in 1..Len(s)
    BY <1>1
  <2>2. Fits(f, t, hs, quiet)
    BY <1>1, <1>2, <1>4, <2>1 DEF Nested
  <2>3. \A i \in 1..Len(t) : Fits(t[i], Under(t, i), hs, quiet)
    BY <1>1, <1>3, <1>4, <2>1 DEF Nested
  <2>. QED
    BY <2>2, <2>3 DEF Nested
<1>5. ASSUME Fits(f, t, hs, quiet), Nested(t, hs, quiet) PROVE Nested(s, hs, quiet)
  <2>1. ASSUME NEW i \in 1..Len(s) PROVE Fits(s[i], Under(s, i), hs, quiet)
    <3>1. i = 1 \/ (i - 1 \in 1..Len(t) /\ (i - 1) + 1 = i)
      BY <1>1
    <3>2. CASE i = 1
      BY <1>1, <1>2, <1>5, <3>2
    <3>3. CASE i - 1 \in 1..Len(t) /\ (i - 1) + 1 = i
      <4>1. Fits(t[i - 1], Under(t, i - 1), hs, quiet)
        BY <1>5, <3>3 DEF Nested
      <4>2. Under(s, i) = Under(t, i - 1) /\ s[i] = t[i - 1]
        BY <1>1, <1>3, <3>3
      <4>. QED
        BY <4>1, <4>2
    <3>. QED
      BY <3>1, <3>2, <3>3
  <2>. QED
    BY <2>1 DEF Nested
<1>. QED
  BY <1>4, <1>5 DEF s

\* Which kinds a frame is of.
LEMMA Kinds == ASSUME NEW f \in Frames
               PROVE  /\ f \in Blocking <=> f.at \in {"entered", "syscall", "leave"}
                      /\ f \in Events <=> f.at = "event"
                      /\ f \in Looks <=> f.at \in {"event", "process"}
                      /\ f \in Asleep <=> f.at = "syscall" /\ ~f.ran
                      /\ f \in RanHandles <=> f.at = "handle" /\ f.ran
                      /\ f \in NonHandles <=> f.at # "handle"
                      /\ \A g : f \in Installs(g) <=> f.at = "install" /\ f.sig = g
                      /\ \A g : f \in Scans(g) <=> f.at = "scan" /\ f.sig <= g
BY DEF Blocking, Events, Looks, Placed, Asleep, RanHandles, NonHandles, Installs, Scans

\* The stack seen from its top.
LEMMA Opened ==
  ASSUME NEW s, NEW hs, NEW quiet, Stack(s, hs, quiet)
  PROVE  /\ Head(s) \in Frames /\ Tail(s) \in Seq(Frames) /\ s = <<Head(s)>> \o Tail(s)
         /\ Fits(Head(s), Tail(s), hs, quiet)
         /\ Head(s).at # "ml" \/ Tail(s) # <<>> => Stack(Tail(s), hs, quiet)
<1>1. s \in Seq(Frames) /\ s # <<>> /\ Nested(s, hs, quiet)
  BY DEF Stack
<1>2. Head(s) \in Frames /\ Tail(s) \in Seq(Frames) /\ s = <<Head(s)>> \o Tail(s)
  BY <1>1, TopAndRest
<1>3. Fits(Head(s), Tail(s), hs, quiet) /\ Nested(Tail(s), hs, quiet)
  BY <1>1, <1>2, NestedCons
<1>4. Tail(s) = <<>> => Head(s).at = "ml"
  BY <1>3 DEF Fits
<1>. QED
  BY <1>2, <1>3, <1>4 DEF Stack

LEMMA Solid == ASSUME NEW s, NEW hs, NEW quiet, Stack(s, hs, quiet)
               PROVE  Catches(s) /\ Exposed(s, NonHandles)
<1>1. Head(s) \in Frames /\ Tail(s) \in Seq(Frames) /\ s = <<Head(s)>> \o Tail(s) /\ Fits(Head(s), Tail(s), hs, quiet)
  BY Opened
<1>2. Head(s).at = "ml" \/ (Catches(Tail(s)) /\ Exposed(Tail(s), NonHandles))
  BY <1>1 DEF Fits
<1>3. Head(s).at \in Places
  BY <1>1, FrameFields
<1>4. Head(s).at = "ml" => Head(s) \in NonHandles
  BY <1>1, Kinds
<1>5. Head(s).at # "handle" => Head(s) \in NonHandles
  BY <1>1, Kinds
<1>6. Catches(<<Head(s)>> \o Tail(s))
  BY <1>1, <1>2, CatchesCons
<1>7. Exposed(<<Head(s)>> \o Tail(s), NonHandles)
  BY <1>1, <1>2, <1>4, <1>5, ExposedCons
<1>. QED
  BY <1>1, <1>6, <1>7

LEMMA Pushed == ASSUME NEW f \in Frames, NEW t, NEW hs, NEW quiet, Stack(t, hs, quiet), Fits(f, t, hs, quiet)
                PROVE  Stack(<<f>> \o t, hs, quiet)
<1>1. t \in Seq(Frames) /\ Nested(t, hs, quiet)
  BY DEF Stack
<1>2. <<f>> \o t \in Seq(Frames) /\ <<f>> \o t # <<>>
  BY <1>1, Cons
<1>3. Nested(<<f>> \o t, hs, quiet)
  BY <1>1, NestedCons
<1>. QED
  BY <1>2, <1>3 DEF Stack

\* A frame in the place of one about the same signal that may lie over the same frames.
LEMMA PutFor == ASSUME NEW f \in Frames, NEW t \in Seq(Frames), NEW hs, NEW quiet, Nested(t, hs, quiet), Fits(f, t, hs, quiet)
                PROVE  Stack(<<f>> \o t, hs, quiet)
<1>2. <<f>> \o t \in Seq(Frames) /\ <<f>> \o t # <<>>
  BY Cons
<1>3. Nested(<<f>> \o t, hs, quiet)
  BY NestedCons
<1>. QED
  BY <1>2, <1>3 DEF Stack

LEMMA Rest == ASSUME NEW f \in Frames, NEW t \in Seq(Frames), NEW hs, NEW quiet, Stack(<<f>> \o t, hs, quiet)
              PROVE  Nested(t, hs, quiet) /\ Fits(f, t, hs, quiet)
BY NestedCons DEF Stack

\* Whether a handler has run over a frame is no matter of where it lies.
LEMMA SameFit == ASSUME NEW f, NEW g, NEW t, NEW hs, NEW quiet, Fits(f, t, hs, quiet),
                        g.at = f.at, g.sig = f.sig, g.saved = f.saved
                 PROVE  Fits(g, t, hs, quiet)
BY DEF Fits

\* What has an entry, or a collection in its place, only grows.
LEMMA MoreHandlers == ASSUME NEW s, NEW hs, NEW more, NEW quiet, Nested(s, hs, quiet), hs \subseteq more
                      PROVE  Nested(s, more, quiet)
<1>1. \A f, t : Fits(f, t, hs, quiet) => Fits(f, t, more, quiet)
  BY DEF Fits
<1>. QED
  BY <1>1 DEF Nested

\* An exception unwinds to Caml code.
LEMMA Unwinds == ASSUME NEW s, NEW hs, NEW quiet, Stack(s, hs, quiet)
                 PROVE  Stack(Unwound(s), hs, quiet) /\ Head(Unwound(s)).at = "ml"
<1>. DEFINE Catch(i) == s[i].at = "ml" /\ \A j \in 1..(i - 1) : s[j].at # "ml"
            n == CHOOSE i \in DOMAIN s : Catch(i)
            u == SubSeq(s, n, Len(s))
<1>1. s \in Seq(Frames) /\ Len(s) \in Nat /\ DOMAIN s = 1..Len(s) /\ Nested(s, hs, quiet)
  BY LenProperties DEF Stack
<1>2. \E i \in DOMAIN s : Catch(i)
  BY Solid DEF Catches
<1>3. n \in 1..Len(s) /\ s[n].at = "ml"
  BY <1>1, <1>2
<1>4. Unwound(s) = u
  BY DEF Unwound
<1>. HIDE DEF n, Catch
<1>5. \A k \in n..Len(s) : s[k] \in Frames
  BY <1>1, <1>3, ElementOfSeq
<1>6. /\ u \in Seq(Frames) /\ Len(u) = IF n <= Len(s) THEN Len(s) - n + 1 ELSE 0
      /\ \A k \in 1..Len(s) - n + 1 : u[k] = s[n + k - 1]
  BY <1>1, <1>3, <1>5, SubSeqProperties
<1>. HIDE DEF u
<1>7. Len(u) = Len(s) - n + 1 /\ Len(u) > 0
  BY <1>1, <1>3, <1>6
<1>8. u # <<>> /\ Head(u) = s[n]
  <2>1. u # <<>>
    BY <1>7, EmptySeq
  <2>2. Head(u) = u[1]
    BY <1>6, <2>1, TopAndRest
  <2>3. 1 \in 1..Len(s) - n + 1 /\ n + 1 - 1 = n
    BY <1>1, <1>3
  <2>4. u[1] = s[n]
    BY <1>6, <2>3
  <2>. QED
    BY <2>1, <2>2, <2>4
<1>9. ASSUME NEW k \in 1..Len(u) PROVE Under(u, k) = Under(s, n + k - 1)
  <2>. DEFINE m == n + k - 1
  <2>1. m \in 1..Len(s) /\ m \in Int /\ Len(u) = Len(s) - n + 1
    BY <1>1, <1>3, <1>7
  <2>2. \A i \in m + 1..Len(s) : s[i] \in Frames
    BY <1>1, <1>3, <2>1, ElementOfSeq
  <2>3. \A i \in k + 1..Len(u) : u[i] \in Frames
    BY <1>6, ElementOfSeq
  <2>4. /\ SubSeq(s, m + 1, Len(s)) \in Seq(Frames)
        /\ Len(SubSeq(s, m + 1, Len(s))) = IF m + 1 <= Len(s) THEN Len(s) - (m + 1) + 1 ELSE 0
        /\ \A i \in 1..Len(s) - (m + 1) + 1 : SubSeq(s, m + 1, Len(s))[i] = s[(m + 1) + i - 1]
    <3>1. m + 1 \in Int /\ Len(s) \in Int
      BY <1>1, <2>1
    <3>. HIDE DEF m
    <3>. QED
      BY <2>2, <3>1, SubSeqProperties
  <2>5. /\ SubSeq(u, k + 1, Len(u)) \in Seq(Frames)
        /\ Len(SubSeq(u, k + 1, Len(u))) = IF k + 1 <= Len(u) THEN Len(u) - (k + 1) + 1 ELSE 0
        /\ \A i \in 1..Len(u) - (k + 1) + 1 : SubSeq(u, k + 1, Len(u))[i] = u[(k + 1) + i - 1]
    <3>1. Len(u) \in Int
      BY <1>1, <1>3, <2>1
    <3>. QED
      BY <2>3, <3>1, SubSeqProperties
  <2>6. Len(SubSeq(u, k + 1, Len(u))) = Len(SubSeq(s, m + 1, Len(s)))
    BY <1>1, <1>3, <2>1, <2>4, <2>5
  <2>7. ASSUME NEW i \in 1..Len(SubSeq(u, k + 1, Len(u)))
        PROVE  SubSeq(u, k + 1, Len(u))[i] = SubSeq(s, m + 1, Len(s))[i]
    <3>1. Len(SubSeq(u, k + 1, Len(u))) = Len(u) - k
      BY <1>1, <1>3, <2>1, <2>5
    <3>2. i \in 1..Len(u) - (k + 1) + 1 /\ i \in 1..Len(s) - (m + 1) + 1
      BY <1>1, <1>3, <2>1, <3>1
    <3>3. SubSeq(u, k + 1, Len(u))[i] = u[(k + 1) + i - 1] /\ SubSeq(s, m + 1, Len(s))[i] = s[(m + 1) + i - 1]
      BY <2>4, <2>5, <3>2
    <3>4. (k + 1) + i - 1 \in 1..Len(s) - n + 1 /\ n + ((k + 1) + i - 1) - 1 = (m + 1) + i - 1
      BY <1>1, <1>3, <2>1, <3>2
    <3>5. u[(k + 1) + i - 1] = s[n + ((k + 1) + i - 1) - 1]
      BY <1>6, <3>4
    <3>. QED
      BY <3>3, <3>4, <3>5
  <2>8. SubSeq(u, k + 1, Len(u)) = SubSeq(s, m + 1, Len(s))
    BY <2>4, <2>5, <2>6, <2>7, SeqEqual
  <2>. QED
    BY <2>8 DEF Under
<1>10. ASSUME NEW k \in 1..Len(u) PROVE Fits(u[k], Under(u, k), hs, quiet)
  <2>1. n + k - 1 \in 1..Len(s) /\ k \in 1..Len(s) - n + 1
    BY <1>1, <1>3, <1>7
  <2>2. u[k] = s[n + k - 1]
    BY <1>6, <2>1
  <2>3. Fits(s[n + k - 1], Under(s, n + k - 1), hs, quiet)
    BY <1>1, <2>1 DEF Nested
  <2>. QED
    BY <1>9, <2>2, <2>3
<1>. QED
  BY <1>3, <1>4, <1>6, <1>8, <1>10 DEF Stack, Nested

LEMMA PushedTwo == ASSUME NEW f \in Frames, NEW h \in Frames, NEW s \in Seq(Frames)
                   PROVE  <<f, h>> \o s = <<f>> \o (<<h>> \o s)
<1>1. <<f>> \in Seq(Frames) /\ <<h>> \in Seq(Frames) /\ <<f, h>> \in Seq(Frames)
  OBVIOUS
<1>2. <<f>> \o <<h>> \in Seq(Frames) /\ Len(<<f>> \o <<h>>) = 2
  BY <1>1, ConcatProperties
<1>3. (<<f>> \o <<h>>)[1] = f /\ (<<f>> \o <<h>>)[2] = h
  BY <1>1, ConcatProperties
<1>4. \A i \in 1..2 : (<<f>> \o <<h>>)[i] = <<f, h>>[i]
  BY <1>3
<1>5. <<f>> \o <<h>> = <<f, h>>
  BY <1>1, <1>2, <1>4, SeqEqual
<1>6. (<<f>> \o <<h>>) \o s = <<f>> \o (<<h>> \o s)
  BY <1>1, ConcatAssociative
<1>. QED
  BY <1>5, <1>6

LEMMA PushedThree == ASSUME NEW f \in Frames, NEW h \in Frames, NEW k \in Frames, NEW s \in Seq(Frames)
                     PROVE  <<f, h, k>> \o s = <<f>> \o (<<h>> \o (<<k>> \o s))
<1>1. <<f>> \in Seq(Frames) /\ <<h, k>> \in Seq(Frames) /\ <<f, h, k>> \in Seq(Frames)
  OBVIOUS
<1>2. <<f>> \o <<h, k>> \in Seq(Frames) /\ Len(<<f>> \o <<h, k>>) = 3
  BY <1>1, ConcatProperties
<1>3. /\ (<<f>> \o <<h, k>>)[1] = f /\ (<<f>> \o <<h, k>>)[2] = h /\ (<<f>> \o <<h, k>>)[3] = k
  BY <1>1, ConcatProperties
<1>4. \A i \in 1..3 : (<<f>> \o <<h, k>>)[i] = <<f, h, k>>[i]
  BY <1>3
<1>5. <<f>> \o <<h, k>> = <<f, h, k>>
  BY <1>1, <1>2, <1>4, SeqEqual
<1>6. (<<f>> \o <<h, k>>) \o s = <<f>> \o (<<h, k>> \o s)
  BY <1>1, ConcatAssociative
<1>. QED
  BY <1>5, <1>6, PushedTwo

\* What is exposed is one frame.
LEMMA ExposedOnce == ASSUME NEW s \in Seq(Frames), NEW F, NEW G, \A f \in F \cup G : f.at # "handle",
                            Exposed(s, F), Exposed(s, G)
                     PROVE  F \cap G # {}
<1>1. DOMAIN s = 1..Len(s) /\ Len(s) \in Nat
  BY LenProperties
<1>2. PICK i \in 1..Len(s) : s[i] \in F /\ \A j \in 1..i - 1 : s[j].at = "handle"
  BY <1>1 DEF Exposed
<1>3. PICK k \in 1..Len(s) : s[k] \in G /\ \A j \in 1..k - 1 : s[j].at = "handle"
  BY <1>1 DEF Exposed
<1>4. i \notin 1..k - 1 /\ k \notin 1..i - 1
  BY <1>2, <1>3
<1>5. i = k
  BY <1>1, <1>4
<1>. QED
  BY <1>2, <1>3, <1>5

LEMMA ExposedMore == ASSUME NEW s, NEW F, NEW G, F \subseteq G, Exposed(s, F) PROVE Exposed(s, G)
BY DEF Exposed

(* -------------------------- The state from the top ----------------------- *)
LEMMA View ==
  ASSUME SignalInv
  PROVE  /\ Top \in Frames /\ Callers \in Seq(Frames) /\ stack = <<Top>> \o Callers
         /\ Fits(Top, Callers, Entered, ~mayRaise) /\ Nested(Callers, Entered, ~mayRaise)
         /\ Top.at # "ml" \/ Callers # <<>> => Stack(Callers, Entered, ~mayRaise)
         /\ stack \in Seq(Frames) /\ Stack(stack, Entered, ~mayRaise)
<1>1. Stack(stack, Entered, ~mayRaise)
  BY DEF SignalInv, Stacked
<1>2. /\ Top \in Frames /\ Callers \in Seq(Frames) /\ stack = <<Top>> \o Callers
      /\ Fits(Top, Callers, Entered, ~mayRaise)
      /\ Top.at # "ml" \/ Callers # <<>> => Stack(Callers, Entered, ~mayRaise)
  BY <1>1, Opened DEF Top, Callers
<1>3. Nested(Callers, Entered, ~mayRaise)
  BY <1>1, <1>2, Rest
<1>4. stack \in Seq(Frames)
  BY <1>1 DEF Stack
<1>. QED
  BY <1>1, <1>2, <1>3, <1>4

\* What the flags say when no handle_signal is on top.
LEMMA TopTells ==
  ASSUME SignalInv, Top.at # "handle"
  PROVE  /\ asyncMode <=> Top.at \in {"entered", "syscall", "leave"}
         /\ \A g \in pending \cup action : g \in Entered \/ (Top.at = "install" /\ Top.sig = g)
         /\ Top.at = "syscall" /\ ~Top.ran => ~arePending
         /\ forceSlice => somethingToDo \/ Top.at = "event"
         /\ mayRaise \/ (arePending => somethingToDo \/ Top.at \in {"event", "process"} \/ Has(Callers, Looks))
<1>1. Top \in Frames /\ Callers \in Seq(Frames) /\ stack = <<Top>> \o Callers
  BY View
<1>2. \A F : Exposed(stack, F) <=> Top \in F
  BY <1>1, ExposedCons
<1>3. Modes /\ Entries /\ Sleeps /\ Slices /\ (mayRaise \/ Polls)
  BY DEF SignalInv, Quiet
<1>4. Has(stack, Looks) <=> Top \in Looks \/ Has(Callers, Looks)
  BY <1>1, HasCons
<1>. QED
  BY <1>1, <1>2, <1>3, <1>4, Kinds DEF Modes, Entries, Sleeps, Slices, Polls

Settled == Modes /\ Entries /\ Sleeps /\ Slices /\ (mayRaise \/ Polls)
LEMMA Landed ==
  ASSUME NEW f \in Frames, NEW t \in Seq(Frames), f.at # "handle", stack' = <<f>> \o t,
         asyncMode' <=> f.at \in {"entered", "syscall", "leave"},
         \A g \in pending' \cup action' : g \in Entered' \/ (f.at = "install" /\ f.sig = g),
         f.at = "syscall" /\ ~f.ran => ~arePending',
         forceSlice' => somethingToDo' \/ f.at = "event",
         mayRaise' \/ (arePending' => somethingToDo' \/ f.at \in {"event", "process"} \/ Has(t, Looks))
  PROVE  Settled'
<1>2. \A F : Exposed(stack', F) <=> f \in F
  BY ExposedCons
<1>3. Modes' /\ Entries' /\ Sleeps' /\ Slices'
  BY <1>2, Kinds DEF Modes, Entries, Sleeps, Slices
<1>4. mayRaise' \/ Polls'
  <2>1. Has(stack', Looks) <=> f \in Looks \/ Has(t, Looks)
    BY HasCons
  <2>. QED
    BY <2>1, Kinds DEF Polls
<1>. QED
  BY <1>3, <1>4 DEF Settled

\* What is recorded and what is blocked, frame by frame.
LEMMA TopSees ==
  ASSUME SignalInv, ~mayRaise
  PROVE  /\ \A g \in pending : arePending \/ Top \in Scans(g) \/ Has(Callers, Scans(g))
         /\ mask = Running(Callers) \cup (IF Top.at \in Runners THEN {Top.sig} ELSE {})
<1>1. Top \in Frames /\ Callers \in Seq(Frames) /\ stack = <<Top>> \o Callers
  BY View
<1>2. InView /\ Masked
  BY DEF SignalInv, Quiet
<1>. QED
  BY <1>1, <1>2, HasCons, RunningCons DEF InView, Masked

Watched == mayRaise \/ (InView /\ Masked)
LEMMA Watches ==
  ASSUME NEW f \in Frames, NEW t \in Seq(Frames), stack' = <<f>> \o t,
         \/ mayRaise'
         \/ /\ \A g \in pending' : arePending' \/ f \in Scans(g) \/ Has(t, Scans(g))
            /\ mask' = Running(t) \cup (IF f.at \in Runners THEN {f.sig} ELSE {})
  PROVE  Watched'
<1>1. \A g : Has(stack', Scans(g)) <=> f \in Scans(g) \/ Has(t, Scans(g))
  BY HasCons
<1>2. Running(stack') = Running(t) \cup (IF f.at \in Runners THEN {f.sig} ELSE {})
  BY RunningCons
<1>. QED
  BY <1>1, <1>2 DEF Watched, InView, Masked

\* A frame that neither scans nor runs a handler changes neither.
Plain == Places \ (Runners \cup {"scan"})
LEMMA PlainTop ==
  ASSUME NEW f \in Frames, NEW t \in Seq(Frames), f.at \in Plain
  PROVE  Running(<<f>> \o t) = Running(t) /\ \A g : Has(<<f>> \o t, Scans(g)) <=> Has(t, Scans(g))
<1>1. f.at \notin Runners /\ \A g : f \notin Scans(g)
  BY Kinds DEF Plain
<1>2. Running(<<f>> \o t) = Running(t) \cup {}
  BY <1>1, RunningCons
<1>. QED
  BY <1>1, <1>2, HasCons

LEMMA StaysWatched ==
  ASSUME SignalInv, NEW f \in Frames, NEW t \in Seq(Frames), stack' = <<f>> \o t, f.at \in Plain,
         pending' = pending, arePending' = arePending, mask' = mask, mayRaise' = mayRaise,
         Running(t) = Running(stack), \A g : Has(stack, Scans(g)) => Has(t, Scans(g))
  PROVE  Watched'
<1>1. Running(stack') = Running(stack) /\ \A g : Has(stack, Scans(g)) => Has(stack', Scans(g))
  BY PlainTop
<1>2. mayRaise \/ (InView /\ Masked)
  BY DEF SignalInv, Quiet
<1>. QED
  BY <1>1, <1>2 DEF Watched, InView, Masked

LEMMA Whole == ASSUME Tables', Stacked', Settled', Watched' PROVE SignalInv'
BY DEF SignalInv, Settled, Watched, Quiet

(* ------------------------------- The steps ------------------------------- *)
LEMMA SignalInit == Init => SignalInv
<1>. SUFFICES ASSUME Init PROVE SignalInv
  OBVIOUS
<1>. DEFINE f == Frame("ml", 0, {})
<1>1. Tables
  <2>1. sent \in 0..MaxSent
    BY SignalsAssumption DEF Init
  <2>. QED
    BY <2>1 DEF Init, Tables
<1>2. f \in Frames /\ f.at = "ml"
  BY DEF Frame, Frames, Places, AboutSignal
<1>3. stack = <<f>> /\ <<>> \in Seq(Frames) /\ <<f>> \o <<>> = <<f>>
  BY <1>2, ConcatEmptySeq DEF Init
<1>. HIDE DEF f
<1>4. stack = <<f>> \o <<>> /\ <<>> \in Seq(Frames)
  BY <1>3
<1>5. /\ \A F : ~Has(<<>>, F)
      /\ Nested(<<>>, Entered, ~mayRaise) /\ Fits(f, <<>>, Entered, ~mayRaise)
  BY <1>2 DEF Has, Nested, Fits
<1>6. Stacked
  BY <1>2, <1>4, <1>5, PutFor DEF Stacked
<1>7. \A F : Exposed(stack, F) <=> f \in F
  BY <1>2, <1>4, ExposedCons
<1>8. Modes /\ Entries /\ Sleeps /\ Slices
  BY <1>2, <1>7, Kinds DEF Init, Modes, Entries, Sleeps, Slices
<1>9. Running(stack) = {}
  <2>1. Running(<<>>) = {} /\ f.at \notin Runners
    BY <1>2, <1>5 DEF Running, Runners
  <2>. QED
    BY <1>2, <1>4, <2>1, RunningCons
<1>10. Polls /\ InView /\ Masked
  BY <1>9 DEF Init, Polls, InView, Masked
<1>. QED
  BY <1>1, <1>6, <1>8, <1>10 DEF SignalInv, Quiet

LEMMA DeliverStep == ASSUME SignalInv, NEW s \in Sig, Deliver(s) PROVE SignalInv'
<1>. DEFINE h == Frame("handle", s, mask)
<1>1. /\ sent > 0 /\ s \in action /\ s \notin mask /\ Top.at # "fault" /\ sent' = sent - 1 /\ mask' = mask \cup {s}
      /\ stack' = <<h>> \o stack /\ UNCHANGED <<flags, disposition>>
  BY DEF Deliver, Call, At
<1>2. Tables
  BY DEF SignalInv
<1>3. h \in Frames /\ h.at = "handle" /\ h.sig = s /\ h.saved = mask /\ h.ran = FALSE
  BY <1>2 DEF Frame, Frames, Places, AboutSignal, Sig, Tables
<1>. HIDE DEF h
<1>4. Tables'
  <2>1. sent' \in 0..MaxSent
    BY <1>1, <1>2, SignalsAssumption DEF Tables
  <2>. QED
    BY <1>1, <1>2, <2>1, SameEntered DEF Tables, flags, disposition
<1>5. stack \in Seq(Frames) /\ Stack(stack, Entered, ~mayRaise) /\ stack # <<>>
  BY View DEF Stack
<1>6. Modes /\ Entries /\ Sleeps /\ Slices /\ (mayRaise \/ (Polls /\ InView /\ Masked))
  BY DEF SignalInv, Quiet
<1>7. s \in Entered \/ Exposed(stack, Installs(s))
  BY <1>1, <1>6 DEF Entries
<1>8. ~mayRaise => h.saved = Running(stack)
  BY <1>3, <1>6 DEF Masked
<1>9. Fits(h, stack, Entered, ~mayRaise)
  BY <1>3, <1>5, <1>7, <1>8, Solid DEF Fits
<1>10. Stacked'
  BY <1>1, <1>3, <1>5, <1>9, Pushed, SameEntered DEF Stacked, disposition
<1>11. /\ \A F : Exposed(stack', F) <=> h \in F \/ Exposed(stack, F)
       /\ Has(stack', Looks) <=> h \in Looks \/ Has(stack, Looks)
  BY <1>1, <1>3, <1>5, ExposedCons, HasCons
<1>12. /\ h \notin Blocking /\ h \notin Events /\ h \notin Looks /\ h \notin Asleep
       /\ \A g : h \notin Installs(g) /\ h \notin Scans(g)
  BY <1>3, Kinds
<1>13. Modes' /\ Entries' /\ Sleeps' /\ Slices' /\ (mayRaise' \/ Polls')
  BY <1>1, <1>6, <1>11, <1>12, SameEntered DEF Modes, Entries, Sleeps, Slices, Polls, flags, disposition
<1>14. Watched'
  <2>1. \A g : Has(stack', Scans(g)) <=> Has(stack, Scans(g))
    BY <1>1, <1>3, <1>5, <1>12, HasCons
  <2>2. Running(stack') = Running(stack) \cup {s}
    BY <1>1, <1>3, <1>5, RunningCons DEF Runners
  <2>. QED
    BY <1>1, <1>6, <2>1, <2>2, SameEntered DEF Watched, InView, Masked, flags, disposition
<1>. QED
  BY <1>4, <1>10, <1>13, <1>14, Whole DEF Settled

LEMMA HandleRecordStep == ASSUME SignalInv, HandleRecord PROVE SignalInv'
<1>1. /\ Top.at = "handle" /\ ~asyncMode /\ pending' = pending \cup {Top.sig} /\ arePending' = TRUE
      /\ somethingToDo' = TRUE /\ mask' = Top.saved /\ stack' = Callers
      /\ UNCHANGED <<forceSlice, asyncMode, disposition, sent>>
  BY DEF HandleRecord, At
<1>2. /\ Top \in Frames /\ Callers \in Seq(Frames) /\ stack = <<Top>> \o Callers
      /\ Fits(Top, Callers, Entered, ~mayRaise) /\ Stack(Callers, Entered, ~mayRaise)
  BY <1>1, View
<1>3. Top.sig \in Sig /\ Top.saved \subseteq Sig
  BY <1>1, <1>2, FrameFields DEF AboutSignal
<1>4. Tables'
  BY <1>1, <1>3, SameEntered DEF SignalInv, Tables, disposition
<1>5. Stacked'
  BY <1>1, <1>2, SameEntered DEF Stacked, disposition
<1>6. \A F : Exposed(stack, F) <=> Top \in F \/ Exposed(Callers, F)
  BY <1>1, <1>2, ExposedCons
<1>7. /\ Top \notin Blocking /\ Top \notin Events /\ Top \notin Looks /\ Top \notin Asleep
      /\ \A g : Top \notin Installs(g)
  BY <1>1, <1>2, Kinds
<1>8. Modes /\ Entries /\ Slices
  BY DEF SignalInv
<1>9. Modes'
  BY <1>1, <1>6, <1>7, <1>8 DEF Modes
<1>10. Entries'
  <2>1. Callers # <<>>
    BY <1>2 DEF Stack
  <2>2. Top.sig \in Entered \/ Exposed(Callers, Installs(Top.sig))
    BY <1>1, <1>2, <2>1 DEF Fits
  <2>. QED
    BY <1>1, <1>6, <1>7, <1>8, <2>2, SameEntered DEF Entries, disposition
<1>11. Sleeps'
  <2>1. Asleep \subseteq Blocking
    BY DEF Asleep, Blocking, Placed
  <2>2. ~Exposed(Callers, Blocking)
    BY <1>1, <1>6, <1>8 DEF Modes
  <2>3. ~Exposed(Callers, Asleep)
    BY <2>1, <2>2, ExposedMore
  <2>. QED
    BY <1>1, <2>3 DEF Sleeps
<1>12. Slices' /\ Polls'
  BY <1>1 DEF Slices, Polls
<1>13. Watched'
  <2>1. Callers # <<>>
    BY <1>2 DEF Stack
  <2>2. ~mayRaise => Top.saved = Running(Callers)
    BY <1>1, <1>2, <2>1 DEF Fits
  <2>. QED
    BY <1>1, <2>2, SameEntered DEF Watched, InView, Masked, disposition
<1>. QED
  BY <1>4, <1>5, <1>9, <1>10, <1>11, <1>12, <1>13, Whole DEF Settled

LEMMA HandleExecuteStep == ASSUME SignalInv, HandleExecute PROVE SignalInv'
<1>. DEFINE h == [Top EXCEPT !.at = "handled"]
            e == Frame("execIn", Top.sig, {})
            u == <<h>> \o Callers
<1>1. /\ Top.at = "handle" /\ asyncMode /\ asyncMode' = FALSE /\ stack' = <<e, h>> \o Callers
      /\ UNCHANGED <<pending, arePending, somethingToDo, forceSlice, disposition, mask, sent>>
  BY DEF HandleExecute, GotoAndCall, At
<1>2. /\ Top \in Frames /\ Callers \in Seq(Frames) /\ stack = <<Top>> \o Callers
      /\ Fits(Top, Callers, Entered, ~mayRaise) /\ Stack(Callers, Entered, ~mayRaise)
      /\ Callers # <<>> /\ stack \in Seq(Frames)
  BY <1>1, View DEF Stack
<1>3. Top.sig \in Sig
  BY <1>1, <1>2, FrameFields DEF AboutSignal
<1>4. h \in Frames /\ h.at = "handled" /\ h.sig = Top.sig /\ h.saved = Top.saved
  BY <1>2, <1>3, Moved DEF Places
<1>5. e \in Frames /\ e.at = "execIn" /\ e.sig = Top.sig
  BY <1>3 DEF Frame, Frames, Places, AboutSignal, Sig
<1>6. stack' = <<e>> \o u
  BY <1>1, <1>2, <1>4, <1>5, PushedTwo
<1>. HIDE DEF e, h
<1>7. \A F : Exposed(stack, F) <=> Top \in F \/ Exposed(Callers, F)
  BY <1>1, <1>2, ExposedCons
<1>8. Exposed(stack, Blocking) /\ Exposed(Callers, Blocking)
  <2>1. Exposed(stack, Blocking)
    BY <1>1 DEF SignalInv, Modes
  <2>. QED
    BY <1>1, <1>2, <1>7, <2>1, Kinds
<1>9. /\ \A g : ~Exposed(stack, Installs(g)) /\ ~Exposed(Callers, Installs(g))
      /\ ~Exposed(stack, Events)
  <2>1. /\ \A g : Installs(g) \cap Blocking = {} /\ \A f \in Installs(g) \cup Blocking : f.at # "handle"
        /\ Events \cap Blocking = {} /\ \A f \in Events \cup Blocking : f.at # "handle"
    BY DEF Installs, Blocking, Events, Looks, Placed
  <2>. QED
    BY <1>2, <1>8, <2>1, ExposedOnce
<1>10. Top.sig \in Entered /\ \A g \in pending \cup action : g \in Entered
  BY <1>1, <1>2, <1>9 DEF Fits, SignalInv, Entries
<1>11. Fits(h, Callers, Entered, ~mayRaise)
  BY <1>1, <1>2, <1>4, <1>8, <1>10 DEF Fits
<1>12. u \in Seq(Frames) /\ u # <<>> /\ Head(u) = h
  BY <1>2, <1>4, Cons
<1>13. Stack(u, Entered, ~mayRaise)
  BY <1>2, <1>4, <1>11, Pushed
<1>14. /\ Running(u) = Running(stack) /\ \A g : Has(stack, Scans(g)) => Has(u, Scans(g))
       /\ Has(stack, Looks) => Has(u, Looks)
  <2>1. Running(u) = Running(Callers) \cup {Top.sig} /\ Running(stack) = Running(Callers) \cup {Top.sig}
    BY <1>1, <1>2, <1>4, RunningCons DEF Runners
  <2>2. Top \notin Looks /\ \A g : Top \notin Scans(g)
    BY <1>1, <1>2, Kinds
  <2>. QED
    BY <1>2, <1>4, <2>1, <2>2, HasCons
<1>15. Top.sig \in Running(u)
  BY <1>1, <1>2, <1>4, RunningCons DEF Runners
<1>. HIDE DEF u
<1>16. Fits(e, u, Entered, ~mayRaise)
  BY <1>4, <1>5, <1>10, <1>12, <1>13, Solid DEF Fits
<1>17. Stacked'
  BY <1>1, <1>5, <1>6, <1>13, <1>16, Pushed, SameEntered DEF Stacked, disposition
<1>18. Tables'
  BY <1>1, SameEntered DEF SignalInv, Tables, disposition
<1>19. Settled'
  <2>1. (forceSlice => somethingToDo) /\ (mayRaise \/ (arePending => somethingToDo \/ Has(u, Looks)))
    BY <1>9, <1>14 DEF SignalInv, Slices, Quiet, Polls
  <2>. QED
    BY <1>1, <1>5, <1>6, <1>10, <1>12, <2>1, Landed, SameEntered DEF disposition
<1>20. Watched'
  <2>1. mayRaise \/ (InView /\ Masked)
    BY DEF SignalInv, Quiet
  <2>2. \A g \in pending : mayRaise \/ arePending \/ Has(u, Scans(g))
    BY <1>14, <2>1 DEF InView
  <2>3. mayRaise \/ mask = Running(u) \cup {e.sig}
    BY <1>5, <1>14, <1>15, <2>1 DEF Masked
  <2>4. e.at \in Runners
    BY <1>5 DEF Runners
  <2>. QED
    BY <1>1, <1>5, <1>6, <1>12, <2>2, <2>3, <2>4, Watches, SameEntered DEF disposition
<1>. QED
  BY <1>17, <1>18, <1>19, <1>20, Whole

LEMMA HandleReturnStep == ASSUME SignalInv, HandleReturn PROVE SignalInv'
<1>. DEFINE c == Head(Callers)
            t == Tail(Callers)
            d == [c EXCEPT !.ran = TRUE]
<1>1. /\ Top.at = "handled" /\ asyncMode' = TRUE /\ mask' = Top.saved
      /\ stack' = <<[Callers[1] EXCEPT !.ran = TRUE]>> \o t
      /\ UNCHANGED <<pending, arePending, somethingToDo, forceSlice, disposition, sent>>
  BY DEF HandleReturn, At
<1>2. /\ Top \in Frames /\ Callers \in Seq(Frames) /\ stack = <<Top>> \o Callers
      /\ Fits(Top, Callers, Entered, ~mayRaise) /\ Stack(Callers, Entered, ~mayRaise) /\ Callers # <<>>
  BY <1>1, View DEF Stack
<1>3. /\ c \in Frames /\ t \in Seq(Frames) /\ Callers = <<c>> \o t /\ c = Callers[1]
      /\ Fits(c, t, Entered, ~mayRaise)
  BY <1>2, Opened, TopAndRest
<1>4. Nested(t, Entered, ~mayRaise)
  BY <1>2, <1>3, Rest
<1>5. d \in Frames /\ d.at = c.at /\ d.sig = c.sig /\ d.saved = c.saved /\ d.ran = TRUE
  BY <1>3 DEF Frames
<1>6. stack' = <<d>> \o t
  BY <1>1, <1>3
<1>. HIDE DEF c, d, t
<1>7. Fits(d, t, Entered, ~mayRaise)
  BY <1>3, <1>5, SameFit
<1>8. Stacked'
  BY <1>1, <1>3, <1>4, <1>5, <1>6, <1>7, PutFor, SameEntered DEF Stacked, disposition
<1>9. Tables'
  <2>1. Top.saved \subseteq Sig
    BY <1>2, FrameFields
  <2>. QED
    BY <1>1, <2>1, SameEntered DEF SignalInv, Tables, disposition
<1>10. /\ ~asyncMode /\ \A g \in pending \cup action : g \in Entered
       /\ forceSlice => somethingToDo
       /\ mayRaise \/ (arePending => somethingToDo \/ Has(Callers, Looks))
  BY <1>1, TopTells
<1>11. Exposed(Callers, Blocking)
  BY <1>1, <1>2 DEF Fits
<1>12. Exposed(stack', Blocking) /\ (Has(Callers, Looks) => Has(stack', Looks))
  <2>1. (c \in Blocking => d \in Blocking) /\ (c \in Looks => d \in Looks)
    BY <1>3, <1>5, Kinds
  <2>2. c \in Blocking \/ (c.at = "handle" /\ Exposed(t, Blocking))
    BY <1>3, <1>11, ExposedCons
  <2>3. Has(Callers, Looks) => Has(stack', Looks)
    BY <1>3, <1>5, <1>6, <2>1, HasCons
  <2>. QED
    BY <1>3, <1>5, <1>6, <2>1, <2>2, <2>3, ExposedCons
<1>13. Modes' /\ Entries' /\ Slices' /\ (mayRaise' \/ Polls')
  BY <1>1, <1>10, <1>12, SameEntered DEF Modes, Entries, Slices, Polls, disposition
<1>14. Sleeps'
  <2>1. d \notin Asleep /\ (d.at = "handle" => d \in RanHandles)
    BY <1>5, Kinds
  <2>. QED
    BY <1>3, <1>5, <1>6, <2>1, ExposedCons DEF Sleeps
<1>15. Watched'
  <2>1. Running(stack') = Running(Callers) /\ \A g : Has(Callers, Scans(g)) => Has(stack', Scans(g))
    <3>1. \A g : c \in Scans(g) => d \in Scans(g)
      BY <1>3, <1>5, Kinds
    <3>2. Running(stack') = Running(Callers)
      <4>1. Running(<<d>> \o t) = Running(t) \cup (IF d.at \in Runners THEN {d.sig} ELSE {})
        BY <1>3, <1>5, RunningCons
      <4>2. Running(<<c>> \o t) = Running(t) \cup (IF c.at \in Runners THEN {c.sig} ELSE {})
        BY <1>3, RunningCons
      <4>3. Running(<<d>> \o t) = Running(<<c>> \o t)
        BY <1>5, <4>1, <4>2
      <4>. QED
        BY <1>3, <1>6, <4>3
    <3>. QED
      BY <1>3, <1>5, <1>6, <3>1, <3>2, HasCons
  <2>2. ~mayRaise => Top.saved = Running(Callers)
    BY <1>1, <1>2 DEF Fits
  <2>3. ~mayRaise => \A g \in pending : arePending \/ Has(Callers, Scans(g))
    BY <1>1, <1>2, TopSees, Kinds
  <2>. QED
    BY <1>1, <2>1, <2>2, <2>3, SameEntered DEF Watched, InView, Masked, disposition
<1>. QED
  BY <1>8, <1>9, <1>13, <1>14, <1>15, Whole DEF Settled

\* The frames of C code that belong to no signal, over Caml code or a blocking section's entry.
LEMMA FitsOver ==
  ASSUME NEW f, NEW t, NEW hs, NEW quiet, Stack(t, hs, quiet),
         \/ f.at \in {"process", "scan"} /\ Head(t).at \in {"ml", "enter"}
         \/ f.at \in {"event", "install", "enter", "entered", "syscall", "leave"} /\ Head(t).at = "ml"
         \/ f.at \in {"replace", "table"} /\ f.sig \in hs /\ Head(t).at = "ml"
  PROVE  Fits(f, t, hs, quiet)
<1>1. Catches(t) /\ Exposed(t, NonHandles) /\ t # <<>>
  BY Solid DEF Stack
<1>. QED
  BY <1>1 DEF Fits

\* A return that uncovers Caml code, a scan, or a handle_signal that has run its handler.
LEMMA Uncovered ==
  ASSUME NEW t, NEW hs, NEW quiet, Stack(t, hs, quiet), stack' = t,
         Head(t).at \in {"ml", "enter", "scan", "handled", "process", "replace", "table"}, ~asyncMode',
         \A g \in pending' \cup action' : g \in Entered',
         forceSlice' => somethingToDo', mayRaise' \/ (arePending' => somethingToDo' \/ Has(t, Looks))
  PROVE  Settled'
<1>1. /\ Head(t) \in Frames /\ Tail(t) \in Seq(Frames) /\ t = <<Head(t)>> \o Tail(t)
      /\ stack' = <<Head(t)>> \o Tail(t)
  BY Opened
<1>2. Has(t, Looks) => Head(t).at \in {"event", "process"} \/ Has(Tail(t), Looks)
  <2>1. Has(<<Head(t)>> \o Tail(t), Looks) <=> Head(t) \in Looks \/ Has(Tail(t), Looks)
    BY <1>1, HasCons
  <2>. QED
    BY <1>1, <2>1, Kinds
<1>3. mayRaise' \/ (arePending' => somethingToDo' \/ Head(t).at \in {"event", "process"} \/ Has(Tail(t), Looks))
  BY <1>2
<1>4. /\ Head(t).at # "handle" /\ (asyncMode' <=> Head(t).at \in {"entered", "syscall", "leave"})
      /\ Head(t).at # "syscall"
  OBVIOUS
<1>. QED
  BY <1>1, <1>3, <1>4, Landed

LEMMA ProcessStartStep == ASSUME SignalInv, ProcessStart PROVE SignalInv'
<1>1. /\ Top.at = "process" /\ arePending' = FALSE
      /\ stack' = (IF arePending THEN <<Frame("scan", 1, {})>> ELSE <<>>) \o Callers
      /\ UNCHANGED <<pending, somethingToDo, forceSlice, asyncMode, disposition, mask, sent>>
  BY DEF ProcessStart, At
<1>2. /\ Top \in Frames /\ Callers \in Seq(Frames) /\ stack = <<Top>> \o Callers
      /\ Fits(Top, Callers, Entered, ~mayRaise) /\ Stack(Callers, Entered, ~mayRaise) /\ Callers # <<>>
  BY <1>1, View DEF Stack
<1>3. Head(Callers).at \in {"ml", "enter"}
  BY <1>1, <1>2 DEF Fits
<1>4. /\ ~asyncMode /\ \A g \in pending \cup action : g \in Entered
      /\ forceSlice => somethingToDo
  BY <1>1, TopTells
<1>5. Tables'
  BY <1>1, SameEntered DEF SignalInv, Tables, disposition
<1>6. Top.at \in Plain
  BY <1>1 DEF Plain, Places, Runners
<1>7. ~mayRaise => mask = Running(Callers) /\ \A g \in pending : arePending \/ Has(Callers, Scans(g))
  BY <1>2, <1>6, TopSees, Kinds DEF Plain
<1>8. CASE arePending
  <2>. DEFINE f == Frame("scan", 1, {})
  <2>1. f \in Frames /\ f.at = "scan" /\ f.sig = 1
    BY DEF Frame, Frames, Places, AboutSignal
  <2>2. stack' = <<f>> \o Callers
    BY <1>1, <1>8
  <2>. HIDE DEF f
  <2>3. Stacked'
    BY <1>1, <1>2, <1>3, <2>1, <2>2, FitsOver, Pushed, SameEntered DEF Stacked, disposition
  <2>4. Settled'
    BY <1>1, <1>2, <1>4, <2>1, <2>2, Landed, SameEntered DEF disposition
  <2>5. \A g \in pending : f \in Scans(g)
    <3>1. \A g \in pending : 1 <= g
      BY DEF SignalInv, Tables, Sig
    <3>. QED
      BY <2>1, <3>1, Kinds
  <2>6. Watched'
    <3>1. f.at \notin Runners
      BY <2>1 DEF Runners
    <3>2. mayRaise \/ mask = Running(Callers) \cup {}
      BY <1>7
    <3>. QED
      BY <1>1, <1>2, <2>1, <2>2, <2>5, <3>1, <3>2, Watches, SameEntered DEF disposition
  <2>. QED
    BY <1>5, <2>3, <2>4, <2>6, Whole
<1>9. CASE ~arePending
  <2>1. stack' = Callers
    BY <1>1, <1>2, <1>9, ConcatEmptySeq
  <2>2. Stacked'
    BY <1>1, <1>2, <2>1, SameEntered DEF Stacked, disposition
  <2>3. Settled'
    BY <1>1, <1>2, <1>3, <1>4, <2>1, Uncovered, SameEntered DEF disposition
  <2>4. Watched'
    BY <1>1, <1>7, <1>9, <2>1, SameEntered DEF Watched, InView, Masked, disposition
  <2>. QED
    BY <1>5, <2>2, <2>3, <2>4, Whole
<1>. QED
  BY <1>8, <1>9

LEMMA ScanStep == ASSUME SignalInv, Scan PROVE SignalInv'
<1>. DEFINE n == ScanNext
            u == <<n>> \o Callers
            e == Frame("exec", Top.sig, {})
<1>1. /\ Top.at = "scan" /\ Top.sig \in Sig /\ pending' = pending \ {Top.sig}
      /\ stack' = (IF Top.sig \in pending THEN <<e>> ELSE <<>>) \o <<n>> \o Callers
      /\ UNCHANGED <<arePending, somethingToDo, forceSlice, asyncMode, disposition, mask, sent>>
  BY DEF Scan, At
<1>2. /\ Top \in Frames /\ Callers \in Seq(Frames) /\ stack = <<Top>> \o Callers
      /\ Fits(Top, Callers, Entered, ~mayRaise) /\ Stack(Callers, Entered, ~mayRaise) /\ Callers # <<>>
  BY <1>1, View DEF Stack
<1>3. Head(Callers).at \in {"ml", "enter"}
  BY <1>1, <1>2 DEF Fits
<1>4. n \in Frames /\ n.at = "scan" /\ n.sig = Top.sig + 1
  <2>1. Top \in [at : Places, sig : Nat, saved : SUBSET Sig, ran : BOOLEAN]
    BY <1>2 DEF Frames
  <2>2. /\ n \in [at : Places, sig : Nat, saved : SUBSET Sig, ran : BOOLEAN]
        /\ n.at = "scan" /\ n.sig = Top.sig + 1
    <3>1. Top.at = "scan"
      BY <1>1
    <3>. QED
      BY <2>1, <3>1 DEF ScanNext
  <2>3. n.sig > 0
    BY <2>1, <2>2
  <2>. QED
    BY <2>2, <2>3 DEF Frames, AboutSignal
<1>5. e \in Frames /\ e.at = "exec" /\ e.sig = Top.sig
  BY <1>1 DEF Frame, Frames, Places, AboutSignal, Sig
<1>. HIDE DEF n, e
<1>6. Stack(u, Entered, ~mayRaise) /\ u \in Seq(Frames) /\ Head(u) = n /\ u # <<>>
  BY <1>2, <1>3, <1>4, FitsOver, Pushed, Cons
<1>7. /\ ~asyncMode /\ \A g \in pending \cup action : g \in Entered
      /\ forceSlice => somethingToDo
      /\ mayRaise \/ (arePending => somethingToDo \/ Has(u, Looks))
  <2>1. Has(Callers, Looks) => Has(u, Looks)
    BY <1>2, <1>4, HasCons
  <2>. QED
    BY <1>1, <2>1, TopTells
<1>8. Tables'
  BY <1>1, SameEntered DEF SignalInv, Tables, disposition
<1>9. Running(u) = Running(Callers)
  BY <1>2, <1>4, RunningCons DEF Runners
<1>10. \A g \in pending : (Top \in Scans(g) \/ Has(Callers, Scans(g))) /\ g # Top.sig => Has(u, Scans(g))
  <2>1. \A g \in pending : Top \in Scans(g) /\ g # Top.sig => n \in Scans(g)
    <3>1. \A g \in pending : g \in Nat /\ Top.sig \in Nat
      BY <1>1 DEF SignalInv, Tables, Sig
    <3>2. \A g \in pending : Top.sig <= g /\ g # Top.sig => Top.sig + 1 <= g
      BY <3>1
    <3>. QED
      BY <1>2, <1>4, <3>2, Kinds
  <2>. QED
    BY <1>2, <1>4, <2>1, HasCons
<1>11. /\ mayRaise \/ mask = Running(u)
       /\ \A g \in pending' : mayRaise \/ arePending \/ Has(u, Scans(g))
  BY <1>1, <1>9, <1>10, TopSees DEF Runners
<1>. HIDE DEF u
<1>12. CASE Top.sig \in pending
  <2>1. stack' = <<e>> \o u
    <3>1. stack' = (<<e>> \o <<n>>) \o Callers
      BY <1>1, <1>12
    <3>2. <<e>> \in Seq(Frames) /\ <<n>> \in Seq(Frames)
      BY <1>4, <1>5
    <3>. QED
      BY <1>2, <3>1, <3>2, ConcatAssociative DEF u
  <2>2. Fits(e, u, Entered, ~mayRaise)
    <3>1. Catches(u) /\ Exposed(u, NonHandles)
      BY <1>6, Solid
    <3>2. e.sig \in Entered
      BY <1>5, <1>7, <1>12
    <3>. QED
      BY <1>4, <1>5, <1>6, <3>1, <3>2 DEF Fits
  <2>3. Stacked'
    BY <1>1, <1>5, <1>6, <2>1, <2>2, Pushed, SameEntered DEF Stacked, disposition
  <2>4. Settled'
    BY <1>1, <1>5, <1>6, <1>7, <2>1, Landed, SameEntered DEF disposition
  <2>5. Watched'
    <3>1. e.at \notin Runners
      BY <1>5 DEF Runners
    <3>2. mayRaise \/ mask = Running(u) \cup {}
      BY <1>11
    <3>. QED
      BY <1>1, <1>5, <1>6, <1>11, <2>1, <3>1, <3>2, Watches, SameEntered DEF disposition
  <2>. QED
    BY <1>8, <2>3, <2>4, <2>5, Whole
<1>13. CASE Top.sig \notin pending
  <2>1. stack' = u
    <3>1. stack' = (<<>> \o <<n>>) \o Callers
      BY <1>1, <1>13
    <3>2. <<n>> \in Seq(Frames)
      BY <1>4
    <3>3. <<>> \o <<n>> = <<n>>
      BY <3>2, ConcatEmptySeq
    <3>. QED
      BY <3>1, <3>3 DEF u
  <2>2. Stacked'
    BY <1>1, <1>6, <2>1, SameEntered DEF Stacked, disposition
  <2>3. Settled'
    BY <1>1, <1>4, <1>6, <1>7, <2>1, Uncovered, SameEntered DEF disposition
  <2>4. Watched'
    BY <1>1, <1>11, <2>1, SameEntered DEF Watched, InView, Masked, disposition
  <2>. QED
    BY <1>8, <2>2, <2>3, <2>4, Whole
<1>. QED
  BY <1>12, <1>13

LEMMA ScanEndStep == ASSUME SignalInv, ScanEnd PROVE SignalInv'
<1>1. /\ Top.at = "scan" /\ Top.sig \notin Sig /\ stack' = Callers
      /\ UNCHANGED <<flags, disposition, mask, sent>>
  BY DEF ScanEnd, At
<1>2. /\ Top \in Frames /\ Callers \in Seq(Frames)
      /\ Fits(Top, Callers, Entered, ~mayRaise) /\ Stack(Callers, Entered, ~mayRaise) /\ Callers # <<>>
  BY <1>1, View DEF Stack
<1>3. Head(Callers).at \in {"ml", "enter"}
  BY <1>1, <1>2 DEF Fits
<1>4. \A g \in pending : Top \notin Scans(g)
  <2>1. Top.sig \in Nat /\ Top.sig > 0
    BY <1>1, <1>2, FrameFields
  <2>2. \A g \in pending : g \in Sig
    BY DEF SignalInv, Tables
  <2>3. \A g \in pending : ~(Top.sig <= g)
    BY <1>1, <2>1, <2>2, SignalsAssumption DEF Sig
  <2>. QED
    BY <1>2, <2>3, Kinds
<1>5. Tables'
  BY <1>1, SameEntered DEF SignalInv, Tables, disposition, flags
<1>6. Stacked'
  BY <1>1, <1>2, SameEntered DEF Stacked, disposition
<1>7. Settled'
  BY <1>1, <1>2, <1>3, TopTells, Uncovered, SameEntered DEF disposition, flags
<1>8. Watched'
  BY <1>1, <1>4, TopSees, SameEntered DEF Watched, InView, Masked, disposition, flags, Runners
<1>. QED
  BY <1>5, <1>6, <1>7, <1>8, Whole

LEMMA ExecuteStep == ASSUME SignalInv, Execute PROVE SignalInv'
<1>. DEFINE f == Frame(IF Top.sig \in handlers THEN "ml" ELSE "fault", Top.sig, {})
            r == [Top EXCEPT !.at = IF At("exec") THEN "running" ELSE "runningIn", !.saved = mask]
            u == <<r>> \o Callers
<1>1. /\ Top.at \in {"exec", "execIn"} /\ mask' = mask \cup {Top.sig} /\ stack' = <<f, r>> \o Callers
      /\ UNCHANGED <<flags, disposition, sent>>
  BY DEF Execute, At
<1>2. /\ Top \in Frames /\ Callers \in Seq(Frames) /\ stack = <<Top>> \o Callers
      /\ Fits(Top, Callers, Entered, ~mayRaise) /\ Stack(Callers, Entered, ~mayRaise) /\ Callers # <<>>
  BY <1>1, View DEF Stack
<1>3. Top.sig \in Sig /\ mask \subseteq Sig
  BY <1>1, <1>2, FrameFields DEF AboutSignal, SignalInv, Tables
<1>4. f \in Frames /\ f.at \in {"ml", "fault"} /\ f.sig = Top.sig
  <2>1. \E p \in {"ml", "fault"} : f = [at |-> p, sig |-> Top.sig, saved |-> {}, ran |-> FALSE]
    BY DEF Frame
  <2>. HIDE DEF f, r
  <2>2. {"ml", "fault"} \subseteq Places /\ Top.sig \in Nat /\ Top.sig \in Sig
    BY <1>3 DEF Places, Sig
  <2>. QED
    BY <2>1, <2>2 DEF Frames
<1>5. /\ r \in Frames /\ r.sig = Top.sig /\ r.saved = mask
      /\ r.at = IF Top.at = "exec" THEN "running" ELSE "runningIn"
  <2>1. Top \in [at : Places, sig : Nat, saved : SUBSET Sig, ran : BOOLEAN] /\ Top.sig \in Sig
    BY <1>2, <1>3 DEF Frames
  <2>2. /\ r \in [at : Places, sig : Nat, saved : SUBSET Sig, ran : BOOLEAN] /\ r.sig = Top.sig
        /\ r.saved = mask /\ r.at = IF Top.at = "exec" THEN "running" ELSE "runningIn"
    BY <1>3, <2>1 DEF Places, At
  <2>. QED
    BY <2>1, <2>2 DEF Frames
<1>. HIDE DEF f, r
<1>6. stack' = <<f>> \o u
  BY <1>1, <1>2, <1>4, <1>5, PushedTwo
<1>7. ~mayRaise => mask = Running(Callers) \cup (IF Top.at \in Runners THEN {Top.sig} ELSE {})
  BY TopSees
<1>8. Fits(r, Callers, Entered, ~mayRaise)
  BY <1>1, <1>2, <1>5, <1>7 DEF Fits, Runners
<1>9. u \in Seq(Frames) /\ Head(u) = r /\ u # <<>> /\ Stack(u, Entered, ~mayRaise)
  BY <1>2, <1>5, <1>8, Cons, Pushed
<1>10. /\ Running(u) = Running(Callers) \cup {Top.sig} /\ \A g : Has(stack, Scans(g)) => Has(u, Scans(g))
       /\ Has(Callers, Looks) => Has(u, Looks)
  <2>1. r.at \in Runners
    BY <1>5 DEF Runners
  <2>2. Running(u) = Running(Callers) \cup {Top.sig}
    BY <1>2, <1>5, <2>1, RunningCons
  <2>3. \A g : Top \notin Scans(g)
    BY <1>1, <1>2, Kinds
  <2>. QED
    BY <1>2, <1>5, <2>2, <2>3, HasCons
<1>. HIDE DEF u
<1>11. Fits(f, u, Entered, ~mayRaise)
  <2>1. Catches(u) /\ Exposed(u, NonHandles)
    BY <1>9, Solid
  <2>2. Top.sig \in Entered
    BY <1>1, <1>2 DEF Fits
  <2>. QED
    BY <1>4, <1>5, <1>9, <2>1, <2>2 DEF Fits
<1>12. Stacked'
  BY <1>1, <1>4, <1>6, <1>9, <1>11, Pushed, SameEntered DEF Stacked, disposition
<1>13. Tables'
  BY <1>1, <1>3, SameEntered DEF SignalInv, Tables, disposition, flags
<1>14. Settled'
  BY <1>1, <1>4, <1>6, <1>9, <1>10, TopTells, Landed, SameEntered DEF disposition, flags
<1>15. Watched'
  <2>1. f.at \notin Runners
    BY <1>4 DEF Runners
  <2>2. mayRaise \/ mask' = Running(u) \cup {}
    BY <1>1, <1>7, <1>10
  <2>3. mayRaise \/ \A g \in pending : arePending \/ Has(u, Scans(g))
    BY <1>10 DEF SignalInv, Quiet, InView
  <2>. QED
    BY <1>1, <1>4, <1>6, <1>9, <2>1, <2>2, <2>3, Watches, SameEntered DEF disposition, flags
<1>. QED
  BY <1>12, <1>13, <1>14, <1>15, Whole

\* A handler that ends lies over the frame of caml_execute_signal, which lies over its caller; a
\* finaliser over that of caml_final_do_calls.
LEMMA HandlerEnds ==
  ASSUME SignalInv, InHandler
  PROVE  /\ Top \in Frames /\ Callers \in Seq(Frames) /\ stack = <<Top>> \o Callers /\ Top.at = "ml"
         /\ Callers[1] \in Frames /\ Tail(Callers) \in Seq(Frames)
         /\ Callers = <<Callers[1]>> \o Tail(Callers)
         /\ Callers[1].at \in {"running", "runningIn", "finalise"}
         /\ Callers[1].at # "finalise" => Callers[1].sig \in Sig
         /\ Fits(Callers[1], Tail(Callers), Entered, ~mayRaise)
         /\ Stack(Tail(Callers), Entered, ~mayRaise)
<1>1. Top.at = "ml" /\ Callers # <<>>
  BY DEF InHandler, At
<1>2. /\ Top \in Frames /\ Callers \in Seq(Frames) /\ stack = <<Top>> \o Callers
      /\ Fits(Top, Callers, Entered, ~mayRaise) /\ Stack(Callers, Entered, ~mayRaise)
  BY <1>1, View
<1>3. Head(Callers).at \in {"running", "runningIn", "finalise"}
  BY <1>1, <1>2 DEF Fits
<1>4. Head(Callers) = Callers[1]
  BY <1>1, <1>2, TopAndRest
<1>5. Callers[1].at # "finalise" => Callers[1].sig \in Sig
  BY <1>1, <1>2, <1>3, <1>4, Opened, FrameFields DEF AboutSignal
<1>. QED
  BY <1>1, <1>2, <1>3, <1>4, <1>5, Opened

LEMMA ReturnStep == ASSUME SignalInv, Return PROVE SignalInv'
<1>. DEFINE r == Callers[1]
            t == Tail(Callers)
<1>1. /\ InHandler /\ mask' = (IF r.at = "running" THEN r.saved ELSE mask) /\ stack' = t
      /\ finalising' \in BOOLEAN
      /\ UNCHANGED <<flags, action, handlers, unentered, mayRaise, sent>>
  BY DEF Return, Finalised
<1>2. /\ Top \in Frames /\ Callers \in Seq(Frames) /\ stack = <<Top>> \o Callers /\ Top.at = "ml"
      /\ r \in Frames /\ t \in Seq(Frames) /\ Callers = <<r>> \o t
      /\ r.at \in {"running", "runningIn", "finalise"} /\ (r.at # "finalise" => r.sig \in Sig)
      /\ Fits(r, t, Entered, ~mayRaise) /\ Stack(t, Entered, ~mayRaise) /\ t # <<>>
  BY <1>1, HandlerEnds DEF Stack
<1>. HIDE DEF r, t
<1>3. /\ r.at = "running" => Head(t).at = "scan" /\ (~mayRaise => r.saved = Running(t))
      /\ r.at = "runningIn" => Head(t).at = "handled" /\ Head(t).sig = r.sig
      /\ r.at = "finalise" => Head(t).at \in {"process", "replace", "table"}
  BY <1>2 DEF Fits
<1>4. Tables'
  <2>1. r.saved \subseteq Sig
    BY <1>2, FrameFields
  <2>. QED
    BY <1>1, <2>1 DEF SignalInv, Tables, flags
<1>5. Stacked'
  BY <1>1, <1>2, SameEntered DEF Stacked
<1>6. Settled'
  <2>1. Has(Callers, Looks) => Has(t, Looks)
    BY <1>2, HasCons, Kinds
  <2>. QED
    BY <1>1, <1>2, <1>3, <2>1, TopTells, Uncovered, SameEntered DEF flags
<1>7. Watched'
  <2>1. ~mayRaise => mask = Running(Callers) /\ \A g \in pending : arePending \/ Has(Callers, Scans(g))
    BY <1>2, TopSees, Kinds DEF Runners
  <2>2. \A g : Has(Callers, Scans(g)) => Has(t, Scans(g))
    BY <1>2, HasCons, Kinds
  <2>3. Running(Callers) = Running(t) \cup (IF r.at = "finalise" THEN {} ELSE {r.sig})
    BY <1>2, RunningCons DEF Runners
  <2>4. r.at = "runningIn" => r.sig \in Running(t)
    <3>1. Head(t) \in Frames /\ Tail(t) \in Seq(Frames) /\ t = <<Head(t)>> \o Tail(t)
      BY <1>2, Opened
    <3>2. Head(t).at \in Runners => Head(t).sig \in Running(t)
      BY <3>1, RunningCons
    <3>. QED
      BY <1>3, <3>2 DEF Runners
  <2>5. ~mayRaise => mask' = Running(t)
    BY <1>1, <1>2, <1>3, <2>1, <2>3, <2>4
  <2>. QED
    BY <1>1, <2>1, <2>2, <2>5 DEF Watched, InView, Masked, flags
<1>. QED
  BY <1>4, <1>5, <1>6, <1>7, Whole

\* An exception lands in Caml code, and no flag depends on the frames it leaves.
LEMMA Caught ==
  ASSUME mayRaise', NEW t, Stack(t, Entered, ~mayRaise), stack' = Unwound(t), ~asyncMode',
         Entered' = Entered, mayRaise' = mayRaise, \A g \in pending' \cup action' : g \in Entered',
         forceSlice' => somethingToDo'
  PROVE  Stacked' /\ Settled' /\ Watched'
<1>1. Stack(Unwound(t), Entered, ~mayRaise) /\ Head(Unwound(t)).at = "ml"
  BY Unwinds
<1>2. Stacked'
  BY <1>1 DEF Stacked
<1>3. Settled'
  BY <1>1, Uncovered
<1>. QED
  BY <1>2, <1>3 DEF Watched

LEMMA RaiseStep == ASSUME SignalInv, Raise PROVE SignalInv'
<1>1. /\ mayRaise /\ InHandler /\ mask' = MaskAfterRaise(Callers[1]) /\ stack' = Unwound(Tail(Callers))
      /\ UNCHANGED <<flags, disposition, sent>>
  BY DEF Raise
<1>2. /\ Top.at = "ml" /\ Callers[1] \in Frames /\ Stack(Tail(Callers), Entered, ~mayRaise)
  BY <1>1, HandlerEnds
<1>3. Tables'
  <2>1. Callers[1].saved \subseteq Sig
    BY <1>2, FrameFields
  <2>2. mask' \in {Callers[1].saved, Callers[1].saved \ {Callers[1].sig}, mask}
    BY <1>1 DEF MaskAfterRaise
  <2>3. mask' \subseteq Sig
    BY <2>1, <2>2 DEF SignalInv, Tables
  <2>. QED
    BY <1>1, <2>3 DEF SignalInv, Tables, disposition, flags
<1>4. Stacked' /\ Settled' /\ Watched'
  BY <1>1, <1>2, TopTells, Caught, SameEntered DEF disposition, flags
<1>. QED
  BY <1>3, <1>4, Whole

LEMMA CodeFrame ==
  ASSUME NEW p \in {"process", "event", "enter"}
  PROVE  /\ Frame(p, 0, {}) \in Frames /\ Frame(p, 0, {}).at = p /\ p \in Plain
BY DEF Frame, Frames, Places, AboutSignal, Plain, Runners

\* One frame of C code pushed over Caml code, or put in the place of the top: what is
\* recorded and blocked stays as it is.
LEMMA OverCaml ==
  ASSUME SignalInv, Top.at = "ml", NEW f \in Frames, stack' = <<f>> \o stack,
         f.at \in {"process", "event", "enter", "install"} \/ (f.at = "replace" /\ f.sig \in Entered),
         UNCHANGED <<pending, arePending, mask, Entered, mayRaise>>
  PROVE  Stacked' /\ Watched'
<1>1. Stack(stack, Entered, ~mayRaise) /\ stack \in Seq(Frames) /\ Head(stack).at = "ml"
  BY View DEF Top
<1>2. Stacked'
  BY <1>1, FitsOver, Pushed DEF Stacked
<1>3. f.at \in Plain
  BY DEF Plain, Places, Runners
<1>. QED
  BY <1>1, <1>2, <1>3, StaysWatched

LEMMA InPlace ==
  ASSUME SignalInv,
         Top.at \in {"event", "install", "replace", "table", "enter", "entered", "syscall", "leave"},
         NEW f \in Frames, stack' = <<f>> \o Callers,
         f.at \in {"process", "enter", "entered", "syscall", "leave"},
         Entered \subseteq Entered', UNCHANGED <<pending, arePending, mask, mayRaise>>
  PROVE  Stacked' /\ Watched' /\ Callers \in Seq(Frames)
<1>1. /\ Top \in Frames /\ Callers \in Seq(Frames) /\ stack = <<Top>> \o Callers
      /\ Fits(Top, Callers, Entered, ~mayRaise) /\ Stack(Callers, Entered, ~mayRaise) /\ Callers # <<>>
  BY View DEF Stack
<1>2. Head(Callers).at = "ml"
  BY <1>1 DEF Fits
<1>3. Stack(Callers, Entered', ~mayRaise)
  BY <1>1, MoreHandlers DEF Stack
<1>4. Stacked'
  BY <1>2, <1>3, FitsOver, Pushed DEF Stacked
<1>5. f.at \in Plain /\ Top.at \in Plain
  BY DEF Plain, Places, Runners
<1>6. Running(Callers) = Running(stack) /\ \A g : Has(stack, Scans(g)) => Has(Callers, Scans(g))
  BY <1>1, <1>5, PlainTop
<1>. QED
  BY <1>1, <1>4, <1>5, <1>6, StaysWatched

\* A scan for pending signals called from the entry of a blocking section, over t.
LEMMA ScanAtEntry ==
  ASSUME SignalInv, NEW f \in Frames, f.at = "process", NEW h \in Frames, h.at = "enter", NEW t,
         Stack(t, Entered, ~mayRaise), Head(t).at = "ml", stack' = <<f, h>> \o t,
         Running(t) = Running(stack), \A g : Has(stack, Scans(g)) => Has(t, Scans(g)),
         UNCHANGED <<pending, arePending, mask, Entered, mayRaise>>
  PROVE  Stacked' /\ Watched' /\ \E u \in Seq(Frames) : stack' = <<f>> \o u
<1>. DEFINE u == <<h>> \o t
<1>1. t \in Seq(Frames)
  BY DEF Stack
<1>2. stack' = <<f>> \o u
  BY <1>1, PushedTwo
<1>3. u \in Seq(Frames) /\ Head(u) = h /\ Stack(u, Entered, ~mayRaise)
  BY <1>1, FitsOver, Pushed, Cons
<1>4. f.at \in Plain /\ h.at \in Plain
  BY DEF Plain, Places, Runners
<1>5. Running(u) = Running(stack) /\ \A g : Has(stack, Scans(g)) => Has(u, Scans(g))
  BY <1>1, <1>4, PlainTop
<1>. HIDE DEF u
<1>6. Stacked'
  BY <1>2, <1>3, FitsOver, Pushed DEF Stacked
<1>. QED
  BY <1>2, <1>3, <1>4, <1>5, <1>6, StaysWatched

LEMMA PollStep == ASSUME SignalInv, Poll PROVE SignalInv'
<1>. DEFINE f == Frame("event", 0, {})
<1>1. /\ Top.at = "ml" /\ somethingToDo' = FALSE /\ stack' = <<f>> \o stack
      /\ UNCHANGED <<pending, arePending, forceSlice, asyncMode, disposition, mask, sent>>
  BY DEF Poll, Call, At
<1>2. f \in Frames /\ f.at = "event" /\ stack \in Seq(Frames)
  BY CodeFrame, View
<1>. HIDE DEF f
<1>3. Tables'
  BY <1>1, SameEntered DEF SignalInv, Tables, disposition
<1>4. Stacked' /\ Watched'
  BY <1>1, <1>2, OverCaml, SameEntered DEF disposition
<1>5. Settled'
  BY <1>1, <1>2, TopTells, Landed, SameEntered DEF disposition
<1>. QED
  BY <1>3, <1>4, <1>5, Whole

\* A collection in C code runs a finaliser over the frame that goes on.
LEMMA Collected ==
  ASSUME SignalInv, Top.at \in {"event", "install", "replace"}, NEW f \in Frames,
         f.at = "process" \/ (f.at \in {"replace", "table"} /\ f.sig \in Entered'),
         Top.at = "event" => f.at = "process", Top.at = "install" => Top.sig \in Entered',
         CollectUnder(f), Entered \subseteq Entered',
         UNCHANGED <<pending, arePending, somethingToDo, asyncMode, action, mask, mayRaise>>
  PROVE  Stacked' /\ Settled' /\ Watched' /\ sent' \in 0..MaxSent /\ finalising' \in BOOLEAN
<1>. DEFINE m == Frame("ml", 0, {})
            n == Frame("finalise", 0, {})
            u == <<f>> \o Callers
            v == <<n>> \o u
<1>1. /\ sent > 0 /\ finalising' = TRUE /\ sent' = sent - 1 /\ forceSlice' = FALSE
      /\ stack' = <<m, n, f>> \o Callers
  BY DEF CollectUnder
<1>2. m \in Frames /\ m.at = "ml" /\ n \in Frames /\ n.at = "finalise"
  BY DEF Frame, Frames, Places, AboutSignal
<1>. HIDE DEF m, n
<1>3. /\ Top \in Frames /\ Callers \in Seq(Frames) /\ stack = <<Top>> \o Callers
      /\ Fits(Top, Callers, Entered, ~mayRaise) /\ Stack(Callers, Entered, ~mayRaise) /\ Callers # <<>>
  BY View DEF Stack
<1>4. Head(Callers).at = "ml"
  BY <1>3 DEF Fits
<1>5. Stack(Callers, Entered', ~mayRaise)
  BY <1>3, MoreHandlers DEF Stack
<1>6. u \in Seq(Frames) /\ u # <<>> /\ Head(u) = f /\ Stack(u, Entered', ~mayRaise)
  BY <1>3, <1>4, <1>5, FitsOver, Pushed, Cons
<1>7. stack' = <<m>> \o v
  <2>1. <<m, n, f>> \o Callers = <<m>> \o (<<n>> \o (<<f>> \o Callers))
    <3>. HIDE DEF u, v
    <3>1. Callers \in Seq(Frames) /\ f \in Frames /\ m \in Frames /\ n \in Frames
      BY <1>2, <1>3
    <3>. QED
      BY <3>1, PushedThree
  <2>. QED
    BY <1>1, <2>1
<1>8. f.at \in Plain /\ m.at \in Plain /\ n.at \in Plain /\ Top.at \in Plain
  BY <1>2 DEF Plain, Places, Runners
<1>9. /\ Running(u) = Running(stack) /\ \A g : Has(stack, Scans(g)) => Has(u, Scans(g))
      /\ Has(Callers, Looks) \/ f.at = "process" => Has(u, Looks)
  <2>1. f.at = "process" => f \in Looks
    BY Kinds
  <2>. QED
    BY <1>3, <1>8, <2>1, PlainTop, HasCons
<1>. HIDE DEF u
<1>10. Fits(n, u, Entered', ~mayRaise)
  <2>1. Catches(u) /\ Exposed(u, NonHandles)
    BY <1>6, Solid
  <2>. QED
    BY <1>2, <1>6, <2>1 DEF Fits
<1>11. v \in Seq(Frames) /\ v # <<>> /\ Head(v) = n /\ Stack(v, Entered', ~mayRaise)
  BY <1>2, <1>6, <1>10, Pushed, Cons
<1>12. /\ Running(v) = Running(stack) /\ \A g : Has(stack, Scans(g)) => Has(v, Scans(g))
       /\ Has(u, Looks) => Has(v, Looks)
  BY <1>2, <1>6, <1>8, <1>9, PlainTop, HasCons
<1>. HIDE DEF v
<1>13. Fits(m, v, Entered', ~mayRaise)
  <2>1. Catches(v) /\ Exposed(v, NonHandles)
    BY <1>11, Solid
  <2>. QED
    BY <1>2, <1>11, <2>1 DEF Fits
<1>14. Stacked'
  BY <1>2, <1>7, <1>11, <1>13, Pushed DEF Stacked
<1>15. Watched'
  BY <1>2, <1>7, <1>8, <1>11, <1>12, StaysWatched
<1>16. Settled'
  <2>1. ~asyncMode' /\ \A g \in pending' \cup action' : g \in Entered'
    BY TopTells
  <2>2. mayRaise' \/ (arePending' => somethingToDo' \/ Has(v, Looks))
    BY <1>9, <1>12, TopTells
  <2>. QED
    BY <1>1, <1>2, <1>7, <1>11, <2>1, <2>2, Landed
<1>17. sent' \in 0..MaxSent
  BY <1>1, SignalsAssumption DEF SignalInv, Tables
<1>. QED
  BY <1>1, <1>14, <1>15, <1>16, <1>17

LEMMA EventStep == ASSUME SignalInv, Event PROVE SignalInv'
<1>. DEFINE f == Frame("process", 0, {})
<1>1. /\ Top.at = "event"
      /\ \/ forceSlice' = FALSE /\ stack' = <<f>> \o Callers /\ UNCHANGED <<finalising, sent>>
         \/ CollectUnder(f)
      /\ UNCHANGED <<pending, arePending, somethingToDo, asyncMode, action, handlers, unentered, mayRaise, mask>>
  BY DEF Event, At
<1>2. f \in Frames /\ f.at = "process"
  BY CodeFrame
<1>. HIDE DEF f
<1>3. forceSlice' = FALSE
  BY <1>1 DEF CollectUnder
<1>4. CASE stack' = <<f>> \o Callers /\ UNCHANGED <<finalising, sent>>
  <2>1. Stacked' /\ Watched' /\ Callers \in Seq(Frames)
    BY <1>1, <1>2, <1>4, InPlace, SameEntered
  <2>2. Settled'
    BY <1>1, <1>2, <1>3, <1>4, <2>1, TopTells, Landed, SameEntered
  <2>3. Tables'
    BY <1>1, <1>3, <1>4 DEF SignalInv, Tables
  <2>. QED
    BY <2>1, <2>2, <2>3, Whole
<1>5. CASE CollectUnder(f)
  <2>1. Stacked' /\ Settled' /\ Watched' /\ sent' \in 0..MaxSent /\ finalising' \in BOOLEAN
    BY <1>1, <1>2, <1>5, Collected, SameEntered
  <2>2. Tables'
    BY <1>1, <1>3, <2>1 DEF SignalInv, Tables
  <2>. QED
    BY <2>1, <2>2, Whole
<1>. QED
  BY <1>1, <1>4, <1>5

LEMMA UrgeStep == ASSUME SignalInv, UrgeMajorSlice \/ UNCHANGED vars PROVE SignalInv'
<1>1. CASE UNCHANGED vars
  BY <1>1, SameEntered DEF vars, SignalInv, Tables, Stacked, Modes, Entries, Sleeps, Slices, Quiet, Polls, InView, Masked
<1>2. CASE UrgeMajorSlice
  <2>1. /\ forceSlice' = TRUE /\ somethingToDo' = TRUE
        /\ UNCHANGED <<pending, arePending, asyncMode, action, handlers, finalising, unentered, mayRaise,
                       mask, stack, sent>>
        /\ Entered' = Entered
    BY <1>2, SameEntered DEF UrgeMajorSlice, disposition
  <2>2. Tables' /\ Stacked' /\ Modes' /\ Entries' /\ Sleeps'
    BY <2>1 DEF SignalInv, Tables, Stacked, Modes, Entries, Sleeps
  <2>3. Slices' /\ Polls' /\ Watched'
    BY <2>1 DEF SignalInv, Slices, Quiet, Polls, Watched, InView, Masked
  <2>. QED
    BY <2>2, <2>3, Whole DEF Settled
<1>. QED
  BY <1>1, <1>2

LEMMA CallBlockingStep == ASSUME SignalInv, CallBlocking PROVE SignalInv'
<1>. DEFINE f == Frame("process", 0, {})
            h == Frame("enter", 0, {})
<1>1. /\ Top.at = "ml" /\ stack' = <<f, h>> \o stack /\ UNCHANGED <<flags, disposition, mask, sent>>
  BY DEF CallBlocking, At
<1>2. f \in Frames /\ f.at = "process" /\ h \in Frames /\ h.at = "enter"
  BY CodeFrame
<1>. HIDE DEF f, h
<1>3. Tables'
  BY <1>1, SameEntered DEF SignalInv, Tables, disposition, flags
<1>4. Stack(stack, Entered, ~mayRaise) /\ Head(stack).at = "ml"
  BY <1>1, View DEF Top
<1>5. Stacked' /\ Watched' /\ \E u \in Seq(Frames) : stack' = <<f>> \o u
  BY <1>1, <1>2, <1>4, ScanAtEntry, SameEntered DEF disposition, flags
<1>6. Settled'
  BY <1>1, <1>2, <1>5, TopTells, Landed, SameEntered DEF disposition, flags
<1>. QED
  BY <1>3, <1>5, <1>6, Whole

LEMMA EnterAgainStep == ASSUME SignalInv, EnterAgain PROVE SignalInv'
<1>. DEFINE f == Frame("process", 0, {})
            h == [Top EXCEPT !.at = "enter"]
<1>1. /\ Top.at = "entered" /\ asyncMode' = FALSE /\ stack' = <<f, h>> \o Callers
      /\ UNCHANGED <<pending, arePending, somethingToDo, forceSlice, disposition, mask, sent>>
  BY DEF EnterAgain, GotoAndCall, At
<1>2. /\ Top \in Frames /\ Callers \in Seq(Frames) /\ stack = <<Top>> \o Callers
      /\ Fits(Top, Callers, Entered, ~mayRaise) /\ Stack(Callers, Entered, ~mayRaise) /\ Callers # <<>>
  BY <1>1, View DEF Stack
<1>3. f \in Frames /\ f.at = "process" /\ h \in Frames /\ h.at = "enter"
  BY <1>2, CodeFrame, Moved DEF Places, AboutSignal
<1>. HIDE DEF f, h
<1>4. Tables'
  BY <1>1, SameEntered DEF SignalInv, Tables, disposition
<1>5. Head(Callers).at = "ml"
  BY <1>1, <1>2 DEF Fits
<1>6. Running(Callers) = Running(stack) /\ \A g : Has(stack, Scans(g)) => Has(Callers, Scans(g))
  <2>1. Top.at \in Plain
    BY <1>1 DEF Plain, Places, Runners
  <2>. QED
    BY <1>2, <2>1, PlainTop
<1>7. Stacked' /\ Watched' /\ \E u \in Seq(Frames) : stack' = <<f>> \o u
  BY <1>1, <1>2, <1>3, <1>5, <1>6, ScanAtEntry, SameEntered DEF disposition
<1>8. Settled'
  BY <1>1, <1>3, <1>7, TopTells, Landed, SameEntered DEF disposition
<1>. QED
  BY <1>4, <1>7, <1>8, Whole

LEMMA EnterHookStep == ASSUME SignalInv, EnterHook PROVE SignalInv'
<1>. DEFINE f == [Top EXCEPT !.at = "entered"]
<1>1. /\ Top.at = "enter" /\ asyncMode' = TRUE /\ stack' = <<f>> \o Callers
      /\ UNCHANGED <<pending, arePending, somethingToDo, forceSlice, disposition, mask, sent>>
  BY DEF EnterHook, Goto, At
<1>2. f \in Frames /\ f.at = "entered"
  BY View, Moved DEF Places, AboutSignal
<1>. HIDE DEF f
<1>3. Tables'
  BY <1>1, SameEntered DEF SignalInv, Tables, disposition
<1>4. Stacked' /\ Watched' /\ Callers \in Seq(Frames)
  BY <1>1, <1>2, InPlace, SameEntered DEF disposition
<1>5. Settled'
  BY <1>1, <1>2, <1>4, TopTells, Landed, SameEntered DEF disposition
<1>. QED
  BY <1>3, <1>4, <1>5, Whole

LEMMA EnterDoneStep == ASSUME SignalInv, EnterDone PROVE SignalInv'
<1>. DEFINE f == [Top EXCEPT !.at = "syscall"]
<1>1. /\ Top.at = "entered" /\ ~arePending /\ asyncMode' = asyncMode /\ stack' = <<f>> \o Callers
      /\ UNCHANGED <<pending, arePending, somethingToDo, forceSlice, disposition, mask, sent>>
  BY DEF EnterDone, Goto, At, flags
<1>2. f \in Frames /\ f.at = "syscall"
  BY View, Moved DEF Places, AboutSignal
<1>. HIDE DEF f
<1>3. Tables'
  BY <1>1, SameEntered DEF SignalInv, Tables, disposition
<1>4. Stacked' /\ Watched' /\ Callers \in Seq(Frames)
  BY <1>1, <1>2, InPlace, SameEntered DEF disposition
<1>5. Settled'
  BY <1>1, <1>2, <1>4, TopTells, Landed, SameEntered DEF disposition
<1>. QED
  BY <1>3, <1>4, <1>5, Whole

LEMMA SyscallReturnsStep == ASSUME SignalInv, SyscallReturns PROVE SignalInv'
<1>. DEFINE f == [Top EXCEPT !.at = "leave"]
<1>1. /\ Top.at = "syscall" /\ asyncMode' = asyncMode /\ stack' = <<f>> \o Callers
      /\ UNCHANGED <<pending, arePending, somethingToDo, forceSlice, disposition, mask, sent>>
  BY DEF SyscallReturns, Goto, At, flags
<1>2. f \in Frames /\ f.at = "leave"
  BY View, Moved DEF Places, AboutSignal
<1>. HIDE DEF f
<1>3. Tables'
  BY <1>1, SameEntered DEF SignalInv, Tables, disposition
<1>4. Stacked' /\ Watched' /\ Callers \in Seq(Frames)
  BY <1>1, <1>2, InPlace, SameEntered DEF disposition
<1>5. Settled'
  BY <1>1, <1>2, <1>4, TopTells, Landed, SameEntered DEF disposition
<1>. QED
  BY <1>3, <1>4, <1>5, Whole

LEMMA LeaveBlockingStep == ASSUME SignalInv, LeaveBlocking PROVE SignalInv'
<1>. DEFINE f == Frame("process", 0, {})
<1>1. /\ Top.at = "leave" /\ asyncMode' = FALSE /\ stack' = <<f>> \o Callers
      /\ UNCHANGED <<pending, arePending, somethingToDo, forceSlice, disposition, mask, sent>>
  BY DEF LeaveBlocking, At
<1>2. f \in Frames /\ f.at = "process"
  BY CodeFrame
<1>. HIDE DEF f
<1>3. Tables'
  BY <1>1, SameEntered DEF SignalInv, Tables, disposition
<1>4. Stacked' /\ Watched' /\ Callers \in Seq(Frames)
  BY <1>1, <1>2, InPlace, SameEntered DEF disposition
<1>5. Settled'
  BY <1>1, <1>2, <1>4, TopTells, Landed, SameEntered DEF disposition
<1>. QED
  BY <1>3, <1>4, <1>5, Whole

LEMMA InstallStep == ASSUME SignalInv, NEW s \in Sig, Install(s) PROVE SignalInv'
<1>. DEFINE f == Frame(IF s \in action THEN "replace" ELSE "install", s, {})
<1>1. /\ Top.at = "ml" /\ action' = action \cup {s} /\ stack' = <<f>> \o stack
      /\ UNCHANGED <<flags, handlers, finalising, unentered, mask, sent, mayRaise>>
  BY DEF Install, Call, At
<1>2. /\ f \in Frames /\ f.at = (IF s \in action THEN "replace" ELSE "install") /\ f.sig = s
      /\ stack \in Seq(Frames)
  BY View DEF Frame, Frames, Places, AboutSignal, Sig
<1>. HIDE DEF f
<1>3. Tables'
  BY <1>1 DEF SignalInv, Tables, flags
<1>4. s \in action => s \in Entered
  BY <1>1, TopTells
<1>5. Stacked' /\ Watched'
  BY <1>1, <1>2, <1>4, OverCaml, SameEntered DEF flags
<1>6. Settled'
  <2>1. \A g \in pending \cup action : g \in Entered
    BY <1>1, TopTells
  <2>2. mayRaise \/ (arePending => somethingToDo \/ Has(stack, Looks))
    BY DEF SignalInv, Quiet, Polls
  <2>. QED
    BY <1>1, <1>2, <1>4, <2>1, <2>2, TopTells, Landed, SameEntered DEF flags
<1>. QED
  BY <1>3, <1>5, <1>6, Whole

LEMMA InstallCollectsStep == ASSUME SignalInv, InstallCollects PROVE SignalInv'
<1>. DEFINE f == [Top EXCEPT !.at = IF At("install") THEN "table" ELSE "replace"]
<1>1. /\ Top.at \in {"install", "replace"} /\ CollectUnder(f) /\ unentered' = unentered \cup {Top.sig}
      /\ UNCHANGED <<pending, arePending, somethingToDo, asyncMode, action, handlers, mayRaise, mask>>
  BY DEF InstallCollects, At
<1>2. Top \in Frames /\ Top.sig \in Sig
  BY <1>1, View, FrameFields DEF AboutSignal
<1>3. f \in Frames /\ f.at \in {"replace", "table"} /\ f.sig = Top.sig
  BY <1>2, Moved DEF Places
<1>. HIDE DEF f
<1>4. Entered' = Entered \cup {Top.sig}
  BY <1>1 DEF Entered
<1>5. Stacked' /\ Settled' /\ Watched' /\ sent' \in 0..MaxSent /\ finalising' \in BOOLEAN
  BY <1>1, <1>3, <1>4, Collected
<1>6. Tables'
  BY <1>1, <1>2, <1>5 DEF SignalInv, Tables, CollectUnder
<1>. QED
  BY <1>5, <1>6, Whole

LEMMA InstallFaultsStep == ASSUME SignalInv, InstallFaults PROVE SignalInv'
<1>. DEFINE f == Frame("fault", Top.sig, {})
<1>1. /\ Top.at = "replace" /\ stack' = <<f>> \o stack /\ UNCHANGED <<flags, disposition, mask, sent>>
  BY DEF InstallFaults, Call, At
<1>2. /\ Top \in Frames /\ Callers \in Seq(Frames) /\ stack = <<Top>> \o Callers /\ Callers # <<>>
      /\ Fits(Top, Callers, Entered, ~mayRaise) /\ Stack(stack, Entered, ~mayRaise) /\ stack \in Seq(Frames)
      /\ stack # <<>>
  BY <1>1, View DEF Stack
<1>3. Top.sig \in Sig /\ Top.sig \in Entered
  BY <1>1, <1>2, FrameFields DEF AboutSignal, Fits
<1>4. f \in Frames /\ f.at = "fault" /\ f.sig = Top.sig
  BY <1>3 DEF Frame, Frames, Places, AboutSignal, Sig
<1>. HIDE DEF f
<1>5. Tables'
  BY <1>1 DEF SignalInv, Tables, disposition, flags
<1>6. Fits(f, stack, Entered, ~mayRaise)
  <2>1. Catches(stack) /\ Exposed(stack, NonHandles)
    BY <1>2, Solid
  <2>. QED
    BY <1>2, <1>3, <1>4, <2>1 DEF Fits
<1>7. Stacked'
  BY <1>1, <1>2, <1>4, <1>6, Pushed, SameEntered DEF Stacked, disposition
<1>8. Settled'
  <2>1. mayRaise \/ (arePending => somethingToDo \/ Has(stack, Looks))
    BY DEF SignalInv, Quiet, Polls
  <2>. QED
    BY <1>1, <1>2, <1>4, <2>1, TopTells, Landed, SameEntered DEF flags, disposition
<1>9. Watched'
  <2>1. f.at \in Plain
    BY <1>4 DEF Plain, Places, Runners
  <2>. QED
    BY <1>1, <1>2, <1>4, <2>1, StaysWatched DEF flags, disposition
<1>. QED
  BY <1>5, <1>7, <1>8, <1>9, Whole

LEMMA InstallHandlerStep == ASSUME SignalInv, InstallHandler PROVE SignalInv'
<1>. DEFINE f == Frame("process", 0, {})
<1>1. /\ Top.at \in {"install", "table", "replace"} /\ stack' = <<f>> \o Callers
      /\ handlers' = (IF At("table") THEN {} ELSE handlers) \cup {Top.sig}
      /\ unentered' = (unentered \cup handlers) \ handlers'
      /\ UNCHANGED <<flags, action, finalising, mask, sent, mayRaise>>
  BY DEF InstallHandler, At
<1>2. f \in Frames /\ f.at = "process"
  BY CodeFrame
<1>. HIDE DEF f
<1>3. Tables'
  <2>1. Top.sig \in Sig
    BY <1>1, View, FrameFields DEF AboutSignal
  <2>. QED
    BY <1>1, <2>1 DEF SignalInv, Tables, flags
<1>4. Entered' = Entered \cup {Top.sig}
  BY <1>1 DEF Entered
<1>5. Stacked' /\ Watched' /\ Callers \in Seq(Frames)
  BY <1>1, <1>2, <1>4, InPlace DEF flags
<1>6. Settled'
  BY <1>1, <1>2, <1>4, <1>5, TopTells, Landed DEF flags
<1>. QED
  BY <1>3, <1>5, <1>6, Whole

LEMMA IgnoreStep == ASSUME SignalInv, NEW s \in Sig, Ignore(s) PROVE SignalInv'
<1>. DEFINE f == Frame("process", 0, {})
<1>1. /\ Top.at = "ml" /\ action' = action \ {s} /\ stack' = <<f>> \o stack
      /\ UNCHANGED <<flags, handlers, finalising, unentered, mask, sent, mayRaise>>
  BY DEF Ignore, Call, At
<1>2. f \in Frames /\ f.at = "process" /\ stack \in Seq(Frames)
  BY CodeFrame, View
<1>. HIDE DEF f
<1>3. Tables'
  BY <1>1 DEF SignalInv, Tables, flags
<1>4. Stacked' /\ Watched'
  BY <1>1, <1>2, OverCaml, SameEntered DEF flags
<1>5. Settled'
  BY <1>1, <1>2, TopTells, Landed, SameEntered DEF flags
<1>. QED
  BY <1>3, <1>4, <1>5, Whole

(* ------------------------------ The theorems ----------------------------- *)
THEOREM SignalsKeepTheirStack == Spec => []SignalInv
<1>1. ASSUME SignalInv, [Next]_vars PROVE SignalInv'
  <2>1. CASE Step
    BY <1>1, <2>1, HandleRecordStep, HandleExecuteStep, HandleReturnStep, ProcessStartStep, ScanStep,
       ScanEndStep, ExecuteStep, ReturnStep, RaiseStep, PollStep, EventStep, EnterHookStep,
       EnterAgainStep, EnterDoneStep, SyscallReturnsStep, LeaveBlockingStep, InstallCollectsStep,
       InstallFaultsStep, InstallHandlerStep DEF Step
  <2>. QED
    BY <1>1, <2>1, DeliverStep, InstallStep, IgnoreStep, UrgeStep, CallBlockingStep DEF Next
<1>. QED
  BY <1>1, SignalInit, PTL DEF Spec

\* Whatever a signal handler records or an allocation urges will be looked at: a recorded
\* signal by a scan, an urgent collection or a pending signal by the next poll or the event
\* under way, and no system call starts over a flag that is up (signals.c:46, :113).
THEOREM AllSignalsAreSeen == Spec => []SignalsAreSeen
<1>1. ASSUME SignalInv PROVE SignalsAreSeen
  <2>1. NoneStranded
    BY <1>1 DEF SignalInv, Quiet, InView, NoneStranded, WillBeScanned, Has, Scans
  <2>2. SleepsOnlyOnSeen
    BY <1>1, TopTells DEF SleepsOnlyOnSeen, At
  <2>3. PollSeesEvents
    <3>1. forceSlice => somethingToDo \/ \E i \in DOMAIN stack : stack[i].at = "event"
      BY <1>1 DEF SignalInv, Slices, Exposed, Events, Placed
    <3>2. arePending /\ ~mayRaise => somethingToDo \/
            \E i \in DOMAIN stack : stack[i].at \in {"event", "process", "entered", "enter"}
      BY <1>1 DEF SignalInv, Quiet, Polls, Has, Looks, Placed
    <3>. QED
      BY <3>1, <3>2 DEF PollSeesEvents
  <2>. QED
    BY <2>1, <2>2, <2>3 DEF SignalsAreSeen
<1>. QED
  BY <1>1, SignalsKeepTheirStack, PTL

\* The mode is set exactly inside a blocking section, the mask is the signals whose handlers
\* run (while none raises), and no handler is called before its entry in the table exists,
\* on every way out of a handler (signals.c:81, :131-149, :283).
THEOREM AllHandlersAreBracketed == Spec => []HandlersAreBracketed
<1>1. ASSUME SignalInv PROVE HandlersAreBracketed
  <2>1. stack \in Seq(Frames) /\ DOMAIN stack = 1..Len(stack) /\ Len(stack) \in Nat \ {0} /\ Top = stack[1]
    BY <1>1, TopAndRest, LenProperties DEF SignalInv, Stacked, Stack, Top
  <2>2. ModeIsBlocking
    <3>. DEFINE below == {i \in DOMAIN stack : stack[i].at # "handle"}
                first == CHOOSE i \in below : \A j \in below : i <= j
                places == {"entered", "syscall", "leave"}
    <3>1. PICK k \in DOMAIN stack : stack[k] \in NonHandles /\ \A j \in 1..k - 1 : stack[j].at = "handle"
      BY <1>1, Solid DEF SignalInv, Stacked, Exposed
    <3>2. k \in below /\ \A j \in below : k <= j
      BY <2>1, <3>1 DEF NonHandles
    <3>3. first = k
      <4>1. first \in below /\ \A j \in below : first <= j
        BY <3>2
      <4>. HIDE DEF first
      <4>2. first <= k /\ k <= first /\ first \in Nat /\ k \in Nat
        BY <2>1, <3>2, <4>1
      <4>. QED
        BY <4>2
    <3>4. Exposed(stack, Blocking) <=> stack[k].at \in places
      <4>1. ASSUME stack[k].at \in places PROVE Exposed(stack, Blocking)
        BY <3>1, <4>1 DEF Exposed, Blocking, Placed, NonHandles
      <4>2. ASSUME Exposed(stack, Blocking) PROVE stack[k].at \in places
        <5>1. PICK i \in DOMAIN stack : stack[i] \in Blocking /\ \A j \in 1..i - 1 : stack[j].at = "handle"
          BY <4>2 DEF Exposed
        <5>2. i \notin 1..k - 1 /\ k \notin 1..i - 1
          BY <3>1, <5>1 DEF Blocking, Placed, NonHandles
        <5>3. i = k
          BY <2>1, <5>2
        <5>. QED
          BY <5>1, <5>3 DEF Blocking, Placed
      <4>. QED
        BY <4>1, <4>2
    <3>5. (\E p \in places : At(p)) => Exposed(stack, Blocking)
      <4>1. ASSUME Top.at \in places PROVE stack[1] \in Blocking
        BY <2>1, <4>1, ElementOfSeq DEF Blocking, Placed
      <4>2. 1 \in DOMAIN stack /\ \A j \in 1..1 - 1 : stack[j].at = "handle"
        BY <2>1
      <4>. QED
        BY <4>1, <4>2 DEF Exposed, At
    <3>6. InBlocking <=> (\E p \in places : At(p)) \/ stack[first].at \in places
      BY DEF InBlocking
    <3>. HIDE DEF first, below
    <3>7. InBlocking <=> Exposed(stack, Blocking)
      BY <3>3, <3>4, <3>5, <3>6
    <3>8. asyncMode \in BOOLEAN /\ InBlocking \in BOOLEAN
      BY <1>1 DEF SignalInv, Tables, InBlocking
    <3>. QED
      BY <1>1, <3>7, <3>8 DEF SignalInv, Modes, ModeIsBlocking
  <2>3. MaskIsRunning
    <3>1. ASSUME ~mayRaise, NEW i \in DOMAIN stack, stack[i].at \in Runners PROVE stack[i].sig \in mask
      <4>1. stack[i] \in Frames
        BY <2>1, ElementOfSeq
      <4>2. stack[i] \in Runs(stack[i].sig) /\ stack[i].sig \in Sig
        BY <3>1, <4>1, FrameFields DEF Runs, Runners, AboutSignal
      <4>. QED
        BY <1>1, <3>1, <4>2 DEF SignalInv, Quiet, Masked, Running, Has
    <3>2. ASSUME ~mayRaise, NEW g \in mask PROVE \E i \in DOMAIN stack : stack[i].at \in Runners /\ stack[i].sig = g
      BY <1>1, <3>2 DEF SignalInv, Quiet, Masked, Running, Has, Runs
    <3>. QED
      BY <3>1, <3>2 DEF MaskIsRunning, Runners
  <2>4. HandlerIsInstalled
    <3>1. \A i \in 1..Len(stack) : Fits(stack[i], Under(stack, i), Entered, ~mayRaise)
      BY <1>1 DEF SignalInv, Stacked, Stack, Nested
    <3>. QED
      BY <2>1, <3>1 DEF HandlerIsInstalled, Fits, Entered
  <2>. QED
    BY <2>2, <2>3, <2>4 DEF HandlersAreBracketed
<1>. QED
  BY <1>1, SignalsKeepTheirStack, PTL
================================================================================
