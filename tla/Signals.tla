------------------------------ MODULE Signals ------------------------------
(***************************************************************************)
(* Signal delivery in the bytecode runtime: byterun/signals.c and          *)
(* signals_byt.c.  A Unix signal interrupts the program between any two    *)
(* steps; handle_signal runs the Caml handler at once inside a blocking    *)
(* section, and otherwise records the signal for the interpreter's next    *)
(* poll.  The control state is the C stack: Head(stack) is the function    *)
(* that runs, the frames below it have called or were interrupted by it.   *)
(***************************************************************************)
EXTENDS Naturals, Sequences, FiniteSets

CONSTANTS NSig,        \* signal numbers are 1..NSig
          MaxSent      \* how many signals may arrive and finalisers run (bounds the runs)

ASSUME SignalsAssumption == NSig \in Nat \ {0} /\ MaxSent \in Nat

Sig == 1..NSig

VARIABLES pending,        \* caml_pending_signals
          arePending,     \* caml_signals_are_pending
          somethingToDo,  \* caml_something_to_do
          forceSlice,     \* caml_force_major_slice
          asyncMode,      \* caml_async_signal_mode: in a blocking section
          action,         \* the signals whose disposition is handle_signal
          handlers,       \* the signals with an entry in caml_signal_handlers
          finalising,     \* running_finalisation_function
          unentered,      \* history: the signals a collection has left without an entry
          mask,           \* the process's signal mask
          stack,          \* the C stack, innermost frame first
          sent,           \* arrivals and finalisers left
          mayRaise        \* whether the program's handlers and finalisers may raise

vars == <<pending, arePending, somethingToDo, forceSlice, asyncMode, action, handlers,
          finalising, unentered, mask, stack, sent, mayRaise>>
flags == <<pending, arePending, somethingToDo, forceSlice, asyncMode>>
disposition == <<action, handlers, finalising, unentered, mayRaise>>

\* A frame: the function and place it is at, its signal or loop index, the mask it saved,
\* and whether a handler has run over it.
Frame(at, sig, saved) == [at |-> at, sig |-> sig, saved |-> saved, ran |-> FALSE]
Top == Head(stack)
At(place) == Top.at = place
Callers == Tail(stack)
Call(f) == stack' = <<f>> \o stack
Goto(place) == stack' = <<[Top EXCEPT !.at = place]>> \o Callers
GotoAndCall(place, f) == stack' = <<f, [Top EXCEPT !.at = place]>> \o Callers

\* caml_raise: control goes to the nearest Caml frame below, which may catch the exception.
\* Caml code under a signal handler may let it escape in a later step (Raise).
Unwound(s) == LET n == CHOOSE i \in DOMAIN s : s[i].at = "ml" /\ \A j \in 1..(i - 1) : s[j].at # "ml"
              IN SubSeq(s, n, Len(s))

Init == /\ pending = {} /\ arePending = FALSE /\ somethingToDo = FALSE
        /\ forceSlice = FALSE /\ asyncMode = FALSE
        /\ action = {} /\ handlers = {} /\ mask = {}
        /\ finalising = FALSE /\ unentered = {}
        /\ stack = <<Frame("ml", 0, {})>>
        /\ sent = MaxSent /\ mayRaise \in BOOLEAN

(* ------------------------------- Arrival ------------------------------- *)
\* The kernel interrupts whatever runs, with the signal itself added to the mask.
Deliver(s) ==
  /\ sent > 0 /\ s \in action \ mask /\ ~At("fault")
  /\ sent' = sent - 1
  /\ mask' = mask \cup {s}
  /\ Call(Frame("handle", s, mask))
  /\ UNCHANGED <<flags, disposition>>

\* handle_signal outside a blocking section: caml_record_signal, then return to the
\* interrupted frame with its mask.
HandleRecordQuietly ==
  /\ At("handle") /\ ~asyncMode
  /\ pending' = pending \cup {Top.sig} /\ arePending' = TRUE
  /\ mask' = Top.saved /\ stack' = Callers
  /\ UNCHANGED <<somethingToDo, forceSlice, asyncMode, disposition, sent>>

HandleRecord ==
  /\ At("handle") /\ ~asyncMode
  /\ pending' = pending \cup {Top.sig} /\ arePending' = TRUE /\ somethingToDo' = TRUE
  /\ mask' = Top.saved /\ stack' = Callers
  /\ UNCHANGED <<forceSlice, asyncMode, disposition, sent>>

\* handle_signal inside one: caml_try_leave_blocking_section, then caml_execute_signal(s, 1).
HandleExecute ==
  /\ At("handle") /\ asyncMode
  /\ asyncMode' = FALSE
  /\ GotoAndCall("handled", Frame("execIn", Top.sig, {}))
  /\ UNCHANGED <<pending, arePending, somethingToDo, forceSlice, disposition, mask, sent>>

HandleReturnWithoutHook ==
  /\ At("handled")
  /\ mask' = Top.saved
  /\ stack' = <<[Callers[1] EXCEPT !.ran = TRUE]>> \o Tail(Callers)
  /\ UNCHANGED <<flags, disposition, sent>>

\* ... and back into the blocking section once the handler has returned.
HandleReturn ==
  /\ At("handled")
  /\ asyncMode' = TRUE /\ mask' = Top.saved
  /\ stack' = <<[Callers[1] EXCEPT !.ran = TRUE]>> \o Tail(Callers)
  /\ UNCHANGED <<pending, arePending, somethingToDo, forceSlice, disposition, sent>>

(* ------------------ caml_process_pending_signals ------------------ *)
\* The flag is cleared first, then the table is scanned.
ProcessStartAtTwo ==
  /\ At("process")
  /\ arePending' = FALSE
  /\ stack' = (IF arePending THEN <<Frame("scan", 2, {})>> ELSE <<>>) \o Callers
  /\ UNCHANGED <<pending, somethingToDo, forceSlice, asyncMode, disposition, mask, sent>>

ProcessStart ==
  /\ At("process")
  /\ arePending' = FALSE
  /\ stack' = (IF arePending THEN <<Frame("scan", 1, {})>> ELSE <<>>) \o Callers
  /\ UNCHANGED <<pending, somethingToDo, forceSlice, asyncMode, disposition, mask, sent>>

ScanNext == [Top EXCEPT !.sig = @ + 1]
Scan ==
  /\ At("scan") /\ Top.sig \in Sig
  /\ pending' = pending \ {Top.sig}
  /\ stack' = (IF Top.sig \in pending THEN <<Frame("exec", Top.sig, {})>> ELSE <<>>)
              \o <<ScanNext>> \o Callers
  /\ UNCHANGED <<arePending, somethingToDo, forceSlice, asyncMode, disposition, mask, sent>>

ScanEndClearsFlag ==
  /\ At("scan") /\ Top.sig \notin Sig
  /\ arePending' = FALSE /\ stack' = Callers
  /\ UNCHANGED <<pending, somethingToDo, forceSlice, asyncMode, disposition, mask, sent>>

ScanEnd ==
  /\ At("scan") /\ Top.sig \notin Sig
  /\ stack' = Callers
  /\ UNCHANGED <<flags, disposition, mask, sent>>

(* ------------------------ caml_execute_signal ------------------------ *)
\* Block the signal, remember the mask, call the Caml handler.  Without an entry in the table,
\* or without a table, there is no closure to call and what follows is undefined.
Execute ==
  /\ At("exec") \/ At("execIn")
  /\ mask' = mask \cup {Top.sig}
  /\ stack' = <<Frame(IF Top.sig \in handlers THEN "ml" ELSE "fault", Top.sig, {}),
                [Top EXCEPT !.at = IF At("exec") THEN "running" ELSE "runningIn", !.saved = mask]>>
              \o Callers
  /\ UNCHANGED <<flags, disposition, sent>>

InHandler == At("ml") /\ Callers # <<>>

\* The handler returns.  In a real signal handler the kernel restores the mask later.
\* A finaliser returns to caml_final_do_calls, which may then run again.
Finalised == finalising' = (finalising /\ Callers[1].at # "finalise")
ReturnKeepsMask ==
  /\ InHandler
  /\ stack' = Tail(Callers) /\ Finalised
  /\ UNCHANGED <<flags, action, handlers, unentered, mayRaise, mask, sent>>

Return ==
  /\ InHandler
  /\ mask' = IF Callers[1].at = "running" THEN Callers[1].saved ELSE mask
  /\ stack' = Tail(Callers) /\ Finalised
  /\ UNCHANGED <<flags, action, handlers, unentered, mayRaise, sent>>

\* The mask caml_execute_signal restores before it raises the handler's exception again.  An
\* exception of a finaliser goes past caml_final_do_calls, which does not run again.
MaskAfterRaise(f) == CASE f.at = "running" -> f.saved
                       [] f.at = "runningIn" -> f.saved \ {f.sig}
                       [] OTHER -> mask
Raise ==
  /\ mayRaise /\ InHandler
  /\ mask' = MaskAfterRaise(Callers[1])
  /\ stack' = Unwound(Tail(Callers))
  /\ UNCHANGED <<flags, disposition, sent>>

\* A minor collection in a C function that goes on as frame f ends with the finalisers, Caml
\* code like any other.  (What Caml code allocates runs them over itself, as more of its code.)
CollectUnder(f) ==
  /\ ~finalising /\ sent > 0
  /\ finalising' = TRUE /\ sent' = sent - 1 /\ forceSlice' = FALSE
  /\ stack' = <<Frame("ml", 0, {}), Frame("finalise", 0, {}), f>> \o Callers

(* --------------------------- The interpreter --------------------------- *)
\* CHECK_SIGNALS in interp.c, then caml_process_event.
Poll ==
  /\ At("ml") /\ somethingToDo
  /\ somethingToDo' = FALSE
  /\ Call(Frame("event", 0, {}))
  /\ UNCHANGED <<pending, arePending, forceSlice, asyncMode, disposition, mask, sent>>

\* caml_process_event: the urgent collection first, then the pending signals.
Event ==
  /\ At("event")
  /\ LET process == Frame("process", 0, {})
     IN \/ forceSlice' = FALSE /\ stack' = <<process>> \o Callers /\ UNCHANGED <<finalising, sent>>
        \/ forceSlice /\ CollectUnder(process)
  /\ UNCHANGED <<pending, arePending, somethingToDo, asyncMode, action, handlers, unentered,
                 mayRaise, mask>>

\* caml_urge_major_slice, from an allocation.
UrgeMajorSlice ==
  /\ At("ml")
  /\ forceSlice' = TRUE /\ somethingToDo' = TRUE
  /\ UNCHANGED <<pending, arePending, asyncMode, disposition, mask, stack, sent>>

(* -------------------------- Blocking sections -------------------------- *)
CallBlocking ==
  /\ At("ml")
  /\ stack' = <<Frame("process", 0, {}), Frame("enter", 0, {})>> \o stack
  /\ UNCHANGED <<flags, disposition, mask, sent>>

EnterHook ==
  /\ At("enter")
  /\ asyncMode' = TRUE
  /\ Goto("entered")
  /\ UNCHANGED <<pending, arePending, somethingToDo, forceSlice, disposition, mask, sent>>

\* A signal recorded before the hook would not interrupt the system call: try again.
EnterAgain ==
  /\ At("entered") /\ arePending
  /\ asyncMode' = FALSE
  /\ GotoAndCall("enter", Frame("process", 0, {}))
  /\ UNCHANGED <<pending, arePending, somethingToDo, forceSlice, disposition, mask, sent>>

EnterDoneUnchecked ==
  /\ At("entered")
  /\ Goto("syscall")
  /\ UNCHANGED <<flags, disposition, mask, sent>>

EnterDone ==
  /\ At("entered") /\ ~arePending
  /\ Goto("syscall")
  /\ UNCHANGED <<flags, disposition, mask, sent>>

SyscallReturns ==
  /\ At("syscall")
  /\ Goto("leave")
  /\ UNCHANGED <<flags, disposition, mask, sent>>

LeaveBlocking ==
  /\ At("leave")
  /\ asyncMode' = FALSE
  /\ stack' = <<Frame("process", 0, {})>> \o Callers
  /\ UNCHANGED <<pending, arePending, somethingToDo, forceSlice, disposition, mask, sent>>

(* ---------------------- caml_install_signal_handler ---------------------- *)
\* sigaction first, the table of handlers second.
InstallPollsFirst(s) ==
  /\ At("ml")
  /\ action' = action \cup {s}
  /\ stack' = <<Frame("process", 0, {}), Frame(IF s \in action THEN "replace" ELSE "install", s, {})>> \o stack
  /\ UNCHANGED <<flags, handlers, finalising, unentered, mask, sent, mayRaise>>

Install(s) ==
  /\ At("ml")
  /\ action' = action \cup {s}
  /\ Call(Frame(IF s \in action THEN "replace" ELSE "install", s, {}))
  /\ UNCHANGED <<flags, handlers, finalising, unentered, mask, sent, mayRaise>>

\* In between it allocates the result, when the old action is a handler's, and the table, when
\* there is none yet, and either may collect.  (With a table and an entry in it, what a collection
\* runs might as well have run before the call.)
InstallCollects ==
  /\ At("replace") \/ At("install")
  /\ handlers = {}
  /\ CollectUnder([Top EXCEPT !.at = IF At("install") THEN "table" ELSE "replace"])
  /\ unentered' = unentered \cup {Top.sig}
  /\ UNCHANGED <<pending, arePending, somethingToDo, asyncMode, action, handlers, mayRaise, mask>>

\* The old handler is read from a table that is not there.
InstallFaults ==
  /\ At("replace") /\ handlers = {}
  /\ Call(Frame("fault", Top.sig, {}))
  /\ UNCHANGED <<flags, disposition, mask, sent>>

\* The entry is written; into a new table, over any that a finaliser has made meanwhile, if the
\* collection was in the allocation of the table.
InstallHandler ==
  /\ At("install") \/ At("table") \/ (At("replace") /\ handlers # {})
  /\ handlers' = (IF At("table") THEN {} ELSE handlers) \cup {Top.sig}
  /\ unentered' = (unentered \cup handlers) \ handlers'
  /\ stack' = <<Frame("process", 0, {})>> \o Callers
  /\ UNCHANGED <<flags, action, finalising, mask, sent, mayRaise>>

\* Sys.signal s Signal_ignore: the entry of the table stays.
Ignore(s) ==
  /\ At("ml") /\ s \in action
  /\ action' = action \ {s}
  /\ Call(Frame("process", 0, {}))
  /\ UNCHANGED <<flags, handlers, finalising, unentered, mask, sent, mayRaise>>

Step == \/ HandleRecord \/ HandleExecute \/ HandleReturn
        \/ ProcessStart \/ Scan \/ ScanEnd \/ Execute \/ Return \/ Raise
        \/ Poll \/ Event \/ EnterHook \/ EnterAgain \/ EnterDone \/ SyscallReturns
        \/ LeaveBlocking \/ InstallCollects \/ InstallFaults \/ InstallHandler
Next == \/ \E s \in Sig : Deliver(s) \/ Install(s) \/ Ignore(s)
        \/ Step \/ UrgeMajorSlice \/ CallBlocking

Spec == Init /\ [][Next]_vars

(* ------------------------------ Properties ------------------------------ *)
Places == {"ml", "handle", "handled", "process", "scan", "exec", "execIn", "running",
           "runningIn", "event", "enter", "entered", "syscall", "leave", "install", "replace", "table",
           "finalise", "fault"}
\* The asserts of the default hooks (signals.c:81, :87): the mode is set exactly while the
\* innermost program or handler code is between the two hooks of a blocking section.
InBlocking == \/ \E p \in {"entered", "syscall", "leave"} : At(p)
              \/ LET below == {i \in DOMAIN stack : stack[i].at # "handle"}
                     first == CHOOSE i \in below : \A j \in below : i <= j
                 IN stack[first].at \in {"entered", "syscall", "leave"}
ModeIsBlocking == asyncMode = InBlocking

\* A recorded signal is one that a scan under way will reach, or the flag that starts the
\* next scan is up (signals.c:46-47): otherwise nothing ever looks at it again.  A handler
\* that raises leaves the scan and strands the signals after its own.
WillBeScanned(s) == arePending \/ \E i \in DOMAIN stack :
                                     stack[i].at = "scan" /\ stack[i].sig <= s
NoneStranded == ~mayRaise => \A s \in pending : WillBeScanned(s)

\* A system call that no handler has run over starts with no flag up: only a scan that a
\* Caml handler suspended may hold signals back (the second test of
\* caml_enter_blocking_section, signals.c:113).
SleepsOnlyOnSeen == (At("syscall") /\ ~Top.ran) => ~arePending

\* The mask is the signals whose handlers are running or being entered, whatever way the
\* handlers before them ended (signals.c:131-149).  A handler that raises through another signal's
\* handle_signal leaves that signal blocked.
MaskIsRunning ==
  ~mayRaise => mask = {stack[i].sig : i \in {j \in DOMAIN stack :
            stack[j].at \in {"handle", "handled", "running", "runningIn", "execIn"}}}

\* A handler is called, or an old one read, without an entry in the table only if a collection
\* came in between sigaction and the write of the entry (signals.c:283, :292, :300, :303): its
\* finalisers ran before the entry was there, made a table that was then overwritten, or raised.
HandlerIsInstalled == \A i \in DOMAIN stack :
   stack[i].at \in {"exec", "execIn", "running", "runningIn", "fault"} => stack[i].sig \in handlers \cup unentered

\* The discipline of handlers and blocking sections, on every way out of a handler.
HandlersAreBracketed == ModeIsBlocking /\ MaskIsRunning /\ HandlerIsInstalled

\* An urgent collection or a pending signal will be seen by the next poll, or by the event,
\* scan or blocking section under way (a finaliser that raises leaves the event before it
\* looks at the signals).
PollSeesEvents ==
  /\ forceSlice => somethingToDo \/ \E i \in DOMAIN stack : stack[i].at = "event"
  /\ arePending /\ ~mayRaise => somethingToDo \/ \E i \in DOMAIN stack :
                       stack[i].at \in {"event", "process", "entered", "enter"}

\* Whatever is recorded or urged will be looked at: by a scan, a poll, or before a system call.
SignalsAreSeen == NoneStranded /\ SleepsOnlyOnSeen /\ PollSeesEvents

\* A recorded signal is handled, if the program goes on and nothing raises or faults.
Handled(s) == s \notin pending \/ mayRaise \/ At("fault")
=============================================================================
