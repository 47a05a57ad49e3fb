---------------------------- MODULE CrashSignals ----------------------------
(***************************************************************************)
(* The signal handler of the in-process crash handler of POSIX             *)
(* (handlers/inprocess/crash_handler_inprocess_posix.cpp) inside one       *)
(* process: threads that fault, also while the handler runs, the handlers  *)
(* that were installed before it, and Shutdown() at the exit of the        *)
(* process.  CrashFiles has what other processes do with the file.         *)
(*                                                                         *)
(* How signals are blocked, delivered and kept pending is the kernel's; it *)
(* is modelled as sigaction(2) and raise(3) have it.                       *)
(***************************************************************************)
EXTENDS Naturals, Sequences

CONSTANTS Thread,
          Initialiser, \* the thread that called Initialize(): it alone has s_sigalt_stack
          Signal,      \* the five fatal signals that are registered
          MaxFaults    \* bound: synchronous faults, those of the handler included

VARIABLES process,    \* "running", or how it ended
          owner,      \* of each signal: whose handler the kernel calls
          previous,   \* s_old_sigsegv and its like, filled by sigaction()
          blocked,    \* of each thread: its signal mask
          pending,    \* of each thread: signals that wait for the mask to change
          stack,      \* of each thread: the handler's invocations, the innermost last
          inHandler,  \* s_in_handler
          crashFd,    \* s_crash_fd: -1 if FALSE
          file,       \* the crash file: its sections, whether it is open and has its name
          shutdown,   \* how far Shutdown() is
          heard,      \* signals that a previous handler has been called for
          faults

kernel  == << process, owner, blocked, pending, heard >>
handler == << stack, inHandler, file >>
vars    == << kernel, handler, previous, crashFd, shutdown, faults >>

Sections == << "header", "modules", "frames", "footer" >>

-----------------------------------------------------------------------------
(***************************************************************************)
(* The kernel: sig is delivered to thread t, which has not blocked it.     *)
(***************************************************************************)
Invocation(sig) == [sig |-> sig, at |-> "enter"]

\* A previous handler may end the process or return.
Deliver(t, sig) ==
  \/ /\ owner[sig] = "sdk"
     /\ stack' = [stack EXCEPT ![t] = Append(@, Invocation(sig))]
     /\ blocked' = [blocked EXCEPT ![t] = @ \union {sig}]
     /\ UNCHANGED << process, heard >>
  \/ /\ owner[sig] = "application"
     /\ heard' = heard \union {sig}
     /\ process' \in {"running", "ended"}
     /\ UNCHANGED << stack, blocked >>
  \/ /\ owner[sig] = "default"
     /\ process' = "ended"
     /\ UNCHANGED << stack, blocked, heard >>

Working(t)     == stack[t] # << >>
Top(t)         == stack[t][Len(stack[t])]
At(t, step)    == process = "running" /\ Working(t) /\ Top(t).at = step
Moves(t, step) == stack' = [stack EXCEPT ![t][Len(stack[t])].at = step]

\* sigaltstack() is per thread, and Shutdown() takes the stack away again.
OnAltStack(t) == t = Initialiser /\ shutdown \in {"no", "restoring"}

\* A thread faults in the application, or in write_stack_trace() on a frame
\* pointer that leads nowhere.  The process ends if the signal is blocked, and
\* if the thread has used up the stack its handler would run on.
Fault(t, sig, exhausted) ==
  /\ process = "running" /\ faults < MaxFaults
  /\ Working(t) => Top(t).at = "frames" /\ ~exhausted
  /\ faults' = faults + 1
  /\ IF sig \in blocked[t] \/ (exhausted /\ ~OnAltStack(t))
     THEN process' = "ended" /\ UNCHANGED << stack, blocked, heard >>
     ELSE Deliver(t, sig)
  /\ UNCHANGED << owner, pending, inHandler, file, previous, crashFd, shutdown >>

-----------------------------------------------------------------------------
(***************************************************************************)
(* crash_signal_handler().                                                 *)
(***************************************************************************)
Exit == process' = "exited"

\* The guard is set by the first invocation and never reset: any other one
\* ends the process at once, whatever the first is doing.
Enter(t) ==
  /\ At(t, "enter")
  /\ \/ inHandler /\ Exit /\ UNCHANGED << stack, inHandler >>
     \/ ~inHandler /\ inHandler' = TRUE /\ Moves(t, "open") /\ UNCHANGED process
  /\ UNCHANGED << owner, blocked, pending, heard, file, previous, crashFd, shutdown, faults >>

LookForFile(t) ==
  /\ At(t, "open")
  /\ Moves(t, IF crashFd THEN "header" ELSE "chain")
  /\ UNCHANGED << kernel, inHandler, file, previous, crashFd, shutdown, faults >>

\* What is written after Shutdown() has closed the descriptor is lost.
WriteSection(t, n) ==
  /\ At(t, Sections[n])
  /\ Moves(t, IF n < Len(Sections) THEN Sections[n + 1] ELSE "chain")
  /\ file' = IF file.open THEN [file EXCEPT !.sections = Append(@, Sections[n])] ELSE file
  /\ UNCHANGED << kernel, inHandler, previous, crashFd, shutdown, faults >>

\* sigaction(): the handler before this one takes the signal again.
RestorePrevious(t) ==
  /\ At(t, "chain")
  /\ owner' = [owner EXCEPT ![Top(t).sig] = previous[Top(t).sig]]
  /\ Moves(t, "raise")
  /\ UNCHANGED << process, blocked, pending, heard, inHandler, file, previous, crashFd,
                  shutdown, faults >>

\* raise(): a signal that the thread blocks, as the one it is handling, waits.
Raise(t) ==
  LET sig == Top(t).sig
  IN  /\ At(t, "raise")
      /\ \/ /\ sig \in blocked[t]
            /\ pending' = [pending EXCEPT ![t] = @ \union {sig}]
            /\ Moves(t, "exit")
            /\ UNCHANGED << process, blocked, heard >>
         \/ sig \notin blocked[t] /\ Deliver(t, sig) /\ UNCHANGED pending
      /\ UNCHANGED << owner, inHandler, file, previous, crashFd, shutdown, faults >>

LeaveHandler(t) ==
  /\ At(t, "exit")
  /\ Exit
  /\ UNCHANGED << owner, blocked, pending, heard, handler, previous, crashFd, shutdown, faults >>

-----------------------------------------------------------------------------
(***************************************************************************)
(* Shutdown(), when the process exits while other threads go on.           *)
(***************************************************************************)
RestoreAll(sig) ==
  /\ process = "running" /\ shutdown \in {"no", "restoring"}
  /\ shutdown' = "restoring"
  /\ owner' = [owner EXCEPT ![sig] = previous[sig]]
  /\ UNCHANGED << process, blocked, pending, heard, handler, previous, crashFd, faults >>

\* The alternate stack is taken away; lseek(): is the file empty?
Measure ==
  /\ process = "running" /\ shutdown = "restoring"
  /\ \A sig \in Signal : owner[sig] = previous[sig]
  /\ shutdown' = IF file.sections = << >> THEN "empty" ELSE "written"
  /\ UNCHANGED << kernel, handler, previous, crashFd, faults >>

Close ==
  /\ process = "running" /\ shutdown \in {"empty", "written"} /\ crashFd
  /\ crashFd' = FALSE
  /\ file' = [file EXCEPT !.open = FALSE]
  /\ UNCHANGED << kernel, stack, inHandler, previous, shutdown, faults >>

Unlink ==
  /\ process = "running" /\ shutdown = "empty" /\ ~crashFd
  /\ file' = [file EXCEPT !.linked = FALSE]
  /\ shutdown' = "done"
  /\ UNCHANGED << kernel, stack, inHandler, previous, crashFd, faults >>

\* exit() after the destructors.
Leave ==
  /\ process = "running" /\ ~crashFd /\ shutdown \in {"written", "done"}
  /\ process' = "left"
  /\ UNCHANGED << owner, blocked, pending, heard, handler, previous, crashFd, shutdown, faults >>

-----------------------------------------------------------------------------
\* Initialize() is over; what was installed before is the application's choice.
Init ==
  /\ process = "running"
  /\ owner = [sig \in Signal |-> "sdk"]
  /\ previous \in [Signal -> {"application", "default"}]
  /\ blocked = [t \in Thread |-> {}] /\ pending = [t \in Thread |-> {}]
  /\ stack = [t \in Thread |-> << >>]
  /\ inHandler = FALSE /\ crashFd = TRUE
  /\ file = [sections |-> << >>, open |-> TRUE, linked |-> TRUE]
  /\ shutdown = "no" /\ heard = {} /\ faults = 0

Next ==
  \/ \E t \in Thread :
       \/ \E sig \in Signal, exhausted \in BOOLEAN : Fault(t, sig, exhausted)
       \/ Enter(t) \/ LookForFile(t)
       \/ \E n \in 1 .. Len(Sections) : WriteSection(t, n)
       \/ RestorePrevious(t) \/ Raise(t) \/ LeaveHandler(t)
  \/ \E sig \in Signal : RestoreAll(sig)
  \/ Measure \/ Close \/ Unlink \/ Leave

Spec == Init /\ [][Next]_vars

-----------------------------------------------------------------------------
(***************************************************************************)
(* Properties.                                                             *)
(***************************************************************************)
\* crash_handler_inprocess_posix.cpp:83-85: the guard keeps invocations apart,
\* on one thread and on several: the report is one invocation's sections, in
\* order, and ends with the footer only if none is missing.
ReportInOrder ==
  /\ Len(file.sections) <= Len(Sections)
  /\ \A n \in 1 .. Len(file.sections) : file.sections[n] = Sections[n]

\* crash_handler_inprocess_posix.cpp:769-770: raise() reaches nobody, because the
\* thread still blocks the signal whose handler it is in.
RaiseReachesNobody ==
  [][heard' # heard => \A t \in Thread : ~Raise(t)]_vars

\* crash_handler_inprocess_posix.cpp:763-766: a handler that was installed before
\* hears of the crash: the SDK does not "eat the error".
PreviousHandlerHears ==
  \A t \in Thread :
    /\ process = "exited" /\ Working(t) /\ Top(t).at = "exit"
    /\ previous[Top(t).sig] = "application"
    => Top(t).sig \in heard
=============================================================================
