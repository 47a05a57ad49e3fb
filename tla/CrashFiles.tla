----------------------------- MODULE CrashFiles -----------------------------
(***************************************************************************)
(* The crash reports of several processes that share one .crashes/         *)
(* directory: the in-process handler of POSIX                              *)
(* (handlers/inprocess/crash_handler_inprocess_posix.cpp) that writes      *)
(* them, crash_processing.cpp that reads them on the next start, and what  *)
(* both rely on in storage/filesystem_posix.cpp.                           *)
(*                                                                         *)
(* A process makes one crash file, before anything can go wrong, and keeps *)
(* a lock on it; its name and its inode are its own, so files are named by *)
(* the process.  Opening a file and locking it are two system calls, and a *)
(* file that is unlinked stays what it is for those that have it open.     *)
(***************************************************************************)
EXTENDS Naturals, FiniteSets

CONSTANTS Proc,          \* processes, numbered as they start: file names begin with the time
          MaxContexts,   \* bound: contexts that are written
          MaxEvents      \* bound: crashes, kills, shutdowns and failures of the file system

ASSUME ProcAssumption == Proc \subseteq Nat

VARIABLES handler,      \* of each process: how far its crash handler is
          reader,       \* of each process: how far ProcessCrashReports() is
          linked,       \* the crash file has its name
          content,      \* what is in the crash file, named or not
          lock,         \* who holds the advisory lock on it, as what
          ctx,          \* which context <crash>.ctx has, 0 if there is none
          written,      \* contexts the process has put in place
          reports,      \* the reports that have been published
          dropped,      \* files given up as truncated, malformed or without crash
          early,        \* files opened by a reader before their owner locked them
          interrupted,  \* readers that could not delete what they had published
          used          \* how much of the bounds has been used

files == << linked, content, lock, ctx >>
books == << written, reports, dropped, early, interrupted >>
vars  == << handler, reader, files, books, used >>

-----------------------------------------------------------------------------
\* "opened" is between open() and flock() of OpenForWrite(), "inert" a handler
\* that could not be initialised, "closing" and "unlinked" are in Shutdown().
Alive == {"none", "opened", "armed", "inert", "crashing", "crashed", "closing", "unlinked"}

\* The SDK of the process runs: CrashReporting exists only with a handler.
Running == {"armed", "crashing", "crashed"}

Nobody == << 0, "nobody" >>

\* ReadCrashReport(): Empty, Malformed or OK.
Content == {"empty", "partial", "full"}

Idle == [at |-> "next", file |-> 0, todo |-> {}]

Init ==
  /\ handler = [p \in Proc |-> "none"]
  /\ reader = [p \in Proc |-> Idle]
  /\ linked = [p \in Proc |-> FALSE] /\ content = [p \in Proc |-> "empty"]
  /\ lock = [p \in Proc |-> Nobody]
  /\ ctx = [p \in Proc |-> 0]
  /\ written = [p \in Proc |-> 0]
  /\ reports = {} /\ dropped = {} /\ early = {} /\ interrupted = {}
  /\ used = [contexts |-> 0, events |-> 0]

Spend(what, bound) ==
  /\ used[what] < bound
  /\ used' = [used EXCEPT ![what] = @ + 1]

Moves(p, to) == handler' = [handler EXCEPT ![p] = to]

-----------------------------------------------------------------------------
(***************************************************************************)
(* Initialize() and SetCrashContext(), and the signal handler.             *)
(***************************************************************************)
OpenForWrite(p) ==
  /\ handler[p] = "none" /\ \A q \in Proc : q < p => handler[q] # "none"
  /\ Moves(p, "opened")
  /\ linked' = [linked EXCEPT ![p] = TRUE]
  /\ UNCHANGED << reader, content, lock, ctx, books, used >>

LockForWrite(p) ==
  /\ handler[p] = "opened"
  /\ \/ lock[p] = Nobody /\ Moves(p, "armed") /\ lock' = [lock EXCEPT ![p] = << p, "writer" >>]
     \/ lock[p] # Nobody /\ Moves(p, "inert") /\ UNCHANGED lock
  /\ UNCHANGED << reader, linked, content, ctx, books, used >>

\* Mutant of WriteCrashContext: written in place, a failure takes the old one along.
WriteContextInPlace(p) ==
  /\ handler[p] \in Running
  /\ \/ /\ Spend("contexts", MaxContexts)
        /\ written' = [written EXCEPT ![p] = @ + 1]
        /\ ctx' = [ctx EXCEPT ![p] = written'[p]]
     \/ Spend("events", MaxEvents) /\ ctx' = [ctx EXCEPT ![p] = 0] /\ UNCHANGED written
  /\ UNCHANGED << handler, reader, linked, content, lock, reports, dropped, early, interrupted >>

\* The messaging thread goes on while another thread is in the signal handler.
\* The context is written to one side and renamed into place: the old one stays
\* when either fails.
WriteCrashContext(p) ==
  /\ handler[p] \in Running
  /\ \/ /\ Spend("contexts", MaxContexts)
        /\ written' = [written EXCEPT ![p] = @ + 1]
        /\ ctx' = [ctx EXCEPT ![p] = written'[p]]
     \/ Spend("events", MaxEvents) /\ UNCHANGED << written, ctx >>
  /\ UNCHANGED << handler, reader, linked, content, lock, reports, dropped, early, interrupted >>

\* crash_signal_handler(): the header, and up to the footer.
Crash(p) ==
  /\ handler[p] = "armed" /\ Spend("events", MaxEvents)
  /\ Moves(p, "crashing")
  /\ content' = [content EXCEPT ![p] = "partial"]
  /\ UNCHANGED << reader, linked, lock, ctx, books >>

WriteCrashReportFooter(p) ==
  /\ handler[p] = "crashing"
  /\ Moves(p, "crashed")
  /\ content' = [content EXCEPT ![p] = "full"]
  /\ UNCHANGED << reader, linked, lock, ctx, books, used >>

\* What the process had locked is free when it is gone.
Ends(p) ==
  /\ Moves(p, "dead")
  /\ lock' = [f \in Proc |-> IF lock[f][1] = p THEN Nobody ELSE lock[f]]
  /\ reader' = [reader EXCEPT ![p] = Idle]
  /\ interrupted' = IF reader[p].at = "delete"
                    THEN interrupted \union {<< p, reader[p].file >>} ELSE interrupted

\* The default action of the signal, or _exit().
Exit(p) ==
  /\ handler[p] = "crashed"
  /\ Ends(p)
  /\ UNCHANGED << linked, content, ctx, written, reports, dropped, early, used >>

Kill(p) ==
  /\ handler[p] \in Alive \ {"none", "inert"}
  /\ Spend("events", MaxEvents)
  /\ Ends(p)
  /\ UNCHANGED << linked, content, ctx, written, reports, dropped, early >>

\* What is left of the files that were there when the directory was read: one
\* that another has deleted since is passed over, for it cannot be opened.
Left(p) == {f \in reader[p].todo : linked[f]}

Finished(p) == reader[p].at = "next" /\ Left(p) = {}

-----------------------------------------------------------------------------
(***************************************************************************)
(* Shutdown(), at exit of a process that has not crashed and whose Core    *)
(* has been stopped: its signal handlers go first, then the lock with the  *)
(* file descriptor, then the files.                                        *)
(***************************************************************************)
CloseCrashFile(p) ==
  /\ handler[p] = "armed" /\ Finished(p)
  /\ Spend("events", MaxEvents)
  /\ Moves(p, "closing")
  /\ lock' = [lock EXCEPT ![p] = Nobody]
  /\ UNCHANGED << reader, linked, content, ctx, books >>

UnlinkCrashFile(p) ==
  /\ handler[p] = "closing"
  /\ \/ linked[p] /\ linked' = [linked EXCEPT ![p] = FALSE] /\ Moves(p, "unlinked")
     \/ ~linked[p] /\ UNCHANGED linked /\ Moves(p, "dead")
  /\ UNCHANGED << reader, content, lock, ctx, books, used >>

UnlinkContext(p) ==
  /\ handler[p] = "unlinked"
  /\ Moves(p, "dead")
  /\ ctx' = [ctx EXCEPT ![p] = 0]
  /\ UNCHANGED << reader, linked, content, lock, books, used >>

-----------------------------------------------------------------------------
(***************************************************************************)
(* ProcessCrashReports(), on the context thread, after every Core::Start(). *)
(***************************************************************************)
At(p, step) == handler[p] \in Running /\ reader[p].at = step

Reads(p, step) == reader' = [reader EXCEPT ![p].at = step]

\* On to the next file, of those that were there when the directory was read.
ToNext(p) == [reader EXCEPT ![p] = [at |-> "next", file |-> 0, todo |-> @.todo]]

ListFiles(p) ==
  /\ handler[p] \in Running /\ Finished(p)
  /\ reader' = [reader EXCEPT ![p] = [at |-> "next", file |-> 0, todo |-> {f \in Proc : linked[f]}]]
  /\ UNCHANGED << handler, files, books, used >>

\* Newest first, by name.
Newest(S) == {f \in S : \A g \in S : g <= f}

OpenForRead(p) ==
  /\ At(p, "next")
  /\ \E f \in Newest(Left(p)) :
     LET todo == Left(p) \ {f}
     IN \/ /\ reader' = [reader EXCEPT ![p] = [at |-> "opened", file |-> f, todo |-> todo]]
           /\ early' = IF handler[f] = "opened" THEN early \union {f} ELSE early
           /\ UNCHANGED used
        \/ /\ Spend("events", MaxEvents)
           /\ reader' = [reader EXCEPT ![p].todo = todo]
           /\ UNCHANGED early
  /\ UNCHANGED << handler, files, written, reports, dropped, interrupted >>

\* The file is closed, and with it the lock is gone.
Release(p) ==
  /\ lock' = [lock EXCEPT ![reader[p].file] = Nobody]
  /\ reader' = ToNext(p)

\* Mutant of LockForRead: a file that another has locked is read all the same.
ReadLocked(p) ==
  /\ At(p, "opened")
  /\ lock' = [lock EXCEPT ![reader[p].file] = IF @ = Nobody THEN << p, "reader" >> ELSE @]
  /\ Reads(p, "locked")
  /\ UNCHANGED << handler, linked, content, ctx, books, used >>

LockForRead(p) ==
  /\ At(p, "opened")
  /\ LET f == reader[p].file
     IN \/ lock[f] = Nobody /\ lock' = [lock EXCEPT ![f] = << p, "reader" >>] /\ Reads(p, "locked")
        \/ lock[f] # Nobody /\ UNCHANGED lock /\ reader' = ToNext(p)
  /\ UNCHANGED << handler, linked, content, ctx, books, used >>

\* Mutant of Publish: the file is closed with the end of read_crash_files().
PublishClosed(p) ==
  LET f == reader[p].file
  IN /\ content[f] = "full"
     /\ reports' = reports \union {[by |-> p, file |-> f, ctx |-> ctx[f], linked |-> linked[f]]}
     /\ lock' = [lock EXCEPT ![f] = Nobody]
     /\ Reads(p, "delete")
     /\ UNCHANGED << dropped, used >>

\* The context, if there is one, goes into the report that is published.
Publish(p) ==
  LET f == reader[p].file
  IN /\ content[f] = "full"
     /\ reports' = reports \union {[by |-> p, file |-> f, ctx |-> ctx[f], linked |-> linked[f]]}
     /\ Reads(p, "delete")
     /\ UNCHANGED << lock, dropped, used >>

\* A report, or a context, that does not parse is deleted like one that is cut short.
Discards(p) ==
  /\ \/ content[reader[p].file] # "full" /\ UNCHANGED used
     \/ Spend("events", MaxEvents)
  /\ dropped' = dropped \union {reader[p].file}
  /\ Reads(p, "delete")
  /\ UNCHANGED << lock, reports >>

\* Mutant of GivesUp: what cannot be read is deleted.
DeletesUnread(p) ==
  /\ Spend("events", MaxEvents)
  /\ Reads(p, "delete")
  /\ UNCHANGED << lock, reports, dropped >>

\* After a ReadError the files stay.
GivesUp(p) ==
  /\ Spend("events", MaxEvents)
  /\ Release(p)
  /\ UNCHANGED << reports, dropped >>

\* ReadCrashReport() and ReadCrashContext(): the file is locked, so nobody
\* writes it meanwhile.
ReadCrashFiles(p) ==
  /\ At(p, "locked")
  /\ Publish(p) \/ Discards(p) \/ GivesUp(p)
  /\ UNCHANGED << handler, linked, content, ctx, written, early, interrupted >>

\* delete_crash_files(): first the report, then its context.
DeleteCrashFile(p) ==
  /\ At(p, "delete")
  /\ LET f == reader[p].file
     IN \/ linked' = [linked EXCEPT ![f] = FALSE] /\ UNCHANGED << interrupted, used >>
        \/ /\ linked[f] /\ Spend("events", MaxEvents)
           /\ interrupted' = interrupted \union {<< p, f >>}
           /\ UNCHANGED linked
  /\ Reads(p, "delete_context")
  /\ UNCHANGED << handler, content, lock, ctx, written, reports, dropped, early >>

DeleteContext(p) ==
  /\ At(p, "delete_context")
  /\ \/ ctx' = [ctx EXCEPT ![reader[p].file] = 0] /\ UNCHANGED used
     \/ ctx[reader[p].file] # 0 /\ Spend("events", MaxEvents) /\ UNCHANGED ctx
  /\ Release(p)
  /\ UNCHANGED << handler, linked, content, books >>

Next ==
  \E p \in Proc :
    \/ OpenForWrite(p) \/ LockForWrite(p)
    \/ WriteCrashContext(p) \/ Crash(p) \/ WriteCrashReportFooter(p) \/ Exit(p) \/ Kill(p)
    \/ CloseCrashFile(p) \/ UnlinkCrashFile(p) \/ UnlinkContext(p)
    \/ ListFiles(p) \/ OpenForRead(p) \/ LockForRead(p)
    \/ ReadCrashFiles(p)
    \/ DeleteCrashFile(p) \/ DeleteContext(p)

Spec == Init /\ [][Next]_vars
-----------------------------------------------------------------------------
Report == [by : Proc, file : Proc, ctx : Nat, linked : BOOLEAN]

Steps == {"next", "opened", "locked", "delete", "delete_context"}

TypeOK ==
  /\ handler \in [Proc -> Alive \union {"dead"}]
  /\ reader \in [Proc -> [at : Steps, file : Proc \union {0}, todo : SUBSET Proc]]
  /\ linked \in [Proc -> BOOLEAN] /\ content \in [Proc -> Content]
  /\ lock \in [Proc -> (Proc \X {"writer", "reader"}) \union {Nobody}]
  /\ ctx \in [Proc -> Nat] /\ written \in [Proc -> Nat]
  /\ reports \subseteq Report
  /\ dropped \subseteq Proc /\ early \subseteq Proc /\ interrupted \subseteq Proc \X Proc
  /\ used \in [contexts : Nat, events : Nat]

\* While its owner lives a crash file is the owner's, with its name and its
\* context, whatever the other processes clean up; unless one of them had
\* opened it before the owner locked it.
LiveFilesStay ==
  \A p \in Proc : handler[p] \in Running /\ p \notin early =>
    linked[p] /\ lock[p] = << p, "writer" >> /\ ctx[p] = written[p]

Owned == TypeOK /\ LiveFilesStay

\* A crash that was written to its end is on disk or published, through crashes
\* of the processes that read it, unless it could not be parsed; with the same
\* exception.
CrashesKept ==
  \A p \in Proc : content[p] = "full" =>
    \/ linked[p] \/ p \in dropped \/ p \in early
    \/ \E r \in reports : r.file = p

\* A crash is published with the last context its process had put in place:
\* as long as the report has its name, nobody has taken its context away,
\* unless the report could not be deleted before it, or with the same exception.
ReportedWithContext ==
  \A r \in reports :
    r.linked /\ r.file \notin early /\ (\A p \in Proc : << p, r.file >> \notin interrupted) =>
      r.ctx = written[r.file]

\* A report that is published with its name still there is not published that
\* way again, unless the first to publish it could not delete it.
ReportedAgain ==
  \A r, s \in reports :
    r.file = s.file /\ r.by # s.by /\ r.linked /\ s.linked =>
      << r.by, r.file >> \in interrupted \/ << s.by, s.file >> \in interrupted

\* What the lock is for, by the comments in read_crash_files(): who has locked
\* a crash file has it, and its context, for itself.
ReportedOnce == \A r, s \in reports : r.file = s.file => r = s
=============================================================================
