-------------------------- MODULE CrashFiles_proofs --------------------------
(***************************************************************************)
(* Proofs about CrashFiles, for any set of processes and any number of     *)
(* crashes, contexts and failures.  Every step keeps IInv, which says what *)
(* a lock stands for, in which order a process and its files go through    *)
(* their lives, and where the report and the context of a crash are while  *)
(* a reader is between publishing them and deleting them.                  *)
(*                                                                         *)
(* The last part is about CrashSignals, which fills the file.              *)
(***************************************************************************)
EXTENDS CrashFiles, SequenceTheorems, TLAPS

\* The steps of read_crash_files() in which the crash file is locked.
Reading == {"locked", "delete", "delete_context"}

\* Reports are read by a process whose SDK runs, and Proc is all they can be from.
ReaderRuns ==
  \A p \in Proc : reader[p].at # "next" => handler[p] \in Running /\ reader[p].file \in Proc

\* From the lock on, until the files have been deleted, it is the reader that holds it.
ReaderLocks ==
  \A p \in Proc : reader[p].at \in Reading => lock[reader[p].file] = << p, "reader" >>

\* A handler that could be initialised holds the lock on its own crash file.
WriterLocks ==
  \A p \in Proc : handler[p] \in Running => lock[p] = << p, "writer" >>

Locked == ReaderRuns /\ ReaderLocks /\ WriterLocks

\* What a process has done of Initialize(), its crash and Shutdown(), and with it
\* what can have happened to its files.
InOrder ==
  \A p \in Proc :
    /\ handler[p] = "none" => ~linked[p] /\ p \notin early
    /\ handler[p] = "opened" => linked[p] \/ p \in early
    /\ handler[p] \in {"none", "opened"} => ctx[p] = 0 /\ written[p] = 0
    /\ handler[p] \in {"none", "opened"} /\ p \notin early =>
         \A q \in Proc : reader[q].at # "next" => reader[q].file # p
    /\ handler[p] = "unlinked" => ~linked[p]
    /\ content[p] = "full" => handler[p] \in {"crashed", "dead"}

\* Who lives has its files, crashes are kept, and a reader that deletes has
\* published or given up what it deletes.
Kept ==
  /\ LiveFilesStay
  /\ CrashesKept
  /\ \A p \in Proc : reader[p].at = "delete" =>
       reader[p].file \in dropped \/ \E r \in reports : r.file = reader[p].file

\* A crash file that still has its name has the last context of its process, and
\* only the crash of a process that is gone is published.
WithContext ==
  /\ \A p \in Proc : linked[p] /\ p \notin early /\ (\A q \in Proc : << q, p >> \notin interrupted) =>
       ctx[p] = written[p]
  /\ \A p \in Proc : reader[p].at = "delete_context" =>
       ~linked[reader[p].file] \/ << p, reader[p].file >> \in interrupted
  /\ \A r \in reports : handler[r.file] = "dead"
  /\ ReportedWithContext

\* A report published with its name still there is about to be deleted, has been,
\* or its reader could not.
PublishedOnce ==
  /\ \A r \in reports : r.linked =>
       \/ ~linked[r.file] \/ << r.by, r.file >> \in interrupted
       \/ reader[r.by].at = "delete" /\ reader[r.by].file = r.file
  /\ ReportedAgain

\* The inductive invariant: it implies the four properties of the run, which are parts of it.
IInv == TypeOK /\ Locked /\ InOrder /\ Kept /\ WithContext /\ PublishedOnce

\* What Reads() does to the reader that takes a step, and to the others.
LEMMA ReaderSteps ==
  ASSUME TypeOK, NEW p \in Proc, NEW s \in Steps, Reads(p, s)
  PROVE  /\ reader' \in [Proc -> [at : Steps, file : Proc \union {0}, todo : SUBSET Proc]]
         /\ reader'[p].at = s /\ reader'[p].file = reader[p].file
         /\ \A q \in Proc \ {p} : reader'[q] = reader[q]
BY DEF TypeOK, Reads

\* The same for ToNext(): on to the next file of the list.
LEMMA ReaderGoesOn ==
  ASSUME TypeOK, NEW p \in Proc, reader' = ToNext(p)
  PROVE  /\ reader' \in [Proc -> [at : Steps, file : Proc \union {0}, todo : SUBSET Proc]]
         /\ reader'[p].at = "next"
         /\ \A q \in Proc \ {p} : reader'[q] = reader[q]
BY DEF TypeOK, ToNext, Steps

\* Before any process has started.
LEMMA InitInv == Init => IInv
BY ProcAssumption DEF Init, IInv, TypeOK, Locked, ReaderRuns, ReaderLocks, WriterLocks, InOrder,
   Kept, LiveFilesStay, CrashesKept, WithContext, ReportedWithContext, PublishedOnce, ReportedAgain,
   Idle, Nobody, Running, Reading, Alive, Content, Steps

\* OpenForWrite() of Initialize(): the file is made, and others can see it.
LEMMA OpenForWriteInv ==
  ASSUME IInv, NEW p \in Proc, OpenForWrite(p)
  PROVE  IInv'
<1> USE DEF OpenForWrite, Moves, IInv, TypeOK, files, books, Running, Idle, Nobody
<1>1. TypeOK'
  BY ProcAssumption DEF Locked, ReaderRuns, ReaderLocks, WriterLocks, Alive, Content, Steps, Report
<1>2. Locked'
  BY <1>1 DEF Locked, ReaderRuns, ReaderLocks, WriterLocks, Reading
<1>3. InOrder'
  BY <1>1 DEF Locked, ReaderRuns, ReaderLocks, WriterLocks, InOrder, Reading
<1>4. Kept'
  BY <1>1 DEF Locked, ReaderRuns, ReaderLocks, WriterLocks, InOrder, Reading, Kept, LiveFilesStay, CrashesKept
<1>5. WithContext'
  BY <1>1 DEF Locked, ReaderRuns, ReaderLocks, WriterLocks, InOrder, Reading, WithContext, ReportedWithContext, Report
<1>6. PublishedOnce'
  BY <1>1 DEF Locked, ReaderRuns, ReaderLocks, WriterLocks, InOrder, Reading, WithContext, PublishedOnce, ReportedAgain, Report
<1> QED
  BY <1>1, <1>2, <1>3, <1>4, <1>5, <1>6

\* flock() of Initialize(): from here on no reader has the file, or the handler is inert.
LEMMA LockForWriteInv ==
  ASSUME IInv, NEW p \in Proc, LockForWrite(p)
  PROVE  IInv'
<1> USE DEF LockForWrite, Moves, IInv, TypeOK, files, books, Running, Idle, Nobody
<1>1. TypeOK'
  BY ProcAssumption DEF Locked, ReaderRuns, ReaderLocks, WriterLocks, Alive, Content, Steps, Report
<1>2. Locked'
  <2>1. ReaderRuns'
    BY DEF Locked, ReaderRuns
  <2>2. \A q \in Proc : reader[q].at \in Reading => lock'[reader[q].file] = lock[reader[q].file]
    BY DEF Locked, ReaderRuns, ReaderLocks, Reading
  <2>3. ReaderLocks'
    BY <2>2 DEF Locked, ReaderLocks
  <2>4. WriterLocks'
    BY DEF Locked, WriterLocks
  <2> QED
    BY <2>1, <2>3, <2>4 DEF Locked
<1>3. InOrder'
  BY <1>1 DEF Locked, ReaderRuns, ReaderLocks, WriterLocks, InOrder, Reading
<1>4. Kept'
  BY <1>1 DEF Locked, ReaderRuns, ReaderLocks, WriterLocks, InOrder, Reading, Kept, LiveFilesStay, CrashesKept
<1>5. WithContext'
  BY <1>1 DEF Locked, ReaderRuns, ReaderLocks, WriterLocks, InOrder, Reading, WithContext, ReportedWithContext, Report
<1>6. PublishedOnce'
  BY <1>1 DEF Locked, ReaderRuns, ReaderLocks, WriterLocks, InOrder, Reading, WithContext, PublishedOnce, ReportedAgain, Report
<1> QED
  BY <1>1, <1>2, <1>3, <1>4, <1>5, <1>6

\* SetCrashContext(): the context is replaced whole or not at all.
LEMMA WriteCrashContextInv ==
  ASSUME IInv, NEW p \in Proc, WriteCrashContext(p)
  PROVE  IInv'
<1> USE DEF WriteCrashContext, Spend, IInv, TypeOK, files, books, Running, Idle, Nobody
<1>1. TypeOK'
  BY ProcAssumption DEF Locked, ReaderRuns, ReaderLocks, WriterLocks, Alive, Content, Steps, Report
<1>2. Locked'
  BY <1>1 DEF Locked, ReaderRuns, ReaderLocks, WriterLocks, Reading
<1>3. InOrder'
  BY <1>1 DEF Locked, ReaderRuns, ReaderLocks, WriterLocks, InOrder, Reading
<1>4. Kept'
  <2>1. LiveFilesStay'
    BY DEF Kept, LiveFilesStay
  <2> QED
    BY <2>1 DEF Kept, CrashesKept
<1>5. WithContext'
  <2>1. handler[p] # "dead"
    OBVIOUS
  <2>2. \A q \in Proc : q # p => ctx'[q] = ctx[q] /\ written'[q] = written[q]
    OBVIOUS
  <2>3. ctx'[p] = written'[p] \/ UNCHANGED << ctx, written >>
    OBVIOUS
  <2> QED
    BY <2>1, <2>2, <2>3 DEF WithContext, ReportedWithContext, Report
<1>6. PublishedOnce'
  BY <1>1 DEF Locked, ReaderRuns, ReaderLocks, WriterLocks, InOrder, Reading, WithContext, PublishedOnce, ReportedAgain, Report
<1> QED
  BY <1>1, <1>2, <1>3, <1>4, <1>5, <1>6

\* The signal handler: the report is begun.
LEMMA CrashInv ==
  ASSUME IInv, NEW p \in Proc, Crash(p)
  PROVE  IInv'
<1> USE DEF Crash, Spend, Moves, IInv, TypeOK, files, books, Running, Idle, Nobody
<1>1. TypeOK'
  BY ProcAssumption DEF Locked, ReaderRuns, ReaderLocks, WriterLocks, Alive, Content, Steps, Report
<1>2. Locked'
  BY <1>1 DEF Locked, ReaderRuns, ReaderLocks, WriterLocks, Reading
<1>3. InOrder'
  BY <1>1 DEF Locked, ReaderRuns, ReaderLocks, WriterLocks, InOrder, Reading
<1>4. Kept'
  BY <1>1 DEF Locked, ReaderRuns, ReaderLocks, WriterLocks, InOrder, Reading, Kept, LiveFilesStay, CrashesKept
<1>5. WithContext'
  BY <1>1 DEF Locked, ReaderRuns, ReaderLocks, WriterLocks, InOrder, Reading, WithContext, ReportedWithContext, Report
<1>6. PublishedOnce'
  BY <1>1 DEF Locked, ReaderRuns, ReaderLocks, WriterLocks, InOrder, Reading, WithContext, PublishedOnce, ReportedAgain, Report
<1> QED
  BY <1>1, <1>2, <1>3, <1>4, <1>5, <1>6

\* The signal handler: the report is complete.
LEMMA WriteCrashReportFooterInv ==
  ASSUME IInv, NEW p \in Proc, WriteCrashReportFooter(p)
  PROVE  IInv'
<1> USE DEF WriteCrashReportFooter, Moves, IInv, TypeOK, files, books, Running, Idle, Nobody
<1>1. TypeOK'
  BY ProcAssumption DEF Locked, ReaderRuns, ReaderLocks, WriterLocks, Alive, Content, Steps, Report
<1>2. Locked'
  BY <1>1 DEF Locked, ReaderRuns, ReaderLocks, WriterLocks, Reading
<1>3. InOrder'
  BY <1>1 DEF Locked, ReaderRuns, ReaderLocks, WriterLocks, InOrder, Reading
<1>4. Kept'
  BY <1>1 DEF Locked, ReaderRuns, ReaderLocks, WriterLocks, InOrder, Reading, Kept, LiveFilesStay, CrashesKept
<1>5. WithContext'
  BY <1>1 DEF Locked, ReaderRuns, ReaderLocks, WriterLocks, InOrder, Reading, WithContext, ReportedWithContext, Report
<1>6. PublishedOnce'
  BY <1>1 DEF Locked, ReaderRuns, ReaderLocks, WriterLocks, InOrder, Reading, WithContext, PublishedOnce, ReportedAgain, Report
<1> QED
  BY <1>1, <1>2, <1>3, <1>4, <1>5, <1>6

\* After its report the process is gone, and its locks with it.
LEMMA ExitInv ==
  ASSUME IInv, NEW p \in Proc, Exit(p)
  PROVE  IInv'
<1> USE DEF Exit, Ends, Moves, IInv, TypeOK, files, books, Running, Idle, Nobody
<1>1. TypeOK'
  BY ProcAssumption DEF Locked, ReaderRuns, ReaderLocks, WriterLocks, Alive, Content, Steps, Report
<1>2. Locked'
  BY <1>1 DEF Locked, ReaderRuns, ReaderLocks, WriterLocks, Reading
<1>3. InOrder'
  BY <1>1 DEF Locked, ReaderRuns, ReaderLocks, WriterLocks, InOrder, Reading
<1>4. Kept'
  BY <1>1 DEF Locked, ReaderRuns, ReaderLocks, WriterLocks, InOrder, Reading, Kept, LiveFilesStay, CrashesKept
<1>5. WithContext'
  BY <1>1 DEF Locked, ReaderRuns, ReaderLocks, WriterLocks, InOrder, Reading, WithContext, ReportedWithContext, Report
<1>6. PublishedOnce'
  BY <1>1 DEF Locked, ReaderRuns, ReaderLocks, WriterLocks, InOrder, Reading, WithContext, PublishedOnce, ReportedAgain, Report
<1> QED
  BY <1>1, <1>2, <1>3, <1>4, <1>5, <1>6

\* A process dies anywhere, maybe while it reads the reports of others.
LEMMA KillInv ==
  ASSUME IInv, NEW p \in Proc, Kill(p)
  PROVE  IInv'
<1> USE DEF Kill, Ends, Moves, Spend, IInv, TypeOK, files, books, Running, Idle, Nobody
<1>1. TypeOK'
  BY ProcAssumption DEF Locked, ReaderRuns, ReaderLocks, WriterLocks, Alive, Content, Steps, Report
<1>2. Locked'
  BY <1>1 DEF Locked, ReaderRuns, ReaderLocks, WriterLocks, Reading
<1>3. InOrder'
  BY <1>1 DEF Locked, ReaderRuns, ReaderLocks, WriterLocks, InOrder, Reading
<1>4. Kept'
  BY <1>1 DEF Locked, ReaderRuns, ReaderLocks, WriterLocks, InOrder, Reading, Kept, LiveFilesStay, CrashesKept
<1>5. WithContext'
  BY <1>1 DEF Locked, ReaderRuns, ReaderLocks, WriterLocks, InOrder, Reading, WithContext, ReportedWithContext, Report
<1>6. PublishedOnce'
  BY <1>1 DEF Locked, ReaderRuns, ReaderLocks, WriterLocks, InOrder, Reading, WithContext, PublishedOnce, ReportedAgain, Report
<1> QED
  BY <1>1, <1>2, <1>3, <1>4, <1>5, <1>6

\* Shutdown(): the lock goes with the file descriptor.
LEMMA CloseCrashFileInv ==
  ASSUME IInv, NEW p \in Proc, CloseCrashFile(p)
  PROVE  IInv'
<1> USE DEF CloseCrashFile, Finished, Spend, Moves, IInv, TypeOK, files, books, Running, Idle, Nobody
<1>1. TypeOK'
  BY ProcAssumption DEF Locked, ReaderRuns, ReaderLocks, WriterLocks, Alive, Content, Steps, Report
<1>2. Locked'
  BY <1>1 DEF Locked, ReaderRuns, ReaderLocks, WriterLocks, Reading
<1>3. InOrder'
  BY <1>1 DEF Locked, ReaderRuns, ReaderLocks, WriterLocks, InOrder, Reading
<1>4. Kept'
  BY <1>1 DEF Locked, ReaderRuns, ReaderLocks, WriterLocks, InOrder, Reading, Kept, LiveFilesStay, CrashesKept
<1>5. WithContext'
  BY <1>1 DEF Locked, ReaderRuns, ReaderLocks, WriterLocks, InOrder, Reading, WithContext, ReportedWithContext, Report
<1>6. PublishedOnce'
  BY <1>1 DEF Locked, ReaderRuns, ReaderLocks, WriterLocks, InOrder, Reading, WithContext, PublishedOnce, ReportedAgain, Report
<1> QED
  BY <1>1, <1>2, <1>3, <1>4, <1>5, <1>6

\* Shutdown(): the crash file loses its name.
LEMMA UnlinkCrashFileInv ==
  ASSUME IInv, NEW p \in Proc, UnlinkCrashFile(p)
  PROVE  IInv'
<1> USE DEF UnlinkCrashFile, Moves, IInv, TypeOK, files, books, Running, Idle, Nobody
<1>1. TypeOK'
  BY ProcAssumption DEF Locked, ReaderRuns, ReaderLocks, WriterLocks, Alive, Content, Steps, Report
<1>2. Locked'
  BY <1>1 DEF Locked, ReaderRuns, ReaderLocks, WriterLocks, Reading
<1>3. InOrder'
  BY <1>1 DEF Locked, ReaderRuns, ReaderLocks, WriterLocks, InOrder, Reading
<1>4. Kept'
  BY <1>1 DEF Locked, ReaderRuns, ReaderLocks, WriterLocks, InOrder, Reading, Kept, LiveFilesStay, CrashesKept
<1>5. WithContext'
  BY <1>1 DEF Locked, ReaderRuns, ReaderLocks, WriterLocks, InOrder, Reading, WithContext, ReportedWithContext, Report
<1>6. PublishedOnce'
  BY <1>1 DEF Locked, ReaderRuns, ReaderLocks, WriterLocks, InOrder, Reading, WithContext, PublishedOnce, ReportedAgain, Report
<1> QED
  BY <1>1, <1>2, <1>3, <1>4, <1>5, <1>6

\* Shutdown(): and then its context.
LEMMA UnlinkContextInv ==
  ASSUME IInv, NEW p \in Proc, UnlinkContext(p)
  PROVE  IInv'
<1> USE DEF UnlinkContext, Moves, IInv, TypeOK, files, books, Running, Idle, Nobody
<1>1. TypeOK'
  BY ProcAssumption DEF Locked, ReaderRuns, ReaderLocks, WriterLocks, Alive, Content, Steps, Report
<1>2. Locked'
  BY <1>1 DEF Locked, ReaderRuns, ReaderLocks, WriterLocks, Reading
<1>3. InOrder'
  BY <1>1 DEF Locked, ReaderRuns, ReaderLocks, WriterLocks, InOrder, Reading
<1>4. Kept'
  BY <1>1 DEF Locked, ReaderRuns, ReaderLocks, WriterLocks, InOrder, Reading, Kept, LiveFilesStay, CrashesKept
<1>5. WithContext'
  BY <1>1 DEF Locked, ReaderRuns, ReaderLocks, WriterLocks, InOrder, Reading, WithContext, ReportedWithContext, Report
<1>6. PublishedOnce'
  BY <1>1 DEF Locked, ReaderRuns, ReaderLocks, WriterLocks, InOrder, Reading, WithContext, PublishedOnce, ReportedAgain, Report
<1> QED
  BY <1>1, <1>2, <1>3, <1>4, <1>5, <1>6

\* read_crash_files(): the directory is listed.
LEMMA ListFilesInv ==
  ASSUME IInv, NEW p \in Proc, ListFiles(p)
  PROVE  IInv'
<1> USE DEF ListFiles, Finished, IInv, TypeOK, files, books, Running, Idle, Nobody
<1>1. TypeOK'
  BY ProcAssumption DEF Locked, ReaderRuns, ReaderLocks, WriterLocks, Alive, Content, Steps, Report
<1>2. Locked'
  BY <1>1 DEF Locked, ReaderRuns, ReaderLocks, WriterLocks, Reading
<1>3. InOrder'
  BY <1>1 DEF Locked, ReaderRuns, ReaderLocks, WriterLocks, InOrder, Reading
<1>4. Kept'
  BY <1>1 DEF Locked, ReaderRuns, ReaderLocks, WriterLocks, InOrder, Reading, Kept, LiveFilesStay, CrashesKept
<1>5. WithContext'
  BY <1>1 DEF Locked, ReaderRuns, ReaderLocks, WriterLocks, InOrder, Reading, WithContext, ReportedWithContext, Report
<1>6. PublishedOnce'
  BY <1>1 DEF Locked, ReaderRuns, ReaderLocks, WriterLocks, InOrder, Reading, WithContext, PublishedOnce, ReportedAgain, Report
<1> QED
  BY <1>1, <1>2, <1>3, <1>4, <1>5, <1>6

\* The newest file that is left is opened, before anything is known of its owner.
LEMMA OpenForReadInv ==
  ASSUME IInv, NEW p \in Proc, OpenForRead(p)
  PROVE  IInv'
<1> USE DEF IInv, TypeOK, files, books
<1>1. /\ handler[p] \in Running /\ reader[p].at = "next"
      /\ UNCHANGED << handler, files, written, reports, dropped, interrupted >>
      /\ used' \in [contexts : Nat, events : Nat]
  BY DEF OpenForRead, At, Spend
<1>2. PICK f \in Proc, todo \in SUBSET Proc :
        /\ linked[f]
        /\ \/ /\ reader' = [reader EXCEPT ![p] = [at |-> "opened", file |-> f, todo |-> todo]]
              /\ early' = IF handler[f] = "opened" THEN early \union {f} ELSE early
           \/ reader' = [reader EXCEPT ![p].todo = todo] /\ UNCHANGED early
  BY DEF OpenForRead, Newest, Left
<1>3. /\ reader' \in [Proc -> [at : Steps, file : Proc \union {0}, todo : SUBSET Proc]]
      /\ reader'[p].at \in {"next", "opened"} /\ (reader'[p].at = "opened" => reader'[p].file = f)
      /\ \A q \in Proc \ {p} : reader'[q] = reader[q]
  BY <1>1, <1>2 DEF Steps
<1>4. /\ early \subseteq early' /\ early' \subseteq early \union {f}
      /\ handler[f] # "opened" => early' = early
      /\ handler[f] = "opened" => f \in early' \/ reader'[p].at = "next"
  BY <1>1, <1>2
<1> HIDE DEF TypeOK
<1>5. TypeOK'
  BY <1>1, <1>3, <1>4 DEF TypeOK
<1>6. Locked'
  BY <1>1, <1>3 DEF Locked, ReaderRuns, ReaderLocks, WriterLocks, Reading
<1>7. InOrder'
  BY <1>1, <1>2, <1>3, <1>4 DEF InOrder, Running
<1>8. Kept'
  <2>1. LiveFilesStay' /\ CrashesKept'
    BY <1>1, <1>4 DEF Kept, LiveFilesStay, CrashesKept
  <2> QED
    BY <1>1, <1>3, <2>1 DEF Kept
<1>9. WithContext'
  BY <1>1, <1>3, <1>4 DEF WithContext, ReportedWithContext
<1>10. PublishedOnce'
  BY <1>1, <1>3 DEF PublishedOnce, ReportedAgain, TypeOK, Report
<1> QED
  BY <1>5, <1>6, <1>7, <1>8, <1>9, <1>10

\* flock(): the reader has the file, or leaves it alone.
LEMMA LockForReadInv ==
  ASSUME IInv, NEW p \in Proc, LockForRead(p)
  PROVE  IInv'
<1> DEFINE f == reader[p].file
<1> USE DEF IInv, Running
<1>1. f \in Proc /\ reader[p].at = "opened" /\ handler[p] \in Running
  BY DEF LockForRead, At, Locked, ReaderRuns
<1>2. UNCHANGED << handler, linked, content, ctx, books, used >>
  BY DEF LockForRead
<1>3. CASE lock[f] = Nobody /\ lock' = [lock EXCEPT ![f] = << p, "reader" >>] /\ Reads(p, "locked")
  <2> HIDE DEF f
  <2>0. /\ reader' \in [Proc -> [at : Steps, file : Proc \union {0}, todo : SUBSET Proc]]
        /\ reader'[p].at = "locked" /\ reader'[p].file = f
        /\ \A q \in Proc \ {p} : reader'[q] = reader[q]
    BY <1>3, ReaderSteps DEF f, Steps
  <2>1. TypeOK'
    BY <1>1, <1>2, <1>3, <2>0 DEF TypeOK, books
  <2>2. \A q \in Proc : f # q => lock'[q] = lock[q]
    BY <1>1, <1>3 DEF TypeOK
  <2>3. lock'[f] = << p, "reader" >>
    BY <1>1, <1>3 DEF TypeOK
  <2>4. handler[f] \notin Running
    BY <1>1, <1>3 DEF Locked, ReaderRuns, ReaderLocks, WriterLocks, Nobody
  <2>5. \A q \in Proc : reader[q].at \in Reading => reader[q].file # f
    BY <1>1, <1>3 DEF Locked, ReaderRuns, ReaderLocks, WriterLocks, Nobody
  <2>6. Locked'
    <3>1. ReaderRuns'
      BY <1>1, <1>2, <2>0 DEF Locked, ReaderRuns
    <3>2. ReaderLocks'
      <4>1. \A q \in Proc : reader[q].at \in Reading => reader[q].file \in Proc /\ reader[q].file # f
        BY <2>5 DEF Locked, ReaderRuns, Reading
      <4>2. \A q \in Proc \ {p} : reader[q].at \in Reading => lock'[reader[q].file] = << q, "reader" >>
        BY <2>2, <4>1 DEF Locked, ReaderLocks
      <4> QED
        BY <2>0, <2>3, <4>2 DEF ReaderLocks
    <3>3. WriterLocks'
      BY <1>1, <1>2, <2>2, <2>4 DEF Locked, WriterLocks
    <3> QED
      BY <3>1, <3>2, <3>3 DEF Locked
  <2>7. InOrder'
    BY <1>1, <1>2, <2>0, f = reader[p].file DEF InOrder, books, f
  <2>8. Kept'
    BY <1>1, <1>2, <2>0, <2>2, <2>4 DEF Kept, LiveFilesStay, CrashesKept, books
  <2>9. WithContext'
    BY <1>1, <1>2, <2>0 DEF WithContext, ReportedWithContext, books
  <2>10. PublishedOnce'
    BY <1>1, <1>2, <2>0 DEF PublishedOnce, ReportedAgain, books, TypeOK, Report
  <2> QED
    BY <2>1, <2>6, <2>7, <2>8, <2>9, <2>10
<1>4. CASE UNCHANGED lock /\ reader' = ToNext(p)
  <2> HIDE DEF f
  <2>0. /\ reader' \in [Proc -> [at : Steps, file : Proc \union {0}, todo : SUBSET Proc]]
        /\ reader'[p].at = "next"
        /\ \A q \in Proc \ {p} : reader'[q] = reader[q]
    BY <1>4, ReaderGoesOn
  <2>1. TypeOK'
    BY <1>2, <1>4, <2>0 DEF TypeOK, books
  <2>2. Locked' /\ InOrder'
    <3>1. Locked'
      BY <1>1, <1>2, <1>4, <2>0 DEF Locked, ReaderRuns, ReaderLocks, WriterLocks, Reading
    <3>2. InOrder'
      BY <1>1, <1>2, <1>4, <2>0 DEF InOrder, books
    <3> QED
      BY <3>1, <3>2
  <2>3. Kept'
    BY <1>1, <1>2, <1>4, <2>0 DEF Kept, LiveFilesStay, CrashesKept, books
  <2>4. WithContext' /\ PublishedOnce'
    BY <1>1, <1>2, <1>4, <2>0 DEF WithContext, ReportedWithContext, PublishedOnce, ReportedAgain, books, TypeOK, Report
  <2> QED
    BY <2>1, <2>2, <2>3, <2>4
<1> QED
  BY <1>3, <1>4 DEF LockForRead

\* The report and its context are read: published, discarded, or left for another time.
LEMMA ReadCrashFilesInv ==
  ASSUME IInv, NEW p \in Proc, ReadCrashFiles(p)
  PROVE  IInv'
<1> DEFINE f == reader[p].file
<1> USE DEF IInv, Running
<1>1. /\ f \in Proc /\ reader[p].at = "locked" /\ handler[p] \in Running
      /\ lock[f] = << p, "reader" >>
  BY DEF ReadCrashFiles, At, Locked, ReaderRuns, ReaderLocks, Reading
<1>2. UNCHANGED << handler, linked, content, ctx, written, early, interrupted >>
  BY DEF ReadCrashFiles
<1>3. handler[f] \notin Running
  BY <1>1 DEF Locked, ReaderRuns, ReaderLocks, WriterLocks
<1>4. CASE Publish(p)
  <2> DEFINE report == [by |-> p, file |-> f, ctx |-> ctx[f], linked |-> linked[f]]
  <2>0. /\ reader' \in [Proc -> [at : Steps, file : Proc \union {0}, todo : SUBSET Proc]]
        /\ reader'[p].at = "delete" /\ reader'[p].file = f
        /\ \A q \in Proc \ {p} : reader'[q] = reader[q]
    BY <1>4, ReaderSteps DEF Publish, Steps
  <2>1. /\ content[f] = "full" /\ reports' = reports \union {report}
        /\ UNCHANGED << lock, dropped, used >>
    BY <1>4 DEF Publish
  <2>2. /\ report \in Report
        /\ report.by = p /\ report.file = f /\ report.ctx = ctx[f] /\ report.linked = linked[f]
    BY <1>1 DEF TypeOK, Report
  <2>3. handler[f] = "dead"
    BY <1>1, <1>3, <2>1 DEF InOrder
  <2>4. \A q \in Proc \ {p} : reader[q].at = "delete" => reader[q].file # f
    BY <1>1 DEF Locked, ReaderRuns, ReaderLocks, WriterLocks, Reading
  <2> HIDE DEF f, report
  <2>5. TypeOK'
    BY <1>2, <2>0, <2>1, <2>2 DEF TypeOK
  <2>6. Locked' /\ InOrder'
    <3>1. ReaderRuns'
      BY <1>1, <1>2, <2>0 DEF Locked, ReaderRuns
    <3>2. ReaderLocks'
      BY <1>1, <2>0, <2>1 DEF Locked, ReaderLocks, Reading
    <3>3. WriterLocks'
      BY <1>2, <2>1 DEF Locked, WriterLocks
    <3>4. InOrder'
      BY <1>1, <1>2, <2>0, f = reader[p].file DEF InOrder, f
    <3> QED
      BY <3>1, <3>2, <3>3, <3>4 DEF Locked
  <2>7. Kept'
    BY <1>1, <1>2, <2>0, <2>1, <2>2 DEF Kept, LiveFilesStay, CrashesKept
  <2>8. WithContext'
    BY <1>1, <1>2, <2>0, <2>1, <2>2, <2>3 DEF WithContext, ReportedWithContext
  <2>9. \A r \in reports : r.file = f /\ r.linked /\ linked[f] => << r.by, f >> \in interrupted
    BY <1>1, <2>4 DEF PublishedOnce, TypeOK, Report
  <2>10. PublishedOnce'
    BY <1>1, <1>2, <2>0, <2>1, <2>2, <2>9 DEF PublishedOnce, ReportedAgain, TypeOK, Report
  <2> QED
    BY <2>5, <2>6, <2>7, <2>8, <2>10
<1>5. CASE Discards(p)
  <2>0. /\ reader' \in [Proc -> [at : Steps, file : Proc \union {0}, todo : SUBSET Proc]]
        /\ reader'[p].at = "delete" /\ reader'[p].file = f
        /\ \A q \in Proc \ {p} : reader'[q] = reader[q]
    BY <1>5, ReaderSteps DEF Discards, Steps
  <2>1. /\ dropped' = dropped \union {f} /\ UNCHANGED << lock, reports >>
        /\ used' \in [contexts : Nat, events : Nat]
    BY <1>5 DEF Discards, Spend, TypeOK
  <2> HIDE DEF f
  <2>2. TypeOK'
    BY <1>1, <1>2, <2>0, <2>1 DEF TypeOK
  <2>3. Locked' /\ InOrder'
    <3>1. ReaderRuns'
      BY <1>1, <1>2, <2>0 DEF Locked, ReaderRuns
    <3>2. ReaderLocks'
      BY <1>1, <2>0, <2>1 DEF Locked, ReaderLocks, Reading
    <3>3. WriterLocks'
      BY <1>2, <2>1 DEF Locked, WriterLocks
    <3>4. InOrder'
      BY <1>1, <1>2, <2>0, f = reader[p].file DEF InOrder, f
    <3> QED
      BY <3>1, <3>2, <3>3, <3>4 DEF Locked
  <2>4. Kept'
    BY <1>1, <1>2, <2>0, <2>1 DEF Kept, LiveFilesStay, CrashesKept
  <2>5. WithContext' /\ PublishedOnce'
    BY <1>1, <1>2, <2>0, <2>1 DEF WithContext, ReportedWithContext, PublishedOnce, ReportedAgain, TypeOK, Report
  <2> QED
    BY <2>2, <2>3, <2>4, <2>5
<1>6. CASE GivesUp(p)
  <2>0. /\ reader' \in [Proc -> [at : Steps, file : Proc \union {0}, todo : SUBSET Proc]]
        /\ reader'[p].at = "next"
        /\ \A q \in Proc \ {p} : reader'[q] = reader[q]
    BY <1>6, ReaderGoesOn DEF GivesUp, Release
  <2>1. /\ lock' = [lock EXCEPT ![f] = Nobody] /\ UNCHANGED << reports, dropped >>
        /\ used' \in [contexts : Nat, events : Nat]
    BY <1>6 DEF GivesUp, Release, Spend, TypeOK
  <2> HIDE DEF f
  <2>2. TypeOK'
    BY <1>1, <1>2, <2>0, <2>1 DEF TypeOK
  <2>3. \A q \in Proc : reader'[q].at \in Reading => reader'[q].file # f
    BY <1>1, <2>0 DEF Locked, ReaderRuns, ReaderLocks, WriterLocks, Reading
  <2>4. Locked'
    <3>1. \A q \in Proc \ {f} : lock'[q] = lock[q]
      BY <1>1, <2>1 DEF TypeOK
    <3>2. ReaderRuns'
      BY <1>2, <2>0 DEF Locked, ReaderRuns
    <3>3. ASSUME NEW q \in Proc, reader'[q].at \in Reading
          PROVE  lock'[reader'[q].file] = << q, "reader" >>
      <4>1. q # p /\ reader'[q] = reader[q]
        BY <2>0, <3>3 DEF Reading
      <4>2. reader[q].file \in Proc /\ lock[reader[q].file] = << q, "reader" >>
        BY <1>1, <3>3, <4>1 DEF Locked, ReaderRuns, ReaderLocks, Reading
      <4>3. reader[q].file # f
        BY <2>3, <3>3, <4>1
      <4> QED
        BY <3>1, <4>1, <4>2, <4>3
    <3>4. ReaderLocks'
      BY <3>3 DEF ReaderLocks
    <3>5. WriterLocks'
      BY <1>2, <1>3, <3>1 DEF Locked, WriterLocks
    <3> QED
      BY <3>2, <3>4, <3>5 DEF Locked
  <2>5. InOrder'
    BY <1>1, <1>2, <2>0, <2>1 DEF InOrder
  <2>6. Kept'
    <3>1. \A q \in Proc : q # f => lock'[q] = lock[q]
      BY <1>1, <2>1 DEF TypeOK
    <3>2. LiveFilesStay'
      BY <1>1, <1>2, <1>3, <3>1 DEF Kept, LiveFilesStay
    <3>3. CrashesKept'
      BY <1>2, <2>1 DEF Kept, CrashesKept
    <3> QED
      BY <1>1, <1>2, <2>0, <2>1, <3>2, <3>3 DEF Kept
  <2>7. WithContext'
    BY <1>1, <1>2, <2>0, <2>1 DEF WithContext, ReportedWithContext
  <2>8. PublishedOnce'
    BY <1>1, <1>2, <2>0, <2>1 DEF PublishedOnce, ReportedAgain, TypeOK, Report
  <2> QED
    BY <2>2, <2>4, <2>5, <2>6, <2>7, <2>8
<1> QED
  BY <1>4, <1>5, <1>6 DEF ReadCrashFiles

\* delete_crash_files(): the report goes first.
LEMMA DeleteCrashFileInv ==
  ASSUME IInv, NEW p \in Proc, DeleteCrashFile(p)
  PROVE  IInv'
<1> USE DEF DeleteCrashFile, At, Reads, Spend, IInv, TypeOK, files, books, Running, Idle, Nobody
<1>1. TypeOK'
  <2>1. reader' \in [Proc -> [at : Steps, file : Proc \union {0}, todo : SUBSET Proc]]
    BY ReaderSteps DEF Steps
  <2>2. reader[p].file \in Proc
    BY DEF Locked, ReaderRuns
  <2>3. linked' \in [Proc -> BOOLEAN]
    OBVIOUS
  <2>4. interrupted' \subseteq Proc \X Proc
    BY <2>2
  <2>5. used' \in [contexts : Nat, events : Nat]
    OBVIOUS
  <2> QED
    BY <2>1, <2>3, <2>4, <2>5
<1>2. Locked'
  BY <1>1 DEF Locked, ReaderRuns, ReaderLocks, WriterLocks, Reading
<1>3. InOrder'
  BY <1>1 DEF Locked, ReaderRuns, ReaderLocks, WriterLocks, InOrder, Reading
<1>4. Kept'
  BY <1>1 DEF Locked, ReaderRuns, ReaderLocks, WriterLocks, InOrder, Reading, Kept, LiveFilesStay, CrashesKept
<1>5. WithContext'
  <2> DEFINE f == reader[p].file
  <2>1. f \in Proc
    BY DEF Locked, ReaderRuns
  <2>2. \/ linked' = [linked EXCEPT ![f] = FALSE] /\ UNCHANGED interrupted
        \/ interrupted' = interrupted \union {<< p, f >>} /\ UNCHANGED linked
    OBVIOUS
  <2>3. \A q \in Proc : linked'[q] => linked[q]
    BY <2>1, <2>2
  <2>4. interrupted \subseteq interrupted'
    BY <2>2
  <2>5. /\ reader'[p].at = "delete_context" /\ reader'[p].file = f
        /\ \A q \in Proc \ {p} : reader'[q] = reader[q]
    BY ReaderSteps DEF Steps
  <2>6. ~linked'[f] \/ << p, f >> \in interrupted'
    BY <2>1, <2>2
  <2>7. UNCHANGED << handler, ctx, written, reports, early >>
    OBVIOUS
  <2> HIDE DEF f, DeleteCrashFile, TypeOK
  <2> QED
    BY <2>1, <2>3, <2>4, <2>5, <2>6, <2>7 DEF WithContext, ReportedWithContext, Locked, ReaderRuns
<1>6. PublishedOnce'
  BY <1>1 DEF Locked, ReaderRuns, ReaderLocks, WriterLocks, InOrder, Reading, WithContext, PublishedOnce, ReportedAgain, Report
<1> QED
  BY <1>1, <1>2, <1>3, <1>4, <1>5, <1>6

\* delete_crash_files(): then the context, and the lock.
LEMMA DeleteContextInv ==
  ASSUME IInv, NEW p \in Proc, DeleteContext(p)
  PROVE  IInv'
<1> USE DEF DeleteContext, At, Release, ToNext, Spend, IInv, TypeOK, files, books, Running, Idle, Nobody
<1>1. TypeOK'
  BY ProcAssumption DEF Locked, ReaderRuns, ReaderLocks, WriterLocks, Alive, Content, Steps, Report
<1>2. Locked'
  BY <1>1 DEF Locked, ReaderRuns, ReaderLocks, WriterLocks, Reading
<1>3. InOrder'
  BY <1>1 DEF Locked, ReaderRuns, ReaderLocks, WriterLocks, InOrder, Reading
<1>4. Kept'
  BY <1>1 DEF Locked, ReaderRuns, ReaderLocks, WriterLocks, InOrder, Reading, Kept, LiveFilesStay, CrashesKept
<1>5. WithContext'
  <2> DEFINE f == reader[p].file
  <2>1. f \in Proc /\ (~linked[f] \/ << p, f >> \in interrupted)
    BY DEF Locked, ReaderRuns, WithContext
  <2>2. \A q \in Proc \ {f} : ctx'[q] = ctx[q]
    OBVIOUS
  <2>3. \A q \in Proc : reader'[q].at = "delete_context" => reader'[q] = reader[q]
    OBVIOUS
  <2> HIDE DEF f
  <2> QED
    BY <2>1, <2>2, <2>3 DEF WithContext, ReportedWithContext
<1>6. PublishedOnce'
  BY <1>1 DEF Locked, ReaderRuns, ReaderLocks, WriterLocks, InOrder, Reading, WithContext, PublishedOnce, ReportedAgain, Report
<1> QED
  BY <1>1, <1>2, <1>3, <1>4, <1>5, <1>6

\* A step in which nothing of this happens.
LEMMA StutterInv ==
  ASSUME IInv, UNCHANGED vars
  PROVE  IInv'
BY DEF vars, files, books, IInv, TypeOK, Locked, ReaderRuns, ReaderLocks, WriterLocks, InOrder, Kept,
       LiveFilesStay, CrashesKept, WithContext, ReportedWithContext, PublishedOnce, ReportedAgain

\* Every action of every process keeps the invariant.
LEMMA NextInv ==
  ASSUME IInv, [Next]_vars
  PROVE  IInv'
<1>1. CASE UNCHANGED vars
  BY <1>1, StutterInv
<1>2. ASSUME NEW p \in Proc,
             \/ OpenForWrite(p) \/ LockForWrite(p)
             \/ WriteCrashContext(p) \/ Crash(p) \/ WriteCrashReportFooter(p) \/ Exit(p) \/ Kill(p)
             \/ CloseCrashFile(p) \/ UnlinkCrashFile(p) \/ UnlinkContext(p)
             \/ ListFiles(p) \/ OpenForRead(p) \/ LockForRead(p)
             \/ ReadCrashFiles(p)
             \/ DeleteCrashFile(p) \/ DeleteContext(p)
      PROVE  IInv'
  BY <1>2, OpenForWriteInv, LockForWriteInv, WriteCrashContextInv, CrashInv,
     WriteCrashReportFooterInv, ExitInv, KillInv, CloseCrashFileInv, UnlinkCrashFileInv,
     UnlinkContextInv, ListFilesInv, OpenForReadInv, LockForReadInv, ReadCrashFilesInv,
     DeleteCrashFileInv, DeleteContextInv
<1> QED
  BY <1>1, <1>2 DEF Next

\* The invariant holds of every behaviour of the processes that share .crashes/.
THEOREM Invariant == Spec => []IInv
BY InitInv, NextInv, PTL DEF Spec

\* A process that lives keeps its crash file, the lock on it and its context,
\* whatever the other processes clean up (crash_processing.cpp, OpenForWrite()),
\* unless one of them had opened the file before the lock was there.
THEOREM FilesOfTheLivingStay == Spec => []Owned
<1>1. IInv => Owned
  BY DEF IInv, Kept, Owned
<1> QED
  BY <1>1, Invariant, PTL

\* A crash whose report is complete is on disk, published, or was given up as
\* unreadable, even if its readers crash in turn: read_crash_files() deletes
\* nothing it has not read.
THEOREM NoCrashIsLost == Spec => []CrashesKept
<1>1. IInv => CrashesKept
  BY DEF IInv, Kept
<1> QED
  BY <1>1, Invariant, PTL

\* A crash is published with the last context its process had put in place:
\* delete_crash_files() deletes the report before the context.
THEOREM ContextGoesWithTheCrash == Spec => []ReportedWithContext
<1>1. IInv => ReportedWithContext
  BY DEF IInv, WithContext
<1> QED
  BY <1>1, Invariant, PTL

\* A report is published twice with its name in place only if the first process
\* that published it could not delete it: the lock is held until then.
THEOREM NotAgainWithoutInterruption == Spec => []ReportedAgain
<1>1. IInv => ReportedAgain
  BY DEF IInv, PublishedOnce
<1> QED
  BY <1>1, Invariant, PTL

-----------------------------------------------------------------------------
(***************************************************************************)
(* The handlers inside one process: CrashSignals.  Whatever faults, and    *)
(* wherever, the report holds the sections of one invocation of the        *)
(* handler in their order; and the signal that the handler raises again    *)
(* reaches nobody.                                                         *)
(*                                                                         *)
(* Both rest on one invariant: only one invocation is ever past the guard, *)
(* it is as far as the file is, and what a thread is handling it blocks.   *)
(***************************************************************************)
CONSTANTS Thread, Initialiser, Signal, MaxFaults

VARIABLES process, owner, previous, blocked, pending, stack, inHandler, crashFd, file,
          shutdown, heard, faults

Signals == INSTANCE CrashSignals

Step == {"enter", "open", "header", "modules", "frames", "footer", "chain", "raise", "exit"}
Invocations == [sig : Signal, at : Step]
Section == {"header", "modules", "frames", "footer"}

SignalsTypeOK ==
  /\ blocked \in [Thread -> SUBSET Signal]
  /\ stack \in [Thread -> Seq(Invocations)]
  /\ file \in [sections : Seq(Section), open : BOOLEAN, linked : BOOLEAN]

\* Invocation i of thread t has passed the guard.
Past(t, i) == i \in 1 .. Len(stack[t]) /\ stack[t][i].at # "enter"

Alone ==
  \A t, u \in Thread : \A i, j \in Nat : Past(t, i) /\ Past(u, j) => t = u /\ i = j

Guarded == ~inHandler => /\ file.sections = << >>
                         /\ \A t \in Thread : \A i \in Nat : ~Past(t, i)

\* Where the invocation is says how much of an open file has been written.
Placed ==
  \A t \in Thread : \A i \in 1 .. Len(stack[t]) :
    /\ stack[t][i].at = "open" => file.sections = << >>
    /\ \A n \in 1 .. 4 :
         file.open /\ stack[t][i].at = Signals!Sections[n] => Len(file.sections) = n - 1

OpenTogether == crashFd = file.open

Blocks == \A t \in Thread : \A i \in 1 .. Len(stack[t]) : stack[t][i].sig \in blocked[t]

SignalsInv ==
  /\ SignalsTypeOK /\ Alone /\ Guarded /\ Placed /\ OpenTogether /\ Blocks
  /\ Signals!ReportInOrder

-----------------------------------------------------------------------------
LEMMA SectionFacts ==
  /\ Len(Signals!Sections) = 4
  /\ Signals!Sections[1] = "header" /\ Signals!Sections[2] = "modules"
  /\ Signals!Sections[3] = "frames" /\ Signals!Sections[4] = "footer"
  /\ \A n \in 1 .. 4 : Signals!Sections[n] \in Section
BY DEF Signals!Sections, Section

\* A thread that works has an innermost invocation.
LEMMA TopIsLast ==
  ASSUME SignalsTypeOK, NEW t \in Thread, Signals!Working(t)
  PROVE  /\ Len(stack[t]) \in Nat /\ Len(stack[t]) \in 1 .. Len(stack[t])
         /\ stack[t] \in Seq(Invocations)
         /\ Signals!Top(t) = stack[t][Len(stack[t])] /\ Signals!Top(t) \in Invocations
<1>1. stack[t] \in Seq(Invocations) /\ stack[t] # << >>
  BY DEF SignalsTypeOK, Signals!Working
<1>2. Len(stack[t]) \in Nat \ {0}
  BY <1>1, EmptySeq
<1>3. Len(stack[t]) \in 1 .. Len(stack[t])
  BY <1>2
<1> QED
  BY <1>1, <1>2, <1>3, ElementOfSeq DEF Signals!Top

\* A step inside the handler changes where the innermost invocation is, no more.
LEMMA MoveStack ==
  ASSUME SignalsTypeOK, NEW t \in Thread, Signals!Working(t), NEW step \in Step, Signals!Moves(t, step)
  PROVE  /\ stack' \in [Thread -> Seq(Invocations)]
         /\ \A u \in Thread : Len(stack'[u]) = Len(stack[u])
         /\ \A u \in Thread : \A i \in 1 .. Len(stack[u]) :
              /\ stack'[u][i].sig = stack[u][i].sig
              /\ stack'[u][i].at = IF u = t /\ i = Len(stack[t]) THEN step
                                   ELSE stack[u][i].at
<1> DEFINE k == Len(stack[t])
           e == [stack[t][k] EXCEPT !.at = step]
           s == [stack[t] EXCEPT ![k] = e]
<1>1. k \in 1 .. Len(stack[t]) /\ stack[t] \in Seq(Invocations) /\ stack[t][k] \in Invocations
  BY TopIsLast
<1>2. e \in Invocations /\ e.at = step /\ e.sig = stack[t][k].sig
  BY <1>1 DEF Invocations
<1>3. stack' = [stack EXCEPT ![t] = s]
  BY DEF Signals!Moves
<1> HIDE DEF e, k
<1>4. /\ s \in Seq(Invocations) /\ Len(s) = Len(stack[t])
      /\ \A j \in 1 .. Len(stack[t]) : s[j] = IF j = k THEN e ELSE stack[t][j]
  BY <1>1, <1>2, ExceptSeq
<1> HIDE DEF s
<1>5. \A u \in Thread : stack'[u] = IF u = t THEN s ELSE stack[u]
  BY <1>3 DEF SignalsTypeOK
<1>6. stack' \in [Thread -> Seq(Invocations)]
  BY <1>3, <1>4 DEF SignalsTypeOK
<1>7. \A u \in Thread : Len(stack'[u]) = Len(stack[u])
  BY <1>4, <1>5
<1>8. ASSUME NEW u \in Thread, NEW i \in 1 .. Len(stack[u])
      PROVE  /\ stack'[u][i].sig = stack[u][i].sig
             /\ stack'[u][i].at = IF u = t /\ i = Len(stack[t]) THEN step
                                  ELSE stack[u][i].at
  <2>1. CASE u = t
    BY <2>1, <1>2, <1>4, <1>5 DEF k
  <2>2. CASE u # t
    BY <2>2, <1>5
  <2> QED
    BY <2>1, <2>2
<1> QED
  BY <1>6, <1>7, <1>8

Grows(t, sig) == stack' = [stack EXCEPT ![t] = Append(@, Signals!Invocation(sig))]

\* A delivery puts an invocation that has not started on top.
LEMMA GrowStack ==
  ASSUME SignalsTypeOK, NEW t \in Thread, NEW sig \in Signal, Grows(t, sig)
  PROVE  /\ stack' \in [Thread -> Seq(Invocations)]
         /\ \A u \in Thread : \A i \in 1 .. Len(stack'[u]) :
              \/ i \in 1 .. Len(stack[u]) /\ stack'[u][i] = stack[u][i]
              \/ u = t /\ stack'[u][i].at = "enter" /\ stack'[u][i].sig = sig
<1> DEFINE e == Signals!Invocation(sig)
           s == Append(stack[t], e)
<1>1. e \in Invocations /\ e.at = "enter" /\ e.sig = sig
  BY DEF Signals!Invocation, Invocations, Step
<1>2. stack[t] \in Seq(Invocations) /\ stack' = [stack EXCEPT ![t] = s]
  BY DEF SignalsTypeOK, Grows
<1> HIDE DEF e
<1>3. /\ s \in Seq(Invocations) /\ Len(s) = Len(stack[t]) + 1
      /\ \A i \in 1 .. Len(stack[t]) : s[i] = stack[t][i]
      /\ s[Len(stack[t]) + 1] = e /\ Len(stack[t]) \in Nat
  BY <1>1, <1>2, AppendProperties, LenProperties
<1> HIDE DEF s
<1>4. \A u \in Thread : stack'[u] = IF u = t THEN s ELSE stack[u]
  BY <1>2 DEF SignalsTypeOK
<1>5. stack' \in [Thread -> Seq(Invocations)]
  BY <1>2, <1>3 DEF SignalsTypeOK
<1>6. ASSUME NEW u \in Thread, NEW i \in 1 .. Len(stack'[u])
      PROVE  \/ i \in 1 .. Len(stack[u]) /\ stack'[u][i] = stack[u][i]
             \/ u = t /\ stack'[u][i].at = "enter" /\ stack'[u][i].sig = sig
  <2>1. CASE u # t
    BY <2>1, <1>4
  <2>2. CASE u = t /\ i = Len(stack[t]) + 1
    BY <2>2, <1>1, <1>3, <1>4
  <2>3. CASE u = t /\ i # Len(stack[t]) + 1
    <3>1. i \in 1 .. Len(stack[t])
      BY <2>3, <1>3, <1>4
    <3> QED
      BY <2>3, <3>1, <1>3, <1>4
  <2> QED
    BY <2>1, <2>2, <2>3
<1> QED
  BY <1>5, <1>6

-----------------------------------------------------------------------------
(***************************************************************************)
(* Steps that preserve the invariant, by what they do to the stacks.       *)
(***************************************************************************)
\* Nothing that the invariant is about changes: the rest follows.
LEMMA KeepsStacks ==
  ASSUME SignalsInv, UNCHANGED << stack, blocked, inHandler, file, crashFd >>
  PROVE  SignalsInv'
BY DEF SignalsInv, SignalsTypeOK, Alone, Guarded, Placed, OpenTogether, Blocks, Signals!ReportInOrder, Past

LEMMA DeliverKeeps ==
  ASSUME SignalsInv, NEW t \in Thread, NEW sig \in Signal, Signals!Deliver(t, sig),
         UNCHANGED << inHandler, file, crashFd >>
  PROVE  SignalsInv'
<1>1. CASE UNCHANGED << stack, blocked >>
  BY <1>1, KeepsStacks
<1>2. CASE /\ stack' = [stack EXCEPT ![t] = Append(@, Signals!Invocation(sig))]
           /\ blocked' = [blocked EXCEPT ![t] = @ \union {sig}]
  <2>1. SignalsTypeOK
    BY DEF SignalsInv
  <2>2. /\ stack' \in [Thread -> Seq(Invocations)]
        /\ \A u \in Thread : \A i \in 1 .. Len(stack'[u]) :
             \/ i \in 1 .. Len(stack[u]) /\ stack'[u][i] = stack[u][i]
             \/ u = t /\ stack'[u][i].at = "enter" /\ stack'[u][i].sig = sig
    <3>1. Grows(t, sig)
      BY <1>2 DEF Grows
    <3> QED
      BY <2>1, <3>1, GrowStack
  <2>3. blocked' \in [Thread -> SUBSET Signal]
    BY <1>2, <2>1 DEF SignalsTypeOK
  <2>4. SignalsTypeOK'
    BY <2>1, <2>2, <2>3 DEF SignalsTypeOK
  <2>5. \A u \in Thread, i \in Nat : Past(u, i)' => Past(u, i)
    BY <2>2 DEF Past
  <2>6. Alone' /\ Guarded'
    BY <2>5 DEF SignalsInv, Alone, Guarded
  <2>7. Placed'
    BY <2>2, SectionFacts DEF SignalsInv, Placed, Section
  <2>8. Blocks'
    <3>1. \A u \in Thread : blocked[u] \subseteq blocked'[u] /\ sig \in blocked'[t]
      BY <1>2, <2>1 DEF SignalsTypeOK
    <3> QED
      BY <2>2, <3>1 DEF SignalsInv, Blocks
  <2>9. OpenTogether' /\ Signals!ReportInOrder'
    BY DEF SignalsInv, OpenTogether, Signals!ReportInOrder
  <2> QED
    BY <2>4, <2>6, <2>7, <2>8, <2>9 DEF SignalsInv
<1> QED
  BY <1>1, <1>2 DEF Signals!Deliver

\* The invocation that is past the guard goes on: the others are not past it.
LEMMA MovesKeep ==
  ASSUME SignalsInv, NEW t \in Thread, Signals!Working(t), Signals!Top(t).at # "enter",
         NEW step \in Step \ {"enter"}, Signals!Moves(t, step),
         UNCHANGED << blocked, inHandler >>,
         SignalsTypeOK => file' \in [sections : Seq(Section), open : BOOLEAN, linked : BOOLEAN],
         Signals!ReportInOrder', OpenTogether',
         step = "open" => file'.sections = << >>,
         \A n \in 1 .. 4 : file'.open /\ step = Signals!Sections[n] => Len(file'.sections) = n - 1
  PROVE  SignalsInv'
<1>1. SignalsTypeOK
  BY DEF SignalsInv
<1>2. /\ Len(stack[t]) \in Nat /\ Len(stack[t]) \in 1 .. Len(stack[t])
      /\ Past(t, Len(stack[t]))
  BY <1>1, TopIsLast DEF Past
<1>3. /\ stack' \in [Thread -> Seq(Invocations)]
      /\ \A u \in Thread : Len(stack'[u]) = Len(stack[u])
      /\ \A u \in Thread : \A i \in 1 .. Len(stack[u]) :
           /\ stack'[u][i].sig = stack[u][i].sig
           /\ stack'[u][i].at = IF u = t /\ i = Len(stack[t]) THEN step ELSE stack[u][i].at
  BY <1>1, MoveStack
<1>4. SignalsTypeOK'
  BY <1>1, <1>3 DEF SignalsTypeOK
<1>5. \A u \in Thread, i \in Nat : Past(u, i)' <=> Past(u, i)
  BY <1>2, <1>3 DEF Past
<1>6. Alone'
  BY <1>5 DEF SignalsInv, Alone
<1>7. inHandler
  BY <1>2 DEF SignalsInv, Guarded
<1>8. Guarded'
  BY <1>7 DEF Guarded
<1>9. Placed'
  <2> SUFFICES ASSUME NEW u \in Thread, NEW i \in 1 .. Len(stack[u])
               PROVE  /\ stack'[u][i].at = "open" => file'.sections = << >>
                      /\ \A n \in 1 .. 4 :
                           file'.open /\ stack'[u][i].at = Signals!Sections[n]
                             => Len(file'.sections) = n - 1
    BY <1>3 DEF Placed
  <2>1. CASE u = t /\ i = Len(stack[t])
    BY <2>1, <1>3
  <2>2. CASE ~(u = t /\ i = Len(stack[t]))
    <3>1. i \in Nat /\ ~Past(u, i)
      BY <2>2, <1>2 DEF SignalsInv, Alone
    <3>2. stack'[u][i].at = "enter"
      BY <2>2, <3>1, <1>3 DEF Past
    <3> QED
      BY <3>2, SectionFacts DEF Section
  <2> QED
    BY <2>1, <2>2
<1>10. Blocks'
  BY <1>3 DEF SignalsInv, Blocks
<1> QED
  BY <1>4, <1>6, <1>8, <1>9, <1>10 DEF SignalsInv

\* Initialize() leaves an empty file and no invocation.
LEMMA SignalsInit == Signals!Init => SignalsInv
<1> SUFFICES ASSUME Signals!Init PROVE SignalsInv
  OBVIOUS
<1>1. \A S : << >> \in Seq(S) /\ Len(<< >>) = 0
  BY EmptySeq
<1>2. SignalsTypeOK
  BY <1>1 DEF Signals!Init, SignalsTypeOK
<1>3. \A t \in Thread : Len(stack[t]) = 0
  BY <1>1 DEF Signals!Init
<1>4. Alone /\ Guarded /\ Placed /\ Blocks
  BY <1>3 DEF Signals!Init, Alone, Guarded, Placed, Blocks, Past
<1>5. OpenTogether
  BY DEF Signals!Init, OpenTogether
<1>6. Signals!ReportInOrder
  BY <1>1, SectionFacts DEF Signals!Init, Signals!ReportInOrder
<1> QED
  BY <1>2, <1>4, <1>5, <1>6 DEF SignalsInv

\* The first invocation passes the guard; any other ends the process.
LEMMA EnterKeeps ==
  ASSUME SignalsInv, NEW t \in Thread, Signals!Enter(t)
  PROVE  SignalsInv'
<1>1. CASE UNCHANGED << stack, inHandler >>
  BY <1>1, KeepsStacks DEF Signals!Enter
<1>2. CASE ~inHandler /\ inHandler' = TRUE /\ Signals!Moves(t, "open")
  <2>1. SignalsTypeOK /\ Signals!Working(t) /\ UNCHANGED << blocked, file, crashFd >>
    BY DEF SignalsInv, Signals!Enter, Signals!At
  <2>2. Len(stack[t]) \in Nat
    BY <2>1, TopIsLast
  <2>3. "open" \in Step
    BY DEF Step
  <2>4. /\ stack' \in [Thread -> Seq(Invocations)]
        /\ \A u \in Thread : Len(stack'[u]) = Len(stack[u])
        /\ \A u \in Thread : \A i \in 1 .. Len(stack[u]) :
             /\ stack'[u][i].sig = stack[u][i].sig
             /\ stack'[u][i].at = IF u = t /\ i = Len(stack[t]) THEN "open"
                                  ELSE stack[u][i].at
    BY <1>2, <2>1, <2>3, MoveStack
  <2>5. SignalsTypeOK'
    BY <2>1, <2>4 DEF SignalsTypeOK
  <2>6. /\ file.sections = << >>
        /\ \A u \in Thread : \A i \in Nat : ~Past(u, i)
    BY <1>2 DEF SignalsInv, Guarded
  <2>7. \A u \in Thread : \A i \in Nat : Past(u, i)' => u = t /\ i = Len(stack[t])
    BY <2>4, <2>6 DEF Past
  <2>8. Alone' /\ Guarded'
    BY <1>2, <2>7 DEF Alone, Guarded
  <2>9. Placed'
    <3> SUFFICES ASSUME NEW u \in Thread, NEW i \in 1 .. Len(stack'[u])
                 PROVE  stack'[u][i].at \in {"open", "enter"}
      BY <2>1, <2>6, SectionFacts DEF Placed, Section
    <3>1. i \in 1 .. Len(stack[u]) /\ i \in Nat
      BY <2>4
    <3> QED
      BY <3>1, <2>4, <2>6 DEF Past
  <2>10. Blocks'
    BY <2>1, <2>4 DEF SignalsInv, Blocks
  <2>11. OpenTogether' /\ Signals!ReportInOrder'
    BY <2>1 DEF SignalsInv, OpenTogether, Signals!ReportInOrder
  <2> QED
    BY <2>5, <2>8, <2>9, <2>10, <2>11 DEF SignalsInv
<1> QED
  BY <1>1, <1>2 DEF Signals!Enter

\* A section goes to its place, or to a file that is closed.
LEMMA WriteKeeps ==
  ASSUME SignalsInv, NEW t \in Thread, NEW n \in 1 .. 4, Signals!WriteSection(t, n)
  PROVE  SignalsInv'
<1> DEFINE next == IF n < 4 THEN Signals!Sections[n + 1] ELSE "chain"
<1>1. /\ SignalsTypeOK /\ Signals!Working(t) /\ Signals!Top(t).at = Signals!Sections[n] /\ Signals!Moves(t, next)
      /\ UNCHANGED << blocked, inHandler, crashFd >>
      /\ file' = IF file.open THEN [file EXCEPT !.sections = Append(@, Signals!Sections[n])] ELSE file
  BY SectionFacts DEF SignalsInv, Signals!WriteSection, Signals!At, Signals!kernel
<1>2. /\ Len(stack[t]) \in 1 .. Len(stack[t])
      /\ stack[t][Len(stack[t])].at = Signals!Sections[n]
  BY <1>1, TopIsLast
<1>3. Signals!Sections[n] \in Section /\ Signals!Sections[n] # "enter"
  BY SectionFacts DEF Section
<1>4. /\ next \in Step \ {"enter"} /\ next # "open"
      /\ \A k \in 1 .. 4 : next = Signals!Sections[k] => k = n + 1
  BY SectionFacts DEF Step
<1> HIDE DEF next
<1>5. file.sections \in Seq(Section) /\ Len(file.sections) \in Nat
  BY <1>1, LenProperties DEF SignalsTypeOK
<1>6. CASE file.open
  <2> DEFINE s == Append(file.sections, Signals!Sections[n])
  <2>1. Len(file.sections) = n - 1
    BY <1>2, <1>6 DEF SignalsInv, Placed
  <2>2. /\ s \in Seq(Section) /\ Len(s) = n /\ s[n] = Signals!Sections[n]
        /\ \A k \in 1 .. n - 1 : s[k] = file.sections[k]
    BY <1>3, <1>5, <2>1, AppendProperties
  <2>3. /\ file' = [file EXCEPT !.sections = s]
        /\ file \in [sections : Seq(Section), open : BOOLEAN, linked : BOOLEAN]
    BY <1>1, <1>6 DEF SignalsTypeOK
  <2> HIDE DEF s
  <2>4. /\ file'.sections = s /\ file'.open = file.open
        /\ file' \in [sections : Seq(Section), open : BOOLEAN, linked : BOOLEAN]
    BY <2>2, <2>3
  <2>5. Signals!ReportInOrder'
    <3>1. Len(s) <= 4
      BY <2>2
    <3>2. ASSUME NEW k \in 1 .. Len(s) PROVE s[k] = Signals!Sections[k]
      <4>1. CASE k = n
        BY <4>1, <2>2
      <4>2. CASE k # n
        <5>1. k \in 1 .. n - 1 /\ k \in 1 .. Len(file.sections)
          BY <4>2, <2>1, <2>2, <3>2
        <5> QED
          BY <5>1, <2>2 DEF SignalsInv, Signals!ReportInOrder
      <4> QED
        BY <4>1, <4>2
    <3> QED
      BY <2>4, <3>1, <3>2, SectionFacts DEF Signals!ReportInOrder
  <2>6. OpenTogether'
    BY <1>1, <2>4 DEF SignalsInv, OpenTogether
  <2>7. \A k \in 1 .. 4 : file'.open /\ next = Signals!Sections[k] => Len(file'.sections) = k - 1
    BY <1>4, <2>2, <2>4
  <2> QED
    BY <1>1, <1>3, <1>4, <2>4, <2>5, <2>6, <2>7, MovesKeep
<1>7. CASE ~file.open
  <2>1. file' = file
    BY <1>1, <1>7
  <2>2. Signals!ReportInOrder' /\ OpenTogether'
    BY <1>1, <2>1 DEF SignalsInv, Signals!ReportInOrder, OpenTogether
  <2>3. file' \in [sections : Seq(Section), open : BOOLEAN, linked : BOOLEAN]
    BY <1>1, <2>1 DEF SignalsTypeOK
  <2> QED
    BY <1>1, <1>3, <1>4, <1>7, <2>1, <2>2, <2>3, MovesKeep
<1> QED
  BY <1>6, <1>7

\* Steps of the handler that do not write.
LEMMA StepKeeps ==
  ASSUME SignalsInv, NEW t \in Thread, NEW from \in {"open", "chain", "raise"},
         NEW step \in {"header", "chain", "raise", "exit"},
         Signals!At(t, from), Signals!Moves(t, step), step = "header" => from = "open" /\ crashFd,
         UNCHANGED << blocked, inHandler, file, crashFd >>
  PROVE  SignalsInv'
<1>1. SignalsTypeOK /\ Signals!Working(t) /\ Signals!Top(t).at = from
  BY DEF SignalsInv, Signals!At
<1>2. /\ Len(stack[t]) \in 1 .. Len(stack[t])
      /\ stack[t][Len(stack[t])].at = from
  BY <1>1, TopIsLast
<1>3. step \in Step \ {"enter"} /\ step # "open" /\ Signals!Top(t).at # "enter"
  BY <1>1 DEF Step
<1>4. from = "open" => file.sections = << >>
  BY <1>2 DEF SignalsInv, Placed
<1>5. Len(<< >>) = 0
  OBVIOUS
<1>6. \A n \in 1 .. 4 : file'.open /\ step = Signals!Sections[n] => Len(file'.sections) = n - 1
  BY <1>4, <1>5, SectionFacts
<1>7. /\ file' \in [sections : Seq(Section), open : BOOLEAN, linked : BOOLEAN]
      /\ Signals!ReportInOrder' /\ OpenTogether'
  BY DEF SignalsInv, SignalsTypeOK, Signals!ReportInOrder, OpenTogether
<1> QED
  BY <1>1, <1>3, <1>6, <1>7, MovesKeep

\* Shutdown() closes the file, or takes its name; what it holds stays.
LEMMA CloseKeeps ==
  ASSUME SignalsInv, Signals!Close \/ Signals!Unlink
  PROVE  SignalsInv'
<1>1. UNCHANGED << stack, blocked, inHandler >>
  BY DEF Signals!Close, Signals!Unlink, Signals!kernel
<1>2. /\ file \in [sections : Seq(Section), open : BOOLEAN, linked : BOOLEAN]
      /\ SignalsTypeOK /\ OpenTogether
  BY DEF SignalsInv, SignalsTypeOK
<1>3. /\ file' \in [sections : Seq(Section), open : BOOLEAN, linked : BOOLEAN]
      /\ file'.sections = file.sections /\ (file'.open => file.open)
  BY <1>2 DEF Signals!Close, Signals!Unlink
<1>4. OpenTogether'
  BY <1>2 DEF Signals!Close, Signals!Unlink, OpenTogether
<1>5. SignalsTypeOK'
  BY <1>1, <1>2, <1>3 DEF SignalsTypeOK
<1>6. Alone' /\ Guarded' /\ Blocks' /\ Signals!ReportInOrder'
  BY <1>1, <1>3 DEF SignalsInv, Alone, Guarded, Blocks, Signals!ReportInOrder, Past
<1>7. Placed'
  BY <1>1, <1>3 DEF SignalsInv, Placed
<1> QED
  BY <1>4, <1>5, <1>6, <1>7 DEF SignalsInv

LEMMA SignalsNext == SignalsInv /\ [Signals!Next]_Signals!vars => SignalsInv'
<1> SUFFICES ASSUME SignalsInv, [Signals!Next]_Signals!vars PROVE SignalsInv'
  OBVIOUS
<1>1. ASSUME NEW t \in Thread, NEW sig \in Signal, NEW exhausted \in BOOLEAN,
             Signals!Fault(t, sig, exhausted)
      PROVE  SignalsInv'
  <2>1. UNCHANGED << inHandler, file, crashFd >>
    BY <1>1 DEF Signals!Fault
  <2>2. CASE UNCHANGED << stack, blocked >>
    BY <2>1, <2>2, KeepsStacks
  <2>3. CASE Signals!Deliver(t, sig)
    BY <2>1, <2>3, DeliverKeeps
  <2> QED
    BY <1>1, <2>2, <2>3 DEF Signals!Fault
<1>2. ASSUME NEW t \in Thread, Signals!Enter(t) PROVE SignalsInv'
  BY <1>2, EnterKeeps
<1>3. ASSUME NEW t \in Thread, Signals!LookForFile(t) PROVE SignalsInv'
  <2> DEFINE step == IF crashFd THEN "header" ELSE "chain"
  <2>1. /\ Signals!At(t, "open") /\ Signals!Moves(t, step)
        /\ UNCHANGED << blocked, inHandler, file, crashFd >>
    BY <1>3 DEF Signals!LookForFile, Signals!kernel
  <2>2. step \in {"header", "chain", "raise", "exit"} /\ (step = "header" => crashFd)
    OBVIOUS
  <2> HIDE DEF step
  <2> QED
    BY <2>1, <2>2, StepKeeps
<1>4. ASSUME NEW t \in Thread, NEW n \in 1 .. Len(Signals!Sections), Signals!WriteSection(t, n) PROVE SignalsInv'
  BY <1>4, WriteKeeps, SectionFacts
<1>5. ASSUME NEW t \in Thread, Signals!RestorePrevious(t) PROVE SignalsInv'
  BY <1>5, StepKeeps DEF Signals!RestorePrevious
<1>6. ASSUME NEW t \in Thread, Signals!Raise(t) PROVE SignalsInv'
  <2>1. Signals!At(t, "raise") /\ UNCHANGED << inHandler, file, crashFd >>
    BY <1>6 DEF Signals!Raise
  <2>2. CASE Signals!Moves(t, "exit") /\ UNCHANGED blocked
    BY <2>1, <2>2, StepKeeps
  <2>3. CASE Signals!Deliver(t, Signals!Top(t).sig)
    <3>1. Signals!Top(t).sig \in Signal
      BY <2>1, TopIsLast DEF SignalsInv, Signals!At, Invocations
    <3> QED
      BY <2>1, <2>3, <3>1, DeliverKeeps
  <2> QED
    BY <1>6, <2>2, <2>3 DEF Signals!Raise
<1>7. ASSUME NEW t \in Thread, Signals!LeaveHandler(t) PROVE SignalsInv'
  BY <1>7, KeepsStacks DEF Signals!LeaveHandler, Signals!handler
<1>8. ASSUME NEW sig \in Signal, Signals!RestoreAll(sig) PROVE SignalsInv'
  BY <1>8, KeepsStacks DEF Signals!RestoreAll, Signals!handler
<1>9. CASE Signals!Measure \/ Signals!Leave
  BY <1>9, KeepsStacks DEF Signals!Measure, Signals!Leave, Signals!kernel, Signals!handler
<1>10. CASE Signals!Close \/ Signals!Unlink
  BY <1>10, CloseKeeps
<1>11. CASE UNCHANGED Signals!vars
  BY <1>11, KeepsStacks DEF Signals!vars, Signals!kernel, Signals!handler
<1> QED
  BY <1>1, <1>2, <1>3, <1>4, <1>5, <1>6, <1>7, <1>8, <1>9, <1>10, <1>11 DEF Signals!Next

-----------------------------------------------------------------------------
(***************************************************************************)
(* Theorems.                                                               *)
(***************************************************************************)
LEMMA SignalsInvHolds == Signals!Spec => []SignalsInv
<1>1. Signals!Init => SignalsInv
  BY SignalsInit
<1>2. SignalsInv /\ [Signals!Next]_Signals!vars => SignalsInv'
  BY SignalsNext
<1> QED
  BY <1>1, <1>2, PTL DEF Signals!Spec

\* crash_handler_inprocess_posix.cpp:83-85 and :642: threads that fault at once,
\* or faults inside the handler, never mix two reports in one file.
THEOREM ReportStaysInOrder == Signals!Spec => []Signals!ReportInOrder
<1>1. SignalsInv => Signals!ReportInOrder
  BY DEF SignalsInv
<1> QED
  BY <1>1, SignalsInvHolds, PTL

\* crash_handler_inprocess_posix.cpp:769-770: the thread still blocks the signal
\* it raises, so the handler that was restored for it is not called.
THEOREM NobodyHearsTheRaise == Signals!Spec => Signals!RaiseReachesNobody
<1>1. SignalsInv => \A t \in Thread : Signals!At(t, "raise") => Signals!Top(t).sig \in blocked[t]
  <2> SUFFICES ASSUME SignalsInv, NEW t \in Thread, Signals!At(t, "raise") PROVE Signals!Top(t).sig \in blocked[t]
    OBVIOUS
  <2>1. SignalsTypeOK /\ Signals!Working(t)
    BY DEF SignalsInv, Signals!At
  <2> QED
    BY <2>1, TopIsLast DEF SignalsInv, Blocks
<1>2. SignalsInv /\ [Signals!Next]_Signals!vars => [heard' # heard => \A t \in Thread : ~Signals!Raise(t)]_Signals!vars
  BY <1>1 DEF Signals!Raise
<1> QED
  BY <1>2, SignalsInvHolds, PTL DEF Signals!Spec, Signals!RaiseReachesNobody
=============================================================================
