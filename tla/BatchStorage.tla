---------------------------- MODULE BatchStorage ----------------------------
(***************************************************************************)
(* The batch files of one feature: a pending and a granted directory that  *)
(* the storage thread fills (BatchWriter, FeatureEventStorage) and the     *)
(* upload thread drains (_run_upload_cycle), with no lock between them.    *)
(* What keeps them apart is time: a file is named after the millisecond of *)
(* its creation, is written to while its age is at most WriteAge, and is   *)
(* read and deleted only from age ReadAge on.                              *)
(*                                                                         *)
(* A step is what a thread does up to and including its next filesystem    *)
(* call (or the HTTP request): between two of them the other thread may    *)
(* run, the clock may advance and the process may crash.                   *)
(*                                                                         *)
(* Data is abstracted: a file is the set of events in its whole TLV        *)
(* records, and the bytes of truncated records left in it; the order of    *)
(* the records matters to nobody, and a file with a truncated record is    *)
(* malformed whatever follows it.  The messages of the storage queue       *)
(* arrive as the storage thread takes them, and an upload cycle may begin  *)
(* at any time: the delays between cycles are not modelled here.           *)
(***************************************************************************)
EXTENDS Naturals, FiniteSets, FiniteSetsExt

CONSTANTS Event,          \* the events features generate
          Bytes,          \* Bytes[S]: bytes the events of a set S take as TLV blocks
          WriteAge,       \* BatchWriterConfig::max_file_age
          ReadAge,        \* UploadThreadConfig::min_file_age_for_read
          ExpireAge,      \* UploadThreadConfig::max_file_age_for_read
          MaxWrites,      \* max_writes_per_file
          MaxEventSize,   \* max_event_size
          MaxFileSize,    \* max_file_size
          MaxDirSize,     \* max_directory_size
          MaxProbes,      \* file names tried for a new file: 100 in the code
          MaxBatches,     \* max_batches_per_cycle
          FlushBatches,   \* num_http_requests_per_feature_to_flush_on_stop
          MaxStall,       \* longest time from clock sample to write of an event
          MaxTime,        \* bound: the clock's last value
          MaxBackSteps,   \* bound: times the system clock is set back
          MaxFaults,      \* bound: filesystem calls that fail
          Faulty,         \* the kinds of filesystem call that may fail
          MaxOutages,     \* bound: requests that get no answer, or a retryable one
          MaxRestarts,    \* bound: stops and crashes
          MaxTrouble      \* bound: all of these together

FileCalls == {"list", "delete", "rename", "open", "write"}

\* An event that is on its way to a file when the file is still young enough to
\* be written to arrives before the file is old enough to be read.
ASSUME AgesAssumption ==
    /\ WriteAge \in Nat /\ ReadAge \in Nat /\ ExpireAge \in Nat
    /\ MaxStall \in Nat /\ MaxTime \in Nat
    /\ WriteAge + MaxStall < ReadAge /\ ReadAge <= ExpireAge

\* A file is as long as its records together.
ASSUME BytesAssumption ==
    /\ IsFiniteSet(Event) /\ Event # {}
    /\ Bytes \in [SUBSET Event -> Nat]
    /\ Bytes[{}] = 0
    /\ \A S \in SUBSET Event, e \in Event :
          e \notin S => Bytes[S \cup {e}] = Bytes[S] + Bytes[{e}]

ASSUME LimitsAssumption ==
    /\ {MaxTrouble, MaxWrites, MaxEventSize, MaxFileSize, MaxDirSize, MaxBatches, FlushBatches}
          \subseteq Nat
    /\ MaxProbes \in Nat \ {0}
    /\ {MaxBackSteps, MaxFaults, MaxOutages, MaxRestarts} \subseteq Nat
    /\ Faulty \subseteq FileCalls \cup {"torn"}

Consent == {"granted", "pending", "notGranted"}
Dir     == {"granted", "pending"}
Name    == 0 .. (MaxTime + MaxProbes - 1)      \* milliseconds since the epoch

NoFile  == [events |-> {}, torn |-> 0, exists |-> FALSE]
NewFile == [events |-> {}, torn |-> 0, exists |-> TRUE]
File    == [events : SUBSET Event, torn : Nat, exists : BOOLEAN]

\* GetFileSize, of a file that is gone 0.
Size(f) == Bytes[f.events] + f.torn

\* FileDetails: the file last written to in a directory.
NoActive == [open |-> FALSE, name |-> 0, writes |-> 0, bytes |-> 0]

VARIABLES
    now,        \* the system clock
    disk,       \* disk[d][n]: the file named n in directory d
    mode,       \* whether the threads run: see Lifecycle below
    \* storage thread
    wpc,        \* where it is
    given,      \* the consent the application gave last (Core::_tracking_consent)
    consent,    \* BatchWriter::_consent
    active,     \* _active_pending_file and _active_granted_file
    write,      \* the write under way: event, directory, the clock when sampled,
                \* the first name PurgeDirectoryIfNeeded has yet to try, and
                \* (history) what may be done with the event
    wnames,     \* names still to be handled, or known to be taken
    wsizes,     \* the sizes PurgeDirectoryIfNeeded measured
    \* upload thread
    upc,        \* where it is
    unow,       \* the clock at the start of the cycle
    unames,     \* names listed and not yet handled
    batch,      \* the contents read from the current file
    attempted,  \* num_uploads_attempted
    answer,     \* result of the current batch
    \* history
    record,     \* what became of each event on the storage side
    lost,       \* why a stored event was dropped on purpose, if it was, or was
                \* renamed to where it may be dropped by mistake
    received,   \* the events the server received
    acked,      \* how often the upload of each event was answered with success
    spent       \* the budget used of each bounded kind of trouble

vars == <<now, disk, mode, wpc, given, consent, active, write, wnames, wsizes,
          upc, unow, unames, batch, attempted, answer,
          record, lost, received, acked, spent>>
writerVars == <<wpc, given, consent, active, write, wnames, wsizes>>
uploadVars == <<upc, unow, unames, batch, attempted, answer>>

-----------------------------------------------------------------------------
(* The filesystem *)

Files(d) == {n \in Name : disk[d][n].exists}
Pending  == UNION {disk["pending"][n].events : n \in Name}
OnDisk   == UNION {disk[d][n].events : d \in Dir, n \in Name}

Unlink(d, n) == disk' = [disk EXCEPT ![d][n] = NoFile]

\* One more trouble of a kind.
Spend(kind, most) ==
    /\ spent[kind] < most
    /\ spent.faults + spent.outages + spent.back + spent.restarts < MaxTrouble
    /\ spent' = [spent EXCEPT ![kind] = @ + 1]

\* A call of this kind fails for a reason other than a missing file.
Fails(call) ==
    /\ call \in Faulty
    /\ Spend("faults", MaxFaults)

Works == UNCHANGED spent

\* What has happened to an event that is still kept.
Kept == {"no", "adopted"}

\* The events es are given up, for the first reason that applies.
Drop(es, reason) ==
    lost' = [e \in Event |-> IF e \in es /\ lost[e] \in Kept THEN reason ELSE lost[e]]

-----------------------------------------------------------------------------
(* Consent changes, on the storage thread, or on the caller's thread while *)
(* the core is not started.  A new BatchWriter is told the consent the     *)
(* core was created with before anything else (RegisterFeature); after a   *)
(* crash the application creates the core with the consent given last.     *)

\* The events waiting for consent get their verdict with the call.
Judge(verdict) ==
    record' = [e \in Event |-> IF e \in Pending /\ record[e] = "pending"
                               THEN verdict ELSE record[e]]

SetTrackingConsent(v) ==
    /\ mode \in {"running", "down"}
    /\ wpc = "idle"
    /\ v # consent
    /\ mode = "down" => consent = given \/ v = given
    /\ given' = v
    /\ consent' = v
    /\ active' = IF consent = "pending" THEN [active EXCEPT !["pending"] = NoActive]
                                        ELSE active
    /\ wpc' = IF v = "pending" THEN "idle" ELSE "listPending"
    /\ \/ v = "pending" /\ UNCHANGED record
       \/ v = "granted" /\ Judge("granted")
       \/ v = "notGranted" /\ Judge("revoked")
    /\ UNCHANGED <<now, disk, mode, write, wnames, wsizes, uploadVars,
                   lost, received, acked, spent>>

\* ListFiles of the pending directory; a failure ends the operation.
ListPending ==
    /\ wpc = "listPending"
    /\ \/ Works /\ wnames' = Files("pending") /\ wpc' = "resolve"
       \/ Fails("list") /\ wpc' = "idle" /\ UNCHANGED wnames
    /\ UNCHANGED <<now, disk, mode, given, consent, active, write, wsizes, uploadVars,
                   record, lost, received, acked>>

\* One iteration of DeletePendingBatches.
DeletePending ==
    /\ wpc = "resolve" /\ consent = "notGranted" /\ wnames # {}
    /\ LET n == Min(wnames) IN
       \/ /\ Works                                   \* deleted, or already gone
          /\ Unlink("pending", n)
          /\ Drop(disk["pending"][n].events, "revoked")
          /\ wnames' = wnames \ {n}
          /\ UNCHANGED wpc
       \/ /\ disk["pending"][n].exists               \* give up on the rest, too
          /\ Fails("delete")
          /\ wpc' = "idle"
          /\ wnames' = {}
          /\ UNCHANGED <<disk, lost>>
    /\ UNCHANGED <<now, mode, given, consent, active, write, wsizes, uploadVars,
                   record, received, acked>>

\* The upload thread has read, or sends, the granted file of this name.
BeingRead(n) == upc \in {"post", "delete"} /\ n = Min(unames)

\* The storage thread would append to a granted file of this name.
IsActive(n) == active["granted"].open /\ active["granted"].name = n

\* History: events es get a name that either thread takes for another file, one
\* that was there when it last looked.
Renamed(n, es) ==
    \/ BeingRead(n) /\ Drop(es, "overtaken")
    \/ ~BeingRead(n) /\ IsActive(n) /\ Drop(es, "adopted")
    \/ ~BeingRead(n) /\ ~IsActive(n) /\ UNCHANGED lost

\* One iteration of MigratePendingBatchesToGranted: rename without replacing.
MigratePending ==
    /\ wpc = "resolve" /\ consent = "granted" /\ wnames # {}
    /\ LET n    == Min(wnames)
           src  == disk["pending"][n]
           skip == wnames' = wnames \ {n} /\ UNCHANGED wpc IN
       \/ /\ ~src.exists                             \* evicted meanwhile
          /\ Works
          /\ skip
          /\ UNCHANGED <<disk, lost>>
       \/ /\ src.exists /\ ~disk["granted"][n].exists
          /\ Works
          /\ disk' = [disk EXCEPT !["pending"][n] = NoFile, !["granted"][n] = src]
          /\ Renamed(n, src.events)
          /\ skip
       \/ /\ src.exists /\ disk["granted"][n].exists \* AlreadyExists
          /\ \/ Works /\ Unlink("pending", n) /\ Drop(src.events, "conflict")
             \/ Fails("delete") /\ UNCHANGED <<disk, lost>>
          /\ skip
       \/ /\ src.exists
          /\ Fails("rename")
          /\ wpc' = "idle"
          /\ wnames' = {}
          /\ UNCHANGED <<disk, lost>>
    /\ UNCHANGED <<now, mode, given, consent, active, write, wsizes, uploadVars,
                   record, received, acked>>

\* Every listed file is handled.
ConsentDone ==
    /\ wpc = "resolve" /\ wnames = {}
    /\ wpc' = "idle"
    /\ UNCHANGED <<now, disk, mode, given, consent, active, write, wnames, wsizes,
                   uploadVars, record, lost, received, acked, spent>>

-----------------------------------------------------------------------------
(* Event writes, on the storage thread *)

\* Mutants of CanReuse: the age is not checked; the length is compared before
\* the record is added.
CanReuseAtAnyAge(f, t, e) ==
    f.open /\ f.writes < MaxWrites /\ f.bytes + Bytes[{e}] <= MaxFileSize
CanReuseBeforeAdding(f, t, e) ==
    /\ f.open /\ t <= f.name + WriteAge
    /\ f.writes < MaxWrites /\ f.bytes <= MaxFileSize

\* CanReuseFileForNextWrite: file f for event e at time t.
CanReuse(f, t, e) ==
    /\ f.open
    /\ t <= f.name + WriteAge               \* a file from the future is young
    /\ f.writes < MaxWrites
    /\ f.bytes + Bytes[{e}] <= MaxFileSize

\* The event is dropped with an error; the storage thread goes on.
DropEvent(e) ==
    /\ record' = [record EXCEPT ![e] = "dropped"]
    /\ wpc' = "idle"

\* Mutant of TargetDir: a refused event is kept like a pending one.
TargetDirIgnoringRefusal(bypass) ==
    IF bypass \/ consent = "granted" THEN "granted" ELSE "pending"

\* Where HandleWrite puts an event; "notGranted" is nowhere.
TargetDir(bypass) == IF bypass THEN "granted" ELSE consent

\* History: what may be done with an event that is handled now.
Standing(bypass) == IF bypass THEN "granted"
                    ELSE IF consent = "notGranted" THEN "refused" ELSE consent

TooLarge(e) == MaxWrites = 0 \/ Bytes[{e}] > Min({MaxEventSize, MaxFileSize})

\* HandleWrite, up to the first filesystem call.
HandleWrite(e, bypass) ==
    /\ mode = "running"
    /\ wpc = "idle"
    /\ record[e] = "new"
    /\ LET d == TargetDir(bypass) IN
       \/ /\ d = "notGranted"
          /\ record' = [record EXCEPT ![e] = "refused"]
          /\ UNCHANGED <<wpc, write>>
       \/ /\ d # "notGranted"
          /\ TooLarge(e)
          /\ DropEvent(e)
          /\ UNCHANGED write
       \/ /\ d # "notGranted"
          /\ ~TooLarge(e)
          /\ record' = [record EXCEPT ![e] = "writing"]
          /\ write' = [event |-> e, dir |-> d, time |-> now, next |-> 0,
                       standing |-> Standing(bypass)]
          /\ wpc' = IF CanReuse(active[d], now, e) THEN "open" ELSE "list"
    /\ UNCHANGED <<now, disk, mode, given, consent, active, wnames, wsizes, uploadVars,
                   lost, received, acked, spent>>

Deactivate(d) == active' = [active EXCEPT ![d] = NoActive]

\* CacheKnownFilenames.
ListForWrite ==
    /\ wpc = "list"
    /\ \/ /\ Works
          /\ wnames' = Files(write.dir)
          /\ wpc' = "measure"
          /\ UNCHANGED <<active, record>>
       \/ /\ Fails("list")
          /\ Deactivate(write.dir)
          /\ DropEvent(write.event)
          /\ UNCHANGED wnames
    /\ UNCHANGED <<now, disk, mode, given, consent, write, wsizes, uploadVars,
                   lost, received, acked>>

\* The GetFileSize calls for the names listed.
MeasureDirectory ==
    /\ wpc = "measure"
    /\ wsizes' = [n \in Name |-> IF n \in wnames THEN Size(disk[write.dir][n]) ELSE 0]
    /\ wpc' = "purge"
    /\ UNCHANGED <<now, disk, mode, given, consent, active, write, wnames, uploadVars,
                   record, lost, received, acked, spent>>

SizeOnDisk == MapThenSumSet(LAMBDA n : wsizes[n], Name)

\* The running total of PurgeDirectoryIfNeeded is too large.  A file whose
\* deletion failed still counts.
OverQuota == SizeOnDisk > MaxDirSize

\* The files the loop has not tried yet; those below could not be deleted.
Untried == {n \in wnames : n >= write.next}

PurgeOldest ==
    /\ wpc = "purge"
    /\ OverQuota /\ Untried # {}
    /\ LET n == Min(Untried) IN
       \/ /\ Works                                   \* deleted, or already gone
          /\ Unlink(write.dir, n)
          /\ Drop(disk[write.dir][n].events, "purged")
          /\ wnames' = wnames \ {n}
          /\ wsizes' = [wsizes EXCEPT ![n] = 0]
          /\ UNCHANGED write
       \/ /\ disk[write.dir][n].exists
          /\ Fails("delete")
          /\ write' = [write EXCEPT !.next = n + 1]
          /\ UNCHANGED <<disk, lost, wnames, wsizes>>
    /\ UNCHANGED <<now, mode, wpc, given, consent, active, uploadVars, record, received, acked>>

\* The names GetFilenameForNextWrite tries.
ProbedNames == write.time .. write.time + MaxProbes - 1

\* GetFilenameForNextWrite and FileDetails::Reset.
NameFile ==
    /\ wpc = "purge"
    /\ ~(OverQuota /\ Untried # {})
    /\ LET free == ProbedNames \ wnames IN
       \/ /\ free = {}
          /\ Deactivate(write.dir)
          /\ DropEvent(write.event)
       \/ /\ free # {}
          /\ active' = [active EXCEPT ![write.dir] =
                          [open |-> TRUE, name |-> Min(free), writes |-> 0, bytes |-> 0]]
          /\ wpc' = "open"
          /\ UNCHANGED record
    /\ wnames' = {}
    /\ wsizes' = [n \in Name |-> 0]
    /\ UNCHANGED <<now, disk, mode, given, consent, write, uploadVars,
                   lost, received, acked, spent>>

\* OpenForWrite to append, creating the file when it is not there.
OpenForWrite ==
    /\ wpc = "open"
    /\ LET n == active[write.dir].name IN
       \/ /\ Works
          /\ disk' = [disk EXCEPT ![write.dir][n] = IF @.exists THEN @ ELSE NewFile]
          /\ wpc' = "write"
          /\ UNCHANGED record
       \/ /\ Fails("open")
          /\ DropEvent(write.event)
          /\ UNCHANGED disk
    /\ UNCHANGED <<now, mode, given, consent, active, write, wnames, wsizes, uploadVars,
                   lost, received, acked>>

\* File::Write of the whole record, and the bookkeeping after it.  If the file
\* was unlinked since it was opened, the record goes to no directory.  A write()
\* that fails may come after others that wrote the first k bytes of the record:
\* they stay in the file, and num_bytes_written does not count them.
WriteEvent ==
    /\ wpc = "write"
    /\ LET d == write.dir
           e == write.event
           n == active[d].name IN
       \/ /\ Works
          /\ disk' = IF disk[d][n].exists
                     THEN [disk EXCEPT ![d][n].events = @ \cup {e}] ELSE disk
          /\ active' = [active EXCEPT ![d].writes = @ + 1, ![d].bytes = @ + Bytes[{e}]]
          /\ record' = [record EXCEPT ![e] = write.standing]
          /\ wpc' = "idle"
       \/ /\ Fails("write")
          /\ DropEvent(e)
          /\ UNCHANGED <<disk, active>>
       \/ /\ Fails("torn")
          /\ \E k \in 1 .. Bytes[{e}] - 1 :
                disk' = IF disk[d][n].exists
                        THEN [disk EXCEPT ![d][n].torn = @ + k] ELSE disk
          /\ DropEvent(e)
          /\ UNCHANGED active
    /\ UNCHANGED <<now, mode, given, consent, write, wnames, wsizes, uploadVars,
                   lost, received, acked>>

-----------------------------------------------------------------------------
(* Upload cycles, on the upload thread *)

\* batch_file_age: a file from the future has age zero.
Age(n)     == IF n < unow THEN unow - n ELSE 0

\* Mutant of MinAge: the writer's cutoff, without the margin between the two.
MinAgeWithoutMargin == IF mode = "flushing" THEN 0 ELSE WriteAge

MinAge     == IF mode = "flushing" THEN 0 ELSE ReadAge
AllYounger(limit) == unames # {} => Age(Min(unames)) < limit
BatchLimit == IF mode = "flushing" THEN FlushBatches ELSE MaxBatches

BeginCycle ==
    /\ upc' = "listStale"
    /\ unow' = now
    /\ attempted' = 0

\* Back to the scheduler, or, from the last cycle of Stop(), to its caller.
EndCycle ==
    /\ upc' = "idle"
    /\ unow' = 0
    /\ unames' = {}
    /\ batch' = NoFile
    /\ attempted' = 0
    /\ answer' = "none"
    /\ mode' = IF mode = "flushing" THEN "down" ELSE mode

StartCycle ==
    /\ upc = "idle"
    /\ mode \in {"running", "joined"}
    /\ BeginCycle
    /\ UNCHANGED <<now, disk, mode, writerVars, unames, batch, answer,
                   record, lost, received, acked, spent>>

\* The listing of the pending directory; if it fails, nothing is evicted.
ListStale ==
    /\ upc = "listStale"
    /\ \/ Works /\ unames' = Files("pending") /\ upc' = "evict"
       \/ Fails("list") /\ upc' = "listReady" /\ UNCHANGED unames
    /\ UNCHANGED <<now, disk, mode, writerVars, unow, batch, attempted, answer,
                   record, lost, received, acked>>

\* Delete the oldest listed file, which has expired.  The file may be gone; a
\* failure is only logged.
DeleteExpired(d) ==
    LET n == Min(unames) IN
    /\ unames # {}
    /\ Age(n) >= ExpireAge
    /\ \/ Works /\ Unlink(d, n) /\ Drop(disk[d][n].events, "expired")
       \/ disk[d][n].exists /\ Fails("delete") /\ UNCHANGED <<disk, lost>>
    /\ unames' = unames \ {n}

EvictStale ==
    /\ upc = "evict"
    /\ DeleteExpired("pending")
    /\ UNCHANGED <<now, mode, writerVars, upc, unow, batch, attempted, answer,
                   record, received, acked>>

EvictDone ==
    /\ upc = "evict"
    /\ AllYounger(ExpireAge)
    /\ upc' = "listReady"
    /\ unames' = {}
    /\ UNCHANGED <<now, disk, mode, writerVars, unow, batch, attempted, answer,
                   record, lost, received, acked, spent>>

\* The listing of the granted directory; if it fails, the cycle is over.
ListReady ==
    /\ upc = "listReady"
    /\ \/ /\ Works
          /\ unames' = Files("granted")
          /\ upc' = "scan"
          /\ UNCHANGED <<mode, unow, batch, attempted, answer>>
       \/ Fails("list") /\ EndCycle
    /\ UNCHANGED <<now, disk, writerVars, record, lost, received, acked>>

DiscardExpired ==
    /\ upc = "scan"
    /\ unames # {} /\ Age(Min(unames)) >= MinAge
    /\ DeleteExpired("granted")
    /\ UNCHANGED <<now, mode, writerVars, upc, unow, batch, attempted, answer,
                   record, received, acked>>

\* Nothing is left to read, or the oldest file is still the storage thread's.
ScanDone ==
    /\ upc = "scan"
    /\ AllYounger(MinAge)
    /\ EndCycle
    /\ UNCHANGED <<now, disk, writerVars, record, lost, received, acked, spent>>

\* OpenForRead of the oldest file.  The batch is read while the request is
\* sent; a record appended meanwhile is as good as appended before.
ReadBatch ==
    /\ upc = "scan"
    /\ unames # {}
    /\ LET n == Min(unames) IN
       /\ MinAge <= Age(n) /\ Age(n) < ExpireAge
       /\ \/ /\ ~disk["granted"][n].exists            \* purged: a bad batch
             /\ Works
             /\ answer' = "bad"
             /\ upc' = "delete"
             /\ attempted' = attempted + 1
             /\ UNCHANGED <<mode, unow, unames, batch>>
          \/ /\ disk["granted"][n].exists
             /\ Works
             /\ batch' = disk["granted"][n]
             /\ upc' = "post"
             /\ attempted' = attempted + 1
             /\ UNCHANGED <<mode, unow, unames, answer>>
          \/ /\ disk["granted"][n].exists             \* a retryable failure
             /\ Fails("open")
             /\ EndCycle
    /\ UNCHANGED <<now, disk, writerVars, record, lost, received, acked>>

\* The request is not answered as hoped.
Outage ==
    /\ Spend("outages", MaxOutages)

Answered(a) == answer' = a /\ upc' = "delete" /\ UNCHANGED <<mode, unow, unames, batch, attempted>>

Post ==
    /\ upc = "post"
    \* The body writer aborts on a malformed record and on an empty file.
    /\ \/ /\ batch.torn > 0 \/ batch.events = {}
          /\ Works
          /\ Answered("bad")
          /\ UNCHANGED <<received, acked>>
       \/ /\ batch.torn = 0 /\ batch.events # {}
          /\ \/ /\ Works                               \* a 2xx response
                /\ received' = received \cup batch.events
                /\ acked' = [e \in Event |-> IF e \in batch.events /\ acked[e] < 2
                                             THEN acked[e] + 1 ELSE acked[e]]
                /\ Answered("success")
             \/ /\ Outage                              \* a rejection
                /\ Answered("bad")
                /\ UNCHANGED <<received, acked>>
             \/ /\ Outage                              \* a retryable failure, after
                /\ received' \in {received, received \cup batch.events}   \* which the
                /\ EndCycle                            \* server may have the batch
                /\ UNCHANGED acked
    /\ UNCHANGED <<now, disk, writerVars, record, lost>>

\* Mutant of ConsumeBatch: an uploaded batch stays.
ConsumeBadBatch(n) ==
    IF answer = "bad" THEN Unlink("granted", n) /\ Drop(batch.events, "rejected")
                      ELSE UNCHANGED <<disk, lost>>

\* The batch was uploaded, or nobody will take it: delete its file.
ConsumeBatch(n) ==
    /\ Unlink("granted", n)
    /\ \/ answer = "success" /\ UNCHANGED lost
       \/ answer = "bad" /\ Drop(batch.events,
                                 IF batch.torn > 0 THEN "corrupt" ELSE "rejected")

\* Delete the batch and go on, unless the cycle has reached its limit.
DeleteBatch ==
    /\ upc = "delete"
    /\ LET n == Min(unames) IN
       /\ \/ Works /\ ConsumeBatch(n)
          \/ /\ disk["granted"][n].exists
             /\ Fails("delete")
             /\ UNCHANGED <<disk, lost>>
       /\ \/ attempted >= BatchLimit /\ EndCycle
          \/ /\ attempted < BatchLimit
             /\ unames' = unames \ {n}
             /\ upc' = "scan"
             /\ batch' = NoFile
             /\ answer' = "none"
             /\ UNCHANGED <<mode, unow, attempted>>
    /\ UNCHANGED <<now, writerVars, record, received, acked>>

-----------------------------------------------------------------------------
(***************************************************************************)
(* Lifecycle.  "down": the core is not started, or the process is not      *)
(* there; "running": both threads run; "joined": Core::Stop() has joined   *)
(* the storage thread, the upload thread may still be in a cycle;          *)
(* "flushing": Stop() has joined it, too, and runs the last cycle itself.  *)
(***************************************************************************)

Start ==
    /\ mode = "down" /\ wpc = "idle"
    /\ consent = given
    /\ mode' = "running"
    /\ UNCHANGED <<now, disk, writerVars, uploadVars, record, lost, received, acked, spent>>

Interrupt ==
    /\ Spend("restarts", MaxRestarts)

\* Mutant of JoinStorage: the storage thread is not waited for.
JoinStorageEarly ==
    /\ mode = "running"
    /\ Interrupt
    /\ mode' = "joined"
    /\ UNCHANGED <<now, disk, writerVars, uploadVars, record, lost, received, acked>>

\* The storage queue is drained and its thread joined.
JoinStorage ==
    /\ mode = "running" /\ wpc = "idle"
    /\ Interrupt
    /\ mode' = "joined"
    /\ UNCHANGED <<now, disk, writerVars, uploadVars, record, lost, received, acked>>

\* The upload thread is joined between two cycles.
JoinUpload ==
    /\ mode = "joined" /\ upc = "idle"
    /\ \/ FlushBatches = 0 /\ mode' = "down" /\ UNCHANGED <<upc, unow, attempted>>
       \/ FlushBatches > 0 /\ mode' = "flushing" /\ BeginCycle
    /\ UNCHANGED <<now, disk, writerVars, unames, batch, answer,
                   record, lost, received, acked, spent>>

\* The process dies; memory is lost, files stay.  The next BatchWriter starts
\* from pending consent and no active files.
Crash ==
    /\ Interrupt
    /\ mode' = "down"
    /\ wpc' = "idle"
    /\ consent' = "pending"
    /\ active' = [d \in Dir |-> NoActive]
    /\ wnames' = {}
    /\ wsizes' = [n \in Name |-> 0]
    /\ upc' = "idle" /\ unow' = 0 /\ unames' = {} /\ batch' = NoFile
    /\ attempted' = 0 /\ answer' = "none"
    /\ record' = [e \in Event |-> IF record[e] = "writing" THEN "dropped" ELSE record[e]]
    /\ UNCHANGED <<now, disk, given, write, lost, received, acked>>

-----------------------------------------------------------------------------
(* Time *)

Writing == wpc \in {"list", "measure", "purge", "open", "write"}

\* The storage thread writes an event at most MaxStall after it looked at the
\* clock; the upload thread may take any time over a cycle.
Tick ==
    /\ now < MaxTime
    /\ Writing => now < write.time + MaxStall
    /\ now' = now + 1
    /\ UNCHANGED <<disk, mode, writerVars, uploadVars, record, lost, received, acked, spent>>

\* The clock is std::chrono::system_clock, which may be set back.
SetClockBack ==
    /\ Spend("back", MaxBackSteps)
    /\ \E t \in 0 .. MaxTime : t < now /\ now' = t
    /\ UNCHANGED <<disk, mode, writerVars, uploadVars, record, lost, received, acked>>

-----------------------------------------------------------------------------

Init ==
    /\ now = 0
    /\ disk = [d \in Dir |-> [n \in Name |-> NoFile]]
    /\ mode = "down"
    /\ wpc = "idle"
    /\ given = "pending" /\ consent = "pending"
    /\ active = [d \in Dir |-> NoActive]
    /\ write = [event |-> CHOOSE e \in Event : TRUE, dir |-> "pending", time |-> 0, next |-> 0,
                standing |-> "pending"]
    /\ wnames = {}
    /\ wsizes = [n \in Name |-> 0]
    /\ upc = "idle" /\ unow = 0 /\ unames = {} /\ batch = NoFile
    /\ attempted = 0 /\ answer = "none"
    /\ record = [e \in Event |-> "new"]
    /\ lost = [e \in Event |-> "no"]
    /\ received = {}
    /\ acked = [e \in Event |-> 0]
    /\ spent = [faults |-> 0, outages |-> 0, back |-> 0, restarts |-> 0]

StorageStep ==
    \/ \E v \in Consent : SetTrackingConsent(v)
    \/ \E e \in Event, bypass \in BOOLEAN : HandleWrite(e, bypass)
    \/ ListPending \/ DeletePending \/ MigratePending \/ ConsentDone
    \/ ListForWrite \/ MeasureDirectory \/ PurgeOldest \/ NameFile
    \/ OpenForWrite \/ WriteEvent

UploadStep ==
    \/ StartCycle \/ ListStale \/ EvictStale \/ EvictDone \/ ListReady
    \/ DiscardExpired \/ ScanDone \/ ReadBatch \/ Post \/ DeleteBatch

LifecycleStep == Start \/ JoinStorage \/ JoinUpload \/ Crash

Next == StorageStep \/ UploadStep \/ LifecycleStep \/ Tick \/ SetClockBack

Spec == Init /\ [][Next]_vars

-----------------------------------------------------------------------------
(* Properties *)

Record == {"new", "writing", "refused", "dropped", "pending", "granted", "revoked"}
Reason == {"no", "revoked", "conflict", "purged", "expired", "rejected", "corrupt",
           "overtaken", "adopted"}

TypeOK ==
    /\ now \in 0 .. MaxTime
    /\ disk \in [Dir -> [Name -> File]]
    /\ mode \in {"down", "running", "joined", "flushing"}
    /\ wpc \in {"idle", "listPending", "resolve", "list", "measure", "purge", "open", "write"}
    /\ given \in Consent /\ consent \in Consent
    /\ active \in [Dir -> [open : BOOLEAN, name : Name, writes : Nat, bytes : Nat]]
    /\ write \in [event : Event, dir : Dir, time : 0 .. MaxTime, next : Nat,
                standing : {"pending", "granted", "refused"}]
    /\ wnames \in SUBSET Name
    /\ wsizes \in [Name -> Nat]
    /\ upc \in {"idle", "listStale", "evict", "listReady", "scan", "post", "delete"}
    /\ unow \in 0 .. MaxTime
    /\ unames \in SUBSET Name
    /\ batch \in File
    /\ attempted \in Nat
    /\ answer \in {"none", "success", "bad"}
    /\ record \in [Event -> Record]
    /\ lost \in [Event -> Reason]
    /\ received \in SUBSET Event
    /\ acked \in [Event -> 0 .. 2]
    /\ spent \in [faults : Nat, outages : Nat, back : Nat, restarts : Nat]

\* The age limits are worth what the system clock is worth.
ClockTrusted == spent.back = 0

\* The server receives no event that was recorded without consent, and none
\* whose consent was still pending when the user refused it.
ConsentRespected == \A e \in received : record[e] = "granted"

\* A revocation may be cut short by a call that fails (see ConsentRespected in
\* that case); by nothing else: stops, crashes, outages and a clock set back
\* leave no event that was refused for a later grant.
ConsentKept == spent.faults = 0 => ConsentRespected

\* An event whose write was reported a success stays on disk until the server
\* has confirmed it or a rule of the storage drops it: neither thread loses it
\* to the other, to a restart or to a failed call.  The exception is an event
\* that a grant of consent renames to the name of a batch under way, whose file
\* was purged meanwhile: it goes with that batch, unread.
NoSilentLoss ==
    \A e \in Event :
        ClockTrusted /\ record[e] \in {"pending", "granted", "revoked"} =>
            e \in OnDisk \/ acked[e] > 0 \/ lost[e] \notin Kept

\* While the storage thread has a file open or is about to open it, the upload
\* cycle under way, if there is one, holds that file too young to touch.
TimeSeparation ==
    ClockTrusted /\ wpc \in {"open", "write"} /\ upc # "idle" =>
        /\ mode = "running"
        /\ unow < active[write.dir].name + ReadAge

\* The upload thread deletes a batch because it was processed or is malformed
\* (the comment in _run_upload_cycle): whatever is in the file it deletes then,
\* it has read, with the same exception.
DeletesOnlyRead ==
    [][ClockTrusted /\ upc = "delete" /\ ~disk'["granted"][Min(unames)].exists
         => \A e \in disk["granted"][Min(unames)].events :
               e \in batch.events \/ lost[e] = "overtaken"]_vars

\* What the file on disk may have over max_file_size: the bytes a write left there
\* when it failed half-way, which CanReuse knows nothing of.
Excess(f) == IF f.torn = 0 THEN 0 ELSE spent.faults * MaxEventSize

WithinLimits(f) ==
    Cardinality(f.events) <= MaxWrites /\ Size(f) <= MaxFileSize + Excess(f)

\* No file on disk outgrows max_file_size and max_writes_per_file, whatever was
\* retried or restarted, but for less than one record per call that failed in a
\* file a write was cut short in, and for a file that a grant of consent renamed
\* to the name of an active file that is gone.
BatchLimits ==
    \A d \in Dir, n \in Name :
        \/ WithinLimits(disk[d][n])
        \/ d = "granted" /\ \E e \in disk[d][n].events : lost[e] \in {"adopted", "overtaken"}

DirectoryBytes(d) == MapThenSumSet(LAMBDA n : Size(disk[d][n]), Files(d))

\* The quota of the pending directory is overrun by at most one file (the note
\* in PurgeDirectoryIfNeeded), as long as files can be listed and deleted.
PendingQuota ==
    spent.faults = 0 => DirectoryBytes("pending") <= MaxDirSize + MaxFileSize

\* Whatever fails, stops or is cut short, files keep in the bounds BatchLimits
\* gives them, and in the hands of one thread at a time.
FilesInOrder == TypeOK /\ BatchLimits /\ TimeSeparation

\* An event the server has confirmed is not uploaded again, unless a crash or
\* a failed call comes between the confirmation and the delete of its file.
ConfirmedOnce == spent.faults + spent.restarts = 0 => \A e \in Event : acked[e] <= 1
=============================================================================
