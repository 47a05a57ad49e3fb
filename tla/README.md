# Verification of the Datadog C++ SDK

TLA+ modules for the SDK's own logic (`src/datadog/impl`): its threads and the queues between
them, the files that threads and processes share, RUM's scopes, profiling, crash reporting, and
the pure functions that make requests, JSON and crash reports. TLC checks each module on a small
instance; TLAPS proves the most important safety properties of eight of them for every instance.

Paths are relative to the repository's `src/datadog/impl`; those that begin with `include-cpp` or
`include-c` are relative to the repository.

## 1. The system

The application creates a `Core`, registers features (RUM, Logging, Crash Reporting,
Profiling), starts it and calls the features' APIs from its own threads. A running core has
four threads of its own:

    API threads --> context queue --> context thread --> storage queue --> storage thread --> batch files
                         ^                 |                  ^                                   |
                         |                 v                  |                                   v
                         +-- messaging <-- message bus     SetTrackingConsent              upload thread --> intake
                              thread                       (main thread)

| Component | State | Operations | Interacts by | Hard because | Correct when |
|---|---|---|---|---|---|
| Work queue, `core/queue.hpp` | items, mutex, condition variable, stop flag | Push, Pop, Stop | everything asynchronous | the stop flag is set outside the mutex; several producers | FIFO, exactly once, drains before it ends, no lost wake-up |
| Batch storage, `core/storage_write.cpp`, `core/storage/feature_event.cpp` | two directories of files, the active file of each, the consent | HandleWrite, SetTrackingConsent, migration, purge | the file system, with the upload thread | no lock: time keeps the threads apart; any call may fail; the process may die | nothing recorded is lost silently, nothing without consent is uploaded, limits hold |
| Upload cycle, `core/upload_thread.cpp` | the listing and the batch of one cycle | evict, list, read, post, delete | the same files; HTTP | stale listings, answers lost after the server took the batch | deletes only what it read, confirms once |
| Upload scheduler, `core/upload_scheduler.cpp` | priority queue of features, delays, stop flag | Schedule, WaitForNext, Stop | one thread serves every feature | a sleep that must be interruptible, spurious wake-ups, backoff | punctual, never early, Stop() ends it |
| Core, `core/core.cpp` | lifecycle state, threads, queues, consent, `CoreContext` | Start, Stop, SetTrackingConsent, UpdateContext | owns everything | start and stop order; copies of one value in several threads | nothing accepted is lost by Stop(), copies agree at rest |
| Messages and scopes, `core/message_bus.cpp`, `messaging_thread.cpp`, `feature_scope.cpp` | the bus, the handlers, a scope per feature | Send, handlers, ExecuteOnContextThread, UpdateContext | closures with bare pointers | lifetimes are kept only by the order of joins | work never outlives the scope it uses |
| Storage root, `core/storage/sdk.cpp` | a directory and a lock file per process | create, lock, find abandoned, migrate | other processes | several processes; a process may die anywhere | one owner per directory, abandoned data moved once |
| Batches and requests, `core/tlv.cpp`, `core/feature_read.cpp`, `core/http` | a file's bytes, the position in it | encode, validate, stream as JSON, headers | upload cycle, HTTP clients | truncated files, buffers of any size | a reader takes exactly what a writer completed |
| RUM, `rum/` | application, session, view, action, resource scopes | commands; session and action timeouts | context thread only; messages out | nested scopes that outlive each other, time | every event counted once, in the view the user is on |
| Crash reporting, `crash_reporting/`, `crash_processing/` | report and context files with their locks | process reports, keep the context current, report | bus, context thread, other processes | work that spans processes that may die | a crash is reported once, with its own context |
| Crash handlers, `crash_reporting/handlers/` | signal handlers, masks, one report file | install, handle, shut down | the kernel, other handlers | nested and concurrent faults, no allocation | one ordered report; others hear of the crash |
| Logging, `logging/` | loggers, global attributes, tags | Log, AddTag, RemoveTag | context work, message to RUM | attributes copied under a lock, queued after it | a log carries the state at its call |
| Profiling, `profiling/` | profiler state, pending RUM operations | start, stop, flush, consent changes | bus, context thread, profiler thread | start and stop race consent; a bounded tracker | runs only under a granted consent, names each event once |
| Attributes, `types/attribute` | cells with reference counts | copy, modify, release | threads share cells | only the count is atomic | a value changes only for its owner, nothing leaks |
| JSON and event types, `types/` | text | encode, scan, decode, edit | requests, crash reports | buffers of fixed size, escapes | what is written is read back |
| File system, HTTP transfer, clock, system information, bindings | - | - | - | I/O and forwarding | - |

`PROJECT.json` lists every component with its sources and its status, and every hazard with
the properties that would notice it going wrong.

## 2. Modules

### State machines

| Module | Models | Runs | Proofs |
|---|---|---|---|
| `ClosableFifo` | abstract: what a work queue promises | (through `queue`) | - |
| `EventQueue` | `Queue<T>`: every lock, flag test, wait and notification a step | `queue` | `EventQueue_proofs` |
| `BatchStorage`, `MCBatchStorage` | the batch files of a feature, the storage thread, the upload cycle, stop, crash and restart | `storage` | `BatchStorage_proofs` |
| `UploadSchedule` | upload scheduler, thread loop, backoff, Start() and Stop() | `schedule` | `UploadSchedule_proofs` |
| `CorePipeline`, `MCCorePipeline` | Start(), Stop(), SetTrackingConsent(), the three queues and their threads, scopes, messages, logs, RUM commands, one crash report | `pipeline`, `lost_report` | `CorePipeline_proofs` |
| `ProcessDirs`, `MCProcessDirs` | the storage root: directories, locks and migration of several processes | `dirs` | `ProcessDirs_proofs` |
| `RumViews`, `RumScopes`, `MCRumScopes` | what a view makes of a command; application, session and the array of views above it | `rum` | `Rum_proofs` |
| `CrashEvents`, `RumCrashes` | which events are made of a crash, and RUM followed by a crash at any point | `rum` | `Rum_proofs` |
| `RumEventTracker`, `Profiling`, `MCProfiling` | the tracker of RUM events, and the profiler under it with its messages | `profiling` | `Profiling_proofs` |
| `CrashFiles`, `MCCrashFiles` | the crash files of several processes: locks, reading, deleting, dying | `crash`, `crash_twice` | `CrashFiles_proofs` |
| `CrashSignals` | the signal handlers of one process: faults inside the handler, masks, chaining | `eaten_signal` | `CrashFiles_proofs` |
| `CowAttributes`, `MCCowAttributes` | attributes that share cells, on several threads | `attributes` | `Rum_proofs` |

How they fit. `EventQueue` shows that the queue is a closable FIFO; `CorePipeline` uses closable
FIFOs for its three queues. `CorePipeline` ends where an event is handed to the `BatchWriter`;
`BatchStorage` begins there, for one process and one feature, and `ProcessDirs` is about whose
directory it is. `BatchStorage` lets an upload cycle begin at any time; `UploadSchedule` says when
it begins and takes the cycle as a duration and a result. `RumScopes` is what the context thread
does with the commands that `CorePipeline` carries; `Profiling` and `RumCrashes` start
from what it tells the other features. `CrashSignals` fills the file that `CrashFiles` moves
between processes; `CrashReports` and `CrashContexts` say what is in it.

### Operators

Pure functions are operators, checked over bounded inputs by an `ASSUME` in an MC module, which TLC
evaluates at the start of the run that is named:

| Module | Models | Checked by | With run |
|---|---|---|---|
| `BatchBody` | TLV blocks, the reader, the body streamed into buffers of any size, what becomes of a file after it | `MCBatchStorage` | `storage` |
| `HttpRequests` | user agent, URL and headers as text; the chunks of WinHTTP and its results | `MCBatchStorage` | `storage` |
| `CrashContexts` | the binary crash context, written and read back, of this release and an older one | `MCCrashFiles` | `crash` |
| `CrashReports` | build ids, stack walk, the report written and read back, symbolication | `MCCrashFiles` | `crash` |
| `JsonText` | attributes to JSON, the scanner, the decoder | `MCJsonText` | `attributes` |
| `StructJson`, `RumSchema` | structs with omissible members, encoders for buffers of a fixed size; the members of RUM events | `MCStructJson` | `profiling` |
| `ViewEvents` | the last view event parsed, edited and cut as text | `MCViewEvents` | `profiling` |
| `CrashAnnotations` | the context as annotations of a Crashpad crash | `MCCrashAnnotations` | `profiling` |
| `LoggerTags` | the tags of a logger as one text | `MCEventContents` | `pipeline` |
| `EventContents` | which attributes, user, account and device data each event and crash carries | `MCEventContents` | `pipeline` |

### EventQueue

A thread's program counter stands before its next lock, test or wait. `PushLock`, `PushReject`,
`PushAdmit` and `PushAppend` are `Push()`; the flag is read and the item appended in two steps
because `Stop()` sets the flag (`StopStore`) before it takes the mutex (`StopLock`). `PopLock`,
`PopTest`, `PopSleep`, `PopItem`, `PopNothing` and `PopSpurious` are `Pop()`, run in the loop of
`ContextThreadMain`. A condition variable is the set of threads asleep on it; `notify_one` wakes
any of them. `accepted` and `taken` are history. `ImplementsFifo` is the refinement of
`ClosableFifo`: a `Push()` takes effect when it finds the flag clear.

### BatchStorage

A step is what a thread does up to its next filesystem call or HTTP request. `disk` maps each
directory and name to the set of events in the file's whole records; `torn` is how many bytes of
truncated records are there besides (`Size` has both, the writer's own count only the events). A file's name is the time of its creation, as in the code. The storage thread's control is
`wpc`: `HandleWrite` samples the clock and decides between reuse and a new file, `ListForWrite`,
`MeasureDirectory`, `PurgeOldest` and `NameFile` prepare one, `OpenForWrite` and `WriteEvent` end
the write. `SetTrackingConsent` with `ListPending`, `DeletePending`, `MigratePending` and
`ConsentDone` is a consent change. The upload thread's control is `upc`: `StartCycle`, `ListStale`,
`EvictStale`, `ListReady`, `DiscardExpired`, `ReadBatch`, `Post`, `DeleteBatch`. `JoinStorage` and
`JoinUpload` are the part of `Core::Stop()` both see, with the final flush; `Crash` loses the
memory and keeps the disk. `record` and `lost` are history: how the write of an event was
accepted, and which rule of the storage dropped it.

`MaxStall` is an assumption on the machine: from the clock sample to the write of an event passes
at most that much time. The code has nothing to enforce it; the gap between the age to which a
file is written and the age from which it is read covers it.

Two things that the code lets happen are named in `lost`, and excepted from the properties that
they would break. `overtaken`: a migration puts a pending file under the name of a batch that is
being uploaded, and the upload deletes it unread. `adopted`: the final flush finished a
file that the storage thread, started again, still takes for its active one and appends to, past
its limits.

### UploadSchedule

Times are relative to now. `Top`, `TakeDue`, `FallAsleep`, `Retest`, `TimeOut` and `SpuriousWakeup`
are `WaitForNext()` and its `SleepFor()`; `Reschedule`, `NewDelay` and `EndCycle` the thread loop
with the backoff. `StopStore` and `StopNotify` are apart because the flag is set without the
mutex. A thread's own steps take no time, a sleep as long as asked for, a cycle at most `MaxCycle`.

### CorePipeline

`main` is where the main thread is in `Start()` (`Start`, `StartFeature` per feature,
`StartMessaging`), `Stop()` (`StopContext`, `JoinContext`, `JoinBus`, `StopFeature`,
`StopStorage`, `JoinStorage`) or `SetTrackingConsent()` (`SetConsentStarted`, `UpdateContext`;
`SetConsentStopped` while the core is down). A thunk on the context queue is its kind and origin,
and one `Run...` action runs it, in one step: all it does is change state the context thread owns,
and append to queues that others read. `Hear...` are the messaging thread's handlers, with
`RelayRefresh` the second half of a dispatch made there; `StoreConsent` and `StoreEvent` are the
storage thread. `Dispatch` and `FinishDispatch` are the two pushes of `Rum::DispatchAsync`.

The RUM part of a context is the number of the command it reflects. Not modelled: other context
changes (user, account, anonymous id), which take the path of `UpdateContext`; messages nobody in
the model needs; sampling. The crash report is of a crash under a granted consent. `_scope` and the
queue pointers are not synchronised in the code (`feature_scope.cpp:96`). The model takes it as a
rule of use that no API call overlaps `Start()` or `Stop()`; calls that overlap would be undefined
behaviour, not a state of the model.

### ProcessDirs

A process locks `<pid>.lock` (`OpenOwnLock`, `TakeOwnLock`) and then goes through the directories of
others twice. The first pass looks for one whose lock is free and renames it to its own
(`ListProcessDirs`, `OpenAbandonedLock`, `TakeAbandonedLock`, `LookForRoot`, `RenameRoot`); if there is none, it makes
a new one (`CreateProcessRoot`). The second moves the batch files of all the others, directory by
directory, and removes what it emptied (`ListFeatures` to `LeaveProcess`). `CloseLock` and
`DeleteLock` end the work on a directory. `Exit` is possible at any step: locks go with the
process, files stay; a pid may be used again. Steps that only touch what a process has locked are
taken together when no crash separates them in a way that matters. `fate` and `alone` are history.
`DropLoose` puts a file of someone else anywhere; a process that has not finished its
initialization then no longer counts as undisturbed, since `rmdir` may fail on that file.

### RumViews, RumScopes, RumCrashes

Scopes run on one thread, so a scope is a record and processing a command is a function from the
scope and the command to the scope and the events written on the way: `RumViews` is that function
for a view with its actions and resources, `RumScopes` the state machine above it, one action per
call of the API. Times are kept as what is left of them, ages as what has passed. `RumCrashes` adds to every state a crash:
`CrashEvents` are then computed from what the other features were told, and compared with the
scopes.

### Profiling, RumEventTracker

The bus is a sequence of messages that the context thread appends and the messaging thread
handles; the profiler's thread takes a snapshot at any time. The tracker's vectors are sets, since
an id is the number of its message. `books` is history: what became of every event.

### CrashFiles, CrashSignals

`CrashFiles`: a file is named by the process that made it. Opening and locking are two steps, and a
file that is unlinked stays what it was for those who have it open. `handler` is how far a process
is in `Initialize()`, its crash or `Shutdown()`; `reader` where it is in `read_crash_files()`.
`early` (a reader opened the file before its owner locked it) and `interrupted` (a reader
could not delete what it published) are history and name the exceptions. `CrashSignals` has for
each thread the stack of its invocations of the handler, the mask, and what is pending.

### CowAttributes

A slot is whatever holds a pointer to a cell. Every call of the API is split where it reads or
changes a count; `Isolated` compares what each attribute means before and after a step.

## 3. Runs

| Run | Bounds | Distinct states | Shows |
|---|---|---|---|
| `queue` | 2 producers of 3 pushes each, 2 consumers, 1 spurious wake-up | 57 000 | no lost wake-up, liveness, the refinement |
| `storage` | 2 events of 2 and 3 bytes, clock 0..3, write age 0, read age 2, expiry 3, stall 1, limit of a file 3, quota 0, 1 of: failed call, outage, clock step back, stop, crash | 2 321 000 | nothing lost silently, files in order, consent, quota, once, deletes only what was read |
| `schedule` | 3 features, delays 3..6, cycles of up to 2 | 119 000 | punctual, never early, nobody starved, Stop() |
| `pipeline` | 2 API threads, 1 error log, 1 RUM command, 1 report, 1 consent change, 1 stop and restart | 456 000 | copies agree, scopes outlive work, order of calls, consent, liveness |
| `dirs` | 3 processes, 3 files, 4 deaths or failed calls | 1 100 000 | one owner, nothing lost or replaced, all adopted |
| `rum` | 6 calls, 2 view keys, 1 resource key, 2 pauses of the clock | 106 000 | counts, current view, limits, ends, messages, crashes find their view |
| `profiling` | 3 events, 2 context updates, 2 starts, clock 0..2, 2 places per kind | 2 420 000 | order, consent, each event once, whole snapshots |
| `crash` | 3 processes, 1 change of context, 2 crashes or failures | 3 160 000 | files stay, crashes kept, right context, once |
| `attributes` | 2 threads, 3 attributes, 3 cells of 2 places, 1 string | 595 000 | counts exact, isolation |
| `lost_report`, `crash_twice`, `eaten_signal` | as small as the case allows | - | violations, see section 5 |

Why the bounds are enough. *Queue*: a lost wake-up or a reordering needs two threads of a kind and
one item more than threads. *Storage*: the ages that matter are "written to", "too young to read",
"readable" and "expired", all of which the clock passes; with write age 0 and a stall of 1 below a
read age of 2 the margin between the threads is as narrow as it may be; a quota of nothing purges
on every new file; a file that holds the shorter event and a part of the other is over its limit
with the next; one trouble in a run is what the properties speak of (they except no pair
of failures, and the proofs bound neither). The exceptions `overtaken` and `adopted` need three
events to arise, and were found on a larger instance; on this one they never do.
*Schedule*: three features are needed to starve one through another, and two cycles of 2 take longer
than the shortest delay, so that a feature may always be due: without its premise `StopEndsUploads`
is false here. *Pipeline*: a call interleaved
with another thread's, one error log that comes back through the bus, and a restart with consent
changed while stopped or running. *Dirs*: one owner, one heir and one that comes between them.
*RUM*: six calls start a view, a second one and what they hold, and end them out of order, or fill the
array with views that started at the same time.
*Profiling*: two places overflow with the third event. *Crash*: one that crashed and two
that read its file at once. *Attributes*: with one string, values differ only
by kind and by what containers hold, so `Isolated` does not see one string written over another. The
instance with two strings (693 000 states) passes too, but is too slow to be run each time. On this one
`CountsHold` covers the case: a cell is written only when nobody shares it.

`VIEW`s leave out of the fingerprint what no later step depends on: in `rum` and `profiling` history
that only the current step's property reads, in `crash` (`Alike`) the identity of processes that are
in the same situation. `SYMMETRY` is used only in runs without liveness, over keys, processes
and handles that no action tells apart.

`CHECK_DEADLOCK FALSE` is set where a run ends when its bounds are spent or no call is left
to make, as the threads then wait, as they should.

Fairness. `queue`: each thread is scheduled (weak fairness of its next step; a mutex that is
free again and again is modelled fair enough by the finite number of calls). `schedule`: time goes
on, the upload thread is scheduled, and a `Stop()` under way goes on; nobody must call it. That
cycles become quick (`<>[]Quick`) is no fairness but a premise of `StopEndsUploads`, which the code
does not guarantee (section 5).
`pipeline`: some thread that has work runs; the application need not call anything. No
property assumes a spurious wake-up, a failing call or an answering server. The other runs check
safety and action properties only.

## 4. Proofs

Eight modules hold the proofs, most of them those of one component, `<module>_proofs`. `Rum_proofs` is
about `RumViews`, `RumScopes` and `RumCrashes` and, at its end, about `CowAttributes`; the end of
`CrashFiles_proofs` is about `CrashSignals`. They hold for every value of the constants:
any number of threads, events, processes, features and calls, any ages, limits and bounds. A proof
assumes what the module's own `ASSUME`s say of the constants, and the runs make TLC evaluate
each of these. Nothing else is taken on trust.

The pattern is the same everywhere: the property is not inductive, an invariant that is gets
built around it, and the proof has one lemma or step per action and, below it, one per conjunct
that the action can disturb.

**`EventQueue_proofs`** (`TypeCorrect`, `ExactlyOnce`, `DrainedAtEnd`, `WakeupsKept`, `StopIsFinal`,
`QueueIsClosableFifo`). `Locking`: the thread in a critical section is the one that holds the
mutex. `Stopping`: the flag is set exactly while `Stop()` is under way or over, and a `Push()`
that saw it clear keeps `Stop()` from returning. `Tested`: what a consumer that holds the mutex
knows from its predicate. The flag may be set under a `Push()`, or under a consumer about to sleep,
but `Stop()` has the mutex to take before it notifies; by then the item is appended and the
consumer asleep. The last theorem is the refinement, step by step.

**`UploadSchedule_proofs`** (`TypeCorrect`, `AlwaysPunctual`, `NeverEarly`, `PromptStop`).
`Punctual` needs `LateByOthers`: every feature due after f has delayed f by at most one cycle,
because a feature served while f waited is queued again for later than f, and the one now in its
cycle counts with the time it has had. `SleepsForTop`: a sleep ends when the first feature is due.
`CycleOutOfQueue`: the feature in its cycle is not queued. `StopProgress`: what is known of the flag
at each step of `Stop()`.

**`BatchStorage_proofs`** (`FilesKeptInOrder`, `NothingIsLost`, `ConsentIsKept`,
`ConfirmedOnlyOnce`, `DeletesWhatItRead`, `QuotaRespected`). `EventLimits`: the events of a file keep to
`max_file_size`, which is what the writer counts; `TornCounted`: the truncated records take no more than
one record for each call that failed. `BatchLimits`, of the file on disk, is their sum. `Filed`: an event whose write succeeded is in exactly
one file until a rule gives it up. `WriteUnderWay` and `ActiveFiles`: what the storage thread
believes of its file between two calls. `WrittenInTime`: while the clock is trusted, the
file open for writing is no older than `WriteAge + MaxStall`, which is less than `ReadAge`; this
one inequality is all that keeps the two threads apart. `Cycling` and `ReadWhole`: what the upload
thread read is still all that the file holds when it deletes it. `ConsentFollowed` follows an
event from the consent under which it was recorded to the directory it may be in, across
migrations that are only half done; `Confirmed` says of a confirmed event which step of the
cycle is left. Where the code allows more, the exceptions `adopted` and `overtaken` are part of the
invariant, as small as they are. The bytes in a directory are a sum over
its files, which is a recursive function; `FoldWeighs` shows, from a smallest counterexample, that it is
the cardinality of a set of units (`Weight`), and the library's theorems say what becomes of that when
a file comes, grows or goes. `QuotaKept`, for a run in which no file operation failed: all files but the
one open for writing are within the quota, and a purge measured no less than what is there.

**`CorePipeline_proofs`** (`TypeCorrect`, `ScopeSafe`, `OrderlyShutdown`, `CopiesAgree`,
`LogsSeeTheirView`, `ConsentIsBinding`). The first invariant adds `Phases`, which says for each
point of the main thread which queues are open, which are known to be empty, whether the
messaging thread runs and whether a call may be in progress, and `QueuesTyped`, the kinds of item
each queue may hold. `ScopeOutlivesWork` follows: work reaches the context queue from an API call,
a handler or `StartFeature`; the first two happen only while all features have scopes, the third
belongs to the feature that just got its scope, and scopes are taken back after both queues
were drained.

The invariant `Deep` is about what is under way in the queues. `Copies`: a copy of the consent or of
the RUM context, in whichever thread, either is right or the last item of its kind in the queue
that feeds it (`Latest`) will make it right; chained from the main thread over the context queue
and the bus to the crash context, this is `AgreeAtRest`. `Travels`: an event is in one place at a
time. `Filing`: each item of the context and storage queues is `Dated`, that is, between the consent
changes that were pushed before and after it, so an event cannot be overtaken by a change
that returned before its call; this is `ConsentBinds`. `Sights`: while a thread's command and
its log are both under way, a refresh of the context stands between the command and the log
(`Reflects`), or is still to be pushed by the thread that will, before the log runs; this is
`LogSeesOwnView`.

**`Profiling_proofs`** (`ProfilerInOrder`, `ProfilerAgrees`, `ConsentOfTheMoment`,
`NothingLostOrTwice`, `SnapshotsAreComplete`). `TrackerInv` is the tracker's bookkeeping: which
events are in its vectors, handed over or dropped. `Chain`: the feature's consent, the
contexts on the bus in their order and the `CoreContext` are a chain in which each message
tells the consent that held when it was made; an event's message is therefore handled under the
consent of its moment, whatever the consent has become. `Lifecycle` relates the profiler's
state to what this run of the core has been told.

**`CrashFiles_proofs`** (`FilesOfTheLivingStay`, `NoCrashIsLost`, `ContextGoesWithTheCrash`,
`NotAgainWithoutInterruption`). `Locked`: who holds the lock on which inode, owner or reader.
`InOrder`: how far the owner and the readers of one crash can be at the same time. `Kept`,
`WithContext` and `PublishedOnce`: where the crash and its context are at each of these points.

**`ProcessDirs_proofs`** (`RootsAreOwned`, `BatchesAreKept`, `LiveDataIsLeft`,
`ConflictsCostTheDead`, `NothingIsForgotten`). `ShapeOf` says what a process holds at each of its steps.
`OneHolder`: no two processes have one lock, by whichever name. `Knows`: a process that works on
q's directory has the inode to which q's lock file still leads, or that directory is gone and
nobody will make it again meanwhile (`Vacant`); a release ends with the directory gone. Hence
claims exclude each other. The files follow: whoever removes a directory has its lock,
so the directories that a migration fills (`Filled`) stay, and no batch appears under the name for
which `Rename()` looked (`Clear`). `Listed` is enough for `ConflictsCostTheOld`: what a process listed
is not under its own directory. For `AdoptsEverything`, `Left`: each batch that is not under p's
directory yet is on one of p's lists, or in the directory it is just entering (`Ahead`), and
`Source`: those lists are what the directories hold. All but `ConflictsCostTheDead` assume
`ReusedInPeace`, the constant that `dirs` sets too (section 5 says what happens without it); the
finite set of pids only has to leave a free inode.

The last part of **`CrashFiles_proofs`** is about an instance of `CrashSignals`
(`ReportStaysInOrder`, `NobodyHearsTheRaise`). `Alone`: one invocation
has passed the `inHandler` test. `Blocks`: a signal is blocked in the thread whose handler of it
is on the stack. `Placed`, `Guarded` and `OpenTogether`: where that invocation is, and how much of
the report is written there. The second theorem is the reason for the `eaten_signal` violation:
not one interleaving but every one ends that way.

**`Rum_proofs`** (`ViewsAlwaysAgree`, `CrashesAlwaysFindTheirView`, `AlwaysOnCurrentView`,
`AlwaysWithinLimits`, `AlwaysFinalised`, `AlwaysReportedInOrder`). The scopes are records, and a command
is a function of them, through the application, the session, the array of views, each view and its
actions and resources; so the proof goes the same way, from the inside out. `ViewStep`: whatever the
command, what a view writes numbers its updates without a gap, and the last one tells all that the
view has become. `Flattened` says where the events of each view are in what the array writes, and
`PropagateAnswers` that every open view has therefore been told and at most one is active.
`CloseCloses`: a session that ends leaves no view unfinished. `AppCases` and `CallComes` put every
call of the API under one of four outcomes: it goes on in the session, stops it, begins a new one,
or finds none and rests. `RumInv` has a part for each thing that relates them: `AppOK`, scopes that
are well formed and views that are numbered; `Bounded`, no more calls, views and sessions than
there may be; `Telling`, the backend has been told every open view as it is, and the other features
hold the active one; `Knowing`, the session knows the view the user is on or, without a session,
has handed it on for the next one to begin with. The crash of `RumCrashes` may come after any call:
`Telling` is why the view it is reported for is one that the backend knows.

The last part of **`Rum_proofs`** is about `CowAttributes` (`CountsAreKept`, `ReleasedOnce`). A reference count is the cardinality of a
set of slots, so each step has to say how the set of slots that point to a cell changes. `Releasing`,
`Temporaries`, `Replacing` and `Modifying` say what a thread relies on between two of its steps: the
slots it has still to release are its own or in a cell that nobody else reaches, and the attribute it
is about to modify is not among them. `Local` is what any step of a thread leaves alone, and
`Undisturbed` that this is enough for all other threads; so each action is checked only for the
thread that takes it.

What is only model-checked, and why:

* Liveness: `EverythingEnds`, `EveryFeatureServed`, `StopEndsUploads`, `CallsTakeEffect`. They rest on
  fairness, hence on `ENABLED`, of which the prover knows nothing.
* The operator modules: what they compute is defined by recursion.
* `Isolated`: the meaning of an attribute is recursive.

## 5. Where code and documents disagree

With a run that shows it:

* `lost_report`: `Stop()` soon after `Start()` loses a crash whose report is already deleted. An
  error log whose RUM error is still on the bus is lost the same way.
* `crash_twice`: opening a report and locking it are two steps and nobody looks whether the file
  still has its name, so a crash can be published twice (`crash_reporting/crash_processing.cpp:113`).
* `eaten_signal`: the signal is blocked in its own handler, so the `raise()` that is to reach the
  previous handler reaches nobody (`crash_handler_inprocess_posix.cpp:763`).

Seen while modelling, allowed by the models, without a run of their own:

* Storage. A write that fails half-way leaves a truncated record, where `core/storage_write.hpp:216`
  promises that it leaves nothing; the rest of that file's events are lost to the reader. The truncated
  bytes are not counted (`core/storage_write.cpp:245` returns before `268`), so the file is appended to past
  `max_file_size`, by less than a record each time. After a
  failed delete in a revocation the file stays, and a later grant uploads it
  (`core/storage_write.cpp:110`, `include-cpp/datadog/core.hpp:392`). `DeletePendingBatches` leaves
  granted files, so what was recorded under a grant is uploaded after a refusal. A migration may
  put a file under the name of a batch being uploaded, which is then deleted unread (`overtaken`),
  and takes the granted directory past its quota (`core/storage/feature_event.cpp:255`). After a
  final flush a restarted storage thread appends to a batch that was finished (`adopted`). A batch
  whose answer is lost, or that cannot be deleted, is sent again: delivery is at least once.
* Uploads. `WaitForNext()` tests the stop flag only when it sleeps
  (`core/upload_scheduler.cpp:49`): with several features whose requests time out one is always
  due, and the thread, which `include-cpp/datadog/core.hpp:268` lets exit after its cycle, begins another,
  without end if it stays so. `StopEndsUploads` therefore says two things: `StopIsPrompt`, that no sleep
  survives `Stop()`, and that the thread ends if cycles are quick from some time on; the run has cycles
  that are not.
* Consent. A call made under NotGranted is stored when a grant overtakes it on the way to the
  storage queue (`core/core.cpp:185`, `core/storage_write.hpp:80`).
* Process directories. A pid given away while its lock file is released gets a directory that another
  process still migrates (`core/storage/sdk.cpp:324` and `144`). The constant `ReusedInPeace`
  assumes that no pid is given away in that moment. `Rename()` looks for its target and then renames
  (`core/storage/filesystem_posix.cpp:335` calls the window acceptable): a file that someone else
  creates in between is replaced. A batch cannot be, as `FilesKept` shows. A lock
  file is unlinked after it is closed (`sdk.cpp:324`), so two processes may each hold "the" lock
  of a directory that is gone; neither finds anything there.
* RUM. Of views that started at the same time, a full array drops the one in the first slot
  (`rum/containers/view_array.cpp:110` compares with `<`), which may be the last that started and the one the
  user is on; its end is then not reported. `Purged` allows it. An action that waits for a resource that never ends is never finished while its view lives
  (`rum/scopes/action.cpp:70`, `view.hpp:82`). Stopping an expired session starts a new one
  (`session.cpp:292`, `rum.h:189`). Global attributes are copied under the lock but queued after it
  (`rum/rum.cpp:239`), so two concurrent changes may be queued in the other order. After a stopped
  session a crash is reported in an ApplicationLaunch view (`crash_events.cpp:683` says so).
* Crash files. A crash file that a reader locks before its owner does leaves the owner without
  crash reporting. If the report cannot be deleted but its context can, the next process
  publishes the crash again, without context.
* Crash contexts and reports. A context whose strings or nesting exceed the reader's limits makes the
  crash be discarded (`crash_processing.cpp:238`). More than 4096 executable mappings make the
  report unreadable; the build id of a file with a blank in its name, of a second executable mapping,
  or of a library loaded at the address of another (`buildid_cache.cpp:799`) is missing or wrong.
  The alternate signal stack exists only on the thread that initialises the handler. A second
  thread that faults ends the process, and so truncates the first one's report; `Shutdown()` may
  unlink a report that is being written (`crash_handler_inprocess_posix.cpp:1039`).
* Crashpad annotations are set one by one, so a crash between two of them has a mixed context. A
  view event longer than 8192 characters without a context to trim is read as no view; the client
  token is not removed with the other annotations; the tracking consent is called JSON in the
  header but is written raw.
* JSON. The scanner accepts missing commas (`json_scanner.cpp:232`). Whole doubles come back as
  integers, timestamps and UUIDs as strings, numbers that are not finite as null.
* Logs. `RemoveTag("a::b")` does not remove a tag that was added with the key `a:` and the value `b`.
  The fingerprint of an error is also taken from the global attributes, its source type only from the call.

## 6. Not modelled

* Attributes, feature flags, timings and frozen frames of RUM views; commands whose `issued_at` is
  out of order. An action that ends late, or never, breaks no property: `ReportedInOrder` is about what
  is reported when it ends.
* A crash between two parts of one `write()`; that a truncated record might, with what follows it, look
  like a record: the model's reader finds it malformed.
* The limits on the length of the lines of a crash report.
* The crash handlers of Windows and macOS, the crash reporter process of Crashpad, the stack walk,
  write errors while a crash report is written (`crash_report_write.cpp:26`), and the temporary
  file of a context (`.ctx.tmp`) that a crash leaves behind.
* The options, TLS, and transfer of the HTTP clients; file system and platform wrappers: I/O,
  whose outcomes are choices in the models that call them.
* The file of the anonymous id (`core/core.cpp:34`): written once, replaced by a rename.
* API calls that overlap `Start()` or `Stop()`: unsynchronised in the code (`feature_scope.cpp:96`),
  and taken as forbidden.
* The members of the generated event types beyond those of `RumSchema`; the C and C++ bindings,
  which convert and forward; examples, tools, tests and build.

The modules stand for about a third of the implementation. Most of the rest is generated types,
headers, bindings, examples, and platform code that has no state of its own.

## 7. Running

    tlc -workers 2 -config MCBatchStorage.cfg MCBatchStorage
    tlc -workers 2 -config MCCorePipeline.cfg MCCorePipeline
    tlapm EventQueue_proofs.tla
    tlapm CorePipeline_proofs.tla

Every run ends within five minutes, most proofs within two; `BatchStorage_proofs`,
`CorePipeline_proofs`, `ProcessDirs_proofs` and `Rum_proofs` take longer. `PROJECT.json` names each
run with its module, its configuration and its properties, maps each definition to the lines it models, and lists the theorems.

Operators introduced by a comment "Mutant of ..." are not part of the specification: each is a
plausible mistake in the definition it follows, and one property is there to notice it.
