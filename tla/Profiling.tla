----------------------------- MODULE Profiling ------------------------------
(***************************************************************************)
(* The Profiling feature: profiling/profiling.cpp, with the tracker of     *)
(* RumEventTracker, fed by the message bus of one Core.                    *)
(*                                                                         *)
(* Four threads: the main thread starts and stops the Core; the context    *)
(* thread changes the CoreContext and processes RUM commands, and puts     *)
(* what follows on the bus in the order in which it happens; the messaging *)
(* thread hands the messages to the feature; the profiler's thread exports *)
(* a profile whenever it likes.  CorePipeline has the queues in front of   *)
(* the context thread.                                                     *)
(***************************************************************************)
EXTENDS RumEventTracker, Sequences

CONSTANTS Occurrence,   \* contexts in which RUM generates events
          MaxBus,       \* bound: messages on the bus
          MaxEvents,    \* bound: RUM messages
          MaxUpdates,   \* bound: context updates
          MaxStarts,    \* bound: calls of Core::Start()
          MaxClock      \* bound: time

ASSUME OccurrenceAssumption == Occurrence \subseteq Context

VARIABLES phase,      \* of the Core: whether the feature has its _scope
          bus,        \* the MessageBus
          tracking,   \* CoreContext::tracking_consent
          consent,    \* Profiling::_consent
          running,    \* Profiling::_backend_running
          told,       \* the last consent delivered in this run of the Core
          failed,     \* the last attempt to start the profiler failed
          clock,
          used        \* how much of the bounds has been used

core == << phase, tracking, clock, used >>
vars == << tracker, books, core, bus, consent, running, told, failed >>

-----------------------------------------------------------------------------
Consent == {"pending", "granted", "not_granted"}

Phase == {"off", "on", "stopping"}

ContextMessage == [type : {"context"}, consent : Consent]

\* under: the consent in the CoreContext when the event was generated.
VitalMessage ==
  [type : {"vital"}, id : Nat, name : Name, step : Step, time : Nat,
   context : Context, under : Consent]

TaskMessage == [type : {"long_task"}, id : Nat, context : Context, under : Consent]

Message == ContextMessage \union VitalMessage \union TaskMessage

ContextChanged(c) == [type |-> "context", consent |-> c]

Init ==
  /\ TrackerInit
  /\ phase = "off" /\ bus = << >> /\ tracking \in Consent
  /\ consent = "pending" /\ running = FALSE /\ told = "pending" /\ failed = FALSE
  /\ clock = 0
  /\ used = [starts |-> 0, updates |-> 0, events |-> 0]

-----------------------------------------------------------------------------
(***************************************************************************)
(* profiling.cpp, under Profiling::_mutex.  The profiler stops and the     *)
(* tracker is reset in one step: a snapshot taken in between is one taken  *)
(* just before.                                                            *)
(***************************************************************************)
UpdateBackendState(scope, c) ==
  LET should_run == scope /\ c = "granted" IN
  \/ /\ should_run /\ ~running
     /\ running' \in BOOLEAN                \* Init() or Start() may fail
     /\ failed' = ~running'
     /\ UNCHANGED << tracker, books >>
  \/ /\ ~should_run /\ running
     /\ running' = FALSE
     /\ Reset
     /\ UNCHANGED failed
  \/ /\ should_run <=> running
     /\ UNCHANGED << tracker, books, running, failed >>

\* Other changes of the context come with the consent as it was.
OnTrackingConsentChanged(c) ==
  \/ c = consent /\ UNCHANGED << tracker, books, consent, running, failed >>
  \/ c # consent /\ consent' = c /\ UpdateBackendState(TRUE, c)

\* Mutant of OnRumEvent: recorded whether or not the profiler runs.
OnRumEventAlways(m) ==
  /\ \/ m.type = "vital" /\ OnVital(m)
     \/ m.type = "long_task" /\ OnLongTask(m)
  /\ UNCHANGED << consent, running, failed, told >>

OnRumEvent(m) ==
  /\ \/ running /\ m.type = "vital" /\ OnVital(m)
     \/ running /\ m.type = "long_task" /\ OnLongTask(m)
     \/ ~running /\ UNCHANGED << tracker, books >>
  /\ UNCHANGED << consent, running, failed, told >>

\* The handler made by MakeMessageHandler(), on the messaging thread.
Deliver ==
  /\ bus # << >>
  /\ bus' = Tail(bus)
  /\ LET m == Head(bus) IN
     \/ m.type = "context" /\ OnTrackingConsentChanged(m.consent) /\ told' = m.consent
     \/ m.type # "context" /\ OnRumEvent(m)
  /\ UNCHANGED core

-----------------------------------------------------------------------------
(***************************************************************************)
(* The Core.  Start() puts a first message on the bus before the features  *)
(* start, and starts the messaging thread after them.  Stop() drains the   *)
(* context queue, then the bus, then stops the features.                   *)
(***************************************************************************)
\* Mutant of Start: no first message.
StartUntold ==
  /\ phase = "off" /\ used.starts < MaxStarts
  /\ phase' = "on"
  /\ used' = [used EXCEPT !.starts = @ + 1]
  /\ told' = "pending"
  /\ UpdateBackendState(TRUE, consent)
  /\ UNCHANGED << bus, tracking, consent, clock >>

Start ==
  /\ phase = "off" /\ used.starts < MaxStarts
  /\ phase' = "on"
  /\ used' = [used EXCEPT !.starts = @ + 1]
  /\ bus' = << ContextChanged(tracking) >>
  /\ told' = "pending"
  /\ UpdateBackendState(TRUE, consent)
  /\ UNCHANGED << tracking, consent, clock >>

StopQueues ==
  /\ phase = "on"
  /\ phase' = "stopping"
  /\ UNCHANGED << tracker, books, bus, tracking, consent, running, told, failed, clock, used >>

Stop ==
  /\ phase = "stopping" /\ bus = << >>
  /\ phase' = "off"
  /\ consent' = "pending"
  /\ UpdateBackendState(TRUE, consent')
  /\ UNCHANGED << bus, tracking, told, clock, used >>

\* Mutant of UpdateContext: only a grant is announced.
UpdateContextIfGranted(c) ==
  /\ phase # "stopping" /\ used.updates < MaxUpdates /\ Len(bus) < MaxBus
  /\ used' = [used EXCEPT !.updates = @ + 1]
  /\ tracking' = c
  /\ bus' = IF phase = "on" /\ c = "granted" THEN Append(bus, ContextChanged(c)) ELSE bus
  /\ UNCHANGED << tracker, books, phase, consent, running, told, failed, clock >>

\* CoreContextProvider::Update(): of the consent, or of something else.
UpdateContext(c) ==
  /\ phase # "stopping" /\ used.updates < MaxUpdates /\ Len(bus) < MaxBus
  /\ used' = [used EXCEPT !.updates = @ + 1]
  /\ tracking' = c
  /\ bus' = IF phase = "on" THEN Append(bus, ContextChanged(c)) ELSE bus
  /\ UNCHANGED << tracker, books, phase, consent, running, told, failed, clock >>

\* RUM announces a vital or a long task.
Announce(m) ==
  /\ phase = "on" /\ used.events < MaxEvents /\ Len(bus) < MaxBus
  /\ used' = [used EXCEPT !.events = @ + 1]
  /\ bus' = Append(bus, m)
  /\ UNCHANGED << tracker, books, phase, tracking, consent, running, told, failed, clock >>

SendVitalEvent(n, s, c) ==
  Announce([type |-> "vital", id |-> used.events, name |-> n, step |-> s, time |-> clock,
            context |-> c, under |-> tracking])

SendLongTaskEvent(c) ==
  Announce([type |-> "long_task", id |-> used.events, context |-> c, under |-> tracking])

\* BuildProfileMetadata() for a profile that ends now.
BuildMetadata ==
  /\ TakeSnapshot(clock)
  /\ UNCHANGED << core, bus, consent, running, told, failed >>

Tick ==
  /\ clock < MaxClock
  /\ clock' = clock + 1
  /\ UNCHANGED << tracker, books, phase, tracking, used, bus, consent, running, told, failed >>

Next ==
  \/ Start \/ StopQueues \/ Stop \/ Deliver \/ BuildMetadata \/ Tick
  \/ \E c \in Consent : UpdateContext(c)
  \/ \E n \in Name, s \in Step, c \in Occurrence : SendVitalEvent(n, s, c)
  \/ \E c \in Occurrence : SendLongTaskEvent(c)

Spec == Init /\ [][Next]_vars
-----------------------------------------------------------------------------
TypeOK ==
  /\ vitals \subseteq Vital /\ tasks \subseteq LongTask
  /\ views \subseteq View /\ context \in Context \union {NoContext}
  /\ seen \subseteq Context
  /\ recorded \subseteq Nat /\ reported \subseteq Nat /\ gone \subseteq Nat
  /\ phase \in Phase /\ bus \in Seq(Message) /\ tracking \in Consent
  /\ consent \in Consent /\ told \in Consent
  /\ running \in BOOLEAN /\ failed \in BOOLEAN
  /\ clock \in Nat
  /\ used \in [starts : Nat, updates : Nat, events : Nat]

\* Once the messaging thread has caught up, the profiler runs under consent
\* only, and does run under consent unless it could not be started.
AgreeAtRest ==
  phase = "on" /\ bus = << >> =>
    /\ running => tracking = "granted"
    /\ tracking = "granted" => running \/ failed

\* An event that is recorded was generated under consent, whatever the consent
\* is by now, and one generated under consent finds the profiler running.
RecordsUnderConsent ==
  bus # << >> /\ Head(bus).type # "context" =>
    /\ running => Head(bus).under = "granted"
    /\ Head(bus).under = "granted" => running \/ failed

\* The profiler does not run before this run of the Core has told the feature
\* of the consent: not on what an earlier run said.
ToldFirst == running => phase # "off" /\ told = "granted"

\* Nothing that was recorded outlives the profiler, and nothing is recorded
\* while it does not run.
NothingOutlives == ~running => tracker = << {}, {}, {}, NoContext >>

\* The profiler and what it holds: started and told before anything is recorded,
\* one pending run of an operation, each vector within its limit.
Orderly == TypeOK /\ ToldFirst /\ NothingOutlives /\ OneRun /\ Bounded

\* A snapshot does not forget an operation that may still end.
RecentKept ==
  [][\A v \in vitals :
       IsPending(v) /\ clock - v.start < Cutoff /\ v \notin vitals' =>
         \/ v.id \in gone'
         \/ [v EXCEPT !.ended = TRUE] \in vitals']_vars

\* What a snapshot hands over and keeps: the views of its events, where they
\* happened, and the operations that may still end.
SnapshotComplete == [](ViewsCover /\ SaysWhere) /\ RecentKept
=============================================================================
