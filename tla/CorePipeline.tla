---------------------------- MODULE CorePipeline ----------------------------
(***************************************************************************)
(* How a call of the application becomes an event in storage: the API      *)
(* threads put work on the context queue; the context thread runs it, and  *)
(* writes events to the storage queue and messages to the message bus; the *)
(* messaging thread runs the features' handlers, which put work back on    *)
(* the context queue; the storage thread hands events to the BatchWriter.  *)
(* The main thread starts and stops the core and changes the consent.      *)
(*                                                                         *)
(* The three queues are closable FIFOs, which EventQueue shows             *)
(* core::Queue<T> to be.  An event is its origin: a log call, a RUM        *)
(* command, the RUM error that repeats an error log, or the crash that an  *)
(* earlier run of the application left a report of.  The rum part of       *)
(* CoreContext is the number of the last RUM command it reflects.          *)
(*                                                                         *)
(* FeatureScope pointers are not synchronised, so the API may not be       *)
(* called while Start() or Stop() runs: other threads' calls are modelled  *)
(* in between.                                                             *)
(***************************************************************************)
EXTENDS Naturals, Sequences, FiniteSets

CONSTANTS Thread,         \* threads that call the Logging and RUM APIs
          Log,            \* calls of Logger::Log
          ErrorLog,       \* those with level Error or above
          Command,        \* calls that dispatch a RUM command
          NoCall,         \* not a call: stands for none, and for SDKInit
          Registered,     \* the features, in the order they were registered
          InitialConsent, \* the consent Core::Create() is given
          Choice,         \* bound: the consents that are chosen later
          MaxChanges,     \* bound: changes of the tracking consent
          MaxStops        \* bound: calls of Core::Stop()

ASSUME CallAssumption ==
    /\ ErrorLog \subseteq Log
    /\ Log \cap Command = {}
    /\ NoCall \notin Log \cup Command
ASSUME BoundAssumption == MaxChanges \in Nat /\ MaxStops \in Nat

Consent == {"granted", "pending", "notGranted"}
Feature == {"rum", "logging", "crash"}
Queue   == {"context", "bus", "storage"}

ASSUME OrderAssumption ==
    Registered \in [1 .. 3 -> Feature] /\ Feature = {Registered[i] : i \in 1 .. 3}
ASSUME ConsentAssumption == InitialConsent \in Consent /\ Choice \subseteq Consent

VARIABLES
    state,      \* Core::_state
    main,       \* where the main thread is
    consent,    \* Core::_tracking_consent
    context,    \* CoreContextProvider::_context
    attached,   \* whether the provider has a message bus
    scope,      \* the features that have a FeatureScope
    queue,      \* the items of each queue
    open,       \* "none" when the queue does not exist, "open" or "stopped"
    messaging,  \* whether the messaging thread runs
    relay,      \* the second half of a DispatchAsync on the messaging thread
    calling,    \* the call each API thread is in the middle of
    snapshot,   \* Rum::_application_snapshot
    shadow,     \* CrashReporting::_crash_context
    writer,     \* BatchWriter::_consent
    report,     \* whether the crash report file is there
    \* history
    accepted,   \* the calls whose work the context queue accepted
    handed,     \* for each event handed to the BatchWriter, how it was filed
    own,        \* the last RUM command of a log's thread at the call
    last,       \* each thread's last RUM command of this run
    number,     \* when each RUM command was processed: first, second, ...
    seen,       \* for each log, the command its event's rum context reflects
    asked,      \* for each event, the number of consent changes at the call
    changes,    \* changes of the consent: begun, completed, and seen by the writer
    stops       \* calls of Core::Stop()

vars == <<state, main, consent, context, attached, scope, queue, open, messaging, relay,
          calling, snapshot, shadow, writer, report,
          accepted, handed, own, last, number, seen, asked, changes, stops>>
coreVars    == <<state, main, consent, attached, scope, messaging>>
historyVars == <<accepted, own, last, asked>>

\* What the queues hold: work for the context thread, messages, and events.
Item(kind, of) == [kind |-> kind, of |-> of]
CallEvent  == {Item("log", l) : l \in Log} \cup {Item("command", c) : c \in Command}
OtherEvent == {Item("error", l) : l \in ErrorLog} \cup {Item("crash", NoCall)}
Event      == CallEvent \cup OtherEvent

-----------------------------------------------------------------------------
(* Queues *)

\* Queue::Push, to each queue the items that out has for it; a queue that is
\* stopped rejects them.
Nothing == [q \in Queue |-> <<>>]
Pushed(q, out) == IF open[q] = "open" THEN queue[q] \o out[q] ELSE queue[q]
Push(out) == queue' = [q \in Queue |-> Pushed(q, out)]

\* The thread of queue q takes its first item and pushes to the other queues.
First(q) == Head(queue[q])
Handle(q, out) ==
    /\ queue[q] # <<>>
    /\ queue' = [r \in Queue |-> IF r = q THEN Tail(queue[q]) ELSE Pushed(r, out)]

To(q, items) == [Nothing EXCEPT ![q] = items]

\* The queue's thread has drained it and ended.
Drained(q) == open[q] = "stopped" /\ queue[q] = <<>>

-----------------------------------------------------------------------------
(* Core::Start() *)

\* ContextChangedMessage, with the part of the context that a handler keeps.
Changed(ctx) == Item("changed", ctx.consent)

\* Mutant of Start: the messaging thread runs at once.
StartMessagingFirst ==
    /\ main = "idle" /\ state = "initialized"
    /\ state' = "started"
    /\ context' = [context EXCEPT !.rum = 0]
    /\ attached' = TRUE
    /\ open' = [q \in Queue |-> "open"]
    /\ queue' = [queue EXCEPT !["bus"] = <<Changed(context')>>]
    /\ last' = [t \in Thread |-> NoCall]
    /\ messaging' = TRUE
    /\ main' = "starting"
    /\ UNCHANGED <<consent, scope, relay, calling, snapshot, shadow, writer,
                   report, accepted, handed, own, number, seen, asked, changes, stops>>

\* The context is reset while no bus is attached; the threads but the messaging
\* thread start; the bus holds the initial context.
Start ==
    /\ main = "idle" /\ state = "initialized"
    /\ state' = "started"
    /\ context' = [context EXCEPT !.rum = 0]
    /\ attached' = TRUE
    /\ open' = [q \in Queue |-> "open"]
    /\ queue' = [queue EXCEPT !["bus"] = <<Changed(context')>>]
    /\ last' = [t \in Thread |-> NoCall]
    /\ main' = "starting"
    /\ UNCHANGED <<consent, scope, messaging, relay, calling, snapshot, shadow, writer,
                   report, accepted, handed, own, number, seen, asked, changes, stops>>

\* Feature::OnCoreStarted: Rum dispatches SDKInit, CrashReporting has the crash
\* reports processed.
StartFeature ==
    /\ main = "starting" /\ scope # Feature
    /\ LET f == Registered[Cardinality(scope) + 1]
       IN  /\ scope' = scope \cup {f}
           /\ Push(To("context",
                  CASE f = "rum"     -> <<Item("init", NoCall), Item("refresh", NoCall)>>
                    [] f = "crash"   -> <<Item("process", NoCall)>>
                    [] f = "logging" -> <<>>))
    /\ UNCHANGED <<state, main, consent, context, attached, open, messaging, relay, calling,
                   snapshot, shadow, writer, report, handed, historyVars,
                   number, seen, changes, stops>>

StartMessaging ==
    /\ main = "starting" /\ scope = Feature
    /\ messaging' = TRUE
    /\ main' = "idle"
    /\ UNCHANGED <<state, consent, context, attached, scope, queue, open, relay, calling,
                   snapshot, shadow, writer, report, handed, historyVars,
                   number, seen, changes, stops>>

-----------------------------------------------------------------------------
(* Core::Stop() *)

StopContext ==
    /\ main = "idle" /\ state = "started"
    /\ calling = [t \in Thread |-> NoCall]
    /\ stops < MaxStops
    /\ stops' = stops + 1
    /\ open' = [open EXCEPT !["context"] = "stopped"]
    /\ main' = "joinContext"
    /\ UNCHANGED <<state, consent, context, attached, scope, queue, messaging, relay, calling,
                   snapshot, shadow, writer, report, handed, historyVars,
                   number, seen, changes>>

\* Mutant of JoinContext: the bus is not stopped.
JoinContextOnly ==
    /\ main = "joinContext" /\ Drained("context")
    /\ main' = "joinBus"
    /\ UNCHANGED <<state, consent, context, attached, scope, queue, open, messaging, relay,
                   calling, snapshot, shadow, writer, report, handed, historyVars,
                   number, seen, changes, stops>>

JoinContext ==
    /\ main = "joinContext" /\ Drained("context")
    /\ open' = [open EXCEPT !["bus"] = "stopped"]
    /\ main' = "joinBus"
    /\ UNCHANGED <<state, consent, context, attached, scope, queue, messaging, relay, calling,
                   snapshot, shadow, writer, report, handed, historyVars,
                   number, seen, changes, stops>>

JoinBus ==
    /\ main = "joinBus" /\ Drained("bus") /\ ~relay
    /\ messaging' = FALSE
    /\ attached' = FALSE
    /\ main' = "stopping"
    /\ UNCHANGED <<state, consent, context, scope, queue, open, relay, calling,
                   snapshot, shadow, writer, report, handed, historyVars,
                   number, seen, changes, stops>>

\* Feature::OnCoreStopping.
StopFeature ==
    /\ main = "stopping" /\ scope # {}
    /\ scope' = scope \ {Registered[4 - Cardinality(scope)]}
    /\ UNCHANGED <<state, main, consent, context, attached, queue, open, messaging, relay,
                   calling, snapshot, shadow, writer, report, handed, historyVars,
                   number, seen, changes, stops>>

\* The context queue and the bus are destroyed.
StopStorage ==
    /\ main = "stopping" /\ scope = {}
    /\ open' = [q \in Queue |-> IF q = "storage" THEN "stopped" ELSE "none"]
    /\ main' = "joinStorage"
    /\ UNCHANGED <<state, consent, context, attached, scope, queue, messaging, relay, calling,
                   snapshot, shadow, writer, report, handed, historyVars,
                   number, seen, changes, stops>>

\* The upload thread is stopped after it, which UploadSchedule models.
JoinStorage ==
    /\ main = "joinStorage" /\ Drained("storage")
    /\ open' = [open EXCEPT !["storage"] = "none"]
    /\ state' = "initialized"
    /\ main' = "idle"
    /\ UNCHANGED <<consent, context, attached, scope, queue, messaging, relay, calling,
                   snapshot, shadow, writer, report, handed, historyVars,
                   number, seen, changes, stops>>

-----------------------------------------------------------------------------
(* Core::SetTrackingConsent(), on the main thread *)

\* Mutant of SetConsentStarted: the storage thread is not told.
SetConsentUntold(v) ==
    /\ main = "idle" /\ state = "started"
    /\ v # consent /\ changes.begun < MaxChanges
    /\ consent' = v
    /\ changes' = [changes EXCEPT !.begun = @ + 1]
    /\ main' = "update"
    /\ UNCHANGED <<state, context, attached, scope, queue, open, messaging, relay, calling,
                   snapshot, shadow, writer, report, handed, historyVars,
                   number, seen, stops>>

\* While the core runs, the storage thread is told first.
SetConsentStarted(v) ==
    /\ main = "idle" /\ state = "started"
    /\ v # consent /\ changes.begun < MaxChanges
    /\ consent' = v
    /\ changes' = [changes EXCEPT !.begun = @ + 1]
    /\ Push(To("storage", <<Item("consent", v)>>))
    /\ main' = "update"
    /\ UNCHANGED <<state, context, attached, scope, open, messaging, relay, calling,
                   snapshot, shadow, writer, report, handed, historyVars,
                   number, seen, stops>>

\* Core::UpdateContext, through the context queue.
UpdateContext ==
    /\ main = "update"
    /\ Push(To("context", <<Item("consent", consent)>>))
    /\ changes' = [changes EXCEPT !.done = changes.begun]
    /\ main' = "idle"
    /\ UNCHANGED <<state, consent, context, attached, scope, open, messaging, relay, calling,
                   snapshot, shadow, writer, report, handed, historyVars,
                   number, seen, stops>>

\* Otherwise the BatchWriter and the context are changed on the spot.
SetConsentStopped(v) ==
    /\ main = "idle" /\ state = "initialized"
    /\ v # consent /\ changes.begun < MaxChanges
    /\ consent' = v
    /\ writer' = v
    /\ context' = [context EXCEPT !.consent = v]
    /\ changes' = [begun |-> changes.begun + 1, done |-> changes.begun + 1,
                   seen |-> changes.begun + 1]
    /\ UNCHANGED <<state, main, attached, scope, queue, open, messaging, relay, calling,
                   snapshot, shadow, report, handed, historyVars, number, seen, stops>>

-----------------------------------------------------------------------------
(* API calls *)

\* The core has started, and no feature's scope comes or goes.
Callable(t) == state = "started" /\ main \in {"idle", "update"} /\ calling[t] = NoCall

Accept(e) ==
    /\ accepted' = accepted \cup {e}
    /\ asked' = [asked EXCEPT ![e] = changes.done]

\* Logger::Log.
LogCall(t, l) ==
    /\ Callable(t)
    /\ Item("log", l) \notin accepted
    /\ Push(To("context", <<Item("log", l)>>))
    /\ Accept(Item("log", l))
    /\ own' = [own EXCEPT ![l] = last[t]]
    /\ UNCHANGED <<coreVars, context, open, relay, calling, snapshot, shadow, writer, report,
                   handed, last, number, seen, changes, stops>>

\* The first half of Rum::DispatchAsync: the command.
Dispatch(t, c) ==
    /\ Callable(t)
    /\ Item("command", c) \notin accepted
    /\ Push(To("context", <<Item("command", c)>>))
    /\ Accept(Item("command", c))
    /\ calling' = [calling EXCEPT ![t] = c]
    /\ UNCHANGED <<coreVars, context, open, relay, snapshot, shadow, writer, report,
                   handed, own, last, number, seen, changes, stops>>

\* Mutant of FinishDispatch: the context is changed on the caller's thread.
FinishDispatchAtOnce(t) ==
    /\ calling[t] # NoCall
    /\ context' = [context EXCEPT !.rum = snapshot]
    /\ Push(To("bus", <<Changed(context')>>))
    /\ calling' = [calling EXCEPT ![t] = NoCall]
    /\ last' = [last EXCEPT ![t] = calling[t]]
    /\ UNCHANGED <<coreVars, open, relay, snapshot, shadow, writer, report,
                   handed, accepted, own, number, seen, asked, changes, stops>>

\* The second half: the update of the rum context.
FinishDispatch(t) ==
    /\ calling[t] # NoCall
    /\ Push(To("context", <<Item("refresh", NoCall)>>))
    /\ calling' = [calling EXCEPT ![t] = NoCall]
    /\ last' = [last EXCEPT ![t] = calling[t]]
    /\ UNCHANGED <<coreVars, context, open, relay, snapshot, shadow, writer, report,
                   handed, accepted, own, number, seen, asked, changes, stops>>

-----------------------------------------------------------------------------
(* The context thread: one action per kind of work *)

\* EnqueueStorageWrite.
Written(e) == IF state = "started" THEN <<e>> ELSE <<>>

\* It runs the work w, and pushes out to the other queues.
Runs(w, out) == queue["context"] # <<>> /\ w = First("context") /\ Handle("context", out)

\* ContextThread_GenerateLogEvent: the event, and the message to RUM.
RunLog(l) ==
    /\ Runs(Item("log", l),
            [Nothing EXCEPT !["storage"] = Written(Item("log", l)),
                            !["bus"] = IF l \in ErrorLog THEN <<Item("logError", l)>> ELSE <<>>])
    /\ seen' = [seen EXCEPT ![l] = context.rum]
    /\ UNCHANGED <<coreVars, context, open, relay, calling, snapshot, shadow, writer, report,
                   handed, historyVars, number, changes, stops>>

\* RumApplicationScope::Process makes an event e; the snapshot is renewed, and
\* the new state of RUM sent to the other features.
Process(e) ==
    /\ Runs(e, [Nothing EXCEPT !["storage"] = Written(e),
                               !["bus"] = <<Item("rumState", snapshot + 1)>>])
    /\ snapshot' = snapshot + 1
    /\ UNCHANGED <<coreVars, context, open, relay, calling, shadow, writer, report,
                   handed, historyVars, seen, changes, stops>>

RunCommand(c) ==
    /\ Process(Item("command", c))
    /\ number' = [number EXCEPT ![c] = snapshot + 1]

\* The AddError command that repeats an error log.
RunError(l) ==
    /\ Process(Item("error", l))
    /\ UNCHANGED number

\* SDKInit starts a session.
RunInit ==
    /\ Runs(Item("init", NoCall), To("bus", <<Item("rumState", 0)>>))
    /\ snapshot' = 0
    /\ UNCHANGED <<coreVars, context, open, relay, calling, shadow, writer, report,
                   handed, historyVars, number, seen, changes, stops>>

\* Mutant of Update: the snapshot sent is taken before the change.
UpdateSendingOld(new) ==
    /\ context' = new
    /\ Runs(First("context"), To("bus", IF attached THEN <<Changed(context)>> ELSE <<>>))
    /\ UNCHANGED <<coreVars, open, relay, calling, snapshot, shadow, writer, report,
                   handed, historyVars, number, seen, changes, stops>>

\* CoreContextProvider::Update, as work on the context thread.
Update(new) ==
    /\ context' = new
    /\ Runs(First("context"), To("bus", IF attached THEN <<Changed(new)>> ELSE <<>>))
    /\ UNCHANGED <<coreVars, open, relay, calling, snapshot, shadow, writer, report,
                   handed, historyVars, number, seen, changes, stops>>

RunRefresh ==
    /\ queue["context"] # <<>> /\ First("context") = Item("refresh", NoCall)
    /\ Update([context EXCEPT !.rum = snapshot])

RunConsent(v) ==
    /\ queue["context"] # <<>> /\ First("context") = Item("consent", v)
    /\ Update([context EXCEPT !.consent = v])

\* ProcessCrashReports: the report's message is sent, and its files are deleted.
RunProcess ==
    /\ Runs(Item("process", NoCall),
            To("bus", IF report THEN <<Item("crashReport", NoCall)>> ELSE <<>>))
    /\ report' = FALSE
    /\ UNCHANGED <<coreVars, context, open, relay, calling, snapshot, shadow, writer,
                   handed, historyVars, number, seen, changes, stops>>

\* ProduceRumEventsForCrash, for a crash under a consent that was granted.
RunCrash ==
    /\ Runs(Item("crash", NoCall), To("storage", Written(Item("crash", NoCall))))
    /\ UNCHANGED <<coreVars, context, open, relay, calling, snapshot, shadow, writer, report,
                   handed, historyVars, number, seen, changes, stops>>

ContextStep ==
    \/ \E l \in Log : RunLog(l)
    \/ \E c \in Command : RunCommand(c)
    \/ \E l \in ErrorLog : RunError(l)
    \/ RunInit \/ RunRefresh \/ RunProcess \/ RunCrash
    \/ \E v \in Consent : RunConsent(v)

-----------------------------------------------------------------------------
(* The messaging thread: the handlers of the messages *)

\* It takes the message m, and its handlers push out to the other queues.
Receives(m, out) ==
    /\ messaging /\ ~relay
    /\ queue["bus"] # <<>> /\ m = First("bus")
    /\ Handle("bus", out)

\* CrashReporting keeps what a crash of this run will be reported with.
HearContext(v) ==
    /\ Receives(Item("changed", v), Nothing)
    /\ shadow' = [shadow EXCEPT !.consent = v]
    /\ UNCHANGED <<coreVars, context, open, relay, calling, snapshot, writer, report,
                   handed, historyVars, number, seen, changes, stops>>

HearRumState ==
    /\ queue["bus"] # <<>> /\ First("bus").kind = "rumState"
    /\ Receives(First("bus"), Nothing)
    /\ shadow' = [shadow EXCEPT !.rum = First("bus").of]
    /\ UNCHANGED <<coreVars, context, open, relay, calling, snapshot, writer, report,
                   handed, historyVars, number, seen, changes, stops>>

\* Rum dispatches a command for an error log: the command,
HearLogError(l) ==
    /\ Receives(Item("logError", l), To("context", <<Item("error", l)>>))
    /\ relay' = TRUE
    /\ UNCHANGED <<coreVars, context, open, calling, snapshot, shadow, writer, report,
                   handed, historyVars, number, seen, changes, stops>>

\* and the update of the rum context.
RelayRefresh ==
    /\ relay
    /\ Push(To("context", <<Item("refresh", NoCall)>>))
    /\ relay' = FALSE
    /\ UNCHANGED <<coreVars, context, open, calling, snapshot, shadow, writer, report,
                   handed, historyVars, number, seen, changes, stops>>

\* Rum has the events of a crash made.
HearCrashReport ==
    /\ Receives(Item("crashReport", NoCall), To("context", <<Item("crash", NoCall)>>))
    /\ UNCHANGED <<coreVars, context, open, relay, calling, snapshot, shadow, writer, report,
                   handed, historyVars, number, seen, changes, stops>>

MessagingStep ==
    \/ \E v \in Consent : HearContext(v)
    \/ \E l \in ErrorLog : HearLogError(l)
    \/ HearRumState \/ RelayRefresh \/ HearCrashReport

-----------------------------------------------------------------------------
(* The storage thread *)

Stores(s) == queue["storage"] # <<>> /\ s = First("storage") /\ Handle("storage", Nothing)

StoreConsent(v) ==
    /\ Stores(Item("consent", v))
    /\ writer' = v
    /\ changes' = [changes EXCEPT !.seen = @ + 1]
    /\ UNCHANGED <<coreVars, context, open, relay, calling, snapshot, shadow, report,
                   handed, historyVars, number, seen, stops>>

\* Events of a crash bypass the consent.
StoreEvent(e) ==
    /\ Stores(e)
    /\ handed' = [handed EXCEPT ![e] = [as |-> IF e.kind = "crash" THEN "granted" ELSE writer,
                                        at |-> changes.seen]]
    /\ UNCHANGED <<coreVars, context, open, relay, calling, snapshot, shadow, writer, report,
                   historyVars, number, seen, changes, stops>>

StorageStep == (\E v \in Consent : StoreConsent(v)) \/ (\E e \in Event : StoreEvent(e))

-----------------------------------------------------------------------------
(* The specification *)

NotHanded == [as |-> "none", at |-> 0]

Init ==
    /\ state = "initialized" /\ main = "idle"
    /\ consent = InitialConsent /\ writer = consent
    /\ context = [consent |-> consent, rum |-> 0]
    /\ attached = FALSE /\ scope = {}
    /\ queue = Nothing /\ open = [q \in Queue |-> "none"]
    /\ messaging = FALSE /\ relay = FALSE
    /\ calling = [t \in Thread |-> NoCall]
    /\ snapshot = 0
    /\ shadow = [consent |-> "pending", rum |-> 0]
    /\ report = TRUE
    /\ accepted = {} /\ handed = [e \in Event |-> NotHanded]
    /\ own = [l \in Log |-> NoCall] /\ last = [t \in Thread |-> NoCall]
    /\ number = [c \in Command |-> 0] /\ seen = [l \in Log |-> 0]
    /\ asked = [e \in CallEvent |-> 0]
    /\ changes = [begun |-> 0, done |-> 0, seen |-> 0]
    /\ stops = 0

\* What the main thread does of itself, once a call of Start(), Stop() or
\* SetTrackingConsent() is under way.
MainStep ==
    \/ StartFeature \/ StartMessaging
    \/ JoinContext \/ JoinBus \/ StopFeature \/ StopStorage \/ JoinStorage
    \/ UpdateContext

MainCall ==
    \/ Start \/ StopContext
    \/ \E v \in Choice : SetConsentStarted(v) \/ SetConsentStopped(v)

ApiCall(t) == (\E l \in Log : LogCall(t, l)) \/ (\E c \in Command : Dispatch(t, c))

\* Some thread that has something to do is scheduled, while the application
\* need not call anything.  (Each thread's own fairness implies it.)
ThreadStep ==
    \/ MainStep \/ \E t \in Thread : FinishDispatch(t)
    \/ ContextStep \/ MessagingStep \/ StorageStep

Next == MainCall \/ (\E t \in Thread : ApiCall(t)) \/ ThreadStep

Spec == Init /\ [][Next]_vars
FairSpec == Spec /\ WF_vars(ThreadStep)

-----------------------------------------------------------------------------
(* Properties *)

\* The variables have their types, and a queue that does not exist holds
\* nothing: Core::Stop() destroys a queue only when its thread has drained it.
TypeOK ==
    /\ state \in {"initialized", "started"}
    /\ main \in {"idle", "starting", "update", "joinContext", "joinBus", "stopping",
                 "joinStorage"}
    /\ consent \in Consent /\ writer \in Consent
    /\ context \in [consent : Consent, rum : Nat]
    /\ shadow  \in [consent : Consent, rum : Nat]
    /\ attached \in BOOLEAN /\ messaging \in BOOLEAN
    /\ relay \in BOOLEAN /\ report \in BOOLEAN
    /\ scope \subseteq Feature
    /\ open \in [Queue -> {"none", "open", "stopped"}]
    /\ \A q \in Queue : open[q] = "none" => queue[q] = <<>>
    /\ calling \in [Thread -> Command \cup {NoCall}]
    /\ snapshot \in Nat
    /\ accepted \subseteq CallEvent
    /\ handed \in [Event -> [as : Consent \cup {"none"}, at : Nat]]
    /\ own \in [Log -> Command \cup {NoCall}]
    /\ last \in [Thread -> Command \cup {NoCall}]
    /\ number \in [Command -> Nat] /\ seen \in [Log -> Nat]
    /\ asked \in [CallEvent -> 0 .. MaxChanges]
    /\ changes \in [begun : 0 .. MaxChanges, done : 0 .. MaxChanges, seen : Nat]
    /\ stops \in 0 .. MaxStops

\* When every thread has caught up, what SetTrackingConsent() and the last RUM
\* command changed has reached every copy of it: the BatchWriter's consent, the
\* CoreContext, and what CrashReporting would report of a crash.  The copies
\* travel through different queues and are changed by different threads.
AtRest ==
    /\ state = "started" /\ main = "idle"
    /\ queue = Nothing /\ ~relay /\ calling = [t \in Thread |-> NoCall]
AgreeAtRest ==
    AtRest => /\ writer = consent
              /\ context = [consent |-> consent, rum |-> snapshot]
              /\ shadow = context

\* The context thread runs a feature's work, and the messaging thread a handler
\* that dispatches work, only while the feature has its FeatureScope: the work
\* holds a bare pointer to it, and Rum's handlers use _scope without a test.
Owner(kind) == CASE kind = "log"     -> {"logging"}
                 [] kind = "process" -> {"crash"}
                 [] kind = "consent" -> {}
                 [] OTHER            -> {"rum"}
ScopeOutlivesWork ==
    /\ \A i \in DOMAIN queue["context"] : Owner(queue["context"][i].kind) \subseteq scope
    /\ (\E i \in DOMAIN queue["bus"] :
            messaging /\ queue["bus"][i].kind \in {"logError", "crashReport"})
       => "rum" \in scope
    /\ relay => "rum" \in scope

\* A log made after a RUM command of the same thread carries a RUM context that
\* reflects the command, although commands are processed, and their result is
\* copied to the CoreContext, asynchronously and with other threads' work between.
LogSeesOwnView ==
    \A l \in Log :
        (own[l] # NoCall /\ handed[Item("log", l)] # NotHanded) => seen[l] >= number[own[l]]

\* An event of a call made after SetTrackingConsent() returned is never filed
\* under an older consent, although the event passes through the context thread
\* and the consent does not.
ConsentBinds ==
    \A e \in CallEvent : handed[e] # NotHanded => handed[e].at >= asked[e]

\* What Core::Start() brings up in order, Core::Stop() takes down in order: a
\* queue is stopped only when no thread is left that could push accepted work to
\* it, but for what handlers of the messaging thread push to the context queue.
NoProducerLeft ==
    /\ open["storage"] # "open" => queue["context"] = <<>> /\ queue["bus"] = <<>>
    /\ open["bus"] # "open" => queue["context"] = <<>>

\* Start(), Stop() and SetTrackingConsent() return, no join waits for a thread
\* that waits for something else, and the event of every API call that was
\* accepted reaches the BatchWriter, also when Core::Stop() is called at once:
\* "This ensures all pending feature work completes before we stop the storage
\* thread" (core.cpp:636).
Underway == main # "idle" \/ \E e \in accepted : handed[e] = NotHanded
CallsTakeEffect == Underway ~> ~Underway

\* The report of a crash is deleted only when its event is on its way: "if the
\* application crashes in the very brief window between now and when the resulting
\* RUM event is flushed to disk, the crash report will be lost"
\* (crash_processing.cpp:532-535), that is, otherwise it is not.
Holds(q, item) == \E i \in DOMAIN queue[q] : queue[q][i] = item
ReportKept ==
    \/ report
    \/ Holds("bus", Item("crashReport", NoCall))
    \/ Holds("context", Item("crash", NoCall)) \/ Holds("storage", Item("crash", NoCall))
    \/ handed[Item("crash", NoCall)] # NotHanded

=============================================================================
