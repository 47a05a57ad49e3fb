------------------------ MODULE CorePipeline_proofs ------------------------
(***************************************************************************)
(* CorePipeline, for any threads and calls: the variables keep their       *)
(* types, a feature's work never outlives its FeatureScope, and Stop()     *)
(* takes a queue down only when nobody is left to push accepted work to it.*)
(* The order in which Start() and Stop() do things is in Phases: what is   *)
(* up and what is empty at each point of the main thread.                  *)
(*                                                                         *)
(* The copies of the consent and of the state of RUM agree when all        *)
(* threads have caught up, a log sees what its own thread did before it,   *)
(* and a change of the consent binds the calls after it.  These are about  *)
(* what is still in the queues: Copies says what the last item that        *)
(* changes each copy makes of it, Travels and Sights where a call and what *)
(* it relies on are, Filing how old a consent each queued event may meet.  *)
(***************************************************************************)
EXTENDS CorePipeline, FiniteSetTheorems, TLAPS

\* What each queue may hold.
ContextItem ==
    Event \cup {Item(k, NoCall) : k \in {"init", "refresh", "process"}}
          \cup {Item("consent", v) : v \in Consent}
BusItem ==
    {Item("changed", v) : v \in Consent} \cup {Item("rumState", n) : n \in Nat}
        \cup {Item("logError", l) : l \in ErrorLog} \cup {Item("crashReport", NoCall)}
StorageItem == Event \cup {Item("consent", v) : v \in Consent}

Holdable == [q \in Queue |-> CASE q = "context" -> Seq(ContextItem)
                               [] q = "bus"     -> Seq(BusItem)
                               [] q = "storage" -> Seq(StorageItem)]

QueuesTyped ==
    /\ DOMAIN queue = Queue /\ queue = [q \in Queue |-> queue[q]]
    /\ \A q \in Queue : queue[q] \in Holdable[q]

\* What is up, and what is empty, wherever the main thread is.
Phases ==
    /\ main # "idle" => state = "started"
    /\ state # "started" \/ main \notin {"idle", "update"} =>
          calling = [t \in Thread |-> NoCall]
    /\ messaging => scope = Feature
    /\ relay => messaging
    /\ state = "initialized" => open = [q \in Queue |-> "none"] /\ scope = {} /\ ~messaging
    /\ state = "started" /\ main \in {"idle", "update"} =>
          open = [q \in Queue |-> "open"] /\ messaging
    /\ main = "starting" => open = [q \in Queue |-> "open"] /\ ~messaging
    /\ main = "joinContext" =>
          /\ open["context"] = "stopped" /\ open["bus"] = "open" /\ open["storage"] = "open"
          /\ messaging
    /\ main = "joinBus" =>
          /\ open["context"] = "stopped" /\ open["bus"] = "stopped" /\ open["storage"] = "open"
          /\ queue["context"] = <<>> /\ messaging
    /\ main = "stopping" =>
          /\ open["context"] = "stopped" /\ open["bus"] = "stopped" /\ open["storage"] = "open"
          /\ queue["context"] = <<>> /\ queue["bus"] = <<>> /\ ~messaging
    /\ main = "joinStorage" =>
          /\ open["context"] = "none" /\ open["bus"] = "none" /\ open["storage"] = "stopped"
          /\ scope = {} /\ ~messaging

\* A queue that does not exist holds nothing (the last part of TypeOK).
NoneEmpty == \A q \in Queue : open[q] = "none" => queue[q] = <<>>

\* The features whose work is queued have their scopes.
OwnedWork ==
    \A i \in DOMAIN queue["context"] : Owner(queue["context"][i].kind) \subseteq scope

IInv == TypeOK /\ QueuesTyped /\ Phases /\ ScopeOutlivesWork

-----------------------------------------------------------------------------
(* Queues *)

\* A feature's work names a feature.
LEMMA OwnerIsFeature == \A kind : Owner(kind) \subseteq Feature
BY DEF Owner, Feature

\* The three queues.
LEMMA ThreeQueues ==
    /\ Queue = {"context", "bus", "storage"}
    /\ Holdable["context"] = Seq(ContextItem)
    /\ Holdable["bus"] = Seq(BusItem)
    /\ Holdable["storage"] = Seq(StorageItem)
BY DEF Queue, Holdable

\* Whatever is in a queue, appending to it and taking its head leaves it typed.
LEMMA SequenceFacts ==
    ASSUME NEW S
    PROVE  /\ <<>> \in Seq(S)
           /\ \A x \in S : <<x>> \in Seq(S)
           /\ \A s, t \in Seq(S) : s \o t \in Seq(S)
           /\ \A s \in Seq(S) : s # <<>> => Tail(s) \in Seq(S) /\ Head(s) \in S
OBVIOUS

\* What may be pushed: to each queue items that it may hold.
Pushable(out) == \A q \in Queue : out[q] \in Holdable[q]

LEMMA HoldableFacts ==
    ASSUME NEW q \in Queue
    PROVE  /\ <<>> \in Holdable[q]
           /\ \A s, t \in Holdable[q] : s \o t \in Holdable[q]
           /\ \A s \in Holdable[q] : s # <<>> => Tail(s) \in Holdable[q]
BY ThreeQueues, SequenceFacts

LEMMA NothingPushable == Pushable(Nothing)
BY HoldableFacts DEF Pushable, Nothing

LEMMA ToPushable ==
    ASSUME NEW q \in Queue, NEW items \in Holdable[q]
    PROVE  Pushable(To(q, items))
BY HoldableFacts DEF Pushable, To, Nothing

\* Push() keeps the queues typed, and leaves a queue that is not open alone.
LEMMA PushKeeps ==
    ASSUME NEW out, Pushable(out), QueuesTyped, Push(out)
    PROVE  /\ QueuesTyped'
           /\ \A q \in Queue : open[q] # "open" => queue'[q] = queue[q]
           /\ \A q \in Queue : out[q] = <<>> => queue'[q] = queue[q]
<1>1. \A q \in Queue : queue'[q] = Pushed(q, out)
  BY DEF Push
<1>2. \A q \in Queue : queue'[q] \in Holdable[q]
  BY <1>1, HoldableFacts DEF Pushed, Pushable, QueuesTyped
<1>3. \A q \in Queue : out[q] = <<>> => queue'[q] = queue[q]
  <2>1. \A S : \A s \in Seq(S) : s \o <<>> = s
    OBVIOUS
  <2>2. \A q \in Queue : queue[q] \o <<>> = queue[q]
    BY <2>1, ThreeQueues DEF QueuesTyped
  <2> QED BY <1>1, <2>2 DEF Pushed
<1> QED BY <1>1, <1>2, <1>3 DEF Push, Pushed, QueuesTyped

\* Handle() does so too, but for the queue whose head it takes.
LEMMA HandleKeeps ==
    ASSUME NEW q \in Queue, NEW out, Pushable(out), QueuesTyped, Handle(q, out)
    PROVE  /\ QueuesTyped'
           /\ queue[q] # <<>>
           /\ queue'[q] = Tail(queue[q])
           /\ \A r \in Queue \ {q} : open[r] # "open" => queue'[r] = queue[r]
           /\ \A r \in Queue \ {q} : out[r] = <<>> => queue'[r] = queue[r]
<1>1. queue[q] # <<>> /\ queue'[q] = Tail(queue[q])
  BY DEF Handle
<1>2. \A r \in Queue \ {q} : queue'[r] = Pushed(r, out)
  BY DEF Handle
<1>3. ASSUME NEW r \in Queue PROVE queue'[r] \in Holdable[r]
  <2>1. CASE r = q
    BY <2>1, <1>1, HoldableFacts DEF QueuesTyped
  <2>2. CASE r # q
    BY <2>2, <1>2, HoldableFacts DEF Pushed, Pushable, QueuesTyped
  <2> QED BY <2>1, <2>2
<1>4. \A r \in Queue \ {q} : out[r] = <<>> => queue'[r] = queue[r]
  <2>1. \A S : \A s \in Seq(S) : s \o <<>> = s
    OBVIOUS
  <2>2. \A r \in Queue : queue[r] \o <<>> = queue[r]
    BY <2>1, ThreeQueues DEF QueuesTyped
  <2> QED BY <1>2, <2>2 DEF Pushed
<1> QED BY <1>1, <1>2, <1>3, <1>4 DEF Handle, Pushed, QueuesTyped

-----------------------------------------------------------------------------
(* The initial states *)

LEMMA InitInv == Init => IInv
<1> SUFFICES ASSUME Init PROVE IInv
  OBVIOUS
<1> USE ConsentAssumption, BoundAssumption
<1>1. QueuesTyped
  BY HoldableFacts DEF Init, QueuesTyped, Nothing
<1>2. Phases
  BY ThreeQueues DEF Init, Phases
<1>3. ScopeOutlivesWork
  BY ThreeQueues DEF Init, ScopeOutlivesWork, Nothing
<1>4. TypeOK
  <2>1. handed \in [Event -> [as : Consent \cup {"none"}, at : Nat]]
    BY DEF Init, NotHanded
  <2>2. asked \in [CallEvent -> 0 .. MaxChanges]
    BY DEF Init
  <2>3. context \in [consent : Consent, rum : Nat] /\ shadow \in [consent : Consent, rum : Nat]
    BY DEF Init, Consent
  <2>4. open \in [Queue -> {"none", "open", "stopped"}]
        /\ \A q \in Queue : open[q] = "none" => queue[q] = <<>>
    BY DEF Init, Nothing
  <2>5. changes \in [begun : 0 .. MaxChanges, done : 0 .. MaxChanges, seen : Nat]
    BY DEF Init
  <2>6. /\ calling \in [Thread -> Command \cup {NoCall}] /\ last \in [Thread -> Command \cup {NoCall}]
        /\ own \in [Log -> Command \cup {NoCall}]
        /\ number \in [Command -> Nat] /\ seen \in [Log -> Nat]
    BY DEF Init
  <2>7. attached \in BOOLEAN /\ messaging \in BOOLEAN /\ relay \in BOOLEAN /\ report \in BOOLEAN
    BY DEF Init
  <2>8. /\ state \in {"initialized", "started"} /\ main = "idle"
        /\ consent \in Consent /\ writer \in Consent
        /\ scope \subseteq Feature /\ accepted \subseteq CallEvent
        /\ snapshot \in Nat /\ stops \in 0 .. MaxStops
    BY DEF Init
  <2> QED BY <2>1, <2>2, <2>3, <2>4, <2>5, <2>6, <2>7, <2>8 DEF TypeOK
<1> QED BY <1>1, <1>2, <1>3, <1>4 DEF IInv

-----------------------------------------------------------------------------
(* Steps that leave the main thread where it is *)

\* With a scope for every feature, or no work at all, all work is owned.
LEMMA OwnedTrivially ==
    (scope = Feature \/ queue["context"] = <<>>) => OwnedWork
<1>1. scope = Feature => OwnedWork
  BY OwnerIsFeature DEF OwnedWork
<1>2. queue["context"] = <<>> => OwnedWork
  BY DEF OwnedWork
<1> QED BY <1>1, <1>2

LEMMA ScopeFromOwned == Phases /\ OwnedWork => ScopeOutlivesWork
BY DEF Phases, OwnedWork, ScopeOutlivesWork, Feature

LEMMA OwnedFromScope == ScopeOutlivesWork => OwnedWork
BY DEF OwnedWork, ScopeOutlivesWork

\* A thread that handles an item does not disturb the main thread, and gives the
\* context thread work only if the messaging thread runs.
LEMMA HandleStep ==
    ASSUME TypeOK, Phases, QueuesTyped, ScopeOutlivesWork,
           NEW q \in Queue, NEW out, Pushable(out), Handle(q, out),
           UNCHANGED <<state, main, scope, open, messaging, calling>>,
           relay' => relay \/ messaging,
           out["context"] = <<>> \/ messaging
    PROVE  QueuesTyped' /\ Phases' /\ NoneEmpty' /\ ScopeOutlivesWork'
<1>1. /\ QueuesTyped'
      /\ queue[q] # <<>>
      /\ queue'[q] = Tail(queue[q])
      /\ \A r \in Queue \ {q} : open[r] # "open" => queue'[r] = queue[r]
      /\ \A r \in Queue \ {q} : out[r] = <<>> => queue'[r] = queue[r]
  BY HandleKeeps
<1>2. \A r \in Queue : open[r] # "open" /\ queue[r] = <<>> => queue'[r] = <<>>
  BY <1>1
<1>3. Phases'
  BY <1>2, ThreeQueues DEF Phases
<1>4. NoneEmpty'
  BY <1>2 DEF NoneEmpty, TypeOK
<1>5. OwnedWork'
  <2>1. CASE scope = Feature
    BY <2>1, OwnerIsFeature DEF OwnedWork
  <2>2. CASE scope # Feature
    <3>1. out["context"] = <<>>
      BY <2>2 DEF Phases
    <3>2. CASE q # "context"
      BY <3>1, <3>2, <1>1, OwnedFromScope, ThreeQueues DEF OwnedWork
    <3>3. CASE q = "context"
      <4>1. queue["context"] \in Seq(ContextItem) /\ queue["context"] # <<>>
        BY <1>1, <3>3, ThreeQueues DEF QueuesTyped
      <4>2. \A i \in DOMAIN Tail(queue["context"]) :
                /\ i + 1 \in DOMAIN queue["context"]
                /\ Tail(queue["context"])[i] = queue["context"][i + 1]
        BY <4>1
      <4> QED BY <4>2, <1>1, <3>3, OwnedFromScope DEF OwnedWork
    <3> QED BY <3>2, <3>3
  <2> QED BY <2>1, <2>2
<1>6. ScopeOutlivesWork'
  BY <1>3, <1>5, ScopeFromOwned, PTL
<1> QED BY <1>1, <1>3, <1>4, <1>6

\* So does a thread that pushes, when the core is up.
LEMMA PushStep ==
    ASSUME TypeOK, Phases, QueuesTyped, ScopeOutlivesWork,
           NEW out, Pushable(out), Push(out), messaging,
           main \in {"idle", "update"} \/ calling' = calling,
           state' = state, scope' = scope, open' = open, messaging' = messaging,
           main' = main \/ (main' \in {"idle", "update"} /\ main \in {"idle", "update"}),
           relay' \in BOOLEAN
    PROVE  QueuesTyped' /\ Phases' /\ NoneEmpty' /\ ScopeOutlivesWork'
<1>1. /\ QueuesTyped'
      /\ \A r \in Queue : open[r] # "open" => queue'[r] = queue[r]
  BY PushKeeps
<1>2. state = "started" /\ state' = "started" /\ scope' = Feature /\ messaging'
  BY DEF Phases, TypeOK
<1>3. Phases'
  <2>1. CASE main \in {"idle", "update"}
    <3>1. main' \in {"idle", "update"} /\ open' = [q \in Queue |-> "open"]
      BY <1>2, <2>1 DEF Phases
    <3> QED BY <1>2, <3>1 DEF Phases
  <2>2. CASE main \notin {"idle", "update"}
    <3>1. main' = main /\ main \in {"joinContext", "joinBus"} /\ calling' = [t \in Thread |-> NoCall]
      BY <1>2, <2>2 DEF Phases, TypeOK
    <3> QED BY <1>1, <1>2, <2>2, <3>1, ThreeQueues DEF Phases
  <2> QED BY <2>1, <2>2
<1>4. NoneEmpty'
  BY <1>1 DEF NoneEmpty, TypeOK
<1>5. OwnedWork'
  BY OwnerIsFeature DEF OwnedWork, Phases
<1>6. ScopeOutlivesWork'
  BY <1>3, <1>5, ScopeFromOwned, PTL
<1> QED BY <1>1, <1>3, <1>4, <1>6

-----------------------------------------------------------------------------
(* The context thread *)

\* TypeOK but for NoneEmpty, which is about queues and not about types.
Types ==
    /\ state \in {"initialized", "started"}
    /\ main \in {"idle", "starting", "update", "joinContext", "joinBus", "stopping",
                 "joinStorage"}
    /\ consent \in Consent /\ writer \in Consent
    /\ context \in [consent : Consent, rum : Nat]
    /\ shadow  \in [consent : Consent, rum : Nat]
    /\ attached \in BOOLEAN /\ messaging \in BOOLEAN
    /\ relay \in BOOLEAN /\ report \in BOOLEAN
    /\ scope \subseteq Feature
    /\ open \in [Queue -> {"none", "open", "stopped"}]
    /\ calling \in [Thread -> Command \cup {NoCall}]
    /\ snapshot \in Nat
    /\ accepted \subseteq CallEvent
    /\ handed \in [Event -> [as : Consent \cup {"none"}, at : Nat]]
    /\ own \in [Log -> Command \cup {NoCall}]
    /\ last \in [Thread -> Command \cup {NoCall}]
    /\ number \in [Command -> Nat] /\ seen \in [Log -> Nat]
    /\ asked \in [CallEvent -> 0 .. MaxChanges]
    /\ changes \in [begun : 0 .. MaxChanges, done : 0 .. MaxChanges, seen : Nat]
    /\ stops \in 0 .. MaxStops

LEMMA TypeParts == TypeOK <=> Types /\ NoneEmpty
BY DEF TypeOK, Types, NoneEmpty

LEMMA ToBoth ==
    ASSUME NEW s \in Seq(StorageItem), NEW b \in Seq(BusItem)
    PROVE  LET out == [Nothing EXCEPT !["storage"] = s, !["bus"] = b]
           IN  Pushable(out) /\ out["context"] = <<>>
BY ThreeQueues, HoldableFacts DEF Pushable, Nothing

LEMMA ToOne ==
    /\ \A s \in Seq(StorageItem) : Pushable(To("storage", s)) /\ To("storage", s)["context"] = <<>>
    /\ \A b \in Seq(BusItem) : Pushable(To("bus", b)) /\ To("bus", b)["context"] = <<>>
    /\ \A c \in Seq(ContextItem) : Pushable(To("context", c))
    /\ Pushable(Nothing) /\ Nothing["context"] = <<>>
BY ThreeQueues, HoldableFacts DEF Pushable, To, Nothing

LEMMA WrittenType == \A e \in Event : Written(e) \in Seq(StorageItem)
BY SequenceFacts DEF Written, StorageItem

\* What a step of a queue's thread leaves to be shown.
LEMMA HandleInv ==
    ASSUME IInv, NEW q \in Queue, NEW out, Pushable(out), Handle(q, out),
           out["context"] = <<>> \/ messaging,
           UNCHANGED <<state, main, scope, open, messaging, calling>>,
           relay' => relay \/ messaging, Types'
    PROVE  IInv'
<1>1. TypeOK /\ Phases /\ QueuesTyped /\ ScopeOutlivesWork
  BY DEF IInv
<1>2. QueuesTyped' /\ Phases' /\ NoneEmpty' /\ ScopeOutlivesWork'
  BY <1>1, HandleStep
<1>3. TypeOK'
  BY <1>2, TypeParts, PTL
<1> QED BY <1>2, <1>3 DEF IInv

LEMMA RunLogInv == ASSUME IInv, NEW l \in Log, RunLog(l) PROVE IInv'
<1> DEFINE b == IF l \in ErrorLog THEN <<Item("logError", l)>> ELSE <<>>
           s == Written(Item("log", l))
<1>1. b \in Seq(BusItem) /\ s \in Seq(StorageItem)
  <2>1. Item("log", l) \in Event
    BY DEF Event, CallEvent
  <2>2. l \in ErrorLog => Item("logError", l) \in BusItem
    BY DEF BusItem
  <2> QED BY <2>1, <2>2, WrittenType, SequenceFacts
<1>2. Handle("context", [Nothing EXCEPT !["storage"] = s, !["bus"] = b])
  BY DEF RunLog, Runs
<1>3. Types'
  BY DEF RunLog, IInv, TypeOK, Types, coreVars, historyVars
<1> HIDE DEF b, s
<1> QED BY <1>1, <1>2, <1>3, ToBoth, ThreeQueues, HandleInv DEF RunLog, coreVars, historyVars

\* A step that processes a RUM command, or an error's, up to what it does to number.
LEMMA ProcessInv ==
    ASSUME IInv, NEW e \in Event, Process(e), number' \in [Command -> Nat]
    PROVE  IInv'
<1> DEFINE b == <<Item("rumState", snapshot + 1)>>
           s == Written(e)
<1>1. b \in Seq(BusItem) /\ s \in Seq(StorageItem)
  <2>1. snapshot + 1 \in Nat
    BY DEF IInv, TypeOK
  <2>2. Item("rumState", snapshot + 1) \in BusItem
    BY <2>1 DEF BusItem
  <2> QED BY <2>2, WrittenType, SequenceFacts
<1>2. Handle("context", [Nothing EXCEPT !["storage"] = s, !["bus"] = b])
  BY DEF Process, Runs
<1>3. Types'
  BY DEF Process, IInv, TypeOK, Types, coreVars, historyVars
<1> HIDE DEF b, s
<1> QED BY <1>1, <1>2, <1>3, ToBoth, ThreeQueues, HandleInv DEF Process, coreVars, historyVars

LEMMA RunCommandInv == ASSUME IInv, NEW c \in Command, RunCommand(c) PROVE IInv'
<1>1. Item("command", c) \in Event
  BY DEF Event, CallEvent
<1>2. number' \in [Command -> Nat]
  BY DEF RunCommand, IInv, TypeOK
<1> QED BY <1>1, <1>2, ProcessInv DEF RunCommand

LEMMA RunErrorInv == ASSUME IInv, NEW l \in ErrorLog, RunError(l) PROVE IInv'
<1>1. Item("error", l) \in Event
  BY DEF Event, OtherEvent
<1>2. number' \in [Command -> Nat]
  BY DEF RunError, IInv, TypeOK
<1> QED BY <1>1, <1>2, ProcessInv DEF RunError

LEMMA RunInitInv == ASSUME IInv, RunInit PROVE IInv'
<1> DEFINE b == <<Item("rumState", 0)>>
<1>1. b \in Seq(BusItem)
  BY SequenceFacts DEF BusItem
<1>2. Handle("context", To("bus", b))
  BY DEF RunInit, Runs
<1>3. Types'
  BY DEF RunInit, IInv, TypeOK, Types, coreVars, historyVars
<1> HIDE DEF b
<1> QED BY <1>1, <1>2, <1>3, ToOne, ThreeQueues, HandleInv DEF RunInit, coreVars, historyVars

\* An update of the context to a context that has a consent and a RUM part.
LEMMA UpdateInv ==
    ASSUME IInv, NEW new \in [consent : Consent, rum : Nat], Update(new)
    PROVE  IInv'
<1> DEFINE b == IF attached THEN <<Changed(new)>> ELSE <<>>
<1>1. b \in Seq(BusItem)
  <2>1. Changed(new) \in BusItem
    BY DEF BusItem, Changed
  <2> QED BY <2>1, SequenceFacts
<1>2. Handle("context", To("bus", b))
  BY DEF Update, Runs
<1>3. Types'
  BY DEF Update, IInv, TypeOK, Types, coreVars, historyVars
<1> HIDE DEF b
<1> QED BY <1>1, <1>2, <1>3, ToOne, ThreeQueues, HandleInv DEF Update, coreVars, historyVars

LEMMA RunRefreshInv == ASSUME IInv, RunRefresh PROVE IInv'
<1>1. [context EXCEPT !.rum = snapshot] \in [consent : Consent, rum : Nat]
  BY DEF IInv, TypeOK
<1> QED BY <1>1, UpdateInv DEF RunRefresh

LEMMA RunConsentInv == ASSUME IInv, NEW v \in Consent, RunConsent(v) PROVE IInv'
<1>1. [context EXCEPT !.consent = v] \in [consent : Consent, rum : Nat]
  BY DEF IInv, TypeOK
<1> QED BY <1>1, UpdateInv DEF RunConsent

LEMMA RunProcessInv == ASSUME IInv, RunProcess PROVE IInv'
<1> DEFINE b == IF report THEN <<Item("crashReport", NoCall)>> ELSE <<>>
<1>1. b \in Seq(BusItem)
  <2>1. Item("crashReport", NoCall) \in BusItem
    BY DEF BusItem
  <2> QED BY <2>1, SequenceFacts
<1>2. Handle("context", To("bus", b))
  BY DEF RunProcess, Runs
<1>3. Types'
  BY DEF RunProcess, IInv, TypeOK, Types, coreVars, historyVars
<1> HIDE DEF b
<1> QED BY <1>1, <1>2, <1>3, ToOne, ThreeQueues, HandleInv DEF RunProcess, coreVars, historyVars

LEMMA RunCrashInv == ASSUME IInv, RunCrash PROVE IInv'
<1> DEFINE s == Written(Item("crash", NoCall))
<1>1. s \in Seq(StorageItem)
  BY WrittenType DEF Event, OtherEvent
<1>2. Handle("context", To("storage", s))
  BY DEF RunCrash, Runs
<1>3. Types'
  BY DEF RunCrash, IInv, TypeOK, Types, coreVars, historyVars
<1> HIDE DEF s
<1> QED BY <1>1, <1>2, <1>3, ToOne, ThreeQueues, HandleInv DEF RunCrash, coreVars, historyVars

LEMMA ContextStepInv == IInv /\ ContextStep => IInv'
BY RunLogInv, RunCommandInv, RunErrorInv, RunInitInv, RunRefreshInv, RunProcessInv,
   RunCrashInv, RunConsentInv DEF ContextStep

-----------------------------------------------------------------------------
(* The messaging thread *)

LEMMA HearContextInv == ASSUME IInv, NEW v \in Consent, HearContext(v) PROVE IInv'
<1>1. Handle("bus", Nothing)
  BY DEF HearContext, Receives
<1>2. Types'
  BY DEF HearContext, IInv, TypeOK, Types, coreVars, historyVars
<1> QED BY <1>1, <1>2, ToOne, ThreeQueues, HandleInv DEF HearContext, coreVars, historyVars

LEMMA HearRumStateInv == ASSUME IInv, HearRumState PROVE IInv'
<1>1. Handle("bus", Nothing)
  BY DEF HearRumState, Receives
<1>2. First("bus") \in BusItem
  BY SequenceFacts, ThreeQueues DEF HearRumState, IInv, QueuesTyped, First
<1>3. First("bus").of \in Nat
  BY <1>2 DEF HearRumState, BusItem, Item
<1>4. Types'
  BY <1>3 DEF HearRumState, IInv, TypeOK, Types, coreVars, historyVars
<1> QED BY <1>1, <1>4, ToOne, ThreeQueues, HandleInv DEF HearRumState, coreVars, historyVars

LEMMA HearLogErrorInv == ASSUME IInv, NEW l \in ErrorLog, HearLogError(l) PROVE IInv'
<1> DEFINE c == <<Item("error", l)>>
<1>1. c \in Seq(ContextItem)
  BY SequenceFacts DEF ContextItem, Event, OtherEvent
<1>2. Handle("bus", To("context", c)) /\ messaging
  BY DEF HearLogError, Receives
<1>3. Types'
  BY DEF HearLogError, IInv, TypeOK, Types, coreVars, historyVars
<1> HIDE DEF c
<1> QED BY <1>1, <1>2, <1>3, ToOne, ThreeQueues, HandleInv DEF HearLogError, coreVars, historyVars

LEMMA HearCrashReportInv == ASSUME IInv, HearCrashReport PROVE IInv'
<1> DEFINE c == <<Item("crash", NoCall)>>
<1>1. c \in Seq(ContextItem)
  BY SequenceFacts DEF ContextItem, Event, OtherEvent
<1>2. Handle("bus", To("context", c)) /\ messaging
  BY DEF HearCrashReport, Receives
<1>3. Types'
  BY DEF HearCrashReport, IInv, TypeOK, Types, coreVars, historyVars
<1> HIDE DEF c
<1> QED BY <1>1, <1>2, <1>3, ToOne, ThreeQueues, HandleInv DEF HearCrashReport, coreVars, historyVars

\* What a step that pushes leaves to be shown.
LEMMA PushInv ==
    ASSUME IInv, NEW q \in Queue, NEW items \in Holdable[q], Push(To(q, items)), messaging,
           main \in {"idle", "update"} \/ calling' = calling,
           state' = state, scope' = scope, open' = open, messaging' = messaging,
           main' = main \/ (main' \in {"idle", "update"} /\ main \in {"idle", "update"}),
           Types'
    PROVE  IInv'
<1>1. TypeOK /\ Phases /\ QueuesTyped /\ ScopeOutlivesWork /\ relay' \in BOOLEAN
  BY DEF IInv, Types
<1>2. Pushable(To(q, items))
  BY ToPushable
<1>3. QueuesTyped' /\ Phases' /\ NoneEmpty' /\ ScopeOutlivesWork'
  BY <1>1, <1>2, PushStep
<1>4. TypeOK'
  BY <1>3, TypeParts, PTL
<1> QED BY <1>3, <1>4 DEF IInv

LEMMA RelayRefreshInv == ASSUME IInv, RelayRefresh PROVE IInv'
<1>1. <<Item("refresh", NoCall)>> \in Holdable["context"]
  BY SequenceFacts, ThreeQueues DEF ContextItem
<1>2. Types'
  BY DEF RelayRefresh, IInv, TypeOK, Types, coreVars, historyVars
<1>3. messaging
  BY DEF RelayRefresh, IInv, Phases
<1> QED BY <1>1, <1>2, <1>3, ThreeQueues, PushInv DEF RelayRefresh, coreVars

LEMMA MessagingStepInv == IInv /\ MessagingStep => IInv'
BY HearContextInv, HearLogErrorInv, HearRumStateInv, RelayRefreshInv, HearCrashReportInv
   DEF MessagingStep

-----------------------------------------------------------------------------
(* The storage thread *)

LEMMA StoreConsentInv == ASSUME IInv, NEW v \in Consent, StoreConsent(v) PROVE IInv'
<1>1. Handle("storage", Nothing)
  BY DEF StoreConsent, Stores
<1>2. changes' \in [begun : 0 .. MaxChanges, done : 0 .. MaxChanges, seen : Nat]
  <2>1. changes' = [changes EXCEPT !.seen = @ + 1]
    BY DEF StoreConsent
  <2>2. changes \in [begun : 0 .. MaxChanges, done : 0 .. MaxChanges, seen : Nat]
    BY DEF IInv, TypeOK
  <2> QED BY <2>1, <2>2
<1>3. Types'
  BY <1>2 DEF StoreConsent, IInv, TypeOK, Types, coreVars, historyVars
<1> QED BY <1>1, <1>3, ToOne, ThreeQueues, HandleInv DEF StoreConsent, coreVars, historyVars

LEMMA StoreEventInv == ASSUME IInv, NEW e \in Event, StoreEvent(e) PROVE IInv'
<1>1. Handle("storage", Nothing)
  BY DEF StoreEvent, Stores
<1>2. handed' \in [Event -> [as : Consent \cup {"none"}, at : Nat]]
  <2> DEFINE as == IF e.kind = "crash" THEN "granted" ELSE writer
  <2>1. as \in Consent /\ changes.seen \in Nat
    BY DEF IInv, TypeOK, Consent
  <2>2. handed' = [handed EXCEPT ![e] = [as |-> as, at |-> changes.seen]]
    BY DEF StoreEvent
  <2> HIDE DEF as
  <2> QED BY <2>1, <2>2 DEF IInv, TypeOK
<1>3. Types'
  BY <1>2 DEF StoreEvent, IInv, TypeOK, Types, coreVars, historyVars
<1> QED BY <1>1, <1>3, ToOne, ThreeQueues, HandleInv DEF StoreEvent, coreVars, historyVars

LEMMA StorageStepInv == IInv /\ StorageStep => IInv'
BY StoreConsentInv, StoreEventInv DEF StorageStep

-----------------------------------------------------------------------------
(* The main thread *)

\* A call or a return of the main thread that pushes.
LEMMA UpdateContextInv == ASSUME IInv, UpdateContext PROVE IInv'
<1>1. <<Item("consent", consent)>> \in Holdable["context"]
  BY SequenceFacts, ThreeQueues DEF ContextItem, IInv, TypeOK
<1>2. changes' \in [begun : 0 .. MaxChanges, done : 0 .. MaxChanges, seen : Nat]
  <2>1. changes' = [changes EXCEPT !.done = changes.begun]
    BY DEF UpdateContext
  <2>2. changes \in [begun : 0 .. MaxChanges, done : 0 .. MaxChanges, seen : Nat]
    BY DEF IInv, TypeOK
  <2> QED BY <2>1, <2>2
<1>3. Types'
  BY <1>2 DEF UpdateContext, IInv, TypeOK, Types, historyVars
<1>4. messaging
  BY DEF UpdateContext, IInv, Phases
<1> QED BY <1>1, <1>3, <1>4, ThreeQueues, PushInv DEF UpdateContext

LEMMA SetConsentStartedInv == ASSUME IInv, NEW v \in Choice, SetConsentStarted(v) PROVE IInv'
<1>1. v \in Consent /\ <<Item("consent", v)>> \in Holdable["storage"]
  BY ConsentAssumption, SequenceFacts, ThreeQueues DEF StorageItem
<1>2. changes' \in [begun : 0 .. MaxChanges, done : 0 .. MaxChanges, seen : Nat]
  <2>1. changes' = [changes EXCEPT !.begun = @ + 1] /\ changes.begun < MaxChanges
    BY DEF SetConsentStarted
  <2>2. changes \in [begun : 0 .. MaxChanges, done : 0 .. MaxChanges, seen : Nat]
    BY DEF IInv, TypeOK
  <2> QED BY <2>1, <2>2, BoundAssumption
<1>3. Types'
  BY <1>1, <1>2 DEF SetConsentStarted, IInv, TypeOK, Types, historyVars
<1>4. messaging
  BY DEF SetConsentStarted, IInv, Phases
<1> QED BY <1>1, <1>3, <1>4, ThreeQueues, PushInv DEF SetConsentStarted

\* What a step that leaves the queues alone leaves to be shown.
LEMMA StandInv ==
    ASSUME IInv, queue' = queue, Types', Phases', NoneEmpty',
           scope' = scope \/ queue["context"] = <<>>
    PROVE  IInv'
<1>1. QueuesTyped'
  BY DEF IInv, QueuesTyped
<1>2. OwnedWork'
  BY OwnedFromScope DEF IInv, OwnedWork
<1>3. ScopeOutlivesWork' /\ TypeOK'
  BY <1>2, ScopeFromOwned, TypeParts, PTL
<1> QED BY <1>1, <1>3 DEF IInv

LEMMA SetConsentStoppedInv == ASSUME IInv, NEW v \in Choice, SetConsentStopped(v) PROVE IInv'
<1>1. v \in Consent
  BY ConsentAssumption
<1>2. changes' \in [begun : 0 .. MaxChanges, done : 0 .. MaxChanges, seen : Nat]
  <2>1. /\ changes' = [begun |-> changes.begun + 1, done |-> changes.begun + 1,
                       seen |-> changes.begun + 1]
        /\ changes.begun < MaxChanges
    BY DEF SetConsentStopped
  <2>2. changes.begun \in 0 .. MaxChanges
    BY DEF IInv, TypeOK
  <2>3. changes.begun + 1 \in 0 .. MaxChanges /\ changes.begun + 1 \in Nat
    BY <2>1, <2>2, BoundAssumption
  <2> QED BY <2>1, <2>3
<1>3. Types'
  BY <1>1, <1>2 DEF SetConsentStopped, IInv, TypeOK, Types, historyVars
<1>4. Phases'
  BY DEF SetConsentStopped, IInv, Phases
<1>5. NoneEmpty'
  BY DEF SetConsentStopped, IInv, TypeOK, NoneEmpty
<1> QED BY <1>3, <1>4, <1>5, StandInv DEF SetConsentStopped

LEMMA StartInv == ASSUME IInv, Start PROVE IInv'
<1> DEFINE b == <<Changed(context')>>
<1>1. queue' = [queue EXCEPT !["bus"] = b]
  BY DEF Start
<1>2. context' \in [consent : Consent, rum : Nat]
  BY DEF Start, IInv, TypeOK
<1>3. b \in Seq(BusItem)
  <2>1. Changed(context') \in BusItem
    BY <1>2 DEF Changed, BusItem
  <2> QED BY <2>1, SequenceFacts
<1> HIDE DEF b
<1>4. QueuesTyped'
  BY <1>1, <1>3, ThreeQueues DEF IInv, QueuesTyped
<1>5. Types'
  BY <1>2 DEF Start, IInv, TypeOK, Types
<1>6. Phases'
  BY DEF Start, IInv, Phases
<1>7. NoneEmpty'
  BY DEF Start, NoneEmpty
<1>8. OwnedWork'
  <2>1. queue["context"] = <<>>
    BY ThreeQueues DEF Start, IInv, Phases, TypeOK
  <2>2. queue'["context"] = <<>>
    BY <1>1, <2>1, ThreeQueues DEF IInv, QueuesTyped
  <2> QED BY <2>2 DEF OwnedWork
<1>9. ScopeOutlivesWork' /\ TypeOK'
  BY <1>5, <1>6, <1>7, <1>8, ScopeFromOwned, TypeParts, PTL
<1> QED BY <1>4, <1>6, <1>9 DEF IInv

\* There is a next feature to start as long as one has no scope.
LEMMA NextFeature ==
    ASSUME scope \subseteq Feature, scope # Feature
    PROVE  Registered[Cardinality(scope) + 1] \in Feature
<1>1. IsFiniteSet(Feature) /\ Cardinality(Feature) = 3
  <2>1. IsFiniteSet({"rum"}) /\ Cardinality({"rum"}) = 1
    BY FS_Singleton
  <2>2. IsFiniteSet({"rum"} \cup {"logging"}) /\ Cardinality({"rum"} \cup {"logging"}) = 2
    BY <2>1, FS_AddElement
  <2>3. /\ IsFiniteSet({"rum"} \cup {"logging"} \cup {"crash"})
        /\ Cardinality({"rum"} \cup {"logging"} \cup {"crash"}) = 3
    BY <2>2, FS_AddElement
  <2>4. Feature = {"rum"} \cup {"logging"} \cup {"crash"}
    BY DEF Feature
  <2> QED BY <2>3, <2>4
<1>2. IsFiniteSet(scope) /\ Cardinality(scope) <= 3 /\ Cardinality(scope) # 3
  BY <1>1, FS_Subset
<1>3. Cardinality(scope) \in Nat
  BY <1>2, FS_CardinalityType
<1>4. Cardinality(scope) + 1 \in 1 .. 3
  BY <1>2, <1>3
<1> QED BY <1>4, OrderAssumption

LEMMA StartFeatureInv == ASSUME IInv, StartFeature PROVE IInv'
<1> DEFINE f == Registered[Cardinality(scope) + 1]
           work == CASE f = "rum"     -> <<Item("init", NoCall), Item("refresh", NoCall)>>
                     [] f = "crash"   -> <<Item("process", NoCall)>>
                     [] f = "logging" -> <<>>
<1>1. f \in Feature
  BY NextFeature DEF StartFeature, IInv, TypeOK
<1>2. scope' = scope \cup {f} /\ Push(To("context", work))
  BY DEF StartFeature
<1>3. /\ work \in Seq(ContextItem)
      /\ \A i \in DOMAIN work : Owner(work[i].kind) \subseteq {f}
  <2>1. CASE f = "rum"
    <3>1. /\ Item("init", NoCall) \in ContextItem /\ Owner(Item("init", NoCall).kind) = {"rum"}
          /\ Item("refresh", NoCall) \in ContextItem
          /\ Owner(Item("refresh", NoCall).kind) = {"rum"}
      BY DEF ContextItem, Owner, Item
    <3>2. work = <<Item("init", NoCall), Item("refresh", NoCall)>>
      BY <2>1
    <3> HIDE DEF work
    <3> QED BY <2>1, <3>1, <3>2
  <2>2. CASE f = "crash"
    <3>1. /\ Item("process", NoCall) \in ContextItem
          /\ Owner(Item("process", NoCall).kind) = {"crash"}
      BY DEF ContextItem, Owner, Item
    <3>2. work = <<Item("process", NoCall)>>
      BY <2>2
    <3> HIDE DEF work
    <3> QED BY <2>2, <3>1, <3>2
  <2>3. CASE f = "logging"
    BY <2>3
  <2> QED BY <1>1, <2>1, <2>2, <2>3 DEF Feature
<1> HIDE DEF work, f
<1>4. Pushable(To("context", work))
  BY <1>3, ToOne
<1>5. /\ QueuesTyped'
      /\ \A r \in Queue : open[r] # "open" => queue'[r] = queue[r]
  BY <1>2, <1>4, PushKeeps DEF IInv
<1>6. Types'
  BY <1>1, <1>2 DEF StartFeature, IInv, TypeOK, Types, historyVars
<1>7. Phases'
  BY DEF StartFeature, IInv, Phases
<1>8. NoneEmpty'
  BY <1>5 DEF StartFeature, IInv, TypeOK, NoneEmpty
<1>9. OwnedWork'
  <2>1. queue'["context"] = queue["context"] \o work
    BY <1>2, ThreeQueues DEF Push, Pushed, To, Nothing, StartFeature, IInv, Phases
  <2>2. queue["context"] \in Seq(ContextItem)
    BY ThreeQueues DEF IInv, QueuesTyped
  <2>3. \A i \in DOMAIN queue["context"] : Owner(queue["context"][i].kind) \subseteq scope
    BY DEF IInv, ScopeOutlivesWork
  <2>4. ASSUME NEW i \in DOMAIN queue'["context"]
        PROVE  Owner(queue'["context"][i].kind) \subseteq scope'
    <3>1. CASE i \in DOMAIN queue["context"]
      <4>1. queue'["context"][i] = queue["context"][i]
        BY <1>3, <2>1, <2>2, <3>1
      <4> QED BY <1>2, <2>3, <3>1, <4>1
    <3>2. CASE i \notin DOMAIN queue["context"]
      <4>1. PICK j \in DOMAIN work : queue'["context"][i] = work[j]
        <5>1. i - Len(queue["context"]) \in DOMAIN work
          BY <1>3, <2>1, <2>2, <3>2
        <5>2. queue'["context"][i] = work[i - Len(queue["context"])]
          BY <1>3, <2>1, <2>2, <3>2
        <5> QED BY <5>1, <5>2
      <4> QED BY <1>2, <1>3, <4>1
    <3> QED BY <3>1, <3>2
  <2> QED BY <2>4 DEF OwnedWork
<1>10. ScopeOutlivesWork' /\ TypeOK'
  BY <1>6, <1>7, <1>8, <1>9, ScopeFromOwned, TypeParts, PTL
<1> QED BY <1>5, <1>7, <1>10 DEF IInv

LEMMA StartMessagingInv == ASSUME IInv, StartMessaging PROVE IInv'
<1>1. Types'
  BY DEF StartMessaging, IInv, TypeOK, Types, historyVars
<1>2. Phases'
  BY DEF StartMessaging, IInv, Phases
<1>3. NoneEmpty'
  BY DEF StartMessaging, IInv, TypeOK, NoneEmpty
<1> QED BY <1>1, <1>2, <1>3, StandInv DEF StartMessaging

LEMMA StopContextInv == ASSUME IInv, StopContext PROVE IInv'
<1>1. stops' \in 0 .. MaxStops
  BY BoundAssumption DEF StopContext, IInv, TypeOK
<1>2. Types'
  BY <1>1 DEF StopContext, IInv, TypeOK, Types, historyVars
<1>3. Phases'
  BY ThreeQueues DEF StopContext, IInv, Phases
<1>4. NoneEmpty'
  BY ThreeQueues DEF StopContext, IInv, TypeOK, NoneEmpty
<1> QED BY <1>2, <1>3, <1>4, StandInv DEF StopContext

LEMMA JoinContextInv == ASSUME IInv, JoinContext PROVE IInv'
<1>1. Types'
  BY DEF JoinContext, IInv, TypeOK, Types, historyVars
<1>2. Phases'
  BY ThreeQueues DEF JoinContext, Drained, IInv, Phases, TypeOK
<1>3. NoneEmpty'
  BY ThreeQueues DEF JoinContext, IInv, TypeOK, NoneEmpty
<1> QED BY <1>1, <1>2, <1>3, StandInv DEF JoinContext

LEMMA JoinBusInv == ASSUME IInv, JoinBus PROVE IInv'
<1>1. Types'
  BY DEF JoinBus, IInv, TypeOK, Types, historyVars
<1>2. Phases'
  BY ThreeQueues DEF JoinBus, Drained, IInv, Phases
<1>3. NoneEmpty'
  BY DEF JoinBus, IInv, TypeOK, NoneEmpty
<1> QED BY <1>1, <1>2, <1>3, StandInv DEF JoinBus

LEMMA StopFeatureInv == ASSUME IInv, StopFeature PROVE IInv'
<1>1. Types'
  BY DEF StopFeature, IInv, TypeOK, Types, historyVars
<1>2. Phases' /\ queue["context"] = <<>>
  BY DEF StopFeature, IInv, Phases
<1>3. NoneEmpty'
  BY DEF StopFeature, IInv, TypeOK, NoneEmpty
<1> QED BY <1>1, <1>2, <1>3, StandInv DEF StopFeature

LEMMA StopStorageInv == ASSUME IInv, StopStorage PROVE IInv'
<1>1. Types'
  BY DEF StopStorage, IInv, TypeOK, Types, historyVars
<1>2. Phases'
  BY ThreeQueues DEF StopStorage, IInv, Phases
<1>3. NoneEmpty'
  BY ThreeQueues DEF StopStorage, IInv, Phases, NoneEmpty
<1> QED BY <1>1, <1>2, <1>3, StandInv DEF StopStorage

LEMMA JoinStorageInv == ASSUME IInv, JoinStorage PROVE IInv'
<1>1. Types'
  BY DEF JoinStorage, IInv, TypeOK, Types, historyVars
<1>2. Phases'
  BY ThreeQueues DEF JoinStorage, IInv, Phases, TypeOK
<1>3. NoneEmpty'
  BY ThreeQueues DEF JoinStorage, Drained, IInv, TypeOK, NoneEmpty
<1> QED BY <1>1, <1>2, <1>3, StandInv DEF JoinStorage

LEMMA MainInv == IInv /\ (MainStep \/ MainCall) => IInv'
BY StartFeatureInv, StartMessagingInv, JoinContextInv, JoinBusInv, StopFeatureInv,
   StopStorageInv, JoinStorageInv, UpdateContextInv, StartInv, StopContextInv,
   SetConsentStartedInv, SetConsentStoppedInv DEF MainStep, MainCall

-----------------------------------------------------------------------------
(* The threads that call the API *)

LEMMA AcceptType ==
    ASSUME TypeOK, NEW e \in CallEvent, Accept(e)
    PROVE  /\ accepted' \subseteq CallEvent
           /\ asked' \in [CallEvent -> 0 .. MaxChanges]
<1>1. changes.done \in 0 .. MaxChanges
  BY DEF TypeOK
<1>2. asked' = [asked EXCEPT ![e] = changes.done]
  BY DEF Accept
<1>3. asked' \in [CallEvent -> 0 .. MaxChanges]
  BY <1>1, <1>2 DEF TypeOK
<1> QED BY <1>3 DEF Accept, TypeOK

LEMMA LogCallInv == ASSUME IInv, NEW t \in Thread, NEW l \in Log, LogCall(t, l) PROVE IInv'
<1> DEFINE e == Item("log", l)
<1>1. e \in CallEvent /\ <<e>> \in Holdable["context"]
  <2>1. e \in CallEvent
    BY DEF CallEvent
  <2>2. e \in ContextItem
    BY <2>1 DEF ContextItem, Event
  <2> QED BY <2>1, <2>2, SequenceFacts, ThreeQueues
<1>2. Push(To("context", <<e>>)) /\ Accept(e)
  BY DEF LogCall
<1> HIDE DEF e
<1>3. /\ accepted' \subseteq CallEvent
      /\ asked' \in [CallEvent -> 0 .. MaxChanges]
  BY <1>1, <1>2, AcceptType DEF IInv
<1>4. Types'
  BY <1>3 DEF LogCall, IInv, TypeOK, Types, coreVars
<1>5. messaging
  BY DEF LogCall, Callable, IInv, Phases
<1> QED BY <1>1, <1>2, <1>4, <1>5, ThreeQueues, PushInv DEF LogCall, coreVars

LEMMA DispatchInv ==
    ASSUME IInv, NEW t \in Thread, NEW c \in Command, Dispatch(t, c) PROVE IInv'
<1> DEFINE e == Item("command", c)
<1>1. e \in CallEvent /\ <<e>> \in Holdable["context"]
  <2>1. e \in CallEvent
    BY DEF CallEvent
  <2>2. e \in ContextItem
    BY <2>1 DEF ContextItem, Event
  <2> QED BY <2>1, <2>2, SequenceFacts, ThreeQueues
<1>2. Push(To("context", <<e>>)) /\ Accept(e)
  BY DEF Dispatch
<1> HIDE DEF e
<1>3. /\ accepted' \subseteq CallEvent
      /\ asked' \in [CallEvent -> 0 .. MaxChanges]
  BY <1>1, <1>2, AcceptType DEF IInv
<1>4. Types'
  BY <1>3 DEF Dispatch, IInv, TypeOK, Types, coreVars
<1>5. messaging /\ main \in {"idle", "update"}
  BY DEF Dispatch, Callable, IInv, Phases
<1> QED BY <1>1, <1>2, <1>4, <1>5, ThreeQueues, PushInv DEF Dispatch, coreVars

LEMMA FinishDispatchInv == ASSUME IInv, NEW t \in Thread, FinishDispatch(t) PROVE IInv'
<1>1. <<Item("refresh", NoCall)>> \in Holdable["context"]
  BY SequenceFacts, ThreeQueues DEF ContextItem
<1>2. Types'
  BY DEF FinishDispatch, IInv, TypeOK, Types, coreVars
<1>3. state = "started" /\ main \in {"idle", "update"}
  BY DEF FinishDispatch, IInv, Phases
<1>4. messaging
  BY <1>3 DEF IInv, Phases
<1> QED BY <1>1, <1>2, <1>3, <1>4, ThreeQueues, PushInv DEF FinishDispatch, coreVars

-----------------------------------------------------------------------------
(* The theorems *)

LEMMA NextInv == IInv /\ [Next]_vars => IInv'
<1>1. IInv /\ Next => IInv'
  BY MainInv, LogCallInv, DispatchInv, FinishDispatchInv, ContextStepInv, MessagingStepInv,
     StorageStepInv DEF Next, ThreadStep, ApiCall
<1>2. IInv /\ UNCHANGED vars => IInv'
  <2> SUFFICES ASSUME IInv, UNCHANGED vars PROVE IInv'
    OBVIOUS
  <2>1. Types' /\ NoneEmpty'
    BY DEF vars, IInv, TypeOK, Types, NoneEmpty
  <2>2. Phases' /\ queue' = queue /\ scope' = scope
    BY DEF vars, IInv, Phases
  <2> QED BY <2>1, <2>2, StandInv
<1> QED BY <1>1, <1>2

\* The invariant that the rest follows from.
THEOREM Invariant == Spec => []IInv
BY InitInv, NextInv, PTL DEF Spec

\* Every variable has its type, and a queue that Core::Stop() destroyed was empty,
\* for any number of threads and calls.
THEOREM TypeCorrect == Spec => []TypeOK
<1>1. IInv => TypeOK
  BY DEF IInv
<1> QED BY <1>1, Invariant, PTL

\* The context thread runs a feature's work, and the messaging thread a handler
\* that dispatches work, only while the feature has its FeatureScope.
THEOREM ScopeSafe == Spec => []ScopeOutlivesWork
<1>1. IInv => ScopeOutlivesWork
  BY DEF IInv
<1> QED BY <1>1, Invariant, PTL

\* Core::Stop() stops a queue only when no thread is left that could push accepted
\* work to it.
THEOREM OrderlyShutdown == Spec => []NoProducerLeft
<1>1. IInv => NoProducerLeft
  <2> SUFFICES ASSUME IInv PROVE NoProducerLeft
    OBVIOUS
  <2>1. \A q \in Queue : open[q] = "none" => queue[q] = <<>>
    BY DEF IInv, TypeOK
  <2>2. CASE state = "initialized"
    BY <2>1, <2>2, ThreeQueues DEF IInv, Phases, NoProducerLeft
  <2>3. CASE state = "started"
    BY <2>1, <2>3, ThreeQueues DEF IInv, Phases, TypeOK, NoProducerLeft
  <2> QED BY <2>2, <2>3 DEF IInv, TypeOK
<1> QED BY <1>1, Invariant, PTL

-----------------------------------------------------------------------------
(* The invariant of what is on its way through the queues *)

Occurs(s, x) == \E k \in DOMAIN s : s[k] = x

\* Copy a of b is right, or will be when the items of s are taken: the last of them
\* that changes the copy, which is of one of the kinds, is x, which makes it b.
Latest(s, kinds, x, a, b) ==
    \/ \E i \in DOMAIN s : s[i] = x /\ \A j \in DOMAIN s : j > i => s[j].kind \notin kinds
    \/ a = b /\ \A j \in DOMAIN s : s[j].kind \notin kinds

\* The work that refreshes the rum context, and the kinds of work after which only a
\* refresh makes it right.
Refresh  == Item("refresh", NoCall)
Renewing == {"init", "command", "error", "refresh"}

\* The provider has a bus from Start() on until Stop() has joined the messaging thread.
Attaching ==
    attached <=> \/ main = "idle" /\ state = "started"
                 \/ main \in {"starting", "update", "joinContext", "joinBus"}

\* The BatchWriter's consent, through the storage queue; the context's, through the
\* context queue, once SetTrackingConsent() returned; and CrashReporting's copy of
\* it, through the bus.
WriterCopy ==
    Latest(queue["storage"], {"consent"}, Item("consent", consent), writer, consent)
ContextCopy ==
    main # "update" =>
        Latest(queue["context"], {"consent"}, Item("consent", consent), context.consent, consent)
ShadowCopy ==
    attached => Latest(queue["bus"], {"changed"}, Item("changed", context.consent),
                       shadow.consent, context.consent)
\* CrashReporting's copy of the state of RUM, through the bus; and the context's,
\* unless some thread is between the two halves of a DispatchAsync.
ShadowRumCopy ==
    Latest(queue["bus"], {"rumState"}, Item("rumState", snapshot), shadow.rum, snapshot)
ContextRumCopy ==
    main \in {"starting", "idle", "update"} /\ "rum" \in scope =>
        \/ relay \/ calling # [t \in Thread |-> NoCall]
        \/ Latest(queue["context"], Renewing, Refresh, context.rum, snapshot)

Copies == Attaching /\ WriterCopy /\ ContextCopy /\ ShadowCopy /\ ShadowRumCopy /\ ContextRumCopy

\* No call is queued twice.
Distinct(s) == \A i, j \in DOMAIN s : s[i] = s[j] /\ s[i] \in CallEvent => i = j

\* Where the work and the event of a call are.
Travels ==
    /\ Distinct(queue["context"])
    /\ \A e \in CallEvent : Occurs(queue["context"], e) => e \in accepted
    /\ \A e \in CallEvent : Occurs(queue["storage"], e) \/ handed[e] # NotHanded =>
          e \in accepted /\ ~Occurs(queue["context"], e)

\* How many changes of the consent are seen when each item of s is taken, from the
\* first to beyond the last: every call was asked for no later than that.
Dated(s, from, to, ask) ==
    \E f \in [1 .. Len(s) + 1 -> 0 .. MaxChanges] :
        /\ f[1] = from /\ f[Len(s) + 1] = to
        /\ \A i \in 1 .. Len(s) :
              /\ s[i].kind = "consent" => f[i + 1] = f[i] + 1
              /\ s[i].kind # "consent" => f[i + 1] = f[i]
              /\ s[i] \in CallEvent => ask[s[i]] <= f[i]

Filing ==
    /\ Dated(queue["storage"], changes.seen, changes.begun, asked)
    /\ changes.done <= changes.begun
    /\ \A e \in CallEvent : asked[e] <= changes.done
    /\ ConsentBinds

\* RUM has started before command x runs, and once x has run (as the num-th) the
\* snapshot is no older.
Known(s, x, num, snap) ==
    /\ \A m \in DOMAIN s : s[m].kind = "init" => \E k \in DOMAIN s : k > m /\ s[k] = x
    /\ ~Occurs(s, x) => num <= snap

\* After the first n items of s the rum context (now rum) reflects command x: a
\* refresh among them comes after x, or it does already.
Reflects(s, n, x, num, snap, rum) ==
    /\ Known(s, x, num, snap)
    /\ \/ \E j \in DOMAIN s : j <= n /\ s[j] = Refresh /\ \A k \in DOMAIN s : s[k] = x => k < j
       \/ ~Occurs(s, x) /\ num <= rum

\* A log l whose thread made command c before it: as long as the log is queued it
\* comes after an update that reflects the command; and so does the log when it ran.
Reflected(s, l, c, num, snap, rum, saw) ==
    /\ \A i \in DOMAIN s :
          s[i] = Item("log", l) => Reflects(s, i - 1, Item("command", c), num, snap, rum)
    /\ ~Occurs(s, Item("log", l)) => num <= saw /\ ~Occurs(s, Item("command", c))

\* No call was made in this run yet, and none of another is queued.
Quiet(s, lasts) ==
    /\ \A t \in Thread : lasts[t] = NoCall
    /\ \A i \in DOMAIN s : s[i] \notin CallEvent

\* What the threads that are in the middle of a call, those that made one, and the
\* logs that came after a command may rely on.
Sights ==
    /\ main = "starting" => Quiet(queue["context"], last)
    /\ \A t \in Thread : calling[t] # NoCall =>
          /\ Item("command", calling[t]) \in accepted
          /\ Known(queue["context"], Item("command", calling[t]), number[calling[t]], snapshot)
    /\ \A t \in Thread : last[t] # NoCall =>
          /\ Item("command", last[t]) \in accepted
          /\ Reflects(queue["context"], Len(queue["context"]), Item("command", last[t]),
                      number[last[t]], snapshot, context.rum)
    /\ \A l \in Log : own[l] # NoCall =>
          /\ Item("log", l) \in accepted /\ Item("command", own[l]) \in accepted
          /\ Reflected(queue["context"], l, own[l], number[own[l]], snapshot, context.rum, seen[l])

-----------------------------------------------------------------------------
(* Sequences that are taken from at the head and added to at the end *)

LEMMA TailFacts ==
    ASSUME NEW S, NEW s \in Seq(S), s # <<>>
    PROVE  /\ Tail(s) \in Seq(S) /\ Len(s) \in Nat /\ Len(Tail(s)) = Len(s) - 1
           /\ DOMAIN s = 1 .. Len(s) /\ DOMAIN Tail(s) = 1 .. Len(s) - 1
           /\ 1 \in DOMAIN s /\ Head(s) = s[1]
           /\ \A i \in DOMAIN Tail(s) : i + 1 \in DOMAIN s /\ Tail(s)[i] = s[i + 1]
           /\ \A i \in DOMAIN s : i = 1 \/ (i - 1 \in DOMAIN Tail(s) /\ s[i] = Tail(s)[i - 1])
<1>1. Tail(s) \in Seq(S) /\ Len(s) \in Nat /\ Len(Tail(s)) = Len(s) - 1 /\ Len(s) > 0
  OBVIOUS
<1>2. DOMAIN s = 1 .. Len(s) /\ DOMAIN Tail(s) = 1 .. Len(s) - 1
  BY <1>1
<1>3. \A i \in 1 .. Len(s) - 1 : Tail(s)[i] = s[i + 1]
  OBVIOUS
<1> QED BY <1>1, <1>2, <1>3

LEMMA AddFacts ==
    ASSUME NEW S, NEW s \in Seq(S), NEW y \in S
    PROVE  /\ s \o <<y>> \in Seq(S) /\ Len(s) \in Nat /\ Len(s \o <<y>>) = Len(s) + 1
           /\ DOMAIN s = 1 .. Len(s) /\ DOMAIN (s \o <<y>>) = 1 .. Len(s) + 1
           /\ \A i \in DOMAIN s : i \in DOMAIN (s \o <<y>>) /\ (s \o <<y>>)[i] = s[i]
           /\ (s \o <<y>>)[Len(s) + 1] = y
           /\ \A i \in DOMAIN (s \o <<y>>) : i \in DOMAIN s \/ i = Len(s) + 1
OBVIOUS

LEMMA OccursTail ==
    ASSUME NEW S, NEW s \in Seq(S), s # <<>>, NEW x
    PROVE  Occurs(s, x) <=> Head(s) = x \/ Occurs(Tail(s), x)
<1>1. Head(s) = x => Occurs(s, x)
  BY TailFacts DEF Occurs
<1>2. Occurs(Tail(s), x) => Occurs(s, x)
  BY TailFacts DEF Occurs
<1>3. ASSUME Occurs(s, x) PROVE Head(s) = x \/ Occurs(Tail(s), x)
  <2>1. PICK i \in DOMAIN s : s[i] = x
    BY <1>3 DEF Occurs
  <2>2. i = 1 \/ (i - 1 \in DOMAIN Tail(s) /\ s[i] = Tail(s)[i - 1])
    BY TailFacts
  <2>3. Head(s) = s[1]
    BY TailFacts
  <2> QED BY <2>1, <2>2, <2>3 DEF Occurs
<1> QED BY <1>1, <1>2, <1>3

LEMMA OccursAdd ==
    ASSUME NEW S, NEW s \in Seq(S), NEW y \in S, NEW x
    PROVE  Occurs(s \o <<y>>, x) <=> y = x \/ Occurs(s, x)
BY AddFacts DEF Occurs

\* The copy that is brought up to date by items of certain kinds: taking the next
\* of them must bring it up to date if it is the last.
LEMMA LatestTail ==
    ASSUME NEW S, NEW s \in Seq(S), s # <<>>, NEW kinds, NEW x,
           NEW a, NEW b, NEW c, NEW d, Latest(s, kinds, x, a, b),
           Head(s) = x => c = d,
           Head(s).kind \notin kinds /\ a = b => c = d
    PROVE  Latest(Tail(s), kinds, x, c, d)
<1>1. CASE \E i \in DOMAIN s : s[i] = x /\ \A j \in DOMAIN s : j > i => s[j].kind \notin kinds
  <2>1. PICK i \in DOMAIN s : s[i] = x /\ \A j \in DOMAIN s : j > i => s[j].kind \notin kinds
    BY <1>1
  <2>2. CASE i = 1
    <3>1. c = d
      BY <2>1, <2>2, TailFacts
    <3>2. \A j \in DOMAIN Tail(s) : Tail(s)[j].kind \notin kinds
      BY <2>1, <2>2, TailFacts
    <3> QED BY <3>1, <3>2 DEF Latest
  <2>3. CASE i # 1
    <3>1. i - 1 \in DOMAIN Tail(s) /\ Tail(s)[i - 1] = x
      BY <2>1, <2>3, TailFacts
    <3>2. \A j \in DOMAIN Tail(s) : j > i - 1 => Tail(s)[j].kind \notin kinds
      <4> SUFFICES ASSUME NEW j \in DOMAIN Tail(s), j > i - 1
                   PROVE  Tail(s)[j].kind \notin kinds
        OBVIOUS
      <4>1. j + 1 \in DOMAIN s /\ Tail(s)[j] = s[j + 1] /\ j \in Nat /\ i \in Nat
        BY TailFacts
      <4> QED BY <2>1, <4>1
    <3> QED BY <3>1, <3>2 DEF Latest
  <2> QED BY <2>2, <2>3
<1>2. CASE a = b /\ \A j \in DOMAIN s : s[j].kind \notin kinds
  <2>1. c = d
    BY <1>2, TailFacts
  <2>2. \A j \in DOMAIN Tail(s) : Tail(s)[j].kind \notin kinds
    BY <1>2, TailFacts
  <2> QED BY <2>1, <2>2 DEF Latest
<1> QED BY <1>1, <1>2 DEF Latest

LEMMA LatestAdd ==
    ASSUME NEW S, NEW s \in Seq(S), NEW y \in S, NEW kinds, NEW x, NEW a, NEW b,
           y = x \/ (y.kind \notin kinds /\ Latest(s, kinds, x, a, b))
    PROVE  Latest(s \o <<y>>, kinds, x, a, b)
<1> DEFINE t == s \o <<y>>
<1>1. /\ Len(s) \in Nat /\ DOMAIN s = 1 .. Len(s) /\ DOMAIN t = 1 .. Len(s) + 1
      /\ \A i \in DOMAIN s : i \in DOMAIN t /\ t[i] = s[i]
      /\ t[Len(s) + 1] = y
      /\ \A i \in DOMAIN t : i \in DOMAIN s \/ i = Len(s) + 1
  BY AddFacts
<1> HIDE DEF t
<1>2. CASE y = x
  <2>1. Len(s) + 1 \in DOMAIN t /\ \A j \in DOMAIN t : ~ (j > Len(s) + 1)
    BY <1>1
  <2> QED BY <1>1, <1>2, <2>1 DEF Latest, t
<1>3. CASE y.kind \notin kinds /\ Latest(s, kinds, x, a, b)
  <2>1. CASE \E i \in DOMAIN s : s[i] = x /\ \A j \in DOMAIN s : j > i => s[j].kind \notin kinds
    <3>1. PICK i \in DOMAIN s : s[i] = x /\ \A j \in DOMAIN s : j > i => s[j].kind \notin kinds
      BY <2>1
    <3>2. i \in DOMAIN t /\ t[i] = x /\ \A j \in DOMAIN t : j > i => t[j].kind \notin kinds
      BY <1>1, <1>3, <3>1
    <3> QED BY <3>2 DEF Latest, t
  <2>2. CASE a = b /\ \A j \in DOMAIN s : s[j].kind \notin kinds
    <3>1. \A j \in DOMAIN t : t[j].kind \notin kinds
      BY <1>1, <1>3, <2>2
    <3> QED BY <2>2, <3>1 DEF Latest, t
  <2> QED BY <1>3, <2>1, <2>2 DEF Latest
<1> QED BY <1>2, <1>3

LEMMA LatestNone ==
    ASSUME NEW kinds, NEW x, NEW a, NEW b PROVE Latest(<<>>, kinds, x, a, b) <=> a = b
BY DEF Latest

LEMMA KnownTail ==
    ASSUME NEW S, NEW s \in Seq(S), s # <<>>, NEW x, NEW num, NEW snap, NEW num2, NEW snap2,
           Known(s, x, num, snap),
           ~Occurs(Tail(s), x) /\ (Head(s) = x \/ (num <= snap /\ Head(s).kind # "init"))
              => num2 <= snap2
    PROVE  Known(Tail(s), x, num2, snap2)
<1>1. ASSUME NEW m \in DOMAIN Tail(s), Tail(s)[m].kind = "init"
      PROVE  \E k \in DOMAIN Tail(s) : k > m /\ Tail(s)[k] = x
  <2>1. m + 1 \in DOMAIN s /\ s[m + 1].kind = "init" /\ m \in Nat /\ m >= 1
    BY <1>1, TailFacts
  <2>2. PICK k \in DOMAIN s : k > m + 1 /\ s[k] = x
    BY <2>1 DEF Known
  <2>3. k - 1 \in DOMAIN Tail(s) /\ k - 1 > m /\ Tail(s)[k - 1] = x
    BY <2>1, <2>2, TailFacts
  <2> QED BY <2>3
<1>2. ASSUME ~Occurs(Tail(s), x) PROVE num2 <= snap2
  <2>1. CASE Head(s) = x
    BY <1>2, <2>1
  <2>2. CASE Head(s) # x
    <3>1. ~Occurs(s, x)
      BY <1>2, <2>2, OccursTail
    <3>2. num <= snap
      BY <3>1 DEF Known
    <3>3. Head(s).kind # "init"
      BY <3>1, TailFacts DEF Known, Occurs
    <3> QED BY <1>2, <3>2, <3>3
  <2> QED BY <2>1, <2>2
<1> QED BY <1>1, <1>2 DEF Known

LEMMA KnownAdd ==
    ASSUME NEW S, NEW s \in Seq(S), NEW y \in S, NEW x, NEW num, NEW snap,
           y.kind # "init", y = x \/ Known(s, x, num, snap), y = x => ~Occurs(s, x)
    PROVE  Known(s \o <<y>>, x, num, snap)
<1> DEFINE t == s \o <<y>>
<1>1. /\ Len(s) \in Nat /\ DOMAIN s = 1 .. Len(s) /\ DOMAIN t = 1 .. Len(s) + 1
      /\ \A i \in DOMAIN s : i \in DOMAIN t /\ t[i] = s[i]
      /\ t[Len(s) + 1] = y
      /\ \A i \in DOMAIN t : i \in DOMAIN s \/ i = Len(s) + 1
  BY AddFacts
<1>2. Occurs(t, x) <=> y = x \/ Occurs(s, x)
  BY OccursAdd
<1> HIDE DEF t
<1>3. CASE y = x
  <2>1. \A m \in DOMAIN t : t[m].kind = "init" => \E k \in DOMAIN t : k > m /\ t[k] = x
    <3> SUFFICES ASSUME NEW m \in DOMAIN t, t[m].kind = "init"
                 PROVE  Len(s) + 1 \in DOMAIN t /\ Len(s) + 1 > m /\ t[Len(s) + 1] = x
      OBVIOUS
    <3> QED BY <1>1, <1>3
  <2> QED BY <1>2, <1>3, <2>1 DEF Known, t
<1>4. CASE y # x
  <2>1. Known(s, x, num, snap)
    BY <1>4
  <2>2. ASSUME NEW m \in DOMAIN t, t[m].kind = "init" PROVE \E k \in DOMAIN t : k > m /\ t[k] = x
    <3>1. m \in DOMAIN s /\ s[m].kind = "init"
      BY <1>1, <2>2
    <3>2. PICK k \in DOMAIN s : k > m /\ s[k] = x
      BY <2>1, <3>1 DEF Known
    <3> QED BY <1>1, <3>2
  <2> QED BY <1>2, <1>4, <2>1, <2>2 DEF Known, t
<1> QED BY <1>3, <1>4

LEMMA ReflectsTail ==
    ASSUME NEW S, NEW s \in Seq(S), s # <<>>, NEW n \in Nat, NEW x,
           NEW num, NEW snap, NEW rum, NEW num2, NEW snap2, NEW rum2,
           Reflects(s, n, x, num, snap, rum), Known(Tail(s), x, num2, snap2),
           Head(s) # x /\ Head(s).kind # "init" /\ num <= snap /\ (Head(s) = Refresh \/ num <= rum) => num2 <= rum2
    PROVE  Reflects(Tail(s), n - 1, x, num2, snap2, rum2)
<1>1. CASE ~Occurs(s, x) /\ num <= rum
  <2>1. Head(s) # x /\ ~Occurs(Tail(s), x) /\ num <= snap
    BY <1>1, OccursTail DEF Reflects, Known
  <2>2. Head(s).kind # "init"
    BY <1>1, TailFacts DEF Reflects, Known, Occurs
  <2> QED BY <1>1, <2>1, <2>2 DEF Reflects
<1>2. CASE \E j \in DOMAIN s : j <= n /\ s[j] = Refresh /\ \A k \in DOMAIN s : s[k] = x => k < j
  <2>1. PICK j \in DOMAIN s : j <= n /\ s[j] = Refresh /\ \A k \in DOMAIN s : s[k] = x => k < j
    BY <1>2
  <2>2. CASE j = 1
    <3>1. \A k \in DOMAIN s : s[k] # x
      BY <2>1, <2>2, TailFacts
    <3>2. ~Occurs(s, x) /\ num <= snap
      BY <3>1 DEF Reflects, Known, Occurs
    <3>3. Head(s) # x /\ Head(s).kind # "init" /\ Head(s) = Refresh /\ ~Occurs(Tail(s), x)
      BY <2>1, <2>2, <3>1, <3>2, OccursTail, TailFacts DEF Refresh, Item
    <3> QED BY <3>2, <3>3 DEF Reflects
  <2>3. CASE j # 1
    <3>1. j - 1 \in DOMAIN Tail(s) /\ Tail(s)[j - 1] = Refresh /\ j - 1 <= n - 1
      BY <2>1, <2>3, TailFacts
    <3>2. ASSUME NEW k \in DOMAIN Tail(s), Tail(s)[k] = x PROVE k < j - 1
      <4>1. k + 1 \in DOMAIN s /\ s[k + 1] = x /\ k \in Nat /\ j \in Nat
        BY <3>2, TailFacts
      <4>2. k + 1 < j
        BY <2>1, <4>1
      <4> QED BY <4>1, <4>2
    <3> QED BY <3>1, <3>2 DEF Reflects
  <2> QED BY <2>2, <2>3
<1> QED BY <1>1, <1>2 DEF Reflects

LEMMA ReflectsAdd ==
    ASSUME NEW S, NEW s \in Seq(S), NEW y \in S, NEW n, NEW x, NEW num, NEW snap, NEW rum,
           Reflects(s, n, x, num, snap, rum), y.kind # "init", y # x
    PROVE  Reflects(s \o <<y>>, n, x, num, snap, rum)
<1> DEFINE t == s \o <<y>>
<1>1. /\ Len(s) \in Nat /\ DOMAIN s = 1 .. Len(s) /\ DOMAIN t = 1 .. Len(s) + 1
      /\ \A i \in DOMAIN s : i \in DOMAIN t /\ t[i] = s[i]
      /\ t[Len(s) + 1] = y
      /\ \A i \in DOMAIN t : i \in DOMAIN s \/ i = Len(s) + 1
  BY AddFacts
<1>2. Occurs(t, x) <=> Occurs(s, x)
  BY OccursAdd
<1>3. Known(t, x, num, snap)
  BY KnownAdd DEF Reflects
<1> HIDE DEF t
<1>4. CASE ~Occurs(s, x) /\ num <= rum
  BY <1>2, <1>3, <1>4 DEF Reflects, t
<1>5. CASE \E j \in DOMAIN s : j <= n /\ s[j] = Refresh /\ \A k \in DOMAIN s : s[k] = x => k < j
  <2>1. PICK j \in DOMAIN s : j <= n /\ s[j] = Refresh /\ \A k \in DOMAIN s : s[k] = x => k < j
    BY <1>5
  <2>2. j \in DOMAIN t /\ j <= n /\ t[j] = Refresh /\ \A k \in DOMAIN t : t[k] = x => k < j
    BY <1>1, <2>1
  <2> QED BY <1>3, <2>2 DEF Reflects, t
<1> QED BY <1>4, <1>5 DEF Reflects

\* Once the update that follows a command is queued, it will have been made.
LEMMA ReflectsRefresh ==
    ASSUME NEW S, NEW s \in Seq(S), Refresh \in S, NEW x, NEW num, NEW snap, NEW rum,
           Known(s, x, num, snap), x # Refresh
    PROVE  Reflects(s \o <<Refresh>>, Len(s) + 1, x, num, snap, rum)
<1> DEFINE t == s \o <<Refresh>>
<1>1. /\ Len(s) \in Nat /\ DOMAIN s = 1 .. Len(s) /\ DOMAIN t = 1 .. Len(s) + 1
      /\ t[Len(s) + 1] = Refresh
      /\ \A i \in DOMAIN t : i \in DOMAIN s \/ i = Len(s) + 1
  BY AddFacts
<1>2. Refresh.kind # "init"
  BY DEF Refresh, Item
<1>3. Known(t, x, num, snap)
  BY <1>2, KnownAdd
<1> HIDE DEF t
<1>4. Len(s) + 1 \in DOMAIN t /\ \A k \in DOMAIN t : t[k] = x => k < Len(s) + 1
  BY <1>1
<1> QED BY <1>1, <1>3, <1>4 DEF Reflects, t

-----------------------------------------------------------------------------
(* What a step does to each queue *)

LEMMA Queues ==
    ASSUME IInv
    PROVE  /\ queue["context"] \in Seq(ContextItem)
           /\ queue["bus"] \in Seq(BusItem)
           /\ queue["storage"] \in Seq(StorageItem)
BY ThreeQueues DEF IInv, QueuesTyped

\* Work is queued for the context thread only while all queues can take its results.
LEMMA WhenRunning ==
    ASSUME IInv, queue["context"] # <<>>
    PROVE  /\ state = "started" /\ open["bus"] = "open" /\ open["storage"] = "open"
           /\ main \in {"starting", "idle", "update", "joinContext"}
<1>1. open["context"] # "none"
  BY ThreeQueues DEF IInv, TypeOK
<1>2. state = "started"
  BY <1>1, ThreeQueues DEF IInv, Phases, TypeOK
<1>3. main \in {"starting", "idle", "update", "joinContext"}
  BY <1>1 DEF IInv, Phases, TypeOK
<1> QED BY <1>2, <1>3, ThreeQueues DEF IInv, Phases

LEMMA ContextTakes ==
    ASSUME IInv, NEW out, Handle("context", out)
    PROVE  /\ queue["context"] # <<>>
           /\ queue'["context"] = Tail(queue["context"])
           /\ queue'["bus"] = queue["bus"] \o out["bus"]
           /\ queue'["storage"] = queue["storage"] \o out["storage"]
BY WhenRunning, ThreeQueues DEF Handle, Pushed

LEMMA ContextTakesOne ==
    ASSUME IInv, NEW b \in Seq(BusItem), Handle("context", To("bus", b))
    PROVE  /\ queue["context"] # <<>>
           /\ queue'["context"] = Tail(queue["context"])
           /\ queue'["bus"] = queue["bus"] \o b
           /\ queue'["storage"] = queue["storage"]
<1>1. To("bus", b)["bus"] = b /\ To("bus", b)["storage"] = <<>>
  BY ThreeQueues DEF To, Nothing
<1>2. queue["storage"] \o <<>> = queue["storage"]
  BY Queues
<1> QED BY <1>1, <1>2, ContextTakes

LEMMA ContextTakesBoth ==
    ASSUME IInv, NEW s, NEW b,
           Handle("context", [Nothing EXCEPT !["storage"] = s, !["bus"] = b])
    PROVE  /\ queue["context"] # <<>>
           /\ queue'["context"] = Tail(queue["context"])
           /\ queue'["bus"] = queue["bus"] \o b
           /\ queue'["storage"] = queue["storage"] \o s
<1> DEFINE out == [Nothing EXCEPT !["storage"] = s, !["bus"] = b]
<1>1. out["bus"] = b /\ out["storage"] = s
  BY ThreeQueues DEF Nothing
<1> HIDE DEF out
<1> QED BY <1>1, ContextTakes DEF out

LEMMA BusTakes ==
    ASSUME IInv, Handle("bus", Nothing)
    PROVE  /\ queue["bus"] # <<>>
           /\ queue'["context"] = queue["context"]
           /\ queue'["bus"] = Tail(queue["bus"])
           /\ queue'["storage"] = queue["storage"]
<1>1. QueuesTyped /\ Pushable(Nothing) /\ \A q \in Queue : Nothing[q] = <<>>
  BY NothingPushable DEF IInv, Nothing
<1> QED BY <1>1, HandleKeeps, ThreeQueues

LEMMA BusTakesOne ==
    ASSUME IInv, NEW y \in ContextItem, Handle("bus", To("context", <<y>>))
    PROVE  /\ queue["bus"] # <<>>
           /\ queue'["context"] = IF open["context"] = "open" THEN queue["context"] \o <<y>>
                                                              ELSE queue["context"]
           /\ queue'["bus"] = Tail(queue["bus"])
           /\ queue'["storage"] = queue["storage"]
<1> DEFINE out == To("context", <<y>>)
<1>1. out["context"] = <<y>> /\ out["storage"] = <<>> /\ Pushable(out)
  BY ThreeQueues, SequenceFacts, ToOne DEF To, Nothing
<1>2. QueuesTyped
  BY DEF IInv
<1> HIDE DEF out
<1>3. queue["bus"] # <<>> /\ queue'["bus"] = Tail(queue["bus"]) /\ queue'["storage"] = queue["storage"]
  BY <1>1, <1>2, HandleKeeps, ThreeQueues DEF out
<1>4. queue'["context"] = Pushed("context", out)
  BY ThreeQueues DEF Handle, out
<1> QED BY <1>1, <1>3, <1>4 DEF Pushed

LEMMA StorageTakes ==
    ASSUME IInv, Handle("storage", Nothing)
    PROVE  /\ queue["storage"] # <<>>
           /\ queue'["context"] = queue["context"]
           /\ queue'["bus"] = queue["bus"]
           /\ queue'["storage"] = Tail(queue["storage"])
<1>1. QueuesTyped /\ Pushable(Nothing) /\ \A q \in Queue : Nothing[q] = <<>>
  BY NothingPushable DEF IInv, Nothing
<1> QED BY <1>1, HandleKeeps, ThreeQueues

LEMMA PushesOne ==
    ASSUME IInv, NEW y \in ContextItem, Push(To("context", <<y>>))
    PROVE  /\ queue'["context"] = IF open["context"] = "open" THEN queue["context"] \o <<y>>
                                                              ELSE queue["context"]
           /\ queue'["bus"] = queue["bus"]
           /\ queue'["storage"] = queue["storage"]
<1> DEFINE out == To("context", <<y>>)
<1>1. out["context"] = <<y>> /\ out["bus"] = <<>> /\ out["storage"] = <<>> /\ Pushable(out)
  BY ThreeQueues, SequenceFacts, ToOne DEF To, Nothing
<1>2. QueuesTyped
  BY DEF IInv
<1> HIDE DEF out
<1>3. queue'["bus"] = queue["bus"] /\ queue'["storage"] = queue["storage"]
  BY <1>1, <1>2, PushKeeps, ThreeQueues DEF out
<1>4. queue'["context"] = Pushed("context", out)
  BY ThreeQueues DEF Push, out
<1> QED BY <1>1, <1>3, <1>4 DEF Pushed

LEMMA PushesConsent ==
    ASSUME IInv, NEW y \in StorageItem, Push(To("storage", <<y>>)), open["storage"] = "open"
    PROVE  /\ queue'["context"] = queue["context"]
           /\ queue'["bus"] = queue["bus"]
           /\ queue'["storage"] = queue["storage"] \o <<y>>
<1> DEFINE out == To("storage", <<y>>)
<1>1. out["context"] = <<>> /\ out["bus"] = <<>> /\ out["storage"] = <<y>> /\ Pushable(out)
  BY ThreeQueues, SequenceFacts, ToOne DEF To, Nothing
<1>2. QueuesTyped
  BY DEF IInv
<1> HIDE DEF out
<1>3. queue'["bus"] = queue["bus"] /\ queue'["context"] = queue["context"]
  BY <1>1, <1>2, PushKeeps, ThreeQueues DEF out
<1>4. queue'["storage"] = Pushed("storage", out)
  BY ThreeQueues DEF Push, out
<1> QED BY <1>1, <1>3, <1>4 DEF Pushed

LEMMA AddTwo ==
    ASSUME NEW S, NEW s \in Seq(S), NEW a \in S, NEW b \in S
    PROVE  s \o <<a, b>> = (s \o <<a>>) \o <<b>>
<1> DEFINE t == s \o <<a, b>>
           u == (s \o <<a>>) \o <<b>>
<1>1. /\ t \in Seq(S) /\ u \in Seq(S) /\ Len(s) \in Nat
      /\ Len(t) = Len(s) + 2 /\ Len(u) = Len(s) + 2
  OBVIOUS
<1>2. \A i \in 1 .. Len(s) + 2 : t[i] = u[i]
  OBVIOUS
<1> HIDE DEF t, u
<1>3. t = [i \in 1 .. Len(s) + 2 |-> t[i]] /\ u = [i \in 1 .. Len(s) + 2 |-> u[i]]
  BY <1>1
<1>4. t = u
  BY <1>2, <1>3
<1> QED BY <1>4 DEF t, u

\* The work that starting feature f gives the context thread, if any.
LEMMA StartsFeature ==
    ASSUME IInv, StartFeature
    PROVE  \E f \in Feature :
              /\ scope' = scope \cup {f}
              /\ queue'["bus"] = queue["bus"] /\ queue'["storage"] = queue["storage"]
              /\ f = "rum" => queue'["context"] =
                    (queue["context"] \o <<Item("init", NoCall)>>) \o <<Refresh>>
              /\ f = "crash" => queue'["context"] = queue["context"] \o <<Item("process", NoCall)>>
              /\ f = "logging" => queue'["context"] = queue["context"]
<1> DEFINE f == Registered[Cardinality(scope) + 1]
           work == CASE f = "rum"     -> <<Item("init", NoCall), Item("refresh", NoCall)>>
                     [] f = "crash"   -> <<Item("process", NoCall)>>
                     [] f = "logging" -> <<>>
           out == To("context", work)
<1>1. f \in Feature
  BY NextFeature DEF StartFeature, IInv, TypeOK
<1>2. scope' = scope \cup {f} /\ Push(out)
  BY DEF StartFeature
<1>3. queue'["context"] = queue["context"] \o work
  BY <1>2, ThreeQueues DEF Push, Pushed, To, Nothing, StartFeature, IInv, Phases
<1>4. /\ queue'["bus"] = queue["bus"] \o <<>>
      /\ queue'["storage"] = queue["storage"] \o <<>>
  BY <1>2, ThreeQueues DEF Push, Pushed, To, Nothing, StartFeature, IInv, Phases
<1>5. queue'["bus"] = queue["bus"] /\ queue'["storage"] = queue["storage"]
  BY <1>4, Queues
<1>6. queue["context"] \in Seq(ContextItem)
  BY Queues
<1>7. f = "rum" => queue'["context"] = (queue["context"] \o <<Item("init", NoCall)>>) \o <<Refresh>>
  <2> HAVE f = "rum"
  <2>0. Item("init", NoCall) \in ContextItem /\ Refresh \in ContextItem
    BY DEF ContextItem, Refresh
  <2>1. work = <<Item("init", NoCall), Refresh>>
    BY DEF Refresh
  <2>2. queue["context"] \o <<Item("init", NoCall), Refresh>> =
        (queue["context"] \o <<Item("init", NoCall)>>) \o <<Refresh>>
    BY <1>6, <2>0, AddTwo
  <2> HIDE DEF work
  <2> QED BY <1>3, <2>1, <2>2
<1>8. f = "crash" => work = <<Item("process", NoCall)>>
  OBVIOUS
<1>9. f = "logging" => work = <<>>
  OBVIOUS
<1>10. queue["context"] \o <<>> = queue["context"]
  BY <1>6
<1> HIDE DEF work, out, f
<1> QED BY <1>1, <1>2, <1>3, <1>5, <1>7, <1>8, <1>9, <1>10

-----------------------------------------------------------------------------
(* Where the work and the event of a call are *)

LEMMA DistinctTail ==
    ASSUME NEW S, NEW s \in Seq(S), s # <<>>, Distinct(s)
    PROVE  /\ Distinct(Tail(s))
           /\ Head(s) \in CallEvent => ~Occurs(Tail(s), Head(s))
<1>1. ASSUME NEW i \in DOMAIN Tail(s), NEW j \in DOMAIN Tail(s),
             Tail(s)[i] = Tail(s)[j], Tail(s)[i] \in CallEvent
      PROVE  i = j
  <2>1. /\ i + 1 \in DOMAIN s /\ j + 1 \in DOMAIN s /\ i \in Nat /\ j \in Nat
        /\ Tail(s)[i] = s[i + 1] /\ Tail(s)[j] = s[j + 1]
    BY TailFacts
  <2>2. i + 1 = j + 1
    BY <1>1, <2>1 DEF Distinct
  <2> QED BY <2>1, <2>2
<1>2. ASSUME Head(s) \in CallEvent, NEW i \in DOMAIN Tail(s), Tail(s)[i] = Head(s) PROVE FALSE
  <2>1. i + 1 \in DOMAIN s /\ i \in Nat /\ i >= 1 /\ s[i + 1] = s[1] /\ 1 \in DOMAIN s /\ Head(s) = s[1]
    BY <1>2, TailFacts
  <2>2. i + 1 = 1
    BY <1>2, <2>1 DEF Distinct
  <2> QED BY <2>1, <2>2
<1> QED BY <1>1, <1>2 DEF Distinct, Occurs

LEMMA DistinctAdd ==
    ASSUME NEW S, NEW s \in Seq(S), NEW y \in S, Distinct(s), y \notin CallEvent \/ ~Occurs(s, y)
    PROVE  Distinct(s \o <<y>>)
<1> DEFINE t == s \o <<y>>
<1>1. /\ \A i \in DOMAIN s : i \in DOMAIN t /\ t[i] = s[i]
      /\ t[Len(s) + 1] = y
      /\ \A i \in DOMAIN t : i \in DOMAIN s \/ i = Len(s) + 1
  BY AddFacts
<1> HIDE DEF t
<1>2. ASSUME NEW i \in DOMAIN t, NEW j \in DOMAIN t, t[i] = t[j], t[i] \in CallEvent
      PROVE  i = j
  <2>1. CASE i \in DOMAIN s /\ j \in DOMAIN s
    BY <1>1, <1>2, <2>1 DEF Distinct
  <2>2. CASE i \in DOMAIN s /\ j = Len(s) + 1
    BY <1>1, <1>2, <2>2 DEF Occurs
  <2>3. CASE i = Len(s) + 1 /\ j \in DOMAIN s
    BY <1>1, <1>2, <2>3 DEF Occurs
  <2>4. CASE i = Len(s) + 1 /\ j = Len(s) + 1
    BY <2>4
  <2> QED BY <1>1, <2>1, <2>2, <2>3, <2>4
<1> QED BY <1>2 DEF Distinct, t

\* What is not a call of the API.
LEMMA NoCallEvent ==
    /\ \A of : Item("init", of) \notin CallEvent /\ Item("refresh", of) \notin CallEvent
    /\ \A of : Item("process", of) \notin CallEvent /\ Item("consent", of) \notin CallEvent
    /\ \A of : Item("error", of) \notin CallEvent /\ Item("crash", of) \notin CallEvent
BY DEF CallEvent, Item

LEMMA TravelsKeep ==
    ASSUME Travels, accepted' = accepted, Distinct(queue'["context"]),
           \A e \in CallEvent : Occurs(queue'["context"], e) => Occurs(queue["context"], e),
           \A e \in CallEvent : Occurs(queue'["storage"], e) \/ handed'[e] # NotHanded =>
              \/ Occurs(queue["storage"], e) \/ handed[e] # NotHanded
              \/ e \in accepted /\ ~Occurs(queue'["context"], e)
    PROVE  Travels'
<1>1. Distinct(queue["context"])'
  BY DEF Distinct
<1>2. \A e \in CallEvent : Occurs(queue'["context"], e) => e \in accepted'
  BY DEF Travels
<1>3. \A e \in CallEvent : Occurs(queue'["storage"], e) \/ handed'[e] # NotHanded =>
          e \in accepted' /\ ~Occurs(queue'["context"], e)
  BY DEF Travels
<1> QED BY <1>1, <1>2, <1>3 DEF Travels, Occurs, CallEvent, NotHanded, Item

\* The queues that calls and their events are in stay as they are.
LEMMA TravelsStay ==
    ASSUME Travels, queue'["context"] = queue["context"], queue'["storage"] = queue["storage"],
           UNCHANGED <<accepted, handed>>
    PROVE  Travels'
<1>1. Distinct(queue'["context"])
  BY DEF Travels
<1> QED BY <1>1, TravelsKeep

\* Other work is queued, or is rejected.
LEMMA TravelsPush ==
    ASSUME IInv, Travels, NEW y \in ContextItem, y \notin CallEvent,
           queue'["context"] = queue["context"] \/ queue'["context"] = queue["context"] \o <<y>>,
           queue'["storage"] = queue["storage"], UNCHANGED <<accepted, handed>>
    PROVE  Travels'
<1>1. CASE queue'["context"] = queue["context"]
  BY <1>1, TravelsStay
<1>2. CASE queue'["context"] = queue["context"] \o <<y>>
  <2>1. Distinct(queue'["context"])
    BY <1>2, DistinctAdd, Queues DEF Travels
  <2>2. \A e \in CallEvent : Occurs(queue'["context"], e) => Occurs(queue["context"], e)
    BY <1>2, OccursAdd, Queues
  <2> QED BY <2>1, <2>2, TravelsKeep
<1> QED BY <1>1, <1>2

\* A call is queued that was not made before.
LEMMA TravelsAccept ==
    ASSUME IInv, Travels, NEW e \in CallEvent, e \notin accepted,
           queue'["context"] = queue["context"] \o <<e>>,
           queue'["storage"] = queue["storage"],
           accepted' = accepted \cup {e}, handed' = handed
    PROVE  Travels'
<1>1. e \in ContextItem
  BY DEF ContextItem, Event
<1>2. Distinct(queue'["context"])
  BY <1>1, DistinctAdd, Queues DEF Travels
<1>3. \A d \in CallEvent : Occurs(queue'["context"], d) <=> d = e \/ Occurs(queue["context"], d)
  BY <1>1, OccursAdd, Queues
<1>4. Distinct(queue["context"])'
  BY <1>2 DEF Distinct
<1>5. \A d \in CallEvent : Occurs(queue'["context"], d) => d \in accepted'
  BY <1>3 DEF Travels
<1>6. \A d \in CallEvent : Occurs(queue'["storage"], d) \/ handed'[d] # NotHanded =>
          d \in accepted' /\ ~Occurs(queue'["context"], d)
  BY <1>3 DEF Travels
<1> QED BY <1>4, <1>5, <1>6 DEF Travels, Occurs, CallEvent, NotHanded, Item

\* The context thread takes work, and may hand its event to the storage thread.
LEMMA TravelsRun ==
    ASSUME IInv, Travels, queue["context"] # <<>>,
           queue'["context"] = Tail(queue["context"]), UNCHANGED <<accepted, handed>>,
           \/ queue'["storage"] = queue["storage"]
           \/ Head(queue["context"]) \in StorageItem
              /\ queue'["storage"] = queue["storage"] \o <<Head(queue["context"])>>
    PROVE  Travels'
<1> DEFINE h == Head(queue["context"])
<1>1. /\ Distinct(queue'["context"])
      /\ h \in CallEvent => ~Occurs(queue'["context"], h) /\ h \in accepted
  <2>1. Occurs(queue["context"], h)
    BY OccursTail, Queues
  <2> QED BY <2>1, DistinctTail, Queues DEF Travels
<1>2. \A e \in CallEvent : Occurs(queue'["context"], e) => Occurs(queue["context"], e)
  BY OccursTail, Queues
<1>3. \A e \in CallEvent : Occurs(queue'["storage"], e) => Occurs(queue["storage"], e) \/ e = h
  BY OccursAdd, Queues
<1> HIDE DEF h
<1> QED BY <1>1, <1>2, <1>3, TravelsKeep

\* The storage thread takes an item, and may file it.
LEMMA TravelsStore ==
    ASSUME IInv, Travels, queue["storage"] # <<>>,
           queue'["storage"] = Tail(queue["storage"]), queue'["context"] = queue["context"],
           accepted' = accepted,
           \A e \in CallEvent : handed'[e] = handed[e] \/ e = Head(queue["storage"])
    PROVE  Travels'
<1>1. \A e \in CallEvent : Occurs(queue'["storage"], e) \/ e = Head(queue["storage"]) =>
          Occurs(queue["storage"], e)
  BY OccursTail, Queues
<1>2. Distinct(queue'["context"])
  BY DEF Travels
<1> QED BY <1>1, <1>2, TravelsKeep

\* The items that the threads push.
LEMMA ItemTypes ==
    /\ \A k \in {"init", "refresh", "process"} : Item(k, NoCall) \in ContextItem
    /\ \A v \in Consent : Item("consent", v) \in ContextItem /\ Item("consent", v) \in StorageItem
    /\ Refresh \in ContextItem /\ Item("crash", NoCall) \in ContextItem
    /\ \A l \in ErrorLog : Item("error", l) \in ContextItem
    /\ \A e \in Event : e \in ContextItem /\ e \in StorageItem
    /\ \A v \in Consent : Item("changed", v) \in BusItem
    /\ \A n \in Nat : Item("rumState", n) \in BusItem
    /\ \A l \in ErrorLog : Item("logError", l) \in BusItem
    /\ Item("crashReport", NoCall) \in BusItem
BY DEF ContextItem, StorageItem, BusItem, Refresh, Event, OtherEvent

LEMMA CallEventFacts ==
    /\ \A l \in Log : Item("log", l) \in CallEvent /\ Item("log", l) \in Event
    /\ \A c \in Command : Item("command", c) \in CallEvent /\ Item("command", c) \in Event
    /\ \A l \in ErrorLog : Item("error", l) \in Event
    /\ Item("crash", NoCall) \in Event
BY DEF CallEvent, Event, OtherEvent

\* The event that a work e of the context thread makes, and what it says to others.
LEMMA EventRuns ==
    ASSUME IInv, NEW e \in Event, NEW b,
           Runs(e, [Nothing EXCEPT !["storage"] = Written(e), !["bus"] = b])
    PROVE  /\ queue["context"] # <<>> /\ e = Head(queue["context"])
           /\ queue'["context"] = Tail(queue["context"])
           /\ queue'["bus"] = queue["bus"] \o b
           /\ queue'["storage"] = queue["storage"] \o <<e>>
<1>1. queue["context"] # <<>> /\ e = Head(queue["context"])
      /\ Handle("context", [Nothing EXCEPT !["storage"] = Written(e), !["bus"] = b])
  BY DEF Runs, First
<1>2. Written(e) = <<e>>
  BY <1>1, WhenRunning DEF Written
<1> QED BY <1>1, <1>2, ContextTakesBoth

LEMMA RunLogQueues ==
    ASSUME IInv, NEW l \in Log, RunLog(l)
    PROVE  /\ queue["context"] # <<>> /\ Head(queue["context"]) = Item("log", l)
           /\ queue'["context"] = Tail(queue["context"])
           /\ queue'["bus"] = queue["bus"] \/ (l \in ErrorLog
                /\ queue'["bus"] = queue["bus"] \o <<Item("logError", l)>>)
           /\ queue'["storage"] = queue["storage"] \o <<Item("log", l)>>
<1> DEFINE b == IF l \in ErrorLog THEN <<Item("logError", l)>> ELSE <<>>
<1>1. Runs(Item("log", l), [Nothing EXCEPT !["storage"] = Written(Item("log", l)), !["bus"] = b])
  BY DEF RunLog
<1>2. queue["bus"] \o <<>> = queue["bus"]
  BY Queues
<1>3. b = <<>> \/ (l \in ErrorLog /\ b = <<Item("logError", l)>>)
  OBVIOUS
<1> HIDE DEF b
<1> QED BY <1>1, <1>2, <1>3, EventRuns, CallEventFacts

LEMMA ProcessQueues ==
    ASSUME IInv, NEW e \in Event, Process(e)
    PROVE  /\ queue["context"] # <<>> /\ Head(queue["context"]) = e
           /\ queue'["context"] = Tail(queue["context"])
           /\ queue'["bus"] = queue["bus"] \o <<Item("rumState", snapshot + 1)>>
           /\ queue'["storage"] = queue["storage"] \o <<e>>
<1> DEFINE b == <<Item("rumState", snapshot + 1)>>
<1>1. Runs(e, [Nothing EXCEPT !["storage"] = Written(e), !["bus"] = b])
  BY DEF Process
<1> HIDE DEF b
<1>2. /\ queue["context"] # <<>> /\ e = Head(queue["context"])
      /\ queue'["context"] = Tail(queue["context"])
      /\ queue'["bus"] = queue["bus"] \o b
      /\ queue'["storage"] = queue["storage"] \o <<e>>
  BY <1>1, EventRuns
<1> QED BY <1>2 DEF b

LEMMA RunInitQueues ==
    ASSUME IInv, RunInit
    PROVE  /\ queue["context"] # <<>> /\ Head(queue["context"]) = Item("init", NoCall)
           /\ queue'["context"] = Tail(queue["context"])
           /\ queue'["bus"] = queue["bus"] \o <<Item("rumState", 0)>>
           /\ queue'["storage"] = queue["storage"]
<1>1. <<Item("rumState", 0)>> \in Seq(BusItem)
  BY ItemTypes, SequenceFacts
<1> QED BY <1>1, ContextTakesOne DEF RunInit, Runs, First

LEMMA UpdateQueues ==
    ASSUME IInv, NEW new \in [consent : Consent, rum : Nat], Update(new)
    PROVE  /\ queue["context"] # <<>>
           /\ queue'["context"] = Tail(queue["context"])
           /\ attached => queue'["bus"] = queue["bus"] \o <<Changed(new)>>
           /\ ~attached => queue'["bus"] = queue["bus"]
           /\ queue'["storage"] = queue["storage"]
<1> DEFINE b == IF attached THEN <<Changed(new)>> ELSE <<>>
<1>1. b \in Seq(BusItem)
  <2>1. Changed(new) \in BusItem
    BY DEF BusItem, Changed
  <2> QED BY <2>1, SequenceFacts
<1>2. Handle("context", To("bus", b))
  BY DEF Update, Runs
<1>3. queue["bus"] \o <<>> = queue["bus"]
  BY Queues
<1>4. (attached => b = <<Changed(new)>>) /\ (~attached => b = <<>>)
  OBVIOUS
<1> HIDE DEF b
<1> QED BY <1>1, <1>2, <1>3, <1>4, ContextTakesOne

LEMMA RunRefreshQueues ==
    ASSUME IInv, RunRefresh
    PROVE  /\ queue["context"] # <<>> /\ Head(queue["context"]) = Refresh
           /\ queue'["context"] = Tail(queue["context"])
           /\ attached => queue'["bus"] = queue["bus"] \o <<Item("changed", context.consent)>>
           /\ ~attached => queue'["bus"] = queue["bus"]
           /\ queue'["storage"] = queue["storage"]
           /\ context' = [context EXCEPT !.rum = snapshot]
<1> DEFINE new == [context EXCEPT !.rum = snapshot]
<1>1. new \in [consent : Consent, rum : Nat] /\ new.consent = context.consent
  BY DEF IInv, TypeOK
<1>2. Update(new) /\ Head(queue["context"]) = Refresh
  BY DEF RunRefresh, First, Refresh
<1>3. context' = new
  BY <1>2 DEF Update
<1> HIDE DEF new
<1>4. /\ queue["context"] # <<>>
      /\ queue'["context"] = Tail(queue["context"])
      /\ attached => queue'["bus"] = queue["bus"] \o <<Changed(new)>>
      /\ ~attached => queue'["bus"] = queue["bus"]
      /\ queue'["storage"] = queue["storage"]
  BY <1>1, <1>2, UpdateQueues
<1>5. Changed(new) = Item("changed", context.consent)
  BY <1>1 DEF Changed
<1> QED BY <1>2, <1>3, <1>4, <1>5 DEF new

LEMMA RunConsentQueues ==
    ASSUME IInv, NEW v \in Consent, RunConsent(v)
    PROVE  /\ queue["context"] # <<>> /\ Head(queue["context"]) = Item("consent", v)
           /\ queue'["context"] = Tail(queue["context"])
           /\ attached => queue'["bus"] = queue["bus"] \o <<Item("changed", v)>>
           /\ ~attached => queue'["bus"] = queue["bus"]
           /\ queue'["storage"] = queue["storage"]
           /\ context' = [context EXCEPT !.consent = v]
<1> DEFINE new == [context EXCEPT !.consent = v]
<1>1. new \in [consent : Consent, rum : Nat] /\ new.consent = v
  BY DEF IInv, TypeOK
<1>2. Update(new) /\ Head(queue["context"]) = Item("consent", v)
  BY DEF RunConsent, First
<1>3. context' = new
  BY <1>2 DEF Update
<1> HIDE DEF new
<1>4. /\ queue["context"] # <<>>
      /\ queue'["context"] = Tail(queue["context"])
      /\ attached => queue'["bus"] = queue["bus"] \o <<Changed(new)>>
      /\ ~attached => queue'["bus"] = queue["bus"]
      /\ queue'["storage"] = queue["storage"]
  BY <1>1, <1>2, UpdateQueues
<1>5. Changed(new) = Item("changed", v)
  BY <1>1 DEF Changed
<1> QED BY <1>2, <1>3, <1>4, <1>5 DEF new

LEMMA RunProcessQueues ==
    ASSUME IInv, RunProcess
    PROVE  /\ queue["context"] # <<>> /\ Head(queue["context"]) = Item("process", NoCall)
           /\ queue'["context"] = Tail(queue["context"])
           /\ \/ queue'["bus"] = queue["bus"]
              \/ queue'["bus"] = queue["bus"] \o <<Item("crashReport", NoCall)>>
           /\ queue'["storage"] = queue["storage"]
<1> DEFINE b == IF report THEN <<Item("crashReport", NoCall)>> ELSE <<>>
<1>1. b \in Seq(BusItem)
  BY ItemTypes, SequenceFacts
<1>2. Handle("context", To("bus", b)) /\ Head(queue["context"]) = Item("process", NoCall)
  BY DEF RunProcess, Runs, First
<1>3. queue["bus"] \o <<>> = queue["bus"]
  BY Queues
<1>4. b = <<Item("crashReport", NoCall)>> \/ b = <<>>
  OBVIOUS
<1> HIDE DEF b
<1> QED BY <1>1, <1>2, <1>3, <1>4, ContextTakesOne

LEMMA RunCrashQueues ==
    ASSUME IInv, RunCrash
    PROVE  /\ queue["context"] # <<>> /\ Head(queue["context"]) = Item("crash", NoCall)
           /\ queue'["context"] = Tail(queue["context"])
           /\ queue'["bus"] = queue["bus"]
           /\ queue'["storage"] = queue["storage"] \o <<Item("crash", NoCall)>>
<1> DEFINE out == To("storage", Written(Item("crash", NoCall)))
<1>1. /\ queue["context"] # <<>> /\ Head(queue["context"]) = Item("crash", NoCall)
      /\ Handle("context", out)
  BY DEF RunCrash, Runs, First
<1>2. Written(Item("crash", NoCall)) = <<Item("crash", NoCall)>>
  BY <1>1, WhenRunning DEF Written
<1>3. out["bus"] = <<>> /\ out["storage"] = <<Item("crash", NoCall)>>
  BY <1>2, ThreeQueues DEF To, Nothing
<1> HIDE DEF out
<1>4. queue["bus"] \o <<>> = queue["bus"]
  BY Queues
<1> QED BY <1>1, <1>3, <1>4, ContextTakes

LEMMA HearQueues ==
    ASSUME IInv, (\E v \in Consent : HearContext(v)) \/ HearRumState
    PROVE  /\ queue["bus"] # <<>>
           /\ queue'["context"] = queue["context"]
           /\ queue'["bus"] = Tail(queue["bus"])
           /\ queue'["storage"] = queue["storage"]
<1>1. Handle("bus", Nothing)
  BY DEF HearContext, HearRumState, Receives
<1> QED BY <1>1, BusTakes

LEMMA HearLogErrorQueues ==
    ASSUME IInv, NEW l \in ErrorLog, HearLogError(l)
    PROVE  /\ queue["bus"] # <<>> /\ Head(queue["bus"]) = Item("logError", l)
           /\ queue'["context"] = IF open["context"] = "open"
                                  THEN queue["context"] \o <<Item("error", l)>>
                                  ELSE queue["context"]
           /\ queue'["bus"] = Tail(queue["bus"])
           /\ queue'["storage"] = queue["storage"]
<1>1. Handle("bus", To("context", <<Item("error", l)>>)) /\ Head(queue["bus"]) = Item("logError", l)
  BY DEF HearLogError, Receives, First
<1> QED BY <1>1, BusTakesOne, ItemTypes

LEMMA HearCrashReportQueues ==
    ASSUME IInv, HearCrashReport
    PROVE  /\ queue["bus"] # <<>> /\ Head(queue["bus"]) = Item("crashReport", NoCall)
           /\ queue'["context"] = IF open["context"] = "open"
                                  THEN queue["context"] \o <<Item("crash", NoCall)>>
                                  ELSE queue["context"]
           /\ queue'["bus"] = Tail(queue["bus"])
           /\ queue'["storage"] = queue["storage"]
<1>1. /\ Handle("bus", To("context", <<Item("crash", NoCall)>>))
      /\ Head(queue["bus"]) = Item("crashReport", NoCall)
  BY DEF HearCrashReport, Receives, First
<1> QED BY <1>1, BusTakesOne, ItemTypes

LEMMA RefreshQueues ==
    ASSUME IInv, RelayRefresh \/ \E t \in Thread : FinishDispatch(t)
    PROVE  /\ queue'["context"] = IF open["context"] = "open" THEN queue["context"] \o <<Refresh>>
                                                              ELSE queue["context"]
           /\ queue'["bus"] = queue["bus"]
           /\ queue'["storage"] = queue["storage"]
<1>1. Push(To("context", <<Refresh>>))
  BY DEF RelayRefresh, FinishDispatch, Refresh
<1> QED BY <1>1, PushesOne, ItemTypes

\* While the core is called, all queues are open.
LEMMA OpenWhenCalled ==
    ASSUME IInv, state = "started", main \in {"idle", "update"}
    PROVE  open["context"] = "open" /\ open["bus"] = "open" /\ open["storage"] = "open"
BY ThreeQueues DEF IInv, Phases

LEMMA UpdateContextQueues ==
    ASSUME IInv, UpdateContext
    PROVE  /\ queue'["context"] = queue["context"] \o <<Item("consent", consent)>>
           /\ queue'["bus"] = queue["bus"]
           /\ queue'["storage"] = queue["storage"]
<1>1. Push(To("context", <<Item("consent", consent)>>)) /\ main = "update"
  BY DEF UpdateContext
<1>2. consent \in Consent /\ state = "started"
  BY <1>1 DEF IInv, TypeOK, Phases
<1> QED BY <1>1, <1>2, PushesOne, ItemTypes, OpenWhenCalled

LEMMA SetConsentQueues ==
    ASSUME IInv, NEW v \in Choice, SetConsentStarted(v)
    PROVE  /\ queue'["context"] = queue["context"]
           /\ queue'["bus"] = queue["bus"]
           /\ queue'["storage"] = queue["storage"] \o <<Item("consent", v)>>
<1>1. Push(To("storage", <<Item("consent", v)>>)) /\ main = "idle" /\ state = "started"
  BY DEF SetConsentStarted
<1>2. v \in Consent
  BY ConsentAssumption
<1> QED BY <1>1, <1>2, PushesConsent, ItemTypes, OpenWhenCalled

LEMMA StartQueues ==
    ASSUME IInv, Start
    PROVE  /\ queue["context"] = <<>> /\ queue["bus"] = <<>> /\ queue["storage"] = <<>>
           /\ queue'["context"] = <<>> /\ queue'["storage"] = <<>>
           /\ queue'["bus"] = <<Item("changed", context.consent)>>
<1>1. queue["context"] = <<>> /\ queue["bus"] = <<>> /\ queue["storage"] = <<>>
  BY ThreeQueues DEF Start, IInv, Phases, TypeOK
<1>2. context'.consent = context.consent
  BY DEF Start, IInv, TypeOK
<1>3. queue' = [queue EXCEPT !["bus"] = <<Item("changed", context.consent)>>]
  BY <1>2 DEF Start, Changed
<1> QED BY <1>1, <1>3, ThreeQueues DEF IInv, QueuesTyped

LEMMA LogCallQueues ==
    ASSUME IInv, NEW t \in Thread, NEW l \in Log, LogCall(t, l)
    PROVE  /\ queue'["context"] = queue["context"] \o <<Item("log", l)>>
           /\ queue'["bus"] = queue["bus"] /\ queue'["storage"] = queue["storage"]
           /\ state = "started" /\ main \in {"idle", "update"}
<1>1. /\ Push(To("context", <<Item("log", l)>>))
      /\ state = "started" /\ main \in {"idle", "update"}
  BY DEF LogCall, Callable
<1> QED BY <1>1, PushesOne, ItemTypes, CallEventFacts, OpenWhenCalled

LEMMA DispatchQueues ==
    ASSUME IInv, NEW t \in Thread, NEW c \in Command, Dispatch(t, c)
    PROVE  /\ queue'["context"] = queue["context"] \o <<Item("command", c)>>
           /\ queue'["bus"] = queue["bus"] /\ queue'["storage"] = queue["storage"]
           /\ state = "started" /\ main \in {"idle", "update"}
<1>1. /\ Push(To("context", <<Item("command", c)>>))
      /\ state = "started" /\ main \in {"idle", "update"}
  BY DEF Dispatch, Callable
<1> QED BY <1>1, PushesOne, ItemTypes, CallEventFacts, OpenWhenCalled

\* The steps of the main thread that touch no queue.
QuietStep ==
    \/ StartMessaging \/ StopContext \/ JoinContext \/ JoinBus \/ StopFeature
    \/ StopStorage \/ JoinStorage \/ \E v \in Choice : SetConsentStopped(v)

LEMMA TravelsNext == ASSUME IInv, Travels, Next PROVE Travels'
<1>1. ASSUME NEW l \in Log, RunLog(l) PROVE Travels'
  BY <1>1, RunLogQueues, TravelsRun, CallEventFacts, ItemTypes DEF RunLog, historyVars
<1>2. ASSUME NEW c \in Command, RunCommand(c) PROVE Travels'
  BY <1>2, ProcessQueues, TravelsRun, CallEventFacts, ItemTypes DEF RunCommand, Process, historyVars
<1>3. ASSUME NEW l \in ErrorLog, RunError(l) PROVE Travels'
  BY <1>3, ProcessQueues, TravelsRun, CallEventFacts, ItemTypes DEF RunError, Process, historyVars
<1>4. ASSUME RunInit PROVE Travels'
  BY <1>4, RunInitQueues, TravelsRun DEF RunInit, historyVars
<1>5. ASSUME RunRefresh PROVE Travels'
  BY <1>5, RunRefreshQueues, TravelsRun DEF RunRefresh, Update, historyVars
<1>6. ASSUME RunProcess PROVE Travels'
  BY <1>6, RunProcessQueues, TravelsRun DEF RunProcess, historyVars
<1>7. ASSUME RunCrash PROVE Travels'
  BY <1>7, RunCrashQueues, TravelsRun, ItemTypes, CallEventFacts DEF RunCrash, historyVars
<1>8. ASSUME NEW v \in Consent, RunConsent(v) PROVE Travels'
  BY <1>8, RunConsentQueues, TravelsRun DEF RunConsent, Update, historyVars
<1>9. ASSUME (\E v \in Consent : HearContext(v)) \/ HearRumState PROVE Travels'
  BY <1>9, HearQueues, TravelsStay DEF HearContext, HearRumState, historyVars
<1>10. ASSUME NEW l \in ErrorLog, HearLogError(l) PROVE Travels'
  BY <1>10, HearLogErrorQueues, TravelsPush, ItemTypes, NoCallEvent DEF HearLogError, historyVars
<1>11. ASSUME HearCrashReport PROVE Travels'
  BY <1>11, HearCrashReportQueues, TravelsPush, ItemTypes, NoCallEvent
     DEF HearCrashReport, historyVars
<1>12. ASSUME RelayRefresh \/ \E t \in Thread : FinishDispatch(t) PROVE Travels'
  <2>1. UNCHANGED <<accepted, handed>>
    BY <1>12 DEF RelayRefresh, FinishDispatch, historyVars
  <2>2. Refresh \notin CallEvent
    BY NoCallEvent DEF Refresh
  <2> QED BY <1>12, <2>1, <2>2, RefreshQueues, TravelsPush, ItemTypes
<1>13. ASSUME NEW v \in Consent, StoreConsent(v) PROVE Travels'
  <2>1. Handle("storage", Nothing)
    BY <1>13 DEF StoreConsent, Stores
  <2> QED BY <1>13, <2>1, StorageTakes, TravelsStore DEF StoreConsent, historyVars
<1>14. ASSUME NEW e \in Event, StoreEvent(e) PROVE Travels'
  <2>1. Handle("storage", Nothing) /\ e = Head(queue["storage"])
    BY <1>14 DEF StoreEvent, Stores, First
  <2>2. \A d \in CallEvent : handed'[d] = handed[d] \/ d = e
    BY <1>14 DEF StoreEvent, IInv, TypeOK, Event
  <2> QED BY <1>14, <2>1, <2>2, StorageTakes, TravelsStore DEF StoreEvent, historyVars
<1>15. ASSUME UpdateContext PROVE Travels'
  <2>1. Item("consent", consent) \in ContextItem
    BY ItemTypes DEF IInv, TypeOK
  <2> QED BY <1>15, <2>1, UpdateContextQueues, TravelsPush, NoCallEvent DEF UpdateContext, historyVars
<1>16. ASSUME NEW v \in Choice, SetConsentStarted(v) PROVE Travels'
  <2>1. Item("consent", v) \in StorageItem
    BY ItemTypes, ConsentAssumption
  <2>2. \A e \in CallEvent : Occurs(queue'["storage"], e) => Occurs(queue["storage"], e)
    <3>1. queue'["storage"] = queue["storage"] \o <<Item("consent", v)>>
      BY <1>16, SetConsentQueues
    <3>2. Item("consent", v) \notin CallEvent
      BY NoCallEvent
    <3> QED BY <2>1, <3>1, <3>2, OccursAdd, Queues
  <2>3. Distinct(queue'["context"])
    BY <1>16, SetConsentQueues DEF Travels
  <2> QED BY <1>16, <2>2, <2>3, SetConsentQueues, TravelsKeep DEF SetConsentStarted, historyVars
<1>17. ASSUME Start PROVE Travels'
  BY <1>17, StartQueues, TravelsStay DEF Start
<1>18. ASSUME StartFeature PROVE Travels'
  <2>1. PICK f \in Feature :
              /\ scope' = scope \cup {f}
              /\ queue'["bus"] = queue["bus"] /\ queue'["storage"] = queue["storage"]
              /\ f = "rum" => queue'["context"] =
                    (queue["context"] \o <<Item("init", NoCall)>>) \o <<Refresh>>
              /\ f = "crash" => queue'["context"] = queue["context"] \o <<Item("process", NoCall)>>
              /\ f = "logging" => queue'["context"] = queue["context"]
    BY <1>18, StartsFeature
  <2>2. UNCHANGED <<accepted, handed>>
    BY <1>18 DEF StartFeature, historyVars
  <2>3. CASE f = "rum"
    <3> DEFINE s == queue["context"] \o <<Item("init", NoCall)>>
    <3>1. s \in Seq(ContextItem) /\ Distinct(s)
      BY AddFacts, DistinctAdd, Queues, ItemTypes, NoCallEvent DEF Travels
    <3>2. \A e \in CallEvent : Occurs(s, e) => Occurs(queue["context"], e)
      BY OccursAdd, Queues, ItemTypes, NoCallEvent
    <3>3. Refresh \in ContextItem /\ Refresh \notin CallEvent
      BY ItemTypes, NoCallEvent DEF Refresh
    <3>4. queue'["context"] = s \o <<Refresh>>
      BY <2>1, <2>3
    <3> HIDE DEF s
    <3>5. Distinct(queue'["context"])
      BY <3>1, <3>3, <3>4, DistinctAdd
    <3>6. \A e \in CallEvent : Occurs(queue'["context"], e) => Occurs(queue["context"], e)
      BY <3>1, <3>2, <3>3, <3>4, OccursAdd
    <3> QED BY <2>1, <2>2, <3>5, <3>6, TravelsKeep
  <2>4. CASE f = "crash"
    BY <2>1, <2>2, <2>4, TravelsPush, ItemTypes, NoCallEvent
  <2>5. CASE f = "logging"
    BY <2>1, <2>2, <2>5, TravelsStay
  <2> QED BY <2>3, <2>4, <2>5 DEF Feature
<1>19. ASSUME QuietStep PROVE Travels'
  BY <1>19, TravelsStay DEF QuietStep, StartMessaging, StopContext, JoinContext, JoinBus, StopFeature,
     StopStorage, JoinStorage, SetConsentStopped, historyVars
<1>20. ASSUME NEW t \in Thread, NEW l \in Log, LogCall(t, l) PROVE Travels'
  BY <1>20, LogCallQueues, TravelsAccept, CallEventFacts DEF LogCall, Accept
<1>21. ASSUME NEW t \in Thread, NEW c \in Command, Dispatch(t, c) PROVE Travels'
  BY <1>21, DispatchQueues, TravelsAccept, CallEventFacts DEF Dispatch, Accept
<1> QED BY <1>1, <1>2, <1>3, <1>4, <1>5, <1>6, <1>7, <1>8, <1>9, <1>10, <1>11, <1>12, <1>13,
           <1>14, <1>15, <1>16, <1>17, <1>18, <1>19, <1>20, <1>21
        DEF Next, MainCall, MainStep, ApiCall, ThreadStep, ContextStep, MessagingStep, StorageStep,
            QuietStep

-----------------------------------------------------------------------------
(* How many changes of the consent the storage thread has seen at each item *)

LEMMA DatedAdd ==
    ASSUME NEW S, NEW s \in Seq(S), NEW y \in S, NEW from, NEW to \in Nat,
           NEW ask \in [CallEvent -> Nat], Dated(s, from, to, ask),
           NEW next \in 0 .. MaxChanges, next = IF y.kind = "consent" THEN to + 1 ELSE to,
           y \in CallEvent => ask[y] <= to
    PROVE  Dated(s \o <<y>>, from, next, ask)
<1> DEFINE t == s \o <<y>>
           n == Len(s)
<1>1. PICK f \in [1 .. n + 1 -> 0 .. MaxChanges] :
        /\ f[1] = from /\ f[n + 1] = to
        /\ \A i \in 1 .. n :
              /\ s[i].kind = "consent" => f[i + 1] = f[i] + 1
              /\ s[i].kind # "consent" => f[i + 1] = f[i]
              /\ s[i] \in CallEvent => ask[s[i]] <= f[i]
  BY DEF Dated
<1> DEFINE g == [i \in 1 .. n + 2 |-> IF i <= n + 1 THEN f[i] ELSE next]
<1>2. /\ n \in Nat /\ Len(t) = n + 1 /\ t[n + 1] = y
      /\ \A i \in 1 .. n : t[i] = s[i]
  BY AddFacts
<1> HIDE DEF t, n
<1>3. g \in [1 .. Len(t) + 1 -> 0 .. MaxChanges]
  BY <1>1, <1>2
<1>4. g[1] = from /\ g[Len(t) + 1] = next
  BY <1>1, <1>2
<1>5. ASSUME NEW i \in 1 .. Len(t)
      PROVE  /\ t[i].kind = "consent" => g[i + 1] = g[i] + 1
             /\ t[i].kind # "consent" => g[i + 1] = g[i]
             /\ t[i] \in CallEvent => ask[t[i]] <= g[i]
  <2>1. CASE i \in 1 .. n
    <3>1. g[i] = f[i] /\ g[i + 1] = f[i + 1] /\ t[i] = s[i]
      BY <1>2, <2>1
    <3> QED BY <1>1, <2>1, <3>1
  <2>2. CASE i = n + 1
    <3>1. g[i] = to /\ g[i + 1] = next /\ t[i] = y
      BY <1>1, <1>2, <2>2
    <3> QED BY <3>1
  <2> QED BY <1>2, <2>1, <2>2
<1> HIDE DEF g
<1> QED BY <1>3, <1>4, <1>5 DEF Dated, t

LEMMA DatedTail ==
    ASSUME NEW S, NEW s \in Seq(S), s # <<>>, NEW from \in Nat, NEW to, NEW ask,
           Dated(s, from, to, ask)
    PROVE  /\ Head(s).kind = "consent" => Dated(Tail(s), from + 1, to, ask)
           /\ Head(s).kind # "consent" => Dated(Tail(s), from, to, ask)
           /\ Head(s) \in CallEvent => ask[Head(s)] <= from
<1> DEFINE t == Tail(s)
           n == Len(s)
<1>1. PICK f \in [1 .. n + 1 -> 0 .. MaxChanges] :
        /\ f[1] = from /\ f[n + 1] = to
        /\ \A i \in 1 .. n :
              /\ s[i].kind = "consent" => f[i + 1] = f[i] + 1
              /\ s[i].kind # "consent" => f[i + 1] = f[i]
              /\ s[i] \in CallEvent => ask[s[i]] <= f[i]
  BY DEF Dated
<1> DEFINE g == [i \in 1 .. n |-> f[i + 1]]
           next == f[2]
<1>2. /\ n \in Nat /\ 1 \in 1 .. n /\ Len(t) = n - 1 /\ Head(s) = s[1]
      /\ \A i \in 1 .. n - 1 : t[i] = s[i + 1]
  BY TailFacts
<1> HIDE DEF t, n
<1>3. g \in [1 .. Len(t) + 1 -> 0 .. MaxChanges]
  BY <1>1, <1>2
<1>4. g[1] = next /\ g[Len(t) + 1] = to
  BY <1>1, <1>2
<1>5. ASSUME NEW i \in 1 .. Len(t)
      PROVE  /\ t[i].kind = "consent" => g[i + 1] = g[i] + 1
             /\ t[i].kind # "consent" => g[i + 1] = g[i]
             /\ t[i] \in CallEvent => ask[t[i]] <= g[i]
  <2>1. i + 1 \in 1 .. n /\ t[i] = s[i + 1] /\ g[i] = f[i + 1] /\ g[i + 1] = f[i + 1 + 1]
    BY <1>2
  <2> QED BY <1>1, <2>1
<1> HIDE DEF g
<1>6. Dated(t, next, to, ask)
  BY <1>3, <1>4, <1>5 DEF Dated
<1>7. /\ s[1].kind = "consent" => next = from + 1
      /\ s[1].kind # "consent" => next = from
      /\ s[1] \in CallEvent => ask[s[1]] <= from
  BY <1>1, <1>2
<1> QED BY <1>2, <1>6, <1>7 DEF t

LEMMA DatedAsk ==
    ASSUME NEW S, NEW s \in Seq(S), NEW from, NEW to, NEW ask, NEW ask2,
           Dated(s, from, to, ask),
           \A e \in CallEvent : Occurs(s, e) => ask2[e] = ask[e]
    PROVE  Dated(s, from, to, ask2)
<1>1. \A i \in 1 .. Len(s) : s[i] \in CallEvent => ask2[s[i]] = ask[s[i]]
  BY DEF Occurs
<1> QED BY <1>1 DEF Dated

LEMMA DatedNone ==
    ASSUME NEW from, NEW to, NEW ask
    PROVE  /\ Dated(<<>>, from, to, ask) => from = to
           /\ from \in 0 .. MaxChanges => Dated(<<>>, from, from, ask)
<1>1. Len(<<>>) = 0 /\ \A i \in 1 .. 0 : FALSE
  OBVIOUS
<1>2. ASSUME from \in 0 .. MaxChanges PROVE Dated(<<>>, from, from, ask)
  <2>1. [i \in 1 .. 1 |-> from] \in [1 .. Len(<<>>) + 1 -> 0 .. MaxChanges]
    BY <1>1, <1>2
  <2> DEFINE f == [i \in 1 .. 1 |-> from]
  <2>2. f[1] = from /\ f[Len(<<>>) + 1] = from
    BY <1>1
  <2> HIDE DEF f
  <2> QED BY <1>1, <2>1, <2>2 DEF Dated, f
<1>3. ASSUME Dated(<<>>, from, to, ask) PROVE from = to
  BY <1>1, <1>3 DEF Dated
<1> QED BY <1>2, <1>3

LEMMA ChangesTyped ==
    ASSUME IInv
    PROVE  /\ changes.seen \in Nat /\ changes.begun \in Nat /\ changes.done \in Nat
           /\ changes.begun \in 0 .. MaxChanges
           /\ asked \in [CallEvent -> Nat] /\ \A e \in CallEvent : asked[e] \in Nat
<1>1. changes \in [begun : 0 .. MaxChanges, done : 0 .. MaxChanges, seen : Nat]
      /\ asked \in [CallEvent -> 0 .. MaxChanges]
  BY DEF IInv, TypeOK
<1> QED BY <1>1, BoundAssumption

\* What is left to show of a step after which the storage queue is dated.
LEMMA FilingKeep ==
    ASSUME Filing, IInv, UNCHANGED <<asked, handed>>,
           Dated(queue'["storage"], changes'.seen, changes'.begun, asked),
           changes'.done = changes.done, changes.begun <= changes'.begun,
           changes'.begun \in Nat
    PROVE  Filing'
<1>1. Dated(queue["storage"], changes.seen, changes.begun, asked)'
  BY DEF Dated, CallEvent, Item
<1>2. (changes.done <= changes.begun)'
  BY ChangesTyped DEF Filing
<1>3. (\A e \in CallEvent : asked[e] <= changes.done)'
  BY DEF Filing, CallEvent, Item
<1>4. ConsentBinds'
  BY DEF Filing, ConsentBinds, CallEvent, NotHanded, Item
<1> QED BY <1>1, <1>2, <1>3, <1>4 DEF Filing

LEMMA FilingStay ==
    ASSUME Filing, IInv, UNCHANGED <<asked, handed, changes>>, queue'["storage"] = queue["storage"]
    PROVE  Filing'
BY FilingKeep, ChangesTyped DEF Filing

\* An event is handed to the storage thread after the changes that it was asked for.
LEMMA FilingEvent ==
    ASSUME Filing, IInv, UNCHANGED <<asked, handed, changes>>, NEW e \in Event,
           queue'["storage"] = queue["storage"] \o <<e>>
    PROVE  Filing'
<1>1. e \in StorageItem /\ e.kind # "consent"
  BY ItemTypes DEF Event, CallEvent, OtherEvent, Item
<1>2. e \in CallEvent => asked[e] <= changes.begun
  BY ChangesTyped DEF Filing
<1>3. Dated(queue'["storage"], changes.seen, changes.begun, asked)
  BY <1>1, <1>2, ChangesTyped, DatedAdd, Queues DEF Filing
<1> QED BY <1>3, FilingKeep, ChangesTyped

\* A call is made that was not made before.
LEMMA FilingAccept ==
    ASSUME Filing, IInv, Travels, UNCHANGED <<handed, changes>>, NEW e \in CallEvent, e \notin accepted,
           asked' = [asked EXCEPT ![e] = changes.done], queue'["storage"] = queue["storage"]
    PROVE  Filing'
<1>1. ~Occurs(queue["storage"], e) /\ handed[e] = NotHanded
  BY DEF Travels
<1>2. \A d \in CallEvent : d # e => asked'[d] = asked[d]
  BY ChangesTyped
<1>3. asked'[e] = changes.done
  BY ChangesTyped
<1>4. Dated(queue["storage"], changes.seen, changes.begun, asked')
  BY <1>1, <1>2, DatedAsk, Queues DEF Filing
<1>5. Dated(queue["storage"], changes.seen, changes.begun, asked)'
  BY <1>4 DEF Dated, CallEvent, Item
<1>6. \A d \in CallEvent : asked'[d] <= changes.done
  BY <1>2, <1>3, ChangesTyped DEF Filing
<1>7. ConsentBinds'
  BY <1>1, <1>2 DEF Filing, ConsentBinds, CallEvent, NotHanded, Item
<1> QED BY <1>5, <1>6, <1>7 DEF Filing, CallEvent, Item

\* The storage thread applies a change of the consent.
LEMMA FilingConsent ==
    ASSUME Filing, IInv, NEW v \in Consent, StoreConsent(v) PROVE Filing'
<1>1. Handle("storage", Nothing) /\ Head(queue["storage"]) = Item("consent", v)
  BY DEF StoreConsent, Stores, First
<1>2. queue["storage"] # <<>> /\ queue'["storage"] = Tail(queue["storage"])
  BY <1>1, StorageTakes
<1>3. Head(queue["storage"]).kind = "consent"
  BY <1>1 DEF Item
<1>4. Dated(queue'["storage"], changes.seen + 1, changes.begun, asked)
  BY <1>2, <1>3, DatedTail, ChangesTyped, Queues DEF Filing
<1>5. /\ changes'.seen = changes.seen + 1 /\ changes'.begun = changes.begun
      /\ changes'.done = changes.done /\ UNCHANGED <<asked, handed>>
  BY DEF StoreConsent, IInv, TypeOK, historyVars
<1> QED BY <1>4, <1>5, FilingKeep, ChangesTyped

\* It files an event under the consent it has seen.
LEMMA FilingStore ==
    ASSUME Filing, IInv, NEW e \in Event, StoreEvent(e) PROVE Filing'
<1>1. Handle("storage", Nothing) /\ Head(queue["storage"]) = e
  BY DEF StoreEvent, Stores, First
<1>2. queue["storage"] # <<>> /\ queue'["storage"] = Tail(queue["storage"])
  BY <1>1, StorageTakes
<1>3. e.kind # "consent"
  BY DEF Event, CallEvent, OtherEvent, Item
<1>4. /\ Dated(queue'["storage"], changes.seen, changes.begun, asked)
      /\ e \in CallEvent => asked[e] <= changes.seen
  BY <1>1, <1>2, <1>3, DatedTail, ChangesTyped, Queues DEF Filing
<1>5. UNCHANGED <<asked, changes>>
  BY DEF StoreEvent, historyVars
<1>6. /\ \A d \in CallEvent : d # e => handed'[d] = handed[d]
      /\ e \in CallEvent => handed'[e].at = changes.seen
  BY DEF StoreEvent, IInv, TypeOK, Event
<1>7. Dated(queue["storage"], changes.seen, changes.begun, asked)'
  BY <1>4, <1>5 DEF Dated, CallEvent, Item
<1>8. ConsentBinds'
  <2>1. ASSUME NEW d \in CallEvent, handed'[d] # NotHanded PROVE handed'[d].at >= asked'[d]
    <3>1. CASE d = e
      BY <1>4, <1>5, <1>6, <3>1, ChangesTyped
    <3>2. CASE d # e
      BY <1>5, <1>6, <2>1, <3>2 DEF Filing, ConsentBinds
    <3> QED BY <3>1, <3>2
  <2> QED BY <2>1 DEF ConsentBinds, CallEvent, NotHanded, Item
<1>9. (changes.done <= changes.begun /\ \A d \in CallEvent : asked[d] <= changes.done)'
  BY <1>5 DEF Filing, CallEvent, Item
<1> QED BY <1>7, <1>8, <1>9 DEF Filing

LEMMA FilingNext == ASSUME IInv, IInv', Travels, Filing, Next PROVE Filing'
<1>1. ASSUME NEW l \in Log, RunLog(l) PROVE Filing'
  BY <1>1, RunLogQueues, FilingEvent, CallEventFacts DEF RunLog, historyVars
<1>2. ASSUME NEW c \in Command, RunCommand(c) PROVE Filing'
  BY <1>2, ProcessQueues, FilingEvent, CallEventFacts DEF RunCommand, Process, historyVars
<1>3. ASSUME NEW l \in ErrorLog, RunError(l) PROVE Filing'
  BY <1>3, ProcessQueues, FilingEvent, CallEventFacts DEF RunError, Process, historyVars
<1>4. ASSUME RunInit PROVE Filing'
  BY <1>4, RunInitQueues, FilingStay DEF RunInit, historyVars
<1>5. ASSUME RunRefresh PROVE Filing'
  BY <1>5, RunRefreshQueues, FilingStay DEF RunRefresh, Update, historyVars
<1>6. ASSUME RunProcess PROVE Filing'
  BY <1>6, RunProcessQueues, FilingStay DEF RunProcess, historyVars
<1>7. ASSUME RunCrash PROVE Filing'
  BY <1>7, RunCrashQueues, FilingEvent, CallEventFacts DEF RunCrash, historyVars
<1>8. ASSUME NEW v \in Consent, RunConsent(v) PROVE Filing'
  BY <1>8, RunConsentQueues, FilingStay DEF RunConsent, Update, historyVars
<1>9. ASSUME (\E v \in Consent : HearContext(v)) \/ HearRumState PROVE Filing'
  BY <1>9, HearQueues, FilingStay DEF HearContext, HearRumState, historyVars
<1>10. ASSUME NEW l \in ErrorLog, HearLogError(l) PROVE Filing'
  BY <1>10, HearLogErrorQueues, FilingStay DEF HearLogError, historyVars
<1>11. ASSUME HearCrashReport PROVE Filing'
  BY <1>11, HearCrashReportQueues, FilingStay DEF HearCrashReport, historyVars
<1>12. ASSUME RelayRefresh \/ \E t \in Thread : FinishDispatch(t) PROVE Filing'
  <2>1. UNCHANGED <<asked, handed, changes>>
    BY <1>12 DEF RelayRefresh, FinishDispatch, historyVars
  <2> QED BY <1>12, <2>1, RefreshQueues, FilingStay
<1>13. ASSUME NEW v \in Consent, StoreConsent(v) PROVE Filing'
  BY <1>13, FilingConsent
<1>14. ASSUME NEW e \in Event, StoreEvent(e) PROVE Filing'
  BY <1>14, FilingStore
<1>15. ASSUME UpdateContext PROVE Filing'
  <2>1. /\ UNCHANGED <<asked, handed>> /\ queue'["storage"] = queue["storage"]
        /\ changes'.seen = changes.seen /\ changes'.begun = changes.begun
        /\ changes'.done = changes.begun
    BY <1>15, UpdateContextQueues DEF UpdateContext, IInv, TypeOK, historyVars
  <2>2. Dated(queue["storage"], changes.seen, changes.begun, asked)'
    BY <2>1 DEF Filing, Dated, CallEvent, Item
  <2>3. (changes.done <= changes.begun)' /\ \A e \in CallEvent : asked'[e] <= changes'.done
    BY <2>1, ChangesTyped DEF Filing
  <2>4. ConsentBinds'
    BY <2>1 DEF Filing, ConsentBinds, CallEvent, NotHanded, Item
  <2> QED BY <2>2, <2>3, <2>4 DEF Filing, CallEvent, Item
<1>16. ASSUME NEW v \in Choice, SetConsentStarted(v) PROVE Filing'
  <2>1. /\ UNCHANGED <<asked, handed>>
        /\ changes'.seen = changes.seen /\ changes'.begun = changes.begun + 1
        /\ changes'.done = changes.done
        /\ changes.begun + 1 \in 0 .. MaxChanges
    BY <1>16, ChangesTyped, BoundAssumption DEF SetConsentStarted, IInv, TypeOK, historyVars
  <2>2. Item("consent", v) \in StorageItem /\ Item("consent", v) \notin CallEvent
        /\ Item("consent", v).kind = "consent"
    BY ItemTypes, NoCallEvent, ConsentAssumption DEF Item
  <2>3. Dated(queue'["storage"], changes.seen, changes.begun + 1, asked)
    <3>1. queue'["storage"] = queue["storage"] \o <<Item("consent", v)>>
      BY <1>16, SetConsentQueues
    <3> DEFINE y == Item("consent", v)
    <3>2. y \in StorageItem /\ y \notin CallEvent /\ y.kind = "consent"
      BY <2>2
    <3>3. Dated(queue["storage"], changes.seen, changes.begun, asked)
      BY DEF Filing
    <3> HIDE DEF y
    <3>4. Dated(queue["storage"] \o <<y>>, changes.seen, changes.begun + 1, asked)
      BY <2>1, <3>2, <3>3, DatedAdd, ChangesTyped, Queues
    <3> QED BY <3>1, <3>4 DEF y
  <2> QED BY <2>1, <2>3, FilingKeep, ChangesTyped
<1>17. ASSUME Start PROVE Filing'
  BY <1>17, StartQueues, FilingStay DEF Start
<1>18. ASSUME StartFeature PROVE Filing'
  BY <1>18, StartsFeature, FilingStay DEF StartFeature, historyVars
<1>19. ASSUME NEW v \in Choice, SetConsentStopped(v) PROVE Filing'
  <2>1. /\ UNCHANGED <<asked, handed>> /\ queue' = queue
        /\ changes'.seen = changes.begun + 1 /\ changes'.begun = changes.begun + 1
        /\ changes'.done = changes.begun + 1
        /\ changes.begun + 1 \in 0 .. MaxChanges
    BY <1>19, ChangesTyped, BoundAssumption DEF SetConsentStopped, historyVars
  <2>2. queue["storage"] = <<>>
    BY <1>19, ThreeQueues DEF SetConsentStopped, IInv, Phases, TypeOK
  <2>3. Dated(<<>>, changes'.seen, changes'.begun, asked')
    BY <2>1, DatedNone
  <2>4. Dated(queue["storage"], changes.seen, changes.begun, asked)'
    BY <2>1, <2>2, <2>3 DEF Dated, CallEvent, Item
  <2>5. (changes.done <= changes.begun)' /\ \A e \in CallEvent : asked'[e] <= changes'.done
    BY <2>1, ChangesTyped DEF Filing
  <2>6. ConsentBinds'
    BY <2>1 DEF Filing, ConsentBinds, CallEvent, NotHanded, Item
  <2> QED BY <2>4, <2>5, <2>6 DEF Filing, CallEvent, Item
<1>20. ASSUME StartMessaging \/ StopContext \/ JoinContext \/ JoinBus \/ StopFeature
              \/ StopStorage \/ JoinStorage
       PROVE  Filing'
  BY <1>20, FilingStay DEF StartMessaging, StopContext, JoinContext, JoinBus, StopFeature,
     StopStorage, JoinStorage, historyVars
<1>21. ASSUME NEW t \in Thread, NEW l \in Log, LogCall(t, l) PROVE Filing'
  BY <1>21, LogCallQueues, FilingAccept, CallEventFacts DEF LogCall, Accept
<1>22. ASSUME NEW t \in Thread, NEW c \in Command, Dispatch(t, c) PROVE Filing'
  BY <1>22, DispatchQueues, FilingAccept, CallEventFacts DEF Dispatch, Accept
<1> QED BY <1>1, <1>2, <1>3, <1>4, <1>5, <1>6, <1>7, <1>8, <1>9, <1>10, <1>11, <1>12, <1>13,
           <1>14, <1>15, <1>16, <1>17, <1>18, <1>19, <1>20, <1>21, <1>22
        DEF Next, MainCall, MainStep, ApiCall, ThreadStep, ContextStep, MessagingStep, StorageStep

-----------------------------------------------------------------------------
(* What a log knows of the commands before it *)

LEMMA ReflectsMore ==
    ASSUME NEW S, NEW s \in Seq(S), NEW n \in Int, NEW m \in Int, n <= m,
           NEW x, NEW num, NEW snap, NEW rum, Reflects(s, n, x, num, snap, rum)
    PROVE  Reflects(s, m, x, num, snap, rum)
<1>1. CASE \E j \in DOMAIN s : j <= n /\ s[j] = Refresh /\ \A k \in DOMAIN s : s[k] = x => k < j
  <2>1. PICK j \in DOMAIN s : j <= n /\ s[j] = Refresh /\ \A k \in DOMAIN s : s[k] = x => k < j
    BY <1>1
  <2>2. j \in Nat
    OBVIOUS
  <2>3. j <= m
    BY <2>1, <2>2
  <2> QED BY <2>1, <2>3 DEF Reflects
<1>2. CASE ~Occurs(s, x) /\ num <= rum
  BY <1>2 DEF Reflects
<1> QED BY <1>1, <1>2 DEF Reflects

\* Nothing that Sights is about changes.
LEMMA SightsKeep ==
    ASSUME Sights, queue'["context"] = queue["context"], context'.rum = context.rum,
           UNCHANGED <<number, snapshot, last, calling, own, seen, accepted>>,
           main' = "starting" => main = "starting"
    PROVE  Sights'
BY DEF Sights

\* A log that is queued, or has run, when other work comes after it.
LEMMA ReflectedAdd ==
    ASSUME NEW S, NEW s \in Seq(S), NEW y \in S, y.kind # "init",
           NEW l, NEW c, NEW num, NEW snap, NEW rum, NEW saw,
           y # Item("log", l), y # Item("command", c),
           Reflected(s, l, c, num, snap, rum, saw)
    PROVE  Reflected(s \o <<y>>, l, c, num, snap, rum, saw)
<1> DEFINE t == s \o <<y>>
<1>1. ASSUME NEW i \in DOMAIN t, t[i] = Item("log", l)
      PROVE  Reflects(t, i - 1, Item("command", c), num, snap, rum)
  <2>1. i \in DOMAIN s /\ s[i] = Item("log", l)
    BY <1>1, AddFacts
  <2>2. Reflects(s, i - 1, Item("command", c), num, snap, rum)
    BY <2>1 DEF Reflected
  <2> QED BY <2>2, ReflectsAdd
<1>2. /\ Occurs(t, Item("log", l)) <=> Occurs(s, Item("log", l))
      /\ Occurs(t, Item("command", c)) <=> Occurs(s, Item("command", c))
  BY OccursAdd
<1> HIDE DEF t
<1> QED BY <1>1, <1>2 DEF Reflected, t

\* One that is queued now.
LEMMA ReflectedNew ==
    ASSUME NEW S, NEW s \in Seq(S), NEW l, Item("log", l) \in S,
           NEW c, NEW num, NEW snap, NEW rum, NEW saw,
           ~Occurs(s, Item("log", l)),
           Reflects(s, Len(s), Item("command", c), num, snap, rum)
    PROVE  Reflected(s \o <<Item("log", l)>>, l, c, num, snap, rum, saw)
<1> DEFINE y == Item("log", l)
           x == Item("command", c)
           t == s \o <<y>>
<1>1. y.kind # "init" /\ y # x /\ y \in S
  BY DEF Item
<1> HIDE DEF x
<1>2. Reflects(t, Len(s), x, num, snap, rum)
  BY <1>1, ReflectsAdd DEF x
<1>3. ASSUME NEW i \in DOMAIN t, t[i] = y PROVE i - 1 = Len(s)
  BY <1>1, <1>3, AddFacts DEF Occurs
<1>4. Occurs(t, y)
  BY <1>1, OccursAdd
<1> HIDE DEF t, y
<1> QED BY <1>2, <1>3, <1>4 DEF Reflected, t, x, y

\* One that is queued, or has run, when the context thread runs the first work.
LEMMA ReflectedTail ==
    ASSUME NEW S, NEW s \in Seq(S), s # <<>>, NEW l, NEW c,
           NEW num, NEW snap, NEW rum, NEW saw, NEW num2, NEW snap2, NEW rum2, NEW saw2,
           Reflected(s, l, c, num, snap, rum, saw),
           Known(Tail(s), Item("command", c), num2, snap2),
           (Head(s) # Item("command", c) /\ Head(s).kind # "init" /\ num <= snap
              /\ (Head(s) = Refresh \/ num <= rum)) => num2 <= rum2,
           Head(s) # Item("command", c) => num2 = num,
           saw2 = IF Head(s) = Item("log", l) THEN rum ELSE saw
    PROVE  Reflected(Tail(s), l, c, num2, snap2, rum2, saw2)
<1> DEFINE y == Item("log", l)
           x == Item("command", c)
           t == Tail(s)
<1>1. x # y
  BY DEF Item
<1> HIDE DEF x, y
<1>2. ASSUME NEW i \in DOMAIN t, t[i] = y PROVE Reflects(t, i - 1, x, num2, snap2, rum2)
  <2>1. i + 1 \in DOMAIN s /\ s[i + 1] = y /\ i \in Nat
    BY <1>2, TailFacts
  <2>2. Reflects(s, i, x, num, snap, rum)
    BY <2>1 DEF Reflected, x, y
  <2> QED BY <2>1, <2>2, ReflectsTail DEF x
<1>3. ASSUME ~Occurs(t, y) PROVE num2 <= saw2 /\ ~Occurs(t, x)
  <2>1. CASE Head(s) = y
    <3>1. 1 \in DOMAIN s /\ s[1] = y
      BY <2>1, TailFacts
    <3>2. Reflects(s, 0, x, num, snap, rum)
      BY <3>1 DEF Reflected, x, y
    <3>3. \A j \in DOMAIN s : ~ (j <= 0)
      OBVIOUS
    <3>4. ~Occurs(s, x) /\ num <= rum
      BY <3>2, <3>3 DEF Reflects
    <3>5. ~Occurs(t, x) /\ Head(s) # x
      BY <3>4, OccursTail
    <3> QED BY <2>1, <3>4, <3>5 DEF x, y
  <2>2. CASE Head(s) # y
    <3>1. ~Occurs(s, y)
      BY <1>3, <2>2, OccursTail
    <3>2. num <= saw /\ ~Occurs(s, x)
      BY <3>1 DEF Reflected, x, y
    <3>3. ~Occurs(t, x) /\ Head(s) # x
      BY <3>2, OccursTail
    <3> QED BY <2>2, <3>2, <3>3 DEF x, y
  <2> QED BY <2>1, <2>2
<1> HIDE DEF t
<1> QED BY <1>2, <1>3 DEF Reflected, t, x, y

\* Other work is queued, or is rejected.
LEMMA SightsPush ==
    ASSUME IInv, Sights, NEW y \in ContextItem, y.kind # "init", y \notin CallEvent,
           queue'["context"] = queue["context"] \/ queue'["context"] = queue["context"] \o <<y>>,
           UNCHANGED <<number, snapshot, own, seen, accepted, last, calling>>, context'.rum = context.rum,
           main' = "starting" => main = "starting"
    PROVE  Sights'
<1> DEFINE s == queue["context"]
           u == s \o <<y>>
<1>1. CASE queue'["context"] = s
  BY <1>1, SightsKeep
<1>2. CASE queue'["context"] = u
  <2>1. s \in Seq(ContextItem)
    BY Queues
  <2>2. \A c \in Command : y # Item("command", c)
    BY CallEventFacts
  <2>3. \A l \in Log : y # Item("log", l)
    BY CallEventFacts
  <2>4. main = "starting" => Quiet(u, last)
    BY <2>1, AddFacts DEF Sights, Quiet
  <2>5. ASSUME NEW t \in Thread, calling[t] # NoCall
        PROVE  /\ Item("command", calling[t]) \in accepted
               /\ Known(u, Item("command", calling[t]), number[calling[t]], snapshot)
    <3>1. calling[t] \in Command
      BY <2>5 DEF IInv, TypeOK
    <3> QED BY <2>1, <2>2, <2>5, <3>1, KnownAdd DEF Sights
  <2>6. ASSUME NEW t \in Thread, last[t] # NoCall
        PROVE  /\ Item("command", last[t]) \in accepted
               /\ Reflects(u, Len(u), Item("command", last[t]), number[last[t]], snapshot, context.rum)
    <3>1. last[t] \in Command
      BY <2>6 DEF IInv, TypeOK
    <3>2. Reflects(u, Len(s), Item("command", last[t]), number[last[t]], snapshot, context.rum)
      BY <2>1, <2>2, <2>6, <3>1, ReflectsAdd DEF Sights
    <3>3. u \in Seq(ContextItem) /\ Len(s) \in Int /\ Len(u) \in Int /\ Len(s) <= Len(u)
      BY <2>1, AddFacts
    <3> HIDE DEF u
    <3>4. Reflects(u, Len(u), Item("command", last[t]), number[last[t]], snapshot, context.rum)
      BY <3>2, <3>3, ReflectsMore
    <3> QED BY <2>6, <3>4 DEF Sights
  <2>7. ASSUME NEW l \in Log, own[l] # NoCall
        PROVE  /\ Item("log", l) \in accepted /\ Item("command", own[l]) \in accepted
               /\ Reflected(u, l, own[l], number[own[l]], snapshot, context.rum, seen[l])
    <3>1. own[l] \in Command
      BY <2>7 DEF IInv, TypeOK
    <3> QED BY <2>1, <2>2, <2>3, <2>7, <3>1, ReflectedAdd DEF Sights
  <2> HIDE DEF u
  <2> QED BY <1>2, <2>4, <2>5, <2>6, <2>7 DEF Sights
<1> QED BY <1>1, <1>2

\* The second half of a dispatch queues the update that will reflect the command.
LEMMA SightsFinish ==
    ASSUME IInv, Sights, NEW a \in Thread, FinishDispatch(a) PROVE Sights'
<1> DEFINE s == queue["context"]
           u == s \o <<Refresh>>
<1>1. /\ calling[a] # NoCall /\ UNCHANGED <<number, snapshot, own, seen, accepted, context, main>>
      /\ calling' = [calling EXCEPT ![a] = NoCall] /\ last' = [last EXCEPT ![a] = calling[a]]
  BY DEF FinishDispatch, coreVars
<1>2. state = "started" /\ main \in {"idle", "update"}
  BY <1>1 DEF IInv, Phases
<1>3. queue'["context"] = u
  BY <1>2, RefreshQueues, OpenWhenCalled
<1>4. s \in Seq(ContextItem) /\ Refresh \in ContextItem /\ Refresh.kind # "init"
  BY Queues, ItemTypes DEF Refresh, Item
<1>5. /\ \A c : Refresh # Item("command", c)
      /\ \A l : Refresh # Item("log", l)
  BY DEF Refresh, Item
<1>6. ASSUME NEW t \in Thread, calling'[t] # NoCall
      PROVE  /\ Item("command", calling'[t]) \in accepted
             /\ Known(u, Item("command", calling'[t]), number[calling'[t]], snapshot)
  <2>1. calling'[t] = calling[t] /\ calling[t] # NoCall
    BY <1>1, <1>6 DEF IInv, TypeOK
  <2> QED BY <1>4, <1>5, <2>1, KnownAdd DEF Sights
<1>7. ASSUME NEW t \in Thread, last'[t] # NoCall
      PROVE  /\ Item("command", last'[t]) \in accepted
             /\ Reflects(u, Len(u), Item("command", last'[t]), number[last'[t]], snapshot, context.rum)
  <2>1. u \in Seq(ContextItem) /\ Len(s) \in Int /\ Len(u) \in Int /\ Len(u) = Len(s) + 1
    BY <1>4, AddFacts
  <2>2. CASE t = a
    <3>1. last'[t] = calling[a]
      BY <1>1, <2>2 DEF IInv, TypeOK
    <3>2. /\ Item("command", calling[a]) \in accepted
          /\ Known(s, Item("command", calling[a]), number[calling[a]], snapshot)
      BY <1>1 DEF Sights
    <3> QED BY <1>4, <1>5, <2>1, <3>1, <3>2, ReflectsRefresh
  <2>3. CASE t # a
    <3>1. last'[t] = last[t]
      BY <1>1, <2>3 DEF IInv, TypeOK
    <3>2. /\ Item("command", last[t]) \in accepted
          /\ Reflects(s, Len(s), Item("command", last[t]), number[last[t]], snapshot, context.rum)
      BY <1>7, <3>1 DEF Sights
    <3>3. Reflects(u, Len(s), Item("command", last[t]), number[last[t]], snapshot, context.rum)
      BY <1>4, <1>5, <3>2, ReflectsAdd
    <3> HIDE DEF u
    <3> QED BY <2>1, <3>1, <3>2, <3>3, ReflectsMore
  <2> QED BY <2>2, <2>3
<1>8. ASSUME NEW l \in Log, own[l] # NoCall
      PROVE  /\ Item("log", l) \in accepted /\ Item("command", own[l]) \in accepted
             /\ Reflected(u, l, own[l], number[own[l]], snapshot, context.rum, seen[l])
  BY <1>4, <1>5, <1>8, ReflectedAdd DEF Sights
<1> HIDE DEF u
<1> QED BY <1>1, <1>2, <1>3, <1>6, <1>7, <1>8 DEF Sights

\* A command is dispatched that was not dispatched before.
LEMMA SightsDispatch ==
    ASSUME IInv, Travels, Sights, NEW a \in Thread, NEW b \in Command, Dispatch(a, b) PROVE Sights'
<1> DEFINE s == queue["context"]
           y == Item("command", b)
           u == s \o <<y>>
<1>1. /\ y \notin accepted /\ accepted' = accepted \cup {y}
      /\ UNCHANGED <<number, snapshot, own, seen, last, context, main>>
      /\ calling' = [calling EXCEPT ![a] = b]
  BY DEF Dispatch, Accept, coreVars
<1>2. queue'["context"] = u /\ main \in {"idle", "update"}
  BY DispatchQueues
<1>3. s \in Seq(ContextItem) /\ y \in ContextItem /\ y.kind # "init" /\ y \in CallEvent
  BY Queues, ItemTypes, CallEventFacts DEF Item
<1>4. ~Occurs(s, y)
  BY <1>1, <1>3 DEF Travels
<1>5. \A l : y # Item("log", l)
  BY DEF Item
<1> HIDE DEF y
<1>6. ASSUME NEW t \in Thread, calling'[t] # NoCall
      PROVE  /\ Item("command", calling'[t]) \in accepted'
             /\ Known(u, Item("command", calling'[t]), number[calling'[t]], snapshot)
  <2>1. CASE t = a
    <3>1. calling'[t] = b
      BY <1>1, <2>1 DEF IInv, TypeOK
    <3> QED BY <1>1, <1>3, <1>4, <3>1, KnownAdd DEF y
  <2>2. CASE t # a
    <3>1. calling'[t] = calling[t] /\ calling[t] # NoCall
      BY <1>1, <1>6, <2>2 DEF IInv, TypeOK
    <3>2. /\ Item("command", calling[t]) \in accepted
          /\ Known(s, Item("command", calling[t]), number[calling[t]], snapshot)
      BY <3>1 DEF Sights
    <3> QED BY <1>1, <1>3, <3>1, <3>2, KnownAdd
  <2> QED BY <2>1, <2>2
<1>7. ASSUME NEW t \in Thread, last[t] # NoCall
      PROVE  /\ Item("command", last[t]) \in accepted'
             /\ Reflects(u, Len(u), Item("command", last[t]), number[last[t]], snapshot, context.rum)
  <2>1. u \in Seq(ContextItem) /\ Len(s) \in Int /\ Len(u) \in Int /\ Len(u) = Len(s) + 1
    BY <1>3, AddFacts
  <2>2. /\ Item("command", last[t]) \in accepted
        /\ Reflects(s, Len(s), Item("command", last[t]), number[last[t]], snapshot, context.rum)
    BY <1>7 DEF Sights
  <2>3. Reflects(u, Len(s), Item("command", last[t]), number[last[t]], snapshot, context.rum)
    BY <1>1, <1>3, <2>2, ReflectsAdd
  <2> HIDE DEF u
  <2> QED BY <1>1, <2>1, <2>2, <2>3, ReflectsMore
<1>8. ASSUME NEW l \in Log, own[l] # NoCall
      PROVE  /\ Item("log", l) \in accepted' /\ Item("command", own[l]) \in accepted'
             /\ Reflected(u, l, own[l], number[own[l]], snapshot, context.rum, seen[l])
  <2>1. /\ Item("log", l) \in accepted /\ Item("command", own[l]) \in accepted
        /\ Reflected(s, l, own[l], number[own[l]], snapshot, context.rum, seen[l])
    BY <1>8 DEF Sights
  <2> QED BY <1>1, <1>3, <1>5, <2>1, ReflectedAdd
<1> HIDE DEF u
<1> QED BY <1>1, <1>2, <1>6, <1>7, <1>8 DEF Sights

\* A log is made that was not made before.
LEMMA SightsLog ==
    ASSUME IInv, Travels, Sights, NEW a \in Thread, NEW b \in Log, LogCall(a, b) PROVE Sights'
<1> DEFINE s == queue["context"]
           y == Item("log", b)
           u == s \o <<y>>
<1>1. /\ y \notin accepted /\ accepted' = accepted \cup {y}
      /\ UNCHANGED <<number, snapshot, seen, last, calling, context, main>>
      /\ own' = [own EXCEPT ![b] = last[a]]
  BY DEF LogCall, Accept, coreVars
<1>2. queue'["context"] = u /\ main \in {"idle", "update"}
  BY LogCallQueues
<1>3. s \in Seq(ContextItem) /\ y \in ContextItem /\ y.kind # "init" /\ y \in CallEvent
  BY Queues, ItemTypes, CallEventFacts DEF Item
<1>4. ~Occurs(s, y)
  BY <1>1, <1>3 DEF Travels
<1>5. \A c : y # Item("command", c)
  BY DEF Item
<1> HIDE DEF y
<1>6. ASSUME NEW t \in Thread, calling[t] # NoCall
      PROVE  /\ Item("command", calling[t]) \in accepted'
             /\ Known(u, Item("command", calling[t]), number[calling[t]], snapshot)
  <2>1. /\ Item("command", calling[t]) \in accepted
        /\ Known(s, Item("command", calling[t]), number[calling[t]], snapshot)
    BY <1>6 DEF Sights
  <2> QED BY <1>1, <1>3, <1>5, <2>1, KnownAdd
<1>7. ASSUME NEW t \in Thread, last[t] # NoCall
      PROVE  /\ Item("command", last[t]) \in accepted'
             /\ Reflects(u, Len(u), Item("command", last[t]), number[last[t]], snapshot, context.rum)
  <2>1. u \in Seq(ContextItem) /\ Len(s) \in Int /\ Len(u) \in Int /\ Len(u) = Len(s) + 1
    BY <1>3, AddFacts
  <2>2. /\ Item("command", last[t]) \in accepted
        /\ Reflects(s, Len(s), Item("command", last[t]), number[last[t]], snapshot, context.rum)
    BY <1>7 DEF Sights
  <2>3. Reflects(u, Len(s), Item("command", last[t]), number[last[t]], snapshot, context.rum)
    BY <1>3, <1>5, <2>2, ReflectsAdd
  <2> HIDE DEF u
  <2> QED BY <1>1, <2>1, <2>2, <2>3, ReflectsMore
<1>8. ASSUME NEW l \in Log, own'[l] # NoCall
      PROVE  /\ Item("log", l) \in accepted' /\ Item("command", own'[l]) \in accepted'
             /\ Reflected(u, l, own'[l], number[own'[l]], snapshot, context.rum, seen[l])
  <2>1. CASE l = b
    <3>1. own'[l] = last[a]
      BY <1>1, <2>1 DEF IInv, TypeOK
    <3>2. /\ Item("command", last[a]) \in accepted
          /\ Reflects(s, Len(s), Item("command", last[a]), number[last[a]], snapshot, context.rum)
      BY <1>8, <3>1 DEF Sights
    <3>3. Reflected(u, l, last[a], number[last[a]], snapshot, context.rum, seen[l])
      BY <1>3, <1>4, <2>1, <3>2, ReflectedNew DEF y
    <3> QED BY <1>1, <2>1, <3>1, <3>2, <3>3 DEF y
  <2>2. CASE l # b
    <3>1. own'[l] = own[l]
      BY <1>1, <2>2 DEF IInv, TypeOK
    <3>2. /\ Item("log", l) \in accepted /\ Item("command", own[l]) \in accepted
          /\ Reflected(s, l, own[l], number[own[l]], snapshot, context.rum, seen[l])
      BY <1>8, <3>1 DEF Sights
    <3>3. y # Item("log", l)
      BY <2>2 DEF y, Item
    <3> QED BY <1>1, <1>3, <1>5, <3>1, <3>2, <3>3, ReflectedAdd
  <2> QED BY <2>1, <2>2
<1> HIDE DEF u
<1> QED BY <1>1, <1>2, <1>6, <1>7, <1>8 DEF Sights

\* The context thread runs the first work.
LEMMA SightsRun ==
    ASSUME IInv, Travels, Sights, queue["context"] # <<>>, NEW h, h = Head(queue["context"]),
           queue'["context"] = Tail(queue["context"]), UNCHANGED <<own, accepted, last, calling, main>>,
           \A c \in Command :
              /\ h = Item("command", c) \/ (number[c] <= snapshot /\ h.kind # "init")
                   => number'[c] <= snapshot'
              /\ h # Item("command", c) => number'[c] = number[c]
              /\ (h # Item("command", c) /\ h.kind # "init" /\ number[c] <= snapshot
                    /\ (h = Refresh \/ number[c] <= context.rum)) => number'[c] <= context'.rum,
           \A l \in Log : seen'[l] = IF h = Item("log", l) THEN context.rum ELSE seen[l]
    PROVE  Sights'
<1> DEFINE s == queue["context"]
           u == Tail(s)
<1>1. s \in Seq(ContextItem) /\ s # <<>> /\ Head(s) = h
  BY Queues
<1>2. main = "starting" => Quiet(u, last)
  BY <1>1, TailFacts DEF Sights, Quiet
<1>3. ASSUME NEW c \in Command, Known(s, Item("command", c), number[c], snapshot)
      PROVE  Known(u, Item("command", c), number'[c], snapshot')
  BY <1>1, <1>3, KnownTail
<1>4. ASSUME NEW t \in Thread, calling[t] # NoCall
      PROVE  /\ Item("command", calling[t]) \in accepted
             /\ Known(u, Item("command", calling[t]), number'[calling[t]], snapshot')
  <2>1. calling[t] \in Command
    BY <1>4 DEF IInv, TypeOK
  <2> QED BY <1>3, <1>4, <2>1 DEF Sights
<1>5. ASSUME NEW t \in Thread, last[t] # NoCall
      PROVE  /\ Item("command", last[t]) \in accepted
             /\ Reflects(u, Len(u), Item("command", last[t]), number'[last[t]], snapshot', context'.rum)
  <2> DEFINE c == last[t]
             x == Item("command", c)
  <2>1. c \in Command
    BY <1>5 DEF IInv, TypeOK
  <2>2. x \in accepted /\ Reflects(s, Len(s), x, number[c], snapshot, context.rum)
    BY <1>5 DEF Sights
  <2>3. Known(u, x, number'[c], snapshot')
    BY <1>3, <2>1, <2>2 DEF Reflects
  <2>4. Len(s) \in Nat /\ Len(u) = Len(s) - 1
    BY <1>1, TailFacts
  <2>5. (Head(s) # x /\ Head(s).kind # "init" /\ number[c] <= snapshot
           /\ (Head(s) = Refresh \/ number[c] <= context.rum)) => number'[c] <= context'.rum
    BY <1>1, <2>1
  <2> HIDE DEF c, x, u
  <2>6. Reflects(Tail(s), Len(s) - 1, x, number'[c], snapshot', context'.rum)
    BY <1>1, <2>2, <2>3, <2>4, <2>5, ReflectsTail DEF u
  <2> QED BY <2>2, <2>4, <2>6 DEF c, x, u
<1>6. ASSUME NEW l \in Log, own[l] # NoCall
      PROVE  /\ Item("log", l) \in accepted /\ Item("command", own[l]) \in accepted
             /\ Reflected(u, l, own[l], number'[own[l]], snapshot', context'.rum, seen'[l])
  <2> DEFINE c == own[l]
             x == Item("command", c)
             y == Item("log", l)
  <2>1. c \in Command
    BY <1>6 DEF IInv, TypeOK
  <2>2. /\ y \in accepted /\ x \in accepted
        /\ Reflected(s, l, c, number[c], snapshot, context.rum, seen[l])
    BY <1>6 DEF Sights
  <2>3. /\ Head(s) # x => number'[c] = number[c]
        /\ (Head(s) # x /\ Head(s).kind # "init" /\ number[c] <= snapshot
              /\ (Head(s) = Refresh \/ number[c] <= context.rum)) => number'[c] <= context'.rum
        /\ seen'[l] = IF Head(s) = y THEN context.rum ELSE seen[l]
    BY <1>1, <2>1
  <2>4. CASE Occurs(s, y)
    <3>1. PICK i \in DOMAIN s : s[i] = y
      BY <2>4 DEF Occurs
    <3>2. Known(s, x, number[c], snapshot)
      BY <2>2, <3>1 DEF Reflected, Reflects
    <3>3. Known(u, x, number'[c], snapshot')
      BY <1>3, <2>1, <3>2
    <3> HIDE DEF c, u
    <3>4. Reflected(Tail(s), l, c, number'[c], snapshot', context'.rum, seen'[l])
      BY <1>1, <2>2, <2>3, <3>3, ReflectedTail DEF u
    <3> QED BY <2>2, <3>4 DEF c, u
  <2>5. CASE ~Occurs(s, y)
    <3>1. number[c] <= seen[l] /\ ~Occurs(s, x)
      BY <2>2, <2>5 DEF Reflected
    <3>2. ~Occurs(u, x) /\ ~Occurs(u, y) /\ Head(s) # x /\ Head(s) # y
      BY <1>1, <2>5, <3>1, OccursTail
    <3>3. number'[c] <= seen'[l]
      BY <2>3, <3>1, <3>2
    <3>4. \A i \in DOMAIN u : u[i] # y
      BY <3>2 DEF Occurs
    <3> QED BY <2>2, <3>2, <3>3, <3>4 DEF Reflected
  <2> QED BY <2>4, <2>5
<1> HIDE DEF u
<1>7. queue'["context"] = u
  BY DEF u
<1> QED BY <1>2, <1>4, <1>5, <1>6, <1>7 DEF Sights

\* It runs work that leaves RUM, and what the context says of it, alone.
LEMMA SightsOther ==
    ASSUME IInv, Travels, Sights, queue["context"] # <<>>,
           queue'["context"] = Tail(queue["context"]),
           UNCHANGED <<own, accepted, last, calling, main, number, snapshot, seen>>,
           context'.rum = context.rum,
           \A c \in Command : Head(queue["context"]) # Item("command", c),
           \A l \in Log : Head(queue["context"]) # Item("log", l),
           Head(queue["context"]) # Refresh
    PROVE  Sights'
<1> DEFINE h == Head(queue["context"])
<1>1. \A c \in Command :
              /\ h = Item("command", c) \/ (number[c] <= snapshot /\ h.kind # "init")
                   => number'[c] <= snapshot'
              /\ h # Item("command", c) => number'[c] = number[c]
              /\ (h # Item("command", c) /\ h.kind # "init" /\ number[c] <= snapshot
                    /\ (h = Refresh \/ number[c] <= context.rum)) => number'[c] <= context'.rum
  OBVIOUS
<1>2. \A l \in Log : seen'[l] = IF h = Item("log", l) THEN context.rum ELSE seen[l]
  OBVIOUS
<1> HIDE DEF h
<1> QED BY <1>1, <1>2, SightsRun DEF h

LEMMA SightsContext == ASSUME IInv, Travels, Sights, ContextStep PROVE Sights'
<1>0. /\ \A c \in Command : number[c] \in Nat
      /\ snapshot \in Nat /\ context.rum \in Nat
  BY DEF IInv, TypeOK
<1>1. ASSUME NEW b \in Log, RunLog(b) PROVE Sights'
  <2> DEFINE h == Item("log", b)
  <2>1. /\ queue["context"] # <<>> /\ h = Head(queue["context"])
        /\ queue'["context"] = Tail(queue["context"])
    BY <1>1, RunLogQueues
  <2>2. UNCHANGED <<own, accepted, last, calling, main, number, snapshot, context>>
    BY <1>1 DEF RunLog, historyVars, coreVars
  <2>3. \A l \in Log : seen'[l] = IF h = Item("log", l) THEN context.rum ELSE seen[l]
    BY <1>1 DEF RunLog, IInv, TypeOK, Item
  <2>4. \A c \in Command :
              /\ h = Item("command", c) \/ (number[c] <= snapshot /\ h.kind # "init")
                   => number'[c] <= snapshot'
              /\ h # Item("command", c) => number'[c] = number[c]
              /\ (h # Item("command", c) /\ h.kind # "init" /\ number[c] <= snapshot
                    /\ (h = Refresh \/ number[c] <= context.rum)) => number'[c] <= context'.rum
    BY <2>2 DEF Item, Refresh
  <2> HIDE DEF h
  <2> QED BY <2>1, <2>2, <2>3, <2>4, SightsRun
<1>2. ASSUME NEW b \in Command, RunCommand(b) PROVE Sights'
  <2> DEFINE h == Item("command", b)
  <2>1. /\ queue["context"] # <<>> /\ h = Head(queue["context"])
        /\ queue'["context"] = Tail(queue["context"])
    BY <1>2, ProcessQueues, CallEventFacts DEF RunCommand
  <2>2. UNCHANGED <<own, accepted, last, calling, main, seen, context>> /\ snapshot' = snapshot + 1
    BY <1>2 DEF RunCommand, Process, historyVars, coreVars
  <2>3. \A l \in Log : seen'[l] = IF h = Item("log", l) THEN context.rum ELSE seen[l]
    BY <2>2 DEF Item
  <2>4. /\ \A c \in Command : h = Item("command", c) <=> c = b
        /\ h # Refresh
    BY DEF Item, Refresh
  <2>5. number'[b] = snapshot + 1 /\ \A c \in Command : c # b => number'[c] = number[c]
    BY <1>2 DEF RunCommand, IInv, TypeOK
  <2> HIDE DEF h
  <2>6. ASSUME NEW c \in Command
        PROVE /\ h = Item("command", c) \/ (number[c] <= snapshot /\ h.kind # "init")
                   => number'[c] <= snapshot'
              /\ h # Item("command", c) => number'[c] = number[c]
              /\ (h # Item("command", c) /\ h.kind # "init" /\ number[c] <= snapshot
                    /\ (h = Refresh \/ number[c] <= context.rum)) => number'[c] <= context'.rum
    <3>1. CASE c = b
      BY <1>0, <2>2, <2>4, <2>5, <3>1
    <3>2. CASE c # b
      BY <1>0, <2>2, <2>4, <2>5, <3>2
    <3> QED BY <3>1, <3>2
  <2> QED BY <2>1, <2>2, <2>3, <2>6, SightsRun
<1>3. ASSUME NEW b \in ErrorLog, RunError(b) PROVE Sights'
  <2> DEFINE h == Item("error", b)
  <2>1. /\ queue["context"] # <<>> /\ h = Head(queue["context"])
        /\ queue'["context"] = Tail(queue["context"])
    BY <1>3, ProcessQueues, CallEventFacts DEF RunError
  <2>2. UNCHANGED <<own, accepted, last, calling, main, seen, context, number>>
        /\ snapshot' = snapshot + 1
    BY <1>3 DEF RunError, Process, historyVars, coreVars
  <2>3. \A l \in Log : seen'[l] = IF h = Item("log", l) THEN context.rum ELSE seen[l]
    BY <2>2 DEF Item
  <2>4. (\A c \in Command : h # Item("command", c)) /\ h # Refresh
    BY DEF Item, Refresh
  <2> HIDE DEF h
  <2>5. \A c \in Command :
              /\ h = Item("command", c) \/ (number[c] <= snapshot /\ h.kind # "init")
                   => number'[c] <= snapshot'
              /\ h # Item("command", c) => number'[c] = number[c]
              /\ (h # Item("command", c) /\ h.kind # "init" /\ number[c] <= snapshot
                    /\ (h = Refresh \/ number[c] <= context.rum)) => number'[c] <= context'.rum
    BY <1>0, <2>2, <2>4
  <2> QED BY <2>1, <2>2, <2>3, <2>5, SightsRun
<1>4. ASSUME RunInit PROVE Sights'
  <2> DEFINE h == Item("init", NoCall)
  <2>1. /\ queue["context"] # <<>> /\ h = Head(queue["context"])
        /\ queue'["context"] = Tail(queue["context"])
    BY <1>4, RunInitQueues
  <2>2. UNCHANGED <<own, accepted, last, calling, main, seen, context, number>>
    BY <1>4 DEF RunInit, historyVars, coreVars
  <2>3. \A l \in Log : seen'[l] = IF h = Item("log", l) THEN context.rum ELSE seen[l]
    BY <2>2 DEF Item
  <2>4. (\A c \in Command : h # Item("command", c)) /\ h.kind = "init"
    BY DEF Item
  <2> HIDE DEF h
  <2>5. \A c \in Command :
              /\ h = Item("command", c) \/ (number[c] <= snapshot /\ h.kind # "init")
                   => number'[c] <= snapshot'
              /\ h # Item("command", c) => number'[c] = number[c]
              /\ (h # Item("command", c) /\ h.kind # "init" /\ number[c] <= snapshot
                    /\ (h = Refresh \/ number[c] <= context.rum)) => number'[c] <= context'.rum
    BY <2>2, <2>4
  <2> QED BY <2>1, <2>2, <2>3, <2>5, SightsRun
<1>5. ASSUME RunRefresh PROVE Sights'
  <2>1. /\ queue["context"] # <<>> /\ Refresh = Head(queue["context"])
        /\ queue'["context"] = Tail(queue["context"])
    BY <1>5, RunRefreshQueues
  <2>2. UNCHANGED <<own, accepted, last, calling, main, seen, number, snapshot>>
    BY <1>5 DEF RunRefresh, Update, historyVars, coreVars
  <2>3. context'.rum = snapshot
    BY <1>5, RunRefreshQueues DEF IInv, TypeOK
  <2>4. \A l \in Log : seen'[l] = IF Refresh = Item("log", l) THEN context.rum ELSE seen[l]
    BY <2>2 DEF Item, Refresh
  <2>5. \A c \in Command : Refresh # Item("command", c)
    BY DEF Item, Refresh
  <2>6. \A c \in Command :
              /\ Refresh = Item("command", c) \/ (number[c] <= snapshot /\ Refresh.kind # "init")
                   => number'[c] <= snapshot'
              /\ Refresh # Item("command", c) => number'[c] = number[c]
              /\ (Refresh # Item("command", c) /\ Refresh.kind # "init" /\ number[c] <= snapshot
                    /\ (Refresh = Refresh \/ number[c] <= context.rum)) => number'[c] <= context'.rum
    BY <2>2, <2>3, <2>5
  <2> QED BY <2>1, <2>2, <2>4, <2>6, SightsRun
<1>6. ASSUME RunProcess PROVE Sights'
  <2>1. UNCHANGED <<own, accepted, last, calling, main, number, snapshot, seen, context>>
    BY <1>6 DEF RunProcess, historyVars, coreVars
  <2>2. /\ \A c : Item("process", NoCall) # Item("command", c)
        /\ \A l : Item("process", NoCall) # Item("log", l)
        /\ Item("process", NoCall) # Refresh
    BY DEF Item, Refresh
  <2> QED BY <1>6, <2>1, <2>2, RunProcessQueues, SightsOther
<1>7. ASSUME RunCrash PROVE Sights'
  <2>1. UNCHANGED <<own, accepted, last, calling, main, number, snapshot, seen, context>>
    BY <1>7 DEF RunCrash, historyVars, coreVars
  <2>2. /\ \A c : Item("crash", NoCall) # Item("command", c)
        /\ \A l : Item("crash", NoCall) # Item("log", l)
        /\ Item("crash", NoCall) # Refresh
    BY DEF Item, Refresh
  <2> QED BY <1>7, <2>1, <2>2, RunCrashQueues, SightsOther
<1>8. ASSUME NEW v \in Consent, RunConsent(v) PROVE Sights'
  <2>1. UNCHANGED <<own, accepted, last, calling, main, number, snapshot, seen>>
    BY <1>8 DEF RunConsent, Update, historyVars, coreVars
  <2>2. context'.rum = context.rum
    BY <1>8, RunConsentQueues DEF IInv, TypeOK
  <2>3. /\ \A c : Item("consent", v) # Item("command", c)
        /\ \A l : Item("consent", v) # Item("log", l)
        /\ Item("consent", v) # Refresh
    BY DEF Item, Refresh
  <2> QED BY <1>8, <2>1, <2>2, <2>3, RunConsentQueues, SightsOther
<1> QED BY <1>1, <1>2, <1>3, <1>4, <1>5, <1>6, <1>7, <1>8 DEF ContextStep

\* The application calls nothing yet, and nothing that it called is queued.
LEMMA SightsQuiet ==
    ASSUME IInv, Sights, Quiet(queue'["context"], last'),
           \A i \in DOMAIN queue["context"] : queue["context"][i] \notin CallEvent,
           calling = [t \in Thread |-> NoCall],
           UNCHANGED <<number, own, seen, accepted, calling>>
    PROVE  Sights'
<1>1. \A t \in Thread : calling'[t] = NoCall /\ last'[t] = NoCall
  BY DEF Quiet
<1>2. ASSUME NEW l \in Log, own[l] # NoCall
      PROVE  /\ Item("log", l) \in accepted /\ Item("command", own[l]) \in accepted
             /\ Reflected(queue'["context"], l, own[l], number'[own[l]], snapshot', context'.rum, seen'[l])
  <2>1. /\ Item("log", l) \in accepted /\ Item("command", own[l]) \in accepted
        /\ Reflected(queue["context"], l, own[l], number[own[l]], snapshot, context.rum, seen[l])
    BY <1>2 DEF Sights
  <2>2. Item("log", l) \in CallEvent /\ Item("command", own[l]) \in CallEvent
    BY <1>2, CallEventFacts DEF IInv, TypeOK
  <2>3. number[own[l]] <= seen[l]
    BY <2>1, <2>2 DEF Reflected, Occurs
  <2>4. /\ \A i \in DOMAIN queue'["context"] : queue'["context"][i] # Item("log", l)
        /\ ~Occurs(queue'["context"], Item("command", own[l]))
    BY <2>2 DEF Quiet, Occurs
  <2> QED BY <2>1, <2>3, <2>4 DEF Reflected
<1> QED BY <1>1, <1>2 DEF Sights, Quiet

LEMMA SightsStarting == ASSUME IInv, Sights, StartFeature PROVE Sights'
<1>1. PICK f \in Feature :
              /\ scope' = scope \cup {f}
              /\ queue'["bus"] = queue["bus"] /\ queue'["storage"] = queue["storage"]
              /\ f = "rum" => queue'["context"] =
                    (queue["context"] \o <<Item("init", NoCall)>>) \o <<Refresh>>
              /\ f = "crash" => queue'["context"] = queue["context"] \o <<Item("process", NoCall)>>
              /\ f = "logging" => queue'["context"] = queue["context"]
  BY StartsFeature
<1>2. UNCHANGED <<number, own, seen, accepted, calling, last, context, snapshot, main>>
      /\ main = "starting"
  BY DEF StartFeature, historyVars
<1>3. CASE f = "rum"
  <2> DEFINE s == queue["context"]
             m == s \o <<Item("init", NoCall)>>
             u == m \o <<Refresh>>
  <2>1. Quiet(s, last) /\ calling = [t \in Thread |-> NoCall]
    BY <1>2 DEF Sights, IInv, Phases
  <2>2. s \in Seq(ContextItem) /\ Item("init", NoCall) \in ContextItem /\ Refresh \in ContextItem
    BY Queues, ItemTypes
  <2>3. Item("init", NoCall) \notin CallEvent /\ Refresh \notin CallEvent
    BY NoCallEvent DEF Refresh
  <2>4. m \in Seq(ContextItem)
    BY <2>2, AddFacts
  <2>5. \A i \in DOMAIN m : m[i] \notin CallEvent
    BY <2>1, <2>2, <2>3, AddFacts DEF Quiet
  <2> HIDE DEF m
  <2>6. \A i \in DOMAIN u : u[i] \notin CallEvent
    BY <2>2, <2>3, <2>4, <2>5, AddFacts
  <2>7. queue'["context"] = u
    BY <1>1, <1>3 DEF m
  <2> HIDE DEF u
  <2>8. Quiet(queue'["context"], last')
    BY <1>2, <2>1, <2>6, <2>7 DEF Quiet
  <2> QED BY <1>2, <2>1, <2>8, SightsQuiet DEF Quiet
<1>4. CASE f = "crash"
  <2>1. Item("process", NoCall) \in ContextItem /\ Item("process", NoCall) \notin CallEvent
        /\ Item("process", NoCall).kind # "init"
    BY ItemTypes, NoCallEvent DEF Item
  <2> QED BY <1>1, <1>2, <1>4, <2>1, SightsPush
<1>5. CASE f = "logging"
  BY <1>1, <1>2, <1>5, SightsKeep
<1> QED BY <1>3, <1>4, <1>5 DEF Feature

LEMMA SightsNext == ASSUME IInv, Travels, Sights, Next PROVE Sights'
<1>1. ASSUME ContextStep PROVE Sights'
  BY <1>1, SightsContext
<1>2. ASSUME (\E v \in Consent : HearContext(v)) \/ HearRumState PROVE Sights'
  BY <1>2, HearQueues, SightsKeep DEF HearContext, HearRumState, historyVars, coreVars
<1>3. ASSUME NEW l \in ErrorLog, HearLogError(l) PROVE Sights'
  <2>1. Item("error", l) \in ContextItem /\ Item("error", l) \notin CallEvent
        /\ Item("error", l).kind # "init"
    BY ItemTypes, NoCallEvent DEF Item
  <2>2. UNCHANGED <<number, own, seen, accepted, calling, last, context, snapshot, main>>
    BY <1>3 DEF HearLogError, historyVars, coreVars
  <2> QED BY <1>3, <2>1, <2>2, HearLogErrorQueues, SightsPush
<1>4. ASSUME HearCrashReport PROVE Sights'
  <2>1. Item("crash", NoCall) \in ContextItem /\ Item("crash", NoCall) \notin CallEvent
        /\ Item("crash", NoCall).kind # "init"
    BY ItemTypes, NoCallEvent DEF Item
  <2>2. UNCHANGED <<number, own, seen, accepted, calling, last, context, snapshot, main>>
    BY <1>4 DEF HearCrashReport, historyVars, coreVars
  <2> QED BY <1>4, <2>1, <2>2, HearCrashReportQueues, SightsPush
<1>5. ASSUME RelayRefresh PROVE Sights'
  <2>1. Refresh \in ContextItem /\ Refresh \notin CallEvent /\ Refresh.kind # "init"
    BY ItemTypes, NoCallEvent DEF Item, Refresh
  <2>2. UNCHANGED <<number, own, seen, accepted, calling, last, context, snapshot, main>>
    BY <1>5 DEF RelayRefresh, historyVars, coreVars
  <2> QED BY <1>5, <2>1, <2>2, RefreshQueues, SightsPush
<1>6. ASSUME NEW t \in Thread, FinishDispatch(t) PROVE Sights'
  BY <1>6, SightsFinish
<1>7. ASSUME StorageStep PROVE Sights'
  <2>1. Handle("storage", Nothing)
    BY <1>7 DEF StorageStep, StoreConsent, StoreEvent, Stores
  <2>2. UNCHANGED <<number, own, seen, accepted, calling, last, context, snapshot, main>>
    BY <1>7 DEF StorageStep, StoreConsent, StoreEvent, historyVars, coreVars
  <2> QED BY <2>1, <2>2, StorageTakes, SightsKeep
<1>8. ASSUME UpdateContext PROVE Sights'
  <2>1. Item("consent", consent) \in ContextItem /\ Item("consent", consent) \notin CallEvent
        /\ Item("consent", consent).kind # "init"
    BY ItemTypes, NoCallEvent DEF Item, IInv, TypeOK
  <2>2. UNCHANGED <<number, own, seen, accepted, calling, last, context, snapshot>> /\ main' = "idle"
    BY <1>8 DEF UpdateContext, historyVars
  <2> QED BY <1>8, <2>1, <2>2, UpdateContextQueues, SightsPush
<1>9. ASSUME NEW v \in Choice, SetConsentStarted(v) PROVE Sights'
  BY <1>9, SetConsentQueues, SightsKeep DEF SetConsentStarted, historyVars
<1>10. ASSUME Start PROVE Sights'
  <2>1. queue["context"] = <<>> /\ queue'["context"] = <<>>
    BY <1>10, StartQueues
  <2>2. calling = [t \in Thread |-> NoCall] /\ last' = [t \in Thread |-> NoCall]
        /\ UNCHANGED <<number, own, seen, accepted, calling>>
    BY <1>10 DEF Start, IInv, Phases
  <2> QED BY <2>1, <2>2, SightsQuiet DEF Quiet
<1>11. ASSUME StartFeature PROVE Sights'
  BY <1>11, SightsStarting
<1>12. ASSUME QuietStep PROVE Sights'
  <2>1. UNCHANGED <<number, own, seen, accepted, calling, last, snapshot, queue>>
        /\ (main' = "starting" => main = "starting")
    BY <1>12 DEF QuietStep, StartMessaging, StopContext, JoinContext, JoinBus, StopFeature,
       StopStorage, JoinStorage, SetConsentStopped, historyVars
  <2>2. context'.rum = context.rum
    BY <1>12 DEF QuietStep, StartMessaging, StopContext, JoinContext, JoinBus, StopFeature,
       StopStorage, JoinStorage, SetConsentStopped, IInv, TypeOK
  <2> QED BY <2>1, <2>2, SightsKeep
<1>13. ASSUME NEW t \in Thread, NEW l \in Log, LogCall(t, l) PROVE Sights'
  BY <1>13, SightsLog
<1>14. ASSUME NEW t \in Thread, NEW c \in Command, Dispatch(t, c) PROVE Sights'
  BY <1>14, SightsDispatch
<1> QED BY <1>1, <1>2, <1>3, <1>4, <1>5, <1>6, <1>7, <1>8, <1>9, <1>10, <1>11, <1>12, <1>13, <1>14
        DEF Next, MainCall, MainStep, ApiCall, ThreadStep, MessagingStep, QuietStep

-----------------------------------------------------------------------------
(* The copies of the consent, and of the state of RUM *)

\* A step of the context thread, as far as the copies go: h is the work it runs.
RunOnce(h) ==
    /\ queue["context"] # <<>> /\ h = Head(queue["context"])
    /\ queue'["context"] = Tail(queue["context"])
    /\ UNCHANGED <<main, state, scope, attached, consent, writer, shadow, relay, calling>>
    /\ \/ queue'["storage"] = queue["storage"]
       \/ \E e \in StorageItem : e.kind # "consent" /\ queue'["storage"] = queue["storage"] \o <<e>>

RunSilent(h) ==
    /\ UNCHANGED <<context, snapshot>> /\ h.kind \notin Renewing \cup {"consent"}
    /\ \/ queue'["bus"] = queue["bus"]
       \/ \E y \in BusItem : y.kind \notin {"changed", "rumState"}
                             /\ queue'["bus"] = queue["bus"] \o <<y>>

RunRenewing(h) ==
    /\ UNCHANGED context /\ h.kind \in {"init", "command", "error"} /\ snapshot' \in Nat
    /\ queue'["bus"] = queue["bus"] \o <<Item("rumState", snapshot')>>

RunUpdating(h) ==
    /\ UNCHANGED snapshot
    /\ context'.consent \in Consent
    /\ queue'["bus"] = queue["bus"] \o <<Item("changed", context'.consent)>>
    /\ \/ h = Refresh /\ context'.consent = context.consent /\ context'.rum = snapshot
       \/ h = Item("consent", context'.consent) /\ context'.rum = context.rum

LEMMA Running ==
    ASSUME IInv, Attaching, ContextStep
    PROVE  \E h : RunOnce(h) /\ (RunSilent(h) \/ RunRenewing(h) \/ RunUpdating(h))
<1> DEFINE h == Head(queue["context"])
<1>1. ASSUME NEW l \in Log, RunLog(l) PROVE RunOnce(h) /\ RunSilent(h)
  <2>1. UNCHANGED <<main, state, scope, attached, consent, writer, shadow, relay, calling, context, snapshot>>
    BY <1>1 DEF RunLog, coreVars
  <2>2. h = Item("log", l) /\ Item("log", l) \in StorageItem
    BY <1>1, RunLogQueues, ItemTypes, CallEventFacts
  <2> HIDE DEF h
  <2>4. /\ h.kind \notin Renewing \cup {"consent"} /\ Item("log", l).kind # "consent"
        /\ Item("logError", l).kind \notin {"changed", "rumState"}
    BY <2>2 DEF Item, Renewing
  <2>3. l \in ErrorLog => Item("logError", l) \in BusItem
    BY ItemTypes
  <2> QED BY <1>1, <2>1, <2>2, <2>3, <2>4, RunLogQueues DEF RunOnce, RunSilent, h
<1>2. ASSUME NEW e \in Event, Process(e), e.kind \in {"command", "error"}
      PROVE  RunOnce(h) /\ RunRenewing(h)
  <2>1. /\ UNCHANGED <<main, state, scope, attached, consent, writer, shadow, relay, calling, context>>
        /\ snapshot' = snapshot + 1
    BY <1>2 DEF Process, coreVars
  <2>2. snapshot' \in Nat
    BY <2>1 DEF IInv, TypeOK
  <2>3. h = e /\ e \in StorageItem
    BY <1>2, ProcessQueues, ItemTypes
  <2> HIDE DEF h
  <2> QED BY <1>2, <2>1, <2>2, <2>3, ProcessQueues DEF RunOnce, RunRenewing, h
<1>3. ASSUME RunInit PROVE RunOnce(h) /\ RunRenewing(h)
  <2>1. /\ UNCHANGED <<main, state, scope, attached, consent, writer, shadow, relay, calling, context>>
        /\ snapshot' = 0
    BY <1>3 DEF RunInit, coreVars
  <2>2. h.kind = "init"
    BY <1>3, RunInitQueues DEF Item
  <2> QED BY <1>3, <2>1, <2>2, RunInitQueues DEF RunOnce, RunRenewing
<1>4. ASSUME queue["context"] # <<>> PROVE attached
  BY <1>4, WhenRunning DEF Attaching
<1>5. ASSUME RunRefresh PROVE RunOnce(h) /\ RunUpdating(h)
  <2>1. UNCHANGED <<main, state, scope, attached, consent, writer, shadow, relay, calling, snapshot>>
    BY <1>5 DEF RunRefresh, Update, coreVars
  <2>2. context'.consent = context.consent /\ context'.rum = snapshot /\ context.consent \in Consent
    BY <1>5, RunRefreshQueues DEF IInv, TypeOK
  <2> QED BY <1>4, <1>5, <2>1, <2>2, RunRefreshQueues DEF RunOnce, RunUpdating
<1>6. ASSUME NEW v \in Consent, RunConsent(v) PROVE RunOnce(h) /\ RunUpdating(h)
  <2>1. UNCHANGED <<main, state, scope, attached, consent, writer, shadow, relay, calling, snapshot>>
    BY <1>6 DEF RunConsent, Update, coreVars
  <2>2. context'.consent = v /\ context'.rum = context.rum
    <3>1. context' = [context EXCEPT !.consent = v]
      BY <1>6, RunConsentQueues
    <3> QED BY <3>1 DEF IInv, TypeOK
  <2> QED BY <1>4, <1>6, <2>1, <2>2, RunConsentQueues DEF RunOnce, RunUpdating
<1>7. ASSUME RunProcess PROVE RunOnce(h) /\ RunSilent(h)
  <2>1. UNCHANGED <<main, state, scope, attached, consent, writer, shadow, relay, calling, context, snapshot>>
    BY <1>7 DEF RunProcess, coreVars
  <2>2. /\ h.kind \notin Renewing \cup {"consent"}
        /\ Item("crashReport", NoCall) \in BusItem
        /\ Item("crashReport", NoCall).kind \notin {"changed", "rumState"}
    BY <1>7, RunProcessQueues, ItemTypes DEF Item, Renewing
  <2> QED BY <1>7, <2>1, <2>2, RunProcessQueues DEF RunOnce, RunSilent
<1>8. ASSUME RunCrash PROVE RunOnce(h) /\ RunSilent(h)
  <2>1. UNCHANGED <<main, state, scope, attached, consent, writer, shadow, relay, calling, context, snapshot>>
    BY <1>8 DEF RunCrash, coreVars
  <2>2. /\ h.kind \notin Renewing \cup {"consent"}
        /\ Item("crash", NoCall) \in StorageItem /\ Item("crash", NoCall).kind # "consent"
    BY <1>8, RunCrashQueues, ItemTypes, CallEventFacts DEF Item, Renewing
  <2> QED BY <1>8, <2>1, <2>2, RunCrashQueues DEF RunOnce, RunSilent
<1>9. /\ \A c : Item("command", c).kind = "command"
      /\ \A l : Item("error", l).kind = "error"
  BY DEF Item
<1> HIDE DEF h
<1> QED BY <1>1, <1>2, <1>3, <1>5, <1>6, <1>7, <1>8, <1>9, CallEventFacts
        DEF ContextStep, RunCommand, RunError

\* A step of the messaging thread that takes the message h.
HearOnce(h) ==
    /\ queue["bus"] # <<>> /\ h = Head(queue["bus"])
    /\ queue'["bus"] = Tail(queue["bus"])
    /\ queue'["storage"] = queue["storage"]
    /\ UNCHANGED <<main, state, scope, attached, consent, writer, context, snapshot, calling>>
    /\ relay => relay'
    /\ \/ queue'["context"] = queue["context"]
       \/ \E y \in ContextItem : /\ queue'["context"] = queue["context"] \o <<y>>
                                 /\ y.kind # "consent" /\ (y.kind \in Renewing => relay')
    /\ shadow' = CASE h.kind = "changed"  -> [shadow EXCEPT !.consent = h.of]
                   [] h.kind = "rumState" -> [shadow EXCEPT !.rum = h.of]
                   [] OTHER               -> shadow

LEMMA Hearing ==
    ASSUME IInv, MessagingStep, ~RelayRefresh
    PROVE  \E h : HearOnce(h)
<1> DEFINE h == Head(queue["bus"])
<1>1. ASSUME NEW v \in Consent, HearContext(v) PROVE HearOnce(h)
  <2>1. h = Item("changed", v)
    BY <1>1 DEF HearContext, Receives, First
  <2>2. shadow' = [shadow EXCEPT !.consent = h.of] /\ h.kind = "changed"
    BY <1>1, <2>1 DEF HearContext, Item
  <2>3. UNCHANGED <<main, state, scope, attached, consent, writer, context, snapshot, calling, relay>>
    BY <1>1 DEF HearContext, coreVars
  <2> HIDE DEF h
  <2> QED BY <1>1, <2>2, <2>3, HearQueues DEF HearOnce, h
<1>2. ASSUME HearRumState PROVE HearOnce(h)
  <2>1. shadow' = [shadow EXCEPT !.rum = h.of] /\ h.kind = "rumState"
    BY <1>2 DEF HearRumState, First
  <2>2. UNCHANGED <<main, state, scope, attached, consent, writer, context, snapshot, calling, relay>>
    BY <1>2 DEF HearRumState, coreVars
  <2> HIDE DEF h
  <2> QED BY <1>2, <2>1, <2>2, HearQueues DEF HearOnce, h
<1>3. ASSUME NEW l \in ErrorLog, HearLogError(l) PROVE HearOnce(h)
  <2>0. h = Item("logError", l)
    BY <1>3, HearLogErrorQueues
  <2>1. h.kind \notin {"changed", "rumState"}
    BY <2>0 DEF Item
  <2>2. UNCHANGED <<main, state, scope, attached, consent, writer, context, snapshot, calling, shadow>>
        /\ relay' = TRUE
    BY <1>3 DEF HearLogError, coreVars
  <2>3. Item("error", l) \in ContextItem /\ Item("error", l).kind # "consent"
    BY ItemTypes DEF Item
  <2> HIDE DEF h
  <2> QED BY <1>3, <2>1, <2>2, <2>3, HearLogErrorQueues DEF HearOnce, h
<1>4. ASSUME HearCrashReport PROVE HearOnce(h)
  <2>1. h = Item("crashReport", NoCall) /\ h.kind \notin {"changed", "rumState"}
    BY <1>4, HearCrashReportQueues DEF Item
  <2>2. UNCHANGED <<main, state, scope, attached, consent, writer, context, snapshot, calling, shadow, relay>>
    BY <1>4 DEF HearCrashReport, coreVars
  <2>3. Item("crash", NoCall) \in ContextItem /\ Item("crash", NoCall).kind \notin Renewing \cup {"consent"}
    BY ItemTypes DEF Item, Renewing
  <2> HIDE DEF h
  <2> QED BY <1>4, <2>1, <2>2, <2>3, HearCrashReportQueues DEF HearOnce, h
<1> QED BY <1>1, <1>2, <1>3, <1>4 DEF MessagingStep

\* Work that a thread of the application, or the main thread, gives the context thread.
LEMMA Calling ==
    ASSUME IInv, NEW t \in Thread, ApiCall(t)
    PROVE  /\ queue'["bus"] = queue["bus"] /\ queue'["storage"] = queue["storage"]
           /\ UNCHANGED <<main, state, scope, attached, consent, writer, shadow, context, snapshot, relay>>
           /\ \E y \in ContextItem :
                 /\ queue'["context"] = queue["context"] \o <<y>> /\ y.kind # "consent"
                 /\ \/ y.kind \notin Renewing /\ calling' = calling
                    \/ calling' # [u \in Thread |-> NoCall]
<1>1. ASSUME NEW l \in Log, LogCall(t, l)
      PROVE  /\ UNCHANGED <<main, state, scope, attached, consent, writer, shadow, context, snapshot, relay, calling>>
             /\ Item("log", l) \in ContextItem /\ Item("log", l).kind \notin Renewing \cup {"consent"}
  BY <1>1, ItemTypes, CallEventFacts DEF LogCall, coreVars, Item, Renewing
<1>2. ASSUME NEW c \in Command, Dispatch(t, c)
      PROVE  /\ UNCHANGED <<main, state, scope, attached, consent, writer, shadow, context, snapshot, relay>>
             /\ Item("command", c) \in ContextItem /\ Item("command", c).kind # "consent"
             /\ calling' # [u \in Thread |-> NoCall]
  <2>1. calling'[t] = c /\ c # NoCall
    BY <1>2, CallAssumption DEF Dispatch, IInv, TypeOK
  <2> QED BY <1>2, <2>1, ItemTypes, CallEventFacts DEF Dispatch, coreVars, Item
<1> QED BY <1>1, <1>2, LogCallQueues, DispatchQueues DEF ApiCall

LEMMA AttachingNext == ASSUME IInv, Attaching, Next PROVE Attaching'
<1>1. ASSUME ContextStep PROVE Attaching'
  BY <1>1, Running DEF RunOnce, Attaching
<1>2. ASSUME MessagingStep PROVE Attaching'
  BY <1>2, Hearing DEF HearOnce, Attaching, RelayRefresh, coreVars
<1>3. ASSUME StorageStep PROVE Attaching'
  BY <1>3 DEF StorageStep, StoreConsent, StoreEvent, coreVars, Attaching
<1>4. ASSUME NEW t \in Thread, FinishDispatch(t) \/ ApiCall(t) PROVE Attaching'
  BY <1>4, Calling DEF FinishDispatch, coreVars, Attaching
<1>5. ASSUME \/ Start \/ StartFeature \/ StartMessaging \/ UpdateContext
             \/ \E v \in Choice : SetConsentStarted(v) \/ SetConsentStopped(v)
      PROVE  Attaching'
  BY <1>5 DEF Start, StartFeature, StartMessaging, UpdateContext, SetConsentStarted, SetConsentStopped,
     Attaching, IInv, Phases
<1>6. ASSUME StopContext \/ JoinContext \/ JoinBus \/ StopFeature \/ StopStorage \/ JoinStorage
      PROVE  Attaching'
  BY <1>6 DEF StopContext, JoinContext, JoinBus, StopFeature, StopStorage, JoinStorage, Attaching
<1> QED BY <1>1, <1>2, <1>3, <1>4, <1>5, <1>6 DEF Next, MainCall, MainStep, ThreadStep

\* The storage thread takes h.
StoreOnce(h) ==
    /\ queue["storage"] # <<>> /\ h = Head(queue["storage"])
    /\ queue'["context"] = queue["context"] /\ queue'["bus"] = queue["bus"]
    /\ queue'["storage"] = Tail(queue["storage"])
    /\ UNCHANGED <<main, state, scope, attached, consent, context, snapshot, shadow, relay, calling>>
    /\ writer' = IF h.kind = "consent" THEN h.of ELSE writer

LEMMA Storing == ASSUME IInv, StorageStep PROVE \E h : StoreOnce(h)
<1>1. ASSUME NEW v \in Consent, StoreConsent(v) PROVE StoreOnce(Item("consent", v))
  <2>1. Handle("storage", Nothing) /\ Item("consent", v) = Head(queue["storage"]) /\ writer' = v
    BY <1>1 DEF StoreConsent, Stores, First
  <2>2. UNCHANGED <<main, state, scope, attached, consent, context, snapshot, shadow, relay, calling>>
    BY <1>1 DEF StoreConsent, coreVars
  <2>3. Item("consent", v).kind = "consent" /\ Item("consent", v).of = v
    BY DEF Item
  <2> QED BY <2>1, <2>2, <2>3, StorageTakes DEF StoreOnce
<1>2. ASSUME NEW e \in Event, StoreEvent(e) PROVE StoreOnce(e)
  <2>1. Handle("storage", Nothing) /\ e = Head(queue["storage"]) /\ writer' = writer
    BY <1>2 DEF StoreEvent, Stores, First
  <2>2. UNCHANGED <<main, state, scope, attached, consent, context, snapshot, shadow, relay, calling>>
    BY <1>2 DEF StoreEvent, coreVars
  <2>3. e.kind # "consent"
    BY DEF Event, CallEvent, OtherEvent, Item
  <2> QED BY <2>1, <2>2, <2>3, StorageTakes DEF StoreOnce
<1> QED BY <1>1, <1>2 DEF StorageStep

\* What the steps of the main thread but Start(), StartFeature() and changes of the
\* consent do to the copies: nothing.
LEMMA Waiting ==
    ASSUME IInv, StartMessaging \/ StopContext \/ JoinContext \/ JoinBus \/ StopFeature
                 \/ StopStorage \/ JoinStorage
    PROVE  /\ UNCHANGED <<queue, consent, writer, context, snapshot, shadow, relay, calling>>
           /\ attached' => attached
           /\ main # "update" /\ main' # "update"
           /\ main' \in {"starting", "idle", "update"} /\ "rum" \in scope' =>
                 main \in {"starting", "idle", "update"} /\ "rum" \in scope
BY DEF StartMessaging, StopContext, JoinContext, JoinBus, StopFeature, StopStorage, JoinStorage,
       IInv, Phases

LEMMA WriterCopyNext == ASSUME IInv, Attaching, WriterCopy, Next PROVE WriterCopy'
<1> DEFINE s == queue["storage"]
<1>0. s \in Seq(StorageItem)
  BY Queues
<1>1. ASSUME ContextStep PROVE WriterCopy'
  <2>1. PICK h : RunOnce(h)
    BY <1>1, Running
  <2>2. UNCHANGED <<consent, writer>>
        /\ (queue'["storage"] = s \/ \E e \in StorageItem : e.kind # "consent" /\ queue'["storage"] = s \o <<e>>)
    BY <2>1 DEF RunOnce
  <2> HIDE DEF s
  <2> QED BY <1>0, <2>2, LatestAdd DEF WriterCopy, s
<1>2. ASSUME StorageStep PROVE WriterCopy'
  <2>1. PICK h : StoreOnce(h)
    BY <1>2, Storing
  <2>2. /\ s # <<>> /\ Head(s) = h /\ queue'["storage"] = Tail(s) /\ consent' = consent
        /\ writer' = IF h.kind = "consent" THEN h.of ELSE writer
    BY <2>1 DEF StoreOnce
  <2>3. Item("consent", consent).kind = "consent" /\ Item("consent", consent).of = consent
    BY DEF Item
  <2> HIDE DEF s
  <2>4. Latest(s, {"consent"}, Item("consent", consent), writer, consent)
    BY DEF WriterCopy, s
  <2>5. Latest(Tail(s), {"consent"}, Item("consent", consent), writer', consent')
    BY <1>0, <2>2, <2>3, <2>4, LatestTail
  <2> QED BY <2>2, <2>5 DEF WriterCopy
<1>3. ASSUME NEW v \in Choice, SetConsentStarted(v) PROVE WriterCopy'
  <2>1. queue'["storage"] = s \o <<Item("consent", v)>> /\ consent' = v /\ writer' = writer
        /\ Item("consent", v) \in StorageItem
    BY <1>3, SetConsentQueues, ItemTypes, ConsentAssumption DEF SetConsentStarted
  <2> HIDE DEF s
  <2>2. Latest(s \o <<Item("consent", v)>>, {"consent"}, Item("consent", v), writer, v)
    BY <1>0, <2>1, LatestAdd
  <2> QED BY <2>1, <2>2 DEF WriterCopy
<1>4. ASSUME NEW v \in Choice, SetConsentStopped(v) PROVE WriterCopy'
  <2>1. queue'["storage"] = <<>> /\ consent' = v /\ writer' = v
    BY <1>4, ThreeQueues DEF SetConsentStopped, IInv, Phases, TypeOK
  <2> QED BY <2>1, LatestNone DEF WriterCopy
<1>5. ASSUME Start PROVE WriterCopy'
  <2>1. queue'["storage"] = s /\ UNCHANGED <<consent, writer>>
    BY <1>5, StartQueues DEF Start
  <2> QED BY <2>1 DEF WriterCopy
<1>6. ASSUME StartFeature PROVE WriterCopy'
  <2>1. queue'["storage"] = s /\ UNCHANGED <<consent, writer>>
    BY <1>6, StartsFeature DEF StartFeature
  <2> QED BY <2>1 DEF WriterCopy
<1>7. ASSUME UpdateContext PROVE WriterCopy'
  <2>1. queue'["storage"] = s /\ UNCHANGED <<consent, writer>>
    BY <1>7, UpdateContextQueues DEF UpdateContext
  <2> QED BY <2>1 DEF WriterCopy
<1>8. ASSUME MessagingStep, ~RelayRefresh PROVE WriterCopy'
  <2>1. queue'["storage"] = s /\ UNCHANGED <<consent, writer>>
    BY <1>8, Hearing DEF HearOnce
  <2> QED BY <2>1 DEF WriterCopy
<1>9. ASSUME RelayRefresh \/ \E t \in Thread : FinishDispatch(t) PROVE WriterCopy'
  <2>1. queue'["storage"] = s /\ UNCHANGED <<consent, writer>>
    BY <1>9, RefreshQueues DEF RelayRefresh, FinishDispatch, coreVars
  <2> QED BY <2>1 DEF WriterCopy
<1>10. ASSUME NEW t \in Thread, ApiCall(t) PROVE WriterCopy'
  <2>1. queue'["storage"] = s /\ UNCHANGED <<consent, writer>>
    BY <1>10, Calling
  <2> QED BY <2>1 DEF WriterCopy
<1>11. ASSUME StartMessaging \/ StopContext \/ JoinContext \/ JoinBus \/ StopFeature
              \/ StopStorage \/ JoinStorage
       PROVE  WriterCopy'
  <2>1. UNCHANGED <<queue, consent, writer>>
    BY <1>11, Waiting
  <2> QED BY <2>1 DEF WriterCopy
<1> QED BY <1>1, <1>2, <1>3, <1>4, <1>5, <1>6, <1>7, <1>8, <1>9, <1>10, <1>11
        DEF Next, MainCall, MainStep, ThreadStep

LEMMA ContextCopyNext == ASSUME IInv, Attaching, ContextCopy, Next PROVE ContextCopy'
<1> DEFINE s == queue["context"]
           x == Item("consent", consent)
<1>0. s \in Seq(ContextItem) /\ x.kind = "consent" /\ x.of = consent
  BY Queues DEF Item
\* Other work is queued, or none.
<1>a. ASSUME UNCHANGED <<consent, context>>, main' = main,
             \/ queue'["context"] = s
             \/ \E y \in ContextItem : y.kind # "consent" /\ queue'["context"] = s \o <<y>>
      PROVE  ContextCopy'
  <2> HIDE DEF s
  <2>1. CASE main = "update"
    BY <1>a, <2>1 DEF ContextCopy
  <2>2. CASE main # "update"
    <3>1. Latest(s, {"consent"}, x, context.consent, consent)
      BY <2>2 DEF ContextCopy, s
    <3> HIDE DEF x
    <3>2. Latest(queue'["context"], {"consent"}, x, context.consent, consent)
      BY <1>0, <1>a, <3>1, LatestAdd
    <3> QED BY <1>a, <3>2 DEF ContextCopy, x
  <2> QED BY <2>1, <2>2
<1>1. ASSUME ContextStep PROVE ContextCopy'
  <2>1. PICK h : RunOnce(h) /\ (RunSilent(h) \/ RunRenewing(h) \/ RunUpdating(h))
    BY <1>1, Running
  <2>2. s # <<>> /\ h = Head(s) /\ queue'["context"] = Tail(s) /\ UNCHANGED <<main, consent>>
    BY <2>1 DEF RunOnce
  <2>3. \/ context'.consent = context.consent /\ h.kind # "consent"
        \/ h = Item("consent", context'.consent)
    BY <2>1 DEF RunSilent, RunRenewing, RunUpdating, Refresh, Item, Renewing
  <2>4. ASSUME main # "update"
        PROVE  Latest(queue'["context"], {"consent"}, x, context'.consent, consent)
    <3>1. Latest(s, {"consent"}, x, context.consent, consent)
      BY <2>4 DEF ContextCopy
    <3>2. h = x => context'.consent = consent
      BY <1>0, <2>3 DEF Item
    <3>3. h.kind \notin {"consent"} => context'.consent = context.consent
      BY <2>3 DEF Item
    <3> HIDE DEF s, x
    <3>4. Latest(Tail(s), {"consent"}, x, context'.consent, consent)
      BY <1>0, <2>2, <3>1, <3>2, <3>3, LatestTail
    <3> QED BY <2>2, <3>4
  <2> HIDE DEF s
  <2> QED BY <2>2, <2>4 DEF ContextCopy
<1>2. ASSUME MessagingStep, ~RelayRefresh PROVE ContextCopy'
  BY <1>2, <1>a, Hearing DEF HearOnce
<1>3. ASSUME StorageStep PROVE ContextCopy'
  BY <1>3, <1>a, Storing DEF StoreOnce
<1>4. ASSUME NEW t \in Thread, ApiCall(t) PROVE ContextCopy'
  BY <1>4, <1>a, Calling
<1>5. ASSUME RelayRefresh \/ \E t \in Thread : FinishDispatch(t) PROVE ContextCopy'
  <2>1. UNCHANGED <<consent, context, main>>
    BY <1>5 DEF RelayRefresh, FinishDispatch, coreVars
  <2>2. Refresh \in ContextItem /\ Refresh.kind # "consent"
    BY ItemTypes DEF Refresh, Item
  <2> QED BY <1>5, <1>a, <2>1, <2>2, RefreshQueues
<1>6. ASSUME UpdateContext PROVE ContextCopy'
  <2>1. queue'["context"] = s \o <<x>> /\ UNCHANGED <<consent, context>>
    BY <1>6, UpdateContextQueues DEF UpdateContext
  <2>2. x \in ContextItem
    BY ItemTypes DEF IInv, TypeOK
  <2> HIDE DEF s, x
  <2>3. Latest(s \o <<x>>, {"consent"}, x, context.consent, consent)
    BY <1>0, <2>2, LatestAdd
  <2> QED BY <2>1, <2>3 DEF ContextCopy, x
<1>7. ASSUME NEW v \in Choice, SetConsentStarted(v) PROVE ContextCopy'
  BY <1>7 DEF SetConsentStarted, ContextCopy
<1>8. ASSUME NEW v \in Choice, SetConsentStopped(v) PROVE ContextCopy'
  <2>1. queue'["context"] = <<>> /\ consent' = v /\ context'.consent = v
    BY <1>8, ThreeQueues DEF SetConsentStopped, IInv, Phases, TypeOK
  <2> QED BY <2>1, LatestNone DEF ContextCopy
<1>9. ASSUME Start PROVE ContextCopy'
  <2>1. queue'["context"] = s /\ consent' = consent /\ main = "idle"
    BY <1>9, StartQueues DEF Start
  <2>2. context'.consent = context.consent
    BY <1>9 DEF Start, IInv, TypeOK
  <2> QED BY <2>1, <2>2 DEF ContextCopy
<1>10. ASSUME StartFeature PROVE ContextCopy'
  <2>1. PICK f \in Feature :
              /\ scope' = scope \cup {f}
              /\ queue'["bus"] = queue["bus"] /\ queue'["storage"] = queue["storage"]
              /\ f = "rum" => queue'["context"] =
                    (queue["context"] \o <<Item("init", NoCall)>>) \o <<Refresh>>
              /\ f = "crash" => queue'["context"] = queue["context"] \o <<Item("process", NoCall)>>
              /\ f = "logging" => queue'["context"] = queue["context"]
    BY <1>10, StartsFeature
  <2>2. UNCHANGED <<consent, context, main>>
    BY <1>10 DEF StartFeature
  <2>3. CASE f = "rum"
    <3> DEFINE y == Item("init", NoCall)
               m == s \o <<y>>
    <3>1. main # "update" /\ Latest(s, {"consent"}, x, context.consent, consent)
      BY <1>10 DEF ContextCopy, StartFeature
    <3>2. y \in ContextItem /\ y.kind # "consent" /\ Refresh \in ContextItem /\ Refresh.kind # "consent"
      BY ItemTypes DEF Refresh, Item
    <3>3. queue'["context"] = m \o <<Refresh>>
      BY <2>1, <2>3
    <3> HIDE DEF s, x, y
    <3>4. m \in Seq(ContextItem) /\ Latest(m, {"consent"}, x, context.consent, consent)
      BY <1>0, <3>1, <3>2, AddFacts, LatestAdd
    <3> HIDE DEF m
    <3>5. Latest(m \o <<Refresh>>, {"consent"}, x, context.consent, consent)
      BY <3>2, <3>4, LatestAdd
    <3> QED BY <2>2, <3>3, <3>5 DEF ContextCopy, x
  <2>4. CASE f = "crash"
    <3>1. Item("process", NoCall) \in ContextItem /\ Item("process", NoCall).kind # "consent"
      BY ItemTypes DEF Item
    <3> QED BY <1>a, <2>1, <2>2, <2>4, <3>1
  <2>5. CASE f = "logging"
    BY <1>a, <2>1, <2>2, <2>5
  <2> QED BY <2>3, <2>4, <2>5 DEF Feature
<1>11. ASSUME StartMessaging \/ StopContext \/ JoinContext \/ JoinBus \/ StopFeature
              \/ StopStorage \/ JoinStorage
       PROVE  ContextCopy'
  <2>1. UNCHANGED <<queue, consent, context>> /\ main # "update"
    BY <1>11, Waiting
  <2> QED BY <2>1 DEF ContextCopy
<1> QED BY <1>1, <1>2, <1>3, <1>4, <1>5, <1>6, <1>7, <1>8, <1>9, <1>10, <1>11
        DEF Next, MainCall, MainStep, ThreadStep

LEMMA ShadowCopyNext == ASSUME IInv, Attaching, ShadowCopy, Next PROVE ShadowCopy'
<1> DEFINE s == queue["bus"]
           x == Item("changed", context.consent)
<1>0. s \in Seq(BusItem) /\ x.kind = "changed" /\ x.of = context.consent
  BY Queues DEF Item
<1>a. ASSUME context'.consent = context.consent, shadow' = shadow, attached' => attached,
             queue'["bus"] = s
      PROVE  ShadowCopy'
  BY <1>a DEF ShadowCopy
<1>1. ASSUME ContextStep PROVE ShadowCopy'
  <2>1. PICK h : RunOnce(h) /\ (RunSilent(h) \/ RunRenewing(h) \/ RunUpdating(h))
    BY <1>1, Running
  <2>2. UNCHANGED <<attached, shadow>>
    BY <2>1 DEF RunOnce
  <2>3. ASSUME attached, UNCHANGED context, NEW y \in BusItem, y.kind # "changed",
               queue'["bus"] = s \o <<y>>
        PROVE  ShadowCopy'
    <3>1. Latest(s, {"changed"}, x, shadow.consent, context.consent)
      BY <2>3 DEF ShadowCopy
    <3> HIDE DEF s, x
    <3>2. Latest(s \o <<y>>, {"changed"}, x, shadow.consent, context.consent)
      BY <1>0, <2>3, <3>1, LatestAdd
    <3> QED BY <2>2, <2>3, <3>2 DEF ShadowCopy, x
  <2>4. CASE RunSilent(h)
    BY <1>a, <2>2, <2>3, <2>4 DEF RunSilent, ShadowCopy
  <2>5. CASE RunRenewing(h)
    <3>1. Item("rumState", snapshot') \in BusItem /\ Item("rumState", snapshot').kind # "changed"
      BY <2>5, ItemTypes DEF RunRenewing, Item
    <3> QED BY <2>2, <2>3, <2>5, <3>1 DEF RunRenewing, ShadowCopy
  <2>6. CASE RunUpdating(h)
    <3> DEFINE y == Item("changed", context'.consent)
    <3>1. y \in BusItem /\ queue'["bus"] = s \o <<y>>
      BY <2>6, ItemTypes DEF RunUpdating
    <3> HIDE DEF s, y
    <3>2. Latest(s \o <<y>>, {"changed"}, y, shadow.consent, context'.consent)
      BY <1>0, <3>1, LatestAdd
    <3> QED BY <2>2, <3>1, <3>2 DEF ShadowCopy, y
  <2> QED BY <2>1, <2>4, <2>5, <2>6
<1>2. ASSUME MessagingStep, ~RelayRefresh PROVE ShadowCopy'
  <2>1. PICK h : HearOnce(h)
    BY <1>2, Hearing
  <2>2. /\ s # <<>> /\ h = Head(s) /\ queue'["bus"] = Tail(s) /\ UNCHANGED <<attached, context>>
        /\ shadow' = CASE h.kind = "changed"  -> [shadow EXCEPT !.consent = h.of]
                       [] h.kind = "rumState" -> [shadow EXCEPT !.rum = h.of]
                       [] OTHER               -> shadow
    BY <2>1 DEF HearOnce
  <2>3. /\ h.kind = "changed" => shadow'.consent = h.of
        /\ h.kind # "changed" => shadow'.consent = shadow.consent
    BY <2>2 DEF IInv, TypeOK
  <2>4. ASSUME attached PROVE Latest(queue'["bus"], {"changed"}, x, shadow'.consent, context.consent)
    <3>1. Latest(s, {"changed"}, x, shadow.consent, context.consent)
      BY <2>4 DEF ShadowCopy
    <3> HIDE DEF s, x
    <3>2. Latest(Tail(s), {"changed"}, x, shadow'.consent, context.consent)
      BY <1>0, <2>2, <2>3, <3>1, LatestTail
    <3> QED BY <2>2, <3>2
  <2> HIDE DEF s
  <2> QED BY <2>2, <2>4 DEF ShadowCopy
<1>3. ASSUME StorageStep PROVE ShadowCopy'
  BY <1>3, <1>a, Storing DEF StoreOnce
<1>4. ASSUME NEW t \in Thread, ApiCall(t) PROVE ShadowCopy'
  BY <1>4, <1>a, Calling
<1>5. ASSUME RelayRefresh \/ \E t \in Thread : FinishDispatch(t) PROVE ShadowCopy'
  <2>1. UNCHANGED <<context, shadow, attached>>
    BY <1>5 DEF RelayRefresh, FinishDispatch, coreVars
  <2> QED BY <1>5, <1>a, <2>1, RefreshQueues
<1>6. ASSUME UpdateContext PROVE ShadowCopy'
  BY <1>6, <1>a, UpdateContextQueues DEF UpdateContext
<1>7. ASSUME NEW v \in Choice, SetConsentStarted(v) PROVE ShadowCopy'
  BY <1>7, <1>a, SetConsentQueues DEF SetConsentStarted
<1>8. ASSUME NEW v \in Choice, SetConsentStopped(v) PROVE ShadowCopy'
  <2>1. ~attached'
    BY <1>8 DEF SetConsentStopped, Attaching
  <2> QED BY <2>1 DEF ShadowCopy
<1>9. ASSUME Start PROVE ShadowCopy'
  <2>1. queue'["bus"] = <<>> \o <<x>> /\ context'.consent = context.consent
    BY <1>9, StartQueues DEF Start, IInv, TypeOK
  <2>2. x \in BusItem /\ <<>> \in Seq(BusItem)
    BY ItemTypes DEF IInv, TypeOK
  <2> HIDE DEF x
  <2>3. Latest(<<>> \o <<x>>, {"changed"}, x, shadow'.consent, context.consent)
    BY <2>2, LatestAdd
  <2> QED BY <2>1, <2>3 DEF ShadowCopy, x
<1>10. ASSUME StartFeature PROVE ShadowCopy'
  BY <1>10, <1>a, StartsFeature DEF StartFeature
<1>11. ASSUME StartMessaging \/ StopContext \/ JoinContext \/ JoinBus \/ StopFeature
              \/ StopStorage \/ JoinStorage
       PROVE  ShadowCopy'
  BY <1>11, <1>a, Waiting
<1> QED BY <1>1, <1>2, <1>3, <1>4, <1>5, <1>6, <1>7, <1>8, <1>9, <1>10, <1>11
        DEF Next, MainCall, MainStep, ThreadStep

LEMMA ShadowRumCopyNext == ASSUME IInv, Attaching, ShadowRumCopy, Next PROVE ShadowRumCopy'
<1> DEFINE s == queue["bus"]
           x == Item("rumState", snapshot)
<1>0. s \in Seq(BusItem) /\ x.kind = "rumState" /\ x.of = snapshot
  BY Queues DEF Item
<1>a. ASSUME UNCHANGED <<shadow, snapshot>>, queue'["bus"] = s
      PROVE  ShadowRumCopy'
  BY <1>a DEF ShadowRumCopy
<1>b. ASSUME UNCHANGED <<shadow, snapshot>>, NEW y \in BusItem, y.kind # "rumState",
             queue'["bus"] = s \o <<y>>
      PROVE  ShadowRumCopy'
  <2>1. Latest(s, {"rumState"}, x, shadow.rum, snapshot)
    BY DEF ShadowRumCopy
  <2> HIDE DEF s, x
  <2>2. Latest(s \o <<y>>, {"rumState"}, x, shadow.rum, snapshot)
    BY <1>0, <1>b, <2>1, LatestAdd
  <2> QED BY <1>b, <2>2 DEF ShadowRumCopy, x
<1>1. ASSUME ContextStep PROVE ShadowRumCopy'
  <2>1. PICK h : RunOnce(h) /\ (RunSilent(h) \/ RunRenewing(h) \/ RunUpdating(h))
    BY <1>1, Running
  <2>2. shadow' = shadow
    BY <2>1 DEF RunOnce
  <2>3. CASE RunSilent(h)
    BY <1>a, <1>b, <2>2, <2>3 DEF RunSilent
  <2>4. CASE RunRenewing(h)
    <3> DEFINE y == Item("rumState", snapshot')
    <3>1. y \in BusItem /\ queue'["bus"] = s \o <<y>>
      BY <2>4, ItemTypes DEF RunRenewing
    <3> HIDE DEF s, y
    <3>2. Latest(s \o <<y>>, {"rumState"}, y, shadow.rum, snapshot')
      BY <1>0, <3>1, LatestAdd
    <3> QED BY <2>2, <3>1, <3>2 DEF ShadowRumCopy, y
  <2>5. CASE RunUpdating(h)
    <3>1. Item("changed", context'.consent) \in BusItem
          /\ Item("changed", context'.consent).kind # "rumState"
      BY <2>5, ItemTypes DEF RunUpdating, Item
    <3> QED BY <1>b, <2>2, <2>5, <3>1 DEF RunUpdating
  <2> QED BY <2>1, <2>3, <2>4, <2>5
<1>2. ASSUME MessagingStep, ~RelayRefresh PROVE ShadowRumCopy'
  <2>1. PICK h : HearOnce(h)
    BY <1>2, Hearing
  <2>2. /\ s # <<>> /\ h = Head(s) /\ queue'["bus"] = Tail(s) /\ UNCHANGED snapshot
        /\ shadow' = CASE h.kind = "changed"  -> [shadow EXCEPT !.consent = h.of]
                       [] h.kind = "rumState" -> [shadow EXCEPT !.rum = h.of]
                       [] OTHER               -> shadow
    BY <2>1 DEF HearOnce
  <2>3. /\ h.kind = "rumState" => shadow'.rum = h.of
        /\ h.kind # "rumState" => shadow'.rum = shadow.rum
    BY <2>2 DEF IInv, TypeOK
  <2>4. Latest(s, {"rumState"}, x, shadow.rum, snapshot)
    BY DEF ShadowRumCopy
  <2> HIDE DEF s, x
  <2>5. Latest(Tail(s), {"rumState"}, x, shadow'.rum, snapshot)
    BY <1>0, <2>2, <2>3, <2>4, LatestTail
  <2> QED BY <2>2, <2>5 DEF ShadowRumCopy, x
<1>3. ASSUME StorageStep PROVE ShadowRumCopy'
  BY <1>3, <1>a, Storing DEF StoreOnce
<1>4. ASSUME NEW t \in Thread, ApiCall(t) PROVE ShadowRumCopy'
  BY <1>4, <1>a, Calling
<1>5. ASSUME RelayRefresh \/ \E t \in Thread : FinishDispatch(t) PROVE ShadowRumCopy'
  <2>1. UNCHANGED <<snapshot, shadow>>
    BY <1>5 DEF RelayRefresh, FinishDispatch
  <2> QED BY <1>5, <1>a, <2>1, RefreshQueues
<1>6. ASSUME UpdateContext PROVE ShadowRumCopy'
  BY <1>6, <1>a, UpdateContextQueues DEF UpdateContext
<1>7. ASSUME NEW v \in Choice, SetConsentStarted(v) PROVE ShadowRumCopy'
  BY <1>7, <1>a, SetConsentQueues DEF SetConsentStarted
<1>8. ASSUME NEW v \in Choice, SetConsentStopped(v) PROVE ShadowRumCopy'
  BY <1>8, <1>a DEF SetConsentStopped
<1>9. ASSUME Start PROVE ShadowRumCopy'
  <2> DEFINE y == Item("changed", context.consent)
  <2>1. y \in BusItem /\ y.kind # "rumState"
    BY ItemTypes DEF IInv, TypeOK, Item
  <2> HIDE DEF y
  <2>2. queue'["bus"] = <<y>> /\ s = <<>> /\ UNCHANGED <<shadow, snapshot>>
    BY <1>9, StartQueues DEF Start, y
  <2>3. <<>> \o <<y>> = <<y>>
    BY <2>1
  <2> QED BY <1>b, <2>1, <2>2, <2>3
<1>10. ASSUME StartFeature PROVE ShadowRumCopy'
  BY <1>10, <1>a, StartsFeature DEF StartFeature
<1>11. ASSUME StartMessaging \/ StopContext \/ JoinContext \/ JoinBus \/ StopFeature
              \/ StopStorage \/ JoinStorage
       PROVE  ShadowRumCopy'
  BY <1>11, <1>a, Waiting
<1> QED BY <1>1, <1>2, <1>3, <1>4, <1>5, <1>6, <1>7, <1>8, <1>9, <1>10, <1>11
        DEF Next, MainCall, MainStep, ThreadStep

LEMMA ContextRumCopyNext == ASSUME IInv, Attaching, ContextRumCopy, Next PROVE ContextRumCopy'
<1> DEFINE s == queue["context"]
           Live == main \in {"starting", "idle", "update"} /\ "rum" \in scope
           Behind == relay \/ calling # [t \in Thread |-> NoCall]
           Fresh == Latest(s, Renewing, Refresh, context.rum, snapshot)
<1>0. s \in Seq(ContextItem)
  BY Queues
<1>r. Refresh \in ContextItem /\ Refresh.kind = "refresh" /\ Refresh.kind \in Renewing
  BY ItemTypes DEF Refresh, Item, Renewing
\* Work that leaves RUM alone is queued, or none.
<1>a. ASSUME context'.rum = context.rum, snapshot' = snapshot, Live' => Live,
             \/ queue'["context"] = s
             \/ \E y \in ContextItem : y.kind \notin Renewing /\ queue'["context"] = s \o <<y>>
      PROVE  Fresh => Fresh'
  <2> HIDE DEF s
  <2> QED BY <1>0, <1>a, LatestAdd DEF s
<1>b. ASSUME Live' => Live, Behind => Behind', Fresh => Fresh' \/ Behind'
      PROVE  ContextRumCopy'
  BY <1>b DEF ContextRumCopy
<1>1. ASSUME ContextStep PROVE ContextRumCopy'
  <2>1. PICK h : RunOnce(h) /\ (RunSilent(h) \/ RunRenewing(h) \/ RunUpdating(h))
    BY <1>1, Running
  <2>2. s # <<>> /\ h = Head(s) /\ queue'["context"] = Tail(s)
        /\ UNCHANGED <<main, scope, relay, calling>>
    BY <2>1 DEF RunOnce
  <2>3. \/ UNCHANGED <<context, snapshot>> /\ h.kind \notin Renewing /\ h # Refresh
        \/ h.kind \in Renewing /\ h # Refresh
        \/ h = Refresh /\ context'.rum = snapshot /\ snapshot' = snapshot
        \/ context'.rum = context.rum /\ snapshot' = snapshot /\ h # Refresh
    BY <2>1 DEF RunSilent, RunRenewing, RunUpdating, Refresh, Item, Renewing
  <2>4. ASSUME Fresh PROVE Fresh'
    <3> HIDE DEF s
    <3>1. CASE h.kind \in Renewing /\ h # Refresh
      <4>1. \E i \in DOMAIN s : s[i] = Refresh /\ \A j \in DOMAIN s : j > i => s[j].kind \notin Renewing
        BY <1>0, <2>2, <2>4, <3>1, TailFacts DEF Latest
      <4>2. PICK i \in DOMAIN s : s[i] = Refresh /\ \A j \in DOMAIN s : j > i => s[j].kind \notin Renewing
        BY <4>1
      <4>3. i - 1 \in DOMAIN Tail(s) /\ Tail(s)[i - 1] = Refresh /\ i \in Nat
        BY <1>0, <2>2, <3>1, <4>2, TailFacts
      <4>4. \A j \in DOMAIN Tail(s) : j > i - 1 => Tail(s)[j].kind \notin Renewing
        BY <1>0, <2>2, <4>2, <4>3, TailFacts
      <4>5. Latest(Tail(s), Renewing, Refresh, context'.rum, snapshot')
        BY <4>3, <4>4 DEF Latest
      <4> QED BY <2>2, <4>5 DEF s
    <3>2. CASE ~(h.kind \in Renewing /\ h # Refresh)
      <4>1. /\ Head(s) = Refresh => context'.rum = snapshot'
            /\ Head(s).kind \notin Renewing /\ context.rum = snapshot => context'.rum = snapshot'
        BY <1>r, <2>2, <2>3, <3>2
      <4>2. Latest(Tail(s), Renewing, Refresh, context'.rum, snapshot')
        BY <1>0, <2>2, <2>4, <4>1, LatestTail
      <4> QED BY <2>2, <4>2 DEF s
    <3> QED BY <3>1, <3>2
  <2> QED BY <1>b, <2>2, <2>4
<1>2. ASSUME MessagingStep, ~RelayRefresh PROVE ContextRumCopy'
  <2>1. PICK h : HearOnce(h)
    BY <1>2, Hearing
  <2>2. /\ UNCHANGED <<main, scope, context, snapshot, calling>>
        /\ relay => relay'
        /\ \/ relay'
           \/ queue'["context"] = s
           \/ \E y \in ContextItem : y.kind \notin Renewing /\ queue'["context"] = s \o <<y>>
    BY <2>1 DEF HearOnce
  <2>3. Live' => Live
    BY <2>2
  <2>4. Behind => Behind'
    BY <2>2
  <2>5. CASE relay'
    BY <1>b, <2>3, <2>4, <2>5
  <2>6. CASE \/ queue'["context"] = s
             \/ \E y \in ContextItem : y.kind \notin Renewing /\ queue'["context"] = s \o <<y>>
    <3>1. Fresh => Fresh'
      BY <1>a, <2>2, <2>3, <2>6
    <3> QED BY <1>b, <2>3, <2>4, <3>1
  <2> QED BY <2>2, <2>5, <2>6
<1>3. ASSUME StorageStep PROVE ContextRumCopy'
  <2>1. /\ queue'["context"] = s /\ UNCHANGED <<main, scope, context, snapshot, calling, relay>>
    BY <1>3, Storing DEF StoreOnce
  <2> QED BY <1>a, <1>b, <2>1
<1>4. ASSUME NEW t \in Thread, ApiCall(t) PROVE ContextRumCopy'
  <2>1. /\ UNCHANGED <<main, scope, context, snapshot, relay>>
        /\ \E y \in ContextItem :
                 /\ queue'["context"] = s \o <<y>>
                 /\ \/ y.kind \notin Renewing /\ calling' = calling
                    \/ calling' # [u \in Thread |-> NoCall]
    BY <1>4, Calling
  <2>2. CASE calling' # [u \in Thread |-> NoCall]
    BY <1>b, <2>1, <2>2
  <2>3. CASE calling' = calling /\ \E y \in ContextItem : y.kind \notin Renewing /\ queue'["context"] = s \o <<y>>
    BY <1>a, <1>b, <2>1, <2>3
  <2> QED BY <2>1, <2>2, <2>3
<1>5. ASSUME RelayRefresh \/ \E t \in Thread : FinishDispatch(t) PROVE ContextRumCopy'
  <2>1. state = "started" /\ UNCHANGED <<main, scope, context, snapshot>>
    BY <1>5, CallAssumption DEF RelayRefresh, FinishDispatch, coreVars, IInv, Phases, TypeOK
  <2>2. CASE main \in {"idle", "update"}
    <3>1. queue'["context"] = s \o <<Refresh>>
      BY <1>5, <2>1, <2>2, RefreshQueues, OpenWhenCalled
    <3> HIDE DEF s
    <3>2. Latest(s \o <<Refresh>>, Renewing, Refresh, context.rum, snapshot)
      BY <1>0, <1>r, LatestAdd
    <3> QED BY <2>1, <3>1, <3>2 DEF ContextRumCopy
  <2>3. CASE main = "starting"
    <3>1. FALSE
      BY <1>5, <2>3 DEF RelayRefresh, FinishDispatch, IInv, Phases
    <3> QED BY <3>1
  <2>4. CASE main \notin {"starting", "idle", "update"}
    BY <2>1, <2>4 DEF ContextRumCopy
  <2> QED BY <2>2, <2>3, <2>4
<1>6. ASSUME UpdateContext PROVE ContextRumCopy'
  <2>1. /\ UNCHANGED <<scope, context, snapshot, calling, relay>> /\ main = "update"
        /\ queue'["context"] = s \o <<Item("consent", consent)>>
    BY <1>6, UpdateContextQueues DEF UpdateContext
  <2>2. Item("consent", consent) \in ContextItem /\ Item("consent", consent).kind \notin Renewing
    BY ItemTypes DEF IInv, TypeOK, Item, Renewing
  <2> QED BY <1>a, <1>b, <2>1, <2>2
<1>7. ASSUME NEW v \in Choice, SetConsentStarted(v) PROVE ContextRumCopy'
  <2>1. /\ UNCHANGED <<scope, context, snapshot, calling, relay>> /\ main = "idle"
        /\ queue'["context"] = s
    BY <1>7, SetConsentQueues DEF SetConsentStarted
  <2> QED BY <1>a, <1>b, <2>1
<1>8. ASSUME (\E v \in Choice : SetConsentStopped(v)) \/ Start PROVE ContextRumCopy'
  <2>1. scope' = {}
    BY <1>8 DEF SetConsentStopped, Start, IInv, Phases
  <2> QED BY <2>1 DEF ContextRumCopy
<1>9. ASSUME StartFeature PROVE ContextRumCopy'
  <2>1. PICK f \in Feature :
              /\ scope' = scope \cup {f}
              /\ queue'["bus"] = queue["bus"] /\ queue'["storage"] = queue["storage"]
              /\ f = "rum" => queue'["context"] =
                    (queue["context"] \o <<Item("init", NoCall)>>) \o <<Refresh>>
              /\ f = "crash" => queue'["context"] = queue["context"] \o <<Item("process", NoCall)>>
              /\ f = "logging" => queue'["context"] = queue["context"]
    BY <1>9, StartsFeature
  <2>2. UNCHANGED <<context, snapshot, main, relay, calling>>
    BY <1>9 DEF StartFeature
  <2>3. CASE f = "rum"
    <3> DEFINE m == s \o <<Item("init", NoCall)>>
    <3>1. m \in Seq(ContextItem)
      BY <1>0, ItemTypes, AddFacts
    <3>2. queue'["context"] = m \o <<Refresh>>
      BY <2>1, <2>3
    <3> HIDE DEF m
    <3>3. Latest(m \o <<Refresh>>, Renewing, Refresh, context.rum, snapshot)
      BY <1>r, <3>1, LatestAdd
    <3> QED BY <2>2, <3>2, <3>3 DEF ContextRumCopy
  <2>4. CASE f # "rum"
    <3>1. Item("process", NoCall) \in ContextItem /\ Item("process", NoCall).kind \notin Renewing
      BY ItemTypes DEF Item, Renewing
    <3>2. Live' => Live
      BY <2>1, <2>2, <2>4
    <3>3. queue'["context"] = s \/ queue'["context"] = s \o <<Item("process", NoCall)>>
      BY <2>1, <2>4 DEF Feature
    <3> QED BY <1>a, <1>b, <2>2, <3>1, <3>2, <3>3
  <2> QED BY <2>3, <2>4
<1>10. ASSUME StartMessaging \/ StopContext \/ JoinContext \/ JoinBus \/ StopFeature
              \/ StopStorage \/ JoinStorage
       PROVE  ContextRumCopy'
  <2>1. /\ UNCHANGED <<queue, context, snapshot, relay, calling>>
        /\ Live' => Live
    BY <1>10, Waiting
  <2> QED BY <1>b, <2>1
<1> QED BY <1>1, <1>2, <1>3, <1>4, <1>5, <1>6, <1>7, <1>8, <1>9, <1>10
        DEF Next, MainCall, MainStep, ThreadStep

LEMMA CopiesNext == ASSUME IInv, Copies, Next PROVE Copies'
BY AttachingNext, WriterCopyNext, ContextCopyNext, ShadowCopyNext, ShadowRumCopyNext,
   ContextRumCopyNext DEF Copies

-----------------------------------------------------------------------------
(* What the calls of the application, and a crash of it, rely on *)

Deep == IInv /\ Travels /\ Filing /\ Sights /\ Copies

LEMMA InitDeep == Init => Deep
<1> SUFFICES ASSUME Init PROVE Deep
  OBVIOUS
<1>1. IInv /\ queue["context"] = <<>> /\ queue["bus"] = <<>> /\ queue["storage"] = <<>>
  BY InitInv, ThreeQueues DEF Init, Nothing
<1>2. \A e \in Event : handed[e] = NotHanded
  BY DEF Init
<1>3. \A e \in CallEvent : e \in Event
  BY DEF Event
<1>4. Travels
  BY <1>1, <1>2, <1>3 DEF Travels, Distinct, Occurs
<1>5. Filing
  <2>1. Dated(<<>>, 0, 0, asked)
    BY DatedNone, BoundAssumption
  <2>2. changes.seen = 0 /\ changes.begun = 0 /\ changes.done = 0
        /\ \A e \in CallEvent : asked[e] = 0
    BY DEF Init
  <2> QED BY <1>1, <1>2, <1>3, <2>1, <2>2 DEF Filing, ConsentBinds
<1>6. Sights
  BY <1>1 DEF Init, Sights
<1>7. Copies
  <2>1. Attaching
    BY DEF Init, Attaching
  <2>2. WriterCopy /\ ContextCopy
    BY <1>1, LatestNone DEF Init, WriterCopy, ContextCopy
  <2>3. ShadowCopy /\ ContextRumCopy
    BY DEF Init, ShadowCopy, ContextRumCopy
  <2>4. ShadowRumCopy
    BY <1>1, LatestNone DEF Init, ShadowRumCopy
  <2> QED BY <2>1, <2>2, <2>3, <2>4 DEF Copies
<1> QED BY <1>1, <1>4, <1>5, <1>6, <1>7 DEF Deep

LEMMA NextDeep == Deep /\ [Next]_vars => Deep'
<1> SUFFICES ASSUME Deep, [Next]_vars PROVE Deep'
  OBVIOUS
<1>1. IInv /\ Travels /\ Filing /\ Sights /\ Copies /\ IInv'
  BY NextInv DEF Deep
<1>2. CASE Next
  BY <1>1, <1>2, TravelsNext, FilingNext, SightsNext, CopiesNext DEF Deep
<1>3. CASE UNCHANGED vars
  <2>1. Travels'
    BY <1>1, <1>3, TravelsStay DEF vars
  <2>2. Filing'
    BY <1>1, <1>3, FilingStay DEF vars
  <2>3. Sights'
    BY <1>1, <1>3, SightsKeep DEF vars
  <2>4. Attaching' /\ WriterCopy' /\ ContextCopy'
    BY <1>1, <1>3 DEF vars, Copies, Attaching, WriterCopy, ContextCopy
  <2>5. ShadowCopy' /\ ShadowRumCopy' /\ ContextRumCopy'
    BY <1>1, <1>3 DEF vars, Copies, ShadowCopy, ShadowRumCopy, ContextRumCopy
  <2> QED BY <1>1, <2>1, <2>2, <2>3, <2>4, <2>5 DEF Deep, Copies
<1> QED BY <1>2, <1>3

\* Where each accepted call is, and what is still on its way to each copy.
THEOREM DeepInvariant == Spec => []Deep
BY InitDeep, NextDeep, PTL DEF Spec

\* When all threads have caught up, what SetTrackingConsent() and the last RUM
\* command changed has reached the BatchWriter, the CoreContext, and what
\* CrashReporting would report of a crash.
THEOREM CopiesAgree == Spec => []AgreeAtRest
<1>1. ASSUME Deep PROVE AgreeAtRest
  <2> SUFFICES ASSUME AtRest
               PROVE  /\ writer = consent
                      /\ context = [consent |-> consent, rum |-> snapshot]
                      /\ shadow = context
    BY DEF AgreeAtRest
  <2>1. IInv /\ Attaching /\ WriterCopy /\ ContextCopy /\ ShadowCopy /\ ShadowRumCopy /\ ContextRumCopy
    BY <1>1 DEF Deep, Copies
  <2>2. queue["context"] = <<>> /\ queue["bus"] = <<>> /\ queue["storage"] = <<>>
    BY ThreeQueues DEF AtRest, Nothing
  <2>3. state = "started" /\ main = "idle" /\ attached /\ "rum" \in scope
    BY <2>1 DEF AtRest, Attaching, IInv, Phases, Feature
  <2>4. writer = consent
    BY <2>1, <2>2, LatestNone DEF WriterCopy
  <2>5. context.consent = consent
    BY <2>1, <2>2, <2>3, LatestNone DEF ContextCopy
  <2>6. context.rum = snapshot
    BY <2>1, <2>2, <2>3, LatestNone DEF ContextRumCopy, AtRest
  <2>7. shadow.consent = context.consent
    BY <2>1, <2>2, <2>3, LatestNone DEF ShadowCopy
  <2>8. shadow.rum = snapshot
    BY <2>1, <2>2, LatestNone DEF ShadowRumCopy
  <2>9. context \in [consent : Consent, rum : Nat] /\ shadow \in [consent : Consent, rum : Nat]
    BY <2>1 DEF IInv, TypeOK
  <2>10. context = [consent |-> context.consent, rum |-> context.rum]
         /\ shadow = [consent |-> shadow.consent, rum |-> shadow.rum]
    BY <2>9
  <2> QED BY <2>4, <2>5, <2>6, <2>7, <2>8, <2>10
<1> QED BY <1>1, DeepInvariant, PTL

\* A log made after a RUM command of the same thread carries a RUM context that
\* reflects the command.
THEOREM LogsSeeTheirView == Spec => []LogSeesOwnView
<1>1. ASSUME Deep PROVE LogSeesOwnView
  <2> SUFFICES ASSUME NEW l \in Log, own[l] # NoCall, handed[Item("log", l)] # NotHanded
               PROVE  seen[l] >= number[own[l]]
    BY DEF LogSeesOwnView
  <2>1. ~Occurs(queue["context"], Item("log", l))
    BY <1>1, CallEventFacts DEF Deep, Travels
  <2>2. number[own[l]] <= seen[l]
    BY <1>1, <2>1 DEF Deep, Sights, Reflected
  <2>3. seen[l] \in Nat /\ number[own[l]] \in Nat
    BY <1>1 DEF Deep, IInv, TypeOK
  <2> QED BY <2>2, <2>3
<1> QED BY <1>1, DeepInvariant, PTL

\* An event of a call made after SetTrackingConsent() returned is never filed under
\* an older consent.
THEOREM ConsentIsBinding == Spec => []ConsentBinds
<1>1. Deep => ConsentBinds
  BY DEF Deep, Filing
<1> QED BY <1>1, DeepInvariant, PTL

=============================================================================
