-------------------------- MODULE RumEventTracker ---------------------------
(***************************************************************************)
(* profiling/rum_event_tracker.cpp: the RUM events that the metadata of    *)
(* the next profile has to name.  The messaging thread records them, the   *)
(* thread that exports a profile takes them; each operation below runs     *)
(* under the tracker's mutex.                                              *)
(*                                                                         *)
(* The vectors are sets: an event's id is the number of its message, so    *)
(* the order of the vitals is that of their ids.  The order of the views   *)
(* is not modelled: when there is no room for all, any may be left out.    *)
(***************************************************************************)
EXTENDS Integers, FiniteSets

CONSTANTS Name,                \* name and operation_key of an operation
          Session, View,
          NoView,              \* UUID::Zero
          NoSession,           \* an empty RumEventContext
          MaxEventsPerKind,    \* kMaxEventsPerKind: 1000
          Cutoff               \* kOngoingOperationCutoff: 60 seconds

ASSUME TrackerAssumption ==
  /\ MaxEventsPerKind \in Nat /\ MaxEventsPerKind > 0
  /\ Cutoff \in Nat
  /\ NoView \notin View
  /\ NoSession \notin Session

VARIABLES vitals,     \* _vitals
          tasks,      \* _long_tasks
          views,      \* _views
          context,    \* _context
          seen,       \* contexts of the steps recorded since the last snapshot
          recorded,   \* the ids of all events taken in
          reported,   \* ... of those handed over complete, or for the last time
          gone        \* ... of those a repeated start or a reset has removed

tracker == << vitals, tasks, views, context >>
books   == << seen, recorded, reported, gone >>

-----------------------------------------------------------------------------
Context   == [session : Session, view : View \union {NoView}]
NoContext == [session |-> NoSession, view |-> NoView]

\* RumVitalStepType ("update" is also "retry"), and "none" for a vital that is
\* complete on its own.
Step == {"none", "start", "update", "end"}

Vital == [id : Nat, name : Name, start : Nat, is_operation : BOOLEAN,
          ended : BOOLEAN, context : Context]

LongTask == [id : Nat]

\* An operation that has started and not yet ended.
IsPending(v) == v.is_operation /\ ~v.ended

IsSameOperation(v, m) ==
  IsPending(v) /\ v.name = m.name /\ v.context.session = m.context.session

\* What find_if() finds, as a set: at most one operation, the first.
Existing(m) ==
  {v \in vitals : /\ m.step # "none" /\ IsSameOperation(v, m)
                  /\ \A w \in vitals : IsSameOperation(w, m) => v.id <= w.id}

ViewsOf(contexts) == {c.view : c \in contexts} \ {NoView}

Smaller(a, b) == IF a < b THEN a ELSE b

\* The outcomes of NoteView() for each of the contexts.
NoteViews(known, contexts) ==
  LET all == known \union ViewsOf(contexts)
  IN {new \in SUBSET all : /\ known \subseteq new
                           /\ Cardinality(new) = Smaller(Cardinality(all), MaxEventsPerKind)}

TrackerInit ==
  /\ vitals = {} /\ tasks = {} /\ views = {} /\ context = NoContext
  /\ seen = {} /\ recorded = {} /\ reported = {} /\ gone = {}

-----------------------------------------------------------------------------
\* The context and the view of a step that was taken in.
Occurred(m) ==
  /\ context' = m.context
  /\ views' \in NoteViews(views, {m.context})
  /\ seen' = seen \union {m.context}

NewVital(m) ==
  [id |-> m.id, name |-> m.name, start |-> m.time, is_operation |-> m.step # "none",
   ended |-> FALSE, context |-> m.context]

EndOperation(m) ==
  /\ m.step = "end"
  /\ Existing(m) # {}
  /\ vitals' = (vitals \ Existing(m)) \union {[v EXCEPT !.ended = TRUE] : v \in Existing(m)}
  /\ Occurred(m)
  /\ UNCHANGED << tasks, recorded, reported, gone >>

HasRoom(m) == Existing(m) # {} \/ Cardinality(vitals) < MaxEventsPerKind

StartVital(m) ==
  /\ m.step \in {"none", "start"}
  /\ HasRoom(m)
  /\ vitals' = (vitals \ Existing(m)) \union {NewVital(m)}
  /\ recorded' = recorded \union {m.id}
  /\ gone' = gone \union {v.id : v \in Existing(m)}
  /\ Occurred(m)
  /\ UNCHANGED << tasks, reported >>

\* Updates and retries, an end without its start, a vital there is no room for.
IgnoreVital(m) ==
  /\ \/ m.step = "update"
     \/ m.step = "end" /\ Existing(m) = {}
     \/ m.step \in {"none", "start"} /\ ~HasRoom(m)
  /\ UNCHANGED << tracker, books >>

OnVital(m) == EndOperation(m) \/ StartVital(m) \/ IgnoreVital(m)

OnLongTask(m) ==
  \/ /\ Cardinality(tasks) < MaxEventsPerKind
     /\ tasks' = tasks \union {[id |-> m.id]}
     /\ recorded' = recorded \union {m.id}
     /\ Occurred(m)
     /\ UNCHANGED << vitals, reported, gone >>
  \/ /\ Cardinality(tasks) >= MaxEventsPerKind
     /\ UNCHANGED << tracker, books >>

-----------------------------------------------------------------------------
\* What the next snapshot hands over.
HandedOver == vitals

\* Mutant of Kept: what is complete is kept with what is pending.
KeptWithComplete(now) ==
  IF \E v \in vitals : IsPending(v) /\ now - v.start < Cutoff THEN vitals ELSE {}

\* Mutant of Kept: one operation that is too old takes the others with it.
KeptIfAllRecent(now) ==
  LET pending == {v \in vitals : IsPending(v)}
  IN IF \A v \in pending : now - v.start < Cutoff THEN pending ELSE {}

\* Pending operations are kept all together, while one of them is recent.
Kept(now) ==
  LET pending == {v \in vitals : IsPending(v)}
  IN IF \E v \in pending : now - v.start < Cutoff THEN pending ELSE {}

\* The context that the operations kept are reported with.
KeptContext(kept) ==
  IF kept = {} THEN NoContext
  ELSE (CHOOSE v \in kept : \A w \in kept : w.id <= v.id).context

ContextsOf(vs) == {v.context : v \in vs}

\* The views of the vitals are noted before they are handed over.
SnapshotViews == NoteViews(views, ContextsOf(vitals))

TakeSnapshot(now) ==
  /\ vitals' = Kept(now)
  /\ tasks' = {}
  /\ context' = KeptContext(vitals')
  /\ views' \in NoteViews({}, ContextsOf(vitals'))
  /\ seen' = {}
  /\ reported' = reported \union {v.id : v \in {w \in HandedOver : ~IsPending(w) \/ w \notin vitals'}}
                          \union {t.id : t \in tasks}
  /\ UNCHANGED << recorded, gone >>

Reset ==
  /\ vitals' = {} /\ tasks' = {} /\ views' = {} /\ context' = NoContext
  /\ seen' = {}
  /\ gone' = gone \union {v.id : v \in vitals} \union {t.id : t \in tasks}
  /\ UNCHANGED << recorded, reported >>
-----------------------------------------------------------------------------
Tracked == {v.id : v \in vitals} \union {t.id : t \in tasks}

\* Every vital and long task taken in is tracked, or has been handed over
\* complete (or for the last time), or was removed: one of them, and only one.
\* Nothing is lost between snapshots, and nothing complete is reported twice.
EachOnce ==
  /\ recorded = Tracked \union reported \union gone
  /\ Tracked \intersect reported = {}
  /\ Tracked \intersect gone = {}
  /\ reported \intersect gone = {}

\* Of one operation in one session at most one run is waiting for its end.
OneRun ==
  \A v, w \in vitals :
    IsPending(v) /\ IsPending(w) /\ v.name = w.name /\ v.context.session = w.context.session
      => v = w

\* However many events come between two snapshots, each vector has its limit.
Bounded ==
  /\ Cardinality(vitals) <= MaxEventsPerKind
  /\ Cardinality(tasks) <= MaxEventsPerKind
  /\ Cardinality(views) <= MaxEventsPerKind

\* A snapshot names the view of every step since the one before, and that of
\* every vital in it, also of an operation that began many snapshots ago, but
\* for lack of room.
ViewsCover ==
  \A s \in SnapshotViews :
    \/ Cardinality(s) = MaxEventsPerKind
    \/ ViewsOf(seen) \union ViewsOf(ContextsOf(vitals)) \subseteq s

\* A snapshot that has events says where: in the context of a step since the
\* snapshot before, or else in that of its latest vital.
SaysWhere ==
  vitals # {} \/ tasks # {} =>
    IF seen # {} THEN context \in seen
    ELSE \E v \in vitals : context = v.context /\ \A w \in vitals : w.id <= v.id
=============================================================================
