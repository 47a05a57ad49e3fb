-------------------------- MODULE Profiling_proofs ---------------------------
(***************************************************************************)
(* Proofs about Profiling and its RumEventTracker, for any number of       *)
(* events, of places for them, and of starts and stops of the Core.  The   *)
(* inductive invariant IInv has two halves: what the tracker holds (its    *)
(* vectors, and the books of what became of every event), and the chain of *)
(* consents that leads from what the feature was told last through the     *)
(* messages on the bus to the consent in the CoreContext.                  *)
(***************************************************************************)
EXTENDS Profiling, FiniteSetTheorems, NaturalsInduction, WellFoundedInduction, TLAPS

-----------------------------------------------------------------------------
(***************************************************************************)
(* Lemmas about numbers and finite sets.                                   *)
(***************************************************************************)
Before == {p \in Nat \X Nat : p[1] < p[2]}

\* Numbers have a least one.
LEMMA LeastNatural ==
  ASSUME NEW T \in SUBSET Nat, T # {}
  PROVE  \E x \in T : \A y \in T : x <= y
<1>1. Before = OpToRel(<, Nat)
  BY DEF Before, OpToRel
<1>2. IsWellFoundedOn(Before, Nat)
  BY <1>1, NatLessThanWellFounded
<1>3. PICK x \in T : \A y \in T : ~ (<< y, x >> \in Before)
  BY <1>2, WFMin
<1>4. \A y \in T : << y, x >> \in Nat \X Nat /\ ~ (y < x)
  BY <1>3 DEF Before
<1>5. \A y \in T : y \in Nat /\ x \in Nat /\ ~ (y < x)
  BY <1>4
<1> QED
  BY <1>5

\* Numbers below a bound have a greatest one.
LEMMA GreatestNatural ==
  ASSUME NEW T \in SUBSET Nat, T # {}, NEW n \in Nat, \A x \in T : x < n
  PROVE  \E x \in T : \A y \in T : y <= x
<1> DEFINE U == {n - x : x \in T}
<1>1. U \in SUBSET Nat /\ U # {}
  <2>1. \A x \in T : n - x \in Nat
    OBVIOUS
  <2> QED
    BY <2>1
<1> HIDE DEF U
<1>2. PICK u \in U : \A w \in U : u <= w
  BY <1>1, LeastNatural
<1>3. PICK x \in T : u = n - x
  BY DEF U
<1>4. \A y \in T : n - y \in U
  BY DEF U
<1>5. \A y \in T : n - x <= n - y
  BY <1>2, <1>3, <1>4
<1> QED
  BY <1>5

\* An element that takes the place of another needs no more room.
LEMMA Replaced ==
  ASSUME NEW S, IsFiniteSet(S), NEW x \in S, NEW y
  PROVE  /\ IsFiniteSet((S \ {x}) \union {y})
         /\ Cardinality((S \ {x}) \union {y}) <= Cardinality(S)
<1>1. IsFiniteSet(S \ {x}) /\ Cardinality(S \ {x}) = Cardinality(S) - 1 /\ Cardinality(S) \in Nat
  BY FS_RemoveElement, FS_CardinalityType
<1>2. /\ IsFiniteSet((S \ {x}) \union {y})
      /\ Cardinality((S \ {x}) \union {y}) = IF y \in S \ {x} THEN Cardinality(S \ {x}) ELSE Cardinality(S \ {x}) + 1
  BY <1>1, FS_AddElement
<1> QED
  BY <1>1, <1>2

-----------------------------------------------------------------------------
(***************************************************************************)
(* NoteView() and the views of a snapshot.                                 *)
(***************************************************************************)
\* As many views are noted as there is room for; none is forgotten.
LEMMA NoteViewsFacts ==
  ASSUME NEW known, IsFiniteSet(known), NEW contexts, IsFiniteSet(ViewsOf(contexts)),
         NEW new \in NoteViews(known, contexts)
  PROVE  /\ IsFiniteSet(new) /\ Cardinality(new) <= MaxEventsPerKind
         /\ known \subseteq new /\ new \subseteq known \union ViewsOf(contexts)
         /\ new = known \union ViewsOf(contexts) \/ Cardinality(new) = MaxEventsPerKind
<1> DEFINE all == known \union ViewsOf(contexts)
<1>1. /\ new \in SUBSET all /\ known \subseteq new
      /\ Cardinality(new) = Smaller(Cardinality(all), MaxEventsPerKind)
  BY DEF NoteViews
<1>2. IsFiniteSet(all) /\ Cardinality(all) \in Nat
  BY FS_Union, FS_CardinalityType
<1>3. IsFiniteSet(new) /\ (Cardinality(all) = Cardinality(new) => all = new)
  BY <1>1, <1>2, FS_Subset
<1> QED
  BY <1>1, <1>2, <1>3, TrackerAssumption DEF Smaller

\* What a step says of a context is one view, or none.
LEMMA OneViewIsFinite ==
  ASSUME NEW c
  PROVE  IsFiniteSet(ViewsOf({c}))
<1>1. ViewsOf({c}) \in SUBSET {c.view}
  BY DEF ViewsOf
<1> QED
  BY <1>1, FS_Subset, FS_Singleton

\* Finitely many vitals have finitely many views.
LEMMA ViewsAreFinite ==
  ASSUME NEW S, IsFiniteSet(S)
  PROVE  IsFiniteSet(ViewsOf(ContextsOf(S)))
<1> DEFINE T == {v.context.view : v \in S}
           f == [v \in S |-> v.context.view]
<1>1. f \in Surjection(S, T)
  BY DEF Surjection
<1>2. IsFiniteSet(T)
  BY <1>1, FS_Surjection
<1>3. ViewsOf(ContextsOf(S)) \in SUBSET T
  BY DEF ViewsOf, ContextsOf
<1> QED
  BY <1>2, <1>3, FS_Subset

\* KeptContext() finds the latest of the vitals it is given.
LEMMA LatestVital ==
  ASSUME NEW kept \in SUBSET Vital, kept # {}, NEW n \in Nat, \A v \in kept : v.id < n
  PROVE  /\ KeptContext(kept) \in Context
         /\ \E v \in kept : KeptContext(kept) = v.context /\ \A w \in kept : w.id <= v.id
<1> DEFINE T == {v.id : v \in kept}
<1>1. T \in SUBSET Nat /\ T # {} /\ \A x \in T : x < n
  BY DEF Vital
<1> HIDE DEF T
<1>2. PICK x \in T : \A y \in T : y <= x
  BY <1>1, GreatestNatural
<1>3. \E v \in kept : \A w \in kept : w.id <= v.id
  BY <1>2 DEF T
<1> DEFINE latest == CHOOSE v \in kept : \A w \in kept : w.id <= v.id
<1>4. latest \in kept /\ \A w \in kept : w.id <= latest.id
  BY <1>3
<1>5. KeptContext(kept) = latest.context
  BY DEF KeptContext
<1>6. latest.context \in Context
  BY <1>4 DEF Vital
<1> QED
  BY <1>4, <1>5, <1>6

-----------------------------------------------------------------------------
(***************************************************************************)
(* The tracker.                                                            *)
(***************************************************************************)
TrackerType ==
  /\ vitals \subseteq Vital /\ tasks \subseteq LongTask
  /\ views \subseteq View /\ context \in Context \union {NoContext}
  /\ seen \subseteq Context
  /\ recorded \subseteq Nat /\ reported \subseteq Nat /\ gone \subseteq Nat

Finite == IsFiniteSet(vitals) /\ IsFiniteSet(tasks) /\ IsFiniteSet(views)

\* A vital or long task is known by its id.
OwnIds ==
  /\ \A v, w \in vitals : v.id = w.id => v = w
  /\ \A v \in vitals, t \in tasks : v.id # t.id

\* The views of the steps since the last snapshot are there, unless there was
\* no room for all.
ViewsNoted == ViewsOf(seen) \subseteq views \/ Cardinality(views) = MaxEventsPerKind

TrackerInv ==
  TrackerType /\ Finite /\ OwnIds /\ EachOnce /\ OneRun /\ Bounded /\ ViewsNoted /\ SaysWhere

\* Nothing is there before the first event.
LEMMA InitTracker == TrackerInit => TrackerInv
<1> SUFFICES ASSUME TrackerInit PROVE TrackerInv
  OBVIOUS
<1> USE DEF TrackerInit
<1>1. TrackerType
  BY DEF TrackerType
<1>2. Finite /\ Bounded
  BY FS_EmptySet, TrackerAssumption DEF Finite, Bounded
<1>3. OwnIds /\ EachOnce /\ OneRun /\ ViewsNoted /\ SaysWhere
  BY DEF OwnIds, EachOnce, Tracked, OneRun, ViewsNoted, ViewsOf, SaysWhere
<1> QED
  BY <1>1, <1>2, <1>3 DEF TrackerInv

\* Of the runs of an operation at most one waits, so find_if() finds it.
LEMMA ExistingFacts ==
  ASSUME TrackerInv, NEW m \in VitalMessage
  PROVE  /\ Existing(m) \subseteq vitals
         /\ \A v \in vitals : v \in Existing(m) <=> m.step # "none" /\ IsSameOperation(v, m)
         /\ Existing(m) = {} \/ \E v \in vitals : Existing(m) = {v}
<1>1. \A v, w \in vitals : IsSameOperation(v, m) /\ IsSameOperation(w, m) => v = w
  BY DEF TrackerInv, OneRun, IsSameOperation
<1>2. \A v \in vitals : v.id \in Nat
  BY DEF TrackerInv, TrackerType, Vital
<1>3. \A v \in vitals : v \in Existing(m) <=> m.step # "none" /\ IsSameOperation(v, m)
  BY <1>1, <1>2 DEF Existing
<1>4. Existing(m) \subseteq vitals
  BY DEF Existing
<1> QED
  BY <1>1, <1>3, <1>4

\* What a step that is taken in does to the context and the views.
LEMMA OccurredFacts ==
  ASSUME TrackerInv, NEW m, m.context \in Context, Occurred(m)
  PROVE  /\ views' \subseteq View /\ IsFiniteSet(views') /\ Cardinality(views') <= MaxEventsPerKind
         /\ context' \in Context /\ seen' \subseteq Context
         /\ ViewsNoted'
         /\ context' \in seen'
<1>1. /\ context' = m.context /\ views' \in NoteViews(views, {m.context})
      /\ seen' = seen \union {m.context}
  BY DEF Occurred
<1>2. IsFiniteSet(views) /\ views \subseteq View /\ ViewsNoted /\ seen \subseteq Context
      /\ Cardinality(views) <= MaxEventsPerKind
  BY DEF TrackerInv, Finite, TrackerType, Bounded
<1>3. /\ IsFiniteSet(views') /\ Cardinality(views') <= MaxEventsPerKind
      /\ views \subseteq views' /\ views' \subseteq views \union ViewsOf({m.context})
      /\ views' = views \union ViewsOf({m.context}) \/ Cardinality(views') = MaxEventsPerKind
  BY <1>1, <1>2, OneViewIsFinite, NoteViewsFacts
<1>4. ViewsOf({m.context}) \subseteq View
  BY DEF ViewsOf, Context
<1>5. ViewsOf(seen') = ViewsOf(seen) \union ViewsOf({m.context})
  BY <1>1 DEF ViewsOf
<1>6. CASE Cardinality(views) = MaxEventsPerKind
  <2>1. Cardinality(views) <= Cardinality(views')
    BY <1>3, FS_Subset
  <2>2. Cardinality(views') \in Nat
    BY <1>3, FS_CardinalityType
  <2>3. Cardinality(views') = MaxEventsPerKind
    BY <1>3, <1>6, <2>1, <2>2, TrackerAssumption
  <2> QED
    BY <1>1, <1>2, <1>3, <1>4, <2>3 DEF ViewsNoted
<1>7. CASE ViewsOf(seen) \subseteq views
  BY <1>1, <1>2, <1>3, <1>4, <1>5, <1>7 DEF ViewsNoted
<1> QED
  BY <1>2, <1>6, <1>7 DEF ViewsNoted

\* The end of an operation marks the one run that waits for it.
LEMMA EndOperationInv ==
  ASSUME TrackerInv, NEW m \in VitalMessage, EndOperation(m)
  PROVE  TrackerInv'
<1>1. PICK v \in vitals : Existing(m) = {v}
  BY ExistingFacts DEF EndOperation
<1> DEFINE ended == [v EXCEPT !.ended = TRUE]
<1>2. vitals' = (vitals \ {v}) \union {ended} /\ UNCHANGED << tasks, recorded, reported, gone >>
  BY <1>1 DEF EndOperation
<1>3. v \in Vital /\ ended \in Vital /\ ended.id = v.id /\ ended.context = v.context /\ ~IsPending(ended)
  BY DEF TrackerInv, TrackerType, Vital, IsPending
<1>4. m.context \in Context /\ Occurred(m)
  BY DEF VitalMessage, EndOperation
<1>5. /\ views' \subseteq View /\ IsFiniteSet(views') /\ Cardinality(views') <= MaxEventsPerKind
      /\ context' \in Context /\ seen' \subseteq Context /\ ViewsNoted' /\ context' \in seen'
  BY <1>4, OccurredFacts
<1> HIDE DEF ended
<1>6. TrackerType'
  BY <1>2, <1>3, <1>5 DEF TrackerInv, TrackerType
<1>7. IsFiniteSet(vitals') /\ Cardinality(vitals') <= Cardinality(vitals)
  BY <1>2, Replaced DEF TrackerInv, Finite
<1>8. Finite' /\ Bounded'
  <2>1. Cardinality(vitals) \in Nat /\ Cardinality(vitals') \in Nat
    BY <1>7, FS_CardinalityType DEF TrackerInv, Finite
  <2> QED
    BY <1>2, <1>5, <1>7, <2>1, TrackerAssumption DEF TrackerInv, Finite, Bounded
<1>9. OwnIds'
  BY <1>2, <1>3 DEF TrackerInv, OwnIds
<1>10. EachOnce'
  <2>1. Tracked' = Tracked
    BY <1>2, <1>3 DEF Tracked
  <2> QED
    BY <1>2, <2>1 DEF TrackerInv, EachOnce
<1>11. OneRun'
  BY <1>2, <1>3 DEF TrackerInv, OneRun, IsPending
<1>12. SaysWhere'
  BY <1>5 DEF SaysWhere
<1> QED
  BY <1>5, <1>6, <1>8, <1>9, <1>10, <1>11, <1>12 DEF TrackerInv

\* A start takes the place of a run that waits, and any other vital a place of its own.
LEMMA StartVitalInv ==
  ASSUME TrackerInv, NEW m \in VitalMessage, m.id \notin recorded, StartVital(m)
  PROVE  TrackerInv'
<1> DEFINE old == Existing(m)
           new == NewVital(m)
<1>1. /\ old \subseteq vitals
      /\ \A v \in vitals : v \in old <=> m.step # "none" /\ IsSameOperation(v, m)
      /\ old = {} \/ \E v \in vitals : old = {v}
  BY ExistingFacts
<1>2. /\ HasRoom(m) /\ vitals' = (vitals \ old) \union {new}
      /\ recorded' = recorded \union {m.id}
      /\ gone' = gone \union {v.id : v \in old}
      /\ UNCHANGED << tasks, reported >>
  BY DEF StartVital
<1>3. /\ new \in Vital /\ new.id = m.id /\ new.context = m.context /\ new.name = m.name
      /\ IsPending(new) => m.step # "none"
  BY DEF NewVital, Vital, VitalMessage, IsPending
<1>4. m.context \in Context /\ m.id \in Nat /\ Occurred(m)
  BY DEF VitalMessage, StartVital
<1>5. /\ views' \subseteq View /\ IsFiniteSet(views') /\ Cardinality(views') <= MaxEventsPerKind
      /\ context' \in Context /\ seen' \subseteq Context /\ ViewsNoted' /\ context' \in seen'
  BY <1>4, OccurredFacts
<1> HIDE DEF new, old
<1>6. TrackerType'
  <2>1. {v.id : v \in old} \subseteq Nat
    BY <1>1 DEF TrackerInv, TrackerType, Vital
  <2> QED
    BY <1>2, <1>3, <1>4, <1>5, <2>1 DEF TrackerInv, TrackerType
<1>7. /\ IsFiniteSet(vitals') /\ Cardinality(vitals') \in Nat
      /\ Cardinality(vitals') <= MaxEventsPerKind
  <2>1. IsFiniteSet(vitals) /\ Cardinality(vitals) \in Nat /\ Cardinality(vitals) <= MaxEventsPerKind
    BY FS_CardinalityType DEF TrackerInv, Finite, Bounded
  <2>2. CASE old = {}
    <3>1. Cardinality(vitals) < MaxEventsPerKind /\ vitals' = vitals \union {new}
      BY <1>2, <2>2 DEF HasRoom, old
    <3>2. /\ IsFiniteSet(vitals')
          /\ Cardinality(vitals') = IF new \in vitals THEN Cardinality(vitals) ELSE Cardinality(vitals) + 1
      BY <2>1, <3>1, FS_AddElement
    <3> QED
      BY <2>1, <3>1, <3>2, FS_CardinalityType, TrackerAssumption
  <2>3. CASE old # {}
    <3>1. PICK v \in vitals : old = {v}
      BY <1>1, <2>3
    <3>2. IsFiniteSet(vitals') /\ Cardinality(vitals') <= Cardinality(vitals)
      BY <1>2, <2>1, <3>1, Replaced
    <3> QED
      BY <2>1, <3>2, FS_CardinalityType, TrackerAssumption
  <2> QED
    BY <2>2, <2>3
<1>8. Finite' /\ Bounded'
  BY <1>2, <1>5, <1>7 DEF TrackerInv, Finite, Bounded
<1>9. \A v \in vitals : v.id # m.id
  BY DEF TrackerInv, EachOnce, Tracked
<1>10. \A t \in tasks : t.id # m.id
  BY DEF TrackerInv, EachOnce, Tracked
<1>11. OwnIds'
  BY <1>2, <1>3, <1>9, <1>10 DEF TrackerInv, OwnIds
<1>12. EachOnce'
  <2>1. \A v \in vitals, w \in old : v.id = w.id => v \in old
    BY <1>1 DEF TrackerInv, OwnIds
  <2>2. \A t \in tasks, w \in old : t.id # w.id
    BY <1>1 DEF TrackerInv, OwnIds
  <2>3. Tracked' = (Tracked \ {v.id : v \in old}) \union {m.id}
    BY <1>1, <1>2, <1>3, <2>1, <2>2 DEF Tracked
  <2>4. {v.id : v \in old} \subseteq Tracked
    BY <1>1 DEF Tracked
  <2> QED
    BY <1>2, <2>3, <2>4 DEF TrackerInv, EachOnce
<1>13. OneRun'
  BY <1>1, <1>2, <1>3 DEF TrackerInv, OneRun, IsSameOperation
<1>14. SaysWhere'
  BY <1>5 DEF SaysWhere
<1> QED
  BY <1>5, <1>6, <1>8, <1>11, <1>12, <1>13, <1>14 DEF TrackerInv

\* A long task is taken in while there is room.
LEMMA LongTaskInv ==
  ASSUME TrackerInv, NEW m \in TaskMessage, m.id \notin recorded, OnLongTask(m)
  PROVE  TrackerInv'
<1>1. CASE UNCHANGED << tracker, books >>
  BY <1>1 DEF tracker, books, TrackerInv, TrackerType, Finite, OwnIds, EachOnce, Tracked, OneRun,
              Bounded, ViewsNoted, ViewsOf, SaysWhere
<1>2. CASE ~ UNCHANGED << tracker, books >>
  <2> DEFINE task == [id |-> m.id]
  <2>1. /\ Cardinality(tasks) < MaxEventsPerKind /\ tasks' = tasks \union {task}
        /\ recorded' = recorded \union {m.id} /\ Occurred(m)
        /\ UNCHANGED << vitals, reported, gone >>
    BY <1>2 DEF OnLongTask
  <2>2. m.context \in Context /\ m.id \in Nat /\ task \in LongTask /\ task.id = m.id
    BY DEF TaskMessage, LongTask
  <2>3. /\ views' \subseteq View /\ IsFiniteSet(views') /\ Cardinality(views') <= MaxEventsPerKind
        /\ context' \in Context /\ seen' \subseteq Context /\ ViewsNoted' /\ context' \in seen'
    BY <2>1, <2>2, OccurredFacts
  <2> HIDE DEF task
  <2>4. TrackerType'
    BY <2>1, <2>2, <2>3 DEF TrackerInv, TrackerType
  <2>5. /\ IsFiniteSet(tasks) /\ Cardinality(tasks) \in Nat /\ IsFiniteSet(tasks')
        /\ Cardinality(tasks') = IF task \in tasks THEN Cardinality(tasks) ELSE Cardinality(tasks) + 1
    BY <2>1, FS_AddElement, FS_CardinalityType DEF TrackerInv, Finite
  <2>6. Finite' /\ Bounded'
    BY <2>1, <2>3, <2>5, TrackerAssumption DEF TrackerInv, Finite, Bounded
  <2>7. (\A v \in vitals : v.id # m.id) /\ (\A t \in tasks : t.id # m.id)
    BY DEF TrackerInv, EachOnce, Tracked
  <2>8. OwnIds'
    BY <2>1, <2>2, <2>7 DEF TrackerInv, OwnIds
  <2>9. EachOnce'
    <3>1. Tracked' = Tracked \union {m.id}
      BY <2>1, <2>2 DEF Tracked
    <3> QED
      BY <2>1, <3>1 DEF TrackerInv, EachOnce
  <2>10. OneRun' /\ SaysWhere'
    BY <2>1, <2>3 DEF TrackerInv, OneRun, SaysWhere
  <2> QED
    BY <2>3, <2>4, <2>6, <2>8, <2>9, <2>10 DEF TrackerInv
<1> QED
  BY <1>1, <1>2

\* A snapshot keeps what may still end, and hands over the rest.
LEMMA TakeSnapshotInv ==
  ASSUME TrackerInv, NEW n \in Nat, \A v \in vitals : v.id < n, NEW now, TakeSnapshot(now)
  PROVE  TrackerInv' /\ vitals' \subseteq vitals
<1> DEFINE out == {w \in vitals : ~IsPending(w) \/ w \notin vitals'}
<1>1. vitals' \subseteq vitals
  BY DEF TakeSnapshot, Kept
<1>2. /\ tasks' = {} /\ context' = KeptContext(vitals') /\ seen' = {}
      /\ views' \in NoteViews({}, ContextsOf(vitals'))
      /\ reported' = reported \union {v.id : v \in out} \union {t.id : t \in tasks}
      /\ UNCHANGED << recorded, gone >>
  BY DEF TakeSnapshot, HandedOver
<1>3. \A v \in vitals' : IsPending(v)
  BY DEF TakeSnapshot, Kept
<1>4. IsFiniteSet(vitals') /\ Cardinality(vitals') <= Cardinality(vitals)
  BY <1>1, FS_Subset DEF TrackerInv, Finite
<1>5. /\ IsFiniteSet(views') /\ Cardinality(views') <= MaxEventsPerKind
      /\ views' \subseteq ViewsOf(ContextsOf(vitals'))
  <2>1. IsFiniteSet(ViewsOf(ContextsOf(vitals'))) /\ IsFiniteSet({})
    BY <1>4, ViewsAreFinite, FS_EmptySet
  <2> QED
    BY <1>2, <2>1, NoteViewsFacts
<1>6. ViewsOf(ContextsOf(vitals')) \subseteq View
  BY <1>1 DEF ViewsOf, ContextsOf, TrackerInv, TrackerType, Vital, Context
<1>7. /\ context' \in Context \union {NoContext}
      /\ vitals' # {} => \E v \in vitals' : context' = v.context /\ \A w \in vitals' : w.id <= v.id
  <2>1. CASE vitals' = {}
    BY <1>2, <2>1 DEF KeptContext
  <2>2. CASE vitals' # {}
    <3>1. vitals' \in SUBSET Vital /\ \A v \in vitals' : v.id < n
      BY <1>1 DEF TrackerInv, TrackerType
    <3> QED
      BY <1>2, <2>2, <3>1, LatestVital
  <2> QED
    BY <2>1, <2>2
<1> HIDE DEF out
<1>8. TrackerType'
  <2>1. {v.id : v \in out} \subseteq Nat /\ {t.id : t \in tasks} \subseteq Nat
    BY DEF out, TrackerInv, TrackerType, Vital, LongTask
  <2> QED
    BY <1>1, <1>2, <1>5, <1>6, <1>7, <2>1 DEF TrackerInv, TrackerType
<1>9. Finite' /\ Bounded'
  <2>1. Cardinality(vitals') \in Nat /\ Cardinality(vitals) \in Nat
    BY <1>4, FS_CardinalityType DEF TrackerInv, Finite
  <2>2. IsFiniteSet(tasks') /\ Cardinality(tasks') = 0
    BY <1>2, FS_EmptySet
  <2> QED
    BY <1>4, <1>5, <2>1, <2>2, TrackerAssumption DEF TrackerInv, Finite, Bounded
<1>10. OwnIds' /\ OneRun'
  BY <1>1, <1>2 DEF TrackerInv, OwnIds, OneRun
<1>11. EachOnce'
  <2>1. \A v \in vitals : v \in vitals' <=> v \notin out
    BY <1>1, <1>3 DEF out
  <2>2. {v.id : v \in vitals} = {v.id : v \in vitals'} \union {v.id : v \in out}
    BY <1>1, <2>1 DEF out
  <2>3. \A v \in vitals', w \in out : v.id # w.id
    BY <1>1, <2>1 DEF out, TrackerInv, OwnIds
  <2>4. \A v \in vitals', t \in tasks : v.id # t.id
    BY <1>1 DEF TrackerInv, OwnIds
  <2>5. Tracked' = {v.id : v \in vitals'}
    BY <1>2 DEF Tracked
  <2> QED
    BY <1>2, <2>2, <2>3, <2>4, <2>5 DEF TrackerInv, EachOnce, Tracked
<1>12. ViewsNoted' /\ SaysWhere'
  BY <1>2, <1>7 DEF ViewsNoted, ViewsOf, SaysWhere
<1> QED
  BY <1>1, <1>8, <1>9, <1>10, <1>11, <1>12 DEF TrackerInv

\* When the profiler stops, all is forgotten.
LEMMA ResetInv ==
  ASSUME TrackerInv, Reset
  PROVE  TrackerInv' /\ vitals' = {} /\ UNCHANGED recorded
<1>1. /\ vitals' = {} /\ tasks' = {} /\ views' = {} /\ context' = NoContext /\ seen' = {}
      /\ gone' = gone \union {v.id : v \in vitals} \union {t.id : t \in tasks}
      /\ UNCHANGED << recorded, reported >>
  BY DEF Reset
<1>2. TrackerType'
  <2>1. {v.id : v \in vitals} \subseteq Nat /\ {t.id : t \in tasks} \subseteq Nat
    BY DEF TrackerInv, TrackerType, Vital, LongTask
  <2> QED
    BY <1>1, <2>1 DEF TrackerInv, TrackerType
<1>3. Finite' /\ Bounded'
  BY <1>1, FS_EmptySet, TrackerAssumption DEF Finite, Bounded
<1>4. EachOnce'
  <2>1. Tracked' = {}
    BY <1>1 DEF Tracked
  <2> QED
    BY <1>1, <2>1 DEF TrackerInv, EachOnce, Tracked
<1>5. OwnIds' /\ OneRun' /\ ViewsNoted' /\ SaysWhere'
  BY <1>1 DEF OwnIds, OneRun, ViewsNoted, ViewsOf, SaysWhere
<1> QED
  BY <1>1, <1>2, <1>3, <1>4, <1>5 DEF TrackerInv

-----------------------------------------------------------------------------
(***************************************************************************)
(* The feature and the Core.                                               *)
(***************************************************************************)
CoreType ==
  /\ phase \in Phase /\ bus \in Seq(Message) /\ tracking \in Consent
  /\ consent \in Consent /\ told \in Consent
  /\ running \in BOOLEAN /\ failed \in BOOLEAN
  /\ clock \in Nat
  /\ used \in [starts : Nat, updates : Nat, events : Nat]

IsEvent(m) == m.type # "context"

\* Events are numbered as they are announced, and those on the bus are yet to be recorded.
Fresh ==
  /\ \A id \in recorded : id < used.events
  /\ \A i \in 1 .. Len(bus) : IsEvent(bus[i]) => bus[i].id < used.events /\ bus[i].id \notin recorded
  /\ \A i, j \in 1 .. Len(bus) : IsEvent(bus[i]) /\ IsEvent(bus[j]) /\ bus[i].id = bus[j].id => i = j

\* The consent after a message: it says so itself, or it was generated under it.
Said(m) == IF m.type = "context" THEN m.consent ELSE m.under

\* From the consent told last, along the bus, to the consent of the CoreContext:
\* events change nothing.
Chain ==
  /\ \A i \in 1 .. Len(bus) :
       IsEvent(bus[i]) => bus[i].under = IF i = 1 THEN told ELSE Said(bus[i - 1])
  /\ phase # "off" => tracking = IF bus = << >> THEN told ELSE Said(bus[Len(bus)])

\* What the feature knows of the consent, and what it has made of it.
Lifecycle ==
  /\ phase = "off" => bus = << >> /\ consent = "pending"
  /\ phase # "off" => consent = told
  /\ running => consent = "granted"
  /\ consent = "granted" => running \/ failed

\* The inductive invariant.
IInv == TrackerInv /\ CoreType /\ NothingOutlives /\ Fresh /\ Chain /\ Lifecycle

\* The Core is off, nothing has been announced.
LEMMA InitInv == Init => IInv
<1> SUFFICES ASSUME Init PROVE IInv
  OBVIOUS
<1>1. TrackerInv
  BY InitTracker DEF Init
<1>2. CoreType
  <2>1. bus \in Seq(Message) /\ used \in [starts : Nat, updates : Nat, events : Nat] /\ clock \in Nat
    BY DEF Init
  <2>2. phase \in Phase /\ tracking \in Consent /\ consent \in Consent /\ told \in Consent
    BY DEF Init, Consent, Phase
  <2>3. running \in BOOLEAN /\ failed \in BOOLEAN
    BY DEF Init
  <2> QED
    BY <2>1, <2>2, <2>3 DEF CoreType
<1>3. NothingOutlives /\ Lifecycle
  BY DEF Init, TrackerInit, NothingOutlives, tracker, Lifecycle
<1>4. Fresh /\ Chain
  BY DEF Init, TrackerInit, Fresh, Chain
<1> QED
  BY <1>1, <1>2, <1>3, <1>4 DEF IInv

\* The profiler runs only if it should, and does if it should and can; what the
\* tracker holds stays in order, and does not outlive the profiler.
LEMMA BackendFacts ==
  ASSUME TrackerInv, NothingOutlives, CoreType, NEW scope \in BOOLEAN, NEW c \in Consent,
         UpdateBackendState(scope, c)
  PROVE  /\ TrackerInv' /\ NothingOutlives' /\ recorded' = recorded
         /\ running' \in BOOLEAN /\ failed' \in BOOLEAN
         /\ running' => scope /\ c = "granted"
         /\ scope /\ c = "granted" => running' \/ failed'
<1> DEFINE should == scope /\ c = "granted"
<1>1. CASE UNCHANGED << tracker, books >>
  <2>1. TrackerInv' /\ recorded' = recorded
    BY <1>1 DEF tracker, books, TrackerInv, TrackerType, Finite, OwnIds, EachOnce, Tracked, OneRun,
                Bounded, ViewsNoted, ViewsOf, SaysWhere
  <2>2. CASE should /\ ~running /\ running' \in BOOLEAN /\ failed' = ~running'
    BY <1>1, <2>1, <2>2 DEF NothingOutlives
  <2>3. CASE (should <=> running) /\ UNCHANGED << running, failed >>
    BY <1>1, <2>1, <2>3 DEF NothingOutlives, CoreType
  <2>4. CASE ~should /\ running /\ running' = FALSE /\ Reset /\ UNCHANGED failed
    <3>1. TrackerInv'
      BY <2>1
    <3>2. tracker' = << {}, {}, {}, NoContext >>
      BY <2>4 DEF Reset, tracker
    <3> QED
      BY <2>1, <2>4, <3>2 DEF NothingOutlives, CoreType
  <2> QED
    BY <2>2, <2>3, <2>4 DEF UpdateBackendState
<1>2. CASE ~should /\ running /\ running' = FALSE /\ Reset /\ UNCHANGED failed
  <2>1. TrackerInv' /\ UNCHANGED recorded
    BY <1>2, ResetInv
  <2>2. tracker' = << {}, {}, {}, NoContext >>
    BY <1>2 DEF Reset, tracker
  <2> QED
    BY <1>2, <2>1, <2>2 DEF NothingOutlives, CoreType
<1> QED
  BY <1>1, <1>2 DEF UpdateBackendState

\* Core::Start(): what an earlier run said is forgotten, and told again.
LEMMA StartInv ==
  ASSUME IInv, Start
  PROVE  IInv'
<1>1. /\ phase = "off" /\ phase' = "on" /\ bus' = << ContextChanged(tracking) >> /\ told' = "pending"
      /\ used' = [used EXCEPT !.starts = @ + 1]
      /\ UpdateBackendState(TRUE, consent)
      /\ UNCHANGED << tracking, consent, clock >>
  BY DEF Start
<1>2. consent = "pending" /\ consent \in Consent
  BY <1>1 DEF IInv, Lifecycle, CoreType
<1>3. /\ TrackerInv' /\ NothingOutlives' /\ recorded' = recorded
      /\ running' \in BOOLEAN /\ failed' \in BOOLEAN
      /\ running' => consent = "granted"
  BY <1>1, <1>2, BackendFacts DEF IInv
<1>4. ContextChanged(tracking) \in Message
  BY DEF IInv, CoreType, ContextChanged, Message, ContextMessage
<1>5. CoreType'
  <2>1. bus' \in Seq(Message)
    BY <1>1, <1>4
  <2>2. used' \in [starts : Nat, updates : Nat, events : Nat] /\ used'.events = used.events
    BY <1>1 DEF IInv, CoreType
  <2> QED
    BY <1>1, <1>3, <2>1, <2>2 DEF IInv, CoreType, Phase, Consent
<1>6. Len(bus') = 1 /\ bus'[1] = ContextChanged(tracking) /\ bus' # << >>
  BY <1>1
<1>7. ~IsEvent(ContextChanged(tracking)) /\ Said(ContextChanged(tracking)) = tracking
  BY DEF IsEvent, ContextChanged, Said
<1>8. Fresh'
  <2>1. used'.events = used.events
    BY <1>1 DEF IInv, CoreType
  <2>2. \A i \in 1 .. Len(bus') : ~IsEvent(bus'[i])
    BY <1>6, <1>7
  <2> QED
    BY <1>3, <2>1, <2>2 DEF IInv, Fresh, IsEvent
<1>9. Chain'
  <2>1. \A i \in 1 .. Len(bus') : ~IsEvent(bus'[i])
    BY <1>6, <1>7
  <2>2. tracking' = Said(bus'[Len(bus')])
    BY <1>1, <1>6, <1>7
  <2> QED
    BY <1>6, <2>1, <2>2 DEF Chain, IsEvent, Said
<1>10. Lifecycle'
  BY <1>1, <1>2, <1>3 DEF Lifecycle
<1> QED
  BY <1>3, <1>5, <1>8, <1>9, <1>10 DEF IInv

\* Core::Stop(), once the bus is drained.
LEMMA StopInv ==
  ASSUME IInv, Stop
  PROVE  IInv'
<1>1. /\ bus = << >> /\ phase' = "off" /\ consent' = "pending"
      /\ UpdateBackendState(TRUE, consent')
      /\ UNCHANGED << bus, tracking, told, clock, used >>
  BY DEF Stop
<1>2. consent' \in Consent
  BY <1>1 DEF Consent
<1>3. /\ TrackerInv' /\ NothingOutlives' /\ recorded' = recorded
      /\ running' \in BOOLEAN /\ failed' \in BOOLEAN
      /\ running' => consent' = "granted"
  BY <1>1, <1>2, BackendFacts DEF IInv
<1>4. CoreType' /\ Lifecycle'
  BY <1>1, <1>2, <1>3 DEF IInv, CoreType, Phase, Lifecycle
<1>5. Fresh' /\ Chain'
  BY <1>1, <1>3 DEF IInv, Fresh, Chain, IsEvent, Said
<1> QED
  BY <1>3, <1>4, <1>5 DEF IInv

\* A message is put on the bus: what is on it already stays as it is.
LEMMA BusGrows ==
  ASSUME CoreType, NEW m \in Message, bus' = Append(bus, m)
  PROVE  /\ bus' \in Seq(Message) /\ bus' # << >> /\ Len(bus') = Len(bus) + 1
         /\ bus'[Len(bus')] = m
         /\ \A i \in 1 .. Len(bus) : bus'[i] = bus[i]
BY DEF CoreType

\* CoreContextProvider::Update() says on the bus what it has done.
LEMMA UpdateContextInv ==
  ASSUME IInv, NEW c \in Consent, UpdateContext(c)
  PROVE  IInv'
<1>1. /\ phase # "stopping" /\ tracking' = c
      /\ bus' = IF phase = "on" THEN Append(bus, ContextChanged(c)) ELSE bus
      /\ used' = [used EXCEPT !.updates = @ + 1]
      /\ UNCHANGED << tracker, books, phase, consent, running, told, failed, clock >>
  BY DEF UpdateContext
<1>2. TrackerInv' /\ recorded' = recorded /\ NothingOutlives'
  BY <1>1 DEF IInv, tracker, books, TrackerInv, TrackerType, Finite, OwnIds, EachOnce, Tracked, OneRun,
              Bounded, ViewsNoted, ViewsOf, SaysWhere, NothingOutlives
<1>3. used' \in [starts : Nat, updates : Nat, events : Nat] /\ used'.events = used.events
  BY <1>1 DEF IInv, CoreType
<1> DEFINE m == ContextChanged(c)
<1>4. m \in Message /\ ~IsEvent(m) /\ Said(m) = c
  BY DEF ContextChanged, Message, ContextMessage, IsEvent, Said
<1>5. CASE phase = "on"
  <2> HIDE DEF m
  <2>1. bus' = Append(bus, m)
    BY <1>1, <1>5 DEF m
  <2>2. /\ bus' \in Seq(Message) /\ bus' # << >> /\ Len(bus') = Len(bus) + 1
        /\ bus'[Len(bus')] = m /\ Len(bus) \in Nat
        /\ \A i \in 1 .. Len(bus) : bus'[i] = bus[i]
    BY <1>4, <2>1, BusGrows DEF IInv, CoreType
  <2>3. \A i \in 1 .. Len(bus') : IsEvent(bus'[i]) => i \in 1 .. Len(bus) /\ bus'[i] = bus[i]
    BY <1>4, <2>2
  <2>4. CoreType' /\ Lifecycle'
    BY <1>1, <1>3, <1>5, <2>2 DEF IInv, CoreType, Lifecycle
  <2>5. Fresh'
    <3>1. \A i \in 1 .. Len(bus') :
            IsEvent(bus'[i]) => bus'[i].id < used'.events /\ bus'[i].id \notin recorded'
      BY <1>2, <1>3, <2>3 DEF IInv, Fresh
    <3>2. \A i, j \in 1 .. Len(bus') :
            IsEvent(bus'[i]) /\ IsEvent(bus'[j]) /\ bus'[i].id = bus'[j].id => i = j
      BY <2>3 DEF IInv, Fresh
    <3>3. \A id \in recorded' : id < used'.events
      BY <1>2, <1>3 DEF IInv, Fresh
    <3> QED
      BY <3>1, <3>2, <3>3 DEF Fresh, IsEvent
  <2>6. Chain'
    <3>1. \A i \in 2 .. Len(bus) : bus'[i - 1] = bus[i - 1]
      BY <2>2
    <3>2. \A i \in 1 .. Len(bus') :
            IsEvent(bus'[i]) => bus'[i].under = IF i = 1 THEN told' ELSE Said(bus'[i - 1])
      BY <1>1, <2>2, <2>3, <3>1 DEF IInv, Chain
    <3>3. tracking' = Said(bus'[Len(bus')])
      BY <1>1, <1>4, <2>2
    <3> QED
      BY <2>2, <3>2, <3>3 DEF Chain, IsEvent, Said
  <2> QED
    BY <1>2, <2>4, <2>5, <2>6 DEF IInv
<1>6. CASE phase = "off"
  <2>1. bus' = bus /\ bus = << >>
    BY <1>1, <1>6 DEF IInv, Lifecycle
  <2>2. CoreType' /\ Lifecycle'
    BY <1>1, <1>3, <1>6, <2>1 DEF IInv, CoreType, Lifecycle
  <2>3. Fresh' /\ Chain'
    BY <1>1, <1>2, <1>3, <1>6, <2>1 DEF IInv, Fresh, Chain, IsEvent, Said
  <2> QED
    BY <1>2, <2>2, <2>3 DEF IInv
<1> QED
  BY <1>1, <1>5, <1>6 DEF IInv, CoreType, Phase

\* RUM announces an event, under the consent of the CoreContext.
LEMMA AnnounceInv ==
  ASSUME IInv, NEW m \in VitalMessage \union TaskMessage,
         m.id = used.events, m.under = tracking, Announce(m)
  PROVE  IInv'
<1>1. /\ phase = "on" /\ bus' = Append(bus, m)
      /\ used' = [used EXCEPT !.events = @ + 1]
      /\ UNCHANGED << tracker, books, phase, tracking, consent, running, told, failed, clock >>
  BY DEF Announce
<1>2. TrackerInv' /\ recorded' = recorded /\ NothingOutlives'
  BY <1>1 DEF IInv, tracker, books, TrackerInv, TrackerType, Finite, OwnIds, EachOnce, Tracked, OneRun,
              Bounded, ViewsNoted, ViewsOf, SaysWhere, NothingOutlives
<1>3. /\ used' \in [starts : Nat, updates : Nat, events : Nat]
      /\ used'.events = used.events + 1 /\ used.events \in Nat
  BY <1>1 DEF IInv, CoreType
<1>4. m \in Message /\ IsEvent(m) /\ Said(m) = tracking
  BY DEF Message, VitalMessage, TaskMessage, IsEvent, Said
<1>5. /\ bus' \in Seq(Message) /\ bus' # << >> /\ Len(bus') = Len(bus) + 1
      /\ bus'[Len(bus')] = m /\ Len(bus) \in Nat
      /\ \A i \in 1 .. Len(bus) : bus'[i] = bus[i]
  BY <1>1, <1>4, BusGrows DEF IInv, CoreType
<1>6. CoreType' /\ Lifecycle'
  BY <1>1, <1>3, <1>5 DEF IInv, CoreType, Lifecycle
<1>7. recorded \subseteq Nat
  BY DEF IInv, TrackerInv, TrackerType
<1>8. \A i \in 1 .. Len(bus) : IsEvent(bus[i]) => bus[i].id \in Nat
  BY DEF IInv, CoreType, Message, ContextMessage, VitalMessage, TaskMessage, IsEvent
<1>9. Fresh'
  <2>1. \A id \in recorded' : id < used'.events
    <3>1. \A id \in recorded : id \in Nat /\ id < used.events
      BY <1>7 DEF IInv, Fresh
    <3> QED
      BY <1>2, <1>3, <3>1
  <2>2. \A i \in 1 .. Len(bus') : i \in 1 .. Len(bus) \/ (bus'[i] = m /\ i = Len(bus'))
    <3>1. \A i \in 1 .. Len(bus') : i \in 1 .. Len(bus) \/ i = Len(bus')
      BY <1>5
    <3> QED
      BY <1>5, <3>1
  <2>3. m.id \notin recorded
    BY <1>3, <1>7 DEF IInv, Fresh
  <2>4. \A i \in 1 .. Len(bus) : IsEvent(bus[i]) => bus[i].id < used.events
    BY DEF IInv, Fresh
  <2>5. \A i \in 1 .. Len(bus') :
          IsEvent(bus'[i]) => bus'[i].id < used'.events /\ bus'[i].id \notin recorded'
    BY <1>2, <1>3, <1>5, <1>8, <2>2, <2>3, <2>4 DEF IInv, Fresh
  <2>6. \A i, j \in 1 .. Len(bus') :
          IsEvent(bus'[i]) /\ IsEvent(bus'[j]) /\ bus'[i].id = bus'[j].id => i = j
    BY <1>3, <1>5, <1>8, <2>2, <2>4 DEF IInv, Fresh
  <2> QED
    BY <2>1, <2>5, <2>6 DEF Fresh, IsEvent
<1>10. Chain'
  <2>1. \A i \in 2 .. Len(bus') : bus'[i - 1] = bus[i - 1]
    BY <1>5
  <2>2. m.under = IF bus = << >> THEN told ELSE Said(bus[Len(bus)])
    BY <1>1 DEF IInv, Chain
  <2>3. bus = << >> <=> Len(bus) = 0
    BY DEF IInv, CoreType
  <2>4. \A i \in 1 .. Len(bus') :
          IsEvent(bus'[i]) => bus'[i].under = IF i = 1 THEN told' ELSE Said(bus'[i - 1])
    <3> SUFFICES ASSUME NEW i \in 1 .. Len(bus'), IsEvent(bus'[i])
                 PROVE  bus'[i].under = IF i = 1 THEN told' ELSE Said(bus'[i - 1])
      OBVIOUS
    <3>1. CASE i \in 1 .. Len(bus)
      BY <1>1, <1>5, <2>1, <3>1 DEF IInv, Chain
    <3>2. CASE i = Len(bus')
      BY <1>1, <1>5, <2>1, <2>2, <2>3, <3>2
    <3> QED
      BY <1>5, <3>1, <3>2
  <2>5. tracking' = Said(bus'[Len(bus')])
    BY <1>1, <1>4, <1>5
  <2> QED
    BY <1>5, <2>4, <2>5 DEF Chain, IsEvent, Said
<1> QED
  BY <1>2, <1>6, <1>9, <1>10 DEF IInv

\* A sequence is empty if its length is zero.
LEMMA EmptyLength ==
  ASSUME NEW S, NEW q \in Seq(S)
  PROVE  q = << >> <=> Len(q) = 0
OBVIOUS

\* What the messaging thread has not delivered yet moves up by one.
LEMMA BusShrinks ==
  ASSUME CoreType, bus # << >>, bus' = Tail(bus)
  PROVE  /\ Head(bus) \in Message /\ Head(bus) = bus[1] /\ 1 \in 1 .. Len(bus)
         /\ bus' \in Seq(Message) /\ Len(bus') = Len(bus) - 1 /\ Len(bus) \in Nat
         /\ \A i \in 1 .. Len(bus') : i + 1 \in 1 .. Len(bus) /\ bus'[i] = bus[i + 1]
         /\ bus' = << >> <=> Len(bus) = 1
<1>1. bus \in Seq(Message) /\ Len(bus) \in Nat /\ Len(bus) > 0
  BY DEF CoreType
<1>2. bus' \in Seq(Message) /\ Len(bus') = Len(bus) - 1
  BY <1>1
<1>3. \A i \in 1 .. Len(bus') : i + 1 \in 1 .. Len(bus) /\ bus'[i] = bus[i + 1]
  BY <1>1, <1>2
<1>4. Head(bus) \in Message /\ Head(bus) = bus[1] /\ 1 \in 1 .. Len(bus)
  BY <1>1
<1>5. bus' = << >> <=> Len(bus) = 1
  <2>1. bus' = << >> <=> Len(bus') = 0
    BY <1>2, EmptyLength
  <2> QED
    BY <1>1, <1>2, <2>1
<1> QED
  BY <1>1, <1>2, <1>3, <1>4, <1>5

\* The handler of the feature, on the messaging thread.
LEMMA DeliverInv ==
  ASSUME IInv, Deliver
  PROVE  IInv'
<1> DEFINE m == Head(bus)
<1>1. /\ bus # << >> /\ bus' = Tail(bus) /\ UNCHANGED core
      /\ \/ m.type = "context" /\ OnTrackingConsentChanged(m.consent) /\ told' = m.consent
         \/ m.type # "context" /\ OnRumEvent(m)
  BY DEF Deliver
<1>2. /\ m \in Message /\ m = bus[1] /\ 1 \in 1 .. Len(bus)
      /\ bus' \in Seq(Message) /\ Len(bus') = Len(bus) - 1 /\ Len(bus) \in Nat
      /\ \A i \in 1 .. Len(bus') : i + 1 \in 1 .. Len(bus) /\ bus'[i] = bus[i + 1]
      /\ bus' = << >> <=> Len(bus) = 1
  BY <1>1, BusShrinks DEF IInv
<1> HIDE DEF m
<1>3. phase # "off" /\ consent = told /\ UNCHANGED << phase, tracking, clock, used >>
  BY <1>1 DEF IInv, Lifecycle, core
<1>4. ASSUME told' = Said(m)
      PROVE  Chain'
  <2>1. \A i \in 1 .. Len(bus') : i # 1 => i - 1 \in 1 .. Len(bus') /\ bus'[i - 1] = bus[i]
    BY <1>2
  <2>2. \A i \in 1 .. Len(bus') :
          IsEvent(bus'[i]) => bus'[i].under = IF i = 1 THEN told' ELSE Said(bus'[i - 1])
    <3> SUFFICES ASSUME NEW i \in 1 .. Len(bus'), IsEvent(bus'[i])
                 PROVE  bus'[i].under = IF i = 1 THEN told' ELSE Said(bus'[i - 1])
      OBVIOUS
    <3>1. bus'[i].under = Said(bus[i])
      <4>1. /\ i + 1 \in 1 .. Len(bus) /\ i + 1 # 1 /\ (i + 1) - 1 = i
            /\ bus'[i] = bus[i + 1] /\ IsEvent(bus[i + 1])
        BY <1>2
      <4>2. bus[i + 1].under = IF i + 1 = 1 THEN told ELSE Said(bus[(i + 1) - 1])
        BY <4>1 DEF IInv, Chain
      <4> QED
        BY <4>1, <4>2
    <3> QED
      BY <1>2, <1>4, <2>1, <3>1
  <2>3. tracking' = IF bus' = << >> THEN told' ELSE Said(bus'[Len(bus')])
    <3>1. tracking' = Said(bus[Len(bus)])
      BY <1>1, <1>3 DEF IInv, Chain
    <3>2. CASE bus' = << >>
      BY <1>2, <1>4, <3>1, <3>2
    <3>3. CASE bus' # << >>
      <4>1. Len(bus') \in 1 .. Len(bus') /\ Len(bus') + 1 = Len(bus)
        BY <1>2, <3>3
      <4>2. bus'[Len(bus')] = bus[Len(bus)]
        BY <1>2, <4>1
      <4> QED
        BY <3>1, <3>3, <4>2
    <3> QED
      BY <3>2, <3>3
  <2> QED
    BY <2>2, <2>3 DEF Chain, IsEvent, Said
<1>5. ASSUME \A id \in recorded' : id \in recorded \/ (IsEvent(m) /\ id = m.id)
      PROVE  Fresh'
  <2>1. \A id \in recorded' : id < used'.events
    BY <1>2, <1>3, <1>5 DEF IInv, Fresh
  <2>2. \A i \in 1 .. Len(bus') : IsEvent(bus'[i]) =>
          bus'[i].id < used'.events /\ bus'[i].id \notin recorded /\ (IsEvent(m) => bus'[i].id # m.id)
    <3> SUFFICES ASSUME NEW i \in 1 .. Len(bus'), IsEvent(bus'[i])
                 PROVE  /\ bus'[i].id < used'.events /\ bus'[i].id \notin recorded
                        /\ IsEvent(m) => bus'[i].id # m.id
      OBVIOUS
    <3>1. i + 1 \in 1 .. Len(bus) /\ i + 1 # 1 /\ bus'[i] = bus[i + 1]
      BY <1>2
    <3> QED
      BY <1>2, <1>3, <3>1 DEF IInv, Fresh
  <2>3. \A i, j \in 1 .. Len(bus') :
          IsEvent(bus'[i]) /\ IsEvent(bus'[j]) /\ bus'[i].id = bus'[j].id => i = j
    <3> SUFFICES ASSUME NEW i \in 1 .. Len(bus'), NEW j \in 1 .. Len(bus'),
                        IsEvent(bus'[i]), IsEvent(bus'[j]), bus'[i].id = bus'[j].id
                 PROVE  i = j
      OBVIOUS
    <3>1. /\ i + 1 \in 1 .. Len(bus) /\ bus'[i] = bus[i + 1]
          /\ j + 1 \in 1 .. Len(bus) /\ bus'[j] = bus[j + 1]
      BY <1>2
    <3>2. i + 1 = j + 1
      BY <3>1 DEF IInv, Fresh
    <3> QED
      BY <3>2
  <2>4. \A i \in 1 .. Len(bus') :
          IsEvent(bus'[i]) => bus'[i].id < used'.events /\ bus'[i].id \notin recorded'
    BY <1>5, <2>2
  <2> QED
    BY <2>1, <2>3, <2>4 DEF Fresh, IsEvent
<1>6. CASE m.type = "context" /\ OnTrackingConsentChanged(m.consent) /\ told' = m.consent
  <2>1. m.consent \in Consent /\ Said(m) = m.consent
    BY <1>2, <1>6 DEF Message, ContextMessage, VitalMessage, TaskMessage, Said
  <2>2. CASE m.consent = consent /\ UNCHANGED << tracker, books, consent, running, failed >>
    <3>1. TrackerInv' /\ recorded' = recorded /\ NothingOutlives'
      BY <2>2 DEF IInv, tracker, books, TrackerInv, TrackerType, Finite, OwnIds, EachOnce, Tracked,
                  OneRun, Bounded, ViewsNoted, ViewsOf, SaysWhere, NothingOutlives
    <3>2. CoreType' /\ Lifecycle'
      BY <1>2, <1>3, <1>6, <2>1, <2>2 DEF IInv, CoreType, Lifecycle
    <3>3. Chain'
      BY <1>4, <1>6, <2>1
    <3>4. Fresh'
      BY <1>5, <3>1
    <3> QED
      BY <3>1, <3>2, <3>3, <3>4 DEF IInv
  <2>3. CASE consent' = m.consent /\ UpdateBackendState(TRUE, m.consent)
    <3>1. /\ TrackerInv' /\ NothingOutlives' /\ recorded' = recorded
          /\ running' \in BOOLEAN /\ failed' \in BOOLEAN
          /\ running' => m.consent = "granted"
          /\ m.consent = "granted" => running' \/ failed'
      BY <2>1, <2>3, BackendFacts DEF IInv
    <3>2. CoreType' /\ Lifecycle'
      BY <1>2, <1>3, <1>6, <2>1, <2>3, <3>1 DEF IInv, CoreType, Lifecycle
    <3>3. Chain'
      BY <1>4, <1>6, <2>1
    <3>4. Fresh'
      BY <1>5, <3>1
    <3> QED
      BY <3>1, <3>2, <3>3, <3>4 DEF IInv
  <2> QED
    BY <1>6, <2>2, <2>3 DEF OnTrackingConsentChanged
<1>7. CASE m.type # "context" /\ OnRumEvent(m)
  <2>1. /\ m \in VitalMessage \/ m \in TaskMessage
        /\ IsEvent(m) /\ Said(m) = m.under
        /\ UNCHANGED << consent, running, failed, told >>
    BY <1>2, <1>7 DEF Message, ContextMessage, IsEvent, Said, OnRumEvent
  <2>2. m.under = told /\ m.id \notin recorded
    BY <1>2, <2>1 DEF IInv, Chain, Fresh
  <2>3. CoreType' /\ Lifecycle'
    BY <1>2, <1>3, <2>1 DEF IInv, CoreType, Lifecycle
  <2>4. /\ TrackerInv' /\ NothingOutlives'
        /\ \A id \in recorded' : id \in recorded \/ id = m.id
    <3>1. CASE UNCHANGED << tracker, books >>
      BY <2>1, <3>1 DEF IInv, tracker, books, TrackerInv, TrackerType, Finite, OwnIds, EachOnce, Tracked,
                        OneRun, Bounded, ViewsNoted, ViewsOf, SaysWhere, NothingOutlives
    <3>2. CASE running /\ m.type = "vital" /\ OnVital(m)
      <4>1. m \in VitalMessage
        BY <2>1, <3>2 DEF TaskMessage
      <4>2. CASE EndOperation(m)
        BY <2>1, <3>2, <4>1, <4>2, EndOperationInv DEF IInv, NothingOutlives, EndOperation
      <4>3. CASE StartVital(m)
        BY <2>1, <2>2, <3>2, <4>1, <4>3, StartVitalInv DEF IInv, NothingOutlives, StartVital
      <4>4. CASE IgnoreVital(m)
        BY <3>1, <4>4 DEF IgnoreVital
      <4> QED
        BY <3>2, <4>2, <4>3, <4>4 DEF OnVital
    <3>3. CASE running /\ m.type = "long_task" /\ OnLongTask(m)
      <4>1. m \in TaskMessage
        BY <2>1, <3>3 DEF VitalMessage
      <4>2. TrackerInv'
        BY <2>2, <4>1, <3>3, LongTaskInv DEF IInv
      <4>3. \A id \in recorded' : id \in recorded \/ id = m.id
        BY <3>3 DEF OnLongTask, books
      <4> QED
        BY <2>1, <3>3, <4>2, <4>3 DEF NothingOutlives
    <3> QED
      BY <1>7, <3>1, <3>2, <3>3 DEF OnRumEvent
  <2>5. Chain'
    BY <1>4, <2>1, <2>2
  <2>6. Fresh'
    BY <1>5, <2>1, <2>4
  <2> QED
    BY <2>3, <2>4, <2>5, <2>6 DEF IInv
<1> QED
  BY <1>1, <1>6, <1>7

\* A profile is exported, whatever the feature is doing.
LEMMA BuildMetadataInv ==
  ASSUME IInv, BuildMetadata
  PROVE  IInv'
<1>1. TakeSnapshot(clock) /\ UNCHANGED << core, bus, consent, running, told, failed >>
  BY DEF BuildMetadata
<1>2. used.events \in Nat /\ \A v \in vitals : v.id < used.events
  BY DEF IInv, CoreType, Fresh, TrackerInv, EachOnce, Tracked
<1>3. TrackerInv' /\ vitals' \subseteq vitals
  BY <1>1, <1>2, TakeSnapshotInv DEF IInv
<1>4. CoreType' /\ Lifecycle'
  BY <1>1 DEF IInv, CoreType, Lifecycle, core
<1>5. Fresh' /\ Chain'
  BY <1>1 DEF IInv, Fresh, Chain, core, TakeSnapshot, IsEvent, Said
<1>6. NothingOutlives'
  <2> SUFFICES ASSUME ~running' PROVE tracker' = << {}, {}, {}, NoContext >>
    BY DEF NothingOutlives
  <2>1. vitals = {}
    BY <1>1 DEF IInv, NothingOutlives, tracker
  <2>2. vitals' = {} /\ tasks' = {} /\ context' = NoContext /\ views' \in NoteViews({}, ContextsOf({}))
    BY <1>1, <1>3, <2>1 DEF TakeSnapshot, KeptContext
  <2>3. views' = {}
    BY <2>2 DEF NoteViews, ViewsOf, ContextsOf
  <2> QED
    BY <2>2, <2>3 DEF tracker
<1> QED
  BY <1>3, <1>4, <1>5, <1>6 DEF IInv

\* Nothing of this happens when time passes or the queues are drained, or in between.
LEMMA OtherInv ==
  ASSUME IInv, StopQueues \/ Tick \/ UNCHANGED vars
  PROVE  IInv'
<1>1. /\ UNCHANGED << tracker, books, bus, tracking, consent, running, told, failed, used >>
      /\ phase' = phase \/ (phase = "on" /\ phase' = "stopping")
      /\ clock' \in Nat
  BY DEF StopQueues, Tick, vars, core, IInv, CoreType
<1>2. TrackerInv' /\ NothingOutlives'
  BY <1>1 DEF IInv, tracker, books, TrackerInv, TrackerType, Finite, OwnIds, EachOnce, Tracked, OneRun,
              Bounded, ViewsNoted, ViewsOf, SaysWhere, NothingOutlives
<1>3. CoreType' /\ Lifecycle'
  BY <1>1 DEF IInv, CoreType, Phase, Lifecycle
<1>4. Fresh' /\ Chain'
  BY <1>1 DEF IInv, Fresh, Chain, books, IsEvent, Said
<1> QED
  BY <1>2, <1>3, <1>4 DEF IInv

\* Every step keeps the invariant.
LEMMA NextInv ==
  ASSUME IInv, [Next]_vars
  PROVE  IInv'
<1>1. CASE Start \/ Stop
  BY <1>1, StartInv, StopInv
<1>2. CASE StopQueues \/ Tick \/ UNCHANGED vars
  BY <1>2, OtherInv
<1>3. CASE Deliver \/ BuildMetadata
  BY <1>3, DeliverInv, BuildMetadataInv
<1>4. ASSUME NEW c \in Consent, UpdateContext(c)
      PROVE  IInv'
  BY <1>4, UpdateContextInv
<1>5. used.events \in Nat /\ clock \in Nat /\ tracking \in Consent
  BY DEF IInv, CoreType
<1>6. ASSUME NEW n \in Name, NEW s \in Step, NEW c \in Occurrence, SendVitalEvent(n, s, c)
      PROVE  IInv'
  <2> DEFINE m == [type |-> "vital", id |-> used.events, name |-> n, step |-> s, time |-> clock,
                   context |-> c, under |-> tracking]
  <2>1. m \in VitalMessage /\ m.id = used.events /\ m.under = tracking
    BY <1>5, OccurrenceAssumption DEF VitalMessage
  <2>2. Announce(m)
    BY <1>6 DEF SendVitalEvent
  <2> HIDE DEF m
  <2> QED
    BY <2>1, <2>2, AnnounceInv
<1>7. ASSUME NEW c \in Occurrence, SendLongTaskEvent(c)
      PROVE  IInv'
  <2> DEFINE m == [type |-> "long_task", id |-> used.events, context |-> c, under |-> tracking]
  <2>1. m \in TaskMessage /\ m.id = used.events /\ m.under = tracking
    BY <1>5, OccurrenceAssumption DEF TaskMessage
  <2>2. Announce(m)
    BY <1>7 DEF SendLongTaskEvent
  <2> HIDE DEF m
  <2> QED
    BY <2>1, <2>2, AnnounceInv
<1> QED
  BY <1>1, <1>2, <1>3, <1>4, <1>6, <1>7 DEF Next

-----------------------------------------------------------------------------
\* The invariant holds of every behaviour of the feature under its Core.
THEOREM Invariant == Spec => []IInv
BY InitInv, NextInv, PTL DEF Spec

\* The profiler does not run on what an earlier run of the Core said, nothing
\* that was recorded outlives it, an operation waits for its end once, and no
\* vector outgrows kMaxEventsPerKind.
THEOREM ProfilerInOrder == Spec => []Orderly
<1>1. IInv => Orderly
  <2> SUFFICES ASSUME IInv PROVE Orderly
    OBVIOUS
  <2>1. TypeOK
    BY DEF IInv, TrackerInv, TrackerType, CoreType, TypeOK
  <2>2. ToldFirst
    BY DEF IInv, Lifecycle, ToldFirst
  <2> QED
    BY <2>1, <2>2 DEF IInv, TrackerInv, Orderly
<1> QED
  BY <1>1, Invariant, PTL

\* Once the messages are delivered the profiler runs under consent, and only then.
THEOREM ProfilerAgrees == Spec => []AgreeAtRest
<1>1. IInv => AgreeAtRest
  BY DEF IInv, Chain, Lifecycle, AgreeAtRest
<1> QED
  BY <1>1, Invariant, PTL

\* What decides whether an event is recorded is the consent it was generated
\* under, however many changes of the consent overtake each other on the bus.
THEOREM ConsentOfTheMoment == Spec => []RecordsUnderConsent
<1>1. IInv => RecordsUnderConsent
  <2> SUFFICES ASSUME IInv, bus # << >>, Head(bus).type # "context"
               PROVE  /\ running => Head(bus).under = "granted"
                      /\ Head(bus).under = "granted" => running \/ failed
    BY DEF RecordsUnderConsent
  <2>1. 1 \in 1 .. Len(bus) /\ Head(bus) = bus[1]
    BY DEF IInv, CoreType
  <2>2. Head(bus).under = told /\ consent = told
    BY <2>1 DEF IInv, Chain, Lifecycle, IsEvent
  <2> QED
    BY <2>2 DEF IInv, Lifecycle
<1> QED
  BY <1>1, Invariant, PTL

\* Every event recorded is waiting, was handed over, or was removed: one of these.
THEOREM NothingLostOrTwice == Spec => []EachOnce
<1>1. IInv => EachOnce
  BY DEF IInv, TrackerInv
<1> QED
  BY <1>1, Invariant, PTL

\* The views of a snapshot are those of all that happened, and of its vitals.
LEMMA SnapshotCovers ==
  ASSUME TrackerInv
  PROVE  ViewsCover
<1> SUFFICES ASSUME NEW s \in SnapshotViews
             PROVE  \/ Cardinality(s) = MaxEventsPerKind
                    \/ ViewsOf(seen) \union ViewsOf(ContextsOf(vitals)) \subseteq s
  BY DEF ViewsCover
<1>1. /\ IsFiniteSet(s) /\ Cardinality(s) <= MaxEventsPerKind /\ views \subseteq s
      /\ s = views \union ViewsOf(ContextsOf(vitals)) \/ Cardinality(s) = MaxEventsPerKind
  BY NoteViewsFacts, ViewsAreFinite DEF SnapshotViews, TrackerInv, Finite
<1>2. CASE Cardinality(views) = MaxEventsPerKind
  <2>1. Cardinality(views) <= Cardinality(s) /\ Cardinality(s) \in Nat
    BY <1>1, FS_Subset, FS_CardinalityType
  <2> QED
    BY <1>1, <1>2, <2>1, TrackerAssumption
<1>3. CASE ViewsOf(seen) \subseteq views
  BY <1>1, <1>3
<1> QED
  BY <1>2, <1>3 DEF TrackerInv, ViewsNoted

\* Whatever step is taken, an operation that is recent and waits for its end goes on
\* waiting, unless it ends or is removed.
LEMMA RecentStay ==
  ASSUME IInv, [Next]_vars, NEW v \in vitals, IsPending(v), clock - v.start < Cutoff, v \notin vitals'
  PROVE  v.id \in gone' \/ [v EXCEPT !.ended = TRUE] \in vitals'
<1>1. CASE Reset
  BY <1>1 DEF Reset
<1>2. CASE BuildMetadata
  BY <1>2 DEF BuildMetadata, TakeSnapshot, Kept
<1>3. ASSUME NEW m, EndOperation(m) \/ StartVital(m)
      PROVE  v.id \in gone' \/ [v EXCEPT !.ended = TRUE] \in vitals'
  BY <1>3 DEF EndOperation, StartVital
<1>4. ASSUME UNCHANGED vitals
      PROVE  FALSE
  BY <1>4
<1>5. ASSUME NEW scope, NEW c, UpdateBackendState(scope, c)
      PROVE  Reset \/ UNCHANGED vitals
  BY <1>5 DEF UpdateBackendState, tracker
<1>6. CASE Deliver
  <2> DEFINE m == Head(bus)
  <2>1. CASE OnTrackingConsentChanged(m.consent)
    BY <1>1, <1>4, <1>5, <2>1 DEF OnTrackingConsentChanged, tracker
  <2>2. CASE OnRumEvent(m)
    <3>1. CASE OnVital(m)
      BY <1>3, <1>4, <3>1 DEF OnVital, IgnoreVital, tracker
    <3>2. CASE UNCHANGED vitals
      BY <1>4, <3>2
    <3> QED
      BY <2>2, <3>1, <3>2 DEF OnRumEvent, OnLongTask, tracker
  <2> QED
    BY <1>6, <2>1, <2>2 DEF Deliver
<1>7. CASE Start \/ Stop
  BY <1>1, <1>4, <1>5, <1>7 DEF Start, Stop
<1>8. CASE UNCHANGED vitals
  BY <1>4, <1>8
<1> QED
  BY <1>2, <1>6, <1>7, <1>8 DEF Next, StopQueues, Tick, UpdateContext, SendVitalEvent,
     SendLongTaskEvent, Announce, vars, tracker

\* What a snapshot hands over and keeps is complete.
THEOREM SnapshotsAreComplete == Spec => SnapshotComplete
<1>1. IInv => ViewsCover /\ SaysWhere
  BY SnapshotCovers DEF IInv, TrackerInv
<1>2. IInv /\ [Next]_vars =>
        [\A v \in vitals :
           IsPending(v) /\ clock - v.start < Cutoff /\ v \notin vitals' =>
             \/ v.id \in gone'
             \/ [v EXCEPT !.ended = TRUE] \in vitals']_vars
  BY RecentStay
<1> QED
  BY <1>1, <1>2, Invariant, PTL DEF SnapshotComplete, RecentKept, Spec

=============================================================================
