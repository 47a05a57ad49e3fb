----------------------------- MODULE Rum_proofs ------------------------------
(***************************************************************************)
(* Proofs about RUM: the scopes of RumScopes with their views, and what a  *)
(* crash finds of them (RumCrashes); and the attributes that RUM's         *)
(* commands and events carry (CowAttributes).                              *)
(*                                                                         *)
(* Scopes are records that functions of a command transform, so the proof  *)
(* goes up from them: what a view makes of a command (ViewStep), what its  *)
(* session makes of the views in all slots and of what they wrote          *)
(* (PropagateAnswers, InSession, CloseCloses), what becomes of the         *)
(* sessions (AppCases), and what a call comes to (CallComes).  RumInv is   *)
(* kept by each of the four outcomes, and the properties follow.  The      *)
(* proofs about attributes are the last part.                              *)
(***************************************************************************)
EXTENDS RumCrashes, CowAttributes, SequenceTheorems, WellFoundedInduction,
        NaturalsInduction, FiniteSetTheorems, TLAPS

(* Views. *)

Id == Nat \X Nat

Action == [n : Nat \ {0}, left : Nat, waiting : Nat, resources : Nat, errors : Nat,
           longTasks : Nat]

View == [id : Id, key : ViewKeys, active : BOOLEAN, initialised : BOOLEAN,
         action : Action \union {NoAction}, opened : Nat, pending : SUBSET ResourceKeys,
         actions : Nat, errors : Nat, resources : Nat, longTasks : Nat, sent : Nat, age : Nat]

\* What a view writes besides its view events.
Detail ==
  [type : {"action"}, view : Id, action : Nat, resources : Nat, errors : Nat, longTasks : Nat]
    \union [type : {"error", "long_task"}, view : Id, action : Nat]
    \union [type : {"resource"}, view : Id]

Update ==
  [type : {"view"}, view : Id, key : ViewKeys, version : Nat, actions : Nat, errors : Nat,
   resources : Nat, longTasks : Nat, active : BOOLEAN, sessionActive : BOOLEAN]

Milestone ==
  [type : {"ttid", "ttfd"}, session : Nat, view : Id, duration : Nat]
    \union [type : {"operation"}, session : Nat, view : Id]

Event == Detail \union Update \union Milestone

Ops == {"StartView", "StopView", "AddAction", "AddCustomAction", "StartAction", "StopAction",
        "StartResource", "StopResource", "FailResource", "AddError", "AddLongTask",
        "StepOperation", "StopSession", "ReportAppDisplayInitialized", "ReportAppFullyDisplayed"}

\* The commands that the API can issue.
Cmds == {c \in [op : Ops, key : ViewKeys \union ResourceKeys \union {NoKey}, gap : Nat] :
           /\ c.op \in {"StartView", "StopView"} => c.key \in ViewKeys
           /\ c.op \in {"StartResource", "StopResource", "FailResource"} => c.key \in ResourceKeys}

\* An action belongs to a view that is active, and a view that is not waits for a resource.
Sound(v) ==
  /\ v.active \/ v.pending # {}
  /\ ~ v.active => v.action = NoAction
  /\ v.action # NoAction => v.action.n <= v.opened

Ended(v, c) == v.action # NoAction /\ ActionEnds(ResourceStopped(v.action, c), c)

LEMMA ActionStep ==
  ASSUME NEW v \in View, NEW c \in Cmds, Sound(v),
         NEW e, e = ActionEvents(v, c), NEW a, a = ActionAfter(v, c)
  PROVE  /\ a \in Action \union {NoAction}
         /\ e = << >> <=> ~ Ended(v, c)
         /\ e # << >> => /\ Len(e) = 1 /\ e \in Seq(Detail) /\ e[1].type = "action"
                         /\ e[1].view = v.id /\ e[1].action = v.action.n
                         /\ a = NoAction
         /\ e = << >> => (v.action # NoAction => a # NoAction /\ a.n = v.action.n)
         /\ v.action = NoAction => a = NoAction
         /\ c.op \in {"StopSession", "StartView", "StopView"} => a = NoAction
<1> DEFINE b == ResourceStopped(v.action, c)
<1>1. v.action # NoAction => v.action \in Action
  BY DEF View
<1>2. v.action \in Action => b \in Action /\ b.n = v.action.n
  <2>1. ASSUME v.action \in Action PROVE b \in Action /\ b.n = v.action.n
    <3>1. CASE StopsResource(c) /\ v.action.waiting > 0
      <4> DEFINE w == v.action
      <4>1. b = [w EXCEPT !.resources = @ + 1, !.waiting = @ - 1,
                 !.errors = IF c.op = "FailResource" THEN @ + 1 ELSE @]
        BY <3>1 DEF ResourceStopped
      <4>2. w.waiting - 1 \in Nat /\ w.resources + 1 \in Nat /\ w.errors + 1 \in Nat
        BY <2>1, <3>1 DEF Action
      <4> HIDE DEF w
      <4> QED BY <4>1, <4>2, <2>1 DEF Action, w
    <3>2. CASE ~ (StopsResource(c) /\ v.action.waiting > 0)
      BY <2>1, <3>2 DEF ResourceStopped
    <3> QED BY <3>1, <3>2
  <2> QED BY <2>1
<1>3. b \in Action => ActionContinues(b, c) \in Action /\ ActionContinues(b, c).n = b.n
  <2> HIDE DEF b
  <2> QED BY DEF ActionContinues, Action
<1>4. Ended(v, c) =>
        /\ e = << [type |-> "action", view |-> v.id, action |-> b.n,
                   resources |-> b.resources, errors |-> b.errors,
                   longTasks |-> b.longTasks] >>
        /\ a = NoAction
  BY DEF Ended, ActionEvents, ActionAfter
<1>5. ~ Ended(v, c) => /\ e = << >>
                       /\ v.action # NoAction => a = ActionContinues(b, c)
                       /\ v.action = NoAction => a = NoAction
  BY DEF Ended, ActionEvents, ActionAfter
<1>6. c.op \in {"StopSession", "StartView", "StopView"} => (v.action # NoAction => Ended(v, c))
  BY DEF Ended, ActionEnds
<1>7. Ended(v, c) => v.action # NoAction
  BY DEF Ended
<1>8. v.id \in Id
  BY DEF View
<1>9. \A x \in Action : x # NoAction
  BY DEF Action, NoAction
<1> HIDE DEF b
<1>10. Ended(v, c) => /\ e # << >> /\ Len(e) = 1 /\ e \in Seq(Detail) /\ e[1].type = "action"
                      /\ e[1].view = v.id /\ e[1].action = v.action.n
  <2> SUFFICES ASSUME Ended(v, c) PROVE /\ e # << >> /\ Len(e) = 1 /\ e \in Seq(Detail) /\ e[1].type = "action"
                      /\ e[1].view = v.id /\ e[1].action = v.action.n
    OBVIOUS
  <2> DEFINE x == [type |-> "action", view |-> v.id, action |-> b.n,
               resources |-> b.resources, errors |-> b.errors,
               longTasks |-> b.longTasks]
  <2>1. x \in Detail /\ x.type = "action" /\ x.view = v.id /\ x.action = v.action.n
    BY <1>1, <1>2, <1>7, <1>8 DEF Detail, Action
  <2>2. e = << x >>
    BY <1>4
  <2> HIDE DEF x
  <2> QED BY <2>1, <2>2
<1> QED
  BY <1>1, <1>2, <1>3, <1>4, <1>5, <1>6, <1>7, <1>9, <1>10

\* What a view writes of itself, and what it writes of no action it has open.
DetailOf(id) == {x \in Detail : x.view = id}
MinorOf(id)  == {x \in DetailOf(id) : x.type = "action" => x.action = 0}

\* What a handler may make of a view: r.due says whether anything was counted or changed
\* that its events tell.
Follows(v, r) ==
  /\ r = [view |-> r.view, out |-> r.out, due |-> r.due]
  /\ r.view \in View /\ r.due \in BOOLEAN /\ r.out \in Seq(DetailOf(v.id))
  /\ r.view.id = v.id /\ r.view.key = v.key /\ r.view.sent = v.sent
  /\ r.view.opened >= v.opened /\ r.view.actions >= v.actions
  /\ ~ r.due =>
       /\ r.out = << >>
       /\ r.view.active = v.active /\ r.view.initialised = v.initialised
       /\ v.pending \subseteq r.view.pending
       /\ r.view.actions = v.actions /\ r.view.errors = v.errors
       /\ r.view.resources = v.resources /\ r.view.longTasks = v.longTasks

\* r is what two handlers one after the other make of v.
Composed(v, first, second, r) ==
  /\ Follows(v, r)
  /\ r.view = second.view
  /\ r.out = first.out \o second.out
  /\ r.due = (first.due \/ second.due)

LEMMA FollowsThen ==
  ASSUME NEW v \in View, NEW first, NEW second, Follows(v, first), Follows(first.view, second)
  PROVE  Composed(v, first, second, Then(first, second))
<1>0. PICK r : r = Then(first, second)
  OBVIOUS
<1> DEFINE o == first.out \o second.out
           d == first.due \/ second.due
<1>1. r = [view |-> second.view, out |-> o, due |-> d]
  <2>1. second = [view |-> second.view, out |-> second.out, due |-> second.due]
    BY DEF Follows
  <2> QED
    BY <1>0, <2>1 DEF Then
<1>3. o \in Seq(DetailOf(v.id))
  <2>1. first.out \in Seq(DetailOf(v.id)) /\ second.out \in Seq(DetailOf(v.id))
    BY DEF Follows
  <2> QED
    BY <2>1, ConcatProperties
<1>4. first.out = << >> /\ second.out = << >> => o = << >>
  OBVIOUS
<1>6. d \in BOOLEAN /\ d = (first.due \/ second.due) /\ (~ d => ~ first.due /\ ~ second.due)
  BY DEF Follows
<1> HIDE DEF o, d
<1>7. r.view = second.view /\ r.out = o /\ r.due = d
  BY <1>1
<1>8. /\ v.opened \in Nat /\ first.view.opened \in Nat /\ second.view.opened \in Nat
      /\ v.actions \in Nat /\ first.view.actions \in Nat /\ second.view.actions \in Nat
  BY DEF Follows, View
<1>9. /\ second.view \in View /\ second.view.id = v.id /\ second.view.key = v.key
      /\ second.view.sent = v.sent
      /\ second.view.opened >= v.opened /\ second.view.actions >= v.actions
  BY <1>8 DEF Follows
<1>10. ASSUME ~ d
       PROVE  /\ o = << >>
              /\ second.view.active = v.active /\ second.view.initialised = v.initialised
              /\ v.pending \subseteq second.view.pending
              /\ second.view.actions = v.actions /\ second.view.errors = v.errors
              /\ second.view.resources = v.resources /\ second.view.longTasks = v.longTasks
  BY <1>4, <1>6, <1>10 DEF Follows
<1>11. r = [view |-> r.view, out |-> r.out, due |-> r.due]
  BY <1>1, <1>7
<1> QED
  <2>1. Follows(v, r)
    BY <1>3, <1>6, <1>7, <1>9, <1>10, <1>11 DEF Follows
  <2> QED
    BY <1>0, <1>7, <2>1 DEF Composed, o, d

\* Whether a view is active after a command.
Stays(v, c) ==
  /\ v.active
  /\ c.op # "StopSession"
  /\ c.op = "StartView" => c.key = v.key /\ ~ v.initialised
  /\ c.op = "StopView" => c.key # v.key

LEMMA HandlerStep ==
  ASSUME NEW v \in View, NEW c \in Cmds, NEW r, r = HandleCommand(v, c)
  PROVE  /\ Follows(v, r)
         /\ (r.view.active <=> Stays(v, c)) /\ (v.active /\ ~ Stays(v, c) => r.due)
         /\ v.active /\ c.op = "StartView" => r.due
         /\ (r.view.initialised <=> v.initialised \/ (v.active /\ c.op = "StartView" /\ c.key = v.key))
         /\ r.view.action # v.action =>
              /\ v.action = NoAction /\ r.view.active
              /\ r.view.action \in Action /\ r.view.action.n = r.view.opened
              /\ r.view.opened = v.opened + 1
         /\ r.out \in Seq(MinorOf(v.id))
<1>1. \A w, o : Reported(w, o) = [view |-> w, out |-> o, due |-> TRUE]
  BY DEF Reported
<1>2. \A w : Silent(w) = [view |-> w, out |-> << >>, due |-> FALSE]
  BY DEF Silent
<1>3. \A x \in MinorOf(v.id) : << x >> \in Seq(MinorOf(v.id)) /\ << x >> \in Seq(DetailOf(v.id))
  BY DEF MinorOf
<1>4. << >> \in Seq(MinorOf(v.id)) /\ << >> \in Seq(DetailOf(v.id))
  OBVIOUS
<1>5. v.id \in Id /\ v.opened \in Nat /\ v.actions \in Nat /\ v.errors \in Nat
      /\ v.longTasks \in Nat /\ v.active \in BOOLEAN
      /\ v.action \in Action \union {NoAction}
  BY DEF View
<1>6. ASSUME r = [view |-> r.view, out |-> r.out, due |-> r.due],
             r.view \in View, r.due \in BOOLEAN,
             r.out \in Seq(MinorOf(v.id)), r.out \in Seq(DetailOf(v.id)),
             ~ r.due => r.out = << >>,
             r.view.id = v.id, r.view.key = v.key, r.view.sent = v.sent,
             r.view.opened >= v.opened, r.view.actions >= v.actions,
             ~ r.due => /\ r.view.active = v.active /\ r.view.initialised = v.initialised
                        /\ v.pending \subseteq r.view.pending
                        /\ r.view.actions = v.actions /\ r.view.errors = v.errors
                        /\ r.view.resources = v.resources /\ r.view.longTasks = v.longTasks
      PROVE  Follows(v, r) /\ r.out \in Seq(MinorOf(v.id))
  BY <1>6 DEF Follows
<1>7. CASE ~ v.active
  <2>1. r = [view |-> v, out |-> << >>, due |-> FALSE]
    BY <1>2, <1>7 DEF HandleCommand
  <2>2. /\ r = [view |-> r.view, out |-> r.out, due |-> r.due]
        /\ r.view = v /\ r.out = << >> /\ r.due = FALSE
    BY <2>1
  <2>6. Follows(v, r) /\ r.out \in Seq(MinorOf(v.id))
    BY <1>3, <1>4, <1>5, <1>6, <2>2, <2>1
  <2> QED
    BY <1>7, <2>2, <2>6 DEF Stays
<1>8. CASE v.active /\ c.op = "StopSession"
  <2> DEFINE w == [v EXCEPT !.active = FALSE]
  <2>1. r = [view |-> w, out |-> << >>, due |-> TRUE]
    BY <1>1, <1>8 DEF HandleCommand
  <2>2. w \in View /\ w.id = v.id /\ w.key = v.key /\ w.sent = v.sent /\ w.opened = v.opened
        /\ w.actions = v.actions /\ w.action = v.action /\ w.active = FALSE
        /\ w.initialised = v.initialised
    BY DEF View
  <2> HIDE DEF w
  <2>3. /\ r = [view |-> r.view, out |-> r.out, due |-> r.due]
        /\ r.view = w /\ r.out = << >> /\ r.due = TRUE
    BY <2>1
  <2>6. Follows(v, r) /\ r.out \in Seq(MinorOf(v.id))
    BY <1>3, <1>4, <1>5, <1>6, <2>3, <2>1, <2>2
  <2> QED
    BY <1>8, <2>2, <2>3, <2>6 DEF Stays
<1>9. CASE v.active /\ c.op = "StartView"
  <2> DEFINE w1 == [v EXCEPT !.active = FALSE]
             w2 == [v EXCEPT !.initialised = TRUE]
             w  == IF c.key = v.key /\ ~ v.initialised THEN w2 ELSE w1
  <2>1. r = [view |-> w, out |-> << >>, due |-> TRUE]
    BY <1>1, <1>9 DEF HandleCommand, HandleStartView
  <2>2. w1 \in View /\ w1.id = v.id /\ w1.key = v.key /\ w1.sent = v.sent /\ w1.opened = v.opened
        /\ w1.actions = v.actions /\ w1.action = v.action /\ w1.active = FALSE
        /\ w1.initialised = v.initialised
    BY DEF View
  <2>3. w2 \in View /\ w2.id = v.id /\ w2.key = v.key /\ w2.sent = v.sent /\ w2.opened = v.opened
        /\ w2.actions = v.actions /\ w2.action = v.action /\ w2.active = v.active
        /\ w2.initialised = TRUE
    BY DEF View
  <2> HIDE DEF w1, w2
  <2>4. w \in View /\ w.id = v.id /\ w.key = v.key /\ w.sent = v.sent /\ w.opened = v.opened
        /\ w.actions = v.actions /\ w.action = v.action
        /\ w.active = (c.key = v.key /\ ~ v.initialised)
        /\ w.initialised = (v.initialised \/ c.key = v.key)
    <3>1. v.initialised \in BOOLEAN
      BY DEF View
    <3> QED
      BY <1>9, <2>2, <2>3, <3>1
  <2> HIDE DEF w
  <2>5. /\ r = [view |-> r.view, out |-> r.out, due |-> r.due]
        /\ r.view = w /\ r.out = << >> /\ r.due = TRUE
    BY <2>1
  <2>6. Follows(v, r) /\ r.out \in Seq(MinorOf(v.id))
    BY <1>3, <1>4, <1>5, <1>6, <2>5, <2>1, <2>4
  <2> QED
    BY <1>9, <2>4, <2>5, <2>6 DEF Stays
<1>10. CASE v.active /\ c.op = "AddCustomAction"
  <2> DEFINE w == [v EXCEPT !.actions = @ + 1]
             x == [type |-> "action", view |-> v.id, action |-> 0,
                   resources |-> 0, errors |-> 0, longTasks |-> 0]
  <2>1. r = [view |-> w, out |-> << x >>, due |-> TRUE]
    BY <1>1, <1>2, <1>10 DEF HandleCommand, HandleAddCustomAction
  <2>2. w \in View /\ w.id = v.id /\ w.key = v.key /\ w.sent = v.sent /\ w.active = v.active
        /\ w.initialised = v.initialised /\ w.opened >= v.opened /\ w.actions >= v.actions
        /\ w.action = v.action
    BY DEF View
  <2>3. x \in MinorOf(v.id)
    <3>1. v.action.n \in Nat
      BY <1>5 DEF Action, NoAction
    <3> QED
      BY <1>5, <3>1 DEF MinorOf, DetailOf, Detail
  <2> HIDE DEF w, x
  <2>5. /\ r = [view |-> r.view, out |-> r.out, due |-> r.due]
        /\ r.view = w /\ r.out = << x >> /\ r.due = TRUE
    BY <2>1
  <2>6. Follows(v, r) /\ r.out \in Seq(MinorOf(v.id))
    BY <1>3, <1>4, <1>5, <1>6, <2>2, <2>3, <2>5
  <2> QED
    BY <1>10, <2>2, <2>5, <2>6 DEF Stays
<1>11. ASSUME v.active, c.op \in {"AddAction", "StartAction"}, NEW lifetime \in Nat,
              r = HandleOpenAction(v, lifetime)
       PROVE  /\ Follows(v, r) /\ (r.view.active <=> v.active) /\ ~ r.due
              /\ (r.view.initialised <=> v.initialised)
              /\ r.view.action # v.action =>
                   /\ v.action = NoAction /\ r.view.active
                   /\ r.view.action \in Action /\ r.view.action.n = r.view.opened
                   /\ r.view.opened = v.opened + 1
              /\ r.out \in Seq(MinorOf(v.id))
  <2> DEFINE a == OpenAction(v.opened + 1, lifetime)
             w == IF v.action # NoAction THEN v ELSE [v EXCEPT !.action = a, !.opened = @ + 1]
  <2>1. r = [view |-> w, out |-> << >>, due |-> FALSE]
    BY <1>2, <1>11 DEF HandleOpenAction
  <2>2. a \in Action /\ a.n = v.opened + 1
    BY <1>5 DEF OpenAction, Action
  <2> HIDE DEF a
  <2>3. w \in View /\ w.id = v.id /\ w.key = v.key /\ w.sent = v.sent /\ w.active = v.active
        /\ w.initialised = v.initialised /\ w.opened >= v.opened /\ w.actions >= v.actions
        /\ w.actions = v.actions /\ w.errors = v.errors /\ w.resources = v.resources
        /\ w.longTasks = v.longTasks /\ v.pending \subseteq w.pending
        /\ (w.action # v.action => v.action = NoAction /\ w.action = a /\ w.opened = v.opened + 1)
    <3>1. CASE v.action # NoAction
      BY <1>5, <3>1
    <3>2. CASE v.action = NoAction
      <4> DEFINE u == [v EXCEPT !.action = a, !.opened = @ + 1]
      <4>1. u \in View /\ u.id = v.id /\ u.key = v.key /\ u.sent = v.sent /\ u.active = v.active
            /\ u.initialised = v.initialised /\ u.opened = v.opened + 1 /\ u.action = a
            /\ u.actions = v.actions /\ u.errors = v.errors /\ u.resources = v.resources
            /\ u.longTasks = v.longTasks /\ u.pending = v.pending
        <5>1. a \in Action \union {NoAction}
          BY <2>2
        <5>2. v.opened + 1 \in Nat
          BY <1>5
        <5>3. u = [[v EXCEPT !.action = a] EXCEPT !.opened = @ + 1]
          OBVIOUS
        <5> QED
          BY <5>1, <5>2 DEF View
      <4>2. w = u
        BY <3>2
      <4> HIDE DEF u, w
      <4> QED
        BY <1>5, <3>2, <4>1, <4>2
    <3> QED
      BY <3>1, <3>2
  <2> HIDE DEF w
  <2>5. /\ r = [view |-> r.view, out |-> r.out, due |-> r.due]
        /\ r.view = w /\ r.out = << >> /\ r.due = FALSE
    BY <2>1
  <2>6. Follows(v, r) /\ r.out \in Seq(MinorOf(v.id))
    BY <1>3, <1>4, <1>5, <1>6, <2>3, <2>5
  <2> QED
    BY <1>11, <2>2, <2>3, <2>5, <2>6
<1>12. CASE v.active /\ c.op \in {"AddAction", "StartAction"}
  <2>1. DiscreteLifetime \in Nat /\ ContinuousLifetime \in Nat
    BY LifetimesAssumption
  <2>2. r = HandleOpenAction(v, DiscreteLifetime) \/ r = HandleOpenAction(v, ContinuousLifetime)
    BY <1>12 DEF HandleCommand
  <2> QED
    BY <1>11, <1>12, <2>1, <2>2 DEF Stays
<1>13. CASE v.active /\ c.op = "StartResource"
  <2> DEFINE w == [v EXCEPT !.pending = @ \union {c.key}]
  <2>1. r = [view |-> w, out |-> << >>, due |-> FALSE]
    BY <1>1, <1>2, <1>13 DEF HandleCommand, HandleStartResource
  <2>2. w \in View /\ w.id = v.id /\ w.key = v.key /\ w.sent = v.sent /\ w.active = v.active
        /\ w.initialised = v.initialised /\ w.opened >= v.opened /\ w.actions >= v.actions
        /\ w.action = v.action /\ w.actions = v.actions /\ w.errors = v.errors /\ w.resources = v.resources
        /\ w.longTasks = v.longTasks /\ v.pending \subseteq w.pending
    <3>1. c.key \in ResourceKeys
      BY <1>13 DEF Cmds
    <3> QED
      BY <3>1 DEF View
  <2> HIDE DEF w
  <2>5. /\ r = [view |-> r.view, out |-> r.out, due |-> r.due]
        /\ r.view = w /\ r.out = << >> /\ r.due = FALSE
    BY <2>1
  <2>6. Follows(v, r) /\ r.out \in Seq(MinorOf(v.id))
    BY <1>3, <1>4, <1>5, <1>6, <2>2, <2>5
  <2> QED
    BY <1>13, <2>2, <2>5, <2>6 DEF Stays
<1>14. CASE v.active /\ c.op = "AddError"
  <2> DEFINE w == [v EXCEPT !.errors = @ + 1]
             x == [type |-> "error", view |-> v.id, action |-> v.action.n]
  <2>1. r = [view |-> w, out |-> << x >>, due |-> TRUE]
    BY <1>1, <1>2, <1>14 DEF HandleCommand, HandleAddError
  <2>2. w \in View /\ w.id = v.id /\ w.key = v.key /\ w.sent = v.sent /\ w.active = v.active
        /\ w.initialised = v.initialised /\ w.opened >= v.opened /\ w.actions >= v.actions
        /\ w.action = v.action
    BY DEF View
  <2>3. x \in MinorOf(v.id)
    <3>1. v.action.n \in Nat
      BY <1>5 DEF Action, NoAction
    <3> QED
      BY <1>5, <3>1 DEF MinorOf, DetailOf, Detail
  <2> HIDE DEF w, x
  <2>5. /\ r = [view |-> r.view, out |-> r.out, due |-> r.due]
        /\ r.view = w /\ r.out = << x >> /\ r.due = TRUE
    BY <2>1
  <2>6. Follows(v, r) /\ r.out \in Seq(MinorOf(v.id))
    BY <1>3, <1>4, <1>5, <1>6, <2>2, <2>3, <2>5
  <2> QED
    BY <1>14, <2>2, <2>5, <2>6 DEF Stays
<1>15. CASE v.active /\ c.op = "AddLongTask"
  <2> DEFINE w == [v EXCEPT !.longTasks = @ + 1]
             x == [type |-> "long_task", view |-> v.id, action |-> v.action.n]
  <2>1. r = [view |-> w, out |-> << x >>, due |-> TRUE]
    BY <1>1, <1>2, <1>15 DEF HandleCommand, HandleAddLongTask
  <2>2. w \in View /\ w.id = v.id /\ w.key = v.key /\ w.sent = v.sent /\ w.active = v.active
        /\ w.initialised = v.initialised /\ w.opened >= v.opened /\ w.actions >= v.actions
        /\ w.action = v.action
    BY DEF View
  <2>3. x \in MinorOf(v.id)
    <3>1. v.action.n \in Nat
      BY <1>5 DEF Action, NoAction
    <3> QED
      BY <1>5, <3>1 DEF MinorOf, DetailOf, Detail
  <2> HIDE DEF w, x
  <2>5. /\ r = [view |-> r.view, out |-> r.out, due |-> r.due]
        /\ r.view = w /\ r.out = << x >> /\ r.due = TRUE
    BY <2>1
  <2>6. Follows(v, r) /\ r.out \in Seq(MinorOf(v.id))
    BY <1>3, <1>4, <1>5, <1>6, <2>2, <2>3, <2>5
  <2> QED
    BY <1>15, <2>2, <2>5, <2>6 DEF Stays
<1>16. CASE v.active /\ c.op \notin {"StopSession", "StartView", "StopView", "AddCustomAction", "AddAction",
                                  "StartAction", "StartResource", "AddError", "AddLongTask"}
  <2>1. r = [view |-> v, out |-> << >>, due |-> FALSE]
    BY <1>2, <1>16 DEF HandleCommand
  <2>2. /\ r = [view |-> r.view, out |-> r.out, due |-> r.due]
        /\ r.view = v /\ r.out = << >> /\ r.due = FALSE
    BY <2>1
  <2>3. r.view.opened >= v.opened /\ r.view.actions >= v.actions
    BY <1>5, <2>2
  <2>4. r.out \in Seq(MinorOf(v.id)) /\ r.out \in Seq(DetailOf(v.id)) /\ r.view \in View /\ r.due \in BOOLEAN
    BY <1>4, <2>2
  <2>5. /\ r.view.active = v.active /\ r.view.initialised = v.initialised
                      /\ v.pending \subseteq r.view.pending
                      /\ r.view.actions = v.actions /\ r.view.errors = v.errors
                      /\ r.view.resources = v.resources /\ r.view.longTasks = v.longTasks
           /\ r.view.id = v.id /\ r.view.key = v.key /\ r.view.sent = v.sent
    BY <2>2
  <2>7. r.out = << >> /\ r = [view |-> r.view, out |-> r.out, due |-> r.due]
    BY <2>2
  <2>6. Follows(v, r) /\ r.out \in Seq(MinorOf(v.id))
    BY <1>6, <2>3, <2>4, <2>5, <2>7
  <2> QED
    BY <1>16, <2>2, <2>6 DEF Stays
<1>17. CASE v.active /\ c.op = "StopView"
  <2> DEFINE w1 == [v EXCEPT !.active = FALSE]
  <2>1. r = IF c.key = v.key THEN [view |-> w1, out |-> << >>, due |-> TRUE]
            ELSE [view |-> v, out |-> << >>, due |-> FALSE]
    BY <1>1, <1>2, <1>17 DEF HandleCommand, HandleStopView
  <2>2. w1 \in View /\ w1.id = v.id /\ w1.key = v.key /\ w1.sent = v.sent /\ w1.opened = v.opened
        /\ w1.actions = v.actions /\ w1.action = v.action /\ w1.active = FALSE
        /\ w1.initialised = v.initialised
    BY DEF View
  <2> HIDE DEF w1
  <2>3. CASE c.key = v.key
    <3>5. /\ r = [view |-> r.view, out |-> r.out, due |-> r.due]
          /\ r.view = w1 /\ r.out = << >> /\ r.due = TRUE
      BY <2>1, <2>3
    <3>1. r.view.opened >= v.opened /\ r.view.actions >= v.actions
      BY <1>5, <2>2, <3>5
    <3>2. r.out \in Seq(MinorOf(v.id)) /\ r.out \in Seq(DetailOf(v.id)) /\ r.view \in View /\ r.due
      BY <1>4, <2>2, <3>5
    <3>3. r.view.id = v.id /\ r.view.key = v.key /\ r.view.sent = v.sent
      BY <2>2, <3>5
    <3>6. Follows(v, r) /\ r.out \in Seq(MinorOf(v.id))
      BY <1>6, <3>1, <3>2, <3>3, <3>5
    <3> QED
      BY <1>17, <2>2, <2>3, <3>5, <3>6 DEF Stays
  <2>4. CASE c.key # v.key
    <3>5. /\ r = [view |-> r.view, out |-> r.out, due |-> r.due]
          /\ r.view = v /\ r.out = << >> /\ r.due = FALSE
      BY <2>1, <2>4
    <3>1. r.view.opened >= v.opened /\ r.view.actions >= v.actions
      BY <1>5, <3>5
    <3>2. r.out \in Seq(MinorOf(v.id)) /\ r.out \in Seq(DetailOf(v.id)) /\ r.view \in View /\ r.due \in BOOLEAN
      BY <1>4, <3>5
    <3>3. /\ r.view.active = v.active /\ r.view.initialised = v.initialised
                        /\ v.pending \subseteq r.view.pending
                        /\ r.view.actions = v.actions /\ r.view.errors = v.errors
                        /\ r.view.resources = v.resources /\ r.view.longTasks = v.longTasks
             /\ r.view.id = v.id /\ r.view.key = v.key /\ r.view.sent = v.sent
      BY <3>5
    <3>4. r.out = << >> /\ r = [view |-> r.view, out |-> r.out, due |-> r.due]
      BY <3>5
    <3>6. Follows(v, r) /\ r.out \in Seq(MinorOf(v.id))
      BY <1>6, <3>1, <3>2, <3>3, <3>4
    <3> QED
      BY <1>17, <2>4, <3>5, <3>6 DEF Stays
  <2> QED
    BY <2>3, <2>4
<1> QED
  BY <1>7, <1>8, <1>9, <1>10, <1>12, <1>13, <1>14, <1>15, <1>16, <1>17

LEMMA ForwardStep ==
  ASSUME NEW v \in View, NEW c \in Cmds, Sound(v),
         NEW r, r = ForwardToAction(v, ActionEvents(v, c), c)
  PROVE  /\ Follows(v, r)
         /\ r.out = ActionEvents(v, c) /\ r.view.action = ActionAfter(v, c)
         /\ r.view.active = v.active /\ r.view.initialised = v.initialised
         /\ r.view.opened = v.opened /\ r.view.pending = v.pending
         /\ r.view.actions = v.actions + Len(r.out)
<1> DEFINE e == ActionEvents(v, c)
           a == ActionAfter(v, c)
           w == [v EXCEPT !.action = a, !.actions = @ + Len(e)]
<1>1. /\ a \in Action \union {NoAction}
      /\ e = << >> <=> ~ Ended(v, c)
      /\ e # << >> => /\ Len(e) = 1 /\ e \in Seq(Detail) /\ e[1].view = v.id
  BY ActionStep
<1>2. r = [view |-> w, out |-> e, due |-> e # << >>]
  BY DEF ForwardToAction
<1> HIDE DEF e, a
<1>3. Len(e) \in Nat /\ (e = << >> => Len(e) = 0)
  BY <1>1
<1>4. e \in Seq(DetailOf(v.id))
  <2>1. CASE e = << >>
    BY <2>1
  <2>2. CASE e # << >>
    <3>1. e = << e[1] >> /\ e[1] \in Detail /\ e[1].view = v.id
      BY <1>1, <2>2
    <3>2. e[1] \in DetailOf(v.id)
      BY <3>1 DEF DetailOf
    <3>3. << e[1] >> \in Seq(DetailOf(v.id))
      BY <3>2
    <3> QED
      BY <3>1, <3>3
  <2> QED
    BY <2>1, <2>2
<1>5. v.actions \in Nat /\ v.actions + Len(e) \in Nat /\ v.opened \in Nat
  BY <1>3 DEF View
<1>6. /\ w \in View /\ w.id = v.id /\ w.key = v.key /\ w.sent = v.sent /\ w.opened = v.opened
      /\ w.active = v.active /\ w.initialised = v.initialised /\ w.pending = v.pending
      /\ w.actions = v.actions + Len(e) /\ w.errors = v.errors /\ w.resources = v.resources
      /\ w.longTasks = v.longTasks /\ w.action = a
  <2>1. w = [[v EXCEPT !.action = a] EXCEPT !.actions = @ + Len(e)]
    OBVIOUS
  <2> QED
    BY <1>1, <1>5 DEF View
<1> HIDE DEF w
<1>7. r.view = w /\ r.out = e /\ r.due = (e # << >>) /\ r = [view |-> r.view, out |-> r.out, due |-> r.due]
  BY <1>2
<1>8. w.opened >= v.opened /\ w.actions >= v.actions /\ (e = << >> => w.actions = v.actions)
  BY <1>3, <1>5, <1>6
<1>9. r.due \in BOOLEAN /\ (~ r.due => e = << >>)
  BY <1>7
<1>10. Follows(v, r)
  BY <1>4, <1>6, <1>7, <1>8, <1>9 DEF Follows
<1> QED
  BY <1>6, <1>7, <1>10 DEF e, a

LEMMA ResourceStep ==
  ASSUME NEW v \in View, NEW c \in Cmds, NEW r, r = ForwardToResource(v, c)
  PROVE  /\ Follows(v, r)
         /\ r.view.action = v.action
         /\ r.view.active = v.active /\ r.view.initialised = v.initialised
         /\ r.view.opened = v.opened
         /\ r.out \in Seq(MinorOf(v.id))
<1>4. << >> \in Seq(MinorOf(v.id)) /\ << >> \in Seq(DetailOf(v.id))
  OBVIOUS
<1>5. v.id \in Id /\ v.opened \in Nat /\ v.actions \in Nat /\ v.errors \in Nat /\ v.resources \in Nat
  BY DEF View
<1>6. v.opened >= v.opened /\ v.actions >= v.actions
  BY <1>5
<1>7. CASE ~StopsResource(c) \/ c.key \notin v.pending
  <2>1. r = [view |-> v, out |-> << >>, due |-> FALSE]
    BY <1>7 DEF ForwardToResource, Silent
  <2>2. r.view = v /\ r.out = << >> /\ r.due = FALSE /\ r = [view |-> r.view, out |-> r.out, due |-> r.due]
    BY <2>1
  <2> QED
    BY <1>4, <1>6, <2>2 DEF Follows
<1>8. CASE ~ (~StopsResource(c) \/ c.key \notin v.pending)
  <2> DEFINE u == [v EXCEPT !.pending = @ \ {c.key}]
             w1 == [u EXCEPT !.errors = @ + 1]
             w2 == [u EXCEPT !.resources = @ + 1]
             x1 == [type |-> "error", view |-> v.id, action |-> 0]
             x2 == [type |-> "resource", view |-> v.id]
             w == IF c.op = "FailResource" THEN w1 ELSE w2
             x == IF c.op = "FailResource" THEN x1 ELSE x2
  <2>1. r = [view |-> w, out |-> << x >>, due |-> TRUE]
    BY <1>8 DEF ForwardToResource, Reported
  <2>2. x1 \in MinorOf(v.id) /\ x2 \in MinorOf(v.id)
    BY <1>5 DEF MinorOf, DetailOf, Detail
  <2>0. /\ u \in View /\ u.id = v.id /\ u.key = v.key /\ u.sent = v.sent /\ u.opened = v.opened
        /\ u.active = v.active /\ u.initialised = v.initialised /\ u.action = v.action
        /\ u.actions = v.actions /\ u.errors = v.errors /\ u.resources = v.resources
    BY DEF View
  <2> HIDE DEF u
  <2>3. /\ w1 \in View /\ w1.id = v.id /\ w1.key = v.key /\ w1.sent = v.sent /\ w1.opened = v.opened
        /\ w1.active = v.active /\ w1.initialised = v.initialised /\ w1.action = v.action
        /\ w1.actions = v.actions
    BY <1>5, <2>0 DEF View
  <2>4. /\ w2 \in View /\ w2.id = v.id /\ w2.key = v.key /\ w2.sent = v.sent /\ w2.opened = v.opened
        /\ w2.active = v.active /\ w2.initialised = v.initialised /\ w2.action = v.action
        /\ w2.actions = v.actions
    BY <1>5, <2>0 DEF View
  <2> HIDE DEF x1, x2, w1, w2
  <2>5. /\ w \in View /\ w.id = v.id /\ w.key = v.key /\ w.sent = v.sent /\ w.opened = v.opened
        /\ w.active = v.active /\ w.initialised = v.initialised /\ w.action = v.action
        /\ w.actions = v.actions /\ x \in MinorOf(v.id) /\ x \in DetailOf(v.id)
    BY <2>2, <2>3, <2>4 DEF MinorOf
  <2> HIDE DEF w, x
  <2>6. << x >> \in Seq(MinorOf(v.id)) /\ << x >> \in Seq(DetailOf(v.id))
    BY <2>5
  <2>7. r.view = w /\ r.out = << x >> /\ r.due = TRUE /\ r = [view |-> r.view, out |-> r.out, due |-> r.due]
    BY <2>1
  <2>8. w.opened >= v.opened /\ w.actions >= v.actions
    BY <1>6, <2>5
  <2> QED
    BY <2>5, <2>6, <2>7, <2>8 DEF Follows
<1> QED
  BY <1>7, <1>8

\* What the three handlers one after the other make of a view: the action, the view's own,
\* the resource.
HandledBy(v, c, r) ==
  /\ Follows(v, r)
  /\ (r.view.active <=> Stays(v, c)) /\ (v.active /\ ~ Stays(v, c) => r.due)
  /\ v.active /\ c.op = "StartView" => r.due
  /\ (r.view.initialised <=> v.initialised \/ (v.active /\ c.op = "StartView" /\ c.key = v.key))
  /\ r.view.active \/ r.view.pending # {} => Sound(r.view)
  /\ \E rest \in Seq(MinorOf(v.id)) : r.out = ActionEvents(v, c) \o rest
  /\ Ended(v, c) => /\ r.view.action.n # v.action.n /\ r.view.actions > v.actions /\ r.due
  /\ ~ Ended(v, c) /\ v.action # NoAction => r.view.action.n = v.action.n

LEMMA Handling ==
  ASSUME NEW v \in View, NEW c \in Cmds, Sound(v), NEW r,
         r = ForwardedAfterHandler(HandledAfterAction(ForwardToAction(v, ActionEvents(v, c), c), c), c)
  PROVE  HandledBy(v, c, r)
<1> DEFINE a == ForwardToAction(v, ActionEvents(v, c), c)
           h == HandleCommand(a.view, c)
           b == HandledAfterAction(a, c)
           f == ForwardToResource(b.view, c)
<1>1. /\ Follows(v, a)
      /\ a.out = ActionEvents(v, c) /\ a.view.action = ActionAfter(v, c)
      /\ a.view.active = v.active /\ a.view.initialised = v.initialised
      /\ a.view.opened = v.opened /\ a.view.pending = v.pending
      /\ a.view.actions = v.actions + Len(a.out)
  BY ForwardStep
<1>2. b = Then(a, h) /\ r = Then(b, f)
  BY DEF HandledAfterAction, ForwardedAfterHandler
<1>3. a.view \in View /\ a.view.id = v.id /\ a.view.key = v.key
  BY <1>1 DEF Follows
<1> HIDE DEF b
<1>4. (Stays(a.view, c) <=> Stays(v, c))
  BY <1>1, <1>3 DEF Stays
<1> HIDE DEF a
<1>5. /\ Follows(a.view, h)
      /\ (h.view.active <=> Stays(a.view, c)) /\ (a.view.active /\ ~ Stays(a.view, c) => h.due)
      /\ a.view.active /\ c.op = "StartView" => h.due
      /\ (h.view.initialised <=> a.view.initialised \/ (a.view.active /\ c.op = "StartView" /\ c.key = a.view.key))
      /\ h.view.action # a.view.action =>
              /\ a.view.action = NoAction /\ h.view.active
              /\ h.view.action \in Action /\ h.view.action.n = h.view.opened
              /\ h.view.opened = a.view.opened + 1
      /\ h.out \in Seq(MinorOf(a.view.id))
  BY <1>3, HandlerStep
<1> HIDE DEF h
<1>6. Follows(v, b) /\ b.view = h.view /\ b.out = a.out \o h.out /\ b.due = (a.due \/ h.due)
  <2>1. Follows(v, a) /\ Follows(a.view, h)
    BY <1>1, <1>5
  <2>2. Composed(v, a, h, Then(a, h))
    BY <2>1, FollowsThen, Zenon
  <2> QED
    BY <1>2, <2>2 DEF Composed
<1>7. b.view \in View /\ b.view.id = v.id
  BY <1>6 DEF Follows
<1>8. /\ Follows(b.view, f) /\ f.view.action = b.view.action
      /\ f.view.active = b.view.active /\ f.view.initialised = b.view.initialised
      /\ f.view.opened = b.view.opened
      /\ f.out \in Seq(MinorOf(b.view.id))
  BY <1>7, ResourceStep
<1> HIDE DEF f
<1>9. Follows(v, r) /\ r.view = f.view /\ r.out = b.out \o f.out /\ r.due = (b.due \/ f.due)
  <2>1. Follows(b.view, f) /\ Follows(v, b)
    BY <1>6, <1>8
  <2>2. Composed(v, b, f, Then(b, f))
    BY <2>1, FollowsThen, Zenon
  <2> QED
    BY <1>2, <2>2 DEF Composed
<1>10. /\ ActionAfter(v, c) \in Action \union {NoAction}
       /\ ActionEvents(v, c) = << >> <=> ~ Ended(v, c)
       /\ ActionEvents(v, c) # << >> => /\ Len(ActionEvents(v, c)) = 1 /\ ActionAfter(v, c) = NoAction
       /\ ActionEvents(v, c) = << >> => (v.action # NoAction => /\ ActionAfter(v, c) # NoAction
                                                               /\ ActionAfter(v, c).n = v.action.n)
       /\ v.action = NoAction => ActionAfter(v, c) = NoAction
       /\ c.op \in {"StopSession", "StartView", "StopView"} => ActionAfter(v, c) = NoAction
  BY ActionStep
<1>11. /\ v.opened \in Nat /\ v.actions \in Nat /\ v.active \in BOOLEAN /\ r.view \in View
       /\ r.view.opened \in Nat /\ r.view.actions \in Nat
       /\ h.view.opened \in Nat /\ h.view.actions \in Nat /\ h.view.actions >= a.view.actions
       /\ r.view.actions >= h.view.actions
       /\ a.due \in BOOLEAN /\ h.due \in BOOLEAN /\ b.due \in BOOLEAN
  BY <1>5, <1>6, <1>8, <1>9, <1>1 DEF Follows, View
<1>12. /\ r.view.action = h.view.action /\ (r.view.active <=> Stays(v, c)) /\ r.view.opened = h.view.opened
       /\ (v.active /\ ~ Stays(v, c) => r.due) /\ (v.active /\ c.op = "StartView" => r.due)
       /\ (r.view.initialised <=> v.initialised \/ (v.active /\ c.op = "StartView" /\ c.key = v.key))
  BY <1>1, <1>3, <1>4, <1>5, <1>6, <1>8, <1>9, <1>11
<1>13. v.action # NoAction => v.action \in Action /\ v.action.n \in Nat /\ v.action.n > 0 /\ v.action.n <= v.opened
  BY DEF Sound, View, Action
<1>14. NoAction.n = 0
  BY DEF NoAction
<1>15. h.view.opened >= v.opened
  BY <1>1, <1>5 DEF Follows
<1>16. ASSUME r.view.active \/ r.view.pending # {}
       PROVE  Sound(r.view)
  <2>1. ~ r.view.active => r.view.action = NoAction
    <3>1. ~ Stays(v, c) => ~ v.active \/ c.op \in {"StopSession", "StartView", "StopView"}
      BY DEF Stays
    <3>2. ~ v.active => v.action = NoAction
      BY DEF Sound
    <3>3. ~ r.view.active => ActionAfter(v, c) = NoAction
      BY <1>10, <1>12, <3>1, <3>2
    <3>4. ~ h.view.active => h.view.action = a.view.action
      BY <1>5
    <3> QED
      BY <1>1, <1>4, <1>5, <1>12, <3>3, <3>4
  <2>2. r.view.action # NoAction => r.view.action.n <= r.view.opened
    <3>1. CASE h.view.action # a.view.action
      BY <1>5, <1>11, <1>12, <3>1
    <3>2. CASE h.view.action = a.view.action
      BY <1>1, <1>10, <1>11, <1>12, <1>13, <1>15, <3>2
    <3> QED
      BY <3>1, <3>2
  <2> QED
    BY <1>16, <2>1, <2>2 DEF Sound
<1>17. \E rest \in Seq(MinorOf(v.id)) : r.out = ActionEvents(v, c) \o rest
  <2>1. h.out \in Seq(MinorOf(v.id)) /\ f.out \in Seq(MinorOf(v.id))
    BY <1>3, <1>5, <1>7, <1>8
  <2>2. h.out \o f.out \in Seq(MinorOf(v.id))
    BY <2>1, ConcatProperties
  <2>3. a.out \in Seq(DetailOf(v.id)) /\ h.out \in Seq(DetailOf(v.id)) /\ f.out \in Seq(DetailOf(v.id))
    BY <1>1, <1>3, <1>5, <1>7, <1>8 DEF Follows
  <2>4. (a.out \o h.out) \o f.out = a.out \o (h.out \o f.out)
    <3> DEFINE x == a.out
               y == h.out
               z == f.out
    <3>1. x \in Seq(DetailOf(v.id)) /\ y \in Seq(DetailOf(v.id)) /\ z \in Seq(DetailOf(v.id))
      BY <2>3
    <3> HIDE DEF x, y, z
    <3>2. (x \o y) \o z = x \o (y \o z)
      BY <3>1, ConcatAssociative
    <3> QED
      BY <3>2 DEF x, y, z
  <2> QED
    BY <1>1, <1>6, <1>9, <2>2, <2>4
<1>18. Ended(v, c) => /\ r.view.action.n # v.action.n /\ r.view.actions > v.actions /\ r.due
  <2> SUFFICES ASSUME Ended(v, c)
               PROVE  r.view.action.n # v.action.n /\ r.view.actions > v.actions /\ r.due
    OBVIOUS
  <2>1. v.action # NoAction
    BY DEF Ended
  <2>2. a.view.action = NoAction /\ Len(a.out) = 1 /\ a.out # << >>
    BY <1>1, <1>10
  <2>3. a.due
    BY <1>1, <2>2 DEF Follows
  <2>4. r.view.actions > v.actions
    BY <1>1, <1>11, <2>2
  <2>5. r.view.action.n # v.action.n
    BY <1>1, <1>5, <1>11, <1>12, <1>13, <1>14, <2>1, <2>2
  <2> QED
    BY <1>6, <1>9, <2>3, <2>4, <2>5
<1>19. ~ Ended(v, c) /\ v.action # NoAction => r.view.action.n = v.action.n
  BY <1>1, <1>5, <1>10, <1>12
<1> QED
  BY <1>9, <1>12, <1>16, <1>17, <1>18, <1>19 DEF HandledBy

\* What a view event says of the view v, whose scope has counted it already.
Tells(e, v) ==
  /\ v.sent > 0
  /\ e = [type |-> "view", view |-> v.id, key |-> v.key, version |-> v.sent - 1,
          actions |-> v.actions, errors |-> v.errors,
          resources |-> v.resources, longTasks |-> v.longTasks,
          active |-> TRUE, sessionActive |-> TRUE]

\* The events of an action of this view among those written.
OfAction(written, id, n) ==
  {k \in DOMAIN written : /\ written[k].type = "action" /\ written[k].view = id
                          /\ written[k].action = n}

EventOf(id) == DetailOf(id) \union {e \in Update : e.view = id}

\* What processing a command makes of a view: it is closed, or what it was; what it wrote
\* ends with the one view event that tells it all; and an action it had is reported when it
\* is over.
Processed1(v, c, sa, p) ==
  /\ p.out \in Seq(EventOf(v.id))
  /\ p.view # NoView =>
       /\ p.view \in View /\ Sound(p.view)
       /\ p.view.id = v.id /\ p.view.key = v.key
       /\ (p.view.active <=> Stays(v, c))
       /\ (p.view.initialised <=> v.initialised \/ (v.active /\ c.op = "StartView" /\ c.key = v.key))
  /\ p.view = NoView => ~ Stays(v, c) /\ p.out # << >>
  /\ v.active /\ (c.op = "StartView" \/ ~ Stays(v, c)) => p.out # << >>
  /\ p.out = << >> => p.last = << >> /\ (\A e : Tells(e, v) => Tells(e, p.view))
  /\ \A k \in DOMAIN p.out : p.out[k].type = "view" <=> k = Len(p.out)
  /\ p.out # << >> =>
       /\ p.out[Len(p.out)] \in Update /\ p.out[Len(p.out)].sessionActive = sa
       /\ (p.out[Len(p.out)].active <=> p.view # NoView)
       /\ sa /\ p.view # NoView => Tells(p.out[Len(p.out)], p.view)
       /\ p.last = IF Stays(v, c) THEN << p.out[Len(p.out)] >> ELSE << >>
  /\ v.action # NoAction =>
       \/ /\ p.view # NoView /\ p.view.action.n = v.action.n
          /\ OfAction(p.out, v.id, v.action.n) = {}
       \/ /\ p.view # NoView => p.view.action.n # v.action.n
          /\ OfAction(p.out, v.id, v.action.n) = {1} /\ Len(p.out) > 1
          /\ p.out[Len(p.out)].actions > v.actions

LEMMA ViewStep ==
  ASSUME NEW v \in View, NEW c \in Cmds, NEW sa \in BOOLEAN, Sound(v), v.id # << 0, 0 >>
  PROVE  Processed1(v, c, sa, ProcessView(v, c, sa))
<1>1. PICK r : r = ForwardedAfterHandler(HandledAfterAction(ForwardToAction(v, ActionEvents(v, c), c), c), c)
  OBVIOUS
<1>2. PICK p : p = ProcessView(v, c, sa)
  OBVIOUS
<1>3. /\ Follows(v, r)
      /\ (r.view.active <=> Stays(v, c)) /\ (v.active /\ ~ Stays(v, c) => r.due)
      /\ v.active /\ c.op = "StartView" => r.due
      /\ (r.view.initialised <=> v.initialised \/ (v.active /\ c.op = "StartView" /\ c.key = v.key))
      /\ r.view.active \/ r.view.pending # {} => Sound(r.view)
      /\ \E rest \in Seq(MinorOf(v.id)) : r.out = ActionEvents(v, c) \o rest
      /\ Ended(v, c) => /\ r.view.action.n # v.action.n /\ r.view.actions > v.actions /\ r.due
      /\ ~ Ended(v, c) /\ v.action # NoAction => r.view.action.n = v.action.n
  <2>1. HandledBy(v, c, r)
    BY <1>1, Handling, Zenon
  <2> QED
    BY <2>1 DEF HandledBy
<1> DEFINE w == r.view
           o == r.out
           e == ViewEvent(w, sa)
           open == w.active \/ w.pending # {}
           u == [w EXCEPT !.sent = @ + 1]
<1>4. w \in View /\ o \in Seq(DetailOf(v.id)) /\ r.due \in BOOLEAN /\ (~ r.due => o = << >>)
      /\ w.id = v.id /\ w.key = v.key /\ w.sent = v.sent
  BY <1>3 DEF Follows
<1>5. p = Finished(r, sa)
  BY <1>1, <1>2 DEF ProcessView
<1>6. w # NoView
  BY <1>4 DEF NoView
<1>7. CASE ~ r.due
  <2>1. open /\ Sound(w)
    <3>1. w.active = v.active /\ v.pending \subseteq w.pending
      BY <1>3, <1>7 DEF Follows
    <3> QED
      BY <1>3, <3>1 DEF Sound
  <2>2. p.view = w /\ p.out = << >> /\ p.last = << >>
    <3>1. p = [view |-> [w EXCEPT !.sent = @ + Len(<< >>)], out |-> o \o << >>, last |-> << >>]
      BY <1>5, <1>7, <2>1 DEF Finished
    <3>2. o \o << >> = << >>
      BY <1>4, <1>7
    <3>3. [w EXCEPT !.sent = @ + Len(<< >>)] = w
      <4>1. w \in View /\ Len(<< >>) = 0
        BY <1>4
      <4> HIDE DEF w
      <4>2. w.sent + Len(<< >>) = w.sent
        BY <4>1 DEF View
      <4> QED
        BY <4>1, <4>2 DEF View
    <3> QED
      BY <3>1, <3>2, <3>3
  <2>3. \A t : Tells(t, v) => Tells(t, w)
    <3>1. /\ w.actions = v.actions /\ w.errors = v.errors
          /\ w.resources = v.resources /\ w.longTasks = v.longTasks
      BY <1>3, <1>7 DEF Follows
    <3> HIDE DEF w
    <3> QED
      BY <1>4, <3>1 DEF Tells
  <2>4. v.action # NoAction => w.action.n = v.action.n /\ OfAction(p.out, v.id, v.action.n) = {}
    BY <1>3, <1>7, <2>2 DEF OfAction
  <2>5. p.out \in Seq(EventOf(v.id)) /\ \A k \in DOMAIN p.out : FALSE
    BY <2>2
  <2> QED
    BY <1>3, <1>4, <1>6, <1>7, <2>1, <2>2, <2>3, <2>4, <2>5, <1>2 DEF Processed1
<1>8. CASE r.due
  <2>1. p = [view |-> IF open THEN [w EXCEPT !.sent = @ + Len(<< e >>)] ELSE NoView,
             out |-> o \o << e >>, last |-> IF w.active THEN << e >> ELSE << >>]
    BY <1>5, <1>8 DEF Finished
  <2>2. [w EXCEPT !.sent = @ + Len(<< e >>)] = u
    OBVIOUS
  <2>3. p.view = (IF open THEN u ELSE NoView) /\ p.out = o \o << e >>
        /\ p.last = IF w.active THEN << e >> ELSE << >>
    BY <2>1, <2>2
  <2>4. e \in Update /\ e \in EventOf(v.id) /\ e.sessionActive = sa /\ (e.active <=> open)
        /\ e.type = "view" /\ e.actions = w.actions
    BY <1>4 DEF ViewEvent, View, Update, EventOf
  <2>5. u \in View /\ u.id = v.id /\ u.key = v.key /\ u.active = w.active /\ u.initialised = w.initialised
        /\ u.action = w.action /\ u.pending = w.pending /\ u.opened = w.opened /\ u.sent = w.sent + 1
        /\ u.actions = w.actions /\ u.errors = w.errors /\ u.resources = w.resources
        /\ u.longTasks = w.longTasks
    <3> HIDE DEF w
    <3>1. w.sent + 1 \in Nat
      BY <1>4 DEF View
    <3> QED
      BY <1>4, <3>1 DEF View
  <2>6. sa /\ open => Tells(e, u)
    <3>1. w.sent \in Nat
      BY <1>4 DEF View
    <3>2. u.sent > 0 /\ u.sent - 1 = w.sent
      BY <2>5, <3>1
    <3>3. ASSUME sa, open
          PROVE  e = [type |-> "view", view |-> u.id, key |-> u.key, version |-> u.sent - 1,
                      actions |-> u.actions, errors |-> u.errors,
                      resources |-> u.resources, longTasks |-> u.longTasks,
                      active |-> TRUE, sessionActive |-> TRUE]
      <4>1. sa = TRUE /\ (w.active \/ w.pending # {}) = TRUE
        BY <3>3
      <4>2. e = [type |-> "view", view |-> w.id, key |-> w.key, version |-> w.sent,
                 actions |-> w.actions, errors |-> w.errors,
                 resources |-> w.resources, longTasks |-> w.longTasks,
                 active |-> TRUE, sessionActive |-> TRUE]
        BY <4>1 DEF ViewEvent
      <4> QED
        BY <1>4, <2>5, <3>2, <4>2
    <3> QED
      BY <3>2, <3>3 DEF Tells
  <2>7. u # NoView
    BY <2>5 DEF NoView
  <2>8. Sound(w) => Sound(u)
    BY <2>5 DEF Sound
  <2> HIDE DEF e, u
  <2>9. /\ p.out \in Seq(EventOf(v.id)) /\ Len(o) \in Nat /\ Len(p.out) = Len(o) + 1
        /\ DOMAIN p.out = 1 .. Len(o) + 1
        /\ p.out[Len(o) + 1] = e
        /\ \A k \in 1 .. Len(o) : p.out[k] = o[k] /\ o[k] \in DetailOf(v.id)
        /\ p.out # << >>
    <3>1. o \in Seq(EventOf(v.id)) /\ << e >> \in Seq(EventOf(v.id)) /\ Len(<< e >>) = 1 /\ << e >>[1] = e
      BY <1>4, <2>4 DEF EventOf
    <3>2. Len(o) \in Nat /\ \A k \in 1 .. Len(o) : o[k] \in DetailOf(v.id)
      BY <1>4
    <3> DEFINE x == << e >>
    <3> HIDE DEF o, x
    <3>3. /\ o \o x \in Seq(EventOf(v.id)) /\ Len(o \o x) = Len(o) + Len(x)
          /\ \A k \in 1 .. Len(o) + Len(x) : (o \o x)[k] = IF k <= Len(o) THEN o[k] ELSE x[k - Len(o)]
      BY <3>1, ConcatProperties DEF x
    <3>4. Len(x) = 1 /\ x[1] = e /\ p.out = o \o x
      BY <2>3, <3>1 DEF x, o
    <3> QED
      BY <3>2, <3>3, <3>4
  <2>10. \A k \in DOMAIN p.out : p.out[k].type = "view" <=> k = Len(p.out)
    <3>1. \A d \in DetailOf(v.id) : d.type # "view"
      BY DEF DetailOf, Detail
    <3> QED
      BY <2>4, <2>9, <3>1
  <2>11. PICK rest \in Seq(MinorOf(v.id)) : o = ActionEvents(v, c) \o rest
    BY <1>3
  <2>12. /\ \A x \in MinorOf(v.id) : x.type = "action" => x.action = 0
         /\ Len(rest) \in Nat /\ \A k \in 1 .. Len(rest) : rest[k] \in MinorOf(v.id)
         /\ rest \in Seq(Detail)
    BY DEF MinorOf, DetailOf
  <2>13. v.action # NoAction => v.action.n \in Nat /\ v.action.n > 0
    BY DEF View, Action
  <2>14. v.action # NoAction /\ ~ Ended(v, c) => OfAction(p.out, v.id, v.action.n) = {}
    <3> SUFFICES ASSUME v.action # NoAction, ~ Ended(v, c)
                 PROVE  OfAction(p.out, v.id, v.action.n) = {}
      OBVIOUS
    <3>1. ActionEvents(v, c) = << >>
      BY ActionStep
    <3>2. o = rest
      BY <2>11, <2>12, <3>1, ConcatEmptySeq
    <3>3. \A k \in DOMAIN p.out : ~ (p.out[k].type = "action" /\ p.out[k].action = v.action.n)
      BY <2>4, <2>9, <2>12, <2>13, <3>2
    <3> QED
      BY <3>3 DEF OfAction
  <2>15. Ended(v, c) => OfAction(p.out, v.id, v.action.n) = {1} /\ Len(p.out) > 1
    <3> SUFFICES ASSUME Ended(v, c)
                 PROVE  OfAction(p.out, v.id, v.action.n) = {1} /\ Len(p.out) > 1
      OBVIOUS
    <3> DEFINE t == ActionEvents(v, c)
    <3>1. /\ t # << >> /\ Len(t) = 1 /\ t \in Seq(Detail) /\ t[1].type = "action"
          /\ t[1].view = v.id /\ t[1].action = v.action.n
      BY ActionStep
    <3> HIDE DEF t
    <3>2. o = t \o rest
      BY <2>11 DEF t
    <3>3. Len(o) = 1 + Len(rest) /\ \A k \in 1 .. 1 + Len(rest) : o[k] = IF k <= 1 THEN t[k] ELSE rest[k - 1]
      <4>1. /\ Len(t \o rest) = Len(t) + Len(rest)
            /\ \A k \in 1 .. Len(t) + Len(rest) :
                 (t \o rest)[k] = IF k <= Len(t) THEN t[k] ELSE rest[k - Len(t)]
        BY <2>12, <3>1, ConcatProperties
      <4> QED
        BY <3>1, <3>2, <4>1
    <3>4. v.action # NoAction
      BY DEF Ended
    <3>5. \A k \in DOMAIN p.out : p.out[k].type = "action" /\ p.out[k].action = v.action.n => k = 1
      <4> SUFFICES ASSUME NEW k \in DOMAIN p.out, k # 1, p.out[k].type = "action"
                   PROVE  p.out[k].action # v.action.n
        OBVIOUS
      <4>1. k \in 2 .. Len(o)
        BY <2>4, <2>9
      <4>2. k - 1 \in 1 .. Len(rest) /\ p.out[k] = rest[k - 1]
        BY <2>9, <2>12, <3>3, <4>1
      <4> QED
        BY <2>12, <2>13, <3>4, <4>2
    <3>6. p.out[1] = t[1] /\ 1 \in DOMAIN p.out /\ Len(p.out) > 1
      BY <2>9, <2>12, <3>3
    <3> QED
      BY <3>1, <3>5, <3>6 DEF OfAction
  <2>16. p.out # << >> =>
           /\ p.out[Len(p.out)] \in Update /\ p.out[Len(p.out)].sessionActive = sa
           /\ (p.out[Len(p.out)].active <=> p.view # NoView)
           /\ sa /\ p.view # NoView => Tells(p.out[Len(p.out)], p.view)
           /\ p.last = IF Stays(v, c) THEN << p.out[Len(p.out)] >> ELSE << >>
    BY <1>3, <2>3, <2>4, <2>6, <2>7, <2>9
  <2>17. v.action # NoAction =>
           \/ /\ p.view # NoView /\ p.view.action.n = v.action.n
              /\ OfAction(p.out, v.id, v.action.n) = {}
           \/ /\ p.view # NoView => p.view.action.n # v.action.n
              /\ OfAction(p.out, v.id, v.action.n) = {1} /\ Len(p.out) > 1
              /\ p.out[Len(p.out)].actions > v.actions
    <3>1. CASE Ended(v, c)
      <4>1. p.view # NoView => p.view.action.n # v.action.n
        BY <1>3, <2>3, <2>5, <3>1
      <4>2. p.out[Len(p.out)].actions > v.actions
        BY <1>3, <2>4, <2>9, <3>1
      <4> QED
        BY <2>15, <3>1, <4>1, <4>2
    <3>2. CASE ~ Ended(v, c) /\ v.action # NoAction
      <4>1. r.view.action.n = v.action.n /\ v.action.n > 0
        BY <1>3, <2>13, <3>2
      <4>2. open
        <5>1. v.active
          BY <3>2 DEF Sound
        <5>2. c.op \notin {"StopSession", "StartView", "StopView"}
          BY <3>2 DEF Ended, ActionEnds
        <5> QED
          BY <1>3, <5>1, <5>2 DEF Stays
      <4> QED
        BY <2>3, <2>5, <2>7, <2>14, <3>2, <4>1, <4>2
    <3> QED
      BY <3>1, <3>2
  <2>18. p.view # NoView =>
           /\ p.view \in View /\ Sound(p.view)
           /\ p.view.id = v.id /\ p.view.key = v.key
           /\ (p.view.active <=> Stays(v, c))
           /\ (p.view.initialised <=> v.initialised \/ (v.active /\ c.op = "StartView" /\ c.key = v.key))
    BY <1>3, <1>4, <2>3, <2>5, <2>8
  <2>19. p.view = NoView => ~ Stays(v, c) /\ p.out # << >>
    BY <1>3, <2>3, <2>7, <2>9
  <2> QED
    BY <1>2, <2>9, <2>10, <2>16, <2>17, <2>18, <2>19 DEF Processed1
<1> QED
  BY <1>4, <1>7, <1>8

-----------------------------------------------------------------------------
(* The concatenation of the sequences of a row: FlattenSeq. *)

LEMMA LeastIndex ==
  ASSUME NEW n \in Nat, NEW I \in SUBSET (1 .. n), I # {}
  PROVE  \E i \in I : \A j \in I : i <= j
<1>1. I \subseteq Nat
  OBVIOUS
<1>2. PICK i \in I : \A j \in I : ~ (<< j, i >> \in OpToRel(<, Nat))
  BY <1>1, NatLessThanWellFounded, WFMin
<1>3. \A j \in I : ~ (j < i)
  BY <1>1, <1>2 DEF OpToRel
<1> QED
  BY <1>1, <1>3

\* f has the concatenations of the first members of s, up to the m-th.
Joins(E, s, f, m) ==
  /\ f \in [1 .. m -> Seq(E)]
  /\ \A i \in 1 .. m : f[i] = IF i = 1 THEN s[i] ELSE f[i - 1] \o s[i]

LEMMA JoinsExist ==
  ASSUME NEW n \in Nat, NEW E, NEW s \in [1 .. n -> Seq(E)], n > 0
  PROVE  \E f : Joins(E, s, f, n)
<1> DEFINE B == {m \in 1 .. n : ~ \E f : Joins(E, s, f, m)}
<1>1. SUFFICES ASSUME B # {} PROVE FALSE
  <2>1. n \in 1 .. n
    OBVIOUS
  <2> QED
    BY <2>1
<1>2. PICK m \in B : \A j \in B : m <= j
  BY <1>1, LeastIndex
<1>3. m \in 1 .. n
  BY <1>2
<1>4. CASE m = 1
  <2> DEFINE f == [i \in 1 .. 1 |-> s[1]]
  <2>1. s[1] \in Seq(E)
    BY <1>3, <1>4
  <2>2. Joins(E, s, f, 1)
    BY <2>1 DEF Joins
  <2> QED
    BY <1>2, <1>4, <2>2
<1>5. CASE m > 1
  <2>1. m - 1 \in 1 .. n /\ m - 1 \notin B
    <3>1. m - 1 \in 1 .. n /\ ~ (m <= m - 1)
      BY <1>3, <1>5
    <3> HIDE DEF B
    <3> QED
      BY <1>2, <3>1
  <2>2. PICK f : Joins(E, s, f, m - 1)
    BY <2>1
  <2>3. f \in [1 .. m - 1 -> Seq(E)] /\ s[m] \in Seq(E) /\ f[m - 1] \in Seq(E)
    BY <1>3, <1>5, <2>2 DEF Joins
  <2> DEFINE x == f[m - 1] \o s[m]
             g == [i \in 1 .. m |-> IF i = m THEN x ELSE f[i]]
  <2>4. x \in Seq(E)
    BY <2>3, ConcatProperties
  <2>5. g[m] = f[m - 1] \o s[m] /\ \A i \in 1 .. m - 1 : g[i] = f[i]
    BY <1>3
  <2>6. g \in [1 .. m -> Seq(E)]
    <3> HIDE DEF x
    <3> QED
      BY <1>3, <2>3, <2>4
  <2> HIDE DEF g
  <2>7. \A i \in 1 .. m - 1 : f[i] = IF i = 1 THEN s[i] ELSE f[i - 1] \o s[i]
    BY <2>2 DEF Joins
  <2>8. ASSUME NEW i \in 1 .. m
        PROVE  g[i] = IF i = 1 THEN s[i] ELSE g[i - 1] \o s[i]
    <3>1. CASE i = m
      <4>1. i # 1 /\ i - 1 \in 1 .. m - 1
        BY <1>3, <1>5, <3>1
      <4> QED
        BY <2>5, <3>1, <4>1
    <3>2. CASE i # m /\ i = 1
      BY <1>3, <1>5, <2>5, <2>7, <3>2
    <3>3. CASE i # m /\ i # 1
      <4>1. i \in 1 .. m - 1 /\ i - 1 \in 1 .. m - 1
        BY <1>3, <3>3
      <4>2. f[i] = f[i - 1] \o s[i]
        BY <2>7, <3>3, <4>1
      <4>3. g[i] = f[i] /\ g[i - 1] = f[i - 1]
        BY <2>5, <4>1
      <4> QED
        BY <3>3, <4>2, <4>3
    <3> QED
      BY <3>1, <3>2, <3>3
  <2>9. Joins(E, s, g, m)
    BY <2>6, <2>8 DEF Joins
  <2> QED
    BY <1>2, <2>9
<1> QED
  BY <1>3, <1>4, <1>5

LEMMA FlattenJoins ==
  ASSUME NEW n \in Nat, NEW E, NEW s \in [1 .. n -> Seq(E)], n > 0
  PROVE  \E f : Joins(E, s, f, n) /\ FlattenSeq(s) = f[n]
<1>1. PICK f : Joins(E, s, f, n)
  BY JoinsExist
<1>2. Len(s) = n
  <2>1. s \in Seq(Seq(E))
    BY SeqDef
  <2> QED
    BY <2>1
<1> DEFINE R(h) == h = [i \in 1 .. n |-> IF i = 1 THEN s[i] ELSE h[i - 1] \o s[i]]
<1>3. R(f)
  BY <1>1 DEF Joins
<1>4. R(CHOOSE h : R(h))
  BY <1>3
<1> DEFINE g == CHOOSE h : R(h)
<1>5. FlattenSeq(s) = g[n]
  BY <1>2 DEF FlattenSeq
<1> HIDE DEF g
<1>6. /\ \A i \in 1 .. n : g[i] = IF i = 1 THEN s[i] ELSE g[i - 1] \o s[i]
      /\ \A i \in 1 .. n : f[i] = IF i = 1 THEN s[i] ELSE f[i - 1] \o s[i]
  BY <1>1, <1>4 DEF g, Joins
<1> DEFINE B == {i \in 1 .. n : g[i] # f[i]}
<1>7. B = {}
  <2>1. SUFFICES ASSUME B # {} PROVE FALSE
    OBVIOUS
  <2>2. PICK m \in B : \A j \in B : m <= j
    BY <2>1, LeastIndex
  <2>3. m \in 1 .. n /\ g[m] # f[m]
    BY <2>2
  <2>4. m # 1
    BY <1>6, <2>3
  <2>5. m - 1 \in 1 .. n /\ m - 1 \notin B
    BY <2>2, <2>3, <2>4
  <2>6. g[m - 1] = f[m - 1]
    BY <2>5
  <2> QED
    BY <1>6, <2>3, <2>4, <2>6
<1>8. g[n] = f[n]
  BY <1>7
<1> QED
  BY <1>1, <1>5, <1>8

\* Where in the whole each event of a row of sequences is.
Placed(s, n, all, off) ==
  /\ off \in [1 .. n -> Nat]
  /\ \A i \in 1 .. n : \A j \in 1 .. Len(s[i]) :
       off[i] + j \in 1 .. Len(all) /\ all[off[i] + j] = s[i][j]
  /\ \A x \in 1 .. Len(all) :
       \E i \in 1 .. n : \E j \in 1 .. Len(s[i]) : x = off[i] + j

LEMMA Flattened ==
  ASSUME NEW n \in Nat, NEW E, NEW s \in [1 .. n -> Seq(E)], n > 0
  PROVE  /\ FlattenSeq(s) \in Seq(E)
         /\ \E off : Placed(s, n, FlattenSeq(s), off)
<1>1. PICK f : Joins(E, s, f, n) /\ FlattenSeq(s) = f[n]
  BY FlattenJoins
<1>2. f \in [1 .. n -> Seq(E)] /\ \A i \in 1 .. n : f[i] = IF i = 1 THEN s[i] ELSE f[i - 1] \o s[i]
  BY <1>1 DEF Joins
<1> DEFINE P(m, off) == /\ off \in [1 .. m -> Nat]
                        /\ \A i \in 1 .. m : \A j \in 1 .. Len(s[i]) :
                             off[i] + j \in 1 .. Len(f[m]) /\ f[m][off[i] + j] = s[i][j]
                        /\ \A x \in 1 .. Len(f[m]) :
                             \E i \in 1 .. m : \E j \in 1 .. Len(s[i]) : x = off[i] + j
           B == {m \in 1 .. n : ~ \E off : P(m, off)}
<1>3. B = {}
  <2>1. SUFFICES ASSUME B # {} PROVE FALSE
    OBVIOUS
  <2>2. PICK m \in B : \A j \in B : m <= j
    BY <2>1, LeastIndex
  <2>3. m \in 1 .. n /\ ~ \E off : P(m, off)
    BY <2>2
  <2>4. s[m] \in Seq(E) /\ Len(s[m]) \in Nat
    BY <2>3
  <2>5. CASE m = 1
    <3> DEFINE off == [i \in 1 .. 1 |-> 0]
    <3>1. f[1] = s[1]
      BY <1>2, <2>3, <2>5
    <3>2. P(1, off)
      BY <2>4, <2>5, <3>1
    <3> QED
      BY <2>3, <2>5, <3>2
  <2>6. CASE m # 1
    <3>1. m - 1 \in 1 .. n /\ m - 1 \notin B
      <4>1. m - 1 \in 1 .. n /\ ~ (m <= m - 1)
        BY <2>3, <2>6
      <4> HIDE DEF B
      <4> QED
        BY <2>2, <4>1
    <3>2. PICK o : P(m - 1, o)
      BY <3>1
    <3>3. f[m] = f[m - 1] \o s[m] /\ f[m - 1] \in Seq(E) /\ Len(f[m - 1]) \in Nat
      <4>1. f[m - 1] \in Seq(E)
        BY <1>2, <3>1
      <4>2. f[m] = f[m - 1] \o s[m]
        BY <1>2, <2>3, <2>6
      <4> QED
        BY <4>1, <4>2, LenProperties
    <3>4. /\ Len(f[m]) = Len(f[m - 1]) + Len(s[m])
          /\ \A x \in 1 .. Len(f[m - 1]) + Len(s[m]) :
               f[m][x] = IF x <= Len(f[m - 1]) THEN f[m - 1][x] ELSE s[m][x - Len(f[m - 1])]
      BY <2>4, <3>3, ConcatProperties
    <3> DEFINE off == [i \in 1 .. m |-> IF i = m THEN Len(f[m - 1]) ELSE o[i]]
    <3>5. off \in [1 .. m -> Nat]
      BY <2>3, <3>2, <3>3
    <3>6. off[m] = Len(f[m - 1]) /\ \A i \in 1 .. m - 1 : off[i] = o[i] /\ o[i] \in Nat
      BY <2>3, <3>2
    <3> HIDE DEF off
    <3>7. ASSUME NEW i \in 1 .. m, NEW j \in 1 .. Len(s[i])
          PROVE  off[i] + j \in 1 .. Len(f[m]) /\ f[m][off[i] + j] = s[i][j]
      <4>1. CASE i = m
        <5>1. j \in 1 .. Len(s[m]) /\ off[i] + j = Len(f[m - 1]) + j
          BY <3>6, <3>7, <4>1
        <5>2. Len(f[m - 1]) + j \in 1 .. Len(f[m - 1]) + Len(s[m]) /\ ~ (Len(f[m - 1]) + j <= Len(f[m - 1]))
              /\ (Len(f[m - 1]) + j) - Len(f[m - 1]) = j
          BY <2>4, <3>3, <5>1
        <5> QED
          BY <3>4, <4>1, <5>1, <5>2
      <4>2. CASE i # m
        <5>1. i \in 1 .. m - 1
          BY <2>3, <4>2
        <5>2. off[i] = o[i] /\ o[i] + j \in 1 .. Len(f[m - 1]) /\ f[m - 1][o[i] + j] = s[i][j]
          BY <3>2, <3>6, <5>1
        <5>3. o[i] + j \in 1 .. Len(f[m - 1]) + Len(s[m]) /\ o[i] + j <= Len(f[m - 1])
          BY <2>4, <3>3, <5>2
        <5> QED
          BY <3>4, <5>2, <5>3
      <4> QED
        BY <4>1, <4>2
    <3>8. ASSUME NEW x \in 1 .. Len(f[m])
          PROVE  \E i \in 1 .. m : \E j \in 1 .. Len(s[i]) : x = off[i] + j
      <4>1. CASE x <= Len(f[m - 1])
        <5>1. x \in 1 .. Len(f[m - 1])
          BY <3>3, <4>1
        <5>2. PICK i \in 1 .. m - 1 : \E j \in 1 .. Len(s[i]) : x = o[i] + j
          BY <3>2, <5>1
        <5>3. i \in 1 .. m /\ off[i] = o[i]
          BY <2>3, <3>6
        <5> QED
          BY <5>2, <5>3
      <4>2. CASE ~ (x <= Len(f[m - 1]))
        <5>1. x - Len(f[m - 1]) \in 1 .. Len(s[m]) /\ x = off[m] + (x - Len(f[m - 1]))
          BY <2>4, <3>3, <3>4, <3>6, <4>2
        <5>2. m \in 1 .. m
          BY <2>3
        <5> QED
          BY <5>1, <5>2
      <4> QED
        BY <4>1, <4>2
    <3>9. P(m, off)
      BY <3>5, <3>7, <3>8
    <3> QED
      BY <2>3, <3>9
  <2> QED
    BY <2>5, <2>6
<1>4. n \in 1 .. n
  OBVIOUS
<1>5. PICK off : P(n, off)
  <2> HIDE DEF P
  <2> QED
    BY <1>3, <1>4
<1>6. Placed(s, n, f[n], off)
  BY <1>5 DEF Placed
<1> QED
  BY <1>1, <1>2, <1>4, <1>6

-----------------------------------------------------------------------------
(* Sessions. *)

ViewSlots  == 1 .. Capacity
AnyKey == ViewKeys \union {NoKey}

Session == [id : Nat, sampled : BOOLEAN, age : Nat, idle : Nat,
            ended : {"no", "inactive", "exceeded", "stopped"},
            predecessor : AnyKey, onClose : AnyKey, ttid : Nat, pendingTTFD : Nat,
            opened : Nat, views : [ViewSlots -> View \union {NoView}]]

\* The views of a session are numbered as they start, and none of them is there twice.
Numbered(s) ==
  /\ \A i \in Open(s) : /\ Sound(s.views[i])
                        /\ s.views[i].id[1] = s.id
                        /\ s.views[i].id[2] \in 1 .. s.opened
  /\ \A i, j \in Open(s) : s.views[i].id = s.views[j].id => i = j

Scoped(s) == s \in Session /\ s.id > 0 /\ Numbered(s)

\* r is what Propagate makes of s, and d what it makes of the view in each slot.
Spread(s, c, r, d) ==
  /\ r.session = [s EXCEPT !.views = [i \in ViewSlots |-> d[i].view]]
  /\ \A i \in Open(s) : Processed1(s.views[i], c, s.ended = "no", d[i])
  /\ \A i \in ViewSlots \ Open(s) : d[i].view = NoView /\ d[i].out = << >> /\ d[i].last = << >>
  /\ r.out \in Seq(Event) /\ r.last \in Seq(Update)
  /\ \E off : Placed([i \in ViewSlots |-> d[i].out], Capacity, r.out, off)
  /\ \E off : Placed([i \in ViewSlots |-> d[i].last], Capacity, r.last, off)

LEMMA OpenViews ==
  ASSUME NEW s, Scoped(s), NEW i \in Open(s)
  PROVE  /\ i \in ViewSlots /\ s.views[i] \in View /\ Sound(s.views[i])
         /\ s.views[i].id \in Id /\ s.views[i].id # << 0, 0 >>
         /\ s.views[i].id = << s.id, s.views[i].id[2] >>
<1>1. i \in ViewSlots /\ s.views[i] # NoView
  BY DEF Open, ViewSlots
<1>2. s.views[i] \in View /\ s.id > 0 /\ s.id \in Nat
  BY <1>1 DEF Scoped, Session
<1>3. Sound(s.views[i]) /\ s.views[i].id[1] = s.id
  BY DEF Scoped, Numbered
<1>4. s.views[i].id \in Nat \X Nat
  BY <1>2 DEF View, Id
<1> QED
  BY <1>1, <1>2, <1>3, <1>4 DEF Id

LEMMA PropagateSpreads ==
  ASSUME NEW s, Scoped(s), NEW c \in Cmds
  PROVE  \E d : Spread(s, c, Propagate(s, c), d)
<1>1. PICK r : r = Propagate(s, c)
  OBVIOUS
<1>2. PICK sa : sa = (s.ended = "no")
  OBVIOUS
<1>3. PICK d : d = [i \in ViewSlots |-> IF i \in Open(s) THEN ProcessView(s.views[i], c, sa)
                                   ELSE [view |-> NoView, out |-> << >>, last |-> << >>]]
  OBVIOUS
<1> DEFINE os == [i \in ViewSlots |-> d[i].out]
           ls == [i \in ViewSlots |-> d[i].last]
<1>4. r.session = [s EXCEPT !.views = [i \in ViewSlots |-> d[i].view]] /\ r.out = FlattenSeq(os) /\ r.last = FlattenSeq(ls)
  <2>1. r = Gathered(s, d)
    BY <1>1, <1>2, <1>3 DEF Propagate, ViewSlots
  <2> QED
    BY <2>1 DEF Gathered, ViewSlots
<1>5. \A i \in ViewSlots \ Open(s) : d[i].view = NoView /\ d[i].out = << >> /\ d[i].last = << >>
  BY <1>3
<1>6. \A i \in Open(s) : Processed1(s.views[i], c, sa, d[i])
  <2> SUFFICES ASSUME NEW i \in Open(s) PROVE Processed1(s.views[i], c, sa, d[i])
    OBVIOUS
  <2>1. d[i] = ProcessView(s.views[i], c, sa)
    BY <1>3, OpenViews
  <2>2. s.views[i] \in View /\ Sound(s.views[i]) /\ s.views[i].id # << 0, 0 >> /\ sa \in BOOLEAN
    BY <1>2, OpenViews
  <2> QED
    BY <2>1, <2>2, ViewStep
<1>7. ASSUME NEW i \in ViewSlots
      PROVE  d[i].out \in Seq(Event) /\ d[i].last \in Seq(Update)
  <2>1. CASE i \notin Open(s)
    <3>1. d[i].out = << >> /\ d[i].last = << >>
      BY <1>5, <2>1
    <3>2. << >> \in Seq(Event) /\ << >> \in Seq(Update)
      OBVIOUS
    <3> QED
      BY <3>1, <3>2
  <2>2. CASE i \in Open(s)
    <3> DEFINE p == d[i]
    <3>1. /\ p.out \in Seq(EventOf(s.views[i].id)) /\ (p.out = << >> => p.last = << >>)
          /\ p.out # << >> => /\ p.out[Len(p.out)] \in Update
                              /\ p.last = << p.out[Len(p.out)] >> \/ p.last = << >>
      BY <1>6, <2>2 DEF Processed1
    <3>2. EventOf(s.views[i].id) \subseteq Event
      BY DEF EventOf, Event, DetailOf
    <3> HIDE DEF p
    <3>3. p.out \in Seq(Event)
      BY <3>1, <3>2
    <3>4. p.last \in Seq(Update)
      <4>1. \A x \in Update : << x >> \in Seq(Update)
        OBVIOUS
      <4>2. << >> \in Seq(Update)
        OBVIOUS
      <4> QED
        BY <3>1, <4>1, <4>2
    <3> QED
      BY <3>3, <3>4 DEF p
  <2> QED
    BY <2>1, <2>2
<1>8. os \in [ViewSlots -> Seq(Event)] /\ ls \in [ViewSlots -> Seq(Update)]
  BY <1>7
<1> HIDE DEF os, ls
<1>9. /\ r.out \in Seq(Event) /\ r.last \in Seq(Update)
      /\ \E off : Placed(os, Capacity, r.out, off)
      /\ \E off : Placed(ls, Capacity, r.last, off)
  BY <1>4, <1>8, Flattened, ArrayAssumption DEF ViewSlots
<1>10. Spread(s, c, r, d)
  BY <1>2, <1>4, <1>5, <1>6, <1>9 DEF Spread, os, ls
<1> QED
  BY <1>1, <1>10

\* What Propagate leaves of the views, and which of them are active.
ScopesSpread(s, c, r, d) ==
  /\ Scoped(r.session)
  /\ \A i \in ViewSlots : r.session.views[i] = d[i].view
  /\ Open(r.session) = {i \in Open(s) : d[i].view # NoView}
  /\ Active(r.session) = {i \in Open(s) : Stays(s.views[i], c)}
  /\ \A i \in Open(r.session) : /\ r.session.views[i].id = s.views[i].id
                                /\ r.session.views[i].key = s.views[i].key
  /\ r.session = [s EXCEPT !.views = r.session.views]

LEMMA SpreadScopes ==
  ASSUME NEW s, Scoped(s), NEW c \in Cmds, NEW r, NEW d, Spread(s, c, r, d)
  PROVE  ScopesSpread(s, c, r, d)
<1> DEFINE f == [i \in ViewSlots |-> d[i].view]
           t == r.session
<1>1. t = [s EXCEPT !.views = f] /\ s \in Session
  BY DEF Spread, Scoped
<1>2. \A i \in Open(s) : i \in ViewSlots /\ s.views[i] # NoView /\ Processed1(s.views[i], c, s.ended = "no", d[i])
  BY DEF Spread, Open, ViewSlots
<1>3. \A i \in ViewSlots \ Open(s) : d[i].view = NoView
  BY DEF Spread
<1>4. \A i \in Open(s) : d[i].view # NoView =>
        /\ d[i].view \in View /\ Sound(d[i].view)
        /\ d[i].view.id = s.views[i].id /\ d[i].view.key = s.views[i].key
        /\ (d[i].view.active <=> Stays(s.views[i], c))
  BY <1>2 DEF Processed1
<1>5. \A i \in Open(s) : d[i].view = NoView => ~ Stays(s.views[i], c)
  BY <1>2 DEF Processed1
<1>6. f \in [ViewSlots -> View \union {NoView}]
  <2>1. \A i \in ViewSlots : d[i].view \in View \union {NoView}
    BY <1>3, <1>4
  <2> QED
    BY <2>1
<1>7. \A i \in ViewSlots : f[i] = d[i].view
  OBVIOUS
<1> HIDE DEF f
<1>8. t \in Session /\ t.views = f /\ t.id = s.id /\ t.opened = s.opened
  BY <1>1, <1>6 DEF Session
<1>9. Open(t) = {i \in Open(s) : d[i].view # NoView}
  BY <1>2, <1>3, <1>7, <1>8 DEF Open, ViewSlots
<1>10. Active(t) = {i \in Open(s) : Stays(s.views[i], c)}
  BY <1>2, <1>4, <1>5, <1>7, <1>8, <1>9 DEF Active
<1>11. \A i \in Open(t) : /\ Sound(t.views[i]) /\ t.views[i].id = s.views[i].id
                          /\ t.views[i].key = s.views[i].key
  BY <1>2, <1>4, <1>7, <1>8, <1>9
<1>12. Scoped(t)
  <2>1. /\ \A i \in Open(s) : s.views[i].id[1] = s.id /\ s.views[i].id[2] \in 1 .. s.opened
        /\ \A i, j \in Open(s) : s.views[i].id = s.views[j].id => i = j
        /\ s.id > 0
    BY DEF Scoped, Numbered
  <2>2. Open(t) \subseteq Open(s)
    BY <1>9
  <2>3. Numbered(t)
    BY <1>8, <1>11, <2>1, <2>2 DEF Numbered
  <2> QED
    BY <1>8, <2>1, <2>3 DEF Scoped
<1> QED
  BY <1>1, <1>7, <1>8, <1>9, <1>10, <1>11, <1>12 DEF ScopesSpread

\* Where in r.out the events of each view are.
Where(s, r, d, off) ==
  /\ \A i \in Open(s) : \A j \in DOMAIN d[i].out :
       /\ off[i] + j \in DOMAIN r.out /\ r.out[off[i] + j] = d[i].out[j]
       /\ d[i].out[j].view = s.views[i].id
  /\ \A x \in DOMAIN r.out :
       \E i \in Open(s) : \E j \in DOMAIN d[i].out : x = off[i] + j /\ r.out[x] = d[i].out[j]
  /\ \A i \in Open(s) : off[i] \in Nat
  /\ \A i \in Open(s) : \A x \in DOMAIN r.out :
       r.out[x].view = s.views[i].id => \E j \in DOMAIN d[i].out : x = off[i] + j

LEMMA SpreadWhere ==
  ASSUME NEW s, Scoped(s), NEW c \in Cmds, NEW r, NEW d, Spread(s, c, r, d)
  PROVE  \E off : Where(s, r, d, off)
<1> DEFINE os == [i \in ViewSlots |-> d[i].out]
<1>1. PICK off : Placed(os, Capacity, r.out, off)
  BY DEF Spread
<1>2. \A i \in ViewSlots : os[i] = d[i].out
  OBVIOUS
<1> HIDE DEF os
<1>3. \A i \in Open(s) : i \in ViewSlots /\ d[i].out \in Seq(EventOf(s.views[i].id))
  BY DEF Spread, Open, ViewSlots, Processed1
<1>4. r.out \in Seq(Event)
  BY DEF Spread
<1>5. DOMAIN r.out = 1 .. Len(r.out) /\ \A i \in Open(s) : DOMAIN d[i].out = 1 .. Len(d[i].out)
  BY <1>3, <1>4
<1>6. \A i \in ViewSlots \ Open(s) : Len(d[i].out) = 0
  BY DEF Spread
<1>7. \A i \in Open(s) : \A j \in DOMAIN d[i].out : d[i].out[j].view = s.views[i].id
  <2> SUFFICES ASSUME NEW i \in Open(s), NEW j \in DOMAIN d[i].out
               PROVE  d[i].out[j].view = s.views[i].id
    OBVIOUS
  <2>1. d[i].out[j] \in EventOf(s.views[i].id)
    BY <1>3, <1>5
  <2> QED
    BY <2>1 DEF EventOf, DetailOf
<1>8. \A i \in Open(s) : \A j \in DOMAIN d[i].out :
        off[i] + j \in DOMAIN r.out /\ r.out[off[i] + j] = d[i].out[j]
  <2> SUFFICES ASSUME NEW i \in Open(s), NEW j \in DOMAIN d[i].out
               PROVE  off[i] + j \in DOMAIN r.out /\ r.out[off[i] + j] = d[i].out[j]
    OBVIOUS
  <2>1. i \in 1 .. Capacity /\ j \in 1 .. Len(os[i]) /\ os[i] = d[i].out
    BY <1>2, <1>3, <1>5 DEF ViewSlots
  <2>2. off[i] + j \in 1 .. Len(r.out) /\ r.out[off[i] + j] = os[i][j]
    BY <1>1, <2>1 DEF Placed
  <2> QED
    BY <1>5, <2>1, <2>2
<1>9. \A x \in DOMAIN r.out :
        \E i \in Open(s) : \E j \in DOMAIN d[i].out : x = off[i] + j /\ r.out[x] = d[i].out[j]
  <2> SUFFICES ASSUME NEW x \in DOMAIN r.out
               PROVE  \E i \in Open(s) : \E j \in DOMAIN d[i].out : x = off[i] + j /\ r.out[x] = d[i].out[j]
    OBVIOUS
  <2>1. PICK i \in ViewSlots : \E j \in 1 .. Len(os[i]) : x = off[i] + j
    BY <1>1, <1>5 DEF Placed, ViewSlots
  <2>2. i \in Open(s)
    BY <1>2, <1>6, <2>1
  <2>3. \E j \in DOMAIN d[i].out : x = off[i] + j
    BY <1>2, <1>5, <2>1, <2>2
  <2> QED
    BY <1>8, <2>2, <2>3
<1>10. \A i \in Open(s) : off[i] \in Nat
  BY <1>1, <1>3 DEF Placed, ViewSlots
<1>11. \A i, k \in Open(s) : s.views[i].id = s.views[k].id => i = k
  BY DEF Scoped, Numbered
<1>12. \A i \in Open(s) : \A x \in DOMAIN r.out :
         r.out[x].view = s.views[i].id => \E j \in DOMAIN d[i].out : x = off[i] + j
  <2> SUFFICES ASSUME NEW i \in Open(s), NEW x \in DOMAIN r.out, r.out[x].view = s.views[i].id
               PROVE  \E j \in DOMAIN d[i].out : x = off[i] + j
    OBVIOUS
  <2>1. PICK k \in Open(s) : \E j \in DOMAIN d[k].out : x = off[k] + j /\ r.out[x] = d[k].out[j]
    BY <1>9
  <2>2. s.views[k].id = s.views[i].id
    BY <1>7, <2>1
  <2> QED
    BY <1>11, <2>1, <2>2
<1> QED
  <2>1. \A i \in Open(s) : \A j \in DOMAIN d[i].out :
          /\ off[i] + j \in DOMAIN r.out /\ r.out[off[i] + j] = d[i].out[j]
          /\ d[i].out[j].view = s.views[i].id
    BY <1>7, <1>8
  <2>2. Where(s, r, d, off)
    BY <1>9, <1>10, <1>12, <2>1, Zenon DEF Where
  <2> QED
    BY <2>2

\* The last event written for a view is the one it wrote last.
LEMMA SpreadLatest ==
  ASSUME NEW s, Scoped(s), NEW c \in Cmds, NEW r, NEW d, Spread(s, c, r, d), NEW i \in Open(s)
  PROVE  /\ d[i].out = << >> => ViewEvents(r.out, s.views[i].id) = {}
         /\ d[i].out # << >> =>
              /\ ViewEvents(r.out, s.views[i].id) # {}
              /\ \A before : Latest(before, r.out, s.views[i].id) = d[i].out[Len(d[i].out)]
<1> DEFINE id == s.views[i].id
           p  == d[i]
           n  == Len(p.out)
           V  == ViewEvents(r.out, id)
<1>1. PICK off : Where(s, r, d, off)
  BY SpreadWhere
<1>2. p.out \in Seq(EventOf(id)) /\ \A k \in DOMAIN p.out : p.out[k].type = "view" <=> k = Len(p.out)
  BY DEF Spread, Processed1
<1>3. n \in Nat /\ DOMAIN p.out = 1 .. n /\ (p.out # << >> => n > 0) /\ r.out \in Seq(Event)
  BY <1>2 DEF Spread
<1>4. /\ \A j \in DOMAIN p.out : off[i] + j \in DOMAIN r.out /\ r.out[off[i] + j] = p.out[j] /\ p.out[j].view = id
      /\ \A x \in DOMAIN r.out : r.out[x].view = id => \E j \in DOMAIN p.out : x = off[i] + j
      /\ off[i] \in Nat
  BY <1>1 DEF Where
<1> HIDE DEF p, id
<1>5. V = IF p.out = << >> THEN {} ELSE {off[i] + n}
  <2>1. \A x \in V : x = off[i] + n /\ p.out # << >>
    BY <1>2, <1>3, <1>4 DEF ViewEvents
  <2>2. p.out # << >> => off[i] + n \in V
    BY <1>2, <1>3, <1>4 DEF ViewEvents
  <2> QED
    BY <2>1, <2>2
<1>6. ASSUME p.out # << >>, NEW before
      PROVE  Latest(before, r.out, id) = p.out[n]
  <2>1. off[i] + n \in Nat /\ V = {off[i] + n} /\ r.out[off[i] + n] = p.out[n]
    <3>1. n \in DOMAIN p.out
      BY <1>3, <1>6
    <3>2. off[i] + n \in Nat /\ r.out[off[i] + n] = p.out[n]
      BY <1>3, <1>4, <3>1
    <3> QED
      BY <1>5, <1>6, <3>2
  <2>2. (CHOOSE x \in V : \A j \in V : j <= x) = off[i] + n
    BY <2>1
  <2> QED
    BY <2>1, <2>2 DEF Latest
<1> QED
  BY <1>5, <1>6 DEF p, id

\* What is told to the other features is the last event of a view that is active.
LEMMA SpreadLast ==
  ASSUME NEW s, Scoped(s), NEW c \in Cmds, NEW r, NEW d, Spread(s, c, r, d)
  PROVE  /\ r.last # << >> =>
              \E i \in Active(r.session) :
                d[i].out # << >> /\ r.last[Len(r.last)] = d[i].out[Len(d[i].out)]
         /\ r.last = << >> => \A i \in Active(r.session) : d[i].out = << >>
<1> DEFINE ls == [i \in ViewSlots |-> d[i].last]
<1>1. PICK off : Placed(ls, Capacity, r.last, off)
  BY DEF Spread
<1>2. \A i \in ViewSlots : ls[i] = d[i].last
  OBVIOUS
<1> HIDE DEF ls
<1>3. \A i \in Open(s) :
        /\ d[i].out = << >> => d[i].last = << >>
        /\ d[i].out # << >> => d[i].last = IF Stays(s.views[i], c) THEN << d[i].out[Len(d[i].out)] >> ELSE << >>
  BY DEF Spread, Processed1
<1>4. Active(r.session) = {i \in Open(s) : Stays(s.views[i], c)}
  <2>1. ScopesSpread(s, c, r, d)
    BY SpreadScopes
  <2> QED
    BY <2>1 DEF ScopesSpread
<1>5. \A i \in ViewSlots \ Open(s) : d[i].last = << >>
  BY DEF Spread
<1>6. r.last \in Seq(Update) /\ Len(r.last) \in Nat /\ (r.last # << >> => Len(r.last) > 0)
  BY DEF Spread
<1>7. \A i \in Open(s) : i \in ViewSlots
  BY DEF Open, ViewSlots
<1>8. ASSUME r.last # << >>
      PROVE  \E i \in Active(r.session) :
                d[i].out # << >> /\ r.last[Len(r.last)] = d[i].out[Len(d[i].out)]
  <2>1. Len(r.last) \in 1 .. Len(r.last)
    BY <1>6, <1>8
  <2>2. PICK i \in ViewSlots : \E j \in 1 .. Len(ls[i]) : Len(r.last) = off[i] + j
    BY <1>1, <2>1 DEF Placed, ViewSlots
  <2>3. PICK j \in 1 .. Len(ls[i]) : Len(r.last) = off[i] + j
    BY <2>2
  <2>4. r.last[off[i] + j] = ls[i][j]
    BY <1>1, <2>3 DEF Placed, ViewSlots
  <2>5. ls[i] # << >>
    BY <2>3
  <2>6. i \in Open(s) /\ Stays(s.views[i], c) /\ d[i].out # << >>
        /\ ls[i] = << d[i].out[Len(d[i].out)] >>
    BY <1>2, <1>3, <1>5, <2>5
  <2>7. j = 1
    BY <2>3, <2>6
  <2> QED
    BY <1>4, <2>3, <2>4, <2>6, <2>7
<1>9. ASSUME r.last = << >>, NEW i \in Active(r.session)
      PROVE  d[i].out = << >>
  <2>1. i \in Open(s) /\ Stays(s.views[i], c) /\ i \in ViewSlots
    BY <1>4, <1>7
  <2>2. SUFFICES ASSUME d[i].out # << >> PROVE FALSE
    OBVIOUS
  <2>3. ls[i] = << d[i].out[Len(d[i].out)] >>
    BY <1>2, <1>3, <2>1, <2>2
  <2>4. 1 \in 1 .. Len(ls[i])
    BY <2>3
  <2>5. off[i] + 1 \in 1 .. Len(r.last)
    BY <1>1, <2>1, <2>4 DEF Placed, ViewSlots
  <2> QED
    BY <1>9, <2>5
<1> QED
  BY <1>8, <1>9

LEMMA GreatestIndex ==
  ASSUME NEW n \in Nat, NEW I \in SUBSET (1 .. n), I # {}
  PROVE  \E i \in I : \A j \in I : j <= i
<1> DEFINE J == {k \in 1 .. n : n + 1 - k \in I}
<1>1. J \in SUBSET (1 .. n)
  OBVIOUS
<1>2. \A i \in I : i \in 1 .. n /\ n + 1 - i \in 1 .. n /\ n + 1 - (n + 1 - i) = i
  OBVIOUS
<1>3. \A i \in I : n + 1 - i \in J
  BY <1>2
<1>4. J # {}
  BY <1>3
<1> HIDE DEF J
<1>5. PICK k \in J : \A j \in J : k <= j
  BY <1>1, <1>4, LeastIndex
<1>6. k \in 1 .. n /\ n + 1 - k \in I
  BY <1>5 DEF J
<1>7. ASSUME NEW j \in I PROVE j <= n + 1 - k
  <2>1. k <= n + 1 - j
    BY <1>3, <1>5
  <2> QED
    BY <1>2, <1>6, <2>1
<1> QED
  BY <1>6, <1>7

\* Of two commands one after the other, the later one has the last word on a view.
LEMMA LatestConcat ==
  ASSUME NEW o1 \in Seq(Event), NEW o2 \in Seq(Event), NEW before, NEW id
  PROVE  Latest(before, o1 \o o2, id) = Latest(Latest(before, o1, id), o2, id)
<1> DEFINE o  == o1 \o o2
           m  == Len(o1)
           V1 == ViewEvents(o1, id)
           V2 == ViewEvents(o2, id)
           V  == ViewEvents(o, id)
<1>1. /\ m \in Nat /\ Len(o2) \in Nat /\ Len(o) = m + Len(o2)
      /\ DOMAIN o1 = 1 .. m /\ DOMAIN o2 = 1 .. Len(o2) /\ DOMAIN o = 1 .. m + Len(o2)
      /\ \A x \in 1 .. m : o[x] = o1[x]
      /\ \A x \in 1 .. Len(o2) : o[m + x] = o2[x]
  OBVIOUS
<1> HIDE DEF o, m
<1>2. V1 \subseteq 1 .. m /\ V2 \subseteq 1 .. Len(o2)
  BY <1>1 DEF ViewEvents
<1>3. V1 = {x \in V : x <= m}
  BY <1>1 DEF ViewEvents
<1>4. V = V1 \union {m + x : x \in V2}
  <2>1. ASSUME NEW x \in V PROVE x \in V1 \union {m + y : y \in V2}
    <3>1. x \in 1 .. m + Len(o2) /\ o[x].type = "view" /\ o[x].view = id
      BY <1>1 DEF ViewEvents
    <3>2. CASE x <= m
      BY <1>1, <3>1, <3>2 DEF ViewEvents
    <3>3. CASE x > m
      <4>1. x - m \in 1 .. Len(o2) /\ m + (x - m) = x
        BY <1>1, <3>1, <3>3
      <4>2. x - m \in V2
        BY <1>1, <3>1, <4>1 DEF ViewEvents
      <4> QED
        BY <4>1, <4>2
    <3> QED
      BY <1>1, <3>1, <3>2, <3>3
  <2>2. \A x \in V1 : x \in V
    BY <1>3
  <2>3. ASSUME NEW x \in V2 PROVE m + x \in V
    <3>1. x \in 1 .. Len(o2) /\ o2[x].type = "view" /\ o2[x].view = id
      BY <1>1 DEF ViewEvents
    <3>2. m + x \in 1 .. m + Len(o2) /\ o[m + x] = o2[x]
      BY <1>1, <3>1
    <3> QED
      BY <1>1, <3>1, <3>2 DEF ViewEvents
  <2> QED
    BY <2>1, <2>2, <2>3
<1> HIDE DEF V1, V2, V
<1>5. CASE V2 = {}
  <2>1. V = V1
    BY <1>4, <1>5
  <2>2. V1 # {} => (CHOOSE i \in V1 : \A j \in V1 : j <= i) \in 1 .. m
    BY <1>1, <1>2, GreatestIndex
  <2> QED
    BY <1>1, <1>5, <2>1, <2>2 DEF Latest, V, V1, V2, o
<1>6. CASE V2 # {}
  <2>1. PICK x \in V2 : \A j \in V2 : j <= x
    BY <1>1, <1>2, <1>6, GreatestIndex
  <2>2. x \in 1 .. Len(o2) /\ m + x \in V
    BY <1>2, <1>4, <2>1
  <2>3. \A j \in V : j \in Nat /\ j <= m + x
    BY <1>1, <1>2, <1>4, <2>1
  <2>4. (CHOOSE i \in V2 : \A j \in V2 : j <= i) = x
    <3>1. \A j \in V2 : j \in Nat
      BY <1>1, <1>2
    <3>2. \A i \in V2 : (\A j \in V2 : j <= i) => i = x
      BY <2>1, <3>1
    <3> QED
      BY <2>1, <3>2
  <2>5. (CHOOSE i \in V : \A j \in V : j <= i) = m + x
    BY <1>1, <2>2, <2>3
  <2>6. o[m + x] = o2[x]
    BY <1>1, <2>2
  <2>7. Latest(before, o, id) = o[m + x]
    BY <2>2, <2>5 DEF Latest, V
  <2>8. Latest(Latest(before, o1, id), o2, id) = o2[x]
    BY <1>6, <2>4 DEF Latest, V2
  <2> QED
    BY <2>6, <2>7, <2>8 DEF o
<1> QED
  BY <1>5, <1>6

\* No view of s has started before the one in slot k.
First(s, k) == \A j \in Open(s) : s.views[j].age <= s.views[k].age

\* Slot by slot there is a view that has been open for as long as any so far.
LEMMA OldestIsFirst ==
  ASSUME NEW s, Scoped(s), Open(s) # {}
  PROVE  Oldest(s) \in Open(s) /\ First(s, Oldest(s))
<1> DEFINE Bounds(m, i) == \A j \in Open(s) : j <= m => s.views[j].age <= s.views[i].age
           B == {m \in 1 .. Capacity : ~ \E i \in Open(s) : Bounds(m, i)}
<1>1. \A i \in Open(s) : i \in 1 .. Capacity /\ s.views[i].age \in Nat
  <2> SUFFICES ASSUME NEW i \in Open(s) PROVE i \in 1 .. Capacity /\ s.views[i].age \in Nat
    OBVIOUS
  <2>1. i \in ViewSlots /\ s.views[i] \in View
    BY OpenViews
  <2> QED
    BY <2>1 DEF ViewSlots, View
<1>2. B = {}
  <2>1. SUFFICES ASSUME B # {} PROVE FALSE
    OBVIOUS
  <2>2. PICK m \in B : \A n \in B : m <= n
    BY <2>1, LeastIndex, ArrayAssumption
  <2>3. m \in 1 .. Capacity /\ \A i \in Open(s) : ~ Bounds(m, i)
    BY <2>2
  <2>4. \E i \in Open(s) : Bounds(m - 1, i)
    <3>1. CASE m = 1
      BY <1>1, <3>1
    <3>2. CASE m # 1
      <4>1. m - 1 \in 1 .. Capacity /\ ~ (m <= m - 1)
        BY <2>3, <3>2, ArrayAssumption
      <4>2. m - 1 \notin B
        BY <2>2, <4>1
      <4> QED
        BY <4>1, <4>2
    <3> QED
      BY <3>1, <3>2
  <2>5. PICK i \in Open(s) : Bounds(m - 1, i)
    BY <2>4
  <2>6. \A j \in Open(s) : j <= m => j = m \/ j <= m - 1
    BY <1>1, <2>3
  <2>7. m \in Open(s) /\ ~ (s.views[m].age <= s.views[i].age)
    BY <2>3, <2>5, <2>6
  <2>8. Bounds(m, m)
    <3>1. SUFFICES ASSUME NEW j \in Open(s), j <= m PROVE s.views[j].age <= s.views[m].age
      OBVIOUS
    <3>2. CASE j = m
      BY <1>1, <3>2
    <3>3. CASE j <= m - 1
      <4>1. s.views[j].age <= s.views[i].age
        BY <2>5, <3>3
      <4> QED
        BY <1>1, <2>7, <4>1
    <3> QED
      BY <2>6, <3>1, <3>2, <3>3
  <2> QED
    BY <2>3, <2>7, <2>8
<1>3. Capacity \in 1 .. Capacity
  BY ArrayAssumption
<1>4. PICK i \in Open(s) : Bounds(Capacity, i)
  BY <1>2, <1>3
<1> DEFINE I == {k \in Open(s) : First(s, k)}
<1>5. First(s, i)
  BY <1>1, <1>4 DEF First
<1>6. I \in SUBSET (1 .. Capacity) /\ I # {}
  BY <1>1, <1>5
<1>7. Oldest(s) = FirstOf(I)
  BY DEF Oldest, First
<1> HIDE DEF I
<1>8. FirstOf(I) \in I
  BY <1>6, LeastIndex, ArrayAssumption DEF FirstOf
<1> QED
  BY <1>7, <1>8 DEF I

\* Where a view that starts goes: slot k, which is free, or that of a view that none has
\* started before.
Pushed(s, key, p, k) ==
  /\ k \in ViewSlots
  /\ k \in Open(s) => Open(s) = ViewSlots /\ First(s, k)
  /\ Scoped(p)
  /\ p = [s EXCEPT !.views = p.views, !.opened = s.opened + 1]
  /\ Open(p) = Open(s) \union {k}
  /\ \A i \in ViewSlots \ {k} : p.views[i] = s.views[i]
  /\ p.views[k] = NewView(<< s.id, s.opened + 1 >>, key)

LEMMA PushPushes ==
  ASSUME NEW s, Scoped(s), NEW key \in ViewKeys
  PROVE  \E k : Pushed(s, key, Push(s, key), k)
<1> DEFINE id == << s.id, s.opened + 1 >>
           k  == SlotFor(s)
           w  == NewView(id, key)
           f  == [s.views EXCEPT ![k] = w]
           p  == Push(s, key)
<1>1. s \in Session /\ s.id \in Nat /\ s.id > 0 /\ s.opened \in Nat /\ s.views \in [ViewSlots -> View \union {NoView}]
  BY DEF Scoped, Session
<1>2. w \in View /\ w # NoView /\ w.id = id /\ w.active /\ Sound(w)
  <2>1. id \in Id
    BY <1>1 DEF Id
  <2>2. w \in View /\ w.id = id /\ w.active /\ w.action = NoAction
    BY <2>1 DEF NewView, View
  <2>3. w.id # NoView.id
    BY <1>1, <2>2 DEF NoView
  <2> QED
    BY <2>2, <2>3 DEF Sound
<1>3. \A i \in Open(s) : i \in ViewSlots /\ s.views[i].id[1] = s.id /\ s.views[i].id[2] \in 1 .. s.opened /\ Sound(s.views[i])
  BY DEF Scoped, Numbered, Open, ViewSlots
<1>4. /\ k \in ViewSlots
      /\ k \in Open(s) => Open(s) = ViewSlots /\ First(s, k)
  <2>1. CASE Open(s) # ViewSlots
    <3> DEFINE I == ViewSlots \ Open(s)
    <3>1. I \in SUBSET (1 .. Capacity) /\ I # {}
      BY <1>3, <2>1 DEF ViewSlots
    <3>2. k = FirstOf(I)
      BY <2>1 DEF SlotFor, ViewSlots
    <3> HIDE DEF I
    <3>3. FirstOf(I) \in I
      BY <3>1, LeastIndex, ArrayAssumption DEF FirstOf
    <3> QED
      BY <3>2, <3>3 DEF I
  <2>2. CASE Open(s) = ViewSlots
    <3>1. 1 \in Open(s)
      BY <2>2, ArrayAssumption DEF ViewSlots
    <3>2. k = Oldest(s)
      BY <2>2 DEF SlotFor, ViewSlots
    <3> QED
      BY <2>2, <3>1, <3>2, OldestIsFirst
  <2> QED
    BY <2>1, <2>2
<1> HIDE DEF k
<1>5. p = [[s EXCEPT !.views = f] EXCEPT !.opened = s.opened + 1]
  BY DEF Push, k
<1> HIDE DEF w
<1>6. f \in [ViewSlots -> View \union {NoView}] /\ f[k] = w /\ \A i \in ViewSlots \ {k} : f[i] = s.views[i]
  BY <1>1, <1>2, <1>4
<1> HIDE DEF f, p
<1>7. p \in Session /\ p.views = f /\ p.id = s.id /\ p.opened = s.opened + 1
  <2> DEFINE q == [s EXCEPT !.views = f]
  <2>1. q \in Session /\ q.views = f /\ q.id = s.id /\ q.opened = s.opened
    BY <1>1, <1>6 DEF Session
  <2>2. p = [q EXCEPT !.opened = s.opened + 1]
    BY <1>5
  <2> HIDE DEF q
  <2> QED
    BY <1>1, <2>1, <2>2 DEF Session
<1>8. p = [s EXCEPT !.views = p.views, !.opened = s.opened + 1]
  BY <1>5, <1>7
<1>9. Open(p) = Open(s) \union {k}
  BY <1>2, <1>4, <1>6, <1>7 DEF Open, ViewSlots
<1>10. Numbered(p)
  <2>1. \A i \in Open(p) : /\ Sound(p.views[i])
                           /\ p.views[i].id[1] = p.id
                           /\ p.views[i].id[2] \in 1 .. p.opened
    BY <1>1, <1>2, <1>3, <1>4, <1>6, <1>7, <1>9
  <2>2. \A i, j \in Open(s) : s.views[i].id = s.views[j].id => i = j
    BY DEF Scoped, Numbered
  <2>3. \A i \in Open(s) : s.views[i].id # id
    BY <1>1, <1>3
  <2>4. \A i, j \in Open(p) : p.views[i].id = p.views[j].id => i = j
    BY <1>2, <1>3, <1>4, <1>6, <1>7, <1>9, <2>2, <2>3
  <2> QED
    BY <2>1, <2>4 DEF Numbered
<1>11. Scoped(p)
  BY <1>1, <1>7, <1>10 DEF Scoped
<1>12. Pushed(s, key, p, k)
  BY <1>4, <1>6, <1>7, <1>8, <1>9, <1>11 DEF Pushed, w
<1> QED
  BY <1>12 DEF p

Ids(s) == {s.views[i].id : i \in Open(s)}

\* v and its action are among the views w of a session.
GoesOn(v, w) ==
  \E i \in Open(w) : w.views[i].id = v.id /\ w.views[i].action.n = v.action.n

\* The action of v is reported when it ends, before the view event that counts it.
Reports(v, w, written) ==
  v.action # NoAction =>
    IF GoesOn(v, w) THEN OfAction(written, v.id, v.action.n) = {}
    ELSE \E i \in OfAction(written, v.id, v.action.n) :
           /\ OfAction(written, v.id, v.action.n) = {i}
           /\ \E j \in DOMAIN written : /\ j > i /\ written[j].type = "view"
                                        /\ written[j].view = v.id
                                        /\ written[j].actions > v.actions

\* What a command that all views hear makes of one of them, v.
Fated(s, v, c, r) ==
  /\ Reports(v, r.session, r.out)
  /\ v.id \notin Ids(r.session) => \A before : ~ Latest(before, r.out, v.id).active
  /\ s.ended # "no" /\ v.active /\ c.op = "StopSession" =>
       \A before : ~ Latest(before, r.out, v.id).sessionActive

LEMMA PropagateFates ==
  ASSUME NEW s, Scoped(s), NEW c \in Cmds, NEW r, NEW d, Spread(s, c, r, d), NEW i \in Open(s)
  PROVE  Fated(s, s.views[i], c, r)
<1>1. PICK v : v = s.views[i]
  OBVIOUS
<1>2. PICK p : p = d[i]
  OBVIOUS
<1>3. Processed1(v, c, s.ended = "no", p)
  BY <1>1, <1>2 DEF Spread
<1>4. ScopesSpread(s, c, r, d)
  BY SpreadScopes
<1>5. PICK off : Where(s, r, d, off)
  BY SpreadWhere
<1>6. PICK id : id = v.id
  OBVIOUS
<1>7. /\ \A j \in DOMAIN p.out : off[i] + j \in DOMAIN r.out /\ r.out[off[i] + j] = p.out[j] /\ p.out[j].view = id
      /\ \A x \in DOMAIN r.out : r.out[x].view = id => \E j \in DOMAIN p.out : x = off[i] + j
      /\ off[i] \in Nat
  BY <1>1, <1>2, <1>5, <1>6 DEF Where
<1>8. p.out \in Seq(EventOf(id)) /\ DOMAIN p.out = 1 .. Len(p.out) /\ Len(p.out) \in Nat
  BY <1>3, <1>6 DEF Processed1
<1>9. /\ i \in ViewSlots /\ r.session.views[i] = p.view
      /\ i \in Open(r.session) <=> p.view # NoView
      /\ p.view # NoView => p.view.id = id
      /\ \A j \in Open(r.session) : j \in Open(s) /\ r.session.views[j].id = s.views[j].id
  <2>1. i \in ViewSlots
    BY DEF Open, ViewSlots
  <2>2. p.view # NoView => p.view.id = id
    BY <1>3, <1>6 DEF Processed1
  <2> QED
    BY <1>2, <1>4, <2>1, <2>2 DEF ScopesSpread
<1>10. \A j \in Open(s) : s.views[j].id = id => i = j
  BY <1>1, <1>6 DEF Scoped, Numbered
<1>11. id \notin Ids(r.session) => p.view = NoView
  BY <1>9 DEF Ids
<1>12. GoesOn(v, r.session) <=> p.view # NoView /\ p.view.action.n = v.action.n
  BY <1>6, <1>9, <1>10 DEF GoesOn
<1>13. v.action # NoAction =>
         OfAction(r.out, id, v.action.n) = {off[i] + j : j \in OfAction(p.out, id, v.action.n)}
  BY <1>7 DEF OfAction
<1>14. ASSUME v.action # NoAction
       PROVE  \/ GoesOn(v, r.session) /\ OfAction(r.out, id, v.action.n) = {}
              \/ /\ ~ GoesOn(v, r.session) /\ OfAction(r.out, id, v.action.n) = {off[i] + 1}
                 /\ Len(p.out) > 1 /\ p.out[Len(p.out)].actions > v.actions
  <2>1. \/ /\ p.view # NoView /\ p.view.action.n = v.action.n
           /\ OfAction(p.out, id, v.action.n) = {}
        \/ /\ p.view # NoView => p.view.action.n # v.action.n
           /\ OfAction(p.out, id, v.action.n) = {1} /\ Len(p.out) > 1
           /\ p.out[Len(p.out)].actions > v.actions
    BY <1>3, <1>6, <1>14 DEF Processed1
  <2> QED
    BY <1>12, <1>13, <1>14, <2>1
<1>15. Reports(v, r.session, r.out)
  <2> SUFFICES ASSUME v.action # NoAction, ~ GoesOn(v, r.session)
               PROVE  \E k \in OfAction(r.out, id, v.action.n) :
                        /\ OfAction(r.out, id, v.action.n) = {k}
                        /\ \E j \in DOMAIN r.out : /\ j > k /\ r.out[j].type = "view"
                                                   /\ r.out[j].view = id
                                                   /\ r.out[j].actions > v.actions
    BY <1>6, <1>14 DEF Reports
  <2>1. /\ OfAction(r.out, id, v.action.n) = {off[i] + 1}
        /\ Len(p.out) > 1 /\ p.out[Len(p.out)].actions > v.actions
    BY <1>14
  <2>2. Len(p.out) \in DOMAIN p.out
    BY <1>8, <2>1
  <2>3. p.out[Len(p.out)].type = "view"
    BY <1>3, <2>2 DEF Processed1
  <2>4. PICK n : n = off[i] + Len(p.out)
    OBVIOUS
  <2>5. n \in DOMAIN r.out /\ r.out[n] = p.out[Len(p.out)] /\ r.out[n].view = id
    BY <1>7, <2>2, <2>4
  <2>6. n > off[i] + 1
    BY <1>7, <1>8, <2>1, <2>4
  <2> QED
    BY <2>1, <2>3, <2>5, <2>6
<1>16. p.out # << >> => \A before : Latest(before, r.out, id) = p.out[Len(p.out)]
  BY <1>1, <1>2, <1>6, SpreadLatest
<1>17. p.view = NoView => p.out # << >> /\ ~ p.out[Len(p.out)].active
  BY <1>3 DEF Processed1
<1>18. s.ended # "no" /\ v.active /\ c.op = "StopSession" => p.out # << >> /\ ~ p.out[Len(p.out)].sessionActive
  BY <1>3 DEF Processed1, Stays
<1> QED
  BY <1>1, <1>6, <1>11, <1>15, <1>16, <1>17, <1>18 DEF Fated

\* What has been written of each view, after more is written.
Hears(t, written) == [id \in Id |-> Latest(t[id], written, id)]

\* What the other features hold of the active view, after they are told more.
Newest(held, last) == IF last = << >> THEN held ELSE last[Len(last)]

\* At most one view of s is active.  t tells all its views, and `held' the active one.
Told1(s, t, held) ==
  /\ \A i, j \in Active(s) : i = j
  /\ \A i \in Open(s) : s.views[i].initialised /\ Tells(t[s.views[i].id], s.views[i])
  /\ \A i \in Active(s) : held = t[s.views[i].id]

\* The same, but for a view that this command starts.
Ready(s, c, t, held) ==
  /\ \A i \in Open(s) :
       LET v == s.views[i]
       IN  \/ /\ v.initialised /\ Tells(t[v.id], v)
              /\ v.active => held = t[v.id]
           \/ c.op = "StartView" /\ v.active /\ ~ v.initialised /\ v.key = c.key
  /\ \A i, j \in Open(s) : Stays(s.views[i], c) /\ Stays(s.views[j], c) => i = j

\* w is s after its views have heard c: some may be closed, and those stay active that do.
Heard1(s, c, w) ==
  /\ Scoped(w)
  /\ w = [s EXCEPT !.views = w.views]
  /\ Open(w) \subseteq Open(s)
  /\ Active(w) = {i \in Open(s) : Stays(s.views[i], c)}
  /\ \A i \in Open(w) : w.views[i].id = s.views[i].id /\ w.views[i].key = s.views[i].key

\* What a session that goes on makes of a command that its views hear.
Answers(s, c, t, held, r) ==
  /\ Heard1(s, c, r.session)
  /\ Told1(r.session, Hears(t, r.out), Newest(held, r.last))
  /\ r.last # << >> => Active(r.session) # {}
  /\ r.out \in Seq(Event)
  /\ \A x \in DOMAIN r.out : /\ r.out[x].type \notin {"ttid", "ttfd", "operation"}
                             /\ \E i \in Open(s) : r.out[x].view = s.views[i].id

LEMMA PropagateAnswers ==
  ASSUME NEW s, Scoped(s), s.ended = "no", NEW c \in Cmds, NEW r, NEW d, Spread(s, c, r, d),
         NEW t, NEW held, Ready(s, c, t, held)
  PROVE  Answers(s, c, t, held, r)
<1>1. ScopesSpread(s, c, r, d)
  BY SpreadScopes
<1>2. /\ Scoped(r.session)
      /\ \A i \in ViewSlots : r.session.views[i] = d[i].view
      /\ Open(r.session) = {i \in Open(s) : d[i].view # NoView}
      /\ Active(r.session) = {i \in Open(s) : Stays(s.views[i], c)}
      /\ \A i \in Open(r.session) : /\ r.session.views[i].id = s.views[i].id
                                    /\ r.session.views[i].key = s.views[i].key
      /\ r.session = [s EXCEPT !.views = r.session.views]
  BY <1>1 DEF ScopesSpread
<1>3. \A i \in Open(s) : i \in ViewSlots /\ s.views[i] \in View /\ s.views[i].id \in Id
  BY OpenViews
<1>4. Heard1(s, c, r.session)
  BY <1>2 DEF Heard1
<1>5. \A i \in Open(s) : Processed1(s.views[i], c, TRUE, d[i])
  BY DEF Spread
<1>6. \A i \in Open(s) :
        /\ d[i].out = << >> => ViewEvents(r.out, s.views[i].id) = {}
        /\ d[i].out # << >> =>
             \A before : Latest(before, r.out, s.views[i].id) = d[i].out[Len(d[i].out)]
  BY SpreadLatest
<1>7. \A i \in Open(s) :
        Hears(t, r.out)[s.views[i].id]
          = IF d[i].out = << >> THEN t[s.views[i].id] ELSE d[i].out[Len(d[i].out)]
  <2> SUFFICES ASSUME NEW i \in Open(s)
               PROVE  Hears(t, r.out)[s.views[i].id]
                        = IF d[i].out = << >> THEN t[s.views[i].id] ELSE d[i].out[Len(d[i].out)]
    OBVIOUS
  <2>1. Hears(t, r.out)[s.views[i].id] = Latest(t[s.views[i].id], r.out, s.views[i].id)
    BY <1>3 DEF Hears
  <2>2. d[i].out = << >> => Latest(t[s.views[i].id], r.out, s.views[i].id) = t[s.views[i].id]
    BY <1>6 DEF Latest
  <2> QED
    BY <1>6, <2>1, <2>2
<1>8. ASSUME NEW i \in Open(r.session)
      PROVE  /\ r.session.views[i].initialised
             /\ Tells(Hears(t, r.out)[r.session.views[i].id], r.session.views[i])
  <2>1. PICK v : v = s.views[i]
    OBVIOUS
  <2>2. PICK p : p = d[i]
    OBVIOUS
  <2>3. i \in Open(s) /\ i \in ViewSlots /\ r.session.views[i] = p.view /\ p.view # NoView /\ p.view.id = v.id
    BY <1>2, <1>3, <2>1, <2>2
  <2>4. Processed1(v, c, TRUE, p)
    BY <1>5, <2>1, <2>2, <2>3
  <2>5. \/ v.initialised /\ Tells(t[v.id], v)
        \/ c.op = "StartView" /\ v.active /\ ~ v.initialised /\ v.key = c.key
    BY <2>1, <2>3 DEF Ready
  <2>6. p.view.initialised
    BY <2>3, <2>4, <2>5 DEF Processed1
  <2>7. p.out = << >> => v.initialised /\ Tells(t[v.id], v)
    BY <2>4, <2>5 DEF Processed1
  <2>8. p.out = << >> => Tells(t[v.id], p.view)
    BY <2>4, <2>7 DEF Processed1
  <2>9. p.out # << >> => Tells(p.out[Len(p.out)], p.view)
    BY <2>3, <2>4 DEF Processed1
  <2>10. Hears(t, r.out)[v.id] = IF p.out = << >> THEN t[v.id] ELSE p.out[Len(p.out)]
    BY <1>7, <2>1, <2>2, <2>3
  <2> QED
    BY <2>3, <2>6, <2>8, <2>9, <2>10
<1>9. /\ r.last # << >> =>
           \E i \in Active(r.session) :
             d[i].out # << >> /\ r.last[Len(r.last)] = d[i].out[Len(d[i].out)]
      /\ r.last = << >> => \A i \in Active(r.session) : d[i].out = << >>
  BY SpreadLast
<1>10. \A i, j \in Active(r.session) : i = j
  BY <1>2 DEF Ready
<1>11. ASSUME NEW i \in Active(r.session)
       PROVE  Newest(held, r.last) = Hears(t, r.out)[r.session.views[i].id]
  <2>1. i \in Open(s) /\ Stays(s.views[i], c) /\ i \in Open(r.session)
    BY <1>2 DEF Active
  <2>2. r.session.views[i].id = s.views[i].id /\ s.views[i].active
    BY <1>2, <2>1 DEF Stays
  <2>3. CASE r.last = << >>
    <3>1. d[i].out = << >>
      BY <1>9, <2>3
    <3>2. ~ (c.op = "StartView" /\ s.views[i].active)
      BY <1>5, <2>1, <3>1 DEF Processed1
    <3>3. held = t[s.views[i].id]
      BY <2>1, <2>2, <3>2 DEF Ready
    <3> QED
      BY <1>7, <2>1, <2>2, <2>3, <3>1, <3>3 DEF Newest
  <2>4. CASE r.last # << >>
    <3>1. d[i].out # << >> /\ r.last[Len(r.last)] = d[i].out[Len(d[i].out)]
      BY <1>9, <1>10, <2>4
    <3> QED
      BY <1>7, <2>1, <2>2, <2>4, <3>1 DEF Newest
  <2> QED
    BY <2>3, <2>4
<1>12. PICK off : Where(s, r, d, off)
  BY SpreadWhere
<1>13. ASSUME NEW x \in DOMAIN r.out
       PROVE  /\ r.out[x].type \notin {"ttid", "ttfd", "operation"}
              /\ \E i \in Open(s) : r.out[x].view = s.views[i].id
  <2>1. PICK i \in Open(s) : \E j \in DOMAIN d[i].out : r.out[x] = d[i].out[j] /\ d[i].out[j].view = s.views[i].id
    BY <1>12 DEF Where
  <2>2. PICK j \in DOMAIN d[i].out : r.out[x] = d[i].out[j] /\ d[i].out[j].view = s.views[i].id
    BY <2>1
  <2>3. d[i].out \in Seq(EventOf(s.views[i].id))
    BY <1>5 DEF Processed1
  <2>4. r.out[x] \in EventOf(s.views[i].id)
    BY <2>2, <2>3
  <2>5. r.out[x].type \notin {"ttid", "ttfd", "operation"}
    BY <2>4 DEF EventOf, DetailOf, Detail, Update
  <2> QED
    BY <2>2, <2>5
<1>14. Told1(r.session, Hears(t, r.out), Newest(held, r.last))
  BY <1>8, <1>10, <1>11 DEF Told1
<1>15. (r.last # << >> => Active(r.session) # {}) /\ r.out \in Seq(Event)
  BY <1>9 DEF Spread
<1> QED
  BY <1>4, <1>13, <1>14, <1>15 DEF Answers

\* A view of s that a view which starts takes the slot of.
Purges(s, c, id) ==
  /\ Open(s) = ViewSlots /\ c.op = "StartView"
  /\ \E k \in Open(s) : s.views[k].id = id /\ First(s, k)

\* v goes on, or its end is told, or it is purged; and its action is reported, or purged too.
Lived(s, v, c, r) ==
  /\ v.id \notin Ids(r.session) =>
       Purges(s, c, v.id) \/ \A before : ~ Latest(before, r.out, v.id).active
  /\ \/ Reports(v, r.session, r.out)
     \/ Purges(s, c, v.id) /\ OfAction(r.out, v.id, v.action.n) = {}

\* What a session that goes on makes of a command.
Continued(s, c, t, held, r) ==
  /\ Scoped(r.session) /\ r.session.id = s.id
  /\ Told1(r.session, Hears(t, r.out), Newest(held, r.last))
  /\ r.last # << >> => Active(r.session) # {}
  /\ r.out \in Seq(Event) /\ \A x \in DOMAIN r.out : SessionOf(r.out[x]) = s.id
  /\ \A i \in Open(s) : Lived(s, s.views[i], c, r)

\* w is s but for what is none of its views.
SameViews(s, w) == w \in Session /\ w.id = s.id /\ w.views = s.views /\ w.opened = s.opened

LEMMA SameViewsSame ==
  ASSUME NEW s, Scoped(s), NEW w, SameViews(s, w)
  PROVE  Scoped(w) /\ Open(w) = Open(s) /\ Active(w) = Active(s)
<1>1. Open(w) = Open(s)
  BY DEF Open, SameViews
<1>2. Active(w) = Active(s)
  BY <1>1 DEF Active, SameViews
<1>3. Numbered(w)
  BY <1>1 DEF Scoped, Numbered, SameViews
<1> QED
  BY <1>1, <1>2, <1>3 DEF Scoped, SameViews

\* The views that are active after the views of s, and one that starts, have heard c.
Activated(s, c, w) ==
  /\ c.op = "StartView" => Active(w) # {} /\ \A i \in Active(w) : w.views[i].key = c.key
  /\ c.op # "StartView" =>
       /\ Active(w) = {i \in Open(s) : Stays(s.views[i], c)}
       /\ \A i \in Active(w) : w.views[i].key = s.views[i].key

Passed(s, w, c, t, held, r) ==
  /\ Continued(s, c, t, held, r)
  /\ r.session = [w EXCEPT !.views = r.session.views, !.opened = r.session.opened]
  /\ r.session.opened = IF c.op = "StartView" THEN s.opened + 1 ELSE s.opened
  /\ \A x \in DOMAIN r.out : r.out[x].type # "ttfd"
  /\ Activated(s, c, r.session)

LEMMA OpenedReady ==
  ASSUME NEW s, Scoped(s), NEW c \in Cmds, NEW t, NEW held, Told1(s, t, held)
  PROVE  /\ c.op # "StartView" => Ready(s, c, t, held)
         /\ \A p, k : c.op = "StartView" /\ Pushed(s, c.key, p, k) => Ready(p, c, t, held)
<1>1. ASSUME c.op # "StartView" PROVE Ready(s, c, t, held)
  <2>1. \A i \in Open(s) : Stays(s.views[i], c) => i \in Active(s)
    BY DEF Stays, Active
  <2>2. \A i \in Open(s) : s.views[i].active => i \in Active(s)
    BY DEF Active
  <2> QED
    BY <2>1, <2>2 DEF Ready, Told1
<1>2. ASSUME c.op = "StartView", NEW p, NEW k, Pushed(s, c.key, p, k)
      PROVE  Ready(p, c, t, held)
  <2>1. /\ Open(p) = Open(s) \union {k}
        /\ \A i \in ViewSlots \ {k} : p.views[i] = s.views[i]
        /\ p.views[k] = NewView(<< s.id, s.opened + 1 >>, c.key)
    BY <1>2 DEF Pushed
  <2>2. \A i \in Open(s) : i \in ViewSlots /\ (s.views[i].active => i \in Active(s))
    BY DEF Open, ViewSlots, Active
  <2>3. p.views[k].active /\ ~ p.views[k].initialised /\ p.views[k].key = c.key
    BY <2>1 DEF NewView
  <2>4. \A i \in Open(p) \ {k} : /\ p.views[i].initialised /\ Tells(t[p.views[i].id], p.views[i])
                                 /\ p.views[i].active => held = t[p.views[i].id]
    BY <2>1, <2>2 DEF Told1
  <2>5. \A i \in Open(p) : Stays(p.views[i], c) => i = k
    BY <1>2, <2>4 DEF Stays
  <2> QED
    BY <1>2, <2>3, <2>4, <2>5 DEF Ready
<1> QED
  BY <1>1, <1>2

\* A command that is no StartView.
LEMMA PassedOn ==
  ASSUME NEW s, Scoped(s), NEW c \in Cmds, NEW t, NEW held, Told1(s, t, held),
         NEW w, SameViews(s, w), w.ended = "no", c.op # "StartView",
         NEW r, r = Propagate(w, c)
  PROVE  Passed(s, w, c, t, held, r)
<1>1. Scoped(w) /\ Open(w) = Open(s) /\ Active(w) = Active(s) /\ w.views = s.views /\ w.opened = s.opened /\ w.id = s.id
  BY SameViewsSame DEF SameViews
<1>2. Told1(w, t, held)
  BY <1>1 DEF Told1
<1>3. PICK d : Spread(w, c, r, d)
  BY <1>1, PropagateSpreads
<1>4. Ready(w, c, t, held)
  BY <1>1, <1>2, OpenedReady
<1>5. Answers(w, c, t, held, r)
  BY <1>1, <1>3, <1>4, PropagateAnswers
<1>6. Heard1(w, c, r.session)
  BY <1>5 DEF Answers
<1>7. /\ Scoped(r.session)
      /\ r.session = [w EXCEPT !.views = r.session.views]
      /\ Open(r.session) \subseteq Open(w)
      /\ Active(r.session) = {i \in Open(w) : Stays(w.views[i], c)}
      /\ \A i \in Open(r.session) : r.session.views[i].key = w.views[i].key
  BY <1>6 DEF Heard1
<1>8. w \in Session
  BY DEF SameViews
<1>9. r.session.id = w.id /\ r.session.opened = w.opened
  BY <1>7, <1>8 DEF Session
<1>10. \A i \in Open(s) : Lived(s, s.views[i], c, r)
  <2> SUFFICES ASSUME NEW i \in Open(s) PROVE Lived(s, s.views[i], c, r)
    OBVIOUS
  <2>1. Fated(w, s.views[i], c, r)
    BY <1>1, <1>3, PropagateFates
  <2> QED
    BY <2>1 DEF Fated, Lived
<1>11. \A x \in DOMAIN r.out : SessionOf(r.out[x]) = s.id /\ r.out[x].type # "ttfd"
  <2>1. \A x \in DOMAIN r.out : /\ r.out[x].type \notin {"ttid", "ttfd", "operation"}
                                /\ \E i \in Open(w) : r.out[x].view = w.views[i].id
    BY <1>5 DEF Answers
  <2>2. \A i \in Open(w) : w.views[i].id[1] = w.id
    BY <1>1 DEF Scoped, Numbered
  <2> QED
    BY <1>1, <2>1, <2>2 DEF SessionOf
<1>12. Continued(s, c, t, held, r)
  BY <1>1, <1>5, <1>7, <1>9, <1>10, <1>11 DEF Answers, Continued
<1>13. r.session = [w EXCEPT !.views = r.session.views, !.opened = r.session.opened]
  BY <1>7, <1>8, <1>9 DEF Session
<1>14. Activated(s, c, r.session)
  <2>1. Active(r.session) \subseteq Open(r.session)
    BY DEF Active
  <2> QED
    BY <1>1, <1>7, <2>1 DEF Activated
<1> QED
  BY <1>1, <1>9, <1>11, <1>12, <1>13, <1>14 DEF Passed

\* StartView.
LEMMA PassedOnNew ==
  ASSUME NEW s, Scoped(s), NEW c \in Cmds, NEW t, NEW held, Told1(s, t, held),
         NEW w, SameViews(s, w), w.ended = "no", c.op = "StartView",
         NEW r, r = Propagate(Push(w, c.key), c)
  PROVE  Passed(s, w, c, t, held, r)
<1>1. Scoped(w) /\ Open(w) = Open(s) /\ Active(w) = Active(s) /\ w.views = s.views /\ w.opened = s.opened /\ w.id = s.id
  BY SameViewsSame DEF SameViews
<1>2. Told1(w, t, held) /\ w \in Session
  BY <1>1 DEF Told1, SameViews
<1>3. c.key \in ViewKeys
  BY DEF Cmds
<1>4. PICK p : p = Push(w, c.key)
  OBVIOUS
<1>5. PICK k : Pushed(w, c.key, p, k)
  BY <1>1, <1>3, <1>4, PushPushes
<1>6. /\ k \in ViewSlots
      /\ k \in Open(s) => Open(s) = ViewSlots /\ First(s, k)
      /\ Scoped(p)
      /\ p = [w EXCEPT !.views = p.views, !.opened = w.opened + 1]
      /\ Open(p) = Open(s) \union {k}
      /\ \A i \in ViewSlots \ {k} : p.views[i] = s.views[i]
      /\ p.views[k] = NewView(<< s.id, s.opened + 1 >>, c.key)
  BY <1>1, <1>5 DEF Pushed, First
<1>7. p.ended = "no" /\ p.id = s.id /\ p.opened = s.opened + 1 /\ p \in Session
  BY <1>1, <1>2, <1>6 DEF Scoped, Session
<1>8. PICK d : Spread(p, c, r, d)
  BY <1>4, <1>6, PropagateSpreads
<1>9. Ready(p, c, t, held)
  BY <1>1, <1>2, <1>5, OpenedReady
<1>10. Answers(p, c, t, held, r)
  BY <1>6, <1>7, <1>8, <1>9, PropagateAnswers
<1>11. Heard1(p, c, r.session)
  BY <1>10 DEF Answers
<1>12. /\ Scoped(r.session)
       /\ r.session = [p EXCEPT !.views = r.session.views]
       /\ Open(r.session) \subseteq Open(p)
       /\ Active(r.session) = {i \in Open(p) : Stays(p.views[i], c)}
       /\ \A i \in Open(r.session) : /\ r.session.views[i].key = p.views[i].key
                                     /\ r.session.views[i].id = p.views[i].id
  BY <1>11 DEF Heard1
<1>13. r.session.id = s.id /\ r.session.opened = s.opened + 1
  BY <1>7, <1>12 DEF Session
<1>14. p.views[k].active /\ ~ p.views[k].initialised /\ p.views[k].key = c.key
         /\ p.views[k].id = << s.id, s.opened + 1 >>
  BY <1>6 DEF NewView
<1>15. \A i \in Open(s) : s.views[i].id[1] = s.id /\ s.views[i].id[2] \in 1 .. s.opened /\ i \in ViewSlots
  BY DEF Scoped, Numbered, Open, ViewSlots
<1>16. \A i \in Open(s) : s.views[i].id # p.views[k].id
  <2>1. s.opened \in Nat
    BY <1>1, <1>2 DEF Session
  <2> QED
    BY <1>14, <1>15, <2>1
<1>17. \A i \in Open(s) : Lived(s, s.views[i], c, r)
  <2> SUFFICES ASSUME NEW i \in Open(s) PROVE Lived(s, s.views[i], c, r)
    OBVIOUS
  <2>1. CASE i # k
    <3>1. i \in Open(p) /\ p.views[i] = s.views[i]
      BY <1>6, <1>15, <2>1
    <3>2. Fated(p, s.views[i], c, r)
      BY <1>6, <1>8, <3>1, PropagateFates
    <3> QED
      BY <3>2 DEF Fated, Lived
  <2>2. CASE i = k
    <3>1. Purges(s, c, s.views[i].id)
      BY <1>6, <2>2 DEF Purges
    <3>2. \A j \in Open(p) : p.views[j].id # s.views[i].id
      <4>1. \A j \in Open(s) \ {k} : s.views[j].id # s.views[i].id
        BY <2>2 DEF Scoped, Numbered
      <4> QED
        BY <1>6, <1>15, <1>16, <2>2, <4>1
    <3>3. \A x \in DOMAIN r.out : r.out[x].view # s.views[i].id
      BY <1>10, <3>2 DEF Answers
    <3>4. OfAction(r.out, s.views[i].id, s.views[i].action.n) = {}
      BY <3>3 DEF OfAction
    <3> QED
      BY <3>1, <3>4 DEF Lived
  <2> QED
    BY <2>1, <2>2
<1>18. \A x \in DOMAIN r.out : SessionOf(r.out[x]) = s.id /\ r.out[x].type # "ttfd"
  <2>1. \A x \in DOMAIN r.out : /\ r.out[x].type \notin {"ttid", "ttfd", "operation"}
                                /\ \E i \in Open(p) : r.out[x].view = p.views[i].id
    BY <1>10 DEF Answers
  <2>2. \A i \in Open(p) : p.views[i].id[1] = p.id
    BY <1>6 DEF Scoped, Numbered
  <2> QED
    BY <1>7, <2>1, <2>2 DEF SessionOf
<1>19. Continued(s, c, t, held, r)
  BY <1>10, <1>12, <1>13, <1>17, <1>18 DEF Answers, Continued
<1>20. r.session = [w EXCEPT !.views = r.session.views, !.opened = r.session.opened]
  BY <1>2, <1>6, <1>7, <1>12, <1>13 DEF Session
<1>21. Activated(s, c, r.session)
  <2>1. k \in Active(r.session)
    BY <1>6, <1>12, <1>14 DEF Stays
  <2>2. \A i \in Active(r.session) : i = k /\ i \in Open(r.session)
    <3>1. Active(r.session) \subseteq Open(r.session)
      BY DEF Active
    <3>2. \A i, j \in Active(r.session) : i = j
      BY <1>10 DEF Answers, Told1
    <3> QED
      BY <2>1, <3>1, <3>2
  <2> QED
    BY <1>12, <1>14, <2>1, <2>2 DEF Activated
<1> QED
  BY <1>13, <1>18, <1>19, <1>20, <1>21 DEF Passed

\* A command that no view hears.
LEMMA PassedBy ==
  ASSUME NEW s, Scoped(s), NEW c \in Cmds, NEW t, NEW held, Told1(s, t, held),
         NEW r, SameViews(s, r.session), r.last = << >>, r.out \in Seq(Milestone),
         \A x \in DOMAIN r.out : r.out[x].session = s.id
  PROVE  Continued(s, c, t, held, r)
<1>1. Scoped(r.session) /\ Open(r.session) = Open(s) /\ Active(r.session) = Active(s)
        /\ r.session.views = s.views /\ r.session.id = s.id
  BY SameViewsSame DEF SameViews
<1>2. \A x \in DOMAIN r.out : r.out[x] \in Milestone
  OBVIOUS
<1>3. \A x \in DOMAIN r.out : r.out[x].type \in {"ttid", "ttfd", "operation"}
  BY <1>2 DEF Milestone
<1>4. \A id : ViewEvents(r.out, id) = {}
  BY <1>3 DEF ViewEvents
<1>5. \A id, n : OfAction(r.out, id, n) = {}
  BY <1>3 DEF OfAction
<1>6. \A id \in Id : Hears(t, r.out)[id] = t[id]
  BY <1>4 DEF Hears, Latest
<1>7. Newest(held, r.last) = held
  BY DEF Newest
<1>8. \A i \in Open(s) : s.views[i].id \in Id
  BY OpenViews
<1>9. Told1(r.session, Hears(t, r.out), Newest(held, r.last))
  <2>1. Active(s) \subseteq Open(s)
    BY DEF Active
  <2> QED
    BY <1>1, <1>6, <1>7, <1>8, <2>1 DEF Told1
<1>10. r.out \in Seq(Event)
  BY DEF Event
<1>11. \A x \in DOMAIN r.out : SessionOf(r.out[x]) = s.id
  BY <1>3 DEF SessionOf
<1>12. \A i \in Open(s) : Lived(s, s.views[i], c, r)
  <2> SUFFICES ASSUME NEW i \in Open(s) PROVE Lived(s, s.views[i], c, r)
    OBVIOUS
  <2>1. s.views[i].id \in Ids(r.session) /\ GoesOn(s.views[i], r.session)
    BY <1>1 DEF Ids, GoesOn
  <2> QED
    BY <1>5, <2>1 DEF Lived, Reports
<1> QED
  BY <1>1, <1>9, <1>10, <1>11, <1>12 DEF Continued

\* The active view of a session.
LEMMA TheActiveView ==
  ASSUME NEW s, Scoped(s)
  PROVE  /\ Active(s) = {} => ActiveView(s) = NoView
         /\ Active(s) # {} => \E i \in Active(s) : ActiveView(s) = s.views[i]
         /\ ActiveView(s) = NoView => Active(s) = {}
         /\ ActiveView(s).id \in Id
<1>1. Active(s) \in SUBSET (1 .. Capacity)
  BY DEF Active, Open
<1>2. ASSUME Active(s) # {} PROVE \E i \in Active(s) : ActiveView(s) = s.views[i]
  <2>1. FirstOf(Active(s)) \in Active(s)
    BY <1>1, <1>2, LeastIndex, ArrayAssumption DEF FirstOf
  <2> QED
    BY <1>2, <2>1 DEF ActiveView
<1>3. \A i \in Active(s) : s.views[i] # NoView /\ s.views[i].id \in Id
  <2>1. Active(s) \subseteq Open(s)
    BY DEF Active
  <2> QED
    BY <2>1, OpenViews DEF Open
<1>4. Active(s) = {} => ActiveView(s) = NoView
  BY DEF ActiveView
<1>5. NoView.id \in Id
  BY DEF NoView, Id
<1> QED
  BY <1>2, <1>3, <1>4, <1>5

\* The time to full display comes after that to initial display, and is not shorter.
Displayed(s, written) ==
  \A x \in DOMAIN written : written[x].type = "ttfd" =>
    \/ \E j \in 1 .. x - 1 : written[j].type = "ttid" /\ written[j].duration <= written[x].duration
    \/ written[x].session = s.id /\ s.ttid > 0 /\ s.ttid <= written[x].duration

LEMMA TwoJoin ==
  ASSUME NEW S, NEW x \in S, NEW y \in S
  PROVE  << x >> \o << y >> = << x, y >>
<1>1. << x >> \in Seq(S) /\ << y >> \in Seq(S) /\ << x, y >> \in Seq(S)
  OBVIOUS
<1>2. PICK z : z = << x >> \o << y >>
  OBVIOUS
<1>3. /\ z \in Seq(S)
      /\ Len(z) = Len(<< x >>) + Len(<< y >>)
      /\ \A i \in 1 .. Len(<< x >>) + Len(<< y >>) :
           z[i] = IF i <= Len(<< x >>) THEN << x >>[i] ELSE << y >>[i - Len(<< x >>)]
  BY <1>1, <1>2, ConcatProperties
<1>4. Len(<< x >>) = 1 /\ Len(<< y >>) = 1 /\ Len(<< x, y >>) = 2
  OBVIOUS
<1>5. Len(z) = 1 + 1 /\ \A i \in 1 .. 1 + 1 : z[i] = IF i <= 1 THEN << x >>[i] ELSE << y >>[i - 1]
  BY <1>3, <1>4
<1>6. Len(z) = 2 /\ z[1] = x /\ z[2] = y
  BY <1>5
<1>7. \A i \in 1 .. 2 : z[i] = << x, y >>[i]
  BY <1>6
<1> QED
  BY <1>1, <1>2, <1>3, <1>4, <1>6, <1>7, SeqEqual

\* What a command makes of a session that no view of it hears.
Noted(s, c, t, held, r) ==
  /\ Continued(s, c, t, held, r)
  /\ Displayed(s, r.out)
  /\ r.session = [s EXCEPT !.ttid = r.session.ttid, !.pendingTTFD = r.session.pendingTTFD]

LEMMA MilestonesNoted ==
  ASSUME NEW s, Scoped(s), NEW c \in Cmds, NEW t, NEW held, Told1(s, t, held), NEW now \in Nat,
         NEW r, r \in {HandleDisplayInitialized(s, now), HandleFullyDisplayed(s, now), SendVitalEvent(s)}
  PROVE  Noted(s, c, t, held, r)
<1> DEFINE E(metric, duration) ==
             [type |-> metric, session |-> s.id, view |-> ActiveView(s).id, duration |-> duration]
<1>1. s \in Session /\ s.id \in Nat /\ ActiveView(s).id \in Id /\ s.ttid \in Nat /\ s.pendingTTFD \in Nat
  BY TheActiveView DEF Scoped, Session
<1>2. \A duration \in Nat : E("ttid", duration) \in Milestone /\ E("ttfd", duration) \in Milestone
  BY <1>1 DEF Milestone
<1>3. \A metric, duration : Launch(metric, s, duration) = << E(metric, duration) >>
  BY DEF Launch
<1>4. \A w, o : Unpropagated(w, o) = [session |-> w, out |-> o, last |-> << >>]
  BY DEF Unpropagated
<1>5. \A m, n \in Nat : Longest(m, n) \in Nat /\ Longest(m, n) >= m /\ Longest(m, n) >= n
  BY DEF Longest
<1>6. /\ << >> \in Seq(Milestone)
      /\ \A x \in Milestone : << x >> \in Seq(Milestone)
      /\ \A x, y \in Milestone : << x >> \o << y >> = << x, y >> /\ << x, y >> \in Seq(Milestone)
      /\ \A x \in Milestone : << x >> \o << >> = << x >>
      /\ \A x \in DOMAIN << >> : FALSE
  <2>1. << >> \in Seq(Milestone) /\ (\A x \in Milestone : << x >> \in Seq(Milestone))
          /\ \A x \in DOMAIN << >> : FALSE
    OBVIOUS
  <2>2. ASSUME NEW x \in Milestone, NEW y \in Milestone
        PROVE  << x >> \o << y >> = << x, y >> /\ << x, y >> \in Seq(Milestone)
    <3> HIDE DEF Milestone
    <3>1. << x, y >> \in Seq(Milestone)
      OBVIOUS
    <3>2. << x >> \o << y >> = << x, y >>
      BY TwoJoin
    <3> QED
      BY <3>1, <3>2
  <2>3. ASSUME NEW x \in Milestone PROVE << x >> \o << >> = << x >>
    OBVIOUS
  <2> QED
    BY <2>1, <2>2, <2>3
<1>7. ASSUME NEW w \in Session, NEW o \in Seq(Milestone), r = Unpropagated(w, o),
             w = [s EXCEPT !.ttid = w.ttid, !.pendingTTFD = w.pendingTTFD],
             \A x \in DOMAIN o : o[x].session = s.id,
             Displayed(s, o)
      PROVE  Noted(s, c, t, held, r)
  <2>1. r.session = w /\ r.out = o /\ r.last = << >>
    BY <1>4, <1>7
  <2>2. SameViews(s, w)
    BY <1>1, <1>7 DEF SameViews, Session
  <2>3. Continued(s, c, t, held, r)
    BY <1>7, <2>1, <2>2, PassedBy
  <2> QED
    BY <1>7, <2>1, <2>3 DEF Noted
<1>8. s = [s EXCEPT !.ttid = s.ttid, !.pendingTTFD = s.pendingTTFD]
  BY <1>1 DEF Session
<1>9. Displayed(s, << >>)
  BY DEF Displayed
<1>10. CASE r = Unpropagated(s, << >>)
  BY <1>1, <1>6, <1>7, <1>8, <1>9, <1>10
<1>11. CASE r = SendVitalEvent(s)
  <2> DEFINE e == [type |-> "operation", session |-> s.id, view |-> ActiveView(s).id]
             o == << e >>
  <2>1. e \in Milestone /\ e.session = s.id /\ e.type # "ttfd"
    BY <1>1 DEF Milestone
  <2>2. r = Unpropagated(s, o)
    BY <1>11 DEF SendVitalEvent
  <2> HIDE DEF e
  <2>3. o \in Seq(Milestone) /\ (\A x \in DOMAIN o : o[x].session = s.id) /\ Displayed(s, o)
    BY <1>6, <2>1 DEF Displayed
  <2> HIDE DEF o
  <2> QED
    BY <1>1, <1>7, <1>8, <2>2, <2>3
<1>12. CASE r = HandleDisplayInitialized(s, now) /\ now > 0 /\ now < MaxTTID
  <2> DEFINE w == [s EXCEPT !.ttid = now, !.pendingTTFD = 0]
             e1 == E("ttid", now)
             n  == Longest(s.pendingTTFD, now)
             e2 == E("ttfd", n)
             o  == IF s.pendingTTFD > 0 THEN << e1, e2 >> ELSE << e1 >>
  <2>1. e1 \in Milestone /\ e2 \in Milestone
    BY <1>1, <1>2, <1>5
  <2>2. ~ (now <= 0 \/ now >= MaxTTID)
    BY <1>12, CallsAssumption
  <2>3. r = Unpropagated(w, << e1 >> \o (IF s.pendingTTFD > 0 THEN << e2 >> ELSE << >>))
    BY <1>3, <1>12, <2>2 DEF HandleDisplayInitialized
  <2>4. /\ e1.session = s.id /\ e2.session = s.id /\ e1.type = "ttid" /\ e2.type = "ttfd"
        /\ e1.duration = now /\ e2.duration = n /\ n >= now
    BY <1>1, <1>5
  <2>5. w \in Session /\ w = [s EXCEPT !.ttid = w.ttid, !.pendingTTFD = w.pendingTTFD]
    BY <1>1 DEF Session
  <2> HIDE DEF w, e1, e2, n
  <2>6. << e1 >> \o (IF s.pendingTTFD > 0 THEN << e2 >> ELSE << >>) = o
    BY <1>6, <2>1
  <2>7. o \in Seq(Milestone) /\ \A x \in DOMAIN o : o[x].session = s.id
    BY <1>6, <2>1, <2>4
  <2>8. Displayed(s, o)
    <3>1. CASE s.pendingTTFD > 0
      <4>1. o = << e1, e2 >>
        BY <3>1
      <4>2. \A x \in DOMAIN o : o[x].type = "ttfd" => x = 2
        BY <2>4, <4>1
      <4>3. 1 \in 1 .. 2 - 1 /\ o[1] = e1 /\ o[2] = e2
        BY <4>1
      <4> HIDE DEF o
      <4> QED
        BY <2>4, <4>2, <4>3 DEF Displayed
    <3>2. CASE ~ (s.pendingTTFD > 0)
      <4>1. \A x \in DOMAIN o : o[x].type # "ttfd"
        BY <2>4, <3>2
      <4> HIDE DEF o
      <4> QED
        BY <4>1 DEF Displayed
    <3> QED
      BY <3>1, <3>2
  <2> HIDE DEF o
  <2> QED
    BY <1>7, <2>3, <2>5, <2>6, <2>7, <2>8
<1>13. CASE r = HandleFullyDisplayed(s, now) /\ now > 0 /\ now < MaxTTFD
  <2>0. ~ (now <= 0 \/ now >= MaxTTFD)
    BY <1>13, CallsAssumption
  <2>1. CASE s.ttid = 0
    <3> DEFINE w == [s EXCEPT !.pendingTTFD = now]
    <3>1. r = Unpropagated(w, << >>)
      BY <1>13, <2>0, <2>1 DEF HandleFullyDisplayed
    <3>2. w \in Session /\ w = [s EXCEPT !.ttid = w.ttid, !.pendingTTFD = w.pendingTTFD]
      BY <1>1 DEF Session
    <3> HIDE DEF w
    <3> QED
      BY <1>6, <1>7, <1>9, <3>1, <3>2
  <2>2. CASE s.ttid # 0
    <3> DEFINE n == Longest(now, s.ttid)
               e == E("ttfd", n)
               o == << e >>
    <3>1. r = Unpropagated(s, o)
      BY <1>3, <1>13, <2>0, <2>2 DEF HandleFullyDisplayed
    <3>2. e \in Milestone /\ e.session = s.id /\ e.duration = n /\ n >= s.ttid /\ s.ttid > 0
      <4>1. n \in Nat /\ n >= s.ttid /\ s.ttid > 0
        <5>1. Longest(now, s.ttid) \in Nat /\ Longest(now, s.ttid) >= s.ttid
          BY <1>1, <1>5, Zenon
        <5> QED
          BY <1>1, <2>2, <5>1
      <4> QED
        BY <1>2, <4>1
    <3> HIDE DEF n, e
    <3>3. o \in Seq(Milestone) /\ \A x \in DOMAIN o : o[x] = e
      BY <1>6, <3>2
    <3> HIDE DEF o
    <3>4. Displayed(s, o)
      BY <3>2, <3>3 DEF Displayed
    <3> QED
      BY <1>1, <1>7, <1>8, <3>1, <3>2, <3>3, <3>4
  <2> QED
    BY <2>1, <2>2
<1>14. r = HandleDisplayInitialized(s, now) => r = Unpropagated(s, << >>) \/ (now > 0 /\ now < MaxTTID)
  BY CallsAssumption DEF HandleDisplayInitialized
<1>15. r = HandleFullyDisplayed(s, now) => r = Unpropagated(s, << >>) \/ (now > 0 /\ now < MaxTTFD)
  BY CallsAssumption DEF HandleFullyDisplayed
<1> QED
  BY <1>10, <1>11, <1>12, <1>13, <1>14, <1>15

\* What a session knows of the key of the view the user is on.
HereIn(s, h) ==
  IF s.sampled
  THEN /\ \A i \in Active(s) : s.views[i].key = h
       /\ Active(s) = {} => h = IF s.opened = 0 THEN s.predecessor ELSE NoKey
  ELSE h = NoKey

HereAfter(s, c, h) ==
  IF c.op = "StartView" /\ s.sampled THEN c.key
  ELSE IF c.op = "StopView" /\ c.key = h THEN NoKey ELSE h

\* What a session that goes on makes of a command, and whether what it records next goes to
\* the view the user is on.
Inside(s, c, t, held, h, r) ==
  /\ Continued(s, c, t, held, r)
  /\ r.session.sampled = s.sampled /\ r.session.ended = s.ended /\ r.session.onClose = s.onClose
  /\ r.session.idle \in {s.idle, 0}
  /\ r.session.opened \in {s.opened, s.opened + 1}
  /\ ~ s.sampled => r.session.opened = 0
  /\ Displayed(s, r.out)
  /\ HereIn(r.session, HereAfter(s, c, h))
  /\ s.sampled /\ Active(r.session) = {} /\ c.op \in RequiresActiveView => HereAfter(s, c, h) = NoKey

LEMMA OpenedIfActive ==
  ASSUME NEW s, Scoped(s)
  PROVE  /\ Open(s) # {} => s.opened > 0
         /\ Active(s) # {} => s.opened > 0
<1>1. \A i \in Open(s) : s.views[i].id[2] \in 1 .. s.opened
  BY DEF Scoped, Numbered
<1>2. s.opened \in Nat
  BY DEF Scoped, Session
<1>3. Active(s) \subseteq Open(s)
  BY DEF Active
<1> QED
  BY <1>1, <1>2, <1>3

\* w is s with another view to reopen, or none, as c makes it.
Readied(s, c, w) ==
  /\ w.sampled = s.sampled /\ w.ended = s.ended /\ w.onClose = s.onClose
  /\ w.idle \in {s.idle, 0}
  /\ c.op = "StopView" /\ c.key = s.predecessor => w.predecessor = NoKey
  /\ s.opened = 0 /\ ~ (c.op = "StopView" /\ c.key = s.predecessor) => w.predecessor = s.predecessor
  /\ c.op \in RequiresActiveView /\ s.opened = 0 => s.predecessor = NoKey

LEMMA PassedInside ==
  ASSUME NEW s, Scoped(s), s.sampled, NEW c \in Cmds, c.op # "StopSession", NEW t, NEW held, NEW h,
         HereIn(s, h), NEW w, SameViews(s, w), Readied(s, c, w), NEW r, Passed(s, w, c, t, held, r)
  PROVE  Inside(s, c, t, held, h, r)
<1>1. /\ Continued(s, c, t, held, r)
      /\ r.session = [w EXCEPT !.views = r.session.views, !.opened = r.session.opened]
      /\ r.session.opened = IF c.op = "StartView" THEN s.opened + 1 ELSE s.opened
      /\ \A x \in DOMAIN r.out : r.out[x].type # "ttfd"
      /\ Activated(s, c, r.session)
  BY DEF Passed
<1>2. w \in Session /\ s.opened \in Nat
  BY DEF SameViews, Scoped, Session
<1>3. /\ r.session.sampled = s.sampled /\ r.session.ended = s.ended /\ r.session.onClose = s.onClose
      /\ r.session.idle = w.idle /\ r.session.predecessor = w.predecessor
  BY <1>1, <1>2 DEF Session, Readied
<1>4. w.idle \in {s.idle, 0}
  BY DEF Readied
<1>5. Displayed(s, r.out)
  BY <1>1 DEF Displayed
<1>6. PICK g : g = HereAfter(s, c, h)
  OBVIOUS
<1>7. /\ \A i \in Active(s) : s.views[i].key = h
      /\ Active(s) = {} => h = IF s.opened = 0 THEN s.predecessor ELSE NoKey
  BY DEF HereIn
<1>8. CASE c.op = "StartView"
  <2>1. g = c.key
    BY <1>6, <1>8 DEF HereAfter
  <2>2. Active(r.session) # {} /\ \A i \in Active(r.session) : r.session.views[i].key = c.key
    BY <1>1, <1>8 DEF Activated
  <2>3. HereIn(r.session, g)
    BY <1>3, <2>1, <2>2 DEF HereIn
  <2> QED
    BY <1>1, <1>2, <1>3, <1>4, <1>5, <1>6, <2>2, <2>3 DEF Inside
<1>9. CASE c.op # "StartView"
  <2>1. g = IF c.op = "StopView" /\ c.key = h THEN NoKey ELSE h
    BY <1>6, <1>9 DEF HereAfter
  <2>2. /\ Active(r.session) = {i \in Open(s) : Stays(s.views[i], c)}
        /\ \A i \in Active(r.session) : r.session.views[i].key = s.views[i].key
    BY <1>1, <1>9 DEF Activated
  <2>3. \A i \in Active(r.session) : i \in Active(s) /\ ~ (c.op = "StopView" /\ c.key = s.views[i].key)
    BY <2>2 DEF Stays, Active
  <2>4. \A i \in Active(r.session) : r.session.views[i].key = g
    BY <1>7, <2>1, <2>2, <2>3
  <2>5. \A i \in Active(s) \ Active(r.session) : c.op = "StopView" /\ c.key = s.views[i].key
    BY <1>9, <2>2 DEF Stays, Active
  <2>6. r.session.opened = s.opened
    BY <1>1, <1>9
  <2>7. Active(s) # {} => s.opened > 0
    BY OpenedIfActive
  <2>8. ASSUME Active(r.session) = {}
        PROVE  /\ g = IF r.session.opened = 0 THEN r.session.predecessor ELSE NoKey
               /\ c.op \in RequiresActiveView => g = NoKey
    <3>1. CASE Active(s) # {}
      <4>1. c.op = "StopView" /\ c.key = h
        BY <1>7, <2>5, <2>8, <3>1
      <4> QED
        BY <1>2, <2>1, <2>6, <2>7, <3>1, <4>1 DEF RequiresActiveView
    <3>2. CASE Active(s) = {} /\ s.opened # 0
      BY <1>7, <2>1, <2>6, <3>2
    <3>3. CASE Active(s) = {} /\ s.opened = 0
      <4>1. h = s.predecessor
        BY <1>7, <3>3
      <4>2. g = w.predecessor
        BY <2>1, <3>3, <4>1 DEF Readied
      <4>3. c.op \in RequiresActiveView => g = NoKey
        BY <2>1, <3>3, <4>1 DEF Readied
      <4> QED
        BY <1>3, <2>6, <3>3, <4>2, <4>3
    <3> QED
      BY <3>1, <3>2, <3>3
  <2>9. HereIn(r.session, g)
    BY <1>3, <2>4, <2>8 DEF HereIn
  <2> QED
    BY <1>1, <1>2, <1>3, <1>4, <1>5, <1>6, <2>6, <2>8, <2>9 DEF Inside
<1> QED
  BY <1>8, <1>9

\* Each member of b is one of a or one of c, and the last is that of c if it has any.
Joined(a, c, b) ==
  /\ \A x \in DOMAIN b :
       (x \in DOMAIN a /\ b[x] = a[x]) \/ (\E y \in DOMAIN c : b[x] = c[y])
  /\ c # << >> => b # << >> /\ b[Len(b)] = c[Len(c)]

LEMMA ConcatJoins ==
  ASSUME NEW S, NEW a \in Seq(S), NEW c \in Seq(S), NEW b, b = a \o c
  PROVE  b \in Seq(S) /\ Joined(a, c, b)
<1>1. /\ b \in Seq(S) /\ Len(b) = Len(a) + Len(c)
      /\ \A i \in 1 .. Len(a) + Len(c) : b[i] = IF i <= Len(a) THEN a[i] ELSE c[i - Len(a)]
  BY ConcatProperties
<1>2. PICK m : m = Len(a)
  OBVIOUS
<1>3. PICK n : n = Len(c)
  OBVIOUS
<1>4. m \in Nat /\ n \in Nat /\ DOMAIN a = 1 .. m /\ DOMAIN c = 1 .. n /\ DOMAIN b = 1 .. m + n
        /\ Len(b) = m + n
  BY <1>1, <1>2, <1>3
<1>5. \A i \in 1 .. m + n : b[i] = IF i <= m THEN a[i] ELSE c[i - m]
  BY <1>1, <1>2, <1>3
<1>6. ASSUME NEW x \in 1 .. m + n
      PROVE  (x \in 1 .. m /\ b[x] = a[x]) \/ (\E y \in 1 .. n : b[x] = c[y])
  <2>1. CASE x <= m
    BY <1>4, <1>5, <2>1
  <2>2. CASE ~ (x <= m)
    <3>1. x - m \in 1 .. n
      BY <1>4, <2>2
    <3> QED
      BY <1>5, <2>2, <3>1
  <2> QED
    BY <2>1, <2>2
<1>7. ASSUME c # << >> PROVE b # << >> /\ b[m + n] = c[n]
  <2>1. n > 0
    BY <1>3, <1>4, <1>7
  <2>2. m + n \in 1 .. m + n /\ ~ (m + n <= m) /\ (m + n) - m = n
    BY <1>4, <2>1
  <2>3. b[m + n] = c[n]
    BY <1>5, <2>2
  <2>4. b # << >>
    BY <1>4, <2>2
  <2> QED
    BY <2>3, <2>4
<1> QED
  BY <1>1, <1>3, <1>4, <1>6, <1>7 DEF Joined

\* What Propagate and the handlers of a session give back.
Result(q) ==
  /\ q = [session |-> q.session, out |-> q.out, last |-> q.last]
  /\ q.out \in Seq(Event) /\ q.last \in Seq(Update)

\* One thing after another.
Resumed(s, c, t, held, m, q, r) ==
  Continued(s, c, t, held, r) /\ r.session = q.session /\ r.out = m.out \o q.out

LEMMA AfterContinues ==
  ASSUME NEW s, Scoped(s), NEW c \in Cmds, NEW t, NEW held, Open(s) = {},
         NEW m, m.out \in Seq(Event), m.last \in Seq(Update), NEW q, Result(q),
         \A x \in DOMAIN m.out : SessionOf(m.out[x]) = s.id,
         m.session.id = s.id,
         Continued(m.session, c, Hears(t, m.out), Newest(held, m.last), q),
         m.last # << >> => Active(q.session) # {},
         NEW r, r = After(m, q)
  PROVE  Resumed(s, c, t, held, m, q, r)
<1>1. /\ r.session = q.session /\ r.out = m.out \o q.out /\ r.last = m.last \o q.last
      /\ m.last \in Seq(Update) /\ q.last \in Seq(Update)
  BY DEF After, Result
<1>2. /\ Scoped(q.session) /\ q.session.id = s.id
      /\ Told1(q.session, Hears(Hears(t, m.out), q.out), Newest(Newest(held, m.last), q.last))
      /\ q.last # << >> => Active(q.session) # {}
      /\ q.out \in Seq(Event) /\ \A x \in DOMAIN q.out : SessionOf(q.out[x]) = s.id
  BY DEF Continued
<1>3. r.out \in Seq(Event) /\ Joined(m.out, q.out, r.out)
  BY <1>1, <1>2, ConcatJoins
<1>4. \A x \in DOMAIN r.out : SessionOf(r.out[x]) = s.id
  BY <1>2, <1>3 DEF Joined
<1>5. \A id \in Id : Hears(Hears(t, m.out), q.out)[id] = Hears(t, r.out)[id]
  <2> SUFFICES ASSUME NEW id \in Id PROVE Hears(Hears(t, m.out), q.out)[id] = Hears(t, r.out)[id]
    OBVIOUS
  <2>1. Hears(Hears(t, m.out), q.out)[id] = Latest(Latest(t[id], m.out, id), q.out, id)
    BY DEF Hears
  <2>2. Hears(t, r.out)[id] = Latest(t[id], m.out \o q.out, id)
    BY <1>1 DEF Hears
  <2> QED
    BY <1>2, <2>1, <2>2, LatestConcat
<1>6. Newest(Newest(held, m.last), q.last) = Newest(held, r.last)
  <2>1. CASE q.last = << >>
    <3>1. r.last = m.last
      BY <1>1, <2>1
    <3> QED
      BY <2>1, <3>1 DEF Newest
  <2>2. CASE q.last # << >>
    <3>1. Joined(m.last, q.last, r.last)
      BY <1>1, ConcatJoins
    <3>2. r.last[Len(r.last)] = q.last[Len(q.last)] /\ r.last # << >>
      BY <2>2, <3>1 DEF Joined
    <3> QED
      BY <2>2, <3>2 DEF Newest
  <2> QED
    BY <2>1, <2>2
<1>7. r.last # << >> => m.last # << >> \/ q.last # << >>
  BY <1>1
<1>8. \A i \in Open(q.session) : q.session.views[i].id \in Id
  BY <1>2, OpenViews
<1>9. Told1(q.session, Hears(t, r.out), Newest(held, r.last))
  <2>1. Active(q.session) \subseteq Open(q.session)
    BY DEF Active
  <2> QED
    BY <1>2, <1>5, <1>6, <1>8, <2>1 DEF Told1
<1>10. Continued(s, c, t, held, r)
  BY <1>1, <1>2, <1>3, <1>4, <1>7, <1>9 DEF Continued
<1> QED
  BY <1>1, <1>10 DEF Resumed

LEMMA AfterNothing ==
  ASSUME NEW w, NEW q, Result(q)
  PROVE  After(Unpropagated(w, << >>), q) = q
<1>1. << >> \o q.out = q.out /\ << >> \o q.last = q.last
  BY ConcatEmptySeq DEF Result
<1>2. Unpropagated(w, << >>).out = << >> /\ Unpropagated(w, << >>).last = << >>
  BY DEF Unpropagated
<1>3. After(Unpropagated(w, << >>), q) = [q EXCEPT !.out = << >> \o q.out, !.last = << >> \o q.last]
  BY <1>2 DEF After
<1> QED
  BY <1>1, <1>3 DEF Result

\* What Propagate gives back, whatever the views do.
LEMMA PropagateGives ==
  ASSUME NEW s, Scoped(s), NEW c \in Cmds, NEW q, q = Propagate(s, c)
  PROVE  Result(q)
<1>1. PICK d : Spread(s, c, q, d)
  BY PropagateSpreads
<1>2. q = [session |-> q.session, out |-> q.out, last |-> q.last]
  BY DEF Propagate, Gathered
<1> QED
  BY <1>1, <1>2 DEF Spread, Result

\* A session that reopens a view before it hears the command.
LEMMA TransferInside ==
  ASSUME NEW s, Scoped(s), s.ended = "no", s.sampled, NEW t, NEW held, Told1(s, t, held),
         NEW h, HereIn(s, h), NEW c \in Cmds, c.op \in RequiresActiveView,
         s.opened = 0, s.predecessor # NoKey,
         NEW w, SameViews(s, w), w.sampled, w.ended = "no", w.onClose = s.onClose,
         w.predecessor = s.predecessor, w.idle \in {0, s.idle},
         NEW m, m = AttemptViewTransfer(w), NEW r, r = After(m, Propagate(m.session, c))
  PROVE  Inside(s, c, t, held, h, r)
<1> DEFINE key == s.predecessor
           c0 == Command("StartView", key, 0)
           u  == [w EXCEPT !.predecessor = NoKey]
<1>1. s \in Session /\ key \in ViewKeys /\ w \in Session
  BY DEF Scoped, Session, AnyKey, SameViews
<1>2. u \in Session /\ SameViews(s, u) /\ u.ended = "no" /\ u.sampled = TRUE /\ u.onClose = s.onClose
        /\ u.idle = w.idle /\ u.predecessor = NoKey
  <2>1. w.sampled = TRUE
    BY <1>1 DEF Session
  <2> QED
    BY <1>1, <2>1 DEF Session, SameViews, AnyKey
<1>3. c0 \in Cmds /\ c0.op = "StartView" /\ c0.key = key
  BY <1>1 DEF Command, Cmds, Ops
<1>4. Open(s) = {} /\ Active(s) = {}
  BY OpenedIfActive
<1>5. w.opened = 0 /\ Active(w) = {} /\ w.predecessor = key
  <2>1. Active(w) = Active(s)
    BY SameViewsSame
  <2> QED
    BY <1>4, <2>1 DEF SameViews
<1>6. m = Propagate(Push(u, c0.key), c0)
  BY <1>3, <1>5 DEF AttemptViewTransfer
<1> HIDE DEF c0, u, key
<1>7. Passed(s, u, c0, t, held, m)
  BY <1>2, <1>3, <1>6, PassedOnNew
<1>8. /\ Continued(s, c0, t, held, m)
      /\ m.session = [u EXCEPT !.views = m.session.views, !.opened = m.session.opened]
      /\ m.session.opened = s.opened + 1
      /\ \A x \in DOMAIN m.out : m.out[x].type # "ttfd"
      /\ Activated(s, c0, m.session)
  BY <1>3, <1>7 DEF Passed
<1>9. /\ m.session.sampled = TRUE /\ m.session.ended = "no" /\ m.session.onClose = s.onClose
      /\ m.session.idle = w.idle /\ m.session.predecessor = NoKey
  BY <1>2, <1>8 DEF Session
<1>10. /\ Scoped(m.session) /\ m.session.id = s.id
       /\ Told1(m.session, Hears(t, m.out), Newest(held, m.last))
       /\ m.last # << >> => Active(m.session) # {}
       /\ m.out \in Seq(Event) /\ \A x \in DOMAIN m.out : SessionOf(m.out[x]) = s.id
  BY <1>8 DEF Continued
<1>11. PICK p : p = m.session
  OBVIOUS
<1>12. PICK q : q = Propagate(p, c)
  OBVIOUS
<1>13. SameViews(p, p) /\ p.opened = 1
  BY <1>1, <1>8, <1>10, <1>11 DEF SameViews, Scoped
<1>14. c.op # "StartView" /\ c.op # "StopSession" /\ c.op # "StopView"
  BY DEF RequiresActiveView
<1>15. Passed(p, p, c, Hears(t, m.out), Newest(held, m.last), q)
  BY <1>9, <1>10, <1>11, <1>12, <1>13, <1>14, PassedOn
<1>16. h = key
  BY <1>4 DEF HereIn, key
<1>17. Active(p) # {} /\ \A i \in Active(p) : p.views[i].key = key
  BY <1>3, <1>8, <1>11 DEF Activated
<1>18. HereIn(p, key)
  BY <1>9, <1>11, <1>17 DEF HereIn
<1>19. Readied(p, c, p)
  BY <1>13, <1>14 DEF Readied
<1>20. Inside(p, c, Hears(t, m.out), Newest(held, m.last), key, q)
  BY <1>9, <1>10, <1>11, <1>13, <1>14, <1>15, <1>18, <1>19, PassedInside
<1>21. /\ Continued(p, c, Hears(t, m.out), Newest(held, m.last), q)
       /\ q.session.sampled = TRUE /\ q.session.ended = "no" /\ q.session.onClose = s.onClose
       /\ q.session.idle \in {w.idle, 0}
       /\ HereIn(q.session, HereAfter(p, c, key))
       /\ Active(q.session) = {} => HereAfter(p, c, key) = NoKey
  BY <1>9, <1>11, <1>20 DEF Inside
<1>22. q.session.opened = 1 /\ \A x \in DOMAIN q.out : q.out[x].type # "ttfd"
  BY <1>13, <1>14, <1>15 DEF Passed
<1>23. Result(q)
  BY <1>10, <1>11, <1>12, PropagateGives
<1>24. PICK k : Pushed(u, c0.key, Push(u, c0.key), k)
  <2>1. Scoped(u)
    BY <1>2, SameViewsSame
  <2> QED
    BY <1>1, <1>3, <2>1, PushPushes DEF key
<1>25. m.last \in Seq(Update)
  <2>1. Scoped(Push(u, c0.key))
    BY <1>24 DEF Pushed
  <2>2. Result(m)
    BY <1>3, <1>6, <2>1, PropagateGives
  <2> QED
    BY <2>2 DEF Result
<1>26. Active(q.session) # {}
  <2>1. PICK i \in Active(p) : TRUE
    BY <1>17
  <2>2. i \in Open(p) /\ Stays(p.views[i], c)
    BY <1>14, <2>1 DEF Active, Stays
  <2>3. Activated(p, c, q.session)
    BY <1>15 DEF Passed
  <2> QED
    BY <1>14, <2>2, <2>3 DEF Activated
<1>27. r = After(m, q)
  BY <1>11, <1>12
<1>28. Continued(s, c, t, held, r) /\ r.session = q.session /\ r.out = m.out \o q.out
  <2>1. Continued(m.session, c, Hears(t, m.out), Newest(held, m.last), q)
    BY <1>11, <1>21
  <2>2. Resumed(s, c, t, held, m, q, r)
    BY <1>4, <1>10, <1>23, <1>25, <1>26, <1>27, <2>1, AfterContinues
  <2> QED
    BY <2>2 DEF Resumed
<1>29. Displayed(s, r.out)
  <2>1. Joined(m.out, q.out, r.out)
    BY <1>10, <1>23, <1>28, ConcatJoins DEF Result
  <2>2. \A x \in DOMAIN r.out : r.out[x].type # "ttfd"
    BY <1>8, <1>22, <2>1 DEF Joined
  <2> QED
    BY <2>2 DEF Displayed
<1>30. HereAfter(p, c, key) = h /\ HereAfter(s, c, h) = h
  BY <1>14, <1>16 DEF HereAfter
<1>31. r.session.opened \in {s.opened, s.opened + 1} /\ s.sampled = TRUE
  <2>1. s.opened + 1 = 1 /\ s.sampled = TRUE
    BY <1>1 DEF Session
  <2> QED
    BY <1>22, <1>28, <2>1
<1>32. r.session.idle \in {s.idle, 0}
  BY <1>21, <1>28
<1>33. HereIn(r.session, HereAfter(s, c, h)) /\ Active(r.session) # {}
  BY <1>21, <1>26, <1>28, <1>30
<1>34. r.session.sampled = s.sampled /\ r.session.ended = s.ended /\ r.session.onClose = s.onClose
  BY <1>21, <1>28, <1>31
<1> QED
  BY <1>28, <1>29, <1>31, <1>32, <1>33, <1>34 DEF Inside

\* What a session makes of the view it has to reopen, if it opens none now.
Settled(s, u, c, m, w) ==
  /\ m = Unpropagated(w, << >>) /\ w = [u EXCEPT !.predecessor = w.predecessor]
  /\ c.op = "StopView" /\ c.key = s.predecessor => w.predecessor = NoKey
  /\ s.opened = 0 /\ ~ (c.op = "StopView" /\ c.key = s.predecessor) => w.predecessor = s.predecessor

LEMMA InSession ==
  ASSUME NEW s, Scoped(s), s.ended = "no", ~ s.sampled => s.opened = 0,
         NEW t, NEW held, Told1(s, t, held), NEW h, HereIn(s, h),
         NEW c \in Cmds, c.op # "StopSession", NEW now \in Nat,
         NEW r, r = ProcessInSession(s, c, now)
  PROVE  Inside(s, c, t, held, h, r)
<1>1. PICK u : u = Interacted(s, c)
  OBVIOUS
<1>2. s \in Session /\ s.opened \in Nat /\ s.sampled \in BOOLEAN
  BY DEF Scoped, Session
<1>3. u \in Session /\ u = [s EXCEPT !.idle = u.idle] /\ u.idle \in {s.idle, 0}
  BY <1>1, <1>2 DEF Interacted, Session
<1>4. /\ u.id = s.id /\ u.views = s.views /\ u.opened = s.opened /\ u.sampled = s.sampled
      /\ u.ended = s.ended /\ u.onClose = s.onClose /\ u.predecessor = s.predecessor
  BY <1>2, <1>3 DEF Session
<1>5. SameViews(s, u)
  BY <1>3, <1>4 DEF SameViews
<1>6. CASE ~ s.sampled
  <2>1. r = Unpropagated(u, << >>)
    BY <1>1, <1>6 DEF ProcessInSession
  <2>2. r.session = u /\ r.out = << >> /\ r.last = << >>
    BY <2>1 DEF Unpropagated
  <2>3. r.out \in Seq(Milestone) /\ (\A x \in DOMAIN r.out : r.out[x].session = s.id) /\ Displayed(s, r.out)
    BY <2>2 DEF Displayed
  <2>4. Continued(s, c, t, held, r)
    BY <1>5, <2>2, <2>3, PassedBy
  <2>5. h = NoKey /\ HereAfter(s, c, h) = NoKey
    BY <1>6 DEF HereIn, HereAfter
  <2>6. HereIn(u, NoKey)
    BY <1>4, <1>6 DEF HereIn
  <2> QED
    BY <1>3, <1>4, <1>6, <2>2, <2>3, <2>4, <2>5, <2>6 DEF Inside
<1>7. CASE s.sampled /\ c.op \in {"ReportAppDisplayInitialized", "ReportAppFullyDisplayed", "StepOperation"}
  <2>1. u = s
    BY <1>1, <1>7 DEF Interacted, UserInteractions
  <2>2. Reopened(u, c) = Unpropagated(s, << >>)
    BY <1>7, <2>1 DEF Reopened, RequiresActiveView
  <2>3. Unpropagated(s, << >>).session = s
    BY DEF Unpropagated
  <2>4. Opened(s, c) = s
    BY <1>7 DEF Opened
  <2>5. PICK q : q = Handled(s, c, now)
    OBVIOUS
  <2>6. q \in {HandleDisplayInitialized(s, now), HandleFullyDisplayed(s, now), SendVitalEvent(s)}
    BY <1>7, <2>5 DEF Handled
  <2>7. r = After(Unpropagated(s, << >>), q)
    BY <1>1, <1>7, <2>1, <2>2, <2>3, <2>4, <2>5 DEF ProcessInSession, HandledAfter
  <2>8. Noted(s, c, t, held, q)
    BY <2>6, MilestonesNoted
  <2>9. Continued(s, c, t, held, q) /\ Displayed(s, q.out)
          /\ q.session = [s EXCEPT !.ttid = q.session.ttid, !.pendingTTFD = q.session.pendingTTFD]
    BY <2>8 DEF Noted
  <2>10. q = [session |-> q.session, out |-> q.out, last |-> q.last] /\ q.last = << >>
    BY <2>6 DEF HandleDisplayInitialized, HandleFullyDisplayed, SendVitalEvent, Unpropagated
  <2>11. Result(q)
    <3>1. q.last \in Seq(Update)
      BY <2>10
    <3> QED
      BY <2>9, <2>10, <3>1 DEF Result, Continued
  <2>12. r = q
    BY <2>7, <2>11, AfterNothing
  <2>13. PICK w : w = q.session
    OBVIOUS
  <2>14. /\ w.sampled = s.sampled /\ w.ended = s.ended /\ w.onClose = s.onClose /\ w.idle = s.idle
         /\ w.opened = s.opened /\ w.views = s.views /\ w.predecessor = s.predecessor
    BY <1>2, <2>9, <2>13 DEF Session
  <2>15. Active(w) = Active(s)
    BY <2>14 DEF Active, Open
  <2>16. HereAfter(s, c, h) = h /\ c.op \notin RequiresActiveView
    BY <1>7 DEF HereAfter, RequiresActiveView
  <2>17. HereIn(w, h)
    BY <2>14, <2>15 DEF HereIn
  <2> QED
    BY <1>7, <2>9, <2>12, <2>13, <2>14, <2>16, <2>17 DEF Inside
<1>8. CASE s.sampled /\ c.op \notin {"ReportAppDisplayInitialized", "ReportAppFullyDisplayed", "StepOperation"}
  <2>1. PICK m : m = Reopened(u, c)
    OBVIOUS
  <2>2. r = After(m, Handled(Opened(m.session, c), c, now))
    BY <1>1, <1>8, <2>1 DEF ProcessInSession, HandledAfter
  <2>3. \A w : Handled(w, c, now) = Propagate(w, c)
    BY <1>8 DEF Handled
  <2>4. CASE c.op \in RequiresActiveView /\ s.predecessor # NoKey /\ s.opened = 0
    <3>1. c.op \notin {"StartView", "StopView"}
      BY <2>4 DEF RequiresActiveView
    <3>2. m = AttemptViewTransfer(u)
      BY <1>4, <2>1, <2>4, <3>1 DEF Reopened
    <3>3. r = After(m, Propagate(m.session, c))
      BY <2>2, <2>3, <3>1 DEF Opened
    <3>4. u.sampled /\ u.ended = "no" /\ u.onClose = s.onClose /\ u.predecessor = s.predecessor /\ u.idle \in {0, s.idle}
      BY <1>3, <1>4, <1>8
    <3> QED
      BY <1>5, <1>8, <2>4, <3>2, <3>3, <3>4, TransferInside
  <2>5. CASE ~ (c.op \in RequiresActiveView /\ s.predecessor # NoKey /\ s.opened = 0)
    <3>1. \E w \in Session : Settled(s, u, c, m, w)
      <4>1. CASE c.op = "StopView" /\ c.key = u.predecessor
        <5> DEFINE w == [u EXCEPT !.predecessor = NoKey]
        <5>1. m = Unpropagated(w, << >>)
          BY <2>1, <4>1 DEF Reopened, RequiresActiveView
        <5>2. w \in Session /\ w = [u EXCEPT !.predecessor = w.predecessor] /\ w.predecessor = NoKey
          BY <1>3 DEF Session, AnyKey
        <5> HIDE DEF w
        <5> QED
          BY <1>4, <4>1, <5>1, <5>2 DEF Settled
      <4>2. CASE ~ (c.op = "StopView" /\ c.key = u.predecessor) /\ c.op \in RequiresActiveView /\ u.predecessor # NoKey
        <5> DEFINE w == [u EXCEPT !.predecessor = NoKey]
        <5>1. u.opened > 0
          BY <1>2, <1>4, <2>5, <4>2
        <5>2. m = Unpropagated(w, << >>)
          BY <2>1, <4>2, <5>1 DEF Reopened, AttemptViewTransfer
        <5>3. w \in Session /\ w = [u EXCEPT !.predecessor = w.predecessor] /\ w.predecessor = NoKey
          BY <1>3 DEF Session, AnyKey
        <5> HIDE DEF w
        <5> QED
          BY <1>4, <2>5, <4>2, <5>2, <5>3 DEF Settled
      <4>3. CASE ~ (c.op = "StopView" /\ c.key = u.predecessor) /\ ~ (c.op \in RequiresActiveView /\ u.predecessor # NoKey)
        <5>1. m = Unpropagated(u, << >>)
          BY <2>1, <4>3 DEF Reopened
        <5>2. u = [u EXCEPT !.predecessor = u.predecessor]
          BY <1>3 DEF Session
        <5> QED
          BY <1>3, <1>4, <4>3, <5>1, <5>2 DEF Settled
      <4> QED
        BY <4>1, <4>2, <4>3
    <3>2. PICK w \in Session : Settled(s, u, c, m, w)
      BY <3>1
    <3>3. /\ w.id = s.id /\ w.views = s.views /\ w.opened = s.opened /\ w.sampled = s.sampled
          /\ w.ended = s.ended /\ w.onClose = s.onClose /\ w.idle = u.idle
      BY <1>3, <1>4, <3>2 DEF Session, Settled
    <3>4. SameViews(s, w)
      BY <3>2, <3>3 DEF SameViews
    <3>5. Readied(s, c, w)
      BY <1>3, <2>5, <3>2, <3>3 DEF Readied, Settled
    <3>6. m.session = w
      BY <3>2 DEF Unpropagated, Settled
    <3>7. PICK q : q = Propagate(Opened(w, c), c)
      OBVIOUS
    <3>8. r = After(Unpropagated(w, << >>), q)
      BY <2>2, <2>3, <3>2, <3>6, <3>7 DEF Settled
    <3>9. Scoped(w)
      BY <3>4, SameViewsSame
    <3>10. CASE c.op # "StartView"
      <4>1. Opened(w, c) = w
        BY <3>10 DEF Opened
      <4>2. q = Propagate(w, c)
        BY <3>7, <4>1
      <4>3. Result(q)
        BY <3>9, <4>2, PropagateGives
      <4>4. r = q
        BY <3>8, <4>3, AfterNothing
      <4>5. Passed(s, w, c, t, held, r)
        BY <3>3, <3>4, <3>10, <4>2, <4>4, PassedOn
      <4> QED
        BY <1>8, <3>4, <3>5, <4>5, PassedInside
    <3>11. CASE c.op = "StartView"
      <4>1. Opened(w, c) = Push(w, c.key) /\ c.key \in ViewKeys
        BY <3>11 DEF Opened, Cmds
      <4>2. q = Propagate(Push(w, c.key), c)
        BY <3>7, <4>1
      <4>3. PICK k : Pushed(w, c.key, Push(w, c.key), k)
        BY <3>9, <4>1, PushPushes
      <4>4. Scoped(Push(w, c.key))
        BY <4>3 DEF Pushed
      <4>5. Result(q)
        BY <4>2, <4>4, PropagateGives
      <4>6. r = q
        BY <3>8, <4>5, AfterNothing
      <4>7. Passed(s, w, c, t, held, r)
        BY <3>3, <3>4, <3>11, <4>2, <4>6, PassedOnNew
      <4> QED
        BY <1>8, <3>4, <3>5, <4>7, PassedInside
    <3> QED
      BY <3>10, <3>11
  <2> QED
    BY <2>4, <2>5
<1> QED
  BY <1>6, <1>7, <1>8

-----------------------------------------------------------------------------
(* Sessions begin, grow older and end. *)

\* v after some time: only its age changes, and what is left of its action.
Older(v, gap, w) ==
  /\ w \in View /\ Sound(w) /\ w.age = v.age + gap
  /\ w.id = v.id /\ w.key = v.key /\ w.active = v.active /\ w.initialised = v.initialised
  /\ w.action.n = v.action.n /\ (w.action = NoAction <=> v.action = NoAction)
  /\ w.actions = v.actions /\ w.pending = v.pending
  /\ \A e : Tells(e, w) <=> Tells(e, v)

LEMMA ViewOlder ==
  ASSUME NEW v \in View, Sound(v), NEW gap \in Nat, NEW w, w = Elapsed(v, gap)
  PROVE  Older(v, gap, w)
<1>1. PICK n : n = v.age + gap
  OBVIOUS
<1>2. PICK u : u = [v EXCEPT !.age = n]
  OBVIOUS
<1>3. /\ u \in View /\ u.age = n /\ u.action = v.action
      /\ u.id = v.id /\ u.key = v.key /\ u.active = v.active /\ u.initialised = v.initialised
      /\ u.actions = v.actions /\ u.pending = v.pending /\ u.opened = v.opened
      /\ u.errors = v.errors /\ u.resources = v.resources /\ u.longTasks = v.longTasks
      /\ u.sent = v.sent
  <2>1. n \in Nat
    BY <1>1 DEF View
  <2> QED
    BY <1>2, <2>1 DEF View
<1>4. v # NoView
  BY DEF View, NoView
<1>5. CASE v.action = NoAction
  <2>1. w = u
    BY <1>1, <1>2, <1>4, <1>5 DEF Elapsed
  <2>2. (\A e : Tells(e, w) <=> Tells(e, v)) /\ Sound(w)
    BY <1>3, <2>1 DEF Tells, Sound
  <2> QED
    BY <1>1, <1>3, <2>1, <2>2 DEF Older
<1>6. CASE v.action # NoAction
  <2>1. PICK a : a = v.action
    OBVIOUS
  <2>2. a \in Action /\ a # NoAction
    BY <1>6, <2>1 DEF View
  <2>3. PICK m : m = a.left - Least(a.left, gap)
    OBVIOUS
  <2>4. m \in Nat
    BY <2>2, <2>3 DEF Action, Least
  <2>5. PICK b : b = [a EXCEPT !.left = m]
    OBVIOUS
  <2>6. b \in Action /\ b.n = a.n
    BY <2>2, <2>4, <2>5 DEF Action
  <2>7. w = [u EXCEPT !.action = b]
    <3>1. w = [v EXCEPT !.age = n, !.action.left = m]
      BY <1>1, <1>4, <1>6, <2>1, <2>3 DEF Elapsed
    <3> QED
      BY <1>2, <1>3, <2>1, <2>5, <3>1
  <2>8. b # NoAction
    BY <2>6 DEF Action, NoAction
  <2>9. /\ w \in View /\ w.action = b /\ w.age = n
        /\ w.id = v.id /\ w.key = v.key /\ w.active = v.active /\ w.initialised = v.initialised
        /\ w.actions = v.actions /\ w.pending = v.pending /\ w.opened = v.opened
        /\ w.errors = v.errors /\ w.resources = v.resources /\ w.longTasks = v.longTasks
        /\ w.sent = v.sent
    BY <1>3, <2>6, <2>7 DEF View
  <2>10. \A e : Tells(e, w) <=> Tells(e, v)
    BY <2>9 DEF Tells
  <2>11. Sound(w)
    BY <1>6, <2>1, <2>6, <2>8, <2>9 DEF Sound
  <2> QED
    BY <1>1, <2>1, <2>2, <2>6, <2>8, <2>9, <2>10, <2>11 DEF Older
<1> QED
  BY <1>5, <1>6

Aged(s, gap, w) ==
  /\ Scoped(w)
  /\ w.id = s.id /\ w.sampled = s.sampled /\ w.ended = s.ended /\ w.predecessor = s.predecessor
  /\ w.onClose = s.onClose /\ w.ttid = s.ttid /\ w.opened = s.opened
  /\ w.idle = Least(s.idle + gap, InactivityTimeout)
  /\ w.age = Least(s.age + gap, MaxDuration + 1)
  /\ Open(w) = Open(s) /\ Active(w) = Active(s)
  /\ \A i \in Open(s) : Older(s.views[i], gap, w.views[i])

LEMMA LaterAges ==
  ASSUME NEW s, Scoped(s), NEW gap \in Nat
  PROVE  Aged(s, gap, Later(s, gap))
<1> DEFINE f == [i \in ViewSlots |-> Elapsed(s.views[i], gap)]
           n == Least(s.age + gap, MaxDuration + 1)
           k == Least(s.idle + gap, InactivityTimeout)
           u == [s EXCEPT !.age = n]
           x == [u EXCEPT !.idle = k]
           w == [x EXCEPT !.views = f]
<1>1. s \in Session /\ s.id > 0 /\ s.id \in Nat
  BY DEF Scoped, Session
<1>2. s # NoSession
  BY <1>1 DEF NoSession
<1>3. Later(s, gap) = w
  <2>1. Later(s, gap) = [s EXCEPT !.age = n, !.idle = k, !.views = f]
    BY <1>2, Zenon DEF Later, ViewSlots
  <2> HIDE DEF f, n, k
  <2> QED
    BY <2>1
<1>4. n \in Nat /\ k \in Nat
  BY <1>1, TimeoutsAssumption DEF Session, Least
<1>5. \A i \in Open(s) : i \in ViewSlots /\ s.views[i] \in View /\ Sound(s.views[i]) /\ s.views[i] # NoView
  BY OpenViews DEF Open
<1>6. \A i \in Open(s) : Older(s.views[i], gap, f[i])
  <2> SUFFICES ASSUME NEW i \in Open(s) PROVE Older(s.views[i], gap, f[i])
    OBVIOUS
  <2>1. f[i] = Elapsed(s.views[i], gap)
    BY <1>5
  <2> HIDE DEF f
  <2> QED
    BY <1>5, <2>1, ViewOlder
<1>7. \A i \in ViewSlots \ Open(s) : s.views[i] = NoView /\ f[i] = NoView
  BY DEF Open, ViewSlots, Elapsed
<1> HIDE DEF f, n, k
<1>8. \A i \in Open(s) : f[i] \in View /\ f[i].id = s.views[i].id /\ f[i].active = s.views[i].active /\ Sound(f[i])
  BY <1>6 DEF Older
<1>9. f \in [ViewSlots -> View \union {NoView}]
  <2>1. \A i \in ViewSlots : f[i] \in View \union {NoView}
    BY <1>7, <1>8
  <2> QED
    BY <2>1 DEF f
<1>10. \A i \in Open(s) : f[i] # NoView
  <2>1. \A i \in Open(s) : f[i].id # NoView.id
    BY <1>8, OpenViews DEF NoView
  <2> QED
    BY <2>1
<1>11. u \in Session /\ u.age = n /\ u = [s EXCEPT !.age = n]
  BY <1>1, <1>4 DEF Session
<1>12. x \in Session /\ x.idle = k /\ x.age = n
  <2> HIDE DEF u
  <2> QED
    BY <1>4, <1>11 DEF Session
<1>13. w \in Session /\ w.views = f /\ w.idle = k /\ w.age = n
  <2> HIDE DEF x
  <2> QED
    BY <1>9, <1>12 DEF Session
<1>14. /\ w.id = s.id /\ w.sampled = s.sampled /\ w.ended = s.ended /\ w.predecessor = s.predecessor
       /\ w.onClose = s.onClose /\ w.ttid = s.ttid /\ w.opened = s.opened
  BY <1>1 DEF Session
<1> HIDE DEF w
<1>15. Open(w) = Open(s)
  BY <1>5, <1>7, <1>10, <1>13 DEF Open, ViewSlots
<1>16. Active(w) = Active(s)
  BY <1>8, <1>13, <1>15 DEF Active
<1>17. Numbered(w)
  BY <1>8, <1>13, <1>14, <1>15 DEF Scoped, Numbered
<1> QED
  BY <1>1, <1>3, <1>6, <1>13, <1>14, <1>15, <1>16, <1>17 DEF Scoped, Aged, n, k

\* Time changes neither what is told of the views nor which of them the user is on.
LEMMA AgedSame ==
  ASSUME NEW s, Scoped(s), NEW gap, NEW w, Aged(s, gap, w), NEW t, NEW held, NEW h
  PROVE  /\ Told1(s, t, held) => Told1(w, t, held)
         /\ HereIn(s, h) => HereIn(w, h)
         /\ Ids(w) = Ids(s)
<1>1. /\ Open(w) = Open(s) /\ Active(w) = Active(s) /\ Active(s) \subseteq Open(s)
      /\ w.sampled = s.sampled /\ w.opened = s.opened /\ w.predecessor = s.predecessor
      /\ \A i \in Open(s) : /\ w.views[i].id = s.views[i].id /\ w.views[i].key = s.views[i].key
                            /\ w.views[i].initialised = s.views[i].initialised
                            /\ \A e : Tells(e, w.views[i]) <=> Tells(e, s.views[i])
  BY DEF Aged, Older, Active
<1>2. Told1(s, t, held) => Told1(w, t, held)
  BY <1>1 DEF Told1
<1>3. HereIn(s, h) => HereIn(w, h)
  BY <1>1 DEF HereIn
<1> QED
  BY <1>1, <1>2, <1>3 DEF Ids

LEMMA NoViewsOpen ==
  ASSUME NEW s, s.views = NoViews
  PROVE  Open(s) = {} /\ Active(s) = {}
BY DEF Open, Active, NoViews

\* A session that has just begun.
Begun(s, id, sampled, key) ==
  /\ Scoped(s) /\ Open(s) = {} /\ Active(s) = {}
  /\ s.id = id /\ s.sampled = sampled /\ s.ended = "no" /\ s.predecessor = key /\ s.onClose = NoKey
  /\ s.opened = 0 /\ s.idle = 0 /\ s.age = 0 /\ s.ttid = 0
  /\ \A t, held : Told1(s, t, held)
  /\ sampled \/ key = NoKey => HereIn(s, key)

LEMMA NewBegins ==
  ASSUME NEW id \in Nat, id > 0, NEW sampled \in BOOLEAN, NEW key \in AnyKey
  PROVE  Begun(NewSession(id, sampled, key), id, sampled, key)
<1> DEFINE s == NewSession(id, sampled, key)
<1>1. NoViews \in [ViewSlots -> View \union {NoView}] /\ s.views = NoViews
  BY DEF NoViews, ViewSlots, NewSession
<1>2. s \in Session
  BY <1>1 DEF NewSession, Session, AnyKey
<1>3. /\ s.id = id /\ s.sampled = sampled /\ s.ended = "no" /\ s.predecessor = key /\ s.onClose = NoKey
      /\ s.opened = 0 /\ s.idle = 0 /\ s.age = 0 /\ s.ttid = 0
  BY DEF NewSession
<1> HIDE DEF s
<1>4. Open(s) = {} /\ Active(s) = {}
  BY <1>1, NoViewsOpen
<1>5. Scoped(s)
  BY <1>2, <1>3, <1>4 DEF Scoped, Numbered
<1>6. \A t, held : Told1(s, t, held)
  BY <1>4 DEF Told1
<1>7. sampled \/ key = NoKey => HereIn(s, key)
  BY <1>3, <1>4 DEF HereIn
<1>8. Begun(s, id, sampled, key)
  BY <1>3, <1>4, <1>5, <1>6, <1>7 DEF Begun
<1> QED
  BY <1>8 DEF s

\* Why a session ends.
LEMMA EndReasons ==
  ASSUME NEW s, NEW c \in Cmds
  PROVE  /\ EndReason(s, c) \in {"no", "inactive", "exceeded", "stopped"}
         /\ EndReason(s, c) = "no" => c.op # "StopSession" /\ ~ Inactive(s) /\ ~ Exceeded(s)
         /\ EndReason(s, c) = "stopped" => c.op = "StopSession" /\ ~ Inactive(s) /\ ~ Exceeded(s)
         /\ ~ Inactive(s) /\ ~ Exceeded(s) /\ c.op # "StopSession" => EndReason(s, c) = "no"
BY DEF EndReason, Inactive, Exceeded

\* r is what is left of s, which ends: its views are told only if the application stops it.
Closed(s, c, r) ==
  /\ r.session \in Session
  /\ r.session.id = s.id /\ r.session.sampled = s.sampled /\ r.session.opened = s.opened
  /\ r.session.idle = s.idle /\ r.session.ended = EndReason(s, c)
  /\ r.session.onClose = ActiveView(s).key
  /\ Open(r.session) = {}
  /\ r.last = << >>
  /\ r.out \in Seq(Event)
  /\ \A x \in DOMAIN r.out : SessionOf(r.out[x]) = s.id /\ r.out[x].type # "ttfd"
  /\ EndReason(s, c) # "stopped" => r.out = << >>
  /\ EndReason(s, c) = "stopped" =>
       \A i \in Open(s) :
         /\ Reports(s.views[i], r.session, r.out)
         /\ s.views[i].active => \A before : ~ Latest(before, r.out, s.views[i].id).sessionActive

LEMMA CloseCloses ==
  ASSUME NEW s, Scoped(s), NEW c \in Cmds, EndReason(s, c) # "no",
         NEW r, r = OnClose(s, c, EndReason(s, c))
  PROVE  Closed(s, c, r)
<1>1. PICK reason : reason = EndReason(s, c)
  OBVIOUS
<1>2. reason \in {"inactive", "exceeded", "stopped"}
  BY <1>1, EndReasons
<1>3. s \in Session /\ s.id > 0
  BY DEF Scoped
<1>4. ActiveView(s).key \in AnyKey
  <2>1. Active(s) # {} => \E i \in Active(s) : ActiveView(s) = s.views[i] /\ s.views[i] \in View
    <3>1. Active(s) \subseteq Open(s)
      BY DEF Active
    <3> QED
      BY <3>1, TheActiveView, OpenViews
  <2>2. Active(s) = {} => ActiveView(s) = NoView
    BY TheActiveView
  <2> QED
    BY <2>1, <2>2 DEF View, AnyKey, NoView
<1>5. PICK u : u = [s EXCEPT !.ended = reason, !.onClose = ActiveView(s).key]
  OBVIOUS
<1>6. /\ u \in Session /\ u.id = s.id /\ u.sampled = s.sampled /\ u.opened = s.opened /\ u.idle = s.idle
      /\ u.ended = reason /\ u.onClose = ActiveView(s).key /\ u.views = s.views
  <2>1. PICK x : x = [s EXCEPT !.ended = reason]
    OBVIOUS
  <2>2. x \in Session
    BY <1>2, <1>3, <2>1 DEF Session
  <2>3. u = [x EXCEPT !.onClose = ActiveView(s).key]
    BY <1>5, <2>1
  <2> QED
    BY <1>2, <1>3, <1>4, <2>1, <2>2, <2>3 DEF Session
<1>7. PICK q : q = IF reason = "stopped" THEN Propagate(u, c) ELSE Unpropagated(u, << >>)
  OBVIOUS
<1>8. r = [q EXCEPT !.session.views = NoViews]
  BY <1>1, <1>5, <1>7 DEF OnClose
<1>9. q = [session |-> q.session, out |-> q.out, last |-> q.last]
  BY <1>7 DEF Propagate, Gathered, Unpropagated
<1>10. r.session = [q.session EXCEPT !.views = NoViews] /\ r.out = q.out /\ r.last = q.last
  BY <1>8, <1>9
<1>11. SameViews(s, u)
  BY <1>6 DEF SameViews
<1>12. Scoped(u) /\ Open(u) = Open(s) /\ Active(u) = Active(s)
  BY <1>11, SameViewsSame
<1>13. \E d : reason = "stopped" => Spread(u, c, q, d)
  <2>1. reason = "stopped" => q = Propagate(u, c)
    BY <1>7
  <2> QED
    BY <1>12, <2>1, PropagateSpreads
<1>14. PICK d : reason = "stopped" => Spread(u, c, q, d)
  BY <1>13
<1>15. reason = "stopped" => ScopesSpread(u, c, q, d)
  BY <1>12, <1>14, SpreadScopes
<1>16. /\ q.session \in Session
       /\ q.session = [u EXCEPT !.views = q.session.views]
       /\ reason = "stopped" => Scoped(q.session) /\ Active(q.session) = {i \in Open(u) : Stays(u.views[i], c)}
  <2>1. CASE reason = "stopped"
    BY <1>15, <2>1 DEF ScopesSpread, Scoped
  <2>2. CASE reason # "stopped"
    <3>1. q.session = u
      BY <1>7, <2>2 DEF Unpropagated
    <3> QED
      BY <1>6, <2>2, <3>1 DEF Session
  <2> QED
    BY <2>1, <2>2
<1>17. /\ q.session.id = s.id /\ q.session.sampled = s.sampled /\ q.session.opened = s.opened /\ q.session.idle = s.idle
       /\ q.session.ended = reason /\ q.session.onClose = ActiveView(s).key
  BY <1>6, <1>16 DEF Session
<1>18. /\ r.session \in Session
       /\ r.session.id = s.id /\ r.session.sampled = s.sampled /\ r.session.opened = s.opened /\ r.session.idle = s.idle
       /\ r.session.ended = reason /\ r.session.onClose = ActiveView(s).key /\ r.session.views = NoViews
  <2>1. NoViews \in [ViewSlots -> View \union {NoView}]
    BY DEF NoViews, ViewSlots
  <2> QED
    BY <1>10, <1>16, <1>17, <2>1 DEF Session
<1>19. Open(r.session) = {}
  BY <1>18, NoViewsOpen
<1>20. CASE reason # "stopped"
  <2>1. r.out = << >> /\ r.last = << >>
    BY <1>7, <1>10, <1>20 DEF Unpropagated
  <2> QED
    BY <1>1, <1>18, <1>19, <1>20, <2>1 DEF Closed
<1>21. CASE reason = "stopped"
  <2>1. c.op = "StopSession"
    BY <1>1, <1>21, EndReasons
  <2>2. Spread(u, c, q, d)
    BY <1>14, <1>21
  <2>3. Active(q.session) = {} /\ Scoped(q.session)
    BY <1>16, <1>21, <2>1 DEF Stays
  <2>4. r.last = << >>
    <3>1. q.last # << >> => \E i \in Active(q.session) : TRUE
      BY <1>12, <2>2, SpreadLast
    <3> QED
      BY <1>10, <2>3, <3>1
  <2>5. PICK off : Where(u, q, d, off)
    BY <1>12, <2>2, SpreadWhere
  <2>6. ASSUME NEW x \in DOMAIN q.out PROVE SessionOf(q.out[x]) = s.id /\ q.out[x].type # "ttfd"
    <3>1. PICK i \in Open(u) : \E j \in DOMAIN d[i].out : q.out[x] = d[i].out[j] /\ d[i].out[j].view = u.views[i].id
      BY <2>5 DEF Where
    <3>2. PICK j \in DOMAIN d[i].out : q.out[x] = d[i].out[j] /\ d[i].out[j].view = u.views[i].id
      BY <3>1
    <3>3. Processed1(u.views[i], c, u.ended = "no", d[i])
      BY <2>2 DEF Spread
    <3>4. d[i].out \in Seq(EventOf(u.views[i].id))
      BY <3>3 DEF Processed1
    <3>5. q.out[x] \in EventOf(u.views[i].id)
      BY <3>2, <3>4
    <3>6. q.out[x].type \notin {"ttid", "ttfd", "operation"}
      BY <3>5 DEF EventOf, DetailOf, Detail, Update
    <3>7. u.views[i].id[1] = s.id
      BY <1>6, <1>12 DEF Scoped, Numbered
    <3> QED
      BY <3>2, <3>6, <3>7 DEF SessionOf
  <2>7. ASSUME NEW i \in Open(s)
        PROVE  /\ Reports(s.views[i], r.session, r.out)
               /\ s.views[i].active => \A before : ~ Latest(before, r.out, s.views[i].id).sessionActive
    <3>1. Fated(u, s.views[i], c, q)
      BY <1>6, <1>12, <2>2, PropagateFates
    <3>2. /\ Reports(s.views[i], q.session, q.out)
          /\ s.views[i].active => \A before : ~ Latest(before, q.out, s.views[i].id).sessionActive
      BY <1>6, <1>21, <2>1, <3>1 DEF Fated
    <3>3. s.views[i].action # NoAction => ~ GoesOn(s.views[i], q.session)
      <4>1. s.views[i] \in View
        BY OpenViews
      <4>2. s.views[i].action # NoAction => s.views[i].action.n # 0
        BY <4>1 DEF View, Action
      <4>3. \A k \in Open(q.session) : q.session.views[k].action.n = 0
        BY <2>3 DEF Active, Scoped, Numbered, Sound, NoAction
      <4> QED
        BY <4>2, <4>3 DEF GoesOn
    <3>4. ~ GoesOn(s.views[i], r.session)
      BY <1>19 DEF GoesOn
    <3> QED
      BY <1>10, <3>2, <3>3, <3>4 DEF Reports
  <2>8. r.out \in Seq(Event)
    BY <1>10, <2>2 DEF Spread
  <2>9. \A x \in DOMAIN r.out : SessionOf(r.out[x]) = s.id /\ r.out[x].type # "ttfd"
    BY <1>10, <2>6
  <2> QED
    BY <1>1, <1>18, <1>19, <1>21, <2>4, <2>7, <2>8, <2>9 DEF Closed
<1> QED
  BY <1>20, <1>21

-----------------------------------------------------------------------------
(* The application. *)

AppOK(a) ==
  /\ a = [active |-> a.active, prev |-> a.prev]
  /\ IF a.active = NoSession
     THEN a.prev \in Session /\ a.prev.id > 0 /\ a.prev.ended # "no" /\ Open(a.prev) = {}
     ELSE /\ a.prev = NoSession
          /\ Scoped(a.active) /\ a.active.ended = "no" /\ (~ a.active.sampled => a.active.opened = 0)

\* r is what the session s, active, makes of c.
Continues(s, c, now, r) ==
  LET q == ProcessInSession(s, c, now)
  IN  r = [app |-> [active |-> q.session, prev |-> NoSession], out |-> q.out, last |-> q.last]

\* r is what the session that takes over from p makes of c.
Successor(p, sampled) == NewSession(p.id + 1, sampled, IF sampled THEN p.onClose ELSE NoKey)

Anew(p, c, now, sampled, r) == c.op # "StopSession" /\ Continues(Successor(p, sampled), c, now, r)

\* No session is active, and none begins.
Rests(a, c, r) ==
  /\ r.app.active = NoSession /\ r.app = [active |-> r.app.active, prev |-> r.app.prev]
  /\ r.out = << >> /\ r.last = << >>
  /\ r.app.prev = IF c.op = "StopView" /\ a.prev.onClose = c.key THEN [a.prev EXCEPT !.onClose = NoKey] ELSE a.prev

\* The application stops its session.
StopsIn(s, c, r) ==
  LET o == OnClose(s, c, EndReason(s, c))
  IN  /\ c.op = "StopSession"
      /\ r = [app |-> [active |-> NoSession, prev |-> o.session], out |-> o.out, last |-> o.last]

\* The session has expired.
Expired(s, c, now, sampled, r) ==
  /\ EndReason(s, c) \notin {"no", "stopped"}
  /\ Anew(OnClose(s, c, EndReason(s, c)).session, c, now, sampled, r)

AppCase(a, c, now, sampled, r) ==
  IF a.active = NoSession
  THEN Rests(a, c, r) \/ Anew(a.prev, c, now, sampled, r)
  ELSE \/ EndReason(a.active, c) = "no" /\ Continues(a.active, c, now, r)
       \/ EndReason(a.active, c) # "no" /\ StopsIn(a.active, c, r)
       \/ Expired(a.active, c, now, sampled, r)

LEMMA NewInSession ==
  ASSUME NEW p \in Session, NEW sampled \in BOOLEAN, NEW c \in Cmds, c.op # "StopSession", NEW now \in Nat,
         NEW t, NEW held, NEW s, s = Successor(p, sampled)
  PROVE  /\ Begun(s, p.id + 1, sampled, IF sampled THEN p.onClose ELSE NoKey)
         /\ Inside(s, c, t, held, IF sampled THEN p.onClose ELSE NoKey, ProcessInSession(s, c, now))
         /\ EndReason(s, c) = "no"
<1>1. PICK key : key = IF sampled THEN p.onClose ELSE NoKey
  OBVIOUS
<1>2. key \in AnyKey /\ p.id + 1 \in Nat /\ p.id + 1 > 0
  BY <1>1 DEF Session, AnyKey
<1>3. Begun(s, p.id + 1, sampled, key)
  BY <1>1, <1>2, NewBegins DEF Successor
<1>4. HereIn(s, key)
  BY <1>1, <1>3 DEF Begun
<1>5. Scoped(s) /\ s.ended = "no" /\ s.opened = 0 /\ Told1(s, t, held) /\ s.idle = 0 /\ s.age = 0
  BY <1>3 DEF Begun
<1>6. Inside(s, c, t, held, key, ProcessInSession(s, c, now))
  BY <1>4, <1>5, InSession
<1>7. EndReason(s, c) = "no"
  BY <1>5, EndReasons, TimeoutsAssumption DEF Inactive, Exceeded
<1> QED
  BY <1>1, <1>3, <1>6, <1>7

LEMMA AppCases ==
  ASSUME NEW a, AppOK(a), NEW c \in Cmds, NEW now \in Nat, NEW sampled \in BOOLEAN,
         NEW t, NEW held, NEW h, a.active # NoSession => Told1(a.active, t, held) /\ HereIn(a.active, h),
         NEW r, r = ProcessApplication(a, c, now, sampled)
  PROVE  AppCase(a, c, now, sampled, r)
<1>1. \A x, y : ProcessOnceOpen([active |-> x, prev |-> y], c, now, sampled)
                  = IF x = NoSession THEN [app |-> [active |-> x, prev |-> y], out |-> << >>, last |-> << >>]
                    ELSE Processed([active |-> x, prev |-> y], ProcessSession(x, c, now), c, now, sampled)
  BY DEF ProcessOnceOpen
<1>2. \A x : x \in Session /\ x.id > 0 => x # NoSession
  BY DEF NoSession
<1>3. \A p \in Session : p.id > 0 =>
        Refreshed([active |-> NoSession, prev |-> p], c, sampled)
          = IF Reopens(c, p.ended) THEN [active |-> Successor(p, sampled), prev |-> NoSession]
            ELSE [active |-> NoSession, prev |-> p]
  BY <1>2 DEF Refreshed, Successor
<1>4. \A x, y : x # NoSession => Forgotten([active |-> x, prev |-> y], c) = [active |-> x, prev |-> y]
  BY DEF Forgotten
<1>5. ASSUME NEW s, NEW q, q = ProcessInSession(s, c, now), EndReason(s, c) = "no"
      PROVE  ProcessSession(s, c, now) = q
  BY <1>5 DEF ProcessSession
<1>6. \A x, y, q, o : Remains([active |-> x, prev |-> y], q, o)
                        = [app |-> [active |-> q.session, prev |-> y], out |-> o, last |-> q.last]
  BY DEF Remains
<1>7. ASSUME NEW p \in Session, p.id > 0, c.op # "StopSession", NEW s, s = Successor(p, sampled),
             NEW q, q = ProcessInSession(s, c, now)
      PROVE  /\ s # NoSession /\ ProcessSession(s, c, now) = q /\ q.session.ended = "no"
             /\ q.out \in Seq(Event)
  <2>1. /\ Begun(s, p.id + 1, sampled, IF sampled THEN p.onClose ELSE NoKey)
        /\ Inside(s, c, t, held, IF sampled THEN p.onClose ELSE NoKey, q)
        /\ EndReason(s, c) = "no"
    BY <1>7, NewInSession
  <2>2. s \in Session /\ s.id > 0 /\ s.ended = "no"
    BY <2>1 DEF Begun, Scoped
  <2> QED
    BY <1>2, <1>5, <1>7, <2>1, <2>2 DEF Inside, Continued
<1>8. CASE a.active = NoSession
  <2>1. a = [active |-> NoSession, prev |-> a.prev] /\ a.prev \in Session /\ a.prev.id > 0
    BY <1>8 DEF AppOK
  <2>2. PICK p : p = a.prev
    OBVIOUS
  <2>3. p \in Session /\ p.id > 0 /\ a = [active |-> NoSession, prev |-> p] /\ p # NoSession
    BY <1>2, <2>1, <2>2
  <2>4. CASE c.op \in RequiresActiveSession /\ Reopens(c, p.ended)
    <3>1. PICK s : s = Successor(p, sampled)
      OBVIOUS
    <3>2. PICK q : q = ProcessInSession(s, c, now)
      OBVIOUS
    <3>3. c.op # "StopSession"
      BY <2>4 DEF Reopens
    <3>4. s # NoSession /\ ProcessSession(s, c, now) = q /\ q.session.ended = "no"
      BY <1>7, <2>3, <3>1, <3>2, <3>3
    <3>5. Refreshed(a, c, sampled) = [active |-> s, prev |-> NoSession]
      BY <1>3, <2>3, <2>4, <3>1
    <3>6. r = ProcessOnceOpen([active |-> s, prev |-> NoSession], c, now, sampled)
      BY <1>4, <1>8, <2>4, <3>4, <3>5 DEF ProcessApplication
    <3>7. r = Remains([active |-> s, prev |-> NoSession], q, q.out)
      BY <1>1, <3>4, <3>6 DEF Processed
    <3>8. r = [app |-> [active |-> q.session, prev |-> NoSession], out |-> q.out, last |-> q.last]
      BY <1>6, <3>7
    <3>9. Anew(p, c, now, sampled, r)
      BY <3>1, <3>2, <3>3, <3>8 DEF Anew, Continues
    <3> QED
      BY <1>8, <2>2, <3>9 DEF AppCase
  <2>5. CASE ~ (c.op \in RequiresActiveSession /\ Reopens(c, p.ended))
    <3>1. r = ProcessOnceOpen(Forgotten(a, c), c, now, sampled)
      <4>1. Refreshed(a, c, sampled) = IF Reopens(c, p.ended) THEN [active |-> Successor(p, sampled), prev |-> NoSession] ELSE a
        BY <1>3, <2>3
      <4>2. (IF c.op \in RequiresActiveSession /\ a.active = NoSession THEN Refreshed(a, c, sampled) ELSE a) = a
        BY <2>5, <4>1
      <4> QED
        BY <4>2 DEF ProcessApplication
    <3>2. PICK y : y = IF c.op = "StopView" /\ p.onClose = c.key THEN [p EXCEPT !.onClose = NoKey] ELSE p
      OBVIOUS
    <3>3. Forgotten(a, c) = [active |-> NoSession, prev |-> y]
      <4>1. CASE c.op = "StopView" /\ p.onClose = c.key
        <5>1. Forgotten(a, c) = [a EXCEPT !.prev.onClose = NoKey]
          BY <1>8, <2>2, <2>3, <4>1 DEF Forgotten
        <5>2. [a EXCEPT !.prev.onClose = NoKey] = [active |-> NoSession, prev |-> [p EXCEPT !.onClose = NoKey]]
          BY <2>3
        <5> QED
          BY <3>2, <4>1, <5>1, <5>2
      <4>2. CASE ~ (c.op = "StopView" /\ p.onClose = c.key)
        BY <1>8, <2>2, <2>3, <3>2, <4>2 DEF Forgotten
      <4> QED
        BY <4>1, <4>2
    <3>4. r = [app |-> [active |-> NoSession, prev |-> y], out |-> << >>, last |-> << >>]
      BY <1>1, <3>1, <3>3
    <3>5. Rests(a, c, r)
      BY <2>2, <3>2, <3>4 DEF Rests
    <3> QED
      BY <1>8, <3>5 DEF AppCase
  <2> QED
    BY <2>4, <2>5
<1>9. CASE a.active # NoSession
  <2>1. PICK s : s = a.active
    OBVIOUS
  <2>2. /\ a = [active |-> s, prev |-> NoSession] /\ Scoped(s) /\ s.ended = "no"
        /\ (~ s.sampled => s.opened = 0) /\ s # NoSession
    BY <1>9, <2>1 DEF AppOK
  <2>3. PICK ps : ps = ProcessSession(s, c, now)
    OBVIOUS
  <2>4. r = Processed(a, ps, c, now, sampled)
    <3>1. r = ProcessOnceOpen(Forgotten(a, c), c, now, sampled)
      BY <1>9 DEF ProcessApplication
    <3>2. Forgotten(a, c) = a
      BY <1>9 DEF Forgotten
    <3> QED
      BY <1>1, <2>2, <2>3, <3>1, <3>2
  <2>5. CASE EndReason(s, c) = "no"
    <3>1. ps = ProcessInSession(s, c, now)
      BY <1>5, <2>3, <2>5
    <3>2. c.op # "StopSession"
      BY <2>5, EndReasons
    <3>3. Told1(s, t, held) /\ HereIn(s, h)
      BY <1>9, <2>1
    <3>4. Inside(s, c, t, held, h, ps)
      BY <2>2, <3>1, <3>2, <3>3, InSession
    <3>5. ps.session.ended = "no"
      BY <2>2, <3>4 DEF Inside
    <3>6. r = Remains(a, ps, ps.out)
      BY <2>4, <3>5 DEF Processed
    <3>7. Continues(s, c, now, r)
      BY <1>6, <2>2, <3>1, <3>6 DEF Continues
    <3> QED
      BY <1>9, <2>1, <2>5, <3>7 DEF AppCase
  <2>6. CASE EndReason(s, c) # "no"
    <3>1. ps = OnClose(s, c, EndReason(s, c))
      BY <2>3, <2>6 DEF ProcessSession
    <3>2. Closed(s, c, ps)
      BY <2>2, <2>6, <3>1, CloseCloses
    <3>3. /\ ps.session \in Session /\ ps.session.id > 0 /\ ps.session.ended = EndReason(s, c)
          /\ ps.last = << >> /\ (EndReason(s, c) # "stopped" => ps.out = << >>)
      BY <2>2, <3>2 DEF Closed, Scoped
    <3>4. PICK p : p = ps.session
      OBVIOUS
    <3>5. r = TakenOver(ps, Refreshed([active |-> NoSession, prev |-> p], c, sampled), c, now)
      BY <2>4, <2>6, <3>3, <3>4 DEF Processed
    <3>6. EndReason(s, c) = "stopped" => c.op = "StopSession"
      BY EndReasons
    <3>7. CASE c.op = "StopSession"
      <4>1. ~ Reopens(c, p.ended)
        BY <3>7 DEF Reopens
      <4>2. r = TakenOver(ps, [active |-> NoSession, prev |-> p], c, now)
        BY <1>3, <3>3, <3>4, <3>5, <4>1
      <4>3. r = [app |-> [active |-> NoSession, prev |-> p], out |-> ps.out, last |-> ps.last]
        BY <4>2 DEF TakenOver
      <4>4. StopsIn(s, c, r)
        BY <3>1, <3>4, <3>7, <4>3 DEF StopsIn
      <4> QED
        BY <1>9, <2>1, <2>6, <4>4 DEF AppCase
    <3>8. CASE c.op # "StopSession"
      <4>1. EndReason(s, c) \notin {"no", "stopped"} /\ p.ended # "stopped"
        BY <2>6, <3>3, <3>4, <3>6, <3>8
      <4>2. Reopens(c, p.ended)
        BY <3>8, <4>1 DEF Reopens
      <4>3. PICK n : n = Successor(p, sampled)
        OBVIOUS
      <4>4. PICK q : q = ProcessInSession(n, c, now)
        OBVIOUS
      <4>5. n # NoSession /\ ProcessSession(n, c, now) = q /\ q.session.ended = "no" /\ q.out \in Seq(Event)
        BY <1>7, <3>3, <3>4, <3>8, <4>3, <4>4
      <4>6. r = TakenOver(ps, [active |-> n, prev |-> NoSession], c, now)
        BY <1>3, <3>3, <3>4, <3>5, <4>2, <4>3
      <4>7. r = Remains([active |-> n, prev |-> NoSession], q, ps.out \o q.out)
        BY <4>5, <4>6 DEF TakenOver
      <4>8. ps.out \o q.out = q.out
        BY <3>3, <4>1, <4>5, ConcatEmptySeq
      <4>9. r = [app |-> [active |-> q.session, prev |-> NoSession], out |-> q.out, last |-> q.last]
        BY <1>6, <4>7, <4>8
      <4>10. Expired(s, c, now, sampled, r)
        BY <3>1, <3>4, <3>8, <4>1, <4>3, <4>4, <4>9 DEF Expired, Anew, Continues
      <4> QED
        BY <1>9, <2>1, <4>10 DEF AppCase
    <3> QED
      BY <3>7, <3>8
  <2> QED
    BY <2>5, <2>6
<1> QED
  BY <1>8, <1>9

-----------------------------------------------------------------------------
(* The invariant. *)

\* The last event of every view, NoEvent for those that have none.
AllTold == [id \in Id |-> Told(id)]

NoneActive(a) == a.active # NoSession => Active(a.active) = {}

LatestSession(a) == IF a.active # NoSession THEN a.active ELSE a.prev

Bounded ==
  /\ used.calls \in Nat /\ used.calls <= MaxCommands
  /\ LatestSession(app).id <= used.calls + 1
  /\ LatestSession(app).opened <= used.calls
  /\ LatestSession(app).idle <= InactivityTimeout
  /\ uptime \in Nat /\ once \subseteq {"ttid", "ttfd"} /\ here \in AnyKey

\* Every view that is open has been told as it is, and the active one is what the other
\* features hold.
Telling ==
  /\ app.active # NoSession => Told1(app.active, AllTold, heard.view)
  /\ NoneActive(app) => heard.view = NoEvent
  /\ heard.session = SessionState(app)

Knowing ==
  IF app.active # NoSession THEN HereIn(app.active, here) ELSE here = app.prev.onClose

RumInv == AppOK(app) /\ Bounded /\ Telling /\ Knowing

\* One call of the API, with what it is given.
Called(c, sampled, r) ==
  /\ c \in Cmds /\ sampled \in BOOLEAN
  /\ used.calls < MaxCommands /\ used'.calls = used.calls + 1
  /\ cmd' = c
  /\ uptime' = Least(uptime + c.gap, MaxTTFD)
  /\ r = ProcessApplication([app EXCEPT !.active = Later(@, c.gap)], c, uptime', sampled)
  /\ app' = r.app /\ out' = r.out
  /\ heard' = Heard(app, r.app, r.last)
  /\ told' = [id \in OpenIds(r.app) |-> LastTold(id)]
  /\ here' = Here(app, r.app, c)
  /\ once \subseteq {"ttid", "ttfd"} => once' \subseteq {"ttid", "ttfd"}

LEMMA IssueCalls ==
  ASSUME NEW op \in Ops, NEW key \in ViewKeys \union ResourceKeys \union {NoKey},
         op \in {"StartView", "StopView"} => key \in ViewKeys,
         op \in {"StartResource", "StopResource", "FailResource"} => key \in ResourceKeys,
         once \subseteq {"ttid", "ttfd"} => once' \subseteq {"ttid", "ttfd"},
         Issue(op, key)
  PROVE  \E c, sampled, r : Called(c, sampled, r)
<1>1. PICK gap \in Gaps :
        /\ used' = [calls |-> used.calls + 1, waits |-> used.waits + Least(gap, 1)]
        /\ cmd' = Command(op, key, gap)
        /\ uptime' = Least(uptime + gap, MaxTTFD)
        /\ \E later \in {[app EXCEPT !.active = Later(@, gap)]} :
           \E sampled \in IF Opens(later, cmd') THEN Sampling ELSE {TRUE} :
           \E r \in {ProcessApplication(later, cmd', uptime', sampled)} :
             /\ app' = r.app
             /\ out' = r.out
             /\ heard' = Heard(app, r.app, r.last)
             /\ told' = [id \in OpenIds(r.app) |-> LastTold(id)]
             /\ here' = Here(app, r.app, cmd')
  BY DEF Issue
<1>2. PICK c : c = Command(op, key, gap)
  OBVIOUS
<1>3. c \in Cmds /\ c.gap = gap /\ cmd' = c
  BY <1>1, <1>2, CallsAssumption DEF Command, Cmds
<1>4. PICK sampled \in BOOLEAN :
        /\ app' = ProcessApplication([app EXCEPT !.active = Later(@, gap)], c, uptime', sampled).app
        /\ out' = ProcessApplication([app EXCEPT !.active = Later(@, gap)], c, uptime', sampled).out
        /\ heard' = Heard(app, ProcessApplication([app EXCEPT !.active = Later(@, gap)], c, uptime', sampled).app,
                          ProcessApplication([app EXCEPT !.active = Later(@, gap)], c, uptime', sampled).last)
        /\ told' = [id \in OpenIds(ProcessApplication([app EXCEPT !.active = Later(@, gap)], c, uptime', sampled).app)
                      |-> LastTold(id)]
        /\ here' = Here(app, ProcessApplication([app EXCEPT !.active = Later(@, gap)], c, uptime', sampled).app, c)
  BY <1>1, <1>3, CallsAssumption
<1>5. used.calls < MaxCommands /\ used'.calls = used.calls + 1
  BY <1>1 DEF Issue
<1>6. PICK r : r = ProcessApplication([app EXCEPT !.active = Later(@, gap)], c, uptime', sampled)
  OBVIOUS
<1>7. Called(c, sampled, r)
  BY <1>1, <1>3, <1>4, <1>5, <1>6 DEF Called
<1> QED
  BY <1>7

LEMMA NextCalls ==
  ASSUME Next
  PROVE  \E c, sampled, r : Called(c, sampled, r)
<1>1. \E op \in Ops : \E key \in ViewKeys \union ResourceKeys \union {NoKey} :
        /\ op \in {"StartView", "StopView"} => key \in ViewKeys
        /\ op \in {"StartResource", "StopResource", "FailResource"} => key \in ResourceKeys
        /\ once \subseteq {"ttid", "ttfd"} => once' \subseteq {"ttid", "ttfd"}
        /\ Issue(op, key)
  <2>1. CASE \E key \in ViewKeys : StartView(key) \/ StopView(key)
    BY <2>1 DEF StartView, StopView, Ops
  <2>2. CASE AddAction \/ AddCustomAction \/ StartAction \/ StopAction
    BY <2>2 DEF AddAction, AddCustomAction, StartAction, StopAction, Ops
  <2>3. CASE \E key \in ResourceKeys : StartResource(key) \/ StopResource(key) \/ FailResource(key)
    BY <2>3 DEF StartResource, StopResource, FailResource, Ops
  <2>4. CASE AddError \/ AddLongTask \/ StepOperation \/ StopSession
    BY <2>4 DEF AddError, AddLongTask, StepOperation, StopSession, Ops
  <2>5. CASE ReportAppDisplayInitialized \/ ReportAppFullyDisplayed
    BY <2>5 DEF ReportAppDisplayInitialized, ReportAppFullyDisplayed, Ops
  <2> QED
    BY <2>1, <2>2, <2>3, <2>4, <2>5 DEF Next
<1>2. PICK op \in Ops : \E key \in ViewKeys \union ResourceKeys \union {NoKey} :
        /\ op \in {"StartView", "StopView"} => key \in ViewKeys
        /\ op \in {"StartResource", "StopResource", "FailResource"} => key \in ResourceKeys
        /\ once \subseteq {"ttid", "ttfd"} => once' \subseteq {"ttid", "ttfd"}
        /\ Issue(op, key)
  BY <1>1
<1>3. PICK key \in ViewKeys \union ResourceKeys \union {NoKey} :
        /\ op \in {"StartView", "StopView"} => key \in ViewKeys
        /\ op \in {"StartResource", "StopResource", "FailResource"} => key \in ResourceKeys
        /\ once \subseteq {"ttid", "ttfd"} => once' \subseteq {"ttid", "ttfd"}
        /\ Issue(op, key)
  BY <1>2
<1> QED
  BY <1>3, IssueCalls

\* The four things a call may come to.  l is the session as the command finds it.
GoesOnWith(c, r, l) ==
  /\ app.active # NoSession /\ Scoped(app.active) /\ Aged(app.active, c.gap, l)
  /\ EndReason(l, c) = "no"
  /\ Inside(l, c, AllTold, heard.view, here, [session |-> r.app.active, out |-> r.out, last |-> r.last])
  /\ r.app = [active |-> r.app.active, prev |-> NoSession]

StopsWith(c, r, l) ==
  /\ app.active # NoSession /\ Scoped(app.active) /\ Aged(app.active, c.gap, l)
  /\ EndReason(l, c) # "no" /\ c.op = "StopSession"
  /\ Closed(l, c, [session |-> r.app.prev, out |-> r.out, last |-> r.last])
  /\ r.app = [active |-> NoSession, prev |-> r.app.prev]

BeginsWith(c, sampled, r, p, n, l) ==
  /\ p \in Session /\ p.id > 0 /\ c.op # "StopSession"
  /\ IF app.active = NoSession THEN p = app.prev
     ELSE /\ Scoped(app.active) /\ Aged(app.active, c.gap, l)
          /\ EndReason(l, c) \notin {"no", "stopped"}
          /\ p.id = l.id /\ p.onClose = ActiveView(l).key
  /\ Begun(n, p.id + 1, sampled, IF sampled THEN p.onClose ELSE NoKey)
  /\ Inside(n, c, AllTold, heard.view, IF sampled THEN p.onClose ELSE NoKey,
            [session |-> r.app.active, out |-> r.out, last |-> r.last])
  /\ r.app = [active |-> r.app.active, prev |-> NoSession]

Comes(c, sampled, r) ==
  \/ app.active = NoSession /\ Rests(app, c, r)
  \/ \E l : GoesOnWith(c, r, l)
  \/ \E l : StopsWith(c, r, l)
  \/ \E p, n, l : BeginsWith(c, sampled, r, p, n, l)

LEMMA CallComes ==
  ASSUME RumInv, NEW c, NEW sampled, NEW r, Called(c, sampled, r)
  PROVE  Comes(c, sampled, r)
<1>1. c \in Cmds /\ sampled \in BOOLEAN /\ c.gap \in Nat
  BY DEF Called, Cmds
<1>2. uptime' \in Nat
  BY <1>1, CallsAssumption DEF Called, RumInv, Bounded, Least
<1>3. PICK now : now = uptime'
  OBVIOUS
<1>4. PICK a : a = [app EXCEPT !.active = Later(@, c.gap)]
  OBVIOUS
<1>5. r = ProcessApplication(a, c, now, sampled)
  BY <1>3, <1>4 DEF Called
<1>6. AppOK(app)
  BY DEF RumInv
<1>7. app = [active |-> app.active, prev |-> app.prev]
  BY <1>6 DEF AppOK
<1>8. PICK l : l = Later(app.active, c.gap)
  OBVIOUS
<1>9. a = [active |-> l, prev |-> app.prev]
  BY <1>4, <1>7, <1>8
<1>10. ASSUME NEW s, NEW q, q = ProcessInSession(s, c, now), NEW t, NEW held, NEW h,
              Inside(s, c, t, held, h, q),
              r = [app |-> [active |-> q.session, prev |-> NoSession], out |-> q.out, last |-> q.last]
       PROVE  /\ Inside(s, c, t, held, h, [session |-> r.app.active, out |-> r.out, last |-> r.last])
              /\ r.app = [active |-> r.app.active, prev |-> NoSession]
  <2>1. PICK x : x = [session |-> r.app.active, out |-> r.out, last |-> r.last]
    OBVIOUS
  <2>2. x.session = q.session /\ x.out = q.out /\ x.last = q.last
    BY <1>10, <2>1
  <2>3. Continued(s, c, t, held, x)
    BY <1>10, <2>2 DEF Inside, Continued, Lived, Reports
  <2>4. Inside(s, c, t, held, h, x)
    BY <1>10, <2>2, <2>3 DEF Inside
  <2> QED
    BY <1>10, <2>1, <2>4
<1>11. ASSUME NEW p \in Session, p.id > 0, Anew(p, c, now, sampled, r)
       PROVE  /\ c.op # "StopSession"
              /\ \E n : /\ Begun(n, p.id + 1, sampled, IF sampled THEN p.onClose ELSE NoKey)
                        /\ Inside(n, c, AllTold, heard.view, IF sampled THEN p.onClose ELSE NoKey,
                                  [session |-> r.app.active, out |-> r.out, last |-> r.last])
                        /\ r.app = [active |-> r.app.active, prev |-> NoSession]
  <2>1. c.op # "StopSession" /\ Continues(Successor(p, sampled), c, now, r)
    BY <1>11 DEF Anew
  <2>2. PICK n : n = Successor(p, sampled)
    OBVIOUS
  <2>3. PICK q : q = ProcessInSession(n, c, now)
    OBVIOUS
  <2>4. /\ Begun(n, p.id + 1, sampled, IF sampled THEN p.onClose ELSE NoKey)
        /\ Inside(n, c, AllTold, heard.view, IF sampled THEN p.onClose ELSE NoKey, q)
    BY <1>1, <1>2, <1>3, <2>1, <2>2, <2>3, NewInSession
  <2>5. r = [app |-> [active |-> q.session, prev |-> NoSession], out |-> q.out, last |-> q.last]
    BY <2>1, <2>2, <2>3 DEF Continues
  <2> QED
    BY <1>10, <2>1, <2>3, <2>4, <2>5
<1>12. CASE app.active = NoSession
  <2>1. l = NoSession /\ a = app
    BY <1>7, <1>8, <1>9, <1>12 DEF Later
  <2>2. AppCase(app, c, now, sampled, r)
    BY <1>1, <1>2, <1>3, <1>5, <1>6, <1>12, <2>1, AppCases
  <2>3. Rests(app, c, r) \/ Anew(app.prev, c, now, sampled, r)
    BY <1>12, <2>2 DEF AppCase
  <2>4. app.prev \in Session /\ app.prev.id > 0
    BY <1>6, <1>12 DEF AppOK
  <2>5. CASE Anew(app.prev, c, now, sampled, r)
    BY <1>11, <1>12, <2>4, <2>5 DEF Comes, BeginsWith
  <2> QED
    BY <1>12, <2>3, <2>5 DEF Comes
<1>13. CASE app.active # NoSession
  <2>1. /\ app.prev = NoSession /\ Scoped(app.active) /\ app.active.ended = "no"
        /\ (~ app.active.sampled => app.active.opened = 0)
    BY <1>6, <1>13 DEF AppOK
  <2>2. Aged(app.active, c.gap, l)
    BY <1>1, <1>8, <2>1, LaterAges
  <2>3. Told1(app.active, AllTold, heard.view) /\ HereIn(app.active, here)
    BY <1>13 DEF RumInv, Telling, Knowing
  <2>4. Told1(l, AllTold, heard.view) /\ HereIn(l, here)
    BY <2>1, <2>2, <2>3, AgedSame
  <2>5. Scoped(l) /\ l.ended = "no" /\ (~ l.sampled => l.opened = 0) /\ l.id > 0
    BY <2>1, <2>2 DEF Aged, Scoped
  <2>6. AppOK(a) /\ l # NoSession /\ a.active = l
    <3>1. l # NoSession
      BY <2>5 DEF NoSession
    <3> QED
      BY <1>9, <2>1, <2>5, <3>1 DEF AppOK
  <2>7. AppCase(a, c, now, sampled, r)
    BY <1>1, <1>2, <1>3, <1>5, <2>4, <2>6, AppCases
  <2>8. \/ EndReason(l, c) = "no" /\ Continues(l, c, now, r)
        \/ EndReason(l, c) # "no" /\ StopsIn(l, c, r)
        \/ Expired(l, c, now, sampled, r)
    BY <2>6, <2>7 DEF AppCase
  <2>9. CASE EndReason(l, c) = "no" /\ Continues(l, c, now, r)
    <3>1. PICK q : q = ProcessInSession(l, c, now)
      OBVIOUS
    <3>2. c.op # "StopSession"
      BY <1>1, <2>9, EndReasons
    <3>3. Inside(l, c, AllTold, heard.view, here, q)
      BY <1>1, <1>2, <1>3, <2>4, <2>5, <3>1, <3>2, InSession
    <3>4. r = [app |-> [active |-> q.session, prev |-> NoSession], out |-> q.out, last |-> q.last]
      BY <2>9, <3>1 DEF Continues
    <3>5. /\ Inside(l, c, AllTold, heard.view, here, [session |-> r.app.active, out |-> r.out, last |-> r.last])
          /\ r.app = [active |-> r.app.active, prev |-> NoSession]
      BY <1>10, <3>1, <3>3, <3>4
    <3>6. GoesOnWith(c, r, l)
      BY <1>13, <2>1, <2>2, <2>9, <3>5 DEF GoesOnWith
    <3> QED
      BY <3>6 DEF Comes
  <2>10. PICK o : o = OnClose(l, c, EndReason(l, c))
    OBVIOUS
  <2>11. EndReason(l, c) # "no" => Closed(l, c, o)
    BY <1>1, <2>5, <2>10, CloseCloses
  <2>12. CASE EndReason(l, c) # "no" /\ StopsIn(l, c, r)
    <3>1. c.op = "StopSession" /\ r = [app |-> [active |-> NoSession, prev |-> o.session], out |-> o.out, last |-> o.last]
      BY <2>10, <2>12 DEF StopsIn
    <3>2. PICK x : x = [session |-> r.app.prev, out |-> r.out, last |-> r.last]
      OBVIOUS
    <3>3. x.session = o.session /\ x.out = o.out /\ x.last = o.last
      BY <3>1, <3>2
    <3>4. Closed(l, c, x)
      BY <2>11, <2>12, <3>3 DEF Closed
    <3>5. StopsWith(c, r, l)
      BY <1>13, <2>1, <2>2, <2>12, <3>1, <3>2, <3>4 DEF StopsWith
    <3> QED
      BY <3>5 DEF Comes
  <2>13. CASE Expired(l, c, now, sampled, r)
    <3>1. EndReason(l, c) \notin {"no", "stopped"} /\ Anew(o.session, c, now, sampled, r)
      BY <2>10, <2>13 DEF Expired
    <3>2. o.session \in Session /\ o.session.id = l.id /\ o.session.onClose = ActiveView(l).key /\ o.session.id > 0
      BY <2>5, <2>11, <3>1 DEF Closed
    <3>3. PICK p : p = o.session
      OBVIOUS
    <3>4. PICK n : /\ Begun(n, p.id + 1, sampled, IF sampled THEN p.onClose ELSE NoKey)
                   /\ Inside(n, c, AllTold, heard.view, IF sampled THEN p.onClose ELSE NoKey,
                             [session |-> r.app.active, out |-> r.out, last |-> r.last])
                   /\ r.app = [active |-> r.app.active, prev |-> NoSession]
      BY <1>11, <3>1, <3>2, <3>3
    <3>5. c.op # "StopSession"
      BY <3>1 DEF Anew
    <3>6. BeginsWith(c, sampled, r, p, n, l)
      BY <1>13, <2>1, <2>2, <3>1, <3>2, <3>3, <3>4, <3>5 DEF BeginsWith
    <3> QED
      BY <3>6 DEF Comes
  <2> QED
    BY <2>8, <2>9, <2>12, <2>13
<1> QED
  BY <1>12, <1>13

LEMMA ToldAfter ==
  ASSUME NEW c, NEW sampled, NEW r, Called(c, sampled, r)
  PROVE  \A id \in OpenIds(r.app) : Told(id)' = Latest(Told(id), r.out, id)
<1>1. told' = [id \in OpenIds(r.app) |-> LastTold(id)] /\ out' = r.out
  BY DEF Called
<1>2. SUFFICES ASSUME NEW id \in OpenIds(r.app)
               PROVE  Told(id)' = Latest(Told(id), r.out, id)
  OBVIOUS
<1>3. Told(id)' = LastTold(id)
  BY <1>1 DEF Told
<1> QED
  BY <1>1, <1>3 DEF LastTold

LEMMA OpenIdsIds ==
  ASSUME NEW a
  PROVE  OpenIds(a) = IF a.active = NoSession THEN {} ELSE Ids(a.active)
BY DEF OpenIds, Ids

\* What the other features' events are stamped with.
LEMMA SnapshotViews ==
  ASSUME NEW a, AppOK(a)
  PROVE  /\ NoneActive(a) => Snapshot(a).view = NoView.id
         /\ ~ NoneActive(a) =>
              /\ Snapshot(a).view # NoView.id /\ a.active # NoSession
              /\ \E i \in Active(a.active) : Snapshot(a).view = a.active.views[i].id
<1>1. CASE a.active = NoSession
  BY <1>1 DEF Snapshot, NoneActive
<1>2. CASE a.active # NoSession
  <2>1. Scoped(a.active)
    BY <1>2 DEF AppOK
  <2>2. Snapshot(a).view = ActiveView(a.active).id
    BY <1>2 DEF Snapshot
  <2>3. CASE Active(a.active) = {}
    BY <2>1, <2>2, <2>3, <1>2, TheActiveView DEF NoneActive
  <2>4. CASE Active(a.active) # {}
    <3>1. PICK i \in Active(a.active) : ActiveView(a.active) = a.active.views[i]
      BY <2>1, <2>4, TheActiveView
    <3>2. i \in Open(a.active)
      BY DEF Active
    <3>3. a.active.views[i].id # << 0, 0 >>
      BY <2>1, <3>2, OpenViews
    <3> QED
      BY <1>2, <2>2, <2>4, <3>1, <3>3 DEF NoneActive, NoView
  <2> QED
    BY <2>3, <2>4
<1> QED
  BY <1>1, <1>2

LEMMA HeardAfter ==
  ASSUME RumInv, NEW c, NEW sampled, NEW r, Called(c, sampled, r), AppOK(r.app),
         NoneActive(r.app) => r.last = << >>
  PROVE  /\ NoneActive(r.app) => heard'.view = NoEvent
         /\ ~ NoneActive(r.app) => heard'.view = Newest(heard.view, r.last)
         /\ heard'.session = SessionState(r.app)
<1>1. heard' = Heard(app, r.app, r.last)
  BY DEF Called
<1>2. AppOK(app) /\ (NoneActive(app) => heard.view = NoEvent)
  BY DEF RumInv, Telling
<1>3. heard'.session = SessionState(r.app)
  BY <1>1 DEF Heard
<1>4. heard'.view = IF Snapshot(app).view # NoView.id /\ Snapshot(r.app).view = NoView.id
                    THEN NoEvent ELSE Newest(heard.view, r.last)
  BY <1>1 DEF Heard, Newest
<1>5. CASE NoneActive(r.app)
  <2>1. Snapshot(r.app).view = NoView.id /\ r.last = << >>
    BY <1>5, SnapshotViews
  <2>2. ~ NoneActive(app) => Snapshot(app).view # NoView.id
    BY <1>2, SnapshotViews
  <2> QED
    BY <1>2, <1>3, <1>4, <1>5, <2>1, <2>2 DEF Newest
<1>6. CASE ~ NoneActive(r.app)
  <2>1. Snapshot(r.app).view # NoView.id
    BY <1>6, SnapshotViews
  <2> QED
    BY <1>3, <1>4, <1>6, <2>1
<1> QED
  BY <1>5, <1>6

\* A session that is active after the call has told its views and the other features.
LEMMA TellingAfter ==
  ASSUME RumInv, NEW c, NEW sampled, NEW r, Called(c, sampled, r),
         NEW n, NEW h, n.ended = "no",
         Inside(n, c, AllTold, heard.view, h, [session |-> r.app.active, out |-> r.out, last |-> r.last]),
         r.app = [active |-> r.app.active, prev |-> NoSession]
  PROVE  AppOK(app)' /\ Telling'
<1>1. app' = r.app
  BY DEF Called
<1>2. PICK q : q = [session |-> r.app.active, out |-> r.out, last |-> r.last]
  OBVIOUS
<1>3. q.session = r.app.active /\ q.out = r.out /\ q.last = r.last
  BY <1>2
<1>4. Continued(n, c, AllTold, heard.view, q) /\ q.session.sampled = n.sampled /\ q.session.ended = "no"
      /\ (~ n.sampled => q.session.opened = 0)
  BY <1>2 DEF Inside
<1>5. /\ Scoped(r.app.active)
      /\ Told1(r.app.active, Hears(AllTold, r.out), Newest(heard.view, r.last))
      /\ r.last # << >> => Active(r.app.active) # {}
  BY <1>3, <1>4 DEF Continued
<1>6. r.app.active # NoSession
  BY <1>5 DEF Scoped, Session, NoSession
<1>7. r.app.active.ended = "no" /\ (~ r.app.active.sampled => r.app.active.opened = 0) /\ r.app.prev = NoSession
  BY <1>3, <1>4
<1>8. AppOK(r.app)
  BY <1>5, <1>6, <1>7 DEF AppOK
<1>9. \A id \in Ids(r.app.active) : Told(id)' = Latest(Told(id), r.out, id)
  BY <1>6, ToldAfter, OpenIdsIds
<1>10. NoneActive(r.app) => r.last = << >>
  BY <1>5, <1>6 DEF NoneActive
<1>11. /\ NoneActive(r.app) => heard'.view = NoEvent
       /\ ~ NoneActive(r.app) => heard'.view = Newest(heard.view, r.last)
       /\ heard'.session = SessionState(r.app)
  BY <1>8, <1>10, HeardAfter
<1>12. ASSUME NEW i \in Open(r.app.active)
       PROVE  AllTold'[r.app.active.views[i].id] = Hears(AllTold, r.out)[r.app.active.views[i].id]
  <2>1. PICK id : id = r.app.active.views[i].id
    OBVIOUS
  <2>2. id \in Id /\ id \in Ids(r.app.active)
    BY <1>5, <1>12, <2>1, OpenViews DEF Ids
  <2>3. AllTold'[id] = Told(id)' /\ AllTold[id] = Told(id)
    BY <2>2 DEF AllTold
  <2>4. Hears(AllTold, r.out)[id] = Latest(AllTold[id], r.out, id)
    BY <2>2 DEF Hears
  <2> QED
    BY <1>9, <2>1, <2>2, <2>3, <2>4
<1>13. PICK w : w = Hears(AllTold, r.out)
  OBVIOUS
<1>14. PICK w2 : w2 = AllTold'
  OBVIOUS
<1>15. \A i \in Open(r.app.active) : w2[r.app.active.views[i].id] = w[r.app.active.views[i].id]
  BY <1>12, <1>13, <1>14
<1>16. Told1(r.app.active, w, Newest(heard.view, r.last))
  BY <1>5, <1>13
<1>17. Told1(r.app.active, w2, heard'.view)
  <2>1. \A i \in Active(r.app.active) : i \in Open(r.app.active)
    BY DEF Active
  <2>2. \A i \in Active(r.app.active) : heard'.view = Newest(heard.view, r.last)
    BY <1>6, <1>11 DEF NoneActive
  <2> QED
    BY <1>15, <1>16, <2>1, <2>2 DEF Told1
<1>18. Told1(app.active, AllTold, heard.view)'
  BY <1>1, <1>14, <1>17 DEF Told1, Open, Active, Tells
<1>19. Telling'
  BY <1>1, <1>11, <1>18 DEF Telling, NoneActive, Active, Open, NoEvent, SessionState
<1> QED
  BY <1>1, <1>8, <1>19 DEF AppOK, Scoped, Numbered, Open

\* ... or else the one before it.
LEMMA RestingAfter ==
  ASSUME RumInv, NEW c, NEW sampled, NEW r, Called(c, sampled, r),
         r.app = [active |-> NoSession, prev |-> r.app.prev], r.last = << >>,
         r.app.prev \in Session, r.app.prev.id > 0, r.app.prev.ended # "no", Open(r.app.prev) = {}
  PROVE  AppOK(app)' /\ Telling'
<1>1. app' = r.app
  BY DEF Called
<1>2. r.app.active = NoSession /\ NoneActive(r.app)
  BY DEF NoneActive
<1>3. AppOK(r.app)
  BY <1>2 DEF AppOK
<1>4. heard'.view = NoEvent /\ heard'.session = SessionState(r.app)
  BY <1>2, <1>3, HeardAfter
<1>5. Telling'
  BY <1>1, <1>2, <1>4 DEF Telling, NoneActive, NoEvent, SessionState
<1> QED
  BY <1>1, <1>3, <1>5 DEF AppOK, Open

\* The key of the active view, which a session hands on when it is over.
LEMMA KeptKey ==
  ASSUME NEW s, Scoped(s), NEW gap, NEW l, Aged(s, gap, l), ~ s.sampled => s.opened = 0,
         NEW h, HereIn(s, h)
  PROVE  /\ ActiveView(l).key = IF ActiveView(s) # NoView THEN h ELSE NoKey
         /\ ActiveView(s) # NoView => s.sampled
<1>1. Scoped(l) /\ Active(l) = Active(s) /\ (\A i \in Open(s) : Older(s.views[i], gap, l.views[i]))
  BY DEF Aged
<1>2. CASE Active(s) = {}
  <2>1. ActiveView(s) = NoView /\ ActiveView(l) = NoView
    BY <1>1, <1>2, TheActiveView
  <2> QED
    BY <2>1 DEF NoView
<1>3. CASE Active(s) # {}
  <2>1. PICK i \in Active(l) : ActiveView(l) = l.views[i]
    BY <1>1, <1>3, TheActiveView
  <2>2. ActiveView(s) # NoView
    BY <1>3, TheActiveView
  <2>3. i \in Active(s) /\ i \in Open(s)
    BY <1>1 DEF Active
  <2>4. l.views[i].key = s.views[i].key
    BY <1>1, <2>3 DEF Older
  <2>5. s.sampled
    BY <1>3, OpenedIfActive DEF Scoped, Session
  <2>6. s.views[i].key = h
    BY <2>3, <2>5 DEF HereIn
  <2> QED
    BY <2>1, <2>2, <2>4, <2>5, <2>6
<1> QED
  BY <1>2, <1>3

\* What of the view the user is on is known after a call, but for the call itself.
Known(after) ==
  IF /\ after.active # NoSession => after.active.sampled
     /\ Ends(app, after) => ActiveView(app.active) # NoView
  THEN here ELSE NoKey

LEMMA HereKnown ==
  ASSUME NEW after, NEW c
  PROVE  Here(app, after, c) =
           IF c.op = "StartView" /\ after.active # NoSession /\ after.active.sampled THEN c.key
           ELSE IF c.op = "StopView" /\ c.key = Known(after) THEN NoKey
           ELSE Known(after)
BY DEF Here, Known

LEMMA HereAny ==
  ASSUME NEW after, NEW c \in Cmds, here \in AnyKey
  PROVE  Here(app, after, c) \in AnyKey
<1>1. Known(after) \in AnyKey
  BY DEF Known, AnyKey
<1>2. c.op = "StartView" => c.key \in ViewKeys
  BY DEF Cmds
<1> QED
  BY <1>1, <1>2, HereKnown DEF AnyKey

\* What a session that is active after a call takes over.
LEMMA KnowingAfter ==
  ASSUME NEW c, NEW sampled, NEW r, Called(c, sampled, r),
         NEW n, NEW h, NEW t, NEW held, r.app.active # NoSession,
         Inside(n, c, t, held, h, [session |-> r.app.active, out |-> r.out, last |-> r.last]),
         Known(r.app) = h
  PROVE  Knowing'
<1>1. app' = r.app /\ here' = Here(app, r.app, c)
  BY DEF Called
<1>2. HereIn(r.app.active, HereAfter(n, c, h)) /\ r.app.active.sampled = n.sampled
  <2>1. PICK q : q = [session |-> r.app.active, out |-> r.out, last |-> r.last]
    OBVIOUS
  <2> QED
    BY <2>1 DEF Inside
<1>3. here' = HereAfter(n, c, h)
  BY <1>1, <1>2, HereKnown DEF HereAfter
<1>4. HereIn(r.app.active, here')
  BY <1>2, <1>3
<1> QED
  BY <1>1, <1>4 DEF Knowing, HereIn, Active, Open

LEMMA GoingOn ==
  ASSUME RumInv, NEW c, NEW sampled, NEW r, Called(c, sampled, r), NEW l, GoesOnWith(c, r, l)
  PROVE  Known(r.app) = here /\ RumInv'
<1>1. /\ app.active # NoSession /\ Scoped(app.active) /\ Aged(app.active, c.gap, l)
      /\ Inside(l, c, AllTold, heard.view, here, [session |-> r.app.active, out |-> r.out, last |-> r.last])
      /\ r.app = [active |-> r.app.active, prev |-> NoSession]
  BY DEF GoesOnWith
<1>2. PICK q : q = [session |-> r.app.active, out |-> r.out, last |-> r.last]
  OBVIOUS
<1>3. /\ q.session = r.app.active /\ Scoped(q.session) /\ q.session.id = l.id
      /\ q.session.sampled = l.sampled /\ q.session.idle \in {l.idle, 0}
      /\ q.session.opened \in {l.opened, l.opened + 1}
  BY <1>1, <1>2 DEF Inside, Continued
<1>4. /\ l.id = app.active.id /\ l.sampled = app.active.sampled /\ l.opened = app.active.opened
      /\ l.ended = app.active.ended
      /\ l.idle = Least(app.active.idle + c.gap, InactivityTimeout)
  BY <1>1 DEF Aged
<1>5. app.active.ended = "no" /\ (~ app.active.sampled => app.active.opened = 0)
      /\ HereIn(app.active, here)
  BY <1>1 DEF RumInv, AppOK, Knowing
<1>6. Known(r.app) = here
  BY <1>3, <1>4, <1>5 DEF Known, Ends, HereIn
<1>7. AppOK(app)' /\ Telling'
  BY <1>1, <1>4, <1>5, TellingAfter
<1>8. r.app.active # NoSession
  BY <1>3 DEF Scoped, Session, NoSession
<1>9. Knowing'
  BY <1>1, <1>6, <1>8, KnowingAfter
<1>10. Bounded'
  <2>1. /\ used'.calls = used.calls + 1 /\ used.calls < MaxCommands /\ app' = r.app
        /\ uptime' = Least(uptime + c.gap, MaxTTFD) /\ here' = Here(app, r.app, c) /\ c \in Cmds
        /\ once \subseteq {"ttid", "ttfd"} => once' \subseteq {"ttid", "ttfd"}
    BY DEF Called
  <2>2. /\ used.calls \in Nat /\ app.active.id <= used.calls + 1 /\ app.active.opened <= used.calls
        /\ uptime \in Nat /\ once \subseteq {"ttid", "ttfd"} /\ here \in AnyKey
    BY <1>1 DEF RumInv, Bounded, LatestSession
  <2>3. here' \in AnyKey
    BY <2>1, <2>2, HereAny
  <2>4. app.active.idle \in Nat /\ app.active.opened \in Nat /\ app.active.id \in Nat /\ c.gap \in Nat
    BY <1>1, <2>1 DEF Scoped, Session, Cmds
  <2>5. LatestSession(app)' = q.session
    BY <1>3, <1>8, <2>1 DEF LatestSession
  <2>6. q.session.idle <= InactivityTimeout
    BY <1>3, <1>4, <2>4, TimeoutsAssumption DEF Least
  <2>7. q.session.id <= used.calls + 2 /\ q.session.opened <= used.calls + 1
    BY <1>3, <1>4, <2>2, <2>4
  <2>8. used'.calls \in Nat /\ used'.calls <= MaxCommands /\ uptime' \in Nat
    BY <2>1, <2>2, <2>4, CallsAssumption DEF Least
  <2>9. used'.calls + 1 = used.calls + 2
    BY <2>1, <2>2
  <2> QED
    BY <2>1, <2>2, <2>3, <2>5, <2>6, <2>7, <2>8, <2>9 DEF Bounded
<1> QED
  BY <1>6, <1>7, <1>9, <1>10 DEF RumInv

\* What a call does to the bounds, given the session that is the latest after it.
LEMMA BoundedAfter ==
  ASSUME RumInv, NEW c, NEW sampled, NEW r, Called(c, sampled, r), NEW q, LatestSession(r.app) = q,
         q.id \in Nat, q.opened \in Nat,
         q.id <= used.calls + 2, q.opened <= used.calls + 1, q.idle <= InactivityTimeout
  PROVE  Bounded'
<1>1. /\ used'.calls = used.calls + 1 /\ used.calls < MaxCommands /\ app' = r.app
      /\ uptime' = Least(uptime + c.gap, MaxTTFD) /\ here' = Here(app, r.app, c) /\ c \in Cmds
      /\ once \subseteq {"ttid", "ttfd"} => once' \subseteq {"ttid", "ttfd"}
  BY DEF Called
<1>2. /\ used.calls \in Nat /\ uptime \in Nat /\ once \subseteq {"ttid", "ttfd"} /\ here \in AnyKey
  BY DEF RumInv, Bounded
<1>3. here' \in AnyKey
  BY <1>1, <1>2, HereAny
<1>4. c.gap \in Nat
  BY <1>1 DEF Cmds
<1>5. LatestSession(app)' = q
  BY <1>1 DEF LatestSession
<1>6. used'.calls \in Nat /\ used'.calls <= MaxCommands /\ uptime' \in Nat
  BY <1>1, <1>2, <1>4, CallsAssumption DEF Least
<1>7. used'.calls + 1 = used.calls + 2
  BY <1>1, <1>2
<1> QED
  BY <1>1, <1>2, <1>3, <1>5, <1>6, <1>7 DEF Bounded

LEMMA Resting ==
  ASSUME RumInv, NEW c, NEW sampled, NEW r, Called(c, sampled, r), app.active = NoSession, Rests(app, c, r)
  PROVE  RumInv'
<1>1. /\ app.prev \in Session /\ app.prev.id > 0 /\ app.prev.ended # "no" /\ Open(app.prev) = {}
      /\ here = app.prev.onClose
  BY DEF RumInv, AppOK, Knowing
<1>2. PICK p : p = r.app.prev
  OBVIOUS
<1>3. /\ r.app = [active |-> NoSession, prev |-> p] /\ r.last = << >>
      /\ p = IF c.op = "StopView" /\ app.prev.onClose = c.key THEN [app.prev EXCEPT !.onClose = NoKey] ELSE app.prev
  BY <1>2 DEF Rests
<1>4. /\ p \in Session /\ p.id = app.prev.id /\ p.ended = app.prev.ended /\ p.opened = app.prev.opened
      /\ p.idle = app.prev.idle /\ p.views = app.prev.views
      /\ p.onClose = IF c.op = "StopView" /\ app.prev.onClose = c.key THEN NoKey ELSE app.prev.onClose
  BY <1>1, <1>3 DEF Session, AnyKey
<1>5. Open(p) = {}
  BY <1>1, <1>4 DEF Open
<1>6. AppOK(app)' /\ Telling'
  <2>1. r.app = [active |-> NoSession, prev |-> r.app.prev] /\ r.app.prev = p
    BY <1>3
  <2> QED
    BY <1>1, <1>3, <1>4, <1>5, <2>1, RestingAfter
<1>7. Known(r.app) = here
  BY <1>3 DEF Known, Ends
<1>8. here' = p.onClose
  <2>1. here' = Here(app, r.app, c)
    BY DEF Called
  <2>2. r.app.active = NoSession
    BY <1>3
  <2> QED
    BY <1>1, <1>4, <1>7, <2>1, <2>2, HereKnown
<1>9. Knowing'
  <2>1. app' = r.app
    BY DEF Called
  <2>2. app'.active = NoSession /\ app'.prev = p
    BY <1>3, <2>1
  <2> QED
    BY <1>8, <2>2 DEF Knowing
<1>10. Bounded'
  <2>1. LatestSession(r.app) = p
    BY <1>3 DEF LatestSession
  <2>2. /\ used.calls \in Nat /\ app.prev.id <= used.calls + 1 /\ app.prev.opened <= used.calls
        /\ app.prev.idle <= InactivityTimeout
    BY DEF RumInv, Bounded, LatestSession
  <2>3. p.id \in Nat /\ p.opened \in Nat
    BY <1>4 DEF Session
  <2>4. p.id <= used.calls + 2 /\ p.opened <= used.calls + 1
    BY <1>4, <2>2, <2>3
  <2> QED
    BY <1>4, <2>1, <2>2, <2>3, <2>4, BoundedAfter
<1> QED
  BY <1>6, <1>9, <1>10 DEF RumInv

LEMMA Stopping ==
  ASSUME RumInv, NEW c, NEW sampled, NEW r, Called(c, sampled, r), NEW l, StopsWith(c, r, l)
  PROVE  RumInv'
<1>1. /\ app.active # NoSession /\ Scoped(app.active) /\ Aged(app.active, c.gap, l)
      /\ EndReason(l, c) # "no" /\ c.op = "StopSession"
      /\ Closed(l, c, [session |-> r.app.prev, out |-> r.out, last |-> r.last])
      /\ r.app = [active |-> NoSession, prev |-> r.app.prev]
  BY DEF StopsWith
<1>2. PICK p : p = r.app.prev
  OBVIOUS
<1>3. PICK q : q = [session |-> r.app.prev, out |-> r.out, last |-> r.last]
  OBVIOUS
<1>4. /\ p \in Session /\ p.id = l.id /\ p.opened = l.opened /\ p.idle = l.idle
      /\ p.ended # "no" /\ p.onClose = ActiveView(l).key /\ Open(p) = {} /\ r.last = << >>
  BY <1>1, <1>2, <1>3 DEF Closed
<1>5. /\ l.id = app.active.id /\ l.opened = app.active.opened
      /\ l.idle = Least(app.active.idle + c.gap, InactivityTimeout)
  BY <1>1 DEF Aged
<1>6. (~ app.active.sampled => app.active.opened = 0) /\ HereIn(app.active, here) /\ app.active.id > 0
      /\ app.active.id \in Nat
  BY <1>1 DEF RumInv, AppOK, Knowing, Scoped, Session
<1>7. AppOK(app)' /\ Telling'
  BY <1>1, <1>2, <1>4, <1>5, <1>6, RestingAfter
<1>8. Known(r.app) = IF ActiveView(app.active) # NoView THEN here ELSE NoKey
  <2>1. r.app.active = NoSession /\ NoSession.id = 0
    BY <1>1 DEF NoSession
  <2>2. app.active.id # 0
    BY <1>6
  <2>3. Ends(app, r.app)
    BY <1>1, <2>1, <2>2 DEF Ends
  <2> QED
    BY <2>1, <2>3 DEF Known
<1>9. p.onClose = Known(r.app)
  BY <1>1, <1>4, <1>6, <1>8, KeptKey
<1>10. here' = p.onClose
  <2>1. here' = Here(app, r.app, c)
    BY DEF Called
  <2> QED
    BY <1>1, <1>9, <2>1, HereKnown
<1>11. Knowing'
  <2>1. app' = r.app
    BY DEF Called
  <2>2. app'.active = NoSession /\ app'.prev = p
    BY <1>1, <1>2, <2>1
  <2> QED
    BY <1>10, <2>2 DEF Knowing
<1>12. Bounded'
  <2>1. LatestSession(r.app) = p
    BY <1>1, <1>2 DEF LatestSession
  <2>2. /\ used.calls \in Nat /\ app.active.id <= used.calls + 1 /\ app.active.opened <= used.calls
    BY <1>1 DEF RumInv, Bounded, LatestSession
  <2>3. p.id \in Nat /\ p.opened \in Nat /\ c.gap \in Nat /\ app.active.idle \in Nat
    BY <1>1, <1>4 DEF Session, Called, Cmds, Scoped
  <2>4. p.id <= used.calls + 2 /\ p.opened <= used.calls + 1
    BY <1>4, <1>5, <2>2, <2>3
  <2>5. p.idle <= InactivityTimeout
    BY <1>4, <1>5, <2>3, TimeoutsAssumption DEF Least
  <2> QED
    BY <2>1, <2>3, <2>4, <2>5, BoundedAfter
<1> QED
  BY <1>7, <1>11, <1>12 DEF RumInv

\* A session that begins is told which view the user was on.
LEMMA HandedOn ==
  ASSUME RumInv, NEW c, NEW sampled, NEW r, NEW p, NEW n, NEW l, BeginsWith(c, sampled, r, p, n, l),
         sampled \in BOOLEAN
  PROVE  /\ Known(r.app) = IF sampled THEN p.onClose ELSE NoKey
         /\ p.id = LatestSession(app).id
         /\ r.app.active.id = p.id + 1 /\ r.app.active # NoSession
         /\ r.app.active.sampled = sampled
<1>1. /\ p \in Session /\ p.id > 0
      /\ Begun(n, p.id + 1, sampled, IF sampled THEN p.onClose ELSE NoKey)
      /\ Inside(n, c, AllTold, heard.view, IF sampled THEN p.onClose ELSE NoKey,
                [session |-> r.app.active, out |-> r.out, last |-> r.last])
  BY DEF BeginsWith
<1>2. PICK q : q = [session |-> r.app.active, out |-> r.out, last |-> r.last]
  OBVIOUS
<1>3. q.session = r.app.active /\ Scoped(q.session) /\ q.session.id = n.id /\ q.session.sampled = n.sampled
  BY <1>1, <1>2 DEF Inside, Continued
<1>4. r.app.active.id = p.id + 1 /\ r.app.active.sampled = sampled
  BY <1>1, <1>3 DEF Begun
<1>5. r.app.active # NoSession
  BY <1>3 DEF Scoped, Session, NoSession
<1>6. CASE app.active = NoSession
  <2>1. p = app.prev /\ here = app.prev.onClose
    BY <1>6 DEF BeginsWith, RumInv, Knowing
  <2> QED
    BY <1>4, <1>5, <1>6, <2>1 DEF Known, Ends, LatestSession
<1>7. CASE app.active # NoSession
  <2>1. Scoped(app.active) /\ Aged(app.active, c.gap, l) /\ p.id = l.id /\ p.onClose = ActiveView(l).key
    BY <1>7 DEF BeginsWith
  <2>2. (~ app.active.sampled => app.active.opened = 0) /\ HereIn(app.active, here)
    BY <1>7 DEF RumInv, AppOK, Knowing
  <2>3. p.onClose = IF ActiveView(app.active) # NoView THEN here ELSE NoKey
    BY <2>1, <2>2, KeptKey
  <2>4. p.id = app.active.id
    BY <2>1 DEF Aged
  <2>5. Ends(app, r.app)
    <3>1. p.id \in Nat
      BY <1>1 DEF Session
    <3> QED
      BY <1>4, <1>7, <2>4, <3>1 DEF Ends
  <2> QED
    BY <1>4, <1>5, <1>7, <2>3, <2>4, <2>5 DEF Known, LatestSession
<1> QED
  BY <1>6, <1>7

LEMMA Beginning ==
  ASSUME RumInv, NEW c, NEW sampled, NEW r, Called(c, sampled, r), NEW p, NEW n, NEW l,
         BeginsWith(c, sampled, r, p, n, l)
  PROVE  RumInv'
<1> DEFINE key == IF sampled THEN p.onClose ELSE NoKey
<1>1. /\ p \in Session /\ p.id > 0
      /\ Begun(n, p.id + 1, sampled, key)
      /\ Inside(n, c, AllTold, heard.view, key, [session |-> r.app.active, out |-> r.out, last |-> r.last])
      /\ r.app = [active |-> r.app.active, prev |-> NoSession]
  BY DEF BeginsWith
<1>2. sampled \in BOOLEAN
  BY DEF Called
<1>3. /\ Known(r.app) = key /\ p.id = LatestSession(app).id
      /\ r.app.active.id = p.id + 1 /\ r.app.active # NoSession
  BY <1>2, HandedOn
<1> HIDE DEF key
<1>4. n.ended = "no" /\ n.opened = 0 /\ n.idle = 0
  BY <1>1 DEF Begun
<1>5. AppOK(app)' /\ Telling'
  BY <1>1, <1>4, TellingAfter
<1>6. Knowing'
  BY <1>1, <1>3, KnowingAfter
<1>7. Bounded'
  <2>1. PICK q : q = [session |-> r.app.active, out |-> r.out, last |-> r.last]
    OBVIOUS
  <2>2. q.session = r.app.active /\ q.session.idle \in {n.idle, 0} /\ q.session.opened \in {n.opened, n.opened + 1}
    BY <1>1, <2>1 DEF Inside
  <2>3. r.app.active.idle = 0 /\ r.app.active.opened \in {0, 1}
    BY <1>4, <2>2
  <2>4. LatestSession(r.app) = r.app.active
    BY <1>3 DEF LatestSession
  <2>5. used.calls \in Nat /\ p.id <= used.calls + 1 /\ p.id \in Nat
    BY <1>1, <1>3 DEF RumInv, Bounded, Session
  <2>6. /\ r.app.active.id \in Nat /\ r.app.active.opened \in Nat
        /\ r.app.active.id <= used.calls + 2 /\ r.app.active.opened <= used.calls + 1
    BY <1>3, <2>3, <2>5
  <2>7. r.app.active.idle <= InactivityTimeout
    BY <2>3, TimeoutsAssumption
  <2> QED
    BY <2>4, <2>6, <2>7, BoundedAfter
<1> QED
  BY <1>5, <1>6, <1>7 DEF RumInv

LEMMA RumInvCalled ==
  ASSUME RumInv, NEW c, NEW sampled, NEW r, Called(c, sampled, r)
  PROVE  RumInv'
BY CallComes, GoingOn, Resting, Stopping, Beginning DEF Comes

LEMMA RumInvKept ==
  ASSUME RumInv, [Next]_vars
  PROVE  RumInv'
<1>1. CASE Next
  BY <1>1, NextCalls, RumInvCalled
<1>2. CASE UNCHANGED vars
  <2>1. UNCHANGED << app, uptime, once, heard, told, here, used >>
    BY <1>2 DEF vars
  <2>2. AllTold' = AllTold
    BY <2>1 DEF AllTold, Told
  <2>3. AppOK(app)'
    BY <2>1 DEF RumInv, AppOK, Scoped, Numbered, Open
  <2>4. Bounded'
    BY <2>1 DEF RumInv, Bounded, LatestSession
  <2>5. Telling'
    BY <2>1, <2>2 DEF RumInv, Telling, NoneActive, Told1, Active, Open, Tells, NoEvent, SessionState
  <2>6. Knowing'
    BY <2>1 DEF RumInv, Knowing, HereIn, Active, Open
  <2> QED
    BY <2>3, <2>4, <2>5, <2>6 DEF RumInv
<1> QED
  BY <1>1, <1>2

LEMMA RumInvInit ==
  ASSUME Init
  PROVE  RumInv
<1>1. PICK sampled \in Sampling :
        /\ app = [active |-> NewSession(1, sampled, NoKey), prev |-> NoSession]
        /\ once = {}
        /\ heard = [view |-> NoEvent, session |-> SessionState(app)]
        /\ uptime = 0
        /\ here = NoKey
        /\ used = [calls |-> 0, waits |-> 0]
  BY DEF Init
<1>2. PICK n : n = NewSession(1, sampled, NoKey)
  OBVIOUS
<1>3. Begun(n, 1, sampled, NoKey)
  BY <1>2, CallsAssumption, NewBegins DEF AnyKey
<1>4. app = [active |-> n, prev |-> NoSession]
  BY <1>1, <1>2
<1>5. n # NoSession
  BY <1>3 DEF Begun, Scoped, Session, NoSession
<1>6. AppOK(app)
  BY <1>3, <1>4, <1>5 DEF AppOK, Begun
<1>7. Bounded
  BY <1>1, <1>3, <1>4, <1>5, CallsAssumption, TimeoutsAssumption DEF Bounded, Begun, LatestSession, AnyKey
<1>8. Told1(n, AllTold, heard.view) /\ HereIn(n, NoKey)
  BY <1>3 DEF Begun
<1>9. Telling
  BY <1>1, <1>4, <1>8 DEF Telling
<1>10. Knowing
  BY <1>1, <1>4, <1>5, <1>8 DEF Knowing
<1> QED
  BY <1>6, <1>7, <1>9, <1>10 DEF RumInv

\* After every call the scopes are well formed and within the bounds, every open view has
\* been told as it is, the other features hold what was last told of the active one, and
\* the session knows which view the user is on, or hands it on.
THEOREM RumInvariant == Spec => []RumInv
<1>1. Init => RumInv
  BY RumInvInit
<1>2. RumInv /\ [Next]_vars => RumInv'
  BY RumInvKept
<1> QED
  BY <1>1, <1>2, PTL DEF Spec

LEMMA TypesHold ==
  ASSUME RumInv
  PROVE  TypeOK
<1>1. AppOK(app) /\ Bounded
  BY DEF RumInv
<1>2. app = [active |-> app.active, prev |-> app.prev]
  BY <1>1 DEF AppOK
<1>3. DOMAIN app = {"active", "prev"}
  BY <1>2
<1>4. app.active # NoSession => app.prev = NoSession /\ app.active.ended = "no"
  BY <1>1 DEF AppOK
<1>5. app.active = NoSession => app.prev # NoSession /\ app.prev.ended # "no"
  BY <1>1 DEF AppOK, Session, NoSession
<1>6. ASSUME NEW s \in Sessions
      PROVE  /\ s.id \in 1 .. MaxCommands + 1 /\ s.opened \in 0 .. 2 * MaxCommands
             /\ s.idle \in 0 .. InactivityTimeout /\ s.onClose \in ViewKeys \union {NoKey}
             /\ \A i \in Open(s) :
                  /\ s.views[i].id[1] = s.id /\ s.views[i].id[2] \in 1 .. s.opened
                  /\ s.views[i].key \in ViewKeys /\ s.views[i].pending \subseteq ResourceKeys
  <2>1. s = LatestSession(app)
    BY <1>4, <1>6 DEF Sessions, LatestSession
  <2>2. s \in Session /\ s.id > 0
    BY <1>1, <2>1 DEF AppOK, Scoped, LatestSession
  <2>3. s.id \in 1 .. MaxCommands + 1 /\ s.opened \in 0 .. 2 * MaxCommands
    <3>1. /\ used.calls \in Nat /\ used.calls <= MaxCommands /\ s.id <= used.calls + 1 /\ s.opened <= used.calls
      BY <1>1, <2>1 DEF Bounded
    <3>2. s.id \in Nat /\ s.opened \in Nat
      BY <2>2 DEF Session
    <3> QED
      BY <2>2, <3>1, <3>2, CallsAssumption
  <2>4. s.idle \in 0 .. InactivityTimeout /\ s.onClose \in ViewKeys \union {NoKey}
    BY <1>1, <2>1, <2>2, TimeoutsAssumption DEF Bounded, Session, AnyKey
  <2>5. ASSUME NEW i \in Open(s)
        PROVE  /\ s.views[i].id[1] = s.id /\ s.views[i].id[2] \in 1 .. s.opened
               /\ s.views[i].key \in ViewKeys /\ s.views[i].pending \subseteq ResourceKeys
    <3>1. Scoped(s)
      BY <1>1, <2>1, <2>5 DEF AppOK, LatestSession
    <3>2. s.views[i] \in View
      BY <3>1, OpenViews
    <3> QED
      BY <3>1, <3>2 DEF Scoped, Numbered, View
  <2> QED
    BY <2>3, <2>4, <2>5
<1>7. here \in ViewKeys \union {NoKey} /\ once \subseteq {"ttid", "ttfd"}
  BY <1>1 DEF Bounded, AnyKey
<1> QED
  BY <1>3, <1>4, <1>5, <1>6, <1>7 DEF TypeOK

LEMMA OneViewActive ==
  ASSUME RumInv
  PROVE  OneActiveView
<1>1. SUFFICES ASSUME app.active # NoSession
               PROVE  /\ Cardinality(Active(app.active)) <= 1
                      /\ \A i \in Open(app.active) \ Active(app.active) :
                           app.active.views[i].pending # {} /\ app.active.views[i].action = NoAction
  BY DEF OneActiveView
<1>2. Scoped(app.active) /\ (\A i, j \in Active(app.active) : i = j)
  BY <1>1 DEF RumInv, AppOK, Telling, Told1
<1>3. Cardinality(Active(app.active)) <= 1
  <2>1. CASE Active(app.active) = {}
    BY <2>1, FS_EmptySet
  <2>2. ASSUME NEW i \in Active(app.active)
        PROVE  Cardinality(Active(app.active)) <= 1
    <3>1. Active(app.active) = {i}
      BY <1>2
    <3> QED
      BY <3>1, FS_Singleton
  <2> QED
    BY <2>1, <2>2
<1>4. ASSUME NEW i \in Open(app.active) \ Active(app.active)
      PROVE  app.active.views[i].pending # {} /\ app.active.views[i].action = NoAction
  <2>1. Sound(app.active.views[i]) /\ ~ app.active.views[i].active
    BY <1>2, OpenViews DEF Active
  <2> QED
    BY <2>1 DEF Sound
<1> QED
  BY <1>3, <1>4

LEMMA ReportsHold ==
  ASSUME RumInv
  PROVE  ReportsCurrent
<1>1. SUFFICES ASSUME app.active # NoSession, NEW i \in Open(app.active), NEW v, v = app.active.views[i],
                      NEW e, e = Told(v.id)
               PROVE  /\ e # NoEvent /\ e.version = v.sent - 1
                      /\ e.active = (v.active \/ v.pending # {}) /\ e.sessionActive
                      /\ << e.actions, e.errors, e.resources, e.longTasks >>
                           = << v.actions, v.errors, v.resources, v.longTasks >>
  BY DEF ReportsCurrent
<1>2. Scoped(app.active) /\ Told1(app.active, AllTold, heard.view)
  BY <1>1 DEF RumInv, AppOK, Telling
<1>3. v.id \in Id /\ v.id # << 0, 0 >> /\ Sound(v) /\ v \in View
  BY <1>1, <1>2, OpenViews
<1>4. Tells(e, v)
  BY <1>1, <1>2, <1>3 DEF Told1, AllTold
<1>5. e.view = v.id /\ e.version = v.sent - 1 /\ e.active = TRUE /\ e.sessionActive = TRUE
      /\ e.actions = v.actions /\ e.errors = v.errors /\ e.resources = v.resources
      /\ e.longTasks = v.longTasks
  BY <1>4 DEF Tells
<1>6. e # NoEvent
  BY <1>3, <1>5 DEF NoEvent, NoView
<1>7. v.active \/ v.pending # {}
  BY <1>3 DEF Sound
<1>8. (v.active \/ v.pending # {}) = TRUE
  BY <1>7
<1> QED
  BY <1>5, <1>6, <1>8

\* The views, which one is active, and what was written of each agree, after any calls in any
\* order, for any number of slots and any timeouts.
THEOREM ViewsAlwaysAgree == Spec => []ViewsAgree
<1>1. RumInv => ViewsAgree
  BY TypesHold, OneViewActive, ReportsHold DEF ViewsAgree
<1> QED
  BY <1>1, RumInvariant, PTL

LEMMA ActiveHeard ==
  ASSUME RumInv
  PROVE  /\ NoneActive(app) => heard.view = NoEvent /\ Snapshot(app).view = NoView.id
         /\ ~ NoneActive(app) =>
              \E i \in Active(app.active) :
                LET v == app.active.views[i]
                IN  /\ app.active # NoSession /\ Scoped(app.active) /\ ActiveView(app.active) = v
                    /\ Snapshot(app).view = v.id /\ v.id # << 0, 0 >> /\ v \in View
                    /\ heard.view = Told(v.id) /\ Tells(heard.view, v)
<1>1. AppOK(app) /\ Telling
  BY DEF RumInv
<1>2. CASE NoneActive(app)
  BY <1>1, <1>2, SnapshotViews DEF Telling
<1>3. CASE ~ NoneActive(app)
  <2>1. app.active # NoSession /\ Active(app.active) # {}
    BY <1>3 DEF NoneActive
  <2>2. Scoped(app.active) /\ Told1(app.active, AllTold, heard.view)
    BY <1>1, <2>1 DEF AppOK, Telling
  <2>3. PICK i \in Active(app.active) : ActiveView(app.active) = app.active.views[i]
    BY <2>1, <2>2, TheActiveView
  <2>4. PICK v : v = app.active.views[i]
    OBVIOUS
  <2>5. i \in Open(app.active)
    BY DEF Active
  <2>6. v \in View /\ v.id \in Id /\ v.id # << 0, 0 >>
    BY <2>2, <2>4, <2>5, OpenViews
  <2>7. heard.view = Told(v.id) /\ Tells(heard.view, v)
    BY <2>2, <2>4, <2>5, <2>6 DEF Told1, AllTold
  <2>8. Snapshot(app).view = v.id
    BY <2>1, <2>3, <2>4 DEF Snapshot
  <2> QED
    BY <1>3, <2>1, <2>2, <2>3, <2>4, <2>6, <2>7, <2>8
<1> QED
  BY <1>2, <1>3

LEMMA DownstreamHolds ==
  ASSUME RumInv
  PROVE  DownstreamAgrees
<1>1. heard.session = SessionState(app)
  BY DEF RumInv, Telling
<1>2. CASE NoneActive(app)
  BY <1>1, <1>2, ActiveHeard DEF DownstreamAgrees
<1>3. CASE ~ NoneActive(app)
  <2>1. Snapshot(app).view # NoView.id /\ heard.view = Told(Snapshot(app).view)
    BY <1>3, ActiveHeard DEF NoView
  <2> QED
    BY <1>1, <2>1 DEF DownstreamAgrees
<1> QED
  BY <1>2, <1>3

\* What a crash with the view v active in `session', or with no view, is to become.
CrashLands(recent, events, crash, session, v, ended) ==
  IF ~ session.sampled \/ (v = NoView /\ ~ (session.id = 1 /\ session.opened = 0)) THEN events = << >>
  ELSE /\ events # << >>
       /\ crash.type = "error" /\ crash.session = session.id
       /\ IF v = NoView
          THEN crash.view[2] = LaunchView /\ events[1].view = crash.view
          ELSE /\ crash.view = v.id
               /\ recent => events = << ViewEvent(ended, TRUE), crash >>
               /\ ~ recent => events = << crash >>

LEMMA CrashHolds ==
  ASSUME RumInv, NEW recent \in BOOLEAN,
         NEW events, events = CrashNow("granted", recent),
         NEW crash, crash = events[Len(events)],
         NEW session, session = LatestSession(app),
         NEW v, v = IF app.active # NoSession THEN ActiveView(app.active) ELSE NoView,
         NEW ended, ended = [v EXCEPT !.active = FALSE, !.errors = @ + 1, !.pending = {}]
  PROVE  CrashLands(recent, events, crash, session, v, ended)
<1>1. session \in Session /\ session.id > 0 /\ session.id # 0
  BY DEF RumInv, AppOK, LatestSession, Scoped, Session
<1>2. heard.session.id = session.id /\ heard.session.sampled = session.sampled
      /\ heard.session.hasViews = (session.opened > 0)
  BY DEF RumInv, Telling, SessionState, LatestSession
<1>3. PICK ctx : ctx = ContextAtCrash("granted")
  OBVIOUS
<1>4. /\ ctx.present /\ ctx.complete /\ ctx.application = 1 /\ ctx.consent = "granted"
      /\ ctx.session.id = session.id /\ ctx.session.sampled = session.sampled
      /\ ctx.session.initial = (session.id = 1) /\ ctx.session.hasViews = (session.opened > 0)
      /\ ctx.views = IF heard.view = NoEvent THEN << >> ELSE << heard.view >>
  BY <1>2, <1>3 DEF ContextAtCrash
<1>5. events = ProduceRumEventsForCrash(ctx, recent, 0, 0, TRUE)
  BY <1>3 DEF CrashNow
<1>6. Usable(ctx, 0) <=> session.sampled
  BY <1>1, <1>4 DEF Usable, Session
<1>7. CASE ~ session.sampled
  BY <1>5, <1>6, <1>7 DEF ProduceRumEventsForCrash, CrashLands
<1>8. CASE session.sampled /\ NoneActive(app)
  <2>1. heard.view = NoEvent
    BY <1>8, ActiveHeard
  <2>2. v = NoView
    <3>1. app.active # NoSession => Scoped(app.active) /\ Active(app.active) = {}
      BY <1>8 DEF RumInv, AppOK, NoneActive
    <3> QED
      BY <3>1, TheActiveView
  <2>3. ctx.views = << >>
    BY <1>4, <2>1
  <2>4. events = IF session.id = 1 /\ session.opened = 0 THEN HandleInLaunchView(session.id) ELSE << >>
    <3>1. session.opened \in Nat
      BY <1>1 DEF Session
    <3>2. ctx.session.initial /\ ~ ctx.session.hasViews <=> session.id = 1 /\ session.opened = 0
      <4>1. ctx.session.initial <=> session.id = 1
        BY <1>4, Zenon
      <4>2. ctx.session.hasViews <=> session.opened > 0
        BY <1>4, Zenon
      <4>3. ~ (session.opened > 0) <=> session.opened = 0
        BY <3>1
      <4> QED
        BY <4>1, <4>2, <4>3, Zenon
    <3>3. Usable(ctx, 0) /\ ctx.session.id # 0
      BY <1>1, <1>4, <1>6, <1>8
    <3>4. events = IF ctx.session.initial /\ ~ ctx.session.hasViews
                   THEN HandleInLaunchView(ctx.session.id) ELSE << >>
      BY <1>5, <2>3, <3>3, Zenon DEF ProduceRumEventsForCrash
    <3> QED
      BY <1>4, <3>2, <3>4, Zenon
  <2>5. CASE ~ (session.id = 1 /\ session.opened = 0)
    BY <2>2, <2>4, <2>5 DEF CrashLands
  <2>6. CASE session.id = 1 /\ session.opened = 0
    <3>1. PICK i : i = session.id
      OBVIOUS
    <3>2. PICK e1, e2 : /\ events = << e1, e2 >> /\ e1.view = << i, LaunchView >>
                        /\ e2 = ErrorEvent(i, << i, LaunchView >>)
      BY <2>4, <2>6, <3>1 DEF HandleInLaunchView
    <3>3. Len(events) = 2 /\ events[1] = e1 /\ crash = e2
      BY <3>2
    <3>4. crash.type = "error" /\ crash.session = i /\ crash.view = << i, LaunchView >>
      BY <3>2, <3>3 DEF ErrorEvent
    <3>5. crash.view[2] = LaunchView /\ events[1].view = crash.view /\ events # << >>
      BY <3>2, <3>3, <3>4
    <3> QED
      BY <1>8, <2>2, <2>6, <3>1, <3>4, <3>5 DEF CrashLands
  <2> QED
    BY <2>5, <2>6
<1>9. CASE session.sampled /\ ~ NoneActive(app)
  <2>1. /\ app.active # NoSession /\ Scoped(app.active) /\ v.id # << 0, 0 >> /\ v \in View
        /\ Tells(heard.view, v)
        /\ \E i \in Active(app.active) : v = app.active.views[i]
    BY <1>9, ActiveHeard
  <2>2. PICK e : e = heard.view
    OBVIOUS
  <2>3. /\ v.sent > 0
        /\ e = [type |-> "view", view |-> v.id, key |-> v.key, version |-> v.sent - 1,
                actions |-> v.actions, errors |-> v.errors,
                resources |-> v.resources, longTasks |-> v.longTasks,
                active |-> TRUE, sessionActive |-> TRUE]
    BY <2>1, <2>2 DEF Tells
  <2>4. e # NoEvent
    BY <2>1, <2>3 DEF NoEvent, NoView
  <2>5. ctx.views = << e >>
    BY <1>4, <2>2, <2>4
  <2>6. events = HandleActiveView(e, recent)
    BY <1>5, <1>6, <1>9, <2>5 DEF ProduceRumEventsForCrash
  <2>7. PICK m : m = MutateViewEventForCrash(e)
    OBVIOUS
  <2>8. PICK x : x = ErrorEvent(e.view[1], e.view)
    OBVIOUS
  <2>9. events = IF recent THEN << m, x >> ELSE << x >>
    <3>1. events = (IF recent THEN << m >> ELSE << >>) \o << x >>
      BY <2>6, <2>7, <2>8, Zenon DEF HandleActiveView
    <3>2. << m >> \o << x >> = << m, x >> /\ << >> \o << x >> = << x >>
      <4>1. m \in {m, x} /\ x \in {m, x} /\ << x >> \in Seq({m, x})
        OBVIOUS
      <4>2. << m >> \o << x >> = << m, x >>
        BY <4>1, TwoJoin
      <4>3. << >> \o << x >> = << x >>
        BY <4>1, ConcatEmptySeq
      <4> QED
        BY <4>2, <4>3
    <3> QED
      BY <3>1, <3>2
  <2>10. crash = x /\ events # << >>
    BY <2>9
  <2>11. e.view = v.id /\ v.id[1] = session.id
    <3>1. v.id[1] = app.active.id
      BY <2>1, OpenViews DEF Active
    <3> QED
      BY <2>1, <2>3, <3>1 DEF LatestSession
  <2>12. crash.type = "error" /\ crash.session = session.id /\ crash.view = v.id
    BY <2>8, <2>10, <2>11 DEF ErrorEvent
  <2>13. v # NoView
    BY <2>1 DEF NoView
  <2>14. m = ViewEvent(ended, TRUE)
    <3>1. v = [id |-> v.id, key |-> v.key, active |-> v.active, initialised |-> v.initialised,
               action |-> v.action, opened |-> v.opened, pending |-> v.pending,
               actions |-> v.actions, errors |-> v.errors, resources |-> v.resources,
               longTasks |-> v.longTasks, sent |-> v.sent, age |-> v.age]
      BY <2>1 DEF View
    <3>2. v.sent \in Nat
      BY <2>1 DEF View
    <3>3. m = [type |-> "view", view |-> v.id, key |-> v.key, version |-> v.sent,
               actions |-> v.actions, errors |-> v.errors + 1,
               resources |-> v.resources, longTasks |-> v.longTasks,
               active |-> FALSE, sessionActive |-> TRUE]
      <4>1. PICK k : k = v.sent - 1
        OBVIOUS
      <4>2. k + 1 = v.sent
        BY <3>2, <4>1
      <4>3. e = [type |-> "view", view |-> v.id, key |-> v.key, version |-> k,
                 actions |-> v.actions, errors |-> v.errors,
                 resources |-> v.resources, longTasks |-> v.longTasks,
                 active |-> TRUE, sessionActive |-> TRUE]
        BY <2>3, <4>1
      <4>4. m = [type |-> "view", view |-> v.id, key |-> v.key, version |-> k + 1,
                 actions |-> v.actions, errors |-> v.errors + 1,
                 resources |-> v.resources, longTasks |-> v.longTasks,
                 active |-> FALSE, sessionActive |-> TRUE]
        BY <2>7, <4>3 DEF MutateViewEventForCrash
      <4> QED
        BY <4>2, <4>4
    <3>4. /\ ended.id = v.id /\ ended.key = v.key /\ ended.sent = v.sent /\ ended.actions = v.actions
          /\ ended.errors = v.errors + 1 /\ ended.resources = v.resources
          /\ ended.longTasks = v.longTasks /\ ended.active = FALSE /\ ended.pending = {}
      BY <3>1
    <3> QED
      BY <3>3, <3>4 DEF ViewEvent
  <2> QED
    BY <1>9, <2>9, <2>10, <2>12, <2>13, <2>14 DEF CrashLands
<1> QED
  BY <1>7, <1>8, <1>9

\* What the other features are told of the scopes is enough to find the view that was active
\* when the process crashed.
THEOREM CrashesAlwaysFindTheirView == Spec => []CrashesFindTheirView
<1>1. ASSUME RumInv PROVE CrashAttributed
  <2>1. SUFFICES ASSUME NEW recent \in BOOLEAN
                 PROVE
    LET events  == CrashNow("granted", recent)
        crash   == events[Len(events)]
        session == IF app.active # NoSession THEN app.active ELSE app.prev
        v       == IF app.active # NoSession THEN ActiveView(app.active) ELSE NoView
        ended   == [v EXCEPT !.active = FALSE, !.errors = @ + 1, !.pending = {}]
        launch  == session.id = 1 /\ session.opened = 0
    IN  IF ~session.sampled \/ (v = NoView /\ ~launch) THEN events = << >>
        ELSE /\ events # << >>
             /\ crash.type = "error" /\ crash.session = session.id
             /\ IF v = NoView
                THEN crash.view[2] = LaunchView /\ events[1].view = crash.view
                ELSE /\ crash.view = v.id
                     /\ recent => events = << ViewEvent(ended, TRUE), crash >>
                     /\ ~recent => events = << crash >>
    BY DEF CrashAttributed
  <2>2. PICK events : events = CrashNow("granted", recent)
    OBVIOUS
  <2>3. PICK crash : crash = events[Len(events)]
    OBVIOUS
  <2>4. PICK session : session = LatestSession(app)
    OBVIOUS
  <2>5. PICK v : v = IF app.active # NoSession THEN ActiveView(app.active) ELSE NoView
    OBVIOUS
  <2>6. PICK ended : ended = [v EXCEPT !.active = FALSE, !.errors = @ + 1, !.pending = {}]
    OBVIOUS
  <2>7. session = IF app.active # NoSession THEN app.active ELSE app.prev
    BY <2>4 DEF LatestSession
  <2>8. CrashLands(recent, events, crash, session, v, ended)
    BY <1>1, <2>1, <2>2, <2>3, <2>4, <2>5, <2>6, CrashHolds
  <2> QED
    BY <2>2, <2>3, <2>5, <2>6, <2>7, <2>8, Zenon DEF CrashLands
<1>2. RumInv => CrashesFindTheirView
  BY <1>1, DownstreamHolds DEF CrashesFindTheirView
<1> QED
  BY <1>2, RumInvariant, PTL

\* What is recorded after a call goes to the view the user is on.
Current(c, r) ==
  r.app.active # NoSession /\ r.app.active.sampled =>
    IF ActiveView(r.app.active) = NoView
    THEN Here(app, r.app, c) = NoKey \/ c.op \notin RequiresActiveView
    ELSE ActiveView(r.app.active).key = Here(app, r.app, c)

LEMMA CurrentAfter ==
  ASSUME NEW c, NEW r, NEW n, NEW h, NEW t, NEW held,
         Inside(n, c, t, held, h, [session |-> r.app.active, out |-> r.out, last |-> r.last]),
         Known(r.app) = h
  PROVE  Current(c, r)
<1>1. SUFFICES ASSUME r.app.active # NoSession, r.app.active.sampled
               PROVE  Current(c, r)
  BY DEF Current
<1>2. PICK q : q = [session |-> r.app.active, out |-> r.out, last |-> r.last]
  OBVIOUS
<1>3. PICK s : s = r.app.active
  OBVIOUS
<1>4. /\ Scoped(s) /\ HereIn(s, HereAfter(n, c, h)) /\ s.sampled = n.sampled
      /\ n.sampled /\ Active(s) = {} /\ c.op \in RequiresActiveView => HereAfter(n, c, h) = NoKey
  BY <1>2, <1>3 DEF Inside, Continued
<1>5. Here(app, r.app, c) = HereAfter(n, c, h)
  BY <1>1, <1>3, <1>4, HereKnown DEF HereAfter
<1>6. CASE Active(s) = {}
  <2>1. ActiveView(s) = NoView
    BY <1>4, <1>6, TheActiveView
  <2>2. HereAfter(n, c, h) = NoKey \/ c.op \notin RequiresActiveView
    BY <1>1, <1>3, <1>4, <1>6
  <2> QED
    BY <1>3, <1>5, <2>1, <2>2 DEF Current
<1>7. CASE Active(s) # {}
  <2>1. PICK i \in Active(s) : ActiveView(s) = s.views[i]
    BY <1>4, <1>7, TheActiveView
  <2>2. ActiveView(s) # NoView
    BY <1>4, <1>7, TheActiveView
  <2>3. s.views[i].key = HereAfter(n, c, h)
    BY <1>1, <1>3, <1>4 DEF HereIn
  <2> QED
    BY <1>3, <1>5, <2>1, <2>2, <2>3 DEF Current
<1> QED
  BY <1>6, <1>7

LEMMA CurrentHolds ==
  ASSUME RumInv, NEW c, NEW sampled, NEW r, Called(c, sampled, r)
  PROVE  Current(c, r)
<1>1. sampled \in BOOLEAN
  BY DEF Called
<1>2. CASE r.app.active = NoSession
  BY <1>2 DEF Current
<1>3. ASSUME NEW l, GoesOnWith(c, r, l) PROVE Current(c, r)
  <2>1. Known(r.app) = here
    BY <1>3, GoingOn
  <2> QED
    BY <1>3, <2>1, CurrentAfter DEF GoesOnWith
<1>4. ASSUME NEW p, NEW n, NEW l, BeginsWith(c, sampled, r, p, n, l) PROVE Current(c, r)
  <2>1. Known(r.app) = IF sampled THEN p.onClose ELSE NoKey
    BY <1>1, <1>4, HandedOn
  <2> QED
    BY <1>4, <2>1, CurrentAfter DEF BeginsWith
<1>5. ASSUME NEW l, StopsWith(c, r, l) PROVE r.app.active = NoSession
  BY <1>5 DEF StopsWith
<1>6. Rests(app, c, r) => r.app.active = NoSession
  BY DEF Rests
<1> QED
  BY <1>2, <1>3, <1>4, <1>5, <1>6, CallComes DEF Comes

\* Whatever is recorded after any calls, in whatever session, goes to the view the user is on.
THEOREM AlwaysOnCurrentView == Spec => OnCurrentView
<1>1. ASSUME RumInv, [Next]_vars
      PROVE  [app'.active # NoSession /\ app'.active.sampled =>
                IF ActiveView(app'.active) = NoView
                THEN here' = NoKey \/ cmd'.op \notin RequiresActiveView
                ELSE ActiveView(app'.active).key = here']_vars
  <2>1. CASE UNCHANGED vars
    BY <2>1
  <2>2. CASE Next
    <3>1. PICK c, sampled, r : Called(c, sampled, r)
      BY <2>2, NextCalls
    <3>2. Current(c, r)
      BY <1>1, <3>1, CurrentHolds
    <3>3. app' = r.app /\ cmd' = c /\ here' = Here(app, r.app, c)
      BY <3>1 DEF Called
    <3> QED
      BY <3>2, <3>3 DEF Current
  <2> QED
    BY <1>1, <2>1, <2>2
<1> QED
  BY <1>1, RumInvariant, PTL DEF Spec, OnCurrentView

LEMMA LimitsHold ==
  ASSUME RumInv, NEW c, NEW sampled, NEW r, Called(c, sampled, r), NEW i \in DOMAIN r.out,
         SessionOf(r.out[i]) = app.active.id
  PROVE  app.active.idle + c.gap < InactivityTimeout /\ app.active.age + c.gap <= MaxDuration
<1>1. c \in Cmds /\ sampled \in BOOLEAN
  BY DEF Called
<1>2. PICK q : q = [session |-> r.app.active, out |-> r.out, last |-> r.last]
  OBVIOUS
<1>3. PICK z : z = [session |-> r.app.prev, out |-> r.out, last |-> r.last]
  OBVIOUS
<1>4. ASSUME NEW l, app.active # NoSession, Scoped(app.active), Aged(app.active, c.gap, l),
             ~ Inactive(l), ~ Exceeded(l)
      PROVE  app.active.idle + c.gap < InactivityTimeout /\ app.active.age + c.gap <= MaxDuration
  <2>1. /\ l.idle = Least(app.active.idle + c.gap, InactivityTimeout)
        /\ l.age = Least(app.active.age + c.gap, MaxDuration + 1)
    BY <1>4 DEF Aged
  <2>2. c.gap \in Nat /\ app.active.idle \in Nat /\ app.active.age \in Nat
    BY <1>1, <1>4 DEF Cmds, Scoped, Session
  <2>3. ~ (l.idle >= InactivityTimeout) /\ ~ (l.age > MaxDuration)
    BY <1>4 DEF Inactive, Exceeded
  <2> QED
    BY <2>1, <2>2, <2>3, TimeoutsAssumption DEF Least
<1>5. ASSUME NEW l, GoesOnWith(c, r, l)
      PROVE  app.active.idle + c.gap < InactivityTimeout /\ app.active.age + c.gap <= MaxDuration
  <2>1. app.active # NoSession /\ Scoped(app.active) /\ Aged(app.active, c.gap, l) /\ EndReason(l, c) = "no"
    BY <1>5 DEF GoesOnWith
  <2>2. ~ Inactive(l) /\ ~ Exceeded(l)
    BY <1>1, <2>1, EndReasons
  <2> QED
    BY <1>4, <2>1, <2>2
<1>6. ASSUME NEW l, StopsWith(c, r, l)
      PROVE  app.active.idle + c.gap < InactivityTimeout /\ app.active.age + c.gap <= MaxDuration
  <2>1. app.active # NoSession /\ Scoped(app.active) /\ Aged(app.active, c.gap, l) /\ Closed(l, c, z)
    BY <1>3, <1>6 DEF StopsWith
  <2>2. EndReason(l, c) = "stopped"
    BY <1>3, <2>1 DEF Closed
  <2>3. ~ Inactive(l) /\ ~ Exceeded(l)
    BY <1>1, <2>2, EndReasons
  <2> QED
    BY <1>4, <2>1, <2>3
<1>7. ASSUME NEW p, NEW n, NEW l, BeginsWith(c, sampled, r, p, n, l)
      PROVE  FALSE
  <2>1. p.id = LatestSession(app).id
    BY <1>1, <1>7, HandedOn
  <2>2. /\ p \in Session /\ p.id > 0 /\ n.id = p.id + 1
        /\ \A x \in DOMAIN q.out : SessionOf(q.out[x]) = n.id
    BY <1>2, <1>7 DEF BeginsWith, Begun, Inside, Continued
  <2>3. p.id \in Nat
    BY <2>2 DEF Session
  <2>4. app.active.id \in {0, p.id}
    BY <2>1 DEF LatestSession, NoSession
  <2> QED
    BY <1>2, <2>2, <2>3, <2>4
<1>8. ~ Rests(app, c, r)
  BY DEF Rests
<1> QED
  BY <1>5, <1>6, <1>7, <1>8, CallComes DEF Comes

\* No event is ever written for a session that is past its limits.
THEOREM AlwaysWithinLimits == Spec => WithinLimits
<1>1. ASSUME RumInv, [Next]_vars
      PROVE  [\A i \in DOMAIN out' : SessionOf(out'[i]) = app.active.id =>
                /\ app.active.idle + cmd'.gap < InactivityTimeout
                /\ app.active.age + cmd'.gap <= MaxDuration]_vars
  <2>1. CASE UNCHANGED vars
    BY <2>1
  <2>2. CASE Next
    <3>1. PICK c, sampled, r : Called(c, sampled, r)
      BY <2>2, NextCalls
    <3>2. out' = r.out /\ cmd' = c
      BY <3>1 DEF Called
    <3> QED
      BY <1>1, <3>1, <3>2, LimitsHold
  <2> QED
    BY <1>1, <2>1, <2>2
<1> QED
  BY <1>1, RumInvariant, PTL DEF Spec, WithinLimits

LEMMA TheView ==
  ASSUME app.active # NoSession, Scoped(app.active), NEW i \in Open(app.active)
  PROVE  ViewOf(app.active.views[i].id) = app.active.views[i]
<1>1. PICK id : id = app.active.views[i].id
  OBVIOUS
<1>2. PICK S : S = {app.active.views[k] : k \in Open(app.active)}
  OBVIOUS
<1>3. ViewOf(id) = CHOOSE v \in S : v.id = id
  BY <1>2 DEF ViewOf
<1>4. app.active.views[i] \in S /\ \A v \in S : v.id = id => v = app.active.views[i]
  BY <1>1, <1>2 DEF Scoped, Numbered
<1> QED
  BY <1>1, <1>3, <1>4

\* What a call makes of a view that was open before it.
Fate(c, r, v) ==
  \/ c.op = "StopSession" /\ (v.active => ~ Latest(Told(v.id), r.out, v.id).sessionActive)
  \/ ~ Latest(Told(v.id), r.out, v.id).active
  \/ Ends(app, r.app) /\ (r.app.prev = NoSession \/ r.app.prev.ended # "stopped")
  \/ Purges(app.active, c, v.id)

\* ... and of its action.
Reported1(c, r, v) ==
  v.action # NoAction =>
    IF r.app.active # NoSession /\ GoesOn(v, r.app.active) THEN OfAction(r.out, v.id, v.action.n) = {}
    ELSE \/ \E i \in OfAction(r.out, v.id, v.action.n) :
              /\ OfAction(r.out, v.id, v.action.n) = {i}
              /\ \E j \in DOMAIN r.out : /\ j > i /\ r.out[j].type = "view"
                                           /\ r.out[j].view = v.id /\ r.out[j].actions > v.actions
         \/ /\ OfAction(r.out, v.id, v.action.n) = {}
            /\ \/ Purges(app.active, c, v.id)
               \/ Ends(app, r.app) /\ (r.app.prev = NoSession \/ r.app.prev.ended # "stopped")

LEMMA PurgesSame ==
  ASSUME NEW s, Scoped(s), NEW gap \in Nat, NEW l, Aged(s, gap, l), NEW c, NEW id
  PROVE  Purges(l, c, id) => Purges(s, c, id)
<1>1. \A i \in Open(s) : s.views[i].age \in Nat
  BY OpenViews DEF View
<1>2. Open(l) = Open(s) /\ \A i \in Open(s) : /\ l.views[i].age = s.views[i].age + gap
                                             /\ l.views[i].id = s.views[i].id
  BY DEF Aged, Older
<1>3. \A k \in Open(s) : First(l, k) => First(s, k)
  BY <1>1, <1>2 DEF First
<1> QED
  BY <1>2, <1>3 DEF Purges

LEMMA FateGoingOn ==
  ASSUME RumInv, NEW c, c.gap \in Nat, NEW r, NEW l, GoesOnWith(c, r, l),
         NEW i \in Open(app.active), NEW v, v = app.active.views[i]
  PROVE  /\ v.id \notin OpenIds(r.app) => Fate(c, r, v)
         /\ Reported1(c, r, v)
<1>1. /\ app.active # NoSession /\ Scoped(app.active) /\ Aged(app.active, c.gap, l)
      /\ Inside(l, c, AllTold, heard.view, here, [session |-> r.app.active, out |-> r.out, last |-> r.last])
  BY DEF GoesOnWith
<1>2. PICK q : q = [session |-> r.app.active, out |-> r.out, last |-> r.last]
  OBVIOUS
<1>3. PICK lv : lv = l.views[i]
  OBVIOUS
<1>4. i \in Open(l) /\ Older(v, c.gap, lv)
  BY <1>1, <1>3 DEF Aged
<1>5. /\ lv.id = v.id /\ lv.active = v.active /\ lv.action.n = v.action.n
      /\ (lv.action = NoAction <=> v.action = NoAction) /\ lv.actions = v.actions
  BY <1>4 DEF Older
<1>6. Scoped(q.session) /\ Lived(l, lv, c, q) /\ q.session = r.app.active /\ q.out = r.out
  BY <1>1, <1>2, <1>3, <1>4 DEF Inside, Continued
<1>7. r.app.active # NoSession
  BY <1>6 DEF Scoped, Session, NoSession
<1>8. Purges(l, c, v.id) => Purges(app.active, c, v.id)
  BY <1>1, PurgesSame
<1>9. v.id \notin OpenIds(r.app) => Fate(c, r, v)
  BY <1>5, <1>6, <1>7, <1>8, OpenIdsIds DEF Lived, Fate
<1>10. GoesOn(lv, q.session) <=> GoesOn(v, r.app.active)
  BY <1>5, <1>6 DEF GoesOn
<1>11. Reported1(c, r, v)
  <2>1. CASE Reports(lv, q.session, q.out)
    BY <1>5, <1>6, <1>7, <1>10, <2>1 DEF Reports, Reported1
  <2>2. CASE Purges(l, c, lv.id) /\ OfAction(q.out, lv.id, lv.action.n) = {}
    BY <1>5, <1>6, <1>7, <1>8, <2>2 DEF Reported1
  <2> QED
    BY <1>6, <2>1, <2>2 DEF Lived
<1> QED
  BY <1>9, <1>11

LEMMA FateStopping ==
  ASSUME RumInv, NEW c, NEW r, NEW l, StopsWith(c, r, l),
         NEW i \in Open(app.active), NEW v, v = app.active.views[i]
  PROVE  Fate(c, r, v) /\ Reported1(c, r, v)
<1>1. /\ app.active # NoSession /\ Scoped(app.active) /\ Aged(app.active, c.gap, l)
      /\ EndReason(l, c) # "no" /\ c.op = "StopSession"
      /\ Closed(l, c, [session |-> r.app.prev, out |-> r.out, last |-> r.last])
      /\ r.app = [active |-> NoSession, prev |-> r.app.prev]
  BY DEF StopsWith
<1>2. PICK q : q = [session |-> r.app.prev, out |-> r.out, last |-> r.last]
  OBVIOUS
<1>3. PICK lv : lv = l.views[i]
  OBVIOUS
<1>4. i \in Open(l) /\ Older(v, c.gap, lv)
  BY <1>1, <1>3 DEF Aged
<1>5. /\ lv.id = v.id /\ lv.active = v.active /\ lv.action.n = v.action.n
      /\ (lv.action = NoAction <=> v.action = NoAction) /\ lv.actions = v.actions
  BY <1>4 DEF Older
<1>6. r.app.active = NoSession /\ q.session = r.app.prev /\ q.out = r.out
  BY <1>1, <1>2
<1>7. Ends(app, r.app)
  BY <1>1, <1>6 DEF Ends, Scoped, Session, NoSession
<1>8. CASE EndReason(l, c) = "stopped"
  <2>1. /\ Reports(lv, q.session, q.out) /\ Open(q.session) = {}
        /\ lv.active => \A before : ~ Latest(before, q.out, lv.id).sessionActive
    BY <1>1, <1>2, <1>3, <1>4, <1>8 DEF Closed
  <2>2. Fate(c, r, v)
    BY <1>1, <1>5, <1>6, <2>1 DEF Fate
  <2>3. ~ GoesOn(lv, q.session)
    BY <2>1 DEF GoesOn
  <2>4. Reported1(c, r, v)
    BY <1>5, <1>6, <2>1, <2>3 DEF Reports, Reported1
  <2> QED
    BY <2>2, <2>4
<1>9. CASE EndReason(l, c) # "stopped"
  <2>1. q.session.ended # "stopped" /\ q.out = << >>
    BY <1>1, <1>2, <1>9 DEF Closed
  <2>2. Fate(c, r, v)
    BY <1>6, <1>7, <2>1 DEF Fate
  <2>3. OfAction(r.out, v.id, v.action.n) = {}
    BY <1>6, <2>1 DEF OfAction
  <2>4. Reported1(c, r, v)
    BY <1>6, <1>7, <2>1, <2>3 DEF Reported1
  <2> QED
    BY <2>2, <2>4
<1> QED
  BY <1>8, <1>9

LEMMA FateBeginning ==
  ASSUME RumInv, NEW c, NEW sampled \in BOOLEAN, NEW r, NEW p, NEW n, NEW l,
         BeginsWith(c, sampled, r, p, n, l), app.active # NoSession,
         NEW i \in Open(app.active), NEW v, v = app.active.views[i]
  PROVE  Fate(c, r, v) /\ Reported1(c, r, v)
<1>1. /\ p \in Session /\ Begun(n, p.id + 1, sampled, IF sampled THEN p.onClose ELSE NoKey)
      /\ Inside(n, c, AllTold, heard.view, IF sampled THEN p.onClose ELSE NoKey,
                [session |-> r.app.active, out |-> r.out, last |-> r.last])
      /\ r.app = [active |-> r.app.active, prev |-> NoSession]
  BY DEF BeginsWith
<1>2. p.id = app.active.id /\ r.app.active.id = p.id + 1 /\ p.id \in Nat /\ r.app.active # NoSession
  BY <1>1, HandedOn DEF LatestSession, Session
<1>3. PICK q : q = [session |-> r.app.active, out |-> r.out, last |-> r.last]
  OBVIOUS
<1>4. n.id = p.id + 1 /\ (\A x \in DOMAIN r.out : SessionOf(r.out[x]) = n.id) /\ Scoped(r.app.active)
  BY <1>1, <1>3 DEF Begun, Inside, Continued
<1>5. v.id[1] = p.id
  BY <1>2, OpenViews DEF RumInv, AppOK, Scoped, Numbered
<1>6. Ends(app, r.app) /\ r.app.prev = NoSession
  BY <1>1, <1>2 DEF Ends
<1>7. OfAction(r.out, v.id, v.action.n) = {}
  <2>1. SUFFICES ASSUME NEW x \in DOMAIN r.out, r.out[x].type = "action", r.out[x].view = v.id
                 PROVE  FALSE
    BY DEF OfAction
  <2>2. SessionOf(r.out[x]) = v.id[1]
    BY <2>1 DEF SessionOf
  <2> QED
    BY <1>2, <1>4, <1>5, <2>2
<1>8. Fate(c, r, v)
  BY <1>6 DEF Fate
<1>9. ~ GoesOn(v, r.app.active)
  <2>1. SUFFICES ASSUME NEW k \in Open(r.app.active), r.app.active.views[k].id = v.id
                 PROVE  FALSE
    BY DEF GoesOn
  <2>2. v.id[1] = p.id + 1
    BY <1>2, <1>4, <2>1 DEF Scoped, Numbered
  <2> QED
    BY <1>2, <1>5, <2>2
<1>10. Reported1(c, r, v)
  BY <1>6, <1>7, <1>9 DEF Reported1
<1> QED
  BY <1>8, <1>10

LEMMA FateHolds ==
  ASSUME RumInv, NEW c, NEW sampled, NEW r, Called(c, sampled, r), app.active # NoSession,
         NEW i \in Open(app.active), NEW v, v = app.active.views[i]
  PROVE  /\ v.id \notin OpenIds(r.app) => Fate(c, r, v)
         /\ Reported1(c, r, v)
<1>1. sampled \in BOOLEAN /\ c.gap \in Nat
  BY DEF Called, Cmds
<1> QED
  BY <1>1, CallComes, FateGoingOn, FateStopping, FateBeginning DEF Comes

LEMMA DisplayHolds ==
  ASSUME RumInv, NEW c, NEW sampled, NEW r, Called(c, sampled, r),
         NEW i \in DOMAIN r.out, r.out[i].type = "ttfd"
  PROVE  \/ \E j \in 1 .. i - 1 : r.out[j].type = "ttid" /\ r.out[j].duration <= r.out[i].duration
         \/ /\ r.out[i].session = app.active.id
            /\ app.active.ttid > 0 /\ app.active.ttid <= r.out[i].duration
<1>1. PICK q : q = [session |-> r.app.active, out |-> r.out, last |-> r.last]
  OBVIOUS
<1>2. PICK z : z = [session |-> r.app.prev, out |-> r.out, last |-> r.last]
  OBVIOUS
<1>3. ASSUME NEW n, Displayed(n, q.out)
      PROVE  \/ \E j \in 1 .. i - 1 : r.out[j].type = "ttid" /\ r.out[j].duration <= r.out[i].duration
             \/ r.out[i].session = n.id /\ n.ttid > 0 /\ n.ttid <= r.out[i].duration
  BY <1>1, <1>3 DEF Displayed
<1>4. ASSUME NEW l, GoesOnWith(c, r, l)
      PROVE  Displayed(l, q.out) /\ l.id = app.active.id /\ l.ttid = app.active.ttid
  BY <1>1, <1>4 DEF GoesOnWith, Inside, Aged
<1>5. ASSUME NEW p, NEW n, NEW l, BeginsWith(c, sampled, r, p, n, l)
      PROVE  Displayed(n, q.out) /\ n.ttid = 0
  BY <1>1, <1>5 DEF BeginsWith, Inside, Begun
<1>6. ASSUME NEW l, StopsWith(c, r, l) PROVE FALSE
  BY <1>2, <1>6 DEF StopsWith, Closed
<1>7. ~ Rests(app, c, r)
  BY DEF Rests
<1> QED
  BY <1>3, <1>4, <1>5, <1>6, <1>7, CallComes DEF Comes

\* What OpenIds(app) holds, and which view that is.
LEMMA OpenIdsViews ==
  ASSUME RumInv, NEW id \in OpenIds(app)
  PROVE  /\ app.active # NoSession
         /\ \E i \in Open(app.active) : /\ id = app.active.views[i].id
                                        /\ ViewOf(id) = app.active.views[i]
<1>1. app.active # NoSession /\ \E i \in Open(app.active) : id = app.active.views[i].id
  BY DEF OpenIds
<1>2. Scoped(app.active)
  BY <1>1 DEF RumInv, AppOK
<1> QED
  BY <1>1, <1>2, TheView

LEMMA PurgesPurged ==
  ASSUME RumInv, NEW c, cmd' = c, NEW id \in OpenIds(app)
  PROVE  Purges(app.active, c, id) => Purged(id)
<1>1. SUFFICES ASSUME Purges(app.active, c, id) PROVE Purged(id)
  OBVIOUS
<1>2. PICK k \in Open(app.active) : app.active.views[k].id = id /\ First(app.active, k)
  BY <1>1 DEF Purges
<1>3. ViewOf(id) = app.active.views[k]
  BY <1>2, OpenIdsViews, TheView DEF RumInv, AppOK
<1> QED
  BY <1>1, <1>2, <1>3 DEF Purges, Purged, First, ViewSlots

\* A view leaves its session only when its end is told, when the session is over, or when
\* the array is full and none of its views has been open for longer.
THEOREM AlwaysFinalised == Spec => Finalised
<1>1. ASSUME RumInv, [Next]_vars
      PROVE  [\A id \in OpenIds(app) : Gone(id) =>
                \/ cmd'.op = "StopSession" /\ (ViewOf(id).active => ~ LastTold(id).sessionActive)
                \/ ~ LastTold(id).active
                \/ Expires
                \/ Purged(id)]_vars
  <2>1. CASE UNCHANGED vars
    BY <2>1
  <2>2. CASE Next
    <3>1. PICK c, sampled, r : Called(c, sampled, r)
      BY <2>2, NextCalls
    <3>2. app' = r.app /\ cmd' = c /\ out' = r.out
      BY <3>1 DEF Called
    <3>3. ASSUME NEW id \in OpenIds(app), Gone(id)
          PROVE  \/ cmd'.op = "StopSession" /\ (ViewOf(id).active => ~ LastTold(id).sessionActive)
                 \/ ~ LastTold(id).active
                 \/ Expires
                 \/ Purged(id)
      <4>1. app.active # NoSession
        BY <1>1, OpenIdsViews
      <4>2. PICK i \in Open(app.active) : id = app.active.views[i].id /\ ViewOf(id) = app.active.views[i]
        BY <1>1, OpenIdsViews
      <4>3. PICK v : v = app.active.views[i]
        OBVIOUS
      <4>4. id \notin OpenIds(r.app)
        BY <3>2, <3>3 DEF Gone, OpenIds, Open
      <4>5. Fate(c, r, v)
        BY <1>1, <3>1, <4>1, <4>2, <4>3, <4>4, FateHolds
      <4>6. LastTold(id) = Latest(Told(id), r.out, id)
        BY <3>2 DEF LastTold
      <4>7. Purges(app.active, c, id) => Purged(id)
        BY <1>1, <3>2, <3>3, PurgesPurged
      <4>8. Ends(app, r.app) /\ (r.app.prev = NoSession \/ r.app.prev.ended # "stopped") => Expires
        BY <3>2 DEF Expires
      <4> QED
        BY <3>2, <4>2, <4>3, <4>5, <4>6, <4>7, <4>8 DEF Fate
    <3> QED
      BY <3>3
  <2> QED
    BY <1>1, <2>1, <2>2
<1> QED
  BY <1>1, RumInvariant, PTL DEF Spec, Finalised

\* What is to hold of a view of id, v, and the events I of its action.
ActionTold(id, v, I) ==
  LET goesOn == /\ id \in OpenIds(app')
                /\ \E i \in Open(app'.active) : /\ app'.active.views[i].id = id
                                                /\ app'.active.views[i].action.n = v.action.n
  IN  v.action # NoAction =>
        IF goesOn THEN I = {}
        ELSE \/ \E i \in I : /\ I = {i}
                              /\ \E j \in DOMAIN out' : /\ j > i /\ out'[j].type = "view"
                                   /\ out'[j].view = id /\ out'[j].actions > v.actions
             \/ I = {} /\ (Purged(id) \/ Expires)

LEMMA ActionHolds ==
  ASSUME RumInv, NEW c, NEW sampled, NEW r, Called(c, sampled, r), NEW id \in OpenIds(app)
  PROVE  ActionTold(id, ViewOf(id), OfAction(out', id, ViewOf(id).action.n))
<1>1. app' = r.app /\ cmd' = c /\ out' = r.out
  BY DEF Called
<1>2. app.active # NoSession
  BY OpenIdsViews
<1>3. PICK i \in Open(app.active) : id = app.active.views[i].id /\ ViewOf(id) = app.active.views[i]
  BY OpenIdsViews
<1>4. PICK v : v = app.active.views[i]
  OBVIOUS
<1>5. Reported1(c, r, v)
  BY <1>2, <1>4, FateHolds
<1>6. v.id = id /\ ViewOf(id) = v
  BY <1>3, <1>4
<1>7. Purges(app.active, c, id) => Purged(id)
  BY <1>1, PurgesPurged
<1>8. Ends(app, r.app) /\ (r.app.prev = NoSession \/ r.app.prev.ended # "stopped") => Expires
  BY <1>1 DEF Expires
<1>9. (/\ id \in OpenIds(app')
       /\ \E k \in Open(app'.active) : /\ app'.active.views[k].id = id
                                       /\ app'.active.views[k].action.n = v.action.n)
        <=> r.app.active # NoSession /\ GoesOn(v, r.app.active)
  BY <1>1, <1>6 DEF GoesOn, OpenIds
<1>10. PICK I : I = OfAction(r.out, id, v.action.n)
  OBVIOUS
<1>11. v.action # NoAction =>
         IF r.app.active # NoSession /\ GoesOn(v, r.app.active) THEN I = {}
         ELSE \/ \E k \in I : /\ I = {k}
                               /\ \E j \in DOMAIN r.out : /\ j > k /\ r.out[j].type = "view"
                                                            /\ r.out[j].view = id /\ r.out[j].actions > v.actions
              \/ I = {} /\ (Purged(id) \/ Expires)
  BY <1>5, <1>6, <1>7, <1>8, <1>10 DEF Reported1
<1>12. ActionTold(id, v, I)
  BY <1>1, <1>9, <1>11 DEF ActionTold
<1> QED
  BY <1>1, <1>6, <1>10, <1>12

\* An action is reported exactly when it ends, before the view event that counts it; and the
\* time to full display after the time to initial display.
THEOREM AlwaysReportedInOrder == Spec => ReportedInOrder
<1>1. ASSUME RumInv, [Next]_vars
      PROVE  [\A id \in OpenIds(app) :
       LET v == ViewOf(id)
           I == {i \in DOMAIN out' : out'[i].type = "action" /\ out'[i].view = id
                                      /\ out'[i].action = v.action.n}
           goesOn == /\ id \in OpenIds(app')
                     /\ \E i \in Open(app'.active) : /\ app'.active.views[i].id = id
                                                      /\ app'.active.views[i].action.n = v.action.n
       IN  v.action # NoAction =>
             IF goesOn THEN I = {}
             ELSE \/ \E i \in I : /\ I = {i}
                                    /\ \E j \in DOMAIN out' : /\ j > i /\ out'[j].type = "view"
                                         /\ out'[j].view = id /\ out'[j].actions > v.actions
                  \/ I = {} /\ (Purged(id) \/ Expires)]_vars
  <2>1. CASE UNCHANGED vars
    BY <2>1
  <2>2. CASE Next
    <3>1. PICK c, sampled, r : Called(c, sampled, r)
      BY <2>2, NextCalls
    <3>2. ASSUME NEW id \in OpenIds(app)
          PROVE  ActionTold(id, ViewOf(id), OfAction(out', id, ViewOf(id).action.n))
      BY <1>1, <3>1, <3>2, ActionHolds
    <3> QED
      BY <3>2, Zenon DEF ActionTold, OfAction
  <2> QED
    BY <1>1, <2>1, <2>2
<1>2. ASSUME RumInv, [Next]_vars
      PROVE  [\A i \in DOMAIN out' : out'[i].type = "ttfd" =>
                \/ \E j \in 1 .. i - 1 : out'[j].type = "ttid" /\ out'[j].duration <= out'[i].duration
                \/ /\ out'[i].session = app.active.id
                   /\ app.active.ttid > 0 /\ app.active.ttid <= out'[i].duration]_vars
  <2>1. CASE UNCHANGED vars
    BY <2>1
  <2>2. CASE Next
    <3>1. PICK c, sampled, r : Called(c, sampled, r)
      BY <2>2, NextCalls
    <3>2. out' = r.out
      BY <3>1 DEF Called
    <3> QED
      BY <1>1, <1>2, <3>1, <3>2, DisplayHolds
  <2> QED
    BY <1>2, <2>1, <2>2
<1>3. Spec => ActionsReported
  BY <1>1, RumInvariant, PTL DEF Spec, ActionsReported
<1>4. Spec => FullAfterInitial
  BY <1>2, RumInvariant, PTL DEF Spec, FullAfterInitial
<1> QED
  BY <1>3, <1>4 DEF ReportedInOrder

-----------------------------------------------------------------------------
(***************************************************************************)
(* Attributes, for any number of threads, attributes, cells and places in  *)
(* them.  A cell that a thread is about to modify, or takes apart, is      *)
(* reached by nothing but one attribute of that thread, or by nothing at   *)
(* all; so what one thread does leaves what the others rely on as it was   *)
(* (Undisturbed), and each action has only to be checked for the thread    *)
(* that takes it.                                                          *)
(***************************************************************************)
\* Between GetCowValueForWrite and the end of the change.
Acting == {"check", "clone", "write", "put"}

Calls ==
  [at : {"idle"}]
    \union [at : {"allocate"}, handle : Handles, value : Types]
    \union [at : {"addref"}, handle : Handles, from : Handles]
    \union [at : Acting \ {"put"}, handle : Handles, op : {"set"}, data : Data]
    \union [at : Acting \ {"put"}, handle : Handles, op : {"clear", "reserve"}]
    \union [at : Acting \ {"put"}, handle : Handles, op : {"delete"}, name : Names]
    \union [at : Acting, handle : Handles, op : {"put"}, name : Names, item : Slots]

\* Nothing but one attribute of thread t points to the cell.
Exclusive(c, t) == \E h \in Handles : Refs(c) = {Handle(h)} /\ owner[h] = t

\* What a thread has still to release is its own: an attribute it uses, a temporary of
\* its own, or a part of a cell that nobody else reaches.
Releasing(t) == \A s \in dying[t] :
  /\ ptr[s] # Nil
  /\ \A u \in Threads : s \in dying[u] => u = t
  /\ \A h \in Handles : s = Handle(h) => owner[h] = t
  /\ \A u \in Threads : s = Old(u) \/ s = Copy(u) => u = t
  /\ \A c \in Cells, n \in Names : s = Item(c, n) => Refs(c) = {} \/ Exclusive(c, t)

Puts(t) == pc[t].at \in Acting /\ pc[t].op = "put"

\* A temporary that holds something is going to be released, or is about to be stored.
Temporaries(t) ==
  /\ ptr[Old(t)] # Nil => Old(t) \in dying[t]
  /\ ptr[Copy(t)] # Nil => \/ Copy(t) \in dying[t]
                           \/ Puts(t) /\ pc[t].item = Copy(t)

\* What a call relies on from one of its steps to the next.
Replacing(t) ==
  /\ pc[t].at \in {"allocate", "addref"} =>
       /\ owner[pc[t].handle] = t
       /\ Holds(pc[t].handle) => Handle(pc[t].handle) \in dying[t]
  /\ pc[t].at = "addref" =>
       /\ owner[pc[t].from] = t /\ pc[t].from # pc[t].handle /\ Holds(pc[t].from)
       /\ Handle(pc[t].from) \notin dying[t]

Modifying(t) ==
  /\ pc[t].at \in Acting =>
       /\ owner[pc[t].handle] = t /\ Holds(pc[t].handle)
       /\ Handle(pc[t].handle) \notin dying[t]
  /\ Puts(t) =>
       /\ ptr[pc[t].item] # Nil /\ pc[t].item \notin dying[t]
       /\ \/ pc[t].item = Copy(t)
          \/ \E g \in Handles : pc[t].item = Handle(g) /\ owner[g] = t /\ g # pc[t].handle
  /\ pc[t].at = "put" /\ ptr[Place(t)] # Nil => Place(t) \in dying[t]
  /\ pc[t].at \in {"write", "put"} => Refs(Cell(pc[t].handle)) = {Handle(pc[t].handle)}

Relies(t) == Releasing(t) /\ Temporaries(t) /\ Replacing(t) /\ Modifying(t)

\* The inductive invariant.
IInv ==
  /\ CowTypeOK /\ pc \in [Threads -> Calls]
  /\ CountsExact
  /\ \A t \in Threads : Relies(t)

-----------------------------------------------------------------------------
(* Slots. *)

LEMMA SlotKinds ==
  /\ \A h, g : Handle(h) = Handle(g) => h = g
  /\ \A t, u : Old(t) = Old(u) => t = u
  /\ \A t, u : Copy(t) = Copy(u) => t = u
  /\ \A c, d, n, m : Item(c, n) = Item(d, m) => c = d /\ n = m
  /\ \A h, t : Handle(h) # Old(t) /\ Handle(h) # Copy(t)
  /\ \A h, c, n : Handle(h) # Item(c, n)
  /\ \A t, u : Old(t) # Copy(u)
  /\ \A t, c, n : Old(t) # Item(c, n) /\ Copy(t) # Item(c, n)
  /\ \A c, n : Item(c, n)[3] = n
<1>1. \A x, y : << x, y >>[1] = x /\ << x, y >>[2] = y
  OBVIOUS
<1>2. \A x, y, z : << x, y, z >>[1] = x /\ << x, y, z >>[2] = y /\ << x, y, z >>[3] = z
  OBVIOUS
<1>3. /\ "handle" # "old" /\ "handle" # "copy" /\ "handle" # "item"
      /\ "old" # "copy" /\ "old" # "item" /\ "copy" # "item"
  OBVIOUS
<1>4. /\ \A h, g : Handle(h) = Handle(g) => h = g
      /\ \A t, u : Old(t) = Old(u) => t = u
      /\ \A t, u : Copy(t) = Copy(u) => t = u
  BY <1>1 DEF Handle, Old, Copy
<1>5. /\ \A c, d, n, m : Item(c, n) = Item(d, m) => c = d /\ n = m
      /\ \A c, n : Item(c, n)[3] = n
  BY <1>2 DEF Item
<1>6. /\ \A h, t : Handle(h) # Old(t) /\ Handle(h) # Copy(t)
      /\ \A t, u : Old(t) # Copy(u)
  BY <1>1, <1>3 DEF Handle, Old, Copy
<1>7. /\ \A h, c, n : Handle(h) # Item(c, n)
      /\ \A t, c, n : Old(t) # Item(c, n) /\ Copy(t) # Item(c, n)
  BY <1>1, <1>2, <1>3 DEF Handle, Old, Copy, Item
<1> QED
  BY <1>4, <1>5, <1>6, <1>7

LEMMA SlotsAre ==
  /\ \A h \in Handles : Handle(h) \in Slots
  /\ \A t \in Threads : Old(t) \in Slots /\ Copy(t) \in Slots
  /\ \A c \in Cells, n \in Names : Item(c, n) \in Slots /\ Item(c, n) \in ItemsOf(c)
  /\ \A c \in Cells : ItemsOf(c) \subseteq Slots
  /\ \A c \in Cells : \A s \in ItemsOf(c) : \E n \in Names : s = Item(c, n)
  /\ \A s \in Slots : \/ \E h \in Handles : s = Handle(h)
                      \/ \E c \in Cells, n \in Names : s = Item(c, n)
                      \/ \E t \in Threads : s = Old(t) \/ s = Copy(t)
<1>1. /\ \A h \in Handles : Handle(h) \in Slots
      /\ \A t \in Threads : Old(t) \in Slots /\ Copy(t) \in Slots
  BY DEF Slots
<1>2. /\ \A c \in Cells, n \in Names : Item(c, n) \in ItemsOf(c)
      /\ \A c \in Cells : \A s \in ItemsOf(c) : \E n \in Names : s = Item(c, n)
  BY DEF ItemsOf
<1>3. \A c \in Cells : ItemsOf(c) \subseteq Slots
  BY DEF Slots
<1>4. \A s \in Slots : \/ \E h \in Handles : s = Handle(h)
                       \/ \E c \in Cells : s \in ItemsOf(c)
                       \/ \E t \in Threads : s = Old(t) \/ s = Copy(t)
  BY DEF Slots
<1> QED
  BY <1>1, <1>2, <1>3, <1>4

LEMMA SlotsFinite == IsFiniteSet(Slots)
<1> DEFINE H == {Handle(h) : h \in Handles}
           O == {Old(t) : t \in Threads}
           C == {Copy(t) : t \in Threads}
           I == {ItemsOf(c) : c \in Cells}
<1>1. IsFiniteSet(H)
  <2>1. [h \in Handles |-> Handle(h)] \in Surjection(Handles, H)
    BY DEF Surjection
  <2> QED
    BY <2>1, FiniteAssumption, FS_Surjection
<1>2. IsFiniteSet(O)
  <2>1. [t \in Threads |-> Old(t)] \in Surjection(Threads, O)
    BY DEF Surjection
  <2> QED
    BY <2>1, FiniteAssumption, FS_Surjection
<1>3. IsFiniteSet(C)
  <2>1. [t \in Threads |-> Copy(t)] \in Surjection(Threads, C)
    BY DEF Surjection
  <2> QED
    BY <2>1, FiniteAssumption, FS_Surjection
<1>4. IsFiniteSet(I)
  <2>1. [c \in Cells |-> ItemsOf(c)] \in Surjection(Cells, I)
    BY DEF Surjection
  <2> QED
    BY <2>1, FiniteAssumption, FS_Surjection
<1>5. ASSUME NEW c \in Cells
      PROVE  IsFiniteSet(ItemsOf(c))
  <2>1. [n \in Names |-> Item(c, n)] \in Surjection(Names, ItemsOf(c))
    BY DEF Surjection, ItemsOf
  <2> QED
    BY <2>1, FiniteAssumption, FS_Surjection
<1>6. IsFiniteSet(UNION I)
  BY <1>4, <1>5, FS_UNION
<1> HIDE DEF H, O, C, I
<1>7. IsFiniteSet(H \union UNION I)
  BY <1>1, <1>6, FS_Union
<1>8. IsFiniteSet((H \union UNION I) \union O)
  BY <1>2, <1>7, FS_Union
<1>9. IsFiniteSet(((H \union UNION I) \union O) \union C)
  BY <1>3, <1>8, FS_Union
<1>10. Slots = ((H \union UNION I) \union O) \union C
  BY DEF Slots, H, O, C, I
<1> QED
  BY <1>9, <1>10

LEMMA RefsFinite ==
  ASSUME NEW c
  PROVE  IsFiniteSet(Refs(c)) /\ Cardinality(Refs(c)) \in Nat
<1>1. IsFiniteSet(Refs(c))
  BY SlotsFinite, FS_Subset DEF Refs
<1> QED
  BY <1>1, FS_CardinalityType

\* A cell that nothing points to, and one that something does.
LEMMA CountZero ==
  ASSUME CowTypeOK, CountsExact, NEW c \in Cells
  PROVE  /\ count[c] = 0 <=> Refs(c) = {}
         /\ count[c] \in Nat
         /\ \A s \in Slots : ptr[s] = c => count[c] > 0
<1>1. count[c] = Cardinality(Refs(c)) /\ count[c] \in Nat
  BY DEF CowTypeOK, CountsExact
<1>2. count[c] = 0 <=> Refs(c) = {}
  BY <1>1, RefsFinite, FS_EmptySet
<1>3. \A s \in Slots : ptr[s] = c => Refs(c) # {}
  BY DEF Refs
<1> QED
  BY <1>1, <1>2, <1>3

\* One more reference, and one less.
LEMMA OneMoreRef ==
  ASSUME CowTypeOK, CountsExact, NEW s \in Slots, NEW c \in Cells, ptr[s] = Nil,
         ptr' = [ptr EXCEPT ![s] = c], count' = [count EXCEPT ![c] = @ + 1]
  PROVE  /\ ptr' \in [Slots -> Cells \union {Nil}] /\ count' \in [Cells -> Nat]
         /\ CountsExact'
         /\ Refs(c)' = Refs(c) \union {s}
         /\ \A d \in Cells : d # c => Refs(d)' = Refs(d)
<1>1. ptr' \in [Slots -> Cells \union {Nil}] /\ count' \in [Cells -> Nat]
  BY DEF CowTypeOK
<1>2. Refs(c)' = Refs(c) \union {s}
  BY DEF CowTypeOK, Refs
<1>3. \A d \in Cells : d # c => Refs(d)' = Refs(d)
  BY NilAssumption DEF CowTypeOK, Refs
<1>4. s \notin Refs(c)
  BY NilAssumption DEF Refs
<1>5. Cardinality(Refs(c)') = Cardinality(Refs(c)) + 1
  BY <1>2, <1>4, RefsFinite, FS_AddElement
<1>6. CountsExact'
  BY <1>2, <1>3, <1>5 DEF CountsExact, CowTypeOK
<1> QED
  BY <1>1, <1>2, <1>3, <1>6

LEMMA OneLessRef ==
  ASSUME CowTypeOK, CountsExact, NEW s \in Slots, NEW c \in Cells, ptr[s] = c,
         ptr' = [ptr EXCEPT ![s] = Nil], count' = [count EXCEPT ![c] = @ - 1]
  PROVE  /\ ptr' \in [Slots -> Cells \union {Nil}] /\ count' \in [Cells -> Nat]
         /\ CountsExact'
         /\ Refs(c)' = Refs(c) \ {s}
         /\ \A d \in Cells : d # c => Refs(d)' = Refs(d)
<1>1. ptr' \in [Slots -> Cells \union {Nil}]
  BY DEF CowTypeOK
<1>2. count' \in [Cells -> Nat]
  BY CountZero DEF CowTypeOK
<1>3. Refs(c)' = Refs(c) \ {s}
  BY NilAssumption DEF CowTypeOK, Refs
<1>4. \A d \in Cells : d # c => Refs(d)' = Refs(d)
  BY NilAssumption DEF CowTypeOK, Refs
<1>5. s \in Refs(c)
  BY DEF Refs
<1>6. Cardinality(Refs(c)') = Cardinality(Refs(c)) - 1
  BY <1>3, <1>5, RefsFinite, FS_RemoveElement
<1>7. CountsExact'
  BY <1>3, <1>4, <1>6 DEF CountsExact, CowTypeOK
<1> QED
  BY <1>1, <1>2, <1>3, <1>4, <1>7

-----------------------------------------------------------------------------
(* Calls, and the threads that a step leaves alone. *)

LEMMA CallShape ==
  ASSUME NEW k \in Calls
  PROVE  /\ k.at \in {"idle", "allocate", "addref"} \union Acting
         /\ k.at = "allocate" => k.handle \in Handles /\ k.value \in Types
         /\ k.at = "addref" => k.handle \in Handles /\ k.from \in Handles
         /\ k.at \in Acting => k.handle \in Handles
         /\ k.at \in Acting => k.op \in {"set", "clear", "reserve", "delete", "put"}
         /\ k.at \in Acting /\ k.op = "set" => k.data \in Data
         /\ k.at \in Acting /\ k.op = "delete" => k.name \in Names
         /\ k.at \in Acting /\ k.op = "put" => k.name \in Names /\ k.item \in Slots
         /\ k.at = "put" => k.op = "put"
<1>1. CASE k \in [at : {"idle"}]
  BY <1>1 DEF Acting
<1>2. CASE k \in [at : {"allocate"}, handle : Handles, value : Types]
  BY <1>2 DEF Acting
<1>3. CASE k \in [at : {"addref"}, handle : Handles, from : Handles]
  BY <1>3 DEF Acting
<1>4. CASE k \in [at : Acting \ {"put"}, handle : Handles, op : {"set"}, data : Data]
  BY <1>4 DEF Acting
<1>5. CASE k \in [at : Acting \ {"put"}, handle : Handles, op : {"clear", "reserve"}]
  BY <1>5 DEF Acting
<1>6. CASE k \in [at : Acting \ {"put"}, handle : Handles, op : {"delete"}, name : Names]
  BY <1>6 DEF Acting
<1>7. CASE k \in [at : Acting, handle : Handles, op : {"put"}, name : Names, item : Slots]
  BY <1>7 DEF Acting
<1> QED
  BY <1>1, <1>2, <1>3, <1>4, <1>5, <1>6, <1>7 DEF Calls

\* A call that modifies an attribute goes from step to step with the same arguments.
LEMMA CallMoves ==
  ASSUME NEW k \in Calls, k.at \in Acting \ {"put"}, NEW b \in Acting, b = "put" => k.op = "put"
  PROVE  /\ [k EXCEPT !.at = b] \in Calls
         /\ [k EXCEPT !.at = b].at = b
         /\ [k EXCEPT !.at = b].handle = k.handle
         /\ [k EXCEPT !.at = b].op = k.op
         /\ k.op = "put" => /\ [k EXCEPT !.at = b].name = k.name
                            /\ [k EXCEPT !.at = b].item = k.item
<1> DEFINE j == [k EXCEPT !.at = b]
<1>4. CASE k \in [at : Acting \ {"put"}, handle : Handles, op : {"set"}, data : Data]
  <2>1. j \in [at : Acting \ {"put"}, handle : Handles, op : {"set"}, data : Data]
    BY <1>4
  <2> QED
    BY <1>4, <2>1 DEF Calls
<1>5. CASE k \in [at : Acting \ {"put"}, handle : Handles, op : {"clear", "reserve"}]
  <2>1. j \in [at : Acting \ {"put"}, handle : Handles, op : {"clear", "reserve"}]
    BY <1>5
  <2> QED
    BY <1>5, <2>1 DEF Calls
<1>6. CASE k \in [at : Acting \ {"put"}, handle : Handles, op : {"delete"}, name : Names]
  <2>1. j \in [at : Acting \ {"put"}, handle : Handles, op : {"delete"}, name : Names]
    BY <1>6
  <2> QED
    BY <1>6, <2>1 DEF Calls
<1>7. CASE k \in [at : Acting, handle : Handles, op : {"put"}, name : Names, item : Slots]
  <2>1. j \in [at : Acting, handle : Handles, op : {"put"}, name : Names, item : Slots]
    BY <1>7
  <2> QED
    BY <1>7, <2>1 DEF Calls
<1> QED
  BY <1>4, <1>5, <1>6, <1>7 DEF Calls, Acting

\* What a step of thread t may touch: its own attributes and temporaries, places that
\* it has to release, and places of a cell that is new or that only it reaches; and it
\* may pass on only what it reaches itself.
Touches(s, t) ==
  /\ \A h \in Handles : s = Handle(h) => owner[h] = t
  /\ \A u \in Threads : s = Old(u) \/ s = Copy(u) => u = t
  /\ \A c \in Cells, n \in Names :
       s = Item(c, n) => s \in dying[t] \/ Fresh(c) \/ Exclusive(c, t)

Reaches(c, t) ==
  \/ c = Nil
  \/ Fresh(c)
  \/ \E s \in Slots : ptr[s] = c /\ \A h \in Handles : s = Handle(h) => owner[h] = t

Local(t) ==
  /\ \A u \in Threads : u # t => pc'[u] = pc[u] /\ dying'[u] = dying[u]
  /\ \A h \in Handles : owner[h] # t => owner'[h] = owner[h]
  /\ \A s \in Slots : ptr'[s] # ptr[s] => Touches(s, t) /\ Reaches(ptr'[s], t)
  /\ \A s \in dying'[t] : s \in dying[t] \/ \A u \in Threads : u # t => s \notin dying[u]

\* Nobody else gets a reference to a cell that thread u takes apart or is to modify.
LEMMA CellKept ==
  ASSUME IInv, NEW t \in Threads, NEW u \in Threads, u # t, Local(t), CowTypeOK',
         NEW c \in Cells, ~Fresh(c), Refs(c) = {} \/ Exclusive(c, u)
  PROVE  Refs(c)' = Refs(c)
<1>1. ASSUME NEW s \in Slots, ptr[s] = c
      PROVE  ptr'[s] = c
  <2>1. s \in Refs(c)
    BY <1>1 DEF Refs
  <2>2. PICK h \in Handles : s = Handle(h) /\ owner[h] = u
    BY <2>1 DEF Exclusive
  <2>3. ~Touches(s, t)
    BY <2>2 DEF Touches
  <2> QED
    BY <1>1, <2>3 DEF Local
<1>2. ASSUME NEW s \in Slots, ptr'[s] = c
      PROVE  ptr[s] = c
  <2>1. SUFFICES ASSUME ptr[s] # c PROVE FALSE
    OBVIOUS
  <2>2. Reaches(c, t)
    BY <1>2, <2>1 DEF Local
  <2>3. PICK r \in Slots : ptr[r] = c /\ \A h \in Handles : r = Handle(h) => owner[h] = t
    BY <2>2, NilAssumption DEF Reaches
  <2>4. r \in Refs(c)
    BY <2>3 DEF Refs
  <2>5. PICK h \in Handles : r = Handle(h) /\ owner[h] = u
    BY <2>4 DEF Exclusive
  <2> QED
    BY <2>3, <2>5
<1> QED
  BY <1>1, <1>2 DEF Refs

\* The places of such a cell keep what is in them, unless there is nothing.
LEMMA PlacesKept ==
  ASSUME IInv, NEW t \in Threads, NEW u \in Threads, u # t, Local(t),
         NEW c \in Cells, NEW n \in Names, ~Fresh(c), Refs(c) = {} \/ Exclusive(c, u),
         ptr[Item(c, n)] # Nil => Item(c, n) \in dying[u]
  PROVE  ptr'[Item(c, n)] = ptr[Item(c, n)]
<1>1. SUFFICES ASSUME ptr'[Item(c, n)] # ptr[Item(c, n)] PROVE FALSE
  OBVIOUS
<1>2. Item(c, n) \in Slots
  BY SlotsAre
<1>3. Touches(Item(c, n), t)
  BY <1>1, <1>2 DEF Local
<1>4. Item(c, n) \in dying[t] \/ Exclusive(c, t)
  BY <1>3 DEF Touches
<1>5. CASE Item(c, n) \in dying[t]
  <2>1. Releasing(t)
    BY DEF IInv, Relies
  <2>2. ptr[Item(c, n)] # Nil
    BY <1>5, <2>1 DEF Releasing
  <2> QED
    BY <1>5, <2>1, <2>2 DEF Releasing
<1>6. CASE Exclusive(c, t)
  <2>1. PICK h \in Handles : Refs(c) = {Handle(h)} /\ owner[h] = t
    BY <1>6 DEF Exclusive
  <2>2. PICK g \in Handles : Refs(c) = {Handle(g)} /\ owner[g] = u
    BY <2>1 DEF Exclusive
  <2>3. Handle(h) = Handle(g)
    BY <2>1, <2>2
  <2> QED
    BY <2>1, <2>2, <2>3, SlotKinds
<1> QED
  BY <1>4, <1>5, <1>6

LEMMA Undisturbed ==
  ASSUME IInv, NEW t \in Threads, NEW u \in Threads, u # t, Local(t), CowTypeOK'
  PROVE  Relies(u)'
<1>1. pc'[u] = pc[u] /\ dying'[u] = dying[u]
  BY DEF Local
<1>2. \A h \in Handles : owner[h] = u => owner'[h] = u /\ ptr'[Handle(h)] = ptr[Handle(h)]
  BY SlotsAre DEF Local, Touches
<1>3. ptr'[Old(u)] = ptr[Old(u)] /\ ptr'[Copy(u)] = ptr[Copy(u)]
  BY SlotsAre DEF Local, Touches
<1>4. Releasing(u) /\ Temporaries(u) /\ Replacing(u) /\ Modifying(u)
  BY DEF IInv, Relies
<1>5. pc[u] \in Calls /\ dying[u] \subseteq Slots
  BY DEF IInv, CowTypeOK
<1>6. ASSUME NEW s \in dying[u]
      PROVE  /\ ptr'[s] = ptr[s]
             /\ \A v \in Threads : s \in dying'[v] => v = u
             /\ \A h \in Handles : s = Handle(h) => owner'[h] = u
             /\ \A c \in Cells, n \in Names : s = Item(c, n) => Refs(c)' = {} \/ Exclusive(c, u)'
  <2>1. /\ ptr[s] # Nil
        /\ \A v \in Threads : s \in dying[v] => v = u
        /\ \A h \in Handles : s = Handle(h) => owner[h] = u
        /\ \A v \in Threads : s = Old(v) \/ s = Copy(v) => v = u
        /\ \A c \in Cells, n \in Names : s = Item(c, n) => Refs(c) = {} \/ Exclusive(c, u)
    BY <1>4 DEF Releasing
  <2>2. \A v \in Threads : s \in dying'[v] => v = u
    <3>1. TAKE v \in Threads
    <3>2. HAVE s \in dying'[v]
    <3>3. CASE v = t
      BY <2>1, <3>2, <3>3 DEF Local
    <3>4. CASE v # t
      BY <2>1, <3>2, <3>4 DEF Local
    <3> QED
      BY <3>3, <3>4
  <2>3. ASSUME NEW c \in Cells, NEW n \in Names, s = Item(c, n)
        PROVE  /\ ptr'[s] = ptr[s]
               /\ Refs(c)' = {} \/ Exclusive(c, u)'
    <3>1. Refs(c) = {} \/ Exclusive(c, u)
      BY <2>1, <2>3
    <3>2. ~Fresh(c)
      BY <2>1, <2>3, SlotsAre DEF Fresh, Held
    <3>3. Refs(c)' = Refs(c)
      BY <3>1, <3>2, CellKept
    <3>4. ptr'[s] = ptr[s]
      BY <2>3, <3>1, <3>2, PlacesKept
    <3>5. Exclusive(c, u) => Exclusive(c, u)'
      BY <1>2, <3>3 DEF Exclusive
    <3> QED
      BY <3>1, <3>3, <3>4, <3>5
  <2>4. ptr'[s] = ptr[s]
    <3>1. s \in Slots
      BY <1>5
    <3> QED
      BY <1>2, <1>3, <2>1, <2>3, <3>1, SlotsAre
  <2> QED
    BY <1>2, <2>1, <2>2, <2>3, <2>4
<1>7. Releasing(u)'
  BY <1>1, <1>4, <1>6 DEF Releasing
<1>8. Temporaries(u)'
  BY <1>1, <1>3, <1>4 DEF Temporaries, Puts
<1>9. Replacing(u)'
  BY <1>1, <1>2, <1>4, <1>5, CallShape DEF Replacing, Holds, Cell
<1>10. ASSUME pc[u].at \in Acting
       PROVE  /\ pc[u].handle \in Handles /\ owner[pc[u].handle] = u
              /\ Cell(pc[u].handle)' = Cell(pc[u].handle)
              /\ Cell(pc[u].handle) \in Cells
  <2>1. pc[u].handle \in Handles /\ owner[pc[u].handle] = u /\ Holds(pc[u].handle)
    BY <1>4, <1>5, <1>10, CallShape DEF Modifying
  <2>2. ptr[Handle(pc[u].handle)] \in Cells
    BY <2>1, SlotsAre DEF IInv, CowTypeOK, Holds, Cell
  <2> QED
    BY <1>1, <1>2, <2>1, <2>2 DEF Cell
<1>11. ASSUME pc[u].at \in {"write", "put"}
       PROVE  /\ Refs(Cell(pc[u].handle))' = {Handle(pc[u].handle)}
              /\ Exclusive(Cell(pc[u].handle), u)
              /\ ~Fresh(Cell(pc[u].handle))
  <2>1. PICK c \in Cells : c = Cell(pc[u].handle)
    BY <1>10, <1>11 DEF Acting
  <2>2. /\ pc[u].handle \in Handles /\ owner[pc[u].handle] = u
        /\ Cell(pc[u].handle)' = c
    BY <1>10, <1>11, <2>1 DEF Acting
  <2>3. Refs(c) = {Handle(pc[u].handle)}
    BY <1>4, <1>11, <2>1 DEF Modifying
  <2>4. Exclusive(c, u)
    BY <2>2, <2>3 DEF Exclusive
  <2>5. ~Fresh(c)
    BY <2>2, <2>3, CountZero DEF Fresh, IInv
  <2>6. Refs(c)' = Refs(c)
    BY <2>4, <2>5, CellKept
  <2>7. Refs(Cell(pc[u].handle))' = Refs(c)'
    BY <1>1, <2>2 DEF Refs
  <2> QED
    BY <2>1, <2>3, <2>4, <2>5, <2>6, <2>7
<1>12. Modifying(u)'
  <2>1. pc[u].at \in Acting =>
          /\ owner'[pc[u].handle] = u /\ Holds(pc[u].handle)'
          /\ Handle(pc[u].handle) \notin dying'[u]
    BY <1>1, <1>2, <1>4, <1>10 DEF Modifying, Holds, Cell
  <2>2. Puts(u) =>
          /\ ptr'[pc[u].item] # Nil /\ pc[u].item \notin dying'[u]
          /\ \/ pc[u].item = Copy(u)
             \/ \E g \in Handles : pc[u].item = Handle(g) /\ owner'[g] = u /\ g # pc[u].handle
    BY <1>1, <1>2, <1>3, <1>4 DEF Modifying
  <2>3. ASSUME pc[u].at = "put"
        PROVE  ptr'[Place(u)'] # Nil => Place(u)' \in dying'[u]
    <3>1. Place(u)' = Place(u)
      BY <1>1, <1>10, <2>3 DEF Place, Acting
    <3>2. pc[u].name \in Names
      BY <1>5, <2>3, CallShape DEF Acting
    <3>3. Cell(pc[u].handle) \in Cells
      BY <1>10, <2>3 DEF Acting
    <3>4. ptr[Place(u)] # Nil => Place(u) \in dying[u]
      BY <1>4, <2>3 DEF Modifying
    <3>5. ptr'[Place(u)] = ptr[Place(u)]
      BY <1>11, <2>3, <3>2, <3>3, <3>4, PlacesKept DEF Place
    <3> QED
      BY <1>1, <3>1, <3>4, <3>5
  <2>4. pc[u].at \in {"write", "put"} => Refs(Cell(pc[u].handle))' = {Handle(pc[u].handle)}
    BY <1>11
  <2> QED
    BY <1>1, <2>1, <2>2, <2>3, <2>4 DEF Modifying, Puts
<1> QED
  BY <1>7, <1>8, <1>9, <1>12 DEF Relies

\* So a step has to be looked at only for the thread that takes it.
LEMMA OneThread ==
  ASSUME IInv, NEW t \in Threads, Local(t), CowTypeOK', CountsExact',
         pc' \in [Threads -> Calls], Relies(t)'
  PROVE  IInv'
BY Undisturbed DEF IInv

-----------------------------------------------------------------------------
(* Steps that move no reference. *)

\* Between its steps a thread has no temporary but the copy it is about to store.
LEMMA Tidy ==
  ASSUME IInv, NEW t \in Threads, dying[t] = {}
  PROVE  /\ ptr[Old(t)] = Nil
         /\ ~Puts(t) => ptr[Copy(t)] = Nil
BY DEF IInv, Relies, Temporaries

\* Nobody else releases an attribute of thread t, or a place that only t reaches.
LEMMA OwnSlots ==
  ASSUME IInv, NEW t \in Threads, NEW u \in Threads, u # t
  PROVE  /\ \A h \in Handles : owner[h] = t => Handle(h) \notin dying[u]
         /\ Old(t) \notin dying[u] /\ Copy(t) \notin dying[u]
         /\ \A c \in Cells, n \in Names : Exclusive(c, t) => Item(c, n) \notin dying[u]
<1>1. Releasing(u)
  BY DEF IInv, Relies
<1>2. \A h \in Handles : owner[h] = t => Handle(h) \notin dying[u]
  BY <1>1 DEF Releasing
<1>3. Old(t) \notin dying[u] /\ Copy(t) \notin dying[u]
  BY <1>1 DEF Releasing
<1>4. ASSUME NEW c \in Cells, NEW n \in Names, Exclusive(c, t), Item(c, n) \in dying[u]
      PROVE  FALSE
  <2>1. PICK h \in Handles : Refs(c) = {Handle(h)} /\ owner[h] = t
    BY <1>4 DEF Exclusive
  <2>2. PICK g \in Handles : Refs(c) = {Handle(g)} /\ owner[g] = u
    BY <1>1, <1>4, <2>1 DEF Releasing, Exclusive
  <2>3. Handle(h) = Handle(g)
    BY <2>1, <2>2
  <2> QED
    BY <2>1, <2>2, <2>3, SlotKinds
<1> QED
  BY <1>2, <1>3, <1>4

\* The cell of an attribute to which nothing else points.
LEMMA OwnCell ==
  ASSUME IInv, NEW t \in Threads, pc[t].at \in Acting
  PROVE  /\ pc[t].handle \in Handles /\ owner[pc[t].handle] = t
         /\ Cell(pc[t].handle) \in Cells /\ ptr[Handle(pc[t].handle)] = Cell(pc[t].handle)
         /\ Handle(pc[t].handle) \in Slots /\ Handle(pc[t].handle) \notin dying[t]
         /\ pc[t].at \in {"write", "put"} => Exclusive(Cell(pc[t].handle), t)
<1>1. pc[t] \in Calls /\ Modifying(t)
  BY DEF IInv, Relies
<1>2. pc[t].handle \in Handles /\ owner[pc[t].handle] = t /\ Holds(pc[t].handle)
  BY <1>1, CallShape DEF Modifying
<1>3. Handle(pc[t].handle) \in Slots
  BY <1>2, SlotsAre
<1>4. Cell(pc[t].handle) \in Cells
  BY <1>2, <1>3 DEF IInv, CowTypeOK, Holds, Cell
<1>5. pc[t].at \in {"write", "put"} => Exclusive(Cell(pc[t].handle), t)
  BY <1>1, <1>2 DEF Modifying, Exclusive
<1> QED
  BY <1>1, <1>2, <1>3, <1>4, <1>5 DEF Modifying, Cell

LEMMA NoCallIs == NoCall \in Calls /\ NoCall.at = "idle"
BY DEF NoCall, Calls

LEMMA NothingMoved ==
  ASSUME IInv, NEW t \in Threads, ptr' = ptr, count' = count,
         value' \in [Cells -> Types], owner' \in [Handles -> Threads],
         \A h \in Handles : owner[h] # t => owner'[h] = owner[h],
         NEW k \in Calls, pc' = [pc EXCEPT ![t] = k],
         NEW D \in SUBSET Slots, dying' = [dying EXCEPT ![t] = D],
         \A u \in Threads : u # t => \A s \in D : s \notin dying[u],
         Relies(t)'
  PROVE  IInv'
<1>1. pc' \in [Threads -> Calls] /\ \A u \in Threads : u # t => pc'[u] = pc[u]
  BY DEF IInv
<1>2. /\ dying' \in [Threads -> SUBSET Slots] /\ dying'[t] = D
      /\ \A u \in Threads : u # t => dying'[u] = dying[u]
  BY DEF IInv, CowTypeOK
<1>3. CowTypeOK'
  BY <1>1, <1>2 DEF IInv, CowTypeOK
<1>4. CountsExact'
  BY DEF IInv, CountsExact, Refs
<1>5. Local(t)
  BY <1>1, <1>2 DEF Local
<1> QED
  BY <1>1, <1>3, <1>4, <1>5, OneThread

\* The start of a call that modifies attribute h.
LEMMA ModifyStarts ==
  ASSUME IInv, NEW t \in Threads, NEW h \in Handles, NEW k \in Calls, Modify(t, h, k),
         k.at = "check", k.handle = h, k.op # "put", UNCHANGED << ptr, count, value, owner, dying >>
  PROVE  IInv'
<1>1. pc[t].at = "idle" /\ dying[t] = {} /\ owner[h] = t /\ Holds(h) /\ pc' = [pc EXCEPT ![t] = k]
  BY DEF Modify, At, Uses
<1>2. pc'[t] = k /\ dying'[t] = {}
  BY <1>1 DEF IInv
<1>3. ptr[Old(t)] = Nil /\ ptr[Copy(t)] = Nil
  BY <1>1, Tidy DEF Puts, Acting
<1>4. Releasing(t)' /\ Temporaries(t)'
  BY <1>2, <1>3 DEF Releasing, Temporaries
<1>5. Replacing(t)' /\ Modifying(t)'
  BY <1>1, <1>2 DEF Replacing, Modifying, Puts, Acting, Holds, Cell
<1>6. Relies(t)'
  BY <1>4, <1>5 DEF Relies
<1>7. dying' = [dying EXCEPT ![t] = {}]
  BY <1>1 DEF IInv, CowTypeOK
<1>8. value' \in [Cells -> Types] /\ owner' \in [Handles -> Threads] /\ {} \in SUBSET Slots
  BY <1>1 DEF IInv, CowTypeOK
<1> QED
  BY <1>1, <1>6, <1>7, <1>8, NothingMoved

LEMMA SetPrimitiveKeeps ==
  ASSUME IInv, NEW t \in Threads, NEW h \in Handles, SetPrimitive(t, h)
  PROVE  IInv'
<1>1. /\ pc[t].at = "idle" /\ dying[t] = {} /\ owner[h] = t /\ ptr[Handle(h)] # Nil
      /\ dying' = [dying EXCEPT ![t] = {Handle(h)}]
      /\ UNCHANGED << ptr, count, value, owner, pc >>
  BY DEF SetPrimitive, At, Uses, Holds, Cell
<1>2. dying'[t] = {Handle(h)} /\ pc'[t].at = "idle" /\ Handle(h) \in Slots
  BY <1>1, SlotsAre DEF IInv, CowTypeOK
<1>3. ptr[Old(t)] = Nil /\ ptr[Copy(t)] = Nil
  BY <1>1, Tidy DEF Puts, Acting
<1>4. \A u \in Threads : u # t => Handle(h) \notin dying[u]
  BY <1>1, OwnSlots
<1>5. \A u \in Threads : Handle(h) \in dying'[u] => u = t
  BY <1>1, <1>4 DEF IInv, CowTypeOK
<1>6. Releasing(t)'
  BY <1>1, <1>2, <1>5, SlotKinds DEF Releasing
<1>7. Temporaries(t)' /\ Replacing(t)' /\ Modifying(t)'
  BY <1>1, <1>2, <1>3 DEF Temporaries, Replacing, Modifying, Puts, Acting
<1>8. Relies(t)'
  BY <1>6, <1>7 DEF Relies
<1> DEFINE D == {Handle(h)}
           k == pc[t]
<1>9. pc' = [pc EXCEPT ![t] = k] /\ k \in Calls
  BY <1>1 DEF IInv
<1>10. \A u \in Threads : u # t => \A s \in D : s \notin dying[u]
  BY <1>4
<1>11. D \in SUBSET Slots /\ dying' = [dying EXCEPT ![t] = D]
  BY <1>1, <1>2
<1>12. /\ value' \in [Cells -> Types] /\ owner' \in [Handles -> Threads]
       /\ \A g \in Handles : owner'[g] = owner[g]
  BY <1>1 DEF IInv, CowTypeOK
<1> HIDE DEF D, k
<1> QED
  BY <1>1, <1>8, <1>9, <1>10, <1>11, <1>12, NothingMoved

\* The start of a call that replaces what attribute h holds.
LEMMA ReplaceStarts ==
  ASSUME IInv, NEW t \in Threads, NEW h \in Handles, At(t, "idle"), Uses(t, h), NEW k \in Calls,
         k.at \in {"allocate", "addref"}, k.handle = h,
         k.at = "addref" => Uses(t, k.from) /\ k.from # h /\ Holds(k.from),
         dying' = [dying EXCEPT ![t] = Held({Handle(h)})], pc' = [pc EXCEPT ![t] = k],
         UNCHANGED << ptr, count, value, owner >>
  PROVE  IInv'
<1>1. pc[t].at = "idle" /\ dying[t] = {} /\ owner[h] = t
  BY DEF At, Uses
<1>2. dying'[t] = Held({Handle(h)}) /\ pc'[t] = k /\ Handle(h) \in Slots
  BY SlotsAre DEF IInv, CowTypeOK
<1>3. ptr[Old(t)] = Nil /\ ptr[Copy(t)] = Nil
  BY <1>1, Tidy DEF Puts, Acting
<1>4. \A u \in Threads : u # t => Handle(h) \notin dying[u]
  BY <1>1, OwnSlots
<1>5. \A u \in Threads : Handle(h) \in dying'[u] => u = t
  BY <1>1, <1>4 DEF IInv, CowTypeOK
<1>6. Releasing(t)'
  BY <1>1, <1>2, <1>5, SlotKinds DEF Releasing, Held
<1>7. Temporaries(t)' /\ Modifying(t)'
  BY <1>1, <1>2, <1>3 DEF Temporaries, Modifying, Puts, Acting
<1>8. k.at = "addref" => k.from \in Handles
  BY CallShape
<1>9. Replacing(t)'
  BY <1>1, <1>2, <1>8, SlotKinds DEF Replacing, Held, Holds, Cell, Uses
<1>10. Relies(t)'
  BY <1>6, <1>7, <1>9 DEF Relies
<1>11. \A u \in Threads : u # t => \A s \in Held({Handle(h)}) : s \notin dying[u]
  BY <1>4 DEF Held
<1>12. Held({Handle(h)}) \in SUBSET Slots
  BY <1>2 DEF Held
<1>13. value' \in [Cells -> Types] /\ owner' \in [Handles -> Threads] /\ {} \in SUBSET Slots
  BY <1>1 DEF IInv, CowTypeOK
<1> QED
  BY <1>1, <1>10, <1>11, <1>12, <1>13, NothingMoved

LEMMA SetOtherKeeps ==
  ASSUME IInv, NEW t \in Threads, NEW h \in Handles, NEW v \in Types, SetOther(t, h, v)
  PROVE  IInv'
<1> DEFINE k == [at |-> "allocate", handle |-> h, value |-> v]
<1>1. k \in Calls /\ k.at = "allocate" /\ k.handle = h
  BY DEF Calls
<1> QED
  BY <1>1, ReplaceStarts DEF SetOther

LEMMA AssignKeeps ==
  ASSUME IInv, NEW t \in Threads, NEW h \in Handles, NEW g \in Handles, Assign(t, h, g)
  PROVE  IInv'
<1> DEFINE k == [at |-> "addref", handle |-> h, from |-> g]
<1>1. k \in Calls /\ k.at = "addref" /\ k.handle = h /\ k.from = g
  BY DEF Calls
<1> QED
  BY <1>1, ReplaceStarts DEF Assign

LEMMA SendKeeps ==
  ASSUME IInv, NEW t \in Threads, NEW h \in Handles, NEW u \in Threads, Send(t, h, u)
  PROVE  IInv'
<1>1. /\ pc[t].at = "idle" /\ dying[t] = {} /\ owner[h] = t
      /\ owner' = [owner EXCEPT ![h] = u]
      /\ UNCHANGED << ptr, count, value, pc, dying >>
  BY DEF Send, At, Uses
<1>2. ptr[Old(t)] = Nil /\ ptr[Copy(t)] = Nil
  BY <1>1, Tidy DEF Puts, Acting
<1>3. Relies(t)'
  BY <1>1, <1>2 DEF Relies, Releasing, Temporaries, Replacing, Modifying, Puts, Acting
<1>4. owner' \in [Handles -> Threads] /\ \A g \in Handles : owner[g] # t => owner'[g] = owner[g]
  BY <1>1 DEF IInv, CowTypeOK
<1>5. pc' = [pc EXCEPT ![t] = pc[t]] /\ pc[t] \in Calls /\ dying' = [dying EXCEPT ![t] = {}]
  BY <1>1 DEF IInv, CowTypeOK
<1>6. value' \in [Cells -> Types] /\ owner' \in [Handles -> Threads] /\ {} \in SUBSET Slots
  BY <1>1 DEF IInv, CowTypeOK
<1> QED
  BY <1>1, <1>3, <1>4, <1>5, <1>6, NothingMoved

LEMMA ModifyCallsKeep ==
  ASSUME IInv, NEW t \in Threads, NEW h \in Handles,
         \/ \E d \in Data : SetData(t, h, d)
         \/ Clear(t, h) \/ Reserve(t, h)
         \/ \E n \in Names : DeleteProperty(t, h, n)
  PROVE  IInv'
<1>1. CASE \E d \in Data : SetData(t, h, d)
  <2>1. PICK d \in Data : SetData(t, h, d)
    BY <1>1
  <2> DEFINE k == [at |-> "check", handle |-> h, op |-> "set", data |-> d]
  <2>2. k \in Calls /\ k.at = "check" /\ k.handle = h /\ k.op # "put"
    BY DEF Calls, Acting
  <2> QED
    BY <2>1, <2>2, ModifyStarts DEF SetData
<1>2. CASE Clear(t, h)
  <2> DEFINE k == [at |-> "check", handle |-> h, op |-> "clear"]
  <2>2. k \in Calls /\ k.at = "check" /\ k.handle = h /\ k.op # "put"
    BY DEF Calls, Acting
  <2> QED
    BY <1>2, <2>2, ModifyStarts DEF Clear
<1>3. CASE Reserve(t, h)
  <2> DEFINE k == [at |-> "check", handle |-> h, op |-> "reserve"]
  <2>2. k \in Calls /\ k.at = "check" /\ k.handle = h /\ k.op # "put"
    BY DEF Calls, Acting
  <2> QED
    BY <1>3, <2>2, ModifyStarts DEF Reserve
<1>4. CASE \E n \in Names : DeleteProperty(t, h, n)
  <2>1. PICK n \in Names : DeleteProperty(t, h, n)
    BY <1>4
  <2> DEFINE k == [at |-> "check", handle |-> h, op |-> "delete", name |-> n]
  <2>2. k \in Calls /\ k.at = "check" /\ k.handle = h /\ k.op # "put"
    BY DEF Calls, Acting
  <2> QED
    BY <2>1, <2>2, ModifyStarts DEF DeleteProperty
<1> QED
  BY <1>1, <1>2, <1>3, <1>4

LEMMA PutKeeps ==
  ASSUME IInv, NEW t \in Threads, NEW h \in Handles, NEW n \in Names, NEW g \in Handles,
         Put(t, h, n, g)
  PROVE  IInv'
<1> DEFINE k == [at |-> "check", handle |-> h, op |-> "put", name |-> n, item |-> Handle(g)]
<1>1. /\ pc[t].at = "idle" /\ dying[t] = {} /\ owner[h] = t /\ ptr[Handle(h)] # Nil
      /\ owner[g] = t /\ ptr[Handle(g)] # Nil /\ g # h
      /\ pc' = [pc EXCEPT ![t] = k] /\ UNCHANGED << ptr, count, value, owner, dying >>
  BY DEF Put, Modify, At, Uses, Holds, Cell
<1>2. k \in Calls
  BY SlotsAre DEF Calls, Acting
<1>3. k.at = "check" /\ k.handle = h /\ k.op = "put" /\ k.item = Handle(g)
  OBVIOUS
<1> HIDE DEF k
<1>4. pc'[t] = k /\ dying'[t] = {}
  BY <1>1 DEF IInv
<1>5. ptr[Old(t)] = Nil /\ ptr[Copy(t)] = Nil
  BY <1>1, Tidy DEF Puts, Acting
<1>6. Releasing(t)' /\ Temporaries(t)' /\ Replacing(t)'
  BY <1>1, <1>3, <1>4, <1>5 DEF Releasing, Temporaries, Replacing
<1>7. Modifying(t)'
  BY <1>1, <1>3, <1>4 DEF Modifying, Puts, Acting, Holds, Cell
<1>8. Relies(t)'
  BY <1>6, <1>7 DEF Relies
<1>9. dying' = [dying EXCEPT ![t] = {}]
  BY <1>1 DEF IInv, CowTypeOK
<1>10. value' \in [Cells -> Types] /\ owner' \in [Handles -> Threads] /\ {} \in SUBSET Slots
  BY <1>1 DEF IInv, CowTypeOK
<1> QED
  BY <1>1, <1>2, <1>8, <1>9, <1>10, NothingMoved

LEMMA CheckKeeps ==
  ASSUME IInv, NEW t \in Threads, Check(t)
  PROVE  IInv'
<1> DEFINE c == Cell(pc[t].handle)
           b == IF IsShared(c) THEN "clone" ELSE "write"
           k == [pc[t] EXCEPT !.at = b]
<1>1. /\ pc[t].at = "check" /\ dying[t] = {} /\ pc' = [pc EXCEPT ![t] = k]
      /\ UNCHANGED << ptr, count, value, owner, dying >>
  BY DEF Check, At
<1>2. pc[t] \in Calls /\ pc[t].at \in Acting \ {"put"} /\ b \in Acting /\ b # "put"
  BY <1>1 DEF IInv, Acting
<1>3. /\ k \in Calls /\ k.at = b /\ k.handle = pc[t].handle /\ k.op = pc[t].op
      /\ k.op = "put" => k.name = pc[t].name /\ k.item = pc[t].item
  BY <1>2, CallMoves
<1>4. pc'[t] = k
  BY <1>1 DEF IInv
<1>5. /\ c \in Cells /\ ptr[Handle(pc[t].handle)] = c /\ Handle(pc[t].handle) \in Slots
      /\ pc[t].handle \in Handles /\ owner[pc[t].handle] = t
  BY <1>2, OwnCell
<1>6. Refs(c) = {Handle(pc[t].handle)} \/ b = "clone"
  <2>1. SUFFICES ASSUME b # "clone" PROVE Refs(c) = {Handle(pc[t].handle)}
    OBVIOUS
  <2>2. ~(count[c] > 1)
    BY <2>1 DEF IsShared
  <2>3. count[c] \in Nat /\ count[c] > 0 /\ count[c] = Cardinality(Refs(c))
    BY <1>5, CountZero DEF IInv, CountsExact
  <2>4. Cardinality(Refs(c)) = 1
    BY <2>2, <2>3
  <2>5. PICK s : Refs(c) = {s}
    BY <2>4, RefsFinite, FS_Singleton
  <2>6. Handle(pc[t].handle) \in Refs(c)
    BY <1>5 DEF Refs
  <2> QED
    BY <2>5, <2>6
<1>7. Relies(t)
  BY DEF IInv
<1>8. (Refs(c))' = Refs(c) /\ c' = c
  BY <1>1, <1>3, <1>4 DEF Refs, Cell
<1>9. Cell(pc[t].handle)' = Cell(pc[t].handle) /\ Refs(Cell(pc[t].handle))' = Refs(c)
  BY <1>1, <1>3, <1>4 DEF Refs, Cell
<1> HIDE DEF k, b
<1>10. Releasing(t)'
  BY <1>1 DEF Releasing
<1>11. Temporaries(t)'
  BY <1>1, <1>2, <1>3, <1>4, <1>7 DEF Relies, Temporaries, Puts, Acting, b
<1>12. Replacing(t)'
  BY <1>3, <1>4 DEF Replacing, b
<1>13. Modifying(t)'
  <2>1. /\ owner[pc[t].handle] = t /\ Holds(pc[t].handle)
        /\ Handle(pc[t].handle) \notin dying[t]
        /\ Puts(t) => /\ ptr[pc[t].item] # Nil /\ pc[t].item \notin dying[t]
                      /\ \/ pc[t].item = Copy(t)
                         \/ \E g \in Handles : /\ pc[t].item = Handle(g)
                                               /\ owner[g] = t /\ g # pc[t].handle
    BY <1>2, <1>7 DEF Relies, Modifying
  <2>2. b \in {"clone", "write"}
    BY DEF b
  <2>3. Puts(t)' => Puts(t)
    BY <1>2, <1>3, <1>4 DEF Puts
  <2>4. pc'[t].at = "write" => Refs(Cell(pc[t].handle))' = {Handle(pc[t].handle)}
    BY <1>3, <1>4, <1>6, <1>9, <2>2
  <2>5. pc'[t].handle = pc[t].handle /\ (Puts(t)' => pc'[t].item = pc[t].item)
    BY <1>3, <1>4 DEF Puts
  <2>6. pc'[t].at \in Acting =>
          /\ owner'[pc'[t].handle] = t /\ Holds(pc[t].handle)'
          /\ Handle(pc'[t].handle) \notin dying'[t]
    BY <1>1, <2>1, <2>5 DEF Holds, Cell
  <2>7. Puts(t)' =>
          /\ ptr'[pc'[t].item] # Nil /\ pc'[t].item \notin dying'[t]
          /\ \/ pc'[t].item = Copy(t)
             \/ \E g \in Handles : pc'[t].item = Handle(g) /\ owner'[g] = t /\ g # pc'[t].handle
    BY <1>1, <2>1, <2>3, <2>5
  <2>8. pc'[t].at # "put"
    BY <1>3, <1>4, <2>2
  <2>9. pc'[t].at \in {"write", "put"} => Refs(Cell(pc[t].handle))' = {Handle(pc'[t].handle)}
    BY <2>4, <2>5, <2>8
  <2> QED
    BY <2>6, <2>7, <2>8, <2>9 DEF Modifying
<1>14. Relies(t)'
  BY <1>10, <1>11, <1>12, <1>13 DEF Relies
<1>15. /\ dying' = [dying EXCEPT ![t] = {}] /\ {} \in SUBSET Slots
       /\ value' \in [Cells -> Types] /\ owner' \in [Handles -> Threads]
  BY <1>1 DEF IInv, CowTypeOK
<1> QED
  BY <1>1, <1>3, <1>14, <1>15, NothingMoved

\* The change itself, of a cell that nobody else reaches.
LEMMA WriteEnds ==
  ASSUME IInv, NEW t \in Threads, At(t, "write"), ~Puts(t), NEW D \in SUBSET Slots,
         D \subseteq Held(ItemsOf(Cell(pc[t].handle))),
         dying' = [dying EXCEPT ![t] = D], pc' = [pc EXCEPT ![t] = NoCall],
         value' \in [Cells -> Types], UNCHANGED << ptr, count, owner >>
  PROVE  IInv'
<1>1. pc[t].at = "write" /\ dying[t] = {} /\ pc[t].at \in Acting
  BY DEF At, Acting
<1>2. PICK c \in Cells : c = Cell(pc[t].handle) /\ Exclusive(c, t)
  BY <1>1, OwnCell
<1>3. pc'[t] = NoCall /\ dying'[t] = D
  BY DEF IInv, CowTypeOK
<1>4. ASSUME NEW s \in D
      PROVE  /\ ptr'[s] # Nil
             /\ \A u \in Threads : s \in dying'[u] => u = t
             /\ \A u \in Threads : u # t => s \notin dying[u]
             /\ \A h \in Handles : s # Handle(h)
             /\ \A u \in Threads : s # Old(u) /\ s # Copy(u)
             /\ \A d \in Cells, n \in Names : s = Item(d, n) => Exclusive(d, t)'
  <2>1. PICK n \in Names : s = Item(c, n)
    BY <1>2, SlotsAre DEF Held
  <2>2. \A u \in Threads : u # t => s \notin dying[u]
    BY <1>2, <2>1, OwnSlots
  <2>3. \A u \in Threads : s \in dying'[u] => u = t
    BY <2>2 DEF IInv, CowTypeOK
  <2>4. Exclusive(c, t)'
    BY <1>2 DEF Exclusive, Refs
  <2> QED
    BY <2>1, <2>2, <2>3, <2>4, SlotKinds DEF Held
<1>5. ptr[Old(t)] = Nil /\ ptr[Copy(t)] = Nil
  BY <1>1, Tidy
<1>6. Releasing(t)'
  BY <1>3, <1>4 DEF Releasing
<1>7. Temporaries(t)' /\ Replacing(t)' /\ Modifying(t)'
  BY <1>3, <1>5, NoCallIs DEF Temporaries, Replacing, Modifying, Puts, Acting
<1>8. Relies(t)'
  BY <1>6, <1>7 DEF Relies
<1>9. owner' \in [Handles -> Threads]
  BY DEF IInv, CowTypeOK
<1> QED
  BY <1>4, <1>8, <1>9, NoCallIs, NothingMoved

LEMMA WriteDataKeeps ==
  ASSUME IInv, NEW t \in Threads, WriteData(t)
  PROVE  IInv'
<1>1. pc[t].at = "write" /\ dying[t] = {} /\ pc[t].op = "set" /\ pc[t] \in Calls
  BY DEF WriteData, At, IInv
<1>2. pc[t].data \in Types
  BY <1>1, CallShape DEF Acting, Types
<1>3. value' \in [Cells -> Types]
  BY <1>2 DEF WriteData, IInv, CowTypeOK
<1>4. dying' = [dying EXCEPT ![t] = {}] /\ {} \in SUBSET Slots
  BY <1>1 DEF WriteData, IInv, CowTypeOK
<1>5. ~Puts(t) /\ {} \subseteq Held(ItemsOf(Cell(pc[t].handle)))
  BY <1>1 DEF Puts
<1> QED
  BY <1>3, <1>4, <1>5, WriteEnds DEF WriteData

LEMMA WriteClearKeeps ==
  ASSUME IInv, NEW t \in Threads, WriteClear(t)
  PROVE  IInv'
<1> DEFINE D == IF pc[t].op = "clear" THEN Held(ItemsOf(Cell(pc[t].handle))) ELSE {}
<1>1. pc[t].at = "write" /\ dying[t] = {} /\ pc[t].op \in {"clear", "reserve"}
  BY DEF WriteClear, At
<1>2. Cell(pc[t].handle) \in Cells
  BY <1>1, OwnCell DEF Acting
<1>3. D \in SUBSET Slots /\ D \subseteq Held(ItemsOf(Cell(pc[t].handle)))
  BY <1>2, SlotsAre DEF Held
<1>4. value' \in [Cells -> Types] /\ ~Puts(t)
  BY <1>1 DEF WriteClear, IInv, CowTypeOK, Puts
<1> QED
  BY <1>3, <1>4, WriteEnds DEF WriteClear

LEMMA WriteDeleteKeeps ==
  ASSUME IInv, NEW t \in Threads, WriteDelete(t)
  PROVE  IInv'
<1>1. pc[t].at = "write" /\ dying[t] = {} /\ pc[t].op = "delete" /\ pc[t] \in Calls
  BY DEF WriteDelete, At, IInv
<1>2. Cell(pc[t].handle) \in Cells /\ pc[t].name \in Names
  BY <1>1, OwnCell, CallShape DEF Acting
<1>3. Place(t) \in ItemsOf(Cell(pc[t].handle)) /\ Place(t) \in Slots
  BY <1>2, SlotsAre DEF Place
<1>4. /\ Held({Place(t)}) \in SUBSET Slots
      /\ Held({Place(t)}) \subseteq Held(ItemsOf(Cell(pc[t].handle)))
  BY <1>3 DEF Held
<1>5. value' \in [Cells -> Types] /\ ~Puts(t)
  BY <1>1 DEF WriteDelete, IInv, CowTypeOK, Puts
<1> QED
  BY <1>4, <1>5, WriteEnds DEF WriteDelete

LEMMA WriteOverKeeps ==
  ASSUME IInv, NEW t \in Threads, WriteOver(t)
  PROVE  IInv'
<1> DEFINE k == [pc[t] EXCEPT !.at = "put"]
           D == Held({Place(t)})
<1>1. /\ pc[t].at = "write" /\ dying[t] = {} /\ pc[t].op = "put" /\ pc[t] \in Calls
      /\ dying' = [dying EXCEPT ![t] = D] /\ pc' = [pc EXCEPT ![t] = k]
      /\ UNCHANGED << ptr, count, value, owner >>
  BY DEF WriteOver, At, IInv
<1>2. pc[t].at \in Acting \ {"put"} /\ "put" \in Acting
  BY <1>1 DEF Acting
<1>3. /\ k \in Calls /\ k.at = "put" /\ k.handle = pc[t].handle /\ k.op = "put"
      /\ k.name = pc[t].name /\ k.item = pc[t].item
  BY <1>1, <1>2, CallMoves
<1>4. pc'[t] = k /\ dying'[t] = D
  BY <1>1 DEF IInv, CowTypeOK
<1>5. PICK c \in Cells, n \in Names : /\ c = Cell(pc[t].handle) /\ Exclusive(c, t)
                                      /\ n = pc[t].name
  BY <1>1, <1>2, OwnCell, CallShape
<1>6. Place(t) = Item(c, n) /\ Item(c, n) \in Slots
  BY <1>5, SlotsAre DEF Place
<1>7. Place(t)' = Place(t)
  BY <1>1, <1>3, <1>4 DEF Place, Cell
<1>8. \A u \in Threads : u # t => Place(t) \notin dying[u]
  BY <1>5, <1>6, OwnSlots
<1>9. \A u \in Threads : Place(t) \in dying'[u] => u = t
  BY <1>1, <1>8 DEF IInv, CowTypeOK
<1>10. Exclusive(c, t)'
  BY <1>1, <1>5 DEF Exclusive, Refs
<1>11. Relies(t)
  BY DEF IInv
<1>12. D \in SUBSET Slots /\ (\A s \in D : s = Item(c, n)) /\ (ptr[Place(t)] # Nil => Place(t) \in D)
  BY <1>6 DEF Held
<1>13. \A s \in D : ptr[s] # Nil
  BY DEF Held
<1> HIDE DEF k, D
<1>14. Releasing(t)'
  BY <1>1, <1>4, <1>6, <1>9, <1>10, <1>12, <1>13, SlotKinds DEF Releasing
<1>15. Temporaries(t)'
  <2>1. ptr[Old(t)] = Nil
    BY <1>1, Tidy
  <2>2. ptr[Copy(t)] # Nil => pc[t].item = Copy(t)
    BY <1>1, <1>11 DEF Relies, Temporaries
  <2> QED
    BY <1>1, <1>3, <1>4, <2>1, <2>2 DEF Temporaries, Puts, Acting
<1>16. Replacing(t)'
  BY <1>3, <1>4 DEF Replacing
<1>17. Modifying(t)'
  <2>1. /\ owner[pc[t].handle] = t /\ Holds(pc[t].handle)
        /\ ptr[pc[t].item] # Nil
        /\ \/ pc[t].item = Copy(t)
           \/ \E g \in Handles : pc[t].item = Handle(g) /\ owner[g] = t /\ g # pc[t].handle
        /\ Refs(Cell(pc[t].handle)) = {Handle(pc[t].handle)}
    BY <1>1, <1>2, <1>11 DEF Relies, Modifying, Puts
  <2>2. Handle(pc[t].handle) \notin D /\ pc[t].item \notin D
    BY <1>12, <2>1, SlotKinds
  <2>3. Refs(Cell(pc[t].handle))' = Refs(Cell(pc[t].handle)) /\ Holds(pc[t].handle)'
    BY <1>1, <1>3, <1>4, <2>1 DEF Refs, Cell, Holds
  <2>4. ptr'[Place(t)'] # Nil => Place(t)' \in dying'[t]
    BY <1>1, <1>4, <1>7, <1>12
  <2> QED
    BY <1>1, <1>3, <1>4, <2>1, <2>2, <2>3, <2>4 DEF Modifying
<1>18. Relies(t)'
  BY <1>14, <1>15, <1>16, <1>17 DEF Relies
<1>19. value' \in [Cells -> Types] /\ owner' \in [Handles -> Threads]
  BY <1>1 DEF IInv, CowTypeOK
<1>20. \A u \in Threads : u # t => \A s \in D : s \notin dying[u]
  BY <1>6, <1>8, <1>12
<1> QED
  BY <1>1, <1>3, <1>12, <1>18, <1>19, <1>20, NothingMoved

-----------------------------------------------------------------------------
(* Steps that add a reference. *)

LEMMA OneGained ==
  ASSUME IInv, NEW t \in Threads, NEW s \in Slots, NEW c \in Cells, ptr[s] = Nil,
         ptr' = [ptr EXCEPT ![s] = c], count' = [count EXCEPT ![c] = @ + 1],
         Touches(s, t), Reaches(c, t),
         value' \in [Cells -> Types], owner' = owner,
         NEW k \in Calls, pc' = [pc EXCEPT ![t] = k],
         NEW D \in SUBSET Slots, dying' = [dying EXCEPT ![t] = D],
         \A u \in Threads : u # t => \A r \in D : r \notin dying[u],
         Relies(t)'
  PROVE  IInv'
<1>1. pc' \in [Threads -> Calls] /\ \A u \in Threads : u # t => pc'[u] = pc[u]
  BY DEF IInv
<1>2. /\ dying' \in [Threads -> SUBSET Slots] /\ dying'[t] = D
      /\ \A u \in Threads : u # t => dying'[u] = dying[u]
  BY DEF IInv, CowTypeOK
<1>3. CowTypeOK /\ CountsExact
  BY DEF IInv
<1>4. ptr' \in [Slots -> Cells \union {Nil}] /\ count' \in [Cells -> Nat] /\ CountsExact'
  BY <1>3, OneMoreRef
<1>5. CowTypeOK'
  BY <1>1, <1>2, <1>3, <1>4 DEF CowTypeOK
<1>6. \A r \in Slots : ptr'[r] # ptr[r] => r = s /\ ptr'[r] = c
  BY DEF IInv, CowTypeOK
<1>7. Local(t)
  BY <1>1, <1>2, <1>6 DEF Local
<1> QED
  BY <1>1, <1>4, <1>5, <1>7, OneThread

\* An attribute that thread t uses, and its own temporaries, are its own to change.
LEMMA OwnTouched ==
  ASSUME NEW t \in Threads
  PROVE  /\ \A h \in Handles : owner[h] = t => Touches(Handle(h), t)
         /\ Touches(Old(t), t) /\ Touches(Copy(t), t)
         /\ \A c \in Cells, n \in Names :
              Item(c, n) \in dying[t] \/ Fresh(c) \/ Exclusive(c, t) => Touches(Item(c, n), t)
<1>1. \A h \in Handles : owner[h] = t => Touches(Handle(h), t)
  BY SlotKinds DEF Touches
<1>2. Touches(Old(t), t) /\ Touches(Copy(t), t)
  BY SlotKinds DEF Touches
<1>3. ASSUME NEW c \in Cells, NEW n \in Names,
             Item(c, n) \in dying[t] \/ Fresh(c) \/ Exclusive(c, t)
      PROVE  Touches(Item(c, n), t)
  <2>1. \A d, m : Item(c, n) = Item(d, m) => d = c
    BY SlotKinds
  <2> QED
    BY <1>3, <2>1, SlotKinds DEF Touches
<1> QED
  BY <1>1, <1>2, <1>3

\* The end of a call that leaves nothing to release.
LEMMA CallEnds ==
  ASSUME NEW t \in Threads, pc'[t] = NoCall, dying'[t] = {},
         ptr'[Old(t)] = Nil, ptr'[Copy(t)] = Nil
  PROVE  Relies(t)'
<1>1. pc'[t].at = "idle"
  BY NoCallIs
<1> QED
  BY <1>1 DEF Relies, Releasing, Temporaries, Replacing, Modifying, Puts, Acting

LEMMA AllocateKeeps ==
  ASSUME IInv, NEW t \in Threads, Allocate(t)
  PROVE  IInv'
<1>1. PICK c \in Cells :
        /\ Fresh(c) /\ count' = [count EXCEPT ![c] = 1]
        /\ value' = [value EXCEPT ![c] = pc[t].value]
        /\ ptr' = [ptr EXCEPT ![Handle(pc[t].handle)] = c]
  BY DEF Allocate
<1>2. /\ pc[t].at = "allocate" /\ dying[t] = {} /\ pc' = [pc EXCEPT ![t] = NoCall]
      /\ owner' = owner /\ dying' = dying
  BY DEF Allocate, At
<1>3. PICK h \in Handles : h = pc[t].handle
  BY <1>2, CallShape DEF IInv
<1>4. pc[t].value \in Types
  BY <1>2, CallShape DEF IInv
<1>5. owner[h] = t /\ ptr[Handle(h)] = Nil
  BY <1>2, <1>3 DEF IInv, Relies, Replacing, Holds, Cell
<1>6. Handle(h) \in Slots
  BY SlotsAre
<1>7. count' = [count EXCEPT ![c] = @ + 1]
  BY <1>1 DEF Fresh, IInv, CowTypeOK
<1>8. ptr' = [ptr EXCEPT ![Handle(h)] = c]
  BY <1>1, <1>3
<1>9. pc'[t] = NoCall /\ dying'[t] = {}
  BY <1>2 DEF IInv
<1>10. ptr[Old(t)] = Nil /\ ptr[Copy(t)] = Nil
  BY <1>2, Tidy DEF Puts, Acting
<1>11. ptr'[Old(t)] = Nil /\ ptr'[Copy(t)] = Nil
  BY <1>8, <1>10, SlotKinds DEF IInv, CowTypeOK
<1>12. Relies(t)'
  BY <1>9, <1>11, CallEnds
<1>13. Touches(Handle(h), t) /\ Reaches(c, t)
  BY <1>1, <1>5, OwnTouched DEF Reaches
<1>14. value' \in [Cells -> Types] /\ dying' = [dying EXCEPT ![t] = {}] /\ {} \in SUBSET Slots
  BY <1>1, <1>2, <1>4 DEF IInv, CowTypeOK
<1> QED
  BY <1>2, <1>5, <1>6, <1>7, <1>8, <1>12, <1>13, <1>14, NoCallIs, OneGained

LEMMA AddRefKeeps ==
  ASSUME IInv, NEW t \in Threads, AddRef(t)
  PROVE  IInv'
<1>1. /\ pc[t].at = "addref" /\ dying[t] = {} /\ pc' = [pc EXCEPT ![t] = NoCall]
      /\ count' = [count EXCEPT ![Cell(pc[t].from)] = @ + 1]
      /\ ptr' = [ptr EXCEPT ![Handle(pc[t].handle)] = Cell(pc[t].from)]
      /\ UNCHANGED << value, owner, dying >>
  BY DEF AddRef, At
<1>2. PICK h \in Handles, g \in Handles : h = pc[t].handle /\ g = pc[t].from
  BY <1>1, CallShape DEF IInv
<1>3. owner[h] = t /\ ptr[Handle(h)] = Nil /\ owner[g] = t /\ ptr[Handle(g)] # Nil
  BY <1>1, <1>2 DEF IInv, Relies, Replacing, Holds, Cell
<1>4. Handle(h) \in Slots /\ Handle(g) \in Slots
  BY SlotsAre
<1>5. PICK c \in Cells : c = Cell(pc[t].from)
  BY <1>2, <1>3, <1>4 DEF IInv, CowTypeOK, Cell
<1>6. ptr' = [ptr EXCEPT ![Handle(h)] = c] /\ count' = [count EXCEPT ![c] = @ + 1]
  BY <1>1, <1>2, <1>5
<1>7. pc'[t] = NoCall /\ dying'[t] = {}
  BY <1>1 DEF IInv
<1>8. ptr[Old(t)] = Nil /\ ptr[Copy(t)] = Nil
  BY <1>1, Tidy DEF Puts, Acting
<1>9. ptr'[Old(t)] = Nil /\ ptr'[Copy(t)] = Nil
  BY <1>6, <1>8, SlotKinds DEF IInv, CowTypeOK
<1>10. Relies(t)'
  BY <1>7, <1>9, CallEnds
<1>11. Touches(Handle(h), t)
  BY <1>3, OwnTouched
<1>12. ptr[Handle(g)] = c /\ \A f \in Handles : Handle(g) = Handle(f) => owner[f] = t
  BY <1>2, <1>3, <1>5, SlotKinds DEF Cell
<1>13. Reaches(c, t)
  BY <1>4, <1>12 DEF Reaches
<1>14. value' \in [Cells -> Types] /\ dying' = [dying EXCEPT ![t] = {}] /\ {} \in SUBSET Slots
  BY <1>1 DEF IInv, CowTypeOK
<1> QED
  BY <1>1, <1>3, <1>4, <1>6, <1>10, <1>11, <1>13, <1>14, NoCallIs, OneGained

LEMMA PutCopyKeeps ==
  ASSUME IInv, NEW t \in Threads, NEW h \in Handles, NEW n \in Names, NEW g \in Handles,
         PutCopy(t, h, n, g)
  PROVE  IInv'
<1> DEFINE k == [at |-> "check", handle |-> h, op |-> "put", name |-> n, item |-> Copy(t)]
<1>1. /\ pc[t].at = "idle" /\ dying[t] = {} /\ owner[h] = t /\ ptr[Handle(h)] # Nil
      /\ owner[g] = t /\ ptr[Handle(g)] # Nil /\ pc' = [pc EXCEPT ![t] = k]
      /\ count' = [count EXCEPT ![Cell(g)] = @ + 1] /\ ptr' = [ptr EXCEPT ![Copy(t)] = Cell(g)]
      /\ UNCHANGED << value, owner, dying >>
  BY DEF PutCopy, Modify, At, Uses, Holds, Cell
<1>2. k \in Calls
  BY SlotsAre DEF Calls, Acting
<1>3. k.at = "check" /\ k.handle = h /\ k.op = "put" /\ k.item = Copy(t)
  OBVIOUS
<1> HIDE DEF k
<1>4. Handle(g) \in Slots /\ Copy(t) \in Slots /\ Handle(h) \in Slots /\ Old(t) \in Slots
  BY SlotsAre
<1>5. PICK c \in Cells : c = Cell(g) /\ ptr[Handle(g)] = c
  BY <1>1, <1>4 DEF IInv, CowTypeOK, Cell
<1>6. pc'[t] = k /\ dying'[t] = {}
  BY <1>1 DEF IInv
<1>7. ptr[Old(t)] = Nil /\ ptr[Copy(t)] = Nil
  BY <1>1, Tidy DEF Puts, Acting
<1>8. ptr' = [ptr EXCEPT ![Copy(t)] = c] /\ count' = [count EXCEPT ![c] = @ + 1]
  BY <1>1, <1>5
<1>9. ptr'[Old(t)] = Nil /\ ptr'[Copy(t)] = c /\ ptr'[Handle(h)] # Nil
  BY <1>1, <1>4, <1>7, <1>8, SlotKinds DEF IInv, CowTypeOK
<1>10. Puts(t)' /\ pc'[t].item = Copy(t)
  BY <1>3, <1>6 DEF Puts, Acting
<1>11. Releasing(t)' /\ Temporaries(t)' /\ Replacing(t)'
  BY <1>3, <1>6, <1>9, <1>10 DEF Releasing, Temporaries, Replacing
<1>12. Modifying(t)'
  BY <1>1, <1>3, <1>6, <1>9, NilAssumption DEF Modifying, Puts, Acting, Holds, Cell
<1>13. Relies(t)'
  BY <1>11, <1>12 DEF Relies
<1>14. Touches(Copy(t), t)
  BY OwnTouched
<1>15. \A f \in Handles : Handle(g) = Handle(f) => owner[f] = t
  BY <1>1, SlotKinds
<1>16. Reaches(c, t)
  BY <1>4, <1>5, <1>15 DEF Reaches
<1>17. value' \in [Cells -> Types] /\ dying' = [dying EXCEPT ![t] = {}] /\ {} \in SUBSET Slots
  BY <1>1 DEF IInv, CowTypeOK
<1> QED
  BY <1>1, <1>2, <1>4, <1>7, <1>8, <1>13, <1>14, <1>16, <1>17, OneGained

LEMMA WriteItemKeeps ==
  ASSUME IInv, NEW t \in Threads, WriteItem(t)
  PROVE  IInv'
<1> DEFINE D == Held({Copy(t)})
<1>1. /\ pc[t].at = "put" /\ dying[t] = {} /\ pc' = [pc EXCEPT ![t] = NoCall]
      /\ count' = [count EXCEPT ![ptr[pc[t].item]] = @ + 1]
      /\ ptr' = [ptr EXCEPT ![Place(t)] = ptr[pc[t].item]]
      /\ dying' = [dying EXCEPT ![t] = D]
      /\ UNCHANGED << value, owner >>
  BY DEF WriteItem, At
<1>2. /\ pc[t].op = "put" /\ pc[t].name \in Names /\ pc[t].item \in Slots
      /\ pc[t].at \in Acting
  BY <1>1, CallShape DEF IInv, Acting
<1>3. /\ ptr[pc[t].item] # Nil /\ ptr[Place(t)] = Nil
      /\ \/ pc[t].item = Copy(t)
         \/ \E g \in Handles : pc[t].item = Handle(g) /\ owner[g] = t
  BY <1>1, <1>2 DEF IInv, Relies, Modifying, Puts
<1>4. PICK c \in Cells : c = ptr[pc[t].item]
  BY <1>2, <1>3 DEF IInv, CowTypeOK
<1>5. PICK b \in Cells, n \in Names : b = Cell(pc[t].handle) /\ n = pc[t].name /\ Exclusive(b, t)
  BY <1>1, <1>2, OwnCell
<1>6. Place(t) = Item(b, n) /\ Item(b, n) \in Slots /\ Copy(t) \in Slots /\ Old(t) \in Slots
  BY <1>5, SlotsAre DEF Place
<1>7. ptr' = [ptr EXCEPT ![Item(b, n)] = c] /\ count' = [count EXCEPT ![c] = @ + 1]
  BY <1>1, <1>4, <1>6
<1>8. ptr[Old(t)] = Nil
  BY <1>1, Tidy
<1>9. ptr'[Old(t)] = Nil /\ ptr'[Copy(t)] = ptr[Copy(t)]
  BY <1>6, <1>7, <1>8, SlotKinds DEF IInv, CowTypeOK
<1>10. pc'[t] = NoCall /\ dying'[t] = D /\ pc'[t].at = "idle"
  BY <1>1, NoCallIs DEF IInv, CowTypeOK
<1>11. D \in SUBSET Slots /\ \A s \in D : s = Copy(t) /\ ptr[s] # Nil
  BY <1>6 DEF Held
<1>12. \A u \in Threads : u # t => Copy(t) \notin dying[u]
  BY OwnSlots
<1>13. ptr[Copy(t)] # Nil => Copy(t) \in D
  BY DEF Held
<1> HIDE DEF D
<1>14. \A u \in Threads : \A s \in D : s \in dying'[u] => u = t
  BY <1>1, <1>11, <1>12 DEF IInv, CowTypeOK
<1>15. Releasing(t)'
  BY <1>9, <1>10, <1>11, <1>14, SlotKinds DEF Releasing
<1>16. Temporaries(t)' /\ Replacing(t)' /\ Modifying(t)'
  BY <1>9, <1>10, <1>13 DEF Temporaries, Replacing, Modifying, Puts, Acting
<1>17. Relies(t)'
  BY <1>15, <1>16 DEF Relies
<1>18. Touches(Item(b, n), t)
  BY <1>5, OwnTouched
<1>19. \A f \in Handles : pc[t].item = Handle(f) => owner[f] = t
  BY <1>3, SlotKinds
<1>20. Reaches(c, t)
  BY <1>2, <1>4, <1>19 DEF Reaches
<1>21. value' \in [Cells -> Types] /\ \A u \in Threads : u # t => \A s \in D : s \notin dying[u]
  BY <1>1, <1>11, <1>12 DEF IInv, CowTypeOK
<1>22. ptr[Item(b, n)] = Nil /\ owner' = owner
  BY <1>1, <1>3, <1>6
<1>23. pc' = [pc EXCEPT ![t] = NoCall] /\ dying' = [dying EXCEPT ![t] = D] /\ D \in SUBSET Slots
  BY <1>1, <1>11
<1> QED
  BY <1>6, <1>7, <1>17, <1>18, <1>20, <1>21, <1>22, <1>23, NoCallIs, OneGained

-----------------------------------------------------------------------------
(* A reference is released, and with the last one the cell. *)

LEMMA ReleaseKeeps ==
  ASSUME IInv, NEW t \in Threads, Release(t)
  PROVE  IInv'
<1>1. PICK s \in dying[t] : Released(t, s) /\ UNCHANGED << value, owner, pc >>
  BY DEF Release
<1>2. CowTypeOK /\ CountsExact /\ pc[t] \in Calls
  BY DEF IInv
<1>3. Releasing(t) /\ Temporaries(t) /\ Replacing(t) /\ Modifying(t)
  BY DEF IInv, Relies
<1>4. s \in Slots /\ ptr[s] # Nil
  BY <1>2, <1>3 DEF CowTypeOK, Releasing
<1>5. PICK c \in Cells : ptr[s] = c
  BY <1>2, <1>4 DEF CowTypeOK
<1> DEFINE N == IF count[c] = 1 THEN Held(ItemsOf(c)) ELSE {}
           D == (dying[t] \ {s}) \union N
<1>6. /\ ptr' = [ptr EXCEPT ![s] = Nil] /\ count' = [count EXCEPT ![c] = @ - 1]
      /\ dying' = [dying EXCEPT ![t] = D]
  BY <1>1, <1>5 DEF Released
<1>7. /\ ptr' \in [Slots -> Cells \union {Nil}] /\ count' \in [Cells -> Nat] /\ CountsExact'
      /\ Refs(c)' = Refs(c) \ {s}
      /\ \A d \in Cells : d # c => Refs(d)' = Refs(d)
  BY <1>2, <1>4, <1>5, <1>6, OneLessRef
<1>8. s \in Refs(c)
  BY <1>4, <1>5 DEF Refs
\* What is in the cell of the last reference is nobody's yet.
<1>9. ASSUME NEW r \in N
      PROVE  /\ r \in Slots /\ ptr[r] # Nil /\ r # s
             /\ \A u \in Threads : u # t => r \notin dying[u]
             /\ \E n \in Names : r = Item(c, n)
             /\ Refs(c)' = {}
  <2>1. count[c] = 1 /\ r \in ItemsOf(c) /\ ptr[r] # Nil
    BY <1>9 DEF Held
  <2>2. PICK n \in Names : r = Item(c, n)
    BY <2>1, SlotsAre
  <2>3. Cardinality(Refs(c)) = 1
    BY <1>2, <2>1 DEF CountsExact
  <2>4. Refs(c) = {s}
    <3>1. PICK x : Refs(c) = {x}
      BY <2>3, RefsFinite, FS_Singleton
    <3> QED
      BY <1>8, <3>1
  <2>5. r # s
    <3>1. SUFFICES ASSUME s = Item(c, n) PROVE FALSE
      BY <2>2
    <3>2. Exclusive(c, t)
      BY <1>3, <2>4, <3>1 DEF Releasing
    <3> QED
      BY <2>4, <3>1, <3>2, SlotKinds DEF Exclusive
  <2>6. ASSUME NEW u \in Threads, u # t, r \in dying[u]
        PROVE  FALSE
    <3>1. Exclusive(c, u)
      BY <2>2, <2>4, <2>6 DEF IInv, Relies, Releasing
    <3>2. PICK h \in Handles : s = Handle(h) /\ owner[h] = u
      BY <2>4, <3>1 DEF Exclusive
    <3> QED
      BY <1>3, <2>6, <3>2 DEF Releasing
  <2>7. Refs(c)' = {}
    BY <1>7, <2>4
  <2> QED
    BY <2>1, <2>2, <2>5, <2>6, <2>7, SlotsAre
<1>10. D \in SUBSET Slots
  BY <1>2, <1>9 DEF CowTypeOK
<1>11. /\ dying'[t] = D /\ \A u \in Threads : u # t => dying'[u] = dying[u]
       /\ dying' \in [Threads -> SUBSET Slots]
  BY <1>2, <1>6, <1>10 DEF CowTypeOK
<1>12. \A r \in Slots : r # s => ptr'[r] = ptr[r]
  BY <1>2, <1>6 DEF CowTypeOK
<1>13. ptr'[s] = Nil
  BY <1>2, <1>4, <1>6 DEF CowTypeOK
<1>14. \A r \in D : (r \in dying[t] /\ r # s) \/ r \in N
  OBVIOUS
<1>15. \A r \in dying[t] : r # s => r \in D
  OBVIOUS
<1> HIDE DEF N, D
<1>16. CowTypeOK' /\ pc' \in [Threads -> Calls]
  BY <1>1, <1>2, <1>7, <1>11 DEF IInv, CowTypeOK
<1>17. Local(t)
  <2>1. Touches(s, t)
    BY <1>3 DEF Releasing, Touches
  <2>2. \A r \in Slots : ptr'[r] # ptr[r] => Touches(r, t) /\ Reaches(ptr'[r], t)
    BY <1>12, <1>13, <2>1 DEF Reaches
  <2>3. \A r \in dying'[t] : r \in dying[t] \/ \A u \in Threads : u # t => r \notin dying[u]
    BY <1>9, <1>11, <1>14
  <2> QED
    BY <1>1, <1>11, <2>2, <2>3 DEF Local
<1>18. ASSUME NEW r \in D
       PROVE  /\ ptr'[r] # Nil
              /\ \A u \in Threads : r \in dying'[u] => u = t
              /\ \A h \in Handles : r = Handle(h) => owner'[h] = t
              /\ \A u \in Threads : r = Old(u) \/ r = Copy(u) => u = t
              /\ \A d \in Cells, n \in Names : r = Item(d, n) => Refs(d)' = {} \/ Exclusive(d, t)'
  <2>1. CASE r \in dying[t] /\ r # s
    <3>1. /\ ptr[r] # Nil
          /\ \A u \in Threads : r \in dying[u] => u = t
          /\ \A h \in Handles : r = Handle(h) => owner[h] = t
          /\ \A u \in Threads : r = Old(u) \/ r = Copy(u) => u = t
          /\ \A d \in Cells, n \in Names : r = Item(d, n) => Refs(d) = {} \/ Exclusive(d, t)
      BY <1>3, <2>1 DEF Releasing
    <3>2. r \in Slots
      BY <1>2, <2>1 DEF CowTypeOK
    <3>3. \A u \in Threads : r \in dying'[u] => u = t
      BY <1>11, <3>1
    <3>4. ASSUME NEW d \in Cells, Refs(d) = {} \/ Exclusive(d, t)
          PROVE  Refs(d)' = {} \/ Exclusive(d, t)'
      <4>1. CASE Refs(d) = {}
        BY <1>7, <1>8, <4>1
      <4>2. CASE Exclusive(d, t)
        <5>1. PICK h \in Handles : Refs(d) = {Handle(h)} /\ owner[h] = t
          BY <4>2 DEF Exclusive
        <5>2. Refs(d)' = {} \/ Refs(d)' = {Handle(h)}
          BY <1>7, <5>1
        <5> QED
          BY <1>1, <5>1, <5>2 DEF Exclusive
      <4> QED
        BY <3>4, <4>1, <4>2
    <3> QED
      BY <1>1, <1>12, <2>1, <3>1, <3>2, <3>3, <3>4
  <2>2. CASE r \in N
    <3>1. PICK n \in Names : r = Item(c, n)
      BY <1>9, <2>2
    <3>2. r \in Slots /\ ptr[r] # Nil /\ r # s /\ Refs(c)' = {}
      BY <1>9, <2>2
    <3>3. \A u \in Threads : r \in dying'[u] => u = t
      BY <1>9, <1>11, <2>2
    <3> QED
      BY <1>12, <3>1, <3>2, <3>3, SlotKinds
  <2> QED
    BY <1>14, <2>1, <2>2
<1>19. Releasing(t)'
  BY <1>11, <1>18 DEF Releasing
<1>20. Old(t) \in Slots /\ Copy(t) \in Slots /\ \A h \in Handles : Handle(h) \in Slots
  BY SlotsAre
<1>21. Temporaries(t)'
  BY <1>1, <1>3, <1>11, <1>12, <1>13, <1>15, <1>20 DEF Temporaries, Puts
<1>22. \A h \in Handles : Handle(h) \notin N
  BY <1>9, SlotKinds
<1>23. Copy(t) \notin N
  BY <1>9, SlotKinds
<1>24. \A r \in D : r \in dying[t] \/ r \in N
  BY <1>14
<1>25. Replacing(t)'
  <2>1. ASSUME pc[t].at \in {"allocate", "addref"}
        PROVE  /\ owner'[pc[t].handle] = t
               /\ ptr'[Handle(pc[t].handle)] # Nil => Handle(pc[t].handle) \in D
    BY <1>1, <1>2, <1>3, <1>12, <1>13, <1>15, <1>20, <2>1, CallShape DEF Replacing, Holds, Cell
  <2>2. ASSUME pc[t].at = "addref"
        PROVE  /\ owner'[pc[t].from] = t /\ pc[t].from # pc[t].handle
               /\ ptr'[Handle(pc[t].from)] # Nil /\ Handle(pc[t].from) \notin D
    <3>1. /\ owner[pc[t].from] = t /\ pc[t].from # pc[t].handle
          /\ ptr[Handle(pc[t].from)] # Nil /\ Handle(pc[t].from) \notin dying[t]
      BY <1>3, <2>2 DEF Replacing, Holds, Cell
    <3>2. pc[t].from \in Handles
      BY <1>2, <2>2, CallShape
    <3>3. Handle(pc[t].from) # s
      BY <3>1
    <3> QED
      BY <1>1, <1>12, <1>20, <1>22, <1>24, <3>1, <3>2, <3>3
  <2> QED
    BY <1>1, <1>11, <2>1, <2>2 DEF Replacing, Holds, Cell
<1>26. Modifying(t)'
  <2>1. ASSUME pc[t].at \in Acting
        PROVE  /\ pc[t].handle \in Handles
               /\ owner'[pc[t].handle] = t
               /\ ptr'[Handle(pc[t].handle)] = ptr[Handle(pc[t].handle)]
               /\ ptr'[Handle(pc[t].handle)] # Nil
               /\ Handle(pc[t].handle) \notin D /\ Handle(pc[t].handle) # s
    <3>1. /\ owner[pc[t].handle] = t
          /\ ptr[Handle(pc[t].handle)] # Nil /\ Handle(pc[t].handle) \notin dying[t]
      BY <1>3, <2>1 DEF Modifying, Holds, Cell
    <3>2. pc[t].handle \in Handles
      BY <1>2, <2>1, CallShape
    <3>3. Handle(pc[t].handle) # s
      BY <3>1
    <3> QED
      BY <1>1, <1>12, <1>20, <1>22, <1>24, <3>1, <3>2, <3>3
  <2>2. ASSUME Puts(t)
        PROVE  /\ ptr'[pc[t].item] # Nil /\ pc[t].item \notin D
               /\ \/ pc[t].item = Copy(t)
                  \/ \E g \in Handles : /\ pc[t].item = Handle(g)
                                        /\ owner'[g] = t /\ g # pc[t].handle
    <3>1. /\ ptr[pc[t].item] # Nil /\ pc[t].item \notin dying[t]
          /\ \/ pc[t].item = Copy(t)
             \/ \E g \in Handles : /\ pc[t].item = Handle(g)
                                   /\ owner[g] = t /\ g # pc[t].handle
      BY <1>3, <2>2 DEF Modifying
    <3>2. pc[t].item # s /\ pc[t].item \notin N /\ pc[t].item \in Slots
      BY <1>20, <1>22, <1>23, <3>1
    <3> QED
      BY <1>1, <1>12, <1>24, <3>1, <3>2
  <2>3. ASSUME pc[t].at = "put", ptr'[Place(t)] # Nil
        PROVE  Place(t) \in D
    <3>1. ptr[Place(t)] # Nil => Place(t) \in dying[t]
      BY <1>3, <2>3 DEF Modifying
    <3>2. Place(t) \in Slots
      BY <2>3, <1>2, OwnCell, CallShape, SlotsAre DEF Place, Acting
    <3> QED
      BY <1>12, <1>13, <1>15, <2>3, <3>1, <3>2
  <2>4. ASSUME pc[t].at \in {"write", "put"}
        PROVE  Refs(Cell(pc[t].handle))' = {Handle(pc[t].handle)}
    <3>1. PICK b \in Cells : b = Cell(pc[t].handle) /\ b = ptr[Handle(pc[t].handle)]
      BY <2>4, OwnCell DEF Acting
    <3>2. Refs(b) = {Handle(pc[t].handle)}
      BY <1>3, <2>4, <3>1 DEF Modifying
    <3>3. Handle(pc[t].handle) # s /\ ptr'[Handle(pc[t].handle)] = b
      BY <2>1, <2>4, <3>1 DEF Acting
    <3>4. Refs(b)' = {Handle(pc[t].handle)}
      BY <1>7, <1>8, <3>2, <3>3
    <3>5. Refs(Cell(pc[t].handle))' = Refs(b)'
      BY <1>1, <3>3 DEF Refs, Cell
    <3> QED
      BY <3>4, <3>5
  <2>5. pc' = pc /\ Holds(pc[t].handle)' = (ptr'[Handle(pc[t].handle)] # Nil)
    BY <1>1 DEF Holds, Cell
  <2>6. pc[t].at = "put" => Place(t)' = Place(t)
    BY <1>1, <2>1 DEF Place, Cell, Acting
  <2>7. pc'[t].at \in Acting =>
          /\ owner'[pc'[t].handle] = t /\ Holds(pc[t].handle)'
          /\ Handle(pc'[t].handle) \notin dying'[t]
    BY <1>11, <2>1, <2>5
  <2>8. Puts(t)' =>
          /\ ptr'[pc'[t].item] # Nil /\ pc'[t].item \notin dying'[t]
          /\ \/ pc'[t].item = Copy(t)
             \/ \E g \in Handles : pc'[t].item = Handle(g) /\ owner'[g] = t /\ g # pc'[t].handle
    BY <1>11, <2>2, <2>5 DEF Puts
  <2>9. pc'[t].at = "put" /\ ptr'[Place(t)'] # Nil => Place(t)' \in dying'[t]
    BY <1>11, <2>3, <2>5, <2>6
  <2>10. pc'[t].at \in {"write", "put"} => Refs(Cell(pc[t].handle))' = {Handle(pc'[t].handle)}
    BY <2>4, <2>5
  <2> QED
    BY <2>7, <2>8, <2>9, <2>10 DEF Modifying
<1>27. Relies(t)'
  BY <1>19, <1>21, <1>25, <1>26 DEF Relies
<1> QED
  BY <1>7, <1>16, <1>17, <1>27, OneThread
-----------------------------------------------------------------------------
(* Steps that move references and add some. *)

LEMMA GetKeeps ==
  ASSUME IInv, NEW t \in Threads, NEW h \in Handles, NEW g \in Handles, NEW n \in Names,
         Get(t, h, g, n)
  PROVE  IInv'
<1>1. /\ pc[t].at = "idle" /\ dying[t] = {} /\ owner[h] = t /\ owner[g] = t
      /\ Cell(g) # Nil /\ ptr[Item(Cell(g), n)] # Nil
      /\ count' = [count EXCEPT ![ptr[Item(Cell(g), n)]] = @ + 1]
      /\ ptr' = [ptr EXCEPT ![Old(t)] = Cell(h), ![Handle(h)] = ptr[Item(Cell(g), n)]]
      /\ dying' = [dying EXCEPT ![t] = IF Holds(h) THEN {Old(t)} ELSE {}]
      /\ UNCHANGED << value, owner, pc >>
  BY DEF Get, At, Uses, Holds
<1>2. CowTypeOK /\ CountsExact /\ pc \in [Threads -> Calls]
  BY DEF IInv
<1>3. Handle(h) \in Slots /\ Handle(g) \in Slots /\ Old(t) \in Slots /\ Copy(t) \in Slots
  BY SlotsAre
<1>4. PICK a \in Cells : a = Cell(g)
  BY <1>1, <1>2, <1>3 DEF CowTypeOK, Cell
<1>5. Item(a, n) \in Slots
  BY SlotsAre
<1>6. PICK c \in Cells : c = ptr[Item(a, n)]
  BY <1>1, <1>2, <1>4, <1>5 DEF CowTypeOK
<1>7. PICK b \in Cells \union {Nil} : b = Cell(h) /\ b = ptr[Handle(h)]
  BY <1>2, <1>3 DEF CowTypeOK, Cell
<1>8. ptr[Old(t)] = Nil /\ ptr[Copy(t)] = Nil
  BY <1>1, Tidy DEF Puts, Acting
<1>9. Old(t) # Handle(h) /\ Copy(t) # Handle(h) /\ Copy(t) # Old(t)
  BY SlotKinds
<1>10. /\ ptr' \in [Slots -> Cells \union {Nil}] /\ ptr'[Old(t)] = b /\ ptr'[Handle(h)] = c
       /\ \A s \in Slots : s # Old(t) /\ s # Handle(h) => ptr'[s] = ptr[s]
  BY <1>1, <1>2, <1>3, <1>4, <1>6, <1>7, <1>9 DEF CowTypeOK
<1>11. count' \in [Cells -> Nat] /\ count'[c] = count[c] + 1 /\ \A d \in Cells : d # c => count'[d] = count[d]
  BY <1>1, <1>2, <1>4, <1>6 DEF CowTypeOK
<1>12. ASSUME NEW d \in Cells
       PROVE  count'[d] = Cardinality(Refs(d)')
  <2>1. count[d] = Cardinality(Refs(d)) /\ IsFiniteSet(Refs(d)) /\ Cardinality(Refs(d)) \in Nat
    BY <1>2, RefsFinite DEF CountsExact
  <2>2. Old(t) \notin Refs(d) /\ (Handle(h) \in Refs(d) <=> d = b)
    BY <1>3, <1>7, <1>8, NilAssumption DEF Refs
  <2>3. CASE d # b /\ d # c
    <3>1. Refs(d)' = Refs(d)
      BY <1>7, <1>8, <1>10, <2>3, NilAssumption DEF Refs
    <3> QED
      BY <1>11, <2>1, <2>3, <3>1
  <2>4. CASE d # b /\ d = c
    <3>1. Refs(d)' = Refs(d) \union {Handle(h)}
      BY <1>3, <1>7, <1>8, <1>10, <2>4, NilAssumption DEF Refs
    <3>2. Cardinality(Refs(d) \union {Handle(h)}) = Cardinality(Refs(d)) + 1
      BY <2>1, <2>2, <2>4, FS_AddElement
    <3> QED
      BY <1>11, <2>1, <2>4, <3>1, <3>2
  <2>5. CASE d = b /\ d = c
    <3>1. Refs(d)' = Refs(d) \union {Old(t)}
      BY <1>3, <1>7, <1>8, <1>10, <2>5, NilAssumption DEF Refs
    <3>2. Cardinality(Refs(d) \union {Old(t)}) = Cardinality(Refs(d)) + 1
      BY <2>1, <2>2, FS_AddElement
    <3> QED
      BY <1>11, <2>1, <2>5, <3>1, <3>2
  <2>6. CASE d = b /\ d # c
    <3>1. Refs(d)' = (Refs(d) \ {Handle(h)}) \union {Old(t)}
      BY <1>3, <1>7, <1>8, <1>9, <1>10, <2>6, NilAssumption DEF Refs
    <3>2. /\ IsFiniteSet(Refs(d) \ {Handle(h)})
          /\ Cardinality(Refs(d) \ {Handle(h)}) = Cardinality(Refs(d)) - 1
      BY <2>1, <2>2, <2>6, FS_RemoveElement
    <3>3. Old(t) \notin Refs(d) \ {Handle(h)}
      BY <2>2
    <3>4. Cardinality((Refs(d) \ {Handle(h)}) \union {Old(t)})
            = Cardinality(Refs(d) \ {Handle(h)}) + 1
      BY <3>2, <3>3, FS_AddElement
    <3> QED
      BY <1>11, <2>1, <2>6, <3>1, <3>2, <3>4
  <2> QED
    BY <2>3, <2>4, <2>5, <2>6
<1>13. CountsExact'
  BY <1>12 DEF CountsExact
<1> DEFINE D == IF Holds(h) THEN {Old(t)} ELSE {}
<1>14. (b # Nil => D = {Old(t)}) /\ (b = Nil => D = {}) /\ D \subseteq Slots
  BY <1>3, <1>7 DEF Holds
<1>15. dying' = [dying EXCEPT ![t] = D]
  BY <1>1
<1> HIDE DEF D
<1>16. /\ dying'[t] = D /\ dying' \in [Threads -> SUBSET Slots]
       /\ \A u \in Threads : u # t => dying'[u] = dying[u]
  BY <1>2, <1>14, <1>15 DEF CowTypeOK
<1>17. CowTypeOK'
  BY <1>1, <1>2, <1>10, <1>11, <1>16 DEF CowTypeOK
<1>18. \A u \in Threads : u # t => Old(t) \notin dying[u]
  BY OwnSlots
<1>19. Local(t)
  <2>1. Touches(Old(t), t) /\ Touches(Handle(h), t)
    BY <1>1, OwnTouched
  <2>2. \A f \in Handles : Handle(h) = Handle(f) => owner[f] = t
    BY <1>1, SlotKinds
  <2>3. Reaches(b, t)
    BY <1>3, <1>7, <2>2 DEF Reaches
  <2>4. Reaches(c, t)
    BY <1>5, <1>6, SlotKinds DEF Reaches
  <2>5. \A s \in Slots : ptr'[s] # ptr[s] => Touches(s, t) /\ Reaches(ptr'[s], t)
    BY <1>10, <2>1, <2>3, <2>4
  <2>6. \A s \in dying'[t] : \A u \in Threads : u # t => s \notin dying[u]
    BY <1>14, <1>16, <1>18
  <2> QED
    BY <1>1, <1>16, <2>5, <2>6 DEF Local
<1>20. \A u \in Threads : Old(t) \in dying'[u] => u = t
  BY <1>16, <1>18
<1>21. Releasing(t)'
  BY <1>10, <1>14, <1>16, <1>20, SlotKinds DEF Releasing
<1>22. Temporaries(t)'
  BY <1>3, <1>8, <1>9, <1>10, <1>14, <1>16 DEF Temporaries
<1>23. Replacing(t)' /\ Modifying(t)'
  BY <1>1 DEF Replacing, Modifying, Puts, Acting
<1>24. Relies(t)'
  BY <1>21, <1>22, <1>23 DEF Relies
<1> QED
  BY <1>1, <1>2, <1>13, <1>17, <1>19, <1>24, OneThread

\* As many places as there are names of them.
LEMMA PlacesCounted ==
  ASSUME NEW k, NEW S \in SUBSET Names
  PROVE  /\ IsFiniteSet({Item(k, n) : n \in S})
         /\ Cardinality({Item(k, n) : n \in S}) = Cardinality(S)
         /\ Cardinality(S) \in Nat
<1> DEFINE T == {Item(k, n) : n \in S}
           f == [n \in S |-> Item(k, n)]
<1>1. IsFiniteSet(S)
  BY FiniteAssumption, FS_Subset
<1>2. \A n, m : Item(k, n) = Item(k, m) => n = m
  BY SlotKinds
<1>3. f \in [S -> T] /\ \A n, m \in S : f[n] = f[m] => n = m
  BY <1>2
<1>4. \A x \in T : \E n \in S : f[n] = x
  OBVIOUS
<1> HIDE DEF f, T
<1>5. f \in Bijection(S, T)
  BY <1>3, <1>4 DEF Bijection, Injection, IsInjective, Surjection
<1>6. ExistsBijection(S, T)
  BY <1>5 DEF ExistsBijection
<1>7. IsFiniteSet(T) /\ Cardinality(T) = Cardinality(S)
  BY <1>1, <1>6, FS_Bijection
<1> QED
  BY <1>1, <1>7, FS_CardinalityType DEF T
LEMMA CloneKeeps ==
  ASSUME IInv, NEW t \in Threads, Clone(t)
  PROVE  IInv'
<1>1. pc[t].at = "clone" /\ dying[t] = {} /\ pc[t].at \in Acting \ {"put"} /\ pc[t].at \in Acting
  BY DEF Clone, At, Acting
<1> DEFINE h == pc[t].handle
           c == Cell(h)
           Shared(d) == {n \in Names : ptr[Item(c, n)] = d}
           Places(k, d) == {Item(k, n) : n \in Shared(d)}
           j == [pc[t] EXCEPT !.at = "write"]
<1>2. h \in Handles /\ c \in Cells /\ ptr[Handle(h)] = c /\ owner[h] = t
  BY <1>1, OwnCell
<1>3. PICK k \in Cells :
        /\ Fresh(k)
        /\ count' = [d \in Cells |-> IF d = k THEN 1 ELSE count[d] + Cardinality(Shared(d))]
        /\ value' = [value EXCEPT ![k] = value[c]]
        /\ ptr' = [s \in Slots |-> IF s = Old(t) THEN c
                                   ELSE IF s = Handle(h) THEN k
                                   ELSE IF s \in ItemsOf(k) THEN ptr[Item(c, s[3])]
                                   ELSE ptr[s]]
  BY DEF Clone
<1>4. pc' = [pc EXCEPT ![t] = j] /\ dying' = [dying EXCEPT ![t] = {Old(t)}] /\ owner' = owner
  BY DEF Clone
<1>5. CowTypeOK /\ CountsExact /\ pc \in [Threads -> Calls] /\ pc[t] \in Calls
  BY DEF IInv
<1>6. Handle(h) \in Slots /\ Old(t) \in Slots /\ Copy(t) \in Slots
  BY <1>2, SlotsAre
<1>7. Refs(k) = {} /\ count[k] = 0 /\ \A n \in Names : ptr[Item(k, n)] = Nil
  BY <1>3, <1>5, CountZero, SlotsAre DEF Fresh, Held
<1>8. Handle(h) \in Refs(c) /\ c # k
  BY <1>2, <1>6, <1>7 DEF Refs
<1>9. ptr[Old(t)] = Nil
  BY <1>1, Tidy
<1>10. /\ ptr'[Old(t)] = c /\ ptr'[Handle(h)] = k
       /\ \A n \in Names : ptr'[Item(k, n)] = ptr[Item(c, n)]
       /\ \A s \in Slots : s # Old(t) /\ s # Handle(h) /\ s \notin ItemsOf(k) => ptr'[s] = ptr[s]
  <2>1. Old(t) # Handle(h) /\ Old(t) \notin ItemsOf(k) /\ Handle(h) \notin ItemsOf(k)
    BY SlotsAre, SlotKinds
  <2>2. ASSUME NEW n \in Names
        PROVE  ptr'[Item(k, n)] = ptr[Item(c, n)]
    <3>1. Item(k, n) \in ItemsOf(k) /\ Item(k, n) \in Slots /\ Item(k, n)[3] = n
      BY SlotsAre, SlotKinds
    <3> QED
      BY <1>3, <2>1, <3>1
  <2> QED
    BY <1>3, <1>6, <2>1, <2>2
<1>11. ptr' \in [Slots -> Cells \union {Nil}]
  <2>1. ASSUME NEW s \in Slots
        PROVE  ptr'[s] \in Cells \union {Nil}
    <3>1. CASE s \in ItemsOf(k)
      <4>1. PICK n \in Names : s = Item(k, n)
        BY <3>1, SlotsAre
      <4> QED
        BY <1>2, <1>5, <1>10, <4>1, SlotsAre DEF CowTypeOK
    <3>2. CASE s \notin ItemsOf(k)
      BY <1>2, <1>5, <1>10, <3>2 DEF CowTypeOK
    <3> QED
      BY <3>1, <3>2
  <2> QED
    BY <1>3, <2>1
<1>12. \A d : /\ IsFiniteSet(Places(k, d)) /\ Cardinality(Places(k, d)) = Cardinality(Shared(d))
              /\ Cardinality(Shared(d)) \in Nat
  BY PlacesCounted
<1>13. \A d, s : s \in Places(k, d) <=> \E n \in Names : s = Item(k, n) /\ ptr[Item(c, n)] = d
  OBVIOUS
<1>14. /\ j \in Calls /\ j.at = "write" /\ j.handle = h /\ j.op = pc[t].op
       /\ j.op = "put" => j.name = pc[t].name /\ j.item = pc[t].item
  <2>1. "write" \in Acting /\ ("write" = "put" => pc[t].op = "put")
    BY DEF Acting
  <2> QED
    BY <1>1, <1>5, <2>1, CallMoves
<1>15. /\ \A d \in Cells : count'[d] = IF d = k THEN 1 ELSE count[d] + Cardinality(Shared(d))
      /\ count' = [d \in Cells |-> count'[d]]
  BY <1>3
<1> HIDE DEF h, c, Shared, Places, j
<1>16. /\ count'[k] = 1 /\ count' \in [Cells -> Nat]
       /\ \A d \in Cells : d # k => count'[d] = count[d] + Cardinality(Shared(d))
  BY <1>15, <1>5, <1>12 DEF CowTypeOK
<1>17. Refs(k)' = {Handle(h)}
  <2>1. \A s \in Slots : ptr'[s] = k => s = Handle(h)
    <3>1. TAKE s \in Slots
    <3>2. HAVE ptr'[s] = k
    <3>3. ptr[s] # k /\ \A n \in Names : ptr[Item(c, n)] # k
      BY <1>2, <1>7, SlotsAre DEF Refs
    <3>4. s \notin ItemsOf(k)
      BY <1>10, <3>2, <3>3, SlotsAre
    <3> QED
      BY <1>8, <1>10, <3>2, <3>3, <3>4
  <2> QED
    BY <1>6, <1>10, <2>1 DEF Refs
<1>18. ASSUME NEW d \in Cells, d # k
       PROVE  /\ d # c => Refs(d)' = Refs(d) \union Places(k, d)
              /\ d = c => Refs(d)' = ((Refs(d) \ {Handle(h)}) \union {Old(t)}) \union Places(k, d)
  <2>1. ASSUME NEW s \in Slots, s \in ItemsOf(k)
        PROVE  (ptr'[s] = d <=> s \in Places(k, d)) /\ ptr[s] # d /\ s # Old(t) /\ s # Handle(h)
    <3>1. PICK n \in Names : s = Item(k, n)
      BY <2>1, SlotsAre
    <3>2. s \in Places(k, d) <=> ptr[Item(c, n)] = d
      BY <1>13, <3>1, SlotKinds
    <3> QED
      BY <1>7, <1>10, <3>1, <3>2, SlotKinds, NilAssumption
  <2>2. \A s \in Places(k, d) : s \in ItemsOf(k) /\ s \in Slots
    BY <1>13, SlotsAre
  <2>3. ptr[Handle(h)] = c /\ ptr'[Handle(h)] = k /\ ptr[Old(t)] = Nil /\ ptr'[Old(t)] = c
    BY <1>2, <1>9, <1>10
  <2>4. Refs(d) = {s \in Slots : ptr[s] = d} /\ Refs(d)' = {s \in Slots : ptr'[s] = d}
    BY DEF Refs
  <2>5. \A s \in Slots : s \notin ItemsOf(k) /\ s # Old(t) /\ s # Handle(h) => ptr'[s] = ptr[s]
    BY <1>10
  <2>6. CASE d # c
    <3>1. \A s \in Slots : s \in Refs(d)' <=> s \in Refs(d) \/ s \in Places(k, d)
      BY <1>18, <2>1, <2>2, <2>3, <2>4, <2>5, <2>6, NilAssumption
    <3> QED
      BY <2>2, <2>4, <2>6, <3>1
  <2>7. CASE d = c
    <3>1. \A s \in Slots : s \in Refs(d)' <=> \/ s \in Refs(d) /\ s # Handle(h)
                                              \/ s = Old(t) \/ s \in Places(k, d)
      BY <1>18, <2>1, <2>2, <2>3, <2>4, <2>5, <2>7, NilAssumption
    <3> QED
      BY <1>6, <2>2, <2>4, <2>7, <3>1
  <2> QED
    BY <2>6, <2>7
<1>19. ASSUME NEW d \in Cells
       PROVE  count'[d] = Cardinality(Refs(d)')
  <2>1. CASE d = k
    <3>1. Cardinality({Handle(h)}) = 1
      BY FS_Singleton
    <3> QED
      BY <1>16, <1>17, <2>1, <3>1
  <2>2. ASSUME d # k, NEW R, R \intersect Places(k, d) = {}, IsFiniteSet(R),
               Cardinality(R) = count[d], Refs(d)' = R \union Places(k, d)
        PROVE  count'[d] = Cardinality(Refs(d)')
    <3>1. Cardinality(R \union Places(k, d))
            = Cardinality(R) + Cardinality(Places(k, d)) - Cardinality(R \intersect Places(k, d))
      BY <1>12, <2>2, FS_Union
    <3>2. Cardinality(R \intersect Places(k, d)) = 0
      BY <2>2, FS_EmptySet
    <3>3. count[d] \in Nat /\ Cardinality(Places(k, d)) \in Nat
      BY <1>5, <1>12 DEF CowTypeOK
    <3> QED
      BY <1>12, <1>16, <2>2, <3>1, <3>2, <3>3
  <2>3. count[d] = Cardinality(Refs(d)) /\ IsFiniteSet(Refs(d)) /\ Cardinality(Refs(d)) \in Nat
    BY <1>5, RefsFinite DEF CountsExact
  <2>4. \A s \in Places(k, d) : s \notin Refs(d) /\ s # Old(t)
    BY <1>7, <1>13, SlotKinds, NilAssumption DEF Refs
  <2>5. CASE d # k /\ d # c
    <3>1. Refs(d) \intersect Places(k, d) = {}
      BY <2>4
    <3>2. Refs(d)' = Refs(d) \union Places(k, d)
      BY <1>18, <2>5
    <3> QED
      BY <2>2, <2>3, <2>5, <3>1, <3>2
  <2>6. CASE d = c
    <3> DEFINE R == (Refs(d) \ {Handle(h)}) \union {Old(t)}
    <3>1. /\ IsFiniteSet(Refs(d) \ {Handle(h)})
          /\ Cardinality(Refs(d) \ {Handle(h)}) = Cardinality(Refs(d)) - 1
      BY <1>8, <2>3, <2>6, FS_RemoveElement
    <3>2. Old(t) \notin Refs(d) \ {Handle(h)}
      BY <1>9, NilAssumption DEF Refs
    <3>3. IsFiniteSet(R) /\ Cardinality(R) = Cardinality(Refs(d) \ {Handle(h)}) + 1
      BY <3>1, <3>2, FS_AddElement
    <3>4. R \intersect Places(k, d) = {}
      BY <2>4
    <3>5. Refs(d)' = R \union Places(k, d)
      BY <1>8, <1>18, <2>6
    <3>6. Cardinality(R) = count[d]
      BY <2>3, <3>1, <3>3
    <3> HIDE DEF R
    <3> QED
      BY <1>8, <2>2, <2>6, <3>3, <3>4, <3>5, <3>6
  <2> QED
    BY <2>1, <2>5, <2>6
<1>20. CountsExact'
  BY <1>19 DEF CountsExact
<1>21. /\ pc'[t] = j /\ pc' \in [Threads -> Calls]
       /\ \A u \in Threads : u # t => pc'[u] = pc[u]
  BY <1>4, <1>5, <1>14
<1>22. /\ dying'[t] = {Old(t)} /\ dying' \in [Threads -> SUBSET Slots]
       /\ \A u \in Threads : u # t => dying'[u] = dying[u]
  BY <1>4, <1>5, <1>6 DEF CowTypeOK
<1>23. CowTypeOK'
  <2>1. value' \in [Cells -> Types]
    BY <1>2, <1>3, <1>5 DEF CowTypeOK
  <2> QED
    BY <1>4, <1>5, <1>11, <1>16, <1>21, <1>22, <2>1 DEF CowTypeOK
<1>24. Local(t)
  <2>1. Touches(Old(t), t) /\ Touches(Handle(h), t) /\ \A n \in Names : Touches(Item(k, n), t)
    BY <1>2, <1>3, OwnTouched
  <2>2. \A f \in Handles : Handle(h) = Handle(f) => owner[f] = t
    BY <1>2, SlotKinds
  <2>3. Reaches(c, t) /\ Reaches(k, t)
    BY <1>2, <1>3, <1>6, <2>2 DEF Reaches
  <2>4. \A n \in Names : Reaches(ptr[Item(c, n)], t)
    BY <1>2, SlotsAre, SlotKinds DEF Reaches
  <2>5. ASSUME NEW s \in Slots, ptr'[s] # ptr[s]
        PROVE  Touches(s, t) /\ Reaches(ptr'[s], t)
    <3>1. CASE s \in ItemsOf(k)
      <4>1. PICK n \in Names : s = Item(k, n)
        BY <3>1, SlotsAre
      <4> QED
        BY <1>10, <2>1, <2>4, <4>1
    <3>2. CASE s \notin ItemsOf(k)
      BY <1>10, <2>1, <2>3, <2>5, <3>2
    <3> QED
      BY <3>1, <3>2
  <2>6. \A s \in dying'[t] : \A u \in Threads : u # t => s \notin dying[u]
    BY <1>22, OwnSlots
  <2> QED
    BY <1>4, <1>21, <1>22, <2>5, <2>6 DEF Local
<1>25. Temporaries(t) /\ Modifying(t)
  BY <1>5 DEF IInv, Relies
<1>26. ptr'[Copy(t)] = ptr[Copy(t)] /\ \A g \in Handles : g # h => ptr'[Handle(g)] = ptr[Handle(g)]
  BY <1>6, <1>10, SlotsAre, SlotKinds
<1>27. \A u \in Threads : Old(t) \in dying'[u] => u = t
  BY <1>22, OwnSlots
<1>28. Releasing(t)'
  BY <1>2, <1>10, <1>22, <1>27, NilAssumption, SlotKinds DEF Releasing
<1>29. Temporaries(t)'
  <2>1. ptr[Copy(t)] # Nil => Puts(t) /\ pc[t].item = Copy(t)
    BY <1>1, <1>25 DEF Temporaries
  <2> QED
    BY <1>14, <1>21, <1>22, <1>26, <2>1 DEF Temporaries, Puts, Acting
<1>30. Replacing(t)'
  BY <1>14, <1>21 DEF Replacing
<1>31. Modifying(t)'
  <2>1. Puts(t) => /\ ptr[pc[t].item] # Nil
                   /\ \/ pc[t].item = Copy(t)
                      \/ \E g \in Handles : pc[t].item = Handle(g) /\ owner[g] = t /\ g # h
    BY <1>2, <1>25 DEF Modifying, h
  <2>2. Puts(t)' => Puts(t) /\ pc'[t].item = pc[t].item
    BY <1>1, <1>14, <1>21 DEF Puts
  <2>3. Puts(t)' => /\ ptr'[pc'[t].item] # Nil /\ pc'[t].item \notin dying'[t]
                    /\ \/ pc'[t].item = Copy(t)
                       \/ \E g \in Handles : pc'[t].item = Handle(g) /\ owner'[g] = t /\ g # pc'[t].handle
    BY <1>4, <1>14, <1>21, <1>22, <1>26, <2>1, <2>2, SlotKinds
  <2>4. pc'[t].handle = h /\ owner'[h] = t /\ ptr'[Handle(h)] # Nil /\ Handle(h) \notin dying'[t]
    BY <1>2, <1>4, <1>10, <1>14, <1>21, <1>22, NilAssumption, SlotKinds
  <2>5. Cell(pc[t].handle)' = k /\ Holds(pc[t].handle)'
    BY <1>10, <2>4 DEF Cell, Holds
  <2>6. Refs(Cell(pc[t].handle))' = {Handle(h)}
    BY <1>17, <2>5 DEF Refs
  <2>7. pc'[t].at = "write"
    BY <1>14, <1>21
  <2> QED
    BY <2>3, <2>4, <2>5, <2>6, <2>7 DEF Modifying
<1>32. Relies(t)'
  BY <1>28, <1>29, <1>30, <1>31 DEF Relies
<1> QED
  BY <1>20, <1>21, <1>23, <1>24, <1>32, OneThread

-----------------------------------------------------------------------------
LEMMA InitKeeps ==
  ASSUME CowInit
  PROVE  IInv
<1>1. \A s \in Slots : ptr[s] = Nil
  BY DEF CowInit
<1>2. \A t \in Threads : pc[t] = NoCall /\ pc[t].at = "idle" /\ dying[t] = {}
  BY NoCallIs DEF CowInit
<1>3. CowTypeOK /\ pc \in [Threads -> Calls]
  BY NoCallIs DEF CowInit, CowTypeOK, Types
<1>4. ASSUME NEW c \in Cells
      PROVE  count[c] = Cardinality(Refs(c))
  <2>1. Refs(c) = {}
    BY <1>1, NilAssumption DEF Refs
  <2> QED
    BY <2>1, FS_EmptySet DEF CowInit
<1>5. ASSUME NEW t \in Threads
      PROVE  Relies(t)
  <2>1. ptr[Old(t)] = Nil /\ ptr[Copy(t)] = Nil
    BY <1>1, SlotsAre
  <2> QED
    BY <1>2, <2>1 DEF Relies, Releasing, Temporaries, Replacing, Modifying, Puts, Acting
<1> QED
  BY <1>3, <1>4, <1>5 DEF IInv, CountsExact

LEMMA NextKeeps ==
  ASSUME IInv, [CowNext]_cowVars
  PROVE  IInv'
<1>1. CASE UNCHANGED cowVars
  BY <1>1 DEF cowVars, IInv, CowTypeOK, CountsExact, Relies, Releasing, Temporaries, Replacing,
              Modifying, Puts, Exclusive, Refs, Holds, Cell, Place
<1>2. ASSUME NEW t \in Threads,
             \/ Release(t) \/ Allocate(t) \/ AddRef(t) \/ Check(t) \/ Clone(t)
             \/ WriteData(t) \/ WriteClear(t) \/ WriteDelete(t) \/ WriteOver(t) \/ WriteItem(t)
      PROVE  IInv'
  BY <1>2, ReleaseKeeps, AllocateKeeps, AddRefKeeps, CheckKeeps, CloneKeeps, WriteDataKeeps,
     WriteClearKeeps, WriteDeleteKeeps, WriteOverKeeps, WriteItemKeeps
<1>3. ASSUME NEW t \in Threads, NEW h \in Handles,
             \/ SetPrimitive(t, h) \/ Clear(t, h) \/ Reserve(t, h)
             \/ \E v \in Types : SetOther(t, h, v)
             \/ \E d \in Data : SetData(t, h, d)
             \/ \E u \in Threads : Send(t, h, u)
             \/ \E n \in Names : DeleteProperty(t, h, n)
      PROVE  IInv'
  BY <1>3, SetPrimitiveKeeps, SetOtherKeeps, SendKeeps, ModifyCallsKeep
<1>4. ASSUME NEW t \in Threads, NEW h \in Handles, NEW g \in Handles,
             \/ Assign(t, h, g)
             \/ \E n \in Names : Get(t, h, g, n) \/ Put(t, h, n, g) \/ PutCopy(t, h, n, g)
      PROVE  IInv'
  BY <1>4, AssignKeeps, GetKeeps, PutKeeps, PutCopyKeeps
<1> QED
  BY <1>1, <1>2, <1>3, <1>4 DEF CowNext

LEMMA IInvHolds == CowSpec => []IInv
BY InitKeeps, NextKeeps, PTL DEF CowSpec

\* Whatever threads do with their attributes, and however many share a value: its
\* reference count is the number of the places that point to it, and when a thread is
\* about to modify a value, or is modifying it, only the attribute it modifies points
\* to it (cow.hpp:48-66, 141-143).
THEOREM CountsAreKept == CowSpec => []CountsHold
<1>1. IInv => CountsHold
  BY DEF IInv, CountsHold, WritesAlone, Relies, Modifying
<1> QED
  BY <1>1, IInvHolds, PTL

\* No cell is deleted that something points to, and what a thread has still to release
\* it alone releases: nothing is released twice (cow.hpp:105-117).
THEOREM ReleasedOnce ==
  CowSpec => [](\A t \in Threads : \A s \in dying[t] :
               /\ ptr[s] # Nil /\ count[ptr[s]] > 0
               /\ \A u \in Threads : s \in dying[u] => u = t)
<1>1. ASSUME IInv, NEW t \in Threads, NEW s \in dying[t]
      PROVE  /\ ptr[s] # Nil /\ count[ptr[s]] > 0
             /\ \A u \in Threads : s \in dying[u] => u = t
  <2>1. s \in Slots /\ ptr[s] # Nil /\ \A u \in Threads : s \in dying[u] => u = t
    BY <1>1 DEF IInv, CowTypeOK, Relies, Releasing
  <2>2. ptr[s] \in Cells
    BY <1>1, <2>1 DEF IInv, CowTypeOK
  <2>3. count[ptr[s]] > 0
    BY <1>1, <2>1, <2>2, CountZero DEF IInv
  <2> QED
    BY <2>1, <2>3
<1>2. IInv => \A t \in Threads : \A s \in dying[t] :
                /\ ptr[s] # Nil /\ count[ptr[s]] > 0
                /\ \A u \in Threads : s \in dying[u] => u = t
  BY <1>1
<1> QED
  BY <1>2, IInvHolds, PTL
=============================================================================
