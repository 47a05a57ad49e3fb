------------------------------ MODULE RumViews ------------------------------
(***************************************************************************)
(* What one RUM view does with one command: impl/rum/scopes/view.cpp, with *)
(* its child scopes, the active action (scopes/action.cpp) and the pending *)
(* resources (scopes/resource.cpp, containers/resource_map.cpp).           *)
(*                                                                         *)
(* Scopes run on the context thread, one command at a time, so a scope is  *)
(* a record, and processing a command is a function from the scope and the *)
(* command to the scope that results and the events it wrote on the way.   *)
(*                                                                         *)
(* A command has the name of its payload and the key it names; attributes  *)
(* are left out.  Times are kept as what is left or gone of them when the  *)
(* command was issued (issued_at), to which the session brings its scopes  *)
(* up to date before it hands a command on.                                *)
(***************************************************************************)
EXTENDS Integers, FiniteSets, SequencesExt

CONSTANTS ResourceKeys,        \* keys given to StartResource and StopResource
          DiscreteLifetime,    \* view.cpp: 100 milliseconds
          ContinuousLifetime   \* view.cpp: 10 seconds

ASSUME LifetimesAssumption ==
  /\ DiscreteLifetime \in Nat
  /\ ContinuousLifetime \in Nat
  /\ DiscreteLifetime < ContinuousLifetime

-----------------------------------------------------------------------------
(***************************************************************************)
(* RumActionScope.                                                         *)
(***************************************************************************)
NoAction == [n |-> 0]

OpenAction(n, lifetime) ==
  [n |-> n, left |-> lifetime,
   waiting |-> 0, resources |-> 0, errors |-> 0, longTasks |-> 0]

StopsResource(c) == c.op \in {"StopResource", "FailResource"}

\* Any resource that stops is taken to be one this action waits for.
ResourceStopped(a, c) ==
  IF StopsResource(c) /\ a.waiting > 0
  THEN [a EXCEPT !.resources = @ + 1, !.waiting = @ - 1,
                 !.errors = IF c.op = "FailResource" THEN @ + 1 ELSE @]
  ELSE a

\* Mutant of ActionEnds: StopView is left to the view.
ActionEndsButOnStopView(a, c) ==
  \/ a.left = 0 /\ a.waiting = 0
  \/ c.op \in {"StopAction", "StartView", "StopSession"}

ActionEnds(a, c) ==
  \/ a.left = 0 /\ a.waiting = 0
  \/ c.op \in {"StopAction", "StartView", "StopView", "StopSession"}

ActionContinues(a, c) ==
  CASE c.op = "StartResource"   -> [a EXCEPT !.waiting = @ + 1]
    [] c.op = "AddError"        -> [a EXCEPT !.errors = @ + 1]
    [] c.op = "AddLongTask"     -> [a EXCEPT !.longTasks = @ + 1]
    [] OTHER                  -> a

\* The sequence of one event if the action closes on this command.
ActionEvents(v, c) ==
  LET a == ResourceStopped(v.action, c)
  IN  IF v.action # NoAction /\ ActionEnds(a, c)
      THEN << [type |-> "action", view |-> v.id, action |-> a.n,
               resources |-> a.resources, errors |-> a.errors,
               longTasks |-> a.longTasks] >>
      ELSE << >>

ActionAfter(v, c) ==
  LET a == ResourceStopped(v.action, c)
  IN  IF v.action = NoAction \/ ActionEnds(a, c) THEN NoAction
      ELSE ActionContinues(a, c)

-----------------------------------------------------------------------------
(***************************************************************************)
(* RumViewScope.  A view is named by its session and its number in it.     *)
(***************************************************************************)
NoKey  == "none"
NoView == [id |-> << 0, 0 >>, key |-> NoKey]

\* age: the time since _started_at.
NewView(id, key) ==
  [id |-> id, key |-> key, age |-> 0, active |-> TRUE, initialised |-> FALSE,
   action |-> NoAction, opened |-> 0, pending |-> {},
   actions |-> 0, errors |-> 0, resources |-> 0, longTasks |-> 0, sent |-> 0]

\* What a handler leaves, what it wrote, and whether a view event is due.
Silent(v)        == [view |-> v, out |-> << >>, due |-> FALSE]
Reported(v, out) == [view |-> v, out |-> out, due |-> TRUE]

HandleStartView(v, c) ==
  IF c.key = v.key /\ ~v.initialised
  THEN Reported([v EXCEPT !.initialised = TRUE], << >>)
  ELSE Reported([v EXCEPT !.active = FALSE], << >>)

\* Mutant of HandleStopView: the view stops without an event.
HandleStopViewSilently(v, c) ==
  Silent(IF c.key = v.key THEN [v EXCEPT !.active = FALSE] ELSE v)

HandleStopView(v, c) ==
  IF c.key = v.key THEN Reported([v EXCEPT !.active = FALSE], << >>) ELSE Silent(v)

\* A custom action is opened, stopped and reported at once.
HandleAddCustomAction(v) ==
  Reported([v EXCEPT !.actions = @ + 1],
           << [type |-> "action", view |-> v.id, action |-> 0,
               resources |-> 0, errors |-> 0, longTasks |-> 0] >>)

\* Dropped, with a warning, while another action is active.
HandleOpenAction(v, lifetime) ==
  Silent(IF v.action # NoAction THEN v
         ELSE [v EXCEPT !.action = OpenAction(v.opened + 1, lifetime),
                        !.opened = @ + 1])

\* RumResourceMap::Add replaces a pending resource that has the same key.  The
\* bindings of the API let no empty key through, which is refused here, too.
HandleStartResource(v, c) == Silent([v EXCEPT !.pending = @ \union {c.key}])

HandleAddError(v) ==
  Reported([v EXCEPT !.errors = @ + 1],
           << [type |-> "error", view |-> v.id, action |-> v.action.n] >>)

HandleAddLongTask(v) ==
  Reported([v EXCEPT !.longTasks = @ + 1],
           << [type |-> "long_task", view |-> v.id, action |-> v.action.n] >>)

HandleCommand(v, c) ==
  IF ~v.active THEN Silent(v)
  ELSE CASE c.op = "StopSession"     -> Reported([v EXCEPT !.active = FALSE], << >>)
         [] c.op = "StartView"       -> HandleStartView(v, c)
         [] c.op = "StopView"        -> HandleStopView(v, c)
         [] c.op = "AddCustomAction" -> HandleAddCustomAction(v)
         [] c.op = "AddAction"       -> HandleOpenAction(v, DiscreteLifetime)
         [] c.op = "StartAction"     -> HandleOpenAction(v, ContinuousLifetime)
         [] c.op = "StartResource"   -> HandleStartResource(v, c)
         [] c.op = "AddError"        -> HandleAddError(v)
         [] c.op = "AddLongTask"     -> HandleAddLongTask(v)
         [] OTHER                        -> Silent(v)

\* Mutant of ForwardToResource: a resource that fails is counted with the next event.
ForwardFailureSilently(v, c) ==
  IF ~StopsResource(c) \/ c.key \notin v.pending THEN Silent(v)
  ELSE LET w == [v EXCEPT !.pending = @ \ {c.key}]
       IN  IF c.op = "FailResource" THEN Silent([w EXCEPT !.errors = @ + 1])
           ELSE Reported([w EXCEPT !.resources = @ + 1],
                         << [type |-> "resource", view |-> v.id] >>)

\* RumResourceMap::Forward: the resource reports its end, as a resource or as
\* an error, and leaves the map.  Views that are inactive still do this.
ForwardToResource(v, c) ==
  IF ~StopsResource(c) \/ c.key \notin v.pending THEN Silent(v)
  ELSE LET w == [v EXCEPT !.pending = @ \ {c.key}]
       IN  IF c.op = "FailResource"
           THEN Reported([w EXCEPT !.errors = @ + 1],
                         << [type |-> "error", view |-> v.id, action |-> 0] >>)
           ELSE Reported([w EXCEPT !.resources = @ + 1],
                         << [type |-> "resource", view |-> v.id] >>)

ViewEvent(v, sessionActive) ==
  [type |-> "view", view |-> v.id, key |-> v.key, version |-> v.sent,
   actions |-> v.actions, errors |-> v.errors,
   resources |-> v.resources, longTasks |-> v.longTasks,
   active |-> v.active \/ v.pending # {}, sessionActive |-> sessionActive]

\* The action that the command ends counts for the view and reports itself.
ForwardToAction(v, ended, c) ==
  [view |-> [v EXCEPT !.action = ActionAfter(v, c), !.actions = @ + Len(ended)],
   out |-> ended, due |-> ended # << >>]

Then(first, second) ==
  [second EXCEPT !.out = first.out \o @, !.due = first.due \/ @]

HandledAfterAction(r, c)    == Then(r, HandleCommand(r.view, c))
ForwardedAfterHandler(r, c) == Then(r, ForwardToResource(r.view, c))

\* One view event if anything was counted or changed; and the scope closes once
\* it is inactive and waits for no resource.
Finished(r, sessionActive) ==
  LET told == IF r.due THEN << ViewEvent(r.view, sessionActive) >> ELSE << >>
  IN  [view |-> IF r.view.active \/ r.view.pending # {}
                THEN [r.view EXCEPT !.sent = @ + Len(told)] ELSE NoView,
       out  |-> r.out \o told,
       last |-> IF r.view.active THEN told ELSE << >>]

\* RumViewScope::Process: the action first, then the view's own handler, then
\* the resource.
ProcessView(v, c, sessionActive) ==
  Finished(
    ForwardedAfterHandler(
      HandledAfterAction(ForwardToAction(v, ActionEvents(v, c), c), c), c), sessionActive)
=============================================================================
