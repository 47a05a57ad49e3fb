----------------------------- MODULE RumScopes ------------------------------
(***************************************************************************)
(* The RUM feature: rum.cpp, scopes/application.cpp, scopes/session.cpp    *)
(* and containers/view_array.cpp, above the views of RumViews.             *)
(*                                                                         *)
(* One step is one API call: the calling thread reads the clock, and the   *)
(* context thread processes the command, takes the snapshot of the active  *)
(* scopes and broadcasts what changed to the other features.  CorePipeline *)
(* has the queues in between; here commands are processed in the order in  *)
(* which they were issued.                                                 *)
(***************************************************************************)
EXTENDS RumViews

CONSTANTS ViewKeys,
          Capacity,            \* view_array.hpp: 8 slots
          InactivityTimeout,   \* session.cpp: 15 minutes
          MaxDuration,         \* session.cpp: 4 hours
          MaxTTID, MaxTTFD,    \* session.cpp: 60 and 90 seconds after launch
          Sampling,            \* outcomes of the session sampler
          Gaps,                \* time between two calls, in ticks of the timeouts
          MaxCommands,         \* bound: API calls
          MaxWaits             \* bound: calls that a time other than 0 comes before

ASSUME TimeoutsAssumption ==
  /\ InactivityTimeout \in Nat /\ InactivityTimeout > 0
  /\ MaxDuration \in Nat /\ MaxDuration >= InactivityTimeout

ASSUME ArrayAssumption == Capacity \in Nat /\ Capacity > 0

\* NoKey: that an optional ViewDetails has no value.
ASSUME CallsAssumption ==
  /\ NoKey \notin ViewKeys
  /\ MaxTTID \in Nat /\ MaxTTFD \in Nat /\ MaxCommands \in Nat
  /\ Sampling \subseteq BOOLEAN /\ Gaps \subseteq Nat

VARIABLES app,       \* RumApplicationScope: the active and the previous session
          uptime,    \* time since launch, up to MaxTTFD
          once,      \* _ttid_reported and _ttfd_reported
          heard,     \* what the other features have been told by messages
          told,      \* the last event written for each view that is open
          here,      \* the key of the view the user is on, as a session may know
          used,      \* how much of the bounds has been used
          out,       \* the events the last command wrote
          cmd        \* the last command

vars == << app, uptime, once, heard, out, cmd, told, here, used >>

-----------------------------------------------------------------------------
(***************************************************************************)
(* command.hpp: which commands need a session, a view, and are the user's. *)
(***************************************************************************)
UserInteractions   == {"StartView", "AddAction", "AddCustomAction", "StartAction", "StopAction"}
RequiresActiveView == {"StartResource", "AddAction", "AddCustomAction", "StartAction",
                       "AddError", "AddLongTask"}
RequiresActiveSession == UserInteractions \union RequiresActiveView

\* issued_at is kept as the time since the command before.
Command(op, key, gap) == [op |-> op, key |-> key, gap |-> gap]

NoSession == [id |-> 0]
NoViews   == [i \in 1 .. Capacity |-> NoView]

\* age and idle: the time since _started_at and since _last_interaction_at.
\* predecessor and onClose: the key of the view to reopen, and to hand on.
NewSession(id, sampled, predecessor) ==
  [id |-> id, sampled |-> sampled, age |-> 0, idle |-> 0, ended |-> "no",
   predecessor |-> predecessor, onClose |-> NoKey,
   ttid |-> 0, pendingTTFD |-> 0, opened |-> 0,
   views |-> NoViews]

-----------------------------------------------------------------------------
(***************************************************************************)
(* RumViewArray.                                                           *)
(***************************************************************************)
Open(s)   == {i \in 1 .. Capacity : s.views[i] # NoView}
Active(s) == {i \in Open(s) : s.views[i].active}

FirstOf(I) == CHOOSE i \in I : \A j \in I : i <= j

\* FindOldest compares times, so of views that started at the same time it takes
\* the one in the first slot, be it the last that started.
Oldest(s) == FirstOf({i \in Open(s) : \A j \in Open(s) : s.views[j].age <= s.views[i].age})

\* The first free slot, and otherwise that of the oldest view: its scope is dropped
\* without an event.
SlotFor(s) ==
  IF Open(s) # 1 .. Capacity THEN FirstOf((1 .. Capacity) \ Open(s)) ELSE Oldest(s)

Push(s, key) ==
  [s EXCEPT !.views[SlotFor(s)] = NewView(<< s.id, s.opened + 1 >>, key),
            !.opened = @ + 1]

ActiveView(s) == IF Active(s) = {} THEN NoView ELSE s.views[FirstOf(Active(s))]

\* RumViewArray::Propagate: the views in slot order.  `last' is the event that
\* RumSessionScope::StoreLastActiveViewEvent keeps, if any view stored one.
Gathered(s, done) ==
  [session |-> [s EXCEPT !.views = [i \in 1 .. Capacity |-> done[i].view]],
   out  |-> FlattenSeq([i \in 1 .. Capacity |-> done[i].out]),
   last |-> FlattenSeq([i \in 1 .. Capacity |-> done[i].last])]

Propagate(s, c) ==
  Gathered(s, [i \in 1 .. Capacity |->
                 IF i \in Open(s) THEN ProcessView(s.views[i], c, s.ended = "no")
                 ELSE [view |-> NoView, out |-> << >>, last |-> << >>]])

-----------------------------------------------------------------------------
(***************************************************************************)
(* RumSessionScope.                                                        *)
(***************************************************************************)
Unpropagated(s, out_) == [session |-> s, out |-> out_, last |-> << >>]

Least(m, n)   == IF m < n THEN m ELSE n
Longest(m, n) == IF m > n THEN m ELSE n

\* What the session, its views and their actions see of a later issued_at.
Elapsed(v, gap) ==
  CASE v = NoView -> v
    [] v # NoView /\ v.action = NoAction -> [v EXCEPT !.age = @ + gap]
    [] OTHER -> [v EXCEPT !.age = @ + gap, !.action.left = @ - Least(@, gap)]

Later(s, gap) ==
  IF s = NoSession THEN s
  ELSE [s EXCEPT !.age = Least(@ + gap, MaxDuration + 1),
                 !.idle = Least(@ + gap, InactivityTimeout),
                 !.views = [i \in 1 .. Capacity |-> Elapsed(@[i], gap)]]

\* ShouldCloseRatherThanProcessing: the reasons, in the order they are tried.
Inactive(s)   == s.idle >= InactivityTimeout
Exceeded(s)   == s.age > MaxDuration
\* Mutant of EndReason: StopSession is looked at first.
EndReasonStopFirst(s, c) ==
  CASE c.op = "StopSession" -> "stopped"
    [] OTHER -> IF Inactive(s) THEN "inactive" ELSE IF Exceeded(s) THEN "exceeded" ELSE "no"

EndReason(s, c) ==
  CASE Inactive(s)                  -> "inactive"
    [] ~Inactive(s) /\ Exceeded(s) -> "exceeded"
    [] OTHER                        -> IF c.op = "StopSession" THEN "stopped" ELSE "no"

\* OnClose: keep the key of the active view for a successor; tell the views only
\* if the application stopped the session.  Nothing reads them after that.
OnClose(s, c, reason) ==
  LET t == [s EXCEPT !.ended = reason, !.onClose = ActiveView(s).key]
  IN  [(IF reason = "stopped" THEN Propagate(t, c) ELSE Unpropagated(t, << >>))
         EXCEPT !.session.views = NoViews]

AttemptViewTransfer(s) ==
  LET t == [s EXCEPT !.predecessor = NoKey]
  IN  IF s.opened > 0 \/ Active(s) # {} THEN Unpropagated(t, << >>)
      ELSE Propagate(Push(t, s.predecessor), Command("StartView", s.predecessor, 0))

Launch(metric, s, duration) ==
  << [type |-> metric, session |-> s.id, view |-> ActiveView(s).id, duration |-> duration] >>

HandleDisplayInitialized(s, now) ==
  IF now <= 0 \/ now >= MaxTTID THEN Unpropagated(s, << >>)
  ELSE Unpropagated(
         [s EXCEPT !.ttid = now, !.pendingTTFD = 0],
         Launch("ttid", s, now) \o
           (IF s.pendingTTFD > 0 THEN Launch("ttfd", s, Longest(s.pendingTTFD, now)) ELSE << >>))

HandleFullyDisplayed(s, now) ==
  IF now <= 0 \/ now >= MaxTTFD THEN Unpropagated(s, << >>)
  ELSE IF s.ttid = 0 THEN Unpropagated([s EXCEPT !.pendingTTFD = now], << >>)
  ELSE Unpropagated(s, Launch("ttfd", s, Longest(now, s.ttid)))

\* A step of an operation is reported whether or not its start was seen; the
\* set of active operations only serves to warn.
SendVitalEvent(s) ==
  Unpropagated(s, << [type |-> "operation", session |-> s.id, view |-> ActiveView(s).id] >>)

\* RumSessionScope::Process of a command that does not end the session, in steps:
\* the interaction, the view to reopen, the view to open, the command itself.
Interacted(s, c) == IF c.op \in UserInteractions THEN [s EXCEPT !.idle = 0] ELSE s

Reopened(s, c) ==
  CASE c.op = "StopView" /\ c.key = s.predecessor ->
         Unpropagated([s EXCEPT !.predecessor = NoKey], << >>)
    [] c.op \in RequiresActiveView /\ s.predecessor # NoKey -> AttemptViewTransfer(s)
    [] OTHER -> Unpropagated(s, << >>)

Opened(s, c) == IF c.op = "StartView" THEN Push(s, c.key) ELSE s

Handled(s, c, now) ==
  CASE c.op = "ReportAppDisplayInitialized" -> HandleDisplayInitialized(s, now)
    [] c.op = "ReportAppFullyDisplayed" -> HandleFullyDisplayed(s, now)
    [] c.op = "StepOperation" -> SendVitalEvent(s)
    [] OTHER -> Propagate(s, c)

After(first, second) ==
  [second EXCEPT !.out = first.out \o @, !.last = first.last \o @]

HandledAfter(moved, c, now) == After(moved, Handled(Opened(moved.session, c), c, now))

ProcessInSession(s, c, now) ==
  IF s.sampled THEN HandledAfter(Reopened(Interacted(s, c), c), c, now)
  ELSE Unpropagated(Interacted(s, c), << >>)

ProcessSession(s, c, now) ==
  IF EndReason(s, c) = "no" THEN ProcessInSession(s, c, now)
  ELSE OnClose(s, c, EndReason(s, c))

-----------------------------------------------------------------------------
(***************************************************************************)
(* RumApplicationScope.                                                    *)
(***************************************************************************)
Reopens(c, reason) ==
  /\ c.op # "StopSession"
  /\ reason = "stopped" => c.op \in {"StartView", "StartAction", "AddAction", "AddCustomAction"}

\* AttemptSessionRefresh and CreateSession.
Refreshed(a, c, sampled) ==
  IF a.prev = NoSession \/ ~Reopens(c, a.prev.ended) THEN a
  ELSE [active |-> NewSession(a.prev.id + 1, sampled, IF sampled THEN a.prev.onClose ELSE NoKey),
        prev |-> NoSession]

\* Mutant of Forgotten: nobody hears StopView between two sessions.
NeverForgotten(a, c) == a

\* StopView while no session is active: the view is not to be reopened.
Forgotten(a, c) ==
  IF a.active = NoSession /\ a.prev # NoSession /\ c.op = "StopView"
       /\ a.prev.onClose = c.key
  THEN [a EXCEPT !.prev.onClose = NoKey] ELSE a

\* RumApplicationScope::Process: a command that finds its session expired is
\* processed again by the session that takes over.
Remains(a, r, out_) == [app |-> [a EXCEPT !.active = r.session], out |-> out_, last |-> r.last]

TakenOver(r, a, c, now) ==
  IF a.active = NoSession THEN [app |-> a, out |-> r.out, last |-> r.last]
  ELSE LET s == ProcessSession(a.active, c, now) IN Remains(a, s, r.out \o s.out)

Processed(a, r, c, now, sampled) ==
  IF r.session.ended = "no" THEN Remains(a, r, r.out)
  ELSE TakenOver(r, Refreshed([active |-> NoSession, prev |-> r.session], c, sampled), c, now)

ProcessOnceOpen(a, c, now, sampled) ==
  IF a.active = NoSession THEN [app |-> a, out |-> << >>, last |-> << >>]
  ELSE Processed(a, ProcessSession(a.active, c, now), c, now, sampled)

ProcessApplication(a, c, now, sampled) ==
  ProcessOnceOpen(Forgotten(IF c.op \in RequiresActiveSession /\ a.active = NoSession
                            THEN Refreshed(a, c, sampled) ELSE a, c), c, now, sampled)

-----------------------------------------------------------------------------
(***************************************************************************)
(* Rum: snapshot, broadcasts, and the calls of the API.                    *)
(***************************************************************************)
\* UpdateApplicationSnapshot: what the other features' events are stamped with.
Snapshot(a) ==
  IF a.active = NoSession THEN [session |-> 0, view |-> NoView.id, action |-> 0]
  ELSE LET v == ActiveView(a.active)
       IN  [session |-> a.active.id, view |-> v.id,
            action |-> IF v = NoView THEN 0 ELSE v.action.n]

SessionState(a) ==
  LET s == IF a.active # NoSession THEN a.active ELSE a.prev
  IN  [id |-> s.id, sampled |-> s.sampled, active |-> a.active # NoSession,
       hasViews |-> s.opened > 0]

NoEvent == [view |-> NoView.id]

\* Mutant of Heard: the loss of the active view is not announced.
HeardButLoss(before, after, last) ==
  [view |-> IF last = << >> THEN heard.view ELSE last[Len(last)],
   session |-> SessionState(after)]

\* BroadcastStateChanges, as the features that listen end up seeing it: the last
\* event of the active view, its loss, and the state of the session if it changed.
Heard(before, after, last) ==
  LET updated == IF last = << >> THEN heard.view ELSE last[Len(last)]
      lost    == Snapshot(before).view # NoView.id /\ Snapshot(after).view = NoView.id
  IN  [view |-> IF lost THEN NoEvent ELSE updated,
       session |-> IF SessionState(after) # heard.session THEN SessionState(after)
                   ELSE heard.session]

OpenIds(a) ==
  IF a.active = NoSession THEN {}
  ELSE {a.active.views[i].id : i \in Open(a.active)}

Told(id) == IF id \in DOMAIN told THEN told[id] ELSE NoEvent

\* The last event of a view among those written, and the one before them otherwise.
ViewEvents(written, id) ==
  {i \in DOMAIN written : written[i].type = "view" /\ written[i].view = id}

Latest(before, written, id) ==
  IF ViewEvents(written, id) = {} THEN before
  ELSE written[CHOOSE i \in ViewEvents(written, id) :
                 \A j \in ViewEvents(written, id) : j <= i]

LastTold(id) == Latest(Told(id), out', id)

Refreshes(before, after) == after.active # NoSession /\ after.active.id # before.active.id

Ends(before, after) == before.active # NoSession /\ before.active.id # after.active.id

\* application.hpp:75-90: the view the user is on, which a new session takes
\* over if it is sampled and the one before had it open; StartView and
\* StopView are heard by a session that is sampled, and the latter by none too.
Here(before, after, c) ==
  LET keeps == /\ after.active # NoSession => after.active.sampled
               /\ Ends(before, after) => ActiveView(before.active) # NoView
      known == IF keeps THEN here ELSE NoKey
  IN  CASE c.op = "StartView" /\ after.active # NoSession /\ after.active.sampled -> c.key
        [] c.op = "StopView" /\ c.key = known -> NoKey
        [] OTHER -> known

\* One call: the clock, the command, and everything that follows from it.
Opens(a, c) ==
  \/ a.active = NoSession /\ c.op \in RequiresActiveSession
  \/ a.active # NoSession /\ EndReason(a.active, c) # "no"

Issue(op, key) ==
  /\ used.calls < MaxCommands
  /\ \E gap \in Gaps :
     /\ gap > 0 => used.waits < MaxWaits
     /\ used' = [calls |-> used.calls + 1, waits |-> used.waits + Least(gap, 1)]
     /\ cmd' = Command(op, key, gap)
     /\ uptime' = Least(uptime + gap, MaxTTFD)
     /\ \E later \in {[app EXCEPT !.active = Later(@, gap)]} :
        \E sampled \in IF Opens(later, cmd') THEN Sampling ELSE {TRUE} :
        \E r \in {ProcessApplication(later, cmd', uptime', sampled)} :
        /\ app' = r.app
        /\ out' = r.out
        /\ heard' = Heard(app, r.app, r.last)
        /\ told' = [id \in OpenIds(r.app) |-> LastTold(id)]
        /\ here' = Here(app, r.app, cmd')

StartView(key)  == Issue("StartView", key) /\ UNCHANGED once
StopView(key)   == Issue("StopView", key) /\ UNCHANGED once
AddAction       == Issue("AddAction", NoKey) /\ UNCHANGED once
AddCustomAction == Issue("AddCustomAction", NoKey) /\ UNCHANGED once
StartAction     == Issue("StartAction", NoKey) /\ UNCHANGED once
StopAction      == Issue("StopAction", NoKey) /\ UNCHANGED once
StartResource(key) == Issue("StartResource", key) /\ UNCHANGED once
StopResource(key)  == Issue("StopResource", key) /\ UNCHANGED once
FailResource(key)  == Issue("FailResource", key) /\ UNCHANGED once
AddError        == Issue("AddError", NoKey) /\ UNCHANGED once
AddLongTask     == Issue("AddLongTask", NoKey) /\ UNCHANGED once
StepOperation   == Issue("StepOperation", NoKey) /\ UNCHANGED once
StopSession     == Issue("StopSession", NoKey) /\ UNCHANGED once

\* Each of these is dispatched once in the life of the SDK.
ReportAppDisplayInitialized ==
  /\ "ttid" \notin once
  /\ once' = once \union {"ttid"}
  /\ Issue("ReportAppDisplayInitialized", NoKey)

ReportAppFullyDisplayed ==
  /\ "ttfd" \notin once
  /\ once' = once \union {"ttfd"}
  /\ Issue("ReportAppFullyDisplayed", NoKey)

\* Rum::Start dispatches SDKInit, which opens the first session.
Init ==
  \E sampled \in Sampling :
    /\ app = [active |-> NewSession(1, sampled, NoKey), prev |-> NoSession]
    /\ once = {}
    /\ heard = [view |-> NoEvent, session |-> SessionState(app)]
    /\ out = << >>
    /\ cmd = Command("SDKInit", NoKey, 0)
    /\ uptime = 0
    /\ told = << >>
    /\ here = NoKey
    /\ used = [calls |-> 0, waits |-> 0]

Next ==
  \/ \E key \in ViewKeys : StartView(key) \/ StopView(key)
  \/ AddAction \/ AddCustomAction \/ StartAction \/ StopAction
  \/ \E key \in ResourceKeys : StartResource(key) \/ StopResource(key) \/ FailResource(key)
  \/ AddError \/ AddLongTask \/ StepOperation
  \/ ReportAppDisplayInitialized \/ ReportAppFullyDisplayed
  \/ StopSession

Spec == Init /\ [][Next]_vars

-----------------------------------------------------------------------------
(***************************************************************************)
(* Properties.                                                             *)
(***************************************************************************)
Sessions == {app.active, app.prev} \ {NoSession}

TypeOK ==
  /\ DOMAIN app = {"active", "prev"}
  /\ app.active # NoSession => app.prev = NoSession /\ app.active.ended = "no"
  /\ app.active = NoSession => app.prev # NoSession /\ app.prev.ended # "no"
  /\ \A s \in Sessions :
       /\ s.id \in 1 .. MaxCommands + 1 /\ s.opened \in 0 .. 2 * MaxCommands
       /\ s.idle \in 0 .. InactivityTimeout /\ s.onClose \in ViewKeys \union {NoKey}
       /\ \A i \in Open(s) :
            /\ s.views[i].id[1] = s.id /\ s.views[i].id[2] \in 1 .. s.opened
            /\ s.views[i].key \in ViewKeys /\ s.views[i].pending \subseteq ResourceKeys
  /\ here \in ViewKeys \union {NoKey} /\ once \subseteq {"ttid", "ttfd"}

\* view_array.hpp:21, view.hpp:50-56: at most one view of a session is active,
\* and a view that is not keeps its slot only for the resources it waits for.
OneActiveView ==
  app.active # NoSession =>
    /\ Cardinality(Active(app.active)) <= 1
    /\ \A i \in Open(app.active) \ Active(app.active) :
         app.active.views[i].pending # {} /\ app.active.views[i].action = NoAction

\* The last event written for every open view says what the scope says: no
\* error, resource, action or long task stays uncounted until something else
\* happens, whether the view is still active or waits for a resource.
ReportsCurrent ==
  app.active # NoSession =>
    \A i \in Open(app.active) :
      LET v == app.active.views[i]  e == Told(v.id)
      IN  /\ e # NoEvent /\ e.version = v.sent - 1
          /\ e.active = (v.active \/ v.pending # {}) /\ e.sessionActive
          /\ << e.actions, e.errors, e.resources, e.longTasks >>
               = << v.actions, v.errors, v.resources, v.longTasks >>

\* view.cpp, view_array.cpp: which view is active, and what was written of it,
\* is what the scopes say, after every command.
ViewsAgree == TypeOK /\ OneActiveView /\ ReportsCurrent

\* What the other features hold, a crash report above all, is the last event of
\* the view that is active, or none, and the state of the latest session.
DownstreamAgrees ==
  LET id == Snapshot(app).view
  IN  /\ heard.view = IF id = NoView.id THEN NoEvent ELSE Told(id)
      /\ heard.session = SessionState(app)

\* rum.h:181-184: what the application records goes to the view the user is on,
\* in whatever session, as far as the sessions can know it.
OnCurrentView ==
  [][app'.active # NoSession /\ app'.active.sampled =>
       IF ActiveView(app'.active) = NoView
       THEN here' = NoKey \/ cmd'.op \notin RequiresActiveView
       ELSE ActiveView(app'.active).key = here']_vars

\* rum.h:172: no event is written for a session more than MaxDuration after it
\* started, or InactivityTimeout or more after the user's last interaction.
SessionOf(e) == IF e.type \in {"ttid", "ttfd", "operation"} THEN e.session ELSE e.view[1]

WithinLimits ==
  [][\A i \in DOMAIN out' : SessionOf(out'[i]) = app.active.id =>
       /\ app.active.idle + cmd'.gap < InactivityTimeout
       /\ app.active.age + cmd'.gap <= MaxDuration]_vars

\* A view leaves the session it is in only when its last event says that it is
\* not active; when StopSession ends it, which the event says; when the session
\* expires, which nobody hears; or when the array is full and none of its views
\* has started before it.
Gone(id) == id \in OpenIds(app) /\ id \notin OpenIds(app')

ViewOf(id) == CHOOSE v \in {app.active.views[i] : i \in Open(app.active)} : v.id = id

Purged(id) ==
  /\ Open(app.active) = 1 .. Capacity /\ cmd'.op = "StartView"
  /\ \A i \in Open(app.active) : app.active.views[i].age <= ViewOf(id).age

Expires == Ends(app, app') /\ (app'.prev = NoSession \/ app'.prev.ended # "stopped")

Finalised ==
  [][\A id \in OpenIds(app) : Gone(id) =>
       \/ cmd'.op = "StopSession" /\ (ViewOf(id).active => ~ LastTold(id).sessionActive)
       \/ ~ LastTold(id).active
       \/ Expires
       \/ Purged(id)]_vars

\* An action that a view had active is reported exactly when it ends, before
\* the view event that counts it; only expiry and purging lose one.
ActionsReported ==
  [][\A id \in OpenIds(app) :
       LET v == ViewOf(id)
           I == {i \in DOMAIN out' : out'[i].type = "action" /\ out'[i].view = id
                                      /\ out'[i].action = v.action.n}
           goesOn == /\ id \in OpenIds(app')
                     /\ \E i \in Open(app'.active) : /\ app'.active.views[i].id = id
                                                      /\ app'.active.views[i].action.n = v.action.n
       IN  v.action # NoAction =>
             IF goesOn THEN I = {}
             ELSE \/ \E i \in I : /\ I = {i}
                                    /\ \E j \in DOMAIN out' : /\ j > i /\ out'[j].type = "view"
                                         /\ out'[j].view = id /\ out'[j].actions > v.actions
                  \/ I = {} /\ (Purged(id) \/ Expires)
    ]_vars

\* session.cpp:517-530: the time to full display never comes without the time to
\* initial display, before it, or with a shorter duration.
FullAfterInitial ==
  [][\A i \in DOMAIN out' : out'[i].type = "ttfd" =>
       \/ \E j \in 1 .. i - 1 : out'[j].type = "ttid" /\ out'[j].duration <= out'[i].duration
       \/ /\ out'[i].session = app.active.id
          /\ app.active.ttid > 0 /\ app.active.ttid <= out'[i].duration]_vars

\* What is reported comes in order: an action when it ends and before the view
\* event that counts it, the full display after the initial one.
ReportedInOrder == ActionsReported /\ FullAfterInitial
=============================================================================
