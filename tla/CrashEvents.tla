---------------------------- MODULE CrashEvents -----------------------------
(***************************************************************************)
(* What the next process makes of a crash: which RUM events, in which view *)
(* of which session, or none (crash_processing/crash_events.cpp, with      *)
(* view_event_mutation.cpp).                                               *)
(*                                                                         *)
(* The context of a crash is what CrashReporting last wrote of the         *)
(* messages it heard: the consent, the state of the latest RUM session and *)
(* the last event of the view that was active, each possibly missing.      *)
(* Application and session ids are numbers, and 0 is UUID::Zero.           *)
(***************************************************************************)
EXTENDS Integers, Sequences

\* The view that is made up for a crash that no view was there for.
LaunchView == "ApplicationLaunch"

\* validate_required_crash_context_fields is `complete'.
Usable(ctx, fallback) ==
  /\ ctx.present /\ ctx.complete
  /\ ctx.views # << >> \/ ctx.application # 0 \/ fallback # 0
  /\ ctx.consent = "granted"
  /\ ctx.session.id # 0 => ctx.session.sampled

ErrorEvent(session, view) == [type |-> "error", session |-> session, view |-> view, crash |-> TRUE]

\* Mutant of MutateViewEventForCrash: the version of the view stays as it is.
MutateButVersion(e) == [e EXCEPT !.active = FALSE, !.errors = @ + 1]

\* The one event the view still gets: later than the last, inactive, with one
\* error more.
MutateViewEventForCrash(e) ==
  [e EXCEPT !.active = FALSE, !.errors = @ + 1, !.version = @ + 1]

\* The view is updated only if the crash is less than four hours old.
HandleActiveView(e, recent) ==
  (IF recent THEN << MutateViewEventForCrash(e) >> ELSE << >>)
    \o << ErrorEvent(e.view[1], e.view) >>

\* create_application_launch_view_for_crash, and the error in that view.
HandleInLaunchView(session) ==
  LET view == << session, LaunchView >>
  IN  << [type |-> "view", view |-> view, key |-> LaunchView, version |-> 1,
          actions |-> 0, errors |-> 1, resources |-> 0, longTasks |-> 0,
          active |-> FALSE, sessionActive |-> TRUE],
         ErrorEvent(session, view) >>

\* ctx.views holds the last view event, or nothing.  `fresh' is the id of a new
\* session and `sampledAnew' what the sampler says of it.
ProduceRumEventsForCrash(ctx, recent, fallback, fresh, sampledAnew) ==
  IF ~Usable(ctx, fallback) THEN << >>
  ELSE IF ctx.views # << >> THEN HandleActiveView(ctx.views[1], recent)
  ELSE IF ctx.session.id # 0
  THEN IF ctx.session.initial /\ ~ctx.session.hasViews
       THEN HandleInLaunchView(ctx.session.id) ELSE << >>
  ELSE IF sampledAnew THEN HandleInLaunchView(fresh) ELSE << >>
=============================================================================
