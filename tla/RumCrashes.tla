----------------------------- MODULE RumCrashes ------------------------------
(***************************************************************************)
(* RUM and the processing of crashes, together: after every call of the    *)
(* API the process may crash, and the next process handles the crash from  *)
(* what the crash reporter was told of the scopes (crash_reporting.cpp),   *)
(* not from the scopes themselves.                                         *)
(***************************************************************************)
EXTENDS RumScopes, CrashEvents

\* CrashReporting's context, as the messages of Heard left it.
ContextAtCrash(consent) ==
  [present |-> TRUE, complete |-> TRUE, application |-> 1, consent |-> consent,
   session |-> [id |-> heard.session.id, sampled |-> heard.session.sampled,
                initial |-> heard.session.id = 1, hasViews |-> heard.session.hasViews],
   views |-> IF heard.view = NoEvent THEN << >> ELSE << heard.view >>]

\* A crash now, reported soon or late; 0: no new session is called for.
CrashNow(consent, recent) ==
  ProduceRumEventsForCrash(ContextAtCrash(consent), recent, 0, 0, TRUE)

-----------------------------------------------------------------------------
(***************************************************************************)
(* Properties.                                                             *)
(***************************************************************************)
\* crash_events.cpp:691-757: whatever the application did before it crashed, the
\* error lands in the view that was active in its session, in none other, and
\* the update of that view is the one its scope would have sent next: the next
\* version, the same counts, one error more.  Without a view there is only the
\* launch of a first session in which none was ever opened, and a session that
\* is not sampled gets nothing.
CrashAttributed ==
  \A recent \in BOOLEAN :
    LET events  == CrashNow("granted", recent)
        crash   == events[Len(events)]
        session == IF app.active # NoSession THEN app.active ELSE app.prev
        v       == IF app.active # NoSession THEN ActiveView(app.active) ELSE NoView
        ended   == [v EXCEPT !.active = FALSE, !.errors = @ + 1, !.pending = {}]
        launch  == session.id = 1 /\ session.opened = 0
    IN  IF ~session.sampled \/ (v = NoView /\ ~launch) THEN events = << >>
        ELSE /\ events # << >>
             /\ crash.type = "error" /\ crash.session = session.id
             /\ IF v = NoView
                THEN crash.view[2] = LaunchView /\ events[1].view = crash.view
                ELSE /\ crash.view = v.id
                     /\ recent => events = << ViewEvent(ended, TRUE), crash >>
                     /\ ~recent => events = << crash >>

\* impl/rum/rum.cpp:519-556: what the other features are told is enough for that.
CrashesFindTheirView == DownstreamAgrees /\ CrashAttributed
=============================================================================
