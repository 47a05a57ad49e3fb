----------------------------- MODULE MCProfiling -----------------------------
(* An instance of Profiling for TLC, which also evaluates what MCCrashAnnotations *)
(* assumes of crash annotations and of the events of a view.                      *)
EXTENDS Profiling, MCCrashAnnotations

CONSTANTS n1, n2, s1, s2, v1, v2

\* A session without a view, two views of one session, a view of another.
Places == {[session |-> s1, view |-> v1], [session |-> s1, view |-> v2],
           [session |-> s2, view |-> NoView]}

\* Whether consent is pending or refused makes no difference to any action.
IfGranted(m) ==
  IF m.type = "context" THEN [m EXCEPT !.consent = @ = "granted"]
  ELSE [m EXCEPT !.under = @ = "granted"]

Granted ==
  << tracker, books, phase, clock, used, running, failed, tracking = "granted",
     consent = "granted", told = "granted", [i \in DOMAIN bus |-> IfGranted(bus[i])] >>
=============================================================================
