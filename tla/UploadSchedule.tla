--------------------------- MODULE UploadSchedule ---------------------------
(***************************************************************************)
(* When the upload thread runs the cycles of which feature: the priority   *)
(* queue and the interruptible sleep of UploadScheduler, the loop of       *)
(* UploadThreadMain and the backoff of UploadThreadState, against a thread *)
(* that calls Core::Start() and Core::Stop().  What a cycle does is in     *)
(* BatchStorage; here it takes time and has a result.                      *)
(*                                                                         *)
(* Times are relative to now: a tick brings every scheduled cycle nearer.  *)
(* The thread's own steps take no time; a sleep takes exactly as long as   *)
(* asked for, and a cycle at most MaxCycle: requests have a timeout, and   *)
(* their number per cycle is limited.  The clock is not set meanwhile.     *)
(***************************************************************************)
EXTENDS Integers, FiniteSets

CONSTANTS Feature,        \* the registered features
          MinDelay,       \* min_delay, from the configured UploadFrequency
          StartFactor,    \* the first delay is this many times MinDelay: 5
          MaxFactor,      \* max_delay is this many times MinDelay: 10
          Divisor,        \* a failed cycle adds this fraction of the delay: 10
          MaxCycle,       \* the longest a cycle takes
          Outcome         \* the results cycles have, given disk and server

ASSUME FeatureAssumption == IsFiniteSet(Feature) /\ Feature # {}

ASSUME DelayAssumption ==
    /\ {MinDelay, StartFactor, MaxFactor, Divisor, MaxCycle} \subseteq Nat \ {0}
    /\ StartFactor <= MaxFactor

\* No batch was ready; the last one was uploaded; it was rejected or not answered.
Result == {"nothing", "success", "failure"}

ASSUME OutcomeAssumption == Outcome \subseteq Result

MaxDelay == MinDelay * MaxFactor

VARIABLES
    delay,      \* UploadThreadState::current_delay of each feature
    scheduled,  \* the features in _pq
    due,        \* next_cycle_at of a scheduled feature, from now
    pc,         \* where the upload thread is
    current,    \* the feature it handles or sleeps for
    timer,      \* asleep: what is left of the sleep; in a cycle: its time so far
    stopped,    \* _stopped
    owner       \* where the thread in Core::Stop() is

vars == <<delay, scheduled, due, pc, current, timer, stopped, owner>>

-----------------------------------------------------------------------------
(* Core::Start() and Core::Stop() *)

\* A new scheduler and a new thread; the delays are those of the last run.
Start ==
    /\ pc = "off"
    /\ pc' = "begin"
    /\ stopped' = FALSE
    /\ scheduled' = {}
    /\ UNCHANGED <<delay, due, current, timer, owner>>

StopStore ==
    /\ pc # "off" /\ owner = "idle"
    /\ stopped' = TRUE
    /\ owner' = "stored"
    /\ UNCHANGED <<delay, scheduled, due, pc, current, timer>>

StopNotify ==
    /\ owner = "stored"
    /\ owner' = "joining"
    /\ pc' = IF pc = "asleep" THEN "woken" ELSE pc
    /\ UNCHANGED <<delay, scheduled, due, current, timer, stopped>>

Join ==
    /\ owner = "joining" /\ pc = "ended"
    /\ owner' = "idle"
    /\ pc' = "off"
    /\ UNCHANGED <<delay, scheduled, due, current, timer, stopped>>

-----------------------------------------------------------------------------
(* UploadThreadMain *)

\* The first cycle of every feature.
ScheduleAll ==
    /\ pc = "begin"
    /\ scheduled' = Feature
    /\ due' = delay
    /\ pc' = "wait"
    /\ UNCHANGED <<delay, current, timer, stopped, owner>>

\* Mutant of Top: the queue is a max-heap.
TopLatest(f) == f \in scheduled /\ \A g \in scheduled : due[f] >= due[g]

\* A feature that _pq.top() may be: the earliest, ties broken at will.
Top(f) == f \in scheduled /\ \A g \in scheduled : due[f] <= due[g]

\* The thread goes to its next cycle.
BeginCycle(f) ==
    /\ scheduled' = scheduled \ {f}
    /\ current' = f
    /\ timer' = 0
    /\ pc' = "cycle"

\* WaitForNext, when the first feature is due already, or none is left.
TakeDue ==
    /\ pc = "wait"
    /\ \/ \E f \in Feature : Top(f) /\ due[f] <= 0 /\ BeginCycle(f)
       \/ scheduled = {} /\ pc' = "ended" /\ UNCHANGED <<scheduled, current, timer>>
    /\ UNCHANGED <<delay, due, stopped, owner>>

\* WaitForNext, when no feature is due: SleepFor tests the flag and waits, both
\* under the mutex that Stop() takes to notify.
FallAsleep ==
    /\ pc = "wait"
    /\ \E f \in Feature :
          /\ Top(f) /\ due[f] > 0
          /\ \/ stopped /\ pc' = "ended" /\ UNCHANGED <<current, timer>>
             \/ ~stopped /\ current' = f /\ timer' = due[f] /\ pc' = "asleep"
    /\ UNCHANGED <<delay, scheduled, due, stopped, owner>>

SpuriousWakeup ==
    /\ pc = "asleep" /\ timer > 0
    /\ pc' = "woken"
    /\ UNCHANGED <<delay, scheduled, due, current, timer, stopped, owner>>

\* Mutant of Retest: any wake-up counts as the end of the sleep.
RetestNothing ==
    /\ pc = "woken"
    /\ \/ stopped /\ pc' = "ended" /\ UNCHANGED <<scheduled, current, timer>>
       \/ ~stopped /\ BeginCycle(current)
    /\ UNCHANGED <<delay, due, stopped, owner>>

\* The predicate of wait_for after a wake-up.
Retest ==
    /\ pc = "woken"
    /\ pc' = IF stopped THEN "ended" ELSE "asleep"
    /\ UNCHANGED <<delay, scheduled, due, current, timer, stopped, owner>>

\* The sleep is over; the predicate is tested once more.
TimeOut ==
    /\ pc = "asleep" /\ timer = 0
    /\ \/ stopped /\ pc' = "ended" /\ UNCHANGED <<scheduled, current, timer>>
       \/ ~stopped /\ BeginCycle(current)
    /\ UNCHANGED <<delay, due, stopped, owner>>

\* IncreaseDelayTowardMax.
Longer(d) == IF d + d \div Divisor <= MaxDelay THEN d + d \div Divisor ELSE MaxDelay

\* The delay after a cycle, from the one before it: the end of _run_upload_cycle.
NewDelay(result, d) ==
    CASE result = "nothing" -> d
      [] result = "success" -> MinDelay
      [] result = "failure" -> Longer(d)

\* Mutant of Reschedule: a feature whose upload failed is not scheduled again.
RescheduleUnlessFailed(result) ==
    scheduled' = IF result = "failure" THEN scheduled ELSE scheduled \cup {current}

\* Schedule() puts the feature back into the queue, whatever its cycle's result.
Reschedule(result) == scheduled' = scheduled \cup {current}

\* Mutant of EndCycle: the next cycle is due at once.
EndCycleUndelayed(result) ==
    /\ pc = "cycle"
    /\ delay' = [delay EXCEPT ![current] = NewDelay(result, @)]
    /\ Reschedule(result)
    /\ due' = [due EXCEPT ![current] = 0]
    /\ timer' = 0
    /\ pc' = "wait"
    /\ UNCHANGED <<current, stopped, owner>>

\* The end of _run_upload_cycle, with the result of its last batch.
EndCycle(result) ==
    /\ pc = "cycle"
    /\ delay' = [delay EXCEPT ![current] = NewDelay(result, @)]
    /\ Reschedule(result)
    /\ due' = [due EXCEPT ![current] = delay'[current]]
    /\ timer' = 0
    /\ pc' = "wait"
    /\ UNCHANGED <<current, stopped, owner>>

-----------------------------------------------------------------------------

Tick ==
    /\ \/ pc \in {"asleep", "woken"} /\ timer > 0 /\ timer' = timer - 1
       \/ pc = "cycle" /\ timer < MaxCycle /\ timer' = timer + 1
    /\ due' = [f \in Feature |-> IF f \in scheduled THEN due[f] - 1 ELSE due[f]]
    /\ UNCHANGED <<delay, scheduled, pc, current, stopped, owner>>

Init ==
    /\ delay = [f \in Feature |-> MinDelay * StartFactor]
    /\ scheduled = {}
    /\ due = [f \in Feature |-> 0]
    /\ pc = "off"
    /\ current \in Feature
    /\ timer = 0
    /\ stopped = FALSE
    /\ owner = "idle"

UploadStep ==
    \/ ScheduleAll \/ TakeDue \/ FallAsleep \/ Retest \/ TimeOut
    \/ \E result \in Outcome : EndCycle(result)

Next == Start \/ StopStore \/ StopNotify \/ Join \/ UploadStep \/ SpuriousWakeup \/ Tick

Spec == Init /\ [][Next]_vars

\* Time goes on, the upload thread is scheduled, and Stop() finishes once it is
\* called; nobody has to call it.
FairSpec ==
    Spec /\ WF_vars(UploadStep) /\ WF_vars(Tick) /\ WF_vars(StopNotify) /\ WF_vars(Join)

-----------------------------------------------------------------------------
(* Properties *)

TypeOK ==
    /\ delay \in [Feature -> MinDelay .. MaxDelay]
    /\ scheduled \in SUBSET Feature
    /\ due \in [Feature -> Int]
    /\ pc \in {"off", "begin", "wait", "asleep", "woken", "cycle", "ended"}
    /\ current \in Feature
    /\ timer \in Nat
    /\ stopped \in BOOLEAN
    /\ owner \in {"idle", "stored", "joining"}

\* The scheduled features that are due later than f.
Later(f) == {g \in scheduled : due[g] > due[f]}

\* However slow the uploads of the other features are, each of them is served
\* at most once while f is overdue: a cycle is at most that much late.
Punctual ==
    \A f \in scheduled : due[f] >= - (MaxCycle * (Cardinality(Feature) - 1))

\* A feature's next cycle does not begin before its delay is over, whatever
\* wakes the thread.
NoCycleEarly ==
    [][pc # "cycle" /\ pc' = "cycle" => due[current'] <= 0]_vars

\* Once Stop() has notified, the thread does not sleep on (upload_scheduler_test:
\* the thread exits immediately).
StopIsPrompt == owner = "joining" => pc # "asleep"

\* Every feature has another cycle, again and again, until Stop() is called.
EveryFeatureServed ==
    \A f \in Feature :
        pc = "begin" \/ (pc = "cycle" /\ current # f) ~> (pc = "cycle" /\ current = f) \/ stopped

\* No cycle lasts so long that one for every other feature outlasts its delay.
Quick == pc = "cycle" => timer * (Cardinality(Feature) - 1) < MinDelay

\* Core::Stop() and UploadScheduler::Stop() promise that no cycle is scheduled any more:
\* the thread exits once its cycle is over.  It does at once when it sleeps; otherwise
\* it exits only when no feature is due, for WaitForNext hands out one that is without
\* a look at the flag.  So what Stop() can count on is less: it returns if the cycles
\* are quick from some time on, however slow and however many they were before.
StopEndsUploads == []StopIsPrompt /\ (<>[]Quick => (stopped ~> pc = "off"))
=============================================================================
