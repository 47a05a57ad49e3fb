------------------------ MODULE UploadSchedule_proofs ------------------------
(***************************************************************************)
(* Theorems about UploadSchedule for every number of features and every    *)
(* delay.  The argument for Punctual: when a cycle ends, its feature goes  *)
(* behind every feature that is overdue, so each cycle that delays f adds  *)
(* a feature to Later(f), and there are only so many features.             *)
(***************************************************************************)
EXTENDS UploadSchedule, FiniteSetTheorems, TLAPS

\* What the current cycle has cost the features that wait for its end.
Delayed == IF pc = "cycle" THEN timer ELSE 0

\* Each feature that is due after f has delayed f by at most one cycle.
LateByOthers ==
    \A f \in scheduled : due[f] >= - (MaxCycle * Cardinality(Later(f)) + Delayed)

\* A sleep ends when the first feature is due.
SleepsForTop ==
    pc \in {"asleep", "woken"} => Top(current) /\ timer = due[current]

\* The feature in its cycle is not in the queue.
CycleOutOfQueue ==
    pc = "cycle" => current \notin scheduled /\ timer <= MaxCycle

\* What is known of the flag at each step of Stop().
StopProgress ==
    /\ pc = "off" => owner = "idle"
    /\ owner # "idle" => stopped
    /\ owner = "joining" => pc # "asleep"

IInv == TypeOK /\ LateByOthers /\ SleepsForTop /\ CycleOutOfQueue /\ StopProgress

-----------------------------------------------------------------------------

\* The constants, as numbers.
LEMMA Numbers ==
    /\ MinDelay \in Nat /\ MinDelay >= 1
    /\ MaxDelay \in Nat /\ MinDelay <= MaxDelay
    /\ MinDelay * StartFactor \in MinDelay .. MaxDelay
    /\ MaxCycle \in Nat /\ Divisor \in Nat /\ Divisor >= 1
<1>1. /\ MinDelay \in Nat \ {0} /\ StartFactor \in Nat \ {0}
      /\ MaxFactor \in Nat \ {0} /\ Divisor \in Nat \ {0} /\ MaxCycle \in Nat \ {0}
  BY DelayAssumption
<1>2. \A m, s, x \in Nat \ {0} : s <= x => m * s \in Nat /\ m * x \in Nat /\ m <= m * s /\ m * s <= m * x
  OBVIOUS
<1> QED
  BY <1>1, <1>2, DelayAssumption DEF MaxDelay

\* A longer delay stays between the limits.
LEMMA LongerType ==
    ASSUME NEW d \in MinDelay .. MaxDelay
    PROVE  Longer(d) \in MinDelay .. MaxDelay
<1>1. d \div Divisor \in Nat
  BY Numbers
<1> QED
  BY <1>1, Numbers DEF Longer

\* A set of other features is finite and smaller than the set of all.
LEMMA OthersSize ==
    ASSUME NEW f \in Feature, NEW S \in SUBSET (Feature \ {f})
    PROVE  /\ IsFiniteSet(S)
           /\ Cardinality(S) \in Nat
           /\ Cardinality(S) <= Cardinality(Feature) - 1
<1>1. /\ IsFiniteSet(Feature \ {f})
      /\ Cardinality(Feature \ {f}) = Cardinality(Feature) - 1
  BY FeatureAssumption, FS_RemoveElement
<1>2. IsFiniteSet(S) /\ Cardinality(S) <= Cardinality(Feature \ {f})
  BY <1>1, FS_Subset
<1> QED
  BY <1>1, <1>2, FeatureAssumption, FS_CardinalityType

-----------------------------------------------------------------------------

\* The invariant holds initially.
LEMMA InitInv == Init => IInv
<1> SUFFICES ASSUME Init PROVE IInv
  OBVIOUS
<1>1. delay \in [Feature -> MinDelay .. MaxDelay]
  <2>1. \A d \in MinDelay .. MaxDelay :
          [f \in Feature |-> d] \in [Feature -> MinDelay .. MaxDelay]
    OBVIOUS
  <2> QED
    BY <2>1, Numbers DEF Init
<1>2. due \in [Feature -> Int]
  BY DEF Init
<1>3. TypeOK
  BY <1>1, <1>2 DEF Init, TypeOK
<1> QED
  BY <1>3 DEF Init, IInv, LateByOthers, SleepsForTop, CycleOutOfQueue, StopProgress

\* The step that puts a feature into its cycle keeps the invariant, when the
\* feature is one of the first in the queue.
LEMMA BeginCycleInv ==
    ASSUME IInv, NEW f \in Feature, Top(f), BeginCycle(f), pc # "cycle",
           UNCHANGED <<delay, due, stopped, owner>>, pc # "off"
    PROVE  IInv'
<1> USE DEF BeginCycle
<1>1. TypeOK'
  BY DEF IInv, TypeOK
<1>2. LateByOthers'
  <2> SUFFICES ASSUME NEW g \in scheduled, g # f
               PROVE  due[g] >= - (MaxCycle * Cardinality(Later(g)') + 0)
    BY DEF LateByOthers, Delayed
  <2>1. due[f] <= due[g] /\ f \in scheduled
    BY DEF Top
  <2>2. f \notin Later(g)
    BY <2>1 DEF Later, IInv, TypeOK
  <2>3. Later(g)' = Later(g)
    BY <2>2 DEF Later
  <2>4. due[g] >= - (MaxCycle * Cardinality(Later(g)) + 0)
    BY DEF IInv, LateByOthers, Delayed
  <2> QED
    BY <2>3, <2>4
<1>3. SleepsForTop' /\ CycleOutOfQueue'
  BY Numbers DEF SleepsForTop, CycleOutOfQueue
<1>4. StopProgress'
  BY DEF IInv, StopProgress
<1> QED
  BY <1>1, <1>2, <1>3, <1>4 DEF IInv

\* The end of a cycle puts its feature behind everything that is overdue.
LEMMA EndCycleInv ==
    ASSUME IInv, NEW result \in Outcome, EndCycle(result)
    PROVE  IInv'
<1>0. TypeOK /\ current \in Feature /\ current \notin scheduled /\ timer \in Nat /\ timer <= MaxCycle
  BY DEF IInv, CycleOutOfQueue, TypeOK, EndCycle
<1>e. /\ pc = "cycle" /\ pc' = "wait" /\ timer' = 0
      /\ scheduled' = scheduled \cup {current}
      /\ UNCHANGED <<current, stopped, owner>>
  BY DEF EndCycle, Reschedule
<1>1. /\ delay' \in [Feature -> MinDelay .. MaxDelay]
      /\ delay'[current] \in Nat /\ delay'[current] >= 1
  <2> DEFINE d == NewDelay(result, delay[current])
  <2>1. delay \in [Feature -> MinDelay .. MaxDelay] /\ delay[current] \in MinDelay .. MaxDelay
    BY <1>0 DEF TypeOK
  <2>2. result \in {"nothing", "success", "failure"}
    BY OutcomeAssumption DEF Result
  <2>3. d \in MinDelay .. MaxDelay
    BY <2>1, <2>2, LongerType, Numbers DEF NewDelay
  <2>4. delay' = [delay EXCEPT ![current] = d]
    BY DEF EndCycle
  <2> HIDE DEF d
  <2>5. delay' \in [Feature -> MinDelay .. MaxDelay] /\ delay'[current] = d
    BY <2>1, <2>3, <2>4, <1>0
  <2> QED
    BY <2>3, <2>5, Numbers
<1>2. /\ due' \in [Feature -> Int]
      /\ due'[current] = delay'[current]
      /\ \A g \in Feature \ {current} : due'[g] = due[g]
  <2> DEFINE d == delay'[current]
  <2>1. d \in Int /\ due \in [Feature -> Int]
    BY <1>0, <1>1 DEF TypeOK
  <2>2. due' = [due EXCEPT ![current] = d]
    BY DEF EndCycle
  <2> HIDE DEF d
  <2>3. due' \in [Feature -> Int] /\ due'[current] = d /\ \A g \in Feature \ {current} : due'[g] = due[g]
    BY <2>1, <2>2, <1>0
  <2> QED
    BY <2>3 DEF d
<1>3. TypeOK'
  BY <1>0, <1>e, <1>1, <1>2 DEF TypeOK
<1>4. LateByOthers'
  <2> SUFFICES ASSUME NEW g \in scheduled'
               PROVE  due'[g] >= - (MaxCycle * Cardinality(Later(g)') + 0)
    BY <1>e DEF LateByOthers, Delayed
  <2>1. g \in Feature
    BY <1>0, <1>e DEF TypeOK
  <2>2. Cardinality(Later(g)') \in Nat
    <3>1. Later(g)' \subseteq Feature \ {g}
      BY <1>3 DEF Later, TypeOK
    <3> QED
      BY <2>1, <3>1, OthersSize
  <2>3. CASE due'[g] >= 0
    <3>1. \A c, k \in Nat : c * k \in Nat
      OBVIOUS
    <3>2. MaxCycle * Cardinality(Later(g)') \in Nat
      BY <3>1, <2>2, Numbers
    <3>3. due'[g] \in Int
      BY <1>2, <2>1
    <3> QED
      BY <3>2, <3>3, <2>3
  <2>4. CASE ~(due'[g] >= 0)
    <3>1. g # current /\ g \in scheduled /\ due'[g] = due[g] /\ due[g] \in Int /\ due[g] < 0
      <4>1. g # current
        BY <2>4, <1>1, <1>2
      <4> QED
        BY <4>1, <2>4, <1>0, <1>e, <1>2, <2>1 DEF TypeOK
    <3>2. Later(g)' = Later(g) \cup {current} /\ current \notin Later(g)
      <4>1. scheduled \subseteq Feature
        BY <1>0 DEF TypeOK
      <4>2. \A h \in scheduled : h # current /\ due'[h] = due[h]
        BY <4>1, <1>0, <1>2
      <4>3. due'[current] > due'[g]
        BY <3>1, <1>1, <1>2
      <4> QED
        BY <3>1, <4>2, <4>3, <1>0, <1>e DEF Later
    <3>3. IsFiniteSet(Later(g)) /\ Cardinality(Later(g)) \in Nat
      <4>1. Later(g) \subseteq Feature \ {g}
        BY <1>0 DEF Later, TypeOK
      <4> QED
        BY <2>1, <4>1, OthersSize
    <3>4. Cardinality(Later(g)') = Cardinality(Later(g)) + 1
      BY <3>2, <3>3, FS_AddElement
    <3>5. due[g] >= - (MaxCycle * Cardinality(Later(g)) + timer)
      BY <3>1, <1>e DEF IInv, LateByOthers, Delayed
    <3>6. \A c, k \in Nat : c * k \in Nat /\ c * (k + 1) = c * k + c
      OBVIOUS
    <3>7. /\ MaxCycle * Cardinality(Later(g)) \in Nat
          /\ MaxCycle * (Cardinality(Later(g)) + 1) = MaxCycle * Cardinality(Later(g)) + MaxCycle
      BY <3>6, <3>3, Numbers
    <3> QED
      BY <3>1, <3>4, <3>5, <3>7, <1>0, Numbers
  <2> QED
    BY <2>3, <2>4
<1>5. SleepsForTop' /\ CycleOutOfQueue'
  BY <1>e DEF SleepsForTop, CycleOutOfQueue
<1>6. StopProgress'
  BY <1>e DEF IInv, StopProgress
<1> QED
  BY <1>3, <1>4, <1>5, <1>6 DEF IInv

\* A tick brings every scheduled feature nearer, and keeps their order.
LEMMA TickInv ==
    ASSUME IInv, Tick
    PROVE  IInv'
<1> USE DEF Tick
<1>0. /\ TypeOK
      /\ scheduled \subseteq Feature /\ scheduled' = scheduled
      /\ \A g \in scheduled : due[g] \in Int /\ due'[g] = due[g] - 1
      /\ due' \in [Feature -> Int]
  BY DEF IInv, TypeOK
<1>1. TypeOK'
  BY <1>0 DEF TypeOK
<1>2. \A g \in scheduled : Later(g)' = Later(g)
  BY <1>0 DEF Later
<1>3. SleepsForTop'
  BY <1>0 DEF IInv, SleepsForTop, Top, TypeOK
<1>4. LateByOthers'
  <2> SUFFICES ASSUME NEW g \in scheduled
               PROVE  due'[g] >= - (MaxCycle * Cardinality(Later(g)) + Delayed')
    BY <1>0, <1>2 DEF LateByOthers
  <2>1. MaxCycle * Cardinality(Later(g)) \in Nat
    <3>1. Cardinality(Later(g)) \in Nat
      <4>1. Later(g) \subseteq Feature \ {g} /\ g \in Feature
        <5>1. due[g] \in Int /\ ~(due[g] > due[g])
          BY <1>0
        <5>2. scheduled \subseteq Feature
          BY <1>0
        <5> QED
          BY <5>1, <5>2 DEF Later
      <4> QED
        BY <4>1, OthersSize
    <3>2. \A c, k \in Nat : c * k \in Nat
      OBVIOUS
    <3> QED
      BY <3>1, <3>2, Numbers
  <2>2. CASE pc = "cycle"
    <3>1. due[g] >= - (MaxCycle * Cardinality(Later(g)) + timer)
      BY <2>2 DEF IInv, LateByOthers, Delayed
    <3>2. Delayed' = timer + 1 /\ timer \in Nat
      BY <2>2, <1>0 DEF Delayed, TypeOK
    <3> QED
      BY <3>1, <3>2, <2>1, <1>0
  <2>3. CASE pc # "cycle"
    <3>1. pc \in {"asleep", "woken"} /\ timer > 0 /\ Delayed' = 0
      BY <2>3 DEF Delayed
    <3>2. due[g] >= due[current] /\ due[current] = timer /\ timer \in Nat
      BY <3>1 DEF IInv, SleepsForTop, Top, TypeOK
    <3> QED
      BY <3>1, <3>2, <2>1, <1>0
  <2> QED
    BY <2>2, <2>3
<1>5. CycleOutOfQueue'
  BY <1>0, Numbers DEF IInv, CycleOutOfQueue, TypeOK
<1>6. StopProgress'
  BY DEF IInv, StopProgress
<1> QED
  BY <1>1, <1>3, <1>4, <1>5, <1>6 DEF IInv

\* The steps that leave the queue, the times and the delays alone.
LEMMA QuietInv ==
    ASSUME IInv, UNCHANGED <<delay, scheduled, due, current, timer>>, TypeOK',
           Delayed' = Delayed, SleepsForTop', CycleOutOfQueue', StopProgress'
    PROVE  IInv'
<1>1. \A g \in scheduled : Later(g)' = Later(g)
  BY DEF Later
<1> QED
  BY <1>1 DEF IInv, LateByOthers

\* Every step keeps the invariant.
LEMMA NextInv == IInv /\ [Next]_vars => IInv'
<1> SUFFICES ASSUME IInv, [Next]_vars PROVE IInv'
  OBVIOUS
<1> USE DEF StopProgress, CycleOutOfQueue, SleepsForTop
<1>1. CASE Start
  <2>1. TypeOK'
    BY <1>1 DEF Start, IInv, TypeOK
  <2> QED
    BY <1>1, <2>1 DEF Start, IInv, LateByOthers
<1>2. CASE StopStore
  BY <1>2, QuietInv DEF StopStore, IInv, TypeOK, Delayed, Top
<1>3. CASE StopNotify
  BY <1>3, QuietInv DEF StopNotify, IInv, TypeOK, Delayed, Top
<1>4. CASE Join
  BY <1>4, QuietInv DEF Join, IInv, TypeOK, Delayed, Top
<1>5. CASE ScheduleAll
  <2> USE <1>5 DEF ScheduleAll
  <2>1. /\ due' \in [Feature -> Int]
        /\ \A f \in Feature : due'[f] \in Nat
    BY Numbers DEF IInv, TypeOK
  <2>2. TypeOK'
    BY <2>1 DEF IInv, TypeOK
  <2>3. LateByOthers'
    <3> SUFFICES ASSUME NEW g \in Feature
                 PROVE  due'[g] >= - (MaxCycle * Cardinality(Later(g)') + 0)
      BY DEF LateByOthers, Delayed
    <3>1. Cardinality(Later(g)') \in Nat
      <4>1. Later(g)' \subseteq Feature \ {g}
        BY <2>2 DEF Later, TypeOK
      <4> QED
        BY <4>1, OthersSize
    <3>2. \A c, k \in Nat : c * k \in Nat
      OBVIOUS
    <3>3. MaxCycle * Cardinality(Later(g)') \in Nat
      BY <3>1, <3>2, Numbers
    <3> QED
      BY <2>1, <3>3
  <2> QED
    BY <2>2, <2>3 DEF IInv
<1>6. CASE TakeDue
  <2>1. CASE \E f \in Feature : Top(f) /\ due[f] <= 0 /\ BeginCycle(f)
    BY <1>6, <2>1, BeginCycleInv DEF TakeDue
  <2>2. CASE scheduled = {} /\ pc' = "ended" /\ UNCHANGED <<scheduled, current, timer>>
    BY <1>6, <2>2, QuietInv DEF TakeDue, IInv, TypeOK, Delayed
  <2> QED
    BY <1>6, <2>1, <2>2 DEF TakeDue
<1>7. CASE FallAsleep
  <2>1. PICK f \in Feature :
          /\ Top(f) /\ due[f] > 0
          /\ \/ stopped /\ pc' = "ended" /\ UNCHANGED <<current, timer>>
             \/ ~stopped /\ current' = f /\ timer' = due[f] /\ pc' = "asleep"
    BY <1>7 DEF FallAsleep
  <2>2. TypeOK'
    BY <1>7, <2>1 DEF FallAsleep, IInv, TypeOK
  <2>3. LateByOthers'
    <3>1. \A g \in scheduled : Later(g)' = Later(g)
      BY <1>7 DEF FallAsleep, Later
    <3>2. Delayed = 0 /\ Delayed' = 0
      BY <1>7, <2>1 DEF FallAsleep, Delayed
    <3> QED
      BY <1>7, <3>1, <3>2 DEF FallAsleep, IInv, LateByOthers
  <2> QED
    BY <1>7, <2>1, <2>2, <2>3 DEF FallAsleep, IInv, Top
<1>8. CASE Retest
  BY <1>8, QuietInv DEF Retest, IInv, TypeOK, Delayed, Top
<1>9. CASE TimeOut
  <2>1. CASE stopped /\ pc' = "ended" /\ UNCHANGED <<scheduled, current, timer>>
    BY <1>9, <2>1, QuietInv DEF TimeOut, IInv, TypeOK, Delayed
  <2>2. CASE ~stopped /\ BeginCycle(current)
    BY <1>9, <2>2, BeginCycleInv DEF TimeOut, IInv, TypeOK
  <2> QED
    BY <1>9, <2>1, <2>2 DEF TimeOut
<1>10. CASE \E result \in Outcome : EndCycle(result)
  BY <1>10, EndCycleInv
<1>11. CASE SpuriousWakeup
  BY <1>11, QuietInv DEF SpuriousWakeup, IInv, TypeOK, Delayed, Top
<1>12. CASE Tick
  BY <1>12, TickInv
<1>13. CASE UNCHANGED vars
  BY <1>13, QuietInv DEF vars, IInv, TypeOK, Delayed, Top
<1> QED
  BY <1>1, <1>2, <1>3, <1>4, <1>5, <1>6, <1>7, <1>8, <1>9, <1>10, <1>11, <1>12, <1>13
  DEF Next, UploadStep

\* The strengthened invariant of UploadScheduler and its thread.
THEOREM Invariant == Spec => []IInv
BY InitInv, NextInv, PTL DEF Spec

-----------------------------------------------------------------------------

\* Every variable keeps its type; the backoff stays between min_delay and
\* max_delay.
THEOREM TypeCorrect == Spec => []TypeOK
<1>1. IInv => TypeOK
  BY DEF IInv
<1> QED
  BY <1>1, Invariant, PTL

\* No feature's cycle is late by more than one cycle of each other feature,
\* although one thread serves them all.
THEOREM AlwaysPunctual == Spec => []Punctual
<1>1. IInv => Punctual
  <2> SUFFICES ASSUME IInv, NEW f \in scheduled
               PROVE  due[f] >= - (MaxCycle * (Cardinality(Feature) - 1))
    BY DEF Punctual
  <2> DEFINE k == Cardinality(Later(f))
             n == Cardinality(Feature) - 1
  <2>1. f \in Feature /\ due[f] \in Int
    BY DEF IInv, TypeOK
  <2>2. k \in Nat /\ k <= n /\ n \in Int
    <3>1. Later(f) \subseteq Feature \ {f}
      BY DEF Later, IInv, TypeOK
    <3> QED
      BY <2>1, <3>1, OthersSize, FeatureAssumption, FS_CardinalityType
  <2>3. due[f] >= - (MaxCycle * k + Delayed)
    BY DEF IInv, LateByOthers
  <2>4. CASE pc # "cycle"
    <3>1. \A c \in Nat, i \in Nat, j \in Int : i <= j => c * i \in Nat /\ c * j \in Int /\ c * i <= c * j
      OBVIOUS
    <3>2. MaxCycle * k \in Nat /\ MaxCycle * n \in Int /\ MaxCycle * k <= MaxCycle * n
      BY <3>1, <2>2, Numbers
    <3> QED
      BY <2>1, <2>3, <2>4, <3>2 DEF Delayed
  <2>5. CASE pc = "cycle"
    <3>1. current \in Feature /\ current \notin scheduled /\ timer \in Nat /\ timer <= MaxCycle
      BY <2>5 DEF IInv, CycleOutOfQueue, TypeOK
    <3>2. k + 1 <= n
      <4>1. Later(f) \subseteq (Feature \ {f}) \ {current}
        BY <3>1 DEF Later, IInv, TypeOK
      <4>2. /\ IsFiniteSet(Feature \ {f})
            /\ Cardinality(Feature \ {f}) = n
        BY <2>1, FeatureAssumption, FS_RemoveElement
      <4>3. current \in Feature \ {f}
        BY <3>1
      <4>4. /\ IsFiniteSet((Feature \ {f}) \ {current})
            /\ Cardinality((Feature \ {f}) \ {current}) = n - 1
        BY <4>2, <4>3, FS_RemoveElement
      <4>5. k <= n - 1
        BY <4>1, <4>4, FS_Subset
      <4> QED
        BY <4>5, <2>2
    <3>3. \A c \in Nat, i \in Nat, j \in Int :
            i + 1 <= j => c * i \in Nat /\ c * j \in Int /\ c * i + c <= c * j
      <4>1. \A c \in Nat, i \in Nat, j \in Int : i + 1 <= j => c * (i + 1) <= c * j
        OBVIOUS
      <4>2. \A c \in Nat, i \in Nat : c * (i + 1) = c * i + c /\ c * i \in Nat
        OBVIOUS
      <4> QED
        BY <4>1, <4>2
    <3>4. MaxCycle * k \in Nat /\ MaxCycle * n \in Int /\ MaxCycle * k + MaxCycle <= MaxCycle * n
      BY <3>2, <3>3, <2>2, Numbers
    <3> QED
      BY <2>1, <2>3, <2>5, <3>1, <3>4, Numbers DEF Delayed
  <2> QED
    BY <2>4, <2>5
<1> QED
  BY <1>1, Invariant, PTL

\* A wake-up of the upload thread, spurious or not, starts no cycle before the
\* feature's delay is over.
THEOREM NeverEarly == Spec => NoCycleEarly
<1>1. IInv /\ [Next]_vars => (pc # "cycle" /\ pc' = "cycle" => due[current'] <= 0)
  <2> SUFFICES ASSUME IInv, [Next]_vars, pc # "cycle", pc' = "cycle"
               PROVE  due[current'] <= 0
    OBVIOUS
  <2>1. TakeDue \/ TimeOut
    BY DEF Next, UploadStep, vars, Start, StopStore, StopNotify, Join, ScheduleAll,
           FallAsleep, Retest, EndCycle, SpuriousWakeup, Tick
  <2>2. CASE TakeDue
    BY <2>2 DEF TakeDue, BeginCycle
  <2>3. CASE TimeOut
    BY <2>3 DEF TimeOut, BeginCycle, IInv, SleepsForTop, TypeOK
  <2> QED
    BY <2>1, <2>2, <2>3
<1> QED
  BY <1>1, Invariant, PTL DEF Spec, NoCycleEarly

\* A sleeping upload thread is woken by Stop() at once.
THEOREM PromptStop == Spec => []StopIsPrompt
<1>1. IInv => StopIsPrompt
  BY DEF IInv, StopProgress, StopIsPrompt
<1> QED
  BY <1>1, Invariant, PTL
=============================================================================
