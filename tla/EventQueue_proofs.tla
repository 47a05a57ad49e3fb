-------------------------- MODULE EventQueue_proofs --------------------------
(***************************************************************************)
(* Proofs about EventQueue, for any number of producers and consumers, any *)
(* number of calls and any number of spurious wake-ups.                    *)
(***************************************************************************)
EXTENDS EventQueue, SequenceTheorems, TLAPS

USE ThreadsAssumption, BoundsAssumption DEF ThreadsAssumption, BoundsAssumption

\* A thread is between its lock and its unlock exactly while it owns _mutex.
Locking ==
    /\ \A p \in Producers : pc[p] \in {"check", "append"} <=> mutex = p
    /\ \A c \in Consumers : pc[c] \in {"test", "sleep", "take"} <=> mutex = c
    /\ pc[Owner] = "notify" <=> mutex = Owner

\* The flag is set for as long as Stop() is under way or over, and a Push()
\* that saw it clear keeps Stop() from returning.
Stopping ==
    /\ isStopped <=> pc[Owner] # "idle"
    /\ \A p \in Producers : pc[p] = "append" => pc[Owner] # "done"

\* What a consumer that holds the mutex knows from evaluating the predicate.
Tested ==
    /\ \A c \in Consumers : pc[c] = "take" => items # <<>> \/ isStopped
    /\ \A c \in Consumers : pc[c] = "sleep" =>
            /\ items = <<>>
            /\ isStopped => pc[Owner] = "lock"

\* The inductive invariant.
IInv == /\ TypeOK
        /\ Locking
        /\ Stopping
        /\ Tested
        /\ ExactlyOnceInOrder
        /\ EndMeansDrained
        /\ NoLostWakeup

-----------------------------------------------------------------------------

\* The initial state is well typed.
LEMMA InitTypeOK == Init => TypeOK
<1> SUFFICES ASSUME Init PROVE TypeOK
  OBVIOUS
<1>1. calls \in [Producers -> 0..MaxPush] /\ spurious \in 0..MaxSpurious
  BY DEF Init
<1>2. items \in Seq(Items) /\ accepted \in Seq(Items) /\ taken \in Seq(Items)
  BY DEF Init
<1>3. pc \in [Threads -> {"idle"}]
  BY DEF Init
<1> QED
  BY <1>1, <1>2, <1>3 DEF Init, TypeOK, Threads, ProducerPC, ConsumerPC, OwnerPC

\* Every step keeps the types.
LEMMA NextTypeOK == TypeOK /\ [Next]_vars => TypeOK'
<1> SUFFICES ASSUME TypeOK, [Next]_vars PROVE TypeOK'
  OBVIOUS
<1> USE DEF TypeOK, Threads, ProducerPC, ConsumerPC, OwnerPC, Goto, Asleep, Items
<1>1. ASSUME NEW p \in Producers, PushLock(p) PROVE TypeOK'
  BY <1>1 DEF PushLock
<1>2. ASSUME NEW p \in Producers, PushReject(p) PROVE TypeOK'
  BY <1>2 DEF PushReject
<1>3. ASSUME NEW p \in Producers, PushAdmit(p) PROVE TypeOK'
  BY <1>3 DEF PushAdmit
<1>4. ASSUME NEW p \in Producers, PushAppend(p) PROVE TypeOK'
  <2>1. <<p, calls[p]>> \in Items
    BY <1>4 DEF PushAppend
  <2>2. items' \in Seq(Items) /\ accepted' \in Seq(Items)
    BY <1>4, <2>1 DEF PushAppend
  <2>3. CASE Goto(p, "idle")
    BY <1>4, <2>2, <2>3 DEF PushAppend
  <2>4. ASSUME NEW c \in Asleep, pc' = [pc EXCEPT ![p] = "idle", ![c] = "idle"]
        PROVE  TypeOK'
    BY <1>4, <2>2, <2>4 DEF PushAppend
  <2> QED
    BY <1>4, <2>3, <2>4 DEF PushAppend
<1>5. ASSUME NEW c \in Consumers, PopLock(c) PROVE TypeOK'
  BY <1>5 DEF PopLock
<1>6. ASSUME NEW c \in Consumers, PopTest(c) PROVE TypeOK'
  BY <1>6 DEF PopTest
<1>7. ASSUME NEW c \in Consumers, PopSleep(c) PROVE TypeOK'
  BY <1>7 DEF PopSleep
<1>8. ASSUME NEW c \in Consumers, PopItem(c) PROVE TypeOK'
  BY <1>8 DEF PopItem
<1>9. ASSUME NEW c \in Consumers, PopNothing(c) PROVE TypeOK'
  BY <1>9 DEF PopNothing
<1>10. ASSUME NEW c \in Consumers, PopSpurious(c) PROVE TypeOK'
  BY <1>10 DEF PopSpurious
<1>11. CASE StopStore
  BY <1>11 DEF StopStore
<1>12. CASE StopLock
  BY <1>12 DEF StopLock
<1>13. CASE StopNotifyAll
  BY <1>13 DEF StopNotifyAll
<1>14. CASE UNCHANGED vars
  BY <1>14 DEF vars
<1> QED
  BY <1>1, <1>2, <1>3, <1>4, <1>5, <1>6, <1>7, <1>8, <1>9, <1>10, <1>11, <1>12, <1>13, <1>14 DEF Next, PushStep, PopStep, StopStep, Terminated

\* Every variable keeps its type, in every reachable state.
THEOREM TypeCorrect == Spec => []TypeOK
BY InitTypeOK, NextTypeOK, PTL DEF Spec

-----------------------------------------------------------------------------

\* Every step keeps mutual exclusion.
LEMMA NextLocking == TypeOK /\ Locking /\ [Next]_vars => Locking'
<1> SUFFICES ASSUME TypeOK, Locking, [Next]_vars PROVE Locking'
  OBVIOUS
<1> USE DEF TypeOK, Locking, Threads, Goto, Asleep
<1>1. ASSUME NEW p \in Producers, PushLock(p) PROVE Locking'
  BY <1>1 DEF PushLock
<1>2. ASSUME NEW p \in Producers, PushReject(p) PROVE Locking'
  BY <1>2 DEF PushReject
<1>3. ASSUME NEW p \in Producers, PushAdmit(p) PROVE Locking'
  BY <1>3 DEF PushAdmit
<1>4. ASSUME NEW p \in Producers, PushAppend(p) PROVE Locking'
  BY <1>4 DEF PushAppend
<1>5. ASSUME NEW c \in Consumers, PopLock(c) PROVE Locking'
  BY <1>5 DEF PopLock
<1>6. ASSUME NEW c \in Consumers, PopTest(c) PROVE Locking'
  BY <1>6 DEF PopTest
<1>7. ASSUME NEW c \in Consumers, PopSleep(c) PROVE Locking'
  BY <1>7 DEF PopSleep
<1>8. ASSUME NEW c \in Consumers, PopItem(c) PROVE Locking'
  BY <1>8 DEF PopItem
<1>9. ASSUME NEW c \in Consumers, PopNothing(c) PROVE Locking'
  BY <1>9 DEF PopNothing
<1>10. ASSUME NEW c \in Consumers, PopSpurious(c) PROVE Locking'
  BY <1>10 DEF PopSpurious
<1>11. CASE StopStore
  BY <1>11 DEF StopStore
<1>12. CASE StopLock
  BY <1>12 DEF StopLock
<1>13. CASE StopNotifyAll
  BY <1>13 DEF StopNotifyAll
<1>14. CASE UNCHANGED vars
  BY <1>14 DEF vars
<1> QED
  BY <1>1, <1>2, <1>3, <1>4, <1>5, <1>6, <1>7, <1>8, <1>9, <1>10, <1>11, <1>12, <1>13, <1>14 DEF Next, PushStep, PopStep, StopStep, Terminated

\* Every step keeps what the flag says about Stop().
LEMMA NextStopping == TypeOK /\ Locking /\ Stopping /\ [Next]_vars => Stopping'
<1> SUFFICES ASSUME TypeOK, Locking, Stopping, [Next]_vars PROVE Stopping'
  OBVIOUS
<1> USE DEF TypeOK, Locking, Stopping, Threads, Goto, Asleep
<1>1. ASSUME NEW p \in Producers, PushLock(p) PROVE Stopping'
  BY <1>1 DEF PushLock
<1>2. ASSUME NEW p \in Producers, PushReject(p) PROVE Stopping'
  BY <1>2 DEF PushReject
<1>3. ASSUME NEW p \in Producers, PushAdmit(p) PROVE Stopping'
  BY <1>3 DEF PushAdmit
<1>4. ASSUME NEW p \in Producers, PushAppend(p) PROVE Stopping'
  BY <1>4 DEF PushAppend
<1>5. ASSUME NEW c \in Consumers, PopLock(c) PROVE Stopping'
  BY <1>5 DEF PopLock
<1>6. ASSUME NEW c \in Consumers, PopTest(c) PROVE Stopping'
  BY <1>6 DEF PopTest
<1>7. ASSUME NEW c \in Consumers, PopSleep(c) PROVE Stopping'
  BY <1>7 DEF PopSleep
<1>8. ASSUME NEW c \in Consumers, PopItem(c) PROVE Stopping'
  BY <1>8 DEF PopItem
<1>9. ASSUME NEW c \in Consumers, PopNothing(c) PROVE Stopping'
  BY <1>9 DEF PopNothing
<1>10. ASSUME NEW c \in Consumers, PopSpurious(c) PROVE Stopping'
  BY <1>10 DEF PopSpurious
<1>11. CASE StopStore
  BY <1>11 DEF StopStore
<1>12. CASE StopLock
  BY <1>12 DEF StopLock
<1>13. CASE StopNotifyAll
  BY <1>13 DEF StopNotifyAll
<1>14. CASE UNCHANGED vars
  BY <1>14 DEF vars
<1> QED
  BY <1>1, <1>2, <1>3, <1>4, <1>5, <1>6, <1>7, <1>8, <1>9, <1>10, <1>11, <1>12, <1>13, <1>14 DEF Next, PushStep, PopStep, StopStep, Terminated

\* Every step keeps what the consumer at the predicate knows.
LEMMA NextTested == TypeOK /\ Locking /\ Stopping /\ Tested /\ [Next]_vars => Tested'
<1> SUFFICES ASSUME TypeOK, Locking, Stopping, Tested, [Next]_vars PROVE Tested'
  OBVIOUS
<1> USE DEF TypeOK, Locking, Stopping, Tested, Threads, Goto, Asleep
<1>1. ASSUME NEW p \in Producers, PushLock(p) PROVE Tested'
  BY <1>1 DEF PushLock
<1>2. ASSUME NEW p \in Producers, PushReject(p) PROVE Tested'
  BY <1>2 DEF PushReject
<1>3. ASSUME NEW p \in Producers, PushAdmit(p) PROVE Tested'
  BY <1>3 DEF PushAdmit
<1>4. ASSUME NEW p \in Producers, PushAppend(p) PROVE Tested'
  BY <1>4 DEF PushAppend
<1>5. ASSUME NEW c \in Consumers, PopLock(c) PROVE Tested'
  BY <1>5 DEF PopLock
<1>6. ASSUME NEW c \in Consumers, PopTest(c) PROVE Tested'
  BY <1>6 DEF PopTest
<1>7. ASSUME NEW c \in Consumers, PopSleep(c) PROVE Tested'
  BY <1>7 DEF PopSleep
<1>8. ASSUME NEW c \in Consumers, PopItem(c) PROVE Tested'
  BY <1>8 DEF PopItem
<1>9. ASSUME NEW c \in Consumers, PopNothing(c) PROVE Tested'
  BY <1>9 DEF PopNothing
<1>10. ASSUME NEW c \in Consumers, PopSpurious(c) PROVE Tested'
  BY <1>10 DEF PopSpurious
<1>11. CASE StopStore
  BY <1>11 DEF StopStore
<1>12. CASE StopLock
  BY <1>12 DEF StopLock
<1>13. CASE StopNotifyAll
  BY <1>13 DEF StopNotifyAll
<1>14. CASE UNCHANGED vars
  BY <1>14 DEF vars
<1> QED
  BY <1>1, <1>2, <1>3, <1>4, <1>5, <1>6, <1>7, <1>8, <1>9, <1>10, <1>11, <1>12, <1>13, <1>14 DEF Next, PushStep, PopStep, StopStep, Terminated

\* Appending to a concatenation appends to its second part.
LEMMA AppendToConcat ==
  ASSUME NEW S, NEW s \in Seq(S), NEW t \in Seq(S), NEW x \in S
  PROVE  Append(s \o t, x) = s \o Append(t, x)
OBVIOUS

\* Every step keeps the accepted items in order.
LEMMA NextExactlyOnce ==
  TypeOK /\ ExactlyOnceInOrder /\ [Next]_vars => ExactlyOnceInOrder'
<1> SUFFICES ASSUME TypeOK, ExactlyOnceInOrder, [Next]_vars PROVE ExactlyOnceInOrder'
  OBVIOUS
<1> USE DEF TypeOK, ExactlyOnceInOrder
<1>1. ASSUME NEW p \in Producers, PushLock(p) PROVE ExactlyOnceInOrder'
  BY <1>1 DEF PushLock
<1>2. ASSUME NEW p \in Producers, PushReject(p) PROVE ExactlyOnceInOrder'
  BY <1>2 DEF PushReject
<1>3. ASSUME NEW p \in Producers, PushAdmit(p) PROVE ExactlyOnceInOrder'
  BY <1>3 DEF PushAdmit
<1>4. ASSUME NEW p \in Producers, PushAppend(p) PROVE ExactlyOnceInOrder'
  <2>1. <<p, calls[p]>> \in Items
    BY <1>4 DEF PushAppend, Items
  <2>2. Append(taken \o items, <<p, calls[p]>>) = taken \o Append(items, <<p, calls[p]>>)
    <3>1. taken \in Seq(Items) /\ items \in Seq(Items)
      OBVIOUS
    <3> QED
      BY ONLY <2>1, <3>1, AppendToConcat
  <2> QED
    BY <1>4, <2>2 DEF PushAppend
<1>5. ASSUME NEW c \in Consumers, PopLock(c) PROVE ExactlyOnceInOrder'
  BY <1>5 DEF PopLock
<1>6. ASSUME NEW c \in Consumers, PopTest(c) PROVE ExactlyOnceInOrder'
  BY <1>6 DEF PopTest
<1>7. ASSUME NEW c \in Consumers, PopSleep(c) PROVE ExactlyOnceInOrder'
  BY <1>7 DEF PopSleep
<1>8. ASSUME NEW c \in Consumers, PopItem(c) PROVE ExactlyOnceInOrder'
  BY <1>8 DEF PopItem
<1>9. ASSUME NEW c \in Consumers, PopNothing(c) PROVE ExactlyOnceInOrder'
  BY <1>9 DEF PopNothing
<1>10. ASSUME NEW c \in Consumers, PopSpurious(c) PROVE ExactlyOnceInOrder'
  BY <1>10 DEF PopSpurious
<1>11. CASE StopStore
  BY <1>11 DEF StopStore
<1>12. CASE StopLock
  BY <1>12 DEF StopLock
<1>13. CASE StopNotifyAll
  BY <1>13 DEF StopNotifyAll
<1>14. CASE UNCHANGED vars
  BY <1>14 DEF vars
<1> QED
  BY <1>1, <1>2, <1>3, <1>4, <1>5, <1>6, <1>7, <1>8, <1>9, <1>10, <1>11, <1>12, <1>13, <1>14 DEF Next, PushStep, PopStep, StopStep, Terminated

\* Every step keeps a queue drained once a consumer has left it.
LEMMA NextEnd ==
  TypeOK /\ Locking /\ Tested /\ EndMeansDrained /\ [Next]_vars => EndMeansDrained'
<1> SUFFICES ASSUME TypeOK, Locking, Tested, EndMeansDrained, [Next]_vars
             PROVE  EndMeansDrained'
  OBVIOUS
<1> USE DEF TypeOK, Locking, Tested, EndMeansDrained, Threads, Goto, Asleep
<1>1. ASSUME NEW p \in Producers, PushLock(p) PROVE EndMeansDrained'
  BY <1>1 DEF PushLock
<1>2. ASSUME NEW p \in Producers, PushReject(p) PROVE EndMeansDrained'
  BY <1>2 DEF PushReject
<1>3. ASSUME NEW p \in Producers, PushAdmit(p) PROVE EndMeansDrained'
  BY <1>3 DEF PushAdmit
<1>4. ASSUME NEW p \in Producers, PushAppend(p) PROVE EndMeansDrained'
  BY <1>4 DEF PushAppend
<1>5. ASSUME NEW c \in Consumers, PopLock(c) PROVE EndMeansDrained'
  BY <1>5 DEF PopLock
<1>6. ASSUME NEW c \in Consumers, PopTest(c) PROVE EndMeansDrained'
  BY <1>6 DEF PopTest
<1>7. ASSUME NEW c \in Consumers, PopSleep(c) PROVE EndMeansDrained'
  BY <1>7 DEF PopSleep
<1>8. ASSUME NEW c \in Consumers, PopItem(c) PROVE EndMeansDrained'
  BY <1>8 DEF PopItem
<1>9. ASSUME NEW c \in Consumers, PopNothing(c) PROVE EndMeansDrained'
  BY <1>9 DEF PopNothing
<1>10. ASSUME NEW c \in Consumers, PopSpurious(c) PROVE EndMeansDrained'
  BY <1>10 DEF PopSpurious
<1>11. CASE StopStore
  BY <1>11 DEF StopStore
<1>12. CASE StopLock
  BY <1>12 DEF StopLock
<1>13. CASE StopNotifyAll
  BY <1>13 DEF StopNotifyAll
<1>14. CASE UNCHANGED vars
  BY <1>14 DEF vars
<1> QED
  BY <1>1, <1>2, <1>3, <1>4, <1>5, <1>6, <1>7, <1>8, <1>9, <1>10, <1>11, <1>12, <1>13, <1>14 DEF Next, PushStep, PopStep, StopStep, Terminated

\* Every step keeps a waker for each consumer that could go on.
LEMMA NextWakeup ==
  TypeOK /\ Locking /\ Stopping /\ Tested /\ NoLostWakeup /\ [Next]_vars => NoLostWakeup'
<1> SUFFICES ASSUME TypeOK, Locking, Stopping, Tested, NoLostWakeup, [Next]_vars
             PROVE  NoLostWakeup'
  OBVIOUS
<1> USE DEF TypeOK, Locking, Stopping, Tested, NoLostWakeup, Threads, Goto, Asleep
<1>1. ASSUME NEW p \in Producers, PushLock(p) PROVE NoLostWakeup'
  BY <1>1 DEF PushLock
<1>2. ASSUME NEW p \in Producers, PushReject(p) PROVE NoLostWakeup'
  BY <1>2 DEF PushReject
<1>3. ASSUME NEW p \in Producers, PushAdmit(p) PROVE NoLostWakeup'
  BY <1>3 DEF PushAdmit
<1>4. ASSUME NEW p \in Producers, PushAppend(p) PROVE NoLostWakeup'
  BY <1>4 DEF PushAppend
<1>5. ASSUME NEW c \in Consumers, PopLock(c) PROVE NoLostWakeup'
  BY <1>5 DEF PopLock
<1>6. ASSUME NEW c \in Consumers, PopTest(c) PROVE NoLostWakeup'
  BY <1>6 DEF PopTest
<1>7. ASSUME NEW c \in Consumers, PopSleep(c) PROVE NoLostWakeup'
  BY <1>7 DEF PopSleep
<1>8. ASSUME NEW c \in Consumers, PopItem(c) PROVE NoLostWakeup'
  BY <1>8 DEF PopItem
<1>9. ASSUME NEW c \in Consumers, PopNothing(c) PROVE NoLostWakeup'
  BY <1>9 DEF PopNothing
<1>10. ASSUME NEW c \in Consumers, PopSpurious(c) PROVE NoLostWakeup'
  BY <1>10 DEF PopSpurious
<1>11. CASE StopStore
  BY <1>11 DEF StopStore
<1>12. CASE StopLock
  BY <1>12 DEF StopLock
<1>13. CASE StopNotifyAll
  BY <1>13 DEF StopNotifyAll
<1>14. CASE UNCHANGED vars
  BY <1>14 DEF vars
<1> QED
  BY <1>1, <1>2, <1>3, <1>4, <1>5, <1>6, <1>7, <1>8, <1>9, <1>10, <1>11, <1>12, <1>13, <1>14 DEF Next, PushStep, PopStep, StopStep, Terminated

-----------------------------------------------------------------------------

\* The inductive invariant holds in every reachable state.
LEMMA Inductive == Spec => []IInv
<1>1. Init => IInv
  <2> SUFFICES ASSUME Init PROVE IInv
    OBVIOUS
  <2>1. TypeOK
    BY InitTypeOK
  <2>2. ExactlyOnceInOrder
    BY DEF Init, ExactlyOnceInOrder
  <2>3. Locking /\ Stopping /\ Tested
    BY DEF Init, Locking, Stopping, Tested, Threads
  <2>4. EndMeansDrained /\ NoLostWakeup
    BY DEF Init, EndMeansDrained, NoLostWakeup, Threads, Asleep
  <2> QED
    BY <2>1, <2>2, <2>3, <2>4 DEF IInv
<1>2. IInv /\ [Next]_vars => IInv'
  BY NextTypeOK, NextLocking, NextStopping, NextTested, NextExactlyOnce, NextEnd,
     NextWakeup DEF IInv
<1> QED
  BY <1>1, <1>2, PTL DEF Spec

\* No item is lost, duplicated or overtaken.
THEOREM ExactlyOnce == Spec => []ExactlyOnceInOrder
<1>1. IInv => ExactlyOnceInOrder
  BY DEF IInv
<1> QED
  BY Inductive, <1>1, PTL

\* A consumer that got nullopt has seen the last item there will ever be.
THEOREM DrainedAtEnd == Spec => []EndMeansDrained
<1>1. IInv => EndMeansDrained
  BY DEF IInv
<1> QED
  BY Inductive, <1>1, PTL

\* Setting the flag outside the mutex loses no wake-up.
THEOREM WakeupsKept == Spec => []NoLostWakeup
<1>1. IInv => NoLostWakeup
  BY DEF IInv
<1> QED
  BY Inductive, <1>1, PTL

\* Once Stop() has returned, no Push() is accepted.
THEOREM StopIsFinal == Spec => NothingAcceptedAfterStop
<1>1. IInv /\ [Next]_vars => [pc[Owner] = "done" => accepted' = accepted]_vars
  BY DEF IInv, Stopping, Next, PushStep, PopStep, StopStep, Terminated, vars,
         PushLock, PushReject, PushAdmit, PushAppend, PopLock, PopTest, PopSleep,
         PopItem, PopNothing, PopSpurious, StopStore, StopLock, StopNotifyAll
<1> QED
  BY Inductive, <1>1, PTL DEF Spec, NothingAcceptedAfterStop

-----------------------------------------------------------------------------
(* Refinement of ClosableFifo. *)

\* While a thread other than an admitted producer owns the mutex, or nobody
\* does, no item is pending.
LEMMA NonePending ==
  ASSUME Locking, \A p \in Producers : mutex = p => pc[p] # "append"
  PROVE  Admitted = {} /\ Pending = <<>>
BY DEF Locking, Admitted, Pending

\* An admitted producer has its one item pending.
LEMMA OnePending ==
  ASSUME Locking, NEW p \in Producers, pc[p] = "append"
  PROVE  Admitted = {p} /\ Pending = <<<<p, calls[p]>>>>
<1>1. Admitted = {p}
  BY DEF Locking, Admitted
<1>2. (CHOOSE q \in Admitted : TRUE) = p
  BY <1>1
<1> QED
  BY <1>1, <1>2 DEF Pending

\* What is pending changes only with the admitted producers and their calls.
LEMMA SamePending ==
  ASSUME calls' = calls, Admitted' = Admitted
  PROVE  Pending' = Pending
BY DEF Pending

\* Every step of the queue is a step of the closable FIFO or leaves it alone.
LEMMA StepRefines == IInv /\ IInv' /\ [Next]_vars => [Fifo!Next]_(Fifo!vars)
<1> DEFINE ended == {c \in Consumers : pc[c] = "done"}
           fifo  == items \o Pending
           Goal  == [Fifo!Next]_(Fifo!vars)
<1> SUFFICES ASSUME IInv, IInv', [Next]_vars PROVE Goal
  OBVIOUS
<1>0. TypeOK /\ Locking /\ Locking' /\ Tested
  BY DEF IInv
<1>a. ASSUME Pending' = Pending, items' = items, ended' = ended, isStopped' = isStopped
      PROVE  Goal
  BY <1>a DEF Fifo!vars
<1>b. ASSUME ~(\E p \in Producers : mutex = p) PROVE Admitted = {} /\ Pending = <<>>
  BY <1>0, <1>b, NonePending
<1>c. \A s \in Seq(Items) : s \o <<>> = s
  BY ConcatEmptySeq
<1>d. ASSUME Admitted' = Admitted, calls' = calls PROVE Pending' = Pending
  BY <1>d, SamePending
<1> USE DEF Goto
<1>1. ASSUME NEW p \in Producers, PushLock(p) PROVE Goal
  <2>1. Admitted' = Admitted
    BY <1>1, <1>0, <1>b DEF PushLock, Admitted, TypeOK, Threads
  <2>2. Pending' = Pending
    BY <1>1, <1>0, <1>b, <2>1 DEF PushLock, Pending, Threads
  <2>3. ended' = ended
    BY <1>1, <1>0 DEF PushLock, TypeOK, Threads
  <2> QED
    BY <1>1, <1>a, <2>2, <2>3 DEF PushLock
<1>2. ASSUME NEW p \in Producers, PushReject(p) PROVE Goal
  <2>1. Admitted' = Admitted
    BY <1>2, <1>0 DEF PushReject, Admitted, TypeOK, Threads
  <2>2. ended' = ended
    BY <1>2, <1>0 DEF PushReject, TypeOK, Threads
  <2> QED
    BY <1>2, <1>a, <1>d, <2>1, <2>2 DEF PushReject
<1>3. ASSUME NEW p \in Producers, PushAdmit(p) PROVE Goal
  <2>1. Pending = <<>>
    BY <1>3, <1>0, NonePending DEF PushAdmit, Locking
  <2>2. pc'[p] = "append" /\ calls' = calls
    BY <1>3, <1>0 DEF PushAdmit, TypeOK, Threads
  <2>3. Pending' = <<<<p, calls[p]>>>>
    <3>1. Admitted' = {p}
      BY <1>0, <2>2 DEF Locking, Admitted
    <3>2. (CHOOSE q \in Admitted' : TRUE) = p
      BY <3>1
    <3> QED
      BY <2>2, <3>1, <3>2 DEF Pending
  <2>4. ended' = ended
    BY <1>3, <1>0 DEF PushAdmit, TypeOK, Threads
  <2>5. <<p, calls[p]>> \in Items
    BY <1>3, <1>0 DEF PushAdmit, TypeOK, Items
  <2>6. fifo' = Append(fifo, <<p, calls[p]>>)
    BY <1>3, <1>0, <1>c, <2>1, <2>3, <2>5, AppendIsConcat DEF PushAdmit, TypeOK
  <2>7. Fifo!Put(<<p, calls[p]>>)
    BY <1>3, <2>4, <2>6 DEF PushAdmit, Fifo!Put
  <2> QED
    BY <2>5, <2>7 DEF Fifo!Next
<1>4. ASSUME NEW p \in Producers, PushAppend(p) PROVE Goal
  <2>1. Pending = <<<<p, calls[p]>>>>
    BY <1>4, <1>0, OnePending DEF PushAppend
  <2>2. Pending' = <<>>
    <3>1. \A q \in Producers : pc'[q] # "append"
      BY <1>4, <1>0 DEF PushAppend, Locking, TypeOK, Threads, Asleep
    <3> QED
      BY <3>1 DEF Pending, Admitted
  <2>3. ended' = ended
    BY <1>4, <1>0 DEF PushAppend, TypeOK, Threads, Asleep
  <2>4. <<p, calls[p]>> \in Items
    BY <1>4, <1>0 DEF PushAppend, TypeOK, Items
  <2>5. fifo' = fifo
    <3>1. items \in Seq(Items) /\ items' \in Seq(Items)
      BY <1>0, <2>4, <1>4 DEF TypeOK, PushAppend
    <3>2. fifo = Append(items, <<p, calls[p]>>)
      BY <2>1, <2>4, <3>1, AppendIsConcat
    <3>3. fifo' = items'
      BY <1>c, <2>2, <3>1
    <3> QED
      BY <1>4, <3>2, <3>3 DEF PushAppend
  <2> QED
    BY <1>4, <2>3, <2>5 DEF PushAppend, Fifo!vars
<1>5. ASSUME NEW c \in Consumers, PopLock(c) PROVE Goal
  <2>1. Admitted' = Admitted
    BY <1>5, <1>0 DEF PopLock, Admitted, TypeOK, Threads, Asleep
  <2>2. ended' = ended
    BY <1>5, <1>0 DEF PopLock, TypeOK, Threads, Asleep
  <2> QED
    BY <1>5, <1>a, <1>d, <2>1, <2>2 DEF PopLock
<1>6. ASSUME NEW c \in Consumers, PopTest(c) PROVE Goal
  <2>1. Admitted' = Admitted
    BY <1>6, <1>0 DEF PopTest, Admitted, TypeOK, Threads, Asleep
  <2>2. ended' = ended
    BY <1>6, <1>0 DEF PopTest, TypeOK, Threads, Asleep
  <2> QED
    BY <1>6, <1>a, <1>d, <2>1, <2>2 DEF PopTest
<1>7. ASSUME NEW c \in Consumers, PopSleep(c) PROVE Goal
  <2>1. Admitted' = Admitted
    BY <1>7, <1>0 DEF PopSleep, Admitted, TypeOK, Threads, Asleep
  <2>2. ended' = ended
    BY <1>7, <1>0 DEF PopSleep, TypeOK, Threads, Asleep
  <2> QED
    BY <1>7, <1>a, <1>d, <2>1, <2>2 DEF PopSleep
<1>8. ASSUME NEW c \in Consumers, PopSpurious(c) PROVE Goal
  <2>1. Admitted' = Admitted
    BY <1>8, <1>0 DEF PopSpurious, Admitted, TypeOK, Threads, Asleep
  <2>2. ended' = ended
    BY <1>8, <1>0 DEF PopSpurious, TypeOK, Threads, Asleep
  <2> QED
    BY <1>8, <1>a, <1>d, <2>1, <2>2 DEF PopSpurious
<1>9. ASSUME NEW c \in Consumers, PopItem(c) PROVE Goal
  <2>1. Pending = <<>>
    BY <1>9, <1>0, <1>b DEF PopItem, Locking
  <2>2. Admitted' = Admitted
    BY <1>9, <1>0 DEF PopItem, Admitted, TypeOK, Threads
  <2>3. Pending' = <<>>
    BY <1>9, <1>d, <2>1, <2>2 DEF PopItem
  <2>4. ended' = ended
    BY <1>9, <1>0 DEF PopItem, TypeOK, Threads
  <2>5. fifo = items /\ fifo' = Tail(items)
    BY <1>9, <1>0, <1>c, <2>1, <2>3 DEF PopItem, TypeOK
  <2>6. Fifo!Take
    BY <1>9, <2>4, <2>5 DEF PopItem, Fifo!Take
  <2> QED
    BY <2>6 DEF Fifo!Next
<1>10. ASSUME NEW c \in Consumers, PopNothing(c) PROVE Goal
  <2>1. Pending = <<>>
    BY <1>10, <1>0, <1>b DEF PopNothing, Locking
  <2>2. Admitted' = Admitted
    BY <1>10, <1>0 DEF PopNothing, Admitted, TypeOK, Threads
  <2>3. Pending' = <<>>
    BY <1>10, <1>d, <2>1, <2>2 DEF PopNothing
  <2>4. ended' = ended \cup {c}
    BY <1>10, <1>0 DEF PopNothing, TypeOK, Threads
  <2>5. fifo = <<>> /\ fifo' = fifo
    BY <1>10, <1>0, <1>c, <2>1, <2>3 DEF PopNothing, TypeOK
  <2>6. isStopped
    BY <1>10, <1>0 DEF PopNothing, Tested
  <2>7. Fifo!End(c)
    BY <1>10, <2>4, <2>5, <2>6 DEF PopNothing, Fifo!End
  <2> QED
    BY <2>7 DEF Fifo!Next
<1>11. CASE StopStore
  <2>1. Admitted' = Admitted
    BY <1>11, <1>0 DEF StopStore, Admitted, TypeOK, Threads
  <2>2. ended' = ended
    BY <1>11, <1>0 DEF StopStore, TypeOK, Threads
  <2>3. Pending' = Pending
    BY <1>11, <1>d, <2>1 DEF StopStore
  <2>4. ~isStopped
    BY <1>11 DEF IInv, Stopping, StopStore
  <2>5. Fifo!Close
    BY <1>11, <2>2, <2>3, <2>4 DEF StopStore, Fifo!Close
  <2> QED
    BY <2>5 DEF Fifo!Next
<1>12. CASE StopLock
  <2>1. Admitted' = Admitted
    BY <1>12, <1>0 DEF StopLock, Admitted, TypeOK, Threads, Asleep
  <2>2. ended' = ended
    BY <1>12, <1>0 DEF StopLock, TypeOK, Threads, Asleep
  <2> QED
    BY <1>12, <1>a, <1>d, <2>1, <2>2 DEF StopLock
<1>13. CASE StopNotifyAll
  <2>1. Admitted' = Admitted
    BY <1>13, <1>0 DEF StopNotifyAll, Admitted, TypeOK, Threads, Asleep
  <2>2. ended' = ended
    BY <1>13, <1>0 DEF StopNotifyAll, TypeOK, Threads, Asleep
  <2> QED
    BY <1>13, <1>a, <1>d, <2>1, <2>2 DEF StopNotifyAll
<1>14. CASE UNCHANGED vars
  BY <1>14, <1>a, <1>d DEF vars, Admitted
<1> QED
  BY <1>1, <1>2, <1>3, <1>4, <1>5, <1>6, <1>7, <1>8, <1>9, <1>10, <1>11, <1>12, <1>13, <1>14 DEF Next, PushStep, PopStep, StopStep, Terminated

\* The queue with its mutex, condition variable and unguarded flag is a
\* closable FIFO.
THEOREM QueueIsClosableFifo == Spec => ImplementsFifo
<1>1. Init => Fifo!Init
  BY DEF Init, Fifo!Init, Pending, Admitted, Threads
<1> QED
  BY Inductive, <1>1, StepRefines, PTL DEF Spec, ImplementsFifo, Fifo!Spec
=============================================================================
