----------------------------- MODULE EventQueue -----------------------------
(***************************************************************************)
(* datadog::impl::Queue<T> (core/queue.hpp): the blocking queue through    *)
(* which API threads hand work to the context, messaging and storage       *)
(* threads.  A mutex guards the deque, a condition variable wakes          *)
(* consumers, and Stop() sets an atomic flag WITHOUT holding the mutex,    *)
(* then takes the mutex only to notify.                                    *)
(*                                                                         *)
(* A step is what a thread does between two points where another thread    *)
(* can observe or disturb it.  Code under the mutex is cut wherever it     *)
(* reads the flag, because Stop() may set the flag there.  Consumers run   *)
(* the loop of ContextThreadMain, which is also the loop of the messaging  *)
(* and storage threads: Pop() until it returns nullopt.                    *)
(***************************************************************************)
EXTENDS Naturals, Sequences, FiniteSets

CONSTANTS Producers,     \* threads that call Push()
          Consumers,     \* threads that loop over Pop()
          Owner,         \* the thread that calls Stop()
          NoThread,      \* the mutex is free
          MaxPush,       \* bound: calls of Push() per producer
          MaxSpurious    \* bound: spurious wake-ups of the condition variable

Threads == Producers \cup Consumers \cup {Owner}

ASSUME ThreadsAssumption ==
    /\ Producers \cap Consumers = {}
    /\ Owner \notin Producers \cup Consumers
    /\ NoThread \notin Threads

ASSUME BoundsAssumption == MaxPush \in Nat /\ MaxSpurious \in Nat

\* The n-th item of producer p; items are told apart by nothing else.
Items == Producers \X (1..MaxPush)

VARIABLES mutex,      \* _mutex: the thread that holds it, or NoThread
          isStopped,  \* _is_stopped
          items,      \* _items
          pc,         \* where each thread is
          calls,      \* completed and current Push() calls of each producer
          spurious,   \* spurious wake-ups so far
          accepted,   \* history: the items Push() took, in order
          taken       \* history: the items Pop() returned, in order

vars == <<mutex, isStopped, items, pc, calls, spurious, accepted, taken>>

ProducerPC == {"idle", "check", "append"}
\* "idle": outside Pop(), or woken inside wait() and about to take the mutex;
\* "sleep": found nothing to do, still holds the mutex, about to block;
\* "asleep": blocked in the condition variable; "done": Pop() gave nullopt.
ConsumerPC == {"idle", "test", "sleep", "asleep", "take", "done"}
OwnerPC    == {"idle", "lock", "notify", "done"}

Init ==
    /\ mutex = NoThread
    /\ isStopped = FALSE
    /\ items = <<>>
    /\ pc = [t \in Threads |-> "idle"]
    /\ calls = [p \in Producers |-> 0]
    /\ spurious = 0
    /\ accepted = <<>>
    /\ taken = <<>>

Goto(t, label) == pc' = [pc EXCEPT ![t] = label]

Asleep == {c \in Consumers : pc[c] = "asleep"}

-----------------------------------------------------------------------------
(* Push *)

\* std::lock_guard in Push().
PushLock(p) ==
    /\ pc[p] = "idle"
    /\ calls[p] < MaxPush
    /\ mutex = NoThread
    /\ mutex' = p
    /\ calls' = [calls EXCEPT ![p] = @ + 1]
    /\ Goto(p, "check")
    /\ UNCHANGED <<isStopped, items, spurious, accepted, taken>>

\* The queue is stopped: return false and release the mutex.
PushReject(p) ==
    /\ pc[p] = "check"
    /\ isStopped
    /\ mutex' = NoThread
    /\ Goto(p, "idle")
    /\ UNCHANGED <<isStopped, items, calls, spurious, accepted, taken>>

\* The queue is not stopped: go on to append.  Stop() may set the flag now.
PushAdmit(p) ==
    /\ pc[p] = "check"
    /\ ~isStopped
    /\ Goto(p, "append")
    /\ UNCHANGED <<mutex, isStopped, items, calls, spurious, accepted, taken>>

\* Mutant of PushAppend: nobody is notified.
PushAppendSilently(p) ==
    /\ pc[p] = "append"
    /\ items' = Append(items, <<p, calls[p]>>)
    /\ accepted' = Append(accepted, <<p, calls[p]>>)
    /\ mutex' = NoThread
    /\ Goto(p, "idle")
    /\ UNCHANGED <<isStopped, calls, spurious, taken>>

\* emplace_back, notify_one, release the mutex, return true.
PushAppend(p) ==
    /\ pc[p] = "append"
    /\ items' = Append(items, <<p, calls[p]>>)
    /\ accepted' = Append(accepted, <<p, calls[p]>>)
    /\ mutex' = NoThread
    /\ \/ /\ Asleep = {}
          /\ Goto(p, "idle")
       \/ \E c \in Asleep : pc' = [pc EXCEPT ![p] = "idle", ![c] = "idle"]
    /\ UNCHANGED <<isStopped, calls, spurious, taken>>

-----------------------------------------------------------------------------
(* Pop *)

\* Take the mutex: on entry to Pop(), or inside wait() after a wake-up.
PopLock(c) ==
    /\ pc[c] = "idle"
    /\ mutex = NoThread
    /\ mutex' = c
    /\ Goto(c, "test")
    /\ UNCHANGED <<isStopped, items, calls, spurious, accepted, taken>>

\* The predicate of _condition.wait().
PopTest(c) ==
    /\ pc[c] = "test"
    /\ Goto(c, IF items # <<>> \/ isStopped THEN "take" ELSE "sleep")
    /\ UNCHANGED <<mutex, isStopped, items, calls, spurious, accepted, taken>>

\* wait() releases the mutex and blocks, atomically.
PopSleep(c) ==
    /\ pc[c] = "sleep"
    /\ mutex' = NoThread
    /\ Goto(c, "asleep")
    /\ UNCHANGED <<isStopped, items, calls, spurious, accepted, taken>>

\* A blocked thread wakes though nobody notified it.
PopSpurious(c) ==
    /\ pc[c] = "asleep"
    /\ spurious < MaxSpurious
    /\ spurious' = spurious + 1
    /\ Goto(c, "idle")
    /\ UNCHANGED <<mutex, isStopped, items, calls, accepted, taken>>

\* Mutant of PopItem: the youngest item is taken.
PopYoungest(c) ==
    /\ pc[c] = "take" /\ items # <<>>
    /\ items' = SubSeq(items, 1, Len(items) - 1)
    /\ taken' = Append(taken, items[Len(items)])
    /\ mutex' = NoThread
    /\ Goto(c, "idle")
    /\ UNCHANGED <<isStopped, calls, spurious, accepted>>

\* There is an item: move it out, release the mutex, run the loop body.
PopItem(c) ==
    /\ pc[c] = "take"
    /\ items # <<>>
    /\ items' = Tail(items)
    /\ taken' = Append(taken, Head(items))
    /\ mutex' = NoThread
    /\ Goto(c, "idle")
    /\ UNCHANGED <<isStopped, calls, spurious, accepted>>

\* Awake with no item: return nullopt, and the consumer's loop ends.
PopNothing(c) ==
    /\ pc[c] = "take"
    /\ items = <<>>
    /\ mutex' = NoThread
    /\ Goto(c, "done")
    /\ UNCHANGED <<isStopped, items, calls, spurious, accepted, taken>>

-----------------------------------------------------------------------------
(* Stop *)

\* _is_stopped.store(true), without the mutex.
StopStore ==
    /\ pc[Owner] = "idle"
    /\ isStopped' = TRUE
    /\ Goto(Owner, "lock")
    /\ UNCHANGED <<mutex, items, calls, spurious, accepted, taken>>

\* Mutant of StopLock: notify without taking the mutex.
StopWithoutLock ==
    /\ pc[Owner] = "lock"
    /\ pc' = [t \in Threads |-> IF t = Owner THEN "done"
                                ELSE IF t \in Asleep THEN "idle" ELSE pc[t]]
    /\ UNCHANGED <<mutex, isStopped, items, calls, spurious, accepted, taken>>

\* std::lock_guard in Stop().
StopLock ==
    /\ pc[Owner] = "lock"
    /\ mutex = NoThread
    /\ mutex' = Owner
    /\ Goto(Owner, "notify")
    /\ UNCHANGED <<isStopped, items, calls, spurious, accepted, taken>>

\* notify_all, release the mutex, return.
StopNotifyAll ==
    /\ pc[Owner] = "notify"
    /\ mutex' = NoThread
    /\ pc' = [t \in Threads |-> IF t = Owner THEN "done"
                                ELSE IF t \in Asleep THEN "idle"
                                ELSE pc[t]]
    /\ UNCHANGED <<isStopped, items, calls, spurious, accepted, taken>>

-----------------------------------------------------------------------------

\* Every call has returned and every consumer has left its loop.
Terminated ==
    /\ pc[Owner] = "done"
    /\ \A c \in Consumers : pc[c] = "done"
    /\ \A p \in Producers : pc[p] = "idle" /\ calls[p] = MaxPush
    /\ UNCHANGED vars

PushStep(p) == PushReject(p) \/ PushAdmit(p) \/ PushAppend(p)
PopStep(c)  == PopLock(c) \/ PopTest(c) \/ PopSleep(c) \/ PopItem(c) \/ PopNothing(c)
StopStep    == StopLock \/ StopNotifyAll

Next ==
    \/ \E p \in Producers : PushLock(p) \/ PushStep(p)
    \/ \E c \in Consumers : PopStep(c) \/ PopSpurious(c)
    \/ StopStore \/ StopStep
    \/ Terminated

Spec == Init /\ [][Next]_vars

(***************************************************************************)
(* Every thread that is inside an operation and can move is scheduled.     *)
(* Weak fairness is enough for the mutex because contention is finite:     *)
(* calls of Push() and spurious wake-ups are bounded.  Nobody has to call  *)
(* Push() or Stop().                                                       *)
(***************************************************************************)
Fairness ==
    /\ \A p \in Producers : WF_vars(PushStep(p))
    /\ \A c \in Consumers : WF_vars(PopStep(c))
    /\ WF_vars(StopStep)

FairSpec == Spec /\ Fairness

-----------------------------------------------------------------------------
(* Properties *)

TypeOK ==
    /\ mutex \in Threads \cup {NoThread}
    /\ isStopped \in BOOLEAN
    /\ items \in Seq(Items)
    /\ pc \in [Threads -> ProducerPC \cup ConsumerPC \cup OwnerPC]
    /\ \A p \in Producers : pc[p] \in ProducerPC
    /\ \A c \in Consumers : pc[c] \in ConsumerPC
    /\ pc[Owner] \in OwnerPC
    /\ calls \in [Producers -> 0..MaxPush]
    /\ \A p \in Producers : pc[p] \in {"check", "append"} => calls[p] > 0
    /\ spurious \in 0..MaxSpurious
    /\ accepted \in Seq(Items)
    /\ taken \in Seq(Items)

\* Nothing accepted is lost, duplicated or overtaken: what Pop() returned,
\* followed by what is still queued, is what Push() accepted, in order.
ExactlyOnceInOrder == accepted = taken \o items

\* Once a consumer got nullopt its thread may be joined and the queue dropped:
\* nothing is queued, and no Push() that saw the flag clear is still to append.
EndMeansDrained ==
    (\E c \in Consumers : pc[c] = "done")
        => /\ isStopped
           /\ items = <<>>
           /\ \A p \in Producers : pc[p] # "append"

\* No wake-up is lost (the comment in Stop()): a consumer blocks on a stopped
\* queue only while Stop() is still to notify, and on a queue with items only
\* while another consumer is awake to take them.
NoLostWakeup ==
    Asleep # {} =>
        /\ isStopped => pc[Owner] \in {"lock", "notify"}
        /\ items # <<>> => \E c \in Consumers : pc[c] \notin {"asleep", "done"}

\* After Stop() has returned no item is accepted any more, not even from a
\* Push() that was under way when Stop() was called.
NothingAcceptedAfterStop ==
    [][pc[Owner] = "done" => accepted' = accepted]_vars

\* An accepted item is returned by some Pop().
AcceptedIsTaken ==
    \A p \in Producers : \A n \in 1..MaxPush :
        (\E i \in DOMAIN accepted : accepted[i] = <<p, n>>)
            ~> (\E i \in DOMAIN taken : taken[i] = <<p, n>>)

\* Stop() returns, and every consumer's loop ends, so that they can be joined.
StopEndsConsumers ==
    isStopped ~> (pc[Owner] = "done" /\ \A c \in Consumers : pc[c] = "done")

\* queue.hpp: whatever was asked of the queue comes to its end.
EverythingEnds == AcceptedIsTaken /\ StopEndsConsumers

-----------------------------------------------------------------------------
(***************************************************************************)
(* Refinement.  Push() takes effect when it finds the flag clear: from     *)
(* then on its item counts as queued, though it is appended one step later.*)
(***************************************************************************)
Admitted == {p \in Producers : pc[p] = "append"}
Pending  == IF Admitted = {} THEN <<>>
            ELSE LET p == CHOOSE q \in Admitted : TRUE IN <<<<p, calls[p]>>>>

Fifo == INSTANCE ClosableFifo
          WITH Item     <- Items,
               Consumer <- Consumers,
               fifo     <- items \o Pending,
               closed   <- isStopped,
               ended    <- {c \in Consumers : pc[c] = "done"}

\* The queue implements the closable FIFO its comments describe.
ImplementsFifo == Fifo!Spec
=============================================================================
