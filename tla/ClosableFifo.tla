---------------------------- MODULE ClosableFifo ----------------------------
(***************************************************************************)
(* What datadog::impl::Queue<T> promises its users (queue.hpp, class       *)
(* comment and the comments on Push, Pop and Stop): a first-in first-out   *)
(* buffer that can be closed once.  Closing refuses new items, lets the    *)
(* items already accepted be taken, and then tells every consumer, by an   *)
(* empty result, that it has seen the last one.  Each operation is one     *)
(* atomic step here; EventQueue shows how mutex, condition variable and    *)
(* flag provide it.                                                        *)
(***************************************************************************)
EXTENDS Sequences

CONSTANTS Item,        \* the items producers may offer
          Consumer     \* the threads that take items

VARIABLES fifo,        \* accepted items that nobody has taken yet, oldest first
          closed,      \* Stop() was called
          ended        \* the consumers that were told there is nothing more

vars == <<fifo, closed, ended>>

TypeOK == fifo \in Seq(Item) /\ closed \in BOOLEAN /\ ended \in SUBSET Consumer

Init == fifo = <<>> /\ closed = FALSE /\ ended = {}

\* Push() of item x returns true.
Put(x) ==
    /\ ~closed
    /\ fifo' = Append(fifo, x)
    /\ UNCHANGED <<closed, ended>>

\* Pop() returns the oldest item.
Take ==
    /\ fifo # <<>>
    /\ fifo' = Tail(fifo)
    /\ UNCHANGED <<closed, ended>>

\* Stop().
Close ==
    /\ ~closed
    /\ closed' = TRUE
    /\ UNCHANGED <<fifo, ended>>

\* Pop() returns nullopt to consumer c.
End(c) ==
    /\ closed
    /\ fifo = <<>>
    /\ ended' = ended \cup {c}
    /\ UNCHANGED <<fifo, closed>>

Next ==
    \/ \E x \in Item : Put(x)
    \/ Take
    \/ Close
    \/ \E c \in Consumer : End(c)

Spec == Init /\ [][Next]_vars
=============================================================================
