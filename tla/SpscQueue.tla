------------------------------ MODULE SpscQueue ------------------------------
(***************************************************************************)
(* What a queue of readerwriterqueue.h promises one producer and one       *)
(* consumer thread.  Elements come out in the order in which they went in, *)
(* each once.  A call may fail although the other thread has just made     *)
(* success possible, but not once the caller knows that it has: a dequeue  *)
(* comes back empty only if every element the consumer knows of has been   *)
(* taken, an enqueue that must not allocate fails only if the elements     *)
(* not known to be gone fill the queue.                                    *)
(***************************************************************************)
EXTENDS Naturals

VARIABLES
    capacity,   \* the size the queue was constructed with
    sent,       \* elements enqueued
    taken,      \* elements dequeued
    last,       \* the last of them: elements are numbered as they are enqueued
    known,      \* elements the consumer knows have been enqueued
    gone,       \* elements the producer knows have been dequeued
    full,       \* the last enqueue failed for want of room
    empty       \* the last dequeue found nothing

queueVars == <<capacity, sent, taken, last, known, gone, full, empty>>

Init ==
    /\ capacity \in Nat \ {0}
    /\ sent = 0
    /\ taken = 0
    /\ last = 0
    /\ known = 0
    /\ gone = 0
    /\ full = FALSE
    /\ empty = FALSE

\* Either thread may learn of the other's doings at any step.
Learn ==
    /\ known' \in known .. sent
    /\ gone' \in gone .. taken
    /\ UNCHANGED capacity

Enqueue ==
    /\ sent' = sent + 1
    /\ full' = FALSE
    /\ UNCHANGED <<taken, last, empty>>

EnqueueFails ==
    /\ full' = TRUE
    /\ sent >= capacity + gone
    /\ UNCHANGED <<sent, taken, last, empty>>

Dequeue ==
    /\ taken < sent
    /\ taken' = taken + 1
    /\ last' = taken + 1
    /\ empty' = FALSE
    /\ UNCHANGED <<sent, full>>

DequeueFails ==
    /\ empty' = TRUE
    /\ known' <= taken
    /\ UNCHANGED <<sent, taken, last, full>>

\* A call begins, or ends with neither.
Call ==
    /\ full' => full
    /\ empty' => empty
    /\ UNCHANGED <<sent, taken, last>>

Next == Learn /\ (Enqueue \/ EnqueueFails \/ Dequeue \/ DequeueFails \/ Call)

Spec == Init /\ [][Next]_queueVars

=============================================================================
