--------------------------- MODULE BlockingQueue ---------------------------
(***************************************************************************)
(* BlockingReaderWriterQueue: the queue (SpscQueue) with a                 *)
(* LightweightSemaphore that counts its elements, so that the consumer can *)
(* wait for one.  The semaphore is a counter in front of a POSIX semaphore *)
(* used only when the consumer has announced, by taking the counter below  *)
(* zero, that it sleeps.                                                   *)
(*                                                                         *)
(* Each read-modify-write of the counter, and each operation of the POSIX  *)
(* semaphore, is a step.  What the consumer comes to know of the queue it  *)
(* learns from them: from the counter what was enqueued before the last    *)
(* signal, from sem_wait what was enqueued before the last sem_post.       *)
(***************************************************************************)
EXTENDS SpscQueue, Integers

CONSTANTS
    Size,           \* the constructor's size
    MaxItems        \* bound: elements enqueued

ASSUME SizeAssumption == Size \in Nat \ {0}
ASSUME ItemsAssumption == MaxItems \in Nat

VARIABLES
    m_count,        \* the counter
    mine,           \* what it was after the consumer's last update: no load is older
    sema,           \* the POSIX semaphore
    put,            \* the producer: "idle", or in signal before its "add" or "post"
    get,            \* the consumer: "idle" or a place in waitWithPartialSpinning or after
    way,            \* how it was called: "try", "wait" or "timed"
    signalled,      \* elements enqueued before the producer's last update of the counter
    posted,         \* elements enqueued before its last sem_post
    failed          \* an assert failed

semaphore == <<m_count, mine, sema, put, get, way, signalled, posted, failed>>
vars == <<queueVars, semaphore>>

BlockingInit ==
    /\ capacity = Size
    /\ Init
    /\ m_count = 0
    /\ mine = 0
    /\ sema = 0
    /\ put = "idle"
    /\ get = "idle"
    /\ way = "try"
    /\ signalled = 0
    /\ posted = 0
    /\ failed = FALSE

Knows(k) == known' = (IF k > known THEN k ELSE known) /\ UNCHANGED <<capacity, gone>>
KnowsNoMore == UNCHANGED <<capacity, known, gone>>
ComesBackEmpty == empty' = TRUE /\ UNCHANGED <<sent, taken, last, full>>

-----------------------------------------------------------------------------
\* try_enqueue and enqueue: signal only if the queue took the element.
PutStart ==
    /\ put = "idle"
    /\ sent < MaxItems
    /\ KnowsNoMore
    /\ \/ Enqueue /\ put' = "add"
       \/ EnqueueFails /\ UNCHANGED put
    /\ UNCHANGED <<m_count, mine, sema, get, way, signalled, posted, failed>>

\* signal: fetch_add_release(1), then wake the consumer if it sleeps.
\* Mutant of SignalAdd: it is woken only by a second element.
SignalAddLate ==
    /\ put = "add"
    /\ m_count' = m_count + 1
    /\ signalled' = sent
    /\ put' = IF m_count < -1 THEN "post" ELSE "idle"
    /\ failed' = IF m_count < -1 THEN TRUE ELSE failed
    /\ UNCHANGED <<queueVars, mine, sema, get, way, posted>>
SignalAdd ==
    /\ put = "add"
    /\ m_count' = m_count + 1
    /\ signalled' = sent
    /\ put' = IF m_count < 0 THEN "post" ELSE "idle"
    /\ failed' = IF m_count < -1 THEN TRUE ELSE failed
    /\ UNCHANGED <<queueVars, mine, sema, get, way, posted>>

SignalPost ==
    /\ put = "post"
    /\ sema' = sema + 1
    /\ posted' = sent
    /\ put' = "idle"
    /\ UNCHANGED <<queueVars, m_count, mine, get, way, signalled, failed>>

-----------------------------------------------------------------------------
\* fetch_add_acquire(-1)
Decrement ==
    /\ m_count' = m_count - 1
    /\ mine' = m_count - 1
    /\ Knows(signalled)

\* The counter is loaded relaxed: it may be old, but not older than the
\* consumer's own last update.
SeesElement == m_count > 0
\* Mutant of SeesNone: the last element is not counted.
SeesNoneOfOne == mine <= 1
SeesNone == mine <= 0

\* tryWait: the counter is found positive, ...
TryWait(w) ==
    /\ get = "idle"
    /\ SeesElement
    /\ Decrement
    /\ get' = "take"
    /\ way' = w
    /\ empty' = FALSE
    /\ UNCHANGED <<sent, taken, last, full, sema, put, signalled, posted, failed>>

\* ... or not, which ends try_dequeue and pop, ...
TryWaitFails ==
    /\ get = "idle"
    /\ SeesNone
    /\ KnowsNoMore
    /\ ComesBackEmpty
    /\ way' = "try"
    /\ UNCHANGED <<m_count, mine, sema, put, get, signalled, posted, failed>>

\* ... and in wait begins the spinning.
Spin(w) ==
    /\ get = "idle"
    /\ SeesNone
    /\ get' = "spin"
    /\ way' = w
    /\ empty' = FALSE
    /\ UNCHANGED <<capacity, sent, taken, last, known, gone, full,
                   m_count, mine, sema, put, signalled, posted, failed>>

\* The counter has become positive while spinning.
SpinFinds ==
    /\ get = "spin"
    /\ SeesElement
    /\ Decrement
    /\ get' = "take"
    /\ UNCHANGED <<sent, taken, last, full, empty, sema, put, way, signalled, posted, failed>>

\* Spun out: decrement all the same, and sleep unless an element was there.
SpinEnds ==
    /\ get = "spin"
    /\ SeesNone
    /\ Decrement
    /\ get' = IF m_count > 0 THEN "take" ELSE "sleep"
    /\ UNCHANGED <<sent, taken, last, full, empty, sema, put, way, signalled, posted, failed>>

\* sem_wait, sem_timedwait and sem_trywait, when the semaphore can be had.
SemaWait ==
    /\ get \in {"sleep", "retry"}
    /\ sema > 0
    /\ sema' = sema - 1
    /\ Knows(posted)
    /\ get' = "take"
    /\ UNCHANGED <<sent, taken, last, full, empty, m_count, mine, put, way, signalled, posted, failed>>

TimedOut ==
    /\ get = "sleep"
    /\ way = "timed"
    /\ sema = 0
    /\ get' = "undo"
    /\ UNCHANGED <<queueVars, m_count, mine, sema, put, way, signalled, posted, failed>>

\* After the timeout: take the announcement back, unless the producer has
\* answered it; then it is made again, for the post that is due.
\* Mutant of Undo: the answer is not looked for.
UndoAlways ==
    /\ get = "undo"
    /\ m_count' = m_count + 1
    /\ mine' = m_count + 1
    /\ KnowsNoMore
    /\ get' = "idle"
    /\ ComesBackEmpty
    /\ UNCHANGED <<sema, put, way, signalled, posted, failed>>
Undo ==
    /\ get = "undo"
    /\ m_count' = m_count + 1
    /\ mine' = m_count + 1
    /\ KnowsNoMore
    /\ IF m_count < 0
       THEN /\ get' = "idle"
            /\ ComesBackEmpty
       ELSE /\ get' = "again"
            /\ UNCHANGED <<sent, taken, last, full, empty>>
    /\ UNCHANGED <<sema, put, way, signalled, posted, failed>>

Again ==
    /\ get = "again"
    /\ Decrement
    /\ get' = IF m_count > 0 THEN "retry" ELSE "undo"
    /\ UNCHANGED <<sent, taken, last, full, empty, sema, put, way, signalled, posted, failed>>

RetryFails ==
    /\ get = "retry"
    /\ sema = 0
    /\ get' = "undo"
    /\ UNCHANGED <<queueVars, m_count, mine, sema, put, way, signalled, posted, failed>>

\* The semaphore was had, the element must be there: the queue may refuse
\* one that the consumer does not know of.
TakeElement ==
    /\ get = "take"
    /\ get' = "idle"
    /\ failed' = IF known <= taken THEN TRUE ELSE failed
    /\ KnowsNoMore
    /\ Dequeue
    /\ UNCHANGED <<m_count, mine, sema, put, way, signalled, posted>>

-----------------------------------------------------------------------------
FinishSignal == SignalAdd \/ SignalPost

\* A wait goes on by itself; whether a timeout strikes is left open.
FinishWait ==
    \/ SpinFinds
    \/ SpinEnds
    \/ SemaWait
    \/ Undo
    \/ Again
    \/ RetryFails
    \/ TakeElement

BlockingNext ==
    \/ PutStart
    \/ FinishSignal
    \/ \E w \in {"try", "wait", "timed"} : TryWait(w)
    \/ TryWaitFails
    \/ \E w \in {"wait", "timed"} : Spin(w)
    \/ TimedOut
    \/ FinishWait

BlockingSpec ==
    /\ BlockingInit
    /\ [][BlockingNext]_vars
    /\ WF_vars(FinishSignal)
    /\ WF_vars(FinishWait)

-----------------------------------------------------------------------------
\* The parts of the inductive invariant.  Pending: the consumer has taken one
\* off the counter for an element it has not dequeued yet.  Due: a sem_post
\* has been made for it, or is about to be.
Pending == IF get \in {"sleep", "undo", "retry", "take"} THEN 1 ELSE 0
Due == (get \in {"sleep", "undo", "retry"} /\ m_count >= 0) \/ get = "again"

NumbersOK ==
    /\ capacity \in Nat \ {0}
    /\ sent \in Nat /\ taken \in Nat /\ last \in Nat /\ known \in Nat /\ gone \in Nat
    /\ m_count \in Int /\ mine \in Int /\ sema \in Nat
    /\ signalled \in Nat /\ posted \in Nat

TypeOK ==
    /\ NumbersOK
    /\ put \in {"idle", "add", "post"}
    /\ get \in {"idle", "spin", "sleep", "undo", "again", "retry", "take"}
    /\ way \in {"try", "wait", "timed"}
    /\ full \in BOOLEAN /\ empty \in BOOLEAN /\ failed \in BOOLEAN

\* The counter is the elements signalled, less those dequeued or being so.
CountRight ==
    /\ signalled = sent - (IF put = "add" THEN 1 ELSE 0)
    /\ m_count = signalled - taken - Pending
    /\ mine <= m_count

\* The POSIX semaphore holds, or is about to be given, the one token a
\* consumer that sleeps on an element already signalled is owed, and no other.
TokenRight ==
    /\ sema + (IF put = "post" THEN 1 ELSE 0) = (IF Due THEN 1 ELSE 0)
    /\ get = "again" => m_count > 0
    /\ put = "post" => signalled = taken + 1
    /\ sema > 0 => posted = taken + 1 /\ posted <= signalled

\* What the consumer knows of the queue.
KnowledgeRight ==
    /\ known <= signalled
    /\ gone <= taken
    /\ taken <= signalled
    /\ last = taken
    /\ get = "take" => known > taken
    /\ known <= taken + (IF mine + Pending > 0 THEN mine + Pending ELSE IF get = "take" THEN 1 ELSE 0)

\* The asserts of signal (never more than one waits) and of try_dequeue,
\* wait_dequeue and pop (whoever gets past the semaphore finds an element)
\* hold, through timeouts that race the signal.
NeverFails == failed = FALSE

IInv == TypeOK /\ CountRight /\ TokenRight /\ KnowledgeRight /\ NeverFails

\* The blocking queue is a queue too: it comes back empty, at once or after a
\* timeout, only if the consumer has taken every element it knows of.
ImplementsQueue == Spec

\* A consumer that waits while an element is enqueued, or is enqueued later,
\* gets away: no wake-up is lost, and a timeout does not spin for ever.
Wakes == (get /= "idle" /\ sent > taken) ~> get = "idle"

=============================================================================
