------------------------ MODULE BlockingQueueProofs ------------------------
(***************************************************************************)
(* The inductive invariant of BlockingQueue, the absence of failed asserts *)
(* that follows from it, and the refinement of SpscQueue, for every size   *)
(* and any number of elements.                                             *)
(***************************************************************************)
EXTENDS BlockingQueue, TLAPS

\* The constructor establishes the invariant.
LEMMA InitIInv == BlockingInit => IInv
<1> SUFFICES ASSUME BlockingInit PROVE IInv
  OBVIOUS
<1> USE DEF BlockingInit, Init
<1>1. TypeOK /\ NeverFails
  <2>1. NumbersOK
    BY SizeAssumption DEF NumbersOK
  <2>2. full \in BOOLEAN /\ empty \in BOOLEAN /\ failed \in BOOLEAN /\ failed = FALSE
    BY Zenon
  <2>. QED  BY <2>1, <2>2 DEF TypeOK, NeverFails
<1>2. /\ sent = 0 /\ taken = 0 /\ last = 0 /\ known = 0 /\ gone = 0
      /\ m_count = 0 /\ mine = 0 /\ sema = 0 /\ signalled = 0 /\ posted = 0
  OBVIOUS
<1>3. put = "idle" /\ get = "idle"
  OBVIOUS
<1> HIDE DEF BlockingInit, Init
<1>4. CountRight
  <2>1. Pending = 0
    BY <1>3 DEF Pending
  <2>2. signalled = sent - (IF put = "add" THEN 1 ELSE 0)
    BY <1>2, <1>3
  <2>. QED  BY <1>2, <2>1, <2>2 DEF CountRight
<1>5. TokenRight
  BY <1>2, <1>3 DEF TokenRight, Due
<1>6. KnowledgeRight
  BY <1>2, <1>3 DEF KnowledgeRight, Pending
<1>. QED  BY <1>1, <1>4, <1>5, <1>6 DEF IInv

\* Every variable keeps its range.
LEMMA TypesKept == TypeOK /\ [BlockingNext]_vars => TypeOK'
<1> SUFFICES ASSUME TypeOK, [BlockingNext]_vars PROVE TypeOK'
  OBVIOUS
<1> USE DEF TypeOK, NumbersOK, queueVars, KnowsNoMore, ComesBackEmpty, Knows, Decrement
<1>1. CASE PutStart
  <2>1. NumbersOK'
    BY <1>1 DEF PutStart, Enqueue, EnqueueFails
  <2>2. /\ put' \in {"idle", "add", "post"}
        /\ get' \in {"idle", "spin", "sleep", "undo", "again", "retry", "take"}
        /\ way' \in {"try", "wait", "timed"}
    BY <1>1 DEF PutStart, Enqueue, EnqueueFails
  <2>3. full' \in BOOLEAN /\ empty' \in BOOLEAN /\ failed' \in BOOLEAN
    BY <1>1, Zenon DEF PutStart, Enqueue, EnqueueFails
  <2>. QED  BY <2>1, <2>2, <2>3
<1>2. CASE SignalAdd
  <2>1. NumbersOK'
    BY <1>2 DEF SignalAdd
  <2>2. /\ put' \in {"idle", "add", "post"}
        /\ get' \in {"idle", "spin", "sleep", "undo", "again", "retry", "take"}
        /\ way' \in {"try", "wait", "timed"}
    BY <1>2 DEF SignalAdd
  <2>3. full' \in BOOLEAN /\ empty' \in BOOLEAN /\ failed' \in BOOLEAN
    BY <1>2, Zenon DEF SignalAdd
  <2>. QED  BY <2>1, <2>2, <2>3
<1>3. CASE SignalPost
  BY <1>3 DEF SignalPost
<1>4. CASE \E w \in {"try", "wait", "timed"} : TryWait(w)
  <2>1. NumbersOK'
    BY <1>4 DEF TryWait
  <2>2. /\ put' \in {"idle", "add", "post"}
        /\ get' \in {"idle", "spin", "sleep", "undo", "again", "retry", "take"}
        /\ way' \in {"try", "wait", "timed"}
    BY <1>4 DEF TryWait
  <2>3. full' \in BOOLEAN /\ empty' \in BOOLEAN /\ failed' \in BOOLEAN
    BY <1>4, Zenon DEF TryWait
  <2>. QED  BY <2>1, <2>2, <2>3
<1>5. CASE TryWaitFails
  BY <1>5 DEF TryWaitFails
<1>6. CASE \E w \in {"wait", "timed"} : Spin(w)
  BY <1>6 DEF Spin
<1>7. CASE TimedOut
  BY <1>7 DEF TimedOut
<1>8. CASE SpinFinds
  BY <1>8 DEF SpinFinds
<1>9. CASE SpinEnds
  BY <1>9 DEF SpinEnds
<1>10. CASE SemaWait
  BY <1>10 DEF SemaWait
<1>11. CASE Undo
  <2>1. NumbersOK'
    BY <1>11 DEF Undo
  <2>2. /\ put' \in {"idle", "add", "post"}
        /\ get' \in {"idle", "spin", "sleep", "undo", "again", "retry", "take"}
        /\ way' \in {"try", "wait", "timed"}
    BY <1>11 DEF Undo
  <2>3. full' \in BOOLEAN /\ empty' \in BOOLEAN /\ failed' \in BOOLEAN
    BY <1>11, Zenon DEF Undo
  <2>. QED  BY <2>1, <2>2, <2>3
<1>12. CASE Again
  BY <1>12 DEF Again
<1>13. CASE RetryFails
  BY <1>13 DEF RetryFails
<1>14. CASE TakeElement
  <2>1. NumbersOK'
    BY <1>14 DEF TakeElement, Dequeue
  <2>2. /\ put' \in {"idle", "add", "post"}
        /\ get' \in {"idle", "spin", "sleep", "undo", "again", "retry", "take"}
        /\ way' \in {"try", "wait", "timed"}
    BY <1>14 DEF TakeElement, Dequeue
  <2>3. full' \in BOOLEAN /\ empty' \in BOOLEAN /\ failed' \in BOOLEAN
    BY <1>14, Zenon DEF TakeElement, Dequeue
  <2>. QED  BY <2>1, <2>2, <2>3
<1>15. CASE UNCHANGED vars
  BY <1>15 DEF vars, semaphore
<1>. QED  BY <1>1, <1>2, <1>3, <1>4, <1>5, <1>6, <1>7, <1>8, <1>9, <1>10, <1>11, <1>12, <1>13, <1>14, <1>15 DEF BlockingNext, FinishSignal, FinishWait

\* The counter stays right: it moves by one together with what it counts.
LEMMA CountKept == IInv /\ [BlockingNext]_vars => CountRight'
<1> SUFFICES ASSUME IInv, [BlockingNext]_vars PROVE CountRight'
  OBVIOUS
<1> USE DEF IInv, TypeOK, NumbersOK, CountRight, Pending, queueVars, KnowsNoMore,
            ComesBackEmpty, Decrement
<1>1. CASE PutStart
  BY <1>1 DEF PutStart, Enqueue, EnqueueFails
<1>2. CASE SignalAdd
  BY <1>2 DEF SignalAdd
<1>3. CASE SignalPost
  BY <1>3 DEF SignalPost
<1>4. CASE \E w \in {"try", "wait", "timed"} : TryWait(w)
  BY <1>4 DEF TryWait
<1>5. CASE TryWaitFails
  BY <1>5 DEF TryWaitFails
<1>6. CASE \E w \in {"wait", "timed"} : Spin(w)
  BY <1>6 DEF Spin
<1>7. CASE TimedOut
  BY <1>7 DEF TimedOut
<1>8. CASE SpinFinds
  BY <1>8 DEF SpinFinds
<1>9. CASE SpinEnds
  BY <1>9 DEF SpinEnds
<1>10. CASE SemaWait
  BY <1>10 DEF SemaWait
<1>11. CASE Undo
  BY <1>11 DEF Undo
<1>12. CASE Again
  <2>1. m_count > 0
    BY <1>12 DEF Again, TokenRight
  <2>. QED  BY <1>12, <2>1 DEF Again
<1>13. CASE RetryFails
  BY <1>13 DEF RetryFails
<1>14. CASE TakeElement
  BY <1>14 DEF TakeElement, Dequeue
<1>15. CASE UNCHANGED vars
  BY <1>15 DEF vars, semaphore
<1>. QED  BY <1>1, <1>2, <1>3, <1>4, <1>5, <1>6, <1>7, <1>8, <1>9, <1>10, <1>11, <1>12, <1>13, <1>14, <1>15 DEF BlockingNext, FinishSignal, FinishWait

\* A token is promised when the counter rises to zero over a sleeping
\* consumer, and only then; it is used up by who was owed it.
LEMMA TokenKept == IInv /\ [BlockingNext]_vars => TokenRight'
<1> SUFFICES ASSUME IInv, [BlockingNext]_vars PROVE TokenRight'
  OBVIOUS
<1> USE DEF IInv, TypeOK, NumbersOK, CountRight, TokenRight, Pending, Due, queueVars,
            KnowsNoMore, ComesBackEmpty, Decrement
<1>1. CASE PutStart
  BY <1>1 DEF PutStart, Enqueue, EnqueueFails
<1>2. CASE SignalAdd
  <2>1. CASE m_count < 0
    <3>1. get \in {"sleep", "undo", "retry"} /\ m_count = -1 /\ sema = 0
      BY <1>2, <2>1 DEF SignalAdd, KnowledgeRight
    <3>2. put' = "post" /\ m_count' = 0 /\ UNCHANGED <<get, sema, taken>>
      BY <1>2, <2>1, <3>1 DEF SignalAdd
    <3>3. signalled' = taken' + 1
      BY <1>2, <3>1, <3>2 DEF SignalAdd
    <3>. QED  BY <3>1, <3>2, <3>3
  <2>2. CASE m_count >= 0
    <3>1. put' = "idle" /\ m_count' = m_count + 1 /\ UNCHANGED <<get, sema, taken, posted>>
      BY <1>2, <2>2 DEF SignalAdd
    <3>2. signalled' = signalled + 1
      BY <1>2 DEF SignalAdd
    <3>3. Due' <=> Due
      BY <2>2, <3>1
    <3>. QED  BY <1>2, <2>2, <3>1, <3>2, <3>3 DEF SignalAdd
  <2>. QED  BY <2>1, <2>2
<1>3. CASE SignalPost
  BY <1>3 DEF SignalPost
<1>4. CASE \E w \in {"try", "wait", "timed"} : TryWait(w)
  BY <1>4 DEF TryWait
<1>5. CASE TryWaitFails
  BY <1>5 DEF TryWaitFails
<1>6. CASE \E w \in {"wait", "timed"} : Spin(w)
  BY <1>6 DEF Spin
<1>7. CASE TimedOut
  BY <1>7 DEF TimedOut
<1>8. CASE SpinFinds
  BY <1>8 DEF SpinFinds
<1>9. CASE SpinEnds
  BY <1>9 DEF SpinEnds
<1>10. CASE SemaWait
  BY <1>10 DEF SemaWait
<1>11. CASE Undo
  BY <1>11 DEF Undo
<1>12. CASE Again
  BY <1>12 DEF Again
<1>13. CASE RetryFails
  BY <1>13 DEF RetryFails
<1>14. CASE TakeElement
  BY <1>14 DEF TakeElement, Dequeue
<1>15. CASE UNCHANGED vars
  BY <1>15 DEF vars, semaphore
<1>. QED  BY <1>1, <1>2, <1>3, <1>4, <1>5, <1>6, <1>7, <1>8, <1>9, <1>10, <1>11, <1>12, <1>13, <1>14, <1>15 DEF BlockingNext, FinishSignal, FinishWait

\* What the consumer knows grows by what the semaphore tells it, and no call
\* ends empty that knows more than was taken.
LEMMA KnowledgeKept == IInv /\ [BlockingNext]_vars => KnowledgeRight'
<1> SUFFICES ASSUME IInv, [BlockingNext]_vars PROVE KnowledgeRight'
  OBVIOUS
<1> USE DEF IInv, TypeOK, NumbersOK, CountRight, TokenRight, KnowledgeRight, Pending, Due,
            queueVars, KnowsNoMore, Knows, ComesBackEmpty, Decrement
<1>1. CASE PutStart
  BY <1>1 DEF PutStart, Enqueue, EnqueueFails
<1>2. CASE SignalAdd
  BY <1>2 DEF SignalAdd
<1>3. CASE SignalPost
  BY <1>3 DEF SignalPost
<1>4. CASE \E w \in {"try", "wait", "timed"} : TryWait(w)
  <2>1. known <= signalled /\ m_count = signalled - taken
    BY <1>4 DEF TryWait
  <2>2. known' = signalled /\ mine' = m_count - 1 /\ get' = "take"
    BY <1>4, <2>1 DEF TryWait
  <2>3. m_count > 0 /\ UNCHANGED <<signalled, taken, last, gone>>
    BY <1>4 DEF TryWait, SeesElement
  <2>. QED  BY <2>1, <2>2, <2>3
<1>5. CASE TryWaitFails
  BY <1>5 DEF TryWaitFails
<1>6. CASE \E w \in {"wait", "timed"} : Spin(w)
  BY <1>6 DEF Spin
<1>7. CASE TimedOut
  BY <1>7 DEF TimedOut
<1>8. CASE SpinFinds
  <2>1. known <= signalled /\ m_count = signalled - taken
    BY <1>8 DEF SpinFinds
  <2>2. known' = signalled /\ mine' = m_count - 1 /\ get' = "take"
    BY <1>8, <2>1 DEF SpinFinds
  <2>3. m_count > 0 /\ UNCHANGED <<signalled, taken, last, gone>>
    BY <1>8 DEF SpinFinds, SeesElement
  <2>. QED  BY <2>1, <2>2, <2>3
<1>9. CASE SpinEnds
  BY <1>9 DEF SpinEnds
<1>10. CASE SemaWait
  BY <1>10 DEF SemaWait
<1>11. CASE Undo
  BY <1>11 DEF Undo
<1>12. CASE Again
  BY <1>12 DEF Again
<1>13. CASE RetryFails
  BY <1>13 DEF RetryFails
<1>14. CASE TakeElement
  BY <1>14 DEF TakeElement, Dequeue
<1>15. CASE UNCHANGED vars
  BY <1>15 DEF vars, semaphore
<1>. QED  BY <1>1, <1>2, <1>3, <1>4, <1>5, <1>6, <1>7, <1>8, <1>9, <1>10, <1>11, <1>12, <1>13, <1>14, <1>15 DEF BlockingNext, FinishSignal, FinishWait

\* No assert fails: nobody waits twice, and whoever got past the semaphore
\* knows of an element that is there.
LEMMA NoFailure == IInv /\ [BlockingNext]_vars => NeverFails'
<1> SUFFICES ASSUME IInv, [BlockingNext]_vars PROVE failed' = FALSE
  BY DEF NeverFails
<1> USE DEF IInv, TypeOK, NumbersOK, CountRight, KnowledgeRight, NeverFails, queueVars
<1>1. CASE PutStart
  BY <1>1 DEF PutStart, Enqueue, EnqueueFails
<1>2. CASE SignalAdd
  <2>1. m_count >= -1
    BY DEF Pending
  <2>. QED  BY <1>2, <2>1 DEF SignalAdd
<1>3. CASE SignalPost
  BY <1>3 DEF SignalPost
<1>4. CASE \E w \in {"try", "wait", "timed"} : TryWait(w)
  BY <1>4 DEF TryWait
<1>5. CASE TryWaitFails
  BY <1>5 DEF TryWaitFails
<1>6. CASE \E w \in {"wait", "timed"} : Spin(w)
  BY <1>6 DEF Spin
<1>7. CASE TimedOut
  BY <1>7 DEF TimedOut
<1>8. CASE SpinFinds
  BY <1>8 DEF SpinFinds
<1>9. CASE SpinEnds
  BY <1>9 DEF SpinEnds
<1>10. CASE SemaWait
  BY <1>10 DEF SemaWait
<1>11. CASE Undo
  BY <1>11 DEF Undo
<1>12. CASE Again
  BY <1>12 DEF Again
<1>13. CASE RetryFails
  BY <1>13 DEF RetryFails
<1>14. CASE TakeElement
  BY <1>14 DEF TakeElement, Dequeue
<1>15. CASE UNCHANGED vars
  BY <1>15 DEF vars, semaphore
<1>. QED  BY <1>1, <1>2, <1>3, <1>4, <1>5, <1>6, <1>7, <1>8, <1>9, <1>10, <1>11, <1>12, <1>13, <1>14, <1>15 DEF BlockingNext, FinishSignal, FinishWait

\* For every size of the queue and any number of elements the invariant holds.
THEOREM Invariance == BlockingSpec => []IInv
<1>1. IInv /\ [BlockingNext]_vars => IInv'
  BY TypesKept, CountKept, TokenKept, KnowledgeKept, NoFailure DEF IInv
<1>. QED  BY InitIInv, <1>1, PTL DEF BlockingSpec

\* The asserts of the semaphore and of the blocking calls hold.
THEOREM Asserted == BlockingSpec => []NeverFails
<1>1. IInv => NeverFails
  BY DEF IInv
<1>. QED  BY Invariance, <1>1, PTL

\* Each step of the blocking queue is a step of the queue, or none.
LEMMA StepRefines == IInv /\ IInv' /\ [BlockingNext]_vars => [Next]_queueVars
<1> SUFFICES ASSUME IInv, IInv', [BlockingNext]_vars PROVE [Next]_queueVars
  OBVIOUS
<1> USE DEF IInv, TypeOK, NumbersOK, CountRight, KnowledgeRight, Pending, queueVars, KnowsNoMore,
            ComesBackEmpty, Knows, Decrement, Next, Learn, Call, DequeueFails
<1>1. CASE PutStart
  BY <1>1 DEF PutStart, Enqueue, EnqueueFails
<1>2. CASE SignalAdd
  BY <1>2 DEF SignalAdd
<1>3. CASE SignalPost
  BY <1>3 DEF SignalPost
<1>4. CASE \E w \in {"try", "wait", "timed"} : TryWait(w)
  BY <1>4 DEF TryWait
<1>5. CASE TryWaitFails
  <2>1. get = "idle" /\ mine <= 0
    BY <1>5 DEF TryWaitFails, SeesNone
  <2>2. known <= taken
    BY <2>1
  <2>3. empty' = TRUE /\ UNCHANGED <<capacity, sent, taken, last, known, gone, full>>
    BY <1>5 DEF TryWaitFails
  <2>4. DequeueFails
    BY <2>2, <2>3
  <2>5. Learn
    BY <2>3
  <2>. QED  BY <2>4, <2>5 DEF Next
<1>6. CASE \E w \in {"wait", "timed"} : Spin(w)
  BY <1>6 DEF Spin
<1>7. CASE TimedOut
  BY <1>7 DEF TimedOut
<1>8. CASE SpinFinds
  BY <1>8 DEF SpinFinds
<1>9. CASE SpinEnds
  BY <1>9 DEF SpinEnds
<1>10. CASE SemaWait
  BY <1>10 DEF SemaWait
<1>11. CASE Undo
  BY <1>11 DEF Undo
<1>12. CASE Again
  BY <1>12 DEF Again
<1>13. CASE RetryFails
  BY <1>13 DEF RetryFails
<1>14. CASE TakeElement
  BY <1>14 DEF TakeElement, Dequeue
<1>15. CASE UNCHANGED vars
  BY <1>15 DEF vars, semaphore
<1>. QED  BY <1>1, <1>2, <1>3, <1>4, <1>5, <1>6, <1>7, <1>8, <1>9, <1>10, <1>11, <1>12, <1>13, <1>14, <1>15 DEF BlockingNext, FinishSignal, FinishWait

\* The blocking queue implements the queue: what it answers, with and without
\* a timeout, the queue could have answered.
THEOREM Refinement == BlockingSpec => ImplementsQueue
<1>1. BlockingInit => Init
  BY DEF BlockingInit
<1>. QED  BY <1>1, Invariance, StepRefines, PTL DEF BlockingSpec, ImplementsQueue, Spec

=============================================================================
