------------------------- MODULE ReaderWriterQueue -------------------------
(***************************************************************************)
(* The lock-free queue of readerwriterqueue.h between one producer and one *)
(* consumer thread: a ring of blocks, each a circular buffer, under the    *)
(* memory model of atomicops.h (WeakMemory).                               *)
(*                                                                         *)
(* A thread's steps end where it next loads what the other thread writes:  *)
(* what it writes in between the other may see all, in part, or not yet,   *)
(* whenever it looks.  Elements are numbered in the order in which they    *)
(* are enqueued.                                                           *)
(***************************************************************************)
EXTENDS WeakMemory, Integers, FiniteSets

CONSTANTS
    Sizes,          \* values of the constructor's size to choose from
    MaxBlockSize,   \* MAX_BLOCK_SIZE
    MaxBlocks,      \* bound: malloc fails beyond
    MaxItems,       \* bound: elements enqueued
    MaxWalks        \* bound: calls of size_approx by either thread

ASSUME SizesAssumption == Sizes \subseteq Nat \ {0}
ASSUME BlockAssumption == MaxBlockSize \in {2 ^ k : k \in 1 .. 9}

VARIABLES
    size,           \* what the queue was constructed with
    sizes,          \* the size of each block allocated so far
    localTail,      \* per block, the consumer's copy of tail
    localFront,     \* per block, the producer's copy of front
    prod, cons,     \* where each thread is, and what it holds in registers
    walks,          \* calls of size_approx so far
    sentAt,         \* history: where in the producer's log each element was published
    takenAt,        \* history: where in the consumer's log each element was let go
    taken,          \* history: the elements the consumer got
    raced,          \* a plain access raced with one of the other thread
    strayed,        \* ... in the consumer's size_approx
    failed          \* an assert failed

queue == <<size, sizes, localTail, localFront, prod, cons, walks,
           sentAt, takenAt, taken, raced, strayed, failed>>
vars == <<memory, queue>>

Sent == Len(sentAt)
Taken == Len(taken)

-----------------------------------------------------------------------------
\* Locations, and what they hold at first.

BlockIds == 1 .. MaxBlocks
Tail_(b) == <<"tail", b>>
Front(b) == <<"front", b>>
Next_(b) == <<"next", b>>
Data(b, i) == <<"data", b, i>>
Block(b) == <<"block", b>>      \* all that make_block constructs
TailBlock == <<"tailBlock">>
FrontBlock == <<"frontBlock">>
Locations == {Tail_(b) : b \in BlockIds} \cup {Front(b) : b \in BlockIds}
             \cup {Next_(b) : b \in BlockIds} \cup {TailBlock, FrontBlock}

CeilToPow2(x) == Min({y \in {2 ^ k : k \in 0 .. x} : y >= x})

\* The blocks the constructor allocates for n elements.
FirstBlocks(n) ==
    IF CeilToPow2(n + 1) > MaxBlockSize * 2
    THEN [b \in 1 .. (n + MaxBlockSize * 2 - 3) \div (MaxBlockSize - 1) |-> MaxBlockSize]
    ELSE <<CeilToPow2(n + 1)>>

Ring(b) == (b % Len(FirstBlocks(size))) + 1     \* the constructor's next

Advance(b, i) == (i + 1) % sizes[b]             \* & sizeMask

\* What the producer and the consumer hold of their own.
MyTailBlock == Own(P, TailBlock, 1)
MyTail(b) == Own(P, Tail_(b), 0)
MyNext(b) == Own(P, Next_(b), Ring(b))
MyFrontBlock == Own(C, FrontBlock, 1)
MyFront(b) == Own(C, Front(b), 0)

\* Each load of the other's, with the fence behind it: what thread t knows then.
Knows(t, i) == IF i = 0 THEN fresh[t] ELSE Max({fresh[t], log[Other(t)][i].pub})

Idle == {"idle", "full", "empty", "sized"}      \* between calls, with the last result
MayWalk == walks < MaxWalks
AtRest == [pc |-> "idle", can |-> FALSE, op |-> "dequeue", blk |-> 0, start |-> 0,
           res |-> 0, known |-> 0]

\* The elements the consumer must know of, and those the producer must know gone.
Known == Cardinality({i \in 1 .. Sent : sentAt[i] <= seen[C]})
Gone == Cardinality({i \in 1 .. Taken : takenAt[i] <= seen[P]})

-----------------------------------------------------------------------------
\* inner_enqueue.  Publish: construct the element at (b, i), knowing k of the
\* consumer's log, and make it visible by a release store to `last'.
Publish(b, i, k, before, after, last) ==
    /\ WriteRelease(P, FALSE, before \o <<<<Data(b, i), Sent + 1>>>> \o after, last)
    /\ sentAt' = Append(sentAt, Len(log'[P]))
    /\ raced' = (raced \/ Races(P, Data(b, i), k))
    /\ prod' = AtRest

\* Room in the tail block, by the producer's copy of front or ...
EnqueueStart(can) ==
    LET b == MyTailBlock
        t == MyTail(b)
    IN  /\ prod.pc \in Idle
        /\ Sent < MaxItems
        /\ IF Advance(b, t) /= localFront[b]
           THEN /\ Acquire(P)
                /\ Publish(b, t, fresh[P], <<>>, <<>>, <<Tail_(b), Advance(b, t)>>)
           ELSE /\ prod' = [AtRest EXCEPT !.pc = "front", !.can = can]
                /\ UNCHANGED <<memory, sentAt, raced>>
        /\ UNCHANGED <<size, sizes, localTail, localFront, cons, walks, takenAt, taken, failed,
                       strayed>>

\* ... by the front it loads.
EnqueueReadFront(can) ==
    LET b == MyTailBlock
        t == MyTail(b)
    IN  /\ prod.pc = "front"
        /\ prod.can = can
        /\ \E i \in Loads(P, Front(b)) :
           LET v == Loaded(P, i, 0) IN
           /\ localFront' = [localFront EXCEPT ![b] = v]
           /\ ReadsAcquire(P, Front(b), i)
           /\ IF Advance(b, t) /= v
              THEN Publish(b, t, Knows(P, i), <<>>, <<>>, <<Tail_(b), Advance(b, t)>>)
              ELSE /\ prod' = [prod EXCEPT !.pc = "frontBlock"]
                   /\ UNCHANGED <<log, pub, sentAt, raced>>
           /\ UNCHANGED <<size, sizes, localTail, cons, walks, takenAt, taken, failed, strayed>>

\* The tail block is full.  Unless the next one is the front block it is empty.
\* Mutant of NextIsFree: the front block is taken as well.
NextIsFreeAlways(b, front) == MyNext(b) /= b
NextIsFree(b, front) == MyNext(b) /= front

\* make_block, and the element as its first.
NewBlock(k) ==
    LET b == MyTailBlock
        nb == Len(sizes) + 1
        largest == sizes[Len(sizes)]    \* largestBlockSize: blocks only grow
    IN  /\ sizes' = Append(sizes, IF largest >= MaxBlockSize THEN largest ELSE largest * 2)
        /\ localTail' = Append(localTail, 1)
        /\ localFront' = Append(localFront, 0)
        /\ Publish(nb, 0, k, <<<<Block(nb), 0>>>>,
                   <<<<Tail_(nb), 1>>, <<Next_(nb), MyNext(b)>>, <<Next_(b), nb>>>>,
                   <<TailBlock, nb>>)

EnqueueReadFrontBlock(can) ==
    LET b == MyTailBlock IN
    /\ prod.pc = "frontBlock"
    /\ prod.can = can
    /\ \E i \in Loads(P, FrontBlock) :
           LET v == Loaded(P, i, 1) IN
           /\ \/ /\ NextIsFree(b, v)
                 /\ ReadsAcquire(P, FrontBlock, i)
                 /\ prod' = [prod EXCEPT !.pc = "nextFront"]
                 /\ UNCHANGED <<log, pub, sizes, localTail, localFront, sentAt, raced>>
              \/ /\ ~NextIsFree(b, v)
                 /\ Reads(P, FrontBlock, i)
                 /\ can
                 /\ Len(sizes) < MaxBlocks
                 /\ NewBlock(seen[P])
              \/ /\ ~NextIsFree(b, v)
                 /\ Reads(P, FrontBlock, i)
                 /\ prod' = [AtRest EXCEPT !.pc = IF can THEN "idle" ELSE "full"] \* malloc may fail
                 /\ UNCHANGED <<log, pub, sizes, localTail, localFront, sentAt, raced>>
           /\ UNCHANGED <<size, cons, walks, takenAt, taken, failed, strayed>>

\* Use the free block ahead.
EnqueueReadNextFront(can) ==
    LET nb == MyNext(MyTailBlock)
        t == MyTail(nb)
    IN  /\ prod.pc = "nextFront"
        /\ prod.can = can
        /\ \E i \in Loads(P, Front(nb)) :
           LET v == Loaded(P, i, 0) IN
           /\ localFront' = [localFront EXCEPT ![nb] = v]
           /\ ReadsAcquire(P, Front(nb), i)
           /\ failed' = (failed \/ v /= t)
           /\ Publish(nb, t, Knows(P, i), <<>>, <<<<Tail_(nb), Advance(nb, t)>>>>, <<TailBlock, nb>>)
           /\ UNCHANGED <<size, sizes, localTail, cons, walks, takenAt, taken, strayed>>

InnerEnqueue(can) ==
    \/ EnqueueStart(can)
    \/ EnqueueReadFront(can)
    \/ EnqueueReadFrontBlock(can)
    \/ EnqueueReadNextFront(can)

TryEnqueue == InnerEnqueue(FALSE)
Enqueue == InnerEnqueue(TRUE)

-----------------------------------------------------------------------------
\* try_dequeue, pop and peek.  Take: move the element at (b, i) out, or only
\* look at it, knowing k of the producer's log, and let its place go by a
\* release store.  With nb, a block the consumer advances to, the front block
\* is stored first, behind a fence of its own.
Element(b, i) ==
    LET j == LastIn(log[P], Data(b, i), Len(log[P]))
    IN  IF j = 0 THEN 0 ELSE log[P][j].val

Take(op, b, i, k, advance) ==
    /\ cons' = AtRest
    /\ raced' = (raced \/ Races(C, Data(b, i), k))
    /\ IF op = "peek"
       THEN UNCHANGED <<log, pub, takenAt, taken>>
       ELSE /\ WriteRelease(C, advance,
                            (IF advance THEN <<<<FrontBlock, b>>>> ELSE <<>>)
                                \o <<<<Data(b, i), 0>>>>,
                            <<Front(b), Advance(b, i)>>)
            /\ taken' = Append(taken, Element(b, i))
            /\ takenAt' = Append(takenAt, Len(log'[C]))

\* An element in the front block, by the consumer's copy of tail or ...
DequeueStart(op) ==
    LET b == MyFrontBlock
        f == MyFront(b)
    IN  /\ cons.pc \in Idle
        /\ IF f /= localTail[b]
           THEN /\ Acquire(C)
                /\ Take(op, b, f, fresh[C], FALSE)
           ELSE /\ cons' = [AtRest EXCEPT !.pc = "tail", !.op = op]
                /\ UNCHANGED <<memory, takenAt, taken, raced>>
        /\ UNCHANGED <<size, sizes, localTail, localFront, prod, walks, sentAt, failed, strayed>>

\* ... by the tail it loads: once before it looks at the tail block ("tail"),
\* and, if that is another block, once more after ("again").
DequeueReadTail(op) ==
    LET b == MyFrontBlock
        f == MyFront(b)
    IN  /\ cons.pc \in {"tail", "again"}
        /\ cons.op = op
        /\ \E i \in Loads(C, Tail_(b)) :
           LET v == Loaded(C, i, 0) IN
           /\ localTail' = [localTail EXCEPT ![b] = v]
           /\ IF f /= v
              THEN /\ ReadsAcquire(C, Tail_(b), i)
                   /\ Take(op, b, f, Knows(C, i), FALSE)
              ELSE /\ cons' = [cons EXCEPT !.pc = IF @ = "tail" THEN "tailBlock" ELSE "next"]
                   /\ IF cons.pc = "tail" THEN Reads(C, Tail_(b), i) ELSE ReadsAcquire(C, Tail_(b), i)
                   /\ UNCHANGED <<log, pub, takenAt, taken, raced>>
           /\ UNCHANGED <<size, sizes, localFront, prod, walks, sentAt, failed, strayed>>

\* Mutant of DequeueReadTailBlock: the front block is not looked at again.
DequeueReadTailBlockOnce(op) ==
    /\ cons.pc = "tailBlock"
    /\ cons.op = op
    /\ \E i \in Loads(C, TailBlock) :
           /\ cons' = [cons EXCEPT !.pc = IF Loaded(C, i, 1) = MyFrontBlock THEN "empty" ELSE "next"]
           /\ ReadsAcquire(C, TailBlock, i)
           /\ UNCHANGED <<log, pub, size, sizes, localTail, localFront, prod, walks,
                          sentAt, takenAt, taken, raced, failed, strayed>>
DequeueReadTailBlock(op) ==
    /\ cons.pc = "tailBlock"
    /\ cons.op = op
    /\ \E i \in Loads(C, TailBlock) :
           /\ IF Loaded(C, i, 1) = MyFrontBlock
              THEN /\ cons' = [AtRest EXCEPT !.pc = "empty"]
                   /\ Reads(C, TailBlock, i)
              ELSE /\ cons' = [cons EXCEPT !.pc = "again"]
                   /\ ReadsAcquire(C, TailBlock, i)
           /\ UNCHANGED <<log, pub, size, sizes, localTail, localFront, prod, walks,
                          sentAt, takenAt, taken, raced, failed, strayed>>

\* The front block is empty and there is another one ahead.
DequeueReadNext(op) ==
    /\ cons.pc = "next"
    /\ cons.op = op
    /\ \E i \in Loads(C, Next_(MyFrontBlock)) :
           LET nb == Loaded(C, i, Ring(MyFrontBlock)) IN
           /\ Reads(C, Next_(MyFrontBlock), i)
           /\ cons' = [cons EXCEPT !.pc = "nextTail", !.blk = nb]
           /\ raced' = (raced \/ Races(C, Block(nb), seen[C]))
           /\ UNCHANGED <<log, pub, size, sizes, localTail, localFront, prod, walks,
                          sentAt, takenAt, taken, failed, strayed>>

\* The tail of that one; peek loads it for its assert only, behind the fence.
DequeueReadNextTail(op) ==
    LET nb == cons.blk
        f == MyFront(nb)
    IN  /\ cons.pc = "nextTail"
        /\ cons.op = op
        /\ \E i \in Loads(C, Tail_(nb)) :
           LET v == Loaded(C, i, 0) IN
           /\ failed' = (failed \/ f = v)
           /\ IF op = "peek"
              THEN /\ Reads(C, Tail_(nb), i)
                   /\ Take(op, nb, f, fresh[C], FALSE)
                   /\ UNCHANGED localTail
              ELSE /\ ReadsAcquire(C, Tail_(nb), i)
                   /\ Take(op, nb, f, Knows(C, i), TRUE)
                   /\ localTail' = [localTail EXCEPT ![nb] = v]
           /\ UNCHANGED <<size, sizes, localFront, prod, walks, sentAt, strayed>>

Remove(op) ==
    \/ DequeueStart(op)
    \/ DequeueReadTail(op)
    \/ DequeueReadTailBlock(op)
    \/ DequeueReadNext(op)
    \/ DequeueReadNextTail(op)

TryDequeue == Remove("dequeue")
Peek == Remove("peek")
Pop == Remove("pop")

-----------------------------------------------------------------------------
\* size_approx walks the ring once from the front block.  The producer loads
\* the front of each block, the consumer its tail and next.

ProducerSizeStart ==
    \E i \in Loads(P, FrontBlock) :
        /\ prod.pc \in Idle
        /\ MayWalk
        /\ walks' = walks + 1
        /\ ReadsAcquire(P, FrontBlock, i)
        /\ prod' = [AtRest EXCEPT !.pc = "walk", !.blk = Loaded(P, i, 1),
                                  !.start = Loaded(P, i, 1), !.known = Gone]
        /\ UNCHANGED <<log, pub, size, sizes, localTail, localFront, cons,
                       sentAt, takenAt, taken, raced, failed, strayed>>

ProducerSizeBlock ==
    LET b == prod.blk IN
    /\ prod.pc = "walk"
    /\ \E i \in Loads(P, Front(b)) :
           /\ ReadsAcquire(P, Front(b), i)
           /\ prod' = [prod EXCEPT !.pc = IF MyNext(b) = prod.start THEN "sized" ELSE "walk",
                                   !.blk = IF MyNext(b) = prod.start THEN 0 ELSE MyNext(b),
                                   !.start = IF MyNext(b) = prod.start THEN 0 ELSE @,
                                   !.res = @ + ((MyTail(b) - Loaded(P, i, 0)) % sizes[b])]
           /\ UNCHANGED <<log, pub, size, sizes, localTail, localFront, cons, walks,
                          sentAt, takenAt, taken, raced, failed, strayed>>

ConsumerSizeStart ==
    /\ cons.pc \in Idle
    /\ MayWalk
    /\ walks' = walks + 1
    /\ cons' = [AtRest EXCEPT !.pc = "sizeTail", !.blk = MyFrontBlock, !.known = Known]
    /\ Acquire(C)
    /\ UNCHANGED <<log, pub, size, sizes, localTail, localFront, prod,
                   sentAt, takenAt, taken, raced, failed, strayed>>

ConsumerSizeTail ==
    LET b == cons.blk IN
    /\ cons.pc = "sizeTail"
    /\ \E i \in Loads(C, Tail_(b)) :
           /\ Reads(C, Tail_(b), i)
           /\ cons' = [cons EXCEPT !.pc = "sizeNext",
                                   !.res = @ + ((Loaded(C, i, 0) - MyFront(b)) % sizes[b])]
           /\ UNCHANGED <<log, pub, size, sizes, localTail, localFront, prod, walks,
                          sentAt, takenAt, taken, raced, failed, strayed>>

\* The next block may be one whose construction the consumer need not see: what
\* the walk reads of it is undefined, and so is the result.
ConsumerSizeNext ==
    /\ cons.pc = "sizeNext"
    /\ \E i \in Loads(C, Next_(cons.blk)) :
           LET nb == Loaded(C, i, Ring(cons.blk)) IN
           /\ \/ /\ nb = MyFrontBlock
                 /\ Reads(C, Next_(cons.blk), i)
                 /\ cons' = [cons EXCEPT !.pc = "sized", !.blk = 0]
                 /\ UNCHANGED strayed
              \/ /\ nb /= MyFrontBlock
                 /\ ReadsAcquire(C, Next_(cons.blk), i)
                 /\ IF Races(C, Block(nb), Knows(C, i))
                    THEN /\ strayed' = TRUE
                         /\ \E r \in 0 .. MaxItems :
                                cons' = [cons EXCEPT !.pc = "sized", !.blk = 0, !.res = r]
                    ELSE /\ cons' = [cons EXCEPT !.pc = "sizeTail", !.blk = nb]
                         /\ UNCHANGED strayed
           /\ UNCHANGED <<log, pub, size, sizes, localTail, localFront, prod, walks,
                          sentAt, takenAt, taken, raced, failed>>

-----------------------------------------------------------------------------
Init ==
    /\ size \in Sizes
    /\ sizes = FirstBlocks(size)
    /\ localTail = [b \in DOMAIN sizes |-> 0]
    /\ localFront = [b \in DOMAIN sizes |-> 0]
    /\ prod = AtRest
    /\ cons = AtRest
    /\ walks = 0
    /\ sentAt = <<>>
    /\ takenAt = <<>>
    /\ taken = <<>>
    /\ raced = FALSE
    /\ strayed = FALSE
    /\ failed = FALSE
    /\ InitMemory(Locations)

Produce == TryEnqueue \/ Enqueue \/ ProducerSizeStart \/ ProducerSizeBlock
Consume == TryDequeue \/ Peek \/ Pop \/ ConsumerSizeStart \/ ConsumerSizeTail \/ ConsumerSizeNext

Next == Produce \/ Consume

Spec == Init /\ [][Next]_vars

-----------------------------------------------------------------------------
\* Under every order in which the two threads' stores may become visible the
\* ring of blocks is a queue: elements come out in order and once, a dequeue
\* is empty only if the consumer has taken all it knows of, try_enqueue fails
\* only if `size' elements are not known to be gone.
Queue == INSTANCE SpscQueue WITH
    capacity <- size, sent <- Sent, taken <- Taken,
    last <- IF taken = <<>> THEN 0 ELSE taken[Taken],
    known <- Known, gone <- Gone,
    full <- prod.pc = "full", empty <- cons.pc = "empty"
ImplementsQueue == Queue!Spec

\* No element is read or destroyed while it may still be under construction,
\* nor overwritten while it may still be in use, and a dequeue, pop or peek of
\* the consumer enters no block whose construction it need not see: the fences
\* suffice.  Its size_approx does enter such blocks (strayed), though line 478
\* says "Safe to call from both the producer and consumer threads".
NoRaceButSize == ~raced

\* The asserts of inner_enqueue (a block ahead that is not the front block is
\* empty) and of try_dequeue, pop and peek (the block behind an empty one that
\* is not the tail block is not) hold whatever each thread sees of the other.
Asserts == ~failed

\* size_approx counts no element that was taken before the call and no element
\* twice; the consumer's misses none it knew of, the producer's counts as gone
\* only what has been taken.  This is said of walks while blocks are filled,
\* drained and linked in, but of no walk of the consumer that has entered a block
\* whose construction it need not see: its result may be any.
SizeHonestUnlessStrayed ==
    /\ cons.pc = "sized" /\ ~strayed => cons.res \in cons.known - Taken .. Sent - Taken
    /\ prod.pc = "sized" => prod.res \in Sent - Taken .. Sent - prod.known

=============================================================================
