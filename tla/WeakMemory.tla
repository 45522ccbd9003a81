----------------------------- MODULE WeakMemory -----------------------------
(***************************************************************************)
(* The memory that a producer and a consumer thread share, as atomicops.h  *)
(* uses it: relaxed loads and stores (weak_atomic) ordered by fences.      *)
(* Every location is written by one thread only, so a thread's writes, in  *)
(* program order, are a log, and what one thread knows of the other is a   *)
(* prefix of the other's log.                                              *)
(*                                                                         *)
(* A load returns any write of its location that is not older than the     *)
(* one last read and not older than what the reader already knows.  A      *)
(* store carries `pub', how much of its thread's log stood before the last *)
(* release fence; a reader of it knows that much from its next acquire     *)
(* fence on.  A plain access, to an element or to a block under            *)
(* construction, is logged too, so that races can be told: an access races *)
(* with one of the other thread that it does not know of.                  *)
(***************************************************************************)
EXTENDS Naturals, Sequences, FiniteSetsExt

P == "producer"
C == "consumer"
Threads == {P, C}
Other(t) == IF t = P THEN C ELSE P

VARIABLES
    log,    \* what each thread wrote or accessed, in program order
    pub,    \* the length of its log at its last release fence
    seen,   \* how much of the other's log happened before
    fresh,  \* the same once the next acquire fence is passed
    at      \* where in the other's log each location was last read

memory == <<log, pub, seen, fresh, at>>

\* Where location loc was last written among the first n entries of s.
LastIn(s, loc, n) == Max({0} \cup {i \in 1 .. n : s[i].loc = loc})

\* The value of a location its only writer t reads back.
Own(t, loc, initially) ==
    LET i == LastIn(log[t], loc, Len(log[t]))
    IN  IF i = 0 THEN initially ELSE log[t][i].val

\* weak_atomic::load: the writes of the other thread a load of loc by t may return.
Loads(t, loc) ==
    LET s == log[Other(t)]
        least == Max({at[t][loc], LastIn(s, loc, seen[t])})
    IN  {i \in {least} \cup {j \in 1 .. Len(s) : s[j].loc = loc} : i >= least}

Loaded(t, i, initially) == IF i = 0 THEN initially ELSE log[Other(t)][i].val

\* The knowledge of t after it has loaded write i of loc, before a fence ...
Reads(t, loc, i) ==
    /\ at' = [at EXCEPT ![t][loc] = i]
    /\ fresh' = [fresh EXCEPT ![t] = IF i = 0 THEN @ ELSE Max({@, log[Other(t)][i].pub})]
    /\ UNCHANGED seen

\* ... and with fence(memory_order_acquire) behind the load.
\* Mutant of ReadsAcquire: no fence.
ReadsRelaxed(t, loc, i) == Reads(t, loc, i)
ReadsAcquire(t, loc, i) ==
    LET k == IF i = 0 THEN fresh[t] ELSE Max({fresh[t], log[Other(t)][i].pub})
    IN  /\ at' = [at EXCEPT ![t][loc] = i]
        /\ fresh' = [fresh EXCEPT ![t] = k]
        /\ seen' = [seen EXCEPT ![t] = k]

\* fence(memory_order_acquire) on its own.
Acquire(t) ==
    /\ seen' = [seen EXCEPT ![t] = fresh[t]]
    /\ UNCHANGED <<fresh, at>>

\* Plain and relaxed writes, in order, then fence(memory_order_release) and
\* one more relaxed write; `early': with a release fence in front of them too.
\* Mutant of WriteRelease: no fence.
Entries(writes, p) ==
    [i \in DOMAIN writes |-> [loc |-> writes[i][1], val |-> writes[i][2], pub |-> p]]
WriteRelaxed(t, early, writes, last) ==
    /\ log' = [log EXCEPT ![t] = @ \o Entries(Append(writes, last), pub[t])]
    /\ UNCHANGED pub
WriteRelease(t, early, writes, last) ==
    LET n == Len(log[t])
    IN  /\ log' = [log EXCEPT ![t] = @ \o Entries(writes, IF early THEN n ELSE pub[t])
                                       \o Entries(<<last>>, n + Len(writes))]
        /\ pub' = [pub EXCEPT ![t] = n + Len(writes)]

\* The plain accesses to loc that t, knowing k of the other's log, races with.
Races(t, loc, k) ==
    \E i \in 1 .. Len(log[Other(t)]) : i > k /\ log[Other(t)][i].loc = loc

InitMemory(locs) ==
    /\ log = [t \in Threads |-> <<>>]
    /\ pub = [t \in Threads |-> 0]
    /\ seen = [t \in Threads |-> 0]
    /\ fresh = [t \in Threads |-> 0]
    /\ at = [t \in Threads |-> [l \in locs |-> 0]]

=============================================================================
