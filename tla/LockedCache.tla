---------------------------- MODULE LockedCache -----------------------------
(***************************************************************************)
(* LockedCache of mcrit_similarity/cache.py: an LRU cache shared by the    *)
(* provider's threads, bounded by number and by weight, whose get_or_set   *)
(* builds a missing key in one thread while the others wait for it.        *)
(*                                                                         *)
(* A step is what a thread does between two points where another thread    *)
(* can run: a critical section, a wait, the factory (which runs outside    *)
(* the lock).  The eviction loop of _store is one step per entry, with     *)
(* the lock held throughout.                                               *)
(***************************************************************************)
EXTENDS Integers, Sequences, FiniteSetsExt

CONSTANTS
    Threads, Keys,
    Values,         \* what a factory may return or a caller may store
    EmptyValues,    \* those that get_or_set does not cache: None, {}, [], set()
    Weight,         \* [Values -> Nat]: `weigh`, 0 everywhere when it is None
    MaxItems, MaxWeight,    \* the limits, or NoLimit for None
    MaxCalls,       \* get_or_set calls a thread makes, NoLimit for any number
    NoThread, NoKey, NoValue, NoLimit

ASSUME CacheConstants ==
    /\ EmptyValues \subseteq Values
    /\ Weight \in [Values -> Nat]
    /\ MaxItems \in Nat \cup {NoLimit}
    /\ MaxWeight \in Nat \cup {NoLimit}
    /\ MaxCalls \in Nat \cup {NoLimit}

ASSUME Sentinels ==
    /\ NoThread \notin Threads
    /\ NoKey \notin Keys
    /\ NoValue \notin Values
    /\ NoLimit \notin Nat

VARIABLES
    order,          \* _items' keys, least recently used first
    val,            \* _items' values, NoValue for a key that is not there
    weights,        \* _weights, 0 for a key that is not there
    total,          \* _total_weight
    inflight,       \* _inflight: the thread that created the key's Event
    lock,           \* the thread inside _store's loop, holding _lock
    pc,             \* where each thread is
    key,            \* the key its call is about
    hand,           \* the value it holds: built, or to be stored
    awaits,         \* the creator of the Event it waits for
    signalled,      \* the waiters whose Event has been set
    stoppable,      \* threads whose call passed should_stop
    stopping,       \* those whose should_stop now answers True
    keepEmpty,      \* threads whose call passed cache_empty=True
    calls           \* calls made so far, to bound liveness runs

store == <<order, val, weights, total>>
flags == <<stoppable, keepEmpty>>
vars == <<store, inflight, lock, pc, key, hand, awaits, signalled,
          flags, stopping, calls>>

-----------------------------------------------------------------------------
(* The ordered dictionary *)

Cached(k) == val[k] # NoValue

Position(s, k) == CHOOSE i \in DOMAIN s : s[i] = k

(* move_to_end for a key in s. *)
ToEnd(s, k) ==
    LET p == Position(s, k)
    IN [i \in 1..Len(s) |-> IF i < p THEN s[i]
                            ELSE IF i = Len(s) THEN k ELSE s[i + 1]]

(* `self._items[key] = value` followed by move_to_end(key). *)
Placed(s, k) == IF k \in {s[i] : i \in DOMAIN s} THEN ToEnd(s, k)
                                                 ELSE Append(s, k)

TooMany == MaxItems # NoLimit /\ Len(order) > MaxItems
TooHeavy == MaxWeight # NoLimit /\ total > MaxWeight

OverLimit == Len(order) > 1 /\ (TooMany \/ TooHeavy)

(* Seeded bug: a replaced entry is counted twice. *)
BugInsert(k, v) ==
    /\ order' = Placed(order, k)
    /\ val' = [val EXCEPT ![k] = v]
    /\ weights' = [weights EXCEPT ![k] = Weight[v]]
    /\ total' = total + Weight[v]

(* _store up to its eviction loop. *)
Insert(k, v) ==
    /\ order' = Placed(order, k)
    /\ val' = [val EXCEPT ![k] = v]
    /\ weights' = [weights EXCEPT ![k] = Weight[v]]
    /\ total' = total - weights[k] + Weight[v]

(* One turn of the loop: the least recently used entry goes. *)
PopOldest ==
    LET oldest == Head(order)
    IN /\ order' = Tail(order)
       /\ val' = [val EXCEPT ![oldest] = NoValue]
       /\ weights' = [weights EXCEPT ![oldest] = 0]
       /\ total' = total - weights[oldest]

ShouldCache(t) == t \in keepEmpty \/ hand[t] \notin EmptyValues

-----------------------------------------------------------------------------
Init ==
    /\ order = <<>>
    /\ val = [k \in Keys |-> NoValue]
    /\ weights = [k \in Keys |-> 0]
    /\ total = 0
    /\ inflight = [k \in Keys |-> NoThread]
    /\ lock = NoThread
    /\ pc = [t \in Threads |-> "idle"]
    /\ key = [t \in Threads |-> NoKey]
    /\ hand = [t \in Threads |-> NoValue]
    /\ awaits = [t \in Threads |-> NoThread]
    /\ signalled = {}
    /\ stoppable = {}
    /\ stopping = {}
    /\ keepEmpty = {}
    /\ calls = [t \in Threads |-> 0]

Free == lock = NoThread
Goto(t, l) == pc' = [pc EXCEPT ![t] = l]

(* The call of t returns or raises: its locals are gone. *)
Return(t) ==
    /\ Goto(t, "idle")
    /\ key' = [key EXCEPT ![t] = NoKey]
    /\ hand' = [hand EXCEPT ![t] = NoValue]
    /\ awaits' = [awaits EXCEPT ![t] = NoThread]
    /\ signalled' = signalled \ {t}
    /\ stoppable' = stoppable \ {t}
    /\ stopping' = stopping \ {t}
    /\ keepEmpty' = keepEmpty \ {t}

CountCall(t) ==
    IF MaxCalls = NoLimit
    THEN UNCHANGED calls
    ELSE calls[t] < MaxCalls /\ calls' = [calls EXCEPT ![t] = @ + 1]

(* get_or_set(k, factory, cache_empty=, should_stop=) *)
GetOrSet(t, k) ==
    /\ pc[t] = "idle"
    /\ CountCall(t)
    /\ Goto(t, "enter")
    /\ key' = [key EXCEPT ![t] = k]
    /\ stoppable' \in {stoppable, stoppable \cup {t}}
    /\ keepEmpty' \in {keepEmpty, keepEmpty \cup {t}}
    /\ UNCHANGED <<store, inflight, lock, hand, awaits, signalled, stopping>>

(* set(k, v); v is weighed before the lock is taken. *)
Set(t, k, v) ==
    /\ pc[t] = "idle"
    /\ CountCall(t)
    /\ Goto(t, "set")
    /\ key' = [key EXCEPT ![t] = k]
    /\ hand' = [hand EXCEPT ![t] = v]
    /\ UNCHANGED <<store, inflight, lock, awaits, signalled, flags, stopping>>

(* get(k): the entry, when there is one, becomes the newest. *)
Get(t, k) ==
    /\ pc[t] = "idle"
    /\ Free
    /\ Cached(k)
    /\ order' = ToEnd(order, k)
    /\ UNCHANGED <<val, weights, total, inflight, lock, pc, key, hand, awaits,
                   signalled, flags, stopping, calls>>

(* Seeded bug: clear() leaves the recency list. *)
BugClearLists(t) ==
    /\ pc[t] = "idle"
    /\ Free
    /\ val' = [k \in Keys |-> NoValue]
    /\ weights' = [k \in Keys |-> 0]
    /\ total' = 0
    /\ UNCHANGED <<order, inflight, lock, pc, key, hand, awaits, signalled,
                   flags, stopping, calls>>

(* Seeded bug: clear() forgets the builds under way as well. *)
BugClear(t) ==
    /\ pc[t] = "idle"
    /\ Free
    /\ order' = <<>>
    /\ val' = [k \in Keys |-> NoValue]
    /\ weights' = [k \in Keys |-> 0]
    /\ total' = 0
    /\ inflight' = [k \in Keys |-> NoThread]
    /\ UNCHANGED <<lock, pc, key, hand, awaits, signalled, flags, stopping,
                   calls>>

(* clear() forgets the entries, and nothing of the builds under way. *)
Clear(t) ==
    /\ pc[t] = "idle"
    /\ Free
    /\ order' = <<>>
    /\ val' = [k \in Keys |-> NoValue]
    /\ weights' = [k \in Keys |-> 0]
    /\ total' = 0
    /\ UNCHANGED <<inflight, lock, pc, key, hand, awaits, signalled, flags,
                   stopping, calls>>

(* The critical section at the head of get_or_set's loop: one of four. *)
Hit(t) ==
    /\ pc[t] = "enter"
    /\ Free
    /\ Cached(key[t])
    /\ order' = ToEnd(order, key[t])
    /\ Return(t)
    /\ UNCHANGED <<val, weights, total, inflight, lock, calls>>

(* Seeded bug: the cache is not consulted again after a wait. *)
BugMiss(t) == pc[t] = "enter" /\ Free

Miss(t) == pc[t] = "enter" /\ Free /\ ~Cached(key[t])

(* Seeded bug: the Event is taken without looking whether there is one. *)
BugJoinWait(t) ==
    /\ Miss(t)
    /\ awaits' = [awaits EXCEPT ![t] = inflight[key[t]]]
    /\ Goto(t, "wait")
    /\ UNCHANGED <<store, inflight, lock, key, hand, signalled, flags,
                   stopping, calls>>

JoinWait(t) ==
    /\ Miss(t)
    /\ inflight[key[t]] # NoThread
    /\ awaits' = [awaits EXCEPT ![t] = inflight[key[t]]]
    /\ Goto(t, "wait")
    /\ UNCHANGED <<store, inflight, lock, key, hand, signalled, flags,
                   stopping, calls>>

CancelledAtEntry(t) ==
    /\ Miss(t)
    /\ inflight[key[t]] = NoThread
    /\ t \in stopping
    /\ Return(t)
    /\ UNCHANGED <<store, inflight, lock, calls>>

(* Seeded bug: should_stop is only asked while waiting. *)
BugStartBuild(t) ==
    /\ Miss(t)
    /\ inflight[key[t]] = NoThread
    /\ inflight' = [inflight EXCEPT ![key[t]] = t]
    /\ Goto(t, "build")
    /\ UNCHANGED <<store, lock, key, hand, awaits, signalled, flags,
                   stopping, calls>>

StartBuild(t) ==
    /\ Miss(t)
    /\ inflight[key[t]] = NoThread
    /\ t \notin stopping
    /\ inflight' = [inflight EXCEPT ![key[t]] = t]
    /\ Goto(t, "build")
    /\ UNCHANGED <<store, lock, key, hand, awaits, signalled, flags,
                   stopping, calls>>

(* event.wait() returns: back to the head of the loop. *)
Wake(t) ==
    /\ pc[t] = "wait"
    /\ t \in signalled
    /\ Goto(t, "enter")
    /\ awaits' = [awaits EXCEPT ![t] = NoThread]
    /\ signalled' = signalled \ {t}
    /\ UNCHANGED <<store, inflight, lock, key, hand, flags, stopping, calls>>

(* event.wait(0.25) gives up for now; only a call with should_stop has a
   timeout. *)
TimeOut(t) ==
    /\ pc[t] = "wait"
    /\ t \notin signalled
    /\ t \in stoppable
    /\ Goto(t, "ask")
    /\ UNCHANGED <<store, inflight, lock, key, hand, awaits, signalled, flags,
                   stopping, calls>>

(* ... and asks should_stop().  The Event may be set in between. *)
GiveUp(t) ==
    /\ pc[t] = "ask"
    /\ t \in stopping
    /\ Return(t)
    /\ UNCHANGED <<store, inflight, lock, calls>>

KeepWaiting(t) ==
    /\ pc[t] = "ask"
    /\ t \notin stopping
    /\ Goto(t, "wait")
    /\ UNCHANGED <<store, inflight, lock, key, hand, awaits, signalled, flags,
                   stopping, calls>>

(* The factory, outside the lock, returns a value or raises. *)
FactoryReturns(t, v) ==
    /\ pc[t] = "build"
    /\ hand' = [hand EXCEPT ![t] = v]
    /\ Goto(t, "built")
    /\ UNCHANGED <<store, inflight, lock, key, awaits, signalled, flags,
                   stopping, calls>>

(* Seeded bug: the Event is not set when the factory raises. *)
BugFactoryRaises(t) ==
    /\ pc[t] = "build"
    /\ Return(t)
    /\ UNCHANGED <<store, inflight, lock, calls>>

FactoryRaises(t) ==
    /\ pc[t] = "build"
    /\ Goto(t, "finish")
    /\ UNCHANGED <<store, inflight, lock, key, hand, awaits, signalled, flags,
                   stopping, calls>>

Store(t) ==
    /\ \/ pc[t] = "built" /\ ShouldCache(t) /\ Goto(t, "evict")
       \/ pc[t] = "set" /\ Goto(t, "evictSet")
    /\ Free
    /\ lock' = t
    /\ Insert(key[t], hand[t])
    /\ UNCHANGED <<inflight, key, hand, awaits, signalled, flags, stopping,
                   calls>>

SkipStore(t) ==
    /\ pc[t] = "built"
    /\ Free
    /\ ~ShouldCache(t)
    /\ Goto(t, "finish")
    /\ UNCHANGED <<store, inflight, lock, key, hand, awaits, signalled, flags,
                   stopping, calls>>

(* Seeded bug: the loop of _store is an `if`. *)
BugEvict(t) ==
    /\ pc[t] = "evict"
    /\ OverLimit
    /\ PopOldest
    /\ lock' = NoThread
    /\ Goto(t, "finish")
    /\ UNCHANGED <<inflight, key, hand, awaits, signalled, flags, stopping,
                   calls>>

Evict(t) ==
    /\ lock = t
    /\ OverLimit
    /\ PopOldest
    /\ UNCHANGED <<inflight, lock, pc, key, hand, awaits, signalled, flags,
                   stopping, calls>>

(* The loop is over: the lock is given back. *)
Stored(t) ==
    /\ pc[t] = "evict"
    /\ ~OverLimit
    /\ lock' = NoThread
    /\ Goto(t, "finish")
    /\ UNCHANGED <<store, inflight, key, hand, awaits, signalled, flags,
                   stopping, calls>>

SetReturns(t) ==
    /\ pc[t] = "evictSet"
    /\ ~OverLimit
    /\ lock' = NoThread
    /\ Return(t)
    /\ UNCHANGED <<store, inflight, calls>>

Waiting(t) == pc[t] \in {"wait", "ask"}

(* Seeded bug: a waiter between two timeouts is missed. *)
BugWaitersOn(b) == {t \in Threads : pc[t] = "wait" /\ awaits[t] = b}

(* Those that `event.set()` releases when b has built. *)
WaitersOn(b) == {t \in Threads : Waiting(t) /\ awaits[t] = b}

(* The `finally` of the build: the Event is forgotten, then set. *)
Finish(t) ==
    /\ pc[t] = "finish"
    /\ Free
    /\ inflight' = [inflight EXCEPT ![key[t]] = NoThread]
    /\ signalled' = (signalled \cup WaitersOn(t)) \ {t}
    /\ Goto(t, "idle")
    /\ key' = [key EXCEPT ![t] = NoKey]
    /\ hand' = [hand EXCEPT ![t] = NoValue]
    /\ stoppable' = stoppable \ {t}
    /\ stopping' = stopping \ {t}
    /\ keepEmpty' = keepEmpty \ {t}
    /\ UNCHANGED <<store, lock, awaits, calls>>

(* The analyst cancels the visit that t's call belongs to. *)
RequestStop(t) ==
    /\ t \in stoppable \ stopping
    /\ stopping' = stopping \cup {t}
    /\ UNCHANGED <<store, inflight, lock, pc, key, hand, awaits, signalled,
                   flags, calls>>

Factory(t) == FactoryRaises(t) \/ \E v \in Values : FactoryReturns(t, v)

(* What a thread does of its own accord once inside a call. *)
Proceed(t) ==
    \/ Hit(t) \/ JoinWait(t) \/ CancelledAtEntry(t) \/ StartBuild(t)
    \/ Wake(t) \/ TimeOut(t) \/ GiveUp(t) \/ KeepWaiting(t)
    \/ Store(t) \/ SkipStore(t) \/ Evict(t) \/ Stored(t)
    \/ SetReturns(t) \/ Finish(t)

Enters(t) ==
    \/ Clear(t)
    \/ \E k \in Keys : GetOrSet(t, k) \/ Get(t, k)
    \/ \E k \in Keys, v \in Values : Set(t, k, v)

Next ==
    \E t \in Threads : Enters(t) \/ Proceed(t) \/ Factory(t) \/ RequestStop(t)

Spec == Init /\ [][Next]_vars

(* A thread that can run does run in the end; no factory need ever end. *)
FairSpec == Spec /\ \A t \in Threads : WF_vars(Proceed(t))

(* Every factory ends: it is a row of HTTP calls that time out, or a
   computation over the open binary. *)
FactoriesEnd == \A t \in Threads : WF_vars(Factory(t))

-----------------------------------------------------------------------------
(* What must hold *)

Idle(t) == pc[t] = "idle"
Building(t) == pc[t] \in {"build", "built", "evict", "finish"}
Storing(t) == pc[t] \in {"evict", "evictSet"}

Labels == {"idle", "enter", "wait", "ask", "build", "built", "set", "evict",
           "evictSet", "finish"}

Types ==
    /\ order \in Seq(Keys)
    /\ val \in [Keys -> Values \cup {NoValue}]
    /\ weights \in [Keys -> Nat]
    /\ total \in Int
    /\ inflight \in [Keys -> Threads \cup {NoThread}]
    /\ lock \in Threads \cup {NoThread}
    /\ pc \in [Threads -> Labels]
    /\ key \in [Threads -> Keys \cup {NoKey}]
    /\ hand \in [Threads -> Values \cup {NoValue}]
    /\ awaits \in [Threads -> Threads \cup {NoThread}]
    /\ signalled \subseteq Threads
    /\ stoppable \subseteq Threads
    /\ stopping \subseteq stoppable
    /\ keepEmpty \subseteq Threads
    /\ calls \in [Threads -> Nat]

InScope(t) ==
    /\ ~Idle(t) => key[t] \in Keys
    /\ pc[t] \in {"built", "set"} => hand[t] \in Values
    /\ Waiting(t) => awaits[t] \in Threads
    /\ t \in signalled => Waiting(t)
    /\ lock = t <=> Storing(t)

(* Every variable has its type, and a local has a value exactly while the
   code around it is running: a key during a call, an Event during a wait,
   the lock inside _store's loop. *)
TypeOK == Types /\ \A t \in Threads : InScope(t)

(* The recency list names each cached key once and no other key, though
   builders, setters, readers, clear() and eviction all edit it. *)
OrderIsContent ==
    /\ \A i, j \in DOMAIN order : order[i] = order[j] => i = j
    /\ \A k \in Keys : Cached(k) <=> \E i \in DOMAIN order : order[i] = k

(* The sum of w over S. *)
Sum(w, S) == MapThenSumSet(LAMBDA k : w[k], S)

(* _total_weight is the weight of the entries that are there, and an entry
   that is gone weighs nothing: no sequence of replacements, evictions and
   clears makes the sum drift. *)
WeightAccounting ==
    /\ total = Sum(weights, {k \in Keys : Cached(k)})
    /\ \A k \in Keys :
          weights[k] = IF Cached(k) THEN Weight[val[k]] ELSE 0

(* "Build key once": a key's entry in _inflight and the thread running its
   factory name each other, so two threads never build one key, and no
   failed build leaves the key claimed. *)
OneBuilder ==
    \A t \in Threads, k \in Keys :
        inflight[k] = t <=> Building(t) /\ key[t] = k

(* A waiter whose Event is not set yet waits for a build of its own key
   that is still under way: no wakeup is lost between reading _inflight,
   the timeouts, and the builder's `finally`. *)
NoLostWakeup ==
    \A t \in Threads :
        Waiting(t) /\ t \notin signalled => inflight[key[t]] = awaits[t]

(* Whenever the lock is free the cache is within its limits or holds just
   one entry, after any number of replacements and evictions. *)
Bounded == Free => ~OverLimit

(* "The newest entry is always kept, however heavy": while _store makes
   room, the entry it has just stored is there and last in line. *)
NewestKept ==
    \A t \in Threads :
        Storing(t) => Cached(key[t]) /\ order[Len(order)] = key[t]

(* When every factory ends, every call returns or raises: nobody waits for
   ever, whether a build is cached, is not worth caching, or fails. *)
EveryCallReturns ==
    FactoriesEnd => \A t \in Threads : ~Idle(t) ~> Idle(t)

(* A stopped call that is not itself building returns, even when the build
   it waits for never ends. *)
StopIsHonoured ==
    \A t \in Threads :
        t \in stopping /\ pc[t] \in {"enter", "wait", "ask"} ~> Idle(t)

(* The cache implements the abstract single-flight map. *)
Abstract == INSTANCE SingleFlight WITH
    content <- val,
    builder <- inflight,
    latest <- IF order = <<>> THEN NoKey ELSE order[Len(order)]

ImplementsSingleFlight == Abstract!Spec
=============================================================================
