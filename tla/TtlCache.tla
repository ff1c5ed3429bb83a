-------------------------------- MODULE TtlCache --------------------------------
(***************************************************************************)
(* The in-process TTL cache (app/cache.py) in front of the knowledge graph *)
(* and the MCP registry: an LRU store, and an LRU map of locks that is to  *)
(* let one coroutine at a time recompute a key.  A component: Kg composes  *)
(* its actions with the producers it caches.                               *)
(*                                                                         *)
(* Coroutines interleave only where the code awaits: in a busy lock and in *)
(* the producer.  Everything between two awaits is one step.               *)
(***************************************************************************)
EXTENDS Integers, Sequences, FiniteSets

CONSTANTS
    Keys,
    Callers,      \* coroutines in get_or_set
    MaxEntries,   \* max_entries
    None

ASSUME MaxEntriesIsPositive == MaxEntries \in Nat \ {0}
ASSUME CallersAreFinite == IsFiniteSet(Callers)

VARIABLES
    store,   \* _store, least recently used first
    locks,   \* _locks, least recently used first
    queue,   \* each lock's holder, then its waiters in order
    caller,  \* each coroutine: where it is, its key and its lock
    asked    \* history: the keys that were asked for

vars == <<store, locks, queue, caller, asked>>

LockIds == 1..(MaxEntries + Cardinality(Callers))

Has(lru, key) == \E i \in DOMAIN lru : lru[i].key = key
At(lru, key) == lru[CHOOSE i \in DOMAIN lru : lru[i].key = key]
Without(lru, key) ==
    LET i == CHOOSE i \in DOMAIN lru : lru[i].key = key
    IN  IF Has(lru, key) THEN SubSeq(lru, 1, i - 1) \o SubSeq(lru, i + 1, Len(lru)) ELSE lru
Put(lru, entry) == Append(Without(lru, entry.key), entry)

\* A map that has outgrown max_entries, which it does by one entry at a time, lets its
\* least recently used go.
Outgrown(lru) == Len(lru) > MaxEntries
Trimmed(lru) == IF Outgrown(lru) THEN Tail(lru) ELSE lru

\* _fresh: a live entry moves to the end, an expired one is dropped.
Fresh(key) == Has(store, key) /\ At(store, key).fresh
Looked(key) == IF Fresh(key) THEN Put(store, At(store, key)) ELSE Without(store, key)

\* _lock_for: the key's lock, or a new one; the oldest locks go, held or not.
NewLock(key) ==  \* a slip to use it always
    CHOOSE l \in LockIds : queue[l] = <<>> /\ \A i \in DOMAIN locks : locks[i].lock # l
LockFor(key) == IF Has(locks, key) THEN At(locks, key).lock ELSE NewLock(key)
LocksAfter(key) == Trimmed(Put(locks, [key |-> key, lock |-> LockFor(key)]))

Busy(l) == queue[l] # <<>>

\* The coroutine that holds a lock leaves it to the next waiter.
DropsWaiters(k) == [queue EXCEPT ![caller[k].lock] = <<>>]  \* a slip
Released(k) == [queue EXCEPT ![caller[k].lock] = Tail(@)]

Idle == [at |-> "idle", key |-> None, lock |-> 0]

Set(k, c) == caller' = [caller EXCEPT ![k] = c]
Holds(k) ==
    LET q == queue[caller[k].lock]
    IN  caller[k].at = "waiting" /\ q # <<>> /\ q[1] = k

-----------------------------------------------------------------------------
Init ==
    /\ store = <<>>
    /\ locks = <<>>
    /\ queue = [l \in LockIds |-> <<>>]
    /\ caller = [k \in Callers |-> Idle]
    /\ asked = {}

\* get_or_set finds the entry it looks for ...
Hit(k, key) ==
    /\ caller[k].at = "idle"
    /\ Fresh(key)
    /\ store' = Looked(key)
    /\ asked' = asked \cup {key}
    /\ UNCHANGED <<locks, queue, caller>>

\* ... or takes the key's lock, and queues when it is busy.
Miss(k, key) ==
    LET l == LockFor(key)
    IN  /\ caller[k].at = "idle"
        /\ ~Fresh(key)
        /\ store' = Looked(key)
        /\ Set(k, [at |-> IF Busy(l) THEN "waiting" ELSE "producing", key |-> key, lock |-> l])
        /\ locks' = LocksAfter(key)
        /\ queue' = [queue EXCEPT ![l] = Append(@, k)]
        /\ asked' = asked \cup {key}

\* A waiter gets the lock and looks again before it produces.
Wake(k) ==
    LET key == caller[k].key
    IN  /\ Holds(k)
        /\ store' = Looked(key)
        /\ IF Fresh(key)
             THEN Set(k, Idle) /\ queue' = Released(k)
             ELSE Set(k, [caller[k] EXCEPT !.at = "producing"]) /\ UNCHANGED queue
        /\ UNCHANGED <<locks, asked>>

\* The producer returns: its value is stored and answered ...
Store(k, value) ==
    LET key == caller[k].key
        all == Put(store, [key |-> key, value |-> value, fresh |-> TRUE])
    IN  /\ caller[k].at = "producing"
        /\ store' = Trimmed(all)
        /\ locks' = IF Outgrown(all) THEN Without(locks, all[1].key) ELSE locks
        /\ queue' = Released(k)
        /\ Set(k, Idle)
        /\ UNCHANGED asked

\* ... or it raises, and nothing is.
Raise(k) ==
    /\ caller[k].at = "producing"
    /\ queue' = Released(k)
    /\ Set(k, Idle)
    /\ UNCHANGED <<store, locks, asked>>

\* The time to live of an entry runs out.
Expire(key) ==
    /\ Fresh(key)
    /\ store' = [i \in DOMAIN store |->
                   IF store[i].key = key THEN [store[i] EXCEPT !.fresh = FALSE] ELSE store[i]]
    /\ UNCHANGED <<locks, queue, caller, asked>>

-----------------------------------------------------------------------------
(* Properties.                                                             *)

\* cache.py 62: "single-flight: only one coroutine recomputes a given key", as long as
\* no more keys have been asked for than there is room for: beyond that, a lock may be
\* let go while it is held.
Roomy == Cardinality(asked) <= MaxEntries
OneProducer ==
    Roomy => \A j, k \in Callers :
       /\ caller[j].at = "producing" /\ caller[k].at = "producing"
       /\ caller[j].key = caller[k].key
       => j = k
=============================================================================
