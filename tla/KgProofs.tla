--------------------------------- MODULE KgProofs --------------------------------
(***************************************************************************)
(* That the cache has one producer per key, for any number of coroutines,  *)
(* keys and entries, and that a proxied write is counted right, for any    *)
(* number of URIs and outages.                                             *)
(*                                                                         *)
(* One producer: a lock goes only from a map that has outgrown its room,   *)
(* so that all who ask for a key while there is room queue at one lock,    *)
(* and who produces is the first in the queue of his.                      *)
(***************************************************************************)
EXTENDS Kg, FiniteSetTheorems, SequenceTheorems, TLAPS

Entries == [key : Keys, value : {Live, Snapshot}, fresh : BOOLEAN]
LockEntries == [key : Keys, lock : LockIds]

CacheTypeOK ==
    /\ store \in Seq(Entries) /\ Len(store) <= MaxEntries
    /\ locks \in Seq(LockEntries) /\ Len(locks) <= MaxEntries
    /\ queue \in [LockIds -> Seq(Callers)]
    /\ caller \in [Callers -> [at : {"idle", "waiting", "producing"}, key : Keys \cup {None},
                               lock : LockIds \cup {0}]]
    /\ \A k \in Callers : caller[k].at # "idle" => caller[k].key \in Keys /\ caller[k].lock \in LockIds
    /\ asked \in SUBSET Keys /\ IsFiniteSet(asked)
    /\ plan \in Plans

\* A map has each key once, and no key that nobody asked for.
Distinct(lru) == \A i, j \in DOMAIN lru : lru[i].key = lru[j].key => i = j
IsMap(lru) ==
    /\ Distinct(lru)
    /\ \A i \in DOMAIN lru : lru[i].key \in asked

MapsInOrder ==
    /\ IsMap(store) /\ IsMap(locks)
    /\ \A k \in Callers : caller[k].at # "idle" => caller[k].key \in asked

\* In the queue of a lock are those that use it, each once; who produces is the first.
QueuesInOrder ==
    /\ \A l \in LockIds : \A i, j \in DOMAIN queue[l] : queue[l][i] = queue[l][j] => i = j
    /\ \A l \in LockIds : \A i \in DOMAIN queue[l] :
         caller[queue[l][i]].at # "idle" /\ caller[queue[l][i]].lock = l
    /\ \A k \in Callers : caller[k].at = "producing" =>
         queue[caller[k].lock] # <<>> /\ queue[caller[k].lock][1] = k

\* While there is room, the map still has the lock of everyone who uses one.
LocksStay ==
    Roomy => \A k \in Callers : caller[k].at # "idle" =>
      [key |-> caller[k].key, lock |-> caller[k].lock] \in {locks[i] : i \in DOMAIN locks}

CacheInv == CacheTypeOK /\ MapsInOrder /\ QueuesInOrder /\ LocksStay

\* How often a write has been committed, told from where its query is: it was sent to as
\* many URIs as it was committed at, and to one more unless the last of them committed.
Tallies(n, r) ==
    /\ n \in Nat
    /\ \E d : r \in [at : {"off", "asking", "committed", "closing"}, uri : Nat, driver : {d}]
    /\ r.at = "off" => n = 0
    /\ r.at = "asking" => n < r.uri
    /\ r.at = "committed" => n \in 1..r.uri
    /\ r.at = "closing" => n <= r.uri
WritesCounted ==
    /\ applied \in [Proxies -> Nat]
    /\ call = [c \in Clients |-> call[c]]
    /\ \A p \in Proxies : Tallies(applied[p], call[p])
-----------------------------------------------------------------------------
(***************************************************************************)
(* The maps.                                                               *)
(***************************************************************************)

\* OrderedDict.pop: what is left is every other entry, in order and still with one entry per key.
LEMMA WithoutFacts ==
    ASSUME NEW T, NEW lru \in Seq(T), NEW key, Distinct(lru)
    PROVE  /\ Without(lru, key) \in Seq(T)
           /\ Len(Without(lru, key)) = IF Has(lru, key) THEN Len(lru) - 1 ELSE Len(lru)
           /\ \A n \in DOMAIN Without(lru, key) :
                /\ Without(lru, key)[n].key # key
                /\ \E i \in DOMAIN lru : Without(lru, key)[n] = lru[i]
           /\ \A i \in DOMAIN lru : lru[i].key # key =>
                \E n \in DOMAIN Without(lru, key) : Without(lru, key)[n] = lru[i]
           /\ Distinct(Without(lru, key))
<1>1. CASE ~Has(lru, key)
  <2>1. Without(lru, key) = lru
    BY <1>1 DEF Without
  <2>2. QED
    BY <1>1, <2>1 DEF Has
<1>2. CASE Has(lru, key)
  <2>1. PICK i : i = CHOOSE j \in DOMAIN lru : lru[j].key = key
    OBVIOUS
  <2>2. i \in 1..Len(lru) /\ lru[i].key = key /\ Len(lru) \in Nat
    BY <1>2, <2>1 DEF Has
  <2>3. PICK a : a = SubSeq(lru, 1, i - 1)
    OBVIOUS
  <2>4. PICK b : b = SubSeq(lru, i + 1, Len(lru))
    OBVIOUS
  <2>5. /\ a \in Seq(T) /\ Len(a) = i - 1
        /\ \A n \in 1..(i - 1) : a[n] = lru[n]
    BY <2>2, <2>3
  <2>6. /\ b \in Seq(T) /\ Len(b) = Len(lru) - i
        /\ \A n \in 1..(Len(lru) - i) : b[n] = lru[n + i]
    BY <2>2, <2>4
  <2>7. PICK w : w = a \o b
    OBVIOUS
  <2>8. /\ w \in Seq(T) /\ Len(w) = Len(lru) - 1 /\ DOMAIN w = 1..(Len(lru) - 1)
        /\ \A n \in 1..(i - 1) : w[n] = lru[n]
        /\ \A n \in i..(Len(lru) - 1) : w[n] = lru[n + 1]
    <3>1. /\ w \in Seq(T) /\ Len(w) = Len(a) + Len(b)
          /\ \A n \in 1..(Len(a) + Len(b)) :
               w[n] = IF n <= Len(a) THEN a[n] ELSE b[n - Len(a)]
      BY <2>5, <2>6, <2>7, ConcatProperties
    <3>2. w \in Seq(T) /\ Len(w) = Len(lru) - 1 /\ DOMAIN w = 1..(Len(lru) - 1)
      BY <2>2, <2>5, <2>6, <3>1
    <3>3. ASSUME NEW n \in 1..(i - 1)
          PROVE  w[n] = lru[n]
      <4>1. n \in 1..(Len(a) + Len(b)) /\ n <= Len(a)
        BY <2>2, <2>5, <2>6
      <4>2. QED
        BY <2>5, <3>1, <4>1
    <3>4. ASSUME NEW n \in i..(Len(lru) - 1)
          PROVE  w[n] = lru[n + 1]
      <4>1. /\ n \in 1..(Len(a) + Len(b)) /\ ~(n <= Len(a))
            /\ n - Len(a) = n - i + 1 /\ n - i + 1 \in 1..(Len(lru) - i)
        BY <2>2, <2>5, <2>6, <3>4
      <4>2. w[n] = b[n - i + 1]
        BY <3>1, <4>1
      <4>3. (n - i + 1) + i = n + 1
        BY <2>2, <3>4
      <4>4. QED
        BY <2>6, <4>1, <4>2, <4>3
    <3>5. QED
      BY <3>2, <3>3, <3>4
  <2>9. Without(lru, key) = w
    BY <1>2, <2>1, <2>3, <2>4, <2>7 DEF Without
  <2>10. \A n \in DOMAIN w : \E j \in DOMAIN lru : j # i /\ w[n] = lru[j]
    <3>1. ASSUME NEW n \in DOMAIN w
          PROVE  \E j \in DOMAIN lru : j # i /\ w[n] = lru[j]
      <4>1. CASE n < i
        BY <2>2, <2>8, <4>1
      <4>2. CASE ~(n < i)
        <5>1. n \in i..(Len(lru) - 1) /\ n + 1 \in DOMAIN lru /\ n + 1 # i
          BY <2>2, <2>8, <4>2
        <5>2. w[n] = lru[n + 1]
          BY <2>8, <5>1
        <5>3. QED
          BY <5>1, <5>2
      <4>3. QED
        BY <4>1, <4>2
    <3>2. QED
      BY <3>1
  <2>11. \A n \in DOMAIN w : w[n].key # key
    BY <2>2, <2>10 DEF Distinct
  <2>12. ASSUME NEW j \in DOMAIN lru, lru[j].key # key
         PROVE  \E n \in DOMAIN w : w[n] = lru[j]
    <3>1. CASE j < i
      <4>1. j \in DOMAIN w /\ w[j] = lru[j]
        BY <2>2, <2>8, <3>1
      <4>2. QED
        BY <4>1
    <3>2. CASE ~(j < i)
      <4>1. j # i
        BY <2>2, <2>12
      <4>2. j - 1 \in DOMAIN w /\ w[j - 1] = lru[j]
        BY <2>2, <2>8, <3>2, <4>1
      <4>3. QED
        BY <4>2
    <3>3. QED
      BY <3>1, <3>2
  <2>13. ASSUME NEW m \in DOMAIN w, NEW n \in DOMAIN w, w[m].key = w[n].key
         PROVE  m = n
    <3>1. CASE m < i /\ n < i
      BY <2>2, <2>8, <2>13, <3>1 DEF Distinct
    <3>2. CASE m < i /\ ~(n < i)
      <4>1. w[m] = lru[m] /\ w[n] = lru[n + 1] /\ m \in DOMAIN lru /\ n + 1 \in DOMAIN lru
        BY <2>2, <2>8, <3>2
      <4>2. m = n + 1
        BY <2>13, <4>1 DEF Distinct
      <4>3. QED
        BY <2>2, <2>7, <3>2, <4>2
    <3>3. CASE ~(m < i) /\ n < i
      <4>1. w[m] = lru[m + 1] /\ w[n] = lru[n] /\ m + 1 \in DOMAIN lru /\ n \in DOMAIN lru
        BY <2>2, <2>8, <3>3
      <4>2. m + 1 = n
        BY <2>13, <4>1 DEF Distinct
      <4>3. QED
        BY <2>2, <2>7, <3>3, <4>2
    <3>4. CASE ~(m < i) /\ ~(n < i)
      <4>1. w[m] = lru[m + 1] /\ w[n] = lru[n + 1] /\ m + 1 \in DOMAIN lru /\ n + 1 \in DOMAIN lru
        BY <2>2, <2>8, <3>4
      <4>2. m + 1 = n + 1
        BY <2>13, <4>1 DEF Distinct
      <4>3. QED
        BY <2>2, <2>7, <4>2
    <3>5. QED
      BY <3>1, <3>2, <3>3, <3>4
  <2>14. Distinct(w)
    BY <2>13 DEF Distinct
  <2>15. QED
    BY <1>2, <2>8, <2>9, <2>10, <2>11, <2>12, <2>14
<1>3. QED
  BY <1>1, <1>2

\* Assigning and move_to_end: the entry is in, whatever else was there stays, and the map
\* grows by one at most, and only by a new key.
LEMMA PutFacts ==
    ASSUME NEW T, NEW lru \in Seq(T), Distinct(lru), NEW e \in T
    PROVE  /\ Put(lru, e) \in Seq(T)
           /\ Len(Put(lru, e)) <= Len(lru) + 1
           /\ Has(lru, e.key) => Len(Put(lru, e)) = Len(lru)
           /\ \A n \in DOMAIN Put(lru, e) :
                Put(lru, e)[n] = e \/ \E i \in DOMAIN lru : Put(lru, e)[n] = lru[i]
           /\ \A i \in DOMAIN lru : lru[i].key # e.key =>
                \E n \in DOMAIN Put(lru, e) : Put(lru, e)[n] = lru[i]
           /\ \E n \in DOMAIN Put(lru, e) : Put(lru, e)[n] = e
           /\ Distinct(Put(lru, e))
<1>1. PICK w : w = Without(lru, e.key)
  OBVIOUS
<1>2. /\ w \in Seq(T)
      /\ Len(w) = IF Has(lru, e.key) THEN Len(lru) - 1 ELSE Len(lru)
      /\ \A n \in DOMAIN w : w[n].key # e.key /\ \E i \in DOMAIN lru : w[n] = lru[i]
      /\ \A i \in DOMAIN lru : lru[i].key # e.key => \E n \in DOMAIN w : w[n] = lru[i]
      /\ Distinct(w)
  BY <1>1, WithoutFacts
<1>3. PICK p : p = Put(lru, e)
  OBVIOUS
<1>4. p = Append(w, e)
  BY <1>1, <1>3 DEF Put
<1>5. /\ p \in Seq(T) /\ Len(p) = Len(w) + 1 /\ DOMAIN p = 1..(Len(w) + 1) /\ Len(w) \in Nat
      /\ \A n \in DOMAIN w : n \in DOMAIN p /\ p[n] = w[n]
      /\ p[Len(w) + 1] = e /\ DOMAIN w = 1..Len(w) /\ Len(lru) \in Nat
  BY <1>2, <1>4
<1>6. Distinct(p)
  <2>1. ASSUME NEW m \in DOMAIN p, NEW n \in DOMAIN p, p[m].key = p[n].key
        PROVE  m = n
    <3>1. CASE m \in DOMAIN w /\ n \in DOMAIN w
      BY <1>2, <1>5, <2>1, <3>1 DEF Distinct
    <3>2. CASE m = Len(w) + 1 /\ n \in DOMAIN w
      BY <1>2, <1>5, <2>1, <3>2
    <3>3. CASE m \in DOMAIN w /\ n = Len(w) + 1
      BY <1>2, <1>5, <2>1, <3>3
    <3>4. QED
      BY <1>5, <3>1, <3>2, <3>3
  <2>2. QED
    BY <2>1 DEF Distinct
<1>7. \A n \in DOMAIN p : p[n] = e \/ \E i \in DOMAIN lru : p[n] = lru[i]
  BY <1>2, <1>5
<1>8. \A i \in DOMAIN lru : lru[i].key # e.key => \E n \in DOMAIN p : p[n] = lru[i]
  BY <1>2, <1>5
<1>9. \E n \in DOMAIN p : p[n] = e
  <2>1. Len(w) + 1 \in DOMAIN p
    BY <1>5
  <2>2. QED
    BY <1>5, <2>1
<1>10. QED
  BY <1>2, <1>3, <1>5, <1>6, <1>7, <1>8, <1>9

\* The same for one other entry at a time.
LEMMA PutKeeps ==
    ASSUME NEW T, NEW lru \in Seq(T), Distinct(lru), NEW e \in T, NEW i \in DOMAIN lru,
           lru[i].key # e.key
    PROVE  \E n \in DOMAIN Put(lru, e) : Put(lru, e)[n] = lru[i]
BY PutFacts

\* Popping the oldest brings a map that has one entry too many back to its size.
LEMMA TrimmedFacts ==
    ASSUME NEW T, NEW lru \in Seq(T), Distinct(lru), Len(lru) <= MaxEntries + 1
    PROVE  /\ Trimmed(lru) \in Seq(T)
           /\ Len(Trimmed(lru)) <= MaxEntries
           /\ \A n \in DOMAIN Trimmed(lru) : \E i \in DOMAIN lru : Trimmed(lru)[n] = lru[i]
           /\ Distinct(Trimmed(lru))
<1>1. MaxEntries \in Nat \ {0} /\ Len(lru) \in Nat
  BY MaxEntriesIsPositive
<1>2. CASE ~Outgrown(lru)
  BY <1>1, <1>2 DEF Trimmed, Outgrown
<1>3. CASE Outgrown(lru)
  <2>1. PICK t : t = Tail(lru)
    OBVIOUS
  <2>2. Len(lru) = MaxEntries + 1 /\ lru # <<>>
    BY <1>1, <1>3 DEF Outgrown
  <2>3. /\ t \in Seq(T) /\ Len(t) = Len(lru) - 1 /\ DOMAIN t = 1..(Len(lru) - 1)
        /\ \A n \in DOMAIN t : n + 1 \in DOMAIN lru /\ t[n] = lru[n + 1]
    BY <1>1, <2>1, <2>2
  <2>4. Distinct(t)
    <3>1. ASSUME NEW m \in DOMAIN t, NEW n \in DOMAIN t, t[m].key = t[n].key
          PROVE  m = n
      <4>1. m + 1 = n + 1
        BY <2>3, <3>1 DEF Distinct
      <4>2. QED
        BY <2>3, <4>1
    <3>2. QED
      BY <3>1 DEF Distinct
  <2>5. \A n \in DOMAIN t : \E i \in DOMAIN lru : t[n] = lru[i]
    BY <2>3
  <2>6. Trimmed(lru) = t
    BY <1>3, <2>1 DEF Trimmed
  <2>7. QED
    BY <1>1, <2>2, <2>3, <2>4, <2>5, <2>6
<1>4. QED
  BY <1>2, <1>3
\* A function's image is no larger than its domain: the count behind Roomy.
LEMMA ImageIsNoLarger ==
    ASSUME NEW S, IsFiniteSet(S), NEW U, NEW f \in [S -> U]
    PROVE  IsFiniteSet({f[x] : x \in S}) /\ Cardinality({f[x] : x \in S}) <= Cardinality(S)
<1>1. PICK T : T = {f[x] : x \in S}
  OBVIOUS
<1>2. f \in [S -> T]
  BY <1>1
<1>3. f \in Surjection(S, T)
  BY <1>1, <1>2 DEF Surjection
<1>4. IsFiniteSet(T) /\ Cardinality(T) <= Cardinality(S)
  BY <1>3, FS_Surjection
<1>5. QED
  BY <1>1, <1>4

\* A map is no longer than the keys that were asked for are many.
LEMMA FitsIn ==
    ASSUME NEW T, NEW lru \in Seq(T), Distinct(lru), NEW A, IsFiniteSet(A),
           \A i \in DOMAIN lru : lru[i].key \in A
    PROVE  Len(lru) <= Cardinality(A)
<1>1. PICK f : f = [i \in 1..Len(lru) |-> lru[i].key]
  OBVIOUS
<1>2. Len(lru) \in Nat /\ DOMAIN lru = 1..Len(lru)
  OBVIOUS
<1>3. f \in [1..Len(lru) -> A] /\ \A i \in 1..Len(lru) : f[i] = lru[i].key
  BY <1>1, <1>2
<1>4. f \in Injection(1..Len(lru), A)
  BY <1>2, <1>3 DEF Distinct, Injection, IsInjective
<1>5. Cardinality(1..Len(lru)) <= Cardinality(A)
  BY <1>4, FS_Injection
<1>6. Cardinality(1..Len(lru)) = Len(lru)
  <2>1. PICK n : n = Len(lru)
    OBVIOUS
  <2>2. n \in Int /\ 1 \in Int /\ n >= 0
    BY <1>2, <2>1
  <2>3. Cardinality(1..n) = IF 1 > n THEN 0 ELSE n - 1 + 1
    BY <2>2, FS_Interval
  <2>4. QED
    BY <2>1, <2>2, <2>3
<1>7. QED
  BY <1>5, <1>6

\* There is always a lock that nobody uses.
LEMMA NewLockIsThere ==
    ASSUME CacheTypeOK, QueuesInOrder, NEW k \in Callers, caller[k].at = "idle", NEW key
    PROVE  NewLock(key) \in LockIds
<1> DEFINE free(l) == queue[l] = <<>> /\ \A i \in DOMAIN locks : locks[i].lock # l
<1>1. /\ MaxEntries \in Nat /\ Cardinality(Callers) \in Nat
      /\ Len(locks) \in Nat /\ Len(locks) <= MaxEntries /\ DOMAIN locks = 1..Len(locks)
  BY MaxEntriesIsPositive, CallersAreFinite, FS_CardinalityType DEF CacheTypeOK
<1>2. \E l \in LockIds : free(l)
  <2>1. SUFFICES ASSUME ~\E l \in LockIds : free(l)
                 PROVE  FALSE
    OBVIOUS
  <2>2. PICK used : used = [j \in Callers \ {k} |-> caller[j].lock]
    OBVIOUS
  <2>3. PICK mapped : mapped = [i \in 1..Len(locks) |-> locks[i].lock]
    OBVIOUS
  <2>4. PICK U : U = {used[j] : j \in Callers \ {k}}
    OBVIOUS
  <2>5. PICK M : M = {mapped[i] : i \in 1..Len(locks)}
    OBVIOUS
  <2>6. IsFiniteSet(U) /\ Cardinality(U) \in Nat /\ Cardinality(U) <= Cardinality(Callers) - 1
    <3>1. /\ IsFiniteSet(Callers \ {k})
          /\ Cardinality(Callers \ {k}) = Cardinality(Callers) - 1
      BY CallersAreFinite, FS_RemoveElement
    <3>2. used \in [Callers \ {k} -> LockIds \cup {0}]
      BY <2>2 DEF CacheTypeOK
    <3>3. IsFiniteSet(U) /\ Cardinality(U) <= Cardinality(Callers \ {k})
      <4>1. PICK S : S = Callers \ {k}
        OBVIOUS
      <4>2. PICK V : V = LockIds \cup {0}
        OBVIOUS
      <4>3. used \in [S -> V] /\ IsFiniteSet(S) /\ U = {used[j] : j \in S}
        BY <2>4, <3>1, <3>2, <4>1, <4>2
      <4>4. IsFiniteSet({used[j] : j \in S}) /\ Cardinality({used[j] : j \in S}) <= Cardinality(S)
        BY <4>3, ImageIsNoLarger
      <4>5. QED
        BY <4>1, <4>3, <4>4
    <3>4. QED
      BY <3>1, <3>3, FS_CardinalityType
  <2>7. IsFiniteSet(M) /\ Cardinality(M) \in Nat /\ Cardinality(M) <= MaxEntries
    <3>1. IsFiniteSet(1..Len(locks)) /\ Cardinality(1..Len(locks)) = Len(locks)
      BY <1>1, FS_Interval
    <3>2. mapped \in [1..Len(locks) -> LockIds]
      <4>1. \A i \in 1..Len(locks) : locks[i] \in LockEntries
        BY <1>1 DEF CacheTypeOK
      <4>2. \A i \in 1..Len(locks) : locks[i].lock \in LockIds
        BY <4>1 DEF LockEntries
      <4>3. QED
        BY <2>3, <4>2
    <3>3. IsFiniteSet(M) /\ Cardinality(M) <= Cardinality(1..Len(locks))
      BY <2>5, <3>1, <3>2, ImageIsNoLarger
    <3>4. Cardinality(M) \in Nat
      BY <3>3, FS_CardinalityType
    <3>5. QED
      BY <1>1, <3>1, <3>3, <3>4
  <2>8. IsFiniteSet(U \cup M) /\ Cardinality(U \cup M) <= Cardinality(Callers) - 1 + MaxEntries
    <3>1. /\ IsFiniteSet(U \cup M)
          /\ Cardinality(U \cup M) = Cardinality(U) + Cardinality(M) - Cardinality(U \cap M)
      BY <2>6, <2>7, FS_Union
    <3>2. Cardinality(U \cap M) \in Nat
      BY <2>6, FS_Intersection, FS_CardinalityType
    <3>3. QED
      BY <1>1, <2>6, <2>7, <3>1, <3>2
  <2>9. LockIds \in SUBSET (U \cup M)
    <3>1. ASSUME NEW l \in LockIds
          PROVE  l \in U \cup M
      <4>1. CASE queue[l] # <<>>
        <5>1. 1 \in DOMAIN queue[l] /\ queue[l][1] \in Callers
          BY <4>1 DEF CacheTypeOK
        <5>2. queue[l][1] # k /\ caller[queue[l][1]].lock = l
          BY <5>1 DEF QueuesInOrder
        <5>3. used[queue[l][1]] = l
          BY <2>2, <5>1, <5>2
        <5>4. QED
          BY <2>4, <5>1, <5>2, <5>3
      <4>2. CASE \E i \in DOMAIN locks : locks[i].lock = l
        BY <1>1, <2>3, <2>5, <4>2
      <4>3. QED
        BY <2>1, <4>1, <4>2
    <3>2. QED
      BY <3>1
  <2>10. Cardinality(LockIds) = MaxEntries + Cardinality(Callers)
    BY <1>1, FS_Interval DEF LockIds
  <2>11. Cardinality(LockIds) <= Cardinality(U \cup M) /\ Cardinality(U \cup M) \in Nat
    BY <2>8, <2>9, FS_Subset, FS_CardinalityType
  <2>12. QED
    BY <1>1, <2>8, <2>10, <2>11
<1>3. QED
  BY <1>2 DEF NewLock

\* The entry of a key is the one with that key, since a map has no other.
LEMMA AtFacts ==
    ASSUME NEW lru, NEW key, Has(lru, key), Distinct(lru)
    PROVE  /\ At(lru, key).key = key
           /\ \E i \in DOMAIN lru : At(lru, key) = lru[i]
           /\ \A i \in DOMAIN lru : lru[i].key = key => At(lru, key) = lru[i]
<1>1. PICK i : i = CHOOSE j \in DOMAIN lru : lru[j].key = key
  OBVIOUS
<1>2. i \in DOMAIN lru /\ lru[i].key = key /\ At(lru, key) = lru[i]
  BY <1>1 DEF Has, At
<1>3. QED
  BY <1>2 DEF Distinct

\* The store after a look at it.
LEMMA LookedFacts ==
    ASSUME CacheTypeOK, MapsInOrder, NEW key
    PROVE  /\ Looked(key) \in Seq(Entries) /\ Len(Looked(key)) <= MaxEntries
           /\ Distinct(Looked(key))
           /\ \A n \in DOMAIN Looked(key) : Looked(key)[n].key \in asked
<1>1. /\ store \in Seq(Entries) /\ Distinct(store) /\ \A i \in DOMAIN store : store[i].key \in asked
      /\ Len(store) \in Nat /\ Len(store) <= MaxEntries /\ MaxEntries \in Nat
  BY MaxEntriesIsPositive DEF CacheTypeOK, MapsInOrder, IsMap
<1>2. CASE Fresh(key)
  <2>1. PICK e : e = At(store, key)
    OBVIOUS
  <2>2. e \in Entries /\ e.key \in asked /\ Has(store, e.key)
    BY <1>1, <1>2, <2>1, AtFacts DEF Fresh
  <2>3. Looked(key) = Put(store, e)
    BY <1>2, <2>1 DEF Looked
  <2>4. /\ Put(store, e) \in Seq(Entries) /\ Len(Put(store, e)) = Len(store)
        /\ Distinct(Put(store, e))
    BY <1>1, <2>2, PutFacts
  <2>5. \A n \in DOMAIN Put(store, e) :
           Put(store, e)[n] = e \/ \E i \in DOMAIN store : Put(store, e)[n] = store[i]
    BY <1>1, <2>2, PutFacts
  <2>6. QED
    BY <1>1, <2>2, <2>3, <2>4, <2>5
<1>3. CASE ~Fresh(key)
  BY <1>1, <1>3, WithoutFacts DEF Looked
<1>4. QED
  BY <1>2, <1>3

\* The locks after one was asked for.  While there is room, none goes.
LEMMA LocksAfterFacts ==
    ASSUME CacheTypeOK, MapsInOrder, NEW key \in Keys, LockFor(key) \in LockIds
    PROVE  /\ LocksAfter(key) \in Seq(LockEntries)
           /\ Len(LocksAfter(key)) <= MaxEntries
           /\ Distinct(LocksAfter(key))
           /\ \A n \in DOMAIN LocksAfter(key) : LocksAfter(key)[n].key \in asked \cup {key}
           /\ Cardinality(asked \cup {key}) <= MaxEntries =>
                /\ \A i \in DOMAIN locks :
                     \E n \in DOMAIN LocksAfter(key) : LocksAfter(key)[n] = locks[i]
                /\ \E n \in DOMAIN LocksAfter(key) :
                     LocksAfter(key)[n] = [key |-> key, lock |-> LockFor(key)]
<1>1. PICK e : e = [key |-> key, lock |-> LockFor(key)]
  OBVIOUS
<1>2. e \in LockEntries /\ e.key = key
  BY <1>1 DEF LockEntries
<1>3. /\ locks \in Seq(LockEntries) /\ Len(locks) <= MaxEntries /\ Distinct(locks)
      /\ \A i \in DOMAIN locks : locks[i].key \in asked
      /\ IsFiniteSet(asked) /\ MaxEntries \in Nat /\ Len(locks) \in Nat
  BY MaxEntriesIsPositive DEF CacheTypeOK, MapsInOrder, IsMap
<1>4. PICK all : all = Put(locks, e)
  OBVIOUS
<1>5. /\ all \in Seq(LockEntries) /\ Len(all) \in Nat /\ Len(all) <= Len(locks) + 1
      /\ Distinct(all)
      /\ \A n \in DOMAIN all : all[n] = e \/ \E i \in DOMAIN locks : all[n] = locks[i]
      /\ \A i \in DOMAIN locks : locks[i].key # key => \E n \in DOMAIN all : all[n] = locks[i]
      /\ \E n \in DOMAIN all : all[n] = e
  <2>1. all \in Seq(LockEntries) /\ Len(all) <= Len(locks) + 1 /\ Distinct(all)
    BY <1>2, <1>3, <1>4, PutFacts
  <2>2. \A n \in DOMAIN all : all[n] = e \/ \E i \in DOMAIN locks : all[n] = locks[i]
    BY <1>2, <1>3, <1>4, PutFacts
  <2>3. ASSUME NEW i \in DOMAIN locks, locks[i].key # e.key
        PROVE  \E n \in DOMAIN all : all[n] = locks[i]
    BY <1>2, <1>3, <1>4, <2>3, PutKeeps
  <2>4. \E n \in DOMAIN all : all[n] = e
    BY <1>2, <1>3, <1>4, PutFacts
  <2>5. QED
    BY <1>2, <2>1, <2>2, <2>3, <2>4
<1>6. LocksAfter(key) = Trimmed(all)
  BY <1>1, <1>4 DEF LocksAfter
<1>7. \A n \in DOMAIN all : all[n].key \in asked \cup {key}
  BY <1>2, <1>3, <1>5
<1>8. Len(all) <= MaxEntries + 1
  BY <1>3, <1>5
<1>9. /\ Trimmed(all) \in Seq(LockEntries) /\ Len(Trimmed(all)) <= MaxEntries
      /\ Distinct(Trimmed(all))
      /\ \A n \in DOMAIN Trimmed(all) : \E i \in DOMAIN all : Trimmed(all)[n] = all[i]
  BY <1>5, <1>8, TrimmedFacts
<1>10. \A i \in DOMAIN locks : \E n \in DOMAIN all : all[n] = locks[i]
  <2>1. ASSUME NEW i \in DOMAIN locks, locks[i].key = key
        PROVE  locks[i] = e
    <3>1. Has(locks, key)
      BY <2>1 DEF Has
    <3>2. LockFor(key) = locks[i].lock
      BY <1>3, <2>1, <3>1, AtFacts DEF LockFor
    <3>3. locks[i] \in LockEntries
      BY <1>3
    <3>4. QED
      BY <1>1, <2>1, <3>2, <3>3 DEF LockEntries
  <2>2. QED
    BY <1>5, <2>1
<1>11. ASSUME Cardinality(asked \cup {key}) <= MaxEntries
       PROVE  Trimmed(all) = all
  <2>1. IsFiniteSet(asked \cup {key}) /\ Cardinality(asked \cup {key}) \in Nat
    BY <1>3, FS_AddElement, FS_CardinalityType
  <2>2. PICK A : A = asked \cup {key}
    OBVIOUS
  <2>3. Len(all) <= Cardinality(A)
    BY <1>5, <1>7, <2>1, <2>2, FitsIn
  <2>4. QED
    BY <1>3, <1>5, <1>11, <2>1, <2>2, <2>3 DEF Trimmed, Outgrown
<1>12. QED
  BY <1>1, <1>5, <1>6, <1>7, <1>9, <1>10, <1>11
-----------------------------------------------------------------------------
(***************************************************************************)
(* One producer.                                                           *)
(***************************************************************************)

\* An empty cache with nobody in it.
LEMMA CacheInvInit ==
    ASSUME KgInit
    PROVE  CacheInv
<1>1. CacheTypeOK
  BY MaxEntriesIsPositive, FS_EmptySet DEF KgInit, Init, CacheTypeOK, Idle
<1>2. MapsInOrder /\ QueuesInOrder /\ LocksStay
  BY DEF KgInit, Init, MapsInOrder, QueuesInOrder, LocksStay, IsMap, Distinct, Idle
<1>3. QED
  BY <1>1, <1>2 DEF CacheInv

\* Who has the lock leaves it: the rest of the queue moves up.
LEMMA ReleaseStep ==
    ASSUME CacheInv, NEW k \in Callers, caller[k].at = "producing" \/ Holds(k),
           queue' = Released(k), Set(k, Idle)
    PROVE  /\ queue' \in [LockIds -> Seq(Callers)]
           /\ caller' \in [Callers -> [at : {"idle", "waiting", "producing"},
                                       key : Keys \cup {None}, lock : LockIds \cup {0}]]
           /\ \A j \in Callers : caller'[j].at # "idle" => caller'[j] = caller[j]
           /\ QueuesInOrder'
<1>1. /\ queue \in [LockIds -> Seq(Callers)]
      /\ caller \in [Callers -> [at : {"idle", "waiting", "producing"}, key : Keys \cup {None},
                                 lock : LockIds \cup {0}]]
  BY DEF CacheInv, CacheTypeOK
<1>2. PICK l \in LockIds : l = caller[k].lock
  BY DEF CacheInv, CacheTypeOK, Holds
<1>3. queue[l] # <<>> /\ queue[l][1] = k
  BY <1>2 DEF CacheInv, QueuesInOrder, Holds
<1>4. caller'[k] = Idle /\ \A j \in Callers : j # k => caller'[j] = caller[j]
  BY <1>1 DEF Set
<1>5. Idle.at = "idle" /\ Idle \in [at : {"idle", "waiting", "producing"}, key : Keys \cup {None},
                                    lock : LockIds \cup {0}]
  BY DEF Idle
<1>6. caller' \in [Callers -> [at : {"idle", "waiting", "producing"}, key : Keys \cup {None},
                               lock : LockIds \cup {0}]]
  BY <1>1, <1>5 DEF Set
<1>7. PICK q \in Seq(Callers) : q = queue[l]
  BY <1>1
<1>8. PICK t : t = Tail(q)
  OBVIOUS
<1>9. /\ t \in Seq(Callers) /\ Len(q) \in Nat /\ DOMAIN t = 1..(Len(q) - 1) /\ DOMAIN q = 1..Len(q)
      /\ \A i \in DOMAIN t : i + 1 \in DOMAIN q /\ t[i] = q[i + 1]
  BY <1>3, <1>7, <1>8
<1>10. queue'[l] = t /\ \A m \in LockIds : m # l => queue'[m] = queue[m]
  BY <1>1, <1>2, <1>7, <1>8 DEF Released
<1>11. queue' \in [LockIds -> Seq(Callers)]
  BY <1>1, <1>2, <1>7, <1>8, <1>9 DEF Released
<1>12. \A i \in DOMAIN t : t[i] # k
  <2>1. \A a, b \in DOMAIN q : q[a] = q[b] => a = b
    BY <1>7 DEF CacheInv, QueuesInOrder
  <2>2. 1 \in DOMAIN q /\ q[1] = k
    BY <1>3, <1>7, <1>9
  <2>3. ASSUME NEW i \in DOMAIN t
        PROVE  t[i] # k
    <3>1. i + 1 \in DOMAIN q /\ t[i] = q[i + 1] /\ i \in Nat /\ i >= 1
      BY <1>9
    <3>2. QED
      BY <2>1, <2>2, <3>1
  <2>4. QED
    BY <2>3
<1>13. \A m \in LockIds : \A i, j \in DOMAIN queue'[m] : queue'[m][i] = queue'[m][j] => i = j
  <2>1. ASSUME NEW i \in DOMAIN t, NEW j \in DOMAIN t, t[i] = t[j]
        PROVE  i = j
    <3>1. i + 1 \in DOMAIN q /\ j + 1 \in DOMAIN q /\ q[i + 1] = q[j + 1]
      BY <1>9, <2>1
    <3>2. \A a, b \in DOMAIN q : q[a] = q[b] => a = b
      BY <1>7 DEF CacheInv, QueuesInOrder
    <3>3. i + 1 = j + 1
      BY <3>1, <3>2
    <3>4. QED
      BY <1>9, <3>3
  <2>2. QED
    BY <1>10, <2>1 DEF CacheInv, QueuesInOrder
<1>14. \A m \in LockIds : \A i \in DOMAIN queue'[m] :
          caller'[queue'[m][i]].at # "idle" /\ caller'[queue'[m][i]].lock = m
  <2>1. ASSUME NEW m \in LockIds, NEW i \in DOMAIN queue'[m]
        PROVE  caller'[queue'[m][i]].at # "idle" /\ caller'[queue'[m][i]].lock = m
    <3>1. \E n \in DOMAIN queue[m] : queue'[m][i] = queue[m][n]
      <4>1. CASE m = l
        <5>1. i \in DOMAIN t /\ queue'[m][i] = t[i] /\ queue[m] = q
          BY <1>7, <1>10, <2>1, <4>1
        <5>2. i + 1 \in DOMAIN q /\ t[i] = q[i + 1]
          BY <1>9, <5>1
        <5>3. QED
          BY <5>1, <5>2
      <4>2. CASE m # l
        BY <1>10, <2>1, <4>2
      <4>3. QED
        BY <4>1, <4>2
    <3>2. PICK n \in DOMAIN queue[m] : queue'[m][i] = queue[m][n]
      BY <3>1
    <3>3. queue[m][n] \in Callers
      BY <1>1
    <3>4. caller[queue[m][n]].at # "idle" /\ caller[queue[m][n]].lock = m
      BY DEF CacheInv, QueuesInOrder
    <3>5. queue'[m][i] # k
      <4>1. CASE m = l
        BY <1>10, <1>12, <2>1, <4>1
      <4>2. CASE m # l
        BY <1>2, <3>2, <3>4, <4>2
      <4>3. QED
        BY <4>1, <4>2
    <3>6. QED
      BY <1>4, <3>2, <3>3, <3>4, <3>5
  <2>2. QED
    BY <2>1
<1>15. ASSUME NEW j \in Callers, caller'[j].at = "producing"
       PROVE  queue'[caller'[j].lock] # <<>> /\ queue'[caller'[j].lock][1] = j
  <2>1. j # k /\ caller'[j] = caller[j]
    BY <1>4, <1>5, <1>15
  <2>2. queue[caller[j].lock] # <<>> /\ queue[caller[j].lock][1] = j
    BY <1>15, <2>1 DEF CacheInv, QueuesInOrder
  <2>3. caller[j].lock # l /\ caller[j].lock \in LockIds
    BY <1>3, <1>15, <2>1, <2>2 DEF CacheInv, CacheTypeOK
  <2>4. QED
    BY <1>10, <2>1, <2>2, <2>3
<1>16. QED
  BY <1>4, <1>5, <1>6, <1>11, <1>13, <1>14, <1>15 DEF QueuesInOrder

\* A step that lets no lock go, brings in nobody, and leaves the maps in order.
LEMMA NobodyEnters ==
    ASSUME CacheInv, asked' = asked, plan' = plan,
           queue' \in [LockIds -> Seq(Callers)], QueuesInOrder',
           caller' \in [Callers -> [at : {"idle", "waiting", "producing"},
                                    key : Keys \cup {None}, lock : LockIds \cup {0}]],
           \A j \in Callers : caller'[j].at # "idle" =>
             /\ caller[j].at # "idle"
             /\ caller'[j].key = caller[j].key /\ caller'[j].lock = caller[j].lock,
           store' \in Seq(Entries), Len(store') <= MaxEntries, Distinct(store'),
           \A i \in DOMAIN store' : store'[i].key \in asked,
           \/ locks' = locks
           \/ /\ ~Roomy
              /\ locks' \in Seq(LockEntries) /\ Len(locks') <= MaxEntries /\ Distinct(locks')
              /\ \A i \in DOMAIN locks' : locks'[i].key \in asked
    PROVE  CacheInv'
<1>1. CacheTypeOK'
  BY DEF CacheInv, CacheTypeOK
<1>2. IsMap(store)'
  BY DEF IsMap, Distinct
<1>3. IsMap(locks)'
  BY DEF CacheInv, MapsInOrder, IsMap, Distinct
<1>4. \A j \in Callers : caller'[j].at # "idle" => caller'[j].key \in asked'
  BY DEF CacheInv, MapsInOrder
<1>5. LocksStay'
  <2>1. CASE locks' = locks
    BY <2>1 DEF CacheInv, LocksStay, Roomy
  <2>2. CASE ~Roomy
    BY <2>2 DEF LocksStay, Roomy
  <2>3. QED
    BY <2>1, <2>2
<1>6. QED
  BY <1>1, <1>2, <1>3, <1>4, <1>5 DEF CacheInv, MapsInOrder
\* Somebody finds an entry, or finds none and takes the lock.
LEMMA HitStep ==
    ASSUME CacheInv, NEW k \in Callers, NEW key \in Keys, Hit(k, key), plan' = plan
    PROVE  CacheInv'
<1>1. key \in asked
  <2>1. PICK i \in DOMAIN store : store[i].key = key
    BY DEF Hit, Fresh, Has
  <2>2. QED
    BY <2>1 DEF CacheInv, MapsInOrder, IsMap
<1>2. asked' = asked /\ UNCHANGED <<locks, queue, caller>>
  BY <1>1 DEF Hit
<1>3. QueuesInOrder'
  BY <1>2 DEF CacheInv, QueuesInOrder
<1>4. /\ store' \in Seq(Entries) /\ Len(store') <= MaxEntries /\ Distinct(store')
      /\ \A i \in DOMAIN store' : store'[i].key \in asked
  <2>1. store' = Looked(key)
    BY DEF Hit
  <2>2. QED
    BY <2>1, LookedFacts DEF CacheInv
<1>5. QED
  BY <1>2, <1>3, <1>4, NobodyEnters DEF CacheInv, CacheTypeOK

\* A get misses: it makes or finds the lock, evicts another key's, and takes or joins the queue.
LEMMA MissStep ==
    ASSUME CacheInv, NEW k \in Callers, NEW key \in Keys, Miss(k, key), plan' = plan
    PROVE  CacheInv'
<1>1. PICK l : l = LockFor(key)
  OBVIOUS
<1>2. /\ queue \in [LockIds -> Seq(Callers)]
      /\ caller \in [Callers -> [at : {"idle", "waiting", "producing"}, key : Keys \cup {None},
                                 lock : LockIds \cup {0}]]
      /\ locks \in Seq(LockEntries) /\ Distinct(locks)
  BY DEF CacheInv, CacheTypeOK, MapsInOrder, IsMap
<1>3. l \in LockIds
  <2>1. CASE Has(locks, key)
    <3>1. At(locks, key) \in LockEntries
      BY <1>2, <2>1, AtFacts
    <3>2. QED
      BY <1>1, <2>1, <3>1 DEF LockFor, LockEntries
  <2>2. CASE ~Has(locks, key)
    BY <1>1, <2>2, NewLockIsThere DEF LockFor, Miss, CacheInv
  <2>3. QED
    BY <2>1, <2>2
<1>4. PICK c \in [at : {"waiting", "producing"}, key : Keys, lock : LockIds] :
        /\ c.key = key /\ c.lock = l /\ (c.at = "producing" => queue[l] = <<>>)
        /\ caller' = [caller EXCEPT ![k] = c]
  <2>1. PICK c : c = [at |-> IF Busy(l) THEN "waiting" ELSE "producing", key |-> key, lock |-> l]
    OBVIOUS
  <2>2. /\ c \in [at : {"waiting", "producing"}, key : Keys, lock : LockIds]
        /\ c.key = key /\ c.lock = l /\ (c.at = "producing" => queue[l] = <<>>)
    BY <1>3, <2>1 DEF Busy
  <2>3. caller' = [caller EXCEPT ![k] = c]
    BY <1>1, <2>1 DEF Miss, Set
  <2>4. QED
    BY <2>2, <2>3
<1>5. /\ caller[k].at = "idle" /\ asked' = asked \cup {key}
      /\ queue' = [queue EXCEPT ![l] = Append(@, k)]
      /\ store' = Looked(key) /\ locks' = LocksAfter(key)
  BY <1>1 DEF Miss
<1>6. /\ caller' \in [Callers -> [at : {"idle", "waiting", "producing"}, key : Keys \cup {None},
                                 lock : LockIds \cup {0}]]
      /\ caller'[k] = c /\ \A j \in Callers : j # k => caller'[j] = caller[j]
  BY <1>2, <1>4
<1>7. PICK q \in Seq(Callers) : q = queue[l]
  BY <1>2, <1>3
<1>8. PICK t : t = Append(q, k)
  OBVIOUS
<1>9. /\ t \in Seq(Callers) /\ Len(q) \in Nat /\ DOMAIN t = 1..(Len(q) + 1) /\ DOMAIN q = 1..Len(q)
      /\ t # <<>>
      /\ \A i \in DOMAIN q : t[i] = q[i]
      /\ t[Len(q) + 1] = k
  BY <1>8
<1>10. queue'[l] = t /\ \A m \in LockIds : m # l => queue'[m] = queue[m]
  BY <1>2, <1>3, <1>5, <1>7, <1>8
<1>11. queue' \in [LockIds -> Seq(Callers)]
  BY <1>2, <1>3, <1>5, <1>7, <1>8, <1>9
<1>12. \A m \in LockIds : \A i \in DOMAIN queue[m] : queue[m][i] # k /\ queue[m][i] \in Callers
  BY <1>2, <1>5 DEF CacheInv, QueuesInOrder
<1>13. QueuesInOrder'
  <2>1. \A m \in LockIds : \A i, j \in DOMAIN queue'[m] : queue'[m][i] = queue'[m][j] => i = j
    <3>1. ASSUME NEW i \in DOMAIN t, NEW j \in DOMAIN t, t[i] = t[j]
          PROVE  i = j
      <4>1. CASE i \in DOMAIN q /\ j \in DOMAIN q
        BY <1>3, <1>7, <1>9, <3>1, <4>1 DEF CacheInv, QueuesInOrder
      <4>2. CASE i \notin DOMAIN q /\ j \in DOMAIN q
        BY <1>3, <1>7, <1>9, <1>12, <3>1, <4>2
      <4>3. CASE i \in DOMAIN q /\ j \notin DOMAIN q
        BY <1>3, <1>7, <1>9, <1>12, <3>1, <4>3
      <4>4. CASE i \notin DOMAIN q /\ j \notin DOMAIN q
        BY <1>9, <4>4
      <4>5. QED
        BY <4>1, <4>2, <4>3, <4>4
    <3>2. QED
      BY <1>10, <3>1 DEF CacheInv, QueuesInOrder
  <2>2. ASSUME NEW m \in LockIds, NEW i \in DOMAIN queue'[m]
        PROVE  caller'[queue'[m][i]].at # "idle" /\ caller'[queue'[m][i]].lock = m
    <3>1. CASE i \in DOMAIN queue[m] /\ queue'[m][i] = queue[m][i]
      BY <1>6, <1>12, <3>1 DEF CacheInv, QueuesInOrder
    <3>2. CASE m = l /\ queue'[m][i] = k
      BY <1>4, <1>6, <3>2
    <3>3. m # l => i \in DOMAIN queue[m] /\ queue'[m][i] = queue[m][i]
      BY <1>10, <2>2
    <3>4. ASSUME m = l
          PROVE  \/ i \in DOMAIN queue[m] /\ queue'[m][i] = queue[m][i]
                 \/ queue'[m][i] = k
      <4>1. i \in DOMAIN t /\ queue'[m][i] = t[i] /\ queue[m] = q
        BY <1>7, <1>10, <2>2, <3>4
      <4>2. i \in DOMAIN q \/ i = Len(q) + 1
        BY <1>9, <4>1
      <4>3. QED
        BY <1>9, <4>1, <4>2
    <3>5. QED
      BY <3>1, <3>2, <3>3, <3>4
  <2>3. ASSUME NEW j \in Callers, caller'[j].at = "producing"
        PROVE  queue'[caller'[j].lock] # <<>> /\ queue'[caller'[j].lock][1] = j
    <3>1. CASE j = k
      <4>1. caller'[j].lock = l /\ q = <<>>
        BY <1>4, <1>6, <1>7, <2>3, <3>1
      <4>2. QED
        BY <1>9, <1>10, <3>1, <4>1
    <3>2. CASE j # k
      <4>1. /\ caller'[j] = caller[j] /\ caller[j].lock \in LockIds
            /\ queue[caller[j].lock] # <<>> /\ queue[caller[j].lock][1] = j
        BY <1>6, <2>3, <3>2 DEF CacheInv, CacheTypeOK, QueuesInOrder
      <4>2. CASE caller[j].lock = l
        <5>1. 1 \in DOMAIN q
          BY <1>7, <1>9, <4>1, <4>2
        <5>2. QED
          BY <1>7, <1>9, <1>10, <4>1, <4>2, <5>1
      <4>3. CASE caller[j].lock # l
        BY <1>10, <4>1, <4>3
      <4>4. QED
        BY <4>2, <4>3
    <3>3. QED
      BY <3>1, <3>2
  <2>4. QED
    BY <2>1, <2>2, <2>3 DEF QueuesInOrder
<1>14. /\ locks' \in Seq(LockEntries) /\ Len(locks') <= MaxEntries /\ Distinct(locks')
       /\ \A n \in DOMAIN locks' : locks'[n].key \in asked'
  BY <1>1, <1>3, <1>5, LocksAfterFacts DEF CacheInv
<1>15. /\ store' \in Seq(Entries) /\ Len(store') <= MaxEntries /\ Distinct(store')
       /\ \A n \in DOMAIN store' : store'[n].key \in asked'
  BY <1>5, LookedFacts DEF CacheInv
<1>16. asked' \in SUBSET Keys /\ IsFiniteSet(asked')
  BY <1>5, FS_AddElement DEF CacheInv, CacheTypeOK
<1>17. \A j \in Callers : caller'[j].at # "idle" =>
          caller'[j].key \in Keys /\ caller'[j].lock \in LockIds /\ caller'[j].key \in asked'
  BY <1>4, <1>5, <1>6 DEF CacheInv, CacheTypeOK, MapsInOrder
<1>18. LocksStay'
  <2>1. ASSUME Cardinality(asked \cup {key}) <= MaxEntries
        PROVE  Roomy
    <3>1. IsFiniteSet(asked)
      BY DEF CacheInv, CacheTypeOK
    <3>2. /\ Cardinality(asked) \in Nat
          /\ Cardinality(asked \cup {key}) \in {Cardinality(asked), Cardinality(asked) + 1}
      BY <3>1, FS_AddElement, FS_CardinalityType
    <3>3. QED
      BY <2>1, <3>2, MaxEntriesIsPositive DEF Roomy
  <2>2. ASSUME Cardinality(asked \cup {key}) <= MaxEntries
        PROVE  /\ \A i \in DOMAIN locks : \E n \in DOMAIN locks' : locks'[n] = locks[i]
               /\ \E n \in DOMAIN locks' : locks'[n] = [key |-> key, lock |-> l]
    BY <1>1, <1>3, <1>5, <2>2, LocksAfterFacts DEF CacheInv
  <2>3. ASSUME Cardinality(asked \cup {key}) <= MaxEntries, NEW j \in Callers,
               caller'[j].at # "idle"
        PROVE  [key |-> caller'[j].key, lock |-> caller'[j].lock]
                 \in {locks'[n] : n \in DOMAIN locks'}
    <3>1. CASE j = k
      <4>1. caller'[j].key = key /\ caller'[j].lock = l
        BY <1>4, <1>6, <3>1
      <4>2. QED
        BY <2>2, <2>3, <4>1
    <3>2. CASE j # k
      <4>1. caller'[j] = caller[j]
        BY <1>6, <3>2
      <4>2. PICK i \in DOMAIN locks : locks[i] = [key |-> caller[j].key, lock |-> caller[j].lock]
        BY <2>1, <2>3, <4>1 DEF CacheInv, LocksStay
      <4>3. QED
        BY <2>2, <2>3, <4>1, <4>2
    <3>3. QED
      BY <3>1, <3>2
  <2>4. QED
    BY <1>5, <2>3 DEF LocksStay, Roomy
<1>19. CacheTypeOK'
  BY <1>6, <1>11, <1>14, <1>15, <1>16, <1>17 DEF CacheInv, CacheTypeOK
<1>20. MapsInOrder'
  BY <1>14, <1>15, <1>17 DEF MapsInOrder, IsMap, Distinct
<1>21. QED
  BY <1>13, <1>18, <1>19, <1>20 DEF CacheInv
\* A waiter gets the lock.
LEMMA WakeStep ==
    ASSUME CacheInv, NEW k \in Callers, Wake(k), plan' = plan
    PROVE  CacheInv'
<1>1. PICK key : key = caller[k].key
  OBVIOUS
<1>2. /\ Holds(k) /\ caller[k].at = "waiting" /\ store' = Looked(key)
      /\ UNCHANGED <<locks, asked>>
  BY <1>1 DEF Wake, Holds
<1>3. /\ store' \in Seq(Entries) /\ Len(store') <= MaxEntries /\ Distinct(store')
      /\ \A i \in DOMAIN store' : store'[i].key \in asked
  BY <1>2, LookedFacts DEF CacheInv
<1>4. CASE Fresh(key)
  <2>1. Set(k, Idle) /\ queue' = Released(k)
    BY <1>1, <1>4 DEF Wake
  <2>2. QED
    BY <1>2, <1>3, <2>1, ReleaseStep, NobodyEnters
       DEF CacheInv, CacheTypeOK, Idle
<1>5. CASE ~Fresh(key)
  <2>1. PICK c : c = caller[k]
    OBVIOUS
  <2>2. c \in [at : {"idle", "waiting", "producing"}, key : Keys \cup {None},
               lock : LockIds \cup {0}]
    BY <2>1 DEF CacheInv, CacheTypeOK
  <2>3. PICK d : d = [c EXCEPT !.at = "producing"]
    OBVIOUS
  <2>4. /\ d \in [at : {"idle", "waiting", "producing"}, key : Keys \cup {None},
                  lock : LockIds \cup {0}]
        /\ d.at = "producing" /\ d.key = c.key /\ d.lock = c.lock
    BY <2>2, <2>3
  <2>5. caller' = [caller EXCEPT ![k] = d] /\ queue' = queue
    BY <1>1, <1>5, <2>1, <2>3 DEF Wake, Set
  <2>6. caller \in [Callers -> [at : {"idle", "waiting", "producing"}, key : Keys \cup {None},
                                lock : LockIds \cup {0}]]
    BY DEF CacheInv, CacheTypeOK
  <2>7. /\ caller'[k] = d /\ \A j \in Callers : j # k => caller'[j] = caller[j]
        /\ caller' \in [Callers -> [at : {"idle", "waiting", "producing"}, key : Keys \cup {None},
                                    lock : LockIds \cup {0}]]
    BY <2>4, <2>5, <2>6
  <2>8. \A j \in Callers : /\ caller'[j].key = caller[j].key /\ caller'[j].lock = caller[j].lock
                           /\ caller'[j].at = "idle" <=> caller[j].at = "idle"
    BY <1>2, <2>1, <2>4, <2>7
  <2>9. QueuesInOrder'
    <3>1. \A l \in LockIds : \A i \in DOMAIN queue[l] : queue[l][i] \in Callers
      BY DEF CacheInv, CacheTypeOK
    <3>2. \A l \in LockIds : \A i \in DOMAIN queue[l] :
             caller'[queue[l][i]].at # "idle" /\ caller'[queue[l][i]].lock = l
      BY <2>8, <3>1 DEF CacheInv, QueuesInOrder
    <3>3. ASSUME NEW j \in Callers, caller'[j].at = "producing"
          PROVE  queue[caller'[j].lock] # <<>> /\ queue[caller'[j].lock][1] = j
      <4>1. CASE j = k
        BY <1>2, <2>8, <4>1 DEF Holds
      <4>2. CASE j # k
        BY <2>7, <3>3, <4>2 DEF CacheInv, QueuesInOrder
      <4>3. QED
        BY <4>1, <4>2
    <3>4. QED
      BY <2>5, <3>2, <3>3 DEF CacheInv, QueuesInOrder
  <2>10. queue' \in [LockIds -> Seq(Callers)]
    BY <2>5 DEF CacheInv, CacheTypeOK
  <2>11. QED
    BY <1>2, <1>3, <2>7, <2>8, <2>9, <2>10, NobodyEnters
<1>6. QED
  BY <1>4, <1>5

\* The producer returns.  A lock goes only with an entry, when the store is too full.
LEMMA StoreStep ==
    ASSUME CacheInv, NEW k \in Callers, NEW value \in {Live, Snapshot}, Store(k, value),
           plan' = plan
    PROVE  CacheInv'
<1>1. PICK key \in Keys : key = caller[k].key /\ key \in asked
  BY DEF Store, CacheInv, CacheTypeOK, MapsInOrder
<1>2. PICK e : e = [key |-> key, value |-> value, fresh |-> TRUE]
  OBVIOUS
<1>3. e \in Entries /\ e.key = key
  BY <1>2 DEF Entries
<1>4. PICK all : all = Put(store, e)
  OBVIOUS
<1>5. /\ store \in Seq(Entries) /\ Distinct(store) /\ IsFiniteSet(asked)
      /\ Len(store) \in Nat /\ Len(store) <= MaxEntries /\ MaxEntries \in Nat
      /\ locks \in Seq(LockEntries) /\ Distinct(locks) /\ Len(locks) <= MaxEntries
      /\ \A i \in DOMAIN store : store[i].key \in asked
      /\ \A i \in DOMAIN locks : locks[i].key \in asked
  BY MaxEntriesIsPositive DEF CacheInv, CacheTypeOK, MapsInOrder, IsMap
<1>6. /\ all \in Seq(Entries) /\ Len(all) <= MaxEntries + 1 /\ Distinct(all)
      /\ \A n \in DOMAIN all : all[n].key \in asked
  <2>1. all \in Seq(Entries) /\ Len(all) <= Len(store) + 1 /\ Distinct(all)
    BY <1>3, <1>4, <1>5, PutFacts
  <2>2. \A n \in DOMAIN all : all[n] = e \/ \E i \in DOMAIN store : all[n] = store[i]
    BY <1>3, <1>4, <1>5, PutFacts
  <2>3. Len(all) <= MaxEntries + 1
    BY <1>5, <2>1
  <2>4. QED
    BY <1>1, <1>3, <1>5, <2>1, <2>2, <2>3
<1>7. /\ caller[k].at = "producing" /\ store' = Trimmed(all)
      /\ locks' = IF Outgrown(all) THEN Without(locks, all[1].key) ELSE locks
      /\ queue' = Released(k) /\ Set(k, Idle) /\ asked' = asked
  BY <1>1, <1>2, <1>4 DEF Store
<1>8. Outgrown(all) => ~Roomy
  <2>1. Len(all) <= Cardinality(asked)
    BY <1>5, <1>6, FitsIn
  <2>2. Len(all) \in Nat /\ Cardinality(asked) \in Nat
    BY <1>5, <1>6, FS_CardinalityType
  <2>3. QED
    BY <1>5, <2>1, <2>2 DEF Outgrown, Roomy
<1>9. /\ store' \in Seq(Entries) /\ Len(store') <= MaxEntries /\ Distinct(store')
      /\ \A i \in DOMAIN store' : store'[i].key \in asked
  <2>1. /\ Trimmed(all) \in Seq(Entries) /\ Len(Trimmed(all)) <= MaxEntries
        /\ Distinct(Trimmed(all))
    BY <1>6, TrimmedFacts
  <2>2. \A n \in DOMAIN Trimmed(all) : \E i \in DOMAIN all : Trimmed(all)[n] = all[i]
    BY <1>6, TrimmedFacts
  <2>3. QED
    BY <1>6, <1>7, <2>1, <2>2
<1>10. \/ locks' = locks
       \/ /\ ~Roomy
          /\ locks' \in Seq(LockEntries) /\ Len(locks') <= MaxEntries /\ Distinct(locks')
          /\ \A i \in DOMAIN locks' : locks'[i].key \in asked
  <2>1. CASE ~Outgrown(all)
    BY <1>7, <2>1
  <2>2. CASE Outgrown(all)
    <3>1. PICK w : w = Without(locks, all[1].key)
      OBVIOUS
    <3>2. /\ w \in Seq(LockEntries) /\ Distinct(w)
          /\ Len(w) = IF Has(locks, all[1].key) THEN Len(locks) - 1 ELSE Len(locks)
      BY <1>5, <3>1, WithoutFacts
    <3>3. \A n \in DOMAIN w : \E i \in DOMAIN locks : w[n] = locks[i]
      BY <1>5, <3>1, WithoutFacts
    <3>4. Len(locks) \in Nat /\ Len(w) <= MaxEntries
      BY <1>5, <3>2
    <3>5. QED
      BY <1>5, <1>7, <1>8, <2>2, <3>1, <3>2, <3>3, <3>4
  <2>3. QED
    BY <2>1, <2>2
<1>11. QED
  BY <1>7, <1>9, <1>10, ReleaseStep, NobodyEnters

\* A producer raises: the lock goes to the next waiter and the store is left alone.
LEMMA RaiseStep ==
    ASSUME CacheInv, NEW k \in Callers, Raise(k), plan' = plan
    PROVE  CacheInv'
<1>1. /\ caller[k].at = "producing" /\ queue' = Released(k) /\ Set(k, Idle)
      /\ UNCHANGED <<store, locks, asked>>
  BY DEF Raise
<1>2. /\ store' \in Seq(Entries) /\ Len(store') <= MaxEntries /\ Distinct(store')
      /\ \A i \in DOMAIN store' : store'[i].key \in asked
  BY <1>1 DEF CacheInv, CacheTypeOK, MapsInOrder, IsMap
<1>3. QED
  BY <1>1, <1>2, ReleaseStep, NobodyEnters

\* An entry expires.
LEMMA ExpireStep ==
    ASSUME CacheInv, NEW key \in Keys, Expire(key), plan' = plan
    PROVE  CacheInv'
<1>1. UNCHANGED <<locks, queue, caller, asked>>
  BY DEF Expire
<1>2. /\ store \in Seq(Entries) /\ Len(store) <= MaxEntries /\ Distinct(store)
      /\ \A i \in DOMAIN store : store[i].key \in asked
      /\ \A i \in DOMAIN store : store[i] \in Entries
  BY DEF CacheInv, CacheTypeOK, MapsInOrder, IsMap
<1>3. PICK aged : aged = [i \in DOMAIN store |->
                  IF store[i].key = key THEN [store[i] EXCEPT !.fresh = FALSE] ELSE store[i]]
  OBVIOUS
<1>4. ASSUME NEW i \in DOMAIN store
      PROVE  aged[i] \in Entries /\ aged[i].key = store[i].key
  <2>1. PICK e \in Entries : e = store[i]
    BY <1>2
  <2>2. PICK f : f = [e EXCEPT !.fresh = FALSE]
    OBVIOUS
  <2>3. f \in Entries /\ f.key = e.key
    BY <2>1, <2>2 DEF Entries
  <2>4. aged[i] = IF e.key = key THEN f ELSE e
    BY <1>3, <2>1, <2>2
  <2>5. QED
    BY <2>1, <2>3, <2>4
<1>5. DOMAIN aged = DOMAIN store /\ DOMAIN store = 1..Len(store) /\ Len(store) \in Nat
  BY <1>2, <1>3
<1>6. aged \in Seq(Entries) /\ Len(aged) = Len(store)
  <2>1. aged \in [1..Len(store) -> Entries]
    BY <1>3, <1>4, <1>5
  <2>2. QED
    BY <1>5, <2>1
<1>7. Distinct(aged) /\ \A i \in DOMAIN aged : aged[i].key \in asked
  BY <1>2, <1>4, <1>5 DEF Distinct
<1>8. store' = aged
  BY <1>3 DEF Expire
<1>9. QueuesInOrder'
  BY <1>1 DEF CacheInv, QueuesInOrder
<1>10. QED
  BY <1>1, <1>2, <1>6, <1>7, <1>8, <1>9, NobodyEnters DEF CacheInv, CacheTypeOK
\* Every step of the composition is one of the cache or leaves it alone.
LEMMA CacheInvStep ==
    ASSUME CacheInv, [KgNext]_allVars
    PROVE  CacheInv'
<1>1. plan' = plan
  BY DEF KgNext, ReaderStep, ProxyStep, Wake, Query, Spare, Rows, Fail, Closed, Lose, Advance, GoOn,
         GiveUp, Unavailable, Submit, Commit, Acknowledge, Refuse, Timeout, Outage, Recover,
         CoolDown, Expire, kgVars, allVars
<1>2. CASE UNCHANGED vars
  BY <1>1, <1>2 DEF vars, CacheInv, CacheTypeOK, MapsInOrder, IsMap, Distinct, QueuesInOrder,
                    LocksStay, Roomy
<1>3. ASSUME NEW c, Advance(c)
      PROVE  UNCHANGED vars \/ (c \in Callers /\ Store(c, Snapshot))
  BY <1>3 DEF Advance, GoOn, GiveUp, Unavailable
<1>4. ASSUME NEW c, Lose(c)
      PROVE  UNCHANGED vars \/ (c \in Callers /\ Store(c, Snapshot))
  BY <1>3, <1>4 DEF Lose
<1>5. ASSUME NEW k \in Callers, \E v \in {Live, Snapshot} : Store(k, v)
      PROVE  CacheInv'
  BY <1>1, <1>5, StoreStep
<1>6. ASSUME NEW k \in Callers, ReaderStep(k)
      PROVE  CacheInv'
  <2>1. CASE Wake(k)
    BY <1>1, <2>1, WakeStep
  <2>2. CASE Query(k)
    BY <1>2, <1>3, <1>5, <2>2 DEF Query
  <2>3. CASE Spare(k)
    BY <1>5, <2>3 DEF Spare
  <2>4. CASE Rows(k)
    BY <1>1, <1>5, <2>4, RaiseStep DEF Rows
  <2>5. CASE Fail(k) \/ Closed(k)
    BY <1>2, <1>3, <1>4, <1>5, <2>5 DEF Fail, Closed
  <2>6. QED
    BY <1>6, <2>1, <2>2, <2>3, <2>4, <2>5 DEF ReaderStep
<1>7. ASSUME NEW k \in Callers, NEW key \in plan.keys, Hit(k, key) \/ Miss(k, key)
      PROVE  CacheInv'
  <2>1. key \in Keys
    BY PlansAreAboutKeys DEF CacheInv, CacheTypeOK
  <2>2. QED
    BY <1>1, <1>7, <2>1, HitStep, MissStep
<1>8. ASSUME NEW p \in Proxies, ProxyStep(p) \/ Submit(p)
      PROVE  CacheInv'
  BY <1>2, <1>3, <1>4, <1>5, <1>8
     DEF ProxyStep, Submit, Commit, Acknowledge, Refuse, Fail, Closed
<1>9. ASSUME NEW c \in Clients, Timeout(c)
      PROVE  CacheInv'
  BY <1>2, <1>4, <1>5, <1>9 DEF Timeout
<1>10. ASSUME NEW u, Outage(u) \/ Recover(u) \/ CoolDown
       PROVE  CacheInv'
  BY <1>2, <1>10 DEF Outage, Recover, CoolDown
<1>11. ASSUME NEW key \in Keys, Expire(key)
       PROVE  CacheInv'
  BY <1>1, <1>11, ExpireStep
<1>12. QED
  BY <1>2, <1>6, <1>7, <1>8, <1>9, <1>10, <1>11 DEF KgNext, allVars

-----------------------------------------------------------------------------
(***************************************************************************)
(* The writes.                                                             *)
(***************************************************************************)

\* One call changes, and of a write its count.
LEMMA CallChanges ==
    ASSUME WritesCounted, NEW c \in Clients, NEW r, SetCall(c, r),
           \/ c \notin Proxies /\ applied' = applied
           \/ /\ c \in Proxies
              /\ \E n : applied' = [applied EXCEPT ![c] = n] /\ Tallies(n, r)
    PROVE  WritesCounted'
<1>1. applied \in [Proxies -> Nat] /\ call = [d \in Clients |-> call[d]]
  BY DEF WritesCounted
<1>2. call'[c] = r /\ \A d \in Clients : d # c => call'[d] = call[d]
  BY <1>1 DEF SetCall
<1>3. call' = [d \in Clients |-> call'[d]]
  BY <1>1 DEF SetCall
<1>4. Proxies \in SUBSET Clients
  BY DEF Clients
<1>5. CASE c \notin Proxies /\ applied' = applied
  BY <1>1, <1>2, <1>3, <1>4, <1>5 DEF WritesCounted
<1>6. CASE c \in Proxies /\ \E n : applied' = [applied EXCEPT ![c] = n] /\ Tallies(n, r)
  <2>1. PICK n : applied' = [applied EXCEPT ![c] = n] /\ Tallies(n, r)
    BY <1>6
  <2>2. n \in Nat
    BY <2>1 DEF Tallies
  <2>3. /\ applied' \in [Proxies -> Nat] /\ applied'[c] = n
        /\ \A p \in Proxies : p # c => applied'[p] = applied[p]
    BY <1>1, <1>6, <2>1, <2>2
  <2>4. \A p \in Proxies : Tallies(applied'[p], call'[p])
    BY <1>2, <1>4, <2>1, <2>3 DEF WritesCounted
  <2>5. QED
    BY <1>3, <2>3, <2>4 DEF WritesCounted
<1>7. QED
  BY <1>5, <1>6

\* What each place of a query says of the count.
LEMMA TalliesFacts ==
    ASSUME NEW n \in Nat, NEW u \in Nat, NEW d
    PROVE  /\ Tallies(0, NoCall)
           /\ n < u => Tallies(n, [at |-> "asking", uri |-> u, driver |-> d])
           /\ n \in 1..u => Tallies(n, [at |-> "committed", uri |-> u, driver |-> d])
           /\ n <= u => Tallies(n, [at |-> "closing", uri |-> u, driver |-> d])
<1>1. ASSUME NEW at \in {"asking", "committed", "closing"}
      PROVE  \E e : [at |-> at, uri |-> u, driver |-> d]
                      \in [at : {"off", "asking", "committed", "closing"}, uri : Nat, driver : {e}]
  <2>1. [at |-> at, uri |-> u, driver |-> d]
          \in [at : {"off", "asking", "committed", "closing"}, uri : Nat, driver : {d}]
    OBVIOUS
  <2>2. QED
    BY <2>1
<1>2. Tallies(0, NoCall)
  <2>1. NoCall \in [at : {"off", "asking", "committed", "closing"}, uri : Nat, driver : {0}]
    BY DEF NoCall
  <2>2. QED
    BY <2>1 DEF Tallies, NoCall
<1>3. QED
  BY <1>1, <1>2 DEF Tallies

\* A call that goes on at the same URI.
LEMMA SameCall ==
    ASSUME NEW n, NEW r, Tallies(n, r), NEW at \in {"committed", "closing"}
    PROVE  [r EXCEPT !.at = at] = [at |-> at, uri |-> r.uri, driver |-> r.driver]
             /\ r.uri \in Nat /\ n \in Nat
<1>1. PICK d : r \in [at : {"off", "asking", "committed", "closing"}, uri : Nat, driver : {d}]
  BY DEF Tallies
<1>2. QED
  BY <1>1 DEF Tallies
\* A query is sent to a URI the proxy has not applied its write at.
LEMMA AskWrites ==
    ASSUME WritesCounted, NEW c \in Clients, NEW from \in Nat, Ask(c, from), applied' = applied,
           c \in Proxies => applied[c] < from
    PROVE  WritesCounted'
<1> PICK u \in Usable(from) : SetCall(c, [at |-> "asking", uri |-> u, driver |-> DriverFor(u)])
  BY DEF Ask
<1>1. PICK r : r = [at |-> "asking", uri |-> u, driver |-> DriverFor(u)]
  OBVIOUS
<1>2. SetCall(c, r) /\ u \in Nat /\ from <= u
  BY <1>1, SomeURI DEF Usable
<1>3. CASE c \notin Proxies
  BY <1>2, <1>3, CallChanges
<1>4. CASE c \in Proxies
  <2>1. applied[c] \in Nat /\ applied' = [applied EXCEPT ![c] = applied[c]]
    BY <1>4 DEF WritesCounted
  <2>2. Tallies(applied[c], r)
    <3>1. PICK n \in Nat : n = applied[c]
      BY <2>1
    <3>2. n < u
      BY <1>2, <1>4, <3>1
    <3>3. QED
      BY <1>1, <1>2, <3>1, <3>2, TalliesFacts
  <2>3. QED
    BY <1>2, <1>4, <2>1, <2>2, CallChanges
<1>5. QED
  BY <1>3, <1>4

\* A proxied call ends with any answer but success.
LEMMA EndWrites ==
    ASSUME WritesCounted, NEW p \in Proxies, EndWrite(p)
    PROVE  WritesCounted'
<1>1. SetCall(p, NoCall) /\ applied' = [applied EXCEPT ![p] = 0] /\ p \in Clients
  BY DEF EndWrite, Clients
<1>2. Tallies(0, NoCall)
  BY TalliesFacts
<1>3. QED
  BY <1>1, <1>2, CallChanges

\* A call goes on to the next URI, or gives up.
LEMMA AdvanceWrites ==
    ASSUME WritesCounted, NEW c \in Clients, Advance(c)
    PROVE  WritesCounted'
<1>1. CASE c \in Proxies
  <2>1. /\ call[c].uri \in Nat /\ applied[c] \in Nat /\ applied[c] <= call[c].uri
    <3>1. Tallies(applied[c], call[c])
      BY <1>1 DEF WritesCounted
    <3>2. PICK d : call[c] \in [at : {"off", "asking", "committed", "closing"}, uri : Nat,
                                driver : {d}]
      BY <3>1 DEF Tallies
    <3>3. call[c].uri \in Nat /\ applied[c] \in Nat
      BY <3>1, <3>2 DEF Tallies
    <3>4. QED
      BY <3>1, <3>3 DEF Tallies
  <2>2. CASE GoOn(c)
    <3>1. Ask(c, NextURI(c)) /\ applied' = applied
      BY <2>2 DEF GoOn
    <3>2. NextURI(c) \in Nat /\ applied[c] < NextURI(c)
      BY <2>1 DEF NextURI
    <3>3. QED
      BY <3>1, <3>2, AskWrites
  <2>3. CASE Unavailable(c)
    BY <1>1, <2>3, EndWrites DEF Unavailable
  <2>4. QED
    BY <1>1, <2>2, <2>3, ProxiesAreNoReaders DEF Advance
<1>2. CASE c \notin Proxies
  <2>1. applied' = applied /\ \E r : SetCall(c, r)
    BY <1>2 DEF Advance, GoOn, GiveUp, Ask
  <2>2. QED
    BY <1>2, <2>1, CallChanges
<1>3. QED
  BY <1>1, <1>2

\* A call loses its driver.
LEMMA LoseWrites ==
    ASSUME WritesCounted, NEW c \in Clients, Lose(c), call[c].at \in {"asking", "committed"}
    PROVE  WritesCounted'
<1>1. CASE Advance(c)
  BY <1>1, AdvanceWrites
<1>2. CASE Drop(c) /\ applied' = applied
  <2>1. PICK r : r = [call[c] EXCEPT !.at = "closing"]
    OBVIOUS
  <2>2. SetCall(c, r)
    BY <1>2, <2>1 DEF Drop
  <2>3. CASE c \notin Proxies
    BY <1>2, <2>2, <2>3, CallChanges
  <2>4. CASE c \in Proxies
    <3>1. Tallies(applied[c], call[c]) /\ applied' = [applied EXCEPT ![c] = applied[c]]
      BY <1>2, <2>4 DEF WritesCounted
    <3>2. /\ r = [at |-> "closing", uri |-> call[c].uri, driver |-> call[c].driver]
          /\ call[c].uri \in Nat /\ applied[c] \in Nat
      BY <2>1, <3>1, SameCall
    <3>3. applied[c] <= call[c].uri
      BY <3>1, <3>2 DEF Tallies
    <3>4. Tallies(applied[c], r)
      BY <3>2, <3>3, TalliesFacts
    <3>5. QED
      BY <2>2, <2>4, <3>1, <3>4, CallChanges
  <2>5. QED
    BY <2>3, <2>4
<1>3. QED
  BY <1>1, <1>2 DEF Lose

\* Every step of the client and of the cache keeps count of the writes.
LEMMA WritesCountedStep ==
    ASSUME WritesCounted, [KgNext]_allVars
    PROVE  WritesCounted'
<1>1. CASE UNCHANGED <<call, applied>>
  BY <1>1 DEF WritesCounted
<1>2. ASSUME NEW c \in Clients, Fail(c) \/ Closed(c) \/ Timeout(c)
      PROVE  WritesCounted'
  BY <1>2, LoseWrites, AdvanceWrites DEF Fail, Failed, Closed, Timeout
<1>3. ASSUME NEW k \in Callers, ReaderStep(k)
      PROVE  WritesCounted'
  <2>1. k \in Clients /\ k \notin Proxies
    BY ProxiesAreNoReaders DEF Clients
  <2>2. CASE Wake(k) /\ UNCHANGED kgVars
    BY <1>1, <2>2 DEF kgVars
  <2>3. CASE Query(k)
    BY <2>1, <2>3, AdvanceWrites DEF Query
  <2>4. CASE Spare(k)
    BY <1>1, <2>4 DEF Spare, kgVars
  <2>5. CASE Rows(k)
    BY <2>1, <2>5, CallChanges DEF Rows
  <2>6. QED
    BY <1>2, <1>3, <2>1, <2>2, <2>3, <2>4, <2>5 DEF ReaderStep
<1>4. ASSUME NEW p \in Proxies, ProxyStep(p) \/ Submit(p)
      PROVE  WritesCounted'
  <2>1. p \in Clients /\ Tallies(applied[p], call[p])
    BY DEF Clients, WritesCounted
  <2>2. CASE Submit(p)
    BY <2>1, <2>2, AdvanceWrites DEF Submit
  <2>3. CASE Commit(p)
    <3>1. PICK r : r = [call[p] EXCEPT !.at = "committed"]
      OBVIOUS
    <3>2. /\ r = [at |-> "committed", uri |-> call[p].uri, driver |-> call[p].driver]
          /\ call[p].uri \in Nat /\ applied[p] \in Nat
      BY <2>1, <3>1, SameCall
    <3>3. applied[p] + 1 \in 1..call[p].uri
      BY <2>1, <2>3, <3>2 DEF Commit, Tallies
    <3>4. Tallies(applied[p] + 1, r)
      <4>1. PICK n \in Nat : n = applied[p] + 1
        BY <3>2
      <4>2. QED
        BY <3>2, <3>3, <4>1, TalliesFacts
    <3>5. SetCall(p, r) /\ applied' = [applied EXCEPT ![p] = applied[p] + 1]
      BY <2>3, <3>1 DEF Commit
    <3>6. QED
      BY <2>1, <3>4, <3>5, CallChanges
  <2>4. CASE Acknowledge(p) \/ Refuse(p)
    BY <2>4, EndWrites DEF Acknowledge, Refuse
  <2>5. QED
    BY <1>2, <1>4, <2>1, <2>2, <2>3, <2>4 DEF ProxyStep
<1>5. QED
  BY <1>1, <1>2, <1>3, <1>4 DEF KgNext, allVars, kgVars, Outage, Recover, CoolDown

\* Nothing is applied before anything was asked.
LEMMA WritesCountedInit ==
    ASSUME KgInit
    PROVE  WritesCounted
<1>1. Tallies(0, NoCall)
  BY TalliesFacts
<1>2. QED
  BY <1>1 DEF KgInit, WritesCounted, Clients

-----------------------------------------------------------------------------
(***************************************************************************)
(* The theorems.                                                           *)
(***************************************************************************)

\* The inductive invariant of the cache and of the writes that go past it.
THEOREM Invariance == KgSpec => [](CacheInv /\ WritesCounted)
<1>1. KgInit => CacheInv /\ WritesCounted
  BY CacheInvInit, WritesCountedInit
<1>2. CacheInv /\ WritesCounted /\ [KgNext]_allVars => (CacheInv /\ WritesCounted)'
  BY CacheInvStep, WritesCountedStep
<1>3. QED
  BY <1>1, <1>2, PTL DEF KgSpec

\* cache.py 62, "single-flight: only one coroutine recomputes a given key": all who use a
\* key while there is room are in the queue of one lock, and who produces is its first.
THEOREM SingleFlight == KgSpec => []OneProducer
<1>1. ASSUME CacheInv
      PROVE  OneProducer
  <2>1. ASSUME Roomy, NEW j \in Callers, NEW k \in Callers, caller[j].at = "producing",
               caller[k].at = "producing", caller[j].key = caller[k].key
        PROVE  j = k
    <3>1. PICK m \in DOMAIN locks : locks[m] = [key |-> caller[j].key, lock |-> caller[j].lock]
      BY <1>1, <2>1 DEF CacheInv, LocksStay
    <3>2. PICK n \in DOMAIN locks : locks[n] = [key |-> caller[k].key, lock |-> caller[k].lock]
      BY <1>1, <2>1 DEF CacheInv, LocksStay
    <3>3. m = n
      <4>1. locks[m].key = caller[j].key /\ locks[n].key = caller[k].key
        BY <3>1, <3>2
      <4>2. QED
        BY <1>1, <2>1, <4>1 DEF CacheInv, MapsInOrder, IsMap, Distinct
    <3>4. caller[j].lock = caller[k].lock
      BY <3>1, <3>2, <3>3
    <3>5. QED
      BY <1>1, <2>1, <3>4 DEF CacheInv, QueuesInOrder
  <2>2. QED
    BY <2>1 DEF OneProducer
<1>2. QED
  BY <1>1, Invariance, PTL

\* kg.py 377-411: a proxied write that is acknowledged has been applied, and at no more
\* URIs than it was sent to; one that is refused has not been applied where it was refused.
THEOREM AcknowledgedIsApplied == KgSpec => WriteIsApplied
<1>1. ASSUME WritesCounted
      PROVE  \A p \in Proxies :
               /\ Acknowledge(p) => applied[p] \in 1..call[p].uri
               /\ Refuse(p) => applied[p] < call[p].uri
  BY <1>1 DEF WritesCounted, Tallies, Acknowledge, Refuse
<1>2. QED
  BY <1>1, Invariance, PTL DEF WriteIsApplied
=============================================================================
