------------------------------ MODULE RateLimitProofs ----------------------------
(***************************************************************************)
(* That the limits hold and that reconnecting is orderly, for any number   *)
(* of requests and replicas, any limit, window, timeout and clock skew.    *)
(*                                                                         *)
(* Two windows are kept, one in Redis and one in each replica's memory,    *)
(* and the argument is the same for both: whoever is admitted stays in the *)
(* window for as long as a later request could share a span with him, so   *)
(* the later one counts him.                                               *)
(***************************************************************************)
EXTENDS RateLimit, FiniteSetTheorems, TLAPS

Hits == [by : Requests, at : Nat]

\* A request whose command is or was on its way.
Asking ==
    [pc : {"sent", "counted", "removing", "removed"}, since : Nat, replica : Replicas,
     client : Requests, ran : Nat \cup {Unset}]

States ==
    {Idle}
      \cup [pc : {"queued", "pinging", "closing"}, since : Nat, replica : Replicas]
      \cup Asking
      \cup [pc : {"done"}, since : Nat, answer : {"allowed", "denied", "unavailable"}]

TypeOK ==
    /\ now \in Nat
    /\ failClosed \in BOOLEAN
    /\ offset \in [Replicas -> 0..Skew]
    /\ hits \in SUBSET Hits /\ IsFiniteSet(hits)
    /\ wire \in SUBSET Hits
    /\ local \in [Replicas -> SUBSET Hits] /\ \A r \in Replicas : IsFiniteSet(local[r])
    /\ client \in [Replicas -> Requests \cup {NoOne}]
    /\ lock \in [Replicas -> Requests \cup {NoOne}]
    /\ retryAfter \in [Replicas -> Nat]
    /\ request \in [Requests -> States]
    /\ admitted \in SUBSET [at : Nat, by : Requests, via : Replicas \cup {"redis"}]
    /\ failed \in [Replicas -> Nat \cup {Unset}]

\* Who connects holds the lock, and the breaker stays open at least as long as the
\* failure it remembers asks for.
ConnectionsInOrder ==
    /\ \A q \in Requests : request[q].pc = "pinging" => lock[request[q].replica] = q
    /\ \A r \in Replicas : failed[r] # Unset =>
         /\ failed[r] <= now
         /\ retryAfter[r] >= failed[r] + Cooldown
         /\ \A q \in Requests : request[q].pc = "pinging" /\ request[q].replica = r =>
              request[q].since >= failed[r] + Cooldown

\* A command on its way carries a score near the time at which it was sent, and who
\* still waits for it was sent not longer than the timeout ago.
SentOnTime ==
    /\ \A m \in wire :
         /\ m.at <= now + Skew
         /\ request[m.by].pc \notin {"idle", "queued", "pinging"}
         /\ request[m.by].pc = "sent" => m.at >= request[m.by].since
    /\ \A q \in Requests : request[q].pc = "sent" => now <= request[q].since + Timeout

\* The requests Redis let through: those that know it and those whose answer is on the
\* way.
Granted ==
    {a \in admitted : a.via = "redis"}
      \cup {[at |-> request[q].ran, by |-> q, via |-> "redis"]
              : q \in {p \in Requests : request[p].pc = "counted"}}

\* Each is let through once, in the past.
GrantedOnce ==
    /\ \A a \in admitted : a.at <= now /\ request[a.by].pc = "done"
    /\ \A a, b \in admitted : a.by = b.by => a = b
    /\ \A q \in Requests : request[q].pc = "counted" => request[q].ran \in 0..now

\* Redis remembers whoever may share a span with a request that comes now ...
RedisRemembers ==
    \A g \in Granted : g.at > now - (Window - Blur) =>
      \E h \in hits : h.by = g.by /\ h.at >= g.at - Timeout

\* ... and so does a replica's own window, where it may be used at all.
ReplicaRemembers ==
    \A a \in admitted : a.via # "redis" =>
      /\ ~failClosed
      /\ a.at >= now - Window => [by |-> a.by, at |-> a.at] \in local[a.via]

\* The limits, over every span and for requests that wait for Redis to answer too.
AtMost(S) == IsFiniteSet(S) /\ Cardinality(S) <= MaxEvents
LimitsKept ==
    /\ \A t \in Int : AtMost(AdmittedIn(Granted, t, t + Window - Blur - 1))
    /\ \A r \in Replicas, t \in Int :
         AtMost(AdmittedIn({a \in admitted : a.via = r}, t, t + Window))

IInv ==
    /\ TypeOK
    /\ ConnectionsInOrder
    /\ SentOnTime
    /\ GrantedOnce
    /\ RedisRemembers
    /\ ReplicaRemembers
    /\ LimitsKept
-----------------------------------------------------------------------------
(***************************************************************************)
(* Type correctness.                                                       *)
(***************************************************************************)

\* What a request's record holds at each of its awaits.
LEMMA StateFacts ==
    ASSUME NEW s \in States
    PROVE  /\ s.pc \in {"idle", "queued", "pinging", "closing", "sent", "counted", "removing",
                        "removed", "done"}
           /\ s.since \in Nat
           /\ s.pc \notin {"idle", "done"} => s.replica \in Replicas
           /\ s.pc \in {"sent", "counted", "removing", "removed"} =>
                s.client \in Requests /\ s.ran \in Nat \cup {Unset}
<1>1. CASE s = Idle
  BY <1>1 DEF Idle
<1>2. CASE s \in [pc : {"queued", "pinging", "closing"}, since : Nat, replica : Replicas]
  BY <1>2
<1>3. CASE s \in Asking
  BY <1>3 DEF Asking
<1>4. CASE s \in [pc : {"done"}, since : Nat, answer : {"allowed", "denied", "unavailable"}]
  BY <1>4
<1>5. QED
  BY <1>1, <1>2, <1>3, <1>4 DEF States

\* The awaits on Redis all belong to a record with a client.
LEMMA AskingStates ==
    ASSUME NEW s \in States, s.pc \in {"sent", "counted", "removing", "removed"}
    PROVE  s \in Asking
BY DEF States, Idle

\* What a request does with the memory of its replica.
LEMMA WithoutRedisEffect ==
    ASSUME TypeOK, NEW q \in Requests, NEW r \in Replicas, WithoutRedis(q, r)
    PROVE  /\ \E s \in States : s.pc = "done" /\ request' = [request EXCEPT ![q] = s]
           /\ \/ local' = local /\ admitted' = admitted
              \/ /\ local' = [local EXCEPT ![r] = KeptLocally(r)]
                 /\ admitted' = admitted
              \/ /\ ~failClosed
                 /\ Cardinality(KeptLocally(r)) < MaxEvents
                 /\ local' = [local EXCEPT ![r] = KeptLocally(r) \cup {[by |-> q, at |-> now]}]
                 /\ admitted' = admitted \cup {[at |-> now, by |-> q, via |-> r]}
<1>1. now \in Nat
  BY DEF TypeOK
<1>2. \A answer \in {"allowed", "denied", "unavailable"} :
         Done(answer) \in States /\ Done(answer).pc = "done"
  BY <1>1 DEF Done, States
<1>3. \E s \in States : s.pc = "done" /\ request' = [request EXCEPT ![q] = s]
  BY <1>2 DEF WithoutRedis, Becomes
<1>4. CASE MayFallBack /\ Cardinality(KeptLocally(r)) < MaxEvents
  BY <1>3, <1>4 DEF WithoutRedis, MayFallBack
<1>5. CASE ~(MayFallBack /\ Cardinality(KeptLocally(r)) < MaxEvents)
  BY <1>3, <1>5 DEF WithoutRedis
<1>6. QED
  BY <1>4, <1>5

\* Deciding in the local window keeps the types.
LEMMA WithoutRedisType ==
    ASSUME TypeOK, NEW q \in Requests, NEW r \in Replicas, WithoutRedis(q, r)
    PROVE  /\ request' \in [Requests -> States]
           /\ local' \in [Replicas -> SUBSET Hits]
           /\ \A p \in Replicas : IsFiniteSet(local'[p])
           /\ admitted' \in SUBSET [at : Nat, by : Requests, via : Replicas \cup {"redis"}]
<1>1. KeptLocally(r) \in SUBSET Hits /\ IsFiniteSet(KeptLocally(r))
  <2>1. KeptLocally(r) \in SUBSET local[r]
    BY DEF KeptLocally
  <2>2. QED
    BY <2>1, FS_Subset DEF TypeOK
<1>2. [by |-> q, at |-> now] \in Hits
  BY DEF TypeOK, Hits
<1>3. KeptLocally(r) \cup {[by |-> q, at |-> now]} \in SUBSET Hits
  BY <1>1, <1>2
<1>4. IsFiniteSet(KeptLocally(r) \cup {[by |-> q, at |-> now]})
  BY <1>1, FS_AddElement
<1>5. [at |-> now, by |-> q, via |-> r]
         \in [at : Nat, by : Requests, via : Replicas \cup {"redis"}]
  BY DEF TypeOK
<1>6. PICK s \in States : request' = [request EXCEPT ![q] = s]
  BY WithoutRedisEffect
<1>7. request' \in [Requests -> States]
  BY <1>6 DEF TypeOK
<1>8. ASSUME NEW W \in SUBSET Hits, IsFiniteSet(W), local' = [local EXCEPT ![r] = W]
      PROVE  /\ local' \in [Replicas -> SUBSET Hits]
             /\ \A p \in Replicas : IsFiniteSet(local'[p])
  BY <1>8 DEF TypeOK
<1>9. CASE local' = local /\ admitted' = admitted
  BY <1>7, <1>9 DEF TypeOK
<1>10. CASE local' = [local EXCEPT ![r] = KeptLocally(r)] /\ admitted' = admitted
  BY <1>1, <1>7, <1>8, <1>10 DEF TypeOK
<1>11. CASE /\ local' = [local EXCEPT ![r] = KeptLocally(r) \cup {[by |-> q, at |-> now]}]
            /\ admitted' = admitted \cup {[at |-> now, by |-> q, via |-> r]}
  <2>1. /\ local' \in [Replicas -> SUBSET Hits]
        /\ \A p \in Replicas : IsFiniteSet(local'[p])
    BY <1>3, <1>4, <1>8, <1>11
  <2>2. admitted' \in SUBSET [at : Nat, by : Requests, via : Replicas \cup {"redis"}]
    BY <1>5, <1>11 DEF TypeOK
  <2>3. QED
    BY <1>7, <2>1, <2>2
<1>12. QED
  BY <1>9, <1>10, <1>11, WithoutRedisEffect

\* A request goes on from the state it is in; sent, it leaves its member on the wire.
LEMMA NewStates ==
    ASSUME TypeOK, NEW r \in Replicas, NEW c \in Requests, NEW q \in Requests
    PROVE  /\ \A pc \in {"queued", "pinging", "closing"} :
                 [pc |-> pc, since |-> now, replica |-> r] \in States
           /\ [pc |-> "sent", since |-> now, replica |-> r, client |-> c, ran |-> Unset] \in States
           /\ [by |-> q, at |-> now + offset[r]] \in Hits
           /\ now + Cooldown \in Nat
           /\ now + offset[r] <= now + Skew
<1>1. now \in Nat /\ offset[r] \in 0..Skew
  BY DEF TypeOK
<1>2. Skew \in Nat /\ Cooldown \in Nat
  BY LimitsArePositive
<1>3. now + offset[r] \in Nat /\ now + offset[r] <= now + Skew /\ now + Cooldown \in Nat
  BY <1>1, <1>2
<1>4. QED
  BY <1>1, <1>3 DEF States, Asking, Hits
\* Sending changes the request and the wire within their types.
LEMMA SendType ==
    ASSUME TypeOK, NEW q \in Requests, NEW r \in Replicas, NEW c \in Requests, Send(q, r, c)
    PROVE  request' \in [Requests -> States] /\ wire' \in SUBSET Hits
<1>1. PICK s \in States : request' = [request EXCEPT ![q] = s]
  BY NewStates DEF Send, Becomes
<1>2. request' \in [Requests -> States]
  BY <1>1 DEF TypeOK
<1>3. wire' \in SUBSET Hits
  BY NewStates DEF Send, TypeOK
<1>4. QED
  BY <1>2, <1>3

\* A request's next record has its type.
LEMMA BecomesType ==
    ASSUME TypeOK, NEW q \in Requests, NEW s \in States, Becomes(q, s)
    PROVE  request' \in [Requests -> States]
BY DEF Becomes, TypeOK

\* Discarding a client keeps the types, whoever's client it was.
LEMMA DiscardType ==
    ASSUME TypeOK, NEW q \in Requests, NEW r \in Replicas, NEW c, Discard(q, r, c)
    PROVE  /\ request' \in [Requests -> States]
           /\ client' \in [Replicas -> Requests \cup {NoOne}]
           /\ retryAfter' \in [Replicas -> Nat]
<1>1. request' \in [Requests -> States]
  BY NewStates, BecomesType DEF Discard
<1>2. client' \in [Replicas -> Requests \cup {NoOne}]
  BY DEF Discard, TypeOK
<1>3. retryAfter' \in [Replicas -> Nat]
  BY NewStates DEF Discard, Trip, TypeOK
<1>4. QED
  BY <1>1, <1>2, <1>3

\* A command is executed: the member joins what is kept of the sorted set, and a
\* request that still waits learns whether it is one too many.
LEMMA ExecuteEffect ==
    ASSUME TypeOK, NEW m \in wire, Execute(m)
    PROVE  LET q == m.by
               kept == (hits \ Outdated(m.at)) \cup {m}
           IN  /\ q \in Requests /\ m.at \in Nat
               /\ hits' = kept /\ hits' \in SUBSET Hits /\ IsFiniteSet(hits')
               /\ wire' = wire \ {m}
               /\ UNCHANGED <<now, failClosed, offset, local, client, lock, retryAfter,
                              admitted, failed>>
               /\ \/ request' = request /\ request[q].pc # "sent"
                  \/ /\ request[q].pc = "sent"
                     /\ \E s \in States :
                          /\ request' = [request EXCEPT ![q] = s]
                          /\ \/ s.pc = "removing"
                             \/ /\ s.pc = "counted" /\ s.ran = now
                                /\ Cardinality(kept) <= MaxEvents
<1> DEFINE q == m.by
           kept == (hits \ Outdated(m.at)) \cup {m}
<1>1. m \in Hits /\ q \in Requests /\ m.at \in Nat
  BY DEF TypeOK, Hits
<1>2. hits' = kept /\ wire' = wire \ {m}
      /\ UNCHANGED <<now, failClosed, offset, local, client, lock, retryAfter, admitted, failed>>
  BY DEF Execute, settings
<1>3. kept \in SUBSET Hits /\ IsFiniteSet(kept)
  <2>1. (hits \ Outdated(m.at)) \in SUBSET hits
    OBVIOUS
  <2>2. IsFiniteSet(hits \ Outdated(m.at))
    BY <2>1, FS_Subset DEF TypeOK
  <2>3. IsFiniteSet(kept)
    BY <2>2, FS_AddElement
  <2>4. QED
    BY <1>1, <2>3 DEF TypeOK
<1>4. \/ request' = request /\ request[q].pc # "sent"
      \/ /\ request[q].pc = "sent"
         /\ \E s \in States :
              /\ request' = [request EXCEPT ![q] = s]
              /\ \/ s.pc = "removing"
                 \/ /\ s.pc = "counted" /\ s.ran = now
                    /\ Cardinality(kept) <= MaxEvents
  <2>1. CASE request[q].pc # "sent"
    BY <2>1 DEF Execute
  <2>2. CASE request[q].pc = "sent"
    <3>1. PICK s : s = request[q]
      OBVIOUS
    <3>2. s \in Asking /\ now \in Nat
      BY <1>1, <2>2, <3>1, AskingStates DEF TypeOK
    <3>3. CASE TooMany(Cardinality(kept))
      <4>1. PICK z : z = [s EXCEPT !.pc = "removing", !.ran = now]
        OBVIOUS
      <4>2. z \in States /\ z.pc = "removing"
        BY <3>2, <4>1 DEF Asking, States
      <4>3. request' = [request EXCEPT ![q] = z]
        BY <1>1, <2>2, <3>1, <3>3, <4>1 DEF Execute, TypeOK
      <4>4. QED
        BY <2>2, <4>2, <4>3
    <3>4. CASE ~TooMany(Cardinality(kept))
      <4>1. PICK z : z = [s EXCEPT !.pc = "counted", !.ran = now]
        OBVIOUS
      <4>2. z \in States /\ z.pc = "counted" /\ z.ran = now
        BY <3>2, <4>1 DEF Asking, States
      <4>3. request' = [request EXCEPT ![q] = z]
        BY <1>1, <2>2, <3>1, <3>4, <4>1 DEF Execute, TypeOK
      <4>4. Cardinality(kept) \in Nat /\ MaxEvents \in Nat
        BY <1>3, FS_CardinalityType, LimitsArePositive
      <4>5. Cardinality(kept) <= MaxEvents
        BY <3>4, <4>4 DEF TooMany
      <4>6. QED
        BY <2>2, <4>2, <4>3, <4>5
    <3>5. QED
      BY <3>3, <3>4
  <2>3. QED
    BY <2>1, <2>2
<1>5. QED
  BY <1>1, <1>2, <1>3, <1>4

\* Every step keeps the types.
LEMMA TypeStep ==
    ASSUME TypeOK, GrantedOnce, [Next]_vars
    PROVE  TypeOK'
<1>1. ASSUME NEW q \in Requests, NEW r \in Replicas, Arrive(q, r)
      PROVE  TypeOK'
  <2>1. request' \in [Requests -> States]
    BY <1>1, WithoutRedisType, SendType, BecomesType, NewStates DEF Arrive, TypeOK
  <2>2. wire' \in SUBSET Hits
    BY <1>1, SendType DEF Arrive, TypeOK
  <2>3. /\ local' \in [Replicas -> SUBSET Hits]
        /\ \A p \in Replicas : IsFiniteSet(local'[p])
        /\ admitted' \in SUBSET [at : Nat, by : Requests, via : Replicas \cup {"redis"}]
    BY <1>1, WithoutRedisType DEF Arrive, TypeOK
  <2>4. QED
    BY <1>1, <2>1, <2>2, <2>3 DEF Arrive, TypeOK, settings
<1>2. ASSUME NEW q \in Requests, request[q].pc \notin {"idle", "done"}
      PROVE  request[q].replica \in Replicas /\ request[q] \in States
  BY <1>2, StateFacts DEF TypeOK
<1>3. ASSUME NEW q \in Requests, Acquire(q)
      PROVE  TypeOK'
  <2>1. PICK r \in Replicas : r = request[q].replica
    BY <1>2, <1>3 DEF Acquire
  <2>2. request' \in [Requests -> States]
    BY <1>3, <2>1, WithoutRedisType, SendType, BecomesType, NewStates DEF Acquire, TypeOK
  <2>3. wire' \in SUBSET Hits
    BY <1>3, <2>1, SendType DEF Acquire, TypeOK
  <2>4. /\ local' \in [Replicas -> SUBSET Hits]
        /\ \A p \in Replicas : IsFiniteSet(local'[p])
        /\ admitted' \in SUBSET [at : Nat, by : Requests, via : Replicas \cup {"redis"}]
    BY <1>3, <2>1, WithoutRedisType DEF Acquire, TypeOK
  <2>5. lock' \in [Replicas -> Requests \cup {NoOne}]
    BY <1>3, <2>1 DEF Acquire, TypeOK
  <2>6. QED
    BY <1>3, <2>2, <2>3, <2>4, <2>5 DEF Acquire, TypeOK, settings
<1>4. ASSUME NEW q \in Requests, Connect(q)
      PROVE  TypeOK'
  <2>1. PICK r \in Replicas : r = request[q].replica
    BY <1>2, <1>4 DEF Connect
  <2>2. Send(q, r, q)
    BY <1>4, <2>1 DEF Connect
  <2>3. request' \in [Requests -> States] /\ wire' \in SUBSET Hits
    BY <2>2, SendType
  <2>4. /\ lock' \in [Replicas -> Requests \cup {NoOne}]
        /\ client' \in [Replicas -> Requests \cup {NoOne}]
    BY <1>4, <2>1 DEF Connect, TypeOK
  <2>5. QED
    BY <1>4, <2>3, <2>4 DEF Connect, TypeOK, settings
<1>5. ASSUME NEW q \in Requests, ConnectFails(q)
      PROVE  TypeOK'
  <2>1. PICK r \in Replicas : r = request[q].replica
    BY <1>2, <1>5 DEF ConnectFails
  <2>2. Discard(q, r, q)
    BY <1>5, <2>1 DEF ConnectFails
  <2>3. failed' \in [Replicas -> Nat \cup {Unset}]
    BY <1>5, <2>1 DEF ConnectFails, TypeOK
  <2>4. QED
    BY <1>5, <2>2, <2>3, DiscardType DEF ConnectFails, TypeOK, settings, redis
<1>6. ASSUME NEW q \in Requests, Close(q)
      PROVE  TypeOK'
  <2>1. PICK r \in Replicas : r = request[q].replica
    BY <1>2, <1>6 DEF Close
  <2>2. WithoutRedis(q, r) /\ lock' = [lock EXCEPT ![r] = Unlocked(q, r)]
    BY <1>6, <2>1 DEF Close
  <2>3. lock' \in [Replicas -> Requests \cup {NoOne}]
    BY <2>2 DEF Unlocked, TypeOK
  <2>4. UNCHANGED <<now, settings, redis, client, retryAfter, failed>>
    BY <1>6 DEF Close
  <2>5. QED
    BY <2>2, <2>3, <2>4, WithoutRedisType DEF TypeOK, settings, redis
<1>7. ASSUME NEW m \in wire, Execute(m)
      PROVE  TypeOK'
  <2>1. request' \in [Requests -> States]
    BY <1>7, ExecuteEffect DEF TypeOK
  <2>2. hits' \in SUBSET Hits /\ IsFiniteSet(hits') /\ wire' = wire \ {m}
        /\ UNCHANGED <<now, failClosed, offset, local, client, lock, retryAfter, admitted, failed>>
    BY <1>7, ExecuteEffect
  <2>3. QED
    BY <2>1, <2>2 DEF TypeOK
<1>8. ASSUME NEW q \in Requests, Remove(q)
      PROVE  TypeOK'
  <2>1. PICK s \in States : s = [request[q] EXCEPT !.pc = "removed"]
    <3>1. request[q] \in Asking
      BY <1>2, <1>8, AskingStates DEF Remove
    <3>2. QED
      BY <3>1 DEF Asking, States
  <2>2. request' = [request EXCEPT ![q] = s]
    BY <1>8, <2>1 DEF Remove, TypeOK
  <2>3. hits' \in SUBSET hits
    BY <1>8 DEF Remove
  <2>4. hits' \in SUBSET Hits /\ IsFiniteSet(hits')
    BY <2>3, FS_Subset DEF TypeOK
  <2>5. QED
    BY <1>8, <2>2, <2>4 DEF Remove, TypeOK, settings
<1>9. ASSUME NEW q \in Requests, Return(q)
      PROVE  TypeOK'
  <2>1. PICK r \in Replicas : r = request[q].replica
    BY <1>2, <1>9 DEF Return
  <2>2. request' \in [Requests -> States]
    <3>1. \A answer \in {"allowed", "denied"} : Done(answer) \in States
      BY DEF Done, States, TypeOK
    <3>2. QED
      BY <1>9, <3>1, BecomesType DEF Return
  <2>3. admitted' \in SUBSET [at : Nat, by : Requests, via : Replicas \cup {"redis"}]
    <3>1. CASE request[q].pc = "removed"
      BY <1>9, <3>1 DEF Return, TypeOK
    <3>2. CASE request[q].pc = "counted"
      <4>1. request[q].ran \in Nat
        BY <3>2 DEF GrantedOnce
      <4>2. QED
        BY <1>9, <3>2, <4>1 DEF Return, TypeOK
    <3>3. QED
      BY <1>9, <3>1, <3>2 DEF Return
  <2>4. /\ retryAfter' \in [Replicas -> Nat]
        /\ failed' \in [Replicas -> Nat \cup {Unset}]
    BY <1>9, <2>1 DEF Return, TypeOK
  <2>5. QED
    BY <1>9, <2>2, <2>3, <2>4 DEF Return, TypeOK, settings, redis
<1>10. ASSUME NEW q \in Requests, GiveUp(q)
       PROVE  TypeOK'
  <2>1. PICK r \in Replicas : r = request[q].replica
    BY <1>2, <1>10 DEF GiveUp
  <2>2. Discard(q, r, request[q].client)
    BY <1>10, <2>1 DEF GiveUp
  <2>3. QED
    BY <1>10, <2>2, DiscardType DEF GiveUp, TypeOK, settings, redis
<1>11. ASSUME Tick
       PROVE  TypeOK'
  BY <1>11 DEF Tick, TypeOK, settings, redis
<1>12. CASE UNCHANGED vars
  BY <1>12 DEF vars, settings, redis, TypeOK
<1>13. QED
  BY <1>1, <1>3, <1>4, <1>5, <1>6, <1>7, <1>8, <1>9, <1>10, <1>11, <1>12 DEF Next
-----------------------------------------------------------------------------
(***************************************************************************)
(* Reconnecting is orderly.                                                *)
(***************************************************************************)

\* A request that does not begin to connect, and leaves the lock of whoever connects
\* and the breaker of every failure as they are.
LEMMA NobodyConnects ==
    ASSUME TypeOK, ConnectionsInOrder, now' = now, failed' = failed,
           NEW q \in Requests, NEW s, s.pc # "pinging", request' = [request EXCEPT ![q] = s],
           \A p \in Requests : p # q /\ request[p].pc = "pinging" =>
              lock'[request[p].replica] = lock[request[p].replica],
           \A r \in Replicas : failed[r] # Unset => retryAfter'[r] >= failed[r] + Cooldown
    PROVE  ConnectionsInOrder'
<1>1. request'[q] = s /\ \A p \in Requests : p # q => request'[p] = request[p]
  BY DEF TypeOK
<1>2. \A p \in Requests : request'[p].pc = "pinging" => p # q /\ request'[p] = request[p]
  BY <1>1
<1>3. \A p \in Requests : request'[p].pc = "pinging" => lock'[request'[p].replica] = p
  BY <1>2 DEF ConnectionsInOrder
<1>4. ASSUME NEW r \in Replicas, failed'[r] # Unset
      PROVE  /\ failed'[r] <= now'
             /\ retryAfter'[r] >= failed'[r] + Cooldown
             /\ \A p \in Requests : request'[p].pc = "pinging" /\ request'[p].replica = r =>
                  request'[p].since >= failed'[r] + Cooldown
  BY <1>2, <1>4 DEF ConnectionsInOrder
<1>5. QED
  BY <1>3, <1>4 DEF ConnectionsInOrder

\* Every step keeps the connections in order: the cooldown is set before the lock is given up.
LEMMA ConnectionsStep ==
    ASSUME TypeOK, ConnectionsInOrder, [Next]_vars
    PROVE  ConnectionsInOrder'
<1>1. /\ \A r \in Replicas : failed[r] # Unset => retryAfter[r] >= failed[r] + Cooldown
      /\ now \in Nat /\ Cooldown \in Nat
      /\ failed \in [Replicas -> Nat \cup {Unset}] /\ retryAfter \in [Replicas -> Nat]
      /\ lock \in [Replicas -> Requests \cup {NoOne}]
      /\ request \in [Requests -> States]
  BY LimitsArePositive DEF TypeOK, ConnectionsInOrder
<1>2. ASSUME NEW q \in Requests, request[q].pc \notin {"idle", "done"}
      PROVE  request[q].replica \in Replicas
  BY <1>1, <1>2, StateFacts
<1>3. ASSUME NEW q \in Requests, NEW s, s.pc # "pinging",
             request' = [request EXCEPT ![q] = s], UNCHANGED <<now, failed, lock, retryAfter>>
      PROVE  ConnectionsInOrder'
  BY <1>1, <1>3, NobodyConnects
<1>4. ASSUME NEW q \in Requests, NEW r \in Replicas, WithoutRedis(q, r)
      PROVE  \E s : s.pc # "pinging" /\ request' = [request EXCEPT ![q] = s]
  <2>1. Done("allowed").pc # "pinging" /\ Done("denied").pc # "pinging"
          /\ Done("unavailable").pc # "pinging"
    BY DEF Done
  <2>2. QED
    BY <1>4, <2>1 DEF WithoutRedis, Becomes
<1>5. ASSUME NEW q \in Requests, NEW r, NEW c, Send(q, r, c)
      PROVE  \E s : s.pc # "pinging" /\ request' = [request EXCEPT ![q] = s]
  BY <1>5 DEF Send, Becomes
<1>6. ASSUME NEW q \in Requests, NEW r \in Replicas, Arrive(q, r)
      PROVE  ConnectionsInOrder'
  <2>1. \E s : s.pc # "pinging" /\ request' = [request EXCEPT ![q] = s]
    BY <1>4, <1>5, <1>6 DEF Arrive, Becomes
  <2>2. QED
    BY <1>3, <1>6, <2>1 DEF Arrive
<1>7. ASSUME NEW q \in Requests, Acquire(q)
      PROVE  ConnectionsInOrder'
  <2>1. PICK r \in Replicas : r = request[q].replica
    BY <1>2, <1>7 DEF Acquire
  <2>2. UNCHANGED <<now, failed, retryAfter>> /\ lock[r] = NoOne
    BY <1>7, <2>1 DEF Acquire
  <2>3. CASE StillOpen(r) \/ client[r] # NoOne
    <3>1. \E s : s.pc # "pinging" /\ request' = [request EXCEPT ![q] = s]
      BY <1>4, <1>5, <1>7, <2>1, <2>3 DEF Acquire
    <3>2. QED
      BY <1>3, <1>7, <2>1, <2>2, <2>3, <3>1 DEF Acquire
  <2>4. CASE ~StillOpen(r) /\ client[r] = NoOne
    <3>1. PICK s : s = [pc |-> "pinging", since |-> now, replica |-> r]
      OBVIOUS
    <3>2. s.since = now /\ s.replica = r
      BY <3>1
    <3>3. request' = [request EXCEPT ![q] = s] /\ lock' = [lock EXCEPT ![r] = q]
      BY <1>7, <2>1, <2>4, <3>1 DEF Acquire, Becomes
    <3>4. /\ request'[q] = s /\ \A p \in Requests : p # q => request'[p] = request[p]
          /\ lock'[r] = q /\ \A p \in Replicas : p # r => lock'[p] = lock[p]
      BY <1>1, <3>3
    <3>5. now >= retryAfter[r]
      BY <1>1, <2>4 DEF StillOpen, IsOpen
    <3>6. \A p \in Requests : request[p].pc = "pinging" =>
             request[p].replica # r /\ request[p].replica \in Replicas
      BY <1>2, <2>2, LimitsArePositive DEF ConnectionsInOrder
    <3>7. \A p \in Requests : request'[p].pc = "pinging" => lock'[request'[p].replica] = p
      BY <3>2, <3>4, <3>6 DEF ConnectionsInOrder
    <3>8. failed[r] # Unset => now >= failed[r] + Cooldown
      BY <1>1, <3>5
    <3>9. ASSUME NEW p \in Requests, NEW t \in Replicas, failed[t] # Unset,
                 request'[p].pc = "pinging", request'[p].replica = t
          PROVE  request'[p].since >= failed[t] + Cooldown
      <4>1. CASE p = q
        BY <3>2, <3>4, <3>8, <3>9, <4>1
      <4>2. CASE p # q
        BY <3>4, <3>9, <4>2 DEF ConnectionsInOrder
      <4>3. QED
        BY <4>1, <4>2
    <3>10. QED
      BY <2>2, <3>7, <3>9 DEF ConnectionsInOrder
  <2>5. QED
    BY <2>3, <2>4
<1>8. ASSUME NEW q \in Requests, Connect(q)
      PROVE  ConnectionsInOrder'
  <2>1. PICK r \in Replicas : r = request[q].replica
    BY <1>2, <1>8 DEF Connect
  <2>2. lock[r] = q /\ lock' = [lock EXCEPT ![r] = NoOne] /\ UNCHANGED <<now, failed, retryAfter>>
    BY <1>8, <2>1 DEF Connect, ConnectionsInOrder
  <2>3. PICK s : s.pc # "pinging" /\ request' = [request EXCEPT ![q] = s]
    BY <1>5, <1>8, <2>1 DEF Connect
  <2>4. \A p \in Requests : p # q /\ request[p].pc = "pinging" =>
           lock'[request[p].replica] = lock[request[p].replica]
    BY <1>1, <1>2, <2>2 DEF ConnectionsInOrder
  <2>5. QED
    BY <1>1, <2>2, <2>3, <2>4, NobodyConnects
<1>9. ASSUME NEW q \in Requests, NEW r \in Replicas, NEW c, Discard(q, r, c)
      PROVE  /\ \E s : s.pc # "pinging" /\ request' = [request EXCEPT ![q] = s]
             /\ retryAfter' = [retryAfter EXCEPT ![r] = now + Cooldown]
  BY <1>9 DEF Discard, Trip, Becomes
<1>10. ASSUME NEW q \in Requests, ConnectFails(q)
       PROVE  ConnectionsInOrder'
  <2>1. PICK r \in Replicas : r = request[q].replica
    BY <1>2, <1>10 DEF ConnectFails
  <2>2. /\ lock[r] = q /\ lock' = lock /\ now' = now
        /\ failed' = [failed EXCEPT ![r] = now]
        /\ retryAfter' = [retryAfter EXCEPT ![r] = now + Cooldown]
    BY <1>9, <1>10, <2>1 DEF ConnectFails, ConnectionsInOrder
  <2>3. PICK s : s.pc # "pinging" /\ request' = [request EXCEPT ![q] = s]
    BY <1>9, <1>10, <2>1 DEF ConnectFails
  <2>4. request'[q] = s /\ \A p \in Requests : p # q => request'[p] = request[p]
    BY <1>1, <2>3
  <2>5. /\ failed'[r] = now /\ retryAfter'[r] = now + Cooldown
        /\ \A t \in Replicas : t # r => failed'[t] = failed[t] /\ retryAfter'[t] = retryAfter[t]
    BY <1>1, <2>2
  <2>6. \A p \in Requests : request'[p].pc = "pinging" => p # q /\ request[p].replica # r
    BY <2>2, <2>3, <2>4 DEF ConnectionsInOrder
  <2>7. \A p \in Requests : request'[p].pc = "pinging" => lock'[request'[p].replica] = p
    BY <2>2, <2>4, <2>6 DEF ConnectionsInOrder
  <2>8. ASSUME NEW t \in Replicas, failed'[t] # Unset
        PROVE  /\ failed'[t] <= now'
               /\ retryAfter'[t] >= failed'[t] + Cooldown
               /\ \A p \in Requests : request'[p].pc = "pinging" /\ request'[p].replica = t =>
                    request'[p].since >= failed'[t] + Cooldown
    <3>1. CASE t = r
      BY <1>1, <2>2, <2>4, <2>5, <2>6, <3>1
    <3>2. CASE t # r
      BY <2>2, <2>4, <2>5, <2>6, <2>8, <3>2 DEF ConnectionsInOrder
    <3>3. QED
      BY <3>1, <3>2
  <2>9. QED
    BY <2>7, <2>8 DEF ConnectionsInOrder
<1>11. ASSUME NEW q \in Requests, Close(q)
       PROVE  ConnectionsInOrder'
  <2>1. PICK r \in Replicas : r = request[q].replica
    BY <1>2, <1>11 DEF Close
  <2>2. /\ lock' = [lock EXCEPT ![r] = Unlocked(q, r)] /\ UNCHANGED <<now, failed, retryAfter>>
        /\ WithoutRedis(q, r) /\ request[q].pc = "closing"
    BY <1>11, <2>1 DEF Close
  <2>3. PICK s : s.pc # "pinging" /\ request' = [request EXCEPT ![q] = s]
    BY <1>4, <2>2
  <2>4. \A p \in Requests : p # q /\ request[p].pc = "pinging" =>
           lock'[request[p].replica] = lock[request[p].replica]
    BY <1>1, <1>2, <2>2 DEF ConnectionsInOrder, Unlocked
  <2>5. QED
    BY <1>1, <2>2, <2>3, <2>4, NobodyConnects
<1>12. ASSUME NEW m \in wire, Execute(m)
       PROVE  ConnectionsInOrder'
  <2>1. UNCHANGED <<now, failed, lock, retryAfter>> /\ m.by \in Requests
    BY <1>12, ExecuteEffect
  <2>2. CASE request' = request
    BY <2>1, <2>2 DEF ConnectionsInOrder
  <2>3. CASE request' # request
    <3>1. PICK s \in States : /\ request' = [request EXCEPT ![m.by] = s]
                              /\ s.pc \in {"removing", "counted"}
      BY <1>12, <2>3, ExecuteEffect
    <3>2. QED
      BY <1>3, <2>1, <3>1
  <2>4. QED
    BY <2>2, <2>3
<1>13. ASSUME NEW q \in Requests, Remove(q)
       PROVE  ConnectionsInOrder'
  <2>1. PICK s : s = [request[q] EXCEPT !.pc = "removed"]
    OBVIOUS
  <2>2. s.pc # "pinging"
    <3>1. request[q] \in Asking
      BY <1>1, <1>13, AskingStates DEF Remove
    <3>2. QED
      BY <2>1, <3>1 DEF Asking
  <2>3. request' = [request EXCEPT ![q] = s] /\ UNCHANGED <<now, failed, lock, retryAfter>>
    BY <1>1, <1>13, <2>1 DEF Remove
  <2>4. QED
    BY <1>3, <2>2, <2>3
<1>14. ASSUME NEW q \in Requests, Return(q)
       PROVE  ConnectionsInOrder'
  <2>1. PICK r \in Replicas : r = request[q].replica
    BY <1>2, <1>14 DEF Return
  <2>2. /\ lock' = lock /\ now' = now
        /\ failed' = [failed EXCEPT ![r] = Unset]
        /\ retryAfter' = [retryAfter EXCEPT ![r] = 0]
    BY <1>14, <2>1 DEF Return
  <2>3. PICK s : s.pc # "pinging" /\ request' = [request EXCEPT ![q] = s]
    BY <1>14 DEF Return, Becomes, Done
  <2>4. request'[q] = s /\ \A p \in Requests : p # q => request'[p] = request[p]
    BY <1>1, <2>3
  <2>5. /\ failed'[r] = Unset
        /\ \A t \in Replicas : t # r => failed'[t] = failed[t] /\ retryAfter'[t] = retryAfter[t]
    BY <1>1, <2>2
  <2>6. \A p \in Requests : request'[p].pc = "pinging" => request'[p] = request[p]
    BY <2>3, <2>4
  <2>7. QED
    BY <2>2, <2>5, <2>6 DEF ConnectionsInOrder
<1>15. ASSUME NEW q \in Requests, GiveUp(q)
       PROVE  ConnectionsInOrder'
  <2>1. PICK r \in Replicas : r = request[q].replica
    BY <1>2, <1>15 DEF GiveUp
  <2>2. Discard(q, r, request[q].client) /\ UNCHANGED <<now, failed, lock>>
    BY <1>15, <2>1 DEF GiveUp
  <2>3. /\ \E s : s.pc # "pinging" /\ request' = [request EXCEPT ![q] = s]
        /\ retryAfter' = [retryAfter EXCEPT ![r] = now + Cooldown]
    BY <1>9, <2>2
  <2>4. \A t \in Replicas : failed[t] # Unset => retryAfter'[t] >= failed[t] + Cooldown
    BY <1>1, <2>3 DEF ConnectionsInOrder
  <2>5. QED
    BY <2>2, <2>3, <2>4, NobodyConnects
<1>16. ASSUME Tick
       PROVE  ConnectionsInOrder'
  BY <1>1, <1>16 DEF Tick, ConnectionsInOrder
<1>17. CASE UNCHANGED vars
  BY <1>17 DEF vars, ConnectionsInOrder
<1>18. QED
  BY <1>6, <1>7, <1>8, <1>10, <1>11, <1>12, <1>13, <1>14, <1>15, <1>16, <1>17 DEF Next
-----------------------------------------------------------------------------
(***************************************************************************)
(* The limits hold.                                                        *)
(***************************************************************************)

\* A window that has an entry for each of some admissions has as many entries.
LEMMA EachHasAnEntry ==
    ASSUME NEW S, NEW K, IsFiniteSet(K),
           \A a \in S : \E h \in K : h.by = a.by,
           \A a, b \in S : a.by = b.by => a = b
    PROVE  IsFiniteSet(S) /\ Cardinality(S) <= Cardinality(K)
<1>1. PICK f : f = [a \in S |-> CHOOSE h \in K : h.by = a.by]
  OBVIOUS
<1>2. \A a \in S : f[a] \in K /\ f[a].by = a.by
  BY <1>1
<1>3. f \in [S -> K]
  BY <1>1, <1>2
<1>4. f \in Injection(S, K)
  BY <1>2, <1>3 DEF Injection, IsInjective
<1>5. QED
  BY <1>4, FS_Injection

\* A request was granted once, at a time that is over.
LEMMA GrantedFacts ==
    ASSUME TypeOK, GrantedOnce
    PROVE  /\ \A g \in Granted : /\ g.by \in Requests /\ g.at \in Nat /\ g.at <= now
                                 /\ request[g.by].pc \in {"counted", "done"}
           /\ \A g, h \in Granted : g.by = h.by => g = h
           /\ \A g \in Granted : request[g.by].pc = "done" => g \in admitted /\ g.via = "redis"
           /\ \A g \in Granted : request[g.by].pc = "counted" =>
                 g = [at |-> request[g.by].ran, by |-> g.by, via |-> "redis"]
<1>1. ASSUME NEW g \in Granted
      PROVE  \/ /\ g \in admitted /\ g.via = "redis"
                /\ g.by \in Requests /\ g.at \in Nat /\ g.at <= now
                /\ request[g.by].pc = "done"
             \/ /\ g.by \in Requests /\ g.at \in Nat /\ g.at <= now
                /\ request[g.by].pc = "counted"
                /\ g = [at |-> request[g.by].ran, by |-> g.by, via |-> "redis"]
  <2>1. CASE g \in admitted
    BY <2>1 DEF TypeOK, GrantedOnce, Granted
  <2>2. CASE g \notin admitted
    <3>1. PICK q \in Requests : request[q].pc = "counted"
                                  /\ g = [at |-> request[q].ran, by |-> q, via |-> "redis"]
      BY <2>2 DEF Granted
    <3>2. request[q].ran \in Nat /\ request[q].ran <= now
      BY <3>1 DEF GrantedOnce, TypeOK
    <3>3. QED
      BY <3>1, <3>2
  <2>3. QED
    BY <2>1, <2>2
<1>2. ASSUME NEW g \in Granted, NEW h \in Granted, g.by = h.by
      PROVE  g = h
  <2>1. CASE request[g.by].pc = "done"
    BY <1>1, <1>2, <2>1 DEF GrantedOnce
  <2>2. CASE request[g.by].pc = "counted"
    <3>1. g = [at |-> request[g.by].ran, by |-> g.by, via |-> "redis"]
      BY <1>1, <2>2
    <3>2. h = [at |-> request[h.by].ran, by |-> h.by, via |-> "redis"]
      BY <1>1, <1>2, <2>2
    <3>3. QED
      BY <1>2, <3>1, <3>2
  <2>3. QED
    BY <1>1, <2>1, <2>2
<1>3. QED
  BY <1>1, <1>2

\* Fewer hits than a number that is within the limit are within it.
LEMMA FewerStillAtMost ==
    ASSUME NEW S, AtMost(S), NEW T \in SUBSET S
    PROVE  AtMost(T)
<1>1. IsFiniteSet(T) /\ Cardinality(T) <= Cardinality(S)
  BY FS_Subset DEF AtMost
<1>2. Cardinality(T) \in Nat /\ Cardinality(S) \in Nat /\ MaxEvents \in Nat
  BY <1>1, FS_CardinalityType, LimitsArePositive DEF AtMost
<1>3. QED
  BY <1>1, <1>2 DEF AtMost

\* A step that admits nobody and keeps the entry of everybody who was let through.
LEMMA NobodyAdmitted ==
    ASSUME IInv, TypeOK', now <= now', failClosed' = failClosed, local' = local,
           Granted' \in SUBSET Granted,
           {a \in admitted' : a.via # "redis"} = {a \in admitted : a.via # "redis"},
           \A g \in Granted' : \A h \in hits : h.by = g.by => h \in hits'
    PROVE  RedisRemembers' /\ ReplicaRemembers' /\ LimitsKept'
<1>1. /\ now \in Nat /\ now' \in Nat /\ Window \in Nat /\ Blur \in Nat /\ Timeout \in Nat
      /\ \A g \in Granted : g.at \in Nat
  BY LimitsArePositive, GrantedFacts DEF IInv, TypeOK, Blur
<1>2. ASSUME NEW g \in Granted', g.at > now' - (Window - Blur)
      PROVE  \E h \in hits' : h.by = g.by /\ h.at >= g.at - Timeout
  <2>1. g \in Granted
    OBVIOUS
  <2>2. g.at > now - (Window - Blur)
    BY <1>1, <1>2, <2>1
  <2>3. QED
    BY <2>1, <2>2 DEF IInv, RedisRemembers
<1>3. RedisRemembers'
  BY <1>2 DEF RedisRemembers, Blur
<1>4. ReplicaRemembers'
  <2>1. ASSUME NEW a \in admitted', a.via # "redis"
        PROVE  /\ ~failClosed'
               /\ a.at >= now' - Window => [by |-> a.by, at |-> a.at] \in local'[a.via]
    <3>1. a \in admitted
      BY <2>1
    <3>2. a.at \in Nat
      BY <3>1 DEF IInv, TypeOK
    <3>3. a.at >= now' - Window => a.at >= now - Window
      BY <1>1, <3>2
    <3>4. QED
      BY <2>1, <3>1, <3>3 DEF IInv, ReplicaRemembers
  <2>2. QED
    BY <2>1 DEF ReplicaRemembers
<1>5. LimitsKept'
  <2>1. ASSUME NEW t \in Int
        PROVE  AtMost(AdmittedIn(Granted', t, t + Window - Blur - 1))
    <3>1. AdmittedIn(Granted', t, t + Window - Blur - 1)
            \in SUBSET AdmittedIn(Granted, t, t + Window - Blur - 1)
      BY DEF AdmittedIn
    <3>2. QED
      BY <3>1, FewerStillAtMost DEF IInv, LimitsKept
  <2>2. ASSUME NEW r \in Replicas
        PROVE  {a \in admitted' : a.via = r} = {a \in admitted : a.via = r}
    BY RedisIsNoReplica
  <2>3. QED
    BY <2>1, <2>2 DEF IInv, LimitsKept, Blur, AtMost, AdmittedIn
<1>6. QED
  BY <1>3, <1>4, <1>5
\* A request goes on without being let through.
LEMMA PassiveStep ==
    ASSUME IInv, TypeOK', NEW q \in Requests, NEW s \in States,
           request' = [request EXCEPT ![q] = s],
           request[q].pc # "done", s.pc \notin {"idle", "counted", "done"},
           s.pc \in {"queued", "pinging", "sent"} =>
             request[q].pc \in {"idle", "queued", "pinging"},
           s.pc = "sent" => s.since = now,
           UNCHANGED <<now, failClosed, local, admitted>>,
           \A h \in hits : h.by # q => h \in hits',
           \A m \in wire' : \/ m \in wire
                            \/ /\ s.pc = "sent" /\ m.by = q
                               /\ m.at >= now /\ m.at <= now + Skew
    PROVE  SentOnTime' /\ GrantedOnce' /\ RedisRemembers' /\ ReplicaRemembers' /\ LimitsKept'
<1>1. /\ now \in Nat /\ Timeout \in Nat /\ request \in [Requests -> States]
      /\ \A m \in wire : m.by \in Requests /\ m.at \in Nat
  BY LimitsArePositive DEF IInv, TypeOK, Hits
<1>2. request'[q] = s /\ \A p \in Requests : p # q => request'[p] = request[p]
  BY <1>1
<1>3. \A a \in admitted : a.by \in Requests /\ a.by # q
  BY DEF IInv, TypeOK, GrantedOnce
<1>4. SentOnTime'
  <2>1. ASSUME NEW m \in wire'
        PROVE  /\ m.at <= now + Skew
               /\ request'[m.by].pc \notin {"idle", "queued", "pinging"}
               /\ request'[m.by].pc = "sent" => m.at >= request'[m.by].since
    <3>1. CASE m \in wire /\ m.by # q
      BY <1>1, <1>2, <3>1 DEF IInv, SentOnTime
    <3>2. CASE m \in wire /\ m.by = q
      <4>1. /\ m.at <= now + Skew
            /\ request[q].pc \notin {"idle", "queued", "pinging"}
        BY <3>2 DEF IInv, SentOnTime
      <4>2. QED
        BY <1>2, <3>2, <4>1
    <3>3. CASE m \notin wire
      BY <1>2, <3>3
    <3>4. QED
      BY <3>1, <3>2, <3>3
  <2>2. ASSUME NEW p \in Requests, request'[p].pc = "sent"
        PROVE  now <= request'[p].since + Timeout
    <3>1. CASE p = q
      BY <1>1, <1>2, <2>2, <3>1
    <3>2. CASE p # q
      BY <1>2, <2>2, <3>2 DEF IInv, SentOnTime
    <3>3. QED
      BY <3>1, <3>2
  <2>3. QED
    BY <2>1, <2>2 DEF SentOnTime
<1>5. GrantedOnce'
  <2>1. \A a \in admitted' : a.at <= now' /\ request'[a.by].pc = "done"
    BY <1>2, <1>3 DEF IInv, GrantedOnce
  <2>2. \A p \in Requests : request'[p].pc = "counted" => request'[p].ran \in 0..now'
    BY <1>2 DEF IInv, GrantedOnce
  <2>3. QED
    BY <2>1, <2>2 DEF IInv, GrantedOnce
<1>6. \A g \in Granted' : g \in Granted /\ g.by # q
  BY <1>2, <1>3 DEF Granted
<1>7. QED
  BY <1>1, <1>4, <1>5, <1>6, NobodyAdmitted

\* No hit, no request and no connection yet.
LEMMA IInvInit ==
    ASSUME Init
    PROVE  IInv
<1>1. TypeOK
  BY LimitsArePositive, FS_EmptySet DEF Init, TypeOK, States, Hits
<1>2. ConnectionsInOrder /\ SentOnTime /\ GrantedOnce
  BY DEF Init, ConnectionsInOrder, SentOnTime, GrantedOnce, Idle
<1>3. Granted = {} /\ admitted = {}
  BY DEF Init, Granted, Idle
<1>4. RedisRemembers /\ ReplicaRemembers
  BY <1>3 DEF RedisRemembers, ReplicaRemembers
<1>5. AtMost({})
  BY FS_EmptySet, LimitsArePositive DEF AtMost
<1>6. \A A, from, to : A = {} => AdmittedIn(A, from, to) = {}
  BY DEF AdmittedIn
<1>7. LimitsKept
  <2>1. \A from, to : AtMost(AdmittedIn(Granted, from, to))
    BY <1>3, <1>5, <1>6
  <2>2. ASSUME NEW r \in Replicas, NEW from, NEW to
        PROVE  AtMost(AdmittedIn({a \in admitted : a.via = r}, from, to))
    <3>1. {a \in admitted : a.via = r} = {}
      BY <1>3
    <3>2. QED
      BY <1>5, <1>6, <3>1
  <2>3. QED
    BY <2>1, <2>2 DEF LimitsKept
<1>8. QED
  BY <1>1, <1>2, <1>4, <1>7 DEF IInv
\* A replica decides by its own window.
LEMMA LocalStep ==
    ASSUME IInv, TypeOK', NEW q \in Requests, NEW r \in Replicas, WithoutRedis(q, r),
           request[q].pc \in {"idle", "queued", "closing"},
           UNCHANGED <<now, failClosed, hits, wire>>
    PROVE  SentOnTime' /\ GrantedOnce' /\ RedisRemembers' /\ ReplicaRemembers' /\ LimitsKept'
<1> DEFINE new == [at |-> now, by |-> q, via |-> r]
           hit == [by |-> q, at |-> now]
           kept == KeptLocally(r)
<1>1. /\ now \in Nat /\ Timeout \in Nat /\ Window \in Nat /\ MaxEvents \in Nat
      /\ request \in [Requests -> States] /\ local \in [Replicas -> SUBSET Hits]
      /\ \A m \in wire : m.by \in Requests /\ m.at \in Nat
      /\ \A a \in admitted : a.at \in Nat /\ a.by \in Requests
  BY LimitsArePositive DEF IInv, TypeOK, Hits
<1>2. PICK s \in States : s.pc = "done" /\ request' = [request EXCEPT ![q] = s]
  BY WithoutRedisEffect DEF IInv
<1>3. request'[q] = s /\ \A p \in Requests : p # q => request'[p] = request[p]
  BY <1>1, <1>2
<1>4. \A a \in admitted : a.by # q
  BY DEF IInv, GrantedOnce
<1>5. \/ local' = local /\ admitted' = admitted
      \/ local' = [local EXCEPT ![r] = kept] /\ admitted' = admitted
      \/ /\ ~failClosed
         /\ Cardinality(kept) < MaxEvents
         /\ local' = [local EXCEPT ![r] = kept \cup {hit}]
         /\ admitted' = admitted \cup {new}
  BY WithoutRedisEffect DEF IInv
<1>6. SentOnTime'
  <2>1. \A m \in wire' : /\ m.at <= now + Skew
                         /\ request'[m.by].pc \notin {"idle", "queued", "pinging"}
                         /\ request'[m.by].pc = "sent" => m.at >= request'[m.by].since
    BY <1>1, <1>2, <1>3 DEF IInv, SentOnTime
  <2>2. \A p \in Requests : request'[p].pc = "sent" => now <= request'[p].since + Timeout
    BY <1>2, <1>3 DEF IInv, SentOnTime
  <2>3. QED
    BY <2>1, <2>2 DEF SentOnTime
<1>7. \A a \in admitted' : a \in admitted \/ a = new
  BY <1>5
<1>8. GrantedOnce'
  <2>1. \A a \in admitted' : a.at <= now /\ request'[a.by].pc = "done"
    BY <1>1, <1>2, <1>3, <1>4, <1>7 DEF IInv, GrantedOnce
  <2>2. \A a, b \in admitted' : a.by = b.by => a = b
    BY <1>4, <1>7 DEF IInv, GrantedOnce
  <2>3. \A p \in Requests : request'[p].pc = "counted" => request'[p].ran \in 0..now
    BY <1>2, <1>3 DEF IInv, GrantedOnce
  <2>4. QED
    BY <2>1, <2>2, <2>3 DEF GrantedOnce
<1>9. Granted' = Granted
  <2>1. {a \in admitted' : a.via = "redis"} = {a \in admitted : a.via = "redis"}
    BY <1>5, RedisIsNoReplica
  <2>2. \A p \in Requests : request'[p].pc = "counted" <=> request[p].pc = "counted"
    BY <1>2, <1>3
  <2>3. \A p \in Requests : request'[p].pc = "counted" => request'[p].ran = request[p].ran
    BY <1>2, <1>3
  <2>4. QED
    BY <2>1, <2>2, <2>3 DEF Granted
<1>10. RedisRemembers'
  BY <1>9 DEF IInv, RedisRemembers, Blur
<1>11. \A a \in admitted : a.via # "redis" /\ a.at >= now - Window =>
          [by |-> a.by, at |-> a.at] \in local'[a.via]
  <2>1. ASSUME NEW a \in admitted, a.via # "redis", a.at >= now - Window
        PROVE  [by |-> a.by, at |-> a.at] \in local'[a.via]
    <3>1. [by |-> a.by, at |-> a.at] \in local[a.via] /\ a.via \in Replicas
      BY <2>1 DEF IInv, TypeOK, ReplicaRemembers
    <3>2. CASE a.via = r
      <4>1. [by |-> a.by, at |-> a.at] \in kept
        BY <2>1, <3>1, <3>2 DEF KeptLocally
      <4>2. QED
        BY <1>1, <1>5, <3>1, <3>2, <4>1
    <3>3. CASE a.via # r
      BY <1>1, <1>5, <3>1, <3>3
    <3>4. QED
      BY <3>2, <3>3
  <2>2. QED
    BY <2>1
<1>12. ReplicaRemembers'
  <2>1. ASSUME NEW a \in admitted', a.via # "redis"
        PROVE  /\ ~failClosed
               /\ a.at >= now - Window => [by |-> a.by, at |-> a.at] \in local'[a.via]
    <3>1. CASE a \in admitted
      BY <1>11, <2>1, <3>1 DEF IInv, ReplicaRemembers
    <3>2. CASE a \notin admitted
      BY <1>1, <1>5, <3>2
    <3>3. QED
      BY <3>1, <3>2
  <2>2. QED
    BY <2>1 DEF ReplicaRemembers
<1>13. ASSUME NEW t \in Int, admitted' = admitted \cup {new}, Cardinality(kept) < MaxEvents,
              now \in t..t + Window
       PROVE  AtMost(AdmittedIn({a \in admitted' : a.via = r}, t, t + Window))
  <2> DEFINE S == AdmittedIn({a \in admitted' : a.via = r}, t, t + Window)
             K == kept \cup {hit}
  <2>1. IsFiniteSet(kept)
    <3>1. kept \in SUBSET local[r] /\ IsFiniteSet(local[r])
      BY DEF IInv, TypeOK, KeptLocally
    <3>2. QED
      BY <3>1, FS_Subset
  <2>2. IsFiniteSet(K) /\ Cardinality(K) <= MaxEvents
    <3>1. IsFiniteSet(K) /\ Cardinality(K) \in {Cardinality(kept), Cardinality(kept) + 1}
      BY <2>1, FS_AddElement
    <3>2. Cardinality(kept) \in Nat
      BY <2>1, FS_CardinalityType
    <3>3. QED
      BY <1>1, <1>13, <3>1, <3>2
  <2>3. \A a \in S : \E h \in K : h.by = a.by
    <3>1. ASSUME NEW a \in S, a # new
          PROVE  [by |-> a.by, at |-> a.at] \in kept
      <4>1. a \in admitted /\ a.via = r /\ a.at >= t /\ a.at \in Nat
        BY <1>1, <1>13, <3>1 DEF AdmittedIn
      <4>2. a.at >= now - Window
        BY <1>1, <1>13, <4>1
      <4>3. [by |-> a.by, at |-> a.at] \in local[r]
        BY <4>1, <4>2, RedisIsNoReplica DEF IInv, ReplicaRemembers
      <4>4. QED
        BY <4>2, <4>3 DEF KeptLocally
    <3>2. \A a \in S : a # new => [by |-> a.by, at |-> a.at] \in K
      BY <3>1
    <3>3. hit \in K /\ hit.by = new.by
      OBVIOUS
    <3>4. ASSUME NEW a \in S
          PROVE  \E h \in K : h.by = a.by
      <4>1. CASE a = new
        BY <3>3, <4>1
      <4>2. CASE a # new
        <5>1. [by |-> a.by, at |-> a.at] \in K /\ [by |-> a.by, at |-> a.at].by = a.by
          BY <3>2, <4>2
        <5>2. QED
          BY <5>1
      <4>3. QED
        BY <4>1, <4>2
    <3>5. QED
      BY <3>4
  <2>4. \A a, b \in S : a.by = b.by => a = b
    BY <1>8 DEF GrantedOnce, AdmittedIn
  <2>5. IsFiniteSet(S) /\ Cardinality(S) <= Cardinality(K)
    <3>1. PICK T : T = S
      OBVIOUS
    <3>2. PICK L : L = K
      OBVIOUS
    <3>3. IsFiniteSet(T) /\ Cardinality(T) <= Cardinality(L)
      BY <2>2, <2>3, <2>4, <3>1, <3>2, EachHasAnEntry
    <3>4. QED
      BY <3>1, <3>2, <3>3
  <2>6. Cardinality(S) \in Nat /\ Cardinality(K) \in Nat
    BY <2>2, <2>5, FS_CardinalityType
  <2>7. QED
    BY <1>1, <2>2, <2>5, <2>6 DEF AtMost
<1>14. ASSUME NEW p \in Replicas, NEW t \in Int
       PROVE  AtMost(AdmittedIn({a \in admitted' : a.via = p}, t, t + Window))
  <2>1. CASE p = r /\ admitted' = admitted \cup {new} /\ now \in t..t + Window
    <3>1. new \notin admitted
      BY <1>4
    <3>2. Cardinality(kept) < MaxEvents
      BY <1>5, <2>1, <3>1
    <3>3. QED
      BY <1>13, <2>1, <3>2
  <2>2. CASE ~(p = r /\ admitted' = admitted \cup {new} /\ now \in t..t + Window)
    <3>1. AdmittedIn({a \in admitted' : a.via = p}, t, t + Window)
            = AdmittedIn({a \in admitted : a.via = p}, t, t + Window)
      BY <1>5, <2>2 DEF AdmittedIn
    <3>2. QED
      BY <3>1 DEF IInv, LimitsKept
  <2>3. QED
    BY <2>1, <2>2
<1>15. LimitsKept'
  <2>1. \A t \in Int : AtMost(AdmittedIn(Granted', t, t + Window - Blur - 1))
    BY <1>9 DEF IInv, LimitsKept
  <2>2. QED
    BY <1>14, <2>1 DEF LimitsKept, Blur, AtMost, AdmittedIn
<1>16. QED
  BY <1>6, <1>8, <1>10, <1>12, <1>15
\* Redis decides by the sorted set.
LEMMA ExecuteStep ==
    ASSUME IInv, TypeOK', NEW m \in wire, Execute(m)
    PROVE  SentOnTime' /\ GrantedOnce' /\ RedisRemembers' /\ ReplicaRemembers' /\ LimitsKept'
<1> DEFINE q == m.by
           kept == (hits \ Outdated(m.at)) \cup {m}
           new == [at |-> now, by |-> q, via |-> "redis"]
<1>1. /\ now \in Nat /\ Timeout \in Nat /\ Window \in Nat /\ Skew \in Nat /\ MaxEvents \in Nat
      /\ request \in [Requests -> States] /\ Blur = Timeout + Skew
      /\ \A h \in hits : h.at \in Nat
      /\ \A h \in wire : h.by \in Requests /\ h.at \in Nat
      /\ \A a \in admitted : a.at \in Nat /\ a.by \in Requests
  BY LimitsArePositive DEF IInv, TypeOK, Hits, Blur
<1>2. /\ q \in Requests /\ hits' = kept /\ IsFiniteSet(kept) /\ wire' = wire \ {m}
      /\ now' = now /\ failClosed' = failClosed /\ local' = local /\ admitted' = admitted
  BY ExecuteEffect DEF IInv
<1>3. \/ request' = request
      \/ /\ request[q].pc = "sent"
         /\ \E s \in States :
              /\ request' = [request EXCEPT ![q] = s]
              /\ \/ s.pc = "removing"
                 \/ /\ s.pc = "counted" /\ s.ran = now
                    /\ Cardinality(kept) <= MaxEvents
  BY ExecuteEffect DEF IInv
<1>4. \/ request' = request
      \/ /\ request[q].pc = "sent"
         /\ \A p \in Requests : p # q => request'[p] = request[p]
         /\ \/ request'[q].pc = "removing"
            \/ /\ request'[q].pc = "counted" /\ request'[q].ran = now
               /\ Cardinality(kept) <= MaxEvents
  BY <1>1, <1>2, <1>3
<1>5. SentOnTime'
  <2>1. \A h \in wire' : /\ h.at <= now + Skew
                         /\ request'[h.by].pc \notin {"idle", "queued", "pinging"}
                         /\ request'[h.by].pc = "sent" => h.at >= request'[h.by].since
    BY <1>1, <1>2, <1>4 DEF IInv, SentOnTime
  <2>2. \A p \in Requests : request'[p].pc = "sent" => now <= request'[p].since + Timeout
    BY <1>4 DEF IInv, SentOnTime
  <2>3. QED
    BY <1>2, <2>1, <2>2 DEF SentOnTime
<1>6. GrantedOnce'
  <2>1. \A a \in admitted' : a.at <= now /\ request'[a.by].pc = "done"
    BY <1>1, <1>2, <1>4 DEF IInv, GrantedOnce
  <2>2. \A p \in Requests : request'[p].pc = "counted" => request'[p].ran \in 0..now
    BY <1>1, <1>4 DEF IInv, GrantedOnce
  <2>3. QED
    BY <1>2, <2>1, <2>2 DEF IInv, GrantedOnce
<1>7. \/ Granted' \in SUBSET Granted
      \/ /\ Granted' \in SUBSET (Granted \cup {new})
         /\ request[q].pc = "sent" /\ Cardinality(kept) <= MaxEvents
  <2>1. CASE request' = request
    BY <1>2, <2>1 DEF Granted
  <2>2. CASE request' # request /\ request'[q].pc = "removing"
    BY <1>2, <1>4, <2>2 DEF Granted
  <2>3. CASE request' # request /\ request'[q].pc = "counted"
    <3>1. \A g \in Granted' : g \in Granted \/ g = new
      BY <1>2, <1>4, <2>3 DEF Granted
    <3>2. QED
      BY <1>4, <2>3, <3>1
  <2>4. QED
    BY <1>4, <2>1, <2>2, <2>3
<1>8. \A g \in Granted : g.by \in Requests /\ g.at \in Nat /\ g.at <= now
  BY GrantedFacts DEF IInv
<1>9. m.at <= now + Skew
  BY DEF IInv, SentOnTime
<1>10. ASSUME NEW g \in Granted, g.at > now - (Window - Blur)
       PROVE  \E h \in kept : h.by = g.by /\ h.at >= g.at - Timeout
  <2>1. PICK h \in hits : h.by = g.by /\ h.at >= g.at - Timeout
    BY <1>10 DEF IInv, RedisRemembers
  <2>2. g.at \in Nat /\ h.at \in Nat /\ m.at \in Nat
    BY <1>1, <1>8
  <2>3. h.at > m.at - Window
    BY <1>1, <1>9, <1>10, <2>1, <2>2
  <2>4. h \notin Outdated(m.at)
    BY <1>1, <2>2, <2>3 DEF Outdated
  <2>5. QED
    BY <2>1, <2>4
<1>11. CASE Granted' \in SUBSET Granted
  <2>1. RedisRemembers'
    BY <1>2, <1>10, <1>11 DEF RedisRemembers, Blur
  <2>2. ReplicaRemembers'
    BY <1>2 DEF IInv, ReplicaRemembers
  <2>3. ASSUME NEW t \in Int
        PROVE  AtMost(AdmittedIn(Granted', t, t + Window - Blur - 1))
    <3>1. AdmittedIn(Granted', t, t + Window - Blur - 1)
            \in SUBSET AdmittedIn(Granted, t, t + Window - Blur - 1)
      BY <1>11 DEF AdmittedIn
    <3>2. QED
      BY <3>1, FewerStillAtMost DEF IInv, LimitsKept
  <2>4. LimitsKept'
    BY <1>2, <2>3 DEF IInv, LimitsKept, Blur, AtMost, AdmittedIn
  <2>5. QED
    BY <1>5, <1>6, <2>1, <2>2, <2>4
<1>12. CASE /\ Granted' \in SUBSET (Granted \cup {new})
            /\ request[q].pc = "sent" /\ Cardinality(kept) <= MaxEvents
  <2>1. m.at >= now - Timeout
    <3>1. m.at >= request[q].since /\ now <= request[q].since + Timeout
      BY <1>2, <1>12 DEF IInv, SentOnTime
    <3>2. request[q].since \in Nat
      BY <1>1, <1>2, StateFacts
    <3>3. QED
      BY <1>1, <3>1, <3>2
  <2>2. RedisRemembers'
    <3>1. ASSUME NEW g \in Granted', g.at > now - (Window - Blur)
          PROVE  \E h \in kept : h.by = g.by /\ h.at >= g.at - Timeout
      <4>1. CASE g = new
        BY <2>1, <4>1
      <4>2. CASE g # new
        BY <1>10, <1>12, <3>1, <4>2
      <4>3. QED
        BY <4>1, <4>2
    <3>2. QED
      BY <1>2, <3>1 DEF RedisRemembers, Blur
  <2>3. ReplicaRemembers'
    BY <1>2 DEF IInv, ReplicaRemembers
  <2>4. ASSUME NEW t \in Int
        PROVE  AtMost(AdmittedIn(Granted', t, t + Window - Blur - 1))
    <3>1. PICK S : S = AdmittedIn(Granted', t, t + Window - Blur - 1)
      OBVIOUS
    <3>2. CASE new \in S
      <4>1. t <= now /\ now <= t + Window - Blur - 1
        BY <1>1, <3>1, <3>2 DEF AdmittedIn
      <4>2. ASSUME NEW g \in S
            PROVE  \E h \in kept : h.by = g.by
        <5>1. CASE g = new
          BY <5>1
        <5>2. CASE g # new
          <6>1. g \in Granted /\ g.at >= t
            BY <1>8, <1>12, <3>1, <5>2 DEF AdmittedIn
          <6>2. g.at > now - (Window - Blur)
            BY <1>1, <1>8, <4>1, <6>1
          <6>3. QED
            BY <1>10, <6>1, <6>2
        <5>3. QED
          BY <5>1, <5>2
      <4>3. \A a, b \in Granted : a.by = b.by => a = b
        BY GrantedFacts DEF IInv
      <4>4. \A a \in Granted : a.by # q
        BY <1>12, GrantedFacts DEF IInv
      <4>5. \A a, b \in S : a.by = b.by => a = b
        <5>1. \A a \in S : a \in Granted \/ a = new
          BY <1>12, <3>1 DEF AdmittedIn
        <5>2. QED
          BY <4>3, <4>4, <5>1
      <4>6. PICK K : K = kept
        OBVIOUS
      <4>7. IsFiniteSet(S) /\ Cardinality(S) <= Cardinality(K)
        BY <1>2, <4>2, <4>5, <4>6, EachHasAnEntry
      <4>8. Cardinality(S) \in Nat /\ Cardinality(K) \in Nat
        BY <1>2, <4>6, <4>7, FS_CardinalityType
      <4>9. QED
        BY <1>1, <1>12, <3>1, <4>6, <4>7, <4>8 DEF AtMost
    <3>3. CASE new \notin S
      <4>1. S \in SUBSET AdmittedIn(Granted, t, t + Window - Blur - 1)
        BY <1>12, <3>1, <3>3 DEF AdmittedIn
      <4>2. QED
        BY <3>1, <4>1, FewerStillAtMost DEF IInv, LimitsKept
    <3>4. QED
      BY <3>2, <3>3
  <2>5. LimitsKept'
    BY <1>2, <2>4 DEF IInv, LimitsKept, Blur, AtMost, AdmittedIn
  <2>6. QED
    BY <1>5, <1>6, <2>2, <2>3, <2>5
<1>13. QED
  BY <1>7, <1>11, <1>12
\* The answer arrives: who was let through learns it.
LEMMA ReturnStep ==
    ASSUME IInv, TypeOK', NEW q \in Requests, Return(q)
    PROVE  SentOnTime' /\ GrantedOnce' /\ RedisRemembers' /\ ReplicaRemembers' /\ LimitsKept'
<1> DEFINE new == [at |-> request[q].ran, by |-> q, via |-> "redis"]
<1>1. /\ now \in Nat /\ request \in [Requests -> States]
      /\ \A h \in wire : h.by \in Requests
      /\ \A a \in admitted : a.by \in Requests
  BY DEF IInv, TypeOK, Hits
<1>2. /\ now' = now /\ failClosed' = failClosed /\ hits' = hits /\ wire' = wire
      /\ local' = local
      /\ request[q].pc \in {"counted", "removed"}
      /\ admitted' = IF request[q].pc = "removed" THEN admitted ELSE admitted \cup {new}
  BY DEF Return, settings, redis
<1>3. PICK s : s.pc = "done" /\ request' = [request EXCEPT ![q] = s]
  <2>1. Done("allowed").pc = "done" /\ Done("denied").pc = "done"
    BY DEF Done
  <2>2. CASE request[q].pc = "counted"
    BY <2>1, <2>2 DEF Return, Becomes
  <2>3. CASE request[q].pc # "counted"
    BY <2>1, <2>3 DEF Return, Becomes
  <2>4. QED
    BY <2>2, <2>3
<1>4. request'[q] = s /\ \A p \in Requests : p # q => request'[p] = request[p]
  BY <1>1, <1>3
<1>5. SentOnTime'
  <2>1. \A h \in wire' : /\ h.at <= now + Skew
                         /\ request'[h.by].pc \notin {"idle", "queued", "pinging"}
                         /\ request'[h.by].pc = "sent" => h.at >= request'[h.by].since
    BY <1>1, <1>2, <1>3, <1>4 DEF IInv, SentOnTime
  <2>2. \A p \in Requests : request'[p].pc = "sent" => now <= request'[p].since + Timeout
    BY <1>3, <1>4 DEF IInv, SentOnTime
  <2>3. QED
    BY <1>2, <2>1, <2>2 DEF SentOnTime
<1>6. \A a \in admitted' : a \in admitted \/ (a = new /\ request[q].pc = "counted")
  BY <1>2
<1>7. \A a \in admitted : a.by # q
  BY <1>2 DEF IInv, GrantedOnce
<1>8. GrantedOnce'
  <2>1. \A a \in admitted' : a.at <= now /\ request'[a.by].pc = "done"
    BY <1>1, <1>3, <1>4, <1>6, <1>7 DEF IInv, GrantedOnce
  <2>2. \A a, b \in admitted' : a.by = b.by => a = b
    BY <1>6, <1>7 DEF IInv, GrantedOnce
  <2>3. \A p \in Requests : request'[p].pc = "counted" => request'[p].ran \in 0..now
    BY <1>3, <1>4 DEF IInv, GrantedOnce
  <2>4. QED
    BY <1>2, <2>1, <2>2, <2>3 DEF GrantedOnce
<1>9. Granted' \in SUBSET Granted
  <2>1. ASSUME NEW g \in Granted'
        PROVE  g \in Granted
    <3>1. CASE g \in admitted' /\ g.via = "redis"
      BY <1>6, <3>1 DEF Granted
    <3>2. CASE \E p \in Requests : /\ request'[p].pc = "counted"
                                   /\ g = [at |-> request'[p].ran, by |-> p, via |-> "redis"]
      BY <1>3, <1>4, <3>2 DEF Granted
    <3>3. QED
      BY <2>1, <3>1, <3>2 DEF Granted
  <2>2. QED
    BY <2>1
<1>10. {a \in admitted' : a.via # "redis"} = {a \in admitted : a.via # "redis"}
  BY <1>2
<1>11. QED
  BY <1>1, <1>2, <1>5, <1>8, <1>9, <1>10, NobodyAdmitted

\* Time passes while no answer is overdue.
LEMMA TickStep ==
    ASSUME IInv, TypeOK', Tick
    PROVE  SentOnTime' /\ GrantedOnce' /\ RedisRemembers' /\ ReplicaRemembers' /\ LimitsKept'
<1>1. /\ now \in Nat /\ Timeout \in Nat /\ Skew \in Nat /\ request \in [Requests -> States]
      /\ \A h \in wire : h.at \in Nat
      /\ \A a \in admitted : a.at \in Nat
  BY LimitsArePositive DEF IInv, TypeOK, Hits
<1>2. /\ now' = now + 1 /\ failClosed' = failClosed /\ hits' = hits /\ wire' = wire
      /\ local' = local /\ request' = request /\ admitted' = admitted
      /\ \A q \in Requests : request[q].pc = "sent" => now < request[q].since + Timeout
  BY DEF Tick, settings, redis, Waiting
<1>3. \A q \in Requests : request[q].since \in Nat
  BY <1>1, StateFacts
<1>4. SentOnTime'
  BY <1>1, <1>2, <1>3 DEF IInv, SentOnTime
<1>5. GrantedOnce'
  BY <1>1, <1>2 DEF IInv, GrantedOnce
<1>6. Granted' \in SUBSET Granted
  BY <1>2 DEF Granted
<1>7. now <= now'
  BY <1>1, <1>2
<1>8. QED
  BY <1>2, <1>4, <1>5, <1>6, <1>7, NobodyAdmitted

\* Every step of a request, of Redis and of the clocks keeps the invariant.
LEMMA IInvStep ==
    ASSUME IInv, [Next]_vars
    PROVE  IInv'
<1> USE DEF settings, redis
<1>1. TypeOK'
  BY TypeStep DEF IInv
<1>2. ConnectionsInOrder'
  BY ConnectionsStep DEF IInv
<1> DEFINE Limits == SentOnTime /\ GrantedOnce /\ RedisRemembers /\ ReplicaRemembers /\ LimitsKept
<1>3. now \in Nat /\ request \in [Requests -> States]
  BY DEF IInv, TypeOK
<1>4. ASSUME NEW q \in Requests, request[q].pc \notin {"idle", "done"}
      PROVE  request[q].replica \in Replicas
  BY <1>3, <1>4, StateFacts
\* What the three ways to go on for lack of an answer have in common.
<1>5. ASSUME NEW q \in Requests, NEW r \in Replicas,
             request[q].pc \in {"idle", "queued", "pinging"},
             \E c \in Requests : Send(q, r, c),
             UNCHANGED <<now, failClosed, hits, local, admitted>>
      PROVE  Limits'
  <2>1. PICK c \in Requests : Send(q, r, c)
    BY <1>5
  <2>2. PICK s \in States : s = [pc |-> "sent", since |-> now, replica |-> r, client |-> c,
                                 ran |-> Unset]
    BY NewStates DEF IInv
  <2>3. s.pc = "sent" /\ s.since = now
    BY <2>2
  <2>4. PICK m : m = [by |-> q, at |-> now + offset[r]]
    OBVIOUS
  <2>5. m.by = q /\ m.at >= now /\ m.at <= now + Skew
    <3>1. offset[r] \in 0..Skew /\ Skew \in Nat
      BY LimitsArePositive DEF IInv, TypeOK
    <3>2. QED
      BY <1>3, <2>4, <3>1
  <2>6. request' = [request EXCEPT ![q] = s] /\ wire' = wire \cup {m}
    BY <2>1, <2>2, <2>4 DEF Send, Becomes
  <2>7. QED
    BY <1>1, <1>5, <2>3, <2>5, <2>6, PassiveStep
<1>6. ASSUME NEW q \in Requests, NEW r \in Replicas,
             NEW pc \in {"queued", "pinging", "closing"},
             Becomes(q, [pc |-> pc, since |-> now, replica |-> r]),
             request[q].pc # "done",
             pc # "closing" => request[q].pc \in {"idle", "queued", "pinging"},
             UNCHANGED <<now, failClosed, hits, wire, local, admitted>>
      PROVE  Limits'
  <2>1. PICK s \in States : s = [pc |-> pc, since |-> now, replica |-> r]
    BY NewStates DEF IInv
  <2>2. s.pc = pc /\ request' = [request EXCEPT ![q] = s]
    BY <1>6, <2>1 DEF Becomes
  <2>3. QED
    BY <1>1, <1>6, <2>2, PassiveStep
<1>7. ASSUME NEW q \in Requests, NEW r \in Replicas, Arrive(q, r)
      PROVE  Limits'
  <2>1. request[q].pc = "idle" /\ UNCHANGED <<now, failClosed, hits>>
    BY <1>7 DEF Arrive
  <2>2. CASE IsOpen(r)
    BY <1>1, <1>7, <2>1, <2>2, LocalStep DEF Arrive
  <2>3. CASE ~IsOpen(r) /\ client[r] # NoOne
    <3>1. client[r] \in Requests
      BY <2>3 DEF IInv, TypeOK
    <3>2. Send(q, r, client[r]) /\ UNCHANGED <<local, admitted>>
      BY <1>7, <2>3 DEF Arrive
    <3>3. QED
      BY <1>5, <2>1, <3>1, <3>2
  <2>4. CASE ~IsOpen(r) /\ client[r] = NoOne
    BY <1>6, <1>7, <2>1, <2>4 DEF Arrive
  <2>5. QED
    BY <2>2, <2>3, <2>4
<1>8. ASSUME NEW q \in Requests, Acquire(q)
      PROVE  Limits'
  <2>1. PICK r \in Replicas : r = request[q].replica
    BY <1>4, <1>8 DEF Acquire
  <2>2. request[q].pc = "queued" /\ UNCHANGED <<now, failClosed, hits>>
    BY <1>8 DEF Acquire
  <2>3. CASE StillOpen(r)
    BY <1>1, <1>8, <2>1, <2>2, <2>3, LocalStep DEF Acquire
  <2>4. CASE ~StillOpen(r) /\ client[r] # NoOne
    <3>1. client[r] \in Requests
      BY <2>4 DEF IInv, TypeOK
    <3>2. Send(q, r, client[r]) /\ UNCHANGED <<local, admitted>>
      BY <1>8, <2>1, <2>4 DEF Acquire
    <3>3. QED
      BY <1>5, <2>2, <3>1, <3>2
  <2>5. CASE ~StillOpen(r) /\ client[r] = NoOne
    BY <1>6, <1>8, <2>1, <2>2, <2>5 DEF Acquire
  <2>6. QED
    BY <2>3, <2>4, <2>5
<1>9. ASSUME NEW q \in Requests, Connect(q)
      PROVE  Limits'
  <2>1. PICK r \in Replicas : r = request[q].replica
    BY <1>4, <1>9 DEF Connect
  <2>2. QED
    BY <1>5, <1>9, <2>1 DEF Connect
<1>10. ASSUME NEW q \in Requests, ConnectFails(q)
       PROVE  Limits'
  <2>1. PICK r \in Replicas : r = request[q].replica
    BY <1>4, <1>10 DEF ConnectFails
  <2>2. QED
    BY <1>6, <1>10, <2>1 DEF ConnectFails, Discard
<1>11. ASSUME NEW q \in Requests, Close(q)
       PROVE  Limits'
  <2>1. PICK r \in Replicas : r = request[q].replica
    BY <1>4, <1>11 DEF Close
  <2>2. QED
    BY <1>1, <1>11, <2>1, LocalStep DEF Close
<1>12. ASSUME NEW q \in Requests, Remove(q)
       PROVE  Limits'
  <2>1. request[q] \in Asking
    BY <1>3, <1>12, AskingStates DEF Remove
  <2>2. PICK s : s = [request[q] EXCEPT !.pc = "removed"]
    OBVIOUS
  <2>3. s \in States /\ s.pc = "removed"
    BY <2>1, <2>2 DEF Asking, States
  <2>4. request' = [request EXCEPT ![q] = s] /\ request[q].pc = "removing"
    BY <1>3, <1>12, <2>2 DEF Remove
  <2>5. /\ UNCHANGED <<now, failClosed, wire, local, admitted>>
        /\ \A h \in hits : h.by # q => h \in hits'
    BY <1>12 DEF Remove
  <2>6. QED
    BY <1>1, <2>3, <2>4, <2>5, PassiveStep
<1>13. ASSUME NEW q \in Requests, GiveUp(q)
       PROVE  Limits'
  <2>1. PICK r \in Replicas : r = request[q].replica
    BY <1>4, <1>13 DEF GiveUp
  <2>2. QED
    BY <1>6, <1>13, <2>1 DEF GiveUp, Discard
<1>14. ASSUME NEW q \in Requests, Return(q)
       PROVE  Limits'
  BY <1>1, <1>14, ReturnStep
<1>15. ASSUME NEW m \in wire, Execute(m)
       PROVE  Limits'
  BY <1>1, <1>15, ExecuteStep
<1>16. ASSUME Tick
       PROVE  Limits'
  BY <1>1, <1>16, TickStep
<1>17. ASSUME UNCHANGED vars
       PROVE  Limits'
  <2>1. UNCHANGED <<now, failClosed, hits, wire, local, request, admitted>>
    BY <1>17 DEF vars
  <2>2. SentOnTime'
    BY <2>1 DEF IInv, SentOnTime
  <2>3. GrantedOnce'
    BY <2>1 DEF IInv, GrantedOnce
  <2>4. Granted' \in SUBSET Granted
    BY <2>1 DEF Granted
  <2>5. RedisRemembers' /\ ReplicaRemembers' /\ LimitsKept'
    BY <1>1, <1>3, <2>1, <2>4, NobodyAdmitted
  <2>6. QED
    BY <2>2, <2>3, <2>5
<1>18. Limits'
  <2> HIDE DEF Limits
  <2>1. QED
    BY <1>7, <1>8, <1>9, <1>10, <1>11, <1>12, <1>13, <1>14, <1>15, <1>16, <1>17 DEF Next
<1>19. QED
  BY <1>1, <1>2, <1>18 DEF IInv
-----------------------------------------------------------------------------
(***************************************************************************)
(* The theorems.                                                           *)
(***************************************************************************)

\* The inductive invariant: whoever was let through stays in the window he was counted in
\* for as long as a later request could share a span with him.
THEOREM Invariance == Spec => []IInv
<1>1. QED
  BY IInvInit, IInvStep, PTL DEF Spec

\* ratelimit.py 3-6 and 41-51: no span of the window's length sees more admissions than
\* the limit, by Redis across the replicas or by a replica's own window; fail-closed,
\* nobody else is admitted.
THEOREM LimitsAlwaysHold == Spec => []LimitsHold
<1>1. ASSUME IInv
      PROVE  LimitsHold
  <2>1. ASSUME NEW t \in 0..Horizon
        PROVE  Cardinality(AdmittedIn(Shared, t, t + Window - Blur - 1)) <= MaxEvents
    <3>1. Shared \in SUBSET Granted
      BY <1>1 DEF IInv, Shared, ReplicaRemembers, Granted
    <3>2. AdmittedIn(Shared, t, t + Window - Blur - 1)
            \in SUBSET AdmittedIn(Granted, t, t + Window - Blur - 1)
      BY <3>1 DEF AdmittedIn
    <3>3. t \in Int
      OBVIOUS
    <3>4. AtMost(AdmittedIn(Granted, t, t + Window - Blur - 1))
      BY <1>1, <3>3 DEF IInv, LimitsKept
    <3>5. QED
      BY <3>2, <3>4, FewerStillAtMost DEF AtMost
  <2>2. ASSUME NEW r \in Replicas, NEW t \in 0..Horizon
        PROVE  Cardinality(AdmittedIn({a \in admitted : a.via = r}, t, t + Window)) <= MaxEvents
    <3>1. t \in Int
      OBVIOUS
    <3>2. QED
      BY <1>1, <3>1 DEF IInv, LimitsKept, AtMost
  <2>3. QED
    BY <2>1, <2>2 DEF LimitsHold, SharedLimitHolds, LocalLimitHolds
<1>2. QED
  BY <1>1, Invariance, PTL

\* ratelimit.py 103-106: one request connects at a time, and a failed connection keeps
\* everyone from connecting until the cooldown is over.
THEOREM ReconnectsInOrder == Spec => []NoReconnectStorm
<1>1. ASSUME IInv
      PROVE  NoReconnectStorm
  <2>1. ASSUME NEW r \in Replicas
        PROVE  Cardinality(Connecting(r)) <= 1
    <3>1. \A p, q \in Connecting(r) : p = q
      BY <1>1 DEF IInv, ConnectionsInOrder, Connecting
    <3>2. CASE Connecting(r) = {}
      BY <3>2, FS_EmptySet
    <3>3. CASE Connecting(r) # {}
      <4>1. PICK p : p \in Connecting(r)
        BY <3>3
      <4>2. Connecting(r) = {p}
        BY <3>1, <4>1
      <4>3. Cardinality({p}) = 1
        BY FS_Singleton
      <4>4. QED
        BY <4>2, <4>3
    <3>4. QED
      BY <3>2, <3>3
  <2>2. \A r \in Replicas : failed[r] # Unset =>
           \A q \in Connecting(r) : request[q].since >= failed[r] + Cooldown
    BY <1>1 DEF IInv, ConnectionsInOrder, Connecting
  <2>3. QED
    BY <2>1, <2>2 DEF NoReconnectStorm
<1>2. QED
  BY <1>1, Invariance, PTL
=============================================================================
