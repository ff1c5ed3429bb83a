-------------------------------- MODULE RateLimit --------------------------------
(***************************************************************************)
(* The sliding-window rate limiter (app/ratelimit.py, app/breaker.py) for  *)
(* one key: replicas share a sorted set in Redis, and each has a window in *)
(* its memory to fall back on.                                             *)
(*                                                                         *)
(* Time is counted in ticks.  Every await on Redis ends within Timeout.    *)
(* The replicas' wall clocks differ by at most Skew.                       *)
(***************************************************************************)
EXTENDS Integers, FiniteSets

CONSTANTS
    Requests, Replicas,
    MaxEvents, Window,
    Timeout,     \* REDIS_IO_TIMEOUT_SECONDS
    Cooldown,    \* of the breaker
    Skew,
    Horizon,     \* bound on time
    NoOne

ASSUME LimitsArePositive ==
    /\ MaxEvents \in Nat \ {0} /\ Window \in Nat \ {0} /\ Timeout \in Nat \ {0}
    /\ Cooldown \in Nat \ {0} /\ Skew \in Nat /\ Horizon \in Nat
    /\ NoOne \notin Requests

\* The name for Redis among the windows that admit requests.
ASSUME RedisIsNoReplica == "redis" \notin Replicas

VARIABLES
    failClosed,  \* fail_closed, the same on every replica
    now,
    offset,      \* each replica's clock is so far ahead
    hits,        \* the sorted set: [by, at]
    wire,        \* the members whose pipeline Redis has yet to execute
    local,       \* each replica's window in memory
    client,      \* each replica's cached client, named by the request that opened it
    lock,        \* _redis_lock
    retryAfter,  \* the breaker
    request,
    admitted,    \* who was let through, when and by which window
    failed       \* when a replica's last connection failed, if nothing succeeded since

settings == <<failClosed, offset>>
redis == <<hits, wire>>
vars == <<now, settings, redis, local, client, lock, retryAfter, request, admitted, failed>>

Unset == -1
Idle == [pc |-> "idle", since |-> 0]

Init ==
    /\ now = 0
    /\ failClosed \in BOOLEAN
    /\ offset \in [Replicas -> 0..Skew]
    /\ hits = {} /\ wire = {}
    /\ local = [r \in Replicas |-> {}]
    /\ client = [r \in Replicas |-> NoOne]
    /\ lock = [r \in Replicas |-> NoOne]
    /\ retryAfter = [r \in Replicas |-> 0]
    /\ request = [q \in Requests |-> Idle]
    /\ admitted = {}
    /\ failed = [r \in Replicas |-> Unset]

IsOpen(r) == now < retryAfter[r]
Trip(r) == retryAfter' = [retryAfter EXCEPT ![r] = now + Cooldown]

Becomes(q, state) == request' = [request EXCEPT ![q] = state]
Done(answer) == [pc |-> "done", since |-> now, answer |-> answer]

-----------------------------------------------------------------------------
(* The window in memory.                                                   *)

KeptTooBriefly(r) == {h \in local[r] : h.at > now - Window}  \* a slip
KeptLocally(r) == {h \in local[r] : h.at >= now - Window}

MayFallBack == ~failClosed

WithoutRedis(q, r) ==
    LET kept == KeptLocally(r)
        allow == MayFallBack /\ Cardinality(kept) < MaxEvents
        hit == [by |-> q, at |-> now]
    IN  /\ Becomes(q, Done(IF allow THEN "allowed"
                            ELSE IF MayFallBack THEN "denied" ELSE "unavailable"))
        /\ local' = IF MayFallBack
                      THEN [local EXCEPT ![r] = IF allow THEN kept \cup {hit} ELSE kept] ELSE local
        /\ admitted' = IF allow THEN admitted \cup {[at |-> now, by |-> q, via |-> r]} ELSE admitted

-----------------------------------------------------------------------------
(* A client for Redis: the cached one, or a new one under the lock.        *)

Send(q, r, c) ==
    /\ Becomes(q, [pc |-> "sent", since |-> now, replica |-> r, client |-> c, ran |-> Unset])
    /\ wire' = wire \cup {[by |-> q, at |-> now + offset[r]]}

Arrive(q, r) ==
    /\ request[q].pc = "idle"
    /\ \/ /\ IsOpen(r)
          /\ WithoutRedis(q, r)
          /\ UNCHANGED wire
       \/ /\ ~IsOpen(r) /\ client[r] # NoOne
          /\ Send(q, r, client[r])
          /\ UNCHANGED <<local, admitted>>
       \/ /\ ~IsOpen(r) /\ client[r] = NoOne
          /\ Becomes(q, [pc |-> "queued", since |-> now, replica |-> r])
          /\ UNCHANGED <<wire, local, admitted>>
    /\ UNCHANGED <<now, settings, hits, client, lock, retryAfter, failed>>

NeverOpen(r) == FALSE  \* a slip
StillOpen(r) == IsOpen(r)

Acquire(q) ==
    LET r == request[q].replica
    IN  /\ request[q].pc = "queued" /\ lock[r] = NoOne
        /\ \/ /\ StillOpen(r)
              /\ WithoutRedis(q, r)
              /\ UNCHANGED <<wire, lock>>
           \/ /\ ~StillOpen(r) /\ client[r] # NoOne
              /\ Send(q, r, client[r])
              /\ UNCHANGED <<lock, local, admitted>>
           \/ /\ ~StillOpen(r) /\ client[r] = NoOne
              /\ Becomes(q, [pc |-> "pinging", since |-> now, replica |-> r])
              /\ lock' = [lock EXCEPT ![r] = q]
              /\ UNCHANGED <<wire, local, admitted>>
        /\ UNCHANGED <<now, settings, hits, client, retryAfter, failed>>

Connect(q) ==
    LET r == request[q].replica
    IN  /\ request[q].pc = "pinging"
        /\ client' = [client EXCEPT ![r] = q]
        /\ lock' = [lock EXCEPT ![r] = NoOne]
        /\ Send(q, r, q)
        /\ UNCHANGED <<now, settings, hits, local, retryAfter, admitted, failed>>

\* _discard_redis: the breaker trips and the client is dropped before it is closed.
Discard(q, r, c) ==
    /\ Trip(r)
    /\ client' = [client EXCEPT ![r] = IF @ = c THEN NoOne ELSE @]
    /\ Becomes(q, [pc |-> "closing", since |-> now, replica |-> r])

ConnectFails(q) ==
    LET r == request[q].replica
    IN  /\ request[q].pc = "pinging"
        /\ Discard(q, r, q)
        /\ failed' = [failed EXCEPT ![r] = now]
        /\ UNCHANGED <<now, settings, redis, local, lock, admitted>>

Unlocked(q, r) == IF lock[r] = q THEN NoOne ELSE lock[r]

\* The broken client is closed, or closing it failed.
Close(q) ==
    LET r == request[q].replica
    IN  /\ request[q].pc = "closing"
        /\ lock' = [lock EXCEPT ![r] = Unlocked(q, r)]
        /\ WithoutRedis(q, r)
        /\ UNCHANGED <<now, settings, redis, client, retryAfter, failed>>

-----------------------------------------------------------------------------
(* The pipeline drops what is too old, adds this request and counts.  A    *)
(* request that is one too many takes its member out again.                *)

OneMore(count) == count > MaxEvents + 1  \* a slip
TooMany(count) == count > MaxEvents

Outdated(score) == {h \in hits : h.at <= score - Window}

Execute(member) ==
    LET q == member.by
        kept == (hits \ Outdated(member.at)) \cup {member}
        over == TooMany(Cardinality(kept))
    IN  /\ wire' = wire \ {member}
        /\ hits' = kept
        /\ request' = IF request[q].pc # "sent" THEN request
             ELSE [request EXCEPT ![q].pc = IF over THEN "removing" ELSE "counted", ![q].ran = now]
        /\ UNCHANGED <<now, settings, local, client, lock, retryAfter, admitted, failed>>

Remove(q) ==
    /\ request[q].pc = "removing"
    /\ hits' = {h \in hits : h.by # q}
    /\ request' = [request EXCEPT ![q].pc = "removed"]
    /\ UNCHANGED <<now, settings, wire, local, client, lock, retryAfter, admitted, failed>>

\* The answer arrives: "healthy again".
Return(q) ==
    LET r == request[q].replica
    IN  /\ request[q].pc \in {"counted", "removed"}
        /\ Becomes(q, Done(IF request[q].pc = "counted" THEN "allowed" ELSE "denied"))
        /\ admitted' = IF request[q].pc = "removed" THEN admitted
             ELSE admitted \cup {[at |-> request[q].ran, by |-> q, via |-> "redis"]}
        /\ retryAfter' = [retryAfter EXCEPT ![r] = 0]
        /\ failed' = [failed EXCEPT ![r] = Unset]
        /\ UNCHANGED <<now, settings, redis, local, client, lock>>

\* An error or the timeout, at any time until the answer has arrived.
GiveUp(q) ==
    /\ request[q].pc \in {"sent", "counted", "removing", "removed"}
    /\ Discard(q, request[q].replica, request[q].client)
    /\ UNCHANGED <<now, settings, redis, local, lock, admitted, failed>>

Waiting == {"pinging", "closing", "sent", "counted", "removing", "removed"}
Tick ==
    /\ now < Horizon
    /\ \A q \in Requests : request[q].pc \in Waiting => now < request[q].since + Timeout
    /\ now' = now + 1
    /\ UNCHANGED <<settings, redis, local, client, lock, retryAfter, request, admitted, failed>>

Next ==
    \/ \E q \in Requests : \/ \E r \in Replicas : Arrive(q, r)
                           \/ Acquire(q) \/ Connect(q) \/ ConnectFails(q) \/ Close(q)
                           \/ Remove(q) \/ Return(q) \/ GiveUp(q)
    \/ \E member \in wire : Execute(member)
    \/ Tick

Spec == Init /\ [][Next]_vars

-----------------------------------------------------------------------------
(* Properties.                                                             *)

AdmittedIn(A, from, to) == {a \in A : a.at \in from..to}

\* ratelimit.py 3-6: the shared window holds across replicas.  Up to what the timeout
\* and the clocks blur, no span of the window's length sees more than MaxEvents
\* admissions by Redis, and a limiter that fails closed admits nobody else.
Blur == Timeout + Skew
Shared == IF failClosed THEN admitted ELSE {a \in admitted : a.via = "redis"}
SharedLimitHolds ==
    \A t \in 0..Horizon : Cardinality(AdmittedIn(Shared, t, t + Window - Blur - 1)) <= MaxEvents

\* ratelimit.py 41-51: what a replica admits by its own window is within the limit,
\* whatever it admitted by Redis in between.
LocalLimitHolds ==
    \A r \in Replicas, t \in 0..Horizon :
      Cardinality(AdmittedIn({a \in admitted : a.via = r}, t, t + Window)) <= MaxEvents

\* Either way a client gets no more than the limit.
LimitsHold == SharedLimitHolds /\ LocalLimitHolds

\* ratelimit.py 103-106: one request connects at a time, and a failed connection keeps
\* everyone from connecting until the cooldown is over, those that wait for the lock
\* too, unless a command succeeded.
Connecting(r) == {q \in Requests : request[q].pc = "pinging" /\ request[q].replica = r}
NoReconnectStorm ==
    \A r \in Replicas :
      /\ Cardinality(Connecting(r)) <= 1
      /\ failed[r] # Unset => \A q \in Connecting(r) : request[q].since >= failed[r] + Cooldown
=============================================================================
