-------------------------------- MODULE Replica --------------------------------
(***************************************************************************)
(* The replicas of the web back end: their startup (lifespan in            *)
(* app/main.py), which configures the ontology, checks the wiki's settings *)
(* and limiters and brings the wiki's schema up to date before anything is *)
(* served; their readiness (app/routers/meta.py); and a client that reads  *)
(* ontology listings page by page from whichever replica it is sent to.    *)
(*                                                                         *)
(* What is deployed to a replica is a record of its settings and of what   *)
(* its image holds:                                                        *)
(*   ttl, writes, database, redis, require_redis, session, moderation      *)
(*      the wiki's settings; a secret is <<its text, its bytes>>           *)
(*   migrations   the image's migrations/wiki                              *)
(*   ontology     Null, or the file, its pinned identity, the pinned       *)
(*                content digest and the internal key                      *)
(***************************************************************************)
EXTENDS OntologyApi, Schema

CONSTANTS
    Files,        \* the snapshot in each file
    Plans         \* bound: the deployments, requests and faults of a behaviour

VARIABLES
    plan,
    deployed,     \* what each replica is to run
    at,           \* how far the lifespan of each replica is
    ended,        \* whether its last start was refused: "settings", "refused" or "no"
    projection,   \* ontology_runtime.projection: Null, or the settings it is made of
    away,         \* which of PostgreSQL and Redis are away
    cooling,      \* the replicas whose limiters' breakers are open
    faults,       \* how many crashes, outages, timeouts and deployments there were
    answer,       \* what the client was answered last
    cached,       \* the last representation it was given
    walk          \* the listing it is collecting

startVars == <<deployed, at, ended, projection, away, cooling, faults>>
clientVars == <<answer, cached, walk>>
replicaVars == <<plan, schemaVars, startVars, clientVars>>

Nothing == [status |-> 0]
NoWalk == [req |-> Null, items |-> <<>>, next |-> Null, whole |-> <<>>, from |-> {}]

Ms(r) == deployed[r].migrations

-----------------------------------------------------------------------------
(* Startup *)

\* _validate_wiki_configuration
ValidConfiguration(d) ==
    /\ d.ttl >= 300
    /\ d.writes =>
         /\ d.database
         /\ d.session[2] >= 32 /\ d.moderation[2] >= 32
         /\ d.session # d.moderation
         /\ d.require_redis => d.redis

\* OntologyRuntime.configure, OntologyProjection.load
Loads(o) ==
    /\ o.key[2] >= 32
    /\ o.file \in DOMAIN Files
    /\ o.file = o.pinned
    /\ Valid(Files[o.file], o.content)
Configurable(d) == ValidConfiguration(d) /\ (d.ontology # Null => Loads(d.ontology))

\* What can be deployed and started.
Startable == {d \in UNION {p.deployments : p \in Plans} : Configurable(d)}
Started == {d.ontology : d \in Startable} \ {Null}

\* A snapshot is finite, and a client that asks for a listing begins with its first page.
\* A content digest is pinned by the operator and never recomputed: snapshots may share it.
ASSUME SnapshotsAreFinite ==
    \A o \in Started :
      LET data == Files[o.file].data
      IN  \A rows \in {Rows(data.collections), DOMAIN data.relationships, DOMAIN data.conflicts} :
            IsFiniteSet(rows)
ASSUME RequestsAreFresh ==
    \A p \in Plans : \A req \in p.requests :
      /\ req.route \in Routes /\ DOMAIN req = Fields(req.route)
      /\ req.route \in Listings => req.cursor = Null

\* A projection is a value of the snapshot and the key: a replica keeps which one it is.
Projections == [o \in Started |-> Projection(Files[o.file], o.key)]
Served(o) == IF o = Null THEN Null ELSE Projections[o]

\* RateLimiter.ready of the three limiters of the wiki: one that has a Redis needs it,
\* whether it may do without or not.
FailClosed(d) == d.writes /\ d.require_redis
LimitersReady(r) ==
    IF deployed[r].redis THEN "redis" \notin away /\ r \notin cooling
    ELSE ~FailClosed(deployed[r])

\* The process is gone, and its connections with it.
Down(r, how) ==
    /\ at' = [at EXCEPT ![r] = "down"]
    /\ ended' = [ended EXCEPT ![r] = how]
    /\ projection' = [projection EXCEPT ![r] = Null]
    /\ cooling' = cooling \ {r}
    /\ Rollback(r)

GoTo(r, place) ==
    /\ at' = [at EXCEPT ![r] = place]
    /\ ended' = [ended EXCEPT ![r] = "no"]
    /\ UNCHANGED <<projection, cooling>>

\* Docker restarts whatever is down.
Start(r) ==
    /\ at[r] = "down"
    /\ deployed[r] \in Startable
    /\ at' = [at EXCEPT ![r] = "limiters"]
    /\ ended' = [ended EXCEPT ![r] = "no"]
    /\ projection' = [projection EXCEPT ![r] = deployed[r].ontology]
    /\ UNCHANGED <<plan, schemaVars, deployed, away, cooling, faults, clientVars>>

RefuseSettings(r) ==
    /\ at[r] = "down" /\ ended[r] # "settings"
    /\ deployed[r] \notin Startable
    /\ ended' = [ended EXCEPT ![r] = "settings"]
    /\ UNCHANGED <<plan, schemaVars, deployed, at, projection, away, cooling, faults, clientVars>>

CheckLimiters(r) ==
    /\ at[r] = "limiters"
    /\ IF deployed[r].writes /\ ~LimitersReady(r) THEN Down(r, "no")
       ELSE /\ GoTo(r, IF deployed[r].database THEN "connecting" ELSE "up")
            /\ UNCHANGED schemaVars
    /\ UNCHANGED <<plan, deployed, away, faults, clientVars>>

Connect(r) ==
    /\ at[r] = "connecting" /\ "postgres" \notin away
    /\ GoTo(r, "locking")
    /\ UNCHANGED <<plan, schemaVars, deployed, away, faults, clientVars>>

TakeLock(r) ==
    /\ at[r] = "locking"
    /\ Acquire(r)
    /\ GoTo(r, "migrating")
    /\ UNCHANGED <<plan, deployed, away, faults, clientVars>>

\* One migration, or the check of the whole schema and the commit.
Advance(r) ==
    /\ at[r] = "migrating"
    /\ IF Migrated(r, Ms(r))
         THEN IF Current(Seen(r), Ms(r))
                THEN Commit(r) /\ GoTo(r, "pinging")
                ELSE Down(r, "refused")
         ELSE IF Refused(r, Ms(r))
                THEN Down(r, "refused")
                ELSE Migrate(r, Ms(r)) /\ UNCHANGED <<at, ended, projection, cooling>>
    /\ UNCHANGED <<plan, deployed, away, faults, clientVars>>

Ping(r) ==
    /\ at[r] = "pinging"
    /\ IF Current(schema, Ms(r)) THEN GoTo(r, "up") /\ UNCHANGED schemaVars
       ELSE Down(r, "refused")
    /\ UNCHANGED <<plan, deployed, away, faults, clientVars>>

\* The pool cannot be made.
FailToConnect(r) ==
    /\ at[r] = "connecting" /\ "postgres" \in away
    /\ Down(r, "no")
    /\ UNCHANGED <<plan, deployed, away, faults, clientVars>>

-----------------------------------------------------------------------------
(* Faults and deployments *)

Connected(r) == at[r] \in {"locking", "migrating", "pinging"}
MoreFaults == faults < plan.faults /\ faults' = faults + 1

\* A statement takes longer than command_timeout; the one that waits for the lock can.
Timeout(r) ==
    /\ MoreFaults
    /\ at[r] = "locking" => lock # NoReplica
    /\ Connected(r)
    /\ Down(r, "no")
    /\ UNCHANGED <<plan, deployed, away, clientVars>>

Crash(r) ==
    /\ MoreFaults
    /\ at[r] # "down"
    /\ Down(r, "no")
    /\ UNCHANGED <<plan, deployed, away, clientVars>>

\* The operator replaces the container.
Deploy(r, d) ==
    /\ MoreFaults
    /\ d # deployed[r]
    /\ deployed' = [deployed EXCEPT ![r] = d]
    /\ Down(r, "no")
    /\ UNCHANGED <<plan, away, clientVars>>

\* A start that uses the database fails with it; PostgreSQL rolls back and drops the lock.
Outage(s) ==
    /\ MoreFaults
    /\ s \notin away
    /\ away' = away \cup {s}
    /\ IF s = "postgres"
         THEN /\ at' = [r \in Processes |-> IF Connected(r) THEN "down" ELSE at[r]]
              /\ ended' = [r \in Processes |-> IF Connected(r) THEN "no" ELSE ended[r]]
              /\ projection' = [r \in Processes |-> IF Connected(r) THEN Null ELSE projection[r]]
              /\ lock' = NoReplica
              /\ tx' = [r \in Processes |-> NoTx]
              /\ UNCHANGED schema
         ELSE UNCHANGED <<schemaVars, at, ended, projection>>
    /\ UNCHANGED <<plan, deployed, cooling, clientVars>>

Recover(s) ==
    /\ s \in away
    /\ away' = away \ {s}
    /\ UNCHANGED <<plan, schemaVars, deployed, at, ended, projection, cooling, faults, clientVars>>

\* A readiness check, or a request that is counted, finds Redis away; and the breaker's
\* pause, during which Redis is not asked, ends.
Trip(r) ==
    /\ at[r] = "up" /\ deployed[r].redis
    /\ "redis" \in away /\ r \notin cooling
    /\ cooling' = cooling \cup {r}
    /\ UNCHANGED <<plan, schemaVars, deployed, at, ended, projection, away, faults, clientVars>>
EndPause(r) ==
    /\ r \in cooling
    /\ cooling' = cooling \ {r}
    /\ UNCHANGED <<plan, schemaVars, deployed, at, ended, projection, away, faults, clientVars>>

-----------------------------------------------------------------------------
(* The client *)

\* GET /ready: the wiki is required when it takes writes, its limiters when they must have
\* Redis, and the ontology when enabled.
Ready(r) ==
    /\ at[r] = "up"
    /\ deployed[r].writes =>
         /\ "postgres" \notin away /\ Current(schema, Ms(r))
         /\ FailClosed(deployed[r]) => LimitersReady(r)
    /\ deployed[r].ontology # Null => projection[r] # Null

\* The answer a client is sent; for the properties, "full" is what a 304 stands for, and
\* "from" what the replica that sent it serves.
Send(r, req, etags) ==
    LET a == Respond(Served(projection[r]), plan.key, req)
    IN  /\ at[r] = "up"
        /\ answer' = [status |-> IF NotModified(a, etags) THEN 304 ELSE a.status, req |-> req,
                      full |-> IF a.status = 200 THEN a.body ELSE Null, from |-> projection[r]]
        /\ cached' = IF a.status # 200 \/ NotModified(a, etags) THEN cached
                     ELSE [req |-> req, etag |-> a.etag, body |-> a.body, from |-> projection[r]]
        /\ UNCHANGED <<plan, schemaVars, startVars>>

\* A listing is collected page by page; "whole" is what it was when it was begun, and
\* "from" what the replicas serve that its pages came from.
Collect(req, items, whole, from) ==
    walk' = IF req.route \notin Listings \/ answer'.status # 200 THEN NoWalk
            ELSE [req |-> req, items |-> items \o answer'.full.items,
                  next |-> answer'.full.next, whole |-> whole, from |-> from \cup {answer'.from}]

\* A fresh request; the next page of a listing; the last representation once more.
Ask(r, req) ==
    /\ Send(r, req, {})
    /\ Collect(req, <<>>, Listing(Served(projection[r]), req), {})

Follow(r) ==
    /\ walk.next # Null
    /\ LET req == [walk.req EXCEPT !.cursor = walk.next]
       IN  /\ Send(r, req, {})
           /\ Collect(req, walk.items, walk.whole, walk.from)

Revalidate(r) ==
    /\ cached # Null
    /\ Send(r, cached.req, {cached.etag})
    /\ UNCHANGED walk

-----------------------------------------------------------------------------
ReplicaInit ==
    /\ plan \in Plans
    /\ SchemaInit(plan.schema)
    /\ deployed \in [Processes -> plan.deployments]
    /\ at = [r \in Processes |-> "down"]
    /\ ended = [r \in Processes |-> "no"]
    /\ projection = [r \in Processes |-> Null]
    /\ away = {}
    /\ cooling = {}
    /\ faults = 0
    /\ answer = Nothing
    /\ cached = Null
    /\ walk = NoWalk

Step(r) ==
    \/ Start(r) \/ RefuseSettings(r) \/ CheckLimiters(r) \/ Connect(r)
    \/ TakeLock(r) \/ Advance(r) \/ Ping(r) \/ FailToConnect(r)

ReplicaNext ==
    \/ \E r \in Processes :
         \/ Step(r) \/ Timeout(r) \/ Crash(r) \/ Trip(r) \/ EndPause(r)
         \/ \E d \in plan.deployments : Deploy(r, d)
         \/ \E req \in plan.requests : Ask(r, req)
         \/ Follow(r) \/ Revalidate(r)
    \/ \E s \in {"postgres", "redis"} : Outage(s) \/ Recover(s)

\* The event loop and docker go on; PostgreSQL serves its lock queue in order, what is
\* away comes back, and a breaker's pause ends.
Fairness ==
    /\ \A r \in Processes :
         WF_replicaVars(Step(r)) /\ SF_replicaVars(TakeLock(r)) /\ WF_replicaVars(EndPause(r))
    /\ \A s \in {"postgres", "redis"} : WF_replicaVars(Recover(s))

ReplicaSpec == ReplicaInit /\ [][ReplicaNext]_replicaVars /\ Fairness

-----------------------------------------------------------------------------
(* Properties of the ontology surface *)

\* The summaries an answer shows.
Shown ==
    CASE answer.full = Null                -> {}
      [] answer.req.route = "search"       -> Range(answer.full.items)
      [] answer.req.route = "neighbors"    -> {e.node : e \in Range(answer.full.items)}
      [] answer.req.route = "release"      -> UNION {Range(answer.full.collections[c]) : c \in Collections}
      [] OTHER                             -> {}

\* ontology.py:3-6 and the routes: whatever snapshot was pinned, no answer gives the
\* disputed slot an entity, leaves another slot without one, or lets OM stand for the OMC.
NoDefaultForTheDisputed ==
    answer # Nothing =>
      /\ \A s \in Shown : s.kind = "apostle" =>
           /\ s.position = 9 <=> s.canonical_name = "undecided"
           /\ s.position = 9 => s.default_servable = FALSE /\ answer.req.route # "search"
      /\ answer.req.route = "node" /\ answer.full # Null /\ answer.full.kind = "apostle" =>
           answer.full.position # 9 /\ answer.full.entity # Null
      /\ answer.req.route = "search" /\ Normal[answer.req.q] = "om" =>
           \A s \in Shown : s.canonical_name # "orbital-cloud"

\* _page: the pages a client has collected, from replicas of several releases and across
\* restarts, are of one content digest; and, where one file serves that digest, together
\* the listing of that file, without a gap or a repetition.
OneFile(S) == \A o, other \in S : o.file = other.file
WalkIsOneListing ==
    /\ \A o, other \in walk.from : o.content = other.content
    /\ walk.next = Null /\ OneFile(walk.from) => walk.items = walk.whole

\* etag_for, _etag_matches: a 304 is of the content digest of the representation the
\* client holds, and where one file serves that digest it stands for that representation.
NotModifiedIsCurrent ==
    answer.status = 304 =>
      /\ answer.from.content = cached.from.content
      /\ answer.from.file = cached.from.file => answer.full = cached.body

ClientsSeeOneRelease == WalkIsOneListing /\ NotModifiedIsCurrent

-----------------------------------------------------------------------------
(* Properties of the startup *)

\* ensure_schema: whatever crashes, what is committed is what was there at first or all
\* of some release's schema, and never a part of a migration run.
SchemaIsWhole ==
    schema = plan.schema \/ \E d \in plan.deployments : Current(schema, d.migrations)

\* A release's schema, or one that it extends.
Extends(ms) == \E k \in 0..Len(ms) : schema = SchemaOf(SubSeq(ms, 1, k))

\* A replica whose settings, snapshot and migrations fit becomes ready and stays so,
\* unless another release takes the schema further.
FittingBecomesReady ==
    \A r \in Processes :
      <>[](deployed[r] \in Startable /\ (deployed[r].database => Extends(Ms(r))) => Ready(r))
=============================================================================
