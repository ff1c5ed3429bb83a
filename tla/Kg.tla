----------------------------------- MODULE Kg -----------------------------------
(***************************************************************************)
(* The knowledge graph client (app/kg.py) with the cache it reads through, *)
(* its circuit breaker, and the raw Cypher proxy (app/routers/kg_proxy.py) *)
(* that goes past both.                                                    *)
(*                                                                         *)
(* All coroutines share one driver per configured URI.  Whoever fails on   *)
(* a URI closes the driver it finds there and tries the next URI; a reader *)
(* that has none left trips the breaker and answers with the snapshot, a   *)
(* proxied query is refused with 502.                                      *)
(***************************************************************************)
EXTENDS TtlCache

CONSTANTS
    Proxies,      \* coroutines in /api/kg/write
    URIs,         \* _configured_uris has this many
    Plans,        \* bound: the keys, the writers and the outages of a behaviour, and
                  \* the URIs of its configuration that no driver can be made for
    Live, Snapshot  \* an answer from the graph, and the one of an outage

ASSUME SomeURI == URIs \in Nat \ {0}
ASSUME ProxiesAreNoReaders == Callers \cap Proxies = {}
ASSUME PlansAreAboutKeys == \A q \in Plans : q.keys \in SUBSET Keys

VARIABLES
    plan,       \* which of the plans this behaviour follows
    driverAt,   \* _drivers: URI -> driver
    driver,     \* each driver object: open, broken by an outage, or closed
    cooling,    \* the breaker is open
    up,         \* the URIs whose server answers in time
    outages,
    call,       \* each coroutine: what its query is doing, on which URI and driver
    applied     \* how often each proxied write under way has been committed

kgVars == <<plan, driverAt, driver, cooling, up, outages, call, applied>>
allVars == <<vars, kgVars>>

Clients == Callers \cup Proxies
Drivers == 1..(URIs + Cardinality(Clients))

NoCall == [at |-> "off", uri |-> 0, driver |-> 0]

SetCall(c, r) == call' = [call EXCEPT ![c] = r]

\* A driver object nobody holds any more.
FreshDriver ==
    CHOOSE d \in Drivers : /\ \A u \in 1..URIs : driverAt[u] # d
                           /\ \A c \in Clients : call[c].driver # d

\* _get_driver: the driver of the URI, made when there is none.
Made(u) == driverAt[u] = 0
DriverFor(u) == IF Made(u) THEN FreshDriver ELSE driverAt[u]

\* The URIs from one on that a driver can be made for; the others are passed over.
Usable(u) == {v \in u..URIs : v \notin plan.unusable}

\* The query goes to the first of them.
Ask(c, from) == \E u \in Usable(from) :
    /\ \A v \in Usable(from) : u <= v
    /\ SetCall(c, [at |-> "asking", uri |-> u, driver |-> DriverFor(u)])
    /\ driverAt' = [driverAt EXCEPT ![u] = DriverFor(u)]
    /\ driver' = IF Made(u) THEN [driver EXCEPT ![DriverFor(u)] = "open"] ELSE driver

Serves(c) == call[c].uri \in up /\ driver[call[c].driver] # "broken"

-----------------------------------------------------------------------------
KgInit ==
    /\ Init
    /\ plan \in Plans
    /\ driverAt = [u \in 1..URIs |-> 0]
    /\ driver = [d \in Drivers |-> "closed"]
    /\ cooling = FALSE
    /\ up = 1..URIs
    /\ outages = 0
    /\ call = [c \in Clients |-> NoCall]
    /\ applied = [p \in Proxies |-> 0]

\* It is answered: 200, 400 or 502.
EndWrite(p) == SetCall(p, NoCall) /\ applied' = [applied EXCEPT ![p] = 0]

\* The coroutine is done with the URI, or has had none: it goes on to the next, or
\* gives up.
SameURI(c) == IF call[c].uri = 0 THEN 1 ELSE call[c].uri  \* a slip
NextURI(c) == call[c].uri + 1
GoOn(c) ==
    /\ Ask(c, NextURI(c))
    /\ UNCHANGED <<vars, plan, cooling, up, applied>>

GiveUp(k) ==
    /\ Usable(NextURI(k)) = {}
    /\ SetCall(k, NoCall)
    /\ cooling' = TRUE
    /\ Store(k, Snapshot)
    /\ UNCHANGED <<plan, driverAt, driver, up, applied>>

Unavailable(p) ==
    /\ Usable(NextURI(p)) = {}
    /\ EndWrite(p)
    /\ UNCHANGED <<vars, plan, driverAt, driver, cooling, up>>

Advance(c) == GoOn(c) \/ (c \in Callers /\ GiveUp(c)) \/ (c \in Proxies /\ Unavailable(c))

\* A reader's producer begins its query ...
Query(k) ==
    /\ caller[k].at = "producing" /\ call[k].at = "off"
    /\ ~cooling
    /\ Advance(k)
    /\ UNCHANGED outages

\* ... unless the breaker is open.
Spare(k) ==
    /\ caller[k].at = "producing" /\ call[k].at = "off"
    /\ cooling
    /\ Store(k, Snapshot)
    /\ UNCHANGED kgVars

\* A proxied write ignores the breaker.
Submit(p) ==
    /\ p \in plan.proxies
    /\ call[p].at = "off"
    /\ Advance(p)
    /\ UNCHANGED outages

\* The server commits the write; its answer is still on the way.
Commit(p) ==
    /\ call[p].at = "asking" /\ Serves(p)
    /\ applied' = [applied EXCEPT ![p] = @ + 1]
    /\ SetCall(p, [call[p] EXCEPT !.at = "committed"])
    /\ UNCHANGED <<vars, plan, driverAt, driver, cooling, up, outages>>

\* The rows of a query arrive.  A row the producer cannot read makes it raise.
Rows(k) ==
    /\ call[k].at = "asking" /\ Serves(k)
    /\ cooling' = FALSE
    /\ SetCall(k, NoCall)
    /\ Store(k, Live) \/ Raise(k)
    /\ UNCHANGED <<plan, driverAt, driver, up, outages, applied>>

Acknowledge(p) ==
    /\ call[p].at = "committed" /\ Serves(p)
    /\ EndWrite(p)
    /\ UNCHANGED <<vars, plan, driverAt, driver, cooling, up, outages>>

\* A Neo4jError is the client's own: it is not retried.
Refuse(p) ==
    /\ call[p].at = "asking" /\ Serves(p)
    /\ EndWrite(p)
    /\ UNCHANGED <<vars, plan, driverAt, driver, cooling, up, outages>>

\* The query failed: its server is away, or its driver lost its connections or was
\* closed by another coroutine.
Failed(c) ==
    /\ call[c].at \in {"asking", "committed"}
    /\ call[c].uri \notin up \/ driver[call[c].driver] # "open"

\* _drop_driver takes the driver that is at the URI now off the map, which may be a
\* newer one than the query used, and then closes it.
KeepDriver(c) ==  \* a slip
    /\ SetCall(c, [call[c] EXCEPT !.at = "closing"])
    /\ UNCHANGED <<driverAt, driver>>
Drop(c) ==
    LET u == call[c].uri
    IN  /\ SetCall(c, [call[c] EXCEPT !.at = "closing"])
        /\ driverAt' = [driverAt EXCEPT ![u] = 0]
        /\ driver' = [driver EXCEPT ![driverAt[u]] = "closed"]

Lose(c) ==
    \/ /\ driverAt[call[c].uri] # 0
       /\ Drop(c)
       /\ UNCHANGED <<vars, plan, cooling, up, applied>>
    \/ /\ driverAt[call[c].uri] = 0
       /\ Advance(c)

Fail(c) == Failed(c) /\ Lose(c) /\ UNCHANGED outages

Closed(c) == call[c].at = "closing" /\ Advance(c) /\ UNCHANGED outages

-----------------------------------------------------------------------------
\* A server goes away, and every connection to it with it; and it comes back.
Outage(u) ==
    /\ u \in up /\ outages < plan.outages
    /\ up' = up \ {u}
    /\ outages' = outages + 1
    /\ driver' = [d \in Drivers |->
         IF driver[d] = "open"
              /\ \/ driverAt[u] = d
                 \/ \E c \in Clients : call[c].driver = d /\ call[c].uri = u
           THEN "broken" ELSE driver[d]]
    /\ UNCHANGED <<vars, plan, driverAt, cooling, call, applied>>

\* One query times out at a server that is well.
Timeout(c) ==
    /\ call[c].at \in {"asking", "committed"} /\ ~Failed(c)
    /\ outages < plan.outages
    /\ outages' = outages + 1
    /\ Lose(c)

Recover(u) ==
    /\ u \notin up
    /\ up' = up \cup {u}
    /\ UNCHANGED <<vars, plan, driverAt, driver, cooling, outages, call, applied>>

\* The cooldown passes.
CoolDown ==
    /\ cooling
    /\ cooling' = FALSE
    /\ UNCHANGED <<vars, plan, driverAt, driver, up, outages, call, applied>>

ReaderStep(k) ==
    \/ Wake(k) /\ UNCHANGED kgVars
    \/ Query(k) \/ Spare(k) \/ Rows(k) \/ Fail(k) \/ Closed(k)
ProxyStep(p) == Commit(p) \/ Acknowledge(p) \/ Refuse(p) \/ Fail(p) \/ Closed(p)

KgNext ==
    \/ \E k \in Callers : ReaderStep(k)
    \/ \E k \in Callers, key \in plan.keys : (Hit(k, key) \/ Miss(k, key)) /\ UNCHANGED kgVars
    \/ \E p \in Proxies : ProxyStep(p) \/ Submit(p)
    \/ \E c \in Clients : Timeout(c)
    \/ \E u \in 1..URIs : Outage(u) \/ Recover(u)
    \/ CoolDown
    \/ \E key \in Keys : Expire(key) /\ UNCHANGED kgVars

KgSpec == KgInit /\ [][KgNext]_allVars

\* The event loop runs every coroutine that can run, every wait ends (each has a
\* timeout), time passes, and an outage ends.
KgFairSpec ==
    /\ KgSpec
    /\ \A k \in Callers : WF_allVars(ReaderStep(k))
    /\ \A p \in Proxies : WF_allVars(ProxyStep(p))
    /\ WF_allVars((\E key \in Keys : Expire(key)) /\ UNCHANGED kgVars)
    /\ \A u \in 1..URIs : WF_allVars(Recover(u))
    /\ WF_allVars(CoolDown)

-----------------------------------------------------------------------------
(* Properties.                                                             *)

\* A proxied write that was acknowledged is applied, and one that was applied more than
\* once was sent to as many URIs: the answer of the last one hides what the others did.
WriteIsApplied ==
    [][\A p \in Proxies :
         /\ Acknowledge(p) => applied[p] \in 1..call[p].uri
         /\ Refuse(p) => applied[p] < call[p].uri]_allVars

\* Once outages end, every answer is live again: a tripped breaker, a cached snapshot and
\* a broken driver are all left behind (breaker.py 3-7).  With a single URI, whoever fails
\* closes the driver the next one has just made, and takes its own turn after a cooldown:
\* only the lengths of a timeout and of a cooldown, which are not modelled, end that.
Recovers == Cardinality(Usable(1)) > 1 =>
    <>[](/\ ~cooling
         /\ \A i \in DOMAIN store : store[i].fresh => store[i].value = Live)

\* Whoever asks gets an answer or the producer's error.
EveryGetReturns == \A k \in Callers : caller[k].at # "idle" ~> caller[k].at = "idle"
=============================================================================
