# Metahumotonic web back: formal models

TLA+ models of the parts of this repository whose correctness depends on the order
in which things happen: the community wiki's event store, its handlers and its lists,
the rollout of its replicas, their startup and migrations, the ontology release they
serve, the knowledge graph client behind its cache, the MCP registry, the feedback
inbox, the rate limiter, the agent's DAG scheduler, and the tracing core that decides
whether a build may pass. TLC checks small instances of each; TLAPS proves the safety
of the wiki store, of its PostgreSQL implementation and of the handlers over it, of the
rollout, the replicas' migrations and what their clients read, the registry, the feedback
inbox, the rate limiter, the knowledge graph's cache and writes, the trace monitors and
what a build is told, for every value of their constants.

Source paths below are relative to the repository (`app/` is the Python service,
`ts/src/` the TypeScript one, `ops/` the operators' scripts). `PROJECT.json` maps
every definition that models code to the lines it stands for.

To check: `tlc -config MCWikiStore.cfg MCWikiStore.tla` (and so on for each
`MC*.cfg`); `tlapm WikiStoreSafety.tla` and so on for `WikiPostgresProofs`,
`WikiApiProofs`, `OperationsProofs`, `ServiceProofs`, `RateLimitProofs`, `KgProofs` and
`TraceProofs`.


## 1. Inventory

### The wiki (`app/wiki/`, `app/routers/wiki.py`)

| Part | State | Operations | What makes it correct |
|---|---|---|---|
| Kernel, `domain.py` | none: pure functions | `decide`, `evolve`, `replay`, `receipt_fingerprint` | a decision is made on the revision the caller saw; folding a stream gives the page |
| In-memory store, `memory.py` | pages, slug index, streams, receipts, outbox, one lock | `execute`, `resolve_outbox`, reads | a command takes effect once however often it is sent; a slug names one page; streams only grow |
| PostgreSQL store, `postgres.py`, `migrations/wiki/*.sql` | the same in six tables with unique keys and foreign keys; a pool | the same, each in a transaction of several statements; `ensure_schema`; `ping` | does what the in-memory store does under its lock, whatever fails between two statements; no deadlock |
| HTTP handlers, `routers/wiki.py`, `security.py` | none of their own | six mutations that read a page, fill in what the request left out and execute a command; listings, search, diff | what was filled in belongs to the revision the command was decided on; a key never takes a receipt of another intent |

Handlers call the store; the store calls the kernel. All requests share the store;
on PostgreSQL all replicas do. Hard here: retries under the same `Idempotency-Key`,
lost acknowledgements, requests between a handler's read and its command,
transactions that meet the same keys and rows, commits whose client is gone; and on the
reading side lists walked by offset while they change, and answers put together from
several reads while a moderator hides the page.

### Rollout (`ops/`)

`ops/release-web-back-vm100.sh` builds and publishes; on the host
`ops/remote/manage-wiki-rollout.sh` replaces the two replicas (`deploy`), takes them
back (`rollback`) or commits (`finalize`), under the lock of
`manage-wiki-operation-lock.sh`. State: a state file with a status, a schema gate
receipt, a deployment receipt, a pointer to the current deployment, and the
containers with their names. Hard here: the script may die between any two
commands, docker commands fail, and operators start another mode on what is left.
Correct means: until the receipt every prior container survives; after it nothing is
taken back; a recorded end state is whole; an interrupted operation can be completed.

### Feedback inbox (`app/store.py`, `app/routers/feedback.py`, `app/breaker.py`)

State: one Mongo collection, and per replica a bounded deque and a breaker.
Operations: submit, list, triage, erase, each against Mongo or, if that cannot be
reached and durability is not required, against the memory. Hard here: commands that
execute after their caller gave up, two places for one record, operators on two
replicas. Correct means: no success without Mongo where durability is required, and one
of several verdicts wins.

### Rate limiter (`app/ratelimit.py`, `app/breaker.py`)

State: a sorted set in Redis shared by the replicas, a local window, a cached client,
a connection lock and a breaker per replica. Operation: `allow`. Hard here: scores
come from the replicas' clocks and arrive late, a request may be counted and then time
out, connections fail while others queue for the lock. Correct means: the shared limit
holds up to what the clocks and the timeout blur; so does each local one; a failed
connection is not retried by everyone.

### Knowledge graph client, proxy and cache (`app/kg.py`, `app/routers/kg_proxy.py`, `app/cache.py`, `app/breaker.py`)

State: one driver per configured URI shared by all coroutines, a breaker, an LRU store
of answers and an LRU map of locks. Operations: a read through the cache with failover
over the URIs, a raw Cypher query past the cache, a driver's disposal after a failure.
Hard here: a failing call closes a driver that others are using, a write is committed and
its answer lost, locks are evicted while they are held, producers raise. Correct means:
one producer per key as long as the keys fit, an acknowledged write is in the graph,
every caller gets an answer, and every outage is left behind.

### MCP registry (`app/mcp_store.py`, `mcp_manifest.py`, `cli.py`, `app/routers/mcp_registry.py`)

State: one document per server in Mongo, the replica's cache and breaker. Operations: the
writing commands of `mhb-mcp` that concern a server (seed, import, upsert, verify,
remove), its export, and the cached public routes. Hard here: commands of two
operators that read, then write back; probes that take seconds; snapshots that are cached.
Correct means: what an operator said last is what is stored, and readers end up with what
the registry holds.

### Ontology release (`app/ontology.py`, `ontology_web.py`, `app/routers/ontology.py`)

State: a pinned snapshot per process, immutable after start. Operations: validation at
startup, listings with signed cursors, single nodes, whole releases, ETags. Hard here:
two replicas may serve two releases while one client pages through them. Correct means: a
listing a client has collected is of one content digest, and of one snapshot where one
file serves that digest; so is what a 304 stands for; the disputed ninth slot never gets a
default.

### Startup and migrations (`app/main.py`, `app/config.py`, `app/wiki/postgres.py` 46-110, `app/routers/meta.py`)

State: the schema with its table of applied migrations, the advisory lock, how far each
replica's lifespan is. Operations: validate the settings, connect, migrate under the lock,
become ready. Hard here: two releases migrate one database at once and one of them dies; a
database has tables that no migration row tells of; Redis is away at startup. Correct
means: a schema is never half migrated, and a replica that fits becomes ready and stays
so.

### Tracing core (`_vendor/ooptdd/`)

The vendored library by which the project's own test runs are gated. State: monitors fed
event by event, a store that shows accepted events late or never, the polling verifier.
Operations: compile a gate, feed an event, judge a read, poll until present, finish a
pytest session, compare the strength of two gates, mutate a baseline. Hard here: events
out of order, truncated and failing reads, a gate weakened by edits each of which looks
harmless. Correct means: a verdict that was latched is never taken back; green is backed by
what is in the store; an outage never fails a build; weakening is reported.

### Agent scheduler (`ts/src/agent/WorkGraph.ts`, `Scheduler.ts`)

State: the run state (done, running, blocked), outcomes, values, the fibers to join.
Operations: plan and start, join, a fiber's completion or failure, the report. Hard
here: fibers settle in any order and are suspended between the updates by which they
do. Correct means: unrunnable graphs are refused, two writers of a resource never run
together, a node starts with all the values upstream of it, every fate is reported and
is the right one, and a run ends if its nodes do.

### Not modelled

| Part | State and operations | Why not |
|---|---|---|
| Operation lock and release, `ops/release-web-back-vm100.sh`, `manage-wiki-operation-lock.sh` | a lock directory with an owner; the local half of a release | next in the plan; until then `Rollout` takes the lock for granted |
| The vault of the registry, `mcp_vault.py`, `cli.py` `vault-*` | one document: a salt, a verifier, encrypted entries | one update of one document around an external cipher |
| Knowledge-graph writes, `ts/src/ports/KgWritePort.ts` | preflight, batch, readback | in the plan |
| Platform inventory, `ts/src/ports/PlatformInventoryPostgres.ts`, `domain/ObservationIngest.ts` | receipted ingestion under an advisory lock | in the plan |
| Agent loop and traversal, `ts/src/agent/Loop.ts`, `Traversal.ts` | rounds of the scheduler over a frontier with budgets | sequential; in the plan last |
| TypeScript cache, limiter, breaker, feedback store | the same roles as in Python, other mechanics | in the plan, as variants |
| Rendering, middleware, tracing, Turnstile, DTOs, the wiki's clients | stateless | nothing for a model checker to find |
| Provisioning, canary and backup scripts | straight-line, stop at the first error | the same |
| `harness/`, `scripts/`, data | tools | not part of the program |


## 2. Modules

| Module | Models | Composition |
|---|---|---|
| `WikiKernel` | `domain.py`: `Verdict` (decide), `EventOf`, `Evolve`, `Replay`, `Fingerprint`, `EffectsOf` | extended by all wiki modules |
| `WikiStore` | `memory.py`; the abstract specification of any wiki store | extends the kernel |
| `WikiPostgres` | `postgres.py` and the schema's keys | `Store == INSTANCE WikiStore WITH slugToId <- ..., call <- ...`; `ImplementsStore == Store!Spec` |
| `WikiApi` | the mutation handlers of `routers/wiki.py` | extends `WikiStore`: a handler's two halves around the store's actions |
| `WikiReads` | the reading endpoints: lists by offset, history, diff | extends `WikiApi`: readers beside its handlers |
| `Rollout` | `manage-wiki-rollout.sh` | |
| `Feedback` | `store.py` and its routes | |
| `RateLimit` | `ratelimit.py` | |
| `TtlCache` | `cache.py` | a component without a specification of its own |
| `Kg` | `kg.py`, `kg_proxy.py` | extends `TtlCache`: its producers are the client's queries |
| `Registry` | `mcp_store.py`, `mcp_manifest.py`, `cli.py`, the registry's routes | |
| `Ontology`, `OntologyApi` | the contract of a snapshot and its projection; the routes | operators; `OntologyApi` extends `Ontology` |
| `Schema` | `ensure_schema`, `ping` | a component |
| `Replica` | `main.py`'s lifespan, `/ready`, a client of the ontology routes | extends `OntologyApi` and `Schema` |
| `TraceChecks` | what a rule says of a whole trace (`engine/gate.py`, `ontology.py`) | operators, extended by the next three |
| `TraceMonitor` | the monitor classes of `engine/monitor.py`, one event at a time | |
| `GateVerdict` | judging a read, strength, mutants (`gate.py`, `mutation.py`, `cli.py`) | operators |
| `Arrival` | `verify.py`, `plugin.py`, the backends | extends `GateVerdict` |
| `WorkGraph`, `Scheduler` | the pure graph functions; a run | `Scheduler` extends `WorkGraph` |
| `WikiStoreSafety` | the store's types and its safety | extends `WikiStore` |
| `WikiPostgresProofs` | the adapter's safety and its refinement of the store | `Safe == INSTANCE WikiStoreSafety WITH ...`: the store's theorems about the adapter's rows |
| `WikiApiProofs` | the handlers' safety, and that they use the store as its callers do | extends `WikiReads` and `WikiStoreSafety` |
| `OperationsProofs` | the safety of what operators do: of a rollout and of the registry | extends `Rollout` and `Registry`, which share nothing |
| `ServiceProofs` | what clients of several replicas may believe: of the inbox, of an ontology release and its schema | extends `Feedback` and `Replica`, which share nothing |
| `TraceProofs` | the monitors' safety; what a build is told | extends `TraceMonitor` and `Arrival` |
| `RateLimitProofs`, `KgProofs` | the theorems about the module each is named for; `KgProofs` also about `TtlCache` | each extends it |
| `MC...` | model values, small sets, symmetry | |

A definition marked `a slip` is a mistake the code could have made (a dropped guard,
an update at the wrong place). Nothing uses it: it stands before the definition it
belongs to so that the property that rules it out can be seen to fail with it.

### How the models correspond to the code

**WikiStore.** `pages`, `slugToId`, `events`, `receipts`, `outbox` are the five
dictionaries of `memory.py`; `call` is a request inside `execute`. `Execute` is the
body of `execute` under `self._lock`, in its three ways to end: a known command id
(replayed, or `idempotency_conflict` if the intent differs), a rejection, an effect.
A call may also end without an answer, before or after its effect (`Fail`,
`LoseReply`): that is what makes a client retry. Ids derived by `uuid5` and digests
are tagged pairs, which takes them to be collision-free. A title, a text or a note is
a model value; Markdown, lengths, clocks and display names are left out. The commands
offered are those the routers build, with any revision and digest a client might send.
At the API a moderator's actor id is `moderator:<fingerprint>` (`main.py` 56-62) and so
never an author's; the instance of `WikiStore` also lets one actor be both, because
the kernel's check against it (`domain.py` 305) is part of the store's contract.

**WikiPostgres.** One transaction per request; `tx[k].pc` is the next statement. What
the transaction has written follows from how far it is and from the row it read, so
`Commit` applies all its writes at once, and other transactions meet them earlier only
through locks and unique keys (`CommandLocks`, `RowLocks`, `EventKeyTaken`,
`SlugHolder`, `Blockers`). PostgreSQL is modelled as the code uses it, at READ
COMMITTED. `Timeout`, `Disconnect`, `ServerGivesUp` and `LoseReply` are the failures;
a transaction whose client is gone keeps its locks and may still commit, but gives back its
connection. `others` counts the connections that the adapter's other calls hold (reads,
`ping`, `resolve_outbox`): they take no lock a command waits for, and a command that finds
the pool used up waits at `pc = "pool"`.

**WikiApi.** `Handle` is a handler up to the command (read the page by slug, fill in
title, revision and digest, derive the command id from actor and key), then the store's
actions, then `Respond`. Sessions, scopes of a session and limits come before it.

**WikiReads.** A diff is three reads of the store (the page, then each revision), a page
of a history two, every other list one per page; each read is a step of its own, between
which handlers run. Lists are ordered by `occurred_at`, which a handler takes before it
executes its command, so commands can commit in another order than they were stamped. Two
requests stamped in the same microsecond and the search by title are left out. A plan
says who writes what and which surface is read.

**Rollout.** Every docker command and every atomic file replacement is a step of its own;
`mode` and `next` are the script's program counter, `Crash` its death at any point.
`health` can fail and recover by itself. Checks of digests, labels, ports and file modes
compare things a rollout never changes and are left out; `status` mode only reads. `docker
container inspect` is how the script asks whether a container is there, and one that fails
passes for an absence: `overlooked` are the backups that a finalize left behind for that
reason. The scripts run one at a time: that is the operation lock's promise, not proved
here.

**Feedback.** A call's command is on the wire until Mongo executes it, and its caller
can give up (`Fail`) before or after that. `durable` is `feedback_require_durable`,
which every replica shares and which is either from the start. The breaker is open
from a failure until the cooldown is over. Operators name any record that was
submitted, which is more than the inbox shows them. Expiry after a year and
`ensure_indexes` are left out.

**RateLimit.** One key. Time is counted in ticks; the score of a member is the clock
of the replica that sent it, and Redis executes pipelines later and in any order.
Every await on Redis ends within `Timeout`, so time does not pass a request that has
waited that long. `lock` may go to any waiter, which includes asyncio's first come
first served. The key's expiry, `ready()` and `close()` are left out.

**TtlCache, Kg.** One action per stretch between two awaits. A lock is a queue: its
holder, then its waiters. `locks` maps keys to locks and forgets the least recently used;
a forgotten lock lives on with those who hold it or wait for it. A reader's producer
tries the URIs in turn (`Query`, `Rows`, `Fail`, `Closed`), trips the breaker after the
last and answers with the snapshot; the proxy does the same without cache and breaker.
`Timeout` is one query that ends late at a server that is well, `Outage` a server that is
gone. No driver can be made for the URIs that are `unusable` in a plan, and the client goes
on to the next one. What an answer holds is only whether it is live or the snapshot.

**Registry.** Mongo applies one update at a time; an operator's command is interrupted
between any two of its calls. A document is a record, and an absent field is absent, so
that merging is what `$set` does. Time is counted in half-days, which is what staleness
compares. What a credential is replaced by on import, the text formats and the vault are
left out.

**Ontology, OntologyApi.** `Valid` is `validate_snapshot` with its collections,
relationships, conflicts and the rules of the apostles' slots; `Projection` is what the
class of that name answers. Regular expressions and case folding are given as relations on
the texts of the instance. A cursor carries everything its signature
binds it to, so clients only hold cursors that some replica gave them.

**Schema, Replica.** A statement of the migration's transaction is a step; the lock goes
with the connection. A process may die at any step and is restarted by docker. What is
deployed is a record of the settings and of what the image holds. The DDL of 001 is all
`IF NOT EXISTS` and that of 002 is not (`Repeatable`), so tables that no row tells of are
adopted if they are the first's and make the second's fail. At startup a configured Redis
must answer; `/ready` asks for it only where `require_redis` is set.

**TraceChecks, TraceMonitor.** `Holds` reads a rule over the whole trace as the batch
engine does, in the store's order; the monitor's `acc` is the automaton's state. `Rules`
are written specifications: an alias of an operator, an operator left out and a number given
under another name (`aliased`) are kept, since the lint reads what is written. The monitors
and the batch reading normalise them first (`Norm`).

**GateVerdict, Arrival.** One build: the author may edit the gate, the run emits its
events, the store shows, reorders or loses them, and each poll reads all, a truncated part
or nothing. An external rule asks its probe at the last read and again for the verdict, and
the two answers may differ. A summary may be unsigned or forged, which fails a build that
requires signatures, or every build; a driver may raise, which fails a strict one. `Weaken`
are the edits the fingerprints are to notice.

**Scheduler.** Planning, starting and the wait for a fiber have no await between them
and are one step. (The runtime yields only after 2048 operations and a run has at most
16 concurrent nodes, `ts/src/api/Api.ts` 294.) A fiber may be suspended between the
two updates of `markCompleted`, and between reading the state and the two updates of
`markFailed`. Values are not kept, only which nodes had one when a node started. An
exception in a node's own code, which would end the run, is left out.


## 3. Runs

| Run | Bounds | Question |
|---|---|---|
| `wiki_store` | 3 command ids, 2 actors (one also a moderator, one only a moderator), 2 slugs, 2 texts, 1 caller | do stream, projection, receipts, outbox and answers agree over every history? |
| `wiki_postgres` | 3 command ids, 2 callers, 1 slug, a pool of 2, 1 other call | do interleaved transactions do what the store promises? |
| `wiki_api` | 3 keys; 2 handlers on 1 page with lost answers, or handlers, a moderator and a reader on up to 2 pages, 3 or 4 commands, lists of one item | is what a handler fills in, and what a reader is shown, right? |
| `rollout` | 2 replicas, as in production | crashes, failures, operators switching modes |
| `feedback` | 3 calls, 2 replicas, memories of one record | both settings of durability |
| `ratelimit` | 3 requests, 2 replicas, limit 1, window 4, timeout 1, clocks at most 1 apart, time to 4 | both settings of `fail_closed` |
| `kg` | 2 readers, 1 writer, 2 URIs of which 2, 1 or none can be used, up to 2 outages, room for 1 key of 1 or 2 | failover, single-flight, recovery |
| `scheduler` | every graph of 3 nodes over one resource, and five shapes of 4 nodes; 2 at a time | all of section 1's demands on a run |
| `registry` | 2 servers, 2 operators with up to 3 commands each, readers of up to 2 routes, 1 outage | eight meetings of commands and readers |
| `replica` | 2 replicas, up to 3 deployments, 7 databases, 8 snapshots of the real size (43 nodes, 15 relationships, 8 conflicts), two of them with one digest, 3 faults | startup, migrations and paging |
| `trace_monitor` | 42 rules, streams of up to 4 of 7 events in any order | does the automaton agree with the batch reading? |
| `arrival` | 8 gates, no probe or 4 answers of one, 2 polls, 2 edits, 3 events; or a session of 2 tests | what may a build conclude? |


Why the bounds are enough to be interesting:

* *wiki_store*: `execute` is atomic, so one caller loses no order of effects (a
  second one would only permute answers). Three commands suffice to create, edit or
  moderate, and act again on the result, or to let two pages compete for a slug; a
  command that has a receipt can be sent any number of times, with the same or
  another intent.
* *wiki_postgres*: two transactions are enough for every pairwise conflict on command id,
  row, event key and slug. Three command ids let a third command meet what the first two
  left. The pool of two is the number of callers, and while another call holds one of its
  connections the two compete for the other: one then waits for a connection while the
  other waits for a lock, or holds one. `NoDeadlock` quantifies over sets of callers.
* *wiki_api*: an edit of another handler fits between the read and the command; a list
  with a limit of one has a page boundary at every item.
* *rollout*: the number of replicas is the real one, and the proofs cover any.
* *ratelimit*: the bound `Window - Blur` with `Blur = Timeout + Skew` in
  `SharedLimitHolds` (part of `LimitsHold`) is exact: with a blur one tick smaller TLC
  finds a violation. `Horizon = Window` reaches the edge where a hit is exactly one window
  old.
* *kg*: with room for one key, every other key evicts. `Roomy`, the condition of
  `OneProducer`, then holds as long as one key was asked for, and keys that fit do not
  affect each other. Two outages can take both URIs away, together or in turn; with one
  outage a client of a single usable URI fails over to the snapshot, and with no usable URI
  it has nothing else.
* *registry*: any two of the writing commands meet in some plan, each plan with a server
  that both touch; a third operator could only meet one of them at a time.
* *replica*: the snapshot has its real size because the contract fixes it. Two replicas
  are two releases at once; three faults let both crash and one be replaced. The snapshot
  that shares a digest with another differs from it in what a page holds, so cursors and
  ETags do cross in the run.
* *trace_monitor*: the rules here can latch within three events, so that a fourth may
  contradict them; there are ties, missing timestamps and late events among the seven.
  `SettledIsFinal` is proved for any stream.
* *arrival*: two polls can fail, be truncated or be clean in every order; two edits
  suffice to hide one behind another. Among the gates is one whose counts omit the operator
  or use the name `target`, and one with absent rules of its own, one of them advisory.
* *scheduler*: cycles, dangling edges, shared resources and blocked chains all appear
  among three nodes; four are needed for a diamond and for a writer that waits while
  others start.

What the properties say is in the comment before each; the ones that take the most
to break:

* `ImplementsStore` (`wiki_postgres`): the statement-by-statement transactions
  implement `WikiStore` under the refinement mapping in `WikiPostgres`.
* `NoConflictBehindLocks`: behind the advisory lock and the row lock no statement
  meets a taken key or a moved version; only two creates of one slug reach a
  constraint.
* `NoStaleDecision`, `OutboxMatchesStreams`, `ProjectionIsReplay` (`wiki_store`).
* `EditKeepsTitle` (`wiki_api`): an edit without a title keeps the title of the
  revision it replaces although the handler read it earlier.
* `WalksMissNothing` (`wiki_api`): a client that walks a list by offset while pages are
  created and edited is shown everything that was there from the beginning to the end,
  unless a page left the list or fell back in it (see the deviations).
* `NothingHiddenIsShown` (`wiki_api`): a diff is of a page that is public at its last read.
* `OrdersComplete` (`rollout`): once failures stop, what was committed is finished and what
  was begun to be rolled back is restored.
* `LimitsHold` (`ratelimit`), `OneVerdict` and `SuccessIsDurable` (`feedback`).
* `FatesAreRight`, `RunsAsPlanned` (`scheduler`).
* `Recovers`, `EveryGetReturns` (`kg`): a closed driver, a tripped breaker and a cached
  snapshot are all left behind, and no waiter is forgotten with its evicted lock.
* `EditsSurvive`, `ReadersCatchUp` (`registry`): `clashed` names the servers that a
  read-modify-write has overtaken; every other document is what was last said of it.
* `ClientsSeeOneRelease`, `SchemaIsWhole`, `FittingBecomesReady` (`replica`).
* `OutcomeIsWhole` (`rollout`): a finished rollout has a whole set of candidates, and no
  backup but those a failing inspect did not show.
* `SettledIsFinal`, `CollapseIsTheRule` (`trace_monitor`).
* `GreenIsBacked`, `OutageIsNoMiss`, `WeakeningIsSeen` (`arrival`). The last has two parts.
  `WeakeningIsReported`: edits show in the fingerprint, and if nothing that can fail is left,
  in the lint too, provided each count is written the one way the lint reads. And
  `NoMutantSurvives`: a gate whose rules all ask for something, or forbid errors by a rule
  that gates, is not green on any mutant of the events it was green on, so dropping,
  corrupting or injecting one is noticed.

### Fairness

Safety runs assume none. Otherwise:

* `rollout`: a script that runs goes on, an operator runs an interrupted finalize or
  rollback again (`docs/OPERATIONS_VM100.md` tells him to), a container that runs gets
  healthy. `Settles` is the hypothesis that from some time on no script dies, nothing
  fails and nobody changes direction.
* `kg`: the event loop runs every coroutine that can run, every query ends (each has a
  timeout), entries expire, the breaker's pause passes and an outage ends.
* `registry`: operators finish what they have begun, clients keep asking, entries expire,
  the breaker's pause and outages end.
* `replica`: a lifespan goes on and docker restarts what is down (weak); PostgreSQL serves
  its lock queue in order (strong, for taking the lock); what is away comes back.
* `scheduler`: the runtime runs every fiber that can run, and every node's work ends.

### Where the system may stop

`CHECK_DEADLOCK FALSE` is set where a bounded model runs out of work: all command ids
used and nobody asking (`WikiStore`, `WikiPostgres`, `WikiReads`), all calls answered
(`Feedback`), time at the horizon (`RateLimit`), a run reported (`Scheduler`), a plan
carried out (`Registry`, `Replica`), a stream of its length (`TraceMonitor`), a build
judged (`Arrival`). `rollout` and `kg` are checked for deadlock.


## 4. Deviations

Where the code does something else than a comment or a document says, or than a reader
would expect. The models follow the code, and no property claims the contrary.

*Wiki.* A retry of a committed request that left out the title (or the revision of a
submission) is filled in from the newer page, becomes another intent and is answered
`idempotency_conflict`, where `docs/WIKI.md` 31-32 promises a replay (`routers/wiki.py`
711 and 810); its effect is not duplicated. `updated_at` can decrease, since a command
that was stamped earlier may commit later: the page then falls back in the list, and an
offset walk under way may miss another page. That is the proviso of `WalksMissNothing`;
without it TLC finds the walk.

*Rollout.* `docker container inspect` is used as a test for a container's presence, and a
failing one is taken for an absence. A finalize may so reach DONE with a backup still
there (`manage-wiki-rollout.sh` 336 and 343): hence `overlooked` in `DoneIsWhole`. In
`deploy` the test that no backup exists is `! docker container inspect` under `set -e`,
which never stops the script (188-189). A rollback of a rollout in FINALIZING records
nothing until it is over (`manage-wiki-rollout.sh` 276-303). If it dies after removing a
candidate, a later finalize commits the durable receipt (316-328) before it looks at the
candidates (340), and from then on rollback is refused and finalize fails its validation;
`docs/OPERATIONS_VM100.md` 204-206 says both modes validate the containers.
`OrdersComplete` therefore asks that the candidates run when the receipt is committed.

*Feedback.* An insert that Mongo applied but did not acknowledge leaves a second copy in
the replica's memory; erasing the record removes Mongo's and answers 204 without looking
at the memory (`store.py` 125 and 222-226, against "permanently erase" in 218).

*Limiter, cache, breaker, scheduler.* A breaker lets every caller retry once its cooldown
is over, not one (`breaker.py` 5-6 and 23). A cache lock that was evicted while held lets a
second producer in (`cache.py` 48 and 62; `Roomy` excludes it). A denied request counts
until a second command has removed it (`ratelimit.py` 182-183). The scheduler's loop joins
its oldest fiber, where its comment says the first to complete (`Scheduler.ts` 146, 171).

*Knowledge graph.* A proxied write that is refused with 502 may have been applied at an
earlier URI (`kg.py` 398); a node that is asked for during an outage is answered "not
found"; `/api/stats` and `/api/domains` are cached apart and can disagree. A coroutine that
fails closes the driver that others have got, or have just made anew (`kg.py` 323-328). With
two usable URIs they recover on the other one, and `Recovers` is stated for that case; with a
single one TLC finds coroutines that close each other's new driver for ever, which in
production the lengths of the timeout and of the cooldown end.

*Registry.* An upsert or an import writes back the document it read, over a probe or an
edit in between, and can bring a removed server back (`cli.py` 411-419); `clashed` marks
these. Seeding an exported manifest makes inferred capabilities declared ones.

*Ontology and startup.* ETags and cursors are bound to the pinned `content_sha256`, which is
never recomputed over the snapshot (`docs/ONTOLOGY.md` 17-22), nor bound to the code that
shapes an answer. So a release that changes only code keeps them, and so does a reissued
snapshot under the old digest: a listing may then have pages of both files, and a 304 may
stand for the other's bytes. `ClientsSeeOneRelease` claims no more than that. Two
phases with one name, and a conflict whose subject is null, pass the validation. A snapshot
the web mapping refuses leaves `/ready` at 200 while `/apostles` answers 503. A release
whose migrations are behind the database can neither start nor stay ready. Tables of the
first migration that no row tells of are adopted and recorded, whatever columns they have
(`postgres.py` 83-94). A replica that takes public writes and whose `redis_url` is set does
not start without Redis even if `require_redis` is off (`main.py` 132-142), while `/ready`
would not ask for it.

*Tracing core.* `verify_policy` fails a strict build on `absent` after a truncated read
that was followed by a failed one, although no read was clean (`verify.py` 193-205, 286).
"A gate must assert something that can FAIL to be a clean pass" (`gate.py` 602), but only
a count `>=` a floor of zero or less is taken for one that cannot (`monitor.py` 178): a
count `> -1`, a list of nothing that must be present, a gate of weight 0 or a threshold of
0 is green on an empty store and not reported as vacuous. `GateIsBacked` speaks of rules
that are `Asking` for something for that reason. The lint calls a count blocking only if
its operator is literally `>=` and its number is given as `count` or `want` (807-808): it
misses an operator that is left out, which means `>=` (`monitor.py` 610), an alias such as
`gte`, and a number given as `target`. Comparing strengths does not look at external,
metamorphic and bounded rules (854). An advisory absent rule makes the mutation report
inject an error that no gating rule can kill (`mutation.py` 43-53), and two rules whose
mutants have one label have one mutant. An external rule with an ordering operator raises
on a probe without a value (`gate.py` 287), and any exception in the verify path fails a
strict build (`verify.py` 407-415): `OutageIsNoMiss` leaves verdict `error` out, since the
shipped drivers report an outage and do not raise. `stream_key` says untimed events are
read first (`monitor.py` 95); its code reads them last, and so do the models. `within` of
an order and `!=` of a count never latch, even when the outcome is settled. With several
reports per test the number of outcomes can hide a lost test.


## 5. Proofs

All theorems hold for any value of the constants, under the named assumptions of the
modules only. Constants are of their sorts (`PrincipalsAreActors`, `CommandIdsAreDigests`,
`NIsPositive`, `PoolSizeIsPositive`, `LimitsArePositive`, `MaxEntriesIsPositive`,
`SomeURI`, `PlansAreAboutKeys`); `None` and names with a role are none of the values they
stand beside (`NoneIsFresh`, `NoneIsNoReceipt`, `RedisIsNoReplica`); the proxy's
coroutines are not the cache's (`ProxiesAreNoReaders`); and finitely many coroutines use a
cache (`CallersAreFinite`), which is what makes the keys they ask for countable. What a
run is given is also well formed: a plan of the registry says of every server whether it
is there (`PlansNameServers`); a build's reports and a snapshot's rows are finitely many,
so that they can be counted and paged through (`ReportsAreFinite`, `SnapshotsAreFinite`),
a client's first request of a listing carries no cursor (`RequestsAreFresh`), and no
cursor is null (`NullIsNoCursor`). TLC evaluates each of them in a run but the last, which
is a hypothesis of `ClientsAlwaysSeeOneRelease` since it is about every record a cursor
can be. Leaves are kept small: each cites the few facts it needs and is proved in about a
second.

**WikiStore** (`WikiStoreSafety`). `TypeCorrectness` proves
`[]TypeOK` from `Typed`, which adds that every pending call carries a command a router
could have built. `Invariance` proves `[]IInv`. Its conjuncts, and why each is needed:

* `VersionsCount`: `pages[p].version` is the length of the stream, so the event that
  `ExecuteAccepted` appends and the receipt that names it are at the same index;
* `PagesHaveReceipts`, `EffectsHaveReceipts`: ids are derived from command ids, so a
  command without a receipt meets neither its own page nor its own effect;
* `LastEventRules`: the page's head and moderation status are those of the last event,
  which turns a check of the projection into a fact about the stream;
* then `EffectOncePerCommand`, `AnswersAgree`, `SlugsAreUnique`, `QuarantineHolds`,
  which are inductive only together with the former.

The step lemmas first say what an accepted command does to its page and its stream
(`AcceptedState`, `AcceptedPage`, `AcceptedChanges`), and then, one lemma per conjunct,
that it keeps it. `HistoryNeverRewritten` proves the action property from the same
invariant.

Two layers stand on it. `DecisionInvariance` adds `HeadIsLastRevision`: `NoStaleDecision`
looks into the middle of a stream for the head an event was decided on, while the code
compares with the page, and only an invariant that names the position of the head's
revision connects the two. `OutboxMatchesStreams` is inductive with it. The other layer is
`ProjectionAlwaysReplays`. `Replay` is a recursive function, and no induction theorem that
takes an operator can be used here; but a fold is a function on `0..n`, so that folds exist
and that any two of them agree are claims about a least counterexample, which the
well-foundedness of `<` on the naturals gives (`FoldExists`, `FoldsAgree`). From these
`ReplayAppend` says that one event more is one `Evolve` more, and the rest is the step
lemma of every other conjunct.

**WikiPostgres** (`WikiPostgresProofs`), for any callers, commands and pool. The invariant
is `TxInv /\ Safe!IInv`, where `Safe` is `WikiStoreSafety` read through the refinement
mapping. `TxInv` says what a transaction knows at each statement: that what it decided on
still stands while it writes (`DecisionStands`), that what it is about to answer is what it
has written, or a reason that still holds (`CommitStands`, `AbortStands`), and that two
transactions share no command id, row or new slug (`Apart`). Neither half is inductive
alone: a decision stands because events and pages fit together, and these do because
commits carry decisions that stand. So a step is proved in this order: with both halves it
is a step of the store or a stutter (`AdapterStep`, one lemma per action), `IInvStep` of
the store then gives `Safe!IInv'` without looking at the adapter, and `TxInv'` follows.

* `Refinement`: `Spec => ImplementsStore`.
* `NoConflictEver`: from `DecisionStands` and `Apart`.
* `NeverDeadlocked`, for any number of other calls: who waits for a connection holds
  nothing, who waits for a command's lock holds only a connection, who waits for a row
  holds no row, and who waits for a slug waits for requests that wait for nobody any more.
  `NoDeadlock` is about nonempty sets of callers only, since the empty one waits for
  itself vacuously.
* `InheritsSafety`, `InheritsDecisions`: whatever was proved of the store holds of the
  rows PostgreSQL has committed.

**WikiApi** (`WikiApiProofs`), for any clients, keys, pages and texts, and whatever readers
do meanwhile. `HandlersUseTheStore` is `ReadsSpec => Spec`: a handler builds only commands
that a caller of the store may ask for, so every theorem above holds under the handlers.
That uses the invariant (a handler that is idle has no call, a page is stored under its
id), and so the order is as for PostgreSQL: `ApiInv` makes a step one of the store, the
store's own lemmas give the store's half of `ApiInv'`, and the rest follows.

* `TitlesAreKept`: a handler fills in the title from a page that may have changed by the
  time the store decides. `TitleFits` says why that is harmless: the title is right *as long
  as* the revision the edit names is the head. When the head moves away the condition becomes
  false for good, because `RevisionsAreMade` (every revision in the store comes from a command
  with a receipt) and `EffectOncePerCommand` leave no way to make a revision twice; and while
  it is the head, `TitleIsOfHead` ties the page's title to the stream.
* `AnswersAreToTheRequest`: `EarnedInOrder` says that a receipt's fingerprint has what the
  request that earned it named, `HandlersInOrder` the same of a pending command, and
  `AnswersAgree` that the two have one fingerprint. That two requests of one actor and one
  kind have the same scopes follows from the kind's scope being in exactly one of the two
  sets.

**Rollout** (`OperationsProofs`), for any number of replicas. `IInv` says what the script
knows at each next command, per mode (`DeployKnows`, `RollbackKnows`, `FinalizeKnows`),
and that the status is never further from the receipt than one step (`StatusKnows`). A
crash only gives up what a mode knows, which is why it keeps the invariant. An inspect tells
less than it seems to: what a finalize knows of the backups it has passed is only that each
is gone or was overlooked.
`PriorsAreKept`, `OutcomesAreWhole` and `BoundaryIsClosed` follow.

**Registry** (`OperationsProofs`), for any operators, servers and commands. The invariant
is `EditsSurvive` with the domains of `docs` and `word`. A write lays the same fields over
a document and over what was said of it, so what agreed still does (`Over`); a write-back
lays them over the copy, and either the copy is still the document, or the server joins
`clashed`. What needs care is an import: it says of a known server only how to reach it,
but writes back all of the copy, and `Said` keeps the two apart.

**Startup** (`ServiceProofs`), for any replicas, releases and databases.
`SchemaStaysWhole`: what a transaction has done is its own until it commits, and it commits
only a schema that is current for its release, so a death or a timeout between any two
statements leaves the tables as they were. Adopted tables need no case of their own: they are
behind a row when the transaction that adopts them commits, and the others that were there
before stay what they were. The invariant adds only that what a replica runs
is one of the plan's releases.

**A client of the ontology** (`ServiceProofs`), for any replicas, releases, snapshots and
requests. `ClientInv` says what everything the client holds is good for: the pages of the
walk under way are of one content digest and, as long as one file has served them, the
beginning of that file's listing (`WalkKnows`), every representation it cached is what its
release answers (`CachedKnows`), and the last 304 was current (`NotModifiedIsCurrent`). A
cursor or an ETag names a content digest and a key; a replica accepts it only for its own.
Nothing is assumed of what a digest says of the bytes: two snapshots may share one, and
`walk.from` remembers which files answered. That a page begins where the last one ended is
a fact about `Page` that no induction is needed for, since a cursor carries its offset.

**Feedback** (`ServiceProofs`), for any calls and replicas. An answer is given long after
the command was executed, and commands are executed after their callers are gone, so what
an answer rests on must be something no other command can undo. That is `EffectStands`: a
record only moves forward (absent, new, reviewed, archived or rejected, erased), so what a
command that matched has left is its own status or a later one. `WireOK` says where each
command is and that a submission's record does not exist before it. With them
`SuccessIsAlwaysDurable` is about one call; `OneVerdictOnly` also needs `OneJudge`, that
of all commands, answered or not, one archived or rejected a record. Steps that change only
who waits for what are all instances of one lemma (`CallsAdvance`).

**RateLimit** (`RateLimitProofs`), for any requests, replicas, limit, window, timeout,
cooldown and skew. The limits are bounds on sets of past admissions, and what the code
compares is the size of a window from which old entries are removed. The invariant ties
the two: whoever was let through stays in the window for as long as a later request could
share a span with him (`RedisRemembers`, `ReplicaRemembers`), so the later request counts
him. In Redis the scores are the replicas' clocks and a pipeline executes up to a timeout
after it was stamped, which `SentOnTime` bounds and `Blur` sums up. The limits are proved
for `Granted`, the admitted and those who were counted and wait to hear of it: the former
alone are not inductive. `GrantedOnce` turns a count of admissions into a count of requests.
`ReconnectsInOrder` follows from `ConnectionsInOrder`: who connects holds the lock and
began after the cooldown of the failure that is remembered.

**Kg, TtlCache** (`KgProofs`), for any coroutines, keys, room, URIs and outages.

* `SingleFlight`: `MapsInOrder` (the two ordered dictionaries have each key once, and
  nothing that was never asked for), `QueuesInOrder` (who produces is the first in the
  queue of his lock) and `LocksStay` (while there is room, the map still has the lock of
  everyone who uses one). A key is added to a map of keys that were asked for, and if these
  fit, so do they with the new one: a pigeonhole argument over the map's positions
  (`ImageIsNoLarger`). So no lock is evicted, all who use a key queue at one lock, and the
  first is one.
* `AcknowledgedIsApplied`: `WritesCounted` says how often a write was applied, told from
  where its query is.

**TraceMonitor** (`TraceProofs`), for any rules, any events and streams of any
length. `IInv` adds to `SettledIsFinal` what each class's accumulator has and which classes
latch at all (`AccOK`, `Latching`); without the latter a class that never latches would
have to be proved final. There is one lemma per class of monitor, each by the same
argument: the accumulator only ever moves away from the other verdict. It needs that
`None` is no number and that every event has a time or none (`NoneIsNoNumber`,
`EventsAreTimed`).

**Arrival** (`TraceProofs`), for any gates, probes, events, reports and any number of polls.
`OutageIsNeverAMiss` needs of the past only that nothing is decided before the poll that
concludes (`Undecided`), and that one speaks of the read it has just made.
`GreenIsAlwaysBacked` is about a store that goes on showing records after the verdict, so
the claim has to survive them: a session's outcomes are places in the store and can only
become more, and a gate's `Growing` rules are those that a longer trace cannot break.
`Shipped` says that the store is a sequence of what a run can ship. A green read is clean,
and a clean read is the whole store (`AnswersAreHonest`), which ties the verdict to the
store at that moment.

Proved, but not in a run any more: the types of `WikiStore` and `Rollout`,
`SlugsAreUnique` and `HistoryIsAppendOnly`.

Only model-checked:

* liveness, since fairness and ENABLED are out of the provers' reach: `OrdersComplete`,
  `RunEnds`, `Recovers`, `EveryGetReturns`, `ReadersCatchUp`, `FittingBecomesReady`;
* `CollapseIsTheRule`, `RunsAsPlanned` and `FatesAreRight`: the batch reading sorts and folds
  traces, and a plan is a fold over a graph. What these compute for every input needs an
  induction of its own for each fold;
* the readers of the wiki, whose lists are ranked sets and filtered sequences
  (`WalksMissNothing`, `NothingHiddenIsShown`), and `NoDefaultForTheDisputed`, about ranked
  search results;
* `WeakeningIsSeen`, whose strengths are sums over the rules of a gate, and
  `NoMutantSurvives`, whose mutants are filtered sequences.


## 6. Plan

In order of what a failure would cost. Done: the wiki store with its proofs, its
PostgreSQL implementation with the proof that it is one, its handlers with their proofs
and its readers; the rollout with its proofs; startup, migrations and the ontology with
theirs, and the registry with its; the knowledge graph client over its cache, feedback and
the limiter with the proofs of their safety; the scheduler; the tracing core with the
proofs of its monitors and of what a build is told.

Proofs to come: `NoDefaultForTheDisputed` and `NoMutantSurvives`, once the lists they are
about are stated by what is in them and not by how they are put together; the wiki's
readers.

Models to come:

1. `OperationLock` and the local half of a release, composed with `Rollout`: the trap of
   `release-web-back-vm100.sh` (line 104) releases the lock when ssh dies although the
   remote script may still run, and a death between `mkdir` and the owner file leaves a
   lock nobody can release. Does the rollout's safety survive two scripts at once?
2. `KgWrite`: intents through preflight, batch and readback (`KgWritePort.ts`). The
   statements of a batch are sent one by one without a transaction, so a failure in the
   middle leaves a part of it behind (266); a receipt tells `missing` from a readback that
   another writer may already have changed.
3. `Inventory`: receipted ingestion under the advisory lock; the same shape of abstract
   specification as `WikiStore`, effect once per batch.
4. The TypeScript limiter (one script instead of a pipeline and a removal), cache and
   feedback store, as further ways to implement what the Python models state.
5. `AgentLoop` over `Scheduler`'s report: rounds, budgets, the bounded walk of
   `Traversal.ts`.
