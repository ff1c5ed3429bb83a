-------------------------------- MODULE Registry --------------------------------
(***************************************************************************)
(* The MCP registry: a Mongo collection that operators edit with mhb-mcp   *)
(* (app/cli.py) and the web back end reads through a cache                 *)
(* (app/mcp_store.py, app/mcp_manifest.py, app/routers/mcp_registry.py).   *)
(* The vault, one document replaced at once, is left out.                  *)
(*                                                                         *)
(* A server's document is a record whose absent fields are missing from    *)
(* its DOMAIN.  Mongo applies each update to one document at once, and     *)
(* operators interleave between any two of their calls.  Time is counted   *)
(* in half-days; a date is the first half of its day.  What a credential   *)
(* is replaced by on import, and the date in the meta document, which      *)
(* nothing reads, are left out.                                            *)
(***************************************************************************)
EXTENDS Integers, SequencesExt

CONSTANTS
    Order,        \* the names of servers, sorted
    Operators,    \* runs of mhb-mcp
    Null,         \* None
    Category,     \* infer_category, a function on names
    Plans         \* bound: the documents at first, the commands, requests and faults

\* A plan says of every server whether there is a document.
ASSUME PlansNameServers == \A p \in Plans : Range(Order) \subseteq DOMAIN p.docs

VARIABLES
    plan,
    docs,       \* the collection: name -> document, or Null
    op,         \* each operator: its commands, how far the first one is, what it has read
    exported,   \* the manifest of the last export
    now,
    up,         \* whether Mongo is there
    outages,
    cooling,    \* the reader's breaker is open
    cache,      \* the router's cache: key -> answer, or Null
    asking,     \* the routes whose producer is under way
    answer,     \* what each route answered last
    word,       \* history: what was last said of each field of each server
    clashed     \* history: the servers a read-modify-write has put back

readerVars == <<cooling, cache, asking, answer>>
history == <<word, clashed>>
registryVars == <<plan, docs, op, exported, now, up, outages, readerVars, history>>

Get(r, field) == IF field \in DOMAIN r THEN r[field] ELSE Null
Only(r, fields) == Restrict(r, fields \cap DOMAIN r)
Over(new, old) ==
    [f \in DOMAIN new \cup DOMAIN old |-> IF f \in DOMAIN new THEN new[f] ELSE old[f]]
Today == now - (now % 2)
Names == Range(Order)
Sorted(S) == SelectSeq(Order, LAMBDA n : n \in S)

-----------------------------------------------------------------------------
(* cli.py: what an entry of a client's configuration becomes. *)

IsHttp(cfg) == cfg.url # Null \/ cfg.type \in {"http", "sse", "streamable-http"}
LocalRunners == {"npx", "uvx", "uv", "node", "deno", "bun"}
Connection(cfg) ==
    IF IsHttp(cfg) THEN [recipe |-> "http", target |-> cfg.url, placeholders |-> cfg.secret]
    ELSE IF cfg.command = "ssh"
      THEN [recipe |-> "ssh-stdio", target |-> cfg.alias, placeholders |-> cfg.secret]
    ELSE [recipe |-> IF cfg.port # Null THEN "local-tunnel"
                     ELSE IF cfg.command \in LocalRunners THEN "local-npx" ELSE "local-command",
          target |-> cfg.port, placeholders |-> cfg.secret]

\* What an import says of a server: of a known one only how to reach it.
Entire(n, cfg) ==
    [transport |-> IF IsHttp(cfg) THEN "http" ELSE "stdio", connection |-> Connection(cfg),
     category |-> Category[n], status |-> "available", description |-> "Imported"]
SaysTheCategory(n, existing, cfg) ==  \* a slip
    IF existing = Null THEN Entire(n, cfg)
    ELSE Only(Entire(n, cfg), {"transport", "connection", "category"})
Imported(n, existing, cfg) ==
    IF existing = Null THEN Entire(n, cfg)
    ELSE Only(Entire(n, cfg), {"transport", "connection"}
                                \cup (IF Get(existing, "category") = Null THEN {"category"} ELSE {}))

\* What an upsert says: a status only where there is none.
Upserted(existing, fields) ==
    IF existing # Null /\ "status" \in DOMAIN existing THEN fields
    ELSE fields @@ [status |-> "available"]

\* probe_server: any outcome where there is something to probe.
Outcomes(doc) ==
    LET c == Get(doc, "connection")
    IN  IF c # Null /\ c.recipe \in {"local-tunnel", "http", "ssh-stdio"} /\ c.target # Null
          THEN {"ok", "fail"} ELSE {"skip"}
\* _record_probe: what an outcome says.
Probed(outcome) ==
    CASE outcome = "ok"   -> [status |-> "verified", verified_at |-> Today, last_probe_at |-> now]
      [] outcome = "fail" -> [status |-> "unreachable", last_probe_at |-> now]
      [] outcome = "skip" -> <<>>

-----------------------------------------------------------------------------
(* mcp_manifest.py *)

PublicFields ==
    {"description", "category", "transport", "status", "verified_at", "last_probe_at"}
CapabilitiesOf(doc) ==
    IF Get(doc, "capabilities") # Null THEN doc.capabilities
    ELSE <<"default", Get(doc, "category")>>
AuthOf(doc) ==
    LET c == Get(doc, "connection")
    IN  IF Get(doc, "auth") # Null THEN doc.auth
        ELSE IF c # Null /\ c.placeholders THEN "operator-managed" ELSE "none"
Enriched(doc) ==
    Only(doc, PublicFields)
      @@ [capabilities |-> CapabilitiesOf(doc), auth |-> AuthOf(doc)]

Listed == {n \in Names : docs[n] # Null}
Manifest == [n \in Listed |-> Enriched(docs[n])]

\* cmd_export leaves out the bookkeeping and dates the manifest itself.
Exportable(doc) == Only(doc, DOMAIN doc \ {"last_probe_at"})

-----------------------------------------------------------------------------
(* The operators. *)

Commands(o) == op[o].todo
Command(o) == Head(op[o].todo)
Runs(o, do) == op[o].at = do /\ up

\* The command's next step; the next command; and its end in an error.
GoTo(o, at, names, copy) == op' = [op EXCEPT ![o] = [@ EXCEPT !.at = at, !.names = names, !.copy = copy]]
Done(o) == op' = [op EXCEPT ![o] = [todo |-> Tail(@.todo), at |-> "off", names |-> <<>>, copy |-> Null]]
NextName(o, at) ==
    LET rest == Tail(op[o].names)
    IN  IF rest = <<>> THEN Done(o) ELSE GoTo(o, at, rest, op[o].copy)

\* $set with upsert: what the operator writes, and what of it the command says.
Write(n, fields, says) ==
    /\ docs' = [docs EXCEPT ![n] = IF @ = Null THEN fields ELSE Over(fields, @)]
    /\ word' = [word EXCEPT ![n] = IF @ = Null THEN says ELSE Over(says, @)]

Subjects(c) ==
    CASE c.do = "seed"   -> c.names
      [] c.do = "import" -> Sorted(DOMAIN c.configs)
      [] c.do = "verify" -> IF c.name # Null THEN <<c.name>> ELSE <<>>
      [] c.do \in {"upsert", "remove"} -> <<c.name>>
      [] OTHER -> <<>>

\* A command begins; one that cannot go on (no such server, nothing exported) ends at once.
Begin(o) ==
    /\ op[o].at = "off" /\ Commands(o) # <<>> /\ up
    /\ LET c == Command(o)
       IN  CASE c.do = "verify" ->
                  LET targets == IF c.name = Null THEN Listed ELSE {c.name} \cap Listed
                  IN  IF targets = {} THEN Done(o)
                      ELSE GoTo(o, "probe", Sorted(targets), docs)
             [] c.do = "reseed" ->
                  IF exported = Null \/ DOMAIN exported = {} THEN Done(o)
                  ELSE GoTo(o, "seed", Sorted(DOMAIN exported), Null)
             [] c.do \in {"import", "upsert"} -> GoTo(o, "read", Subjects(c), Null)
             [] OTHER -> GoTo(o, c.do, Subjects(c), Null)
    /\ UNCHANGED <<plan, docs, exported, now, up, outages, readerVars, history>>

\* cmd_seed: one update a server, up to an entry without a name.
Entry(c, n) == IF c.do = "reseed" THEN exported[n] ELSE c.entries[n]
Seed(o) ==
    /\ Runs(o, "seed")
    /\ LET n == Head(op[o].names)
       IN  IF n = Null THEN Done(o) /\ UNCHANGED <<docs, word>>
           ELSE /\ Write(n, Entry(Command(o), n), Entry(Command(o), n))
                /\ NextName(o, "seed")
    /\ UNCHANGED <<plan, exported, now, up, outages, readerVars, clashed>>

\* cmd_upsert, cmd_import: read the document ...
Read(o) ==
    /\ Runs(o, "read")
    /\ GoTo(o, "write", op[o].names, docs[Head(op[o].names)])
    /\ UNCHANGED <<plan, docs, exported, now, up, outages, readerVars, history>>

\* ... and write all of it back with what the command says.
Says(c, n, existing) ==
    IF c.do = "import" THEN Imported(n, existing, c.configs[n]) ELSE Upserted(existing, c.fields)
\* What of it counts as said: an import is not about the curated fields of a known server.
Said(c, existing, says) ==
    IF c.do # "import" \/ existing = Null THEN says
    ELSE Only(says, {f \in DOMAIN says :
                       f \in {"transport", "connection"} \/ Get(existing, f) = Null})
WriteBack(o) ==
    /\ Runs(o, "write")
    /\ LET n    == Head(op[o].names)
           copy == op[o].copy
           says == Says(Command(o), n, copy)
       IN  /\ Write(n, IF copy = Null THEN says ELSE Over(says, copy),
                    Said(Command(o), copy, says))
           /\ clashed' = IF copy = docs[n] THEN clashed ELSE clashed \cup {n}
           /\ NextName(o, "read")
    /\ UNCHANGED <<plan, exported, now, up, outages, readerVars>>

RemoveServer(o) ==
    /\ Runs(o, "remove")
    /\ LET n == Command(o).name
       IN  /\ docs' = [docs EXCEPT ![n] = Null]
           /\ word' = [word EXCEPT ![n] = Null]
           /\ Done(o)
    /\ UNCHANGED <<plan, exported, now, up, outages, readerVars, clashed>>

\* cmd_verify: probe what was read at first, record it where the server still is.
RecordsAnyway(n, says) ==  \* a slip: nobody said that the server is back
    /\ docs' = [docs EXCEPT ![n] = IF @ = Null THEN says ELSE Over(says, @)]
    /\ word' = IF word[n] = Null THEN word ELSE [word EXCEPT ![n] = Over(says, @)]
Record(n, says) ==
    IF docs[n] = Null THEN UNCHANGED <<docs, word>> ELSE Write(n, says, says)
Verify(o) ==
    /\ Runs(o, "probe")
    /\ LET n == Head(op[o].names)
       IN  \E outcome \in Outcomes(op[o].copy[n]) :
             /\ Record(n, Probed(outcome))
             /\ NextName(o, "probe")
    /\ UNCHANGED <<plan, exported, now, up, outages, readerVars, clashed>>

Export(o) ==
    /\ Runs(o, "export")
    /\ exported' = [n \in Listed |-> Enriched(Exportable(docs[n]))]
    /\ Done(o)
    /\ UNCHANGED <<plan, docs, now, up, outages, readerVars, history>>

\* Mongo is away: the command ends where it is.
Abort(o) ==
    /\ ~up
    /\ Commands(o) # <<>>
    /\ Done(o)
    /\ UNCHANGED <<plan, docs, exported, now, up, outages, readerVars, history>>

-----------------------------------------------------------------------------
(* routers/mcp_registry.py *)

\* _status_payload: stale when not checked for a day.
LastCheck(doc) ==
    IF Get(doc, "last_probe_at") # Null THEN doc.last_probe_at ELSE Get(doc, "verified_at")
Stale(doc) == LastCheck(doc) = Null \/ now - LastCheck(doc) > 2
StatusOf(doc) == IF Get(doc, "status") = Null THEN "unknown" ELSE doc.status
Badge(doc) ==
    CASE StatusOf(doc) = "unreachable"             -> "down"
      [] StatusOf(doc) = "verified" /\ Stale(doc)  -> "stale"
      [] OTHER                                     -> StatusOf(doc)
CountOf(badges) == Cardinality({n \in Listed : Badge(docs[n]) \in badges})
Status ==
    [servers |-> [n \in Listed |-> [badge |-> Badge(docs[n]), stale |-> Stale(docs[n])]],
     summary |-> [total |-> Cardinality(Listed), verified |-> CountOf({"verified", "stale"}),
                  stale |-> CountOf({"stale"}), down |-> CountOf({"down"}),
                  available |-> CountOf({"available"}), unused |-> CountOf({"unused"})]]
Health == [n \in Listed |-> Only(docs[n], {"status", "verified_at", "last_probe_at"})]

\* A route, and what it answers.
Paths == {"servers", "manifest", "health", "status"}
Routes == [path : Paths, name : {Null}] \cup [path : {"server"}, name : Names]
Live(body) == [source |-> "live", body |-> body]
Snapshot == [source |-> "snapshot", body |-> Null]
Missing == [source |-> "missing", body |-> Null]
View(route) ==
    CASE route.path \in {"servers", "manifest"} -> Live(Manifest)
      [] route.path = "health"                  -> Live(Health)
      [] route.path = "status"                  -> Live(Status)
      [] route.path = "server"                  ->
           IF docs[route.name] = Null THEN Missing ELSE Live(Enriched(docs[route.name]))

OneKeyForServers(route) ==  \* a slip
    IF route.path = "server" THEN [route EXCEPT !.name = Head(Order)] ELSE route
Key(route) == route

\* _cached: a hit; a miss with the breaker open; or a miss whose read begins.
Request(r) ==
    /\ r \notin asking
    /\ CASE cache[Key(r)] # Null ->
              answer' = [answer EXCEPT ![r] = cache[Key(r)]] /\ UNCHANGED asking
         [] cache[Key(r)] = Null /\ cooling ->
              answer' = [answer EXCEPT ![r] = Snapshot] /\ UNCHANGED asking
         [] OTHER -> asking' = asking \cup {r} /\ UNCHANGED answer
    /\ UNCHANGED <<plan, docs, op, exported, now, up, outages, cooling, cache, history>>

\* The read returns; what is not there is not cached.
Answer(r) ==
    /\ r \in asking /\ up
    /\ asking' = asking \ {r}
    /\ answer' = [answer EXCEPT ![r] = View(r)]
    /\ cache' = IF View(r) = Missing THEN cache ELSE [cache EXCEPT ![Key(r)] = View(r)]
    /\ UNCHANGED <<plan, docs, op, exported, now, up, outages, cooling, history>>

\* It fails: the breaker trips, and the snapshot that is answered is not cached.
FallBack(r) ==
    /\ r \in asking /\ ~up
    /\ asking' = asking \ {r}
    /\ answer' = [answer EXCEPT ![r] = Snapshot]
    /\ cooling' = TRUE
    /\ UNCHANGED <<plan, docs, op, exported, now, up, outages, cache, history>>

Expire(r) ==
    /\ cache[r] # Null
    /\ cache' = [cache EXCEPT ![r] = Null]
    /\ UNCHANGED <<plan, docs, op, exported, now, up, outages, cooling, asking, answer,
                   history>>

CoolDown ==
    /\ cooling
    /\ cooling' = FALSE
    /\ UNCHANGED <<plan, docs, op, exported, now, up, outages, cache, asking, answer,
                   history>>

Outage ==
    /\ up /\ outages < plan.outages
    /\ up' = FALSE
    /\ outages' = outages + 1
    /\ UNCHANGED <<plan, docs, op, exported, now, readerVars, history>>
MongoReturns ==
    /\ ~up
    /\ up' = TRUE
    /\ UNCHANGED <<plan, docs, op, exported, now, outages, readerVars, history>>
Tick ==
    /\ now < plan.ticks
    /\ now' = now + 1
    /\ UNCHANGED <<plan, docs, op, exported, up, outages, readerVars, history>>

-----------------------------------------------------------------------------
RegistryInit ==
    /\ plan \in Plans
    /\ docs = plan.docs
    /\ op = [o \in Operators |->
               [todo |-> plan.commands[o], at |-> "off", names |-> <<>>, copy |-> Null]]
    /\ exported = Null
    /\ now = 0
    /\ up = TRUE
    /\ outages = 0
    /\ cooling = FALSE
    /\ cache = [r \in plan.routes |-> Null]
    /\ asking = {}
    /\ answer = [r \in plan.routes |-> Null]
    /\ word = plan.docs
    /\ clashed = {}

OperatorStep(o) ==
    \/ Begin(o) \/ Seed(o) \/ Read(o) \/ WriteBack(o) \/ RemoveServer(o) \/ Verify(o)
    \/ Export(o) \/ Abort(o)
ReaderStep(r) == Request(r) \/ Answer(r) \/ FallBack(r)

RegistryNext ==
    \/ \E o \in Operators : OperatorStep(o)
    \/ \E r \in plan.routes : ReaderStep(r) \/ Expire(r)
    \/ CoolDown \/ Outage \/ MongoReturns \/ Tick

\* Operators finish what they have begun, clients keep asking, and what lasts for a time
\* (an entry of the cache, the breaker's pause, an outage) ends.
Fairness ==
    /\ \A o \in Operators : WF_registryVars(OperatorStep(o))
    /\ \A r \in Routes : WF_registryVars(r \in plan.routes /\ ReaderStep(r))
                         /\ WF_registryVars(r \in plan.routes /\ Expire(r))
    /\ WF_registryVars(CoolDown) /\ WF_registryVars(MongoReturns) /\ WF_registryVars(Tick)

RegistrySpec == RegistryInit /\ [][RegistryNext]_registryVars /\ Fairness

-----------------------------------------------------------------------------
(* Properties *)

\* cmd_import: "Curated fields of existing entries are preserved"; and the same of every
\* command: a document is what was last said of each of its fields, by whichever operator,
\* unless an upsert or an import wrote back a copy that had been overtaken.  A probe
\* says nothing of a server that was removed meanwhile (cmd_verify).
EditsSurvive ==
    \A n \in Names \ clashed : docs[n] = word[n]

\* Whatever is cached, fails or is edited while a route is read, a client that keeps
\* asking ends up with what the registry holds, never with a snapshot.
ReadersCatchUp ==
    \A r \in Routes : <>[](r \in plan.routes => answer[r] = View(r))
=============================================================================
