------------------------------ MODULE MCRegistry ------------------------------
(* Two servers and two operators, each with the commands of a plan: imports, upserts,  *)
(* seeds, removals and probes that meet, and readers of every route over an outage and  *)
(* over three days.                                                                    *)
EXTENDS Registry

CONSTANTS o1, o2, null

MCOperators == {o1, o2}
MCOrder == <<"graph", "redis">>
MCCategory == [n \in Range(MCOrder) |-> IF n = "redis" THEN "vector" ELSE "utility"]

Cfg(url, command, port) ==
    [url |-> url, type |-> null, command |-> command, alias |-> "h", port |-> port,
     secret |-> command = "npx"]
Import == [do |-> "import", configs |-> [graph |-> Cfg("u", null, null), redis |-> Cfg(null, "npx", null)]]
Again == [do |-> "import", configs |-> [graph |-> Cfg(null, "npx", 6379)]]
Ssh == [do |-> "import", configs |-> [redis |-> Cfg(null, "ssh", null)]]
Upsert(n, fields) == [do |-> "upsert", name |-> n, fields |-> fields]
Drop(n) == [do |-> "remove", name |-> n]
Check(n) == [do |-> "verify", name |-> n]
Seeding ==
    [do |-> "seed", names |-> <<"redis", "graph", null>>,
     entries |-> [redis |-> [status |-> "unused", description |-> "seeded"],
                  graph |-> [category |-> "graph", auth |-> "none", capabilities |-> <<"own", "x">>]]]

Curated ==
    [category |-> "graph", description |-> "mine", status |-> "available", transport |-> "http",
     connection |-> Connection(Cfg("u", null, null))]
NoDocs == [n \in {"graph", "redis"} |-> null]
OneDoc == [NoDocs EXCEPT !["graph"] = Curated]

Listing(path) == [path |-> path, name |-> null]
Server(n) == [path |-> "server", name |-> n]

Plan(d, a, b, routes, ticks, faults) ==
    [docs |-> d, commands |-> [o \in MCOperators |-> IF o = o1 THEN a ELSE b],
     routes |-> routes, ticks |-> ticks, outages |-> faults]
MCPlans ==
    {Plan(OneDoc, <<Import, Again>>, <<Check(null), Drop("graph")>>, {}, 1, 0),
     Plan(OneDoc, <<Seeding, Import>>, <<[do |-> "export"], [do |-> "reseed"], Ssh>>, {}, 0, 1),
     Plan(OneDoc, <<Upsert("graph", [status |-> "unused"]), Check(null)>>,
          <<Upsert("redis", [description |-> "new"]), Drop("graph"), Check("redis")>>, {}, 1, 0),
     Plan(OneDoc, <<Import>>, <<Check(null)>>, {Listing("status")}, 4, 1),
     Plan(OneDoc, <<Ssh, Drop("graph")>>, <<>>, {Server("graph"), Server("redis")}, 0, 1),
     Plan(OneDoc, <<Seeding>>, <<Check("graph")>>, {Listing("servers"), Listing("health")}, 0, 1),
     Plan(OneDoc, <<Upsert("graph", [status |-> "retired"])>>, <<>>, {Listing("manifest"), Listing("status")}, 3, 1)}
=============================================================================
