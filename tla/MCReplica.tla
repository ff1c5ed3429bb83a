------------------------------ MODULE MCReplica ------------------------------
(* Two replicas with the real sizes of a snapshot (43 nodes, 15 relationships, 8       *)
(* conflicts): a first plan of deployments with several snapshots and a client that    *)
(* reads listings, and plans of releases with several migrations on several databases. *)
EXTENDS Replica

CONSTANTS r1, r2, none, null

MCProcesses == {r1, r2}

\* A sequence that TLC evaluates once.
Tuple(f) == f \o <<>>

Id ==
    [axioms |-> <<"ax1", "ax2", "ax3", "ax4", "ax5", "ax6", "ax7", "ax8", "ax9", "ax10", "ax11", "ax12">>,
     apostles |-> <<"ap1", "ap2", "ap3", "ap4", "ap5", "ap6", "ap7", "ap8", "ap9", "ap10", "ap11", "ap12">>,
     legion_commanders |-> <<"le1", "le2", "le3", "le4", "le5", "le6", "le7">>,
     omc_commanders |-> <<"om1", "om2", "om3", "om4", "om5", "om6">>,
     phases |-> <<"ph1", "ph2">>,
     structural_patterns |-> <<"st1", "st2", "st3", "st4">>]
Edge == <<"e1", "e2", "e3", "e4", "e5", "e6", "e7", "e8", "e9", "e10", "e11", "e12", "e13", "e14", "e15">>
Dispute == <<"d1", "d2", "d3", "d4", "d5", "d6", "d7", "d8">>
ThePublicIds == UNION {Range(Id[c]) : c \in Collections} \cup {"unknown"}
TheTokens == {"COMMANDS_LEGION", "HIGH", "LOW", "OPEN"}

Ordered ==
    <<"in", "out">> \o <<"COMMANDS_LEGION", "HAS_DIRECT_COMMANDER", "PHASE_OF">> \o <<"HIGH", "LOW">>
      \o <<"CLOSED", "OPEN">> \o Edge \o Dispute \o Id.apostles \o Id.axioms \o Id.legion_commanders
      \o Id.omc_commanders \o Id.phases \o Id.structural_patterns
TheRank == [t \in Range(Ordered) |-> CHOOSE i \in DOMAIN Ordered : Ordered[i] = t] @@ <<>>

LegionNames == <<"Harness", "Ares", "Charon", "Morrigan", "Surt", "Thoth", "Yama">>
OmcNames == <<"333", "CHU", "CRL", "engineboy", "orrr", "HSWM">>
PhaseNames == <<"void-oscillator", "black-sun-aten">>

\* Normalization folds the case of what is queried here, and "mo" starts or is in three names.
TheQueryTexts == {"om", "OMC", "mo"}
AllTexts ==
    Range(WebRoutes) \cup Range(LegionNames) \cup Range(OmcNames) \cup Range(PhaseNames)
      \cup Range(Id.axioms) \cup Range(Id.structural_patterns)
      \cup {"OMC", "OM", "Hades", "undecided", "om", "mo", "x", "", "/home/x"}
TheNormal ==
    [t \in AllTexts |-> IF t = "OMC" THEN "omc" ELSE IF t = "OM" THEN "om"
                        ELSE IF t = "Morrigan" THEN "morrigan" ELSE t] @@ <<>>
TheStartsWith == {<<"om", "omc">>, <<"mo", "morrigan">>, <<"mo", "monsoon">>}
TheWithin == TheStartsWith \cup {<<"om", t>> : t \in Range(Id.axioms)}
              \cup {<<"mo", "harmony">>}

-----------------------------------------------------------------------------
Entity(name, aliases) ==
    [aliases |-> aliases, binding_state |-> "BOUND", body_policy |-> "SERVE",
     canonical_name |-> name, content_authority |-> "CANON", identity_authority |-> "CANON"]
Candidate(i, name) ==
    [authority |-> "CANON", binding_state |-> "UNBOUND", candidate_id |-> i,
     canonical_name |-> name, default_servable |-> FALSE]
Apostle(i) ==
    CASE i = 9 ->
           [body_policy |-> "NO_DEFAULT", entity |-> null, position |-> 9,
            candidates |-> <<Candidate("c1", "jesus"), Candidate("c2", "black-sun-aten")>>,
            public_id |-> Id.apostles[9], selection_state |-> "CONFLICT_PENDING",
            structural_group |-> "g"]
      [] i = 8 ->
           [entity |-> Entity("orbital-cloud", <<"OMC">>) @@ [canonical_abbreviation |-> "OMC"],
            position |-> 8, public_id |-> Id.apostles[8], selection_state |-> "SELECTED",
            structural_group |-> "g"]
      [] OTHER ->
           [entity |-> Entity(WebRoutes[i], <<>>), position |-> i, public_id |-> Id.apostles[i],
            selection_state |-> "SELECTED", structural_group |-> "g"]

NamedAs(id, name) ==
    [binding_state |-> "BOUND", canonical_name |-> name, public_id |-> id, status |-> "ACTIVE"]
Authored == [body_policy |-> "SERVE", content_authority |-> "CANON"]

Rows1 ==
    [axioms |-> Tuple([i \in 1..12 |-> NamedAs(Id.axioms[i], Id.axioms[i]) @@ Authored
         @@ [definition |-> "d", identity_authority |-> "CANON", position |-> i]]),
     apostles |-> Tuple([i \in 1..12 |-> Apostle(i)]),
     legion_commanders |-> Tuple([i \in 1..7 |-> NamedAs(Id.legion_commanders[i], LegionNames[i])
         @@ [position |-> i, verb |-> "v"]
         @@ (IF i = 1 THEN [identity_rule |-> "ONE_ENTITY_ONE_SLOT", aliases |-> <<"Hades">>]
             ELSE <<>>)]),
     omc_commanders |-> Tuple([i \in 1..6 |-> NamedAs(Id.omc_commanders[i], OmcNames[i])
         @@ (IF i = 6 THEN [scope_note |-> "scoped"] ELSE <<>>)]),
     phases |-> Tuple([i \in 1..2 |-> NamedAs(Id.phases[i], PhaseNames[i]) @@ Authored]),
     structural_patterns |-> Tuple([i \in 1..4 |->
         NamedAs(Id.structural_patterns[i], Id.structural_patterns[i]) @@ [body_policy |-> "SERVE"]])]

Related(i, predicate, source, target, authority, status) ==
    [relationship_id |-> Edge[i], predicate |-> predicate, from_public_id |-> source,
     to_public_id |-> target, authority |-> authority, status |-> status]
Edges1 == Tuple(
    [i \in 1..15 |->
       IF i <= 7 THEN Related(i, "COMMANDS_LEGION", Id.apostles[4], Id.legion_commanders[i],
                              "PROJECT_CANON_WITH_USER_VERDICT", "ACTIVE")
       ELSE IF i <= 13 THEN Related(i, "HAS_DIRECT_COMMANDER", Id.apostles[8],
                                    Id.omc_commanders[i - 7], "USER_PRIMARY", "ACTIVE")
       ELSE Related(i, "PHASE_OF", Id.phases[i - 13], Id.apostles[10],
                    PhasePolicy[PhaseNames[i - 13]][1], PhasePolicy[PhaseNames[i - 13]][2])])

Disputed1 == Tuple(
    [i \in 1..8 |->
       [conflict_id |-> Dispute[i], detail |-> "d",
        severity |-> IF i > 5 THEN "HIGH" ELSE "LOW", status |-> "OPEN"]
         @@ (IF i = 1 THEN [subject_public_id |-> Id.apostles[9]] ELSE [subject_scope |-> "s"])])

Snapshot(content, rows, edges, disputes) ==
    [meta |-> Meta(content),
     data |-> [collections |-> rows, relationships |-> edges, conflicts |-> disputes]]

\* The second release settles one conflict and renames a commander; the others break one
\* rule each.
Rows2 == [Rows1 EXCEPT !.legion_commanders[2].canonical_name = "Thoth",
                       !.legion_commanders[6].canonical_name = "Ares"]
Disputed2 == [Disputed1 EXCEPT ![3].status = "CLOSED", ![7].severity = "LOW"]

TheFiles ==
    [first      |-> Snapshot("content1", Rows1, Edges1, Disputed1),
     second     |-> Snapshot("content2", Rows2, Edges1, Disputed2),
     reissued   |-> Snapshot("content1", Rows2, Edges1, Disputed2),
     chosen     |-> Snapshot("content3",
                      [Rows1 EXCEPT !.apostles[9].entity = Entity("jesus", <<>>)], Edges1, Disputed1),
     undecided  |-> Snapshot("content3",
                      [Rows1 EXCEPT !.apostles[5].entity = null], Edges1, Disputed1),
     retired    |-> Snapshot("content3",
                      [Rows1 EXCEPT !.apostles[8].entity.aliases = <<"OMC", "OM">>], Edges1, Disputed1),
     leaking    |-> Snapshot("content3",
                      [Rows1 EXCEPT !.axioms[1].definition = "/home/x"], Edges1, Disputed1),
     unlinked   |-> Snapshot("content3", Rows1,
                      [Edges1 EXCEPT ![15].to_public_id = Id.apostles[9]], Disputed1)]

-----------------------------------------------------------------------------
Key == <<"key", 32>>
Base ==
    [ttl |-> 300, writes |-> FALSE, database |-> FALSE, redis |-> FALSE, require_redis |-> FALSE,
     session |-> <<"s", 32>>, moderation |-> <<"m", 32>>, migrations |-> <<>>, ontology |-> null]
Serving(file, pinned, content) ==
    [Base EXCEPT !.ontology = [file |-> file, pinned |-> pinned, content |-> content, key |-> Key]]

Requests ==
    {[route |-> "search", q |-> q, kind |-> null, limit |-> 1, cursor |-> null] : q \in TheQueryTexts}
      \cup {[route |-> "search", q |-> "mo", kind |-> "apostle", limit |-> 1, cursor |-> null],
            [route |-> "search", q |-> "x", kind |-> null, limit |-> 1, cursor |-> null],
            [route |-> "conflicts", subject |-> null, severity |-> null, status |-> null,
             limit |-> 3, cursor |-> null],
            [route |-> "neighbors", id |-> Id.apostles[4], direction |-> "both", predicate |-> null,
             limit |-> 4, cursor |-> null],
            [route |-> "neighbors", id |-> Id.apostles[10], direction |-> "in",
             predicate |-> "COMMANDS_LEGION", limit |-> 100, cursor |-> null],
            [route |-> "neighbors", id |-> "unknown", direction |-> "both", predicate |-> null,
             limit |-> 1, cursor |-> null],
            [route |-> "node", id |-> Id.apostles[9]], [route |-> "node", id |-> Id.apostles[8]],
            [route |-> "node", id |-> "unknown"], [route |-> "schema"], [route |-> "apostles"],
            [route |-> "release", id |-> Meta("content1").projection_id]}

One == <<"001", "a">>
Two == <<"002", "b">>
Wiki == [Base EXCEPT !.writes = TRUE, !.database = TRUE, !.redis = TRUE, !.require_redis = TRUE,
                     !.migrations = <<One, Two>>]
Older == [Wiki EXCEPT !.migrations = <<One>>]
Alone == [Wiki EXCEPT !.require_redis = FALSE]
Edited == [Wiki EXCEPT !.migrations = <<<<"001", "c">>, Two>>]

Databases ==
    {SchemaOf(<<>>), SchemaOf(<<One>>), SchemaOf(<<One, Two>>),
     SchemaOf(<<One, Two, <<"999", "z">>>>),        \* an unknown migration
     [rows |-> {<<"001", "">>}, tables |-> {"a"}],  \* a row without its checksum
     [rows |-> {}, tables |-> {"a"}],               \* tables that no row tells of: adopted ...
     [rows |-> {}, tables |-> {"a", "b"}]}          \* ... unless those of the second are there

Plan(ds, requests, s, faultBound) ==
    [deployments |-> ds, requests |-> requests, schema |-> s, faults |-> faultBound, key |-> Key]
ThePlans ==
    {Plan({Serving("first", "first", "content1"), Serving("second", "second", "content2")},
          {q}, SchemaOf(<<>>), 1) : q \in Requests}
      \cup {Plan({Serving("first", "first", "content1"), Serving("reissued", "reissued", "content1")},
                 {q}, SchemaOf(<<>>), 1) : q \in {t \in Requests : t.route = "conflicts" \/ (t.route = "search" /\ t.q = "mo" /\ t.kind = null)}}
      \cup {Plan({Serving("first", "first", "content1"), d}, {q}, SchemaOf(<<>>), 0) :
               d \in {Serving("first", "second", "content1"), Serving("second", "second", "content1")}
                      \cup {Serving(f, f, "content3") : f \in {"chosen", "undecided", "retired", "leaking", "unlinked"}},
               q \in {t \in Requests : t.route \in {"apostles", "release"} \/ (t.route = "search" /\ t.q = "om")}}
      \cup {Plan({Wiki, Older}, {}, s, 3) : s \in Databases}
      \cup {Plan({Wiki, Alone}, {}, SchemaOf(<<One>>), 2)}
      \cup {Plan({Wiki, Edited, [Wiki EXCEPT !.moderation = Wiki.session]}, {}, s, 1) :
               s \in {SchemaOf(<<>>), SchemaOf(<<One>>)}}

\* TLC evaluates these once.
MCPublicIds == ThePublicIds
MCTokens == TheTokens
MCQueryTexts == TheQueryTexts
MCStartsWith == TheStartsWith
MCWithin == TheWithin
MCRank == TheRank
MCNormal == TheNormal
MCFiles == TheFiles
MCPlans == ThePlans
=============================================================================
