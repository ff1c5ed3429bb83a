------------------------------- MODULE Ontology -------------------------------
(***************************************************************************)
(* The public ontology projection (app/ontology.py, app/ontology_web.py):  *)
(* the contract a snapshot must meet before it is served, and what the     *)
(* projection of one answers.                                              *)
(*                                                                         *)
(* A JSON object is a record, and an absent field is missing from its      *)
(* DOMAIN.  Korean names are written as their slugs in ontology_web.py.    *)
(* What the code asks of characters is given as relations on whole texts.  *)
(***************************************************************************)
EXTENDS Integers, SequencesExt

CONSTANTS
    PublicIds,    \* the texts PUBLIC_ID_RE accepts
    Null,         \* None
    Normal,       \* _normalized, a function on texts
    StartsWith,   \* <<q, t>>: the normalized text t starts with q
    Within,       \* <<q, t>>: the normalized text t contains q
    Rank,         \* the code point order of texts
    PrivateTexts, \* texts with a forbidden marker: a path, a store's URL
    ScopedNotes   \* scope notes that say "implementation" and "not a claim"

Cardinalities ==
    [axioms |-> 12, apostles |-> 12, legion_commanders |-> 7, omc_commanders |-> 6,
     phases |-> 2, structural_patterns |-> 4]
Relationships == 15
Conflicts == 8
Kind ==
    [axioms |-> "axiom", apostles |-> "apostle", legion_commanders |-> "legion_commander",
     omc_commanders |-> "omc_commander", phases |-> "phase",
     structural_patterns |-> "structural_pattern"]
Collections == DOMAIN Kind

Named == {"binding_state", "canonical_name", "public_id", "status"}
Allowed ==
    [axioms |-> Named \cup {"body_policy", "content_authority", "definition",
                            "identity_authority", "position"},
     apostles |-> {"body_policy", "candidates", "entity", "position", "public_id",
                   "selection_state", "structural_group"},
     legion_commanders |-> Named \cup {"aliases", "identity_rule", "position", "verb"},
     omc_commanders |-> Named \cup {"scope_note"},
     phases |-> Named \cup {"body_policy", "content_authority"},
     structural_patterns |-> Named \cup {"body_policy"}]
Required ==
    [Allowed EXCEPT
       !.apostles = @ \ {"body_policy", "candidates"},
       !.legion_commanders = @ \ {"aliases", "identity_rule"},
       !.omc_commanders = @ \ {"scope_note"}]
EntityAllowed ==
    {"aliases", "binding_state", "body_policy", "canonical_abbreviation", "canonical_name",
     "content_authority", "identity_authority"}
EntityRequired == EntityAllowed \ {"canonical_abbreviation"}
CandidateKeys ==
    {"authority", "binding_state", "candidate_id", "canonical_name", "default_servable"}
RelationshipKeys ==
    {"authority", "from_public_id", "predicate", "relationship_id", "status", "to_public_id"}
ConflictRequired == {"conflict_id", "detail", "severity", "status"}
ConflictAllowed ==
    ConflictRequired \cup {"expected", "observed", "selected_candidate",
                           "subject_public_id", "subject_scope"}
ForbiddenKeys ==
    {"cypher", "exact_text", "kg_label", "kg_labels", "kg_uid", "raw_cypher", "source_file",
     "source_path", "source_paths", "stable_ref", "stable_refs", "user_request_sha256",
     "user_utterance", "verification_path", "verification_paths"}

-----------------------------------------------------------------------------
(* validate_snapshot *)

Get(r, field) == IF field \in DOMAIN r THEN r[field] ELSE Null
Text(t) == t # Null /\ t # ""
Shaped(r, allowed, required) == DOMAIN r \subseteq allowed /\ required \subseteq DOMAIN r

\* The field of every record of a sequence, and whether no two agree on it.
Each(records, field) == {Get(records[i], field) : i \in DOMAIN records}
Differ(records, field) == IsInjective([i \in DOMAIN records |-> Get(records[i], field)])

\* Every object of a snapshot, and the texts in one.
Objects(s) ==
    LET data    == s.data
        rows    == UNION {Range(data.collections[c]) : c \in DOMAIN data.collections}
        several == {r \in rows : "candidates" \in DOMAIN r}
    IN  rows \cup Range(data.relationships) \cup Range(data.conflicts)
          \cup {r.entity : r \in {x \in rows : Get(x, "entity") # Null}}
          \cup UNION {Range(r.candidates) : r \in several}
NotText == {"position", "entity", "candidates", "aliases", "default_servable"}
Texts(r) ==
    {r[f] : f \in DOMAIN r \ NotText}
      \cup (IF "aliases" \in DOMAIN r THEN Range(r.aliases) ELSE {})

NoPrivateMaterial(s) ==
    \A r \in Objects(s) : /\ DOMAIN r \cap ForbiddenKeys = {}
                          /\ Texts(r) \cap PrivateTexts = {}

ValidAliases(a) == IsInjective(a) /\ \A i \in DOMAIN a : Text(a[i])

ValidEntity(e) ==
    /\ Shaped(e, EntityAllowed, EntityRequired)
    /\ Text(e.canonical_name)
    /\ ValidAliases(e.aliases)
ValidCandidate(k) ==
    /\ Shaped(k, CandidateKeys, CandidateKeys)
    /\ \A f \in CandidateKeys \ {"default_servable"} : Text(k[f])

ValidRecord(c, r) ==
    /\ Shaped(r, Allowed[c], Required[c])
    /\ r.public_id \in PublicIds
    /\ c # "apostles" => Text(r.canonical_name)
    /\ "aliases" \in DOMAIN r => ValidAliases(r.aliases)
    /\ c = "apostles" =>
         /\ r.entity # Null => ValidEntity(r.entity)
         /\ "candidates" \in DOMAIN r =>
              \A i \in DOMAIN r.candidates : ValidCandidate(r.candidates[i])

\* The rows of all collections, by collection and index.
Rows(cs) == UNION {{<<c, i>> : i \in DOMAIN cs[c]} : c \in DOMAIN cs}
IdsOf(cs) == {cs[k[1]][k[2]].public_id : k \in Rows(cs)}

ValidCollections(cs) ==
    /\ DOMAIN cs = Collections
    /\ \A c \in Collections : Len(cs[c]) = Cardinalities[c]
    /\ \A k \in Rows(cs) : ValidRecord(k[1], cs[k[1]][k[2]])
    /\ IsInjective([k \in Rows(cs) |-> cs[k[1]][k[2]].public_id])

\* _validate_domain_invariants
Numbered(records) == Each(records, "position") = 1..Len(records)
At(records, n) == CHOOSE r \in Range(records) : r.position = n

Selected(r) ==
    /\ r.selection_state = "SELECTED"
    /\ r.entity # Null
    /\ "candidates" \notin DOMAIN r

OmcSlot(r) ==
    /\ r.entity # Null
    /\ r.entity.canonical_name = "orbital-cloud"
    /\ Get(r.entity, "canonical_abbreviation") = "OMC"
    /\ "OMC" \in Range(r.entity.aliases) /\ "OM" \notin Range(r.entity.aliases)

PendingSlot(r) ==
    /\ r.selection_state = "CONFLICT_PENDING"
    /\ r.entity = Null
    /\ Get(r, "body_policy") = "NO_DEFAULT"
    /\ "candidates" \in DOMAIN r
    /\ Len(r.candidates) = 2
    /\ Differ(r.candidates, "candidate_id")
    /\ Each(r.candidates, "canonical_name") = {"jesus", "black-sun-aten"}
    /\ Each(r.candidates, "default_servable") = {FALSE}

LegionRoster(records) ==
    LET harness == {i \in DOMAIN records : records[i].canonical_name = "Harness"}
    IN  /\ \E i \in DOMAIN records :
             /\ harness = {i}
             /\ Get(records[i], "identity_rule") = "ONE_ENTITY_ONE_SLOT"
             /\ "aliases" \in DOMAIN records[i] /\ "Hades" \in Range(records[i].aliases)
        /\ "Hades" \notin Each(records, "canonical_name")
OmcRoster(records) ==
    /\ Each(records, "canonical_name") = {"333", "CHU", "CRL", "engineboy", "orrr", "HSWM"}
    /\ \E r \in Range(records) : /\ r.canonical_name = "HSWM"
                                 /\ Get(r, "scope_note") \in ScopedNotes

DomainInvariants(cs) ==
    /\ Numbered(cs.apostles) /\ Numbered(cs.axioms) /\ Numbered(cs.legion_commanders)
    /\ \A r \in Range(cs.apostles) : r.position # 9 => Selected(r)
    /\ OmcSlot(At(cs.apostles, 8))
    /\ PendingSlot(At(cs.apostles, 9))
    /\ LegionRoster(cs.legion_commanders)
    /\ OmcRoster(cs.omc_commanders)

\* _validate_relationship_invariants: from one apostle to every commander of a roster.
Commands(edges, source, targets, authority) ==
    /\ Len(edges) = Len(targets)
    /\ Each(edges, "from_public_id") = {source.public_id}
    /\ Each(edges, "to_public_id") = Each(targets, "public_id")
    /\ \A e \in Range(edges) : e.authority = authority /\ e.status = "ACTIVE"
PhasePolicy ==
    [v \in {"void-oscillator", "black-sun-aten"} |->
       IF v = "void-oscillator" THEN <<"USER_PRIMARY", "PROJECTED_FROM_USER_SOURCE">>
       ELSE <<"PROJECT_CANON", "PROJECTED_FROM_PROJECT_CANON">>]
Phases(edges, phases, target) ==
    /\ Len(edges) = 2
    /\ Differ(edges, "from_public_id")
    /\ \A f \in Range(phases) :
         /\ f.canonical_name \in DOMAIN PhasePolicy
         /\ \E e \in Range(edges) :
              /\ e.from_public_id = f.public_id
              /\ e.to_public_id = target.public_id
              /\ <<e.authority, e.status>> = PhasePolicy[f.canonical_name]

Topology(cs, edges) ==
    LET By(predicate) == SelectSeq(edges, LAMBDA e : e.predicate = predicate)
    IN  /\ Each(edges, "predicate") = {"COMMANDS_LEGION", "HAS_DIRECT_COMMANDER", "PHASE_OF"}
        /\ Commands(By("COMMANDS_LEGION"), At(cs.apostles, 4), cs.legion_commanders,
                    "PROJECT_CANON_WITH_USER_VERDICT")
        /\ Commands(By("HAS_DIRECT_COMMANDER"), At(cs.apostles, 8), cs.omc_commanders,
                    "USER_PRIMARY")
        /\ Phases(By("PHASE_OF"), cs.phases, At(cs.apostles, 10))

ValidRelationships(edges, ids) ==
    /\ Len(edges) = Relationships
    /\ Differ(edges, "relationship_id")
    /\ \A e \in Range(edges) :
         /\ Shaped(e, RelationshipKeys, RelationshipKeys)
         /\ \A f \in {"relationship_id", "predicate", "authority", "status"} : Text(e[f])
         /\ {e.from_public_id, e.to_public_id} \subseteq ids

ValidConflicts(conflicts, ids) ==
    /\ Len(conflicts) = Conflicts
    /\ Differ(conflicts, "conflict_id")
    /\ \A k \in Range(conflicts) :
         /\ Shaped(k, ConflictAllowed, ConflictRequired)
         /\ \A f \in ConflictRequired : Text(k[f])
         /\ ("subject_public_id" \in DOMAIN k) # ("subject_scope" \in DOMAIN k)
         /\ Get(k, "subject_public_id") \in ids \cup {Null}

Meta(content) ==
    [schema_version |-> "metahumotonic-public-graph/v1",
     projection_id |-> "metahumotonic-public-graph-v1-2026-08-30",
     release_state |-> "ACTIVE_INTERNAL_CONFLICT_AWARE",
     publication_status |-> "INTERNAL_ONLY",
     content_sha256 |-> content]

Valid(s, content) ==
    /\ DOMAIN s = {"meta", "data"}
    /\ s.meta = Meta(content)
    /\ DOMAIN s.data = {"collections", "relationships", "conflicts"}
    /\ NoPrivateMaterial(s)
    /\ LET cs == s.data.collections
       IN  /\ ValidCollections(cs)
           /\ DomainInvariants(cs)
           /\ ValidRelationships(s.data.relationships, IdsOf(cs))
           /\ Topology(cs, s.data.relationships)
           /\ ValidConflicts(s.data.conflicts, IdsOf(cs))

-----------------------------------------------------------------------------
(* What a projection answers. *)

\* __init__, _public_record: only the fields of the contract are copied.
Copy(r, allowed) == Restrict(r, allowed \cap DOMAIN r)
Public(c, r) == Copy(r, Allowed[c])
Node(c, r) == [kind |-> Kind[c]] @@ Public(c, r)
Projection(s, key) ==
    LET cs == s.data.collections
    IN  [meta |-> s.meta, key |-> key,
         collections |-> [c \in Collections |-> [i \in DOMAIN cs[c] |-> Public(c, cs[c][i])]],
         nodes |-> [id \in IdsOf(cs) |->
            LET k == CHOOSE k \in Rows(cs) : cs[k[1]][k[2]].public_id = id
            IN  Node(k[1], cs[k[1]][k[2]])],
         relationships |-> s.data.relationships,
         conflicts |-> s.data.conflicts]

Pending(n) == n.kind = "apostle" /\ n.selection_state = "CONFLICT_PENDING"

\* _display_identity
DisplayName(n) ==
    IF n.kind # "apostle" THEN n.canonical_name
    ELSE IF n.entity = Null THEN "undecided" ELSE n.entity.canonical_name
DisplayAliases(n) ==
    LET named == IF n.kind # "apostle" THEN n ELSE n.entity
    IN  IF named = Null \/ "aliases" \notin DOMAIN named THEN <<>> ELSE named.aliases

Summary(n) ==
    LET authority ==
          IF n.kind = "apostle" /\ n.entity # Null
            THEN Copy(n.entity, {"binding_state", "body_policy", "content_authority",
                                 "identity_authority"})
          ELSE IF Pending(n)
            THEN [candidate_count |-> Len(n.candidates), default_servable |-> FALSE,
                  body_policy |-> n.body_policy]
          ELSE <<>>
    IN  [public_id |-> n.public_id, kind |-> n.kind,
         canonical_name |-> DisplayName(n), aliases |-> DisplayAliases(n)]
          @@ authority
          @@ Copy(n, {"position", "status", "binding_state", "selection_state",
                      "structural_group"})

\* The sorts of the listings, by the order of texts.
Before(a, b) == \E i \in DOMAIN a : a[i] < b[i] /\ \A j \in 1..(i - 1) : a[j] = b[j]
Sorted(S, Key(_)) ==
    LET keyed == {<<Key(x), x>> : x \in S}
        rank  == [k \in keyed |-> Cardinality({j \in keyed : Before(j[1], k[1])})]
    IN  [i \in 1..Cardinality(S) |-> (CHOOSE k \in keyed : rank[k] = i - 1)[2]]

\* search: 0 for an exact name, 1 for a prefix, 2 for a part of one.
Score(n, q) ==
    LET terms == {Normal[t] : t \in {DisplayName(n)} \cup Range(DisplayAliases(n))}
    IN  IF q \in terms THEN 0
        ELSE IF \E t \in terms : <<q, t>> \in StartsWith THEN 1
        ELSE IF \E t \in terms : <<q, t>> \in Within THEN 2
        ELSE 3
NeverRetired(n, q) == FALSE  \* a slip
Retired(n, q) == q = "om" /\ n.kind = "apostle" /\ n.position = 8
Found(p, q, kind) ==
    LET matches == {n \in Range(p.nodes) : /\ kind \in {Null, n.kind}
                                           /\ ~Pending(n) /\ ~Retired(n, q)
                                           /\ Score(n, q) < 3}
        hits == Sorted(matches, LAMBDA n : <<Score(n, q), Rank[n.public_id]>>)
    IN  [i \in DOMAIN hits |-> Summary(hits[i])]

\* conflicts_page
Disputed(p, subject, severity, status) ==
    Sorted({k \in Range(p.conflicts) :
              /\ subject \in {Null, Get(k, "subject_public_id")}
              /\ severity \in {Null, k.severity}
              /\ status \in {Null, k.status}},
           LAMBDA k : <<Rank[k.severity], Rank[k.status], Rank[k.conflict_id]>>)

\* neighbors: an edge of a node to itself is listed as going out.
Entry(p, e, direction, other) ==
    [direction |-> direction, relationship |-> e, node |-> Summary(p.nodes[other])]
Neighbours(p, id, direction, predicate) ==
    LET edges == {e \in Range(p.relationships) : predicate \in {Null, e.predicate}}
        outgoing == {e \in edges : direction \in {"out", "both"} /\ e.from_public_id = id}
        incoming == {e \in edges \ outgoing : direction \in {"in", "both"} /\ e.to_public_id = id}
    IN  Sorted({Entry(p, e, "out", e.to_public_id) : e \in outgoing}
                 \cup {Entry(p, e, "in", e.from_public_id) : e \in incoming},
               LAMBDA t : <<Rank[t.relationship.predicate],
                            Rank[t.relationship.relationship_id], Rank[t.direction]>>)

SchemaDocument(p) ==
    [predicates |-> Each(p.relationships, "predicate"), slot9 |-> "CONFLICT_PENDING",
     om_is_current_alias |-> FALSE]
ReleaseDocument(p) ==
    [meta |-> p.meta,
     counts |-> [c \in Collections |-> Len(p.collections[c])],
     collections |-> [c \in Collections |->
        [i \in DOMAIN p.collections[c] |-> Summary(Node(c, p.collections[c][i]))]],
     conflicts |-> p.conflicts]

-----------------------------------------------------------------------------
(* _page and its cursors: signed with the key, and bound to the release, the  *)
(* route, its parameters and the limit.                                       *)

Cursor(p, route, params, limit, offset) ==
    [key |-> p.key, content_sha256 |-> p.meta.content_sha256, route |-> route,
     params |-> params, limit |-> limit, offset |-> offset]
BelongsToAnyRelease(p, c, route, params, limit) ==  \* a slip
    c.key = p.key /\ c.route = route /\ c.params = params /\ c.limit = limit
Belongs(p, c, route, params, limit) == c = Cursor(p, route, params, limit, c.offset)

Offset(cursor) == IF cursor = Null THEN 0 ELSE cursor.offset
GoodCursor(p, items, route, params, limit, cursor) ==
    cursor # Null => /\ Belongs(p, cursor, route, params, limit)
                     /\ cursor.offset <= Len(items)
Page(p, items, route, params, limit, cursor) ==
    LET from == Offset(cursor)
        to   == IF from + limit < Len(items) THEN from + limit ELSE Len(items)
    IN  [items |-> SubSeq(items, from + 1, to),
         next  |-> IF to < Len(items) THEN Cursor(p, route, params, limit, to) ELSE Null]

\* etag_for: of a release, a resource and its parameters.
ETagOfAnyRelease(p, resource, params) == <<resource, params>>  \* a slip
ETag(p, resource, params) == <<p.meta.content_sha256, resource, params>>

-----------------------------------------------------------------------------
(* ontology_web.py: the reviewed page of every apostle. *)

WebRoutes ==
    <<"dimension-walker", "ice-orca-dragon", "superhollow-knight", "bhgman", "spacegirl",
      "great-river", "liquest-tree", "orbital-cloud", "jesus", "gipbajon", "hoh", "monsoon">>
Mapped(p) ==
    \A a \in Range(p.collections.apostles) :
      IF a.position = 9 THEN a.entity = Null /\ a.selection_state = "CONFLICT_PENDING"
      ELSE a.entity # Null /\ a.entity.canonical_name = WebRoutes[a.position]
WebReference(a) ==
    [page |-> WebRoutes[a.position],
     mapping_status |-> IF a.position = 9 THEN "CONFLICT_REFERENCE_ONLY"
                        ELSE "EDITORIAL_REFERENCE"]
Directory(p) ==
    LET slots == Sorted(Range(p.collections.apostles), LAMBDA a : <<a.position>>)
    IN  [i \in DOMAIN slots |-> slots[i] @@ [web_reference |-> WebReference(slots[i])]]
=============================================================================
