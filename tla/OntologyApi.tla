----------------------------- MODULE OntologyApi -----------------------------
(***************************************************************************)
(* The internal ontology routes (app/routers/ontology.py) over what        *)
(* OntologyRuntime holds: Null before it is configured, else a projection. *)
(*                                                                         *)
(* A request is a record of its route, its parameters (Null where one is   *)
(* left out), and, on a listing, its limit and cursor.                     *)
(***************************************************************************)
EXTENDS Ontology

CONSTANTS
    Tokens,       \* the texts _ONTOLOGY_TOKEN_RE accepts
    QueryTexts    \* the queries of 2 to 500 characters

Listings == {"search", "conflicts", "neighbors"}

Routes == Listings \cup {"node", "schema", "release", "apostles"}

\* What a request of a route has.
Fields(route) ==
    {"route"} \cup
      CASE route = "search"            -> {"q", "kind", "limit", "cursor"}
        [] route = "conflicts"         -> {"subject", "severity", "status", "limit", "cursor"}
        [] route = "neighbors"         -> {"id", "direction", "predicate", "limit", "cursor"}
        [] route \in {"node", "release"}    -> {"id"}
        [] route \in {"schema", "apostles"} -> {}

\* The parameters a cursor is bound to, and those an ETag is.
Params(req) ==
    [f \in DOMAIN req \ {"route", "limit", "cursor"} |->
       IF f = "q" THEN Normal[req.q] ELSE req[f]]
TagParams(req) ==
    IF req.route \in Listings
      THEN Params(req) @@ [limit |-> req.limit, cursor |-> req.cursor]
      ELSE Params(req)

WellFormed(req) ==
    CASE req.route = "search"    -> req.q \in QueryTexts /\ req.kind \in Range(Kind) \cup {Null}
      [] req.route = "conflicts" -> /\ req.subject \in PublicIds \cup {Null}
                                    /\ {req.severity, req.status} \subseteq Tokens \cup {Null}
      [] req.route = "neighbors" -> /\ req.direction \in {"in", "out", "both"}
                                    /\ req.predicate \in Tokens \cup {Null}
      [] OTHER -> TRUE

Listing(p, req) ==
    CASE req.route = "search"    -> Found(p, Normal[req.q], req.kind)
      [] req.route = "conflicts" -> Disputed(p, req.subject, req.severity, req.status)
      [] req.route = "neighbors" -> Neighbours(p, req.id, req.direction, req.predicate)

Error(status) == [status |-> status]
Success(p, req, body) == [status |-> 200, etag |-> ETag(p, req.route, TagParams(req)), body |-> body]

\* A listing: the parameters are read first, then the node is looked up (404), and an
\* unknown node's cursor is never opened.
Listed(p, req) ==
    IF ~WellFormed(req) \/ req.limit \notin 1..100 THEN Error(400)
    ELSE IF req.route = "neighbors" /\ req.id \notin DOMAIN p.nodes THEN Error(404)
    ELSE IF ~GoodCursor(p, Listing(p, req), req.route, Params(req), req.limit, req.cursor)
      THEN Error(400)
    ELSE Success(p, req, Page(p, Listing(p, req), req.route, Params(req), req.limit, req.cursor))

NodeDocument(p, req) ==
    IF req.id \notin DOMAIN p.nodes THEN Error(404)
    ELSE IF Pending(p.nodes[req.id]) THEN Error(409)
    ELSE Success(p, req, p.nodes[req.id])

\* The tag is bound to the mapping too.
ApostleDirectory(p) ==
    IF ~Mapped(p) THEN Error(503)
    ELSE [status |-> 200, body |-> Directory(p), etag |-> ETag(p, "apostles", Directory(p))]

Represent(p, req) ==
    CASE req.route \in Listings -> Listed(p, req)
      [] req.route = "node"     -> NodeDocument(p, req)
      [] req.route = "schema"   -> Success(p, req, SchemaDocument(p))
      [] req.route = "release"  -> IF req.id = p.meta.projection_id
                                     THEN Success(p, req, ReleaseDocument(p)) ELSE Error(404)
      [] req.route = "apostles" -> ApostleDirectory(p)

\* _authorized_projection, then the route; and what If-None-Match makes of its answer.
Respond(p, key, req) ==
    IF p = Null THEN Error(503)
    ELSE IF key # p.key THEN Error(401)
    ELSE Represent(p, req)
NotModified(a, etags) == a.status = 200 /\ a.etag \in etags
=============================================================================
