------------------------------- MODULE WikiKernel -------------------------------
(***************************************************************************)
(* The pure command -> event kernel of the community wiki                  *)
(* (app/wiki/domain.py): Decide turns a command and the current page into  *)
(* an event or a rejection, Evolve folds one event into the page           *)
(* projection, Replay folds a stream, Fingerprint is the client intent a   *)
(* receipt remembers.                                                      *)
(*                                                                         *)
(* Data kept: who, which page, which revision, which title and which text. *)
(* `text' is the content of a create or an edit (its summary rides along)  *)
(* and the note or reason of the other commands.  Clocks and display       *)
(* fields are left out.                                                    *)
(***************************************************************************)
EXTENDS Integers, Sequences

CONSTANTS
    Actors,       \* actor ids (session principals and moderators)
    CommandIds,   \* idempotent command ids (routers/wiki.py _command_id)
    Slugs,        \* normalized slugs
    Titles,       \* page titles
    Texts,        \* page contents
    Notes,        \* notes and reasons
    None          \* Python's None

(***************************************************************************)
(* Identifiers.  Every id of an event or a page is derived from the        *)
(* command id and a purpose (uuid5, routers/wiki.py _stable_id); a content *)
(* digest is a deterministic function of the content.  Both are taken to   *)
(* be collision-free, so a tagged pair stands for each.                    *)
(***************************************************************************)
StableId(c, purpose) == <<c, purpose>>
Digest(content) == <<"sha256", content>>

PageIds     == {StableId(c, "page") : c \in CommandIds}
RevisionIds == {StableId(c, "revision") : c \in CommandIds}
Digests     == {Digest(t) : t \in Texts}

PublicScopes    == {"wiki:read", "wiki:edit", "wiki:submit", "wiki:report"}
ModeratorScopes == {"wiki:moderate"}

Moderations == {"QuarantinePage", "ReleasePage"}
Kinds == {"CreatePage", "EditPage", "SubmitReview", "ReportPage"} \cup Moderations

\* The scope each command kind requires of its actor.
RequiredScope ==
    [k \in Kinds |-> IF k \in Moderations THEN "wiki:moderate"
                     ELSE IF k = "SubmitReview" THEN "wiki:submit"
                     ELSE IF k = "ReportPage" THEN "wiki:report"
                     ELSE "wiki:edit"]

\* The purpose from which the id of the event of each command kind is derived.
EventPurpose ==
    [k \in Kinds |-> IF k \in Moderations THEN "moderation"
                     ELSE IF k = "SubmitReview" THEN "submission"
                     ELSE IF k = "ReportPage" THEN "report"
                     ELSE "revision"]

EventIds == {StableId(c, EventPurpose[k]) : c \in CommandIds, k \in Kinds}

Commands ==
    [id : CommandIds, kind : Kinds, actor : Actors,
     scopes : {PublicScopes, ModeratorScopes},
     page : PageIds, slug : Slugs \cup {None}, title : Titles \cup {None},
     text : Texts \cup Notes, rev : RevisionIds \cup {None}, hash : Digests \cup {None}]

\* The commands the routers build: a command kind fills only the fields it has.
\* who is an <<actor, scopes>> pair, page an existing page.
CreateCommands(id, who) ==
    [id : {id}, kind : {"CreatePage"}, actor : {who[1]}, scopes : {who[2]},
     page : {StableId(id, "page")}, slug : Slugs, title : Titles, text : Texts,
     rev : {None}, hash : {None}]

EditCommands(id, who, page) ==
    [id : {id}, kind : {"EditPage"}, actor : {who[1]}, scopes : {who[2]},
     page : {page}, slug : {None}, title : Titles, text : Texts,
     rev : RevisionIds, hash : {None}]

ReportCommands(id, who, page) ==
    [id : {id}, kind : {"ReportPage"}, actor : {who[1]}, scopes : {who[2]},
     page : {page}, slug : {None}, title : {None}, text : Notes,
     rev : {None}, hash : {None}]

ExactRevisionCommands(id, kinds, who, page) ==
    [id : {id}, kind : kinds, actor : {who[1]}, scopes : {who[2]},
     page : {page}, slug : {None}, title : {None}, text : Notes,
     rev : RevisionIds, hash : Digests]

\* What the public router lets a session ask of a page, and the operator router
\* a moderator: each checks the scope of its caller before it builds a command.
PageCommands(id, who, page) ==
    IF "wiki:moderate" \in who[2]
      THEN ExactRevisionCommands(id, Moderations, who, page)
      ELSE EditCommands(id, who, page) \cup ReportCommands(id, who, page)
             \cup ExactRevisionCommands(id, {"SubmitReview"}, who, page)

EventTypes == {"page_created", "revision_committed", "review_submitted",
               "page_reported", "page_quarantined", "page_released"}

EventType ==
    [k \in Kinds |-> IF k = "CreatePage" THEN "page_created"
                     ELSE IF k = "EditPage" THEN "revision_committed"
                     ELSE IF k = "SubmitReview" THEN "review_submitted"
                     ELSE IF k = "ReportPage" THEN "page_reported"
                     ELSE IF k = "QuarantinePage" THEN "page_quarantined"
                     ELSE "page_released"]

RevisionTypes == {"page_created", "revision_committed"}
ModerationTypes == {"page_quarantined", "page_released"}

Events ==
    [id : EventIds, command : CommandIds, page : PageIds, type : EventTypes,
     actor : Actors, rev : RevisionIds, parent : RevisionIds \cup {None},
     slug : Slugs, title : Titles \cup {None}, text : Texts \cup Notes,
     index : Nat]

Pages ==
    [id : PageIds, slug : Slugs, title : Titles, text : Texts,
     head : RevisionIds, hash : Digests, headActor : Actors, version : Nat,
     review : {"unreviewed", "submitted"},
     moderation : {"visible", "quarantined"}]

\* Python's None is no id, no text and no record.
ASSUME NoneIsFresh ==
    /\ None \notin CommandIds \cup Actors \cup Slugs \cup Titles \cup Texts \cup Notes
    /\ None \notin PageIds \cup RevisionIds \cup Digests
    /\ None \notin Pages

-----------------------------------------------------------------------------
(***************************************************************************)
(* decide.  s is the page or None.  First the reasons to refuse a command, *)
(* one operator each, then the verdict: the first reason that applies, in  *)
(* the order of the code.                                                  *)
(***************************************************************************)
OutOfScope(c) == RequiredScope[c.kind] \notin c.scopes

\* Slips these checks could have; each is what one property rules out.
HiddenFromEditorsOnly(s, c) ==
    c.kind \in {"EditPage", "SubmitReview"} /\ s.moderation = "quarantined"
HeadConflictUnlessEdit(s, c) ==
    c.kind \notin {"ReportPage", "EditPage"} /\ c.rev # s.head

\* Only a moderator's commands see a quarantined page.
Hidden(s, c) == c.kind \notin Moderations /\ s.moderation = "quarantined"

\* The author of the head revision cannot moderate it.
SelfModeration(s, c) == c.kind \in Moderations /\ c.actor = s.headActor

\* Everything but a report names the head revision it was made on ...
HeadConflict(s, c) == c.kind # "ReportPage" /\ c.rev # s.head

\* ... and all of those but an edit its content digest too.
HashConflict(s, c) == c.kind \notin {"ReportPage", "EditPage"} /\ c.hash # s.hash

AlreadySubmitted(s, c) == c.kind = "SubmitReview" /\ s.review = "submitted"

Verdict(s, c) ==
    IF c.kind # "CreatePage" /\ s = None THEN "page_not_found"
    ELSE IF OutOfScope(c) THEN "insufficient_scope"
    ELSE IF c.kind = "CreatePage"
         THEN IF s = None THEN "accepted" ELSE "page_exists"
    ELSE IF SelfModeration(s, c) THEN "moderator_is_head_actor"
    ELSE IF Hidden(s, c) THEN "page_quarantined"
    ELSE IF HeadConflict(s, c) THEN "revision_conflict"
    ELSE IF HashConflict(s, c) THEN "content_hash_conflict"
    ELSE IF AlreadySubmitted(s, c) THEN "already_submitted"
    ELSE IF c.kind = "QuarantinePage" /\ s.moderation = "quarantined"
         THEN "already_quarantined"
    ELSE IF c.kind = "ReleasePage" /\ s.moderation = "visible"
         THEN "page_not_quarantined"
    ELSE "accepted"

\* The revision an event is about: the one it commits, or the head.
EventRevision(s, c) ==
    IF c.kind \in {"CreatePage", "EditPage"} THEN StableId(c.id, "revision") ELSE s.head

\* The one event an accepted command emits, stored at `index' of its stream.
EventOf(s, c, index) ==
    [id      |-> StableId(c.id, EventPurpose[c.kind]),
     command |-> c.id,
     page    |-> c.page,
     type    |-> EventType[c.kind],
     actor   |-> c.actor,
     rev     |-> EventRevision(s, c),
     parent  |-> IF c.kind = "EditPage" THEN s.head ELSE None,
     slug    |-> IF c.kind = "CreatePage" THEN c.slug ELSE s.slug,
     title   |-> c.title,
     text    |-> c.text,
     index   |-> index]

\* A slip: a report is recorded in the stream and not handed to the operators.
EffectsWithoutReports(c) ==
    IF c.kind = "SubmitReview"
      THEN {[event |-> StableId(c.id, "submission"), type |-> "review_requested"]}
    ELSE {}

\* The outbox effects an accepted command emits: one for a submission, one for
\* a report, none otherwise.
EffectsOf(c) ==
    IF c.kind = "SubmitReview"
      THEN {[event |-> StableId(c.id, "submission"), type |-> "review_requested"]}
    ELSE IF c.kind = "ReportPage"
      THEN {[event |-> StableId(c.id, "report"),
             type |-> "moderation_report_requested"]}
    ELSE {}

EffectIds ==
    {[event |-> StableId(c, "submission"), type |-> "review_requested"]
        : c \in CommandIds}
    \cup
    {[event |-> StableId(c, "report"), type |-> "moderation_report_requested"]
        : c \in CommandIds}

-----------------------------------------------------------------------------
(***************************************************************************)
(* evolve.  Its invalid_event_stream errors (a page_created that is not    *)
(* first, another event that is) are outside its domain here: the stores   *)
(* never produce such a stream, which ProjectionIsReplay checks.           *)
(***************************************************************************)
NewPage(e) ==
    [id |-> e.page, slug |-> e.slug, title |-> e.title, text |-> e.text,
     head |-> e.rev, hash |-> Digest(e.text), headActor |-> e.actor,
     version |-> 1, review |-> "unreviewed", moderation |-> "visible"]

Revised(s, e) ==
    [id |-> s.id, slug |-> s.slug, title |-> e.title, text |-> e.text,
     head |-> e.rev, hash |-> Digest(e.text), headActor |-> e.actor,
     version |-> s.version + 1, review |-> "unreviewed", moderation |-> "visible"]

Bumped(s) == [s EXCEPT !.version = s.version + 1]

Evolve(s, e) ==
    IF e.type = "page_created" THEN NewPage(e)
    ELSE IF e.type = "revision_committed" THEN Revised(s, e)
    ELSE IF e.type = "review_submitted" THEN [Bumped(s) EXCEPT !.review = "submitted"]
    ELSE IF e.type = "page_reported" THEN Bumped(s)
    ELSE IF e.type = "page_quarantined"
         THEN [Bumped(s) EXCEPT !.moderation = "quarantined"]
    ELSE [Bumped(s) EXCEPT !.moderation = "visible"]  \* page_released

\* replay: the page a whole stream folds to.
Replay(es) ==
    LET fold[i \in 0..Len(es)] ==
          IF i = 0 THEN None ELSE Evolve(fold[i - 1], es[i])
    IN  fold[Len(es)]

(***************************************************************************)
(* command_intent: everything the client chose, without the server clock,  *)
(* the scopes and the command id.  Its SHA-256 fingerprint is collision-   *)
(* free here, so the intent stands for it.                                 *)
(***************************************************************************)
Fingerprint(c) ==
    [kind |-> c.kind, actor |-> c.actor, page |-> c.page, slug |-> c.slug,
     title |-> c.title, text |-> c.text, rev |-> c.rev, hash |-> c.hash]

Fingerprints ==
    [kind : Kinds, actor : Actors, page : PageIds, slug : Slugs \cup {None},
     title : Titles \cup {None}, text : Texts \cup Notes,
     rev : RevisionIds \cup {None},
     hash : Digests \cup {None}]
=============================================================================
