-------------------------------- MODULE WikiApi --------------------------------
(***************************************************************************)
(* The mutation handlers of the wiki API (app/routers/wiki.py) over the    *)
(* store of WikiStore: a handler reads the page by its slug, fills what    *)
(* the request left out from that read, and executes the command it built. *)
(* Between the read and the execution other requests run, and a client     *)
(* that heard nothing sends the same request under the same                *)
(* Idempotency-Key again.                                                  *)
(*                                                                         *)
(* Authentication, scopes of a session and rate limits are settled before  *)
(* a handler gets here; a request names its actor and scopes.              *)
(***************************************************************************)
EXTENDS WikiStore

CONSTANT Keys  \* Idempotency-Key headers

\* The command id is a digest of actor and key, so no two actors share one.
CommandId(actor, key) == <<actor, key>>

ASSUME CommandIdsAreDigests ==
    CommandIds = {CommandId(a, key) : a \in Actors, key \in Keys}

VARIABLES
    http,   \* each caller's request, and how far it is
    earned  \* history: the request that earned each command's receipt

apiVars == <<pages, slugToId, events, receipts, outbox, call, http, earned>>

IdOf(r) == CommandId(r.who[1], r.key)

\* What a client has been shown: the revisions that exist and their digests.
ShownRevisions == UNION {{events[p][i].rev : i \in DOMAIN events[p]} : p \in PageIds}

\* What a client can send.  An edit may leave the title out, a submission the
\* revision and the digest; moderation and edits always name their revision.
Sent(kinds, titles, texts, revs, hashes) ==
    [key : Keys, kind : kinds, slug : Slugs, title : titles, text : texts,
     rev : revs, hash : hashes,
     who : {w \in Principals : \A kind \in kinds : RequiredScope[kind] \in w[2]}]

ClientRequests ==
    Sent({"CreatePage"}, Titles, Texts, {None}, {None})
      \cup Sent({"EditPage"}, Titles \cup {None}, Texts, ShownRevisions, {None})
      \cup Sent({"ReportPage"}, {None}, Notes, {None}, {None})
      \cup Sent({"SubmitReview"}, {None}, Notes, ShownRevisions \cup {None},
                Digests \cup {None})
      \cup Sent(Moderations, {None}, Notes, ShownRevisions, Digests)

\* The page a handler reads: the operator's handlers see quarantined pages too.
PageRead(r) ==
    LET id == slugToId[r.slug]
    IN  IF id = None THEN None
        ELSE IF pages[id].moderation = "quarantined" /\ r.kind \notin Moderations THEN None
        ELSE pages[id]

Default(given, read) == IF given # None THEN given ELSE read

\* The command built from the request and the page that was read.
CommandFor(r, page) ==
    [id |-> IdOf(r), kind |-> r.kind, actor |-> r.who[1], scopes |-> r.who[2],
     page  |-> IF r.kind = "CreatePage" THEN StableId(IdOf(r), "page") ELSE page.id,
     slug  |-> IF r.kind = "CreatePage" THEN r.slug ELSE None,
     title |-> IF r.kind = "EditPage" THEN Default(r.title, page.title) ELSE r.title,
     text  |-> r.text,
     rev   |-> IF r.kind = "SubmitReview" THEN Default(r.rev, page.head) ELSE r.rev,
     hash  |-> IF r.kind = "SubmitReview" THEN Default(r.hash, page.hash) ELSE r.hash]

-----------------------------------------------------------------------------
NoRequest == [status |-> "idle", request |-> None]

ApiInit ==
    /\ Init
    /\ http = [k \in Callers |-> NoRequest]
    /\ earned = [c \in CommandIds |-> None]

\* A handler starts: it reads the page and hands its command to the store, or
\* answers 404.
Handle(k) ==
    /\ http[k].status = "idle"
    /\ \E r \in ClientRequests :
         LET missing == r.kind # "CreatePage" /\ PageRead(r) = None
         IN  /\ http' = [http EXCEPT ![k] =
                  [status |-> IF missing THEN "page_not_found" ELSE "executing",
                   request |-> r]]
             /\ call' = IF missing THEN call
                        ELSE [call EXCEPT ![k] = Pending(CommandFor(r, PageRead(r)))]
    /\ UNCHANGED <<db, earned>>

\* The store decides.
Decide(k) ==
    /\ ExecuteKnown(k) \/ ExecuteRejected(k) \/ Fail(k) \/ LoseReply(k)
    /\ UNCHANGED <<http, earned>>

Accept(k) ==
    /\ ExecuteAccepted(k)
    /\ earned' = [earned EXCEPT ![call[k].command.id] = http[k].request]
    /\ UNCHANGED http

\* The handler answers with what the store said, or with its own 404.
Respond(k) ==
    /\ \/ http[k].status = "executing" /\ Return(k)
       \/ http[k].status = "page_not_found" /\ UNCHANGED <<db, call>>
    /\ http' = [http EXCEPT ![k] = NoRequest]
    /\ UNCHANGED earned

-----------------------------------------------------------------------------
(* Properties.                                                             *)

\* An edit that leaves the title out keeps the title of the revision it replaces,
\* although the handler takes it from a page it read before the edit was decided
\* (routers/wiki.py 697, 711).
EditKeepsTitle ==
    \A p \in PageIds : \A i \in 1..Len(events[p]) :
       LET e == events[p][i]
       IN  e.type = "revision_committed" /\ earned[e.command].title = None =>
             \E j \in 1..(i - 1) : IsHeadAt(p, i, j) /\ e.title = events[p][j].title

\* Two requests agree when they are of one kind, on one slug, with one text, and
\* name no field differently that both name.
Agree(r, q) ==
    /\ r.kind = q.kind /\ r.who = q.who /\ r.slug = q.slug /\ r.text = q.text
    /\ r.title = q.title \/ None \in {r.title, q.title}
    /\ r.rev = q.rev \/ None \in {r.rev, q.rev}
    /\ r.hash = q.hash \/ None \in {r.hash, q.hash}

\* A request that is told it is done is the one that was done, or agrees with it:
\* a key that is used again for something else is never taken for a retry.
AnswersTheRequest ==
    \A k \in Callers :
       call[k].state = "done" /\ call[k].reply.receipt # None =>
         Agree(http[k].request, earned[IdOf(http[k].request)])
=============================================================================
