------------------------------- MODULE WikiStore -------------------------------
(***************************************************************************)
(* What a wiki store promises, as the in-memory adapter keeps it           *)
(* (app/wiki/memory.py): every command takes effect at one instant between *)
(* its call and its return, under one lock.  The PostgreSQL adapter is     *)
(* shown to implement this module (WikiPostgres.tla).                      *)
(*                                                                         *)
(* A call may also fail without taking effect (Fail) or take effect and    *)
(* lose its answer (LoseReply): a caller that hears "unavailable" does not *)
(* know which, and may call again with the same command id.                *)
(***************************************************************************)
EXTENDS WikiKernel

CONSTANTS
    Callers,      \* concurrent requests
    Principals    \* authenticated <<actor, scopes>> pairs

ASSUME PrincipalsAreActors ==
    Principals \subseteq Actors \X {PublicScopes, ModeratorScopes}

VARIABLES
    pages,     \* _pages: page id -> projection or None
    slugToId,  \* _slug_to_id: slug -> page id or None
    events,    \* _events: page id -> stream
    receipts,  \* _receipts: command id -> receipt or None
    outbox,    \* _outbox: effect -> "absent", "pending" or "delivered"
    call       \* each caller's call of execute and its answer

vars == <<pages, slugToId, events, receipts, outbox, call>>
db == <<pages, slugToId, events, receipts, outbox>>

Receipts ==
    [fingerprint : Fingerprints, page : PageIds, version : Nat, event : EventIds]

ASSUME NoneIsNoReceipt == None \notin Receipts

Rejections ==
    {"idempotency_conflict", "slug_taken", "page_exists", "page_not_found",
     "insufficient_scope", "moderator_is_head_actor", "page_quarantined",
     "revision_conflict", "content_hash_conflict", "already_submitted",
     "already_quarantined", "page_not_quarantined"}

\* The answer of a call: the receipt it committed or replayed, a rejection, or
\* "unavailable" when the caller learns nothing.
Committed(r) == [code |-> "committed", receipt |-> r]
Replayed(r)  == [code |-> "replayed", receipt |-> r]
Rejected(e)  == [code |-> e, receipt |-> None]
Unavailable  == Rejected("unavailable")

Answers ==
    [code : {"committed", "replayed"}, receipt : Receipts]
      \cup {Rejected(e) : e \in Rejections \cup {"unavailable"}}

Calls ==
    [state : {"idle"}, command : {None}, reply : {None}]
      \cup [state : {"pending"}, command : Commands, reply : {None}]
      \cup [state : {"done"}, command : Commands, reply : Answers]

Idle == [state |-> "idle", command |-> None, reply |-> None]
Pending(c) == [state |-> "pending", command |-> c, reply |-> None]
Done(c, reply) == [state |-> "done", command |-> c, reply |-> reply]

Requests(id, who) ==
    (IF "wiki:edit" \in who[2] THEN CreateCommands(id, who) ELSE {})
      \cup UNION {PageCommands(id, who, p) : p \in {q \in PageIds : pages[q] # None}}

-----------------------------------------------------------------------------
Init ==
    /\ pages = [p \in PageIds |-> None]
    /\ slugToId = [s \in Slugs |-> None]
    /\ events = [p \in PageIds |-> <<>>]
    /\ receipts = [c \in CommandIds |-> None]
    /\ outbox = [e \in EffectIds |-> "absent"]
    /\ call = [k \in Callers |-> Idle]

\* A request reaches the store.  Every command but CreatePage names a page that
\* was read first, so one that exists.
Invoke(k) ==
    /\ call[k].state = "idle"
    /\ \E id \in CommandIds, who \in Principals :
         \E c \in Requests(id, who) : call' = [call EXCEPT ![k] = Pending(c)]
    /\ UNCHANGED db

\* Slips: another intent under a known id is executed, or answered, as if it
\* were the first.
KnownWithSameIntent(c) ==
    receipts[c.id] # None /\ receipts[c.id].fingerprint = Fingerprint(c)
SameKind(prior, c) == prior.fingerprint.kind = c.kind

Known(c) == receipts[c.id] # None
SameIntent(prior, c) == prior.fingerprint = Fingerprint(c)

\* The receipt of this command id already exists: replay it, or refuse another
\* intent under the same id.
ExecuteKnown(k) ==
    LET c == call[k].command
        prior == receipts[c.id]
    IN  /\ call[k].state = "pending"
        /\ Known(c)
        /\ call' = [call EXCEPT ![k] =
             Done(c, IF SameIntent(prior, c) THEN Replayed(prior)
                     ELSE Rejected("idempotency_conflict"))]
        /\ UNCHANGED db

\* The page the decision is made on; a create looks at no page.
StateFor(c) == IF c.kind = "CreatePage" THEN None ELSE pages[c.page]

SlugTaken(c) == c.kind = "CreatePage" /\ slugToId[c.slug] # None

ExecuteRejected(k) ==
    LET c == call[k].command
        verdict == IF SlugTaken(c) THEN "slug_taken" ELSE Verdict(StateFor(c), c)
    IN  /\ call[k].state = "pending"
        /\ ~Known(c)
        /\ verdict # "accepted"
        /\ call' = [call EXCEPT ![k] = Done(c, Rejected(verdict))]
        /\ UNCHANGED db

\* The accepted command: event, projection, slug, outbox effects and receipt
\* together.
EventFor(c) == EventOf(StateFor(c), c, Len(events[c.page]) + 1)
\* A slip: a report leaves the projection, and so its version, alone.
PageAfterUnlessReport(c) ==
    IF c.kind = "ReportPage" THEN StateFor(c) ELSE Evolve(StateFor(c), EventFor(c))
PageAfter(c) == Evolve(StateFor(c), EventFor(c))
OutboxAfter(c) ==
    [e \in EffectIds |-> IF e \in EffectsOf(c) THEN "pending" ELSE outbox[e]]
ReceiptFor(c) ==
    [fingerprint |-> Fingerprint(c), page |-> c.page,
     version |-> PageAfter(c).version, event |-> EventFor(c).id]

ExecuteAccepted(k) ==
    LET c == call[k].command
    IN  /\ call[k].state = "pending"
        /\ ~Known(c)
        /\ ~SlugTaken(c)
        /\ Verdict(StateFor(c), c) = "accepted"
        /\ pages' = [pages EXCEPT ![c.page] = PageAfter(c)]
        /\ slugToId' = IF c.kind = "CreatePage"
                         THEN [slugToId EXCEPT ![c.slug] = c.page] ELSE slugToId
        /\ events' = [events EXCEPT ![c.page] = Append(@, EventFor(c))]
        /\ outbox' = OutboxAfter(c)
        /\ receipts' = [receipts EXCEPT ![c.id] = ReceiptFor(c)]
        /\ call' = [call EXCEPT ![k] = Done(c, Committed(ReceiptFor(c)))]

Execute(k) == ExecuteKnown(k) \/ ExecuteRejected(k) \/ ExecuteAccepted(k)

\* The call ends without an effect and without an answer.
Fail(k) ==
    /\ call[k].state = "pending"
    /\ call' = [call EXCEPT ![k] = Done(call[k].command, Unavailable)]
    /\ UNCHANGED db

\* The call is over, and its answer never arrives.
LoseReply(k) ==
    /\ call[k].state = "done"
    /\ call[k].reply # Unavailable
    /\ call' = [call EXCEPT ![k] = Done(call[k].command, Unavailable)]
    /\ UNCHANGED db

\* The caller has its answer and is done with the call.
Return(k) ==
    /\ call[k].state = "done"
    /\ call' = [call EXCEPT ![k] = Idle]
    /\ UNCHANGED db

\* resolve_outbox: the operator closes a report; closing it again is accepted
\* and changes nothing.
ResolveOutbox(e) ==
    /\ e.type = "moderation_report_requested"
    /\ outbox[e] = "pending"
    /\ outbox' = [outbox EXCEPT ![e] = "delivered"]
    /\ UNCHANGED <<pages, slugToId, events, receipts, call>>

Next ==
    \/ \E k \in Callers :
         Invoke(k) \/ Execute(k) \/ Fail(k) \/ LoseReply(k) \/ Return(k)
    \/ \E e \in EffectIds : ResolveOutbox(e)

Spec == Init /\ [][Next]_vars

-----------------------------------------------------------------------------
(* Properties.                                                             *)

\* Every variable keeps its shape.
TypeOK ==
    /\ pages \in [PageIds -> Pages \cup {None}]
    /\ slugToId \in [Slugs -> PageIds \cup {None}]
    /\ events \in [PageIds -> Seq(Events)]
    /\ receipts \in [CommandIds -> Receipts \cup {None}]
    /\ outbox \in [EffectIds -> {"absent", "pending", "delivered"}]
    /\ call \in [Callers -> Calls]

\* A stream starts with the only page_created it has and numbers its events from 1
\* without a gap, so evolve never meets an invalid_event_stream; and the projection a
\* reader gets is what replaying the stream gives, its stream_version counting the
\* stream (domain.py replay, memory.py 61-76).
ProjectionIsReplay ==
    \A p \in PageIds :
       /\ \A i \in DOMAIN events[p] :
            /\ events[p][i].index = i
            /\ events[p][i].page = p
            /\ events[p][i].type = "page_created" <=> i = 1
       /\ pages[p] = Replay(events[p])
       /\ pages[p] # None => pages[p].version = Len(events[p])

\* A command id has exactly one event if it has a receipt, none otherwise, and
\* the receipt names that event: however often a command is retried it takes
\* effect once (memory.py 45-52 and 90).
EffectOncePerCommand ==
    \A c \in CommandIds :
       /\ receipts[c] # None =>
            /\ receipts[c].version \in 1..Len(events[receipts[c].page])
            /\ events[receipts[c].page][receipts[c].version].id = receipts[c].event
       /\ \A p \in PageIds : \A i \in 1..Len(events[p]) :
            events[p][i].command = c <=>
              receipts[c] # None /\ receipts[c].page = p /\ receipts[c].version = i

\* Revisions that event i of a stream comes after.
RevisionsBefore(p, i) == {j \in 1..(i - 1) : events[p][j].type \in RevisionTypes}

\* j is the last revision before event i.
IsHeadAt(p, i, j) ==
    /\ j \in RevisionsBefore(p, i)
    /\ \A m \in RevisionsBefore(p, i) : m <= j

\* Nothing is decided on a stale page: every edit, submission and moderation was
\* asked for on the last revision before it (and, but for edits, on its exact
\* content), an edit's parent is that revision, so no update is lost, and no
\* moderator is its author (domain.py 190, 222-227, 305, 311-314).
NoStaleDecision ==
    \A p \in PageIds : \A i \in 1..Len(events[p]) :
       LET e == events[p][i]
           asked == receipts[e.command].fingerprint
       IN  e.type \notin {"page_created", "page_reported"} =>
             \E j \in 1..(i - 1) :
               /\ IsHeadAt(p, i, j)
               /\ asked.rev = events[p][j].rev
               /\ IF e.type = "revision_committed" THEN e.parent = events[p][j].rev
                  ELSE asked.hash = Digest(events[p][j].text)
               /\ e.type \in ModerationTypes =>
                    e.rev = events[p][j].rev /\ e.actor # events[p][j].actor

\* A slug names at most one page, and the slug index agrees with the pages.
SlugsAreUnique ==
    \A s \in Slugs, p \in PageIds :
       slugToId[s] = p <=> (pages[p] # None /\ pages[p].slug = s)

\* The outbox holds the effect of each submission and each report and nothing
\* else: no report is lost, none is invented.
OutboxMatchesStreams ==
    \A e \in EffectIds :
       outbox[e] # "absent" <=>
         \E p \in PageIds : \E i \in 1..Len(events[p]) : events[p][i].id = e.event

\* While a page is quarantined its stream stands still: the only event that
\* follows a quarantine is its release, of the same revision.
QuarantineHolds ==
    \A p \in PageIds : \A i \in 2..Len(events[p]) :
       events[p][i - 1].type = "page_quarantined" =>
         /\ events[p][i].type = "page_released"
         /\ events[p][i].rev = events[p][i - 1].rev

\* Every answer that carries a receipt carries the one stored for its command
\* id, and only to a caller with the intent that earned it.
AnswersAgree ==
    \A k \in Callers :
       call[k].state = "done" /\ call[k].reply.receipt # None =>
         /\ receipts[call[k].command.id] = call[k].reply.receipt
         /\ call[k].reply.receipt.fingerprint = Fingerprint(call[k].command)

\* History is append-only: a stream grows at its end by one event at a time, a
\* receipt never changes, a resolved report stays resolved.
HistoryGrows ==
    /\ \A p \in PageIds :
         /\ Len(events'[p]) \in {Len(events[p]), Len(events[p]) + 1}
         /\ \A i \in 1..Len(events[p]) : events'[p][i] = events[p][i]
    /\ \A c \in CommandIds : receipts[c] # None => receipts'[c] = receipts[c]
    /\ \A e \in EffectIds : outbox[e] = "delivered" => outbox'[e] = "delivered"

HistoryIsAppendOnly == [][HistoryGrows]_vars
=============================================================================
