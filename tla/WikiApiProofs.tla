------------------------------ MODULE WikiApiProofs ------------------------------
(***************************************************************************)
(* What the handlers of the wiki API promise, for any number of requests,  *)
(* clients, pages and texts, whatever readers do meanwhile: they ask of    *)
(* the store only what a store is asked, so all its promises hold under    *)
(* them; an edit keeps the title it left out; and a key that is used again *)
(* for something else is never taken for a retry.                          *)
(*                                                                         *)
(* A handler fills in what the request left out from a page it read        *)
(* earlier.  That is right only because a head, once replaced, is never    *)
(* the head again: revision ids are derived from command ids, and a        *)
(* command takes effect once.                                              *)
(***************************************************************************)
EXTENDS WikiReads, WikiStoreSafety

\* The steps of WikiReads that are not only a reader's.
ApiNext ==
    \/ \E k \in Callers : Handle(k) \/ Decide(k) \/ Accept(k) \/ Respond(k)
    \/ \E e \in EffectIds : ResolveOutbox(e) /\ UNCHANGED <<http, earned>>

\* A revision that some command has made.
Made(rev) ==
    \E id \in CommandIds : rev = StableId(id, "revision") /\ receipts[id] # None

\* Every revision in the store has been made, and a page is stored under its id.
RevisionsAreMade ==
    \A p \in PageIds :
       /\ \A i \in 1..Len(events[p]) : Made(events[p][i].rev)
       /\ pages[p] # None => pages[p].id = p /\ Made(pages[p].head)

\* The title of a page is the one of its last revision.
TitleIsOfHead ==
    \A p \in PageIds : \A j \in Nat :
       pages[p] # None /\ IsHeadAt(p, Len(events[p]) + 1, j) =>
         pages[p].title = events[p][j].title

\* A client's request, which names a scope its session has.
Allowed(r) ==
    /\ r.key \in Keys
    /\ r.who \in Principals
    /\ r.kind \in Kinds
    /\ RequiredScope[r.kind] \in r.who[2]

\* A command or an intent has what the request named.
Fits(r, intent) ==
    /\ intent.kind = r.kind /\ intent.actor = r.who[1] /\ intent.text = r.text
    /\ r.title \in {None, intent.title}
    /\ r.rev \in {None, intent.rev}
    /\ r.hash \in {None, intent.hash}
    /\ r.kind = "CreatePage" => intent.slug = r.slug
    /\ r.kind # "CreatePage" =>
         /\ intent.page \in PageIds /\ pages[intent.page] # None
         /\ pages[intent.page].slug = r.slug

\* A title that was filled in is the one of the revision the edit names, as long as
\* that is the head; and it will not be the head again.
TitleFits(r, c) ==
    c.kind = "EditPage" /\ r.title = None =>
      /\ Made(c.rev)
      /\ pages[c.page].head = c.rev => pages[c.page].title = c.title

\* Whoever waits for the store has asked it for what his request says.
HandlerOK(k) ==
    LET r == http[k].request
        c == call[k].command
    IN  /\ http[k].status = "executing" <=> call[k].state # "idle"
        /\ http[k].status = "executing" =>
             /\ Allowed(r)
             /\ c.id = IdOf(r)
             /\ Fits(r, c)
             /\ TitleFits(r, c)

HandlersInOrder ==
    /\ http = [k \in Callers |-> http[k]]
    /\ \A k \in Callers : HandlerOK(k)

\* A receipt remembers the intent of the request that earned it.
EarnedInOrder ==
    /\ earned = [id \in CommandIds |-> earned[id]]
    /\ \A id \in CommandIds :
         receipts[id] # None =>
           Allowed(earned[id]) /\ Fits(earned[id], receipts[id].fingerprint)

ApiInv ==
    /\ DecisionInv
    /\ RevisionsAreMade
    /\ TitleIsOfHead
    /\ HandlersInOrder
    /\ EarnedInOrder
    /\ EditKeepsTitle

-----------------------------------------------------------------------------
(***************************************************************************)
(* What a handler asks of the store.                                       *)
(***************************************************************************)

\* What a client can send, field by field.
LEMMA RequestFields ==
    ASSUME NEW r \in ClientRequests
    PROVE  /\ Allowed(r) /\ r.slug \in Slugs
           /\ r.kind = "CreatePage" =>
                r.title \in Titles /\ r.text \in Texts /\ r.rev = None /\ r.hash = None
           /\ r.kind = "EditPage" =>
                /\ r.title \in Titles \cup {None} /\ r.text \in Texts
                /\ r.rev \in ShownRevisions /\ r.hash = None
           /\ r.kind = "ReportPage" =>
                r.title = None /\ r.text \in Notes /\ r.rev = None /\ r.hash = None
           /\ r.kind = "SubmitReview" =>
                /\ r.title = None /\ r.text \in Notes
                /\ r.rev \in ShownRevisions \cup {None} /\ r.hash \in Digests \cup {None}
           /\ r.kind \in Moderations =>
                /\ r.title = None /\ r.text \in Notes
                /\ r.rev \in ShownRevisions /\ r.hash \in Digests
<1>1. CASE r \in Sent({"CreatePage"}, Titles, Texts, {None}, {None})
  BY <1>1 DEF Sent, Allowed, Kinds, Moderations
<1>2. CASE r \in Sent({"EditPage"}, Titles \cup {None}, Texts, ShownRevisions, {None})
  BY <1>2 DEF Sent, Allowed, Kinds, Moderations
<1>3. CASE r \in Sent({"ReportPage"}, {None}, Notes, {None}, {None})
  BY <1>3 DEF Sent, Allowed, Kinds, Moderations
<1>4. CASE r \in Sent({"SubmitReview"}, {None}, Notes, ShownRevisions \cup {None},
                      Digests \cup {None})
  BY <1>4 DEF Sent, Allowed, Kinds, Moderations
<1>5. CASE r \in Sent(Moderations, {None}, Notes, ShownRevisions, Digests)
  BY <1>5 DEF Sent, Allowed, Kinds, Moderations
<1>6. QED
  BY <1>1, <1>2, <1>3, <1>4, <1>5 DEF ClientRequests

\* What a client has been shown exists.
LEMMA ShownIsMade ==
    ASSUME RevisionsAreMade, TypeOK, NEW rev \in ShownRevisions
    PROVE  rev \in RevisionIds /\ Made(rev)
<1>1. PICK p \in PageIds : \E i \in DOMAIN events[p] : rev = events[p][i].rev
  BY DEF ShownRevisions
<1>2. PICK i \in DOMAIN events[p] : rev = events[p][i].rev
  BY <1>1
<1>3. events[p] \in Seq(Events)
  BY DEF TypeOK
<1>4. i \in 1..Len(events[p]) /\ events[p][i] \in Events
  BY <1>2, <1>3
<1>5. QED
  BY <1>2, <1>4 DEF RevisionsAreMade, Events

\* The id of a command is a digest of who sent it and of their key.
LEMMA IdOfRequest ==
    ASSUME NEW r, Allowed(r)
    PROVE  /\ IdOf(r) \in CommandIds
           /\ r.who[1] \in Actors /\ r.who[2] \in {PublicScopes, ModeratorScopes}
           /\ r.who = <<r.who[1], r.who[2]>>
<1>1. r.who \in Actors \X {PublicScopes, ModeratorScopes}
  BY PrincipalsAreActors DEF Allowed
<1>2. QED
  BY <1>1, CommandIdsAreDigests DEF IdOf, Allowed

\* The page a handler reads is in the store, under its id and its slug.
LEMMA PageReadIsStored ==
    ASSUME TypeOK, SlugsAreUnique, RevisionsAreMade,
           NEW r, r.slug \in Slugs, PageRead(r) # None
    PROVE  \E p \in PageIds :
             /\ pages[p] # None /\ pages[p] \in Pages
             /\ PageRead(r) = pages[p]
             /\ pages[p].id = p /\ pages[p].slug = r.slug
<1>1. slugToId[r.slug] \in PageIds
  BY DEF PageRead, TypeOK
<1>2. PICK p \in PageIds : p = slugToId[r.slug]
  BY <1>1
<1>3. pages[p] # None /\ pages[p].slug = r.slug
  BY <1>2 DEF SlugsAreUnique
<1>4. PageRead(r) = pages[p]
  BY <1>2, NoneIsFresh DEF PageRead
<1>5. pages[p] \in Pages /\ pages[p].id = p
  BY <1>3 DEF TypeOK, RevisionsAreMade
<1>6. QED
  BY <1>3, <1>4, <1>5

\* The command a handler builds is one that a store is asked to execute, and it says
\* what the request says.
LEMMA CommandsAreRequests ==
    ASSUME TypeOK, SlugsAreUnique, RevisionsAreMade, NEW r \in ClientRequests,
           r.kind # "CreatePage" => PageRead(r) # None
    PROVE  LET c == CommandFor(r, PageRead(r)) IN
           /\ c \in Requests(IdOf(r), r.who)
           /\ c.id = IdOf(r)
           /\ Fits(r, c)
           /\ TitleFits(r, c)
<1> DEFINE c == CommandFor(r, PageRead(r))
<1>1. /\ c.id = IdOf(r) /\ c.kind = r.kind /\ c.actor = r.who[1] /\ c.scopes = r.who[2]
      /\ c.text = r.text
      /\ c.page = IF r.kind = "CreatePage" THEN StableId(IdOf(r), "page") ELSE PageRead(r).id
      /\ c.slug = IF r.kind = "CreatePage" THEN r.slug ELSE None
      /\ c.title = IF r.kind = "EditPage" THEN Default(r.title, PageRead(r).title) ELSE r.title
      /\ c.rev = IF r.kind = "SubmitReview" THEN Default(r.rev, PageRead(r).head) ELSE r.rev
      /\ c.hash = IF r.kind = "SubmitReview" THEN Default(r.hash, PageRead(r).hash) ELSE r.hash
  BY DEF CommandFor
<1>2. c = [id |-> c.id, kind |-> c.kind, actor |-> c.actor, scopes |-> c.scopes, page |-> c.page,
           slug |-> c.slug, title |-> c.title, text |-> c.text, rev |-> c.rev, hash |-> c.hash]
  BY DEF CommandFor
<1>3. Allowed(r) /\ r.slug \in Slugs /\ r.kind \in Kinds /\ RequiredScope[r.kind] \in r.who[2]
  BY RequestFields DEF Allowed
<1>4. r.who[2] \in {PublicScopes, ModeratorScopes}
  BY <1>3, IdOfRequest
<1>5. IF r.kind \in Moderations THEN "wiki:moderate" \in r.who[2]
      ELSE "wiki:moderate" \notin r.who[2] /\ "wiki:edit" \in r.who[2]
  <2>1. CASE r.kind \in Moderations
    BY <1>3, <2>1 DEF RequiredScope
  <2>2. CASE r.kind \notin Moderations
    <3>1. RequiredScope[r.kind] \in {"wiki:edit", "wiki:submit", "wiki:report"}
      BY <1>3, <2>2 DEF RequiredScope
    <3>2. r.who[2] = PublicScopes
      BY <1>3, <1>4, <3>1 DEF ModeratorScopes
    <3>3. QED
      BY <2>2, <3>2 DEF PublicScopes
  <2>3. QED
    BY <2>1, <2>2
<1>6. CASE r.kind = "CreatePage"
  <2>1. /\ c.title \in Titles /\ c.text \in Texts /\ c.rev = None /\ c.hash = None
        /\ c.slug \in Slugs /\ c.page = StableId(c.id, "page")
    BY <1>1, <1>3, <1>6, RequestFields
  <2>2. c \in CreateCommands(IdOf(r), r.who)
    BY <1>1, <1>2, <1>6, <2>1 DEF CreateCommands
  <2>3. c \in Requests(IdOf(r), r.who)
    BY <1>5, <1>6, <2>2 DEF Requests, Moderations
  <2>4. Fits(r, c)
    BY <1>1, <1>6 DEF Fits
  <2>5. TitleFits(r, c)
    BY <1>1, <1>6 DEF TitleFits
  <2>6. QED
    BY <1>1, <2>3, <2>4, <2>5
<1>7. CASE r.kind # "CreatePage"
  <2>1. PICK p \in PageIds :
          /\ pages[p] # None /\ pages[p] \in Pages
          /\ PageRead(r) = pages[p]
          /\ pages[p].id = p /\ pages[p].slug = r.slug
    BY <1>3, <1>7, PageReadIsStored
  <2>2. /\ pages[p].title \in Titles /\ pages[p].head \in RevisionIds /\ pages[p].hash \in Digests
        /\ c.page = p /\ c.slug = None
    BY <1>1, <1>7, <2>1 DEF Pages
  <2>3. c \in PageCommands(IdOf(r), r.who, p)
    <3>1. CASE r.kind = "EditPage"
      <4>1. c.title \in Titles /\ c.text \in Texts /\ c.rev \in RevisionIds /\ c.hash = None
        BY <1>1, <2>1, <2>2, <3>1, RequestFields, ShownIsMade, NoneIsFresh DEF Default
      <4>2. c \in EditCommands(IdOf(r), r.who, p)
        BY <1>1, <1>2, <2>2, <3>1, <4>1 DEF EditCommands
      <4>3. QED
        BY <1>5, <3>1, <4>2 DEF PageCommands, Moderations
    <3>2. CASE r.kind = "ReportPage"
      <4>1. c.title = None /\ c.text \in Notes /\ c.rev = None /\ c.hash = None
        BY <1>1, <3>2, RequestFields
      <4>2. c \in ReportCommands(IdOf(r), r.who, p)
        BY <1>1, <1>2, <2>2, <3>2, <4>1 DEF ReportCommands
      <4>3. QED
        BY <1>5, <3>2, <4>2 DEF PageCommands, Moderations
    <3>3. CASE r.kind = "SubmitReview"
      <4>1. c.title = None /\ c.text \in Notes
        BY <1>1, <3>3, RequestFields
      <4>2. c.rev \in RevisionIds
        BY <1>1, <2>1, <2>2, <3>3, RequestFields, ShownIsMade DEF Default
      <4>3. c.hash \in Digests
        BY <1>1, <2>1, <2>2, <3>3, RequestFields DEF Default
      <4>4. c \in ExactRevisionCommands(IdOf(r), {"SubmitReview"}, r.who, p)
        BY <1>1, <1>2, <2>2, <3>3, <4>1, <4>2, <4>3 DEF ExactRevisionCommands
      <4>5. QED
        BY <1>5, <3>3, <4>4 DEF PageCommands, Moderations
    <3>4. CASE r.kind \in Moderations
      <4>1. c.title = None /\ c.text \in Notes /\ c.rev \in RevisionIds /\ c.hash \in Digests
        BY <1>1, <3>4, RequestFields, ShownIsMade DEF Moderations
      <4>2. c \in ExactRevisionCommands(IdOf(r), Moderations, r.who, p)
        BY <1>1, <1>2, <2>2, <3>4, <4>1 DEF ExactRevisionCommands
      <4>3. QED
        BY <1>5, <3>4, <4>2 DEF PageCommands
    <3>5. QED
      BY <1>3, <1>7, <3>1, <3>2, <3>3, <3>4 DEF Kinds
  <2>4. c \in Requests(IdOf(r), r.who)
    BY <2>1, <2>3 DEF Requests
  <2>5. Fits(r, c)
    BY <1>1, <1>7, <2>1, <2>2 DEF Fits, Default
  <2>6. TitleFits(r, c)
    <3>1. ASSUME r.kind = "EditPage", r.title = None
          PROVE  Made(c.rev) /\ c.title = pages[c.page].title
      BY <1>1, <2>1, <2>2, <3>1, RequestFields, ShownIsMade DEF Default
    <3>2. QED
      BY <1>1, <3>1 DEF TitleFits
  <2>7. QED
    BY <1>1, <2>4, <2>5, <2>6
<1>8. QED
  BY <1>6, <1>7

\* What a handler's start does: it asks the store, or answers 404 and leaves it alone.
LEMMA HandleSteps ==
    ASSUME ApiInv, NEW k \in Callers, Handle(k)
    PROVE  \E r \in ClientRequests : \E h :
             /\ http' = [http EXCEPT ![k] = h] /\ h.request = r
             /\ \/ h.status = "page_not_found" /\ UNCHANGED vars
                \/ /\ h.status = "executing" /\ Invoke(k)
                   /\ \E c : /\ call' = [call EXCEPT ![k] = Pending(c)]
                             /\ c.id = IdOf(r) /\ Fits(r, c) /\ TitleFits(r, c)
<1>1. call[k].state = "idle"
  BY DEF Handle, ApiInv, HandlersInOrder, HandlerOK
<1>2. PICK r \in ClientRequests :
        LET missing == r.kind # "CreatePage" /\ PageRead(r) = None
        IN  /\ http' = [http EXCEPT ![k] =
                 [status |-> IF missing THEN "page_not_found" ELSE "executing",
                  request |-> r]]
            /\ call' = IF missing THEN call
                       ELSE [call EXCEPT ![k] = Pending(CommandFor(r, PageRead(r)))]
  BY DEF Handle
<1>3. UNCHANGED db
  BY DEF Handle
<1>4. CASE r.kind # "CreatePage" /\ PageRead(r) = None
  <2>1. http' = [http EXCEPT ![k] = [status |-> "page_not_found", request |-> r]]
    BY <1>2, <1>4
  <2>2. UNCHANGED vars
    BY <1>2, <1>3, <1>4 DEF vars, db
  <2>3. PICK h : h = [status |-> "page_not_found", request |-> r]
    OBVIOUS
  <2>4. http' = [http EXCEPT ![k] = h] /\ h.request = r /\ h.status = "page_not_found"
    BY <2>1, <2>3
  <2>5. QED
    BY <2>2, <2>4
<1>5. CASE ~(r.kind # "CreatePage" /\ PageRead(r) = None)
  <2>1. PICK c : c = CommandFor(r, PageRead(r))
    OBVIOUS
  <2>2. c \in Requests(IdOf(r), r.who) /\ c.id = IdOf(r) /\ Fits(r, c) /\ TitleFits(r, c)
    BY <1>5, <2>1, CommandsAreRequests DEF ApiInv, DecisionInv, IInv, Typed
  <2>3. call' = [call EXCEPT ![k] = Pending(c)]
    BY <1>2, <1>5, <2>1
  <2>4. IdOf(r) \in CommandIds /\ r.who \in Principals
    BY RequestFields, IdOfRequest DEF Allowed
  <2>5. Invoke(k)
    BY <1>1, <1>3, <2>2, <2>3, <2>4 DEF Invoke
  <2>6. PICK h : h = [status |-> "executing", request |-> r]
    OBVIOUS
  <2>7. http' = [http EXCEPT ![k] = h] /\ h.request = r /\ h.status = "executing"
    BY <1>2, <1>5, <2>6
  <2>8. QED
    BY <2>2, <2>3, <2>5, <2>7
<1>6. QED
  BY <1>4, <1>5

\* What the handlers do to the store is what callers of a store do.
LEMMA HandlersCallTheStore ==
    ASSUME ApiInv, [ApiNext]_apiVars
    PROVE  [Next]_vars
<1>1. ASSUME NEW k \in Callers, Handle(k)
      PROVE  [Next]_vars
  BY <1>1, HandleSteps DEF Next
<1>2. ASSUME NEW k \in Callers, Decide(k)
      PROVE  [Next]_vars
  BY <1>2 DEF Decide, Next, Execute
<1>3. ASSUME NEW k \in Callers, Accept(k)
      PROVE  [Next]_vars
  BY <1>3 DEF Accept, Next, Execute
<1>4. ASSUME NEW k \in Callers, Respond(k)
      PROVE  [Next]_vars
  BY <1>4 DEF Respond, Next, db, vars
<1>5. ASSUME NEW e \in EffectIds, ResolveOutbox(e)
      PROVE  [Next]_vars
  BY <1>5 DEF Next
<1>6. CASE UNCHANGED apiVars
  BY <1>6 DEF apiVars, vars
<1>7. QED
  BY <1>1, <1>2, <1>3, <1>4, <1>5, <1>6 DEF ApiNext

\* A step of a reader leaves the handlers and the store alone; the writers are the
\* handlers within their bounds.
LEMMA ReadersLeaveItAlone == [ReadsNext]_readsVars => [ApiNext]_apiVars
<1>1. ASSUME NEW r \in Readers,
             StartRead(r) \/ LookUp(r) \/ ReadList(r) \/ ReadBefore(r) \/ ReadAfter(r) \/ EndRead(r)
      PROVE  UNCHANGED apiVars
  <2>1. StartRead(r) => UNCHANGED apiVars
    BY DEF StartRead
  <2>2. LookUp(r) => UNCHANGED apiVars
    BY DEF LookUp
  <2>3. ReadList(r) => UNCHANGED apiVars
    BY DEF ReadList
  <2>4. ReadBefore(r) => UNCHANGED apiVars
    BY DEF ReadBefore
  <2>5. ReadAfter(r) => UNCHANGED apiVars
    BY DEF ReadAfter
  <2>6. EndRead(r) => UNCHANGED apiVars
    BY DEF EndRead
  <2>7. QED
    BY <1>1, <2>1, <2>2, <2>3, <2>4, <2>5, <2>6
<1>2. ASSUME NEW k \in Callers, HandleNow(k) \/ DecideThen(k) \/ AcceptThen(k) \/ RespondThen(k)
      PROVE  Handle(k) \/ Decide(k) \/ Accept(k) \/ Respond(k)
  BY <1>2 DEF HandleNow, DecideThen, AcceptThen, RespondThen
<1>3. UNCHANGED readsVars => UNCHANGED apiVars
  BY DEF readsVars
<1>4. QED
  BY <1>1, <1>2, <1>3 DEF ReadsNext, ApiNext

-----------------------------------------------------------------------------
(***************************************************************************)
(* What stands once it is there.                                           *)
(***************************************************************************)

\* The title of a page comes from the event that makes its head, as the head does.
LEMMA AcceptedTitle ==
    ASSUME IInv, NEW k \in Callers, ExecuteAccepted(k)
    PROVE  LET c == call[k].command
               e == EventFor(c)
               s == pages[c.page]
           IN  /\ e.type \in RevisionTypes =>
                    PageAfter(c).title = e.title /\ e.rev = StableId(c.id, "revision")
               /\ e.type \notin RevisionTypes =>
                    /\ s # None /\ PageAfter(c).title = s.title
                    /\ e.rev = s.head
               /\ PageAfter(c).id = IF s = None THEN c.page ELSE s.id
               /\ s # None => PageAfter(c).slug = s.slug
<1> DEFINE c == call[k].command
           e == EventFor(c)
           s == pages[c.page]
<1>1. /\ c.kind \in Kinds
      /\ c.kind = "CreatePage" => s = None
      /\ c.kind # "CreatePage" => s \in Pages /\ s # None /\ StateFor(c) = s
  BY AcceptedState, NoneIsFresh DEF IInv
<1>2. /\ e.type = EventType[c.kind]
      /\ e.type \in RevisionTypes <=> c.kind \in {"CreatePage", "EditPage"}
  BY AcceptedHead
<1>3. s # None => PageAfter(c).slug = s.slug
  BY <1>1, AcceptedPage DEF IInv
<1>4. CASE c.kind = "CreatePage"
  <2>1. e.type = "page_created"
    BY <1>2, <1>4 DEF EventType, Kinds
  <2>2. PageAfter(c) = NewPage(e) /\ e.rev = StableId(c.id, "revision") /\ e.page = c.page
    BY <1>4, <2>1 DEF PageAfter, Evolve, EventFor, EventOf, EventRevision
  <2>3. QED
    BY <1>1, <1>2, <1>4, <2>2 DEF NewPage
<1>5. CASE c.kind = "EditPage"
  <2>1. e.type = "revision_committed"
    BY <1>1, <1>2, <1>5 DEF EventType
  <2>2. PageAfter(c) = Revised(s, e) /\ e.rev = StableId(c.id, "revision")
    BY <1>1, <1>5, <2>1 DEF PageAfter, Evolve, EventFor, EventOf, EventRevision
  <2>3. QED
    BY <1>1, <1>2, <1>3, <1>5, <2>2 DEF Revised
<1>6. CASE c.kind \notin {"CreatePage", "EditPage"}
  <2>1. e.type \notin {"page_created", "revision_committed"} /\ e.rev = s.head
    BY <1>1, <1>2, <1>6 DEF RevisionTypes, EventFor, EventOf, EventRevision
  <2>2. s \in Pages
    BY <1>1, <1>6
  <2>3. Bumped(s) \in Pages /\ Bumped(s).title = s.title /\ Bumped(s).id = s.id
    BY <2>2 DEF Bumped, Pages
  <2>4. PICK b \in Pages : b = Bumped(s)
    BY <2>3
  <2>5. ASSUME NEW t \in Pages, NEW x
        PROVE  /\ [t EXCEPT !.review = x].title = t.title /\ [t EXCEPT !.review = x].id = t.id
               /\ [t EXCEPT !.moderation = x].title = t.title
               /\ [t EXCEPT !.moderation = x].id = t.id
    BY DEF Pages
  <2>6. PageAfter(c) \in {b, [b EXCEPT !.review = "submitted"],
                          [b EXCEPT !.moderation = "quarantined"],
                          [b EXCEPT !.moderation = "visible"]}
    BY <1>1, <1>6, <2>1, <2>4 DEF PageAfter, Evolve
  <2>7. PageAfter(c).title = s.title /\ PageAfter(c).id = s.id
    <3>1. b.title = s.title /\ b.id = s.id
      BY <2>3, <2>4
    <3>2. CASE PageAfter(c) = b
      BY <3>1, <3>2
    <3>3. CASE PageAfter(c) = [b EXCEPT !.review = "submitted"]
      BY <2>5, <3>1, <3>3
    <3>4. CASE PageAfter(c) = [b EXCEPT !.moderation = "quarantined"]
      BY <2>5, <3>1, <3>4
    <3>5. CASE PageAfter(c) = [b EXCEPT !.moderation = "visible"]
      BY <2>5, <3>1, <3>5
    <3>6. QED
      BY <2>6, <3>2, <3>3, <3>4, <3>5
  <2>8. QED
    BY <1>1, <1>2, <1>3, <1>6, <2>1, <2>7
<1>7. QED
  BY <1>4, <1>5, <1>6

\* Receipts, pages and slugs are never taken back.
LEMMA StoreStands ==
    ASSUME IInv, [Next]_vars
    PROVE  /\ \A rev : Made(rev) => Made(rev)'
           /\ \A p \in PageIds :
                pages[p] # None => pages'[p] # None /\ pages'[p].slug = pages[p].slug
<1>1. \A rev : Made(rev) => Made(rev)'
  BY HistoryStep DEF HistoryGrows, Made
<1>2. ASSUME UNCHANGED pages
      PROVE  \A p \in PageIds :
                pages[p] # None => pages'[p] # None /\ pages'[p].slug = pages[p].slug
  BY <1>2
<1>3. ASSUME NEW k \in Callers, ExecuteAccepted(k)
      PROVE  \A p \in PageIds :
                pages[p] # None => pages'[p] # None /\ pages'[p].slug = pages[p].slug
  BY <1>3, AcceptedChanges, AcceptedTitle
<1>4. QED
  BY <1>1, <1>2, <1>3
     DEF Next, Execute, Invoke, ExecuteKnown, ExecuteRejected, Fail, LoseReply, Return,
         ResolveOutbox, db, vars

\* What fits a request fits it later, too.
LEMMA FitsStands ==
    ASSUME IInv, [Next]_vars, NEW r, NEW intent, Fits(r, intent)
    PROVE  Fits(r, intent)'
BY StoreStands DEF Fits

-----------------------------------------------------------------------------
(***************************************************************************)
(* The invariant, conjunct by conjunct.                                    *)
(***************************************************************************)

\* An accepted command makes the revision it names after itself, or is about the head.
LEMMA RevisionsStayMade ==
    ASSUME IInv, RevisionsAreMade, [Next]_vars
    PROVE  RevisionsAreMade'
<1>1. ASSUME UNCHANGED <<pages, events>>
      PROVE  RevisionsAreMade'
  BY <1>1, StoreStands DEF RevisionsAreMade
<1>2. ASSUME NEW k \in Callers, ExecuteAccepted(k)
      PROVE  RevisionsAreMade'
  <2>1. PICK c : c = call[k].command
    OBVIOUS
  <2>2. PICK n : n = Len(events[c.page]) + 1
    OBVIOUS
  <2>3. PICK e : e = EventFor(c)
    OBVIOUS
  <2>4. /\ c.id \in CommandIds /\ c.page \in PageIds /\ n \in Nat
        /\ pages'[c.page] = PageAfter(c)
        /\ \A p \in PageIds : p # c.page => pages'[p] = pages[p] /\ events'[p] = events[p]
        /\ Len(events'[c.page]) = n
        /\ events'[c.page][n] = e
        /\ \A i \in 1..Len(events[c.page]) : events'[c.page][i] = events[c.page][i]
        /\ receipts'[c.id] # None
    BY <1>2, <2>1, <2>2, <2>3, AcceptedChanges
  <2>5. PICK s : s = pages[c.page]
    OBVIOUS
  <2>6. /\ e.type \in RevisionTypes => e.rev = StableId(c.id, "revision")
        /\ e.type \notin RevisionTypes => s # None /\ e.rev = s.head
        /\ PageAfter(c).id = IF s = None THEN c.page ELSE s.id
        /\ PageAfter(c).head = e.rev
    BY <1>2, <2>1, <2>3, <2>5, AcceptedTitle, AcceptedPage DEF IInv
  <2>7. Made(e.rev)'
    <3>1. CASE e.type \in RevisionTypes
      BY <2>4, <2>6, <3>1 DEF Made
    <3>2. CASE e.type \notin RevisionTypes
      <4>1. Made(s.head)
        BY <2>4, <2>5, <2>6, <3>2 DEF RevisionsAreMade
      <4>2. QED
        BY <2>6, <3>2, <4>1, StoreStands
    <3>3. QED
      BY <3>1, <3>2
  <2>8. PageAfter(c).id = c.page
    BY <2>4, <2>5, <2>6 DEF RevisionsAreMade
  <2>9. Len(events[c.page]) = n - 1 /\ n >= 1
    BY <2>2, <2>4 DEF IInv, Typed, TypeOK
  <2>10. ASSUME NEW i \in 1..Len(events'[c.page])
         PROVE  Made(events[c.page][i].rev)'
    <3>1. CASE i = n
      BY <2>4, <2>7, <3>1
    <3>2. CASE i # n
      <4>1. i \in 1..Len(events[c.page])
        BY <2>4, <2>9, <3>2
      <4>2. Made(events[c.page][i].rev)
        BY <2>4, <4>1 DEF RevisionsAreMade
      <4>3. QED
        BY <2>4, <4>1, <4>2, StoreStands
    <3>3. QED
      BY <3>1, <3>2
  <2>11. ASSUME NEW p \in PageIds, p # c.page
         PROVE  /\ \A i \in 1..Len(events'[p]) : Made(events[p][i].rev)'
                /\ pages'[p] # None => pages'[p].id = p /\ Made(pages[p].head)'
    BY <2>4, <2>11, StoreStands DEF RevisionsAreMade
  <2>12. QED
    BY <2>4, <2>6, <2>7, <2>8, <2>10, <2>11 DEF RevisionsAreMade
<1>3. QED
  BY <1>1, <1>2
     DEF Next, Execute, Invoke, ExecuteKnown, ExecuteRejected, Fail, LoseReply, Return,
         ResolveOutbox, db, vars

\* An accepted command changes the title and the last revision together, or neither.
LEMMA TitleStaysOfHead ==
    ASSUME IInv, TitleIsOfHead, [Next]_vars
    PROVE  TitleIsOfHead'
<1>1. ASSUME UNCHANGED <<pages, events>>
      PROVE  TitleIsOfHead'
  BY <1>1 DEF TitleIsOfHead, IsHeadAt, RevisionsBefore
<1>2. ASSUME NEW k \in Callers, ExecuteAccepted(k),
             NEW p \in PageIds, NEW j \in Nat,
             pages'[p] # None, IsHeadAt(p, Len(events[p]) + 1, j)'
      PROVE  pages'[p].title = events'[p][j].title
  <2>1. PICK c : c = call[k].command
    OBVIOUS
  <2>2. PICK n : n = Len(events[c.page]) + 1
    OBVIOUS
  <2>3. PICK e : e = EventFor(c)
    OBVIOUS
  <2>4. /\ c.id \in CommandIds /\ c.page \in PageIds /\ n \in Nat
        /\ pages'[c.page] = PageAfter(c)
        /\ \A q \in PageIds : q # c.page => pages'[q] = pages[q] /\ events'[q] = events[q]
        /\ Len(events'[c.page]) = n
        /\ events'[c.page][n] = e
        /\ \A i \in 1..Len(events[c.page]) : events'[c.page][i] = events[c.page][i]
    BY <1>2, <2>1, <2>2, <2>3, AcceptedChanges
  <2>5. Len(events[c.page]) = n - 1 /\ n >= 1
    BY <2>2, <2>4 DEF IInv, Typed, TypeOK
  <2>6. CASE p # c.page
    <3>1. pages'[p] = pages[p] /\ events'[p] = events[p]
      BY <2>4, <2>6
    <3>2. QED
      BY <1>2, <3>1 DEF TitleIsOfHead, IsHeadAt, RevisionsBefore
  <2>7. CASE p = c.page /\ e.type \in RevisionTypes
    <3>1. n \in RevisionsBefore(p, Len(events[p]) + 1)'
      BY <2>4, <2>5, <2>7 DEF RevisionsBefore
    <3>2. j \in 1..n /\ n <= j
      BY <1>2, <2>4, <2>7, <3>1 DEF IsHeadAt, RevisionsBefore
    <3>3. j = n
      BY <2>4, <3>2
    <3>4. PageAfter(c).title = e.title
      BY <1>2, <2>1, <2>3, <2>7, AcceptedTitle
    <3>5. QED
      BY <2>4, <2>7, <3>3, <3>4
  <2>8. CASE p = c.page /\ e.type \notin RevisionTypes
    <3>1. pages[p] # None /\ PageAfter(c).title = pages[p].title
      BY <1>2, <2>1, <2>3, <2>8, AcceptedTitle
    <3>2. j \in 1..(n - 1) /\ IsHeadAt(p, n, j)
      <4>1. \A m : m \in RevisionsBefore(p, Len(events[p]) + 1)' <=> m \in RevisionsBefore(p, n)
        BY <2>4, <2>5, <2>8 DEF RevisionsBefore
      <4>2. QED
        BY <1>2, <4>1 DEF IsHeadAt, RevisionsBefore
    <3>3. pages[p].title = events[p][j].title
      BY <2>2, <2>8, <3>1, <3>2 DEF TitleIsOfHead
    <3>4. QED
      BY <2>4, <2>5, <2>8, <3>1, <3>2, <3>3
  <2>9. QED
    BY <2>6, <2>7, <2>8
<1>3. (\E k \in Callers : ExecuteAccepted(k)) => TitleIsOfHead'
  BY <1>2 DEF TitleIsOfHead
<1>4. QED
  BY <1>1, <1>3
     DEF Next, Execute, Invoke, ExecuteKnown, ExecuteRejected, Fail, LoseReply, Return,
         ResolveOutbox, db, vars

\* The title that was filled in stays right: a new head is a revision that was not made
\* before, so it is not the one the edit names.
LEMMA TitleFitsStands ==
    ASSUME IInv, [Next]_vars, NEW r, NEW c,
           c.kind = "EditPage" => c.page \in PageIds /\ pages[c.page] # None,
           TitleFits(r, c)
    PROVE  TitleFits(r, c)'
<1>1. SUFFICES ASSUME c.kind = "EditPage", r.title = None
               PROVE  /\ Made(c.rev)'
                      /\ pages'[c.page].head = c.rev => pages'[c.page].title = c.title
  BY DEF TitleFits
<1>2. /\ c.page \in PageIds /\ pages[c.page] # None
      /\ Made(c.rev) /\ (pages[c.page].head = c.rev => pages[c.page].title = c.title)
  BY <1>1 DEF TitleFits
<1>3. Made(c.rev)'
  BY <1>2, StoreStands
<1>4. ASSUME UNCHANGED pages
      PROVE  pages'[c.page].head = c.rev => pages'[c.page].title = c.title
  BY <1>2, <1>4
<1>5. ASSUME NEW k \in Callers, ExecuteAccepted(k)
      PROVE  pages'[c.page].head = c.rev => pages'[c.page].title = c.title
  <2>1. PICK d : d = call[k].command
    OBVIOUS
  <2>2. PICK e : e = EventFor(d)
    OBVIOUS
  <2>3. /\ pages'[d.page] = PageAfter(d)
        /\ \A p \in PageIds : p # d.page => pages'[p] = pages[p]
        /\ receipts[d.id] = None
    BY <1>5, <2>1, AcceptedChanges, AcceptedState DEF IInv
  <2>4. CASE c.page # d.page
    BY <1>2, <2>3, <2>4
  <2>5. CASE c.page = d.page /\ e.type \in RevisionTypes
    <3>1. PageAfter(d).head = StableId(d.id, "revision")
      BY <1>5, <2>1, <2>2, <2>5, AcceptedTitle, AcceptedHead
    <3>2. PICK id \in CommandIds : c.rev = StableId(id, "revision") /\ receipts[id] # None
      BY <1>2 DEF Made
    <3>3. id # d.id
      BY <2>3, <3>2
    <3>4. c.rev # PageAfter(d).head
      BY <3>1, <3>2, <3>3 DEF StableId
    <3>5. QED
      BY <2>3, <2>5, <3>4
  <2>6. CASE c.page = d.page /\ e.type \notin RevisionTypes
    <3>1. PageAfter(d).head = pages[d.page].head /\ PageAfter(d).title = pages[d.page].title
      BY <1>5, <2>1, <2>2, <2>6, AcceptedTitle, AcceptedHead
    <3>2. QED
      BY <1>2, <2>3, <2>6, <3>1
  <2>7. QED
    BY <2>4, <2>5, <2>6
<1>6. QED
  BY <1>3, <1>4, <1>5
     DEF Next, Execute, Invoke, ExecuteKnown, ExecuteRejected, Fail, LoseReply, Return,
         ResolveOutbox, db, vars

\* A handler that waits is not disturbed by what the store does for it or for others.
LEMMA HandlerStands ==
    ASSUME IInv, [Next]_vars, NEW k \in Callers, HandlerOK(k),
           http'[k] = http[k],
           call'[k].state = "idle" <=> call[k].state = "idle",
           call'[k].state # "idle" => call'[k].command = call[k].command
    PROVE  HandlerOK(k)'
<1>1. PICK r : r = http[k].request
  OBVIOUS
<1>2. PICK c : c = call[k].command
  OBVIOUS
<1>3. http[k].status = "executing" <=> call[k].state # "idle"
  BY DEF HandlerOK
<1>4. ASSUME http[k].status = "executing"
      PROVE  /\ Allowed(r) /\ c.id = IdOf(r) /\ Fits(r, c) /\ TitleFits(r, c)
             /\ call'[k].command = c /\ http'[k].request = r
  BY <1>1, <1>2, <1>3, <1>4 DEF HandlerOK
<1>5. ASSUME http[k].status = "executing"
      PROVE  Fits(r, c)' /\ TitleFits(r, c)'
  <2>1. c.kind = "EditPage" => c.page \in PageIds /\ pages[c.page] # None
    BY <1>4, <1>5 DEF Fits
  <2>2. Fits(r, c)'
    BY <1>4, <1>5, FitsStands
  <2>3. TitleFits(r, c)'
    BY <1>4, <1>5, <2>1, TitleFitsStands
  <2>4. QED
    BY <2>2, <2>3
<1>6. QED
  BY <1>3, <1>4, <1>5 DEF HandlerOK

\* A handler starts with a command that fits its request, and ends with its call.
LEMMA HandlersStayInOrder ==
    ASSUME ApiInv, [ApiNext]_apiVars
    PROVE  HandlersInOrder'
<1>1. /\ IInv /\ [Next]_vars /\ call \in [Callers -> Calls]
      /\ DOMAIN http = Callers /\ http = [k \in Callers |-> http[k]]
      /\ \A k \in Callers : HandlerOK(k)
  BY HandlersCallTheStore DEF ApiInv, DecisionInv, IInv, Typed, TypeOK, HandlersInOrder
<1>2. ASSUME http' = http, \A k \in Callers :
               /\ call'[k].state = "idle" <=> call[k].state = "idle"
               /\ call'[k].state # "idle" => call'[k].command = call[k].command
      PROVE  HandlersInOrder'
  <2>1. ASSUME NEW k \in Callers
        PROVE  HandlerOK(k)'
    BY <1>1, <1>2, HandlerStands
  <2>2. QED
    BY <1>1, <1>2, <2>1 DEF HandlersInOrder
<1>3. ASSUME NEW k \in Callers, NEW h, http' = [http EXCEPT ![k] = h],
             \A j \in Callers : j # k => call'[j] = call[j],
             HandlerOK(k)'
      PROVE  HandlersInOrder'
  <2>1. ASSUME NEW j \in Callers, j # k
        PROVE  HandlerOK(j)'
    BY <1>1, <1>3, <2>1, HandlerStands
  <2>2. http' = [j \in Callers |-> http'[j]]
    BY <1>1, <1>3
  <2>3. QED
    BY <1>3, <2>1, <2>2 DEF HandlersInOrder
<1>4. ASSUME NEW k \in Callers, Handle(k)
      PROVE  HandlersInOrder'
  <2>1. PICK r \in ClientRequests : \E h :
             /\ http' = [http EXCEPT ![k] = h] /\ h.request = r
             /\ \/ h.status = "page_not_found" /\ UNCHANGED vars
                \/ /\ h.status = "executing" /\ Invoke(k)
                   /\ \E c : /\ call' = [call EXCEPT ![k] = Pending(c)]
                             /\ c.id = IdOf(r) /\ Fits(r, c) /\ TitleFits(r, c)
    BY <1>4, HandleSteps
  <2>2. PICK h :
             /\ http' = [http EXCEPT ![k] = h] /\ h.request = r
             /\ \/ h.status = "page_not_found" /\ UNCHANGED vars
                \/ /\ h.status = "executing" /\ Invoke(k)
                   /\ \E c : /\ call' = [call EXCEPT ![k] = Pending(c)]
                             /\ c.id = IdOf(r) /\ Fits(r, c) /\ TitleFits(r, c)
    BY <2>1
  <2>3. http'[k] = h
    BY <1>1, <2>2
  <2>4. CASE h.status = "page_not_found" /\ UNCHANGED vars
    <3>1. call'[k].state = "idle"
      BY <1>1, <1>4, <2>4 DEF Handle, HandlerOK, vars
    <3>2. HandlerOK(k)'
      BY <2>3, <2>4, <3>1 DEF HandlerOK
    <3>3. QED
      BY <1>3, <2>2, <2>4, <3>2 DEF vars
  <2>5. CASE h.status = "executing" /\ Invoke(k)
    <3>1. PICK c : /\ call' = [call EXCEPT ![k] = Pending(c)]
                   /\ c.id = IdOf(r) /\ Fits(r, c) /\ TitleFits(r, c)
      BY <2>2, <2>5
    <3>2. call'[k] = Pending(c) /\ \A j \in Callers : j # k => call'[j] = call[j]
      BY <1>1, <3>1
    <3>3. call'[k].state # "idle" /\ call'[k].command = c
      BY <3>2 DEF Pending
    <3>4. Fits(r, c)'
      BY <1>1, <3>1, FitsStands
    <3>5. c.kind = "EditPage" => c.page \in PageIds /\ pages[c.page] # None
      BY <3>1 DEF Fits
    <3>6. TitleFits(r, c)'
      BY <1>1, <3>1, <3>5, TitleFitsStands
    <3>7. Allowed(r)
      BY RequestFields
    <3>8. HandlerOK(k)'
      BY <2>2, <2>3, <2>5, <3>1, <3>3, <3>4, <3>6, <3>7 DEF HandlerOK
    <3>9. QED
      BY <1>3, <2>2, <3>2, <3>8
  <2>6. QED
    BY <2>2, <2>4, <2>5
<1>5. ASSUME NEW k \in Callers, NEW y, call' = [call EXCEPT ![k] = Done(call[k].command, y)],
             call[k].state # "idle", http' = http
      PROVE  HandlersInOrder'
  <2>1. Done(call[k].command, y).state = "done"
          /\ Done(call[k].command, y).command = call[k].command
    BY DEF Done
  <2>2. QED
    BY <1>1, <1>2, <1>5, <2>1
<1>6. ASSUME NEW k \in Callers, Decide(k) \/ Accept(k)
      PROVE  HandlersInOrder'
  <2>1. ExecuteKnown(k) \/ ExecuteRejected(k) \/ ExecuteAccepted(k) \/ Fail(k) \/ LoseReply(k)
    BY <1>6 DEF Decide, Accept
  <2>2. http' = http
    BY <1>6 DEF Decide, Accept
  <2>3. ExecuteKnown(k) => HandlersInOrder'
    BY <1>5, <2>2 DEF ExecuteKnown
  <2>4. ExecuteRejected(k) => HandlersInOrder'
    BY <1>5, <2>2 DEF ExecuteRejected
  <2>5. ExecuteAccepted(k) => HandlersInOrder'
    BY <1>5, <2>2 DEF ExecuteAccepted
  <2>6. Fail(k) => HandlersInOrder'
    BY <1>5, <2>2 DEF Fail
  <2>7. LoseReply(k) => HandlersInOrder'
    BY <1>5, <2>2 DEF LoseReply
  <2>8. QED
    BY <2>1, <2>3, <2>4, <2>5, <2>6, <2>7
<1>7. ASSUME NEW k \in Callers, Respond(k)
      PROVE  HandlersInOrder'
  <2>1. http' = [http EXCEPT ![k] = NoRequest] /\ http'[k].status = "idle"
    BY <1>1, <1>7 DEF Respond, NoRequest
  <2>2. call'[k].state = "idle" /\ \A j \in Callers : j # k => call'[j] = call[j]
    <3>1. CASE Return(k)
      BY <1>1, <3>1 DEF Return, Idle
    <3>2. CASE http[k].status = "page_not_found" /\ call' = call
      BY <1>1, <3>2 DEF HandlerOK
    <3>3. QED
      BY <1>7, <3>1, <3>2 DEF Respond
  <2>3. HandlerOK(k)'
    BY <2>1, <2>2 DEF HandlerOK
  <2>4. QED
    BY <1>3, <2>1, <2>2, <2>3
<1>8. ASSUME NEW e \in EffectIds, ResolveOutbox(e), UNCHANGED <<http, earned>>
      PROVE  HandlersInOrder'
  BY <1>2, <1>8 DEF ResolveOutbox
<1>9. CASE UNCHANGED apiVars
  BY <1>2, <1>9 DEF apiVars
<1>10. QED
  BY <1>4, <1>6, <1>7, <1>8, <1>9 DEF ApiNext

\* Only an accepted command writes a receipt, and its handler's request goes with it.
LEMMA EarnedStaysInOrder ==
    ASSUME ApiInv, [ApiNext]_apiVars
    PROVE  EarnedInOrder'
<1>1. /\ IInv /\ [Next]_vars
      /\ DOMAIN earned = CommandIds /\ earned = [id \in CommandIds |-> earned[id]]
      /\ \A id \in CommandIds :
           receipts[id] # None =>
             Allowed(earned[id]) /\ Fits(earned[id], receipts[id].fingerprint)
  BY HandlersCallTheStore DEF ApiInv, DecisionInv, EarnedInOrder
<1>2. ASSUME NEW id \in CommandIds, receipts[id] # None,
             receipts'[id] = receipts[id], earned'[id] = earned[id]
      PROVE  Allowed(earned'[id]) /\ Fits(earned[id], receipts[id].fingerprint)'
  <2>1. PICK r : r = earned[id]
    OBVIOUS
  <2>2. PICK f : f = receipts[id].fingerprint
    OBVIOUS
  <2>3. Allowed(r) /\ Fits(r, f)
    BY <1>1, <1>2, <2>1, <2>2
  <2>4. Fits(r, f)'
    BY <1>1, <2>3, FitsStands
  <2>5. QED
    BY <1>2, <2>1, <2>2, <2>3, <2>4
<1>3. ASSUME UNCHANGED <<receipts, earned>>
      PROVE  EarnedInOrder'
  BY <1>1, <1>2, <1>3 DEF EarnedInOrder
<1>4. ASSUME NEW k \in Callers, Accept(k)
      PROVE  EarnedInOrder'
  <2>1. PICK c : c = call[k].command
    OBVIOUS
  <2>2. PICK r : r = http[k].request
    OBVIOUS
  <2>3. ExecuteAccepted(k) /\ earned' = [earned EXCEPT ![c.id] = r]
    BY <1>4, <2>1, <2>2 DEF Accept
  <2>4. /\ c.id \in CommandIds
        /\ receipts'[c.id].fingerprint = Fingerprint(c)
        /\ \A d \in CommandIds : d # c.id => receipts'[d] = receipts[d]
    <3>1. /\ c.id \in CommandIds /\ receipts'[c.id] = ReceiptFor(c)
          /\ \A d \in CommandIds : d # c.id => receipts'[d] = receipts[d]
      BY <1>1, <2>1, <2>3, AcceptedChanges
    <3>2. ReceiptFor(c).fingerprint = Fingerprint(c)
      BY DEF ReceiptFor
    <3>3. QED
      BY <3>1, <3>2
  <2>5. Allowed(r) /\ Fits(r, c)
    <3>1. call[k].state # "idle"
      BY <2>3 DEF ExecuteAccepted
    <3>2. QED
      BY <2>1, <2>2, <3>1 DEF ApiInv, HandlersInOrder, HandlerOK
  <2>6. PICK f : f = Fingerprint(c)
    OBVIOUS
  <2>7. Fits(r, f)
    BY <2>5, <2>6 DEF Fits, Fingerprint
  <2>8. Fits(r, f)'
    BY <1>1, <2>7, FitsStands
  <2>9. /\ earned'[c.id] = r
        /\ \A d \in CommandIds : d # c.id => earned'[d] = earned[d]
        /\ earned' = [id \in CommandIds |-> earned'[id]]
    BY <1>1, <2>3, <2>4
  <2>10. ASSUME NEW id \in CommandIds, receipts'[id] # None
         PROVE  Allowed(earned'[id]) /\ Fits(earned[id], receipts[id].fingerprint)'
    <3>1. CASE id = c.id
      BY <2>4, <2>5, <2>6, <2>8, <2>9, <3>1
    <3>2. CASE id # c.id
      BY <1>2, <2>4, <2>9, <2>10, <3>2
    <3>3. QED
      BY <3>1, <3>2
  <2>11. QED
    BY <2>9, <2>10 DEF EarnedInOrder
<1>5. ASSUME NEW k \in Callers, Handle(k) \/ Decide(k) \/ Respond(k)
      PROVE  UNCHANGED <<receipts, earned>>
  BY <1>5 DEF Handle, Decide, Respond, ExecuteKnown, ExecuteRejected, Fail, LoseReply, Return, db
<1>6. (\E e \in EffectIds : ResolveOutbox(e) /\ UNCHANGED <<http, earned>>) \/ UNCHANGED apiVars
        => UNCHANGED <<receipts, earned>>
  BY DEF ResolveOutbox, apiVars
<1>7. QED
  BY <1>3, <1>4, <1>5, <1>6 DEF ApiNext

\* An accepted edit was asked for on the head, so the title its handler filled in is the
\* one of the revision it replaces; what was edited before stands.
LEMMA TitlesStayKept ==
    ASSUME ApiInv, [ApiNext]_apiVars
    PROVE  EditKeepsTitle'
<1>1. /\ IInv /\ HeadIsLastRevision /\ EffectOncePerCommand /\ TitleIsOfHead /\ EditKeepsTitle
      /\ DOMAIN earned = CommandIds
      /\ events \in [PageIds -> Seq(Events)]
  BY DEF ApiInv, DecisionInv, IInv, Typed, TypeOK, EarnedInOrder
<1>2. ASSUME UNCHANGED <<events, earned>>
      PROVE  EditKeepsTitle'
  BY <1>1, <1>2 DEF EditKeepsTitle, IsHeadAt, RevisionsBefore
<1>3. ASSUME NEW k \in Callers, Accept(k),
             NEW p \in PageIds, NEW i \in 1..Len(events'[p]),
             events'[p][i].type = "revision_committed",
             earned'[events'[p][i].command].title = None
      PROVE  \E j \in 1..(i - 1) : IsHeadAt(p, i, j)' /\ events'[p][i].title = events'[p][j].title
  <2>1. PICK c : c = call[k].command
    OBVIOUS
  <2>2. PICK r : r = http[k].request
    OBVIOUS
  <2>3. PICK n : n = Len(events[c.page]) + 1
    OBVIOUS
  <2>4. PICK e : e = EventFor(c)
    OBVIOUS
  <2>5. ExecuteAccepted(k) /\ earned' = [earned EXCEPT ![c.id] = r]
    BY <1>3, <2>1, <2>2 DEF Accept
  <2>6. /\ c.id \in CommandIds /\ c.page \in PageIds /\ n \in Nat
        /\ \A q \in PageIds : q # c.page => events'[q] = events[q]
        /\ Len(events'[c.page]) = n
        /\ events'[c.page][n] = e
        /\ \A m \in 1..Len(events[c.page]) : events'[c.page][m] = events[c.page][m]
        /\ receipts[c.id] = None
    BY <1>1, <2>1, <2>3, <2>4, <2>5, AcceptedChanges, AcceptedState DEF IInv
  <2>7. Len(events[c.page]) = n - 1 /\ n >= 1
    BY <1>1, <2>3, <2>6
  <2>8. CASE p = c.page /\ i = n
    <3>1. e.type = "revision_committed" /\ e.command = c.id /\ e.title = c.title
      BY <1>3, <2>4, <2>6, <2>8 DEF EventFor, EventOf
    <3>2. c.kind \in Kinds /\ e.type = EventType[c.kind]
      BY <1>1, <2>1, <2>4, <2>5, AcceptedState, AcceptedHead DEF IInv
    <3>3. c.kind = "EditPage"
      BY <3>1, <3>2 DEF EventType
    <3>4. r.title = None
      BY <1>1, <1>3, <2>5, <2>6, <2>8, <3>1
    <3>5. TitleFits(r, c)
      <4>1. call[k].state # "idle"
        BY <2>5 DEF ExecuteAccepted
      <4>2. QED
        BY <2>1, <2>2, <4>1 DEF ApiInv, HandlersInOrder, HandlerOK
    <3>6. pages[p] # None /\ c.rev = pages[p].head
      BY <1>1, <2>1, <2>5, <2>8, <3>3, AcceptedChecks
    <3>7. pages[p].title = c.title
      BY <2>8, <3>3, <3>4, <3>5, <3>6 DEF TitleFits
    <3>8. PICK j \in 1..Len(events[p]) : IsHeadAt(p, Len(events[p]) + 1, j)
      BY <1>1, <3>6 DEF HeadIsLastRevision
    <3>9. Len(events[p]) + 1 = i /\ j \in Nat /\ j \in 1..(i - 1)
      BY <2>3, <2>7, <2>8, <3>8
    <3>10. pages[p].title = events[p][j].title
      BY <1>1, <3>6, <3>8, <3>9 DEF TitleIsOfHead
    <3>11. IsHeadAt(p, i, j)'
      <4>1. i \in 1..(Len(events[p]) + 1)
        BY <2>3, <2>6, <2>7, <2>8
      <4>2. IsHeadAt(p, i, j)
        BY <3>8, <3>9
      <4>3. QED
        BY <1>1, <2>5, <3>9, <4>1, <4>2, PastStands
    <3>12. events'[p][j] = events[p][j]
      BY <1>1, <2>5, <3>8, OneNewEvent
    <3>13. QED
      BY <2>6, <2>8, <3>1, <3>7, <3>9, <3>10, <3>11, <3>12
  <2>9. CASE ~(p = c.page /\ i = n)
    <3>1. i \in 1..Len(events[p]) /\ events'[p][i] = events[p][i]
      BY <1>1, <2>1, <2>3, <2>5, <2>9, OneNewEvent
    <3>2. PICK d : d = events[p][i].command
      OBVIOUS
    <3>3. d \in CommandIds /\ receipts[d] # None
      <4>1. events[p][i] \in Events
        BY <1>1, <3>1
      <4>2. d \in CommandIds
        BY <3>2, <4>1 DEF Events
      <4>3. QED
        BY <1>1, <3>1, <3>2, <4>2 DEF EffectOncePerCommand
    <3>4. earned'[d] = earned[d]
      BY <1>1, <2>5, <2>6, <3>3
    <3>5. events[p][i].type = "revision_committed" /\ earned[d].title = None
      BY <1>3, <3>1, <3>2, <3>4
    <3>6. PICK j \in 1..(i - 1) : IsHeadAt(p, i, j) /\ events[p][i].title = events[p][j].title
      BY <1>1, <3>1, <3>2, <3>5 DEF EditKeepsTitle
    <3>7. j \in Nat /\ i \in 1..(Len(events[p]) + 1)
      BY <1>1, <3>1
    <3>8. j \in RevisionsBefore(p, i)
      BY <3>6 DEF IsHeadAt
    <3>9. IsHeadAt(p, i, j)' /\ events'[p][j] = events[p][j]
      BY <1>1, <2>5, <3>6, <3>7, <3>8, PastStands
    <3>10. QED
      BY <3>1, <3>6, <3>9
  <2>10. QED
    BY <2>8, <2>9
<1>4. ASSUME NEW k \in Callers, Accept(k)
      PROVE  EditKeepsTitle'
  BY <1>3, <1>4 DEF EditKeepsTitle
<1>5. ASSUME NEW k \in Callers, Handle(k) \/ Decide(k) \/ Respond(k)
      PROVE  UNCHANGED <<events, earned>>
  BY <1>5 DEF Handle, Decide, Respond, ExecuteKnown, ExecuteRejected, Fail, LoseReply, Return, db
<1>6. (\E e \in EffectIds : ResolveOutbox(e) /\ UNCHANGED <<http, earned>>) \/ UNCHANGED apiVars
        => UNCHANGED <<events, earned>>
  BY DEF ResolveOutbox, apiVars
<1>7. QED
  BY <1>2, <1>4, <1>5, <1>6 DEF ApiNext

-----------------------------------------------------------------------------
(***************************************************************************)
(* The theorems.                                                           *)
(***************************************************************************)

\* An empty store with no handler at work.
LEMMA ApiInvInit == ApiInit => ApiInv
<1> SUFFICES ASSUME ApiInit
             PROVE  ApiInv
  OBVIOUS
<1>1. Init /\ DecisionInv
  BY DecisionInvInit DEF ApiInit
<1>2. \A p \in PageIds : pages[p] = None /\ Len(events[p]) = 0
  BY <1>1 DEF Init
<1>3. RevisionsAreMade /\ TitleIsOfHead
  BY <1>2 DEF RevisionsAreMade, TitleIsOfHead
<1>4. EditKeepsTitle
  BY <1>2 DEF EditKeepsTitle
<1>5. HandlersInOrder
  BY <1>1 DEF ApiInit, Init, HandlersInOrder, HandlerOK, NoRequest, Idle
<1>6. EarnedInOrder
  BY <1>1 DEF ApiInit, Init, EarnedInOrder
<1>7. QED
  BY <1>1, <1>3, <1>4, <1>5, <1>6 DEF ApiInv

\* Every step of a handler keeps the invariant.
LEMMA ApiInvStep ==
    ASSUME ApiInv, [ApiNext]_apiVars
    PROVE  ApiInv'
<1>1. IInv /\ [Next]_vars
  BY HandlersCallTheStore DEF ApiInv, DecisionInv
<1>2. DecisionInv'
  BY <1>1, DecisionInvStep DEF ApiInv
<1>3. RevisionsAreMade' /\ TitleIsOfHead'
  BY <1>1, RevisionsStayMade, TitleStaysOfHead DEF ApiInv
<1>4. HandlersInOrder' /\ EarnedInOrder' /\ EditKeepsTitle'
  BY HandlersStayInOrder, EarnedStaysInOrder, TitlesStayKept
<1>5. QED
  BY <1>2, <1>3, <1>4 DEF ApiInv

\* What waits in a handler stays right while other requests run, and what the streams,
\* the receipts and the requests that earned them say of each other holds in every
\* reachable state (routers/wiki.py, the mutation handlers; memory.py execute).
THEOREM ApiInvariance == ReadsSpec => []ApiInv
<1>1. ReadsInit => ApiInv
  BY ApiInvInit DEF ReadsInit
<1>2. ApiInv /\ [ReadsNext]_readsVars => ApiInv'
  BY ReadersLeaveItAlone, ApiInvStep
<1>3. QED
  BY <1>1, <1>2, PTL DEF ReadsSpec

\* The handlers implement the callers of the store: what they ask of it is what WikiStore's
\* callers ask, so everything proved of that module (one effect per command, answers that
\* agree, one page per slug, no stale decision, the outbox, the replay, a history that only
\* grows) holds of the API (routers/wiki.py over memory.py).
THEOREM HandlersUseTheStore == ReadsSpec => Spec
<1>1. ReadsInit => Init
  BY DEF ReadsInit, ApiInit
<1>2. ApiInv /\ [ReadsNext]_readsVars => [Next]_vars
  BY ReadersLeaveItAlone, HandlersCallTheStore
<1>3. QED
  BY <1>1, <1>2, ApiInvariance, PTL DEF ReadsSpec, Spec

\* An edit that leaves the title out keeps the title of the revision it replaces, though
\* its handler took the title from an earlier read (routers/wiki.py 697, 711): a title that
\* changed in between means a head that changed, and that edit is refused.
THEOREM TitlesAreKept == ReadsSpec => []EditKeepsTitle
<1>1. ApiInv => EditKeepsTitle
  BY DEF ApiInv
<1>2. QED
  BY <1>1, ApiInvariance, PTL

\* Who is told that a request is done sent it, or one that agrees with it (routers/wiki.py
\* _command_id; domain.py command_intent; memory.py 45-52): the fingerprint of the command
\* stands between a key and its reuse.
LEMMA AnswersFit == ApiInv => AnswersTheRequest
<1> SUFFICES ASSUME ApiInv, NEW k \in Callers,
                    call[k].state = "done", call[k].reply.receipt # None
             PROVE  Agree(http[k].request, earned[IdOf(http[k].request)])
  BY DEF AnswersTheRequest
<1>1. PICK r : r = http[k].request
  OBVIOUS
<1>2. PICK c : c = call[k].command
  OBVIOUS
<1>3. Allowed(r) /\ c.id = IdOf(r) /\ Fits(r, c)
  BY <1>1, <1>2 DEF ApiInv, HandlersInOrder, HandlerOK
<1>4. IdOf(r) \in CommandIds
  BY <1>3, IdOfRequest
<1>5. receipts[c.id] # None /\ receipts[c.id].fingerprint = Fingerprint(c)
  BY <1>2 DEF ApiInv, DecisionInv, IInv, AnswersAgree
<1>6. PICK q : q = earned[c.id]
  OBVIOUS
<1>7. Allowed(q) /\ Fits(q, Fingerprint(c))
  BY <1>3, <1>4, <1>5, <1>6 DEF ApiInv, EarnedInOrder
<1>8. Fits(q, c)
  BY <1>7 DEF Fits, Fingerprint
<1>9. r.kind = q.kind /\ r.text = q.text /\ r.who[1] = q.who[1]
  BY <1>3, <1>8 DEF Fits
<1>10. r.who = q.who
  <2>1. /\ r.who = <<r.who[1], r.who[2]>> /\ q.who = <<q.who[1], q.who[2]>>
        /\ r.who[2] \in {PublicScopes, ModeratorScopes}
        /\ q.who[2] \in {PublicScopes, ModeratorScopes}
    BY <1>3, <1>7, IdOfRequest
  <2>2. r.kind \in Kinds /\ RequiredScope[r.kind] \in r.who[2] /\ RequiredScope[r.kind] \in q.who[2]
    BY <1>3, <1>7, <1>9 DEF Allowed
  <2>3. \A x : ~(x \in PublicScopes /\ x \in ModeratorScopes)
    BY DEF PublicScopes, ModeratorScopes
  <2>4. r.who[2] = q.who[2]
    BY <2>1, <2>2, <2>3
  <2>5. QED
    BY <1>9, <2>1, <2>4
<1>11. r.slug = q.slug
  BY <1>3, <1>8, <1>9 DEF Fits
<1>12. /\ r.title = q.title \/ None \in {r.title, q.title}
       /\ r.rev = q.rev \/ None \in {r.rev, q.rev}
       /\ r.hash = q.hash \/ None \in {r.hash, q.hash}
  BY <1>3, <1>8 DEF Fits
<1>13. QED
  BY <1>1, <1>3, <1>6, <1>9, <1>10, <1>11, <1>12 DEF Agree

\* A key that is used again for something else is never taken for a retry, and a retry
\* whose first answer was lost is answered as the first would have been (routers/wiki.py
\* _command_id; memory.py 45-52).
THEOREM AnswersAreToTheRequest == ReadsSpec => []AnswersTheRequest
BY AnswersFit, ApiInvariance, PTL
=============================================================================
