---------------------------- MODULE WikiStoreSafety ----------------------------
(***************************************************************************)
(* The safety of WikiStore for every value of its constants: a command     *)
(* takes effect once, its answers agree, a slug names one page, history    *)
(* only grows, a quarantined page stands still, no decision is stale, the  *)
(* outbox holds what the streams say and the projection is what replaying  *)
(* them gives.                                                             *)
(*                                                                         *)
(* None of these is inductive alone.  IInv adds what ties the projection,  *)
(* the stream, the receipts and the outbox to each other, DecisionInv      *)
(* where the head of a page comes from.                                    *)
(***************************************************************************)
EXTENDS WikiStore, WellFoundedInduction, TLAPS

(***************************************************************************)
(* What the routers guarantee of a command beyond the types of its fields. *)
(***************************************************************************)
WellFormed(c) ==
    /\ c \in Commands
    /\ c.kind = "CreatePage" =>
         /\ c.page = StableId(c.id, "page")
         /\ c.slug \in Slugs
    /\ c.kind \in {"CreatePage", "EditPage"} => c.title \in Titles /\ c.text \in Texts

WellFormedCalls ==
    \A k \in Callers : call[k].state # "idle" => WellFormed(call[k].command)

\* The commands the routers build have the kernel's type.
LEMMA RequestsAreWellFormed ==
    ASSUME NEW id \in CommandIds, NEW who \in Principals, NEW c \in Requests(id, who)
    PROVE  WellFormed(c)
<1> USE PrincipalsAreActors
<1>1. who \in Actors \X {PublicScopes, ModeratorScopes}
  OBVIOUS
<1>2. CASE c \in CreateCommands(id, who)
  BY <1>1, <1>2 DEF CreateCommands, WellFormed, Commands, PageIds, Kinds, Moderations
<1>3. ASSUME NEW p \in PageIds, c \in PageCommands(id, who, p)
      PROVE  WellFormed(c)
  <2>1. CASE c \in EditCommands(id, who, p)
    BY <1>1, <2>1 DEF EditCommands, WellFormed, Commands, Kinds, Moderations
  <2>2. CASE c \in ReportCommands(id, who, p)
    BY <1>1, <2>2 DEF ReportCommands, WellFormed, Commands, Kinds, Moderations
  <2>3. CASE c \in ExactRevisionCommands(id, Moderations, who, p)
    BY <1>1, <2>3 DEF ExactRevisionCommands, WellFormed, Commands, Kinds, Moderations
  <2>4. CASE c \in ExactRevisionCommands(id, {"SubmitReview"}, who, p)
    BY <1>1, <2>4 DEF ExactRevisionCommands, WellFormed, Commands, Kinds, Moderations
  <2>5. QED
    BY <1>3, <2>1, <2>2, <2>3, <2>4 DEF PageCommands
<1>4. c \in CreateCommands(id, who) \/ \E p \in PageIds : c \in PageCommands(id, who, p)
  BY DEF Requests
<1>5. QED
  BY <1>2, <1>3, <1>4

(***************************************************************************)
(* What an accepted command leaves behind has the right shape.             *)
(***************************************************************************)
LEMMA AcceptedNeedsPage ==
    ASSUME NEW s, NEW c, c.kind \in Kinds, Verdict(s, c) = "accepted"
    PROVE  /\ c.kind = "CreatePage" => s = None
           /\ c.kind # "CreatePage" => s # None
BY DEF Verdict

\* The event of a command has its type.
LEMMA EventOfType ==
    ASSUME NEW s \in Pages \cup {None}, NEW c, WellFormed(c), NEW n \in Nat,
           Verdict(s, c) = "accepted"
    PROVE  EventOf(s, c, n) \in Events
<1>1. c.kind # "CreatePage" => s \in Pages
  BY AcceptedNeedsPage DEF WellFormed, Commands
<1>2. StableId(c.id, EventPurpose[c.kind]) \in EventIds
  BY DEF WellFormed, Commands, EventIds
<1>3. EventType[c.kind] \in EventTypes
  BY DEF WellFormed, Commands, EventType, EventTypes
<1>4. EventRevision(s, c) \in RevisionIds
  BY <1>1 DEF EventRevision, RevisionIds, WellFormed, Commands, Pages
<1>5. QED
  BY <1>1, <1>2, <1>3, <1>4 DEF EventOf, Events, WellFormed, Commands, Pages

\* A page that evolves by an event stays a page.
LEMMA EvolveType ==
    ASSUME NEW s \in Pages \cup {None}, NEW c, WellFormed(c), NEW n \in Nat,
           Verdict(s, c) = "accepted"
    PROVE  Evolve(s, EventOf(s, c, n)) \in Pages
<1> DEFINE e == EventOf(s, c, n)
<1>1. e \in Events
  BY EventOfType
<1>2. /\ c.kind = "CreatePage" => s = None
      /\ c.kind # "CreatePage" => s \in Pages
  BY AcceptedNeedsPage DEF WellFormed, Commands
<1>3. /\ e.type = EventType[c.kind]
      /\ e.title = c.title
      /\ e.text = c.text
      /\ c.kind = "CreatePage" => e.slug = c.slug
  BY DEF EventOf
<1>4. c.kind \in Kinds
  BY DEF WellFormed, Commands
<1>5. e.text \in Texts => Digest(e.text) \in Digests
  BY DEF Digests
<1>6. CASE c.kind = "CreatePage"
  <2>1. e.type = "page_created"
    BY <1>3, <1>4, <1>6 DEF EventType
  <2>2. e.slug \in Slugs /\ e.title \in Titles /\ e.text \in Texts
    BY <1>3, <1>6 DEF WellFormed
  <2>3. QED
    BY <1>1, <1>5, <2>1, <2>2 DEF Evolve, NewPage, Pages, Events
<1>7. CASE c.kind = "EditPage"
  <2>1. e.type = "revision_committed"
    BY <1>3, <1>4, <1>7 DEF EventType
  <2>2. e.title \in Titles /\ e.text \in Texts
    BY <1>3, <1>7 DEF WellFormed
  <2>3. s \in Pages
    BY <1>2, <1>7
  <2>4. QED
    BY <1>1, <1>5, <2>1, <2>2, <2>3 DEF Evolve, Revised, Pages, Events
<1>8. CASE c.kind \notin {"CreatePage", "EditPage"}
  <2>1. e.type \in {"review_submitted", "page_reported", "page_quarantined",
                    "page_released"}
    BY <1>3, <1>4, <1>8 DEF EventType, Kinds, Moderations
  <2>2. Bumped(s) \in Pages
    BY <1>2, <1>8 DEF Bumped, Pages
  <2>3. \A t \in Pages : /\ [t EXCEPT !.review = "submitted"] \in Pages
                        /\ [t EXCEPT !.moderation = "visible"] \in Pages
                        /\ [t EXCEPT !.moderation = "quarantined"] \in Pages
    BY DEF Pages
  <2>4. QED
    BY <2>1, <2>2, <2>3 DEF Evolve
<1>9. QED
  BY <1>6, <1>7, <1>8

\* A fingerprint is one of those a receipt may hold.
LEMMA FingerprintType ==
    ASSUME NEW c, WellFormed(c)
    PROVE  Fingerprint(c) \in Fingerprints
BY DEF Fingerprint, Fingerprints, WellFormed, Commands

-----------------------------------------------------------------------------
(***************************************************************************)
(* Facts about the pending command of a caller.                            *)
(***************************************************************************)
LEMMA PendingFacts ==
    ASSUME TypeOK, WellFormedCalls, NEW k \in Callers, ExecuteAccepted(k)
    PROVE  LET c == call[k].command IN
           /\ WellFormed(c)
           /\ c.id \in CommandIds
           /\ c.page \in PageIds
           /\ StateFor(c) \in Pages \cup {None}
           /\ EventFor(c) \in Events
           /\ PageAfter(c) \in Pages
           /\ ReceiptFor(c) \in Receipts
           /\ ReceiptFor(c) # None
<1> DEFINE c == call[k].command
<1>1. WellFormed(c)
  BY DEF WellFormedCalls, ExecuteAccepted
<1>2. c.id \in CommandIds /\ c.page \in PageIds
  BY <1>1 DEF WellFormed, Commands
<1>3. StateFor(c) \in Pages \cup {None}
  BY <1>2 DEF StateFor, TypeOK
<1>4. Verdict(StateFor(c), c) = "accepted"
  BY DEF ExecuteAccepted
<1>5. Len(events[c.page]) + 1 \in Nat
  BY <1>2 DEF TypeOK
<1>6. EventFor(c) \in Events
  BY <1>1, <1>3, <1>4, <1>5, EventOfType DEF EventFor
<1>7. PageAfter(c) \in Pages
  BY <1>1, <1>3, <1>4, <1>5, EvolveType DEF PageAfter, EventFor
<1>8. ReceiptFor(c) \in Receipts
  BY <1>1, <1>2, <1>6, <1>7, FingerprintType DEF ReceiptFor, Receipts, Events, Pages
<1>9. QED
  BY <1>1, <1>2, <1>3, <1>6, <1>7, <1>8, NoneIsNoReceipt

-----------------------------------------------------------------------------
(***************************************************************************)
(* Type correctness.                                                       *)
(***************************************************************************)
Typed ==
    /\ TypeOK
    /\ WellFormedCalls

\* A command is accepted, or rejected for a reason the API knows.
LEMMA VerdictsAreRejections ==
    ASSUME NEW s, NEW c
    PROVE  Verdict(s, c) \in Rejections \cup {"accepted"}
BY DEF Verdict, Rejections

\* An ended call has its type.
LEMMA DoneType ==
    ASSUME NEW c, WellFormed(c), NEW r \in Answers
    PROVE  /\ Done(c, r) \in Calls
           /\ Done(c, r).command = c
           /\ Done(c, r).state = "done"
BY DEF Done, Calls, WellFormed

\* A step that changes only caller k's entry, to a good one.
LEMMA OneCallChanges ==
    ASSUME Typed, NEW k \in Callers, NEW x \in Calls, call' = [call EXCEPT ![k] = x],
           x.state # "idle" => WellFormed(x.command)
    PROVE  call' \in [Callers -> Calls] /\ WellFormedCalls'
<1>1. call \in [Callers -> Calls]
  BY DEF Typed, TypeOK
<1>2. call' \in [Callers -> Calls]
  BY <1>1
<1>3. ASSUME NEW j \in Callers, call'[j].state # "idle"
      PROVE  WellFormed(call'[j].command)
  <2>1. CASE j = k
    BY <1>1, <1>3, <2>1
  <2>2. CASE j # k
    BY <1>1, <1>3, <2>2 DEF Typed, WellFormedCalls
  <2>3. QED
    BY <2>1, <2>2
<1>4. QED
  BY <1>2, <1>3 DEF WellFormedCalls

\* Every step keeps the types, and that pending commands are ones a router could build.
LEMMA TypedStep ==
    ASSUME Typed, [Next]_vars
    PROVE  Typed'
<1> USE DEF Typed
<1>1. ASSUME NEW k \in Callers, Invoke(k)
      PROVE  Typed'
  <2>1. PICK id \in CommandIds, who \in Principals :
          \E c \in Requests(id, who) : call' = [call EXCEPT ![k] = Pending(c)]
    BY <1>1 DEF Invoke
  <2>2. PICK c \in Requests(id, who) : call' = [call EXCEPT ![k] = Pending(c)]
    BY <2>1
  <2>3. WellFormed(c)
    BY RequestsAreWellFormed
  <2>4. Pending(c) \in Calls /\ Pending(c).command = c
    BY <2>3 DEF Pending, Calls, WellFormed
  <2>5. call' \in [Callers -> Calls] /\ WellFormedCalls'
    BY <2>2, <2>3, <2>4, OneCallChanges
  <2>6. QED
    BY <1>1, <2>5 DEF Invoke, db, TypeOK
<1>2. ASSUME NEW k \in Callers, NEW r \in Answers, call[k].state # "idle",
             call' = [call EXCEPT ![k] = Done(call[k].command, r)], UNCHANGED db
      PROVE  Typed'
  <2>1. WellFormed(call[k].command)
    BY <1>2 DEF WellFormedCalls
  <2>2. call' \in [Callers -> Calls] /\ WellFormedCalls'
    BY <1>2, <2>1, DoneType, OneCallChanges
  <2>3. QED
    BY <1>2, <2>2 DEF db, TypeOK
<1>3. ASSUME NEW k \in Callers, ExecuteKnown(k)
      PROVE  Typed'
  <2>1. WellFormed(call[k].command)
    BY <1>3 DEF WellFormedCalls, ExecuteKnown
  <2>2. receipts[call[k].command.id] \in Receipts
    BY <1>3, <2>1 DEF ExecuteKnown, Known, TypeOK, WellFormed, Commands
  <2>3. Replayed(receipts[call[k].command.id]) \in Answers
    BY <2>2 DEF Replayed, Answers
  <2>4. Rejected("idempotency_conflict") \in Answers
    BY DEF Rejections, Answers
  <2>5. QED
    BY <1>2, <1>3, <2>3, <2>4 DEF ExecuteKnown
<1>4. ASSUME NEW k \in Callers, ExecuteRejected(k)
      PROVE  Typed'
  <2>1. PICK e \in Rejections :
          call' = [call EXCEPT ![k] = Done(call[k].command, Rejected(e))]
    BY <1>4, VerdictsAreRejections DEF ExecuteRejected, Rejections
  <2>2. Rejected(e) \in Answers
    BY DEF Answers
  <2>3. QED
    BY <1>2, <1>4, <2>1, <2>2 DEF ExecuteRejected
<1>5. ASSUME NEW k \in Callers, ExecuteAccepted(k)
      PROVE  Typed'
  <2> DEFINE c == call[k].command
  <2>1. /\ WellFormed(c)
        /\ c.id \in CommandIds
        /\ c.page \in PageIds
        /\ EventFor(c) \in Events
        /\ PageAfter(c) \in Pages
        /\ ReceiptFor(c) \in Receipts
    BY <1>5, PendingFacts
  <2>2. Committed(ReceiptFor(c)) \in Answers
    BY <2>1 DEF Committed, Answers
  <2>3. call' \in [Callers -> Calls] /\ WellFormedCalls'
    <3>1. PICK x : x = Done(c, Committed(ReceiptFor(c)))
      OBVIOUS
    <3>2. x \in Calls /\ x.command = c
      BY <2>1, <2>2, <3>1, DoneType
    <3>3. call' = [call EXCEPT ![k] = x]
      BY <1>5, <3>1 DEF ExecuteAccepted
    <3>4. QED
      BY <2>1, <3>2, <3>3, OneCallChanges
  <2>4. pages' \in [PageIds -> Pages \cup {None}]
    BY <1>5, <2>1 DEF ExecuteAccepted, TypeOK
  <2>5. slugToId' \in [Slugs -> PageIds \cup {None}]
    BY <1>5, <2>1 DEF ExecuteAccepted, TypeOK
  <2>6. events' \in [PageIds -> Seq(Events)]
    <3>1. Append(events[c.page], EventFor(c)) \in Seq(Events)
      BY <2>1 DEF TypeOK
    <3>2. QED
      BY <1>5, <3>1 DEF ExecuteAccepted, TypeOK
  <2>7. receipts' \in [CommandIds -> Receipts \cup {None}]
    BY <1>5, <2>1 DEF ExecuteAccepted, TypeOK
  <2>8. outbox' \in [EffectIds -> {"absent", "pending", "delivered"}]
    BY <1>5 DEF ExecuteAccepted, OutboxAfter, TypeOK
  <2>9. QED
    BY <2>3, <2>4, <2>5, <2>6, <2>7, <2>8 DEF TypeOK
<1>6. ASSUME NEW k \in Callers, Fail(k)
      PROVE  Typed'
  <2>1. Unavailable \in Answers
    BY DEF Unavailable, Answers
  <2>2. QED
    BY <1>2, <1>6, <2>1 DEF Fail
<1>7. ASSUME NEW k \in Callers, LoseReply(k)
      PROVE  Typed'
  <2>1. Unavailable \in Answers
    BY DEF Unavailable, Answers
  <2>2. call' = [call EXCEPT ![k] = Done(call[k].command, Unavailable)]
    BY <1>7 DEF LoseReply
  <2>3. QED
    BY <1>2, <1>7, <2>1, <2>2 DEF LoseReply
<1>8. ASSUME NEW e \in EffectIds, ResolveOutbox(e)
      PROVE  Typed'
  BY <1>8 DEF ResolveOutbox, TypeOK, WellFormedCalls
<1>9. ASSUME NEW k \in Callers, Return(k)
      PROVE  Typed'
  <2>1. Idle \in Calls /\ Idle.state = "idle"
    BY DEF Idle, Calls
  <2>2. call' \in [Callers -> Calls] /\ WellFormedCalls'
    BY <1>9, <2>1, OneCallChanges DEF Return
  <2>3. QED
    BY <1>9, <2>2 DEF Return, db, TypeOK
<1>10. CASE UNCHANGED vars
  BY <1>10 DEF vars, TypeOK, WellFormedCalls
<1>11. QED
  BY <1>1, <1>3, <1>4, <1>5, <1>6, <1>7, <1>8, <1>9, <1>10 DEF Next, Execute

\* The empty store has its type.
LEMMA TypedInit == Init => Typed
BY DEF Init, Typed, TypeOK, WellFormedCalls, Idle, Calls

\* Every reachable state of the store is well typed, and every command it was
\* asked to execute is one the routers build.
THEOREM TypeCorrectness == Spec => []TypeOK
<1>1. Typed => TypeOK
  BY DEF Typed
<1>2. QED
  BY <1>1, TypedInit, TypedStep, PTL DEF Spec

-----------------------------------------------------------------------------
(***************************************************************************)
(* The inductive invariant.                                                *)
(***************************************************************************)

\* The projection counts its stream, and a page without a stream is no page.
VersionsCount ==
    \A p \in PageIds :
       /\ pages[p] = None => Len(events[p]) = 0
       /\ pages[p] # None => Len(events[p]) > 0 /\ pages[p].version = Len(events[p])

\* A page comes from the create whose command id its own id is derived from.
PagesHaveReceipts ==
    \A id \in CommandIds :
       pages[StableId(id, "page")] # None => receipts[id] # None

\* An effect comes from the command its event id is derived from.
EffectsHaveReceipts ==
    \A id \in CommandIds, purpose \in {"submission", "report"}, e \in EffectIds :
       e.event = StableId(id, purpose) /\ outbox[e] # "absent" => receipts[id] # None

\* The last event of a stream is about the head, and says whether the page is
\* quarantined.
LastEventRules ==
    \A p \in PageIds :
       pages[p] # None =>
         LET last == events[p][Len(events[p])]
         IN  /\ last.rev = pages[p].head
             /\ (pages[p].moderation = "quarantined" <=> last.type = "page_quarantined")

IInv ==
    /\ Typed
    /\ VersionsCount
    /\ PagesHaveReceipts
    /\ EffectsHaveReceipts
    /\ LastEventRules
    /\ EffectOncePerCommand
    /\ AnswersAgree
    /\ SlugsAreUnique
    /\ QuarantineHolds

-----------------------------------------------------------------------------
(***************************************************************************)
(* What an accepted command does to its page.                              *)
(***************************************************************************)

\* A create is accepted only on a page id that is still free, any other command
\* only on a page, and on a quarantined page only its release.
LEMMA AcceptedState ==
    ASSUME Typed, VersionsCount, PagesHaveReceipts,
           NEW k \in Callers, ExecuteAccepted(k)
    PROVE  LET c == call[k].command IN
           /\ c.kind \in Kinds
           /\ receipts[c.id] = None
           /\ c.kind = "CreatePage" => pages[c.page] = None /\ Len(events[c.page]) = 0
           /\ c.kind # "CreatePage" =>
                /\ pages[c.page] \in Pages
                /\ StateFor(c) = pages[c.page]
                /\ pages[c.page].version = Len(events[c.page])
                /\ pages[c.page].moderation = "quarantined" => c.kind = "ReleasePage"
<1> DEFINE c == call[k].command
<1>1. TypeOK /\ WellFormedCalls
  BY DEF Typed
<1>2. WellFormed(c) /\ c.id \in CommandIds /\ c.page \in PageIds
  BY <1>1, PendingFacts
<1>3. c.kind \in Kinds /\ receipts[c.id] = None
  BY <1>2 DEF WellFormed, Commands, ExecuteAccepted, Known
<1>4. ASSUME c.kind = "CreatePage"
      PROVE  pages[c.page] = None /\ Len(events[c.page]) = 0
  <2>1. c.page = StableId(c.id, "page")
    BY <1>2, <1>4 DEF WellFormed
  <2>2. pages[c.page] = None
    BY <1>2, <1>3, <2>1 DEF PagesHaveReceipts
  <2>3. QED
    BY <1>2, <2>2 DEF VersionsCount
<1>5. ASSUME c.kind # "CreatePage"
      PROVE  /\ pages[c.page] \in Pages
             /\ StateFor(c) = pages[c.page]
             /\ pages[c.page].version = Len(events[c.page])
             /\ pages[c.page].moderation = "quarantined" => c.kind = "ReleasePage"
  <2>1. StateFor(c) = pages[c.page]
    BY <1>5 DEF StateFor
  <2>2. Verdict(pages[c.page], c) = "accepted"
    BY <2>1 DEF ExecuteAccepted
  <2>3. pages[c.page] # None
    BY <1>5, <2>2 DEF Verdict
  <2>4. pages[c.page] \in Pages
    BY <1>1, <1>2, <2>3 DEF TypeOK
  <2>5. pages[c.page].moderation = "quarantined" => c.kind = "ReleasePage"
    BY <1>3, <1>5, <2>2, <2>3 DEF Verdict, Hidden, Kinds, Moderations
  <2>6. pages[c.page].version = Len(events[c.page])
    BY <1>2, <2>3 DEF VersionsCount
  <2>7. QED
    BY <2>1, <2>4, <2>5, <2>6
<1>6. QED
  BY <1>3, <1>4, <1>5

\* An event that commits no revision bumps the version and nothing else but a
\* status.
LEMMA BumpedPage ==
    ASSUME NEW s \in Pages
    PROVE  /\ Bumped(s) \in Pages
           /\ Bumped(s).version = s.version + 1
           /\ Bumped(s).head = s.head
           /\ Bumped(s).slug = s.slug
           /\ Bumped(s).moderation = s.moderation
BY DEF Bumped, Pages

\* evolve takes the page to the version, the head, the slug and the moderation
\* status that the appended event says.
LEMMA AcceptedPage ==
    ASSUME Typed, VersionsCount, PagesHaveReceipts,
           NEW k \in Callers, ExecuteAccepted(k)
    PROVE  LET c == call[k].command IN
           /\ PageAfter(c).version = Len(events[c.page]) + 1
           /\ PageAfter(c).head = EventFor(c).rev
           /\ PageAfter(c).slug =
                 IF c.kind = "CreatePage" THEN c.slug ELSE pages[c.page].slug
           /\ PageAfter(c).moderation = "quarantined" <=>
                 EventFor(c).type = "page_quarantined"
<1> DEFINE c == call[k].command
           e == EventFor(c)
           s == pages[c.page]
<1>1. /\ c.kind \in Kinds
      /\ c.kind = "CreatePage" => Len(events[c.page]) = 0
      /\ c.kind # "CreatePage" =>
           /\ s \in Pages
           /\ StateFor(c) = s
           /\ s.version = Len(events[c.page])
           /\ s.moderation = "quarantined" => c.kind = "ReleasePage"
  BY AcceptedState
<1>2. e.type = EventType[c.kind]
  BY DEF EventFor, EventOf
<1>3. CASE c.kind = "CreatePage"
  <2>1. e.type = "page_created" /\ e.slug = c.slug
    BY <1>2, <1>3 DEF EventType, Kinds, EventFor, EventOf
  <2>2. PageAfter(c) = NewPage(e)
    BY <2>1 DEF PageAfter, Evolve
  <2>3. QED
    BY <1>1, <1>3, <2>1, <2>2 DEF NewPage
<1>4. CASE c.kind = "EditPage"
  <2>1. e.type = "revision_committed"
    BY <1>1, <1>2, <1>4 DEF EventType
  <2>2. PageAfter(c) = Revised(s, e)
    BY <1>1, <1>4, <2>1 DEF PageAfter, Evolve
  <2>3. QED
    BY <1>1, <1>4, <2>1, <2>2 DEF Revised
<1>5. CASE c.kind \notin {"CreatePage", "EditPage"}
  <2>1. e.rev = s.head
    BY <1>1, <1>5 DEF EventFor, EventOf, EventRevision
  <2>2. /\ Bumped(s).version = Len(events[c.page]) + 1
        /\ Bumped(s).head = s.head
        /\ Bumped(s).slug = s.slug
        /\ Bumped(s).moderation = s.moderation
        /\ Bumped(s) \in Pages
    BY <1>1, <1>5, BumpedPage
  <2>3. ASSUME NEW b \in Pages, NEW x
        PROVE  /\ [b EXCEPT !.review = x].version = b.version
               /\ [b EXCEPT !.review = x].head = b.head
               /\ [b EXCEPT !.review = x].slug = b.slug
               /\ [b EXCEPT !.review = x].moderation = b.moderation
               /\ [b EXCEPT !.moderation = x].version = b.version
               /\ [b EXCEPT !.moderation = x].head = b.head
               /\ [b EXCEPT !.moderation = x].slug = b.slug
               /\ [b EXCEPT !.moderation = x].moderation = x
    BY DEF Pages
  <2>4. CASE c.kind = "SubmitReview"
    <3>1. e.type = "review_submitted"
      BY <1>2, <2>4 DEF EventType, Kinds
    <3>2. PageAfter(c) = [Bumped(s) EXCEPT !.review = "submitted"]
      BY <1>1, <1>5, <3>1 DEF PageAfter, Evolve
    <3>3. QED
      BY <1>1, <1>5, <2>1, <2>2, <2>3, <2>4, <3>1, <3>2
  <2>5. CASE c.kind = "ReportPage"
    <3>1. e.type = "page_reported"
      BY <1>2, <2>5 DEF EventType, Kinds
    <3>2. PageAfter(c) = Bumped(s)
      BY <1>1, <1>5, <3>1 DEF PageAfter, Evolve
    <3>3. QED
      BY <1>1, <1>5, <2>1, <2>2, <2>5, <3>1, <3>2
  <2>6. CASE c.kind = "QuarantinePage"
    <3>1. e.type = "page_quarantined"
      BY <1>2, <2>6 DEF EventType, Kinds, Moderations
    <3>2. PageAfter(c) = [Bumped(s) EXCEPT !.moderation = "quarantined"]
      BY <1>1, <1>5, <3>1 DEF PageAfter, Evolve
    <3>3. QED
      BY <1>1, <1>5, <2>1, <2>2, <2>3, <2>6, <3>1, <3>2
  <2>7. CASE c.kind = "ReleasePage"
    <3>1. e.type = "page_released"
      BY <1>2, <2>7 DEF EventType, Kinds, Moderations
    <3>2. PageAfter(c) = [Bumped(s) EXCEPT !.moderation = "visible"]
      BY <1>1, <1>5, <3>1 DEF PageAfter, Evolve
    <3>3. QED
      BY <1>1, <1>5, <2>1, <2>2, <2>3, <2>7, <3>1, <3>2
  <2>8. QED
    BY <1>1, <1>5, <2>4, <2>5, <2>6, <2>7 DEF Kinds, Moderations
<1>6. QED
  BY <1>3, <1>4, <1>5

-----------------------------------------------------------------------------
(***************************************************************************)
(* The inductive invariant: it holds initially, ...                        *)
(***************************************************************************)
LEMMA IInvInit == Init => IInv
<1> SUFFICES ASSUME Init
             PROVE  IInv
  OBVIOUS
<1>1. Typed
  BY TypedInit
<1>2. VersionsCount /\ PagesHaveReceipts /\ LastEventRules
  BY DEF Init, VersionsCount, PagesHaveReceipts, LastEventRules, PageIds
<1>3. EffectsHaveReceipts
  BY DEF Init, EffectsHaveReceipts
<1>4. EffectOncePerCommand
  BY DEF Init, EffectOncePerCommand
<1>5. AnswersAgree
  BY DEF Init, AnswersAgree, Idle
<1>6. SlugsAreUnique
  BY NoneIsFresh DEF Init, SlugsAreUnique
<1>7. QuarantineHolds
  BY DEF Init, QuarantineHolds
<1>8. QED
  BY <1>1, <1>2, <1>3, <1>4, <1>5, <1>6, <1>7 DEF IInv

\* ... it survives every step that leaves the store alone ...
LEMMA DatabaseAtRest ==
    ASSUME IInv, UNCHANGED db
    PROVE  /\ VersionsCount'
           /\ PagesHaveReceipts'
           /\ EffectsHaveReceipts'
           /\ LastEventRules'
           /\ EffectOncePerCommand'
           /\ SlugsAreUnique'
           /\ QuarantineHolds'
<1>1. /\ pages' = pages
      /\ slugToId' = slugToId
      /\ events' = events
      /\ receipts' = receipts
      /\ outbox' = outbox
  BY DEF db
<1>2. VersionsCount'
  BY <1>1 DEF IInv, VersionsCount
<1>3. PagesHaveReceipts'
  BY <1>1 DEF IInv, PagesHaveReceipts
<1>4. EffectsHaveReceipts'
  BY <1>1 DEF IInv, EffectsHaveReceipts
<1>5. LastEventRules'
  BY <1>1 DEF IInv, LastEventRules
<1>6. EffectOncePerCommand'
  BY <1>1 DEF IInv, EffectOncePerCommand
<1>7. SlugsAreUnique'
  BY <1>1 DEF IInv, SlugsAreUnique
<1>8. QuarantineHolds'
  BY <1>1 DEF IInv, QuarantineHolds
<1>9. QED
  BY <1>2, <1>3, <1>4, <1>5, <1>6, <1>7, <1>8

\* ... where one caller gets an answer that agrees with the receipts ...
LEMMA OneAnswerChanges ==
    ASSUME IInv, NEW k \in Callers, NEW x, call' = [call EXCEPT ![k] = x],
           receipts' = receipts,
           x.state = "done" /\ x.reply.receipt # None =>
             /\ receipts[x.command.id] = x.reply.receipt
             /\ x.reply.receipt.fingerprint = Fingerprint(x.command)
    PROVE  AnswersAgree'
<1>1. call \in [Callers -> Calls]
  BY DEF IInv, Typed, TypeOK
<1>2. ASSUME NEW j \in Callers, call'[j].state = "done", call'[j].reply.receipt # None
      PROVE  /\ receipts[call'[j].command.id] = call'[j].reply.receipt
             /\ call'[j].reply.receipt.fingerprint = Fingerprint(call'[j].command)
  <2>1. CASE j = k
    BY <1>1, <1>2, <2>1
  <2>2. CASE j # k
    BY <1>1, <1>2, <2>2 DEF IInv, AnswersAgree
  <2>3. QED
    BY <2>1, <2>2
<1>3. QED
  BY <1>2 DEF AnswersAgree

(***************************************************************************)
(* ... and it survives an accepted command, one conjunct at a time.        *)
(***************************************************************************)

\* A sequence with one more element keeps the ones it had.
LEMMA Appended ==
    ASSUME NEW es \in Seq(Events), NEW e
    PROVE  /\ Len(es) \in Nat
           /\ Len(Append(es, e)) = Len(es) + 1
           /\ Append(es, e)[Len(es) + 1] = e
           /\ \A i \in 1..Len(es) : Append(es, e)[i] = es[i]
OBVIOUS

\* The new state in one place: which entries change, and to what.
LEMMA AcceptedChanges ==
    ASSUME IInv, NEW k \in Callers, ExecuteAccepted(k)
    PROVE  LET c == call[k].command
               n == Len(events[c.page]) + 1
           IN
           /\ c.id \in CommandIds /\ c.page \in PageIds /\ n \in Nat
           /\ pages' = [pages EXCEPT ![c.page] = PageAfter(c)]
           /\ pages'[c.page] = PageAfter(c)
           /\ PageAfter(c) # None
           /\ \A p \in PageIds : p # c.page => pages'[p] = pages[p] /\ events'[p] = events[p]
           /\ Len(events'[c.page]) = n
           /\ events'[c.page][n] = EventFor(c)
           /\ \A i \in 1..Len(events[c.page]) : events'[c.page][i] = events[c.page][i]
           /\ receipts'[c.id] = ReceiptFor(c)
           /\ ReceiptFor(c) # None
           /\ \A d \in CommandIds : d # c.id => receipts'[d] = receipts[d]
<1> DEFINE c == call[k].command
           n == Len(events[c.page]) + 1
<1>1. TypeOK /\ WellFormedCalls
  BY DEF IInv, Typed
<1>2. /\ WellFormed(c) /\ c.id \in CommandIds /\ c.page \in PageIds
      /\ EventFor(c) \in Events
      /\ PageAfter(c) \in Pages
      /\ ReceiptFor(c) # None
  BY <1>1, PendingFacts
<1>3. PageAfter(c) # None
  BY <1>2, NoneIsFresh
<1>4. /\ pages' = [pages EXCEPT ![c.page] = PageAfter(c)]
      /\ events' = [events EXCEPT ![c.page] = Append(events[c.page], EventFor(c))]
      /\ receipts' = [receipts EXCEPT ![c.id] = ReceiptFor(c)]
  BY DEF ExecuteAccepted
<1>5. /\ pages \in [PageIds -> Pages \cup {None}]
      /\ events \in [PageIds -> Seq(Events)]
      /\ receipts \in [CommandIds -> Receipts \cup {None}]
  BY <1>1 DEF TypeOK
<1>6. events[c.page] \in Seq(Events) /\ n \in Nat
  BY <1>2, <1>5
<1>7. events'[c.page] = Append(events[c.page], EventFor(c))
  BY <1>2, <1>4, <1>5
<1>8. /\ Len(events'[c.page]) = n
      /\ events'[c.page][n] = EventFor(c)
      /\ \A i \in 1..Len(events[c.page]) : events'[c.page][i] = events[c.page][i]
  <2>1. \A es \in Seq(Events) : \A new : new = Append(es, EventFor(c)) =>
           /\ Len(new) = Len(es) + 1
           /\ new[Len(es) + 1] = EventFor(c)
           /\ \A i \in 1..Len(es) : new[i] = es[i]
    BY Appended
  <2>2. QED
    BY <1>6, <1>7, <2>1, Zenon
<1>9. \A p \in PageIds : p # c.page => pages'[p] = pages[p] /\ events'[p] = events[p]
  BY <1>4, <1>5
<1>10. pages'[c.page] = PageAfter(c)
  BY <1>2, <1>4, <1>5
<1>11. /\ receipts'[c.id] = ReceiptFor(c)
       /\ \A d \in CommandIds : d # c.id => receipts'[d] = receipts[d]
  BY <1>2, <1>4, <1>5
<1>12. QED
  BY <1>2, <1>3, <1>4, <1>6, <1>8, <1>9, <1>10, <1>11

\* One event is new, and every other is where it was.
LEMMA OneNewEvent ==
    ASSUME IInv, NEW k \in Callers, ExecuteAccepted(k), NEW p \in PageIds, NEW i
    PROVE  LET c == call[k].command
               n == Len(events[c.page]) + 1
           IN  /\ i \in 1..Len(events'[p]) <=> i \in 1..Len(events[p]) \/ (p = c.page /\ i = n)
               /\ p = c.page => n \notin 1..Len(events[p]) /\ Len(events[p]) = n - 1 /\ n >= 1
               /\ i \in 1..Len(events[p]) => events'[p][i] = events[p][i]
               /\ p = c.page /\ i = n => events'[p][i] = EventFor(c)
<1> DEFINE c == call[k].command
           n == Len(events[c.page]) + 1
<1>1. /\ Len(events'[c.page]) = n
      /\ events'[c.page][n] = EventFor(c)
      /\ \A j \in 1..Len(events[c.page]) : events'[c.page][j] = events[c.page][j]
      /\ p # c.page => events'[p] = events[p]
  BY AcceptedChanges
<1>2. Len(events[p]) \in Nat
  BY DEF IInv, Typed, TypeOK
<1>3. CASE p = c.page
  <2>1. PICK m \in Nat : m = Len(events[p])
    BY <1>2
  <2>2. n = m + 1
    BY <1>3, <2>1
  <2>3. i \in 1..n <=> i \in 1..m \/ i = n
    BY <2>2
  <2>4. n \notin 1..m /\ m = n - 1 /\ n >= 1
    BY <2>2
  <2>5. QED
    BY <1>1, <1>3, <2>1, <2>3, <2>4
<1>4. CASE p # c.page
  BY <1>1, <1>4
<1>5. QED
  BY <1>3, <1>4

\* The version goes up by one and the stream gets one event.
LEMMA AcceptedKeepsVersions ==
    ASSUME IInv, NEW k \in Callers, ExecuteAccepted(k)
    PROVE  VersionsCount'
<1> DEFINE c == call[k].command
           n == Len(events[c.page]) + 1
<1>1. PageAfter(c).version = n
  BY AcceptedPage DEF IInv
<1>2. SUFFICES ASSUME NEW p \in PageIds
               PROVE  /\ pages'[p] = None => Len(events'[p]) = 0
                      /\ pages'[p] # None =>
                           Len(events'[p]) > 0 /\ pages'[p].version = Len(events'[p])
  BY DEF VersionsCount
<1>3. CASE p = c.page
  <2>1. /\ pages'[p] = PageAfter(c) /\ PageAfter(c) # None
        /\ Len(events'[p]) = n /\ n \in Nat
    BY <1>3, AcceptedChanges
  <2>2. Len(events[c.page]) \in Nat
    BY AcceptedChanges DEF IInv, Typed, TypeOK
  <2>3. QED
    BY <1>1, <2>1, <2>2
<1>4. CASE p # c.page
  <2>1. pages'[p] = pages[p] /\ events'[p] = events[p]
    BY <1>4, AcceptedChanges
  <2>2. QED
    BY <2>1 DEF IInv, VersionsCount
<1>5. QED
  BY <1>3, <1>4

\* A new page and a new effect are of the command that gets its receipt with them.
LEMMA AcceptedKeepsOrigins ==
    ASSUME IInv, NEW k \in Callers, ExecuteAccepted(k)
    PROVE  PagesHaveReceipts' /\ EffectsHaveReceipts'
<1> DEFINE c == call[k].command
<1>1. /\ c.id \in CommandIds /\ c.page \in PageIds
      /\ \A p \in PageIds : p # c.page => pages'[p] = pages[p]
      /\ receipts'[c.id] # None
      /\ \A d \in CommandIds : d # c.id => receipts'[d] = receipts[d]
  BY AcceptedChanges
<1>2. ASSUME NEW id \in CommandIds, pages'[StableId(id, "page")] # None
      PROVE  receipts'[id] # None
  <2>1. StableId(id, "page") \in PageIds
    BY DEF PageIds
  <2>2. CASE pages[StableId(id, "page")] # None
    BY <1>1, <2>2 DEF IInv, PagesHaveReceipts
  <2>3. CASE pages[StableId(id, "page")] = None
    <3>1. StableId(id, "page") = c.page
      BY <1>1, <1>2, <2>1, <2>3
    <3>2. c.kind = "CreatePage"
      BY <2>3, <3>1, AcceptedState, NoneIsFresh DEF IInv
    <3>3. c.page = StableId(c.id, "page")
      BY <3>2, PendingFacts DEF IInv, Typed, WellFormed
    <3>4. id = c.id
      BY <3>1, <3>3 DEF StableId
    <3>5. QED
      BY <1>1, <3>4
  <2>4. QED
    BY <2>2, <2>3
<1>3. ASSUME NEW id \in CommandIds, NEW purpose \in {"submission", "report"},
             NEW e \in EffectIds,
             e.event = StableId(id, purpose), outbox'[e] # "absent"
      PROVE  receipts'[id] # None
  <2>1. CASE outbox[e] # "absent"
    BY <1>1, <1>3, <2>1 DEF IInv, EffectsHaveReceipts
  <2>2. CASE outbox[e] = "absent"
    <3>1. e \in EffectsOf(c)
      BY <1>3, <2>2 DEF ExecuteAccepted, OutboxAfter
    <3>2. e.event \in {StableId(c.id, "submission"), StableId(c.id, "report")}
      BY <3>1 DEF EffectsOf
    <3>3. id = c.id
      BY <1>3, <3>2 DEF StableId
    <3>4. QED
      BY <1>1, <3>3
  <2>3. QED
    BY <2>1, <2>2
<1>4. QED
  BY <1>2, <1>3 DEF PagesHaveReceipts, EffectsHaveReceipts

\* The page evolves by the event that is appended, which is then the last.
LEMMA AcceptedKeepsLastEvent ==
    ASSUME IInv, NEW k \in Callers, ExecuteAccepted(k)
    PROVE  LastEventRules'
<1> DEFINE c == call[k].command
           n == Len(events[c.page]) + 1
<1>1. SUFFICES ASSUME NEW p \in PageIds, pages'[p] # None
               PROVE  /\ events'[p][Len(events'[p])].rev = pages'[p].head
                      /\ pages'[p].moderation = "quarantined" <=>
                           events'[p][Len(events'[p])].type = "page_quarantined"
  BY DEF LastEventRules
<1>2. CASE p = c.page
  <2>1. /\ pages'[p] = PageAfter(c)
        /\ Len(events'[p]) = n
        /\ events'[p][n] = EventFor(c)
    BY <1>2, AcceptedChanges
  <2>2. /\ PageAfter(c).head = EventFor(c).rev
        /\ PageAfter(c).moderation = "quarantined" <=> EventFor(c).type = "page_quarantined"
    BY AcceptedPage DEF IInv
  <2>3. QED
    BY <2>1, <2>2
<1>3. CASE p # c.page
  <2>1. pages'[p] = pages[p] /\ events'[p] = events[p]
    BY <1>3, AcceptedChanges
  <2>2. QED
    BY <1>1, <2>1 DEF IInv, LastEventRules
<1>4. QED
  BY <1>2, <1>3

\* A command without a receipt has no event yet, so it gets its first.
LEMMA AcceptedKeepsEffectOnce ==
    ASSUME IInv, NEW k \in Callers, ExecuteAccepted(k)
    PROVE  EffectOncePerCommand'
<1> DEFINE c == call[k].command
           n == Len(events[c.page]) + 1
<1>1. /\ c.id \in CommandIds /\ c.page \in PageIds /\ n \in Nat
      /\ \A p \in PageIds : p # c.page => events'[p] = events[p]
      /\ Len(events'[c.page]) = n
      /\ events'[c.page][n] = EventFor(c)
      /\ \A i \in 1..Len(events[c.page]) : events'[c.page][i] = events[c.page][i]
      /\ receipts'[c.id] = ReceiptFor(c)
      /\ ReceiptFor(c) # None
      /\ \A d \in CommandIds : d # c.id => receipts'[d] = receipts[d]
  BY AcceptedChanges
<1>2. /\ EventFor(c).command = c.id
      /\ ReceiptFor(c).page = c.page
      /\ ReceiptFor(c).version = n
      /\ ReceiptFor(c).event = EventFor(c).id
  BY AcceptedPage DEF IInv, EventFor, EventOf, ReceiptFor
<1>3. receipts[c.id] = None
  BY AcceptedState DEF IInv
<1>4. /\ \A p \in PageIds : Len(events[p]) \in Nat
      /\ \A d \in CommandIds : receipts[d] # None => receipts[d] \in Receipts
  BY DEF IInv, Typed, TypeOK
<1>5. ASSUME NEW d \in CommandIds, receipts'[d] # None
      PROVE  /\ receipts'[d].version \in 1..Len(events'[receipts'[d].page])
             /\ events'[receipts'[d].page][receipts'[d].version].id = receipts'[d].event
  <2>1. CASE d = c.id
    <3>1. receipts'[d].page = c.page /\ receipts'[d].version = n
      BY <1>1, <1>2, <2>1
    <3>2. receipts'[d].event = EventFor(c).id
      BY <1>1, <1>2, <2>1
    <3>3. n \in 1..Len(events'[c.page])
      BY <1>1, <1>4
    <3>4. events'[c.page][n].id = EventFor(c).id
      BY <1>1
    <3>5. QED
      BY <3>1, <3>2, <3>3, <3>4
  <2>2. CASE d # c.id
    <3>1. receipts'[d] = receipts[d] /\ receipts[d].page \in PageIds
      BY <1>1, <1>4, <1>5, <2>2 DEF Receipts
    <3>2. /\ receipts[d].version \in 1..Len(events[receipts[d].page])
          /\ events[receipts[d].page][receipts[d].version].id = receipts[d].event
      BY <1>5, <3>1 DEF IInv, EffectOncePerCommand
    <3>3. QED
      BY <3>1, <3>2, OneNewEvent
  <2>3. QED
    BY <2>1, <2>2
<1>6. ASSUME NEW d \in CommandIds, NEW p \in PageIds, NEW i \in 1..Len(events'[p])
      PROVE  events'[p][i].command = d <=>
               receipts'[d] # None /\ receipts'[d].page = p /\ receipts'[d].version = i
  <2>1. CASE p = c.page /\ i = n
    <3>1. CASE d = c.id
      BY <1>1, <1>2, <2>1, <3>1
    <3>2. CASE d # c.id
      <4>1. receipts[d] # None /\ receipts[d].page = p => receipts[d].version \in 1..Len(events[p])
        BY DEF IInv, EffectOncePerCommand
      <4>2. receipts'[d] = receipts[d] /\ events'[p][i].command = c.id
        BY <1>1, <1>2, <2>1, <3>2
      <4>3. n \notin 1..Len(events[p])
        BY <2>1, OneNewEvent
      <4>4. QED
        BY <2>1, <3>2, <4>1, <4>2, <4>3
    <3>3. QED
      BY <3>1, <3>2
  <2>2. CASE ~(p = c.page /\ i = n)
    <3>1. i \in 1..Len(events[p]) /\ events'[p][i] = events[p][i]
      BY <1>6, <2>2, OneNewEvent
    <3>2. events[p][i].command = d <=>
            receipts[d] # None /\ receipts[d].page = p /\ receipts[d].version = i
      BY <3>1 DEF IInv, EffectOncePerCommand
    <3>3. CASE d = c.id
      BY <1>1, <1>2, <1>3, <2>2, <3>1, <3>2, <3>3
    <3>4. CASE d # c.id
      BY <1>1, <3>1, <3>2, <3>4
    <3>5. QED
      BY <3>3, <3>4
  <2>3. QED
    BY <2>1, <2>2
<1>7. QED
  BY <1>5, <1>6 DEF EffectOncePerCommand

\* The receipts of other commands stay as they are.
LEMMA AcceptedKeepsAnswers ==
    ASSUME IInv, NEW k \in Callers, ExecuteAccepted(k)
    PROVE  AnswersAgree'
<1> DEFINE c == call[k].command
<1>1. /\ c.id \in CommandIds
      /\ receipts'[c.id] = ReceiptFor(c)
      /\ \A d \in CommandIds : d # c.id => receipts'[d] = receipts[d]
      /\ receipts[c.id] = None
  BY AcceptedChanges, AcceptedState DEF IInv
<1>2. call \in [Callers -> Calls]
  BY DEF IInv, Typed, TypeOK
<1>3. call' = [call EXCEPT ![k] = Done(c, Committed(ReceiptFor(c)))]
  BY DEF ExecuteAccepted
<1>4. SUFFICES ASSUME NEW j \in Callers, call'[j].state = "done",
                      call'[j].reply.receipt # None
               PROVE  /\ receipts'[call'[j].command.id] = call'[j].reply.receipt
                      /\ call'[j].reply.receipt.fingerprint = Fingerprint(call'[j].command)
  BY DEF AnswersAgree
<1>5. CASE j = k
  <2>1. call'[j] = Done(c, Committed(ReceiptFor(c)))
    BY <1>2, <1>3, <1>5
  <2>2. QED
    BY <1>1, <2>1 DEF Done, Committed, ReceiptFor
<1>6. CASE j # k
  <2>1. call'[j] = call[j]
    BY <1>2, <1>3, <1>6
  <2>2. /\ receipts[call[j].command.id] = call[j].reply.receipt
        /\ call[j].reply.receipt.fingerprint = Fingerprint(call[j].command)
    BY <1>4, <2>1 DEF IInv, AnswersAgree
  <2>3. call[j].command.id \in CommandIds
    BY <1>4, <2>1 DEF IInv, Typed, WellFormedCalls, WellFormed, Commands
  <2>4. call[j].command.id # c.id
    BY <1>1, <1>4, <2>1, <2>2
  <2>5. QED
    BY <1>1, <2>1, <2>2, <2>3, <2>4
<1>7. QED
  BY <1>5, <1>6

\* A create takes a free slug; every other command keeps its page's.
LEMMA AcceptedKeepsSlugs ==
    ASSUME IInv, NEW k \in Callers, ExecuteAccepted(k)
    PROVE  SlugsAreUnique'
<1> DEFINE c == call[k].command
<1>1. /\ c.page \in PageIds
      /\ pages'[c.page] = PageAfter(c)
      /\ PageAfter(c) # None
      /\ \A p \in PageIds : p # c.page => pages'[p] = pages[p]
      /\ PageAfter(c).slug = IF c.kind = "CreatePage" THEN c.slug ELSE pages[c.page].slug
  BY AcceptedChanges, AcceptedPage DEF IInv
<1>2. SUFFICES ASSUME NEW s \in Slugs, NEW p \in PageIds
               PROVE  slugToId'[s] = p <=> (pages'[p] # None /\ pages'[p].slug = s)
  BY DEF SlugsAreUnique
<1>3. slugToId[s] = p <=> (pages[p] # None /\ pages[p].slug = s)
  BY DEF IInv, SlugsAreUnique
<1>4. slugToId \in [Slugs -> PageIds \cup {None}]
  BY DEF IInv, Typed, TypeOK
<1>5. CASE c.kind = "CreatePage"
  <2>1. /\ c.slug \in Slugs
        /\ slugToId[c.slug] = None
        /\ slugToId' = [slugToId EXCEPT ![c.slug] = c.page]
        /\ pages[c.page] = None
    <3>1. c.slug \in Slugs
      BY <1>5, PendingFacts DEF IInv, Typed, WellFormed
    <3>2. QED
      BY <1>5, <3>1, AcceptedState DEF IInv, ExecuteAccepted, SlugTaken
  <2>2. slugToId'[c.slug] = c.page /\ (s # c.slug => slugToId'[s] = slugToId[s])
    BY <1>4, <2>1
  <2>3. CASE s = c.slug
    <3>1. p # None
      BY NoneIsFresh
    <3>2. QED
      BY <1>1, <1>3, <1>5, <2>1, <2>2, <2>3, <3>1
  <2>4. CASE s # c.slug
    <3>1. pages'[c.page].slug # s /\ slugToId'[s] = slugToId[s]
      BY <1>1, <1>5, <2>2, <2>4
    <3>2. CASE p = c.page
      BY <1>3, <2>1, <3>1, <3>2
    <3>3. CASE p # c.page
      BY <1>1, <1>3, <3>1, <3>3
    <3>4. QED
      BY <3>2, <3>3
  <2>5. QED
    BY <2>3, <2>4
<1>6. CASE c.kind # "CreatePage"
  <2>1. slugToId' = slugToId /\ pages[c.page] # None
    BY <1>6, AcceptedState, NoneIsFresh DEF IInv, ExecuteAccepted
  <2>2. CASE p = c.page
    BY <1>1, <1>3, <1>6, <2>1, <2>2
  <2>3. CASE p # c.page
    BY <1>1, <1>3, <2>1, <2>3
  <2>4. QED
    BY <2>2, <2>3
<1>7. QED
  BY <1>5, <1>6

\* The kernel lets only the release of the same revision follow a quarantine.
LEMMA AcceptedKeepsQuarantine ==
    ASSUME IInv, NEW k \in Callers, ExecuteAccepted(k)
    PROVE  QuarantineHolds'
<1> DEFINE c == call[k].command
           n == Len(events[c.page]) + 1
<1>1. c.page \in PageIds /\ n \in Nat /\ events'[c.page][n] = EventFor(c)
  BY AcceptedChanges
<1>2. SUFFICES ASSUME NEW p \in PageIds, NEW i \in 2..Len(events'[p]),
                      events'[p][i - 1].type = "page_quarantined"
               PROVE  /\ events'[p][i].type = "page_released"
                      /\ events'[p][i].rev = events'[p][i - 1].rev
  BY DEF QuarantineHolds
<1>3. CASE p = c.page /\ i = n
  <2>1. Len(events[p]) = n - 1 /\ n - 1 \in 1..Len(events[p])
    <3>1. Len(events[p]) = n - 1
      BY <1>3, OneNewEvent
    <3> HIDE DEF n
    <3>2. i \in Int /\ i >= 2
      BY <1>2
    <3>3. i - 1 \in 1..(i - 1)
      BY <3>2
    <3>4. QED
      BY <1>3, <3>1, <3>3
  <2>2. events'[p][i - 1] = events[p][Len(events[p])]
    <3>1. \A m \in 1..Len(events[p]) : events'[p][m] = events[p][m]
      BY OneNewEvent
    <3> HIDE DEF n
    <3>2. QED
      BY <1>3, <2>1, <3>1, Zenon
  <2>3. c.kind # "CreatePage" /\ pages[p] \in Pages /\ StateFor(c) = pages[p]
    BY <1>3, <2>1, AcceptedState DEF IInv
  <2>4. /\ pages[p].moderation = "quarantined"
        /\ events'[p][i - 1].rev = pages[p].head
    BY <1>2, <2>2, <2>3, NoneIsFresh DEF IInv, LastEventRules
  <2>5. c.kind = "ReleasePage"
    BY <1>3, <2>3, <2>4, AcceptedState DEF IInv
  <2>6. EventFor(c).type = "page_released" /\ EventFor(c).rev = pages[p].head
    BY <2>3, <2>5 DEF EventFor, EventOf, EventRevision, EventType, Kinds, Moderations
  <2>7. QED
    BY <1>1, <1>3, <2>4, <2>6
<1>4. CASE ~(p = c.page /\ i = n)
  <2>1. i \in 1..Len(events'[p]) /\ i >= 2 /\ i \in Int
    BY <1>2
  <2>2. i \in 1..Len(events[p]) /\ events'[p][i] = events[p][i]
    BY <1>4, <2>1, OneNewEvent
  <2>3. i \in 2..Len(events[p]) /\ i - 1 \in 1..Len(events[p])
    BY <2>1, <2>2
  <2>4. events'[p][i - 1] = events[p][i - 1]
    BY <2>3, OneNewEvent
  <2>5. QED
    BY <1>2, <2>2, <2>3, <2>4 DEF IInv, QuarantineHolds
<1>5. QED
  BY <1>3, <1>4

-----------------------------------------------------------------------------
(***************************************************************************)
(* Every step keeps the invariant.                                         *)
(***************************************************************************)
LEMMA IInvStep ==
    ASSUME IInv, [Next]_vars
    PROVE  IInv'
<1>1. Typed'
  BY TypedStep DEF IInv
<1>2. ASSUME NEW k \in Callers, Invoke(k)
      PROVE  IInv'
  <2>1. PICK id \in CommandIds, who \in Principals :
          \E c \in Requests(id, who) : call' = [call EXCEPT ![k] = Pending(c)]
    BY <1>2 DEF Invoke
  <2>2. PICK c \in Requests(id, who) : call' = [call EXCEPT ![k] = Pending(c)]
    BY <2>1
  <2>3. UNCHANGED db
    BY <1>2 DEF Invoke
  <2>4. AnswersAgree'
    BY <2>2, <2>3, OneAnswerChanges DEF Pending, db
  <2>5. QED
    BY <1>1, <2>3, <2>4, DatabaseAtRest DEF IInv
<1>3. ASSUME NEW k \in Callers, ExecuteKnown(k)
      PROVE  IInv'
  <2> DEFINE c == call[k].command
             prior == receipts[c.id]
             answer == IF SameIntent(prior, c) THEN Replayed(prior)
                       ELSE Rejected("idempotency_conflict")
  <2>1. UNCHANGED db /\ call' = [call EXCEPT ![k] = Done(c, answer)]
    BY <1>3 DEF ExecuteKnown
  <2>2. Done(c, answer).reply.receipt # None =>
          /\ receipts[Done(c, answer).command.id] = Done(c, answer).reply.receipt
          /\ Done(c, answer).reply.receipt.fingerprint = Fingerprint(Done(c, answer).command)
    BY DEF Done, Replayed, Rejected, SameIntent
  <2>3. AnswersAgree'
    BY <2>1, <2>2, OneAnswerChanges DEF db
  <2>4. QED
    BY <1>1, <2>1, <2>3, DatabaseAtRest DEF IInv
<1>4. ASSUME NEW k \in Callers, NEW c, NEW e, UNCHANGED db,
             call' = [call EXCEPT ![k] = Done(c, Rejected(e))]
      PROVE  IInv'
  <2>1. AnswersAgree'
    BY <1>4, OneAnswerChanges DEF db, Done, Rejected
  <2>2. QED
    BY <1>1, <1>4, <2>1, DatabaseAtRest DEF IInv
<1>5. ASSUME NEW k \in Callers, ExecuteRejected(k)
      PROVE  IInv'
  BY <1>4, <1>5 DEF ExecuteRejected
<1>6. ASSUME NEW k \in Callers, ExecuteAccepted(k)
      PROVE  IInv'
  BY <1>1, <1>6, AcceptedKeepsVersions, AcceptedKeepsOrigins, AcceptedKeepsLastEvent,
     AcceptedKeepsEffectOnce, AcceptedKeepsAnswers, AcceptedKeepsSlugs,
     AcceptedKeepsQuarantine DEF IInv
<1>7. ASSUME NEW k \in Callers, Fail(k) \/ LoseReply(k)
      PROVE  IInv'
  <2>1. UNCHANGED db /\ call' = [call EXCEPT ![k] = Done(call[k].command, Unavailable)]
    BY <1>7 DEF Fail, LoseReply
  <2>2. QED
    BY <1>4, <2>1 DEF Unavailable
<1>8. ASSUME NEW e \in EffectIds, ResolveOutbox(e)
      PROVE  IInv'
  <2>1. /\ UNCHANGED <<pages, slugToId, events, receipts, call>>
        /\ \A f \in EffectIds : outbox'[f] # "absent" => outbox[f] # "absent"
    BY <1>8 DEF ResolveOutbox, IInv, Typed, TypeOK
  <2>2. EffectsHaveReceipts'
    BY <2>1 DEF IInv, EffectsHaveReceipts
  <2>3. VersionsCount' /\ PagesHaveReceipts' /\ LastEventRules'
    BY <2>1 DEF IInv, VersionsCount, PagesHaveReceipts, LastEventRules
  <2>4. EffectOncePerCommand' /\ QuarantineHolds'
    BY <2>1 DEF IInv, EffectOncePerCommand, QuarantineHolds
  <2>5. AnswersAgree' /\ SlugsAreUnique'
    BY <2>1 DEF IInv, AnswersAgree, SlugsAreUnique
  <2>6. QED
    BY <1>1, <2>2, <2>3, <2>4, <2>5 DEF IInv
<1>9. ASSUME NEW k \in Callers, Return(k)
      PROVE  IInv'
  <2>1. UNCHANGED db
    BY <1>9 DEF Return
  <2>2. AnswersAgree'
    BY <1>9, <2>1, OneAnswerChanges DEF Return, Idle, db
  <2>3. QED
    BY <1>1, <2>1, <2>2, DatabaseAtRest DEF IInv
<1>10. CASE UNCHANGED vars
  <2>1. UNCHANGED db /\ UNCHANGED call
    BY <1>10 DEF vars, db
  <2>2. AnswersAgree'
    BY <1>10 DEF vars, IInv, AnswersAgree
  <2>3. QED
    BY <1>1, <2>1, <2>2, DatabaseAtRest DEF IInv
<1>11. QED
  BY <1>2, <1>3, <1>5, <1>6, <1>7, <1>8, <1>9, <1>10 DEF Next, Execute

\* The inductive invariant holds in every reachable state of the store.
THEOREM Invariance == Spec => []IInv
BY IInvInit, IInvStep, PTL DEF Spec

\* A command takes effect once however often it is retried (memory.py 45-52, 90).
THEOREM EffectOnce == Spec => []EffectOncePerCommand
<1>1. IInv => EffectOncePerCommand
  BY DEF IInv
<1>2. QED
  BY <1>1, Invariance, PTL

\* An answer with a receipt is the stored one, and answers the intent that earned
\* it (memory.py 46-52).
THEOREM AnswersAlwaysAgree == Spec => []AnswersAgree
<1>1. IInv => AnswersAgree
  BY DEF IInv
<1>2. QED
  BY <1>1, Invariance, PTL

\* No two pages share a slug and the slug index is exact (memory.py 55-56, 71-74).
THEOREM SlugsStayUnique == Spec => []SlugsAreUnique
<1>1. IInv => SlugsAreUnique
  BY DEF IInv
<1>2. QED
  BY <1>1, Invariance, PTL

\* Nothing but its release follows the quarantine of a page (domain.py 184-189).
THEOREM QuarantineAlwaysHolds == Spec => []QuarantineHolds
<1>1. IInv => QuarantineHolds
  BY DEF IInv
<1>2. QED
  BY <1>1, Invariance, PTL

\* One step extends history and rewrites none of it: the receipt of a known
\* command and the effect it left are out of every later command's reach.
LEMMA HistoryStep ==
    ASSUME IInv, [Next]_vars
    PROVE  HistoryGrows
<1>1. ASSUME UNCHANGED <<events, receipts, outbox>>
      PROVE  HistoryGrows
  BY <1>1 DEF HistoryGrows
<1>2. ASSUME NEW k \in Callers, ExecuteAccepted(k)
      PROVE  HistoryGrows
  <2> DEFINE c == call[k].command
             n == Len(events[c.page]) + 1
  <2>1. /\ c.id \in CommandIds /\ c.page \in PageIds
        /\ \A p \in PageIds : p # c.page => events'[p] = events[p]
        /\ Len(events'[c.page]) = n
        /\ \A i \in 1..Len(events[c.page]) : events'[c.page][i] = events[c.page][i]
        /\ \A d \in CommandIds : d # c.id => receipts'[d] = receipts[d]
        /\ receipts[c.id] = None
    BY <1>2, AcceptedChanges, AcceptedState DEF IInv
  <2>2. ASSUME NEW p \in PageIds
        PROVE  /\ Len(events'[p]) \in {Len(events[p]), Len(events[p]) + 1}
               /\ \A i \in 1..Len(events[p]) : events'[p][i] = events[p][i]
    BY <2>1, <2>2
  <2>3. \A d \in CommandIds : receipts[d] # None => receipts'[d] = receipts[d]
    BY <2>1
  <2>4. ASSUME NEW e \in EffectIds, outbox[e] = "delivered"
        PROVE  outbox'[e] = "delivered"
    <3>1. SUFFICES e \notin EffectsOf(c)
      BY <1>2, <2>4 DEF ExecuteAccepted, OutboxAfter
    <3>2. ASSUME e \in EffectsOf(c)
          PROVE  FALSE
      <4>1. PICK purpose \in {"submission", "report"} : e.event = StableId(c.id, purpose)
        BY <3>2 DEF EffectsOf
      <4>2. receipts[c.id] # None
        BY <2>1, <2>4, <4>1 DEF IInv, EffectsHaveReceipts
      <4>3. QED
        BY <2>1, <4>2
    <3>3. QED
      BY <3>2
  <2>5. QED
    BY <2>2, <2>3, <2>4 DEF HistoryGrows
<1>3. ASSUME NEW e \in EffectIds, ResolveOutbox(e)
      PROVE  HistoryGrows
  BY <1>3 DEF ResolveOutbox, HistoryGrows, IInv, Typed, TypeOK
<1>4. QED
  BY <1>1, <1>2, <1>3
     DEF Next, Execute, Invoke, ExecuteKnown, ExecuteRejected, Fail, LoseReply, Return, db, vars

\* Streams, receipts and resolutions are append-only (memory.py 61-91, 193-209).
THEOREM HistoryNeverRewritten == Spec => HistoryIsAppendOnly
BY Invariance, HistoryStep, PTL DEF Spec, HistoryIsAppendOnly

-----------------------------------------------------------------------------
(***************************************************************************)
(* No decision is stale, and the outbox holds what the streams say.  Both  *)
(* stand on IInv; the first also on where the head of a page comes from.   *)
(***************************************************************************)

\* The head, the digest and the author that a command is checked against are those of
\* the last revision in the stream.
HeadIsLastRevision ==
    \A p \in PageIds :
       pages[p] # None =>
         \E j \in 1..Len(events[p]) :
            /\ IsHeadAt(p, Len(events[p]) + 1, j)
            /\ pages[p].head = events[p][j].rev
            /\ pages[p].hash = Digest(events[p][j].text)
            /\ pages[p].headActor = events[p][j].actor

DecisionInv ==
    /\ IInv
    /\ HeadIsLastRevision
    /\ NoStaleDecision
    /\ OutboxMatchesStreams

\* evolve takes the head, the digest and the author of the page from an event that
\* commits a revision, and from no other.
LEMMA AcceptedHead ==
    ASSUME IInv, NEW k \in Callers, ExecuteAccepted(k)
    PROVE  LET c == call[k].command
               e == EventFor(c)
           IN  /\ e.type = EventType[c.kind]
               /\ e.type \in RevisionTypes <=> c.kind \in {"CreatePage", "EditPage"}
               /\ e.type \in RevisionTypes =>
                    /\ PageAfter(c).head = e.rev
                    /\ PageAfter(c).hash = Digest(e.text)
                    /\ PageAfter(c).headActor = e.actor
               /\ e.type \notin RevisionTypes =>
                    /\ PageAfter(c).head = pages[c.page].head
                    /\ PageAfter(c).hash = pages[c.page].hash
                    /\ PageAfter(c).headActor = pages[c.page].headActor
<1> DEFINE c == call[k].command
           e == EventFor(c)
           s == pages[c.page]
<1>1. /\ c.kind \in Kinds
      /\ c.kind # "CreatePage" => s \in Pages /\ StateFor(c) = s
  BY AcceptedState DEF IInv
<1>2. e.type = EventType[c.kind]
  BY DEF EventFor, EventOf
<1>3. e.type \in RevisionTypes <=> c.kind \in {"CreatePage", "EditPage"}
  BY <1>1, <1>2 DEF EventType, RevisionTypes, Kinds, Moderations
<1>4. CASE c.kind = "CreatePage"
  <2>1. e.type = "page_created"
    BY <1>2, <1>4 DEF EventType, Kinds
  <2>2. QED
    BY <1>2, <1>3, <1>4, <2>1 DEF PageAfter, Evolve, NewPage
<1>5. CASE c.kind = "EditPage"
  <2>1. e.type = "revision_committed"
    BY <1>1, <1>2, <1>5 DEF EventType
  <2>2. QED
    BY <1>2, <1>3, <1>5, <2>1 DEF PageAfter, Evolve, Revised
<1>6. CASE c.kind \notin {"CreatePage", "EditPage"}
  <2>1. e.type \notin {"page_created", "revision_committed"}
    BY <1>1, <1>3, <1>6 DEF RevisionTypes
  <2>2. s \in Pages
    BY <1>1, <1>6
  <2>3. Bumped(s) \in Pages /\ Bumped(s).head = s.head
          /\ Bumped(s).hash = s.hash /\ Bumped(s).headActor = s.headActor
    BY <2>2 DEF Bumped, Pages
  <2>4. PICK b \in Pages : b = Bumped(s)
    BY <2>3
  <2>5. ASSUME NEW t \in Pages, NEW x
        PROVE  /\ [t EXCEPT !.review = x].head = t.head
               /\ [t EXCEPT !.review = x].hash = t.hash
               /\ [t EXCEPT !.review = x].headActor = t.headActor
               /\ [t EXCEPT !.moderation = x].head = t.head
               /\ [t EXCEPT !.moderation = x].hash = t.hash
               /\ [t EXCEPT !.moderation = x].headActor = t.headActor
    BY DEF Pages
  <2>6. PageAfter(c) \in {b, [b EXCEPT !.review = "submitted"],
                          [b EXCEPT !.moderation = "quarantined"],
                          [b EXCEPT !.moderation = "visible"]}
    BY <1>1, <1>6, <2>1, <2>4 DEF PageAfter, Evolve
  <2>7. b.head = s.head /\ b.hash = s.hash /\ b.headActor = s.headActor
    BY <2>3, <2>4
  <2>8. /\ PageAfter(c).head = s.head
        /\ PageAfter(c).hash = s.hash
        /\ PageAfter(c).headActor = s.headActor
    <3>1. CASE PageAfter(c) = b
      BY <2>7, <3>1
    <3>2. CASE PageAfter(c) = [b EXCEPT !.review = "submitted"]
      BY <2>7, <2>5, <3>2
    <3>3. CASE PageAfter(c) = [b EXCEPT !.moderation = "quarantined"]
      BY <2>7, <2>5, <3>3
    <3>4. CASE PageAfter(c) = [b EXCEPT !.moderation = "visible"]
      BY <2>7, <2>5, <3>4
    <3>5. QED
      BY <2>6, <3>1, <3>2, <3>3, <3>4
  <2>9. e.type \notin RevisionTypes
    BY <1>3, <1>6
  <2>10. QED
    BY <1>2, <1>3, <2>8, <2>9
<1>7. QED
  BY <1>4, <1>5, <1>6

\* What comes before an event of the old stream is what came before it.
LEMMA PastStands ==
    ASSUME IInv, NEW k \in Callers, ExecuteAccepted(k),
           NEW p \in PageIds, NEW i \in 1..(Len(events[p]) + 1), NEW j \in Nat
    PROVE  /\ RevisionsBefore(p, i)' = RevisionsBefore(p, i)
           /\ IsHeadAt(p, i, j)' <=> IsHeadAt(p, i, j)
           /\ j \in RevisionsBefore(p, i) =>
                j \in 1..Len(events[p]) /\ events'[p][j] = events[p][j]
<1>1. events \in [PageIds -> Seq(Events)]
  BY DEF IInv, Typed, TypeOK
<1>2. Len(events[p]) \in Nat
  BY <1>1
<1>3. \A m \in 1..Len(events[p]) : events'[p][m] = events[p][m]
  BY AcceptedChanges
<1>4. 1..(i - 1) \subseteq 1..Len(events[p])
  BY <1>2
<1>5. RevisionsBefore(p, i)' = RevisionsBefore(p, i)
  BY <1>3, <1>4 DEF RevisionsBefore
<1>6. IsHeadAt(p, i, j)' <=> IsHeadAt(p, i, j)
  BY <1>5 DEF IsHeadAt
<1>7. QED
  BY <1>3, <1>4, <1>5, <1>6 DEF RevisionsBefore

\* An accepted command makes its revision the head, or leaves both as they are.
LEMMA AcceptedKeepsHead ==
    ASSUME IInv, HeadIsLastRevision, NEW k \in Callers, ExecuteAccepted(k)
    PROVE  HeadIsLastRevision'
<1> DEFINE c == call[k].command
           e == EventFor(c)
<1>1. PICK n : n = Len(events[c.page]) + 1
  OBVIOUS
<1>2. /\ c.page \in PageIds /\ n \in Nat
      /\ pages'[c.page] = PageAfter(c)
      /\ \A p \in PageIds : p # c.page => pages'[p] = pages[p] /\ events'[p] = events[p]
      /\ Len(events'[c.page]) = n
      /\ events'[c.page][n] = e
      /\ \A i \in 1..Len(events[c.page]) : events'[c.page][i] = events[c.page][i]
  BY <1>1, AcceptedChanges
<1>3. Len(events[c.page]) = n - 1 /\ n >= 1
  BY <1>1, <1>2 DEF IInv, Typed, TypeOK
<1>4. SUFFICES ASSUME NEW p \in PageIds, pages'[p] # None
               PROVE  \E j \in 1..Len(events'[p]) :
                         /\ IsHeadAt(p, Len(events[p]) + 1, j)'
                         /\ pages'[p].head = events'[p][j].rev
                         /\ pages'[p].hash = Digest(events'[p][j].text)
                         /\ pages'[p].headActor = events'[p][j].actor
  BY DEF HeadIsLastRevision
<1>5. CASE p # c.page
  <2>1. pages'[p] = pages[p] /\ events'[p] = events[p]
    BY <1>2, <1>5
  <2>2. QED
    BY <1>4, <2>1 DEF HeadIsLastRevision, IsHeadAt, RevisionsBefore
<1>6. CASE p = c.page /\ e.type \in RevisionTypes
  <2>1. n \in RevisionsBefore(p, Len(events[p]) + 1)'
    BY <1>2, <1>3, <1>6 DEF RevisionsBefore
  <2>2. \A m \in RevisionsBefore(p, Len(events[p]) + 1)' : m <= n
    BY <1>2, <1>6 DEF RevisionsBefore
  <2>3. IsHeadAt(p, Len(events[p]) + 1, n)'
    BY <2>1, <2>2 DEF IsHeadAt
  <2>4. /\ pages'[p].head = events'[p][n].rev
        /\ pages'[p].hash = Digest(events'[p][n].text)
        /\ pages'[p].headActor = events'[p][n].actor
    BY <1>2, <1>6, AcceptedHead
  <2>5. n \in 1..Len(events'[p])
    BY <1>2, <1>3, <1>6
  <2>6. QED
    BY <2>3, <2>4, <2>5
<1>7. CASE p = c.page /\ e.type \notin RevisionTypes
  <2>1. c.kind # "CreatePage" /\ pages[p] # None
    BY <1>7, AcceptedHead, AcceptedState, NoneIsFresh DEF IInv
  <2>2. PICK j \in 1..Len(events[p]) :
           /\ IsHeadAt(p, n, j)
           /\ pages[p].head = events[p][j].rev
           /\ pages[p].hash = Digest(events[p][j].text)
           /\ pages[p].headActor = events[p][j].actor
    BY <1>1, <1>7, <2>1 DEF HeadIsLastRevision
  <2>3. events'[p][j] = events[p][j] /\ j \in 1..Len(events'[p])
    BY <1>2, <1>3, <1>7, <2>2
  <2>4. RevisionsBefore(p, Len(events[p]) + 1)' = RevisionsBefore(p, n)
    <3>1. \A m \in 1..n : m \in 1..(n - 1) \/ m = n
      <4>1. n \in Nat
        BY <1>2
      <4>2. QED
        BY <4>1
    <3>2. events'[p][n].type \notin RevisionTypes
      BY <1>2, <1>7
    <3>3. \A m \in 1..(n - 1) : events'[p][m] = events[p][m]
      BY <1>2, <1>3, <1>7
    <3>4. Len(events'[p]) + 1 - 1 = n /\ 1..(n - 1) \subseteq 1..n
      <4>1. n \in Nat /\ Len(events'[p]) = n
        BY <1>2, <1>7
      <4>2. n + 1 - 1 = n /\ 1..(n - 1) \subseteq 1..n
        BY <4>1
      <4>3. QED
        BY <4>1, <4>2
    <3>5. /\ RevisionsBefore(p, n) = {m \in 1..(n - 1) : events[p][m].type \in RevisionTypes}
          /\ RevisionsBefore(p, Len(events[p]) + 1)'
               = {m \in 1..n : events'[p][m].type \in RevisionTypes}
      BY <3>4 DEF RevisionsBefore
    <3>6. QED
      BY <3>1, <3>2, <3>3, <3>4, <3>5
  <2>5. IsHeadAt(p, Len(events[p]) + 1, j)'
    BY <2>2, <2>4 DEF IsHeadAt
  <2>6. /\ pages'[p].head = pages[p].head
        /\ pages'[p].hash = pages[p].hash
        /\ pages'[p].headActor = pages[p].headActor
    <3>1. /\ PageAfter(c).head = pages[c.page].head
          /\ PageAfter(c).hash = pages[c.page].hash
          /\ PageAfter(c).headActor = pages[c.page].headActor
      BY <1>7, AcceptedHead
    <3>2. QED
      BY <1>2, <1>7, <3>1
  <2>7. /\ pages'[p].head = events'[p][j].rev
        /\ pages'[p].hash = Digest(events'[p][j].text)
        /\ pages'[p].headActor = events'[p][j].actor
    BY <2>2, <2>3, <2>6
  <2>8. QED
    BY <2>3, <2>5, <2>7
<1>8. QED
  BY <1>5, <1>6, <1>7

\* What an accepted command was checked against.
LEMMA AcceptedChecks ==
    ASSUME IInv, NEW k \in Callers, ExecuteAccepted(k),
           call[k].command.kind \notin {"CreatePage", "ReportPage"}
    PROVE  LET c == call[k].command
               s == pages[c.page]
           IN  /\ s # None
               /\ c.rev = s.head
               /\ c.kind # "EditPage" => c.hash = s.hash
               /\ c.kind = "EditPage" => EventFor(c).parent = s.head
               /\ c.kind \in Moderations =>
                    EventFor(c).rev = s.head /\ EventFor(c).actor # s.headActor
               /\ EventFor(c).command = c.id
               /\ ReceiptFor(c).fingerprint.rev = c.rev
               /\ ReceiptFor(c).fingerprint.hash = c.hash
<1> DEFINE c == call[k].command
           s == pages[c.page]
<1>1. /\ c.kind \in Kinds
      /\ s # None /\ StateFor(c) = s
      /\ Verdict(StateFor(c), c) = "accepted"
  BY AcceptedState, NoneIsFresh DEF IInv, ExecuteAccepted
<1>2. /\ ~SelfModeration(s, c) /\ ~HeadConflict(s, c) /\ ~HashConflict(s, c)
  BY <1>1 DEF Verdict
<1>3. /\ c.rev = s.head
      /\ c.kind # "EditPage" => c.hash = s.hash
      /\ c.kind \in Moderations => c.actor # s.headActor
  BY <1>2 DEF SelfModeration, HeadConflict, HashConflict
<1>4. /\ EventFor(c).command = c.id /\ EventFor(c).actor = c.actor
      /\ c.kind = "EditPage" => EventFor(c).parent = s.head
      /\ c.kind \in Moderations => EventFor(c).rev = s.head
  BY <1>1 DEF EventFor, EventOf, EventRevision, Moderations
<1>5. /\ ReceiptFor(c).fingerprint.rev = c.rev
      /\ ReceiptFor(c).fingerprint.hash = c.hash
  BY DEF ReceiptFor, Fingerprint
<1>6. QED
  BY <1>1, <1>3, <1>4, <1>5

\* The new event is decided on the head; those before it keep their past.
LEMMA AcceptedKeepsDecisions ==
    ASSUME IInv, HeadIsLastRevision, NoStaleDecision, NEW k \in Callers, ExecuteAccepted(k)
    PROVE  NoStaleDecision'
<1> DEFINE c == call[k].command
           e == EventFor(c)
           asked(d) == receipts'[d].fingerprint
<1>1. PICK n : n = Len(events[c.page]) + 1
  OBVIOUS
<1>2. /\ c.id \in CommandIds /\ c.page \in PageIds /\ n \in Nat
      /\ \A p \in PageIds : p # c.page => events'[p] = events[p]
      /\ Len(events'[c.page]) = n
      /\ events'[c.page][n] = e
      /\ \A i \in 1..Len(events[c.page]) : events'[c.page][i] = events[c.page][i]
      /\ receipts'[c.id] = ReceiptFor(c)
      /\ \A d \in CommandIds : d # c.id => receipts'[d] = receipts[d]
  BY <1>1, AcceptedChanges
<1>3. events \in [PageIds -> Seq(Events)]
  BY DEF IInv, Typed, TypeOK
<1>4. Len(events[c.page]) = n - 1 /\ n >= 1
  BY <1>1, <1>2, <1>3
<1>5. SUFFICES ASSUME NEW p \in PageIds, NEW i \in 1..Len(events'[p]),
                      events'[p][i].type \notin {"page_created", "page_reported"}
               PROVE  \E j \in 1..(i - 1) :
                         /\ IsHeadAt(p, i, j)'
                         /\ asked(events'[p][i].command).rev = events'[p][j].rev
                         /\ IF events'[p][i].type = "revision_committed"
                              THEN events'[p][i].parent = events'[p][j].rev
                              ELSE asked(events'[p][i].command).hash
                                     = Digest(events'[p][j].text)
                         /\ events'[p][i].type \in ModerationTypes =>
                              /\ events'[p][i].rev = events'[p][j].rev
                              /\ events'[p][i].actor # events'[p][j].actor
  BY DEF NoStaleDecision
<1>6. CASE p = c.page /\ i = n
  <2>1. events'[p][i] = e
    BY <1>2, <1>6
  <2>2. /\ e.type = EventType[c.kind] /\ c.kind \in Kinds
        /\ c.kind \notin {"CreatePage", "ReportPage"}
    <3>1. e.type = EventType[c.kind]
      BY AcceptedHead
    <3>2. c.kind \in Kinds
      BY AcceptedState DEF IInv
    <3>3. e.type \notin {"page_created", "page_reported"}
      BY <1>5, <2>1
    <3>4. QED
      BY <3>1, <3>2, <3>3 DEF EventType, Kinds
  <2>3. /\ e.type = "revision_committed" <=> c.kind = "EditPage"
        /\ e.type \in ModerationTypes <=> c.kind \in Moderations
    BY <2>2 DEF EventType, Kinds, Moderations, ModerationTypes
  <2>4. /\ pages[c.page] # None
        /\ c.rev = pages[c.page].head
        /\ c.kind # "EditPage" => c.hash = pages[c.page].hash
        /\ c.kind = "EditPage" => e.parent = pages[c.page].head
        /\ c.kind \in Moderations =>
             e.rev = pages[c.page].head /\ e.actor # pages[c.page].headActor
        /\ e.command = c.id
        /\ ReceiptFor(c).fingerprint.rev = c.rev
        /\ ReceiptFor(c).fingerprint.hash = c.hash
    BY <2>2, AcceptedChecks
  <2>5. PICK j \in 1..Len(events[p]) :
           /\ IsHeadAt(p, n, j)
           /\ pages[p].head = events[p][j].rev
           /\ pages[p].hash = Digest(events[p][j].text)
           /\ pages[p].headActor = events[p][j].actor
    BY <1>1, <1>6, <2>4 DEF HeadIsLastRevision
  <2>6. j \in 1..(i - 1) /\ j \in Nat /\ i \in 1..(Len(events[p]) + 1)
    BY <1>2, <1>4, <1>6, <2>5
  <2>7. IsHeadAt(p, i, j)' /\ events'[p][j] = events[p][j]
    BY <1>2, <1>6, <2>5, <2>6, PastStands
  <2>8. asked(e.command) = ReceiptFor(c).fingerprint
    BY <1>2, <2>4
  <2>9. /\ asked(events'[p][i].command).rev = events'[p][j].rev
        /\ IF events'[p][i].type = "revision_committed"
             THEN events'[p][i].parent = events'[p][j].rev
             ELSE asked(events'[p][i].command).hash = Digest(events'[p][j].text)
        /\ events'[p][i].type \in ModerationTypes =>
             /\ events'[p][i].rev = events'[p][j].rev
             /\ events'[p][i].actor # events'[p][j].actor
    <3> HIDE DEF asked
    <3> QED
      BY <1>6, <2>1, <2>3, <2>4, <2>5, <2>7, <2>8
  <2>10. QED
    BY <2>6, <2>7, <2>9
<1>7. CASE ~(p = c.page /\ i = n)
  <2>1. i \in 1..Len(events[p]) /\ events'[p][i] = events[p][i]
    <3>1. CASE p = c.page
      BY <1>2, <1>4, <1>7, <3>1
    <3>2. CASE p # c.page
      BY <1>2, <3>2
    <3>3. QED
      BY <3>1, <3>2
  <2>2. /\ events[p] \in Seq(Events) /\ Len(events[p]) \in Nat
        /\ events[p][i] \in Events
    BY <1>3, <2>1
  <2>3. events[p][i].command \in CommandIds
    BY <2>2 DEF Events
  <2>4. receipts[events[p][i].command] # None
    BY <2>1, <2>3 DEF IInv, EffectOncePerCommand
  <2>5. receipts'[events[p][i].command] = receipts[events[p][i].command]
    BY <1>2, <2>3, <2>4, AcceptedState DEF IInv
  <2>6. PICK j \in 1..(i - 1) :
           /\ IsHeadAt(p, i, j)
           /\ receipts[events[p][i].command].fingerprint.rev = events[p][j].rev
           /\ IF events[p][i].type = "revision_committed"
                THEN events[p][i].parent = events[p][j].rev
                ELSE receipts[events[p][i].command].fingerprint.hash = Digest(events[p][j].text)
           /\ events[p][i].type \in ModerationTypes =>
                events[p][i].rev = events[p][j].rev /\ events[p][i].actor # events[p][j].actor
    BY <1>5, <2>1 DEF NoStaleDecision
  <2>7. j \in Nat /\ i \in 1..(Len(events[p]) + 1) /\ j \in 1..Len(events[p])
    BY <2>1, <2>2
  <2>8. IsHeadAt(p, i, j)' /\ events'[p][j] = events[p][j]
    BY <2>6, <2>7, PastStands DEF IsHeadAt
  <2>9. /\ asked(events'[p][i].command).rev = events'[p][j].rev
        /\ IF events'[p][i].type = "revision_committed"
             THEN events'[p][i].parent = events'[p][j].rev
             ELSE asked(events'[p][i].command).hash = Digest(events'[p][j].text)
        /\ events'[p][i].type \in ModerationTypes =>
             /\ events'[p][i].rev = events'[p][j].rev
             /\ events'[p][i].actor # events'[p][j].actor
    BY <2>1, <2>5, <2>6, <2>8
  <2>10. QED
    BY <2>8, <2>9
<1>8. QED
  BY <1>6, <1>7

\* The effects of a command carry the id of the event it appends, and no other effect
\* does.
LEMMA EffectOfEvent ==
    ASSUME IInv, NEW k \in Callers, ExecuteAccepted(k), NEW e \in EffectIds
    PROVE  e \in EffectsOf(call[k].command) <=> EventFor(call[k].command).id = e.event
<1> DEFINE c == call[k].command
<1>1. c.kind \in Kinds /\ EventFor(c).id = StableId(c.id, EventPurpose[c.kind])
  BY AcceptedState DEF IInv, EventFor, EventOf
<1>2. CASE c.kind = "SubmitReview"
  <2>1. EventPurpose[c.kind] = "submission"
    BY <1>2 DEF EventPurpose, Kinds, Moderations
  <2>2. EffectsOf(c) = {[event |-> StableId(c.id, "submission"), type |-> "review_requested"]}
    BY <1>2 DEF EffectsOf
  <2>3. QED
    BY <1>1, <2>1, <2>2 DEF EffectIds, StableId
<1>3. CASE c.kind = "ReportPage"
  <2>1. EventPurpose[c.kind] = "report"
    BY <1>3 DEF EventPurpose, Kinds, Moderations
  <2>2. EffectsOf(c) =
          {[event |-> StableId(c.id, "report"), type |-> "moderation_report_requested"]}
    BY <1>3 DEF EffectsOf
  <2>3. QED
    BY <1>1, <2>1, <2>2 DEF EffectIds, StableId
<1>4. CASE c.kind \notin {"SubmitReview", "ReportPage"}
  <2>1. EventPurpose[c.kind] \in {"moderation", "revision"}
    BY <1>1, <1>4 DEF EventPurpose, Moderations
  <2>2. EffectsOf(c) = {}
    BY <1>4 DEF EffectsOf
  <2>3. QED
    BY <1>1, <2>1, <2>2 DEF EffectIds, StableId
<1>5. QED
  BY <1>2, <1>3, <1>4

\* An accepted command appends its event and its effects together.
LEMMA AcceptedKeepsOutbox ==
    ASSUME IInv, OutboxMatchesStreams, NEW k \in Callers, ExecuteAccepted(k)
    PROVE  OutboxMatchesStreams'
<1> DEFINE c == call[k].command
           n == Len(events[c.page]) + 1
<1>1. c.page \in PageIds
  BY AcceptedChanges
<1>2. ASSUME NEW p \in PageIds, NEW i
      PROVE  /\ i \in 1..Len(events'[p]) <=> i \in 1..Len(events[p]) \/ (p = c.page /\ i = n)
             /\ i \in 1..Len(events[p]) => events'[p][i] = events[p][i]
             /\ p = c.page /\ i = n => events'[p][i] = EventFor(c)
  BY OneNewEvent
<1>3. SUFFICES ASSUME NEW e \in EffectIds
               PROVE  outbox'[e] # "absent" <=>
                        \E p \in PageIds : \E i \in 1..Len(events'[p]) : events'[p][i].id = e.event
  BY DEF OutboxMatchesStreams
<1>4. outbox'[e] # "absent" <=> e \in EffectsOf(c) \/ outbox[e] # "absent"
  BY DEF ExecuteAccepted, OutboxAfter
<1>5. ASSUME NEW p \in PageIds
      PROVE  (\E i \in 1..Len(events'[p]) : events'[p][i].id = e.event)
               <=> \/ p = c.page /\ EventFor(c).id = e.event
                   \/ \E i \in 1..Len(events[p]) : events[p][i].id = e.event
  <2> HIDE DEF c, n
  <2>1. ASSUME NEW i \in 1..Len(events'[p]), events'[p][i].id = e.event
        PROVE  \/ p = c.page /\ EventFor(c).id = e.event
               \/ \E j \in 1..Len(events[p]) : events[p][j].id = e.event
    BY <1>2, <2>1
  <2>2. ASSUME p = c.page, EventFor(c).id = e.event
        PROVE  n \in 1..Len(events'[p]) /\ events'[p][n].id = e.event
    BY <1>2, <2>2
  <2>3. ASSUME NEW i \in 1..Len(events[p]), events[p][i].id = e.event
        PROVE  i \in 1..Len(events'[p]) /\ events'[p][i].id = e.event
    BY <1>2, <2>3
  <2>4. QED
    BY <2>1, <2>2, <2>3
<1>6. QED
  BY <1>1, <1>4, <1>5, EffectOfEvent DEF OutboxMatchesStreams

\* An empty stream has no decision in it.
LEMMA DecisionInvInit == Init => DecisionInv
<1>1. Init => HeadIsLastRevision /\ NoStaleDecision
  BY DEF Init, HeadIsLastRevision, NoStaleDecision
<1>2. Init => OutboxMatchesStreams
  BY DEF Init, OutboxMatchesStreams
<1>3. QED
  BY <1>1, <1>2, IInvInit DEF DecisionInv

\* Only an accepted command adds to a stream, and only resolving an effect touches the outbox.
LEMMA DecisionInvStep ==
    ASSUME DecisionInv, [Next]_vars
    PROVE  DecisionInv'
<1>1. IInv'
  BY IInvStep DEF DecisionInv
<1>2. ASSUME NEW k \in Callers, ExecuteAccepted(k)
      PROVE  DecisionInv'
  BY <1>1, <1>2, AcceptedKeepsHead, AcceptedKeepsDecisions, AcceptedKeepsOutbox DEF DecisionInv
<1>3. ASSUME UNCHANGED <<pages, events, receipts>>,
             \A e \in EffectIds : outbox'[e] = "absent" <=> outbox[e] = "absent"
      PROVE  DecisionInv'
  <2>1. HeadIsLastRevision'
    BY <1>3 DEF DecisionInv, HeadIsLastRevision, IsHeadAt, RevisionsBefore
  <2>2. NoStaleDecision'
    BY <1>3 DEF DecisionInv, NoStaleDecision, IsHeadAt, RevisionsBefore
  <2>3. OutboxMatchesStreams'
    BY <1>3 DEF DecisionInv, OutboxMatchesStreams
  <2>4. QED
    BY <1>1, <2>1, <2>2, <2>3 DEF DecisionInv
<1>4. ASSUME NEW e \in EffectIds, ResolveOutbox(e)
      PROVE  DecisionInv'
  BY <1>3, <1>4 DEF ResolveOutbox, DecisionInv, IInv, Typed, TypeOK
<1>5. UNCHANGED db \/ UNCHANGED vars => DecisionInv'
  BY <1>3 DEF db, vars
<1>6. QED
  BY <1>2, <1>4, <1>5
     DEF Next, Execute, Invoke, ExecuteKnown, ExecuteRejected, Fail, LoseReply, Return

\* That the head is the last revision, the decisions made on it (domain.py 190-314) and the
\* effects they left (memory.py) hold together in every reachable state.
THEOREM DecisionInvariance == Spec => []DecisionInv
BY DecisionInvInit, DecisionInvStep, PTL DEF Spec

\* No edit, submission or moderation is decided on a page that moved since it was asked
\* for, and no moderator judges what they wrote (domain.py 190, 222-227, 305, 311-314).
THEOREM DecisionsAreNeverStale == Spec => []NoStaleDecision
<1>1. DecisionInv => NoStaleDecision
  BY DEF DecisionInv
<1>2. QED
  BY <1>1, DecisionInvariance, PTL

\* Every submission and every report has its effect in the outbox, and nothing else
\* does (memory.py 77-91, domain.py 262-297).
THEOREM OutboxAlwaysMatches == Spec => []OutboxMatchesStreams
<1>1. DecisionInv => OutboxMatchesStreams
  BY DEF DecisionInv
<1>2. QED
  BY <1>1, DecisionInvariance, PTL

-----------------------------------------------------------------------------
(***************************************************************************)
(* The projection is what replaying the stream gives.  Replay is a         *)
(* recursive function of the stream; what is known of it comes by          *)
(* induction on the length of a stream, as a least counterexample.         *)
(***************************************************************************)

\* A nonempty set of naturals has a least element: what the inductions on the length
\* of a stream rest on.
LEMMA LeastNatural ==
    ASSUME NEW T, T \subseteq Nat, T # {}
    PROVE  \E x \in T : \A y \in T : x <= y
<1>1. IsWellFoundedOn({ss \in Nat \X Nat : ss[1] < ss[2]}, Nat)
  BY NatLessThanWellFounded DEF OpToRel
<1>2. PICK x \in T : \A y \in T : ~ (<<y, x>> \in {ss \in Nat \X Nat : ss[1] < ss[2]})
  BY <1>1, WFMin
<1>3. \A y \in T : ~(y < x)
  BY <1>2
<1>4. QED
  BY <1>3

\* f folds the first n events of es.
IsFold(f, es, n) ==
    f = [i \in 0..n |-> IF i = 0 THEN None ELSE Evolve(f[i - 1], es[i])]

\* What a fold is, step by step.
LEMMA FoldSteps ==
    ASSUME NEW es, NEW n \in Nat, NEW f, IsFold(f, es, n)
    PROVE  f[0] = None /\ \A i \in 1..n : f[i] = Evolve(f[i - 1], es[i])
<1>1. \A i \in 0..n : f[i] = IF i = 0 THEN None ELSE Evolve(f[i - 1], es[i])
  BY DEF IsFold
<1>2. 0 \in 0..n /\ \A i \in 1..n : i \in 0..n /\ i # 0
  OBVIOUS
<1>3. QED
  BY <1>1, <1>2

\* Every stream can be folded, however long it is.
LEMMA FoldExists ==
    ASSUME NEW es, NEW n \in Nat
    PROVE  \E f : IsFold(f, es, n)
<1> DEFINE Missing == {m \in Nat : ~ \E f : IsFold(f, es, m)}
<1>1. SUFFICES ASSUME Missing # {}
               PROVE  FALSE
  OBVIOUS
<1>2. PICK m \in Missing : \A y \in Missing : m <= y
  BY <1>1, LeastNatural
<1>3. CASE m = 0
  <2>1. IsFold([i \in 0..0 |-> None], es, 0)
    BY DEF IsFold
  <2>2. QED
    BY <1>3, <2>1
<1>4. CASE m # 0
  <2>1. m - 1 \in Nat /\ m - 1 \notin Missing
    BY <1>2, <1>4
  <2>2. PICK f : IsFold(f, es, m - 1)
    BY <2>1
  <2>3. PICK g : g = [i \in 0..m |-> IF i = m THEN Evolve(f[m - 1], es[m]) ELSE f[i]]
    OBVIOUS
  <2>4. ASSUME NEW i \in 0..m
        PROVE  g[i] = IF i = 0 THEN None ELSE Evolve(g[i - 1], es[i])
    <3>1. CASE i = m
      <4>1. g[m - 1] = f[m - 1] /\ g[m] = Evolve(f[m - 1], es[m])
        BY <1>4, <2>3
      <4>2. QED
        BY <1>4, <3>1, <4>1
    <3>2. CASE i # m /\ i # 0
      <4>1. g[i] = f[i] /\ g[i - 1] = f[i - 1] /\ i \in 1..(m - 1)
        BY <2>3, <3>2
      <4>2. f[i] = Evolve(f[i - 1], es[i])
        BY <2>1, <2>2, <4>1, FoldSteps
      <4>3. QED
        BY <3>2, <4>1, <4>2
    <3>3. CASE i = 0
      BY <1>4, <2>1, <2>2, <2>3, <3>3, FoldSteps
    <3>4. QED
      BY <3>1, <3>2, <3>3
  <2>5. g = [i \in 0..m |-> IF i = 0 THEN None ELSE Evolve(g[i - 1], es[i])]
    BY <2>3, <2>4
  <2>6. IsFold(g, es, m)
    BY <2>5 DEF IsFold
  <2>7. QED
    BY <2>6
<1>5. QED
  BY <1>3, <1>4

\* Two folds agree as far as their streams do.
LEMMA FoldsAgree ==
    ASSUME NEW es, NEW ds, NEW m \in Nat, NEW n \in Nat, m <= n,
           NEW f, IsFold(f, es, m), NEW g, IsFold(g, ds, n),
           \A i \in 1..m : es[i] = ds[i]
    PROVE  f[m] = g[m]
<1> DEFINE Apart == {i \in 0..m : f[i] # g[i]}
<1>1. SUFFICES ASSUME Apart # {}
               PROVE  FALSE
  OBVIOUS
<1>2. PICK i \in Apart : \A j \in Apart : i <= j
  <2>1. Apart \subseteq Nat
    OBVIOUS
  <2>2. QED
    BY <1>1, <2>1, LeastNatural
<1>3. f[0] = g[0]
  BY FoldSteps
<1>4. i \in 1..m /\ i \in 1..n /\ i - 1 \in 0..m /\ i - 1 < i
  BY <1>2, <1>3
<1>5. f[i - 1] = g[i - 1]
  BY <1>2, <1>4
<1>6. f[i] = Evolve(f[i - 1], es[i]) /\ g[i] = Evolve(g[i - 1], ds[i])
  BY <1>4, FoldSteps
<1>7. QED
  BY <1>2, <1>4, <1>5, <1>6

\* Replay is the last value of the fold.
LEMMA ReplayFolds ==
    ASSUME NEW es \in Seq(Events)
    PROVE  \E f : IsFold(f, es, Len(es)) /\ Replay(es) = f[Len(es)]
<1>1. PICK f : IsFold(f, es, Len(es))
  BY FoldExists
<1> DEFINE F == CHOOSE fold : IsFold(fold, es, Len(es))
<1>2. IsFold(F, es, Len(es))
  BY <1>1
<1>3. Replay(es) = F[Len(es)]
  BY DEF Replay, IsFold
<1>4. QED
  BY <1>2, <1>3

\* Replaying one event more is one evolve more (domain.py, replay).
LEMMA ReplayAppend ==
    ASSUME NEW es \in Seq(Events), NEW e \in Events
    PROVE  Replay(Append(es, e)) = Evolve(Replay(es), e)
<1>1. PICK n \in Nat : n = Len(es)
  OBVIOUS
<1>2. PICK ds : ds = Append(es, e) /\ ds \in Seq(Events)
  <2>1. Append(es, e) \in Seq(Events)
    OBVIOUS
  <2>2. QED
    BY <2>1
<1>3. Len(ds) = n + 1 /\ ds[n + 1] = e /\ \A i \in 1..n : es[i] = ds[i]
  BY <1>1, <1>2
<1>4. PICK f : IsFold(f, es, n) /\ Replay(es) = f[n]
  BY <1>1, ReplayFolds
<1>5. PICK g : IsFold(g, ds, n + 1) /\ Replay(ds) = g[n + 1]
  BY <1>2, <1>3, ReplayFolds
<1>6. f[n] = g[n]
  BY <1>3, <1>4, <1>5, FoldsAgree
<1>7. g[n + 1] = Evolve(g[n], ds[n + 1])
  <2>1. n + 1 \in 1..(n + 1) /\ n + 1 \in Nat /\ (n + 1) - 1 = n
    OBVIOUS
  <2>2. QED
    BY <1>5, <2>1, FoldSteps
<1>8. QED
  BY <1>2, <1>3, <1>4, <1>5, <1>6, <1>7

\* What evolve makes of one appended event, and what the event says of itself.
LEMMA AcceptedEvent ==
    ASSUME IInv, NEW k \in Callers, ExecuteAccepted(k)
    PROVE  LET c == call[k].command
               e == EventFor(c)
           IN  /\ e \in Events
               /\ e.index = Len(events[c.page]) + 1
               /\ e.page = c.page
               /\ e.type = "page_created" <=> e.index = 1
               /\ PageAfter(c) = Evolve(pages[c.page], e)
<1> DEFINE c == call[k].command
           e == EventFor(c)
<1>1. /\ c.kind \in Kinds /\ c.page \in PageIds
      /\ c.kind = "CreatePage" => pages[c.page] = None /\ Len(events[c.page]) = 0
      /\ c.kind # "CreatePage" => pages[c.page] # None /\ StateFor(c) = pages[c.page]
  BY AcceptedState, AcceptedChanges, NoneIsFresh DEF IInv
<1>2. e \in Events /\ e.index = Len(events[c.page]) + 1 /\ e.page = c.page
  <2>1. e \in Events
    BY PendingFacts DEF IInv, Typed, ExecuteAccepted
  <2>2. QED
    BY <2>1 DEF EventFor, EventOf
<1>3. e.type = "page_created" <=> c.kind = "CreatePage"
  BY <1>1 DEF EventFor, EventOf, EventType, Kinds, Moderations
<1>4. c.kind # "CreatePage" => Len(events[c.page]) > 0
  BY <1>1 DEF IInv, VersionsCount
<1>5. e.type = "page_created" <=> e.index = 1
  BY <1>1, <1>2, <1>3, <1>4
<1>6. StateFor(c) = pages[c.page]
  BY <1>1 DEF StateFor
<1>7. QED
  BY <1>2, <1>5, <1>6 DEF PageAfter

\* The page evolves by the event that is appended.
LEMMA AcceptedKeepsReplay ==
    ASSUME IInv, ProjectionIsReplay, NEW k \in Callers, ExecuteAccepted(k)
    PROVE  ProjectionIsReplay'
<1> DEFINE c == call[k].command
<1>1. PICK e : e = EventFor(c)
  OBVIOUS
<1>2. PICK q \in PageIds : q = c.page
  BY AcceptedChanges
<1>3. PICK n \in Nat : n = Len(events[q]) + 1
  BY <1>2, AcceptedChanges
<1>4. /\ pages'[q] = Evolve(pages[q], e)
      /\ e \in Events /\ e.index = n /\ e.page = q
      /\ e.type = "page_created" <=> n = 1
      /\ Len(events'[q]) = n /\ events'[q][n] = e
      /\ \A i \in 1..Len(events[q]) : events'[q][i] = events[q][i]
      /\ \A p \in PageIds : p # q => pages'[p] = pages[p] /\ events'[p] = events[p]
  BY <1>1, <1>2, <1>3, AcceptedChanges, AcceptedEvent
<1>5. /\ events[q] \in Seq(Events) /\ Len(events[q]) = n - 1 /\ n >= 1
      /\ events' \in [PageIds -> Seq(Events)]
  BY <1>3, TypedStep DEF IInv, Typed, TypeOK, Next, Execute
<1>6. events'[q] = Append(events[q], e)
  BY <1>1, <1>2, <1>5 DEF ExecuteAccepted, IInv, Typed, TypeOK
<1>7. pages'[q] = Replay(events'[q])
  <2>1. pages[q] = Replay(events[q])
    BY DEF ProjectionIsReplay
  <2>2. QED
    BY <1>4, <1>5, <1>6, <2>1, ReplayAppend
<1>8. VersionsCount'
  BY AcceptedKeepsVersions
<1>9. ASSUME NEW p \in PageIds, p # q
      PROVE  /\ \A i \in DOMAIN events'[p] :
                  /\ events'[p][i].index = i
                  /\ events'[p][i].page = p
                  /\ events'[p][i].type = "page_created" <=> i = 1
             /\ pages'[p] = Replay(events'[p])
  <2>1. pages'[p] = pages[p] /\ events'[p] = events[p]
    BY <1>4, <1>9
  <2>2. QED
    BY <2>1 DEF ProjectionIsReplay
<1>10. ASSUME NEW i \in DOMAIN events'[q]
       PROVE  /\ events'[q][i].index = i
              /\ events'[q][i].page = q
              /\ events'[q][i].type = "page_created" <=> i = 1
  <2>1. i \in 1..n
    BY <1>4, <1>5
  <2>2. CASE i = n
    BY <1>4, <2>2
  <2>3. CASE i # n
    <3>1. i \in 1..Len(events[q]) /\ i \in DOMAIN events[q]
      BY <1>5, <2>1, <2>3
    <3>2. events'[q][i] = events[q][i]
      BY <1>4, <3>1
    <3>3. QED
      BY <3>1, <3>2 DEF ProjectionIsReplay
  <2>4. QED
    BY <2>2, <2>3
<1>11. QED
  BY <1>7, <1>8, <1>9, <1>10 DEF ProjectionIsReplay, VersionsCount

\* Replaying nothing gives no page.
LEMMA ReplayInit == Init => ProjectionIsReplay
<1> SUFFICES ASSUME Init
             PROVE  ProjectionIsReplay
  OBVIOUS
<1>1. \A p \in PageIds : pages[p] = None /\ events[p] = << >>
  BY DEF Init
<1>2. Replay(<< >>) = None
  <2>1. << >> \in Seq(Events) /\ Len(<< >>) = 0
    OBVIOUS
  <2>2. PICK f : IsFold(f, << >>, 0) /\ Replay(<< >>) = f[0]
    BY <2>1, ReplayFolds
  <2>3. QED
    BY <2>2, FoldSteps
<1>3. QED
  BY <1>1, <1>2 DEF ProjectionIsReplay

\* Only an accepted command changes a page or a stream.
LEMMA ReplayStep ==
    ASSUME IInv, ProjectionIsReplay, [Next]_vars
    PROVE  ProjectionIsReplay'
<1>1. ASSUME NEW k \in Callers, ExecuteAccepted(k)
      PROVE  ProjectionIsReplay'
  BY <1>1, AcceptedKeepsReplay
<1>2. UNCHANGED <<pages, events>> => ProjectionIsReplay'
  BY DEF ProjectionIsReplay
<1>3. QED
  BY <1>1, <1>2
     DEF Next, Execute, Invoke, ExecuteKnown, ExecuteRejected, Fail, LoseReply, Return,
         ResolveOutbox, db, vars

\* Reading the projection and replaying the stream give the same page, whatever the
\* history, and no stream is one that evolve refuses (domain.py replay, memory.py 61-76).
THEOREM ProjectionAlwaysReplays == Spec => []ProjectionIsReplay
<1>1. IInv /\ ProjectionIsReplay /\ [Next]_vars => ProjectionIsReplay'
  BY ReplayStep
<1>2. QED
  BY <1>1, ReplayInit, Invariance, PTL DEF Spec
=============================================================================
