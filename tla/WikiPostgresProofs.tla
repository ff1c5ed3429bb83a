--------------------------- MODULE WikiPostgresProofs ---------------------------
(***************************************************************************)
(* The PostgreSQL adapter implements the wiki store for every set of       *)
(* callers, commands, pages and texts and every size of the pool: its      *)
(* statements meet no conflict behind their locks, its requests never wait *)
(* for each other in a circle, and every COMMIT is one step of the store.  *)
(*                                                                         *)
(* The proof is one induction over both: Safe!IInv, the invariant of the   *)
(* store read through the refinement mapping, and TxInv, what the          *)
(* transactions hold while they run.  TxInv and Safe!IInv make a step of   *)
(* PostgreSQL a step of the store, WikiStoreSafety then gives Safe!IInv'   *)
(* for nothing, and with it TxInv'.                                        *)
(***************************************************************************)
EXTENDS WikiPostgres, TLAPS

CallBar == [k \in Callers |-> Abstract(tx[k])]

Safe == INSTANCE WikiStoreSafety WITH slugToId <- SlugIndex, call <- CallBar

-----------------------------------------------------------------------------
(***************************************************************************)
(* Three copies of the kernel meet here, this module's own and those of    *)
(* the instances Store and Safe.  They are the same.                       *)
(***************************************************************************)
LEMMA SameSets ==
    /\ Safe!PageIds = PageIds /\ Safe!RevisionIds = RevisionIds /\ Safe!Digests = Digests
    /\ Safe!Pages = Pages /\ Safe!Kinds = Kinds /\ Safe!Moderations = Moderations
    /\ Safe!EffectIds = EffectIds /\ Safe!EventIds = EventIds /\ Safe!Events = Events
    /\ Safe!PublicScopes = PublicScopes /\ Safe!ModeratorScopes = ModeratorScopes
    /\ Safe!Commands = Commands /\ Safe!Receipts = Store!Receipts
    /\ Store!PageIds = PageIds /\ Store!EffectIds = EffectIds
<1>1. /\ \A c, purpose : Safe!StableId(c, purpose) = StableId(c, purpose)
      /\ \A c, purpose : Store!StableId(c, purpose) = StableId(c, purpose)
  BY DEF Safe!StableId, Store!StableId, StableId
<1>2. Safe!PageIds = PageIds /\ Safe!RevisionIds = RevisionIds
  BY <1>1 DEF Safe!PageIds, PageIds, Safe!RevisionIds, RevisionIds
<1>3. Store!PageIds = PageIds /\ Store!RevisionIds = RevisionIds
  BY <1>1 DEF Store!PageIds, PageIds, Store!RevisionIds, RevisionIds
<1>4. Safe!Digests = Digests /\ Store!Digests = Digests
  BY DEF Safe!Digests, Store!Digests, Digests, Safe!Digest, Store!Digest, Digest
<1>5. Safe!Pages = Pages
  BY <1>2, <1>4 DEF Safe!Pages, Pages
<1>6. Safe!Kinds = Kinds /\ Safe!Moderations = Moderations
  BY DEF Safe!Kinds, Kinds, Safe!Moderations, Moderations
<1>7. Store!Kinds = Kinds /\ Store!Moderations = Moderations
  BY DEF Store!Kinds, Kinds, Store!Moderations, Moderations
<1>8. Safe!EventPurpose = EventPurpose /\ Store!EventPurpose = EventPurpose
  BY <1>6, <1>7 DEF Safe!EventPurpose, Store!EventPurpose, EventPurpose
<1>9. Safe!EventIds = EventIds /\ Store!EventIds = EventIds
  BY <1>1, <1>6, <1>7, <1>8 DEF Safe!EventIds, Store!EventIds, EventIds
<1>10. Safe!EffectIds = EffectIds /\ Store!EffectIds = EffectIds
  BY <1>1 DEF Safe!EffectIds, Store!EffectIds, EffectIds
<1>11. Safe!Events = Events
  BY <1>2, <1>9 DEF Safe!Events, Events, Safe!EventTypes, EventTypes
<1>12. Safe!PublicScopes = PublicScopes /\ Safe!ModeratorScopes = ModeratorScopes
  BY DEF Safe!PublicScopes, PublicScopes, Safe!ModeratorScopes, ModeratorScopes
<1>13. Safe!Commands = Commands
  BY <1>2, <1>4, <1>6, <1>12 DEF Safe!Commands, Commands
<1>14. Safe!Receipts = Store!Receipts
  BY <1>2, <1>3, <1>4, <1>6, <1>7, <1>9
     DEF Safe!Receipts, Store!Receipts, Safe!Fingerprints, Store!Fingerprints
<1>15. QED
  BY <1>2, <1>3, <1>4, <1>5, <1>6, <1>9, <1>10, <1>11, <1>12, <1>13, <1>14

\* The kernel is the same in every instance: it reads no variable that is substituted.
LEMMA SameDecisions ==
    /\ \A s, c : Safe!Verdict(s, c) = Verdict(s, c) /\ Store!Verdict(s, c) = Verdict(s, c)
    /\ \A s, c, i : /\ Safe!EventOf(s, c, i) = EventOf(s, c, i)
                    /\ Store!EventOf(s, c, i) = EventOf(s, c, i)
    /\ \A s, e : Safe!Evolve(s, e) = Evolve(s, e) /\ Store!Evolve(s, e) = Evolve(s, e)
    /\ \A c : Safe!EffectsOf(c) = EffectsOf(c) /\ Store!EffectsOf(c) = EffectsOf(c)
    /\ \A c : Safe!Fingerprint(c) = Fingerprint(c) /\ Store!Fingerprint(c) = Fingerprint(c)
    /\ \A c, purpose : Safe!StableId(c, purpose) = StableId(c, purpose)
<1>1. Safe!RequiredScope = RequiredScope /\ Store!RequiredScope = RequiredScope
  BY DEF Safe!RequiredScope, RequiredScope, Safe!Kinds, Kinds, Safe!Moderations, Moderations,
         Store!RequiredScope, Store!Kinds, Store!Moderations
<1>2. \A s, c : Safe!Verdict(s, c) = Verdict(s, c)
  BY <1>1 DEF Safe!Verdict, Verdict, Safe!OutOfScope, OutOfScope,
     Safe!SelfModeration, SelfModeration, Safe!Hidden, Hidden, Safe!HeadConflict, HeadConflict,
     Safe!HashConflict, HashConflict, Safe!AlreadySubmitted, AlreadySubmitted,
     Safe!Moderations, Moderations
<1>3. \A s, c : Store!Verdict(s, c) = Verdict(s, c)
  BY <1>1 DEF Store!Verdict, Verdict, Store!OutOfScope, OutOfScope,
     Store!SelfModeration, SelfModeration, Store!Hidden, Hidden, Store!HeadConflict, HeadConflict,
     Store!HashConflict, HashConflict, Store!AlreadySubmitted, AlreadySubmitted,
     Store!Moderations, Moderations
<1>4. /\ Safe!EventPurpose = EventPurpose /\ Safe!EventType = EventType
      /\ Store!EventPurpose = EventPurpose /\ Store!EventType = EventType
  BY DEF Safe!EventPurpose, EventPurpose, Safe!EventType, EventType,
         Safe!Kinds, Kinds, Safe!Moderations, Moderations,
         Store!EventPurpose, Store!EventType, Store!Kinds, Store!Moderations
<1>5. /\ \A c, purpose : Safe!StableId(c, purpose) = StableId(c, purpose)
      /\ \A c, purpose : Store!StableId(c, purpose) = StableId(c, purpose)
  BY DEF Safe!StableId, Store!StableId, StableId
<1>6. \A s, c, i : /\ Safe!EventOf(s, c, i) = EventOf(s, c, i)
                   /\ Store!EventOf(s, c, i) = EventOf(s, c, i)
  BY <1>4, <1>5 DEF Safe!EventOf, EventOf, Safe!EventRevision, EventRevision,
                    Store!EventOf, Store!EventRevision
<1>7. \A s, e : Safe!Evolve(s, e) = Evolve(s, e)
  BY DEF Safe!Evolve, Evolve, Safe!NewPage, NewPage, Safe!Revised, Revised, Safe!Bumped, Bumped,
         Safe!Digest, Digest
<1>8. \A s, e : Store!Evolve(s, e) = Evolve(s, e)
  BY DEF Store!Evolve, Evolve, Store!NewPage, NewPage, Store!Revised, Revised,
         Store!Bumped, Bumped, Store!Digest, Digest
<1>9. \A c : Safe!EffectsOf(c) = EffectsOf(c) /\ Store!EffectsOf(c) = EffectsOf(c)
  BY <1>5 DEF Safe!EffectsOf, Store!EffectsOf, EffectsOf
<1>10. \A c : Safe!Fingerprint(c) = Fingerprint(c) /\ Store!Fingerprint(c) = Fingerprint(c)
  BY DEF Safe!Fingerprint, Store!Fingerprint, Fingerprint
<1>11. QED
  BY <1>2, <1>3, <1>5, <1>6, <1>7, <1>8, <1>9, <1>10

\* The assumptions under which WikiStoreSafety proves its lemmas hold here too.
LEMMA StoreAssumptions ==
    /\ None \notin CommandIds \cup Actors \cup Slugs \cup Titles \cup Texts \cup Notes
    /\ None \notin Safe!PageIds \cup Safe!RevisionIds \cup Safe!Digests
    /\ None \notin Safe!Pages
    /\ Principals \subseteq Actors \X {Safe!PublicScopes, Safe!ModeratorScopes}
    /\ None \notin Safe!Receipts
BY SameSets, NoneIsFresh, PrincipalsAreActors, NoneIsNoReceipt

\* Answers and requests are the same, ...
LEMMA SameCalls ==
    /\ \A r : Store!Committed(r) = Safe!Committed(r) /\ Store!Replayed(r) = Safe!Replayed(r)
    /\ \A e : Store!Rejected(e) = Safe!Rejected(e)
    /\ Store!Unavailable = Safe!Unavailable
    /\ \A c : Store!Pending(c) = Safe!Pending(c)
    /\ \A c, r : Store!Done(c, r) = Safe!Done(c, r)
    /\ Store!Idle = Safe!Idle
    /\ \A id, who : Store!Requests(id, who) = Safe!Requests(id, who)
BY DEF Store!Committed, Safe!Committed, Store!Replayed, Safe!Replayed, Store!Rejected, Safe!Rejected,
       Store!Unavailable, Safe!Unavailable, Store!Requests, Safe!Requests,
       Store!Pending, Safe!Pending, Store!Done, Safe!Done, Store!Idle, Safe!Idle,
       Store!CreateCommands, Safe!CreateCommands, Store!PageCommands, Safe!PageCommands,
       Store!EditCommands, Safe!EditCommands, Store!ReportCommands, Safe!ReportCommands,
       Store!ExactRevisionCommands, Safe!ExactRevisionCommands,
       Store!Moderations, Safe!Moderations, Store!StableId, Safe!StableId,
       Store!PageIds, Safe!PageIds, Store!RevisionIds, Safe!RevisionIds,
       Store!Digests, Safe!Digests, Store!Digest, Safe!Digest

\* ... and so is the store that the two instances specify.
LEMMA SameInit == Safe!Init <=> Store!Init
BY SameSets, SameCalls DEF Safe!Init, Store!Init, CallBar

\* The instance the invariant is stated with and the one the property names take the same steps.
LEMMA SameStep == [Safe!Next]_(Safe!vars) => [Store!Next]_(Store!vars)
<1>1. ASSUME NEW k \in Callers, Safe!Invoke(k)
      PROVE  Store!Invoke(k)
  BY <1>1, SameCalls DEF Safe!Invoke, Store!Invoke, Safe!db, Store!db, CallBar
<1>2. ASSUME NEW k \in Callers, Safe!ExecuteKnown(k)
      PROVE  Store!ExecuteKnown(k)
  BY <1>2, SameCalls, SameDecisions
     DEF Safe!ExecuteKnown, Store!ExecuteKnown, Safe!db, Store!db, CallBar,
         Safe!Known, Store!Known, Safe!SameIntent, Store!SameIntent
<1>3. ASSUME NEW k \in Callers, Safe!ExecuteRejected(k)
      PROVE  Store!ExecuteRejected(k)
  BY <1>3, SameCalls, SameDecisions
     DEF Safe!ExecuteRejected, Store!ExecuteRejected, Safe!db, Store!db, CallBar,
         Safe!Known, Store!Known, Safe!SlugTaken, Store!SlugTaken, Safe!StateFor, Store!StateFor
<1>4. ASSUME NEW k \in Callers, Safe!ExecuteAccepted(k)
      PROVE  Store!ExecuteAccepted(k)
  <2>1. \A c : /\ Safe!StateFor(c) = Store!StateFor(c)
               /\ Safe!EventFor(c) = Store!EventFor(c)
               /\ Safe!PageAfter(c) = Store!PageAfter(c)
               /\ Safe!OutboxAfter(c) = Store!OutboxAfter(c)
               /\ Safe!ReceiptFor(c) = Store!ReceiptFor(c)
    BY SameDecisions, SameSets
       DEF Safe!StateFor, Store!StateFor, Safe!EventFor, Store!EventFor, Safe!PageAfter,
           Store!PageAfter, Safe!OutboxAfter, Store!OutboxAfter, Safe!ReceiptFor, Store!ReceiptFor
  <2>2. QED
    BY <1>4, <2>1, SameCalls, SameDecisions
       DEF Safe!ExecuteAccepted, Store!ExecuteAccepted, CallBar, Safe!Known, Store!Known,
           Safe!SlugTaken, Store!SlugTaken
<1>5. ASSUME NEW k \in Callers, Safe!Fail(k)
      PROVE  Store!Fail(k)
  BY <1>5, SameCalls DEF Safe!Fail, Store!Fail, Safe!db, Store!db, CallBar
<1>6. ASSUME NEW k \in Callers, Safe!LoseReply(k)
      PROVE  Store!LoseReply(k)
  BY <1>6, SameCalls DEF Safe!LoseReply, Store!LoseReply, Safe!db, Store!db, CallBar
<1>7. ASSUME NEW k \in Callers, Safe!Return(k)
      PROVE  Store!Return(k)
  BY <1>7, SameCalls DEF Safe!Return, Store!Return, Safe!db, Store!db, CallBar
<1>8. ASSUME NEW e \in Safe!EffectIds, Safe!ResolveOutbox(e)
      PROVE  e \in Store!EffectIds /\ Store!ResolveOutbox(e)
  BY <1>8, SameSets DEF Safe!ResolveOutbox, Store!ResolveOutbox, CallBar
<1>9. UNCHANGED Safe!vars => UNCHANGED Store!vars
  BY DEF Safe!vars, Store!vars, CallBar
<1>10. QED
  BY <1>1, <1>2, <1>3, <1>4, <1>5, <1>6, <1>7, <1>8, <1>9
     DEF Safe!Next, Store!Next, Safe!Execute, Store!Execute

-----------------------------------------------------------------------------
(***************************************************************************)
(* What a transaction holds while it runs.                                 *)
(***************************************************************************)

\* The command id of a transaction is its own from the moment it has the advisory
\* lock.  One that was cut short may have been cut short while it waited for it.
HoldsCommand(k) ==
    \/ tx[k].pc \in Open \ {"lock", "abort"}
    \/ tx[k].pc = "abort" /\ tx[k].reply # Store!Unavailable

\* It has decided, and is writing.
Writing(k) == tx[k].pc = "event" \/ k \in EventWriters

\* What the decision was made on is still there: the row it read, for a new page
\* no row at all, and no receipt.
DecisionStands(k) ==
    LET c == tx[k].command
    IN  /\ receipts[c.id] = None
        /\ Verdict(tx[k].row, c) = "accepted"
        /\ c.kind = "CreatePage" => tx[k].row = None
        /\ c.kind # "CreatePage" => tx[k].row = pages[c.page] /\ tx[k].locked = c.page

\* A transaction that is about to commit answers what it wrote, or the receipt that
\* it found.
CommitStands(k) ==
    LET c == tx[k].command
    IN  \/ /\ tx[k].reply.code = "committed"
           /\ tx[k].reply = Store!Committed(ReceiptFor(k))
        \/ /\ tx[k].reply = Store!Replayed(receipts[c.id])
           /\ receipts[c.id] # None /\ SameIntent(receipts[c.id], c)

\* One that is about to roll back refuses for a reason that still holds.
AbortStands(k) ==
    LET c == tx[k].command
    IN  \/ tx[k].reply = Store!Unavailable
        \/ /\ tx[k].reply = Store!Rejected("idempotency_conflict")
           /\ receipts[c.id] # None /\ ~SameIntent(receipts[c.id], c)
        \/ /\ tx[k].reply = Store!Rejected("slug_taken")
           /\ receipts[c.id] = None
           /\ c.kind = "CreatePage" /\ SlugIndex[c.slug] # None
        \/ /\ c.kind # "CreatePage"
           /\ receipts[c.id] = None
           /\ tx[k].locked = c.page
           /\ Verdict(pages[c.page], c) # "accepted"
           /\ tx[k].reply = Store!Rejected(Verdict(pages[c.page], c))

TxOK(k) ==
    LET c == tx[k].command
    IN  /\ tx[k].pc \in Open \cup {"idle", "pool", "reply"}
        /\ tx[k].pc \in Open \cup {"pool"} =>
             /\ c.kind = "CreatePage" => "wiki:edit" \in c.scopes
             /\ c.kind # "CreatePage" => pages[c.page] # None
        /\ tx[k].locked # None => tx[k].pc \in {"event", "page", "effects", "commit", "abort"}
        /\ tx[k].pc \in {"pool", "lock", "receipt", "row"} => tx[k].row = None
        /\ tx[k].pc = "row" => receipts[c.id] = None
        /\ Writing(k) => DecisionStands(k)
        /\ k \in PageCreators => SlugIndex[c.slug] = None
        /\ tx[k].pc = "commit" => CommitStands(k)
        /\ tx[k].pc = "abort" => AbortStands(k)

\* Two transactions share no command id, no row and no new slug.
Apart(j, k) ==
    /\ HoldsCommand(j) /\ HoldsCommand(k) => tx[j].command.id # tx[k].command.id
    /\ tx[j].locked # None => tx[j].locked # tx[k].locked
    /\ j \in PageCreators /\ k \in PageCreators => tx[j].command.slug # tx[k].command.slug

\* What a derived id may be for, besides a page's.
Purposes == {"revision", "moderation", "submission", "report"}

\* An event says where it is and which command it comes from.
EventsSayWhere ==
    \A p \in PageIds : \A i \in 1..Len(events[p]) :
       /\ events[p][i].page = p
       /\ events[p][i].index = i
       /\ \E purpose \in Purposes : events[p][i].id = StableId(events[p][i].command, purpose)

Fields(t) ==
    [pc |-> t.pc, command |-> t.command, row |-> t.row, locked |-> t.locked,
     reply |-> t.reply, gone |-> t.gone]

TxInv ==
    /\ tx = [k \in Callers |-> Fields(tx[k])]
    /\ \A k \in Callers : TxOK(k)
    /\ \A j, k \in Callers : j # k => Apart(j, k)
    /\ EventsSayWhere

IInv == TxInv /\ Safe!IInv
-----------------------------------------------------------------------------
(***************************************************************************)
(* What the invariant says of the database and of a request.               *)
(***************************************************************************)
LEMMA StoreShape ==
    ASSUME Safe!IInv
    PROVE  /\ pages \in [PageIds -> Pages \cup {None}]
           /\ events \in [PageIds -> Seq(Events)]
           /\ receipts \in [CommandIds -> Store!Receipts \cup {None}]
           /\ outbox \in [EffectIds -> {"absent", "pending", "delivered"}]
           /\ SlugIndex \in [Slugs -> PageIds \cup {None}]
BY SameSets DEF Safe!IInv, Safe!Typed, Safe!TypeOK

\* What a running transaction's command is made of.
LEMMA CommandShape ==
    ASSUME Safe!IInv, NEW k \in Callers, tx[k].pc # "idle"
    PROVE  LET c == tx[k].command
           IN  /\ c.id \in CommandIds /\ c.page \in PageIds /\ c.kind \in Kinds
               /\ c.kind = "CreatePage" => c.page = StableId(c.id, "page") /\ c.slug \in Slugs
<1>1. CallBar[k].state # "idle" /\ CallBar[k].command = tx[k].command
  BY DEF CallBar, Abstract
<1>2. Safe!WellFormed(tx[k].command)
  BY <1>1 DEF Safe!IInv, Safe!Typed, Safe!WellFormedCalls
<1>3. QED
  BY <1>2, SameSets, SameDecisions DEF Safe!WellFormed, Commands

\* The slug column's unique index is the in-memory store's slug index.
LEMMA SlugFacts ==
    ASSUME Safe!IInv, NEW s \in Slugs
    PROVE  /\ SlugIndex[s] \in PageIds \cup {None}
           /\ \A p \in PageIds : SlugIndex[s] = p <=> (pages[p] # None /\ pages[p].slug = s)
           /\ SlugIndex[s] = None <=> ~\E p \in PageIds : pages[p] # None /\ pages[p].slug = s
<1>1. \A p \in PageIds : SlugIndex[s] = p <=> (pages[p] # None /\ pages[p].slug = s)
  BY SameSets DEF Safe!IInv, Safe!SlugsAreUnique
<1>2. SlugIndex[s] \in PageIds \cup {None}
  BY StoreShape
<1>3. QED
  BY <1>1, <1>2, NoneIsFresh

\* A page that a create could collide with does not exist while its command has no
\* receipt.
LEMMA NewPageIsFree ==
    ASSUME Safe!IInv, NEW id \in CommandIds, receipts[id] = None
    PROVE  pages[StableId(id, "page")] = None
BY SameDecisions DEF Safe!IInv, Safe!PagesHaveReceipts

\* A command whose event is stored has its receipt: both are written by one commit.
LEMMA EventsOfKnownCommands ==
    ASSUME Safe!IInv, NEW p \in PageIds, NEW i \in 1..Len(events[p])
    PROVE  receipts[events[p][i].command] # None
<1>1. events[p] \in Seq(Events)
  BY StoreShape
<1>2. events[p][i] \in Events
  BY <1>1
<1>3. events[p][i].command \in CommandIds
  BY <1>2 DEF Events
<1>4. QED
  BY <1>3, SameSets DEF Safe!IInv, Safe!EffectOncePerCommand

-----------------------------------------------------------------------------
(***************************************************************************)
(* What a writing transaction writes.                                      *)
(***************************************************************************)
LEMMA WriterFacts ==
    ASSUME IInv, NEW k \in Callers, Writing(k)
    PROVE  LET c == tx[k].command
           IN  /\ tx[k].pc \in {"event", "page", "effects", "commit"}
               /\ HoldsCommand(k)
               /\ c.id \in CommandIds /\ c.page \in PageIds /\ c.kind \in Kinds
               /\ receipts[c.id] = None
               /\ c.kind = "CreatePage" => /\ c.page = StableId(c.id, "page")
                                           /\ c.slug \in Slugs
                                           /\ pages[c.page] = None
               /\ c.kind # "CreatePage" => /\ pages[c.page] # None
                                           /\ tx[k].locked = c.page
               /\ tx[k].row = pages[c.page]
               /\ Version(k) = Len(events[c.page])
               /\ Verdict(pages[c.page], c) = "accepted"
<1> DEFINE c == tx[k].command
<1>1. tx[k].pc \in {"event", "page", "effects", "commit"} /\ TxOK(k)
  BY DEF Writing, EventWriters, IInv, TxInv
<1>2. HoldsCommand(k)
  BY <1>1 DEF HoldsCommand, Open, Statements
<1>3. /\ c.id \in CommandIds /\ c.page \in PageIds /\ c.kind \in Kinds
      /\ c.kind = "CreatePage" => c.page = StableId(c.id, "page") /\ c.slug \in Slugs
  BY <1>1, CommandShape DEF IInv
<1>4. DecisionStands(k)
  BY <1>1 DEF TxOK
<1>5. /\ c.kind = "CreatePage" => pages[c.page] = None
      /\ c.kind # "CreatePage" => pages[c.page] # None /\ tx[k].locked = c.page
      /\ tx[k].row = pages[c.page]
  BY <1>3, <1>4, NewPageIsFree DEF DecisionStands, Verdict, IInv
<1>6. /\ pages[c.page] = None => Len(events[c.page]) = 0
      /\ pages[c.page] # None => pages[c.page].version = Len(events[c.page])
  BY <1>3, SameSets DEF IInv, Safe!IInv, Safe!VersionsCount
<1>7. QED
  BY <1>1, <1>2, <1>3, <1>4, <1>5, <1>6 DEF DecisionStands, Version

\* The event a transaction is about to insert collides with none in the table, ...
LEMMA NoEventKeyTaken ==
    ASSUME IInv, NEW k \in Callers, Writing(k)
    PROVE  ~EventKeyTaken(k)
<1> DEFINE c == tx[k].command
<1>1. /\ c.id \in CommandIds /\ c.page \in PageIds
      /\ receipts[c.id] = None
      /\ Version(k) = Len(events[c.page])
  BY WriterFacts
<1>2. /\ EventFor(k).id = <<c.id, EventPurpose[c.kind]>>
      /\ EventFor(k).page = c.page
      /\ EventFor(k).index = Len(events[c.page]) + 1
  BY <1>1 DEF EventFor, EventOf, StableId
<1>3. ASSUME NEW p \in PageIds, NEW i \in 1..Len(events[p])
      PROVE  ~SameEventKey(events[p][i], EventFor(k))
  <2>1. /\ events[p][i].page = p
        /\ events[p][i].index = i
        /\ \E purpose \in Purposes : events[p][i].id = <<events[p][i].command, purpose>>
    BY DEF IInv, TxInv, EventsSayWhere, StableId
  <2>2. receipts[events[p][i].command] # None
    BY EventsOfKnownCommands DEF IInv
  <2>3. events[p][i].id # EventFor(k).id
    BY <1>1, <1>2, <2>1, <2>2
  <2>4. ~(p = c.page /\ i = Len(events[c.page]) + 1)
    BY <1>1, StoreShape DEF IInv
  <2>5. QED
    BY <1>2, <2>1, <2>3, <2>4 DEF SameEventKey
<1>4. QED
  BY <1>3 DEF EventKeyTaken

\* ... nor with the event of another open transaction.
LEMMA WritersApart ==
    ASSUME IInv, NEW j \in Callers, NEW k \in Callers, j # k, Writing(j), Writing(k)
    PROVE  /\ tx[j].command.id # tx[k].command.id
           /\ tx[j].command.page # tx[k].command.page
           /\ ~SameEventKey(EventFor(j), EventFor(k))
<1>1. Apart(j, k)
  BY DEF IInv, TxInv
<1>2. tx[j].command.id # tx[k].command.id
  BY <1>1, WriterFacts DEF Apart
<1>3. tx[j].command.page # tx[k].command.page
  <2>1. ASSUME tx[j].command.page = tx[k].command.page
        PROVE  FALSE
    <3>1. CASE tx[j].command.kind = "CreatePage" /\ tx[k].command.kind = "CreatePage"
      BY <1>2, <2>1, <3>1, WriterFacts DEF StableId
    <3>2. CASE tx[j].command.kind # "CreatePage" /\ tx[k].command.kind # "CreatePage"
      BY <1>1, <2>1, <3>2, WriterFacts, NoneIsFresh DEF Apart
    <3>3. CASE tx[j].command.kind # "CreatePage" /\ tx[k].command.kind = "CreatePage"
      BY <2>1, <3>3, WriterFacts
    <3>4. CASE tx[j].command.kind = "CreatePage" /\ tx[k].command.kind # "CreatePage"
      BY <2>1, <3>4, WriterFacts
    <3>5. QED
      BY <3>1, <3>2, <3>3, <3>4
  <2>2. QED
    BY <2>1
<1>4. /\ EventFor(j).id = <<tx[j].command.id, EventPurpose[tx[j].command.kind]>>
      /\ EventFor(k).id = <<tx[k].command.id, EventPurpose[tx[k].command.kind]>>
      /\ EventFor(j).page = tx[j].command.page
      /\ EventFor(k).page = tx[k].command.page
  BY DEF EventFor, EventOf, StableId
<1>5. QED
  BY <1>2, <1>3, <1>4 DEF SameEventKey
-----------------------------------------------------------------------------
(***************************************************************************)
(* The two invariants the runs check follow from IInv.                     *)
(***************************************************************************)
LEMMA NoConflict ==
    ASSUME IInv
    PROVE  NoConflictBehindLocks
<1>1. ASSUME NEW k \in Callers, tx[k].pc = "event"
      PROVE  ~EventKeyTaken(k) /\ Blockers(k) = {}
  <2>1. Writing(k)
    BY <1>1 DEF Writing
  <2>2. \A j \in EventWriters \ {k} : Writing(j) /\ j \in Callers
    BY DEF Writing, EventWriters
  <2>3. \A j \in EventWriters \ {k} : ~SameEventKey(EventFor(j), EventFor(k))
    BY <2>1, <2>2, WritersApart
  <2>4. Blockers(k) = {j \in EventWriters \ {k} : SameEventKey(EventFor(j), EventFor(k))}
    BY <1>1 DEF Blockers
  <2>5. QED
    BY <2>1, <2>3, <2>4, NoEventKeyTaken
<1>2. ASSUME NEW k \in Callers, tx[k].pc \in {"page", "effects"}
      PROVE  /\ tx[k].command.kind = "CreatePage" => pages[tx[k].command.page] = None
             /\ pages[tx[k].command.page] = tx[k].row
             /\ receipts[tx[k].command.id] = None
  <2>1. Writing(k)
    BY <1>2 DEF Writing, EventWriters
  <2>2. QED
    BY <2>1, WriterFacts
<1>3. QED
  BY <1>1, <1>2 DEF NoConflictBehindLocks

\* The order in which a request takes what it needs: connection, command id, row or
\* slug.  Whoever of S is furthest waits for nobody in S.
LEMMA NobodyWaitsInACircle ==
    ASSUME IInv
    PROVE  NoDeadlock
<1> SUFFICES ASSUME NEW S \in (SUBSET Callers) \ {{}}
             PROVE  \E k \in S :
                       IF tx[k].pc = "pool" THEN Blockers(k) = {} \/ ~(Blockers(k) \subseteq S)
                       ELSE Blockers(k) \cap S = {}
  BY DEF NoDeadlock
<1>1. CASE \E k \in S : tx[k].pc \notin {"pool", "lock", "row", "event", "page"}
  <2>1. PICK k \in S : tx[k].pc \notin {"pool", "lock", "row", "event", "page"}
    BY <1>1
  <2>2. Blockers(k) = {}
    BY <2>1 DEF Blockers
  <2>3. QED
    BY <2>1, <2>2
<1>2. CASE \E k \in S : tx[k].pc = "event"
  BY <1>2, NoConflict DEF NoConflictBehindLocks
<1>3. CASE /\ \A j \in S : tx[j].pc \in {"pool", "lock", "row", "page"}
           /\ \E k \in S : tx[k].pc = "page"
  <2>1. PICK k \in S : tx[k].pc = "page"
    BY <1>3
  <2>2. CASE tx[k].command.kind = "CreatePage"
    <3>1. Blockers(k) \subseteq PageCreators
      BY <2>1, <2>2 DEF Blockers
    <3>2. \A j \in PageCreators : tx[j].pc \in {"effects", "commit"}
      BY DEF PageCreators, EventWriters
    <3>3. QED
      BY <1>3, <2>1, <3>1, <3>2
  <2>3. CASE tx[k].command.kind # "CreatePage"
    <3>1. Blockers(k) = RowLocks(tx[k].command.page) \ {k}
      BY <2>1, <2>3 DEF Blockers
    <3>2. /\ tx[k].locked = tx[k].command.page
          /\ tx[k].locked # None
      BY <2>1, <2>3, WriterFacts, NoneIsFresh DEF Writing, EventWriters
    <3>3. \A j \in Callers \ {k} : tx[j].locked # tx[k].locked
      BY <3>2 DEF IInv, TxInv, Apart
    <3>4. Blockers(k) = {}
      BY <3>1, <3>2, <3>3 DEF RowLocks
    <3>5. QED
      BY <2>1, <3>4
  <2>4. QED
    BY <2>2, <2>3
<1>4. CASE /\ \A j \in S : tx[j].pc \in {"pool", "lock", "row"}
           /\ \E k \in S : tx[k].pc = "row"
  <2>1. PICK k \in S : tx[k].pc = "row"
    BY <1>4
  <2>2. \A j \in Blockers(k) : j \in Callers /\ tx[j].locked # None
    BY <2>1 DEF Blockers, RowLocks
  <2>3. \A j \in Blockers(k) : tx[j].pc \in {"event", "page", "effects", "commit", "abort"}
    BY <2>2 DEF IInv, TxInv, TxOK
  <2>4. QED
    BY <1>4, <2>1, <2>3
<1>5. CASE /\ \A j \in S : tx[j].pc \in {"pool", "lock"}
           /\ \E k \in S : tx[k].pc = "lock"
  <2>1. PICK k \in S : tx[k].pc = "lock"
    BY <1>5
  <2>2. \A j \in Blockers(k) : tx[j].pc \in Open \ {"lock"}
    BY <2>1 DEF Blockers, CommandLocks
  <2>3. QED
    BY <1>5, <2>1, <2>2 DEF Open, Statements
<1>6. CASE \A j \in S : tx[j].pc = "pool"
  <2>1. PICK k \in S : TRUE
    OBVIOUS
  <2>2. Blockers(k) \in {{}, PoolUsers}
    BY <1>6, <2>1 DEF Blockers
  <2>3. \A j \in PoolUsers : tx[j].pc \in Open
    BY DEF PoolUsers
  <2>4. Blockers(k) = {} \/ ~(Blockers(k) \subseteq S)
    BY <1>6, <2>2, <2>3 DEF Open, Statements
  <2>5. QED
    BY <1>6, <2>1, <2>4
<1>7. QED
  BY <1>1, <1>2, <1>3, <1>4, <1>5, <1>6

-----------------------------------------------------------------------------
(***************************************************************************)
(* Steps that touch one transaction and not the database.                  *)
(***************************************************************************)
LEMMA OneTxMoves ==
    ASSUME TxInv, NEW k \in Callers, NEW t, t = Fields(t), Set(k, t), UNCHANGED shared,
           TxOK(k)', \A j \in Callers \ {k} : Apart(j, k)' /\ Apart(k, j)'
    PROVE  TxInv'
<1>1. /\ tx' = [tx EXCEPT ![k] = t]
      /\ pages' = pages /\ events' = events /\ receipts' = receipts
  BY DEF Set, shared
<1>2. tx'[k] = t /\ \A j \in Callers : j # k => tx'[j] = tx[j]
  BY <1>1 DEF TxInv
<1>3. tx' = [j \in Callers |-> Fields(tx'[j])]
  <2>1. DOMAIN tx = Callers /\ \A j \in Callers : tx[j] = Fields(tx[j])
    BY DEF TxInv
  <2>2. \A j \in Callers : tx'[j] = Fields(tx'[j])
    BY <1>2, <2>1
  <2>3. tx' = [j \in Callers |-> tx'[j]]
    BY <1>1, <2>1
  <2>4. QED
    BY <2>2, <2>3
<1>4. ASSUME NEW j \in Callers, j # k
      PROVE  /\ tx'[j] = tx[j]
             /\ (j \in EventWriters)' <=> j \in EventWriters
             /\ (j \in PageCreators)' <=> j \in PageCreators
             /\ HoldsCommand(j)' <=> HoldsCommand(j)
             /\ TxOK(j)'
  <2>1. tx'[j] = tx[j]
    BY <1>2, <1>4
  <2>2. (j \in EventWriters)' <=> j \in EventWriters
    BY <2>1 DEF EventWriters
  <2>3. (j \in PageCreators)' <=> j \in PageCreators
    BY <2>1, <2>2 DEF PageCreators
  <2>4. HoldsCommand(j)' <=> HoldsCommand(j)
    BY <2>1 DEF HoldsCommand, Store!Unavailable, Store!Rejected
  <2>5. SlugIndex' = SlugIndex
    BY <1>1 DEF SlugIndex
  <2>6. Writing(j)' <=> Writing(j)
    BY <2>1, <2>2 DEF Writing
  <2>7. /\ DecisionStands(j)' <=> DecisionStands(j)
        /\ CommitStands(j)' <=> CommitStands(j)
    BY <1>1, <2>1 DEF DecisionStands, CommitStands, ReceiptFor, PageFor, EventFor, Version,
       Store!Committed, Store!Replayed, SameIntent
  <2>8. AbortStands(j)' <=> AbortStands(j)
    BY <1>1, <2>1, <2>5 DEF AbortStands, SameIntent, Store!Unavailable, Store!Rejected
  <2>9. TxOK(j)
    BY DEF TxInv
  <2>10. TxOK(j)'
    BY <1>1, <2>1, <2>3, <2>5, <2>6, <2>7, <2>8, <2>9 DEF TxOK
  <2>11. QED
    BY <2>1, <2>2, <2>3, <2>4, <2>10
<1>5. ASSUME NEW i \in Callers, NEW j \in Callers, i # j
      PROVE  Apart(i, j)'
  <2>1. CASE i = k \/ j = k
    BY <1>5, <2>1
  <2>2. CASE i # k /\ j # k
    BY <1>4, <1>5, <2>2 DEF TxInv, Apart
  <2>3. QED
    BY <2>1, <2>2
<1>6. EventsSayWhere'
  BY <1>1 DEF TxInv, EventsSayWhere
<1>7. TxOK(k)'
  OBVIOUS
<1>8. \A j \in Callers : TxOK(j)'
  BY <1>4, <1>7
<1>9. QED
  BY <1>3, <1>5, <1>6, <1>8 DEF TxInv

\* A transaction that takes no lock and starts no page stays apart from the others.
LEMMA NothingTaken ==
    ASSUME TxInv, NEW k \in Callers, NEW t, Set(k, t),
           HoldsCommand(k)' => HoldsCommand(k) /\ t.command = tx[k].command,
           t.locked \in {None, tx[k].locked},
           (k \in PageCreators)' => k \in PageCreators /\ t.command = tx[k].command
    PROVE  \A j \in Callers \ {k} : Apart(j, k)' /\ Apart(k, j)'
<1> TAKE j \in Callers \ {k}
<1>1. tx'[k] = t /\ tx'[j] = tx[j]
  BY DEF Set, TxInv
<1>2. HoldsCommand(j)' <=> HoldsCommand(j)
  BY <1>1 DEF HoldsCommand, Store!Unavailable, Store!Rejected
<1>3. (j \in PageCreators)' <=> j \in PageCreators
  BY <1>1 DEF PageCreators, EventWriters
<1>4. Apart(j, k) /\ Apart(k, j)
  BY DEF TxInv
<1>5. QED
  BY <1>1, <1>2, <1>3, <1>4 DEF Apart

\* Such a step is one of the store, or none.
LEMMA OneCallMoves ==
    ASSUME TxInv, NEW k \in Callers, NEW t, Set(k, t), UNCHANGED shared
    PROVE  /\ CallBar' = [CallBar EXCEPT ![k] = Abstract(t)]
           /\ UNCHANGED Safe!db
           /\ Abstract(t) = Abstract(tx[k]) => UNCHANGED Safe!vars
<1>1. /\ tx' = [tx EXCEPT ![k] = t]
      /\ tx'[k] = t /\ \A j \in Callers : j # k => tx'[j] = tx[j]
      /\ pages' = pages /\ events' = events /\ receipts' = receipts /\ outbox' = outbox
  BY DEF Set, TxInv, shared
<1>2. CallBar' = [CallBar EXCEPT ![k] = Abstract(t)]
  <2>1. /\ CallBar = [j \in Callers |-> Abstract(tx[j])]
        /\ CallBar' = [j \in Callers |-> Abstract(tx'[j])]
    BY DEF CallBar, Abstract
  <2>2. \A j \in Callers : Abstract(tx'[j]) = IF j = k THEN Abstract(t) ELSE Abstract(tx[j])
    BY <1>1
  <2>3. QED
    BY <2>1, <2>2
<1>3. SlugIndex' = SlugIndex
  BY <1>1 DEF SlugIndex
<1>4. Abstract(t) = Abstract(tx[k]) => CallBar' = CallBar
  BY <1>2 DEF CallBar
<1>5. QED
  BY <1>1, <1>2, <1>3, <1>4 DEF Safe!db, Safe!vars
\* The two facts together, in the form in which the actions below use them.
LEMMA QuietStep ==
    ASSUME IInv, NEW k \in Callers, NEW t, t = Fields(t), Set(k, t), UNCHANGED shared,
           Abstract(t) = Abstract(tx[k]),
           TxOK(k)', \A j \in Callers \ {k} : Apart(j, k)' /\ Apart(k, j)'
    PROVE  TxInv' /\ UNCHANGED Safe!vars
BY OneTxMoves, OneCallMoves DEF IInv

\* A statement moves its own transaction and no other.
LEMMA SetTx ==
    ASSUME TxInv, NEW k \in Callers, NEW t, Set(k, t)
    PROVE  /\ tx'[k] = t
           /\ \A j \in Callers \ {k} : tx'[j] = tx[j]
           /\ tx[k] = Fields(tx[k])
           /\ TxOK(k)
BY DEF TxInv, Set

\* Before it has read its row a transaction holds no row and has decided nothing.
LEMMA BeforeTheRow ==
    ASSUME NEW k \in Callers, UNCHANGED shared,
           tx'[k].pc \in {"pool", "lock", "receipt", "row"},
           tx'[k].row = None, tx'[k].locked = None,
           tx'[k].command.kind = "CreatePage" => "wiki:edit" \in tx'[k].command.scopes,
           tx'[k].command.kind # "CreatePage" => pages[tx'[k].command.page] # None,
           tx'[k].pc = "row" => receipts[tx'[k].command.id] = None
    PROVE  TxOK(k)' /\ ~(k \in PageCreators)'
<1>1. ~Writing(k)' /\ ~(k \in PageCreators)'
  BY DEF Writing, PageCreators, EventWriters
<1>2. pages' = pages /\ receipts' = receipts
  BY DEF shared
<1>3. QED
  BY <1>1, <1>2 DEF TxOK, Open, Statements

\* A step that leaves pages, events, receipts and transactions leaves what they know.
LEMMA NothingMoves ==
    ASSUME TxInv, pages' = pages, events' = events, receipts' = receipts, tx' = tx
    PROVE  TxInv'
<1>1. SlugIndex' = SlugIndex
  BY DEF SlugIndex
<1>2. EventWriters' = EventWriters /\ PageCreators' = PageCreators
  BY DEF EventWriters, PageCreators
<1>3. ASSUME NEW k \in Callers
      PROVE  TxOK(k)'
  <2>1. TxOK(k)
    BY DEF TxInv
  <2>2. Writing(k)' <=> Writing(k)
    BY <1>2 DEF Writing
  <2>3. DecisionStands(k) => DecisionStands(k)'
    BY DEF DecisionStands
  <2>4. ReceiptFor(k)' = ReceiptFor(k)
    BY DEF ReceiptFor, PageFor, EventFor, Version
  <2>5. CommitStands(k) => CommitStands(k)'
    BY <2>4 DEF CommitStands
  <2>6. AbortStands(k) => AbortStands(k)'
    BY <1>1 DEF AbortStands
  <2>7. QED
    BY <1>1, <1>2, <2>1, <2>2, <2>3, <2>5, <2>6 DEF TxOK
<1>4. ASSUME NEW j \in Callers, NEW k \in Callers, j # k
      PROVE  Apart(j, k)'
  <2>1. Apart(j, k)
    BY <1>4 DEF TxInv
  <2>2. (HoldsCommand(j)' <=> HoldsCommand(j)) /\ (HoldsCommand(k)' <=> HoldsCommand(k))
    BY DEF HoldsCommand
  <2>3. QED
    BY <1>2, <2>1, <2>2 DEF Apart
<1>5. EventsSayWhere'
  BY DEF TxInv, EventsSayWhere
<1>6. tx' = [k \in Callers |-> Fields(tx'[k])]
  BY DEF TxInv
<1>7. QED
  BY <1>3, <1>4, <1>5, <1>6 DEF TxInv

-----------------------------------------------------------------------------
(***************************************************************************)
(* One lemma per action: the invariant of the transactions holds again,    *)
(* and the store sees one of its own steps or none.                        *)
(***************************************************************************)
LEMMA RequestStep ==
    ASSUME IInv, NEW k \in Callers, Request(k)
    PROVE  TxInv' /\ Safe!Next
<1>1. /\ tx[k].pc = "idle" /\ UNCHANGED shared
      /\ \E id \in CommandIds, who \in Principals : \E c \in Store!Requests(id, who) :
            Set(k, [NoTx EXCEPT !.pc = "pool", !.command = c])
  BY DEF Request
<1>2. PICK id \in CommandIds, who \in Principals :
         \E c \in Store!Requests(id, who) :
            Set(k, [NoTx EXCEPT !.pc = "pool", !.command = c])
  BY <1>1
<1>3. PICK c \in Store!Requests(id, who) :
         Set(k, [NoTx EXCEPT !.pc = "pool", !.command = c])
  BY <1>2
<1>4. PICK t : t = [NoTx EXCEPT !.pc = "pool", !.command = c]
  OBVIOUS
<1>5. /\ c.kind = "CreatePage" => "wiki:edit" \in c.scopes
      /\ c.kind # "CreatePage" => pages[c.page] # None
  BY DEF Store!Requests, Store!CreateCommands, Store!PageCommands, Store!EditCommands,
         Store!ReportCommands, Store!ExactRevisionCommands, Store!Moderations
<1>6. /\ Set(k, t) /\ tx'[k] = t /\ t = Fields(t)
      /\ t.pc = "pool" /\ t.command = c /\ t.row = None /\ t.locked = None
  <2>1. NoTx = Fields(NoTx) /\ NoTx.row = None /\ NoTx.locked = None
    BY DEF NoTx, Fields
  <2>2. /\ t = Fields(t)
        /\ t.pc = "pool" /\ t.command = c /\ t.row = None /\ t.locked = None
    BY <1>4, <2>1 DEF Fields
  <2>3. tx'[k] = t
    BY <1>4, <1>3, SetTx DEF IInv
  <2>4. QED
    BY <1>4, <1>3, <2>2, <2>3
<1>7. TxOK(k)' /\ ~(k \in PageCreators)'
  BY <1>1, <1>5, <1>6, BeforeTheRow
<1>8. ~HoldsCommand(k)'
  BY <1>6 DEF HoldsCommand, Open, Statements
<1>9. \A j \in Callers \ {k} : Apart(j, k)' /\ Apart(k, j)'
  BY <1>6, <1>7, <1>8, NothingTaken DEF IInv
<1>10. TxInv'
  BY <1>1, <1>6, <1>7, <1>9, OneTxMoves DEF IInv
<1>11. /\ CallBar' = [CallBar EXCEPT ![k] = Abstract(t)]
       /\ UNCHANGED Safe!db
  BY <1>1, <1>6, OneCallMoves DEF IInv
<1>12. Abstract(t) = Safe!Pending(c) /\ CallBar[k].state = "idle"
  BY <1>1, <1>6 DEF Abstract, Safe!Pending, CallBar
<1>13. c \in Safe!Requests(id, who)
  BY SameCalls
<1>14. Safe!Invoke(k)
  BY <1>11, <1>12, <1>13 DEF Safe!Invoke
<1>15. QED
  BY <1>10, <1>14 DEF Safe!Next

\* A connection is taken from the pool.
LEMMA AcquireStep ==
    ASSUME IInv, NEW k \in Callers, Acquire(k)
    PROVE  TxInv' /\ UNCHANGED Safe!vars
<1> DEFINE t == [tx[k] EXCEPT !.pc = "lock"]
<1>1. tx[k].pc = "pool" /\ Set(k, t) /\ UNCHANGED shared
  BY DEF Acquire, Runs, Goto
<1>2. tx'[k] = t /\ tx[k] = Fields(tx[k]) /\ TxOK(k)
  BY <1>1, SetTx DEF IInv
<1>3. /\ t = Fields(t) /\ Abstract(t) = Abstract(tx[k])
      /\ t.pc = "lock" /\ t.command = tx[k].command /\ t.row = tx[k].row
      /\ t.locked = tx[k].locked
  BY <1>1, <1>2 DEF Fields, Abstract
<1>4. /\ t.row = None /\ t.locked = None
      /\ t.command.kind = "CreatePage" => "wiki:edit" \in t.command.scopes
      /\ t.command.kind # "CreatePage" => pages[t.command.page] # None
  BY <1>1, <1>2, <1>3 DEF TxOK, Open, Statements
<1>5. TxOK(k)' /\ ~(k \in PageCreators)'
  BY <1>1, <1>2, <1>3, <1>4, BeforeTheRow
<1>6. ~HoldsCommand(k)'
  BY <1>2, <1>3 DEF HoldsCommand, Open, Statements
<1>7. \A j \in Callers \ {k} : Apart(j, k)' /\ Apart(k, j)'
  BY <1>1, <1>3, <1>4, <1>5, <1>6, NothingTaken DEF IInv
<1>8. QED
  BY <1>1, <1>3, <1>5, <1>7, QuietStep

\* The advisory lock is granted once no other transaction has it.
LEMMA LockCommandStep ==
    ASSUME IInv, NEW k \in Callers, LockCommand(k)
    PROVE  TxInv' /\ UNCHANGED Safe!vars
<1> DEFINE t == [tx[k] EXCEPT !.pc = "receipt"]
<1>1. tx[k].pc = "lock" /\ Set(k, t) /\ UNCHANGED shared /\ Blockers(k) = {}
  BY DEF LockCommand, Runs, Goto
<1>2. /\ tx'[k] = t /\ tx[k] = Fields(tx[k]) /\ TxOK(k)
      /\ \A j \in Callers \ {k} : tx'[j] = tx[j]
  BY <1>1, SetTx DEF IInv
<1>3. /\ t = Fields(t) /\ Abstract(t) = Abstract(tx[k])
      /\ t.pc = "receipt" /\ t.command = tx[k].command /\ t.row = tx[k].row
      /\ t.locked = tx[k].locked
  BY <1>1, <1>2 DEF Fields, Abstract
<1>4. /\ t.row = None /\ t.locked = None
      /\ t.command.kind = "CreatePage" => "wiki:edit" \in t.command.scopes
      /\ t.command.kind # "CreatePage" => pages[t.command.page] # None
  BY <1>1, <1>2, <1>3 DEF TxOK, Open, Statements
<1>5. TxOK(k)' /\ ~(k \in PageCreators)'
  BY <1>1, <1>2, <1>3, <1>4, BeforeTheRow
<1>6. ASSUME NEW j \in Callers \ {k}
      PROVE  Apart(j, k)' /\ Apart(k, j)'
  <2>1. CommandLocks(tx[k].command.id) \ {k} = {}
    BY <1>1 DEF Blockers
  <2>2. HoldsCommand(j) => tx[j].command.id # tx[k].command.id
    BY <2>1, <1>6 DEF CommandLocks, HoldsCommand, Open, Statements
  <2>3. HoldsCommand(j)' <=> HoldsCommand(j)
    BY <1>2, <1>6 DEF HoldsCommand, Store!Unavailable, Store!Rejected
  <2>4. QED
    BY <1>2, <1>3, <1>4, <1>5, <1>6, <2>2, <2>3 DEF Apart
<1>7. QED
  BY <1>1, <1>3, <1>5, <1>6, QuietStep

\* A known command id is answered from its receipt, which stays.
LEMMA ReadReceiptStep ==
    ASSUME IInv, NEW k \in Callers, ReadReceipt(k)
    PROVE  TxInv' /\ UNCHANGED Safe!vars
<1> DEFINE c == tx[k].command
           prior == receipts[c.id]
<1>1. tx[k].pc = "receipt" /\ UNCHANGED shared
  BY DEF ReadReceipt, Runs
<1>2. tx[k] = Fields(tx[k]) /\ TxOK(k)
  BY DEF IInv, TxInv
<1>3. \/ prior = None /\ Set(k, [tx[k] EXCEPT !.pc = "row"])
      \/ /\ prior # None /\ SameIntent(prior, c)
         /\ Set(k, [tx[k] EXCEPT !.pc = "commit", !.reply = Store!Replayed(prior)])
      \/ /\ prior # None /\ ~SameIntent(prior, c)
         /\ Set(k, [tx[k] EXCEPT !.pc = "abort", !.row = None,
                                 !.reply = Store!Rejected("idempotency_conflict")])
  BY DEF ReadReceipt, Goto, RaiseWith
<1>4. /\ HoldsCommand(k) /\ tx[k].locked = None /\ tx[k].row = None
      /\ c.kind = "CreatePage" => "wiki:edit" \in c.scopes
      /\ c.kind # "CreatePage" => pages[c.page] # None
  BY <1>1, <1>2 DEF HoldsCommand, TxOK, Open, Statements
<1>5. ASSUME NEW t, Set(k, t), t = Fields(t), t.command = c, t.locked = None,
             t.pc \in {"row", "commit", "abort"},
             TxOK(k)', ~(k \in PageCreators)'
      PROVE  TxInv' /\ UNCHANGED Safe!vars
  <2>1. \A j \in Callers \ {k} : Apart(j, k)' /\ Apart(k, j)'
    BY <1>4, <1>5, NothingTaken DEF IInv
  <2>2. Abstract(t) = Abstract(tx[k])
    BY <1>1, <1>5 DEF Abstract
  <2>3. QED
    BY <1>1, <1>5, <2>1, <2>2, QuietStep
<1>6. CASE prior = None /\ Set(k, [tx[k] EXCEPT !.pc = "row"])
  <2>1. PICK t : t = [tx[k] EXCEPT !.pc = "row"]
    OBVIOUS
  <2>2. /\ t = Fields(t) /\ t.pc = "row" /\ t.command = c /\ t.locked = None /\ t.row = None
    BY <1>2, <1>4, <2>1 DEF Fields
  <2>3. Set(k, t) /\ tx'[k] = t
    BY <1>6, <2>1, SetTx DEF IInv
  <2>4. TxOK(k)' /\ ~(k \in PageCreators)'
    BY <1>1, <1>4, <1>6, <2>2, <2>3, BeforeTheRow
  <2>5. QED
    BY <1>5, <2>2, <2>3, <2>4
<1>7. CASE /\ prior # None /\ SameIntent(prior, c)
           /\ Set(k, [tx[k] EXCEPT !.pc = "commit", !.reply = Store!Replayed(prior)])
  <2>1. PICK t : t = [tx[k] EXCEPT !.pc = "commit", !.reply = Store!Replayed(prior)]
    OBVIOUS
  <2>2. /\ t = Fields(t) /\ t.pc = "commit" /\ t.command = c /\ t.locked = None /\ t.row = None
        /\ t.reply = Store!Replayed(prior)
    BY <1>2, <1>4, <2>1 DEF Fields
  <2>3. Set(k, t) /\ tx'[k] = t
    BY <1>7, <2>1, SetTx DEF IInv
  <2>4. ~(k \in PageCreators)' /\ ~(k \in EventWriters)' /\ ~Writing(k)'
    BY <2>2, <2>3 DEF PageCreators, EventWriters, Writing, Store!Replayed
  <2>5. CommitStands(k)'
    BY <1>1, <1>7, <2>2, <2>3 DEF CommitStands, shared, Store!Replayed, SameIntent
  <2>6. TxOK(k)'
    BY <1>1, <1>4, <2>2, <2>3, <2>4, <2>5 DEF TxOK, shared, Open, Statements
  <2>7. QED
    BY <1>5, <2>2, <2>3, <2>4, <2>6
<1>8. CASE /\ prior # None /\ ~SameIntent(prior, c)
           /\ Set(k, [tx[k] EXCEPT !.pc = "abort", !.row = None,
                                   !.reply = Store!Rejected("idempotency_conflict")])
  <2>1. PICK t : t = [tx[k] EXCEPT !.pc = "abort", !.row = None,
                                   !.reply = Store!Rejected("idempotency_conflict")]
    OBVIOUS
  <2>2. /\ t = Fields(t) /\ t.pc = "abort" /\ t.command = c /\ t.locked = None /\ t.row = None
        /\ t.reply = Store!Rejected("idempotency_conflict")
    BY <1>2, <1>4, <2>1 DEF Fields
  <2>3. Set(k, t) /\ tx'[k] = t
    BY <1>8, <2>1, SetTx DEF IInv
  <2>4. ~(k \in PageCreators)' /\ ~(k \in EventWriters)' /\ ~Writing(k)'
    BY <2>2, <2>3 DEF PageCreators, EventWriters, Writing
  <2>5. AbortStands(k)'
    BY <1>1, <1>8, <2>2, <2>3 DEF AbortStands, shared, Store!Rejected, SameIntent
  <2>6. TxOK(k)'
    BY <1>1, <1>4, <2>2, <2>3, <2>4, <2>5 DEF TxOK, shared, Open, Statements
  <2>7. QED
    BY <1>5, <2>2, <2>3, <2>4, <2>6
<1>9. QED
  BY <1>3, <1>6, <1>7, <1>8

\* The row lock is granted once no other transaction has it, and the verdict is made
\* on what the row holds then.
LEMMA ReadPageStep ==
    ASSUME IInv, NEW k \in Callers, ReadPage(k)
    PROVE  TxInv' /\ UNCHANGED Safe!vars
<1> DEFINE c == tx[k].command
           target == TargetRow(k)
           state == IF c.kind = "CreatePage" THEN None ELSE pages[c.page]
           verdict == IF c.kind = "CreatePage" /\ target # None THEN "slug_taken"
                      ELSE Verdict(state, c)
<1>1. tx[k].pc = "row" /\ Blockers(k) = {} /\ UNCHANGED shared
  BY DEF ReadPage, Runs
<1>2. tx[k] = Fields(tx[k]) /\ TxOK(k)
  BY DEF IInv, TxInv
<1>3. /\ HoldsCommand(k) /\ tx[k].row = None /\ receipts[c.id] = None
      /\ c.kind = "CreatePage" => "wiki:edit" \in c.scopes /\ target = SlugIndex[c.slug]
      /\ c.kind # "CreatePage" => target = c.page /\ state = pages[c.page]
  BY <1>1, <1>2 DEF HoldsCommand, TxOK, Open, Statements, TargetRow, SlugHolder
<1>4. ASSUME NEW j \in Callers \ {k}, target # None
      PROVE  tx[j].locked # target
  <2>1. RowLocks(target) \ {k} = {}
    BY <1>1, <1>4 DEF Blockers
  <2>2. tx[j].locked # None => tx[j].pc \in Open
    BY DEF IInv, TxInv, TxOK, Open, Statements
  <2>3. QED
    BY <1>4, <2>1, <2>2 DEF RowLocks
<1>5. ASSUME NEW t, Set(k, t), t = Fields(t), t.command = c, t.locked = target,
             t.pc \in {"event", "abort"}, TxOK(k)'
      PROVE  TxInv' /\ UNCHANGED Safe!vars
  <2>1. tx'[k] = t
    BY <1>5, SetTx DEF IInv
  <2>2. ~(k \in PageCreators)'
    BY <1>5, <2>1 DEF PageCreators, EventWriters
  <2>3. ASSUME NEW j \in Callers \ {k}
        PROVE  Apart(j, k)' /\ Apart(k, j)'
    <3>1. tx'[j] = tx[j]
      BY <1>5, <2>3, SetTx DEF IInv
    <3>2. HoldsCommand(j)' <=> HoldsCommand(j)
      BY <3>1 DEF HoldsCommand, Store!Unavailable, Store!Rejected
    <3>3. HoldsCommand(j) => tx[j].command.id # c.id
      BY <1>3, <2>3 DEF IInv, TxInv, Apart
    <3>4. QED
      BY <1>4, <1>5, <2>1, <2>2, <3>1, <3>2, <3>3 DEF Apart
  <2>4. Abstract(t) = Abstract(tx[k])
    BY <1>1, <1>5 DEF Abstract
  <2>5. QED
    BY <1>1, <1>5, <2>3, <2>4, QuietStep
<1>6. CASE verdict = "accepted"
  <2>1. PICK t : t = [tx[k] EXCEPT !.pc = "event", !.locked = target, !.row = state]
    OBVIOUS
  <2>2. /\ t = Fields(t) /\ t.pc = "event" /\ t.command = c /\ t.locked = target /\ t.row = state
    BY <1>2, <2>1 DEF Fields
  <2>3. Set(k, t)
    BY <1>6, <2>1 DEF ReadPage
  <2>4. tx'[k] = t
    BY <2>3, SetTx DEF IInv
  <2>5. Verdict(state, c) = "accepted"
    BY <1>6
  <2>6. DecisionStands(k)'
    BY <1>1, <1>3, <2>2, <2>4, <2>5 DEF DecisionStands, shared
  <2>7. ~(k \in PageCreators)'
    BY <2>2, <2>4 DEF PageCreators, EventWriters
  <2>8. TxOK(k)'
    BY <1>1, <1>2, <2>2, <2>4, <2>6, <2>7 DEF TxOK, shared, Open, Statements
  <2>9. QED
    BY <1>5, <2>2, <2>3, <2>8
<1>7. CASE verdict # "accepted"
  <2>1. PICK t : t = [tx[k] EXCEPT !.pc = "abort", !.locked = target,
                                   !.reply = Store!Rejected(verdict)]
    OBVIOUS
  <2>2. /\ t = Fields(t) /\ t.pc = "abort" /\ t.command = c /\ t.locked = target
        /\ t.reply = Store!Rejected(verdict)
    BY <1>2, <2>1 DEF Fields
  <2>3. Set(k, t)
    BY <1>7, <2>1 DEF ReadPage
  <2>4. tx'[k] = t
    BY <2>3, SetTx DEF IInv
  <2>5. c.kind = "CreatePage" => target # None
    BY <1>3, <1>7 DEF Verdict, OutOfScope, RequiredScope, Kinds, Moderations
  <2>6. SlugIndex' = SlugIndex
    BY <1>1 DEF shared, SlugIndex
  <2>7. CASE c.kind = "CreatePage"
    <3>1. t.reply = Store!Rejected("slug_taken")
      BY <2>2, <2>5, <2>7
    <3>2. AbortStands(k)'
      BY <1>1, <1>3, <2>2, <2>4, <2>5, <2>6, <2>7, <3>1 DEF AbortStands, shared, Store!Rejected
    <3>3. QED
      BY <1>1, <1>2, <1>5, <2>2, <2>3, <2>4, <3>2
         DEF TxOK, shared, Open, Statements, Writing, EventWriters, PageCreators
  <2>8. CASE c.kind # "CreatePage"
    <3>1. /\ t.reply = Store!Rejected(Verdict(pages[c.page], c))
          /\ Verdict(pages[c.page], c) # "accepted"
      BY <1>7, <2>2, <2>8
    <3>2. AbortStands(k)'
      BY <1>1, <1>3, <2>2, <2>4, <2>8, <3>1 DEF AbortStands, shared, Store!Rejected
    <3>3. QED
      BY <1>1, <1>2, <1>5, <2>2, <2>3, <2>4, <3>2
         DEF TxOK, shared, Open, Statements, Writing, EventWriters, PageCreators
  <2>9. QED
    BY <2>7, <2>8
<1>8. QED
  BY <1>6, <1>7
\* A statement of a writing transaction that changes nothing but how far it is.
LEMMA WriterMoves ==
    ASSUME IInv, NEW k \in Callers, Writing(k), NEW t, Set(k, t), UNCHANGED shared, t = Fields(t),
           t.command = tx[k].command, t.row = tx[k].row, t.locked = tx[k].locked,
           t.pc \in {"page", "effects", "commit"},
           t.pc = "commit" => t.reply = Store!Committed(ReceiptFor(k)),
           (k \in PageCreators)' => SlugIndex[t.command.slug] = None,
           \A j \in Callers \ {k} : Apart(j, k)' /\ Apart(k, j)'
    PROVE  TxInv' /\ UNCHANGED Safe!vars
<1>1. tx'[k] = t /\ TxOK(k)
  BY SetTx DEF IInv
<1>2. tx[k].pc \in {"event", "page", "effects", "commit"}
  BY WriterFacts
<1>3. DecisionStands(k)
  BY <1>1 DEF TxOK
<1>4. DecisionStands(k)'
  BY <1>1, <1>3 DEF DecisionStands, shared
<1>5. SlugIndex' = SlugIndex
  BY DEF shared, SlugIndex
<1>6. t.pc = "commit" => CommitStands(k)'
  BY <1>1 DEF CommitStands, ReceiptFor, PageFor, EventFor, Version, Store!Committed
<1>7. TxOK(k)'
  BY <1>1, <1>2, <1>4, <1>5, <1>6 DEF TxOK, shared, Open, Statements
<1>8. Abstract(t) = Abstract(tx[k])
  BY <1>2 DEF Abstract
<1>9. QED
  BY <1>7, <1>8, QuietStep

\* INSERT INTO wiki_event: the command lock and the row lock keep its key free.
LEMMA InsertEventStep ==
    ASSUME IInv, NEW k \in Callers, InsertEvent(k)
    PROVE  TxInv' /\ UNCHANGED Safe!vars
<1>1. tx[k].pc = "event" /\ UNCHANGED shared
  BY DEF InsertEvent, Runs
<1>2. tx[k] = Fields(tx[k]) /\ Writing(k)
  BY <1>1 DEF IInv, TxInv, Writing
<1>3. HoldsCommand(k) /\ ~EventKeyTaken(k)
  BY <1>2, WriterFacts, NoEventKeyTaken
<1>4. PICK t : t = [tx[k] EXCEPT !.pc = "page"]
  OBVIOUS
<1>5. Set(k, t)
  BY <1>3, <1>4 DEF InsertEvent, Goto
<1>6. /\ t = Fields(t) /\ t.pc = "page" /\ t.command = tx[k].command
      /\ t.row = tx[k].row /\ t.locked = tx[k].locked
  BY <1>2, <1>4 DEF Fields
<1>7. ~(k \in PageCreators)'
  BY <1>5, <1>6, SetTx DEF IInv, PageCreators
<1>8. \A j \in Callers \ {k} : Apart(j, k)' /\ Apart(k, j)'
  BY <1>3, <1>5, <1>6, <1>7, NothingTaken DEF IInv
<1>9. QED
  BY <1>1, <1>2, <1>5, <1>6, <1>7, <1>8, WriterMoves

\* An update meets the version it read; an insert goes in, unless another create has
\* taken the slug meanwhile.
LEMMA WritePageStep ==
    ASSUME IInv, NEW k \in Callers, WritePage(k)
    PROVE  TxInv' /\ UNCHANGED Safe!vars
<1> DEFINE c == tx[k].command
<1>1. tx[k].pc = "page" /\ Blockers(k) = {} /\ UNCHANGED shared
  BY DEF WritePage, Runs
<1>2. tx[k] = Fields(tx[k]) /\ Writing(k) /\ TxOK(k)
  BY <1>1 DEF IInv, TxInv, Writing, EventWriters
<1>3. /\ HoldsCommand(k)
      /\ receipts[c.id] = None
      /\ c.kind = "CreatePage" => pages[c.page] = None
      /\ c.kind # "CreatePage" => pages[c.page] # None /\ pages[c.page] = tx[k].row
  BY <1>2, WriterFacts
<1>4. \/ /\ c.kind = "CreatePage" => SlugHolder(k) = None
         /\ Set(k, [tx[k] EXCEPT !.pc = "effects"])
      \/ /\ c.kind = "CreatePage" /\ SlugHolder(k) # None
         /\ Set(k, [tx[k] EXCEPT !.pc = "abort", !.row = None,
                                 !.reply = Store!Rejected("slug_taken")])
  BY <1>3 DEF WritePage, Goto, RaiseWith, Version
<1>5. CASE /\ c.kind = "CreatePage" => SlugHolder(k) = None
           /\ Set(k, [tx[k] EXCEPT !.pc = "effects"])
  <2>1. PICK t : t = [tx[k] EXCEPT !.pc = "effects"]
    OBVIOUS
  <2>2. /\ t = Fields(t) /\ t.pc = "effects" /\ t.command = c
        /\ t.row = tx[k].row /\ t.locked = tx[k].locked
    BY <1>2, <2>1 DEF Fields
  <2>3. Set(k, t)
    BY <1>5, <2>1
  <2>4. tx'[k] = t /\ \A j \in Callers \ {k} : tx'[j] = tx[j]
    BY <2>3, SetTx DEF IInv
  <2>5. (k \in PageCreators)' => c.kind = "CreatePage" /\ SlugIndex[c.slug] = None
    BY <1>5, <2>2, <2>4 DEF PageCreators, SlugHolder
  <2>6. ASSUME NEW j \in Callers \ {k}
        PROVE  Apart(j, k)' /\ Apart(k, j)'
    <3>1. (j \in PageCreators)' <=> j \in PageCreators
      BY <2>4, <2>6 DEF PageCreators, EventWriters
    <3>2. HoldsCommand(j)' <=> HoldsCommand(j)
      BY <2>4, <2>6 DEF HoldsCommand, Store!Unavailable, Store!Rejected
    <3>3. Apart(j, k) /\ Apart(k, j)
      BY <2>6 DEF IInv, TxInv
    <3>4. c.kind = "CreatePage" /\ j \in PageCreators => tx[j].command.slug # c.slug
      BY <1>1, <2>6 DEF Blockers
    <3>5. QED
      BY <1>3, <2>2, <2>4, <2>5, <2>6, <3>1, <3>2, <3>3, <3>4 DEF Apart
  <2>7. QED
    BY <1>1, <1>2, <2>2, <2>3, <2>5, <2>6, WriterMoves
<1>6. CASE /\ c.kind = "CreatePage" /\ SlugHolder(k) # None
           /\ Set(k, [tx[k] EXCEPT !.pc = "abort", !.row = None,
                                   !.reply = Store!Rejected("slug_taken")])
  <2>1. PICK t : t = [tx[k] EXCEPT !.pc = "abort", !.row = None,
                                   !.reply = Store!Rejected("slug_taken")]
    OBVIOUS
  <2>2. /\ t = Fields(t) /\ t.pc = "abort" /\ t.command = c
        /\ t.locked = tx[k].locked /\ t.reply = Store!Rejected("slug_taken")
    BY <1>2, <2>1 DEF Fields
  <2>3. Set(k, t)
    BY <1>6, <2>1
  <2>4. tx'[k] = t
    BY <2>3, SetTx DEF IInv
  <2>5. ~(k \in PageCreators)' /\ ~(k \in EventWriters)' /\ ~Writing(k)'
    BY <2>2, <2>4 DEF PageCreators, EventWriters, Writing
  <2>6. SlugIndex' = SlugIndex
    BY <1>1 DEF shared, SlugIndex
  <2>7. AbortStands(k)'
    BY <1>1, <1>3, <1>6, <2>2, <2>4, <2>6 DEF AbortStands, shared, Store!Rejected, SlugHolder
  <2>8. TxOK(k)'
    BY <1>1, <1>2, <2>2, <2>4, <2>5, <2>7 DEF TxOK, shared, Open, Statements
  <2>9. \A j \in Callers \ {k} : Apart(j, k)' /\ Apart(k, j)'
    BY <1>3, <2>2, <2>3, <2>5, NothingTaken DEF IInv
  <2>10. Abstract(t) = Abstract(tx[k])
    BY <1>1, <2>2 DEF Abstract
  <2>11. QED
    BY <1>1, <2>2, <2>3, <2>8, <2>9, <2>10, QuietStep
<1>7. QED
  BY <1>4, <1>5, <1>6

\* INSERT INTO the outbox.
LEMMA InsertEffectsStep ==
    ASSUME IInv, NEW k \in Callers, InsertEffects(k)
    PROVE  TxInv' /\ UNCHANGED Safe!vars
<1> DEFINE c == tx[k].command
<1>1. tx[k].pc = "effects" /\ UNCHANGED shared
  BY DEF InsertEffects, Runs
<1>2. tx[k] = Fields(tx[k]) /\ k \in EventWriters /\ Writing(k) /\ TxOK(k)
  BY <1>1 DEF IInv, TxInv, Writing, EventWriters
<1>3. HoldsCommand(k) /\ receipts[c.id] = None
  BY <1>2, WriterFacts
<1>4. PICK t : t = [tx[k] EXCEPT !.pc = "commit", !.reply = Store!Committed(ReceiptFor(k))]
  OBVIOUS
<1>5. Set(k, t)
  BY <1>3, <1>4 DEF InsertEffects
<1>6. /\ t = Fields(t) /\ t.pc = "commit" /\ t.command = tx[k].command
      /\ t.row = tx[k].row /\ t.locked = tx[k].locked
      /\ t.reply = Store!Committed(ReceiptFor(k))
  BY <1>2, <1>4 DEF Fields
<1>7. (k \in PageCreators)' => k \in PageCreators
  BY <1>1, <1>2, <1>5, <1>6, SetTx DEF IInv, PageCreators
<1>8. k \in PageCreators => SlugIndex[c.slug] = None
  BY <1>2 DEF TxOK
<1>9. \A j \in Callers \ {k} : Apart(j, k)' /\ Apart(k, j)'
  BY <1>3, <1>5, <1>6, <1>7, NothingTaken DEF IInv
<1>10. QED
  BY <1>1, <1>2, <1>5, <1>6, <1>7, <1>8, <1>9, WriterMoves

\* A statement times out: the transaction will be rolled back.
LEMMA TimeoutStep ==
    ASSUME IInv, NEW k \in Callers, Timeout(k)
    PROVE  TxInv' /\ UNCHANGED Safe!vars
<1>1. tx[k].pc \in Statements /\ UNCHANGED shared
  BY DEF Timeout
<1>2. tx[k] = Fields(tx[k]) /\ TxOK(k)
  BY DEF IInv, TxInv
<1>3. PICK t : t = [tx[k] EXCEPT !.pc = "abort", !.row = None, !.reply = Store!Unavailable]
  OBVIOUS
<1>4. Set(k, t)
  BY <1>3 DEF Timeout, RaiseWith
<1>5. /\ t = Fields(t) /\ t.pc = "abort" /\ t.command = tx[k].command
      /\ t.locked = tx[k].locked /\ t.reply = Store!Unavailable
  BY <1>2, <1>3 DEF Fields
<1>6. tx'[k] = t
  BY <1>4, SetTx DEF IInv
<1>7. ~(k \in PageCreators)' /\ ~(k \in EventWriters)' /\ ~Writing(k)' /\ ~HoldsCommand(k)'
  BY <1>5, <1>6 DEF PageCreators, EventWriters, Writing, HoldsCommand, Store!Unavailable,
                    Store!Rejected
<1>8. AbortStands(k)'
  BY <1>5, <1>6 DEF AbortStands, Store!Unavailable, Store!Rejected
<1>9. TxOK(k)'
  BY <1>1, <1>2, <1>5, <1>6, <1>7, <1>8 DEF TxOK, shared, Open, Statements
<1>10. \A j \in Callers \ {k} : Apart(j, k)' /\ Apart(k, j)'
  BY <1>4, <1>5, <1>7, NothingTaken DEF IInv
<1>11. Abstract(t) = Abstract(tx[k])
  BY <1>1, <1>5 DEF Abstract, Statements
<1>12. QED
  BY <1>1, <1>4, <1>5, <1>9, <1>10, <1>11, QuietStep

\* A transaction whose client is gone holds what it held.
LEMMA DisconnectStep ==
    ASSUME IInv, NEW k \in Callers, Disconnect(k)
    PROVE  TxInv' /\ UNCHANGED Safe!vars
<1>1. tx[k].pc \in Open /\ UNCHANGED shared
  BY DEF Disconnect
<1>2. tx[k] = Fields(tx[k]) /\ TxOK(k)
  BY DEF IInv, TxInv
<1>3. PICK t : t = [tx[k] EXCEPT !.gone = TRUE]
  OBVIOUS
<1>4. Set(k, t)
  BY <1>3 DEF Disconnect
<1>5. /\ t = Fields(t) /\ t.pc = tx[k].pc /\ t.command = tx[k].command
      /\ t.row = tx[k].row /\ t.locked = tx[k].locked /\ t.reply = tx[k].reply
  BY <1>2, <1>3 DEF Fields
<1>6. tx'[k] = t
  BY <1>4, SetTx DEF IInv
<1>7. /\ (k \in EventWriters)' <=> k \in EventWriters
      /\ (k \in PageCreators)' <=> k \in PageCreators
      /\ Writing(k)' <=> Writing(k)
  BY <1>5, <1>6 DEF PageCreators, EventWriters, Writing
<1>8. HoldsCommand(k)' <=> HoldsCommand(k)
  BY <1>5, <1>6 DEF HoldsCommand, Store!Unavailable, Store!Rejected
<1>9. SlugIndex' = SlugIndex
  BY <1>1 DEF shared, SlugIndex
<1>10. /\ DecisionStands(k)' <=> DecisionStands(k)
       /\ CommitStands(k)' <=> CommitStands(k)
  BY <1>1, <1>5, <1>6 DEF shared, DecisionStands, CommitStands, ReceiptFor, PageFor, EventFor, Version,
     Store!Committed, Store!Replayed, SameIntent
<1>11. AbortStands(k)' <=> AbortStands(k)
  BY <1>1, <1>5, <1>6, <1>9 DEF shared, AbortStands, SameIntent, Store!Unavailable, Store!Rejected
<1>12. TxOK(k)'
  BY <1>1, <1>2, <1>5, <1>6, <1>7, <1>9, <1>10, <1>11 DEF TxOK, shared
<1>13. \A j \in Callers \ {k} : Apart(j, k)' /\ Apart(k, j)'
  BY <1>4, <1>5, <1>7, <1>8, NothingTaken DEF IInv
<1>14. Abstract(t) = Abstract(tx[k])
  BY <1>5 DEF Abstract
<1>15. QED
  BY <1>1, <1>4, <1>5, <1>12, <1>13, <1>14, QuietStep
(***************************************************************************)
(* The ends of a transaction that writes nothing.                          *)
(***************************************************************************)
LEMMA EndMoves ==
    ASSUME IInv, NEW k \in Callers, NEW t, Set(k, t), UNCHANGED shared, t = Fields(t),
           t.pc \in {"reply", "idle"}, t.locked = None
    PROVE  /\ TxInv'
           /\ CallBar' = [CallBar EXCEPT ![k] = Abstract(t)]
           /\ UNCHANGED Safe!db
<1>1. tx'[k] = t
  BY SetTx DEF IInv
<1>2. ~(k \in PageCreators)' /\ ~(k \in EventWriters)' /\ ~Writing(k)' /\ ~HoldsCommand(k)'
  BY <1>1 DEF PageCreators, EventWriters, Writing, HoldsCommand, Open, Statements
<1>3. TxOK(k)'
  BY <1>1, <1>2 DEF TxOK, Open, Statements
<1>4. \A j \in Callers \ {k} : Apart(j, k)' /\ Apart(k, j)'
  BY <1>2, NothingTaken DEF IInv
<1>5. QED
  BY <1>3, <1>4, OneTxMoves, OneCallMoves DEF IInv

\* A transaction that is over gives up its locks and answers.
LEMMA OverMoves ==
    ASSUME IInv, NEW k \in Callers, NEW reply, NEW gone, Over(k, reply, gone), UNCHANGED shared
    PROVE  /\ TxInv'
           /\ CallBar' = [CallBar EXCEPT ![k] = Safe!Done(tx[k].command, reply)]
           /\ UNCHANGED Safe!db
<1>1. tx[k] = Fields(tx[k])
  BY DEF IInv, TxInv
<1>2. PICK t : t = [tx[k] EXCEPT !.pc = "reply", !.row = None, !.locked = None,
                                 !.reply = reply, !.gone = gone]
  OBVIOUS
<1>3. Set(k, t)
  BY <1>2 DEF Over
<1>4. /\ t = Fields(t) /\ t.pc = "reply" /\ t.command = tx[k].command /\ t.locked = None
      /\ t.reply = reply
  BY <1>1, <1>2 DEF Fields
<1>5. Abstract(t) = Safe!Done(tx[k].command, reply)
  BY <1>4 DEF Abstract, Safe!Done
<1>6. QED
  BY <1>3, <1>4, <1>5, EndMoves

\* A known command is answered alike by the store.
LEMMA KnownIsAnswered ==
    ASSUME IInv, NEW k \in Callers, NEW reply, NEW gone, Over(k, reply, gone), UNCHANGED shared,
           tx[k].pc \in Open, receipts[tx[k].command.id] # None,
           reply = IF SameIntent(receipts[tx[k].command.id], tx[k].command)
                   THEN Store!Replayed(receipts[tx[k].command.id])
                   ELSE Store!Rejected("idempotency_conflict")
    PROVE  Safe!ExecuteKnown(k)
<1>1. /\ CallBar' = [CallBar EXCEPT ![k] = Safe!Done(tx[k].command, reply)]
      /\ UNCHANGED Safe!db
  BY OverMoves
<1>2. CallBar[k].state = "pending" /\ CallBar[k].command = tx[k].command
  BY DEF CallBar, Abstract, Open, Statements
<1>3. Safe!SameIntent(receipts[tx[k].command.id], tx[k].command)
        <=> SameIntent(receipts[tx[k].command.id], tx[k].command)
  BY SameDecisions DEF Safe!SameIntent, SameIntent
<1>4. QED
  BY <1>1, <1>2, <1>3, SameCalls DEF Safe!ExecuteKnown, Safe!Known

\* A rollback is a rejection or a failure of the store's call.
LEMMA RollbackStep ==
    ASSUME IInv, NEW k \in Callers, Rollback(k)
    PROVE  TxInv' /\ Safe!Next
<1> DEFINE c == tx[k].command
           reply == tx[k].reply
<1>1. tx[k].pc = "abort" /\ Over(k, reply, FALSE) /\ UNCHANGED shared
  BY DEF Rollback
<1>2. /\ TxInv'
      /\ CallBar' = [CallBar EXCEPT ![k] = Safe!Done(c, reply)]
      /\ UNCHANGED Safe!db
  BY <1>1, OverMoves
<1>3. CallBar[k].state = "pending" /\ CallBar[k].command = c
  BY <1>1 DEF CallBar, Abstract
<1>4. AbortStands(k)
  BY <1>1 DEF IInv, TxInv, TxOK
<1>5. CASE reply = Store!Unavailable
  BY <1>2, <1>3, <1>5, SameCalls DEF Safe!Fail, Safe!Next
<1>6. CASE /\ reply = Store!Rejected("idempotency_conflict")
           /\ receipts[c.id] # None /\ ~SameIntent(receipts[c.id], c)
  <2>1. Safe!ExecuteKnown(k)
    BY <1>1, <1>6, KnownIsAnswered DEF Open
  <2>2. QED
    BY <1>2, <2>1 DEF Safe!Next, Safe!Execute
<1>7. CASE /\ reply = Store!Rejected("slug_taken")
           /\ receipts[c.id] = None
           /\ c.kind = "CreatePage" /\ SlugIndex[c.slug] # None
  <2>1. ~Safe!Known(c) /\ Safe!SlugTaken(c)
    BY <1>7 DEF Safe!Known, Safe!SlugTaken
  <2>2. Safe!ExecuteRejected(k)
    BY <1>2, <1>3, <1>7, <2>1, SameCalls DEF Safe!ExecuteRejected
  <2>3. QED
    BY <1>2, <2>2 DEF Safe!Next, Safe!Execute
<1>8. CASE /\ c.kind # "CreatePage"
           /\ receipts[c.id] = None
           /\ Verdict(pages[c.page], c) # "accepted"
           /\ reply = Store!Rejected(Verdict(pages[c.page], c))
  <2>1. ~Safe!Known(c) /\ ~Safe!SlugTaken(c) /\ Safe!StateFor(c) = pages[c.page]
    BY <1>8 DEF Safe!Known, Safe!SlugTaken, Safe!StateFor
  <2>2. Safe!ExecuteRejected(k)
    BY <1>2, <1>3, <1>8, <2>1, SameCalls, SameDecisions DEF Safe!ExecuteRejected
  <2>3. QED
    BY <1>2, <2>2 DEF Safe!Next, Safe!Execute
<1>9. QED
  BY <1>4, <1>5, <1>6, <1>7, <1>8 DEF AbortStands

\* The server ends the transaction of a client that is gone.
LEMMA ServerGivesUpStep ==
    ASSUME IInv, NEW k \in Callers, ServerGivesUp(k)
    PROVE  TxInv' /\ Safe!Next
<1>1. tx[k].pc \in Open /\ Over(k, Store!Unavailable, FALSE) /\ UNCHANGED shared
  BY DEF ServerGivesUp
<1>2. /\ TxInv'
      /\ CallBar' = [CallBar EXCEPT ![k] = Safe!Done(tx[k].command, Store!Unavailable)]
      /\ UNCHANGED Safe!db
  BY <1>1, OverMoves
<1>3. CallBar[k].state = "pending" /\ CallBar[k].command = tx[k].command
  BY <1>1 DEF CallBar, Abstract, Open, Statements
<1>4. QED
  BY <1>2, <1>3, SameCalls DEF Safe!Fail, Safe!Next

\* The answer is lost on its way.
LEMMA LoseReplyStep ==
    ASSUME IInv, NEW k \in Callers, LoseReply(k)
    PROVE  TxInv' /\ Safe!Next
<1>1. tx[k].pc = "reply" /\ tx[k].reply # Store!Unavailable /\ UNCHANGED shared
  BY DEF LoseReply
<1>2. tx[k] = Fields(tx[k]) /\ TxOK(k)
  BY DEF IInv, TxInv
<1>3. PICK t : t = [tx[k] EXCEPT !.reply = Store!Unavailable, !.gone = FALSE]
  OBVIOUS
<1>4. Set(k, t)
  BY <1>3 DEF LoseReply
<1>5. /\ t = Fields(t) /\ t.pc = "reply" /\ t.command = tx[k].command
      /\ t.locked = None /\ t.reply = Store!Unavailable
  BY <1>1, <1>2, <1>3 DEF Fields, TxOK
<1>6. /\ TxInv'
      /\ CallBar' = [CallBar EXCEPT ![k] = Abstract(t)]
      /\ UNCHANGED Safe!db
  BY <1>1, <1>4, <1>5, EndMoves
<1>7. /\ CallBar[k].state = "done" /\ CallBar[k].command = tx[k].command
      /\ CallBar[k].reply = tx[k].reply
      /\ Abstract(t) = Safe!Done(tx[k].command, Store!Unavailable)
  BY <1>1, <1>5 DEF CallBar, Abstract, Safe!Done
<1>8. QED
  BY <1>1, <1>6, <1>7, SameCalls DEF Safe!LoseReply, Safe!Next

\* The answer reaches its caller.
LEMMA ReturnStep ==
    ASSUME IInv, NEW k \in Callers, Return(k)
    PROVE  TxInv' /\ Safe!Next
<1>1. tx[k].pc = "reply" /\ Set(k, NoTx) /\ UNCHANGED shared
  BY DEF Return
<1>2. NoTx = Fields(NoTx) /\ NoTx.pc = "idle" /\ NoTx.locked = None
  BY DEF NoTx, Fields
<1>3. /\ TxInv'
      /\ CallBar' = [CallBar EXCEPT ![k] = Abstract(NoTx)]
      /\ UNCHANGED Safe!db
  BY <1>1, <1>2, EndMoves
<1>4. CallBar[k].state = "done" /\ Abstract(NoTx) = Safe!Idle
  BY <1>1, <1>2 DEF CallBar, Abstract, Safe!Idle
<1>5. QED
  BY <1>3, <1>4 DEF Safe!Return, Safe!Next

\* A moderator's answer is delivered by one statement.
LEMMA ResolveOutboxStep ==
    ASSUME IInv, NEW e \in EffectIds, ResolveOutbox(e)
    PROVE  TxInv' /\ Safe!Next
<1>1. /\ e.type = "moderation_report_requested" /\ outbox[e] = "pending"
      /\ outbox' = [outbox EXCEPT ![e] = "delivered"]
      /\ pages' = pages /\ events' = events /\ receipts' = receipts /\ tx' = tx
  BY DEF ResolveOutbox
<1>2. CallBar' = CallBar /\ SlugIndex' = SlugIndex
  BY <1>1 DEF CallBar, SlugIndex
<1>3. Safe!ResolveOutbox(e)
  BY <1>1, <1>2 DEF Safe!ResolveOutbox
<1>4. TxInv'
  BY <1>1, NothingMoves DEF IInv
<1>5. QED
  BY <1>3, <1>4, SameSets DEF Safe!Next
-----------------------------------------------------------------------------
(***************************************************************************)
(* COMMIT of a transaction that wrote.                                     *)
(***************************************************************************)
LEMMA EvolvedSlug ==
    ASSUME NEW s \in Pages, NEW c, c.kind \in Kinds, c.kind # "CreatePage", NEW n
    PROVE  Evolve(s, EventOf(s, c, n)).slug = s.slug
<1> DEFINE e == EventOf(s, c, n)
<1>1. e.type = EventType[c.kind] /\ e.type # "page_created"
  BY DEF EventOf, EventType, Kinds, Moderations
<1>2. CASE e.type = "revision_committed"
  BY <1>1, <1>2 DEF Evolve, Revised
<1>3. CASE e.type # "revision_committed"
  <2>1. Bumped(s) \in Pages /\ Bumped(s).slug = s.slug
    BY DEF Bumped, Pages
  <2>2. \A t \in Pages : /\ [t EXCEPT !.review = "submitted"].slug = t.slug
                         /\ [t EXCEPT !.moderation = "visible"].slug = t.slug
                         /\ [t EXCEPT !.moderation = "quarantined"].slug = t.slug
    BY DEF Pages
  <2>3. QED
    BY <1>1, <1>3, <2>1, <2>2 DEF Evolve
<1>4. QED
  BY <1>2, <1>3

\* What the transaction writes is what the store would write for its command now.
LEMMA WritesAgree ==
    ASSUME IInv, NEW k \in Callers, Writing(k)
    PROVE  LET c == tx[k].command
           IN  /\ Safe!StateFor(c) = tx[k].row
               /\ Safe!EventFor(c) = EventFor(k)
               /\ Safe!PageAfter(c) = PageFor(k)
               /\ Safe!ReceiptFor(c) = ReceiptFor(k)
               /\ PageFor(k) \in Pages
               /\ PageFor(k).slug =
                    IF c.kind = "CreatePage" THEN c.slug ELSE pages[c.page].slug
<1> DEFINE c == tx[k].command
<1>1. /\ c.id \in CommandIds /\ c.page \in PageIds /\ c.kind \in Kinds
      /\ c.kind = "CreatePage" => pages[c.page] = None
      /\ c.kind # "CreatePage" => pages[c.page] # None
      /\ tx[k].row = pages[c.page]
      /\ Version(k) = Len(events[c.page])
      /\ Verdict(pages[c.page], c) = "accepted"
      /\ tx[k].pc \in {"event", "page", "effects", "commit"}
  BY WriterFacts
<1>2. Safe!StateFor(c) = tx[k].row
  BY <1>1 DEF Safe!StateFor
<1>3. Safe!EventFor(c) = EventFor(k)
  BY <1>1, <1>2, SameDecisions DEF Safe!EventFor, EventFor
<1>4. Safe!PageAfter(c) = PageFor(k)
  BY <1>2, <1>3, SameDecisions DEF Safe!PageAfter, PageFor
<1>5. Safe!ReceiptFor(c) = ReceiptFor(k)
  BY <1>3, <1>4, SameDecisions DEF Safe!ReceiptFor, ReceiptFor
<1>6. pages[c.page] \in Pages \cup {None}
  BY <1>1, StoreShape DEF IInv
<1>7. PageFor(k) \in Pages
  <2>1. Safe!WellFormed(c)
    <3>1. CallBar[k].state # "idle" /\ CallBar[k].command = c
      BY <1>1 DEF CallBar, Abstract
    <3>2. QED
      BY <3>1 DEF IInv, Safe!IInv, Safe!Typed, Safe!WellFormedCalls
  <2>2. Version(k) + 1 \in Nat
    BY <1>1, StoreShape DEF IInv
  <2>3. /\ pages[c.page] \in Safe!Pages \cup {None}
        /\ Safe!Verdict(pages[c.page], c) = "accepted"
    BY <1>1, <1>6, SameSets, SameDecisions
  <2>4. Safe!Evolve(pages[c.page], Safe!EventOf(pages[c.page], c, Version(k) + 1)) \in Safe!Pages
    BY <2>1, <2>2, <2>3, Safe!EvolveType, StoreAssumptions
  <2>5. QED
    BY <1>1, <2>4, SameSets, SameDecisions DEF PageFor, EventFor
<1>8. PageFor(k).slug = IF c.kind = "CreatePage" THEN c.slug ELSE pages[c.page].slug
  <2>1. CASE c.kind = "CreatePage"
    <3>1. EventFor(k).type = "page_created" /\ EventFor(k).slug = c.slug
      BY <2>1 DEF EventFor, EventOf, EventType, Kinds
    <3>2. QED
      BY <2>1, <3>1 DEF PageFor, Evolve, NewPage
  <2>2. CASE c.kind # "CreatePage"
    BY <1>1, <1>6, <2>2, EvolvedSlug DEF PageFor, EventFor
  <2>3. QED
    BY <2>1, <2>2
<1>9. QED
  BY <1>2, <1>3, <1>4, <1>5, <1>7, <1>8

\* The new state of the database in one place.
LEMMA CommitChanges ==
    ASSUME IInv, NEW k \in Callers, Commit(k), k \in EventWriters
    PROVE  LET c == tx[k].command
           IN  /\ Writing(k) /\ HoldsCommand(k)
               /\ c.kind = "CreatePage" => k \in PageCreators /\ SlugIndex[c.slug] = None
               /\ pages' = [pages EXCEPT ![c.page] = PageFor(k)]
               /\ pages'[c.page] = PageFor(k) /\ PageFor(k) # None
               /\ \A p \in PageIds : p # c.page => pages'[p] = pages[p] /\ events'[p] = events[p]
               /\ events' = [events EXCEPT ![c.page] = Append(@, EventFor(k))]
               /\ events'[c.page] = Append(events[c.page], EventFor(k))
               /\ receipts' = [receipts EXCEPT ![c.id] = ReceiptFor(k)]
               /\ \A d \in CommandIds : d # c.id => receipts'[d] = receipts[d]
               /\ SlugIndex' = IF c.kind = "CreatePage"
                                 THEN [SlugIndex EXCEPT ![c.slug] = c.page] ELSE SlugIndex
<1> DEFINE c == tx[k].command
           Has(s, p) == pages[p] # None /\ pages[p].slug = s
           WillHave(s, p) == pages'[p] # None /\ pages'[p].slug = s
<1>1. /\ tx[k].pc = "commit"
      /\ pages' = [pages EXCEPT ![c.page] = PageFor(k)]
      /\ events' = [events EXCEPT ![c.page] = Append(@, EventFor(k))]
      /\ receipts' = [receipts EXCEPT ![c.id] = ReceiptFor(k)]
  BY DEF Commit
<1>2. Writing(k)
  BY DEF Writing
<1>3. /\ HoldsCommand(k)
      /\ c.id \in CommandIds /\ c.page \in PageIds
      /\ c.kind = "CreatePage" => c.slug \in Slugs /\ pages[c.page] = None
      /\ c.kind # "CreatePage" => pages[c.page] # None
  BY <1>2, WriterFacts
<1>4. c.kind = "CreatePage" => k \in PageCreators /\ SlugIndex[c.slug] = None
  BY <1>1 DEF PageCreators, IInv, TxInv, TxOK
<1>5. /\ PageFor(k) # None
      /\ PageFor(k).slug = IF c.kind = "CreatePage" THEN c.slug ELSE pages[c.page].slug
  BY <1>2, WritesAgree, NoneIsFresh
<1>6. /\ pages'[c.page] = PageFor(k)
      /\ \A p \in PageIds : p # c.page => pages'[p] = pages[p] /\ events'[p] = events[p]
      /\ events'[c.page] = Append(events[c.page], EventFor(k))
      /\ \A d \in CommandIds : d # c.id => receipts'[d] = receipts[d]
  BY <1>1, <1>3, StoreShape DEF IInv
<1>7. \A s \in Slugs, p \in PageIds :
         WillHave(s, p) <=> Has(s, p) \/ (c.kind = "CreatePage" /\ s = c.slug /\ p = c.page)
  BY <1>3, <1>5, <1>6
<1>8. ASSUME NEW s \in Slugs
      PROVE  /\ SlugIndex[s] \in PageIds \cup {None}
             /\ \A p \in PageIds : SlugIndex[s] = p <=> Has(s, p)
             /\ SlugIndex[s] = None <=> ~\E p \in PageIds : Has(s, p)
  BY SlugFacts DEF IInv
<1>9. ASSUME NEW s \in Slugs
      PROVE  SlugIndex'[s] = IF c.kind = "CreatePage" /\ s = c.slug THEN c.page ELSE SlugIndex[s]
  <2>1. SlugIndex'[s] = IF \E p \in PageIds : WillHave(s, p)
                          THEN CHOOSE p \in PageIds : WillHave(s, p) ELSE None
    BY DEF SlugIndex
  <2> HIDE DEF WillHave, Has
  <2>2. CASE \E p \in PageIds : WillHave(s, p)
    <3>1. SlugIndex'[s] \in PageIds /\ WillHave(s, SlugIndex'[s])
      BY <2>1, <2>2
    <3>2. QED
      BY <1>4, <1>7, <1>8, <3>1, NoneIsFresh
  <2>3. CASE ~\E p \in PageIds : WillHave(s, p)
    BY <1>3, <1>7, <1>8, <2>1, <2>3
  <2>4. QED
    BY <2>2, <2>3
<1>10. SlugIndex' = IF c.kind = "CreatePage"
                      THEN [SlugIndex EXCEPT ![c.slug] = c.page] ELSE SlugIndex
  <2>1. /\ SlugIndex = [s \in Slugs |-> SlugIndex[s]]
        /\ SlugIndex' = [s \in Slugs |-> SlugIndex'[s]]
    BY DEF SlugIndex
  <2>2. QED
    BY <1>3, <1>9, <2>1
<1>11. QED
  BY <1>1, <1>2, <1>3, <1>4, <1>5, <1>6, <1>10

\* It is the store's acceptance of the command.
LEMMA CommitIsAcceptance ==
    ASSUME IInv, NEW k \in Callers, Commit(k), k \in EventWriters
    PROVE  Safe!ExecuteAccepted(k)
<1> DEFINE c == tx[k].command
<1>1. /\ tx[k].pc = "commit" /\ tx[k].reply.code = "committed"
      /\ Over(k, tx[k].reply, tx[k].gone)
      /\ outbox' = [e \in EffectIds |->
                      IF e \in EffectsOf(c) /\ outbox[e] = "absent" THEN "pending" ELSE outbox[e]]
  BY DEF Commit, EventWriters
<1>2. Writing(k)
  BY DEF Writing
<1>3. /\ c.id \in CommandIds /\ receipts[c.id] = None
      /\ Verdict(tx[k].row, c) = "accepted"
  BY <1>2, WriterFacts
<1>4. CallBar[k].state = "pending" /\ CallBar[k].command = c
  BY <1>1 DEF CallBar, Abstract
<1>5. tx[k].reply = Safe!Committed(ReceiptFor(k))
  <2>1. CommitStands(k)
    BY <1>1 DEF IInv, TxInv, TxOK
  <2>2. tx[k].reply = Store!Committed(ReceiptFor(k))
    BY <1>1, <2>1 DEF CommitStands, Store!Replayed
  <2>3. QED
    BY <2>2, SameCalls
<1>6. CallBar' = [CallBar EXCEPT ![k] = Safe!Done(c, tx[k].reply)]
  <2>1. PICK t : t = [tx[k] EXCEPT !.pc = "reply", !.row = None, !.locked = None,
                                   !.reply = tx[k].reply, !.gone = tx[k].gone]
    OBVIOUS
  <2>2. Set(k, t)
    BY <1>1, <2>1 DEF Over
  <2>3. tx[k] = Fields(tx[k])
    BY DEF IInv, TxInv
  <2>4. t.pc = "reply" /\ t.command = c /\ t.reply = tx[k].reply
    BY <2>1, <2>3 DEF Fields
  <2>5. tx'[k] = t /\ \A j \in Callers \ {k} : tx'[j] = tx[j]
    BY <2>2, SetTx DEF IInv
  <2>6. QED
    BY <2>4, <2>5 DEF CallBar, Abstract, Safe!Done
<1>7. outbox' = Safe!OutboxAfter(c)
  <2>1. ASSUME NEW e \in EffectIds, e \in EffectsOf(c)
        PROVE  outbox[e] = "absent"
    <3>1. PICK purpose \in {"submission", "report"} : e.event = StableId(c.id, purpose)
      BY <2>1 DEF EffectsOf
    <3>2. QED
      BY <1>3, <3>1, SameSets, SameDecisions DEF IInv, Safe!IInv, Safe!EffectsHaveReceipts
  <2>2. Safe!OutboxAfter(c) = [e \in EffectIds |-> IF e \in EffectsOf(c) THEN "pending" ELSE outbox[e]]
    BY SameSets, SameDecisions DEF Safe!OutboxAfter
  <2>3. QED
    BY <1>1, <2>1, <2>2
<1>8. /\ Safe!StateFor(c) = tx[k].row
      /\ Safe!EventFor(c) = EventFor(k)
      /\ Safe!PageAfter(c) = PageFor(k)
      /\ Safe!ReceiptFor(c) = ReceiptFor(k)
  BY <1>2, WritesAgree
<1>9. ~Safe!Known(c) /\ ~Safe!SlugTaken(c)
  BY <1>3, CommitChanges DEF Safe!Known, Safe!SlugTaken
<1>10. /\ pages' = [pages EXCEPT ![c.page] = PageFor(k)]
       /\ events' = [events EXCEPT ![c.page] = Append(@, EventFor(k))]
       /\ receipts' = [receipts EXCEPT ![c.id] = ReceiptFor(k)]
       /\ SlugIndex' = IF c.kind = "CreatePage"
                         THEN [SlugIndex EXCEPT ![c.slug] = c.page] ELSE SlugIndex
  BY CommitChanges
<1>11. Safe!Verdict(Safe!StateFor(c), c) = "accepted"
  BY <1>3, <1>8, SameDecisions
<1>12. CallBar' = [CallBar EXCEPT ![k] = Safe!Done(c, Safe!Committed(Safe!ReceiptFor(c)))]
  BY <1>5, <1>6, <1>8
<1>13. QED
  BY <1>4, <1>7, <1>8, <1>9, <1>10, <1>11, <1>12 DEF Safe!ExecuteAccepted
\* What the other transactions hold survives it: their commands, rows and new slugs
\* are not this one's.
LEMMA CommitKeepsOthers ==
    ASSUME IInv, NEW k \in Callers, Commit(k), k \in EventWriters, NEW j \in Callers \ {k}
    PROVE  TxOK(j)'
<1> DEFINE c == tx[k].command
           d == tx[j].command
<1>1. tx'[j] = tx[j] /\ TxOK(j) /\ TxOK(k) /\ Apart(j, k) /\ Apart(k, j)
  BY SetTx DEF IInv, TxInv, Commit, Over
<1>2. /\ Writing(k) /\ HoldsCommand(k)
      /\ c.kind = "CreatePage" => k \in PageCreators /\ SlugIndex[c.slug] = None
      /\ pages'[c.page] = PageFor(k) /\ PageFor(k) # None
      /\ \A p \in PageIds : p # c.page => pages'[p] = pages[p] /\ events'[p] = events[p]
      /\ \A id \in CommandIds : id # c.id => receipts'[id] = receipts[id]
      /\ SlugIndex' = IF c.kind = "CreatePage"
                        THEN [SlugIndex EXCEPT ![c.slug] = c.page] ELSE SlugIndex
  BY CommitChanges
<1>3. /\ c.id \in CommandIds /\ c.page \in PageIds
      /\ c.kind = "CreatePage" => pages[c.page] = None /\ c.slug \in Slugs
      /\ c.kind # "CreatePage" => tx[k].locked = c.page
  BY <1>2, WriterFacts
<1>4. ASSUME tx[j].pc # "idle"
      PROVE  /\ d.id \in CommandIds /\ d.page \in PageIds
             /\ d.kind = "CreatePage" => d.slug \in Slugs
  BY <1>4, CommandShape DEF IInv
<1>5. /\ (j \in EventWriters)' <=> j \in EventWriters
      /\ (j \in PageCreators)' <=> j \in PageCreators
      /\ Writing(j)' <=> Writing(j)
  BY <1>1 DEF EventWriters, PageCreators, Writing
<1>6. HoldsCommand(j) => tx[j].pc # "idle" /\ receipts'[d.id] = receipts[d.id]
  BY <1>1, <1>2, <1>4 DEF Apart, HoldsCommand, Open, Statements
<1>7. ASSUME tx[j].pc \in Open \cup {"pool"}, d.kind # "CreatePage"
      PROVE  pages'[d.page] # None
  BY <1>1, <1>2, <1>4, <1>7 DEF TxOK, Open, Statements
<1>8. ASSUME tx[j].pc \in Open, d.kind # "CreatePage", tx[j].locked = d.page
      PROVE  pages'[d.page] = pages[d.page]
  <2>1. d.page \in PageIds /\ pages[d.page] # None
    BY <1>1, <1>4, <1>8 DEF TxOK, Open, Statements
  <2>2. d.page # None
    BY <2>1, NoneIsFresh
  <2>3. d.page # c.page
    BY <1>1, <1>3, <1>8, <2>1, <2>2 DEF Apart
  <2>4. QED
    BY <1>2, <2>1, <2>3
<1>9. ASSUME NEW s \in Slugs, SlugIndex[s] # None
      PROVE  SlugIndex'[s] # None
  <2>1. c.page # None
    BY <1>3, NoneIsFresh
  <2>2. QED
    BY <1>2, <1>9, <2>1, StoreShape DEF IInv
<1>10. ASSUME j \in PageCreators
       PROVE  SlugIndex'[d.slug] = None
  <2>1. d.kind = "CreatePage" /\ d.slug \in Slugs /\ SlugIndex[d.slug] = None
    BY <1>1, <1>4, <1>10 DEF PageCreators, EventWriters, TxOK
  <2>2. c.kind = "CreatePage" => d.slug # c.slug
    BY <1>1, <1>2, <1>10 DEF Apart
  <2>3. QED
    BY <1>2, <2>1, <2>2, StoreShape DEF IInv
<1>11. ASSUME Writing(j)
       PROVE  DecisionStands(j)'
  <2>1. HoldsCommand(j) /\ tx[j].pc \in Open
    BY <1>11, WriterFacts DEF Open, Statements
  <2>2. DecisionStands(j)
    BY <1>1, <1>11 DEF TxOK
  <2>3. QED
    BY <1>1, <1>6, <1>8, <2>1, <2>2 DEF DecisionStands
<1>12. ASSUME tx[j].pc = "commit"
       PROVE  CommitStands(j)'
  <2>1. HoldsCommand(j) /\ CommitStands(j)
    BY <1>1, <1>12 DEF TxOK, HoldsCommand, Open
  <2>2. ReceiptFor(j)' = ReceiptFor(j)
    BY <1>1 DEF ReceiptFor, PageFor, EventFor, Version
  <2>3. QED
    BY <1>1, <1>6, <2>1, <2>2 DEF CommitStands, SameIntent, Store!Committed, Store!Replayed
<1>13. ASSUME tx[j].pc = "abort"
       PROVE  AbortStands(j)'
  <2>1. AbortStands(j)
    BY <1>1, <1>13 DEF TxOK
  <2>2. CASE tx[j].reply = Store!Unavailable
    BY <1>1, <2>2 DEF AbortStands, Store!Unavailable, Store!Rejected
  <2>3. CASE tx[j].reply # Store!Unavailable
    <3>1. receipts'[d.id] = receipts[d.id] /\ tx[j].pc \in Open
      BY <1>6, <1>13, <2>3 DEF HoldsCommand, Open
    <3>2. d.kind = "CreatePage" /\ SlugIndex[d.slug] # None => SlugIndex'[d.slug] # None
      BY <1>4, <1>9, <1>13
    <3>3. d.kind # "CreatePage" /\ tx[j].locked = d.page => pages'[d.page] = pages[d.page]
      BY <1>8, <3>1
    <3>4. QED
      BY <1>1, <2>1, <2>3, <3>1, <3>2, <3>3
         DEF AbortStands, Store!Unavailable, Store!Rejected, SameIntent
  <2>4. QED
    BY <2>2, <2>3
<1>14. tx[j].pc = "row" => receipts'[d.id] = None
  BY <1>1, <1>6 DEF TxOK, HoldsCommand, Open, Statements
<1>15. QED
  BY <1>1, <1>5, <1>7, <1>10, <1>11, <1>12, <1>13, <1>14 DEF TxOK

\* After a commit every event still tells the page and the revision it is stored under.
LEMMA CommitKeepsEvents ==
    ASSUME IInv, NEW k \in Callers, Commit(k), k \in EventWriters
    PROVE  EventsSayWhere'
<1> DEFINE c == tx[k].command
           n == Len(events[c.page]) + 1
<1>1. /\ Writing(k)
      /\ \A p \in PageIds : p # c.page => events'[p] = events[p]
      /\ events'[c.page] = Append(events[c.page], EventFor(k))
  BY CommitChanges
<1>2. c.page \in PageIds /\ c.kind \in Kinds /\ Version(k) = Len(events[c.page])
  BY <1>1, WriterFacts
<1>3. /\ EventFor(k).page = c.page /\ EventFor(k).index = n
      /\ EventFor(k).id = StableId(c.id, EventPurpose[c.kind])
      /\ EventFor(k).command = c.id
      /\ EventPurpose[c.kind] \in Purposes
  BY <1>2 DEF EventFor, EventOf, EventPurpose, Purposes
<1>4. events[c.page] \in Seq(Events)
  BY <1>2, StoreShape DEF IInv
<1>5. /\ n \in Nat /\ Len(events'[c.page]) = n
      /\ events'[c.page][n] = EventFor(k)
      /\ \A i \in 1..Len(events[c.page]) : events'[c.page][i] = events[c.page][i]
  <2>1. \A es \in Seq(Events) : \A new : new = Append(es, EventFor(k)) =>
           /\ Len(es) + 1 \in Nat
           /\ Len(new) = Len(es) + 1
           /\ new[Len(es) + 1] = EventFor(k)
           /\ \A i \in 1..Len(es) : new[i] = es[i]
    OBVIOUS
  <2>2. events'[c.page] = Append(events[c.page], EventFor(k))
    BY <1>1
  <2>3. n \in Nat /\ Len(events'[c.page]) = n
    BY <1>4, <2>1, <2>2, Zenon
  <2>4. events'[c.page][n] = EventFor(k)
    BY <1>4, <2>1, <2>2, Zenon
  <2>5. \A i \in 1..Len(events[c.page]) : events'[c.page][i] = events[c.page][i]
    BY <1>4, <2>1, <2>2, Zenon
  <2>6. QED
    BY <2>3, <2>4, <2>5
<1>6. ASSUME NEW p \in PageIds, NEW i \in 1..Len(events'[p])
      PROVE  /\ events'[p][i].page = p
             /\ events'[p][i].index = i
             /\ \E purpose \in Purposes : events'[p][i].id = StableId(events'[p][i].command, purpose)
  <2>1. CASE p = c.page /\ i = n
    <3>1. events'[p][i] = EventFor(k)
      BY <1>5, <2>1
    <3>2. QED
      BY <1>3, <2>1, <3>1
  <2>2. CASE ~(p = c.page /\ i = n)
    <3>1. CASE p = c.page
      <4>1. PICK m \in Nat : m = Len(events[p])
        BY <1>4, <3>1
      <4>2. n = m + 1 /\ Len(events'[p]) = n
        BY <1>5, <3>1, <4>1
      <4> HIDE DEF n
      <4>3. i \in 1..(m + 1) /\ i # m + 1
        BY <1>6, <2>2, <3>1, <4>2
      <4>4. i \in 1..m
        BY <4>3
      <4>5. i \in 1..Len(events[p]) /\ events'[p][i] = events[p][i]
        BY <1>5, <3>1, <4>1, <4>4
      <4>6. QED
        BY <4>5 DEF IInv, TxInv, EventsSayWhere
    <3>2. CASE p # c.page
      <4>1. i \in 1..Len(events[p]) /\ events'[p][i] = events[p][i]
        BY <1>1, <3>2
      <4>2. QED
        BY <4>1 DEF IInv, TxInv, EventsSayWhere
    <3>3. QED
      BY <3>1, <3>2
  <2>3. QED
    BY <2>1, <2>2
<1>7. QED
  BY <1>6 DEF EventsSayWhere

\* A commit is the store's accepted command.
LEMMA CommitStep ==
    ASSUME IInv, NEW k \in Callers, Commit(k)
    PROVE  TxInv' /\ Safe!Next
<1>1. tx[k].pc = "commit" /\ Over(k, tx[k].reply, tx[k].gone)
  BY DEF Commit
<1>2. CASE k \in EventWriters
  <2>1. PICK t : t = [tx[k] EXCEPT !.pc = "reply", !.row = None, !.locked = None,
                                   !.reply = tx[k].reply, !.gone = tx[k].gone]
    OBVIOUS
  <2>2. tx[k] = Fields(tx[k])
    BY DEF IInv, TxInv
  <2>3. Set(k, t) /\ t = Fields(t) /\ t.pc = "reply" /\ t.locked = None
    BY <1>1, <2>1, <2>2 DEF Over, Fields
  <2>4. /\ tx'[k] = t /\ tx' = [tx EXCEPT ![k] = t]
        /\ \A j \in Callers \ {k} : tx'[j] = tx[j]
    BY <2>3, SetTx DEF IInv, Set
  <2>5. ~(k \in PageCreators)' /\ ~(k \in EventWriters)' /\ ~Writing(k)' /\ ~HoldsCommand(k)'
    BY <2>3, <2>4 DEF PageCreators, EventWriters, Writing, HoldsCommand, Open, Statements
  <2>6. TxOK(k)'
    BY <2>3, <2>4, <2>5 DEF TxOK, Open, Statements
  <2>7. ASSUME NEW j \in Callers
        PROVE  TxOK(j)'
    <3>1. CASE j = k
      BY <2>6, <3>1
    <3>2. CASE j # k
      BY <1>2, <3>2, CommitKeepsOthers
    <3>3. QED
      BY <3>1, <3>2
  <2>8. \A j \in Callers \ {k} : Apart(j, k)' /\ Apart(k, j)'
    BY <2>3, <2>5, NothingTaken DEF IInv
  <2>9. ASSUME NEW i \in Callers \ {k}, NEW j \in Callers \ {k}, i # j
        PROVE  Apart(i, j)'
    <3>1. tx'[i] = tx[i] /\ tx'[j] = tx[j] /\ Apart(i, j)
      BY <2>4, <2>9 DEF IInv, TxInv
    <3>2. /\ HoldsCommand(i)' <=> HoldsCommand(i)
          /\ HoldsCommand(j)' <=> HoldsCommand(j)
      BY <3>1 DEF HoldsCommand, Store!Unavailable, Store!Rejected
    <3>3. /\ (i \in PageCreators)' <=> i \in PageCreators
          /\ (j \in PageCreators)' <=> j \in PageCreators
      BY <3>1 DEF PageCreators, EventWriters
    <3>4. QED
      BY <3>1, <3>2, <3>3 DEF Apart
  <2>10. \A i, j \in Callers : i # j => Apart(i, j)'
    BY <2>8, <2>9
  <2>11. tx' = [j \in Callers |-> Fields(tx'[j])]
    <3>1. DOMAIN tx = Callers /\ \A j \in Callers : tx[j] = Fields(tx[j])
      BY DEF IInv, TxInv
    <3>2. \A j \in Callers : tx'[j] = Fields(tx'[j])
      BY <2>3, <2>4, <3>1
    <3>3. tx' = [j \in Callers |-> tx'[j]]
      BY <2>4, <3>1
    <3>4. QED
      BY <3>2, <3>3
  <2>12. EventsSayWhere'
    BY <1>2, CommitKeepsEvents
  <2>13. TxInv'
    BY <2>7, <2>10, <2>11, <2>12 DEF TxInv
  <2>14. QED
    BY <1>2, <2>13, CommitIsAcceptance DEF Safe!Next, Safe!Execute
<1>3. CASE k \notin EventWriters
  <2>1. UNCHANGED shared
    BY <1>3 DEF Commit
  <2>2. TxInv'
    BY <1>1, <2>1, OverMoves
  <2>3. CommitStands(k)
    BY <1>1 DEF IInv, TxInv, TxOK
  <2>4. /\ tx[k].reply = Store!Replayed(receipts[tx[k].command.id])
        /\ receipts[tx[k].command.id] # None
        /\ SameIntent(receipts[tx[k].command.id], tx[k].command)
    BY <1>1, <1>3, <2>3 DEF CommitStands, EventWriters
  <2>5. Safe!ExecuteKnown(k)
    BY <1>1, <2>1, <2>4, KnownIsAnswered DEF Open
  <2>6. QED
    BY <2>2, <2>5 DEF Safe!Next, Safe!Execute
<1>4. QED
  BY <1>2, <1>3

-----------------------------------------------------------------------------
(***************************************************************************)
(* The joint induction.                                                    *)
(***************************************************************************)
LEMMA InitIsInit == Init => Safe!Init
<1>1. ASSUME Init
      PROVE  Safe!Init
  <2>1. /\ pages = [p \in PageIds |-> None] /\ events = [p \in PageIds |-> <<>>]
        /\ receipts = [c \in CommandIds |-> None] /\ outbox = [e \in EffectIds |-> "absent"]
        /\ tx = [k \in Callers |-> NoTx]
    BY <1>1 DEF Init
  <2>2. SlugIndex = [s \in Slugs |-> None]
    BY <2>1 DEF SlugIndex
  <2>3. CallBar = [k \in Callers |-> Safe!Idle]
    BY <2>1 DEF CallBar, Abstract, NoTx, Safe!Idle
  <2>4. QED
    BY <2>1, <2>2, <2>3, SameSets DEF Safe!Init
<1>2. QED
  BY <1>1

\* An empty database and an idle pool.
LEMMA IInvInit == Init => IInv
<1> SUFFICES ASSUME Init
             PROVE  IInv
  OBVIOUS
<1>1. Safe!IInv
  BY InitIsInit, Safe!IInvInit, StoreAssumptions
<1>2. tx = [k \in Callers |-> NoTx] /\ events = [p \in PageIds |-> <<>>]
  BY DEF Init
<1>3. NoTx = Fields(NoTx) /\ NoTx.pc = "idle" /\ NoTx.locked = None
  BY DEF NoTx, Fields
<1>4. \A k \in Callers : /\ tx[k].pc = "idle" /\ tx[k].locked = None
                         /\ tx[k] = Fields(tx[k])
  BY <1>2, <1>3
<1>5. EventWriters = {} /\ PageCreators = {}
  BY <1>4 DEF EventWriters, PageCreators
<1>6. \A k \in Callers : ~Writing(k) /\ ~HoldsCommand(k)
  BY <1>4, <1>5 DEF Writing, HoldsCommand, Open, Statements
<1>7. \A k \in Callers : TxOK(k)
  BY <1>4, <1>5, <1>6 DEF TxOK, Open, Statements
<1>8. \A j, k \in Callers : j # k => Apart(j, k)
  BY <1>4, <1>5, <1>6 DEF Apart
<1>9. tx = [k \in Callers |-> Fields(tx[k])]
  BY <1>2, <1>3
<1>10. EventsSayWhere
  BY <1>2 DEF EventsSayWhere
<1>11. QED
  BY <1>1, <1>7, <1>8, <1>9, <1>10 DEF IInv, TxInv

\* A step of the adapter keeps what its transactions hold, and is one of the store or
\* none.
LEMMA AdapterStep ==
    ASSUME IInv, [Next]_vars
    PROVE  TxInv' /\ [Safe!Next]_(Safe!vars)
<1>1. ASSUME NEW k \in Callers, Request(k)
      PROVE  TxInv' /\ [Safe!Next]_(Safe!vars)
  BY <1>1, RequestStep
<1>2. ASSUME NEW k \in Callers, Serve(k)
      PROVE  TxInv' /\ [Safe!Next]_(Safe!vars)
  BY <1>2, AcquireStep, LockCommandStep, ReadReceiptStep, ReadPageStep, InsertEventStep,
     WritePageStep, InsertEffectsStep, CommitStep, RollbackStep, ReturnStep DEF Serve
<1>3. ASSUME NEW k \in Callers, Break(k)
      PROVE  TxInv' /\ [Safe!Next]_(Safe!vars)
  BY <1>3, TimeoutStep, DisconnectStep, ServerGivesUpStep, LoseReplyStep DEF Break
<1>4. ASSUME NEW e \in EffectIds, ResolveOutbox(e)
      PROVE  TxInv' /\ [Safe!Next]_(Safe!vars)
  BY <1>4, ResolveOutboxStep
<1>5. CASE BeginOther \/ EndOther \/ UNCHANGED vars
  <2>1. /\ pages' = pages /\ events' = events /\ receipts' = receipts
        /\ outbox' = outbox /\ tx' = tx
    BY <1>5 DEF vars, shared, BeginOther, EndOther
  <2>2. CallBar' = CallBar /\ SlugIndex' = SlugIndex
    BY <2>1 DEF CallBar, SlugIndex
  <2>3. UNCHANGED Safe!vars
    BY <2>1, <2>2 DEF Safe!vars
  <2>4. TxInv'
    BY <2>1, NothingMoves DEF IInv
  <2>5. QED
    BY <2>3, <2>4
<1>6. QED
  BY <1>1, <1>2, <1>3, <1>4, <1>5 DEF Next

\* Every statement, failure and answer keeps what the statements know and what the store promises.
LEMMA IInvStep ==
    ASSUME IInv, [Next]_vars
    PROVE  IInv'
<1>1. TxInv' /\ [Safe!Next]_(Safe!vars)
  BY AdapterStep
<1>2. Safe!IInv'
  BY <1>1, Safe!IInvStep, StoreAssumptions DEF IInv
<1>3. QED
  BY <1>1, <1>2 DEF IInv

\* The transactions hold what they rely on in every reachable state.
THEOREM Invariance == Spec => []IInv
BY IInvInit, IInvStep, PTL DEF Spec

\* Behind the advisory lock and the row lock no statement meets a taken key or a moved
\* version (postgres.py 112-114, 184-239).
THEOREM NoConflictEver == Spec => []NoConflictBehindLocks
BY Invariance, NoConflict, PTL

\* The order of connection, command lock, row and unique keys has no circle, so no set
\* of requests waits for itself (postgres.py 95-116).
THEOREM NeverDeadlocked == Spec => []NoDeadlock
BY Invariance, NobodyWaitsInACircle, PTL

\* The adapter implements the store: whatever its transactions, failures and late
\* commits do, the calls and their answers are those of the in-memory store under its
\* lock (postgres.py 95-239, memory.py 40-92).
THEOREM Refinement == Spec => ImplementsStore
<1>1. Init => Store!Init
  BY InitIsInit, SameInit
<1>2. IInv /\ [Next]_vars => [Store!Next]_(Store!vars)
  BY AdapterStep, SameStep
<1>3. QED
  BY <1>1, <1>2, Invariance, PTL DEF Spec, ImplementsStore, Store!Spec

\* So what the store promises of effects, answers, slugs and quarantines holds of the
\* committed rows and of the answers that reach the routers (postgres.py 112-239).
THEOREM InheritsSafety ==
    Spec => [](/\ Safe!EffectOncePerCommand
               /\ Safe!AnswersAgree
               /\ Safe!SlugsAreUnique
               /\ Safe!QuarantineHolds)
<1>1. IInv => /\ Safe!EffectOncePerCommand
              /\ Safe!AnswersAgree
              /\ Safe!SlugsAreUnique
              /\ Safe!QuarantineHolds
  BY DEF IInv, Safe!IInv
<1>2. QED
  BY <1>1, Invariance, PTL

\* And so do its promises about decisions, the outbox and the projection: a row read
\* under its lock is the row the command is decided on (postgres.py 131-239).
THEOREM InheritsDecisions ==
    Spec => [](/\ Safe!NoStaleDecision
               /\ Safe!OutboxMatchesStreams
               /\ Safe!ProjectionIsReplay)
<1> DEFINE Inv == Safe!DecisionInv /\ Safe!ProjectionIsReplay
<1>1. Init => Inv
  BY InitIsInit, Safe!DecisionInvInit, Safe!ReplayInit, StoreAssumptions
<1>2. ASSUME IInv, Inv, [Next]_vars
      PROVE  Inv'
  <2>1. Safe!IInv /\ [Safe!Next]_(Safe!vars)
    BY <1>2, AdapterStep DEF IInv
  <2>2. Safe!DecisionInv'
    BY <1>2, <2>1, Safe!DecisionInvStep, StoreAssumptions
  <2>3. Safe!ProjectionIsReplay'
    BY <1>2, <2>1, Safe!ReplayStep, StoreAssumptions
  <2>4. QED
    BY <2>2, <2>3
<1>3. Inv => /\ Safe!NoStaleDecision
             /\ Safe!OutboxMatchesStreams
             /\ Safe!ProjectionIsReplay
  BY DEF Safe!DecisionInv
<1> HIDE DEF Inv
<1>4. QED
  BY <1>1, <1>2, <1>3, Invariance, PTL DEF Spec
=============================================================================
