------------------------------ MODULE WikiPostgres ------------------------------
(***************************************************************************)
(* The PostgreSQL adapter of the wiki store (app/wiki/postgres.py): one    *)
(* transaction per command, statement by statement, over a bounded         *)
(* connection pool, with the locks and unique keys the statements meet and *)
(* the failures between them.                                              *)
(*                                                                         *)
(* PostgreSQL itself is modelled as the code uses it at its default level  *)
(* READ COMMITTED: a statement sees what was committed when it starts (a   *)
(* SELECT ... FOR UPDATE, when it gets the row), nothing of a transaction  *)
(* shows before COMMIT, an INSERT waits for an open transaction that holds *)
(* the same unique key, and locks end with the transaction.                *)
(*                                                                         *)
(* What a transaction wrote follows from how far it is, so only pc and the *)
(* row it read are kept, and COMMIT applies the writes.                    *)
(***************************************************************************)
EXTENDS WikiKernel, FiniteSets

CONSTANTS
    Callers,      \* requests in flight, each with its transaction
    Principals,   \* authenticated <<actor, scopes>> pairs
    PoolSize,     \* max_size of the asyncpg pool
    OtherCalls    \* bound: the adapter's other calls at one time

ASSUME PoolSizeIsPositive == PoolSize \in Nat \ {0}

ASSUME PrincipalsAreActors ==
    Principals \subseteq Actors \X {PublicScopes, ModeratorScopes}

VARIABLES
    pages,     \* wiki_pages: committed rows
    events,    \* wiki_events: committed rows of a page by event_index
    receipts,  \* wiki_command_receipts
    outbox,    \* wiki_outbox
    others,    \* how many connections the adapter's other calls hold
    tx         \* each caller's request and transaction

shared == <<pages, events, receipts, outbox, others>>
vars == <<shared, tx>>

(***************************************************************************)
(* The next statement of a transaction:                                    *)
(*   pool     waiting for a connection                                     *)
(*   lock     pg_advisory_xact_lock on the command id                      *)
(*   receipt  SELECT the receipt                                           *)
(*   row      SELECT the page FOR UPDATE, then decide                      *)
(*   event    INSERT the event                                             *)
(*   page     INSERT or UPDATE the page                                    *)
(*   effects  INSERT the outbox effects and the receipt                    *)
(*   commit   COMMIT           abort    ROLLBACK                           *)
(*   reply    over, the answer is on its way        idle  no request       *)
(***************************************************************************)
Statements == {"lock", "receipt", "row", "event", "page", "effects"}
Open == Statements \cup {"commit", "abort"}

\* The store this module implements.  The slug column is unique, so the slug
\* index is a view of the rows.
SlugIndex ==
    [s \in Slugs |->
       IF \E p \in PageIds : pages[p] # None /\ pages[p].slug = s
         THEN CHOOSE p \in PageIds : pages[p] # None /\ pages[p].slug = s
         ELSE None]

Abstract(t) ==
    IF t.pc = "idle" THEN [state |-> "idle", command |-> None, reply |-> None]
    ELSE IF t.pc = "reply"
         THEN [state |-> "done", command |-> t.command, reply |-> t.reply]
    ELSE [state |-> "pending", command |-> t.command, reply |-> None]

Store == INSTANCE WikiStore
           WITH slugToId <- SlugIndex, call <- [k \in Callers |-> Abstract(tx[k])]

\* No record of a receipt is None.
ASSUME NoneIsNoReceipt == None \notin Store!Receipts

NoTx == [pc |-> "idle", command |-> None, row |-> None, locked |-> None,
         reply |-> None, gone |-> FALSE]

Init ==
    /\ pages = [p \in PageIds |-> None]
    /\ events = [p \in PageIds |-> <<>>]
    /\ receipts = [c \in CommandIds |-> None]
    /\ outbox = [e \in EffectIds |-> "absent"]
    /\ others = 0
    /\ tx = [k \in Callers |-> NoTx]

-----------------------------------------------------------------------------
(* Locks and unique keys.                                                  *)

\* Callers that hold a pooled connection: none while it waits for one.
HeldWhileWaiting ==  \* a slip: the read before the command keeps its connection
    {k \in Callers : tx[k].pc \in Open \cup {"pool"} /\ ~tx[k].gone}
PoolUsers == {k \in Callers : tx[k].pc \in Open /\ ~tx[k].gone}
Free == Cardinality(PoolUsers) + others < PoolSize

\* Holders of the advisory lock on a command id, and of the lock on a page row.
\* A transaction whose client is gone still holds its locks.
CommandLocks(id) ==
    {k \in Callers : tx[k].pc \in Open \ {"lock"} /\ tx[k].command.id = id}
UpdateLocks(p) ==  \* a slip: a plain SELECT locks nothing, only the UPDATE does
    {k \in Callers : tx[k].pc \in {"effects", "commit"} /\ tx[k].locked = p}
RowLocks(p) == {k \in Callers : tx[k].pc \in Open /\ tx[k].locked = p}

\* Transactions with an uncommitted event, and with an uncommitted new page.
EventWriters ==
    {k \in Callers : \/ tx[k].pc \in {"page", "effects"}
                     \/ tx[k].pc = "commit" /\ tx[k].reply.code = "committed"}
PageCreators == {k \in EventWriters : tx[k].pc # "page" /\ tx[k].command.kind = "CreatePage"}

\* What transaction k writes, from the row it read.
Version(k) == IF tx[k].row = None THEN 0 ELSE tx[k].row.version
EventFor(k) == EventOf(tx[k].row, tx[k].command, Version(k) + 1)
PageFor(k) == Evolve(tx[k].row, EventFor(k))
ReceiptFor(k) ==
    [fingerprint |-> Fingerprint(tx[k].command), page |-> tx[k].command.page,
     version |-> PageFor(k).version, event |-> EventFor(k).id]

SameEventKey(e, f) == e.id = f.id \/ (e.page = f.page /\ e.index = f.index)

EventKeyTaken(k) ==
    \E p \in PageIds : \E i \in 1..Len(events[p]) : SameEventKey(events[p][i], EventFor(k))

SlugHolder(k) == SlugIndex[tx[k].command.slug]

\* The page row a transaction selects FOR UPDATE; None if no row matches.
TargetRow(k) ==
    IF tx[k].command.kind = "CreatePage" THEN SlugHolder(k)
    ELSE IF pages[tx[k].command.page] # None THEN tx[k].command.page ELSE None

\* The callers that the next step of k has to wait for.  Who waits for a connection also
\* waits for the adapter's other calls: those hold no lock a command needs, and end.
Blockers(k) ==
    CASE tx[k].pc = "pool" -> IF Free THEN {} ELSE PoolUsers
      [] tx[k].pc = "lock" -> CommandLocks(tx[k].command.id) \ {k}
      [] tx[k].pc = "row" -> IF TargetRow(k) = None THEN {} ELSE RowLocks(TargetRow(k)) \ {k}
      [] tx[k].pc = "event" -> {j \in EventWriters \ {k} : SameEventKey(EventFor(j), EventFor(k))}
      [] tx[k].pc = "page" ->
           IF tx[k].command.kind = "CreatePage"
             THEN {j \in PageCreators \ {k} : tx[j].command.slug = tx[k].command.slug}
             ELSE RowLocks(tx[k].command.page) \ {k}
      [] OTHER -> {}

-----------------------------------------------------------------------------
(* The life of a request.                                                  *)

\* A statement of k that waits for nobody, on a connection that still works.
Runs(k, pc) == tx[k].pc = pc /\ Blockers(k) = {} /\ ~tx[k].gone

Set(k, t) == tx' = [tx EXCEPT ![k] = t]
Goto(k, pc) == Set(k, [tx[k] EXCEPT !.pc = pc])
RaiseWith(k, reply) == Set(k, [tx[k] EXCEPT !.pc = "abort", !.row = None, !.reply = reply])

\* The transaction is over: no row is held any more.
Over(k, reply, gone) ==
    Set(k, [tx[k] EXCEPT !.pc = "reply", !.row = None, !.locked = None,
                         !.reply = reply, !.gone = gone])

Request(k) ==
    /\ tx[k].pc = "idle"
    /\ \E id \in CommandIds, who \in Principals : \E c \in Store!Requests(id, who) :
         Set(k, [NoTx EXCEPT !.pc = "pool", !.command = c])
    /\ UNCHANGED shared

Acquire(k) == Runs(k, "pool") /\ Free /\ Goto(k, "lock") /\ UNCHANGED shared

LockCommand(k) == Runs(k, "lock") /\ Goto(k, "receipt") /\ UNCHANGED shared

SameKind(prior, c) == prior.fingerprint.kind = c.kind  \* a slip
SameIntent(prior, c) == prior.fingerprint = Fingerprint(c)

\* A known command id is answered from its receipt, in the same transaction.
ReadReceipt(k) ==
    LET c == tx[k].command
        prior == receipts[c.id]
    IN  /\ Runs(k, "receipt")
        /\ IF prior = None THEN Goto(k, "row")
           ELSE IF SameIntent(prior, c)
                THEN Set(k, [tx[k] EXCEPT !.pc = "commit", !.reply = Store!Replayed(prior)])
           ELSE RaiseWith(k, Store!Rejected("idempotency_conflict"))
        /\ UNCHANGED shared

\* The page a decision is made on is the row as it is once the lock is granted.
ReadPage(k) ==
    LET c == tx[k].command
        target == TargetRow(k)
        state == IF c.kind = "CreatePage" THEN None ELSE pages[c.page]
        verdict == IF c.kind = "CreatePage" /\ target # None THEN "slug_taken"
                   ELSE Verdict(state, c)
    IN  /\ Runs(k, "row")
        /\ Set(k, IF verdict = "accepted"
                  THEN [tx[k] EXCEPT !.pc = "event", !.locked = target, !.row = state]
                  ELSE [tx[k] EXCEPT !.pc = "abort", !.locked = target,
                                     !.reply = Store!Rejected(verdict)])
        /\ UNCHANGED shared

\* A unique key of wiki_events that is already taken is an error like any other.
InsertEvent(k) ==
    /\ Runs(k, "event")
    /\ IF EventKeyTaken(k) THEN RaiseWith(k, Store!Unavailable) ELSE Goto(k, "page")
    /\ UNCHANGED shared

\* A create inserts the row, or hits wiki_pages_slug_key once the other creator
\* of that slug has committed; any other command updates the version it read.
WritePage(k) ==
    LET c == tx[k].command
    IN  /\ Runs(k, "page")
        /\ IF c.kind = "CreatePage"
             THEN IF pages[c.page] # None THEN RaiseWith(k, Store!Unavailable)
                  ELSE IF SlugHolder(k) # None THEN RaiseWith(k, Store!Rejected("slug_taken"))
                  ELSE Goto(k, "effects")
             ELSE IF pages[c.page] # None /\ pages[c.page].version = Version(k)
                  THEN Goto(k, "effects")
                  ELSE RaiseWith(k, Store!Rejected("stream_conflict"))
        /\ UNCHANGED shared

InsertEffects(k) ==
    /\ Runs(k, "effects")
    /\ IF receipts[tx[k].command.id] # None THEN RaiseWith(k, Store!Unavailable)
       ELSE Set(k, [tx[k] EXCEPT !.pc = "commit", !.reply = Store!Committed(ReceiptFor(k))])
    /\ UNCHANGED shared

\* COMMIT shows every write at once and frees the locks.  It also happens when
\* the client has stopped waiting for it.
Commit(k) ==
    LET c == tx[k].command
    IN  /\ tx[k].pc = "commit"
        /\ Over(k, tx[k].reply, tx[k].gone)
        /\ IF k \in EventWriters
             THEN /\ events' = [events EXCEPT ![c.page] = Append(@, EventFor(k))]
                  /\ pages' = [pages EXCEPT ![c.page] = PageFor(k)]
                  /\ outbox' = [e \in EffectIds |->
                       IF e \in EffectsOf(c) /\ outbox[e] = "absent"
                         THEN "pending" ELSE outbox[e]]
                  /\ receipts' = [receipts EXCEPT ![c.id] = ReceiptFor(k)]
                  /\ UNCHANGED others
             ELSE UNCHANGED shared

Rollback(k) ==
    /\ tx[k].pc = "abort"
    /\ ~tx[k].gone
    /\ Over(k, tx[k].reply, FALSE)
    /\ UNCHANGED shared

\* The router has the outcome, or the error that stands for it.
Return(k) == tx[k].pc = "reply" /\ ~tx[k].gone /\ Set(k, NoTx) /\ UNCHANGED shared

-----------------------------------------------------------------------------
(* Failures.                                                               *)

\* A statement takes longer than command_timeout: it is cancelled and the
\* transaction rolls back.
Timeout(k) ==
    /\ tx[k].pc \in Statements
    /\ ~tx[k].gone
    /\ RaiseWith(k, Store!Unavailable)
    /\ UNCHANGED shared

\* The connection breaks, or COMMIT itself times out: the client is told
\* "unavailable" and its connection leaves the pool, while the server still has
\* the transaction and its locks.
Disconnect(k) ==
    /\ tx[k].pc \in Open
    /\ ~tx[k].gone
    /\ Set(k, [tx[k] EXCEPT !.gone = TRUE])
    /\ UNCHANGED shared

\* The server finds the client gone and ends the transaction; one whose COMMIT
\* had arrived may have committed instead (Commit).
ServerGivesUp(k) ==
    /\ tx[k].pc \in Open
    /\ tx[k].gone
    /\ Over(k, Store!Unavailable, FALSE)
    /\ UNCHANGED shared

\* The caller is told "unavailable" in place of the outcome.
LoseReply(k) ==
    /\ tx[k].pc = "reply"
    /\ tx[k].reply # Store!Unavailable
    /\ Set(k, [tx[k] EXCEPT !.reply = Store!Unavailable, !.gone = FALSE])
    /\ UNCHANGED shared

\* The adapter's other calls, the reads, ping and resolve_outbox: each takes a connection
\* of the same pool for a statement or two and gives it back, or loses it.
BeginOther ==
    /\ Free /\ others < OtherCalls
    /\ others' = others + 1
    /\ UNCHANGED <<pages, events, receipts, outbox, tx>>
EndOther ==
    /\ others > 0
    /\ others' = others - 1
    /\ UNCHANGED <<pages, events, receipts, outbox, tx>>

\* resolve_outbox, one UPDATE in a transaction of its own.
ResolveOutbox(e) ==
    /\ others > 0
    /\ e.type = "moderation_report_requested"
    /\ outbox[e] = "pending"
    /\ outbox' = [outbox EXCEPT ![e] = "delivered"]
    /\ UNCHANGED <<pages, events, receipts, others, tx>>

-----------------------------------------------------------------------------
Serve(k) ==
    \/ Acquire(k) \/ LockCommand(k) \/ ReadReceipt(k) \/ ReadPage(k)
    \/ InsertEvent(k) \/ WritePage(k) \/ InsertEffects(k)
    \/ Commit(k) \/ Rollback(k) \/ Return(k)

Break(k) == Timeout(k) \/ Disconnect(k) \/ ServerGivesUp(k) \/ LoseReply(k)

Next ==
    \/ \E k \in Callers : Request(k) \/ Serve(k) \/ Break(k)
    \/ BeginOther \/ EndOther
    \/ \E e \in EffectIds : ResolveOutbox(e)

Spec == Init /\ [][Next]_vars

-----------------------------------------------------------------------------
(* Properties.                                                             *)

\* The transactions, with their failures and their late commits, do what the
\* in-memory store does under its lock.
ImplementsStore == Store!Spec

\* Behind the advisory lock and the row lock no statement ever meets a taken key
\* or a moved version: the only conflict that reaches a constraint is two creates
\* of one slug (postgres.py 112-114, 184-239).
NoConflictBehindLocks ==
    \A k \in Callers :
       LET c == tx[k].command
       IN  /\ tx[k].pc = "event" => ~EventKeyTaken(k) /\ Blockers(k) = {}
           /\ tx[k].pc = "page" /\ c.kind = "CreatePage" => pages[c.page] = None
           /\ tx[k].pc \in {"page", "effects"} /\ c.kind # "CreatePage" =>
                pages[c.page] = tx[k].row
           /\ tx[k].pc = "effects" => receipts[c.id] = None

\* No set of requests waits for itself, however many connections other calls have taken: a
\* caller waiting for a connection waits for any of its users, one waiting for a lock for
\* all of its holders.
NoDeadlock ==
    \A S \in (SUBSET Callers) \ {{}} :
       \E k \in S :
          IF tx[k].pc = "pool" THEN Blockers(k) = {} \/ ~(Blockers(k) \subseteq S)
          ELSE Blockers(k) \cap S = {}

=============================================================================
