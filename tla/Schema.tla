-------------------------------- MODULE Schema --------------------------------
(***************************************************************************)
(* The wiki's migrations (PostgresWikiStore.ensure_schema and ping in      *)
(* app/wiki/postgres.py): every replica brings the schema to the one its   *)
(* own release expects, in one transaction under a database-wide lock, or  *)
(* refuses to start.                                                       *)
(*                                                                         *)
(* A schema is the rows of wiki_schema_migrations, <<version, checksum>>,  *)
(* and the tables: the checksums of the migrations whose columns,          *)
(* constraints and indexes are there.  A statement sees what is committed  *)
(* and what its own transaction has added.                                 *)
(***************************************************************************)
EXTENDS Integers, SequencesExt

CONSTANTS
    Processes, NoReplica,
    Repeatable  \* the migrations, by their checksums, of which every statement is IF NOT EXISTS

VARIABLES
    schema,  \* what is committed
    lock,    \* who holds the advisory lock
    tx       \* each replica's transaction: its new rows, and how far it has come

schemaVars == <<schema, lock, tx>>

NoTx == [added |-> {}, done |-> 0]

\* The columns, constraints and indexes a release's code requires: those its migrations make.
RequiredTables(ms) == {m[2] : m \in Range(ms)}

\* _migration_specs: ms is a release's migrations in order.  The schema they make:
SchemaOf(ms) == [rows |-> Range(ms), tables |-> RequiredTables(ms)]

\* _schema_is_current: exactly the tables and the rows of the release.
Current(s, ms) == s = SchemaOf(ms)

\* What r's transaction sees.
Seen(r) == [rows   |-> schema.rows \cup tx[r].added,
            tables |-> schema.tables \cup {m[2] : m \in tx[r].added}]

SchemaInit(s) ==
    /\ schema = s
    /\ lock = NoReplica
    /\ tx = [r \in Processes |-> NoTx]

\* BEGIN, pg_advisory_xact_lock, CREATE TABLE IF NOT EXISTS: a waiter is served in turn.
Acquire(r) ==
    /\ lock = NoReplica
    /\ lock' = r
    /\ UNCHANGED <<schema, tx>>

\* The next migration, and the row that says it was applied.
Migrated(r, ms) == tx[r].done = Len(ms)
Upcoming(r, ms) == ms[tx[r].done + 1]
Recorded(r, ms) == {row \in Seen(r).rows : row[1] = Upcoming(r, ms)[1]}

\* Its row has another checksum; or its DDL fails on tables that are there, unless it is
\* repeatable and adopts them; or its INSERT fails on a transaction that adds the same.
Refused(r, ms) ==
    \/ Recorded(r, ms) \notin {{}, {Upcoming(r, ms)}}
    \/ /\ Recorded(r, ms) = {}
       /\ \/ Upcoming(r, ms)[2] \in Seen(r).tables \ Repeatable
          \/ \E q \in Processes \ {r} : Upcoming(r, ms) \in tx[q].added

Migrate(r, ms) ==
    /\ tx' = [tx EXCEPT ![r] = [added |-> @.added \cup ({Upcoming(r, ms)} \ schema.rows),
                                done |-> @.done + 1]]
    /\ UNCHANGED <<schema, lock>>

\* The lock goes with the transaction, however it ends.
KeepLock(r) == lock  \* a slip
Unlocked(r) == IF lock = r THEN NoReplica ELSE lock

Commit(r) ==
    /\ schema' = Seen(r)
    /\ lock' = Unlocked(r)
    /\ tx' = [tx EXCEPT ![r] = NoTx]
KeepsItsDDL(r) ==  \* a slip
    /\ schema' = Seen(r)
    /\ lock' = Unlocked(r)
    /\ tx' = [tx EXCEPT ![r] = NoTx]
Rollback(r) ==
    /\ lock' = Unlocked(r)
    /\ tx' = [tx EXCEPT ![r] = NoTx]
    /\ UNCHANGED schema
=============================================================================
