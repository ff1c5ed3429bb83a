--------------------------------- MODULE Arrival ---------------------------------
(***************************************************************************)
(* One build of a project that verifies its own trace: the author edits    *)
(* the gate, the run ships its events, and the verifier polls the store    *)
(* until the gate or the session summary has arrived (engine/verify.py,    *)
(* plugin.py, backends/).  The store accepts events and shows them later,  *)
(* in any order, or never; every read of it may be clean, truncated or     *)
(* fail.  Bounded by Retries and MaxEdits.                                 *)
(***************************************************************************)
EXTENDS GateVerdict

CONSTANTS
    Specs,    \* the gates a build may start from
    Facts,    \* what a probe may report; None: no probe is configured
    Emitted,  \* the domain events the run emits
    Reports,  \* the (test, phase) reports of the run
    Retries,  \* poll attempts
    MaxEdits  \* bound: edits of the gate

ASSUME RetriesAtLeastOne == Retries \in Nat \ {0}
ASSUME ReportsAreFinite == IsFiniteSet(Reports)

VARIABLES
    job,       \* [checker, mode, readable, signed, required]: how this build is
               \* configured, and what the signature of its summary turns out to be
    base,      \* the gate as it was fingerprinted ...
    spec,      \* ... and as it is now
    edits,     \* history: weakening edits made
    phase,     \* edit, run, poll or done
    flight,    \* records the store accepted and does not show yet
    store,     \* the records it shows, in its own order
    attempt,   \* polls made
    asked,     \* queried_ok: has any query succeeded?
    started,   \* saw_start: has any read shown session_start?
    last,      \* the last read
    result     \* [ok, verdict, fail, exit]: what the build and the command line are told

env == <<job, base>>
buildVars == <<job, base, spec, edits, phase, flight, store, attempt, asked, started, last,
          result>>

Rec(name, tag, val) == [name |-> name, tag |-> tag, ts |-> 0, seq |-> 0, val |-> val]

Tests == {r[1] : r \in Reports}

SessionStart == Rec("session_start", None, None)

(* One test_outcome per report and one summary over distinct tests.        *)
OutcomeRecords == {Rec("test_outcome", r, None) : r \in Reports}
                  \cup {Rec("test_session", None, Cardinality(Tests))}

NoRead == [reachable |-> FALSE, complete |-> TRUE, rows |-> << >>, probe |-> None]

Unsettled == [ok |-> FALSE, verdict |-> None, fail |-> FALSE, exit |-> 0]

BuildInit ==
    /\ job \in [checker : {"trace", "gate"}, mode : {"warn", "strict", "off"},
                readable : BOOLEAN, required : BOOLEAN,
                signed : {"valid", "invalid", "unsigned", "unverifiable"}]
    /\ job.checker = "gate" =>
          job.mode = "warn" /\ job.readable /\ ~job.required /\ job.signed = "unsigned"
    /\ base \in IF job.checker = "gate" THEN Specs ELSE {None}
    /\ spec = base /\ edits = 0
    /\ phase = IF job.checker = "gate" THEN "edit" ELSE "run"
    /\ flight \in IF job.checker = "gate" THEN {{}} ELSE {{}, {SessionStart}}
    /\ store = << >> /\ attempt = 0 /\ asked = FALSE /\ started = FALSE
    /\ last = NoRead /\ result = Unsettled

polling == <<attempt, asked, started, last>>

-----------------------------------------------------------------------------
(* The author: the free moves that make a gate easier to pass.             *)

Marked(k, flag) == [spec EXCEPT !.expect[k] = (flag :> TRUE) @@ @]

Unpinned(k) == [spec EXCEPT !.expect[k].on.tag = Anything]

WeakerSpecs ==
    {[spec EXCEPT !.expect = RemoveAt(@, k)] : k \in Declared(spec)}
    \cup {Marked(k, flag) : k \in Declared(spec), flag \in {"optional", "pending"}}
    \cup {Unpinned(k) : k \in {j \in Declared(spec) :
              spec.expect[j].kind = "count" /\ PinsAValue(spec.expect[j])}}
    \cup {[spec EXCEPT !.threshold = [num |-> 1, den |-> 2]] : n \in
              IF spec.threshold = None /\ Declared(spec) # {} THEN {1} ELSE {}}
    \cup ({[spec EXCEPT !.forbid = FALSE], [spec EXCEPT !.sign = FALSE],
           [spec EXCEPT !.corroborate = FALSE]} \ {spec})
    \cup {[spec EXCEPT !.allow = {Errors}] : n \in IF spec.allow = {} THEN {1} ELSE {}}

Weaken ==
    /\ phase = "edit" /\ edits < MaxEdits
    /\ spec' \in WeakerSpecs /\ edits' = edits + 1
    /\ UNCHANGED <<env, phase, flight, store, polling, result>>

-----------------------------------------------------------------------------
(* The run and the store.                                                  *)

Emit ==
    /\ phase = "edit"
    /\ \E shipped \in SUBSET Emitted : flight' = shipped
    /\ phase' = "poll"
    /\ UNCHANGED <<env, spec, edits, store, polling, result>>

Finish(fails) ==
    /\ phase' = "done" /\ result' = [result EXCEPT !.fail = fails]

(* session_finish up to the first poll: a ship that fails skips the rest,  *)
(* and a write-only store cannot be verified.                              *)
ShipSession ==
    /\ phase = "run"
    /\ \/ flight' = flight /\ Finish(FALSE)
       \/ /\ flight' = flight \cup OutcomeRecords
          /\ \/ job.mode = "off" /\ Finish(FALSE)
             \/ job.mode # "off" /\ ~job.readable /\ Finish(job.mode = "strict")
             \/ job.mode # "off" /\ job.readable /\ phase' = "poll" /\ UNCHANGED result
    /\ UNCHANGED <<env, spec, edits, store, polling>>

Show(rec) ==
    /\ rec \in flight
    /\ flight' = flight \ {rec} /\ store' = Append(store, rec)
    /\ UNCHANGED <<env, spec, edits, phase, polling, result>>

Lose(rec) ==
    /\ rec \in flight
    /\ flight' = flight \ {rec}
    /\ UNCHANGED <<env, spec, edits, phase, store, polling, result>>

(* What a query may return: a first page that fails is an outage, a later  *)
(* one or the row guard leaves a truncated answer, oldest or newest first. *)
Probed == IF job.checker = "gate" /\ AsksAFact(spec) THEN Facts ELSE {None}

Answers ==
    [reachable : {TRUE}, complete : {TRUE}, rows : {store}, probe : Probed]
    \cup [reachable : {TRUE}, complete : {FALSE}, probe : Probed,
          rows : {SubSeq(store, 1, n) : n \in 1..Len(store)}
                 \cup {SubSeq(store, n, Len(store)) : n \in 1..Len(store)}]
    \cup {[NoRead EXCEPT !.probe = p] : p \in Probed}

-----------------------------------------------------------------------------
(* The pytest summary (verify_trace) under a build policy.                 *)

Named(rows, name) == {i \in DOMAIN rows : rows[i].name = name}

(* What the first summary says the run's total is.                         *)
DeclaredTotal(rows) == rows[Min(Named(rows, "test_session"))].val

(* A summary in a complete prefix settles the poll.                        *)
Summarised(read) == read.complete /\ Named(read.rows, "test_session") # {}

(* SLIP: outcomes that did not arrive are not counted.                     *)
NoLoss(rows) == FALSE

PartialLoss(rows) == Cardinality(Named(rows, "test_outcome")) < DeclaredTotal(rows)

(* signature_status, and whether an unsigned summary will do.              *)
Trusted == job.signed # "invalid" /\ (job.required => job.signed = "valid")

Confirmed(rows) ==
    ~PartialLoss(rows) /\ DeclaredTotal(rows) = Cardinality(Tests) /\ Trusted

(* SLIP: a store that never answered is taken for one without the trace.   *)
TakenForEmpty(read, queried) == IF ~read.complete THEN "inconclusive" ELSE "absent"

(* The verdict once every attempt was used without a summary.              *)
LastWord(read, queried) == IF ~queried \/ ~read.complete THEN "inconclusive" ELSE "absent"

(* verify_policy: a summary with a wrong signature fails in every mode.    *)
Fails(ok, verdict) ==
    \/ verdict = "present" /\ job.signed = "invalid"
    \/ ~ok /\ verdict # "inconclusive" /\ job.mode = "strict"

Decide(ok, verdict) ==
    /\ phase' = "done"
    /\ result' = [ok |-> ok, verdict |-> verdict, fail |-> Fails(ok, verdict),
                  exit |-> ExitCode(ok, verdict)]

(* What raises on the way to a verdict is none: only strict fails on it,   *)
(* and a command exits with a traceback (1) or as misused (2).             *)
Broken(code) ==
    /\ phase' = "done"
    /\ result' = [ok |-> FALSE, verdict |-> "error", fail |-> job.mode = "strict", exit |-> code]

Judged(read) ==
    \/ Summarised(read) /\ Decide(Confirmed(read.rows), "present")
    \/ ~Summarised(read) /\ attempt' < Retries /\ UNCHANGED <<phase, result>>
    \/ /\ ~Summarised(read) /\ attempt' = Retries
       /\ Decide(FALSE, LastWord(read, asked'))

(* Rows carry the time the store received them, so they sort in its order; *)
(* seq is the place in which the run shipped (and chained) them.           *)
Stamped(rows) == [i \in DOMAIN rows |-> [rows[i] EXCEPT !.ts = i]]

Chained(rows) == \A i \in DOMAIN rows : rows[i].seq = i

Satisfied(read) == Green(spec, Stamped(read.rows), read, read.probe, Chained(read.rows))

Settles(read) == Raises(spec, read.probe) \/ Satisfied(read)

Ruled(read) ==
    \/ Raises(spec, read.probe) /\ Broken(1)
    \/ ~Raises(spec, read.probe) /\ Satisfied(read) /\ Decide(TRUE, "present")
    \/ /\ ~Settles(read)
       /\ Decide(FALSE, Unmet(spec, read, read.probe))

(* An arbitrary gate (verify_gate), judged anew on every read; the last    *)
(* read is judged twice, and the probe asked again.                        *)
Gated(read) ==
    \/ Settles(read) /\ Ruled(read) /\ last' = read
    \/ ~Settles(read) /\ attempt' < Retries /\ last' = read /\ UNCHANGED <<phase, result>>
    \/ /\ ~Settles(read) /\ attempt' = Retries
       /\ \E p \in Probed : last' = [read EXCEPT !.probe = p] /\ Ruled(last')

(* One turn of poll_until_present.                                         *)
Poll ==
    /\ phase = "poll"
    /\ attempt' = attempt + 1
    /\ \E read \in Answers :
          /\ asked' = (asked \/ read.reachable)
          /\ started' = (started \/ Named(read.rows, "session_start") # {})
          /\ \/ job.checker = "trace" /\ last' = read /\ Judged(read)
             \/ job.checker = "gate" /\ Gated(read)
    /\ UNCHANGED <<env, spec, edits, flight, store>>

(* A driver that raises instead of answering.                              *)
Crash ==
    /\ phase = "poll"
    /\ \E code \in {1, 2} : Broken(code)
    /\ attempt' = attempt + 1
    /\ UNCHANGED <<env, spec, edits, flight, store, asked, started, last>>

BuildNext ==
    \/ Weaken \/ Emit \/ ShipSession \/ Poll \/ Crash
    \/ \E rec \in flight : Show(rec) \/ Lose(rec)

BuildSpec == BuildInit /\ [][BuildNext]_buildVars

-----------------------------------------------------------------------------

(* A session is confirmed only if its summary arrived and at least as many *)
(* outcomes as it declares, however late, reordered or truncated the reads *)
(* were.                                                                   *)
ConfirmedArrived == result.ok /\ job.checker = "trace" =>
    /\ Named(store, "test_session") # {}
    /\ Cardinality(Named(store, "test_outcome")) >= Cardinality(Tests)

(* Rules that more events can only help, and those of them that nothing at *)
(* all does not satisfy.                                                   *)
Growing(r) == \/ r.kind = "present"
              \/ r.kind = "count" /\ Norm(r.op) \in {">=", ">"} /\ r.want \in Int
Asking(r) == \/ r.kind = "present" /\ r.all # {}
             \/ r.kind = "count" /\ Norm(r.op) = ">=" /\ r.want \in Nat \ {0}
             \/ r.kind = "count" /\ Norm(r.op) = ">" /\ r.want \in Nat

Forbidding(r) == r.kind = "absent" /\ Errors \in r.any

(* A green gate asserted something that was really in the store: unless a  *)
(* quorum was asked for, each of its gating rules that later events cannot *)
(* break still holds of everything the store ever shows, and a gate that   *)
(* asks for something never stands on the rungs that saw nothing.          *)
GateIsBacked == result.ok /\ job.checker = "gate" =>
    /\ Gating(spec) # {}
    /\ spec.threshold = None => \A k \in Gating(spec) : LET r == AllRules(spec)[k] IN
          /\ Growing(r) => Holds(r, Stamped(store))
          /\ Asking(r) => Tier(spec, Stamped(last.rows), last, last.probe)
                            \notin {"local_pass", "emitted"}

(* A green build has something behind it.                                  *)
GreenIsBacked == ConfirmedArrived /\ GateIsBacked

(* A store that never answered and a gate whose last read was not clean    *)
(* never fail a build: an outage is not a miss.  (A driver that raises is  *)
(* taken for a bug.)                                                       *)
OutageIsNoMiss == phase = "done" /\ result.verdict # "error" =>
    /\ ~asked /\ job.readable => ~result.fail /\ result.exit # 1
    /\ job.checker = "gate" /\ result.exit = 1 => last.reachable /\ last.complete

(* Whatever sequence of free moves weakened a gate, comparing fingerprints *)
(* reports it, and if nothing that can fail is left, so does the lint:     *)
(* provided each count names its operator, not by an alias, and gives its  *)
(* number as `count`, which is all the lint reads.                         *)
WeakeningIsReported ==
    /\ edits > 0 => Weakened(base, spec)
    /\ /\ job.checker = "gate" /\ Gating(spec) = {}
       /\ \A k \in DOMAIN spec.expect : spec.expect[k].kind = "count" =>
             spec.expect[k].op = Norm(spec.expect[k].op) /\ ~Flagged(spec.expect[k], "aliased")
       => Blocking(spec)

(* A gate without a quorum whose rules all ask for something or forbid     *)
(* errors kills every mutant of the events it is green on, unless errors   *)
(* are only forbidden by a rule that does not gate.                        *)
NoMutantSurvives ==
    /\ phase = "done" /\ result.ok /\ job.checker = "gate"
    /\ spec.threshold = None /\ spec.allow = {}
    /\ \A k \in Declared(spec) : Asking(spec.expect[k]) \/ Forbidding(spec.expect[k])
    /\ ForbidsErrors(spec) =>
          spec.forbid \/ \E k \in Declared(spec) : Forbidding(spec.expect[k])
    => \A rows \in MutantsOf(spec, last.rows) : ~Satisfied([last EXCEPT !.rows = rows])

(* What makes a gate weak is seen: in its fingerprint and its lint, or in  *)
(* the mutants it lets through.                                            *)
WeakeningIsSeen == WeakeningIsReported /\ NoMutantSurvives

=============================================================================
