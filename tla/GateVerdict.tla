------------------------------- MODULE GateVerdict -------------------------------
(***************************************************************************)
(* What a gate concludes from one read of the store (engine/gate.py), how  *)
(* strong a spec is before any event is read, and the exit code a command  *)
(* ends with.  Every operator is a pure function of the spec, the events   *)
(* and the probe; Arrival decides when they are called.                    *)
(*                                                                         *)
(* A spec is [expect, forbid, allow, pin, threshold, corroborate, sign,    *)
(* justified]; a rule may also carry optional, pending, weight and, where  *)
(* its number is written as `target`, aliased.  A threshold or a ratio is  *)
(* [num, den].  Left out: labels and messages.                             *)
(***************************************************************************)
EXTENDS TraceChecks

Flagged(r, flag) == flag \in DOMAIN r /\ r[flag]

Weight(r) == IF "weight" \in DOMAIN r THEN r.weight ELSE 1

Total(S, f(_)) == FoldSet(LAMBDA k, t : t + f(k), 0, S)

-----------------------------------------------------------------------------
(* Strength of a rule, from the rule alone.                                *)

Metamorphic == {"equal", "idempotent", "scaled", "subset", "monotone"}

ByKind == [absent |-> "forbid", order |-> "ordered", ratio |-> "ratio",
           heartbeat |-> "liveness", conforms |-> "conformance", external |-> "external"]

Rank == [bounded |-> 2, forbid |-> 3, ordered |-> 3, ratio |-> 4, liveness |-> 4,
         conformance |-> 4, invariant |-> 5, metamorphic |-> 5, external |-> 6] @@
        [s \in {"existence-only"} |-> 1] @@ [s \in {"value-pinned"} |-> 3]

PinsAValue(r) ==
    \/ r.kind = "present" /\ \E m \in r.all : m.tag # Anything
    \/ r.kind = "count" /\ r.on.tag # Anything

Strength(r) ==
    IF r.kind \in DOMAIN ByKind THEN ByKind[r.kind]
    ELSE IF r.kind = "relation" THEN IF r.rel \in Metamorphic THEN "metamorphic" ELSE "invariant"
    ELSE IF PinsAValue(r) THEN "value-pinned"
    ELSE IF r.kind = "count" /\ Norm(r.op) \in {"==", "!=", "<=", "<"} THEN "bounded"
    ELSE "existence-only"

MayGate(r) == ~Flagged(r, "optional") /\ ~Flagged(r, "pending")

Declared(spec) == {k \in DOMAIN spec.expect : MayGate(spec.expect[k])}

(* The findings that block (VAC0, VAC1, VAC2, VAC4); VAC3 is a warning.    *)
(* The operator is read as it is written, and a number only from `count`.  *)
Blocking(spec) ==
    \/ spec.expect = << >> \/ Declared(spec) = {}
    \/ spec.threshold # None /\ spec.threshold.num < spec.threshold.den /\ ~spec.justified
    \/ \E k \in Declared(spec) : LET r == spec.expect[k] IN
          r.kind = "count" /\ r.op = ">=" /\ ~Flagged(r, "aliased") /\ r.want <= 0

Pinned(spec) == IF spec.threshold = None THEN [num |-> 1, den |-> 1] ELSE spec.threshold

OfClass(spec, class) == {k \in Declared(spec) : Strength(spec.expect[k]) = class}

RawScore(spec) == Total(Declared(spec), LAMBDA k : Rank[Strength(spec.expect[k])])

(* SLIP: the switches that enforce are not compared.                       *)
CountsCompared(base, spec) ==
    \/ Cardinality(Declared(spec)) < Cardinality(Declared(base))
    \/ RawScore(spec) < RawScore(base)

(* compare_strength of two fingerprints.                                   *)
Weakened(base, spec) ==
    LET tb == Pinned(base) tc == Pinned(spec) IN
    \/ Cardinality(Declared(spec)) < Cardinality(Declared(base))
    \/ RawScore(spec) * tc.num * tb.den < RawScore(base) * tb.num * tc.den
    \/ tc.num * tb.den < tb.num * tc.den
    \/ \E class \in {"invariant", "ratio", "conformance", "liveness", "ordered", "forbid",
                     "value-pinned"} :
          Cardinality(OfClass(spec, class)) < Cardinality(OfClass(base, class))
    \/ base.sign /\ ~spec.sign
    \/ base.corroborate /\ ~spec.corroborate
    \/ base.forbid /\ ~spec.forbid
    \/ Cardinality(spec.allow) > Cardinality(base.allow)

-----------------------------------------------------------------------------
(* The judgement of one read.                                              *)

Errors == [name |-> Anything, tag |-> "ERROR"]

(* The spec's exemptions are those of every absent rule.                   *)
Exempting(spec, r) == IF r.kind = "absent" THEN [r EXCEPT !.allow = spec.allow] ELSE r

(* The rules the spec lists and the two it switches on.                    *)
AllRules(spec) ==
    [k \in DOMAIN spec.expect |-> Exempting(spec, spec.expect[k])]
    \o (IF spec.forbid
        THEN << [kind |-> "absent", any |-> {Errors}, allow |-> spec.allow] >> ELSE << >>)
    \o (IF spec.pin # None
        THEN << [kind |-> "relation", left |-> [name |-> Anything, tag |-> Anything],
                 right |-> [name |-> Anything, tag |-> spec.pin], lred |-> "count",
                 rred |-> "count", rel |-> "==", tol |-> 0] >> ELSE << >>)

Answered(probe) == probe # None /\ probe.reachable

(* The external fact of a rule, as a probe that was reached and read all   *)
(* of its source reports it.                                               *)
FactHolds(r, probe) ==
    /\ Answered(probe)
    /\ IF r.want = None THEN probe.value # None
       ELSE IF Norm(r.op) = "!=" THEN probe.value # r.want
       ELSE /\ probe.value # None
            /\ IF Norm(r.op) = "==" THEN Within(probe.value, r.want, r.tol)
               ELSE Compare(Norm(r.op), probe.value, r.want)

(* No fact cannot be less or more than one: the comparison raises.         *)
Raises(spec, probe) == \E k \in DOMAIN spec.expect : LET r == spec.expect[k] IN
    /\ r.kind = "external" /\ Answered(probe) /\ probe.value = None
    /\ r.want # None /\ Norm(r.op) \notin {"==", "!="}

Passes(r, s, clean, probe) ==
    IF r.kind = "external" THEN FactHolds(r, probe) ELSE clean /\ Holds(r, s)

(* Did the check see evidence, or did it pass on absence?                  *)
Charged(r, s, probe) ==
    \/ r.kind = "count" /\ Hits(s, r.on) # {}
    \/ r.kind = "present" /\ \E m \in r.all : Hits(s, m) # {}
    \/ r.kind = "absent" /\ ~Holds(r, s)
    \/ r.kind = "order" /\ \E k \in DOMAIN r.seq : Timed(s, r.seq[k]) # {}
    \/ r.kind = "heartbeat" /\ Timed(s, r.name) # {}
    \/ r.kind = "ratio" /\ Hits(s, r.total) # {}
    \/ r.kind = "relation" /\ Evidence(r.lred, Values(s, r.left), Cardinality(Hits(s, r.left)))
                           /\ Evidence(r.rred, Values(s, r.right), Cardinality(Hits(s, r.right)))
    \/ r.kind = "conforms" /\ Ontology # None /\ \E i \in DOMAIN s :
          /\ r.target \in {Anything, s[i].name}
          /\ s[i].name \in DOMAIN Ontology \/ r.closed
    \/ r.kind = "external" /\ Answered(probe) /\ probe.value # None

(* The checks that can turn a gate red.                                    *)
Gating(spec) == {k \in DOMAIN AllRules(spec) :
    MayGate(AllRules(spec)[k]) /\ ~Tautological(AllRules(spec)[k])}

Met(spec, s, clean, probe) ==
    {k \in Gating(spec) : Passes(AllRules(spec)[k], s, clean, probe)}

(* A check corroborates if an independent source was read and agreed.      *)
Corroborated(spec, s, clean, probe) == {k \in Met(spec, s, clean, probe) :
    AllRules(spec)[k].kind = "external" /\ probe.separate /\ ~probe.same_endpoint}

(* SLIP: one check that is met is enough.                                  *)
AnyMet(spec, met) == met # {}

Quorum(spec, met) ==
    LET w(k) == Weight(AllRules(spec)[k])
        all == Total(Gating(spec), w)
    IN IF spec.threshold = None THEN met = Gating(spec)
       ELSE IF all = 0 THEN spec.threshold.num <= spec.threshold.den
       ELSE Total(met, w) * spec.threshold.den >= spec.threshold.num * all

Green(spec, s, read, probe, authentic) ==
    /\ read.reachable /\ read.complete /\ Gating(spec) # {}
    /\ Quorum(spec, Met(spec, s, TRUE, probe))
    /\ spec.corroborate => Corroborated(spec, s, TRUE, probe) # {}
    /\ spec.sign => authentic

AsksAFact(spec) == \E k \in DOMAIN spec.expect : spec.expect[k].kind = "external"

Unprobed(spec, probe) == AsksAFact(spec) /\ probe # None /\ ~probe.reachable

(* The verdict of a read that is not green.                                *)
Unmet(spec, read, probe) ==
    IF ~read.reachable \/ ~read.complete \/ Unprobed(spec, probe)
    THEN "inconclusive" ELSE "absent"

(* Where a verdict stands on the ladder of evidence.                       *)
Tier(spec, s, read, probe) ==
    LET clean == read.reachable /\ read.complete
        passing == {Strength(AllRules(spec)[k]) : k \in
                      {j \in DOMAIN AllRules(spec) : Passes(AllRules(spec)[j], s, clean, probe)}}
    IN IF Gating(spec) = {} \/ ~read.reachable THEN "local_pass"
       ELSE IF Corroborated(spec, s, clean, probe) # {} THEN "external_verdict"
       ELSE IF passing \cap {"invariant", "metamorphic"} # {} THEN "queryable_causal"
       ELSE IF \E k \in Gating(spec) : Charged(AllRules(spec)[k], s, probe) THEN "arrived"
       ELSE "emitted"

(* The ladder every command exits with.                                    *)
ExitCode(ok, verdict) == IF ok THEN 0 ELSE IF verdict = "inconclusive" THEN 2 ELSE 1

-----------------------------------------------------------------------------
(* The mutants of a baseline: each expectation's events dropped, its value *)
(* corrupted, an error injected.  A gate that stays green misses them.     *)
(* These are all a baseline may get: the code makes one per label.         *)

Targets(r) ==
    IF r.kind = "present" THEN r.all
    ELSE IF r.kind = "order" THEN {[name |-> r.seq[1], tag |-> Anything]}
    ELSE IF r.kind = "count" THEN {r.on}
    ELSE IF r.kind \in {"relation", "external"} THEN {[name |-> Anything, tag |-> Anything]}
    ELSE {}

Dropped(s, m) == SelectSeq(s, LAMBDA e : ~Matches(e, m))

Corrupted(s, m) == [i \in DOMAIN s |->
    IF Matches(s[i], m) THEN [s[i] EXCEPT !.tag = "mutant"] ELSE s[i]]

Injected(s) == Append(s, [name |-> "mutant", tag |-> "ERROR", ts |-> Len(s), seq |-> 0, val |-> None])

(* Does the spec seem to forbid errors?  An absent rule does, advisory or  *)
(* not, unless it pins a level that is none (no tag here is such a level). *)
ForbidsErrors(spec) ==
    spec.forbid \/ \E k \in DOMAIN spec.expect :
        spec.expect[k].kind = "absent" /\ spec.expect[k].any # {}

MutantsOf(spec, s) ==
    LET ms == UNION {Targets(spec.expect[k]) : k \in Declared(spec)}
    IN ({Dropped(s, m) : m \in ms}
        \cup {Corrupted(s, m) : m \in {n \in ms : n.tag # Anything}}
        \cup (IF ForbidsErrors(spec) THEN {Injected(s)} ELSE {})) \ {s}
=============================================================================
