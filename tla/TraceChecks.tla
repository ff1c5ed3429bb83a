------------------------------- MODULE TraceChecks -------------------------------
(***************************************************************************)
(* The vocabulary of gate rules (ooptdd engine/monitor.py, gate.py): what  *)
(* an event is, when a matcher matches it, and what each kind of rule      *)
(* says of a whole trace.  Holds is the batch reading, in the order of the *)
(* store's timestamps; TraceMonitor computes it one event at a time.       *)
(*                                                                         *)
(* An event is [name, tag, ts, seq, val]; tag stands for the other fields  *)
(* a `where` can pin.  A rule is a record with its kind, which is the      *)
(* keyword the spec wrote it with.                                         *)
(***************************************************************************)
EXTENDS Integers, Sequences, FiniteSets, SequencesExt

CONSTANTS
    Anything,      \* in a matcher: this field is not looked at
    None,     \* a field the event does not have
    Ontology  \* declared event name -> the tags its type accepts, or None

Alias == [gte |-> ">=", ge |-> ">=", gt |-> ">", eq |-> "==", ne |-> "!=",
          lte |-> "<=", le |-> "<=", lt |-> "<"]

(* The operator a rule is compiled with; None: a count or a ratio that     *)
(* names none.                                                             *)
Norm(op) == IF op = None THEN ">=" ELSE IF op \in DOMAIN Alias THEN Alias[op] ELSE op

Compare(op, a, b) ==
    \/ op = ">=" /\ a >= b
    \/ op = ">" /\ a > b
    \/ op = "==" /\ a = b
    \/ op = "!=" /\ a # b
    \/ op = "<=" /\ a <= b
    \/ op = "<" /\ a < b

Within(a, b, tol) == a - b <= tol /\ b - a <= tol

Matches(ev, m) == m.name \in {Anything, ev.name} /\ m.tag \in {Anything, ev.tag}

MatchesSome(ev, ms) == \E m \in ms : Matches(ev, m)

(* The sort key of a stream: untimestamped events last, then time, then    *)
(* the store's sequence number.                                            *)
NotAfter(e, f) ==
    \/ e.ts # None /\ f.ts = None
    \/ (e.ts = None <=> f.ts = None) /\ e.ts = f.ts /\ e.seq <= f.seq
    \/ e.ts # None /\ f.ts # None /\ e.ts < f.ts

InOrder(s) == \A i, j \in DOMAIN s : i < j => NotAfter(s[i], s[j])

-----------------------------------------------------------------------------
(* Reductions of the values on one side of a relation.                     *)

Reduce(how, vals, n) ==
    CASE how = "count" -> n
      [] how = "sum" -> FoldSeq(LAMBDA v, t : v + t, 0, vals)
      [] how = "min" -> CHOOSE v \in ToSet(vals) : \A w \in ToSet(vals) : v <= w
      [] how = "max" -> CHOOSE v \in ToSet(vals) : \A w \in ToSet(vals) : v >= w
      [] how = "last" -> vals[Len(vals)]

Evidence(how, vals, n) == n > 0 /\ (how = "count" \/ vals # << >>)

(* InvariantMonitor's comparisons (== within tol) and the relations of     *)
(* MetamorphicMonitor.                                                     *)
Related(r, a, b) ==
    LET rel == Norm(r.rel) IN
    CASE rel \in {"==", "equal", "idempotent"} -> Within(a, b, r.tol)
      [] rel = "scaled" -> Within(b, r.factor * a, r.tol)
      [] rel = "subset" -> b <= a + r.tol
      [] rel = "monotone" -> b >= a - r.tol
      [] OTHER -> Compare(rel, a, b)

Balances(r, lvals, ln, rvals, rn) ==
    /\ Evidence(r.lred, lvals, ln) /\ Evidence(r.rred, rvals, rn)
    /\ Related(r, Reduce(r.lred, lvals, ln), Reduce(r.rred, rvals, rn))

Valid(ev) == ev.tag \in Ontology[ev.name]

(* Drift or an invalid event of a type the rule is about.                  *)
Breaks(r, ev) ==
    /\ r.target \in {Anything, ev.name}
    /\ IF ev.name \in DOMAIN Ontology THEN ~Valid(ev) ELSE r.closed

Tautological(r) == r.kind = "count" /\ Norm(r.op) = ">=" /\ r.want <= 0

-----------------------------------------------------------------------------
(* What a rule says of a trace, whatever order its events came in.         *)

Hits(s, m) == {i \in DOMAIN s : Matches(s[i], m)}

Timed(s, name) == {i \in DOMAIN s : s[i].name = name /\ s[i].ts # None}

FirstOf(s, name) == CHOOSE i \in Timed(s, name) :
    \A j \in Timed(s, name) : NotAfter(s[i], s[j])

Sorted(s) == SortSeq(s, LAMBDA e, f : ~NotAfter(f, e))

Values(s, m) == LET hits == SelectSeq(Sorted(s), LAMBDA e : Matches(e, m) /\ e.val # None)
                IN [k \in DOMAIN hits |-> hits[k].val]

Ordered(r, s) == \A j \in DOMAIN r.seq : \A i \in 1..(j - 1) :
    NotAfter(s[FirstOf(s, r.seq[i])], s[FirstOf(s, r.seq[j])])

Prompt(r, s) == \A i \in 1..(Len(r.seq) - 1) :
    s[FirstOf(s, r.seq[i + 1])].ts - s[FirstOf(s, r.seq[i])].ts <= r.within

NeverSilent(s, beats, every) == \A i, j \in beats :
    \/ s[j].ts - s[i].ts <= every
    \/ \E k \in beats : s[i].ts < s[k].ts /\ s[k].ts < s[j].ts

Holds(r, s) ==
    \/ r.kind = "count" /\ Compare(Norm(r.op), Cardinality(Hits(s, r.on)), r.want)
    \/ r.kind = "present" /\ \A m \in r.all : Hits(s, m) # {}
    \/ r.kind = "absent" /\ \A i \in DOMAIN s :
            MatchesSome(s[i], r.any) => MatchesSome(s[i], r.allow)
    \/ /\ r.kind = "order"
       /\ \A k \in DOMAIN r.seq : Timed(s, r.seq[k]) # {}
       /\ Ordered(r, s) /\ (r.within = None \/ Prompt(r, s))
    \/ /\ r.kind = "heartbeat"
       /\ Timed(s, r.name) # {} /\ NeverSilent(s, Timed(s, r.name), r.every)
    \/ /\ r.kind = "ratio" /\ Hits(s, r.total) # {}
       /\ Compare(Norm(r.op), r.den * Cardinality(Hits(s, r.good)),
                              r.num * Cardinality(Hits(s, r.total)))
    \/ /\ r.kind = "relation"
       /\ Balances(r, Values(s, r.left), Cardinality(Hits(s, r.left)),
                      Values(s, r.right), Cardinality(Hits(s, r.right)))
    \/ r.kind = "conforms" /\ Ontology # None /\ \A i \in DOMAIN s : ~Breaks(r, s[i])
=============================================================================
