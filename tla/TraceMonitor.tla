------------------------------- MODULE TraceMonitor ------------------------------
(***************************************************************************)
(* One monitor automaton of the tracing core (engine/monitor.py), fed one  *)
(* event at a time as LiveMonitorSet feeds it: in whatever order the       *)
(* events arrive.  A batch run sorts the trace first; it is the behaviours *)
(* in which the stream is InOrder.  Each class of monitor is one action    *)
(* over its own accumulator.                                               *)
(*                                                                         *)
(* Bounded by MaxEvents.  Left out: labels and the wording of results.     *)
(***************************************************************************)
EXTENDS TraceChecks

CONSTANTS
    Rules,     \* the rules a monitor may be compiled from
    Events,    \* the events that may arrive
    MaxEvents  \* bound: the length of a stream

ASSUME MaxEventsIsNat == MaxEvents \in Nat

ASSUME NoneIsNoNumber == None \notin Int

ASSUME EventsAreTimed == \A ev \in Events : ev # None /\ ev.ts \in Int \cup {None}

ASSUME RulesAreTyped == \A r \in Rules :
    /\ r.kind = "count" => r.want \in Int
    /\ r.kind = "heartbeat" => r.every \in Nat
    /\ r.kind = "order" => r.within \in Int \cup {None} /\ r.seq \in Seq(ToSet(r.seq))

VARIABLES
    rule,       \* what compile_check was given
    stream,     \* history: the events fed so far
    acc,        \* the accumulator of the rule's class
    verdict,    \* sat, viol or pend
    settled_at  \* the index at which it was latched, or None

vars == <<rule, stream, acc, verdict, settled_at>>

Start ==
    \/ rule.kind \in {"count", "absent", "conforms"} /\ acc = 0
    \/ rule.kind = "present" /\ acc = {}
    \/ rule.kind = "order" /\ acc = [n \in ToSet(rule.seq) |-> None]
    \/ rule.kind = "heartbeat" /\ acc = [beats |-> 0, last |-> None, worst |-> 0]
    \/ rule.kind = "ratio" /\ acc = [good |-> 0, total |-> 0]
    \/ rule.kind = "relation" /\ acc = [left |-> << >>, right |-> << >>, ln |-> 0, rn |-> 0]

Init ==
    /\ rule \in Rules /\ stream = << >> /\ Start
    /\ verdict = IF Tautological(rule) THEN "sat" ELSE "pend"
    /\ settled_at = IF Tautological(rule) THEN -1 ELSE None

-----------------------------------------------------------------------------

(* The first inevitable verdict wins and stays.                            *)
Latch(v) ==
    /\ verdict' = IF verdict = "pend" THEN v ELSE verdict
    /\ settled_at' = IF verdict = "pend" THEN Len(stream) ELSE settled_at

Conclude(lost, won) ==
    \/ lost /\ Latch("viol")
    \/ ~lost /\ won /\ Latch("sat")
    \/ ~lost /\ ~won /\ UNCHANGED <<verdict, settled_at>>

Ignore == UNCHANGED <<acc, verdict, settled_at>>

(* SLIP: a ceiling is lost by the event that reaches it.                   *)
CeilingReached(r, got) == Norm(r.op) \in {"==", "<=", "<"} /\ got >= r.want

CountLost(r, got) ==
    \/ Norm(r.op) \in {"==", "<="} /\ got > r.want
    \/ Norm(r.op) = "<" /\ got >= r.want

CountStep(ev) ==
    /\ rule.kind = "count"
    /\ \/ ~Matches(ev, rule.on) /\ Ignore
       \/ /\ Matches(ev, rule.on)
          /\ acc' = acc + 1
          /\ Conclude(CountLost(rule, acc'),
                      Norm(rule.op) \in {">=", ">"} /\ Compare(Norm(rule.op), acc', rule.want))

PresentStep(ev) ==
    /\ rule.kind = "present"
    /\ acc' = acc \cup {m \in rule.all : Matches(ev, m)}
    /\ Conclude(FALSE, acc' = rule.all)

AbsentStep(ev) ==
    /\ rule.kind = "absent"
    /\ acc' = IF MatchesSome(ev, rule.any) /\ ~MatchesSome(ev, rule.allow) THEN acc + 1 ELSE acc
    /\ Conclude(acc' # acc, FALSE)

Inverted(r, first) == \E j \in DOMAIN r.seq : \E i \in 1..(j - 1) :
    /\ first[r.seq[i]] # None /\ first[r.seq[j]] # None
    /\ ~NotAfter(first[r.seq[i]], first[r.seq[j]])

Late(r, first) == r.within # None /\ \E i \in 1..(Len(r.seq) - 1) :
    /\ first[r.seq[i]] # None /\ first[r.seq[i + 1]] # None
    /\ first[r.seq[i + 1]].ts - first[r.seq[i]].ts > r.within

AllSeen(r, first) == \A n \in ToSet(r.seq) : first[n] # None

OrderStep(ev) ==
    /\ rule.kind = "order"
    /\ \/ (ev.name \notin ToSet(rule.seq) \/ ev.ts = None) /\ Ignore
       \/ /\ ev.name \in ToSet(rule.seq) /\ ev.ts # None
          /\ acc' = [n \in ToSet(rule.seq) |->
                        IF n = ev.name /\ acc[n] = None THEN ev ELSE acc[n]]
          /\ Conclude(Inverted(rule, acc') \/ Late(rule, acc'), AllSeen(rule, acc'))

(* SLIP: the latest gap replaces the worst one.                            *)
HeartbeatForgets(ev) ==
    /\ rule.kind = "heartbeat"
    /\ \/ (ev.name # rule.name \/ ev.ts = None) /\ Ignore
       \/ /\ ev.name = rule.name /\ ev.ts # None
          /\ LET gap == IF acc.last = None THEN 0 ELSE ev.ts - acc.last
             IN /\ acc' = [beats |-> acc.beats + 1, last |-> ev.ts, worst |-> gap]
                /\ Conclude(gap > rule.every, FALSE)

HeartbeatStep(ev) ==
    /\ rule.kind = "heartbeat"
    /\ \/ (ev.name # rule.name \/ ev.ts = None) /\ Ignore
       \/ /\ ev.name = rule.name /\ ev.ts # None
          /\ LET gap == IF acc.last = None THEN 0 ELSE ev.ts - acc.last
             IN /\ acc' = [beats |-> acc.beats + 1, last |-> ev.ts,
                           worst |-> IF gap > acc.worst THEN gap ELSE acc.worst]
                /\ Conclude(gap > rule.every, FALSE)

One(b) == IF b THEN 1 ELSE 0

RatioStep(ev) ==
    /\ rule.kind = "ratio"
    /\ acc' = [good |-> acc.good + One(Matches(ev, rule.good)),
               total |-> acc.total + One(Matches(ev, rule.total))]
    /\ UNCHANGED <<verdict, settled_at>>

Taken(ev, m, vals) == IF Matches(ev, m) /\ ev.val # None THEN Append(vals, ev.val) ELSE vals

RelationStep(ev) ==
    /\ rule.kind = "relation"
    /\ acc' = [left |-> Taken(ev, rule.left, acc.left),
               right |-> Taken(ev, rule.right, acc.right),
               ln |-> acc.ln + One(Matches(ev, rule.left)),
               rn |-> acc.rn + One(Matches(ev, rule.right))]
    /\ UNCHANGED <<verdict, settled_at>>

ConformsStep(ev) ==
    /\ rule.kind = "conforms"
    /\ acc' = IF Ontology # None /\ Breaks(rule, ev) THEN acc + 1 ELSE acc
    /\ Conclude(acc' # acc, FALSE)

Feed(ev) ==
    /\ Len(stream) < MaxEvents
    /\ \/ CountStep(ev) \/ PresentStep(ev) \/ AbsentStep(ev) \/ OrderStep(ev)
       \/ HeartbeatStep(ev) \/ RatioStep(ev) \/ RelationStep(ev) \/ ConformsStep(ev)
    /\ stream' = Append(stream, ev) /\ UNCHANGED rule

Next == \E ev \in Events : Feed(ev)

Spec == Init /\ [][Next]_vars

-----------------------------------------------------------------------------
(* What collapse reports of a clean read: the class's `passed`.            *)

Passed ==
    \/ rule.kind = "count" /\ Compare(Norm(rule.op), acc, rule.want)
    \/ rule.kind = "present" /\ acc = rule.all
    \/ rule.kind = "absent" /\ acc = 0
    \/ rule.kind = "order" /\ AllSeen(rule, acc) /\ ~Inverted(rule, acc) /\ ~Late(rule, acc)
    \/ rule.kind = "heartbeat" /\ acc.beats > 0 /\ acc.worst <= rule.every
    \/ rule.kind = "ratio" /\ acc.total > 0
                           /\ Compare(Norm(rule.op), rule.den * acc.good, rule.num * acc.total)
    \/ rule.kind = "relation" /\ Balances(rule, acc.left, acc.ln, acc.right, acc.rn)
    \/ rule.kind = "conforms" /\ Ontology # None /\ acc = 0

(* A verdict that was latched is the result, now and after every event     *)
(* that can still arrive: a live reader may act on sat or viol at once.    *)
SettledIsFinal ==
    /\ verdict = "sat" => Passed
    /\ verdict = "viol" => ~Passed

(* Rules whose result depends on the order the events are fed in.          *)
OrderSensitive(r) ==
    \/ r.kind \in {"order", "heartbeat"}
    \/ r.kind = "relation" /\ "last" \in {r.lred, r.rred}

(* Fed one by one, a monitor ends with the verdict of the batch count over *)
(* the sorted trace: always when the events arrive in the order of the     *)
(* store, and in any order when the rule does not look at it.              *)
CollapseIsTheRule ==
    InOrder(stream) \/ ~OrderSensitive(rule) => (Passed <=> Holds(rule, stream))

=============================================================================
