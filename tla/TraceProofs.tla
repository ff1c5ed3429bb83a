------------------------------- MODULE TraceProofs -------------------------------
(***************************************************************************)
(* Safety of the tracing core, for every rule, every set of events and     *)
(* every order they arrive in: a verdict a monitor latched is final        *)
(* (TraceMonitor), and what a build is told rests on what the store showed *)
(* (Arrival).                                                              *)
(***************************************************************************)
EXTENDS TraceMonitor, Arrival, FiniteSetTheorems, SequenceTheorems, TLAPS

-----------------------------------------------------------------------------
(***************************************************************************)
(* The monitors: one lemma per class.  Its accumulator only ever moves     *)
(* away from the other verdict.                                            *)
(***************************************************************************)
(* The accumulator belongs to the class of the rule.                       *)
AccOK ==
    /\ rule.kind \in {"count", "absent", "conforms"} => acc \in Nat
    /\ rule.kind = "order" => acc \in [ToSet(rule.seq) -> Events \cup {None}]
    /\ rule.kind = "heartbeat" => /\ acc.beats \in Nat /\ acc.worst \in Int
                                  /\ acc.last \in Int \cup {None}

TypeOK == rule \in Rules /\ AccOK /\ verdict \in {"sat", "viol", "pend"}

(* Only these classes ever latch sat, and only these viol.                 *)
Latching ==
    /\ verdict = "sat" => rule.kind \in {"count", "present", "order"}
    /\ verdict = "viol" => rule.kind \in {"count", "absent", "order", "heartbeat", "conforms"}

(* What a latched verdict says of the accumulator: stronger than Passed    *)
(* for counts, whose operator decides in which direction they are settled. *)
Settled ==
    /\ verdict = "sat" /\ rule.kind = "count" =>
          Norm(rule.op) \in {">=", ">"} /\ Compare(Norm(rule.op), acc, rule.want)
    /\ verdict = "viol" /\ rule.kind = "count" => CountLost(rule, acc)
    /\ verdict = "sat" /\ rule.kind = "present" => acc = rule.all
    /\ verdict = "viol" /\ rule.kind \in {"absent", "conforms"} => acc > 0
    /\ verdict = "sat" /\ rule.kind = "order" =>
          AllSeen(rule, acc) /\ ~Inverted(rule, acc) /\ ~Late(rule, acc)
    /\ verdict = "viol" /\ rule.kind = "order" => Inverted(rule, acc) \/ Late(rule, acc)
    /\ verdict = "viol" /\ rule.kind = "heartbeat" => acc.worst > rule.every

IInv == TypeOK /\ Latching /\ Settled

-----------------------------------------------------------------------------

\* No event was fed yet, so every accumulator is at its start.
LEMMA InitSettled == Init => IInv
<1> SUFFICES ASSUME Init PROVE IInv
  OBVIOUS
<1>1. TypeOK /\ Latching
  BY RulesAreTyped DEF Init, Start, TypeOK, AccOK, Latching, Tautological
<1>2. Settled
  <2>1. CASE Tautological(rule)
    <3>1. rule.kind = "count" /\ acc = 0 /\ Norm(rule.op) = ">=" /\ rule.want <= 0 /\ verdict = "sat"
      BY <2>1 DEF Init, Start, Tautological
    <3>2. rule.want \in Int
      BY <3>1, RulesAreTyped DEF Init
    <3> QED
      BY <3>1, <3>2 DEF Settled, Compare
  <2>2. CASE ~Tautological(rule)
    BY <2>2 DEF Init, Settled
  <2> QED
    BY <2>1, <2>2
<1> QED
  BY <1>1, <1>2 DEF IInv

\* A count that left its interval upwards never comes back.
LEMMA CountSettled ==
    ASSUME IInv, NEW ev \in Events, CountStep(ev), rule' = rule
    PROVE  IInv'
<1>1. rule.kind = "count" /\ acc \in Nat /\ rule.want \in Int
  BY RulesAreTyped DEF IInv, TypeOK, AccOK, CountStep
<1>2. CASE ~Matches(ev, rule.on)
  BY <1>2 DEF IInv, TypeOK, AccOK, Latching, Settled, CountStep, Ignore
<1>3. CASE Matches(ev, rule.on)
  <2> DEFINE won == Norm(rule.op) \in {">=", ">"} /\ Compare(Norm(rule.op), acc', rule.want)
  <2>1. acc' = acc + 1 /\ Conclude(CountLost(rule, acc'), won)
    BY <1>3 DEF CountStep, Ignore
  <2>2. verdict = "viol" => CountLost(rule, acc')
    BY <1>1, <2>1 DEF IInv, Settled, CountLost
  <2>3. verdict = "sat" => won
    BY <1>1, <2>1 DEF IInv, Settled, Compare
  <2>4. /\ verdict' \in {"sat", "viol", "pend"}
        /\ verdict' = "viol" => CountLost(rule, acc')
        /\ verdict' = "sat" => won
    <3> HIDE DEF won
    <3> QED
      BY <2>1, <2>2, <2>3 DEF Conclude, Latch, IInv, TypeOK
  <2> QED
    BY <1>1, <2>1, <2>4 DEF IInv, TypeOK, AccOK, Latching, Settled
<1> QED
  BY <1>2, <1>3

\* What was seen stays seen.
LEMMA PresentSettled ==
    ASSUME IInv, NEW ev \in Events, PresentStep(ev), rule' = rule
    PROVE  IInv'
<1>1. rule.kind = "present" /\ acc' = acc \cup {m \in rule.all : Matches(ev, m)}
  BY DEF PresentStep
<1>2. acc = rule.all => acc' = rule.all
  BY <1>1
<1> QED
  BY <1>1, <1>2 DEF IInv, TypeOK, AccOK, Latching, Settled, PresentStep, Conclude, Latch

\* What was seen can no longer be absent.
LEMMA AbsentSettled ==
    ASSUME IInv, NEW ev \in Events, AbsentStep(ev) \/ ConformsStep(ev), rule' = rule
    PROVE  IInv'
<1>1. rule.kind \in {"absent", "conforms"} /\ acc \in Nat
  BY DEF IInv, TypeOK, AccOK, AbsentStep, ConformsStep
<1>2. acc' \in {acc, acc + 1} /\ Conclude(acc' # acc, FALSE)
  BY DEF AbsentStep, ConformsStep
<1> QED
  BY <1>1, <1>2 DEF IInv, TypeOK, AccOK, Latching, Settled, Conclude, Latch

(* A first occurrence is recorded once, so an inversion or an exceeded gap *)
(* between two of them can never be undone.                                *)
LEMMA OrderSettled ==
    ASSUME IInv, NEW ev \in Events, OrderStep(ev), rule' = rule
    PROVE  IInv'
<1>1. rule.kind = "order" /\ acc \in [ToSet(rule.seq) -> Events \cup {None}]
  BY DEF IInv, TypeOK, AccOK, OrderStep
<1>2. CASE ev.name \notin ToSet(rule.seq) \/ ev.ts = None
  BY <1>2 DEF IInv, TypeOK, AccOK, Latching, Settled, OrderStep, Ignore
<1>3. CASE ev.name \in ToSet(rule.seq) /\ ev.ts # None
  <2>1. /\ acc' = [n \in ToSet(rule.seq) |-> IF n = ev.name /\ acc[n] = None THEN ev ELSE acc[n]]
        /\ Conclude(Inverted(rule, acc') \/ Late(rule, acc'), AllSeen(rule, acc'))
    BY <1>3 DEF OrderStep, Ignore
  <2>2. acc' \in [ToSet(rule.seq) -> Events \cup {None}]
    BY <1>1, <2>1
  <2>3. \A n \in ToSet(rule.seq) : acc[n] # None => acc'[n] = acc[n]
    BY <2>1
  <2>4. /\ rule.seq \in Seq(ToSet(rule.seq))
        /\ \A j \in DOMAIN rule.seq : \A i \in 1..j :
              i \in DOMAIN rule.seq /\ rule.seq[i] \in ToSet(rule.seq)
        /\ \A i \in 1..(Len(rule.seq) - 1) : i \in DOMAIN rule.seq /\ i + 1 \in DOMAIN rule.seq
    BY <1>1, RulesAreTyped DEF IInv, TypeOK
  <2>5. ASSUME Inverted(rule, acc) PROVE Inverted(rule, acc')
    <3>1. PICK j \in DOMAIN rule.seq : \E i \in 1..(j - 1) :
             /\ acc[rule.seq[i]] # None /\ acc[rule.seq[j]] # None
             /\ ~NotAfter(acc[rule.seq[i]], acc[rule.seq[j]])
      BY <2>5 DEF Inverted
    <3>2. PICK i \in 1..(j - 1) :
             /\ acc[rule.seq[i]] # None /\ acc[rule.seq[j]] # None
             /\ ~NotAfter(acc[rule.seq[i]], acc[rule.seq[j]])
      BY <3>1
    <3>3. j \in Int /\ i \in 1..j
      BY <2>4
    <3>4. acc'[rule.seq[i]] = acc[rule.seq[i]] /\ acc'[rule.seq[j]] = acc[rule.seq[j]]
      BY <2>3, <2>4, <3>2, <3>3
    <3> QED
      BY <3>2, <3>4 DEF Inverted
  <2>6. ASSUME Late(rule, acc) PROVE Late(rule, acc')
    <3>1. PICK i \in 1..(Len(rule.seq) - 1) :
             /\ acc[rule.seq[i]] # None /\ acc[rule.seq[i + 1]] # None
             /\ acc[rule.seq[i + 1]].ts - acc[rule.seq[i]].ts > rule.within
      BY <2>6 DEF Late
    <3>2. rule.seq[i] \in ToSet(rule.seq) /\ rule.seq[i + 1] \in ToSet(rule.seq)
      BY <2>4, <3>1 DEF ToSet
    <3>3. acc'[rule.seq[i]] = acc[rule.seq[i]] /\ acc'[rule.seq[i + 1]] = acc[rule.seq[i + 1]]
      BY <2>3, <3>1, <3>2
    <3> QED
      BY <2>6, <3>1, <3>3 DEF Late
  <2>7. AllSeen(rule, acc) => acc' = acc
    <3> SUFFICES ASSUME AllSeen(rule, acc) PROVE acc' = acc
      OBVIOUS
    <3>1. \A n \in ToSet(rule.seq) : acc'[n] = acc[n]
      BY <2>3 DEF AllSeen
    <3> QED
      BY <1>1, <2>2, <3>1
  <2>8. /\ verdict = "viol" => Inverted(rule, acc') \/ Late(rule, acc')
        /\ verdict = "sat" =>
              AllSeen(rule, acc') /\ ~Inverted(rule, acc') /\ ~Late(rule, acc')
    BY <1>1, <2>5, <2>6, <2>7 DEF IInv, Settled
  <2>9. /\ verdict' \in {"sat", "viol", "pend"}
        /\ verdict' = "viol" => Inverted(rule, acc') \/ Late(rule, acc')
        /\ verdict' = "sat" =>
              AllSeen(rule, acc') /\ ~Inverted(rule, acc') /\ ~Late(rule, acc')
    BY <2>1, <2>8 DEF Conclude, Latch, IInv, TypeOK
  <2> QED
    BY <1>1, <2>2, <2>9 DEF IInv, TypeOK, AccOK, Latching, Settled
<1> QED
  BY <1>2, <1>3

(* The longest gap only grows.                                             *)
LEMMA HeartbeatSettled ==
    ASSUME IInv, NEW ev \in Events, HeartbeatStep(ev), rule' = rule
    PROVE  IInv'
<1>1. /\ rule.kind = "heartbeat" /\ rule.every \in Nat
      /\ acc.beats \in Nat /\ acc.worst \in Int /\ acc.last \in Int \cup {None}
  BY RulesAreTyped DEF IInv, TypeOK, AccOK, HeartbeatStep
<1>2. CASE ev.name # rule.name \/ ev.ts = None
  BY <1>2 DEF IInv, TypeOK, AccOK, Latching, Settled, HeartbeatStep, Ignore
<1>3. CASE ev.name = rule.name /\ ev.ts # None
  <2> DEFINE gap == IF acc.last = None THEN 0 ELSE ev.ts - acc.last
  <2>1. /\ acc' = [beats |-> acc.beats + 1, last |-> ev.ts,
                   worst |-> IF gap > acc.worst THEN gap ELSE acc.worst]
        /\ Conclude(gap > rule.every, FALSE)
    BY <1>3 DEF HeartbeatStep, Ignore
  <2>2. ev.ts \in Int /\ gap \in Int
    BY <1>1, <1>3, EventsAreTimed
  <2> HIDE DEF gap
  <2>3. /\ acc'.beats \in Nat /\ acc'.worst \in Int /\ acc'.last \in Int
        /\ acc'.worst >= acc.worst /\ acc'.worst >= gap
    BY <1>1, <2>1, <2>2
  <2>4. verdict' = verdict \/ (verdict' = "viol" /\ gap > rule.every)
    BY <2>1 DEF Conclude, Latch
  <2>5. verdict' = "viol" => acc'.worst > rule.every
    BY <1>1, <2>2, <2>3, <2>4 DEF IInv, Settled
  <2> QED
    BY <1>1, <2>3, <2>4, <2>5 DEF IInv, TypeOK, AccOK, Latching, Settled
<1> QED
  BY <1>2, <1>3

\* Feeding an event keeps the invariant, whatever the class of the monitor.
LEMMA NextSettled == IInv /\ [Next]_vars => IInv'
<1> SUFFICES ASSUME IInv, [Next]_vars PROVE IInv'
  OBVIOUS
<1>1. CASE UNCHANGED vars
  BY <1>1 DEF IInv, TypeOK, AccOK, Latching, Settled, vars
<1>2. CASE Next
  <2>1. PICK ev \in Events : Feed(ev)
    BY <1>2 DEF Next
  <2>2. rule' = rule
    BY <2>1 DEF Feed
  <2>3. CASE RatioStep(ev) \/ RelationStep(ev)
    BY <2>2, <2>3 DEF IInv, TypeOK, AccOK, Latching, Settled, RatioStep, RelationStep
  <2> QED
    BY <2>1, <2>2, <2>3, CountSettled, PresentSettled, AbsentSettled, OrderSettled,
       HeartbeatSettled DEF Feed
<1> QED
  BY <1>1, <1>2

\* The invariant decides a latched verdict.
LEMMA SettledDecides == IInv => SettledIsFinal
<1> SUFFICES ASSUME IInv PROVE SettledIsFinal
  OBVIOUS
<1>1. rule.kind = "count" => acc \in Nat /\ rule.want \in Int
  BY RulesAreTyped DEF IInv, TypeOK, AccOK
<1>2. rule.kind = "count" /\ verdict = "viol" => ~Passed
  BY <1>1 DEF IInv, Settled, Passed, CountLost, Compare
<1>3. rule.kind = "count" /\ verdict = "sat" => Passed
  BY DEF IInv, Settled, Passed
<1>4. rule.kind = "heartbeat" /\ verdict = "viol" => ~Passed
  <2>1. rule.kind = "heartbeat" => acc.worst \in Int /\ rule.every \in Nat
    BY RulesAreTyped DEF IInv, TypeOK, AccOK
  <2> QED
    BY <2>1 DEF IInv, Settled, Passed
<1>5. rule.kind \in {"absent", "conforms"} /\ verdict = "viol" => ~Passed
  BY DEF IInv, TypeOK, AccOK, Settled, Passed
<1>6. rule.kind = "order" /\ verdict # "pend" => (Passed <=> verdict = "sat")
  BY DEF IInv, TypeOK, Settled, Passed
<1>7. rule.kind = "present" /\ verdict = "sat" => Passed
  BY DEF IInv, Settled, Passed
<1> QED
  BY <1>2, <1>3, <1>4, <1>5, <1>6, <1>7 DEF IInv, TypeOK, Latching, SettledIsFinal

(* Monitor._latch: a verdict that was latched is the result of the check   *)
(* on every extension of the stream, for every rule that can be compiled.  *)
THEOREM SettledForGood == Spec => []SettledIsFinal
<1>1. Spec => []IInv
  BY InitSettled, NextSettled, PTL DEF Spec
<1> QED
  BY <1>1, SettledDecides, PTL

-----------------------------------------------------------------------------
(***************************************************************************)
(* A build and the store it polls.                                         *)
(***************************************************************************)
\* Nothing is decided before the end.
Undecided == phase # "done" => result = Unsettled

\* A read that is complete shows all of the store, or nothing when it failed.
LEMMA AnswersAreHonest ==
    \A read \in Answers :
      read.complete => \/ read.reachable /\ read.rows = store
                       \/ ~read.reachable /\ read.rows = << >>
<1> SUFFICES ASSUME NEW read \in Answers, read.complete
             PROVE  \/ read.reachable /\ read.rows = store
                    \/ ~read.reachable /\ read.rows = << >>
  OBVIOUS
<1> QED
  BY DEF Answers, NoRead

\* What a build is told when it ends.
LEMMA Concluded ==
    ASSUME NEW ok, NEW verdictOf, Decide(ok, verdictOf)
    PROVE  /\ phase' = "done"
           /\ result'.ok = ok /\ result'.verdict = verdictOf
           /\ result'.fail = Fails(ok, verdictOf)
           /\ result'.exit = ExitCode(ok, verdictOf)
BY DEF Decide

\* A gate is ruled on by a read that differs at most in what its probe said.
LEMMA GateRulesOnARead ==
    ASSUME NEW read \in Answers, Gated(read), phase' # phase
    PROVE  /\ Ruled(last') /\ last'.rows = read.rows
           /\ last'.reachable = read.reachable /\ last'.complete = read.complete
<1>1. CASE Ruled(read) /\ last' = read
  BY <1>1
<1>2. ASSUME NEW p, last' = [read EXCEPT !.probe = p], Ruled(last')
      PROVE  /\ Ruled(last') /\ last'.rows = read.rows
             /\ last'.reachable = read.reachable /\ last'.complete = read.complete
  <2>1. DOMAIN read = {"reachable", "complete", "rows", "probe"}
    BY DEF Answers, NoRead
  <2>2. QED
    BY <1>2, <2>1
<1>3. QED
  BY <1>1, <1>2 DEF Gated

\* What is broken is not green, and says so.
LEMMA BrokenIsNoVerdict ==
    ASSUME NEW code, Broken(code)
    PROVE  phase' = "done" /\ ~result'.ok /\ result'.verdict = "error"
BY DEF Broken

LEMMA StaysUndecided ==
    ASSUME Undecided, [BuildNext]_buildVars
    PROVE  Undecided'
<1>1. CASE Weaken \/ Emit \/ (\E rec \in flight : Show(rec) \/ Lose(rec))
           \/ UNCHANGED buildVars
  BY <1>1 DEF Undecided, Weaken, Emit, Show, Lose, buildVars, Unsettled
<1>2. CASE ShipSession
  BY <1>2 DEF Undecided, ShipSession, Finish, Unsettled
<1>3. CASE Poll
  <2>1. phase = "poll" /\ (phase' = "done" \/ UNCHANGED <<phase, result>>)
    BY <1>3 DEF Poll, Judged, Gated, Ruled, Decide, Broken
  <2>2. QED
    BY <2>1 DEF Undecided, Unsettled
<1>4. CASE Crash
  BY <1>4 DEF Undecided, Crash, Broken
<1>5. QED
  BY <1>1, <1>2, <1>3, <1>4 DEF BuildNext

\* One poll: what it read, and what it made of it.
LEMMA PollKeepsOutage ==
    ASSUME Poll
    PROVE  OutageIsNoMiss'
<1>1. phase = "poll" /\ job' = job
  BY DEF Poll, env
<1>2. PICK read \in Answers :
        /\ asked' = (asked \/ read.reachable)
        /\ \/ job.checker = "trace" /\ Judged(read)
           \/ job.checker = "gate" /\ Gated(read)
  BY DEF Poll
<1>3. CASE phase' = phase
  BY <1>1, <1>3 DEF OutageIsNoMiss
<1>4. CASE job.checker = "trace" /\ Judged(read) /\ phase' # phase
  <2>1. CASE Summarised(read)
    <3>1. read.complete /\ read.rows # << >>
      BY <2>1 DEF Summarised, Named
    <3>2. asked'
      BY <1>2, <3>1, AnswersAreHonest
    <3>3. QED
      BY <1>1, <1>4, <3>2 DEF OutageIsNoMiss
  <2>2. CASE ~Summarised(read)
    <3>1. Decide(FALSE, LastWord(read, asked'))
      BY <1>4, <2>2 DEF Judged
    <3>2. ~asked' => LastWord(read, asked') = "inconclusive"
      BY DEF LastWord
    <3>3. ~asked' => ~result'.fail /\ result'.exit = 2
      BY <3>1, <3>2, Concluded DEF Fails, ExitCode
    <3>4. QED
      BY <1>1, <1>4, <3>3 DEF OutageIsNoMiss
  <2>3. QED
    BY <2>1, <2>2
<1>5. CASE job.checker = "gate" /\ Gated(read) /\ phase' # phase
  <2>1. PICK seen : /\ seen = last' /\ Ruled(seen)
                    /\ seen.reachable = read.reachable /\ seen.complete = read.complete
    BY <1>5, GateRulesOnARead
  <2>2. CASE Broken(1)
    BY <2>2 DEF Broken, OutageIsNoMiss
  <2>3. CASE Satisfied(seen) /\ Decide(TRUE, "present")
    <3>1. seen.reachable
      BY <2>3 DEF Satisfied, Green
    <3>2. result'.exit = 0
      BY <2>3, Concluded DEF ExitCode
    <3>3. asked'
      BY <1>2, <2>1, <3>1
    <3>4. QED
      BY <3>2, <3>3 DEF OutageIsNoMiss
  <2>4. CASE Decide(FALSE, Unmet(spec, seen, seen.probe))
    <3>1. ~(seen.reachable /\ seen.complete) => Unmet(spec, seen, seen.probe) = "inconclusive"
      BY DEF Unmet
    <3>2. ~(seen.reachable /\ seen.complete) => ~result'.fail /\ result'.exit = 2
      BY <2>4, <3>1, Concluded DEF Fails, ExitCode
    <3>3. ~asked' => ~seen.reachable
      BY <1>2, <2>1
    <3>4. QED
      BY <1>1, <2>1, <3>2, <3>3 DEF OutageIsNoMiss
  <2>5. QED
    BY <2>1, <2>2, <2>3, <2>4 DEF Ruled
<1>6. QED
  BY <1>2, <1>3, <1>4, <1>5

\* verify_trace, verify_gate, verify_policy: for every session, gate and store, a store that
\* never answered fails no build, and a gate is only said to be missed on a clean read.
THEOREM OutageIsNeverAMiss == BuildSpec => []OutageIsNoMiss
<1>1. BuildInit => OutageIsNoMiss /\ Undecided
  BY DEF BuildInit, OutageIsNoMiss, Undecided
<1>2. ASSUME OutageIsNoMiss, Undecided, [BuildNext]_buildVars
      PROVE  OutageIsNoMiss'
  <2>1. CASE UNCHANGED <<phase, job, asked, last, result>>
    BY <1>2, <2>1 DEF OutageIsNoMiss
  <2>2. CASE Weaken \/ \E rec \in flight : Show(rec) \/ Lose(rec)
    BY <2>1, <2>2 DEF Weaken, Show, Lose, env, polling
  <2>3. CASE Emit
    BY <2>3 DEF Emit, OutageIsNoMiss
  <2>4. CASE ShipSession
    <3>1. phase = "run" /\ job' = job /\ result.exit = 0
      BY <1>2, <2>4 DEF ShipSession, env, Undecided, Unsettled
    <3>2. \/ phase' = "poll"
          \/ result'.exit = result.exit /\ (job.readable => result'.fail = FALSE)
      <4>1. ASSUME NEW fails, Finish(fails)
            PROVE  result'.exit = result.exit /\ result'.fail = fails
        <5>1. result = [ok |-> FALSE, verdict |-> None, fail |-> FALSE, exit |-> 0]
          BY <1>2, <3>1 DEF Undecided, Unsettled
        <5>2. QED
          BY <4>1, <5>1 DEF Finish
      <4>2. QED
        BY <2>4, <4>1 DEF ShipSession
    <3>3. QED
      BY <3>1, <3>2 DEF OutageIsNoMiss
  <2>5. CASE UNCHANGED buildVars
    BY <2>1, <2>5 DEF buildVars, env
  <2>6. CASE Crash
    BY <2>6, BrokenIsNoVerdict DEF Crash, OutageIsNoMiss
  <2>7. QED
    BY <1>2, <2>2, <2>3, <2>4, <2>5, <2>6, PollKeepsOutage DEF BuildNext
<1>3. Undecided /\ [BuildNext]_buildVars => Undecided'
  BY StaysUndecided
<1>4. QED
  BY <1>1, <1>2, <1>3, PTL DEF BuildSpec

-----------------------------------------------------------------------------
\* What a run can ship.
Shippable == Emitted \cup OutcomeRecords \cup {SessionStart}
Shipped == flight \subseteq Shippable /\ store \in Seq(Shippable)

LEMMA StaysShipped == Shipped /\ [BuildNext]_buildVars => Shipped'
<1> SUFFICES ASSUME Shipped, [BuildNext]_buildVars
             PROVE  Shipped'
  OBVIOUS
<1>1. CASE UNCHANGED <<flight, store>>
  BY <1>1 DEF Shipped
<1>2. CASE Weaken \/ Poll \/ Crash \/ UNCHANGED buildVars
  BY <1>1, <1>2 DEF Weaken, Poll, Crash, buildVars
<1>3. CASE Emit
  BY <1>3 DEF Shipped, Shippable, Emit
<1>4. CASE ShipSession
  BY <1>4 DEF Shipped, Shippable, ShipSession
<1>5. ASSUME NEW rec \in flight, Show(rec) \/ Lose(rec)
      PROVE  Shipped'
  <2>1. rec \in Shippable /\ store \in Seq(Shippable) /\ flight \subseteq Shippable
    BY DEF Shipped
  <2>2. flight' \subseteq Shippable
    BY <1>5, <2>1 DEF Show, Lose
  <2>3. store' = Append(store, rec) \/ store' = store
    BY <1>5 DEF Show, Lose
  <2>4. Append(store, rec) \in Seq(Shippable)
    BY <2>1, AppendProperties
  <2>5. Shippable' = Shippable
    BY DEF Shippable
  <2>6. QED
    BY <2>1, <2>2, <2>3, <2>4, <2>5 DEF Shipped
<1>6. QED
  BY <1>2, <1>3, <1>4, <1>5 DEF BuildNext

\* Some places of a sequence: what can only become more as it grows.
LEMMA PlacesGrow ==
    ASSUME NEW n \in Nat, NEW S \in SUBSET (1..n), NEW T \in SUBSET (1..(n + 1)), S \subseteq T
    PROVE  /\ Cardinality(S) \in Nat /\ Cardinality(T) \in Nat
           /\ Cardinality(S) <= Cardinality(T)
           /\ Cardinality(S) = 0 => S = {}
<1>1. IsFiniteSet(1..(n + 1))
  BY FS_Interval
<1>2. IsFiniteSet(T)
  BY <1>1, FS_Subset
<1>3. IsFiniteSet(S) /\ Cardinality(S) <= Cardinality(T)
  BY <1>2, FS_Subset
<1>4. Cardinality(S) \in Nat /\ Cardinality(T) \in Nat
  BY <1>2, <1>3, FS_CardinalityType
<1>5. Cardinality(S) = 0 => S = {}
  BY <1>3, FS_EmptySet
<1>6. QED
  BY <1>3, <1>4, <1>5

\* What was said of a store that is shown one more record.
LEMMA StoreGrows ==
    ASSUME NEW S, NEW s \in Seq(S), NEW rec, NEW more, more = Append(s, rec)
    PROVE  /\ DOMAIN s = 1..Len(s) /\ DOMAIN more = 1..(Len(s) + 1) /\ Len(s) \in Nat
           /\ \A i \in 1..Len(s) : more[i] = s[i]
BY AppendProperties

\* What holds of a rule that more events can only help goes on holding.
LEMMA GrowingHolds ==
    ASSUME NEW S, NEW s \in Seq(S), NEW rec, NEW r, Growing(r),
           Holds(r, Stamped(s))
    PROVE  Holds(r, Stamped(Append(s, rec)))
<1> DEFINE more == Append(s, rec)
           old == Stamped(s)
           new == Stamped(more)
<1>1. /\ DOMAIN s = 1..Len(s) /\ DOMAIN more = 1..(Len(s) + 1) /\ Len(s) \in Nat
      /\ \A i \in 1..Len(s) : more[i] = s[i]
  BY StoreGrows
<1> HIDE DEF more
<1>2. /\ DOMAIN old = 1..Len(s) /\ DOMAIN new = 1..(Len(s) + 1)
      /\ \A i \in 1..Len(s) : old[i] = new[i]
  BY <1>1 DEF Stamped
<1> HIDE DEF old, new
<1>3. ASSUME NEW m
      PROVE  /\ Hits(old, m) \subseteq Hits(new, m)
             /\ Hits(old, m) \in SUBSET (1..Len(s))
             /\ Hits(new, m) \in SUBSET (1..(Len(s) + 1))
  BY <1>1, <1>2 DEF Hits
<1>4. CASE r.kind = "present"
  <2>1. \A m \in r.all : Hits(old, m) # {}
    BY <1>4 DEF Holds, old
  <2>2. \A m \in r.all : Hits(new, m) # {}
    BY <1>3, <2>1
  <2>3. QED
    BY <1>4, <2>2 DEF Holds, new, more
<1>5. CASE r.kind = "count" /\ Norm(r.op) \in {">=", ">"} /\ r.want \in Int
  <2>1. PICK n, k : n = Cardinality(Hits(old, r.on))
                    /\ k = Cardinality(Hits(new, r.on))
    OBVIOUS
  <2>2. n \in Nat /\ k \in Nat /\ n <= k
    BY <1>1, <1>3, <2>1, PlacesGrow
  <2>3. Compare(Norm(r.op), n, r.want)
    BY <1>5, <2>1 DEF Holds, old
  <2>4. Compare(Norm(r.op), k, r.want)
    BY <1>5, <2>2, <2>3 DEF Compare
  <2>5. QED
    BY <1>5, <2>1, <2>4 DEF Holds, new, more
<1>6. QED
  BY <1>4, <1>5 DEF Growing

\* What asks for something and holds has seen something.
LEMMA AskingIsCharged ==
    ASSUME NEW n \in Nat, NEW s, DOMAIN s = 1..n, NEW r, NEW probe,
           Asking(r), Holds(r, s)
    PROVE  Charged(r, s, probe)
<1>1. ASSUME NEW m
      PROVE  /\ Cardinality(Hits(s, m)) \in Nat
             /\ Cardinality(Hits(s, m)) # 0 => Hits(s, m) # {}
  <2>1. Hits(s, m) \in SUBSET (1..n) /\ Hits(s, m) \in SUBSET (1..(n + 1))
    BY DEF Hits
  <2>2. Cardinality(Hits(s, m)) \in Nat
    BY <2>1, PlacesGrow
  <2>3. Cardinality({}) = 0
    BY FS_EmptySet
  <2>4. QED
    BY <2>2, <2>3
<1>2. CASE r.kind = "present" /\ r.all # {}
  BY <1>2 DEF Holds, Charged
<1>3. CASE r.kind = "count" /\ \/ Norm(r.op) = ">=" /\ r.want \in Nat \ {0}
                               \/ Norm(r.op) = ">" /\ r.want \in Nat
  <2>1. PICK k : k = Cardinality(Hits(s, r.on))
    OBVIOUS
  <2>2. k \in Nat /\ (k # 0 => Hits(s, r.on) # {})
    BY <1>1, <2>1
  <2>3. Compare(Norm(r.op), k, r.want)
    BY <1>3, <2>1 DEF Holds
  <2>4. k # 0
    BY <1>3, <2>2, <2>3 DEF Compare
  <2>5. QED
    BY <1>3, <2>2, <2>4 DEF Charged
<1>4. QED
  BY <1>2, <1>3 DEF Asking

LEMMA TestsAreCounted ==
    Cardinality(Tests) \in Nat
<1>1. IsFiniteSet(Reports)
  BY ReportsAreFinite
<1>2. PICK f : f = [r \in Reports |-> r[1]]
  OBVIOUS
<1>3. f \in Surjection(Reports, Tests)
  BY <1>2 DEF Surjection, Tests
<1>4. IsFiniteSet(Tests)
  BY <1>1, <1>3, FS_Surjection
<1>5. QED
  BY <1>4, FS_CardinalityType

\* A poll that ends a session in green has read all of it.
LEMMA SessionPoll ==
    ASSUME Shipped, Undecided, Poll, job.checker = "trace"
    PROVE  ConfirmedArrived'
<1>1. phase = "poll" /\ job' = job /\ store' = store
  BY DEF Poll, env
<1>2. PICK read \in Answers : Judged(read)
  BY DEF Poll
<1>3. ~result.ok
  BY <1>1 DEF Undecided, Unsettled
<1>4. CASE ~result'.ok
  BY <1>4 DEF ConfirmedArrived
<1>5. CASE result'.ok
  <2>1. Summarised(read) /\ Decide(Confirmed(read.rows), "present")
    <3>1. ASSUME NEW v, Decide(FALSE, v)
          PROVE  ~result'.ok
      BY <3>1 DEF Decide
    <3>2. QED
      BY <1>2, <1>3, <1>5, <3>1 DEF Judged
  <2>2. read.complete /\ read.rows # << >> /\ Named(read.rows, "test_session") # {}
    BY <2>1 DEF Summarised, Named
  <2>3. read.rows = store
    BY <2>2, AnswersAreHonest
  <2>4. Confirmed(store)
    <3>1. result'.ok = Confirmed(store)
      BY <2>1, <2>3, Zenon DEF Decide
    <3>2. QED
      BY <1>5, <3>1, Zenon
  <2>5. PICK outcomes, tests : outcomes = Cardinality(Named(store, "test_outcome"))
                               /\ tests = Cardinality(Tests)
    OBVIOUS
  <2>6. ~(outcomes < tests)
    BY <2>4, <2>5 DEF Confirmed, PartialLoss
  <2>7. outcomes \in Nat
    <3>1. DOMAIN store = 1..Len(store) /\ Len(store) \in Nat
      BY DEF Shipped
    <3>2. Named(store, "test_outcome") \in SUBSET (1..Len(store))
          /\ Named(store, "test_outcome") \in SUBSET (1..(Len(store) + 1))
      BY <3>1 DEF Named
    <3>3. QED
      BY <2>5, <3>1, <3>2, PlacesGrow
  <2>8. tests \in Nat
    BY <2>5, TestsAreCounted
  <2>9. outcomes >= tests
    BY <2>6, <2>7, <2>8
  <2>10. QED
    BY <1>1, <2>2, <2>3, <2>5, <2>9 DEF ConfirmedArrived, Tests
<1>6. QED
  BY <1>4, <1>5

\* A poll that ends a gate in green was clean, and every gating rule passed on it.
LEMMA GatePoll ==
    ASSUME Shipped, Undecided, Poll, job.checker = "gate"
    PROVE  GateIsBacked'
<1>1. phase = "poll" /\ job' = job /\ store' = store /\ spec' = spec
  BY DEF Poll, env
<1>2. PICK read \in Answers : Gated(read)
  BY DEF Poll
<1>3. CASE ~result'.ok
  BY <1>3 DEF GateIsBacked
<1>4. CASE result'.ok
  <2> PICK seen : seen = last'
    OBVIOUS
  <2>1. /\ Satisfied(seen) /\ seen.rows = read.rows
        /\ seen.reachable = read.reachable /\ seen.complete = read.complete
    <3>1. phase' # phase
      <4>1. ~result.ok
        BY <1>1 DEF Undecided, Unsettled
      <4>2. ASSUME NEW x, Ruled(x)
            PROVE  phase' = "done"
        BY <4>2 DEF Ruled, Decide, Broken
      <4>3. QED
        BY <1>1, <1>2, <1>4, <4>1, <4>2 DEF Gated
    <3>2. ~Broken(1)
      BY <1>4, BrokenIsNoVerdict
    <3>3. ASSUME NEW v, Decide(FALSE, v)
          PROVE  ~result'.ok
      BY <3>3 DEF Decide
    <3>4. QED
      BY <1>2, <1>4, <3>1, <3>2, <3>3, GateRulesOnARead DEF Ruled
  <2>2. PICK s : s = Stamped(seen.rows)
    OBVIOUS
  <2>3. /\ seen.reachable /\ seen.complete /\ Gating(spec) # {}
        /\ Quorum(spec, Met(spec, s, TRUE, seen.probe))
    BY <2>1, <2>2 DEF Satisfied, Green
  <2>4. seen.rows = store
    BY <2>1, <2>3, AnswersAreHonest
  <2>5. DOMAIN store = 1..Len(store) /\ Len(store) \in Nat
    BY DEF Shipped
  <2>6. DOMAIN s = 1..Len(store)
    BY <2>2, <2>4, <2>5 DEF Stamped
  <2>7. ASSUME spec.threshold = None, NEW k \in Gating(spec),
               NEW r, r = AllRules(spec)[k]
        PROVE  /\ Growing(r) => Holds(r, s)
               /\ Asking(r) => Tier(spec, s, seen, seen.probe)
                                       \notin {"local_pass", "emitted"}
    <3>1. k \in Met(spec, s, TRUE, seen.probe)
      BY <2>3, <2>7 DEF Quorum
    <3>2. Passes(r, s, TRUE, seen.probe)
      BY <2>7, <3>1 DEF Met
    <3>3. Growing(r) => Holds(r, s)
      BY <3>2 DEF Passes, Growing
    <3>4. ASSUME Asking(r)
          PROVE  Tier(spec, s, seen, seen.probe) \notin {"local_pass", "emitted"}
      <4>1. Holds(r, s)
        BY <3>2, <3>4 DEF Passes, Asking
      <4>2. Charged(r, s, seen.probe)
        BY <2>5, <2>6, <3>4, <4>1, AskingIsCharged
      <4>3. \E j \in Gating(spec) : Charged(AllRules(spec)[j], s, seen.probe)
        BY <2>7, <4>2
      <4>4. QED
        BY <2>3, <4>3 DEF Tier
    <3>5. QED
      BY <3>3, <3>4
  <2>8. QED
    BY <1>1, <1>2, <2>2, <2>3, <2>4, <2>7 DEF GateIsBacked
<1>5. QED
  BY <1>3, <1>4

LEMMA StaysBacked ==
    ASSUME Shipped, Undecided, GreenIsBacked,
           job.checker \in {"trace", "gate"}, [BuildNext]_buildVars
    PROVE  GreenIsBacked'
<1>1. CASE ~result'.ok
  BY <1>1 DEF GreenIsBacked, ConfirmedArrived, GateIsBacked
<1>2. CASE UNCHANGED <<job, spec, store, last, result>>
  BY <1>2 DEF GreenIsBacked, ConfirmedArrived, GateIsBacked, Satisfied,
              Chained
<1>3. CASE Weaken \/ Emit
  <2>1. phase = "edit" /\ result' = result
    BY <1>3 DEF Weaken, Emit
  <2>2. QED
    BY <1>1, <2>1 DEF Undecided, Unsettled
<1>4. CASE ShipSession
  <2>1. ~result.ok /\ result = Unsettled
    BY <1>4 DEF ShipSession, Undecided, Unsettled
  <2>2. result' = result \/ \E fails : result' = [Unsettled EXCEPT !.fail = fails]
    BY <1>4, <2>1 DEF ShipSession, Finish
  <2>3. QED
    BY <1>1, <2>1, <2>2 DEF Unsettled
<1>5. CASE Poll
  <2>1. job' = job
    BY <1>5 DEF Poll, env
  <2>2. CASE job.checker = "trace"
    BY <1>5, <2>1, <2>2, SessionPoll DEF GreenIsBacked, GateIsBacked
  <2>3. CASE job.checker = "gate"
    BY <1>5, <2>1, <2>3, GatePoll DEF GreenIsBacked, ConfirmedArrived
  <2>4. QED
    BY <2>2, <2>3
<1>6. ASSUME NEW rec \in flight, Show(rec)
      PROVE  GreenIsBacked'
  <2>1. /\ store' = Append(store, rec) /\ store \in Seq(Shippable)
        /\ UNCHANGED <<job, spec, last, result>>
    BY <1>6 DEF Show, env, polling, Shipped
  <2>2. ConfirmedArrived'
    <3>1. /\ DOMAIN store = 1..Len(store) /\ DOMAIN store' = 1..(Len(store) + 1)
          /\ Len(store) \in Nat /\ \A i \in 1..Len(store) : store'[i] = store[i]
      BY <2>1, StoreGrows
    <3>2. ASSUME NEW name
          PROVE  /\ Named(store, name) \subseteq Named(store', name)
                 /\ Named(store, name) \in SUBSET (1..Len(store))
                 /\ Named(store', name) \in SUBSET (1..(Len(store) + 1))
      BY <3>1 DEF Named
    <3>3. PICK n, k : n = Cardinality(Named(store, "test_outcome"))
                      /\ k = Cardinality(Named(store', "test_outcome"))
      OBVIOUS
    <3>4. n \in Nat /\ k \in Nat /\ n <= k
      BY <3>1, <3>2, <3>3, PlacesGrow
    <3>5. PICK tests : tests = Cardinality(Tests)
      OBVIOUS
    <3>6. tests \in Nat
      BY <3>5, TestsAreCounted
    <3>7. n >= tests => k >= tests
      BY <3>4, <3>6
    <3>8. QED
      BY <2>1, <3>2, <3>3, <3>5, <3>7 DEF GreenIsBacked, ConfirmedArrived, Tests
  <2>3. GateIsBacked'
    BY <2>1, GrowingHolds DEF GreenIsBacked, GateIsBacked
  <2>4. QED
    BY <2>2, <2>3 DEF GreenIsBacked
<1>7. ASSUME NEW rec \in flight, Lose(rec)
      PROVE  GreenIsBacked'
  BY <1>2, <1>7 DEF Lose, env, polling
<1>8. CASE UNCHANGED buildVars
  BY <1>2, <1>8 DEF buildVars, env
<1>9. CASE Crash
  <2>1. ~result'.ok
    BY <1>9, BrokenIsNoVerdict DEF Crash
  <2>2. QED
    BY <1>1, <2>1
<1>10. QED
  BY <1>3, <1>4, <1>5, <1>6, <1>7, <1>8, <1>9 DEF BuildNext

\* verify_trace, evaluate_events, evidence_tier: for every session, gate and store, a session
\* that is confirmed has really arrived, and what a green gate asked for was and stays there.
THEOREM GreenIsAlwaysBacked == BuildSpec => []GreenIsBacked
<1> DEFINE Inv == Shipped /\ Undecided /\ job.checker \in {"trace", "gate"} /\ GreenIsBacked
<1>1. BuildInit => Inv
  <2> SUFFICES ASSUME BuildInit
               PROVE  Inv
    OBVIOUS
  <2>1. job.checker \in {"trace", "gate"} /\ result = Unsettled
    BY DEF BuildInit
  <2>2. Shipped
    BY DEF BuildInit, Shipped, Shippable
  <2>3. GreenIsBacked /\ Undecided
    BY <2>1 DEF GreenIsBacked, ConfirmedArrived, GateIsBacked, Undecided,
                Unsettled
  <2>4. QED
    BY <2>1, <2>2, <2>3
<1>2. ASSUME Inv, [BuildNext]_buildVars
      PROVE  Inv'
  <2>1. job' = job
    BY <1>2 DEF BuildNext, buildVars, env, Weaken, Emit, ShipSession,
                Show, Lose, Poll, Crash
  <2>2. QED
    BY <1>2, <2>1, StaysShipped, StaysUndecided, StaysBacked
<1>3. QED
  BY <1>1, <1>2, PTL DEF BuildSpec
=============================================================================
