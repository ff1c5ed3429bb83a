------------------------------ MODULE ServiceProofs -----------------------------
(***************************************************************************)
(* What a client may believe of an answer when several replicas serve it,  *)
(* for any number of clients, replicas and restarts: of the feedback inbox *)
(* (Feedback), and of a release of the ontology served by replicas that    *)
(* migrate one schema (Replica).                                           *)
(***************************************************************************)
EXTENDS Feedback, Replica, FiniteSetTheorems, SequenceTheorems, TLAPS

-----------------------------------------------------------------------------
(***************************************************************************)
(* The inbox: where durability is required, success is Mongo's, and one of *)
(* several verdicts on a record wins.  The inductive invariant follows     *)
(* each command from the wire into the collection.  A record only moves    *)
(* forward (absent, new, reviewed, a terminal status, erased), so what a   *)
(* command has done stays done.                                            *)
(***************************************************************************)
Answers == {"none", "unavailable", "accepted", "stored", "listed", "erased", "notfound",
            "moved", "refused"}

\* The calls that have been asked.
Askings ==
    [pc : {"sent", "executed", "reading", "done", "dead"},
     op : {"submit", "list", "triage", "erase"},
     answer : Answers, replica : Replicas, record : Calls, to : Statuses, matched : BOOLEAN]

TypeOK ==
    /\ durable \in BOOLEAN
    /\ mongo \in [Calls -> Statuses \cup {"absent", "erased"}]
    /\ wire \in SUBSET Calls
    /\ call \in [Calls -> Askings \cup {Idle}]

\* A submission's record is its own, a triage moves a record on, the record is read
\* back only by a triage that matched it, and who waits has no answer.
RequestOK(c, k) ==
    /\ k.op = "submit" => k.record = c
    /\ k.op = "triage" => k.to # "new"
    /\ k.pc = "reading" => k.op = "triage" /\ k.matched
    /\ k.pc \in {"sent", "executed", "reading"} => k.answer = "none"

\* A command is on the wire from its call until Mongo executes it, once; before that
\* the record of a submission does not exist, and no other call has one.
WireOK(c, k) ==
    /\ c \in wire => k # Idle
    /\ k.pc \in {"executed", "reading"} => c \notin wire
    /\ k.op # "submit" \/ c \in wire => mongo[c] = "absent"
    /\ k.op = "submit" /\ k.pc = "executed" => mongo[c] # "absent"

\* What a command that matched has left in the collection.
Left(k) ==
    IF k.op = "erase" THEN {"erased"}
    ELSE {"erased", k.to} \cup (IF k.to = "reviewed" THEN Terminal ELSE {})

EffectStands(k) ==
    k.op \in {"erase", "triage"} => (k.matched => mongo[k.record] \in Left(k))

\* What an answer rests on.
AnswerStands(c, k) ==
    /\ k.op = "submit" /\ k.answer = "stored" => mongo[c] # "absent"
    /\ durable =>
         /\ k.answer # "accepted"
         /\ k.op = "erase" /\ k.answer = "erased" => k.matched
         /\ k.op = "triage" /\ k.answer = "moved" => k.matched

CallOK(c, k) ==
    RequestOK(c, k) /\ WireOK(c, k) /\ EffectStands(k) /\ AnswerStands(c, k)

\* A triage that archived or rejected its record.
Judged(k, x) == k.op = "triage" /\ k.matched /\ k.to \in Terminal /\ k.record = x

OneJudge ==
    \A c, d, x \in Calls : Judged(call[c], x) /\ Judged(call[d], x) => c = d

IInv ==
    /\ TypeOK
    /\ \A c \in Calls : CallOK(c, call[c])
    /\ OneJudge
-----------------------------------------------------------------------------
(***************************************************************************)
(* The parts of a step.                                                    *)
(***************************************************************************)

\* Nothing was submitted and nothing is on the wire.
LEMMA IInvInit == Init => IInv
<1> SUFFICES ASSUME Init
             PROVE  IInv
  OBVIOUS
<1>1. TypeOK
  BY DEF Init, TypeOK
<1>2. \A c \in Calls : CallOK(c, call[c])
  BY DEF Init, Idle, CallOK, RequestOK, WireOK, EffectStands, AnswerStands
<1>3. OneJudge
  BY DEF Init, Idle, OneJudge, Judged
<1>4. QED
  BY <1>1, <1>2, <1>3 DEF IInv

\* A call that has been asked is one of the Askings.
LEMMA AskedType ==
    ASSUME TypeOK, NEW c \in Calls
    PROVE  /\ call[c] = Idle <=> call[c].pc = "idle"
           /\ call[c] = Idle <=> call[c].op = "none"
           /\ call[c] # Idle => call[c] \in Askings
<1>1. call[c] \in Askings \/ call[c] = Idle
  BY DEF TypeOK
<1>2. CASE call[c] \in Askings
  <2>1. call[c].pc # "idle" /\ call[c].op # "none"
    BY <1>2 DEF Askings
  <2>2. QED
    BY <1>2, <2>1 DEF Idle
<1>3. CASE call[c] = Idle
  BY <1>3 DEF Idle
<1>4. QED
  BY <1>1, <1>2, <1>3

\* Two calls that ask the same and have matched the same.
SameWork(k, m) ==
    /\ k \in Askings /\ m \in Askings
    /\ m.op = k.op /\ m.record = k.record /\ m.to = k.to /\ m.matched = k.matched

\* Answering a call leaves what it asked for as it is.
LEMMA EndedCall ==
    ASSUME NEW k \in Askings, NEW told \in Answers
    PROVE  /\ SameWork(k, Answered(k, told))
           /\ Answered(k, told).pc = "done"
           /\ Answered(k, told).answer = told
BY DEF Askings, Answered, SameWork

\* So does moving on to the read-back or dying.
LEMMA MovedCall ==
    ASSUME NEW k \in Askings, NEW pc \in {"reading", "dead"}
    PROVE  /\ SameWork(k, [k EXCEPT !.pc = pc])
           /\ [k EXCEPT !.pc = pc].pc = pc
           /\ [k EXCEPT !.pc = pc].answer = k.answer
BY DEF Askings, SameWork

\* Without Mongo nothing is reported as stored, and nothing as done where durability is
\* required.
LEMMA MemoryAnswers ==
    ASSUME TypeOK, NEW k \in Askings
    PROVE  /\ MemoryAnswer(k) \in Answers
           /\ MemoryAnswer(k) # "stored"
           /\ durable => MemoryAnswer(k) = "unavailable"
<1>1. CASE durable
  BY <1>1 DEF MemoryAnswer, SubmissionAnswer, FailsClosed, Answers
<1>2. CASE ~durable
  BY <1>2 DEF MemoryAnswer, SubmissionAnswer, FailsClosed, Answers
<1>3. QED
  BY <1>1, <1>2

\* A call that goes on, or ends, without a command being executed.
Advances(c, k, m) ==
    \/ m = k
    \/ /\ SameWork(k, m)
       /\ \/ m.pc \in {"done", "dead"}
          \/ /\ m.pc = "reading" /\ m.answer = k.answer
             /\ k.pc = "executed" /\ k.op = "triage" /\ k.matched
       /\ AnswerStands(c, m)

\* A step that changes no record and no command on the wire keeps the invariant if every
\* call stays where it is or goes forward.
LEMMA CallsAdvance ==
    ASSUME IInv, UNCHANGED <<durable, mongo, wire>>,
           NEW f \in [Calls -> Askings \cup {Idle}], call' = f,
           \A c \in Calls : Advances(c, call[c], f[c])
    PROVE  IInv'
<1>1. TypeOK'
  BY DEF IInv, TypeOK
<1>2. ASSUME NEW c \in Calls
      PROVE  CallOK(c, call[c])'
  <2>1. CallOK(c, call[c]) /\ Advances(c, call[c], f[c])
    BY DEF IInv
  <2>2. CASE f[c] = call[c]
    BY <2>1, <2>2 DEF CallOK, RequestOK, WireOK, EffectStands, Left, AnswerStands
  <2>3. CASE f[c] # call[c]
    <3>1. PICK k, m : k = call[c] /\ m = f[c]
      OBVIOUS
    <3>2. /\ SameWork(k, m)
          /\ \/ m.pc \in {"done", "dead"}
             \/ /\ m.pc = "reading" /\ m.answer = k.answer
                /\ k.pc = "executed" /\ k.op = "triage" /\ k.matched
          /\ AnswerStands(c, m)
      BY <2>1, <2>3, <3>1 DEF Advances
    <3>3. k # Idle /\ m # Idle
      BY <3>2 DEF SameWork, Askings, Idle
    <3>4. CallOK(c, k) /\ m.op = k.op /\ m.record = k.record /\ m.to = k.to /\ m.matched = k.matched
      BY <2>1, <3>1, <3>2 DEF SameWork
    <3>5. RequestOK(c, m)
      BY <3>2, <3>4 DEF CallOK, RequestOK
    <3>6. WireOK(c, m)'
      BY <3>2, <3>3, <3>4 DEF CallOK, WireOK
    <3>7. EffectStands(m)'
      BY <3>4 DEF CallOK, EffectStands, Left
    <3>8. AnswerStands(c, m)'
      BY <3>2 DEF AnswerStands
    <3>9. call'[c] = m
      BY <3>1
    <3>10. QED
      BY <3>5, <3>6, <3>7, <3>8, <3>9 DEF CallOK
  <2>4. QED
    BY <2>2, <2>3
<1>3. ASSUME NEW c \in Calls, NEW x, Judged(f[c], x)
      PROVE  Judged(call[c], x)
  BY <1>3 DEF Advances, SameWork, Judged
<1>4. OneJudge'
  BY <1>3 DEF IInv, OneJudge
<1>5. QED
  BY <1>1, <1>2, <1>4 DEF IInv

\* One call ends with an answer that stands.
LEMMA OneCallEnds ==
    ASSUME IInv, UNCHANGED <<durable, mongo, wire>>,
           NEW c \in Calls, call[c] # Idle, NEW told \in Answers,
           call' = [call EXCEPT ![c] = Answered(call[c], told)],
           AnswerStands(c, Answered(call[c], told))
    PROVE  IInv'
<1>1. PICK m : m = Answered(call[c], told)
  OBVIOUS
<1>2. call[c] \in Askings /\ SameWork(call[c], m) /\ m.pc = "done" /\ AnswerStands(c, m)
  BY <1>1, AskedType, EndedCall DEF IInv
<1>3. PICK f : f = [call EXCEPT ![c] = m]
  OBVIOUS
<1>4. /\ f \in [Calls -> Askings \cup {Idle}]
      /\ f[c] = m /\ \A d \in Calls : d # c => f[d] = call[d]
  BY <1>2, <1>3 DEF IInv, TypeOK, SameWork
<1>5. \A d \in Calls : Advances(d, call[d], f[d])
  BY <1>2, <1>4 DEF Advances
<1>6. QED
  BY <1>1, <1>3, <1>4, <1>5, CallsAdvance
-----------------------------------------------------------------------------
(***************************************************************************)
(* One lemma per action.                                                   *)
(***************************************************************************)

\* What a caller may ask.
Askable(c, asked) ==
    /\ asked \in Askings /\ asked.pc = "sent" /\ asked.answer = "none"
    /\ ~asked.matched
    /\ asked.op = "submit" => asked.record = c
    /\ asked.op = "triage" => asked.to # "new"

\* What the router asks for is one of the askings the invariant is about.
LEMMA AskedIsAskable ==
    ASSUME NEW c \in Calls, NEW r \in Replicas, NEW x \in Calls,
           NEW op \in {"submit", "list", "triage", "erase"}, NEW to \in Statuses,
           op = "submit" => x = c, op = "triage" => to # "new"
    PROVE  Askable(c, Asked(op, r, x, to))
BY DEF Askable, Asked, Askings, Answers

\* A call begins: on the wire, or turned away by the breaker.
LEMMA BeginStep ==
    ASSUME IInv, NEW c \in Calls, NEW asked, Askable(c, asked), Begin(c, asked)
    PROVE  IInv'
<1>1. /\ TypeOK /\ asked \in Askings /\ call[c] = Idle
      /\ UNCHANGED <<durable, mongo>>
  BY AskedType DEF IInv, Askable, Begin
<1>2. PICK m : /\ call' = [call EXCEPT ![c] = m]
               /\ SameWork(asked, m) /\ m.pc \in {"sent", "done"}
               /\ m.answer = (IF m.pc = "sent" THEN "none" ELSE MemoryAnswer(asked))
               /\ wire' = wire \/ (wire' = wire \cup {c} /\ m.pc = "sent")
  <2>1. CASE breaker[asked.replica] = "open"
    <3>1. PICK m : m = Answered(asked, MemoryAnswer(asked))
      OBVIOUS
    <3>2. call' = [call EXCEPT ![c] = m] /\ wire' = wire
      BY <2>1, <3>1 DEF Begin, WithoutMongo
    <3>3. SameWork(asked, m) /\ m.pc = "done" /\ m.answer = MemoryAnswer(asked)
      BY <1>1, <3>1, MemoryAnswers, EndedCall
    <3>4. QED
      BY <3>2, <3>3
  <2>2. CASE breaker[asked.replica] # "open"
    <3>1. call' = [call EXCEPT ![c] = asked] /\ wire' = wire \cup {c}
      BY <2>2 DEF Begin
    <3>2. SameWork(asked, asked) /\ asked.pc = "sent" /\ asked.answer = "none"
      BY <1>1 DEF SameWork, Askable
    <3>3. QED
      BY <3>1, <3>2
  <2>3. QED
    BY <2>1, <2>2
<1>3. /\ m \in Askings /\ m # Idle /\ ~m.matched
      /\ m.op = "submit" => m.record = c
      /\ m.op = "triage" => m.to # "new"
  BY <1>2 DEF SameWork, Askable, Askings, Idle
<1>4. call'[c] = m /\ \A d \in Calls : d # c => call'[d] = call[d]
  BY <1>1, <1>2 DEF TypeOK
<1>5. TypeOK'
  BY <1>1, <1>2, <1>3 DEF TypeOK
<1>6. mongo[c] = "absent"
  <2>1. call[c].op # "submit"
    BY <1>1 DEF Idle
  <2>2. QED
    BY <2>1 DEF IInv, CallOK, WireOK
<1>7. CallOK(c, m)'
  <2>1. RequestOK(c, m)
    BY <1>2, <1>3 DEF RequestOK
  <2>2. WireOK(c, m)'
    BY <1>1, <1>2, <1>3, <1>6 DEF WireOK
  <2>3. EffectStands(m)'
    BY <1>3 DEF EffectStands
  <2>4. m.answer # "stored" /\ (durable => m.answer \in {"none", "unavailable"})
    BY <1>1, <1>2, MemoryAnswers
  <2>5. AnswerStands(c, m)'
    BY <1>1, <2>4 DEF AnswerStands
  <2>6. QED
    BY <2>1, <2>2, <2>3, <2>5 DEF CallOK
<1>8. ASSUME NEW d \in Calls
      PROVE  CallOK(d, call[d])'
  <2>1. CASE d = c
    BY <1>4, <1>7, <2>1
  <2>2. CASE d # c
    <3>1. CallOK(d, call[d]) /\ call'[d] = call[d] /\ (d \in wire' <=> d \in wire)
      BY <1>2, <1>4, <2>2 DEF IInv
    <3>2. QED
      BY <1>1, <3>1 DEF CallOK, RequestOK, WireOK, EffectStands, Left, AnswerStands
  <2>3. QED
    BY <2>1, <2>2
<1>9. ASSUME NEW d \in Calls, NEW x, Judged(call'[d], x)
      PROVE  Judged(call[d], x)
  BY <1>3, <1>4, <1>9 DEF Judged
<1>10. OneJudge'
  BY <1>9 DEF IInv, OneJudge
<1>11. QED
  BY <1>5, <1>8, <1>10 DEF IInv

\* How a command moves its record: forward, and only a submission makes one.
Forward(from, to) ==
    \/ to = from
    \/ from = "new" /\ to = "reviewed"
    \/ from \in {"new", "reviewed"} /\ to \in Terminal
    \/ from \in Statuses /\ to = "erased"

\* What the command of an asked call makes of its record, and whether it matched.
Applies(k, from, to, matched) ==
    \/ k.op = "submit" /\ ~matched /\ to = "new"
    \/ k.op = "triage" /\ matched /\ from \in AllowedFrom(k.to) /\ to = k.to
    \/ k.op = "erase" /\ matched /\ from \in Statuses /\ to = "erased"
    \/ k.op # "submit" /\ ~matched /\ to = from

\* Mongo executes a command that was on the wire, whether its caller waits or not.
LEMMA ExecuteApplies ==
    ASSUME IInv, NEW c \in Calls, Execute(c)
    PROVE  /\ c \in wire /\ wire' = wire \ {c} /\ durable' = durable
           /\ call[c] \in Askings /\ call[c].record \in Calls /\ call[c].to \in Statuses
           /\ \E matched \in BOOLEAN : \E to :
                /\ Applies(call[c], mongo[call[c].record], to, matched)
                /\ mongo' = [mongo EXCEPT ![call[c].record] = to]
                /\ call' = IF call[c].pc = "sent"
                             THEN [call EXCEPT ![c].pc = "executed", ![c].matched = matched]
                             ELSE call
<1> DEFINE k == call[c]
           from == mongo[k.record]
           matched == \/ k.op = "triage" /\ Matches(k)
                      \/ k.op = "erase" /\ from \in Statuses
           to == CASE k.op = "submit" -> "new"
                   [] k.op = "triage" /\ matched -> k.to
                   [] k.op = "erase" /\ matched -> "erased"
                   [] OTHER -> from
<1>1. c \in wire /\ wire' = wire \ {c} /\ durable' = durable
  BY DEF Execute
<1>2. k \in Askings /\ k.record \in Calls /\ k.to \in Statuses
  <2>1. k # Idle
    BY <1>1 DEF IInv, CallOK, WireOK
  <2>2. k \in Askings
    BY <2>1, AskedType DEF IInv
  <2>3. QED
    BY <2>2 DEF Askings
<1>3. k.op \in {"submit", "list", "triage", "erase"}
  BY <1>2 DEF Askings
<1>4. Applies(k, from, to, matched)
  <2>1. CASE k.op = "submit"
    BY <2>1 DEF Applies
  <2>2. CASE k.op = "triage" /\ matched
    BY <2>2 DEF Applies, Matches
  <2>3. CASE k.op = "erase" /\ matched
    BY <2>3 DEF Applies
  <2>4. CASE k.op # "submit" /\ ~matched
    BY <2>4 DEF Applies
  <2>5. QED
    BY <1>3, <2>1, <2>2, <2>3, <2>4
<1>5. mongo' = [mongo EXCEPT ![k.record] = to]
  BY <1>1, <1>2 DEF Execute, IInv, TypeOK
<1>6. /\ matched \in BOOLEAN
      /\ call' = IF k.pc = "sent"
                   THEN [call EXCEPT ![c].pc = "executed", ![c].matched = matched] ELSE call
  BY DEF Execute
<1> HIDE DEF matched, to
<1>7. QED
  BY <1>1, <1>2, <1>4, <1>5, <1>6
\* What a matched command left stays in the collection, wherever the record moves.
LEMMA LeftIsClosed ==
    ASSUME NEW c \in Calls, NEW k \in Askings, RequestOK(c, k), k.op \in {"erase", "triage"},
           NEW from \in Left(k), NEW to, Forward(from, to)
    PROVE  from # "absent" /\ to \in Left(k)
<1>1. k.to \in Statuses \ {"new"} \/ k.op = "erase"
  BY DEF RequestOK, Askings
<1>2. from # "absent"
  BY <1>1 DEF Left, Statuses, Terminal
<1>3. to \in Left(k)
  BY <1>1 DEF Left, Statuses, Terminal, Forward
<1>4. QED
  BY <1>2, <1>3

\* What a command may make of its record, whether or not it matched.
Moves(k, from, to) ==
    \/ k.op = "submit" /\ to = "new"
    \/ k.op = "triage" /\ from \in AllowedFrom(k.to) /\ to = k.to
    \/ k.op = "erase" /\ from \in Statuses /\ to = "erased"
    \/ k.op # "submit" /\ to = from

\* Every record moves forward, but for the one that a submission makes.
LEMMA RecordsMoveForward ==
    ASSUME IInv, NEW c \in Calls, call[c] \in Askings, c \in wire,
           NEW to, Moves(call[c], mongo[call[c].record], to),
           mongo' = [mongo EXCEPT ![call[c].record] = to]
    PROVE  /\ mongo' \in [Calls -> Statuses \cup {"absent", "erased"}]
           /\ mongo'[call[c].record] = to
           /\ mongo[c] = "absent"
           /\ call[c].op = "submit" => mongo'[c] = "new"
           /\ call[c].op # "submit" => mongo'[c] = "absent"
           /\ \A x \in Calls : \/ Forward(mongo[x], mongo'[x])
                               \/ x = c /\ call[c].op = "submit"
<1>1. PICK k, from : k = call[c] /\ from = mongo[k.record]
  OBVIOUS
<1>2. PICK x \in Calls : x = k.record /\ k.to \in Statuses
  BY <1>1 DEF Askings
<1>3. /\ mongo \in [Calls -> Statuses \cup {"absent", "erased"}]
      /\ RequestOK(c, k) /\ mongo[c] = "absent"
  BY <1>1 DEF IInv, TypeOK, CallOK, WireOK
<1>4. to \in Statuses \cup {"absent", "erased"}
  BY <1>1, <1>2, <1>3 DEF Moves, Statuses
<1>5. /\ mongo' \in [Calls -> Statuses \cup {"absent", "erased"}]
      /\ mongo'[x] = to /\ \A y \in Calls : y # x => mongo'[y] = mongo[y]
  BY <1>1, <1>2, <1>3, <1>4
<1>6. k.op # "submit" => Forward(from, to)
  <2>1. ASSUME k.op = "triage", from \in AllowedFrom(k.to), to = k.to
        PROVE  Forward(from, to)
    BY <1>2, <1>3, <2>1 DEF RequestOK, AllowedFrom, Forward, Statuses, Terminal
  <2>2. ASSUME k.op = "erase", from \in Statuses, to = "erased"
        PROVE  Forward(from, to)
    BY <2>2 DEF Forward
  <2>3. to = from => Forward(from, to)
    BY DEF Forward
  <2>4. QED
    BY <1>1, <2>1, <2>2, <2>3 DEF Moves
<1>7. k.op = "submit" => x = c /\ to = "new"
  BY <1>1, <1>2, <1>3 DEF RequestOK, Moves
<1>8. ASSUME k.op # "submit"
      PROVE  mongo'[c] = "absent"
  BY <1>1, <1>2, <1>3, <1>5, <1>6, <1>8 DEF Forward, Statuses, Terminal
<1>9. ASSUME NEW y \in Calls
      PROVE  Forward(mongo[y], mongo'[y]) \/ (y = c /\ k.op = "submit")
  <2>1. CASE y = x
    BY <1>1, <1>2, <1>5, <1>6, <1>7, <2>1
  <2>2. CASE y # x
    BY <1>5, <2>2 DEF Forward
  <2>3. QED
    BY <2>1, <2>2
<1>10. QED
  BY <1>1, <1>2, <1>3, <1>5, <1>7, <1>8, <1>9

\* Mongo executes a command.
LEMMA ExecuteStep ==
    ASSUME IInv, NEW c \in Calls, Execute(c)
    PROVE  IInv'
<1>1. PICK k : k = call[c]
  OBVIOUS
<1>2. /\ c \in wire /\ wire' = wire \ {c} /\ durable' = durable
      /\ k \in Askings /\ k.record \in Calls /\ k.to \in Statuses
      /\ TypeOK /\ CallOK(c, k)
  BY <1>1, ExecuteApplies DEF IInv
<1>3. PICK x \in Calls : x = k.record
  BY <1>2
<1>4. PICK matched \in BOOLEAN : \E to :
         /\ Applies(k, mongo[x], to, matched)
         /\ mongo' = [mongo EXCEPT ![x] = to]
         /\ call' = IF k.pc = "sent"
                      THEN [call EXCEPT ![c].pc = "executed", ![c].matched = matched] ELSE call
  BY <1>1, <1>3, ExecuteApplies
<1>5. PICK to :
         /\ Applies(k, mongo[x], to, matched)
         /\ mongo' = [mongo EXCEPT ![x] = to]
         /\ call' = IF k.pc = "sent"
                      THEN [call EXCEPT ![c].pc = "executed", ![c].matched = matched] ELSE call
  BY <1>4
<1>6. /\ mongo' \in [Calls -> Statuses \cup {"absent", "erased"}]
      /\ mongo'[x] = to /\ mongo[c] = "absent"
      /\ k.op = "submit" => mongo'[c] = "new"
      /\ k.op # "submit" => mongo'[c] = "absent"
      /\ \A y \in Calls : Forward(mongo[y], mongo'[y]) \/ (y = c /\ k.op = "submit")
  <2>1. /\ call[c] \in Askings
        /\ Moves(call[c], mongo[call[c].record], to)
        /\ mongo' = [mongo EXCEPT ![call[c].record] = to]
    BY <1>1, <1>2, <1>3, <1>5 DEF Applies, Moves
  <2>2. /\ mongo' \in [Calls -> Statuses \cup {"absent", "erased"}]
        /\ mongo'[call[c].record] = to /\ mongo[c] = "absent"
        /\ call[c].op = "submit" => mongo'[c] = "new"
        /\ call[c].op # "submit" => mongo'[c] = "absent"
        /\ \A y \in Calls : Forward(mongo[y], mongo'[y]) \/ (y = c /\ call[c].op = "submit")
    BY <1>2, <2>1, RecordsMoveForward
  <2>3. QED
    BY <1>1, <1>3, <2>2
<1>7. PICK m :
         /\ m \in Askings
         /\ m.op = k.op /\ m.record = k.record /\ m.to = k.to /\ m.answer = k.answer
         /\ \/ k.pc = "sent" /\ m.pc = "executed" /\ m.matched = matched
            \/ k.pc # "sent" /\ m = k
         /\ call'[c] = m /\ call' \in [Calls -> Askings \cup {Idle}]
         /\ \A d \in Calls : d # c => call'[d] = call[d]
  <2>1. CASE k.pc = "sent"
    <3>1. PICK m : m = [k EXCEPT !.pc = "executed", !.matched = matched]
      OBVIOUS
    <3>2. /\ m \in Askings /\ m.pc = "executed" /\ m.matched = matched
          /\ m.op = k.op /\ m.record = k.record /\ m.to = k.to /\ m.answer = k.answer
      BY <1>2, <3>1 DEF Askings
    <3>3. call' = [call EXCEPT ![c] = m]
      BY <1>1, <1>2, <1>5, <2>1, <3>1 DEF TypeOK
    <3>4. /\ call'[c] = m /\ call' \in [Calls -> Askings \cup {Idle}]
          /\ \A d \in Calls : d # c => call'[d] = call[d]
      BY <1>2, <3>2, <3>3 DEF TypeOK
    <3>5. QED
      BY <2>1, <3>2, <3>4
  <2>2. CASE k.pc # "sent"
    BY <1>1, <1>2, <1>5, <2>2 DEF TypeOK
  <2>3. QED
    BY <2>1, <2>2
<1>8. TypeOK'
  BY <1>2, <1>6, <1>7 DEF TypeOK
<1>9. ASSUME NEW d \in Calls, NEW j \in Askings, RequestOK(d, j), EffectStands(j)
      PROVE  EffectStands(j)'
  <2>1. SUFFICES ASSUME j.op \in {"erase", "triage"}, j.matched
                 PROVE  mongo'[j.record] \in Left(j)
    BY DEF EffectStands, Left
  <2>2. mongo[j.record] \in Left(j) /\ j.record \in Calls
    BY <1>9, <2>1 DEF EffectStands, Askings
  <2>3. mongo[j.record] # "absent"
    BY <1>9, <2>1, <2>2, LeftIsClosed DEF Forward
  <2>4. Forward(mongo[j.record], mongo'[j.record])
    BY <1>6, <2>2, <2>3
  <2>5. QED
    BY <1>9, <2>1, <2>2, <2>4, LeftIsClosed
<1>10. CallOK(c, m)'
  <2>1. RequestOK(c, m)
    BY <1>2, <1>7 DEF CallOK, RequestOK
  <2>2. WireOK(c, m)'
    <3>1. m # Idle
      BY <1>7 DEF Askings, Idle
    <3>2. QED
      BY <1>2, <1>6, <1>7, <3>1 DEF WireOK
  <2>3. EffectStands(m)'
    <3>1. CASE m = k
      BY <1>2, <1>7, <1>9, <3>1 DEF CallOK
    <3>2. CASE m.matched = matched
      BY <1>3, <1>5, <1>6, <1>7, <3>2 DEF EffectStands, Left, Applies
    <3>3. QED
      BY <1>7, <3>1, <3>2
  <2>4. AnswerStands(c, m)'
    <3>1. m.op = "submit" => mongo'[c] # "absent"
      BY <1>6, <1>7
    <3>2. CASE m = k
      BY <1>2, <3>1, <3>2 DEF CallOK, AnswerStands
    <3>3. CASE k.pc = "sent"
      BY <1>2, <1>7, <3>1, <3>3 DEF CallOK, RequestOK, AnswerStands
    <3>4. QED
      BY <1>7, <3>2, <3>3
  <2>5. QED
    BY <2>1, <2>2, <2>3, <2>4 DEF CallOK, RequestOK
<1>11. ASSUME NEW d \in Calls, d # c
       PROVE  CallOK(d, call[d])'
  <2>1. PICK j : j = call[d] /\ call'[d] = j
    BY <1>7, <1>11
  <2>2. /\ CallOK(d, j) /\ (d \in wire' <=> d \in wire)
        /\ Forward(mongo[d], mongo'[d])
    BY <1>2, <1>6, <1>11, <2>1 DEF IInv
  <2>3. mongo[d] = "absent" <=> mongo'[d] = "absent"
    BY <2>2 DEF Forward, Statuses, Terminal
  <2>4. RequestOK(d, j)' /\ WireOK(d, j)' /\ AnswerStands(d, j)'
    BY <1>2, <2>2, <2>3 DEF CallOK, RequestOK, WireOK, AnswerStands
  <2>5. EffectStands(j)'
    <3>1. CASE j = Idle
      BY <3>1 DEF Idle, EffectStands
    <3>2. CASE j \in Askings
      BY <1>9, <2>2, <3>2 DEF CallOK
    <3>3. QED
      BY <1>2, <2>1, <3>1, <3>2 DEF TypeOK
  <2>6. QED
    BY <2>1, <2>4, <2>5 DEF CallOK
<1>12. ASSUME NEW d \in Calls, d # c, NEW y \in Calls, Judged(m, y), Judged(call[d], y)
       PROVE  FALSE
  <2>1. CASE m = k
    BY <1>1, <1>12, <2>1 DEF IInv, OneJudge
  <2>2. CASE m.matched = matched
    <3>1. mongo[y] \in {"new", "reviewed"}
      BY <1>3, <1>5, <1>7, <1>12, <2>2 DEF Judged, Applies, AllowedFrom, Terminal
    <3>2. mongo[y] \in {"erased", call[d].to} /\ call[d].to \in Terminal
      BY <1>12 DEF Judged, IInv, CallOK, EffectStands, Left, Terminal
    <3>3. QED
      BY <3>1, <3>2 DEF Terminal
  <2>3. QED
    BY <1>7, <2>1, <2>2
<1>13. OneJudge'
  <2>1. SUFFICES ASSUME NEW a \in Calls, NEW b \in Calls, NEW y \in Calls,
                        Judged(call'[a], y), Judged(call'[b], y), a # b
                 PROVE  FALSE
    BY DEF OneJudge, Judged
  <2>2. CASE a = c
    BY <1>7, <1>12, <2>1, <2>2
  <2>3. CASE b = c
    BY <1>7, <1>12, <2>1, <2>3
  <2>4. CASE a # c /\ b # c
    BY <1>7, <2>1, <2>4 DEF IInv, OneJudge
  <2>5. QED
    BY <2>2, <2>3, <2>4
<1>14. QED
  BY <1>7, <1>8, <1>10, <1>11, <1>13 DEF IInv

\* The caller learns what its command did.
LEMMA AcknowledgeStep ==
    ASSUME IInv, NEW c \in Calls, Acknowledge(c)
    PROVE  IInv'
<1>1. PICK k : k = call[c]
  OBVIOUS
<1>2. /\ k.pc = "executed" /\ k # Idle /\ k \in Askings /\ CallOK(c, k)
      /\ UNCHANGED <<durable, mongo, wire>>
  BY <1>1, AskedType DEF IInv, Acknowledge, Idle
<1>3. CASE k.op = "triage" /\ k.matched
  <2>1. PICK m : m = [k EXCEPT !.pc = "reading"]
    OBVIOUS
  <2>2. SameWork(k, m) /\ m.pc = "reading" /\ m.answer = k.answer
    BY <1>2, <2>1, MovedCall
  <2>3. AnswerStands(c, m)
    BY <1>2, <1>3, <2>2 DEF CallOK, AnswerStands, SameWork
  <2>4. PICK f : f = [call EXCEPT ![c] = m]
    OBVIOUS
  <2>5. /\ f \in [Calls -> Askings \cup {Idle}]
        /\ f[c] = m /\ \A d \in Calls : d # c => f[d] = call[d]
    BY <2>2, <2>4 DEF IInv, TypeOK, SameWork
  <2>6. \A d \in Calls : Advances(d, call[d], f[d])
    BY <1>1, <1>2, <1>3, <2>2, <2>3, <2>5 DEF Advances
  <2>7. call' = f
    BY <1>1, <1>3, <2>1, <2>4 DEF Acknowledge
  <2>8. QED
    BY <1>2, <2>5, <2>6, <2>7, CallsAdvance
<1>4. CASE ~(k.op = "triage" /\ k.matched)
  <2>1. PICK told \in Answers : told = Reply(k)
    BY <1>2 DEF Reply, Answers, Askings
  <2>2. call' = [call EXCEPT ![c] = Answered(call[c], told)]
    BY <1>1, <1>4, <2>1 DEF Acknowledge
  <2>3. PICK m : m = Answered(k, told)
    OBVIOUS
  <2>4. SameWork(k, m) /\ m.answer = told
    BY <1>2, <2>3, EndedCall
  <2>5. /\ k.op = "submit" => mongo[c] # "absent"
        /\ told # "accepted"
        /\ k.op = "erase" /\ told = "erased" => k.matched
        /\ k.op = "triage" => told = "refused"
    BY <1>2, <2>1 DEF CallOK, WireOK, Reply, Askings
  <2>6. AnswerStands(c, m)
    BY <2>4, <2>5 DEF AnswerStands, SameWork
  <2>7. QED
    BY <1>1, <1>2, <2>2, <2>3, <2>6, OneCallEnds
<1>5. QED
  BY <1>3, <1>4

\* A triage reads back the record it has written.
LEMMA ReadBackStep ==
    ASSUME IInv, NEW c \in Calls, ReadBack(c)
    PROVE  IInv'
<1>1. PICK k : k = call[c]
  OBVIOUS
<1>2. /\ k.pc = "reading" /\ k # Idle /\ k \in Askings /\ CallOK(c, k)
      /\ UNCHANGED <<durable, mongo, wire>>
  BY <1>1, AskedType DEF IInv, ReadBack, Idle
<1>3. PICK told \in {"moved", "refused"} :
         call' = [call EXCEPT ![c] = Answered(call[c], told)]
  BY DEF ReadBack
<1>4. PICK m : m = Answered(k, told)
  OBVIOUS
<1>5. told \in Answers /\ SameWork(k, m) /\ m.answer = told
  <2>1. told \in Answers
    BY DEF Answers
  <2>2. QED
    BY <1>2, <1>4, <2>1, EndedCall
<1>6. k.op = "triage" /\ k.matched
  BY <1>2 DEF CallOK, RequestOK
<1>7. AnswerStands(c, m)
  BY <1>5, <1>6 DEF AnswerStands, SameWork
<1>8. QED
  BY <1>1, <1>2, <1>3, <1>4, <1>5, <1>7, OneCallEnds

\* A caller gives up, before or after its command was executed.
LEMMA FailStep ==
    ASSUME IInv, NEW c \in Calls, Fail(c)
    PROVE  IInv'
<1>1. PICK k : k = call[c]
  OBVIOUS
<1>2. /\ k # Idle /\ k \in Askings
      /\ UNCHANGED <<durable, mongo, wire>>
  BY <1>1, AskedType DEF IInv, Fail, Idle
<1>3. PICK told \in Answers :
         /\ told = MemoryAnswer(k) /\ told # "stored"
         /\ durable => told = "unavailable"
  BY <1>2, MemoryAnswers DEF IInv
<1>4. call' = [call EXCEPT ![c] = Answered(call[c], told)]
  BY <1>1, <1>3 DEF Fail, WithoutMongo
<1>5. PICK m : m = Answered(k, told)
  OBVIOUS
<1>6. SameWork(k, m) /\ m.answer = told
  BY <1>2, <1>5, EndedCall
<1>7. AnswerStands(c, m)
  BY <1>3, <1>6 DEF AnswerStands
<1>8. QED
  BY <1>1, <1>2, <1>4, <1>5, <1>7, OneCallEnds

\* A replica restarts: its calls die, its commands stay on the wire.
LEMMA RestartStep ==
    ASSUME IInv, NEW r \in Replicas, Restart(r)
    PROVE  IInv'
<1> DEFINE Lost(d) == call[d].pc \in {"sent", "executed", "reading"} /\ call[d].replica = r
<1>1. PICK f : f = [d \in Calls |-> IF Lost(d) THEN [call[d] EXCEPT !.pc = "dead"] ELSE call[d]]
  OBVIOUS
<1>2. call' = f /\ UNCHANGED <<durable, mongo, wire>>
  BY <1>1 DEF Restart
<1>3. ASSUME NEW d \in Calls
      PROVE  f[d] \in Askings \cup {Idle} /\ Advances(d, call[d], f[d])
  <2>1. CASE Lost(d)
    <3>1. PICK k, m : k = call[d] /\ m = [k EXCEPT !.pc = "dead"]
      OBVIOUS
    <3>2. k \in Askings /\ CallOK(d, k) /\ f[d] = m
      <4>1. k # Idle
        BY <2>1, <3>1 DEF Idle
      <4>2. k \in Askings \cup {Idle} /\ CallOK(d, k)
        BY <3>1, AskedType DEF IInv
      <4>3. f[d] = m
        <5>1. f[d] = [call[d] EXCEPT !.pc = "dead"]
          BY <1>1, <2>1
        <5>2. QED
          BY <3>1, <5>1
      <4>4. QED
        BY <4>1, <4>2, <4>3
    <3>3. SameWork(k, m) /\ m.pc = "dead" /\ m.answer = k.answer
      <4>1. k \in Askings /\ m = [k EXCEPT !.pc = "dead"]
        BY <3>1, <3>2
      <4>2. QED
        BY <4>1, MovedCall
    <3>4. AnswerStands(d, m)
      BY <3>2, <3>3 DEF CallOK, AnswerStands, SameWork
    <3>5. QED
      BY <3>1, <3>2, <3>3, <3>4 DEF Advances, SameWork
  <2>2. CASE ~Lost(d)
    BY <1>1, <2>2 DEF Advances, IInv, TypeOK
  <2>3. QED
    BY <2>1, <2>2
<1>4. f \in [Calls -> Askings \cup {Idle}]
  BY <1>1, <1>3
<1>5. QED
  BY <1>2, <1>3, <1>4, CallsAdvance

-----------------------------------------------------------------------------
(***************************************************************************)
(* Every step keeps the invariant.                                         *)
(***************************************************************************)
LEMMA IInvStep ==
    ASSUME IInv, [Next]_vars
    PROVE  IInv'
<1>1. ASSUME NEW c \in Calls, NEW r \in Replicas, Submit(c, r) \/ List(c, r)
      PROVE  IInv'
  BY <1>1, AskedIsAskable, BeginStep DEF Submit, List, Statuses
<1>2. ASSUME NEW c \in Calls, NEW r \in Replicas, NEW x \in Submitted, Erase(c, r, x)
      PROVE  IInv'
  BY <1>2, AskedIsAskable, BeginStep DEF Erase, Submitted, Statuses
<1>3. ASSUME NEW c \in Calls, NEW r \in Replicas, NEW x \in Submitted,
             NEW to \in Statuses \ {"new"}, Triage(c, r, x, to)
      PROVE  IInv'
  BY <1>3, AskedIsAskable, BeginStep DEF Triage, Submitted
<1>4. ASSUME NEW c \in Calls, Execute(c) \/ Acknowledge(c) \/ ReadBack(c) \/ Fail(c)
      PROVE  IInv'
  BY <1>4, ExecuteStep, AcknowledgeStep, ReadBackStep, FailStep
<1>5. ASSUME NEW r \in Replicas, Restart(r)
      PROVE  IInv'
  BY <1>5, RestartStep
<1>6. ASSUME UNCHANGED <<durable, mongo, wire, call>>
      PROVE  IInv'
  <2>1. \A c \in Calls : CallOK(c, call[c])'
    BY <1>6 DEF IInv, CallOK, RequestOK, WireOK, EffectStands, Left, AnswerStands
  <2>2. TypeOK' /\ OneJudge'
    BY <1>6 DEF IInv, TypeOK, OneJudge, Judged
  <2>3. QED
    BY <2>1, <2>2 DEF IInv
<1>7. ASSUME NEW r \in Replicas, CoolDown(r)
      PROVE  IInv'
  BY <1>6, <1>7 DEF CoolDown
<1>8. QED
  BY <1>1, <1>2, <1>3, <1>4, <1>5, <1>6, <1>7 DEF Next, vars

\* The inductive invariant holds in every reachable state.
THEOREM Invariance == Spec => []IInv
BY IInvInit, IInvStep, PTL DEF Spec

\* Every variable that a command or an answer depends on keeps its shape.
THEOREM TypeCorrectness == Spec => []TypeOK
<1>1. IInv => TypeOK
  BY DEF IInv
<1>2. QED
  BY <1>1, Invariance, PTL

\* Where durability is required, an answer of success speaks of the collection, however
\* commands are delayed past their callers and replicas restart (store.py 39-40).
THEOREM SuccessIsAlwaysDurable == Spec => []SuccessIsDurable
<1>1. ASSUME IInv, durable, NEW c \in Calls
      PROVE  /\ Did(c, "submit", "stored") \/ Did(c, "submit", "accepted") => mongo[c] # "absent"
             /\ Did(c, "erase", "erased") => mongo[call[c].record] = "erased"
             /\ Did(c, "triage", "moved") =>
                  mongo[call[c].record] \in {"erased", call[c].to} \cup
                    (IF call[c].to = "reviewed" THEN Terminal ELSE {})
  <2>1. CallOK(c, call[c])
    BY <1>1 DEF IInv
  <2>2. QED
    BY <1>1, <2>1 DEF Did, CallOK, AnswerStands, EffectStands, Left
<1>2. IInv => SuccessIsDurable
  BY <1>1 DEF SuccessIsDurable
<1>3. QED
  BY <1>2, Invariance, PTL

\* Of all who archive or reject one record, on whatever replicas, one is told that he
\* did (store.py 164-168).
THEOREM OneVerdictOnly == Spec => []OneVerdict
<1>1. ASSUME IInv, durable, NEW c \in Calls, Did(c, "triage", "moved"),
             call[c].to \in Terminal
      PROVE  Judged(call[c], call[c].record) /\ call[c].record \in Calls
  <2>1. CallOK(c, call[c])
    BY <1>1 DEF IInv
  <2>2. call[c].op = "triage" /\ call[c].matched
    BY <1>1, <2>1 DEF Did, CallOK, AnswerStands
  <2>3. call[c] \in Askings
    BY <1>1, <2>2, AskedType DEF IInv
  <2>4. QED
    BY <1>1, <2>2, <2>3 DEF Judged, Askings
<1>2. IInv => OneVerdict
  BY <1>1 DEF OneVerdict, IInv, OneJudge
<1>3. QED
  BY <1>2, Invariance, PTL

-----------------------------------------------------------------------------
(***************************************************************************)
(* The replicas' startup and what their clients read.                      *)
(***************************************************************************)
\* Whoever commits a schema runs one of the releases of the plan.
SchemaInv ==
    /\ deployed \in [Processes -> plan.deployments]
    /\ SchemaIsWhole

LEMMA SchemaStep ==
    ASSUME SchemaInv, [ReplicaNext]_replicaVars
    PROVE  SchemaInv'
<1>1. ASSUME UNCHANGED <<plan, deployed, schema>>
      PROVE  SchemaInv'
  BY <1>1 DEF SchemaInv, SchemaIsWhole, Current
<1>2. ASSUME NEW r, NEW how, Down(r, how)
      PROVE  schema' = schema
  BY <1>2 DEF Down, Rollback
<1>3. ASSUME NEW r \in Processes, Advance(r)
      PROVE  SchemaInv'
  <2>1. UNCHANGED <<plan, deployed>>
    BY <1>3 DEF Advance
  <2>2. CASE schema' = schema
    BY <1>1, <2>1, <2>2
  <2>3. CASE Current(Seen(r), Ms(r)) /\ schema' = Seen(r)
    <3>1. deployed[r] \in plan.deployments
      BY DEF SchemaInv
    <3>2. Current(schema, deployed[r].migrations)'
      BY <2>1, <2>3 DEF Current, Ms, SchemaOf, RequiredTables
    <3>3. QED
      BY <2>1, <3>1, <3>2 DEF SchemaInv, SchemaIsWhole
  <2>4. QED
    BY <1>2, <1>3, <2>2, <2>3 DEF Advance, Commit, Migrate
<1>4. ASSUME NEW r \in Processes, Step(r)
      PROVE  SchemaInv'
  <2>1. CASE Start(r) \/ RefuseSettings(r) \/ Connect(r) \/ FailToConnect(r)
    BY <1>1, <1>2, <2>1 DEF Start, RefuseSettings, Connect, FailToConnect,
                            schemaVars
  <2>2. CASE CheckLimiters(r) \/ TakeLock(r) \/ Ping(r)
    BY <1>1, <1>2, <2>2 DEF CheckLimiters, TakeLock, Acquire, Ping, schemaVars
  <2>3. QED
    BY <1>3, <1>4, <2>1, <2>2 DEF Step
<1>5. ASSUME NEW r \in Processes, Timeout(r) \/ Crash(r) \/ Trip(r) \/ EndPause(r)
      PROVE  SchemaInv'
  BY <1>1, <1>2, <1>5 DEF Timeout, Crash, Trip, EndPause, schemaVars
<1>6. ASSUME NEW r \in Processes, NEW d \in plan.deployments, Deploy(r, d)
      PROVE  SchemaInv'
  <2>1. UNCHANGED <<plan, schema>> /\ deployed' = [deployed EXCEPT ![r] = d]
    BY <1>2, <1>6 DEF Deploy
  <2>2. QED
    BY <2>1 DEF SchemaInv, SchemaIsWhole, Current
<1>7. ASSUME NEW r, NEW req, NEW etags, Send(r, req, etags)
      PROVE  SchemaInv'
  BY <1>1, <1>7 DEF Send, schemaVars, startVars
<1>8. ASSUME NEW s, Outage(s) \/ Recover(s)
      PROVE  SchemaInv'
  BY <1>1, <1>8 DEF Outage, Recover, schemaVars
<1>9. ASSUME UNCHANGED replicaVars
      PROVE  SchemaInv'
  BY <1>1, <1>9 DEF replicaVars, schemaVars, startVars
<1>10. QED
  BY <1>4, <1>5, <1>6, <1>7, <1>8, <1>9 DEF ReplicaNext, Ask, Follow, Revalidate

\* ensure_schema: for any replicas, releases, crashes and outages, what is committed is what
\* was there at first or all of some release's schema.
THEOREM SchemaStaysWhole == ReplicaSpec => []SchemaIsWhole
<1>1. ReplicaInit => SchemaInv
  BY DEF ReplicaInit, SchemaInit, SchemaInv, SchemaIsWhole
<1>2. SchemaInv /\ [ReplicaNext]_replicaVars => SchemaInv'
  BY SchemaStep
<1>3. SchemaInv => SchemaIsWhole
  BY DEF SchemaInv
<1>4. QED
  BY <1>1, <1>2, <1>3, PTL DEF ReplicaSpec

-----------------------------------------------------------------------------
(***************************************************************************)
(* What clients read.  An ETag and a cursor name the content digest that   *)
(* was pinned, and a request is only answered by a replica with the        *)
(* client's key: what they are good for is of that digest, and the very    *)
(* projection they came from where one file serves it.  A snapshot that    *)
(* shares the digest of another is answered for as if it were the other.   *)
(***************************************************************************)
ProjectionOf(o) == Projection(Files[o.file], o.key)

\* None is no cursor.
NullIsNoCursor ==
    \A p, route, params, limit, offset : Cursor(p, route, params, limit, offset) # Null

LEMMA ImageIsFinite ==
    ASSUME NEW S, IsFiniteSet(S), NEW T, NEW f \in [S -> T], \A t \in T : \E x \in S : f[x] = t
    PROVE  IsFiniteSet(T)
<1>1. f \in Surjection(S, T)
  BY DEF Surjection
<1>2. QED
  BY <1>1, FS_Surjection

\* What is served was loaded, and its digest is the one that was pinned.
LEMMA Loaded ==
    ASSUME NEW o \in Started
    PROVE  /\ ProjectionOf(o).meta.content_sha256 = o.content
           /\ ProjectionOf(o).key = o.key
           /\ Served(o) = ProjectionOf(o)
<1>1. PICK d \in Startable : o = d.ontology /\ o # Null
  BY DEF Started
<1>2. Loads(o)
  BY <1>1 DEF Startable, Configurable
<1>3. Files[o.file].meta = Meta(o.content)
  BY <1>2 DEF Loads, Valid
<1>4. ProjectionOf(o).meta = Files[o.file].meta /\ ProjectionOf(o).key = o.key
  BY DEF ProjectionOf, Projection
<1>5. ProjectionOf(o).meta.content_sha256 = o.content
  BY <1>3, <1>4 DEF Meta
<1>6. Served(o) = ProjectionOf(o)
  BY <1>1 DEF Served, Projections, ProjectionOf
<1>7. QED
  BY <1>4, <1>5, <1>6

\* An answer with a body is of a release under the client's key, and its ETag names it.
LEMMA RequestAnswered ==
    ASSUME NEW o \in Started \cup {Null}, NEW key, NEW req, req.route \in Routes
    PROVE  LET a == Respond(Served(o), key, req)
           IN  /\ a.status # 304
               /\ a.status = 200 =>
                    /\ o \in Started /\ o.key = key
                    /\ a = Represent(ProjectionOf(o), req)
                    /\ \E what : a.etag = <<o.content, what[1], what[2]>>
<1> DEFINE a == Respond(Served(o), key, req)
<1>1. \A code : Error(code).status = code
  BY DEF Error
<1>2. CASE Served(o) = Null
  <2>1. a = Error(503)
    BY <1>2 DEF Respond
  <2>2. a.status = 503
    BY <1>1, <2>1
  <2>3. QED
    BY <2>2
<1>3. CASE Served(o) # Null
  <2>1. o \in Started
    BY <1>3 DEF Served
  <2>2. PICK p : p = ProjectionOf(o) /\ Served(o) = p
    BY <2>1, Loaded
  <2>3. p.meta.content_sha256 = o.content /\ p.key = o.key
    BY <2>1, <2>2, Loaded
  <2>4. CASE key # p.key
    <3>1. a = Error(401)
      BY <1>3, <2>2, <2>4 DEF Respond
    <3>2. a.status = 401
      BY <1>1, <3>1
    <3>3. QED
      BY <3>2
  <2>5. CASE key = p.key
    <3>1. a = Represent(p, req)
      BY <1>3, <2>2, <2>5 DEF Respond
    <3>2. \A body : /\ Success(p, req, body).status = 200
                    /\ \E what : Success(p, req, body).etag = <<o.content, what[1], what[2]>>
      <4>1. SUFFICES ASSUME NEW body
                     PROVE  /\ Success(p, req, body).status = 200
                            /\ \E what : Success(p, req, body).etag = <<o.content, what[1], what[2]>>
        OBVIOUS
      <4>2. PICK what : what = <<req.route, TagParams(req)>>
        OBVIOUS
      <4>3. Success(p, req, body).etag = <<o.content, what[1], what[2]>>
        BY <2>3, <4>2 DEF Success, ETag
      <4>4. QED
        BY <4>3 DEF Success
    <3>3. \/ \E code \in {400, 404, 409, 503} : a = Error(code)
          \/ \E body : a = Success(p, req, body)
          \/ a = [status |-> 200, body |-> Directory(p), etag |-> ETag(p, "apostles", Directory(p))]
      <4>1. CASE req.route \in Listings
        <5>1. a = Listed(p, req)
          BY <3>1, <4>1 DEF Represent, Listings
        <5>2. QED
          BY <5>1 DEF Listed
      <4>2. CASE req.route = "node"
        <5>1. a = NodeDocument(p, req)
          BY <3>1, <4>2 DEF Represent, Listings
        <5>2. QED
          BY <5>1 DEF NodeDocument
      <4>3. CASE req.route = "schema"
        BY <3>1, <4>3 DEF Represent, Listings
      <4>4. CASE req.route = "release"
        BY <3>1, <4>4 DEF Represent, Listings
      <4>5. CASE req.route = "apostles"
        <5>1. a = ApostleDirectory(p)
          BY <3>1, <4>5 DEF Represent, Listings
        <5>2. QED
          BY <5>1 DEF ApostleDirectory
      <4>6. QED
        BY <4>1, <4>2, <4>3, <4>4, <4>5 DEF Routes
    <3>4. CASE \E code \in {400, 404, 409, 503} : a = Error(code)
      <4>1. a.status \in {400, 404, 409, 503}
        BY <1>1, <3>4
      <4>2. QED
        BY <4>1
    <3>5. CASE \E body : a = Success(p, req, body)
      BY <2>1, <2>2, <2>3, <2>5, <3>1, <3>2, <3>5
    <3>6. CASE a = [status |-> 200, body |-> Directory(p), etag |-> ETag(p, "apostles", Directory(p))]
      <4>1. a.status = 200 /\ a.etag = ETag(p, "apostles", Directory(p))
        BY <3>6
      <4>2. PICK what : what = <<"apostles", Directory(p)>>
        OBVIOUS
      <4>3. a.etag = <<o.content, what[1], what[2]>>
        BY <2>3, <4>1, <4>2 DEF ETag
      <4>4. QED
        BY <2>1, <2>2, <2>3, <2>5, <3>1, <4>1, <4>3
    <3>7. QED
      BY <3>3, <3>4, <3>5, <3>6
  <2>6. QED
    BY <2>4, <2>5
<1>4. QED
  BY <1>2, <1>3

\* A function over 1..n is a sequence.
LEMMA FunctionIsSequence ==
    ASSUME NEW n \in Nat, NEW f, f = [i \in 1..n |-> f[i]]
    PROVE  \E S : f \in Seq(S)
<1>1. PICK S : S = {f[i] : i \in 1..n}
  OBVIOUS
<1>2. f \in [1..n -> S]
  BY <1>1
<1>3. f \in Seq(S)
  BY <1>2, SeqDef
<1>4. QED
  BY <1>3

\* Sorted ranks the members of a finite set: it is as long as the set is large.
LEMMA SortedIsSequence ==
    ASSUME NEW p, NEW req, req.route \in Listings,
           IsFiniteSet(Range(p.nodes)), IsFiniteSet(Range(p.conflicts)),
           IsFiniteSet(Range(p.relationships))
    PROVE  \E S : Listing(p, req) \in Seq(S)
<1> DEFINE L == Listing(p, req)
<1>1. IsFiniteSet(Range(p.nodes)) /\ IsFiniteSet(Range(p.conflicts))
      /\ IsFiniteSet(Range(p.relationships))
  OBVIOUS
<1>2. ASSUME NEW S, IsFiniteSet(S), NEW f, f = [i \in 1..Cardinality(S) |-> f[i]]
      PROVE  \E T : f \in Seq(T)
  <2>1. Cardinality(S) \in Nat
    BY <1>2, FS_CardinalityType
  <2>2. QED
    BY <1>2, <2>1, FunctionIsSequence
<1>3. CASE req.route = "search"
  <2> DEFINE q == Normal[req.q]
             S == {n \in Range(p.nodes) :
                     /\ req.kind \in {Null, n.kind}
                     /\ ~Pending(n) /\ ~Retired(n, q)
                     /\ Score(n, q) < 3}
  <2>1. L = Found(p, Normal[req.q], req.kind)
    BY <1>3 DEF Listing, Listings
  <2>2. L = [i \in 1..Cardinality(S) |-> L[i]]
    BY <2>1 DEF Found, Sorted
  <2>3. IsFiniteSet(S)
    BY <1>1, FS_Subset
  <2> HIDE DEF S
  <2>4. QED
    BY <1>2, <2>2, <2>3
<1>4. CASE req.route = "conflicts"
  <2> DEFINE S == {k \in Range(p.conflicts) :
                     /\ req.subject \in {Null, Get(k, "subject_public_id")}
                     /\ req.severity \in {Null, k.severity}
                     /\ req.status \in {Null, k.status}}
  <2>1. L = Disputed(p, req.subject, req.severity, req.status)
    BY <1>4 DEF Listing, Listings
  <2>2. L = [i \in 1..Cardinality(S) |-> L[i]]
    BY <2>1 DEF Disputed, Sorted
  <2>3. IsFiniteSet(S)
    BY <1>1, FS_Subset
  <2> HIDE DEF S
  <2>4. QED
    BY <1>2, <2>2, <2>3
<1>5. CASE req.route = "neighbors"
  <2> DEFINE edges == {e \in Range(p.relationships) : req.predicate \in {Null, e.predicate}}
             outgoing == {e \in edges : req.direction \in {"out", "both"} /\ e.from_public_id = req.id}
             incoming == {e \in edges \ outgoing :
                            req.direction \in {"in", "both"} /\ e.to_public_id = req.id}
             S == {Entry(p, e, "out", e.to_public_id) : e \in outgoing}
             T == {Entry(p, e, "in", e.from_public_id) : e \in incoming}
  <2>1. L = Neighbours(p, req.id, req.direction, req.predicate)
    BY <1>5 DEF Listing, Listings
  <2>2. L = [i \in 1..Cardinality(S \cup T) |-> L[i]]
    BY <2>1 DEF Neighbours, Sorted
  <2>3. IsFiniteSet(outgoing) /\ IsFiniteSet(incoming)
    <3>1. outgoing \subseteq Range(p.relationships) /\ incoming \subseteq Range(p.relationships)
      OBVIOUS
    <3>2. QED
      BY <1>1, <3>1, FS_Subset
  <2>4. IsFiniteSet(S)
    <3>1. PICK f : f = [e \in outgoing |-> Entry(p, e, "out", e.to_public_id)]
      OBVIOUS
    <3>2. f \in [outgoing -> S] /\ \A t \in S : \E e \in outgoing : f[e] = t
      BY <3>1
    <3> HIDE DEF S, outgoing
    <3>3. QED
      BY <2>3, <3>2, ImageIsFinite
  <2>5. IsFiniteSet(T)
    <3>1. PICK f : f = [e \in incoming |-> Entry(p, e, "in", e.from_public_id)]
      OBVIOUS
    <3>2. f \in [incoming -> T] /\ \A t \in T : \E e \in incoming : f[e] = t
      BY <3>1
    <3> HIDE DEF T, incoming
    <3>3. QED
      BY <2>3, <3>2, ImageIsFinite
  <2> HIDE DEF S, T
  <2>6. IsFiniteSet(S \cup T)
    BY <2>4, <2>5, FS_Union
  <2>7. QED
    BY <1>2, <2>2, <2>6
<1>6. QED
  BY <1>3, <1>4, <1>5 DEF Listings

LEMMA ListingIsSequence ==
    ASSUME NEW o \in Started, NEW req, req.route \in Listings
    PROVE  \E S : Listing(ProjectionOf(o), req) \in Seq(S)
<1> DEFINE p == ProjectionOf(o)
           data == Files[o.file].data
           cs == data.collections
           ids == IdsOf(cs)
<1>1. /\ IsFiniteSet(Rows(cs)) /\ IsFiniteSet(DOMAIN data.relationships)
      /\ IsFiniteSet(DOMAIN data.conflicts)
  BY SnapshotsAreFinite
<1>2. /\ p.relationships = data.relationships /\ p.conflicts = data.conflicts
      /\ DOMAIN p.nodes = ids
  BY Zenon DEF ProjectionOf, Projection
<1>3. ASSUME NEW f, IsFiniteSet(DOMAIN f)
      PROVE  IsFiniteSet(Range(f))
  <2>1. PICK g : g = [x \in DOMAIN f |-> f[x]]
    OBVIOUS
  <2>2. Range(f) = {f[x] : x \in DOMAIN f}
    BY DEF Range
  <2>3. g \in [DOMAIN f -> Range(f)] /\ \A t \in Range(f) : \E x \in DOMAIN f : g[x] = t
    BY <2>1, <2>2, Zenon
  <2>4. IsFiniteSet(Range(f))
    BY <1>3, <2>3, ImageIsFinite
  <2>5. QED
    BY <2>4
<1>4. IsFiniteSet(ids)
  <2>1. PICK f : f = [k \in Rows(cs) |-> cs[k[1]][k[2]].public_id]
    OBVIOUS
  <2>2. ids = {cs[k[1]][k[2]].public_id : k \in Rows(cs)}
    BY DEF IdsOf
  <2>3. f \in [Rows(cs) -> ids] /\ \A t \in ids : \E k \in Rows(cs) : f[k] = t
    BY <2>1, <2>2, Zenon
  <2>4. QED
    BY <1>1, <2>3, ImageIsFinite
<1> HIDE DEF p, ids
<1>5. /\ IsFiniteSet(Range(p.nodes)) /\ IsFiniteSet(Range(p.conflicts))
      /\ IsFiniteSet(Range(p.relationships))
  BY <1>1, <1>2, <1>3, <1>4
<1>6. \E S : Listing(p, req) \in Seq(S)
  BY <1>5, SortedIsSequence
<1>7. QED
  BY <1>6 DEF p

\* One page more of a sequence.
LEMMA OnePageMore ==
    ASSUME NEW S, NEW L \in Seq(S), NEW k \in 0..Len(L), NEW n \in k..Len(L)
    PROVE  SubSeq(L, 1, k) \o SubSeq(L, k + 1, n) = SubSeq(L, 1, n)
<1>1. Len(L) \in Nat /\ k \in Nat /\ n \in Nat /\ \A i \in 1..Len(L) : L[i] \in S
  OBVIOUS
<1>2. SubSeq(L, 1, k) \in Seq(S) /\ Len(SubSeq(L, 1, k)) = k
      /\ \A i \in 1..k : SubSeq(L, 1, k)[i] = L[i]
  BY <1>1, SubSeqProperties
<1>3. SubSeq(L, 1, n) \in Seq(S) /\ Len(SubSeq(L, 1, n)) = n
      /\ \A i \in 1..n : SubSeq(L, 1, n)[i] = L[i]
  BY <1>1, SubSeqProperties
<1>4. SubSeq(L, k + 1, n) \in Seq(S) /\ Len(SubSeq(L, k + 1, n)) = n - k
      /\ \A i \in 1..(n - k) : SubSeq(L, k + 1, n)[i] = L[k + i]
  <2>1. \A i \in (k + 1)..n : L[i] \in S
    BY <1>1
  <2>2. n - (k + 1) + 1 = n - k /\ \A i \in 1..(n - k) : k + 1 + i - 1 = k + i
    BY <1>1
  <2>3. /\ SubSeq(L, k + 1, n) \in Seq(S)
        /\ Len(SubSeq(L, k + 1, n)) = IF k + 1 <= n THEN n - (k + 1) + 1 ELSE 0
        /\ \A i \in 1..(n - (k + 1) + 1) : SubSeq(L, k + 1, n)[i] = L[k + 1 + i - 1]
    BY <1>1, <2>1, SubSeqProperties
  <2>4. QED
    BY <1>1, <2>2, <2>3
<1>5. PICK a \in Seq(S), b \in Seq(S), c \in Seq(S) :
        a = SubSeq(L, 1, k) /\ b = SubSeq(L, k + 1, n) /\ c = SubSeq(L, 1, n)
  BY <1>2, <1>3, <1>4
<1>6. /\ a \o b \in Seq(S) /\ Len(a \o b) = k + (n - k)
      /\ \A i \in 1..(k + (n - k)) : (a \o b)[i] = IF i <= k THEN a[i] ELSE b[i - k]
  <2>1. Len(a) = k /\ Len(b) = n - k
    BY <1>2, <1>4, <1>5
  <2>2. /\ a \o b \in Seq(S) /\ Len(a \o b) = Len(a) + Len(b)
        /\ \A i \in 1..(Len(a) + Len(b)) :
             (a \o b)[i] = IF i <= Len(a) THEN a[i] ELSE b[i - Len(a)]
    BY ConcatProperties, Zenon
  <2>3. QED
    BY <2>1, <2>2, Zenon
<1>7. k + (n - k) = n
  BY <1>1
<1>8. ASSUME NEW i \in 1..n
      PROVE  (a \o b)[i] = c[i]
  <2>1. CASE i <= k
    <3>1. i \in 1..k
      BY <1>1, <2>1
    <3>2. (a \o b)[i] = a[i]
      BY <1>6, <1>7, <2>1
    <3>3. QED
      BY <1>2, <1>3, <1>5, <3>1, <3>2
  <2>2. CASE ~(i <= k)
    <3>1. (a \o b)[i] = b[i - k]
      BY <1>6, <1>7, <2>2
    <3>2. i - k \in 1..(n - k) /\ k + (i - k) = i
      BY <1>1, <2>2
    <3>3. b[i - k] = L[i]
      BY <1>4, <1>5, <3>2
    <3>4. QED
      BY <1>3, <1>5, <3>1, <3>3
  <2>3. QED
    BY <2>1, <2>2
<1>9. a \o b = c
  <2>1. Len(a \o b) = Len(c) /\ Len(a \o b) = n
    BY <1>3, <1>5, <1>6, <1>7
  <2>2. QED
    BY <1>6, <1>8, <2>1, SeqEqual
<1>10. QED
  BY <1>5, <1>9

-----------------------------------------------------------------------------
\* What a client holds came from releases under its key: the representation it has cached,
\* and what it has collected of a listing.  The next page is cut where the last one of o
\* ended; and where one file serves the pages they are the beginning of its listing.
Continues(o, k) ==
    /\ \A other \in walk.from : other.content = o.content /\ other.key = plan.key
    /\ walk.next # Null =>
         walk.next = Cursor(ProjectionOf(o), walk.req.route, Params(walk.req), walk.req.limit, k)
Collecting(o, k) ==
    LET L == Listing(ProjectionOf(o), walk.req)
    IN  /\ k \in 0..Len(L)
        /\ walk.whole = L /\ walk.items = SubSeq(L, 1, k)
        /\ walk.next = Null => k = Len(L)
WalkKnows ==
    walk # NoWalk =>
      /\ walk.req.route \in Listings /\ DOMAIN walk.req = Fields(walk.req.route)
      /\ walk.req.limit \in 1..100
      /\ walk.from \subseteq Started
      /\ \E o \in walk.from : \E k \in Nat :
           Continues(o, k) /\ (OneFile(walk.from) => Collecting(o, k))

Represents(o, c) ==
    LET a == Represent(ProjectionOf(o), c.req)
    IN  /\ o.key = plan.key
        /\ a.status = 200 /\ a.etag = c.etag /\ a.body = c.body
        /\ \E what : c.etag = <<o.content, what[1], what[2]>>
CachedKnows ==
    cached # Null => /\ cached.req.route \in Routes
                     /\ cached.from \in Started /\ Represents(cached.from, cached)

ClientInv ==
    /\ plan \in Plans
    /\ projection \in [Processes -> Started \cup {Null}]
    /\ CachedKnows
    /\ NotModifiedIsCurrent
    /\ WalkKnows

\* What a good answer of a listing route is.
LEMMA ListingAnswered ==
    ASSUME NEW p, NEW req, req.route \in Listings,
           NEW L, L = Listing(p, req), NEW a, a = Represent(p, req), a.status = 200
    PROVE  /\ req.limit \in 1..100
           /\ GoodCursor(p, L, req.route, Params(req), req.limit, req.cursor)
           /\ a.body = Page(p, L, req.route, Params(req), req.limit, req.cursor)
<1>1. \A code : Error(code).status = code
  BY DEF Error
<1>2. a = Listed(p, req)
  BY DEF Represent, Listings
<1>3. \A body : Success(p, req, body).body = body
  BY DEF Success
<1>4. /\ req.limit \in 1..100
      /\ GoodCursor(p, L, req.route, Params(req), req.limit, req.cursor)
      /\ a = Success(p, req, Page(p, L, req.route, Params(req), req.limit, req.cursor))
  BY <1>1, <1>2 DEF Listed
<1>5. QED
  BY <1>3, <1>4

\* A page takes what was collected further.
Extended(p, L, route, params, limit, k, page) ==
    \E n \in 0..Len(L) :
      /\ SubSeq(L, 1, k) \o page.items = SubSeq(L, 1, n)
      /\ page.next = IF n < Len(L) THEN Cursor(p, route, params, limit, n) ELSE Null
LEMMA PageExtends ==
    ASSUME NEW S, NEW L \in Seq(S), NEW k \in 0..Len(L), NEW limit \in 1..100,
           NEW p, NEW route, NEW params, NEW cursor, Offset(cursor) = k,
           NEW page, page = Page(p, L, route, params, limit, cursor)
    PROVE  Extended(p, L, route, params, limit, k, page)
<1> DEFINE n == IF k + limit < Len(L) THEN k + limit ELSE Len(L)
<1>1. n \in 0..Len(L) /\ n \in k..Len(L)
  OBVIOUS
<1> HIDE DEF n
<1>2. page.items = SubSeq(L, k + 1, n)
  BY DEF Page, n
<1>3. page.next = IF n < Len(L) THEN Cursor(p, route, params, limit, n) ELSE Null
  BY DEF Page, n
<1>4. SubSeq(L, 1, k) \o SubSeq(L, k + 1, n) = SubSeq(L, 1, n)
  BY <1>1, OnePageMore
<1>5. QED
  BY <1>1, <1>2, <1>3, <1>4, Zenon DEF Extended

\* The next page's request asks for the same listing.
More(req, c) == [req EXCEPT !.cursor = c]
LEMMA SameListing ==
    ASSUME NEW req, req.route \in Listings, DOMAIN req = Fields(req.route),
           NEW c, NEW more, more = More(req, c)
    PROVE  /\ DOMAIN more = Fields(more.route)
           /\ more.route = req.route /\ more.limit = req.limit /\ more.cursor = c
           /\ Params(more) = Params(req)
           /\ \A p : Listing(p, more) = Listing(p, req)
<1>1. more = [req EXCEPT !.cursor = c]
  BY DEF More
<1>2. {"route", "limit", "cursor"} \subseteq DOMAIN req
  BY DEF Fields, Listings
<1>3. /\ DOMAIN more = DOMAIN req /\ more.cursor = c
      /\ \A f \in DOMAIN req \ {"cursor"} : more[f] = req[f]
  BY <1>1, <1>2
<1>4. more.route = req.route /\ more.limit = req.limit
  BY <1>2, <1>3
<1>5. Params(more) = Params(req)
  <2> DEFINE D == DOMAIN req \ {"route", "limit", "cursor"}
  <2>1. Params(req) = [f \in D |-> IF f = "q" THEN Normal[req.q] ELSE req[f]]
    BY DEF Params
  <2>2. Params(more) = [f \in D |-> IF f = "q" THEN Normal[more.q] ELSE more[f]]
    BY <1>3 DEF Params
  <2>3. \A f \in D : (IF f = "q" THEN Normal[more.q] ELSE more[f])
                       = IF f = "q" THEN Normal[req.q] ELSE req[f]
    BY <1>3
  <2> HIDE DEF D
  <2>4. QED
    BY <2>1, <2>2, <2>3
<1>6. ASSUME NEW p
      PROVE  Listing(p, more) = Listing(p, req)
  <2>1. CASE req.route = "search"
    <3>1. {"q", "kind"} \subseteq DOMAIN req
      BY <2>1 DEF Fields
    <3>2. more.q = req.q /\ more.kind = req.kind
      BY <1>3, <3>1
    <3>3. QED
      BY <1>4, <2>1, <3>2 DEF Listing
  <2>2. CASE req.route = "conflicts"
    <3>1. {"subject", "severity", "status"} \subseteq DOMAIN req
      BY <2>2 DEF Fields
    <3>2. more.subject = req.subject /\ more.severity = req.severity /\ more.status = req.status
      BY <1>3, <3>1
    <3>3. QED
      BY <1>4, <2>2, <3>2 DEF Listing
  <2>3. CASE req.route = "neighbors"
    <3>1. {"id", "direction", "predicate"} \subseteq DOMAIN req
      BY <2>3 DEF Fields
    <3>2. more.id = req.id /\ more.direction = req.direction /\ more.predicate = req.predicate
      BY <1>3, <3>1
    <3>3. QED
      BY <1>4, <2>3, <3>2 DEF Listing
  <2>4. QED
    BY <2>1, <2>2, <2>3 DEF Listings
<1>7. QED
  BY <1>1, <1>3, <1>4, <1>5, <1>6

\* What a client is sent leaves what it has cached, and what a 304 stands for, right.
LEMMA SendKeeps ==
    ASSUME ClientInv, NEW r \in Processes, NEW req, req.route \in Routes,
           NEW etags, etags # {} => cached # Null /\ req = cached.req /\ etags = {cached.etag},
           Send(r, req, etags)
    PROVE  CachedKnows' /\ NotModifiedIsCurrent'
<1> DEFINE o == projection[r]
           a == Respond(Served(o), plan.key, req)
<1>1. o \in Started \cup {Null} /\ plan' = plan
  BY DEF ClientInv, Send
<1>2. /\ a.status # 304
      /\ a.status = 200 =>
           /\ o \in Started /\ o.key = plan.key
           /\ a = Represent(ProjectionOf(o), req)
           /\ \E what : a.etag = <<o.content, what[1], what[2]>>
  BY <1>1, RequestAnswered
<1>3. /\ answer' = [status |-> IF NotModified(a, etags) THEN 304 ELSE a.status, req |-> req,
                   full |-> IF a.status = 200 THEN a.body ELSE Null, from |-> o]
      /\ cached' = IF a.status # 200 \/ NotModified(a, etags) THEN cached
                   ELSE [req |-> req, etag |-> a.etag, body |-> a.body, from |-> o]
  BY DEF Send
<1>4. /\ answer'.status = (IF NotModified(a, etags) THEN 304 ELSE a.status)
      /\ answer'.full = (IF a.status = 200 THEN a.body ELSE Null)
      /\ answer'.from = o
  BY <1>3
<1> HIDE DEF a, o
<1>5. CASE NotModified(a, etags)
  <2>1. a.status = 200 /\ a.etag \in etags
    BY <1>5 DEF NotModified
  <2>2. cached # Null /\ req = cached.req /\ a.etag = cached.etag
    BY <2>1
  <2>3. PICK other \in Started : other = cached.from /\ Represents(other, cached)
    BY <2>2 DEF ClientInv, CachedKnows
  <2>4. o.content = other.content
    <3>1. PICK w : a.etag = <<o.content, w[1], w[2]>>
      BY <1>2, <2>1
    <3>2. PICK v : cached.etag = <<other.content, v[1], v[2]>>
      BY <2>3 DEF Represents
    <3>3. <<o.content, w[1], w[2]>> = <<other.content, v[1], v[2]>>
      BY <2>2, <3>1, <3>2
    <3>4. QED
      BY <3>3
  <2>5. o.file = other.file => a.body = cached.body
    <3>1. o.key = other.key
      BY <1>2, <2>1, <2>3 DEF Represents
    <3>2. o.file = other.file => ProjectionOf(o) = ProjectionOf(other)
      BY <3>1 DEF ProjectionOf
    <3>3. QED
      BY <1>2, <2>1, <2>2, <2>3, <3>2 DEF Represents
  <2>6. cached' = cached /\ answer'.full = a.body
    BY <1>3, <1>4, <1>5, <2>1
  <2>7. CachedKnows'
    BY <1>1, <2>6 DEF ClientInv, CachedKnows, Represents
  <2>8. NotModifiedIsCurrent'
    BY <1>4, <2>3, <2>4, <2>5, <2>6 DEF NotModifiedIsCurrent
  <2>9. QED
    BY <2>7, <2>8
<1>6. CASE ~NotModified(a, etags)
  <2>1. NotModifiedIsCurrent'
    BY <1>2, <1>4, <1>6 DEF NotModifiedIsCurrent
  <2>2. CASE a.status # 200
    <3>1. cached' = cached
      BY <1>3, <2>2
    <3>2. QED
      BY <1>1, <2>1, <3>1 DEF ClientInv, CachedKnows, Represents
  <2>3. CASE a.status = 200
    <3>1. cached' = [req |-> req, etag |-> a.etag, body |-> a.body, from |-> o]
      BY <1>3, <1>6, <2>3
    <3>2. /\ cached'.req = req /\ cached'.etag = a.etag /\ cached'.body = a.body
          /\ cached'.from = o
      BY <3>1
    <3>3. PICK served \in Started : served = o
      BY <1>2, <2>3
    <3>4. Represents(served, cached)' /\ cached'.from = served
      BY <1>1, <1>2, <2>3, <3>2, <3>3 DEF Represents
    <3>5. QED
      BY <2>1, <3>2, <3>4 DEF CachedKnows
  <2>4. QED
    BY <2>2, <2>3
<1>7. QED
  BY <1>5, <1>6

\* Another page collected of a listing: a page of o, after the pages that came from S.
Collected(o, req, L, k, a, items, whole, S) ==
    /\ o.key = plan.key
    /\ S \subseteq Started /\ \A other \in S : other.content = o.content /\ other.key = plan.key
    /\ req.route \in Listings /\ DOMAIN req = Fields(req.route)
    /\ L = Listing(ProjectionOf(o), req)
    /\ Offset(req.cursor) = k
    /\ a = Represent(ProjectionOf(o), req) /\ a.status = 200
    /\ OneFile(S \cup {o}) => items = SubSeq(L, 1, k) /\ whole = L
    /\ walk' = [req |-> req, items |-> items \o a.body.items, next |-> a.body.next,
                whole |-> whole, from |-> S \cup {o}]
LEMMA PageCollected ==
    ASSUME NullIsNoCursor,
           NEW o \in Started, NEW req, NEW T, NEW L \in Seq(T), NEW k \in 0..Len(L), NEW a,
           NEW items, NEW whole, NEW S,
           Collected(o, req, L, k, a, items, whole, S), plan' = plan
    PROVE  WalkKnows'
<1>1. PICK p : p = ProjectionOf(o)
  OBVIOUS
<1>2. /\ req.limit \in 1..100
      /\ a.body = Page(p, L, req.route, Params(req), req.limit, req.cursor)
  <2>1. req.route \in Listings /\ L = Listing(p, req) /\ a = Represent(p, req)
        /\ a.status = 200
    BY <1>1 DEF Collected
  <2>2. QED
    BY <2>1, ListingAnswered
<1>3. Offset(req.cursor) = k
  BY DEF Collected
<1>4. PICK limit, route, params, cursor :
        limit = req.limit /\ route = req.route /\ params = Params(req) /\ cursor = req.cursor
  OBVIOUS
<1>5. PICK n \in 0..Len(L) :
        /\ SubSeq(L, 1, k) \o a.body.items = SubSeq(L, 1, n)
        /\ a.body.next = IF n < Len(L) THEN Cursor(p, route, params, limit, n) ELSE Null
  <2>1. /\ limit \in 1..100 /\ Offset(cursor) = k
        /\ a.body = Page(p, L, route, params, limit, cursor)
    BY <1>2, <1>3, <1>4
  <2>2. PICK page : page = a.body
    OBVIOUS
  <2>3. page = Page(p, L, route, params, limit, cursor)
    BY <2>1, <2>2
  <2>4. Extended(p, L, route, params, limit, k, page)
    BY <2>1, <2>3, PageExtends
  <2>5. QED
    BY <2>2, <2>4 DEF Extended
<1>6. /\ walk'.req = req /\ walk'.next = a.body.next /\ walk'.from = S \cup {o}
      /\ walk'.items = items \o a.body.items /\ walk'.whole = whole
  BY DEF Collected
<1>7. /\ o.key = plan'.key /\ L = Listing(p, req)
      /\ req.route \in Listings /\ DOMAIN req = Fields(req.route)
      /\ walk'.from \subseteq Started
      /\ \A other \in walk'.from : other.content = o.content /\ other.key = plan'.key
  BY <1>1, <1>6 DEF Collected
<1>8. Continues(o, n)'
  BY <1>1, <1>4, <1>5, <1>6, <1>7 DEF Continues
<1>9. ASSUME OneFile(S \cup {o})
      PROVE  Collecting(o, n)'
  <2>1. items = SubSeq(L, 1, k) /\ whole = L
    BY <1>9 DEF Collected
  <2>2. walk'.items = SubSeq(L, 1, n) /\ walk'.whole = L
    BY <1>5, <1>6, <2>1
  <2>3. walk'.next = Null => n = Len(L)
    <3>1. Cursor(p, route, params, limit, n) # Null
      BY DEF NullIsNoCursor
    <3>2. ~(n < Len(L)) => n = Len(L)
      OBVIOUS
    <3>3. QED
      BY <1>5, <1>6, <3>1, <3>2, Zenon
  <2>4. QED
    BY <1>1, <1>6, <1>7, <2>2, <2>3 DEF Collecting
<1>10. n \in Nat /\ o \in walk'.from
  BY <1>6
<1>11. OneFile(walk.from)' => OneFile(S \cup {o})
  BY <1>6 DEF OneFile
<1>12. QED
  BY <1>2, <1>6, <1>7, <1>8, <1>9, <1>10, <1>11 DEF WalkKnows

\* The answer to a request without an ETag.
LEMMA Sent ==
    ASSUME ClientInv, NEW r \in Processes, NEW req, req.route \in Listings,
           Send(r, req, {}), answer'.status = 200
    PROVE  \E o \in Started :
             /\ o.key = plan.key /\ o = projection[r] /\ answer'.from = o
             /\ Represent(ProjectionOf(o), req).status = 200
             /\ answer'.full = Represent(ProjectionOf(o), req).body
<1> DEFINE o == projection[r]
           a == Respond(Served(o), plan.key, req)
<1>1. o \in Started \cup {Null}
  BY DEF ClientInv
<1>2. a.status = 200 =>
        o \in Started /\ o.key = plan.key /\ a = Represent(ProjectionOf(o), req)
  BY <1>1, RequestAnswered DEF Routes
<1>3. ~NotModified(a, {})
  BY DEF NotModified
<1>4. answer' = [status |-> a.status, req |-> req,
                 full |-> IF a.status = 200 THEN a.body ELSE Null, from |-> o]
  BY <1>3 DEF Send
<1> HIDE DEF a
<1>5. a.status = 200 /\ answer'.full = a.body /\ answer'.from = o
  BY <1>4
<1>6. QED
  BY <1>2, <1>5

LEMMA AskKeeps ==
    ASSUME NullIsNoCursor, ClientInv, NEW r \in Processes, NEW req, req.route \in Routes,
           DOMAIN req = Fields(req.route), req.route \in Listings => req.cursor = Null,
           Send(r, req, {}), Collect(req, <<>>, Listing(Served(projection[r]), req), {})
    PROVE  WalkKnows'
<1>1. CASE req.route \notin Listings \/ answer'.status # 200
  <2>1. walk' = NoWalk
    BY <1>1 DEF Collect
  <2>2. QED
    BY <2>1 DEF WalkKnows, NoWalk
<1>2. CASE req.route \in Listings /\ answer'.status = 200
  <2>1. PICK o \in Started :
          /\ o.key = plan.key /\ o = projection[r] /\ answer'.from = o
          /\ Represent(ProjectionOf(o), req).status = 200
          /\ answer'.full = Represent(ProjectionOf(o), req).body
    BY <1>2, Sent
  <2>2. PICK L : L = Listing(ProjectionOf(o), req)
    OBVIOUS
  <2>3. Listing(Served(projection[r]), req) = L
    BY <2>1, <2>2, Loaded
  <2>4. PICK a : a = Represent(ProjectionOf(o), req)
    OBVIOUS
  <2>5. walk' = [req |-> req, items |-> <<>> \o a.body.items, next |-> a.body.next,
                 whole |-> L, from |-> {} \cup {o}]
    BY <1>2, <2>1, <2>3, <2>4 DEF Collect
  <2>6. PICK T : L \in Seq(T)
    BY <1>2, <2>2, ListingIsSequence
  <2>7. SubSeq(L, 1, 0) = <<>> /\ 0 \in 0..Len(L)
    BY <2>6, SubSeqEmpty
  <2>8. Offset(req.cursor) = 0
    BY <1>2 DEF Offset
  <2>9. plan' = plan
    BY DEF Send
  <2>10. Collected(o, req, L, 0, a, <<>>, L, {})
    BY <1>2, <2>1, <2>2, <2>4, <2>5, <2>7, <2>8 DEF Collected
  <2>11. QED
    BY <2>6, <2>7, <2>9, <2>10, PageCollected
<1>3. QED
  BY <1>1, <1>2

\* A cursor is only good for the content digest that it was cut under.
LEMMA FollowKeeps ==
    ASSUME NullIsNoCursor, ClientInv,
           NEW r \in Processes, Follow(r)
    PROVE  WalkKnows'
<1> DEFINE req == [walk.req EXCEPT !.cursor = walk.next]
<1>1. walk # NoWalk
  BY DEF Follow, NoWalk
<1>2. /\ walk.req.route \in Listings /\ DOMAIN walk.req = Fields(walk.req.route)
      /\ walk.req.limit \in 1..100 /\ walk.from \subseteq Started
  BY <1>1 DEF ClientInv, WalkKnows
<1>3. PICK last \in walk.from, k \in Nat :
        Continues(last, k) /\ (OneFile(walk.from) => Collecting(last, k))
  BY <1>1 DEF ClientInv, WalkKnows
<1>4. /\ DOMAIN req = Fields(req.route)
      /\ req.route = walk.req.route /\ req.limit = walk.req.limit /\ req.cursor = walk.next
      /\ Params(req) = Params(walk.req)
      /\ \A p : Listing(p, req) = Listing(p, walk.req)
  <2>1. PICK old, c : old = walk.req /\ c = walk.next
    OBVIOUS
  <2>2. old.route \in Listings /\ DOMAIN old = Fields(old.route)
    BY <1>2, <2>1
  <2>3. PICK more : more = More(old, c)
    OBVIOUS
  <2>4. /\ DOMAIN more = Fields(more.route)
        /\ more.route = old.route /\ more.limit = old.limit /\ more.cursor = c
        /\ Params(more) = Params(old)
        /\ \A p : Listing(p, more) = Listing(p, old)
    BY <2>2, <2>3, SameListing
  <2>5. req = more
    BY <2>1, <2>3 DEF More
  <2> HIDE DEF req
  <2>6. QED
    BY <2>1, <2>4, <2>5
<1>5. /\ Send(r, req, {}) /\ Collect(req, walk.items, walk.whole, walk.from)
      /\ walk.next # Null
  BY DEF Follow
<1> HIDE DEF req
<1>6. CASE answer'.status # 200
  <2>1. walk' = NoWalk
    BY <1>5, <1>6 DEF Collect
  <2>2. QED
    BY <2>1 DEF WalkKnows, NoWalk
<1>7. CASE answer'.status = 200
  <2>1. PICK o \in Started :
          /\ o.key = plan.key /\ answer'.from = o
          /\ Represent(ProjectionOf(o), req).status = 200
          /\ answer'.full = Represent(ProjectionOf(o), req).body
    BY <1>2, <1>4, <1>5, <1>7, Sent
  <2>2. PICK a : a = Represent(ProjectionOf(o), req)
    OBVIOUS
  <2>3. PICK c : c = walk.next
    OBVIOUS
  <2>4. c = Cursor(ProjectionOf(last), walk.req.route, Params(walk.req), walk.req.limit, k)
        /\ last.key = plan.key
    BY <1>3, <1>5, <2>3 DEF Continues
  <2>5. c # Null /\ GoodCursor(ProjectionOf(o), Listing(ProjectionOf(o), req), req.route,
                                   Params(req), req.limit, c)
    BY <1>2, <1>4, <1>5, <2>1, <2>3, ListingAnswered
  <2>6. c = Cursor(ProjectionOf(o), req.route, Params(req), req.limit, c.offset)
    BY <2>5 DEF GoodCursor, Belongs
  <2>7. c.offset = k /\ c.content_sha256 = last.content
    BY <1>2, <2>4, Loaded DEF Cursor
  <2>8. c.content_sha256 = o.content
    BY <2>6, Loaded DEF Cursor
  <2>9. \A other \in walk.from : other.content = o.content /\ other.key = plan.key
    BY <1>3, <2>7, <2>8 DEF Continues
  <2>10. PICK L : L = Listing(ProjectionOf(o), req)
    OBVIOUS
  <2>11. PICK T : L \in Seq(T)
    BY <1>2, <1>4, <2>1, <2>10, ListingIsSequence
  <2>12. k \in 0..Len(L)
    BY <2>5, <2>7, <2>10, <2>11 DEF GoodCursor
  <2>13. ASSUME OneFile(walk.from \cup {o})
         PROVE  walk.items = SubSeq(L, 1, k) /\ walk.whole = L
    <3>1. OneFile(walk.from) /\ o.file = last.file
      BY <2>13 DEF OneFile
    <3>2. ProjectionOf(o) = ProjectionOf(last)
      BY <2>1, <2>4, <3>1 DEF ProjectionOf
    <3>3. QED
      BY <1>3, <1>4, <2>10, <3>1, <3>2 DEF Collecting
  <2>14. walk' = [req |-> req, items |-> walk.items \o a.body.items, next |-> a.body.next,
                  whole |-> walk.whole, from |-> walk.from \cup {o}]
    BY <1>2, <1>4, <1>5, <1>7, <2>1, <2>2 DEF Collect
  <2>15. Offset(req.cursor) = k
    BY <1>4, <2>3, <2>5, <2>7 DEF Offset
  <2>16. plan' = plan
    BY <1>5 DEF Send
  <2>17. Collected(o, req, L, k, a, walk.items, walk.whole, walk.from)
    BY <1>2, <1>4, <2>1, <2>2, <2>9, <2>10, <2>13, <2>14, <2>15 DEF Collected
  <2>18. QED
    BY <2>11, <2>12, <2>16, <2>17, PageCollected
<1>8. QED
  BY <1>6, <1>7

\* Whatever leaves what the client has and the release's plan alone keeps what is known of it.
LEMMA ClientUntouched ==
    ASSUME ClientInv, UNCHANGED <<plan, answer, cached, walk>>,
           projection' \in [Processes -> Started \cup {Null}]
    PROVE  ClientInv'
<1>1. CachedKnows' /\ NotModifiedIsCurrent'
  BY DEF ClientInv, CachedKnows, Represents, NotModifiedIsCurrent
<1>2. WalkKnows'
  BY DEF ClientInv, WalkKnows, Continues, Collecting
<1>3. QED
  BY <1>1, <1>2 DEF ClientInv

\* A replica's projection is that of the settings it was started with, or of none.
LEMMA ReplicaStep ==
    ASSUME ClientInv, NEW r \in Processes,
           \/ Step(r) \/ Timeout(r) \/ Crash(r) \/ Trip(r) \/ EndPause(r)
           \/ \E d \in plan.deployments : Deploy(r, d)
    PROVE  ClientInv'
<1> DEFINE Known == Started \cup {Null}
<1>1. projection \in [Processes -> Known]
  BY DEF ClientInv
<1>2. ASSUME NEW how, Down(r, how)
      PROVE  projection' \in [Processes -> Known]
  BY <1>1, <1>2 DEF Down
<1>3. CASE Start(r)
  <2>1. deployed[r].ontology \in Known
    BY <1>3 DEF Start, Started
  <2>2. projection' = [projection EXCEPT ![r] = deployed[r].ontology]
        /\ UNCHANGED <<plan, answer, cached, walk>>
    BY <1>3 DEF Start, clientVars
  <2>3. projection' \in [Processes -> Known]
    BY <1>1, <2>1, <2>2
  <2>4. QED
    BY <2>2, <2>3, ClientUntouched
<1>4. CASE RefuseSettings(r) \/ CheckLimiters(r) \/ Connect(r) \/ TakeLock(r)
  <2>1. UNCHANGED <<plan, answer, cached, walk>>
    BY <1>4 DEF RefuseSettings, CheckLimiters, Connect, TakeLock, clientVars
  <2>2. projection' \in [Processes -> Known]
    BY <1>1, <1>2, <1>4 DEF RefuseSettings, CheckLimiters, Connect, TakeLock, GoTo
  <2>3. QED
    BY <2>1, <2>2, ClientUntouched
<1>5. CASE Advance(r) \/ Ping(r) \/ FailToConnect(r)
  <2>1. UNCHANGED <<plan, answer, cached, walk>>
    BY <1>5 DEF Advance, Ping, FailToConnect, clientVars
  <2>2. projection' \in [Processes -> Known]
    BY <1>1, <1>2, <1>5 DEF Advance, Ping, FailToConnect, GoTo
  <2>3. QED
    BY <2>1, <2>2, ClientUntouched
<1>6. CASE Timeout(r) \/ Crash(r) \/ \E d \in plan.deployments : Deploy(r, d)
  <2>1. UNCHANGED <<plan, answer, cached, walk>>
    BY <1>6 DEF Timeout, Crash, Deploy, clientVars
  <2>2. projection' \in [Processes -> Known]
    BY <1>2, <1>6 DEF Timeout, Crash, Deploy
  <2>3. QED
    BY <2>1, <2>2, ClientUntouched
<1>7. CASE Trip(r) \/ EndPause(r)
  BY <1>1, <1>7, ClientUntouched DEF Trip, EndPause, clientVars
<1>8. QED
  BY <1>3, <1>4, <1>5, <1>6, <1>7 DEF Step

LEMMA ServiceStep ==
    ASSUME ClientInv, NEW s, Outage(s) \/ Recover(s)
    PROVE  ClientInv'
<1> DEFINE Known == Started \cup {Null}
<1>1. projection \in [Processes -> Known]
  BY DEF ClientInv
<1>2. UNCHANGED <<plan, answer, cached, walk>>
  BY DEF Outage, Recover, clientVars
<1>3. \/ projection' = projection
      \/ projection' = [r \in Processes |-> IF Connected(r) THEN Null ELSE projection[r]]
  BY DEF Outage, Recover
<1>4. projection' \in [Processes -> Known]
  BY <1>1, <1>3
<1>5. QED
  BY <1>2, <1>4, ClientUntouched

LEMMA ClientStep ==
    ASSUME NullIsNoCursor,
           ClientInv, NEW r \in Processes,
           (\E req \in plan.requests : Ask(r, req)) \/ Follow(r) \/ Revalidate(r)
    PROVE  ClientInv'
<1>1. ASSUME NEW req, NEW etags, Send(r, req, etags)
      PROVE  plan' \in Plans /\ projection' \in [Processes -> Started \cup {Null}]
  BY <1>1 DEF ClientInv, Send, startVars
<1>2. ASSUME NEW req \in plan.requests, Ask(r, req)
      PROVE  ClientInv'
  <2>1. req.route \in Routes /\ DOMAIN req = Fields(req.route)
        /\ (req.route \in Listings => req.cursor = Null)
    BY <1>2, RequestsAreFresh DEF ClientInv
  <2>2. Send(r, req, {})
        /\ Collect(req, <<>>, Listing(Served(projection[r]), req), {})
    BY <1>2 DEF Ask
  <2>3. CachedKnows' /\ NotModifiedIsCurrent'
    BY <2>1, <2>2, SendKeeps
  <2>4. WalkKnows'
    BY <2>1, <2>2, AskKeeps
  <2>5. QED
    BY <1>1, <2>2, <2>3, <2>4 DEF ClientInv
<1>3. CASE Follow(r)
  <2>1. walk # NoWalk
    BY <1>3 DEF Follow, NoWalk
  <2>2. walk.req.route \in Listings /\ DOMAIN walk.req = Fields(walk.req.route)
    BY <2>1 DEF ClientInv, WalkKnows
  <2>3. PICK req : req = More(walk.req, walk.next)
    OBVIOUS
  <2>4. req.route \in Routes
    BY <2>2, <2>3, SameListing DEF Routes
  <2>5. Send(r, req, {})
    BY <1>3, <2>3 DEF Follow, More
  <2>6. CachedKnows' /\ NotModifiedIsCurrent'
    BY <2>4, <2>5, SendKeeps
  <2>7. WalkKnows'
    BY <1>3, FollowKeeps
  <2>8. QED
    BY <1>1, <2>5, <2>6, <2>7 DEF ClientInv
<1>4. CASE Revalidate(r)
  <2>1. cached # Null /\ Send(r, cached.req, {cached.etag}) /\ walk' = walk
    BY <1>4 DEF Revalidate
  <2>2. cached.req.route \in Routes
    BY <2>1 DEF ClientInv, CachedKnows
  <2>3. CachedKnows' /\ NotModifiedIsCurrent'
    BY <2>1, <2>2, SendKeeps
  <2>4. plan' = plan
    BY <2>1 DEF Send
  <2>5. WalkKnows'
    BY <2>1, <2>4 DEF ClientInv, WalkKnows, Continues, Collecting
  <2>6. QED
    BY <1>1, <2>1, <2>3, <2>5 DEF ClientInv
<1>5. QED
  BY <1>2, <1>3, <1>4

LEMMA ClientInvStarts == ReplicaInit => ClientInv
<1> SUFFICES ASSUME ReplicaInit
             PROVE  ClientInv
  OBVIOUS
<1>1. plan \in Plans /\ projection = [r \in Processes |-> Null]
      /\ answer.status = 0 /\ cached = Null /\ walk = NoWalk
  BY DEF ReplicaInit, Nothing
<1>2. projection \in [Processes -> Started \cup {Null}]
  BY <1>1
<1>3. QED
  BY <1>1, <1>2 DEF ClientInv, CachedKnows, WalkKnows, NotModifiedIsCurrent

LEMMA ClientInvImplies ==
    ASSUME ClientInv
    PROVE  ClientsSeeOneRelease
<1>1. CASE walk = NoWalk
  BY <1>1 DEF NoWalk, ClientInv, ClientsSeeOneRelease, WalkIsOneListing
<1>2. CASE walk # NoWalk
  <2>1. PICK o \in walk.from, k \in Nat :
          Continues(o, k) /\ (OneFile(walk.from) => Collecting(o, k))
    BY <1>2 DEF ClientInv, WalkKnows
  <2>2. walk.req.route \in Listings /\ walk.from \subseteq Started
    BY <1>2 DEF ClientInv, WalkKnows
  <2>3. \A x, y \in walk.from : x.content = y.content
    BY <2>1 DEF Continues
  <2>4. ASSUME walk.next = Null, OneFile(walk.from)
        PROVE  walk.items = walk.whole
    <3>1. PICK L : L = Listing(ProjectionOf(o), walk.req)
      OBVIOUS
    <3>2. PICK S : L \in Seq(S)
      BY <2>2, <3>1, ListingIsSequence
    <3>3. walk.whole = L /\ walk.items = SubSeq(L, 1, k) /\ k = Len(L)
      BY <2>1, <2>4, <3>1 DEF Collecting
    <3>4. QED
      BY <3>2, <3>3, SubSeqFull
  <2>5. QED
    BY <2>3, <2>4 DEF ClientInv, ClientsSeeOneRelease, WalkIsOneListing
<1>3. QED
  BY <1>1, <1>2

\* _page, etag_for, decode_cursor: for any replicas, releases, restarts and deployments between
\* two requests, the pages a client has collected are of one content digest, and a 304 is of the
\* digest of what it holds; where one file serves that digest the pages are, at the end, the
\* whole listing, and a 304 stands for the representation.
THEOREM ClientsAlwaysSeeOneRelease ==
    ASSUME NullIsNoCursor
    PROVE  ReplicaSpec => []ClientsSeeOneRelease
<1>1. ReplicaInit => ClientInv
  BY ClientInvStarts
<1>2. ASSUME ClientInv, [ReplicaNext]_replicaVars
      PROVE  ClientInv'
  <2>1. CASE ReplicaNext
    BY <1>2, <2>1, ReplicaStep, ServiceStep, ClientStep DEF ReplicaNext
  <2>2. CASE UNCHANGED replicaVars
    BY <1>2, <2>2, ClientUntouched DEF ClientInv, replicaVars, startVars, clientVars
  <2>3. QED
    BY <1>2, <2>1, <2>2
<1>3. ClientInv => ClientsSeeOneRelease
  BY ClientInvImplies
<1>4. QED
  BY <1>1, <1>2, <1>3, PTL DEF ReplicaSpec
=============================================================================
