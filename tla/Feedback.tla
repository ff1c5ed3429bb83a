-------------------------------- MODULE Feedback --------------------------------
(***************************************************************************)
(* Feedback intake and the operators' inbox (app/store.py,                 *)
(* app/routers/feedback.py, app/breaker.py) on replicas that share one     *)
(* Mongo collection and keep a bounded memory each.                        *)
(*                                                                         *)
(* A call begins once the rate limit, the challenge and the operator key   *)
(* have let it pass.  Its command is on the wire until Mongo executes it;  *)
(* the caller may give up on it before or after that.  A submission's      *)
(* record is named by its call.                                            *)
(***************************************************************************)
EXTENDS Integers, Sequences, FiniteSets, SequencesExt

CONSTANTS
    Calls, Replicas,
    MemoryCap  \* _MEMORY_CAP

ASSUME MemoryCapIsPositive == MemoryCap \in Nat \ {0}

VARIABLES
    durable,  \* settings.feedback_require_durable, the same on every replica
    mongo,    \* each record in the collection: absent, its status, or erased
    wire,     \* calls whose command Mongo has yet to execute
    memory,   \* each replica's deque of [id, status], oldest first
    breaker,  \* each replica's breaker: open for the cooldown after a failure, else closed
    call

vars == <<durable, mongo, wire, memory, breaker, call>>

Terminal == {"archived", "spam"}
Statuses == {"new", "reviewed"} \cup Terminal
AllowedFrom(status) == IF status = "reviewed" THEN {"new"} ELSE {"new", "reviewed"}

Idle == [pc |-> "idle", op |-> "none", answer |-> "none"]

Init ==
    /\ durable \in BOOLEAN
    /\ mongo = [x \in Calls |-> "absent"]
    /\ wire = {}
    /\ memory = [r \in Replicas |-> <<>>]
    /\ breaker = [r \in Replicas |-> "closed"]
    /\ call = [c \in Calls |-> Idle]

Answered(k, answer) == [k EXCEPT !.pc = "done", !.answer = answer]

-----------------------------------------------------------------------------
(* Without Mongo.                                                          *)

Remembered(r, record) ==
    LET all == Append(memory[r], record)
    IN  IF Len(all) > MemoryCap THEN Tail(all) ELSE all

SubmissionAnswer == IF durable THEN "unavailable" ELSE "accepted"

Held(k) == {i \in DOMAIN memory[k.replica] : memory[k.replica][i].id = k.record}

Triable(k) == {i \in Held(k) : memory[k.replica][i].status \in AllowedFrom(k.to)}

FallThrough == FALSE  \* a slip
FailsClosed == durable

\* What a call does when it gets no collection, or an error from it: the memory of its
\* replica then is k.replica's new deque, and the call ends with the answer.
MemoryAfter(k) ==
    IF k.op = "submit" THEN Remembered(k.replica, [id |-> k.record, status |-> "new"])
    ELSE IF FailsClosed THEN memory[k.replica]
    ELSE IF k.op = "erase"
      THEN SelectSeq(memory[k.replica], LAMBDA record : record.id # k.record)
    ELSE IF k.op = "triage"
      THEN [i \in DOMAIN memory[k.replica] |->
              IF i \in Triable(k) THEN [memory[k.replica][i] EXCEPT !.status = k.to]
                                  ELSE memory[k.replica][i]]
    ELSE memory[k.replica]

MemoryAnswer(k) ==
    IF k.op = "submit" THEN SubmissionAnswer
    ELSE IF FailsClosed THEN "unavailable"
    ELSE IF k.op = "erase" THEN (IF Held(k) = {} THEN "notfound" ELSE "erased")
    ELSE IF k.op = "triage" THEN (IF Triable(k) = {} THEN "refused" ELSE "moved")
    ELSE "listed"

WithoutMongo(c, k) ==
    /\ memory' = [memory EXCEPT ![k.replica] = MemoryAfter(k)]
    /\ call' = [call EXCEPT ![c] = Answered(k, MemoryAnswer(k))]

-----------------------------------------------------------------------------
(* A call begins: an open breaker keeps it from Mongo.                     *)

Begin(c, asked) ==
    /\ call[c].pc = "idle"
    /\ \/ /\ breaker[asked.replica] = "open"
          /\ WithoutMongo(c, asked)
          /\ UNCHANGED <<durable, mongo, wire, breaker>>
       \/ /\ breaker[asked.replica] # "open"
          /\ call' = [call EXCEPT ![c] = asked]
          /\ wire' = wire \cup {c}
          /\ UNCHANGED <<durable, mongo, memory, breaker>>

Asked(op, r, x, to) ==
    [pc |-> "sent", op |-> op, answer |-> "none", replica |-> r, record |-> x, to |-> to,
     matched |-> FALSE]

Submitted == {x \in Calls : call[x].op = "submit"}

Submit(c, r) == Begin(c, Asked("submit", r, c, "new"))
List(c, r) == Begin(c, Asked("list", r, c, "new"))
Triage(c, r, x, to) == Begin(c, Asked("triage", r, x, to))
Erase(c, r, x) == Begin(c, Asked("erase", r, x, "new"))

-----------------------------------------------------------------------------
(* Mongo executes a command, also one whose caller has given up.           *)

AnyStatus(k) == mongo[k.record] \in Statuses  \* a slip
Matches(k) == mongo[k.record] \in AllowedFrom(k.to)

Execute(c) ==
    LET k == call[c]
        matched == \/ k.op = "triage" /\ Matches(k)
                   \/ k.op = "erase" /\ mongo[k.record] \in Statuses
    IN  /\ c \in wire
        /\ wire' = wire \ {c}
        /\ mongo' = [mongo EXCEPT ![k.record] =
                       CASE k.op = "submit" -> "new"
                         [] k.op = "triage" /\ matched -> k.to
                         [] k.op = "erase" /\ matched -> "erased"
                         [] OTHER -> @]
        /\ call' = IF k.pc = "sent"
                     THEN [call EXCEPT ![c].pc = "executed", ![c].matched = matched]
                     ELSE call
        /\ UNCHANGED <<durable, memory, breaker>>

Reply(k) ==
    CASE k.op = "submit" -> "stored"
      [] k.op = "list" -> "listed"
      [] k.op = "erase" -> IF k.matched THEN "erased" ELSE "notfound"
      [] k.op = "triage" -> "refused"

\* The acknowledgement arrives.  A stored submission resets the breaker; a triage that
\* matched goes back for the record.
Acknowledge(c) ==
    LET k == call[c]
    IN  /\ k.pc = "executed"
        /\ call' = [call EXCEPT ![c] = IF k.op = "triage" /\ k.matched
                                         THEN [k EXCEPT !.pc = "reading"]
                                         ELSE Answered(k, Reply(k))]
        /\ breaker' = [breaker EXCEPT ![k.replica] = IF k.op = "submit" THEN "closed" ELSE @]
        /\ UNCHANGED <<durable, mongo, wire, memory>>

ReadBack(c) ==
    LET k == call[c]
    IN  /\ k.pc = "reading"
        /\ call' = [call EXCEPT ![c] =
             Answered(k, IF mongo[k.record] \in Statuses THEN "moved" ELSE "refused")]
        /\ UNCHANGED <<durable, mongo, wire, memory, breaker>>

\* The driver gives up, wherever the command is by then.
Fail(c) ==
    LET k == call[c]
    IN  /\ k.pc \in {"sent", "executed", "reading"}
        /\ breaker' = [breaker EXCEPT ![k.replica] = "open"]
        /\ WithoutMongo(c, k)
        /\ UNCHANGED <<durable, mongo, wire>>

CoolDown(r) ==
    /\ breaker[r] = "open"
    /\ breaker' = [breaker EXCEPT ![r] = "closed"]
    /\ UNCHANGED <<durable, mongo, wire, memory, call>>

\* A replica starts anew; the calls it was serving are never answered.
Restart(r) ==
    /\ memory' = [memory EXCEPT ![r] = <<>>]
    /\ breaker' = [breaker EXCEPT ![r] = "closed"]
    /\ call' = [c \in Calls |->
                  IF call[c].pc \in {"sent", "executed", "reading"} /\ call[c].replica = r
                    THEN [call[c] EXCEPT !.pc = "dead"] ELSE call[c]]
    /\ UNCHANGED <<durable, mongo, wire>>

Next ==
    \/ \E c \in Calls, r \in Replicas :
         \/ Submit(c, r)
         \/ List(c, r)
         \/ \E x \in Submitted : Erase(c, r, x) \/ \E to \in Statuses \ {"new"} : Triage(c, r, x, to)
    \/ \E c \in Calls : Execute(c) \/ Acknowledge(c) \/ ReadBack(c) \/ Fail(c)
    \/ \E r \in Replicas : CoolDown(r) \/ Restart(r)

Spec == Init /\ [][Next]_vars

-----------------------------------------------------------------------------
(* Properties.                                                             *)

Did(c, op, answer) == call[c].op = op /\ call[c].answer = answer

\* README.md 134 and store.py 39-40: where durability is required, what is answered
\* with success is Mongo's.  A submission is there unless an operator erased it, and
\* what was erased or moved in a replica's memory only is never reported as done.
SuccessIsDurable ==
    durable => \A c \in Calls :
      /\ Did(c, "submit", "stored") \/ Did(c, "submit", "accepted") => mongo[c] # "absent"
      /\ Did(c, "erase", "erased") => mongo[call[c].record] = "erased"
      /\ Did(c, "triage", "moved") =>
           mongo[call[c].record] \in {"erased", call[c].to} \cup
             (IF call[c].to = "reviewed" THEN Terminal ELSE {})

\* store.py 164-168: of the operators who archive or reject a record at the same time,
\* on any replica, one is told that he did.
OneVerdict ==
    durable => \A c, d \in Calls :
      (/\ Did(c, "triage", "moved") /\ Did(d, "triage", "moved")
       /\ call[c].to \in Terminal /\ call[d].to \in Terminal
       /\ call[c].record = call[d].record) => c = d

=============================================================================
