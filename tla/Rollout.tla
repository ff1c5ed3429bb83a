--------------------------------- MODULE Rollout ---------------------------------
(***************************************************************************)
(* One rollout of the two replicas (ops/remote/manage-wiki-rollout.sh):    *)
(* deploy, rollback and finalize, run one at a time under the operation    *)
(* lock.  Every docker command and every atomic file replacement is one    *)
(* step; the script may die between any two of them, and what it has done  *)
(* to the containers and to the files stays.                               *)
(*                                                                         *)
(* Left out: the checks of digests, labels, ports and file modes, which    *)
(* compare things this rollout never changes, and the public route.        *)
(***************************************************************************)
EXTENDS Integers

CONSTANT N  \* replicas, replaced in the order 1..N (two in the code)

ASSUME NIsPositive == N \in Nat \ {0}

VARIABLES
    status,   \* STATUS of the state file
    gate,     \* the schema gate receipt: pending or published
    receipt,  \* the deployment receipt: none, retained or done
    pointer,  \* deployment-current.env: none, previous (of an older rollout) or current
    live,     \* under each replica's name: none, the prior or the candidate container
    health,   \* of that container: down, starting or up
    backups,  \* replicas whose prior container is kept, stopped, under its backup name
    mode,     \* of the script that runs, or none
    next,     \* its next command ...
    replica,  \* ... and the replica that is for
    restored, \* has every command of the rollback succeeded so far?
    retreat,  \* history: a rollback was begun
    overlooked \* history: backups that docker did not show when they were to be removed

files == <<status, gate, receipt, pointer>>
docker == <<live, health, backups>>
script == <<mode, next, replica, restored>>
ghosts == <<retreat, overlooked>>
vars == <<files, docker, script, ghosts>>

Replicas == 1..N
Idle == mode = "none"
At(m, command) == mode = m /\ next = command
Run(m, command, r) == mode' = m /\ next' = command /\ replica' = r /\ restored' = TRUE
Go(command) == next' = command /\ UNCHANGED <<mode, replica, restored>>
Exit == Run("none", "none", 1)

\* validate_candidate_container, strict, of every replica.
CandidatesServe == \A r \in Replicas : live[r] = "candidate" /\ health[r] = "up"

Init ==
    /\ status = "PREPARING"
    /\ gate = "pending"
    /\ receipt = "none"
    /\ pointer \in {"none", "previous"}
    /\ live = [r \in Replicas |-> "prior"]
    /\ health = [r \in Replicas |-> "up"]
    /\ backups = {}
    /\ mode = "none" /\ next = "none" /\ replica = 1 /\ restored = TRUE
    /\ retreat = FALSE /\ overlooked = {}

-----------------------------------------------------------------------------
(* deploy: replace one replica after the other.                            *)

\* A backup that is there already would not stop it: `! docker ...` never aborts.
BeginDeploy ==
    /\ Idle
    /\ status = "PREPARING" /\ gate = "pending"
    /\ \A r \in Replicas : live[r] = "prior" /\ health[r] = "up"
    /\ gate' = "published"
    /\ Run("deploy", "stop", 1)
    /\ UNCHANGED <<status, receipt, pointer, docker, ghosts>>

DeployStop ==
    /\ At("deploy", "stop")
    /\ health' = [health EXCEPT ![replica] = "down"]
    /\ Go("rename")
    /\ UNCHANGED <<files, live, backups, ghosts>>

DeployRename ==
    /\ At("deploy", "rename")
    /\ live' = [live EXCEPT ![replica] = "none"]
    /\ backups' = backups \cup {replica}
    /\ Go("run")
    /\ UNCHANGED <<files, health, ghosts>>

\* The container may be created and yet not start.
DeployRun ==
    /\ At("deploy", "run")
    /\ live' = [live EXCEPT ![replica] = "candidate"]
    /\ \E h \in {"starting", "down"} : health' = [health EXCEPT ![replica] = h]
    /\ Go("await")
    /\ UNCHANGED <<files, backups, ghosts>>

AnotherAfter(r) == r < N

DeployAwait ==
    /\ At("deploy", "await")
    /\ health[replica] = "up"
    /\ IF AnotherAfter(replica)
         THEN next' = "stop" /\ replica' = replica + 1 /\ UNCHANGED <<mode, restored>>
         ELSE Go("publish")
    /\ UNCHANGED <<files, docker, ghosts>>

DeployPublish ==
    /\ At("deploy", "publish")
    /\ CandidatesServe
    /\ status' = "AWAITING_PUBLIC_READBACK"
    /\ Exit
    /\ UNCHANGED <<gate, receipt, pointer, docker, ghosts>>

-----------------------------------------------------------------------------
(* rollback: refused once the receipt is committed; a command that fails   *)
(* is remembered and the rest is tried all the same.                       *)

AnyStatusButDone == status # "DONE"  \* a slip
RollbackAllowed ==
    /\ status \notin {"DONE", "DONE_ROLLBACK_RETAINED"}
    /\ status = "FINALIZING" => receipt = "none"

\* Every prior container is there, under one name or the other.
PriorsSurvive == \A r \in Replicas : r \in backups \/ live[r] = "prior"

OnlyStart(r) == "start"  \* a slip
FirstCommand(r) ==
    IF r \notin backups THEN "start" ELSE IF live[r] = "none" THEN "rename" ELSE "stop"

\* An inspect that fails passes for a container that is not there.
FirstCommands(r) ==
    {FirstCommand(r), "start"} \cup IF r \in backups THEN {"rename"} ELSE {}

StartRollback ==
    /\ RollbackAllowed
    /\ PriorsSurvive
    /\ \E command \in FirstCommands(N) : Run("rollback", command, N)
    /\ retreat' = TRUE
    /\ UNCHANGED <<files, docker, overlooked>>

BeginRollback == Idle /\ StartRollback

\* The ERR trap of deploy rolls back.
DeployFail == mode = "deploy" /\ StartRollback

Forgiven(command, ok) == Go(command)  \* a slip
Then(command, ok) ==
    next' = command /\ restored' = (restored /\ ok) /\ UNCHANGED <<mode, replica>>

RollbackStop(r) ==
    /\ At("rollback", "stop") /\ replica = r
    /\ \/ health' = [health EXCEPT ![r] = "down"] /\ Then("remove", TRUE)
       \/ UNCHANGED health /\ Then("remove", FALSE)
    /\ UNCHANGED <<files, live, backups, ghosts>>

RollbackRemove(r) ==
    /\ At("rollback", "remove") /\ replica = r
    /\ \/ /\ health[r] = "down"
          /\ live' = [live EXCEPT ![r] = "none"]
          /\ Then("rename", TRUE)
       \/ UNCHANGED live /\ Then("rename", FALSE)
    /\ UNCHANGED <<files, health, backups, ghosts>>

RollbackRename(r) ==
    /\ At("rollback", "rename") /\ replica = r
    /\ \/ /\ live[r] = "none"
          /\ live' = [live EXCEPT ![r] = "prior"]
          /\ backups' = backups \ {r}
          /\ Then("start", TRUE)
       \/ UNCHANGED <<live, backups>> /\ Then("start", FALSE)
    /\ UNCHANGED <<files, health, ghosts>>

RollbackStart(r) ==
    /\ At("rollback", "start") /\ replica = r
    /\ \/ /\ live[r] # "none"
          /\ health' = [health EXCEPT ![r] = IF @ = "down" THEN "starting" ELSE @]
          /\ Then("await", TRUE)
       \/ UNCHANGED health /\ Then("await", FALSE)
    /\ UNCHANGED <<files, live, backups, ghosts>>

\* Healthy in time and the prior container, or not.
RollbackAwait(r) ==
    /\ At("rollback", "await") /\ replica = r
    /\ \E ok \in BOOLEAN :
         /\ ok => live[r] = "prior" /\ health[r] = "up"
         /\ IF r > 1
              THEN /\ next' \in FirstCommands(r - 1) /\ replica' = r - 1
                   /\ restored' = (restored /\ ok) /\ UNCHANGED mode
              ELSE Then("record", ok)
    /\ UNCHANGED <<files, docker, ghosts>>

RollbackRecord ==
    /\ At("rollback", "record")
    /\ status' = IF restored THEN "ROLLED_BACK_CONTAINERS"
                                    ELSE "ROLLBACK_FAILED_REQUIRES_OPERATOR"
    /\ Exit
    /\ UNCHANGED <<gate, receipt, pointer, docker, ghosts>>

-----------------------------------------------------------------------------
(* finalize: commit the receipt, then drop the backups.  It takes up where *)
(* the last one stopped.                                                   *)

RemoveEarly(s) == "remove"  \* a slip
Unvalidated(s) ==  \* a slip
    IF s = "FINALIZING" THEN "receipt"
    ELSE IF s = "DONE_ROLLBACK_RETAINED" THEN "remove" ELSE "mark"
FinalizeFrom(s) ==
    IF s = "FINALIZING" THEN "receipt"
    ELSE IF s = "DONE_ROLLBACK_RETAINED" THEN "retire" ELSE "mark"

\* release-web-back-vm100.sh finalizes a new rollout only when the public readback
\* of the candidates has passed.
BeginFinalize ==
    /\ Idle
    /\ status \in {"AWAITING_PUBLIC_READBACK", "FINALIZING", "DONE_ROLLBACK_RETAINED"}
    /\ status = "AWAITING_PUBLIC_READBACK" => CandidatesServe
    /\ Run("finalize", FinalizeFrom(status), 1)
    /\ UNCHANGED <<files, docker, ghosts>>

FinalizeMark ==
    /\ At("finalize", "mark")
    /\ status' = "FINALIZING"
    /\ Go(FinalizeFrom("FINALIZING"))
    /\ UNCHANGED <<gate, receipt, pointer, docker, ghosts>>

FinalizeReceipt ==
    /\ At("finalize", "receipt")
    /\ receipt' = IF receipt = "none" THEN "retained" ELSE receipt
    /\ Go("retain")
    /\ UNCHANGED <<status, gate, pointer, docker, ghosts>>

FinalizeRetain ==
    /\ At("finalize", "retain")
    /\ status' = "DONE_ROLLBACK_RETAINED"
    /\ Go(FinalizeFrom("DONE_ROLLBACK_RETAINED"))
    /\ UNCHANGED <<gate, receipt, pointer, docker, ghosts>>

FinalizeRetire ==
    /\ At("finalize", "retire")
    /\ pointer' = IF pointer = "previous" THEN "none" ELSE pointer
    /\ Go("validate")
    /\ UNCHANGED <<status, gate, receipt, docker, ghosts>>

FinalizeValidate ==
    /\ At("finalize", "validate")
    /\ CandidatesServe
    /\ Go("remove")
    /\ UNCHANGED <<files, docker, ghosts>>

\* One backup after the other goes, but for one that a failing inspect does not show.
FinalizeRemove ==
    /\ At("finalize", "remove")
    /\ \/ backups' = backups \ {replica} /\ overlooked' = overlooked \ {replica}
       \/ /\ replica \in backups
          /\ overlooked' = overlooked \cup {replica} /\ UNCHANGED backups
    /\ IF AnotherAfter(replica)
         THEN replica' = replica + 1 /\ UNCHANGED <<mode, next, restored>>
         ELSE Go("finish")
    /\ UNCHANGED <<files, live, health, retreat>>

FinalizeFinish ==
    /\ At("finalize", "finish")
    /\ receipt' = "done"
    /\ Go("point")
    /\ UNCHANGED <<status, gate, pointer, docker, ghosts>>

FinalizePoint ==
    /\ At("finalize", "point")
    /\ pointer' = "current"
    /\ Go("close")
    /\ UNCHANGED <<status, gate, receipt, docker, ghosts>>

FinalizeClose ==
    /\ At("finalize", "close")
    /\ status' = "DONE"
    /\ Exit
    /\ UNCHANGED <<gate, receipt, pointer, docker, ghosts>>

-----------------------------------------------------------------------------
\* The script is killed, or a command of rollback's checks or of finalize fails.
Crash ==
    /\ ~Idle
    /\ Exit
    /\ UNCHANGED <<files, docker, ghosts>>

\* A container that runs passes its health check, or fails it.
Recover(r) ==
    /\ health[r] = "starting"
    /\ health' = [health EXCEPT ![r] = "up"]
    /\ UNCHANGED <<files, live, backups, script, ghosts>>
Sicken(r) ==
    /\ health[r] = "up"
    /\ health' = [health EXCEPT ![r] = "starting"]
    /\ UNCHANGED <<files, live, backups, script, ghosts>>

Deploy == \/ BeginDeploy \/ DeployStop \/ DeployRename \/ DeployRun
          \/ DeployAwait \/ DeployPublish \/ DeployFail
RollbackOf(r) == \/ RollbackStop(r) \/ RollbackRemove(r) \/ RollbackRename(r)
                 \/ RollbackStart(r) \/ RollbackAwait(r)
Finalize == \/ BeginFinalize \/ FinalizeMark \/ FinalizeReceipt \/ FinalizeRetain
            \/ FinalizeRetire \/ FinalizeValidate \/ FinalizeRemove
            \/ FinalizeFinish \/ FinalizePoint \/ FinalizeClose

Next ==
    \/ Deploy
    \/ BeginRollback \/ RollbackRecord \/ \E r \in Replicas : RollbackOf(r)
    \/ Finalize
    \/ Crash
    \/ \E r \in Replicas : Recover(r) \/ Sicken(r)

Spec == Init /\ [][Next]_vars

\* A script goes on, an operator runs an interrupted command again, and a container
\* that runs gets healthy.
FairSpec ==
    /\ Spec
    /\ WF_vars(Finalize)
    /\ WF_vars(Deploy /\ ~Idle)
    /\ WF_vars(RollbackRecord \/ \E r \in Replicas : RollbackOf(r))
    /\ WF_vars(retreat /\ status # "ROLLED_BACK_CONTAINERS" /\ BeginRollback)
    /\ \A r \in Replicas : WF_vars(Recover(r))

-----------------------------------------------------------------------------
(* Properties.                                                             *)

TypeOK ==
    /\ status \in {"PREPARING", "AWAITING_PUBLIC_READBACK", "FINALIZING",
                   "DONE_ROLLBACK_RETAINED", "DONE", "ROLLED_BACK_CONTAINERS",
                   "ROLLBACK_FAILED_REQUIRES_OPERATOR"}
    /\ gate \in {"pending", "published"}
    /\ receipt \in {"none", "retained", "done"}
    /\ pointer \in {"none", "previous", "current"}
    /\ live \in [Replicas -> {"none", "prior", "candidate"}]
    /\ health \in [Replicas -> {"down", "starting", "up"}]
    /\ backups \subseteq Replicas
    /\ \A r \in Replicas : live[r] = "none" => health[r] = "down"
    /\ mode \in {"none", "deploy", "rollback", "finalize"}
    /\ next \in {"none", "stop", "rename", "run", "await", "publish", "remove", "start",
                 "record", "mark", "receipt", "retain", "retire", "validate", "finish",
                 "point", "close"}
    /\ replica \in Replicas
    /\ restored \in BOOLEAN
    /\ retreat \in BOOLEAN
    /\ overlooked \subseteq Replicas

\* Until the receipt is committed every prior container exists under exactly one of
\* its names, whatever died halfway (lines 257-273 and 332-333).
PriorsKept ==
    receipt = "none" => \A r \in Replicas : r \in backups <=> live[r] # "prior"

\* A rollback that is recorded as done has brought every prior container back, and
\* left no backup behind (lines 274-303).
RolledBackIsWhole ==
    status = "ROLLED_BACK_CONTAINERS" => \A r \in Replicas : live[r] = "prior" /\ r \notin backups

\* A rollout that is recorded as done runs the candidate everywhere, its receipt and
\* the current pointer say so, and no backup is left but one that docker did not show
\* when it was to be removed (lines 310-314 and 340-355); from the moment the receipt
\* is DONE the pointer is absent or exact, never silently old
\* (docs/OPERATIONS_VM100.md 216-221).
DoneIsWhole ==
    /\ status = "DONE" =>
         /\ receipt = "done" /\ pointer = "current"
         /\ \A r \in Replicas : live[r] = "candidate"
         /\ backups \subseteq overlooked
    /\ receipt = "done" => pointer # "previous"

\* What the status calls done is done, whichever way it went.
OutcomeIsWhole == RolledBackIsWhole /\ DoneIsWhole

\* docs/OPERATIONS_VM100.md 207-210: once the receipt is committed the rollback
\* boundary is closed: no container changes its name again, but for the backups
\* that go, and the receipt is never taken back.
BoundaryHolds ==
    receipt # "none" =>
      /\ live' = live
      /\ receipt' # "none"
      /\ receipt = "done" => receipt' = "done"
BoundaryStaysClosed == [][BoundaryHolds]_vars

\* Once no script dies, no docker command fails, no container gets sick, so that a
\* rollback fails only by finding another container than the prior one, and operators
\* who began to roll back go on with that ...
Calm ==
    /\ restored /\ ~restored'
         => next = "await" /\ live[replica] # "prior"
    /\ mode' = "rollback" /\ (mode # "rollback" \/ replica' # replica)
         => next' = FirstCommand(replica')
    /\ Crash => RollbackRecord  \* which may record the same failure again
    /\ ~ \E r \in Replicas : Sicken(r)
    /\ retreat /\ RollbackAllowed => ~(BeginDeploy \/ BeginFinalize)
Settles == <>[][Calm]_vars

\* ... a rollout whose receipt was committed for candidates that run is finished
\* (docs/OPERATIONS_VM100.md 193-199), and a rollback that was begun ends in the prior
\* containers, unless a receipt was committed before it was taken up again.
CandidatesRun == \A r \in Replicas : live[r] = "candidate" /\ health[r] # "down"
FinalizeCompletes == Settles => (receipt # "none" /\ CandidatesRun ~> status = "DONE")
RollbackCompletes ==
    Settles => (retreat ~> status = "ROLLED_BACK_CONTAINERS" \/ receipt # "none")
OrdersComplete == FinalizeCompletes /\ RollbackCompletes
=============================================================================
