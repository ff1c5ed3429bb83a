---------------------------- MODULE OperationsProofs ----------------------------
(***************************************************************************)
(* Safety of what operators do to the running service, for any number of   *)
(* replicas, operators and servers: a rollout with its deaths and recovery *)
(* modes (Rollout), and edits of the registry that meet (Registry).        *)
(***************************************************************************)
EXTENDS Rollout, Registry, FiniteSetTheorems, SequenceTheorems, TLAPS

-----------------------------------------------------------------------------
(***************************************************************************)
(* The rollout.  The inductive invariant says, for every mode, what is     *)
(* known at each next command of the script: a script that dies gives up   *)
(* only that.                                                              *)
(***************************************************************************)
\* A deploy replaces the replicas in order, before anything is committed.
DeployKnows ==
    mode = "deploy" =>
      /\ status = "PREPARING" /\ receipt = "none"
      /\ next \in {"stop", "rename", "run", "await", "publish"}
      /\ \A q \in Replicas : q > replica => live[q] = "prior" /\ q \notin backups
      /\ next \in {"stop", "rename"} => live[replica] = "prior" /\ replica \notin backups
      /\ next = "rename" => health[replica] = "down"
      /\ next = "run" => live[replica] = "none" /\ replica \in backups

\* A rollback runs before the receipt; while it succeeds the replicas it has passed
\* are restored.
RollbackKnows ==
    mode = "rollback" =>
      /\ receipt = "none"
      /\ next \in {"stop", "remove", "rename", "start", "await", "record"}
      /\ next \in {"stop", "remove", "rename"} => replica \in backups
      /\ restored => \A q \in Replicas : q > replica => live[q] = "prior"
      /\ next = "record" =>
           replica = 1 /\ (restored => live[replica] = "prior")

\* A finalize goes on from the status, and each command builds on those before it.
FinalizeKnows ==
    mode = "finalize" =>
      /\ next = "mark" => status = "AWAITING_PUBLIC_READBACK"
      /\ next = "receipt" => status = "FINALIZING"
      /\ next = "retain" => status = "FINALIZING" /\ receipt # "none"
      /\ next \in {"retire", "validate", "remove", "finish", "point", "close"} =>
           status = "DONE_ROLLBACK_RETAINED"
      /\ next \in {"validate", "remove", "finish", "point", "close"} =>
           pointer # "previous"
      /\ next \in {"remove", "finish", "point", "close"} =>
           \A r \in Replicas : live[r] = "candidate"
      /\ next \in {"mark", "receipt", "retain", "retire", "validate"} => replica = 1
      /\ next = "remove" => \A r \in Replicas : r < replica /\ r \in backups => r \in overlooked
      /\ next \in {"finish", "point", "close"} => backups \subseteq overlooked
      /\ next \in {"point", "close"} => receipt = "done"
      /\ next = "close" => pointer = "current"

\* The status is never behind the receipt by more than the step that sets it.
StatusKnows ==
    /\ receipt # "none" =>
         /\ status \in {"FINALIZING", "DONE_ROLLBACK_RETAINED", "DONE"}
         /\ mode \in {"none", "finalize"}
    /\ status \in {"DONE_ROLLBACK_RETAINED", "DONE"} => receipt # "none"

IInv ==
    /\ TypeOK
    /\ PriorsKept /\ RolledBackIsWhole /\ DoneIsWhole
    /\ DeployKnows /\ RollbackKnows /\ FinalizeKnows /\ StatusKnows

-----------------------------------------------------------------------------
\* The invariant holds when the state file is published.
LEMMA InitKnows == Init => IInv
<1> SUFFICES ASSUME Init PROVE IInv
  OBVIOUS
<1> USE DEF Init
<1>1. 1 \in Replicas
  BY NIsPositive DEF Replicas
<1>2. TypeOK
  BY <1>1 DEF TypeOK
<1>3. PriorsKept /\ RolledBackIsWhole /\ DoneIsWhole
  BY DEF PriorsKept, RolledBackIsWhole, DoneIsWhole
<1>4. DeployKnows /\ RollbackKnows /\ FinalizeKnows /\ StatusKnows
  BY DEF DeployKnows, RollbackKnows, FinalizeKnows, StatusKnows
<1> QED
  BY <1>2, <1>3, <1>4 DEF IInv

\* Every command of deploy keeps it.
LEMMA DeployKeeps == IInv /\ Deploy => IInv'
<1> SUFFICES ASSUME IInv, Deploy PROVE IInv'
  OBVIOUS
<1> USE NIsPositive
    DEF IInv, TypeOK, PriorsKept, RolledBackIsWhole, DoneIsWhole,
        DeployKnows, RollbackKnows, FinalizeKnows, StatusKnows,
        Replicas, At, Go, Exit, Run, Idle, files, docker, script, ghosts
<1>1. CASE BeginDeploy
  BY <1>1 DEF BeginDeploy
<1>2. CASE DeployStop
  BY <1>2 DEF DeployStop
<1>3. CASE DeployRename
  BY <1>3 DEF DeployRename
<1>4. CASE DeployRun
  BY <1>4 DEF DeployRun
<1>5. CASE DeployAwait
  BY <1>5 DEF DeployAwait, AnotherAfter
<1>6. CASE DeployPublish
  BY <1>6 DEF DeployPublish, CandidatesServe
<1>7. CASE DeployFail
  BY <1>7 DEF DeployFail, StartRollback, RollbackAllowed, PriorsSurvive, FirstCommands, FirstCommand
<1> QED
  BY <1>1, <1>2, <1>3, <1>4, <1>5, <1>6, <1>7 DEF Deploy

\* Every command of rollback keeps it, whether it succeeds or fails.
LEMMA RollbackKeeps ==
    ASSUME IInv,
           BeginRollback \/ RollbackRecord \/ \E r \in Replicas : RollbackOf(r)
    PROVE  IInv'
<1> USE NIsPositive
    DEF IInv, TypeOK, PriorsKept, RolledBackIsWhole, DoneIsWhole,
        DeployKnows, RollbackKnows, FinalizeKnows, StatusKnows,
        Replicas, At, Go, Exit, Run, Idle, files, docker, script, ghosts, Then
<1>1. CASE BeginRollback
  BY <1>1 DEF BeginRollback, StartRollback, RollbackAllowed, PriorsSurvive, FirstCommands, FirstCommand
<1>2. CASE RollbackRecord
  BY <1>2 DEF RollbackRecord
<1>3. ASSUME NEW r \in Replicas, RollbackStop(r) PROVE IInv'
  <2>1. /\ mode = "rollback" /\ next = "stop" /\ replica = r
        /\ UNCHANGED <<files, live, backups, ghosts>>
        /\ mode' = mode /\ replica' = replica /\ next' = "remove"
        /\ restored' => restored
    BY <1>3 DEF RollbackStop
  <2>2. /\ health' \in [Replicas -> {"down", "starting", "up"}]
        /\ restored' \in BOOLEAN
        /\ \A q \in Replicas : live[q] = "none" => health'[q] = "down"
    <3>1. CASE UNCHANGED health
      BY <1>3, <3>1 DEF RollbackStop
    <3>2. CASE health' = [health EXCEPT ![r] = "down"]
      BY <1>3, <3>2 DEF RollbackStop
    <3> QED
      BY <1>3, <3>1, <3>2 DEF RollbackStop
  <2> QED
    BY <2>1, <2>2
<1>4. ASSUME NEW r \in Replicas, RollbackRemove(r) PROVE IInv'
  <2>1. /\ mode = "rollback" /\ next = "remove" /\ replica = r /\ r \in backups
        /\ UNCHANGED <<files, health, backups, ghosts>>
        /\ mode' = mode /\ replica' = replica /\ next' = "rename"
        /\ restored' => restored
        /\ restored' \in BOOLEAN
    BY <1>4 DEF RollbackRemove
  <2>2. CASE UNCHANGED live
    BY <2>1, <2>2
  <2>3. CASE health[r] = "down" /\ live' = [live EXCEPT ![r] = "none"]
    <3>1. /\ live' \in [Replicas -> {"none", "prior", "candidate"}]
          /\ live'[r] = "none" /\ \A q \in Replicas : q # r => live'[q] = live[q]
      BY <1>4, <2>3
    <3> QED
      BY <2>1, <2>3, <3>1
  <2> QED
    BY <1>4, <2>2, <2>3 DEF RollbackRemove
<1>5. ASSUME NEW r \in Replicas, RollbackRename(r) PROVE IInv'
  <2>1. /\ mode = "rollback" /\ next = "rename" /\ replica = r
        /\ UNCHANGED <<files, health, ghosts>>
        /\ mode' = mode /\ replica' = replica /\ next' = "start"
        /\ restored' => restored
        /\ restored' \in BOOLEAN
    BY <1>5 DEF RollbackRename
  <2>2. CASE UNCHANGED <<live, backups>>
    BY <2>1, <2>2
  <2>3. CASE /\ live[r] = "none"
             /\ live' = [live EXCEPT ![r] = "prior"]
             /\ backups' = backups \ {r}
    <3>1. /\ live' \in [Replicas -> {"none", "prior", "candidate"}]
          /\ live'[r] = "prior" /\ \A q \in Replicas : q # r => live'[q] = live[q]
      BY <1>5, <2>3
    <3> QED
      BY <2>1, <2>3, <3>1
  <2> QED
    BY <1>5, <2>2, <2>3 DEF RollbackRename
<1>6. ASSUME NEW r \in Replicas, RollbackStart(r) PROVE IInv'
  <2>1. /\ mode = "rollback" /\ next = "start" /\ replica = r
        /\ UNCHANGED <<files, live, backups, ghosts>>
        /\ mode' = mode /\ replica' = replica /\ next' = "await"
        /\ restored' => restored
    BY <1>6 DEF RollbackStart
  <2>2. /\ health' \in [Replicas -> {"down", "starting", "up"}]
        /\ restored' \in BOOLEAN
        /\ \A q \in Replicas : live[q] = "none" => health'[q] = "down"
    <3>1. CASE UNCHANGED health
      BY <1>6, <3>1 DEF RollbackStart
    <3>2. CASE /\ live[r] # "none"
               /\ health' = [health EXCEPT ![r] = IF @ = "down" THEN "starting" ELSE @]
      BY <1>6, <3>2 DEF RollbackStart
    <3>3. UNCHANGED health \/ /\ live[r] # "none"
                              /\ health' = [health EXCEPT ![r] = IF @ = "down" THEN "starting" ELSE @]
      BY <1>6 DEF RollbackStart
    <3>4. restored' \in BOOLEAN
      BY <1>6 DEF RollbackStart
    <3> QED
      BY <3>1, <3>2, <3>3, <3>4
  <2> QED
    BY <2>1, <2>2
<1>7. ASSUME NEW r \in Replicas, RollbackAwait(r) PROVE IInv'
  <2>1. PICK ok \in BOOLEAN :
          /\ ok => live[r] = "prior" /\ health[r] = "up"
          /\ IF r > 1
               THEN /\ next' \in FirstCommands(r - 1) /\ replica' = r - 1
                    /\ restored' = (restored /\ ok) /\ UNCHANGED mode
               ELSE Then("record", ok)
    BY <1>7 DEF RollbackAwait
  <2>2. /\ mode = "rollback" /\ next = "await" /\ replica = r
        /\ UNCHANGED <<files, docker, ghosts>>
    BY <1>7 DEF RollbackAwait
  <2>3. CASE r > 1
    BY <2>1, <2>2, <2>3 DEF FirstCommands, FirstCommand
  <2>4. CASE r = 1
    BY <2>1, <2>2, <2>4
  <2> QED
    BY <2>3, <2>4
<1> QED
  BY <1>1, <1>2, <1>3, <1>4, <1>5, <1>6, <1>7 DEF RollbackOf

\* Every command of finalize keeps it.
LEMMA FinalizeKeeps == IInv /\ Finalize => IInv'
<1> SUFFICES ASSUME IInv, Finalize PROVE IInv'
  OBVIOUS
<1> USE NIsPositive
    DEF IInv, TypeOK, PriorsKept, RolledBackIsWhole, DoneIsWhole,
        DeployKnows, RollbackKnows, FinalizeKnows, StatusKnows,
        Replicas, At, Go, Exit, Run, Idle, files, docker, script, ghosts, FinalizeFrom
<1>1. CASE BeginFinalize
  BY <1>1 DEF BeginFinalize
<1>2. CASE FinalizeMark
  BY <1>2 DEF FinalizeMark
<1>3. CASE FinalizeReceipt
  BY <1>3 DEF FinalizeReceipt
<1>4. CASE FinalizeRetain
  BY <1>4 DEF FinalizeRetain
<1>5. CASE FinalizeRetire
  BY <1>5 DEF FinalizeRetire
<1>6. CASE FinalizeValidate
  BY <1>6 DEF FinalizeValidate, CandidatesServe
<1>7. CASE FinalizeRemove
  <2>1. /\ mode = "finalize" /\ next = "remove"
        /\ UNCHANGED <<files, live, health, retreat, mode, restored>>
        /\ \/ next' = next /\ replica' = replica + 1 /\ replica < N
           \/ next' = "finish" /\ replica' = replica /\ ~(replica < N)
    <3>1. CASE AnotherAfter(replica)
      BY <1>7, <3>1 DEF FinalizeRemove, AnotherAfter
    <3>2. CASE ~AnotherAfter(replica)
      BY <1>7, <3>2 DEF FinalizeRemove, AnotherAfter
    <3> QED
      BY <3>1, <3>2
  <2>5. /\ backups' \subseteq backups /\ overlooked' \subseteq Replicas
        /\ replica \in backups' => replica \in overlooked'
        /\ \A r \in Replicas : r # replica => (r \in overlooked <=> r \in overlooked')
    <3>1. CASE backups' = backups \ {replica} /\ overlooked' = overlooked \ {replica}
      BY <3>1
    <3>2. CASE overlooked' = overlooked \cup {replica} /\ UNCHANGED backups
      BY <3>2
    <3> QED
      BY <1>7, <3>1, <3>2 DEF FinalizeRemove
  <2>2. /\ receipt # "none" /\ status = "DONE_ROLLBACK_RETAINED"
        /\ pointer # "previous" /\ \A r \in Replicas : live[r] = "candidate"
    BY <2>1
  <2>3. \A r \in Replicas : r <= replica /\ r \in backups' => r \in overlooked'
    BY <2>1, <2>5
  <2>4. /\ next' = "remove" => \A r \in Replicas : r < replica' /\ r \in backups' => r \in overlooked'
        /\ next' = "finish" => backups' \subseteq overlooked'
    BY <2>1, <2>3, <2>5
  <2> QED
    BY <2>1, <2>2, <2>4, <2>5
<1>8. CASE FinalizeFinish
  BY <1>8 DEF FinalizeFinish
<1>9. CASE FinalizePoint
  BY <1>9 DEF FinalizePoint
<1>10. CASE FinalizeClose
  BY <1>10 DEF FinalizeClose
<1> QED
  BY <1>1, <1>2, <1>3, <1>4, <1>5, <1>6, <1>7, <1>8, <1>9, <1>10 DEF Finalize

\* And so do the death of the script and the replicas' health.
LEMMA OthersKeep ==
    ASSUME IInv, Crash \/ (\E r \in Replicas : Recover(r) \/ Sicken(r)) \/ UNCHANGED vars
    PROVE  IInv'
<1> USE NIsPositive
    DEF IInv, TypeOK, PriorsKept, RolledBackIsWhole, DoneIsWhole,
        DeployKnows, RollbackKnows, FinalizeKnows, StatusKnows, Replicas,
        files, docker, script, ghosts
<1>1. CASE Crash
  BY <1>1 DEF Crash, Exit, Run
<1>2. ASSUME NEW r \in Replicas, Recover(r) PROVE IInv'
  BY <1>2 DEF Recover
<1>3. ASSUME NEW r \in Replicas, Sicken(r) PROVE IInv'
  BY <1>3 DEF Sicken
<1>4. CASE UNCHANGED vars
  BY <1>4 DEF vars
<1> QED
  BY <1>1, <1>2, <1>3, <1>4

-----------------------------------------------------------------------------
\* The script's knowledge survives every interleaving of commands and deaths.
THEOREM Invariance == Spec => []IInv
<1>1. IInv /\ [Next]_vars => IInv'
  BY DeployKeeps, RollbackKeeps, FinalizeKeeps, OthersKeep DEF Next
<1> QED
  BY InitKnows, <1>1, PTL DEF Spec

\* Types are kept by deploy, rollback and finalize.
THEOREM TypeCorrectness == Spec => []TypeOK
BY Invariance, PTL DEF IInv

\* No prior container is lost before the receipt is committed.
THEOREM PriorsAreKept == Spec => []PriorsKept
BY Invariance, PTL DEF IInv

\* A recorded rollback has restored every replica.
THEOREM RollbackIsWhole == Spec => []RolledBackIsWhole
BY Invariance, PTL DEF IInv

\* A recorded rollout runs the candidate everywhere, its receipt and pointer agree, a
\* backup that is left is one docker did not show to the removal, and the pointer is
\* never silently old once the receipt is DONE.
THEOREM RolloutIsWhole == Spec => []DoneIsWhole
BY Invariance, PTL DEF IInv

\* Whatever the status calls done is done.
THEOREM OutcomesAreWhole == Spec => []OutcomeIsWhole
BY RollbackIsWhole, RolloutIsWhole, PTL DEF OutcomeIsWhole

\* Nothing but the removal of backups touches a container after the receipt.
THEOREM BoundaryIsClosed == Spec => BoundaryStaysClosed
<1>1. IInv /\ [Next]_vars => [BoundaryHolds]_vars
  <2> SUFFICES ASSUME IInv, Next PROVE BoundaryHolds
    BY DEF vars
  <2> USE DEF IInv, StatusKnows, DeployKnows, RollbackKnows, FinalizeKnows, BoundaryHolds,
              At, Idle, files, docker, script, ghosts, Run, Then
  <2>1. CASE Deploy
    BY <2>1 DEF Deploy, BeginDeploy, DeployStop, DeployRename, DeployRun, DeployAwait,
                DeployPublish, DeployFail, StartRollback
  <2>2. CASE BeginRollback \/ RollbackRecord \/ \E r \in Replicas : RollbackOf(r)
    BY <2>2 DEF BeginRollback, StartRollback, RollbackRecord, RollbackOf, RollbackStop,
                RollbackRemove, RollbackRename, RollbackStart, RollbackAwait
  <2>3. CASE Finalize
    BY <2>3 DEF Finalize, BeginFinalize, FinalizeMark, FinalizeReceipt, FinalizeRetain,
                FinalizeRetire, FinalizeValidate, FinalizeRemove, FinalizeFinish,
                FinalizePoint, FinalizeClose
  <2>4. CASE Crash \/ \E r \in Replicas : Recover(r) \/ Sicken(r)
    BY <2>4 DEF Crash, Recover, Sicken
  <2> QED
    BY <2>1, <2>2, <2>3, <2>4 DEF Next
<1> QED
  BY Invariance, <1>1, PTL DEF Spec, BoundaryStaysClosed

-----------------------------------------------------------------------------
(***************************************************************************)
(* The registry.  The invariant is EditsSurvive with the domains of the    *)
(* two functions; what there is to show is that a write changes docs and   *)
(* word alike, or is one whose copy was overtaken.                         *)
(***************************************************************************)
RegistryInv ==
    /\ Names \subseteq DOMAIN docs /\ DOMAIN word = DOMAIN docs
    /\ EditsSurvive

\* A write that says of a document what it makes of it.
LEMMA WriteAgrees ==
    ASSUME RegistryInv, NEW n, NEW fields, NEW says, Write(n, fields, says),
           clashed \subseteq clashed',
           n \in Names \ clashed' =>
             IF docs[n] = Null THEN fields = says
             ELSE Over(fields, docs[n]) = Over(says, docs[n])
    PROVE  RegistryInv'
<1>1. Names' = Names
  BY DEF Names
<1>2. DOMAIN docs' = DOMAIN docs /\ DOMAIN word' = DOMAIN word
  BY DEF Write
<1>3. ASSUME NEW m \in Names \ clashed'
      PROVE  docs'[m] = word'[m]
  <2>1. m \in DOMAIN docs /\ m \in DOMAIN word /\ docs[m] = word[m]
    BY DEF RegistryInv, EditsSurvive
  <2>2. CASE m = n
    BY <2>1, <2>2 DEF Write
  <2>3. CASE m # n
    BY <2>1, <2>3 DEF Write
  <2>4. QED
    BY <2>2, <2>3
<1>4. QED
  BY <1>1, <1>2, <1>3 DEF RegistryInv, EditsSurvive

\* Everything an import says of a known server counts as said: how to reach it, and a
\* category where there was none.
LEMMA AllIsSaid ==
    ASSUME NEW c, NEW n, NEW copy, NEW says, says = Says(c, n, copy)
    PROVE  Said(c, copy, says) = says
<1>1. CASE c.do # "import" \/ copy = Null
  BY <1>1 DEF Said
<1>2. CASE c.do = "import" /\ copy # Null
  <2> DEFINE all == Entire(n, c.configs[n])
             told == {"transport", "connection"}
                       \cup (IF Get(copy, "category") = Null THEN {"category"} ELSE {})
             new == {f \in DOMAIN says : f \in {"transport", "connection"} \/ Get(copy, f) = Null}
  <2>1. says = [f \in told \cap DOMAIN all |-> all[f]]
    BY <1>2 DEF Says, Imported, Only, Restrict
  <2>2. new = DOMAIN says
    <3>1. DOMAIN says \subseteq told
      BY <2>1
    <3>2. \A f \in told : f \in {"transport", "connection"} \/ Get(copy, f) = Null
      OBVIOUS
    <3>3. QED
      BY <3>1, <3>2
  <2>3. Said(c, copy, says) = [f \in new \cap DOMAIN says |-> says[f]]
    BY <1>2 DEF Said, Only, Restrict
  <2>4. QED
    BY <2>1, <2>2, <2>3
<1>3. QED
  BY <1>1, <1>2

\* A document that is written back over the one it was read from.
LEMMA WriteBackAgrees ==
    ASSUME RegistryInv, NEW o \in Operators, WriteBack(o)
    PROVE  RegistryInv'
<1>1. PICK n, copy, says :
        /\ says = Says(Command(o), n, copy)
        /\ Write(n, IF copy = Null THEN says ELSE Over(says, copy),
                     Said(Command(o), copy, says))
        /\ clashed' = IF copy = docs[n] THEN clashed ELSE clashed \cup {n}
  BY DEF WriteBack
<1>2. Said(Command(o), copy, says) = says
  BY <1>1, AllIsSaid
<1>3. Over(Over(says, copy), copy) = Over(says, copy)
  <2>1. DOMAIN Over(says, copy) = DOMAIN says \cup DOMAIN copy
    BY DEF Over
  <2>2. \A f \in DOMAIN says \cup DOMAIN copy :
          Over(says, copy)[f] = IF f \in DOMAIN says THEN says[f] ELSE copy[f]
    BY DEF Over
  <2>3. DOMAIN Over(says, copy) \cup DOMAIN copy = DOMAIN says \cup DOMAIN copy
    BY <2>1
  <2>4. QED
    BY <2>1, <2>2, <2>3 DEF Over
<1>4. clashed \subseteq clashed'
  BY <1>1
<1>5. n \notin clashed' => copy = docs[n]
  BY <1>1
<1>6. PICK fields : fields = IF copy = Null THEN says ELSE Over(says, copy)
  OBVIOUS
<1>7. Write(n, fields, says)
  BY <1>1, <1>2, <1>6
<1>8. n \in Names \ clashed' =>
        IF docs[n] = Null THEN fields = says
        ELSE Over(fields, docs[n]) = Over(says, docs[n])
  BY <1>3, <1>5, <1>6
<1>9. QED
  BY <1>4, <1>7, <1>8, WriteAgrees

\* Every other write says what it writes.
LEMMA RegistryStep ==
    ASSUME RegistryInv, [RegistryNext]_registryVars
    PROVE  RegistryInv'
<1>1. ASSUME UNCHANGED <<docs, word, clashed>>
      PROVE  RegistryInv'
  BY <1>1 DEF RegistryInv, EditsSurvive, Names
<1>2. ASSUME NEW o \in Operators, Seed(o)
      PROVE  RegistryInv'
  <2>1. clashed' = clashed
    BY <1>2 DEF Seed
  <2>2. CASE UNCHANGED <<docs, word>>
    BY <1>1, <2>1, <2>2
  <2>3. CASE \E n, fields : Write(n, fields, fields)
    BY <2>1, <2>3, WriteAgrees
  <2>4. QED
    BY <1>2, <2>2, <2>3 DEF Seed
<1>3. ASSUME NEW o \in Operators, Verify(o)
      PROVE  RegistryInv'
  <2>1. clashed' = clashed
    BY <1>3 DEF Verify
  <2>2. CASE UNCHANGED <<docs, word>>
    BY <1>1, <2>1, <2>2
  <2>3. CASE \E n, says : Write(n, says, says)
    BY <2>1, <2>3, WriteAgrees
  <2>4. QED
    BY <1>3, <2>2, <2>3 DEF Verify, Record
<1>4. ASSUME NEW o \in Operators, RemoveServer(o)
      PROVE  RegistryInv'
  <2>1. PICK n : /\ docs' = [docs EXCEPT ![n] = Null]
                 /\ word' = [word EXCEPT ![n] = Null]
    BY <1>4 DEF RemoveServer
  <2>2. clashed' = clashed
    BY <1>4 DEF RemoveServer
  <2>3. QED
    BY <2>1, <2>2 DEF RegistryInv, EditsSurvive, Names
<1>5. ASSUME NEW o \in Operators,
             Begin(o) \/ Read(o) \/ Export(o) \/ Abort(o)
      PROVE  UNCHANGED <<docs, word, clashed>>
  BY <1>5 DEF Begin, Read, Export, Abort,
              history
<1>6. ASSUME NEW r, ReaderStep(r) \/ Expire(r)
      PROVE  UNCHANGED <<docs, word, clashed>>
  BY <1>6 DEF ReaderStep, Request, Answer, FallBack, Expire,
              history
<1>7. ASSUME CoolDown \/ Outage \/ MongoReturns \/ Tick \/ UNCHANGED registryVars
      PROVE  UNCHANGED <<docs, word, clashed>>
  BY <1>7 DEF CoolDown, Outage, MongoReturns, Tick, registryVars,
              history
<1>8. ASSUME NEW o \in Operators, OperatorStep(o)
      PROVE  RegistryInv'
  BY <1>1, <1>2, <1>3, <1>4, <1>5, <1>8, WriteBackAgrees DEF OperatorStep
<1>9. QED
  BY <1>1, <1>6, <1>7, <1>8 DEF RegistryNext

\* cmd_import, cmd_upsert, cmd_seed, cmd_verify: for any operators, servers and commands, a
\* document is what was last said of it, unless it was written back from an overtaken copy.
THEOREM EditsAlwaysSurvive == RegistrySpec => []EditsSurvive
<1>1. RegistryInit => RegistryInv
  BY PlansNameServers DEF RegistryInit, RegistryInv, EditsSurvive, Names
<1>2. RegistryInv /\ [RegistryNext]_registryVars => RegistryInv'
  BY RegistryStep
<1>3. RegistryInv => EditsSurvive
  BY DEF RegistryInv
<1>4. QED
  BY <1>1, <1>2, <1>3, PTL DEF RegistrySpec
=============================================================================
