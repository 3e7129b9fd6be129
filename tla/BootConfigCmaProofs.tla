------------------------- MODULE BootConfigCmaProofs -------------------------
(***************************************************************************)
(* Proofs about BootConfigCma, for any set of appliers, tokens and          *)
(* contents.                                                                *)
(***************************************************************************)
EXTENDS BootConfigCma, TLAPS

(* TypeOK is inductive only together with TargetNeverTorn: a plan made from *)
(* a torn file would have no content to propose.                            *)
Whole == TypeOK /\ TargetNeverTorn

(* A candidate's content is a configuration.                                *)
LEMMA ProposedIsConfig ==
    ASSUME NEW c \in Configs, NEW t \in Tokens
    PROVE  Proposed(c, t) \in Configs
BY ContentAssumption DEF Configs, Proposed

LEMMA RefusalNames ==
    ASSUME NEW base, NEW dryRun \in BOOLEAN, NEW confirmed \in BOOLEAN,
           Refusal(base, dryRun, confirmed) # ""
    PROVE  Refusal(base, dryRun, confirmed) \in Outcomes
BY DEF Refusal, Outcomes

LEMMA WholeInit == Init => Whole
<1> SUFFICES ASSUME Init PROVE Whole
  OBVIOUS
<1>1. TypeOK
  BY DiskAssumption, ContentAssumption DEF Init, TypeOK, Steps, Outcomes
<1>2. TargetNeverTorn
  BY DiskAssumption DEF Init, TargetNeverTorn
<1> QED
  BY <1>1, <1>2 DEF Whole

LEMMA WholeStep == Whole /\ [Next]_vars => Whole'
<1> SUFFICES ASSUME Whole, [Next]_vars PROVE Whole'
  OBVIOUS
<1> USE DEF Whole, TypeOK, TargetNeverTorn
<1>1. ASSUME WritePlan PROVE Whole'
  BY <1>1 DEF WritePlan, disk, runs
<1>2. ASSUME Edit PROVE Whole'
  BY <1>2, DiskAssumption DEF Edit, runs
<1>3. ASSUME Writeback PROVE Whole'
  BY <1>3 DEF Writeback, runs
<1>4. ASSUME PowerLoss PROVE Whole'
  <2>1. backup' \in [Configs -> Configs \cup {Absent, Torn}]
    BY <1>4 DEF PowerLoss
  <2>2. /\ file' \in Configs /\ onDisk' = {file'} /\ author' \in {"person", "helper", "disk"}
    BY <1>4 DEF PowerLoss
  <2>3. /\ pc' \in [Appliers -> Steps] /\ \A p \in Appliers : pc'[p] = "idle"
        /\ current' \in [Appliers -> Configs \cup {Absent}]
        /\ token' \in [Appliers -> Tokens \cup {NoCma}]
        /\ outcome' \in Outcomes
    BY <1>4 DEF PowerLoss, Steps, Outcomes
  <2>4. volatile' = {} /\ plans' = plans /\ applied' = applied \ volatile
    BY <1>4 DEF PowerLoss
  <2> QED
    BY <2>1, <2>2, <2>3, <2>4, DiskAssumption
<1>5. ASSUME NEW p \in Appliers, Start(p) PROVE Whole'
  <2> PICK base \in plans, t \in Tokens, dryRun \in BOOLEAN, confirmed \in BOOLEAN :
         IF Refusal(base, dryRun, confirmed) = "" /\ ~dryRun
           THEN /\ pc' = [pc EXCEPT ![p] = "validated"]
                /\ current' = [current EXCEPT ![p] = file]
                /\ token' = [token EXCEPT ![p] = t]
                /\ UNCHANGED <<plans, outcome, applied>>
           ELSE Stop(p, IF Refusal(base, dryRun, confirmed) = "" THEN "ready"
                        ELSE Refusal(base, dryRun, confirmed))
    BY <1>5 DEF Start
  <2>1. UNCHANGED disk /\ pc[p] = "idle"
    BY <1>5 DEF Start
  <2>2. CASE Refusal(base, dryRun, confirmed) = "" /\ ~dryRun
    BY <2>1, <2>2 DEF disk, Steps
  <2>3. CASE ~(Refusal(base, dryRun, confirmed) = "" /\ ~dryRun)
    <3>1. PICK r \in Outcomes : Stop(p, r) /\ r # "applied"
      BY <2>3, RefusalNames DEF Outcomes, Refusal
    <3> QED
      BY <2>1, <3>1 DEF disk, Steps, Stop
  <2> QED
    BY <2>2, <2>3
<1>6. ASSUME NEW p \in Appliers, CheckBackup(p) PROVE Whole'
  BY <1>6 DEF CheckBackup, Stop, Go, disk, Steps, Outcomes
<1>7. ASSUME NEW p \in Appliers, OpenBackup(p) PROVE Whole'
  BY <1>7 DEF OpenBackup, Go, Steps
<1>8. ASSUME NEW p \in Appliers, FillBackup(p) PROVE Whole'
  BY <1>8 DEF FillBackup, Go, Steps
<1>9. ASSUME NEW p \in Appliers, WriteTemp(p) \/ SyncTemp(p) PROVE Whole'
  BY <1>9 DEF WriteTemp, SyncTemp, Go, disk, Steps
<1>10. ASSUME NEW p \in Appliers, Replace(p) PROVE Whole'
  <2>1. Target(p) \in Configs
    BY <1>10, ProposedIsConfig DEF Replace, Target
  <2>2. file' = Target(p) /\ onDisk' = onDisk \cup {Target(p)}
    BY <1>10 DEF Replace, Rename
  <2> QED
    BY <1>10, <2>1, <2>2, DiskAssumption DEF Replace, Rename, Go, Steps
<1>11. ASSUME NEW p \in Appliers, Recheck(p) PROVE Whole'
  BY <1>11 DEF Recheck, Stop, Steps, Outcomes
<1>12. ASSUME NEW p \in Appliers, Fail(p) \/ Kill(p) PROVE Whole'
  BY <1>12 DEF Fail, Kill, Stop, disk, Steps, Outcomes
<1>13. ASSUME UNCHANGED vars PROVE Whole'
  BY <1>13 DEF vars, disk, runs
<1> QED
  BY <1>1, <1>2, <1>3, <1>4, <1>5, <1>6, <1>7, <1>8, <1>9, <1>10, <1>11, <1>12, <1>13
     DEF Next, Apply

(* The types of all variables, whatever is killed and whenever power goes.  *)
THEOREM TypeCorrect == Spec => []TypeOK
<1>1. Whole => TypeOK
  BY DEF Whole
<1> QED
  BY <1>1, WholeInit, WholeStep, PTL DEF Spec

(* _atomic_write_bytes never leaves a torn boot configuration behind, with  *)
(* any number of appliers and any interleaving with kills and power losses. *)
THEOREM TargetIsWhole == Spec => []TargetNeverTorn
<1>1. Whole => TargetNeverTorn
  BY DEF Whole
<1> QED
  BY <1>1, WholeInit, WholeStep, PTL DEF Spec

(***************************************************************************)
(* What a running applier holds is the content of a ready plan.             *)
(***************************************************************************)
Reviewed ==
    /\ \A p \in Appliers : pc[p] # "idle" => /\ current[p] \in plans
                                           /\ PlanReady(current[p])
    /\ OnlyReviewedContent

LEMMA ReviewedStep == Whole /\ Reviewed /\ [Next]_vars => Reviewed'
<1> SUFFICES ASSUME Whole, Reviewed, [Next]_vars PROVE Reviewed'
  OBVIOUS
<1> USE DEF Whole, TypeOK, Reviewed, OnlyReviewedContent
<1>1. ASSUME NEW p \in Appliers, Start(p) PROVE Reviewed'
  <2> PICK base \in plans, t \in Tokens, dryRun \in BOOLEAN, confirmed \in BOOLEAN :
         IF Refusal(base, dryRun, confirmed) = "" /\ ~dryRun
           THEN /\ pc' = [pc EXCEPT ![p] = "validated"]
                /\ current' = [current EXCEPT ![p] = file]
                /\ token' = [token EXCEPT ![p] = t]
                /\ UNCHANGED <<plans, outcome, applied>>
           ELSE Stop(p, IF Refusal(base, dryRun, confirmed) = "" THEN "ready"
                        ELSE Refusal(base, dryRun, confirmed))
    BY <1>1 DEF Start
  <2>1. UNCHANGED <<file, author, plans>>
    BY <1>1 DEF Start, Stop, disk
  <2>2. CASE Refusal(base, dryRun, confirmed) = "" /\ ~dryRun
    <3>1. PlanReady(base) /\ file = base
      BY <2>2 DEF Refusal
    <3> QED
      BY <2>1, <2>2, <3>1
  <2>3. CASE ~(Refusal(base, dryRun, confirmed) = "" /\ ~dryRun)
    BY <2>1, <2>3 DEF Stop
  <2> QED
    BY <2>2, <2>3
<1>2. ASSUME NEW p \in Appliers, Replace(p) PROVE Reviewed'
  <2>1. /\ file' = Proposed(current[p], token[p])
        /\ current[p] \in plans /\ PlanReady(current[p]) /\ token[p] \in Tokens
    BY <1>2 DEF Replace, Rename, Target
  <2> QED
    BY <1>2, <2>1 DEF Replace, Rename, Go
<1>3. ASSUME NEW p \in Appliers,
             \/ CheckBackup(p) \/ OpenBackup(p) \/ FillBackup(p) \/ WriteTemp(p)
             \/ SyncTemp(p) \/ Recheck(p) \/ Fail(p) \/ Kill(p)
      PROVE  Reviewed'
  BY <1>3 DEF CheckBackup, OpenBackup, FillBackup, WriteTemp, SyncTemp, Recheck, Fail, Kill,
              Go, Stop, disk
<1>4. ASSUME WritePlan \/ Edit \/ Writeback PROVE Reviewed'
  BY <1>4 DEF WritePlan, Edit, Writeback, disk, runs
<1>5. ASSUME PowerLoss PROVE Reviewed'
  BY <1>5 DEF PowerLoss
<1>6. ASSUME UNCHANGED vars PROVE Reviewed'
  BY <1>6 DEF vars, disk, runs
<1> QED
  BY <1>1, <1>2, <1>3, <1>4, <1>5, <1>6 DEF Next, Apply

(* Whatever the interleaving, a content the helper wrote is a candidate of  *)
(* a ready plan: the hash guard and the private copy of the bytes suffice.  *)
THEOREM HelperWritesReviewedContent == Spec => []OnlyReviewedContent
<1>1. Init => Reviewed
  BY DEF Init, Reviewed, OnlyReviewedContent
<1>2. Reviewed => OnlyReviewedContent
  BY DEF Reviewed
<1> QED
  BY <1>1, <1>2, WholeInit, WholeStep, ReviewedStep, PTL DEF Spec

(***************************************************************************)
(* One actor at a time: the inductive invariant behind the backups.  A      *)
(* running applier is alone, the file is still what it read, and the backup *)
(* it made is a copy of that.  A power loss ends every applier.             *)
(***************************************************************************)
Alone == \A p, q \in Appliers : pc[p] # "idle" /\ pc[q] # "idle" => p = q

Undisturbed == \A p \in Appliers : pc[p] \notin {"idle", "replaced"} => file = current[p]

BackupProgress ==
    \A p \in Appliers :
       /\ pc[p] = "backup_free" => backup[current[p]] = Absent
       /\ pc[p] = "copying" => backup[current[p]] = Torn
       /\ pc[p] \in {"copied", "temp_written", "temp_synced", "replaced"}
             => backup[current[p]] = current[p]

SerialInv == /\ Alone
             /\ Undisturbed
             /\ BackupProgress
             /\ BackupHoldsItsHash

LEMMA SerialInit == Init => SerialInv
BY DEF Init, SerialInv, Alone, Undisturbed, BackupProgress, BackupHoldsItsHash

(* An invocation that gets past its guards keeps the bytes it has read; one *)
(* that does not reports something else than "applied".                     *)
LEMMA Starts ==
    ASSUME NEW p \in Appliers, Start(p)
    PROVE  \/ /\ pc' = [pc EXCEPT ![p] = "validated"]
              /\ current' = [current EXCEPT ![p] = file]
              /\ applied' = applied
           \/ \E r \in Outcomes \ {"applied"} : Stop(p, r)
<1> PICK base \in plans, dryRun \in BOOLEAN, confirmed \in BOOLEAN :
      \/ /\ pc' = [pc EXCEPT ![p] = "validated"]
         /\ current' = [current EXCEPT ![p] = file]
         /\ applied' = applied
      \/ Stop(p, IF Refusal(base, dryRun, confirmed) = "" THEN "ready"
                 ELSE Refusal(base, dryRun, confirmed))
  BY DEF Start
<1>1. (IF Refusal(base, dryRun, confirmed) = "" THEN "ready"
       ELSE Refusal(base, dryRun, confirmed)) \in Outcomes \ {"applied"}
  BY DEF Refusal, Outcomes
<1> QED
  BY <1>1

LEMMA SerialStep ==
    ASSUME Serial
    PROVE  Whole /\ SerialInv /\ [Next]_vars => SerialInv'
<1> SUFFICES ASSUME Whole, SerialInv, [Next]_vars PROVE SerialInv'
  OBVIOUS
<1> USE DiskAssumption
    DEF Whole, TypeOK, TargetNeverTorn, SerialInv, Alone, Undisturbed, BackupProgress,
        BackupHoldsItsHash
<1>1. ASSUME NEW p \in Appliers, Start(p) PROVE SerialInv'
  <2>1. Quiet /\ UNCHANGED disk
    BY <1>1 DEF Start
  <2> QED
    BY <1>1, <2>1, Starts DEF Quiet, disk, Stop
<1>2. ASSUME NEW p \in Appliers, CheckBackup(p) PROVE SerialInv'
  BY <1>2 DEF CheckBackup, Go, Stop, disk
<1>3. ASSUME NEW p \in Appliers, OpenBackup(p) PROVE SerialInv'
  BY <1>3 DEF OpenBackup, Go
<1>4. ASSUME NEW p \in Appliers, FillBackup(p) PROVE SerialInv'
  BY <1>4 DEF FillBackup, Go
<1>5. ASSUME NEW p \in Appliers, WriteTemp(p) \/ SyncTemp(p) PROVE SerialInv'
  BY <1>5 DEF WriteTemp, SyncTemp, Go, disk
<1>6. ASSUME NEW p \in Appliers, Replace(p) PROVE SerialInv'
  BY <1>6 DEF Replace, Rename, Go
<1>7. ASSUME NEW p \in Appliers, Recheck(p) PROVE SerialInv'
  BY <1>7 DEF Recheck, Stop
<1>8. ASSUME NEW p \in Appliers, Fail(p) \/ Kill(p) PROVE SerialInv'
  BY <1>8 DEF Fail, Kill, Stop, disk
<1>9. ASSUME WritePlan \/ Writeback PROVE SerialInv'
  BY <1>9 DEF WritePlan, Writeback, disk, runs
<1>10. ASSUME Edit PROVE SerialInv'
  BY <1>10 DEF Edit, Quiet, runs
<1>11. ASSUME UNCHANGED vars PROVE SerialInv'
  BY <1>11 DEF vars, disk, runs
<1>12. ASSUME PowerLoss PROVE SerialInv'
  <2>1. \A p \in Appliers : pc'[p] = "idle"
    BY <1>12 DEF PowerLoss
  <2>2. \A c \in Configs : backup'[c] \in {Absent, Torn, backup[c]}
    BY <1>12 DEF PowerLoss
  <2> QED
    BY <2>1, <2>2
<1> QED
  BY <1>1, <1>2, <1>3, <1>4, <1>5, <1>6, <1>7, <1>8, <1>9, <1>10, <1>11, <1>12 DEF Next, Apply

(* When the documented manual steps are taken one at a time, a backup is    *)
(* never anything but a copy of the content its name stands for, or visibly *)
(* torn, power losses included.                                             *)
THEOREM BackupsAreGenuine == ASSUME Serial PROVE Spec => []BackupHoldsItsHash
<1>1. Whole /\ SerialInv /\ [Next]_vars => SerialInv'
  BY SerialStep
<1>2. SerialInv => BackupHoldsItsHash
  BY DEF SerialInv
<1> QED
  BY <1>1, <1>2, WholeInit, WholeStep, SerialInit, PTL DEF Spec

(* No step takes the backup of an applied patch; a power loss takes those   *)
(* that were not written back, and they alone.                              *)
LEMMA AppliedStep ==
    ASSUME Serial
    PROVE  Whole /\ SerialInv /\ AppliedHasBackup /\ [Next]_vars => AppliedHasBackup'
<1> SUFFICES ASSUME Whole, SerialInv, AppliedHasBackup, [Next]_vars PROVE AppliedHasBackup'
  OBVIOUS
<1> USE DiskAssumption
    DEF Whole, TypeOK, SerialInv, Undisturbed, BackupProgress, AppliedHasBackup
<1>1. ASSUME NEW p \in Appliers, Start(p) PROVE AppliedHasBackup'
  <2>1. backup' = backup
    BY <1>1 DEF Start, disk
  <2> QED
    BY <1>1, <2>1, Starts DEF Stop
<1>2. ASSUME NEW p \in Appliers,
             CheckBackup(p) \/ WriteTemp(p) \/ SyncTemp(p) \/ Replace(p) \/ Fail(p) \/ Kill(p)
      PROVE  backup' = backup /\ applied' = applied
  BY <1>2 DEF CheckBackup, WriteTemp, SyncTemp, Replace, Rename, Fail, Kill, Go, Stop, disk
<1>3. ASSUME NEW p \in Appliers, OpenBackup(p) \/ FillBackup(p) PROVE AppliedHasBackup'
  BY <1>3 DEF OpenBackup, FillBackup, Go
<1>4. ASSUME NEW p \in Appliers, Recheck(p) PROVE AppliedHasBackup'
  BY <1>4 DEF Recheck, Stop
<1>5. ASSUME WritePlan \/ Edit \/ Writeback \/ UNCHANGED vars
      PROVE  backup' = backup /\ applied' = applied
  BY <1>5 DEF WritePlan, Edit, Writeback, vars, disk, runs
<1>6. ASSUME PowerLoss PROVE AppliedHasBackup'
  <2>1. applied' = applied \ volatile /\ applied \in SUBSET Configs
    BY <1>6 DEF PowerLoss
  <2>2. \A c \in Configs \ volatile : backup'[c] = backup[c]
    BY <1>6 DEF PowerLoss
  <2> QED
    BY <2>1, <2>2
<1> QED
  BY <1>1, <1>2, <1>3, <1>4, <1>5, <1>6 DEF Next, Apply

(* One at a time, every content whose patch was reported "applied" can be   *)
(* restored from a backup, through all later crashes and retries, and       *)
(* through power losses once the backup is on the disk.                     *)
THEOREM AppliedIsBackedUp == ASSUME Serial PROVE Spec => []AppliedHasBackup
<1>1. Whole /\ SerialInv /\ [Next]_vars => SerialInv'
  BY SerialStep
<1>2. Whole /\ SerialInv /\ AppliedHasBackup /\ [Next]_vars => AppliedHasBackup'
  BY AppliedStep
<1>3. Init => AppliedHasBackup
  BY DEF Init, AppliedHasBackup
<1> QED
  BY <1>1, <1>2, <1>3, WholeInit, WholeStep, SerialInit, PTL DEF Spec

(***************************************************************************)
(* The helper implements BootConfigStore.                                   *)
(***************************************************************************)
Settled == Saved \ volatile

LEMMA InitImplements == Init => Store!StoreInit
<1> SUFFICES ASSUME Init PROVE Store!StoreInit
  OBVIOUS
<1>1. Saved = {} /\ Settled = {}
  BY DiskAssumption DEF Init, Saved, Settled
<1> QED
  BY <1>1 DEF Init, Settled, Store!StoreInit, Store!Configs, Configs

LEMMA StepImplements ==
    ASSUME Serial
    PROVE  Whole /\ SerialInv /\ Reviewed /\ [Next]_vars => [Store!StoreNext]_Store!storeVars
<1> SUFFICES ASSUME Whole, SerialInv, Reviewed, [Next]_vars
             PROVE  [Store!StoreNext]_<<file, onDisk, author, Saved, Settled>>
  BY DEF Store!storeVars, Settled
<1> USE DiskAssumption DEF Whole, TypeOK, TargetNeverTorn, SerialInv
(* A step that leaves the disk alone is a stutter.                          *)
<1>1. ASSUME UNCHANGED disk PROVE UNCHANGED <<file, onDisk, author, Saved, Settled>>
  BY <1>1 DEF disk, Saved, Settled
<1>2. ASSUME NEW p \in Appliers, OpenBackup(p)
      PROVE  UNCHANGED <<file, onDisk, author, Saved, Settled>>
  <2>1. backup[current[p]] = Absent /\ current[p] \in Configs
    BY <1>2 DEF OpenBackup, BackupProgress
  <2>2. /\ backup' = [backup EXCEPT ![current[p]] = Torn]
        /\ volatile' = volatile \cup {current[p]}
    BY <1>2 DEF OpenBackup
  <2>3. ASSUME NEW c \in Configs PROVE backup[c] = c <=> backup'[c] = c
    BY <2>1, <2>2
  <2>4. Saved' = Saved /\ current[p] \notin Saved
    BY <2>1, <2>3 DEF Saved
  <2> QED
    BY <1>2, <2>2, <2>4 DEF OpenBackup, Settled
<1>3. ASSUME NEW p \in Appliers, FillBackup(p) PROVE Store!SaveBackup
  <2>1. /\ current[p] = file /\ backup[file] = Torn
        /\ backup' = [backup EXCEPT ![file] = file]
        /\ volatile' = volatile \cup {file}
    BY <1>3 DEF FillBackup, Undisturbed, BackupProgress
  <2>2. Saved' = Saved \cup {file} /\ file \notin Saved
    BY <2>1 DEF Saved
  <2>3. Settled' = Settled
    BY <2>1, <2>2 DEF Settled
  <2> QED
    BY <1>3, <2>2, <2>3 DEF FillBackup, Store!SaveBackup, Settled
<1>4. ASSUME NEW p \in Appliers, Replace(p) PROVE Store!Patch
  <2>1. file = current[p] /\ backup[file] = file /\ PlanReady(file) /\ token[p] \in Tokens
    BY <1>4 DEF Replace, Undisturbed, BackupProgress, Reviewed
  <2>2. /\ file' = Proposed(file, token[p]) /\ onDisk' = onDisk \cup {file'}
        /\ author' = "helper" /\ backup' = backup /\ volatile' = volatile
    BY <1>4, <2>1 DEF Replace, Rename, Target
  <2>3. file \in Saved /\ Saved' = Saved /\ Settled' = Settled
    BY <2>1, <2>2 DEF Saved, Settled
  <2> QED
    BY <2>1, <2>2, <2>3
       DEF Store!Patch, Store!PlanReady, Store!Proposed, PlanReady, Proposed, Settled
<1>5. ASSUME Edit PROVE Store!Edit
  <2>1. /\ file' \in Configs /\ onDisk' = {file'} /\ author' = "person"
        /\ Saved' = Saved /\ Settled' = Settled
    BY <1>5 DEF Edit, Saved, Settled
  <2> QED
    BY <2>1 DEF Store!Edit, Store!Configs, Configs, Settled
<1>6. ASSUME NEW p \in Appliers,
             \/ Start(p) \/ CheckBackup(p) \/ WriteTemp(p) \/ SyncTemp(p)
             \/ Fail(p) \/ Kill(p)
      PROVE  UNCHANGED disk
  BY <1>6 DEF Start, CheckBackup, WriteTemp, SyncTemp, Fail, Kill, disk
<1>7. ASSUME NEW p \in Appliers, Recheck(p) PROVE Store!SyncFile
  <2>1. onDisk' = {file} /\ UNCHANGED <<file, author, Saved, Settled>>
    BY <1>7 DEF Recheck, Saved, Settled
  <2> QED
    BY <2>1 DEF Store!SyncFile, Settled
<1>8. ASSUME Writeback
      PROVE  Store!SettleBackup \/ UNCHANGED <<file, onDisk, author, Saved, Settled>>
  <2>1. PICK c \in volatile : volatile' = volatile \ {c}
    BY <1>8 DEF Writeback
  <2>2. UNCHANGED <<file, onDisk, author, backup, Saved>>
    BY <1>8 DEF Writeback, Saved
  <2>3. CASE c \in Saved
    <3>1. Settled' = Settled \cup {c}
      BY <2>1, <2>2, <2>3 DEF Settled
    <3> QED
      BY <2>2, <2>3, <3>1 DEF Store!SettleBackup, Settled
  <2>4. CASE c \notin Saved
    BY <2>1, <2>2, <2>4 DEF Settled
  <2> QED
    BY <2>3, <2>4
<1>9. ASSUME PowerLoss PROVE Store!PowerLoss
  <2>1. /\ file' \in onDisk /\ onDisk' = {file'} /\ volatile' = {}
        /\ author' = IF file' = file THEN author ELSE "disk"
    BY <1>9 DEF PowerLoss
  <2>2. \A c \in Configs : /\ backup'[c] \in {Absent, Torn, backup[c]}
                           /\ c \notin volatile => backup'[c] = backup[c]
    BY <1>9 DEF PowerLoss
  <2>3. Saved' \subseteq Saved /\ Settled \subseteq Saved'
    BY <2>2 DEF Saved, Settled
  <2>4. Settled' = Saved'
    BY <2>1 DEF Settled
  <2> QED
    BY <2>1, <2>3, <2>4 DEF Store!PowerLoss, Settled
<1>10. ASSUME WritePlan \/ UNCHANGED vars PROVE UNCHANGED disk
  BY <1>10 DEF WritePlan, vars
<1> QED
  BY <1>1, <1>2, <1>3, <1>4, <1>5, <1>6, <1>7, <1>8, <1>9, <1>10
     DEF Next, Apply, Store!StoreNext

(* Taken one at a time, and whenever the power goes, the steps of the       *)
(* helper are an atomic patch that only replaces a backed-up content, and   *)
(* none of them harms a backup that the disk has.                           *)
THEOREM HelperImplementsStore == ASSUME Serial PROVE Spec => Implements
<1>1. Whole /\ SerialInv /\ [Next]_vars => SerialInv'
  BY SerialStep
<1>2. Whole /\ SerialInv /\ Reviewed /\ [Next]_vars => [Store!StoreNext]_Store!storeVars
  BY StepImplements
<1>3. Init => Reviewed
  BY DEF Init, Reviewed, OnlyReviewedContent
<1> QED
  BY <1>1, <1>2, <1>3, WholeInit, WholeStep, SerialInit, ReviewedStep, InitImplements, PTL
     DEF Spec, Implements, Store!StoreSpec

(* What the store promises of its settled backups is true of the helper's.  *)
LEMMA SettledStay == [Store!StoreNext]_Store!storeVars => Settled \subseteq Settled'
BY DEF Store!StoreNext, Store!storeVars, Store!SaveBackup, Store!Patch, Store!SyncFile,
       Store!SettleBackup, Store!Edit, Store!PowerLoss, Settled

(* A backup that is intact and on the disk stays both, whatever the helper  *)
(* and whatever the power do: from when the kernel has written it back, an  *)
(* applied patch can be undone.                                             *)
THEOREM SettledBackupsStay == ASSUME Serial PROVE Spec => BackupsSettle
<1>1. [Store!StoreNext]_Store!storeVars
        => [\A c \in Configs : backup[c] = c /\ c \notin volatile
                                => backup'[c] = c /\ c \notin volatile']_vars
  BY SettledStay DEF Saved, Settled
<1>2. Spec => [][Store!StoreNext]_Store!storeVars
  BY HelperImplementsStore DEF Implements, Store!StoreSpec
<1> QED
  BY <1>1, <1>2, PTL DEF BackupsSettle
=============================================================================
