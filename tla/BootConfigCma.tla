---------------------------- MODULE BootConfigCma ----------------------------
(***************************************************************************)
(* The CMA patch planner and the patch applier of the Jetson's extlinux     *)
(* configuration (src/edge_vlm/boot_config_cma_plan.py and                  *)
(* boot_config_cma_apply.py), with what surrounds them: several runs of the *)
(* applier, a person who edits the file, processes that are killed, failed  *)
(* writes and power losses.                                                 *)
(*                                                                          *)
(* A plan is identified by the content it was made from: it records that    *)
(* content's SHA-256, and its candidates are the contents Proposed(base, t). *)
(* A hash stands for its content (no SHA-256 collisions), and so does the   *)
(* 12-digit prefix that names a backup.                                     *)
(***************************************************************************)
EXTENDS BootConfigContent, Integers, FiniteSets

CONSTANTS Appliers,     \* runs of boot_config_cma_apply that may coexist
          MaxPlans,     \* bound: how many contents have a plan made from them
          Absent,       \* no such file
          Torn,         \* a file with only a part of its content
          Serial,       \* one person acts at a time (the documented manual steps)
          PowerFails    \* the Jetson may lose power

ASSUME DiskAssumption ==
    /\ Absent \notin Configs
    /\ Torn \notin Configs \cup {Absent}
    /\ MaxPlans \in Nat
    /\ Serial \in BOOLEAN
    /\ PowerFails \in BOOLEAN

VARIABLES file,      \* the boot configuration as processes see it
          onDisk,    \* the contents it may have after a power loss
          author,    \* history: who wrote it last, "person" or "helper", or
                     \* "disk" when a power loss brought an older content back
          backup,    \* backup[c]: the file <name>.pre-cma-<hash of c>.bak
          volatile,  \* the backups whose data the disk may not have yet
          plans,     \* the contents a patch plan was made from
          pc,        \* where each applier is
          current,   \* the bytes it read; all its hashes come from them
          token,     \* the candidate it applies
          outcome,   \* what the applier that ended last reported
          applied    \* history: the contents whose patch was reported "applied",
                     \* until a power loss finds their backup not written back

disk == <<file, onDisk, author, backup, volatile>>
runs == <<pc, current, token, outcome, applied>>
vars == <<disk, plans, runs>>

Steps == {"idle", "validated", "backup_free", "copying", "copied",
          "temp_written", "temp_synced", "replaced"}

Outcomes == {"none", "ready", "applied", "manual_confirmation_required",
             "plan_not_ready", "current_hash_mismatch", "backup_already_exists",
             "final_hash_mismatch", "os_error", "killed"}

Quiet == \A p \in Appliers : pc[p] = "idle"

Init == /\ file \in Configs
        /\ onDisk = {file}
        /\ author = "person"
        /\ backup = [c \in Configs |-> Absent]
        /\ volatile = {}
        /\ plans = {}
        /\ pc = [p \in Appliers |-> "idle"]
        /\ current = [p \in Appliers |-> Absent]
        /\ token = [p \in Appliers |-> NoCma]
        /\ outcome = "none"
        /\ applied = {}

(***************************************************************************)
(* The planner reads the file once and writes a plan made from it.          *)
(***************************************************************************)
WritePlan == /\ Cardinality(plans \cup {file}) <= MaxPlans
             /\ plans' = plans \cup {file}
             /\ UNCHANGED <<disk, runs>>

(***************************************************************************)
(* The applier.                                                             *)
(***************************************************************************)
Go(p, step) == /\ pc' = [pc EXCEPT ![p] = step]
               /\ UNCHANGED <<plans, current, token, outcome, applied>>

Stop(p, result) ==
    /\ outcome' = result
    /\ applied' = IF result = "applied" THEN applied \cup {current[p]} ELSE applied
    /\ pc' = [pc EXCEPT ![p] = "idle"]
    /\ current' = [current EXCEPT ![p] = Absent]
    /\ token' = [token EXCEPT ![p] = NoCma]
    /\ UNCHANGED plans

(* Mutant of Refusal: the hash of the file is not looked at.                *)
RefusalWithoutHash(base, dryRun, confirmed) ==
    CASE ~dryRun /\ ~confirmed -> "manual_confirmation_required"
      [] ~PlanReady(base)      -> "plan_not_ready"
      [] OTHER                 -> ""

(* The first guard that refuses a plan made from base; "" when none does.   *)
Refusal(base, dryRun, confirmed) ==
    CASE ~dryRun /\ ~confirmed -> "manual_confirmation_required"
      [] ~PlanReady(base)      -> "plan_not_ready"
      [] file # base           -> "current_hash_mismatch"
      [] OTHER                 -> ""

(* Mutant of Start: the bytes the guards checked are not kept.              *)
StartForgetful(p) ==
    /\ pc[p] = "idle"
    /\ Serial => Quiet
    /\ \E base \in plans, t \in Tokens, dryRun \in BOOLEAN, confirmed \in BOOLEAN :
         LET refusal == Refusal(base, dryRun, confirmed) IN
         IF refusal = "" /\ ~dryRun
           THEN /\ pc' = [pc EXCEPT ![p] = "validated"]
                /\ token' = [token EXCEPT ![p] = t]
                /\ UNCHANGED <<plans, current, outcome, applied>>
           ELSE Stop(p, IF refusal = "" THEN "ready" ELSE refusal)
    /\ UNCHANGED disk

(* One invocation up to the dry-run return: the file is read once and every *)
(* guard is evaluated on those bytes.                                       *)
Start(p) ==
    /\ pc[p] = "idle"
    /\ Serial => Quiet
    /\ \E base \in plans, t \in Tokens, dryRun \in BOOLEAN, confirmed \in BOOLEAN :
         LET refusal == Refusal(base, dryRun, confirmed) IN
         IF refusal = "" /\ ~dryRun
           THEN /\ pc' = [pc EXCEPT ![p] = "validated"]
                /\ current' = [current EXCEPT ![p] = file]
                /\ token' = [token EXCEPT ![p] = t]
                /\ UNCHANGED <<plans, outcome, applied>>
           ELSE Stop(p, IF refusal = "" THEN "ready" ELSE refusal)
    /\ UNCHANGED disk

Target(p) == Proposed(current[p], token[p])

(* Mutant of CheckBackup: an existing backup is overwritten.                *)
CheckNoBackup(p) == /\ pc[p] = "validated"
                    /\ Go(p, "backup_free")
                    /\ UNCHANGED disk

CheckBackup(p) ==
    /\ pc[p] = "validated"
    /\ IF backup[current[p]] # Absent
         THEN Stop(p, "backup_already_exists")
         ELSE Go(p, "backup_free")
    /\ UNCHANGED disk

(* shutil.copy2 creates or truncates the backup ...                         *)
OpenBackup(p) ==
    /\ pc[p] = "backup_free"
    /\ backup' = [backup EXCEPT ![current[p]] = Torn]
    /\ volatile' = volatile \cup {current[p]}
    /\ Go(p, "copying")
    /\ UNCHANGED <<file, onDisk, author>>

(* Mutant of FillBackup: an interrupted copy goes unnoticed.                *)
FillNothing(p) == /\ pc[p] = "copying"
                  /\ Go(p, "copied")
                  /\ UNCHANGED disk

(* Mutant of FillBackup: the proposed bytes are copied.                     *)
FillWithTarget(p) ==
    /\ pc[p] = "copying"
    /\ backup' = [backup EXCEPT ![current[p]] = Target(p)]
    /\ volatile' = volatile \cup {current[p]}
    /\ Go(p, "copied")
    /\ UNCHANGED <<file, onDisk, author>>

(* ... and fills it with what the file holds by then.  Nothing syncs it.    *)
FillBackup(p) ==
    /\ pc[p] = "copying"
    /\ backup' = [backup EXCEPT ![current[p]] = file]
    /\ volatile' = volatile \cup {current[p]}
    /\ Go(p, "copied")
    /\ UNCHANGED <<file, onDisk, author>>

(* A temporary file of a name of its own, written and then synced.          *)
WriteTemp(p) == /\ pc[p] = "copied"
                /\ Go(p, "temp_written")
                /\ UNCHANGED disk

SyncTemp(p) == /\ pc[p] = "temp_written"
               /\ Go(p, "temp_synced")
               /\ UNCHANGED disk

(* os.replace of data that was never synced can leave a torn file behind.   *)
Rename(p) == /\ file' = Target(p)
             /\ onDisk' = onDisk \cup {Target(p)}
                            \cup (IF pc[p] = "temp_synced" THEN {} ELSE {Torn})
             /\ author' = "helper"
             /\ Go(p, "replaced")
             /\ UNCHANGED <<backup, volatile>>

(* Mutant of Replace: the temporary file is renamed before it is synced.    *)
ReplaceUnsynced(p) == /\ pc[p] = "temp_written"
                      /\ Rename(p)

Replace(p) == /\ pc[p] = "temp_synced"
              /\ Rename(p)

(* The directory is synced, then the file is read again and compared.       *)
Recheck(p) ==
    /\ pc[p] = "replaced"
    /\ onDisk' = {file}
    /\ Stop(p, IF file = Target(p) THEN "applied" ELSE "final_hash_mismatch")
    /\ UNCHANGED <<file, author, backup, volatile>>

(* Any write, sync or read may raise OSError: the run ends, the temporary   *)
(* file is unlinked, a backup that was begun stays.                         *)
Fail(p) == /\ pc[p] # "idle"
           /\ Stop(p, "os_error")
           /\ UNCHANGED disk

(* The process is killed (the ssh session drops, ^C).                       *)
Kill(p) == /\ pc[p] # "idle"
           /\ Stop(p, "killed")
           /\ UNCHANGED disk

(***************************************************************************)
(* The environment.                                                         *)
(***************************************************************************)
(* Somebody else writes the boot configuration: an editor, a package        *)
(* upgrade, a manual restore of a backup.                                   *)
Edit == /\ Serial => Quiet
        /\ \E c \in Configs : /\ file' = c
                              /\ onDisk' = {c}
        /\ author' = "person"
        /\ UNCHANGED <<backup, volatile, plans, runs>>

(* The kernel writes a backup's data back.                                  *)
Writeback == /\ \E c \in volatile : volatile' = volatile \ {c}
             /\ UNCHANGED <<file, onDisk, author, backup, plans, runs>>

(* Backups that were not written back may be incomplete afterwards, or gone *)
(* when --backup-dir is a directory nobody synced.                          *)
PowerLoss ==
    /\ PowerFails
    /\ file' \in onDisk
    /\ onDisk' = {file'}
    /\ \E gone \in SUBSET volatile : \E partial \in SUBSET (volatile \ gone) :
         backup' = [c \in Configs |-> IF c \in gone THEN Absent
                                      ELSE IF c \in partial THEN Torn ELSE backup[c]]
    /\ volatile' = {}
    /\ pc' = [p \in Appliers |-> "idle"]
    /\ current' = [p \in Appliers |-> Absent]
    /\ token' = [p \in Appliers |-> NoCma]
    /\ outcome' = IF Quiet THEN outcome ELSE "killed"
    /\ author' = IF file' = file THEN author ELSE "disk"
    /\ applied' = applied \ volatile
    /\ UNCHANGED plans

Apply(p) == \/ Start(p) \/ CheckBackup(p) \/ OpenBackup(p) \/ FillBackup(p)
            \/ WriteTemp(p) \/ SyncTemp(p) \/ Replace(p) \/ Recheck(p)

Next == \/ WritePlan \/ Edit \/ Writeback \/ PowerLoss
        \/ \E p \in Appliers : Apply(p) \/ Fail(p) \/ Kill(p)

Spec == Init /\ [][Next]_vars

(***************************************************************************)
(* Properties                                                               *)
(***************************************************************************)
(* Every variable has its type; a torn boot configuration is of it, so that *)
(* TargetNeverTorn has something to exclude.                                *)
TypeOK == /\ file \in Configs \cup {Torn}
          /\ onDisk \in SUBSET (Configs \cup {Torn})
          /\ author \in {"person", "helper", "disk"}
          /\ backup \in [Configs -> Configs \cup {Absent, Torn}]
          /\ volatile \in SUBSET Configs
          /\ plans \in SUBSET Configs
          /\ pc \in [Appliers -> Steps]
          /\ current \in [Appliers -> Configs \cup {Absent}]
          /\ token \in [Appliers -> Tokens \cup {NoCma}]
          /\ \A p \in Appliers : pc[p] # "idle" => /\ current[p] \in Configs
                                                /\ token[p] \in Tokens
          /\ outcome \in Outcomes
          /\ applied \in SUBSET Configs

(* _atomic_write_bytes: whatever process is killed and whenever the power   *)
(* goes, the bootloader finds a whole configuration.                        *)
TargetNeverTorn == file # Torn /\ Torn \notin onDisk

(* A configuration the helper wrote is a candidate of a plan that was made  *)
(* and reviewed, whatever other appliers and editors did meanwhile.         *)
OnlyReviewedContent ==
    author = "helper" => \E base \in plans, t \in Tokens : /\ PlanReady(base)
                                                        /\ file = Proposed(base, t)

(* The file named after the hash of c is a copy of c, or visibly torn: a    *)
(* person restoring it gets the configuration its name promises.            *)
BackupHoldsItsHash == \A c \in Configs : backup[c] \in {Absent, Torn, c}

(* Once an applier reported "applied", the content it replaced can be       *)
(* restored, through every later retry, crash, edit and re-application, and *)
(* through power losses from when its backup is on the disk: the applier    *)
(* reports the patch before that.                                           *)
AppliedHasBackup == \A c \in applied : backup[c] = c

(* A backup that is intact and written back is never lost again: not to a   *)
(* retry, not to another application of a patch, not to a power loss.       *)
BackupsSettle ==
    [][\A c \in Configs : backup[c] = c /\ c \notin volatile
                            => backup'[c] = c /\ c \notin volatile']_vars

Saved == {c \in Configs : backup[c] = c}

(* The steps of the helper, power losses included, implement an atomic,     *)
(* backed-up patch.                                                         *)
Store == INSTANCE BootConfigStore WITH held <- onDisk, saved <- Saved,
                                       settled <- Saved \ volatile

Implements == Store!StoreSpec
=============================================================================
