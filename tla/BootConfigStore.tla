--------------------------- MODULE BootConfigStore ---------------------------
(***************************************************************************)
(* What the boot configuration helper promises, without the steps it takes: *)
(* the file is changed either by a person or by one atomic patch of its CMA *)
(* token, and a patch only ever replaces a content of which an intact       *)
(* backup exists.  A power loss may bring back what the file held since it  *)
(* was last synced, and may take a backup that is not settled; a backup     *)
(* that is settled stays intact for ever.                                   *)
(***************************************************************************)
EXTENDS BootConfigContent

VARIABLES file,     \* the content of the boot configuration
          held,     \* the contents a power loss may leave in it
          author,   \* who wrote it last: "person", "helper", or "disk"
          saved,    \* the contents of which an intact backup exists
          settled   \* those whose backup the disk has

storeVars == <<file, held, author, saved, settled>>

StoreInit == /\ file \in Configs
             /\ held = {file}
             /\ author = "person"
             /\ saved = {} /\ settled = {}

SaveBackup == /\ saved' = saved \cup {file}
              /\ UNCHANGED <<file, held, author, settled>>

Patch == /\ file \in saved
         /\ PlanReady(file)
         /\ \E t \in Tokens : file' = Proposed(file, t)
         /\ held' = held \cup {file'}
         /\ author' = "helper"
         /\ UNCHANGED <<saved, settled>>

SyncFile == /\ held' = {file}
            /\ UNCHANGED <<file, author, saved, settled>>

SettleBackup == /\ \E c \in saved : settled' = settled \cup {c}
                /\ UNCHANGED <<file, held, author, saved>>

Edit == /\ file' \in Configs
        /\ held' = {file'}
        /\ author' = "person"
        /\ UNCHANGED <<saved, settled>>

PowerLoss == /\ file' \in held
             /\ held' = {file'}
             /\ author' = IF file' = file THEN author ELSE "disk"
             /\ saved' \in SUBSET saved
             /\ settled \subseteq saved' /\ settled' = saved'

StoreNext == SaveBackup \/ Patch \/ SyncFile \/ SettleBackup \/ Edit \/ PowerLoss

StoreSpec == StoreInit /\ [][StoreNext]_storeVars
=============================================================================
