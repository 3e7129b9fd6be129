------------------------------ MODULE HfArtifact ------------------------------
(***************************************************************************)
(* What the download promises, without launchers, curl, its log or inodes:  *)
(* the chunks that arrived are kept until the artifact is installed, in one *)
(* step, from a file that has all of them if it is the remote file at all,  *)
(* or from what there is of it; an artifact with the right magic is final,  *)
(* whole or truncated, and one without can only be removed.                 *)
(***************************************************************************)
EXTENDS Integers

CONSTANT Chunks        \* how many chunks the remote file has

VARIABLES artifact,    \* "absent", "whole", "truncated", "invalid": no GGUF file
          have,        \* how many chunks have arrived
          genuine      \* the first of them is the remote file's

artifactVars == <<artifact, have, genuine>>

ArtifactInit == artifact = "absent" /\ have = 0 /\ genuine = FALSE

(* A login page arrives in place of the first chunk only.                   *)
Fetch == /\ artifact = "absent" /\ have < Chunks
         /\ have' = have + 1
         /\ genuine' \in IF have = 0 THEN BOOLEAN ELSE {genuine}
         /\ UNCHANGED artifact

Install == /\ artifact = "absent" /\ have > 0
           /\ genuine => have = Chunks
           /\ artifact' = IF genuine THEN "whole" ELSE "invalid"
           /\ have' = 0 /\ genuine' = FALSE

(* Another HTTP error was taken for the 416 of a file that is complete.     *)
InstallTruncated == /\ artifact = "absent" /\ genuine /\ have < Chunks
                    /\ artifact' = "truncated"
                    /\ have' = 0 /\ genuine' = FALSE

Remove == /\ artifact = "invalid"
          /\ artifact' = "absent"
          /\ UNCHANGED <<have, genuine>>

ArtifactNext == Fetch \/ Install \/ InstallTruncated \/ Remove

ArtifactSpec == ArtifactInit /\ [][ArtifactNext]_artifactVars
=============================================================================
