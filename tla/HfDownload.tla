------------------------------ MODULE HfDownload ------------------------------
(***************************************************************************)
(* The host-side download of a GGUF file by the llama.cpp launchers         *)
(* (scripts/jetson/hf_artifacts.sh): curl resumes <destination>.partial,    *)
(* which is renamed when curl succeeds, or when the server answers the      *)
(* resume with HTTP 416 and the partial file starts with the GGUF magic.    *)
(* It takes for a 416 any HTTP error (curl's status 22) with these digits   *)
(* in what curl wrote, its progress and its byte counts included.           *)
(* A launcher can be killed at any moment and is run again by a later       *)
(* sweep, which resumes.  A launcher that outlives its sweep runs beside    *)
(* the next one.                                                            *)
(*                                                                          *)
(* The file has Chunks chunks, 1..Chunks in this order; the magic is in the *)
(* first.  Files are inodes, because curl keeps writing to the one it       *)
(* opened, whatever it is called by then.                                   *)
(***************************************************************************)
EXTENDS Integers, Sequences

CONSTANTS Launchers,  \* the launchers of one destination
          Chunks,     \* how many chunks the remote file has
          Inodes,     \* the files there may be
          Serial,     \* a launcher starts only when no other one runs
          Portal,     \* a login page may be served in place of the file
          None

Hole == 0             \* what a write past the end of a file leaves
Page == -1            \* a login page
Parts == {Hole, Page} \cup 1..Chunks
Content == Seq(Parts)

ASSUME DownloadAssumption ==
    /\ Chunks \in Nat \ {0}
    /\ None \notin Inodes
    /\ {Serial, Portal} \subseteq BOOLEAN

VARIABLES pc,           \* where each launcher is
          fd,           \* the file its curl has open
          at,           \* how many chunks its curl has
          append,       \* its curl appends: it resumed
          exit,         \* how its curl failed
          pending,      \* its tee has yet to write the digits 416
          content,      \* what each file holds
          partial,      \* <destination>.partial
          destination,  \* the file the server will load
          log,          \* <destination>.partial.curl.log
          misled        \* history: another error than a 416 made it the destination

curl == <<fd, at, append, exit>>
vars == <<pc, curl, pending, content, partial, destination, log, misled>>

Init == /\ pc = [l \in Launchers |-> "idle"]
        /\ fd = [l \in Launchers |-> None]
        /\ at = [l \in Launchers |-> 0]
        /\ append = [l \in Launchers |-> FALSE]
        /\ exit = [l \in Launchers |-> "none"]
        /\ pending = [l \in Launchers |-> FALSE]
        /\ content = [i \in Inodes |-> <<>>]
        /\ partial = None /\ destination = None
        /\ log = "absent" /\ misled = FALSE

Goto(l, step) == pc' = [pc EXCEPT ![l] = step]

(* The launcher ends: set -e leaves it with the status of what failed.      *)
End(l) == Goto(l, "idle") /\ pending' = [pending EXCEPT ![l] = FALSE]

HasMagic(file) == Len(content[file]) > 0 /\ content[file][1] = 1

Size == IF partial = None THEN 0 ELSE Len(content[partial])

Open == {fd[l] : l \in {m \in Launchers : pc[m] = "transfer"}}
Free == Inodes \ ({partial, destination} \cup Open)

-----------------------------------------------------------------------------

Begin(l) == /\ pc[l] = "idle"
            /\ Serial => \A m \in Launchers : pc[m] = "idle"
            /\ Goto(l, "check")
            /\ UNCHANGED <<curl, pending, content, partial, destination, log, misled>>

(* A destination that exists is not downloaded, only checked for its magic. *)
CheckDestination(l) ==
    /\ pc[l] = "check"
    /\ Goto(l, IF destination = None THEN "request" ELSE "magic")
    /\ UNCHANGED <<curl, pending, content, partial, destination, log, misled>>

(* curl opens the partial file for appending, or makes a new one.  tee has  *)
(* opened its log by then.                                                  *)
Resume(l) ==
    /\ pc[l] = "request" /\ 0 < Size /\ Size < Chunks
    /\ Goto(l, "transfer")
    /\ fd' = [fd EXCEPT ![l] = partial]
    /\ at' = [at EXCEPT ![l] = Size]
    /\ append' = [append EXCEPT ![l] = TRUE]
    /\ log' = "quiet"
    /\ UNCHANGED <<exit, pending, content, partial, destination, misled>>

\* What curl writes to when there is nothing to resume.
Opened(file) == IF partial = None THEN file \in Free ELSE file = partial

\* Mutant: curl without -C -, which starts again whatever has arrived.
DownloadAfresh(l) ==
    /\ pc[l] = "request"
    /\ Goto(l, "transfer")
    /\ \E file \in Inodes :
         /\ Opened(file)
         /\ partial' = file
         /\ content' = [content EXCEPT ![file] = <<>>]
         /\ fd' = [fd EXCEPT ![l] = file]
    /\ at' = [at EXCEPT ![l] = 0]
    /\ append' = [append EXCEPT ![l] = FALSE]
    /\ log' = "quiet"
    /\ UNCHANGED <<exit, pending, destination, misled>>

Download(l) ==
    /\ pc[l] = "request" /\ Size = 0
    /\ Goto(l, "transfer")
    /\ \E file \in Inodes :
         /\ Opened(file)
         /\ partial' = file
         /\ content' = [content EXCEPT ![file] = <<>>]
         /\ fd' = [fd EXCEPT ![l] = file]
    /\ at' = [at EXCEPT ![l] = 0]
    /\ append' = [append EXCEPT ![l] = FALSE]
    /\ log' = "quiet"
    /\ UNCHANGED <<exit, pending, destination, misled>>

DownloadPage(l) ==
    /\ pc[l] = "request" /\ Size = 0 /\ Portal
    /\ Goto(l, "rename")
    /\ \E file \in Inodes :
         /\ Opened(file)
         /\ partial' = file
         /\ content' = [content EXCEPT ![file] = <<Page>>]
    /\ log' = "quiet"
    /\ exit' = [exit EXCEPT ![l] = "none"]
    /\ UNCHANGED <<fd, at, append, pending, destination, misled>>

CurlFails(l, e) == /\ Goto(l, "failed")
                   /\ exit' = [exit EXCEPT ![l] = e]
                   /\ UNCHANGED <<fd, at, append, content, partial, destination, misled>>

(* Nothing is left to resume: HTTP 416, which tee is yet to write.          *)
RangeRefused(l) == /\ pc[l] = "request" /\ Size >= Chunks
                   /\ CurlFails(l, "range")
                   /\ pending' = [pending EXCEPT ![l] = TRUE]
                   /\ log' = "quiet"

(* What else curl writes may hold these digits too: a resume from byte      *)
(* 416..., a rate, a size.                                                  *)
SaysAnything(l) == pending' \in {pending, [pending EXCEPT ![l] = TRUE]}

(* Any other status of 400 or more, or no connection.                       *)
RequestFails(l) == /\ pc[l] = "request"
                   /\ \E e \in {"http", "network"} : CurlFails(l, e)
                   /\ log' = "quiet"
                   /\ SaysAnything(l)

WriteAt(c, i, chunk) ==
    IF i <= Len(c) THEN [c EXCEPT ![i] = chunk]
    ELSE [k \in 1..i |-> IF k = i THEN chunk ELSE IF k <= Len(c) THEN c[k] ELSE Hole]

Written(l) == LET c == content[fd[l]]
                  i == at[l] + 1
              IN IF append[l] THEN Append(c, i) ELSE WriteAt(c, i, i)

\* Mutant: the end of the file goes unnoticed.
ReceiveOn(l) ==
    /\ pc[l] = "transfer"
    /\ content' = [content EXCEPT ![fd[l]] = Written(l)]
    /\ at' = [at EXCEPT ![l] = @ + 1]
    /\ UNCHANGED <<pc, fd, append, exit, pending, partial, destination, log, misled>>

Receive(l) ==
    /\ pc[l] = "transfer" /\ at[l] < Chunks
    /\ content' = [content EXCEPT ![fd[l]] = Written(l)]
    /\ at' = [at EXCEPT ![l] = @ + 1]
    /\ UNCHANGED <<pc, fd, append, exit, pending, partial, destination, log, misled>>

TransferEnds(l) ==
    /\ pc[l] = "transfer" /\ at[l] = Chunks
    /\ Goto(l, "rename")
    /\ exit' = [exit EXCEPT ![l] = "none"]
    /\ UNCHANGED <<fd, at, append, pending, content, partial, destination, log, misled>>

TransferBreaks(l) == /\ pc[l] = "transfer" /\ at[l] < Chunks
                     /\ CurlFails(l, "network")
                     /\ SaysAnything(l)
                     /\ UNCHANGED log

(* The process substitution is not waited for: tee may write after the log  *)
(* has been searched, or to a log that is unlinked.                         *)
TeeWrites(l) ==
    /\ pending[l]
    /\ pending' = [pending EXCEPT ![l] = FALSE]
    /\ log' = IF log = "absent" THEN log ELSE "says 416"
    /\ UNCHANGED <<pc, curl, content, partial, destination, misled>>

\* Mutant: whatever curl's status, it is enough that its log has the digits.
AcceptAnyStatus(l) == partial # None /\ log = "says 416" /\ HasMagic(partial)

\* Mutant: the launcher before the recovery of completed partial files.
AcceptNone(l) == FALSE

Accepted(l) == /\ exit[l] \in {"range", "http"}           \* curl's status is 22
               /\ partial # None
               /\ log = "says 416"
               /\ HasMagic(partial)

Accept(l) == /\ pc[l] = "failed" /\ Accepted(l)
             /\ Goto(l, "rename")
             /\ UNCHANGED <<curl, pending, content, partial, destination, log, misled>>

Reject(l) == /\ pc[l] = "failed" /\ ~Accepted(l)
             /\ End(l)
             /\ log' = "absent"
             /\ UNCHANGED <<curl, content, partial, destination, misled>>

Rename(l) ==
    /\ pc[l] = "rename"
    /\ IF partial = None
         THEN End(l) /\ UNCHANGED <<partial, destination, misled>>
         ELSE /\ Goto(l, "magic")
              /\ destination' = partial /\ partial' = None
              /\ misled' = (exit[l] = "http")
              /\ UNCHANGED pending
    /\ log' = "absent"
    /\ UNCHANGED <<curl, content>>

(* require_gguf_artifact: on to docker run, or the end of the launcher.     *)
CheckMagic(l) ==
    /\ pc[l] = "magic"
    /\ IF destination # None /\ HasMagic(destination)
         THEN Goto(l, "ready") /\ UNCHANGED pending
         ELSE End(l)
    /\ UNCHANGED <<curl, content, partial, destination, log, misled>>

(* The launcher, its curl and its tee are killed with their process group.  *)
(* For a launcher that is ready this is the end of its server.              *)
Kill(l) == /\ pc[l] # "idle"
           /\ End(l)
           /\ UNCHANGED <<curl, content, partial, destination, log, misled>>

(* "Remove the artifact and rerun the launcher", says require_gguf_artifact. *)
RemoveInvalid ==
    /\ destination # None /\ ~HasMagic(destination)
    /\ \A l \in Launchers : pc[l] = "idle"
    /\ destination' = None
    /\ UNCHANGED <<pc, curl, pending, content, partial, log, misled>>

-----------------------------------------------------------------------------

Launcher(l) ==
    \/ Begin(l) \/ CheckDestination(l)
    \/ Resume(l) \/ Download(l) \/ DownloadPage(l) \/ RangeRefused(l) \/ RequestFails(l)
    \/ Receive(l) \/ TransferEnds(l) \/ TransferBreaks(l)
    \/ TeeWrites(l) \/ Accept(l) \/ Reject(l) \/ Rename(l) \/ CheckMagic(l) \/ Kill(l)

Next == RemoveInvalid \/ \E l \in Launchers : Launcher(l)

Spec == Init /\ [][Next]_vars

(* The launcher is run again and again; none of its steps is prevented by a *)
(* kill, an error, a login page or a slow tee every single time; for the    *)
(* tee, every time that there is nothing left to resume.                    *)
FairSpec ==
    /\ Spec
    /\ SF_vars(RemoveInvalid)
    /\ \A l \in Launchers :
         /\ SF_vars(Begin(l)) /\ SF_vars(CheckDestination(l))
         /\ SF_vars(Resume(l)) /\ SF_vars(Download(l)) /\ SF_vars(RangeRefused(l))
         /\ SF_vars(Receive(l)) /\ SF_vars(TransferEnds(l))
         /\ SF_vars(exit[l] = "range" /\ TeeWrites(l))
         /\ SF_vars(Accept(l)) /\ WF_vars(Reject(l))
         /\ SF_vars(Rename(l)) /\ SF_vars(CheckMagic(l))

-----------------------------------------------------------------------------
(* Properties. *)

Steps == {"idle", "check", "request", "transfer", "failed", "rename", "magic", "ready"}

(* Types of the launchers and their files.                                  *)
TypeOK ==
    /\ pc \in [Launchers -> Steps]
    /\ fd \in [Launchers -> Inodes \cup {None}]
    /\ \A l \in Launchers : pc[l] = "transfer" => fd[l] \in Inodes
    /\ at \in [Launchers -> 0..Chunks]
    /\ append \in [Launchers -> BOOLEAN]
    /\ exit \in [Launchers -> {"none", "range", "http", "network"}]
    /\ pending \in [Launchers -> BOOLEAN]
    /\ content \in [Inodes -> Content]
    /\ partial \in Inodes \cup {None} /\ destination \in Inodes \cup {None}
    /\ log \in {"absent", "quiet", "says 416"} /\ misled \in BOOLEAN

Whole(c) == Len(c) = Chunks /\ \A k \in 1..Len(c) : c[k] = k

(* A file at the destination that passes the magic check is the whole       *)
(* remote file, through every interruption, resume and accepted 416, unless *)
(* another HTTP error was taken for a 416: the magic is all that the        *)
(* launcher, the preflight and the sweep ever check.                        *)
DestinationWhole ==
    destination # None /\ HasMagic(destination) /\ ~misled
        => Whole(content[destination])

Artifact == IF destination = None THEN "absent"
            ELSE IF Whole(content[destination]) THEN "whole"
            ELSE IF HasMagic(destination) THEN "truncated" ELSE "invalid"

Store == INSTANCE HfArtifact
         WITH artifact <- Artifact, have <- Size,
              genuine <- partial # None /\ HasMagic(partial)

(* Through kills, broken connections, refused requests, resumes and late    *)
(* logs, nothing that arrived is fetched again or cut off, the destination  *)
(* appears in one step with all that arrived, complete or, after an HTTP    *)
(* error taken for a 416, not; and what has the magic is neither replaced   *)
(* nor removed, a truncated artifact no more than a whole one.              *)
Implements == Store!ArtifactSpec

(* A login page that was resumed to the size of the file: refused for ever. *)
Stuck == partial # None /\ Size >= Chunks /\ ~HasMagic(partial)

(* However often a download is cut short, also between its last byte and    *)
(* its rename, a launcher that is run again gets to its server, unless the  *)
(* partial file began as a login page, which no launcher ever removes.      *)
Arrives == []<>((\E l \in Launchers : pc[l] = "ready") \/ Stuck)
=============================================================================
