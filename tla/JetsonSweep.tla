----------------------------- MODULE JetsonSweep -----------------------------
(***************************************************************************)
(* The optimization sweep (src/edge_vlm/jetson_sweep.py): for every planned *)
(* variant it prepares memory, samples it, checks that nobody answers on    *)
(* the server port, launches the variant's llama.cpp container, waits for   *)
(* it, benchmarks it and shuts it down; then it builds the report and       *)
(* writes its manifest.  The containers live beside it: a launcher is in a  *)
(* session of its own, so it outlives a sweep that is killed, and so may    *)
(* the command that the sweep was waiting for; a container outlives its     *)
(* docker client; and a server that listens may hang, and answer later.     *)
(*                                                                          *)
(* A variant is known by its position in the plan, the server of run r for  *)
(* variant v is <<r, v>>.                                                   *)
(***************************************************************************)
EXTENDS Integers, Sequences, FiniteSets

CONSTANTS Count,        \* how many variants the plan has
          MaxRuns,      \* bound: how many sweeps are run one after the other
          MaxRecords,   \* bound: how many records of a sweep a file tells apart
          FreshPrefix,  \* each sweep has its own run prefix (the default)
          Images,       \* the variants whose config supports images
          Blocked,      \* those whose probed runtime lacks llama-server or mmproj
          Threshold,    \* --min-lfb-blocks, or None
          Override,     \* Override[v]: --variant-min-lfb-blocks, or None
          Samples,      \* the free-block counts a preflight may read, or None
          Prepare,      \* there is a --pre-variant-command
          Stubborn,     \* container states in which SIGTERM may not stop it
          Unkillable,   \* a process may survive SIGKILL for 20 s
          Hangs,        \* a server that listens may stop answering for a while
          CrashAt,      \* the steps at which the sweep may be killed
          Tears,        \* a benchmark that fails may leave half a line
          None

Variants == 1..Count
Runs     == 1..MaxRuns
Servers  == Runs \X Variants
Kinds    == {"benchmark", "stream"}

Listening == {"loading", "serving"}            \* answers HTTP within a second
Mute      == {"starting", "hung"}              \* nobody answers in time
Holding   == Mute \cup Listening               \* a container has the port
Alive     == {"launching"} \cup Holding

Ended == {"idle", "aborted"}                   \* nothing of the sweep runs

Steps == Ended \cup {"prepare", "preflight", "port_check", "poll", "probe",
          "benchmark", "stream", "record", "shutdown", "closing", "report",
          "manifest"}

ASSUME SweepAssumption ==
    /\ Count \in Nat \ {0}
    /\ MaxRuns \in Nat \ {0}
    /\ MaxRecords \in Nat \ {0}
    /\ None \notin Int \cup Servers
    /\ Images \subseteq Variants
    /\ Blocked \subseteq Images
    /\ Threshold \in Nat \cup {None}
    /\ Override \in [Variants -> Nat \cup {None}]
    /\ Samples \subseteq Nat \cup {None}
    /\ Stubborn \subseteq Holding
    /\ CrashAt \subseteq Steps \ Ended
    /\ {FreshPrefix, Prepare, Hangs, Unkillable, Tears} \subseteq BOOLEAN

VARIABLES run,       \* the sweep that runs, or ran last
          pc,        \* where it is
          v,         \* the variant it is at
          late,      \* the wait for the server has used up its timeout
          rc,        \* return codes of the variant's benchmark and fake stream
          results,   \* the entries of the manifest to be
          reported,  \* benchmark and fake-stream files for the report
          server,    \* what each launcher and its container are doing
          detached,  \* containers whose docker client was killed
          strays,    \* benchmarks and fake streams that outlive their sweep
          shutdown,  \* how the variant's server was shut down
          unseen,    \* history: alive, and unanswering, when it was launched
          cut,       \* history: the sweeps that were cut off
          records,   \* records[kind][file]: the records of an output file
          torn,      \* the files that hold a line cut short
          meta,      \* meta[file]: the run whose benchmark manifest is there
          manifest   \* the sweep manifest written last

driver == <<run, pc, v, late, rc, results, reported>>
host   == <<server, detached, strays>>
noted  == <<shutdown, unseen, cut>>
files  == <<records, torn, meta, manifest>>
vars   == <<driver, host, noted, files>>

me == <<run, v>>

(* Mutant: the prefix is the same for every sweep. *)
PrefixReused(r, w) == <<1, w>>

(* The output files are named by run prefix and variant. *)
FileOf(r, w) == IF FreshPrefix THEN <<r, w>> ELSE <<1, w>>
file == FileOf(run, v)

NoPaths   == [k \in Kinds |-> {}]
NotRun    == [k \in Kinds |-> "none"]
NoResults == [run |-> 0, results |-> <<>>, report |-> {}]

Init == /\ run = 0 /\ pc = "idle" /\ v = 1 /\ late = FALSE /\ rc = NotRun
        /\ results = <<>> /\ reported = NoPaths
        /\ server = [s \in Servers |-> "none"]
        /\ detached = {} /\ strays = {}
        /\ shutdown = "none" /\ unseen = {} /\ cut = {}
        /\ records = [k \in Kinds |-> [f \in Servers |-> {}]]
        /\ torn = NoPaths
        /\ meta = [f \in Servers |-> 0]
        /\ manifest = NoResults

-----------------------------------------------------------------------------
(* What the sweep can see of its servers. *)

Exited(s)    == server[s] \notin Alive \/ s \in detached     \* process.poll()
\* Mutant: an HTTP error counts as a closed port.
OpenIfServing == \E s \in Servers : server[s] = "serving"

(* Any HTTP answer within a second; one poll without one counts as closed,  *)
(* so a server that hangs is a closed port.                                 *)
EndpointOpen == \E s \in Servers : server[s] \in Listening

(* Nobody asks the docker daemon what runs.                                 *)
Overlooked   == {s \in Servers : server[s] \in Alive \ Listening}
Answering    == {s \in Servers : server[s] = "serving"}      \* status < 400

RequiredBlocks(w) == IF Override[w] # None THEN Override[w] ELSE Threshold

PreflightBlocks(free, required) ==
    required # None /\ ~(free # None /\ free >= required)

Entry(reason, ready) ==
    [variant |-> v, reason |-> reason, ready |-> ready, rc |-> rc,
     closed |-> "unknown", method |-> "none", profile |-> 0]

-----------------------------------------------------------------------------
(* Steps of the sweep. *)

(* Mutant: off by one. *)
OneVariantMore == IF v <= Count THEN v' = v + 1 /\ pc' = "prepare"
                                ELSE v' = v /\ pc' = "report"

NextVariant == IF v < Count THEN v' = v + 1 /\ pc' = "prepare"
                            ELSE v' = v /\ pc' = "report"

(* An entry that says why the variant was not started. *)
Skip(reason) == /\ results' = Append(results, Entry(reason, FALSE))
                /\ NextVariant
                /\ UNCHANGED <<run, late, rc, reported, host, noted, files>>

StartSweep == /\ pc \in Ended /\ run < MaxRuns
              /\ run' = run + 1 /\ pc' = "prepare" /\ v' = 1
              /\ late' = FALSE /\ rc' = NotRun
              /\ results' = <<>> /\ reported' = NoPaths
              /\ UNCHANGED <<host, noted, files>>

Goto(step) == pc' = step /\ UNCHANGED <<run, v, late, rc, results, reported>>

PrepareVariant == /\ pc = "prepare"
                  /\ \/ Prepare /\ Skip("pre_variant_command_failed")
                     \/ Goto("preflight") /\ UNCHANGED <<host, noted, files>>

Preflight ==
    /\ pc = "preflight"
    /\ \E free \in Samples :
         \/ /\ PreflightBlocks(free, RequiredBlocks(v))
            /\ Skip("lfb_free_blocks")
         \/ /\ ~PreflightBlocks(free, RequiredBlocks(v))
            /\ v \in Blocked
            /\ Skip("runtime_missing")
         \/ /\ ~PreflightBlocks(free, RequiredBlocks(v))
            /\ v \notin Blocked
            /\ Goto("port_check") /\ UNCHANGED <<host, noted, files>>

PortBusy == /\ pc = "port_check" /\ EndpointOpen
            /\ Skip("server_port_still_open_before_start")

(* Mutant: the port is not looked at. *)
LaunchAnyway == /\ pc = "port_check"
                /\ server' = [server EXCEPT ![me] = "launching"]
                /\ unseen' = Overlooked
                /\ pc' = "poll" /\ late' = FALSE
                /\ UNCHANGED <<run, v, rc, results, reported, detached, strays,
                               shutdown, cut, files>>

Launch == /\ pc = "port_check" /\ ~EndpointOpen
          /\ server' = [server EXCEPT ![me] = "launching"]
          /\ unseen' = Overlooked
          /\ pc' = "poll" /\ late' = FALSE
          /\ UNCHANGED <<run, v, rc, results, reported, detached, strays,
                         shutdown, cut, files>>

(* Mutant: the wait has no deadline. *)
WaitForExit == /\ pc = "poll" /\ Exited(me)
               /\ results' = Append(results, Entry("none", FALSE))
               /\ pc' = "shutdown"
               /\ UNCHANGED <<run, v, late, rc, reported, host, noted, files>>

NotReady == /\ pc = "poll" /\ (late \/ Exited(me))
            /\ results' = Append(results, Entry("none", FALSE))
            /\ pc' = "shutdown"
            /\ UNCHANGED <<run, v, late, rc, reported, host, noted, files>>

Poll == /\ pc = "poll" /\ ~late /\ ~Exited(me)
        /\ Goto("probe") /\ UNCHANGED <<host, noted, files>>

(* Whoever answers the probe makes the variant "ready". *)
Probe == /\ pc = "probe"
         /\ Goto(IF Answering # {} THEN "benchmark" ELSE "poll")
         /\ UNCHANGED <<host, noted, files>>

(* One request of the benchmark or of the fake stream of sweep r, for       *)
(* variant w; one that nobody answers is recorded as failed.  It appends to *)
(* the variant's file.                                                      *)
OwnRecords(kind, r, w) == {e \in records[kind][FileOf(r, w)] : e.run = r}

Ask(kind, r, w) ==
    /\ Cardinality(OwnRecords(kind, r, w)) < MaxRecords
    /\ \E by \in IF Answering = {} THEN {None} ELSE Answering :
         records' = [records EXCEPT
                      ![kind][FileOf(r, w)] = @ \cup {[run |-> r, by |-> by]}]

Request == /\ pc \in Kinds
           /\ Ask(pc, run, v)
           /\ UNCHANGED <<driver, host, noted, torn, meta, manifest>>

AfterCommand == pc' = IF pc = "benchmark" /\ v \in Images THEN "stream" ELSE "record"

(* The benchmark writes its own manifest when all cases are recorded.       *)
Documents(kind, r, w) ==
    /\ kind = "benchmark" => OwnRecords(kind, r, w) # {}
    /\ meta' = IF kind = "benchmark" THEN [meta EXCEPT ![FileOf(r, w)] = r] ELSE meta
    /\ UNCHANGED torn

(* It fails or is killed before that, perhaps in the middle of a line.      *)
Breaks(kind, r, w) ==
    /\ \/ torn' = torn
       \/ Tears /\ torn' = [torn EXCEPT ![kind] = @ \cup {FileOf(r, w)}]
    /\ UNCHANGED meta

CommandSucceeds ==
    /\ pc \in Kinds
    /\ Documents(pc, run, v)
    /\ rc' = [rc EXCEPT ![pc] = "ok"]
    /\ AfterCommand
    /\ UNCHANGED <<run, v, late, results, reported, host, noted, records, manifest>>

(* The script around the benchmark may still fail after its manifest.       *)
CommandFails ==
    /\ pc \in Kinds
    /\ Breaks(pc, run, v) \/ Documents(pc, run, v)
    /\ rc' = [rc EXCEPT ![pc] = "failed"]
    /\ AfterCommand
    /\ UNCHANGED <<run, v, late, results, reported, host, noted, records, manifest>>

(* Mutant: a benchmark that failed goes into the report as well. *)
RecordAll ==
    /\ pc = "record"
    /\ reported' = [k \in Kinds |->
                      reported[k] \cup (IF rc[k] # "none" THEN {v} ELSE {})]
    /\ results' = Append(results, Entry("none", TRUE))
    /\ pc' = "shutdown"
    /\ UNCHANGED <<run, v, late, rc, host, noted, files>>

Record ==
    /\ pc = "record"
    /\ reported' = [k \in Kinds |->
                      reported[k] \cup (IF rc[k] = "ok" THEN {v} ELSE {})]
    /\ results' = Append(results, Entry("none", TRUE))
    /\ pc' = "shutdown"
    /\ UNCHANGED <<run, v, late, rc, host, noted, files>>

(* _terminate_process: SIGTERM to the launcher's group, SIGKILL after 20 s. *)
(* SIGKILL ends the docker client, never the container.                     *)
Shut(method) == shutdown' = method /\ Goto("closing") /\ UNCHANGED <<strays, unseen, cut>>

AlreadyExited == /\ pc = "shutdown" /\ Exited(me)
                 /\ Shut("already_exited") /\ UNCHANGED <<server, detached, files>>

Terminate == /\ pc = "shutdown" /\ ~Exited(me)
             /\ server' = [server EXCEPT ![me] = "exited"]
             /\ Shut("terminate_group") /\ UNCHANGED <<detached, files>>

(* Mutant: the method is named before the second signal. *)
KillGroupQuietly ==
    /\ pc = "shutdown" /\ ~Exited(me) /\ server[me] \in Stubborn
    /\ detached' = detached \cup {me}
    /\ Shut("terminate_group") /\ UNCHANGED <<server, files>>

KillGroup == /\ pc = "shutdown" /\ ~Exited(me) /\ server[me] \in Stubborn
             /\ detached' = detached \cup {me}
             /\ Shut("kill_group") /\ UNCHANGED <<server, files>>

(* The second wait raises TimeoutExpired, which ends the sweep.             *)
ShutdownTimesOut == /\ pc = "shutdown" /\ ~Exited(me) /\ Unkillable
                    /\ cut' = cut \cup {run}
                    /\ Goto("aborted") /\ UNCHANGED <<host, shutdown, unseen, files>>

(* A variant that was ready gets a profile if its benchmark manifest is     *)
(* there and names a tegrastats log; for it both files are read.            *)
Garbled  == \E k \in Kinds : file \in torn[k]
Profiles == IF results[Len(results)].ready /\ ~Garbled THEN {0, meta[file]} ELSE {0}

(* The rest of the finally block: is the port closed, and the profile.      *)
Closing ==
    /\ pc = "closing"
    /\ \E made \in Profiles : LET last == Len(results) IN
         results' = [results EXCEPT
                       ![last].closed = IF EndpointOpen THEN "no" ELSE "yes",
                       ![last].method = shutdown, ![last].profile = made]
    /\ NextVariant
    /\ rc' = NotRun /\ shutdown' = "none"
    /\ UNCHANGED <<run, late, reported, host, unseen, cut, files>>

(* A line that is no JSON makes the profile, and with it the sweep, fail.   *)
ProfileFails == /\ pc = "closing"
                /\ results[Len(results)].ready /\ meta[file] # 0 /\ Garbled
                /\ Goto("idle") /\ UNCHANGED <<host, noted, files>>

Unreadable == \E k \in Kinds, w \in reported["benchmark"] :
                  w \in reported[k] /\ FileOf(run, w) \in torn[k]

(* Such a line makes the report fail, too.                                  *)
Report == /\ pc = "report"
          /\ Goto(IF Unreadable THEN "idle" ELSE "manifest")
          /\ UNCHANGED <<host, noted, files>>

WriteManifest ==
    /\ pc = "manifest"
    /\ manifest' = [run |-> run, results |-> results,
                    report |-> reported["benchmark"]]
    /\ Goto("idle")
    /\ UNCHANGED <<host, noted, records, torn, meta>>

-----------------------------------------------------------------------------
(* What happens around it. *)

(* time.monotonic() passes the deadline of the wait. *)
DeadlinePasses == /\ pc \in {"poll", "probe"} /\ ~late
                  /\ late' = TRUE
                  /\ UNCHANGED <<run, pc, v, rc, results, reported, host, noted, files>>

Becomes(s, state) == /\ server' = [server EXCEPT ![s] = state]
                     /\ UNCHANGED <<driver, detached, strays, noted, files>>

(* Runtime gate, download, or docker itself fails. *)
LauncherFails(s) == server[s] = "launching" /\ Becomes(s, "exited")

(* docker run -p: the port goes to one container at a time. *)
DockerRun(s) ==
    /\ server[s] = "launching"
    /\ Becomes(s, IF \E t \in Servers : server[t] \in Holding
                  THEN "exited" ELSE "starting")

(* llama-server listens, answers 503 while it loads the model, then serves. *)
Listen(s) == server[s] = "starting" /\ Becomes(s, "loading")
Serve(s)  == server[s] = "loading" /\ Becomes(s, "serving")

(* For a while it does not answer within a second: swapping, out of memory. *)
Hang(s)    == Hangs /\ server[s] \in Listening /\ Becomes(s, "hung")
Recover(s) == server[s] = "hung" /\ \E state \in Listening : Becomes(s, state)

ServerExits(s) == server[s] \in Holding /\ Becomes(s, "exited")

(* The sweep is killed; its server is not, and the command it waits for may *)
(* be killed with it or not.                                                *)
Crash == /\ pc \in CrashAt
         /\ cut' = cut \cup {run}
         /\ Goto("aborted")
         /\ \/ UNCHANGED <<strays, torn, meta>>
            \/ /\ pc \in Kinds
               /\ strays' = strays \cup {[run |-> run, variant |-> v, kind |-> pc]}
               /\ UNCHANGED <<torn, meta>>
            \/ /\ pc \in Kinds
               /\ Breaks(pc, run, v)
               /\ UNCHANGED strays
         /\ UNCHANGED <<server, detached, shutdown, unseen, records, manifest>>

(* Such a command goes on with whoever answers, and ends as any other.      *)
StrayAsks(c) == /\ Ask(c.kind, c.run, c.variant)
                /\ UNCHANGED <<driver, host, noted, torn, meta, manifest>>

StrayEnds(c) == /\ strays' = strays \ {c}
                /\ \/ Documents(c.kind, c.run, c.variant)
                   \/ Breaks(c.kind, c.run, c.variant)
                /\ UNCHANGED <<driver, server, detached, noted, records, manifest>>

-----------------------------------------------------------------------------

Driver == \/ PrepareVariant \/ Preflight \/ PortBusy \/ Launch
          \/ NotReady \/ Poll \/ Probe
          \/ CommandSucceeds \/ CommandFails \/ Record
          \/ AlreadyExited \/ Terminate \/ KillGroup \/ ShutdownTimesOut
          \/ Closing \/ ProfileFails \/ Report \/ WriteManifest

Container(s) == \/ LauncherFails(s) \/ DockerRun(s) \/ Listen(s) \/ Serve(s)
                \/ Hang(s) \/ Recover(s) \/ ServerExits(s)

Next == \/ StartSweep \/ Driver \/ Request \/ DeadlinePasses \/ Crash
        \/ \E s \in Servers : Container(s)
        \/ \E c \in strays : StrayAsks(c) \/ StrayEnds(c)

Spec == Init /\ [][Next]_vars

(* Commands end, the clock runs, and the sweep takes its steps.  Nothing is *)
(* assumed of the servers: the timeouts are for them.                       *)
FairSpec == Spec /\ WF_vars(Driver) /\ WF_vars(DeadlinePasses)

-----------------------------------------------------------------------------
(* Properties. *)

Methods == {"none", "already_exited", "terminate_group", "kill_group"}

Entries == [variant : Variants, ready : BOOLEAN, closed : {"unknown", "yes", "no"},
            reason : {"none", "pre_variant_command_failed", "lfb_free_blocks",
                      "runtime_missing", "server_port_still_open_before_start"},
            rc : [Kinds -> {"none", "ok", "failed"}],
            method : Methods, profile : {0} \cup Runs]

Written == [run : Runs, by : Servers \cup {None}]

Commands == [run : Runs, variant : Variants, kind : Kinds]

(* Types of the sweep's state, its entries, its servers and its files. *)
TypeOK ==
    /\ run \in {0} \cup Runs /\ pc \in Steps /\ v \in Variants
    /\ pc \notin Ended => run # 0
    /\ late \in BOOLEAN
    /\ rc \in [Kinds -> {"none", "ok", "failed"}]
    /\ results \in Seq(Entries)
    /\ reported \in [Kinds -> SUBSET Variants]
    /\ server \in [Servers -> Alive \cup {"none", "exited"}]
    /\ detached \subseteq Servers /\ strays \subseteq Commands
    /\ shutdown \in Methods /\ unseen \subseteq Servers /\ cut \subseteq Runs
    /\ records \in [Kinds -> [Servers -> SUBSET Written]]
    /\ torn \in [Kinds -> SUBSET Servers]
    /\ meta \in [Servers -> {0} \cup Runs]
    /\ manifest \in [run : {0} \cup Runs, results : Seq(Entries),
                     report : SUBSET Variants]

(* What a sweep that is not cut off records was answered by the server it   *)
(* launched for that file, by nobody, or by a container that ran, and did   *)
(* not answer the port check, when that server was launched: no number is   *)
(* another server's that could have been noticed.                           *)
AttributedRecords ==
    [][\A k \in Kinds, f \in Servers : \A r \in records'[k][f] \ records[k][f] :
          r.run \notin cut => r.by \in {None, <<r.run, f[2]>>} \cup unseen]_vars

(* While a variant is measured, another container competes for the Jetson's *)
(* memory and port only if it slipped through twice: it escaped its own     *)
(* shutdown, by SIGKILL of its client or the end of its sweep, and it did   *)
(* not answer the port check.                                               *)
MeasuredAlone ==
    pc \in Kinds => \A s \in Servers \ {me} :
        server[s] \in Alive => s \in unseen /\ (s \in detached \/ s[1] \in cut)

(* server_ready is true only for a server that is up: the one that answers  *)
(* the probe of _wait_for_server is the one this sweep just launched.       *)
ReadyMeansOwnServer ==
    [][pc = "probe" /\ pc' = "benchmark" => server[me] = "serving"]_vars

(* A container that outlives its shutdown is on record: its entry says      *)
(* kill_group.  (server_port_closed_after_shutdown does not tell: a hung    *)
(* server's port is closed.)                                                *)
OrphansAreReported ==
    \A i \in 1..Len(results) :
        results[i].method \in {"already_exited", "terminate_group"} =>
            server[<<run, results[i].variant>>] \notin Alive

(* The entries follow the plan one to one, whatever was skipped or failed,  *)
(* and a manifest that is written has them all.                             *)
ResultsFollowPlan ==
    /\ \A i \in 1..Len(results) : results[i].variant = i
    /\ pc \in {"report", "manifest"} => Len(results) = Count
    /\ manifest.run # 0 => Len(manifest.results) = Count

(* A profile summary in an entry is made from a benchmark of this sweep,    *)
(* never from files an earlier one left, though the benchmark may fail.     *)
ProfileOfOwnBenchmark ==
    \A i \in 1..Len(results) : results[i].profile # 0 =>
        /\ results[i].profile = run
        /\ OwnRecords("benchmark", run, results[i].variant) # {}

(* summarize_sweep_manifest reads a benchmark file whenever it exists.      *)
RowHasRecords(e) == records["benchmark"][FileOf(manifest.run, e.variant)] # {}

(* The comparison shows numbers only for a variant whose server came up in  *)
(* the sweep that the manifest describes.                                   *)
FailedVariantsHaveNoRow ==
    \A i \in 1..Len(manifest.results) :
        RowHasRecords(manifest.results[i]) => manifest.results[i].ready

(* The line of the ledger that an entry is. *)
Line(e) == [variant   |-> e.variant,
            outcome   |-> IF e.reason # "none" THEN "skipped"
                          ELSE IF e.ready THEN "measured" ELSE "unready",
            benchmark |-> e.rc["benchmark"], stream |-> e.rc["stream"],
            closed    |-> e.closed]

(* The entry of a variant whose server is not shut down yet is not made.    *)
Unsettled(e) == e.reason = "none" /\ e.closed = "unknown"

Settled == LET n == Len(results)
           IN IF n > 0 /\ Unsettled(results[n]) THEN n - 1 ELSE n

Ledger == INSTANCE SweepLedger
          WITH sweep <- run, ledger <- [i \in 1..Settled |-> Line(results[i])],
               published <- [sweep  |-> manifest.run,
                             ledger |-> [i \in 1..Len(manifest.results) |->
                                           Line(manifest.results[i])],
                             report |-> manifest.report]

(* Whatever is skipped, fails, hangs or is killed, an entry that is made    *)
(* stays as it is and is consistent: return codes of its own commands only, *)
(* and what the shutdown found exactly if there was one; a manifest is      *)
(* written once per sweep, from all entries, and its report is about        *)
(* exactly the variants whose benchmark succeeded in this sweep.            *)
Implements == Ledger!LedgerSpec

(* A line cut short, in the files of a variant with a benchmark manifest.   *)
TornProfile(r) == \E k \in Kinds, w \in Variants :
                      FileOf(r, w) \in torn[k] /\ meta[FileOf(r, w)] # 0

(* Every sweep that is neither killed nor left alone by a process that even *)
(* SIGKILL does not stop ends with its own manifest, whatever its servers   *)
(* and its commands do, unless they leave a line cut short to the profile.  *)
ManifestWritten ==
    \A r \in Runs : run = r ~> manifest.run = r \/ pc = "aborted" \/ TornProfile(r)
=============================================================================
