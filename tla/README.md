# Verification of the Jetson VLM lab

TLA+ models of the parts of this repository whose behaviour depends on order, failures
and what other processes do: the sweep that measures model variants on a Jetson, the wrapper
that chooses a variant and starts the sweep, the suites that review, compare, select and
route what was measured, the helper that edits the Jetson's boot configuration, the download
of the model files, and the stream of camera frames. TLC checks them on small instances,
TLAPS proves the main invariants for every value of the constants.

Run a model with `tlc -config <run>.cfg <module>`, the proofs with `tlapm <module>.tla`.
`PROJECT.json` lists the runs, says for every definition which source lines it stands for,
and names for every property a change to the code that would violate it.

## The system and its parts

A workstation drives a Jetson over SSH. On the Jetson a *sweep* measures a list of model
variants one by one. The workstation's helpers choose variants, plan the memory to reserve
at boot, and turn measurements into a report, a comparison and decisions.

| part (source) | state it keeps | operations | what is hard | what makes it correct |
|---|---|---|---|---|
| **optimization sweep** (`jetson_sweep.py`) | position in the plan, entries, docker client, result files, manifest | prepare memory, preflight, port check, launch, wait, benchmark, fake stream, shut down, report, manifest | containers outlive their client and the sweep; checks of the port before and after; kills and half-written files; every step has its own failure entry | a number belongs to the variant it is filed under; leftovers are on record; the entries follow the plan; the sweep ends with a manifest |
| **server launchers** (`run_*_docker.sh`) | launcher process, container, port | gate, download, `docker run` | SIGKILL of the client leaves the container | one server at a time |
| **boot configuration planner and applier** (`boot_config_cma_plan.py`, `boot_config_cma_apply.py`) | `extlinux.conf`, its backups, plans, a temporary file | plan, check, back up, replace, re-read | two appliers, an editor, kills, I/O errors, power loss, retries | the file is never torn, holds only reviewed content, and what was replaced can be restored |
| **model download** (`hf_artifacts.sh`, `gguf_artifacts.sh`) | destination, `.partial`, curl's log | resume, accept HTTP 416, rename, check the magic | interruption at any byte, two launchers at once, the asynchronous log | a file at the destination is complete |
| **fake stream** (`fake_stream.py`) | frame index, schedule, interval, skipped count | wait, skip a late frame, send, adapt the interval | late frames against the schedule, boundary of the threshold, the last frame | every frame is sent or counted; the last one is sent |
| **benchmark client** (`benchmark.py`, `client.py`) | one JSONL file, its manifest | cases times trials, one request with a timeout | partial files, stop on error | the manifest describes the records |
| **variant selector, memory assessment, CMA experiment plan** (`jetson_variant_selector.py`, `lfb_memory_assessment.py`, `selection_context_diagnostics.py`, `cma_experiment_plan.py`) | the selector's output file | evaluate candidates, select, add later samples, size reservations | samples are stale when used; reasons added after the choice; units and rounding | the launch is gated as the choice was; a planned region is enough for every candidate |
| **remote sweep wrapper** (`run_remote_optimization_sweep.sh`) | its arguments, diagnostics files | select, collect evidence, dry-run a boot patch, check files, run the sweep | no selection and the sweep starts all the same; three programs work out the gate of one lane | the gate a lane is launched by is the gate it was selected by; what was named is swept |
| **remote suites** (`run_remote_*_suite.sh`, `build_remote_leq2b_candidate_bundle.sh`) | exit statuses of their steps | sweep, review, compare, select, bundle, route | which step runs after which failure; the same prefix twice | exit 0 means this run's results |
| **report, comparison, promotion prechecks** (`optimization.py`), **eligibility** (`eligibility_selection.py`) | files each step leaves for the next | summarize, precheck, select, bundle, order | files of two runs side by side; order of candidates | a promoted variant has complete, reviewed evidence; the primary is well defined |
| **quality review** (`quality_review.py`, `sweep_quality_review.py`) | sidecars; the sweep manifest, rewritten in place | review records, attach verdicts | crash while the manifest is rewritten; results appended after the review | a review belongs to the records it read |
| **artifact inspection, runtime gate** (`artifact_inspection.py`, `llama_cpp_runtime_gate.sh`) | none | judge files and the server binary | a verdict is advisory or fatal, by flag | with a fatal preflight only valid files are launched |
| memory and profile diagnostics, workstation builds, probes | files of their own | parse and print | external formats | data, not control: left out |

### How the parts interact

The wrapper runs the selector, forwards the selected lane and its gate, and starts the sweep
on the Jetson. A suite runs the wrapper, then reviews the records, compares the variants and
writes one selection per gate; the bundle script routes several selections. The sweep starts a
launcher per variant in a process group of its own; the launcher runs the gate, downloads
files, and becomes the docker client. The sweep then runs the benchmark and, for a config
with images, the fake stream as commands of their own; they talk to whatever answers
on the server's port and append to files named after run prefix and variant. The sweep's
manifest names these files; report, comparison, review and promotion read them later.
The boot configuration is changed by hand between sweeps, in the order plan, review, apply,
reboot, with the CMA size that the experiment plan derived from a sweep's samples.

## The modules

| module | models | composed of |
|---|---|---|
| `BootConfigContent` | what the boot configuration can hold and the one change that is proposed | |
| `BootConfigStore` | the promise: an atomic patch of a backed-up file, also over a power loss | `BootConfigContent` |
| `BootConfigCma` | planner and applier, step by step, with appliers, editor, kills, power loss | refines `BootConfigStore` |
| `BootConfigCmaProofs` | its theorems | |
| `SweepLedger` | the promise: entries that follow the plan, say one of three things and are final; one manifest per sweep | |
| `JetsonSweep` | the sweep, the launchers and containers, benchmark and fake stream as the sweep sees them, the files | refines `SweepLedger` |
| `JetsonSweepProofs` | its theorems | |
| `FakeStream` | the loop that sends the frames of a folder at a camera's pace | |
| `FakeStreamProofs` | its theorems | |
| `HfArtifact` | the promise: what arrived is kept until a whole artifact is installed in one step | |
| `HfDownload` | the host-side download of a GGUF file, its resumption and recovery | refines `HfArtifact` |
| `HfDownloadProofs` | its theorems | |
| `VariantSelector` | the choice of a lane, the memory evidence beside it, the reservations and boot arguments planned from it; pure operators | |
| `RemoteSweep` | the wrapper, step by step, up to the launches of its sweep | `VariantSelector` |
| `RemoteSweepProofs` | theorems of both | |
| `Eligibility` | rows, prechecks, selections, bundle and routes; pure operators | |
| `EligibilityProofs` | the order of the routes | |
| `PromotionSuite` | the suites: sweep, review, comparison, selections, run again and killed | `Eligibility` |
| `PromotionSuiteProofs` | its theorems | `EligibilityProofs` |
| `MC*` | the values TLC needs | |

### BootConfigCma

The file, what the disk still holds after a power loss (`onDisk`), the backups by the hash
in their name, and those not yet written back (`volatile`) are the disk; each applier has a
program counter, the bytes it read (`current`) and its token. One action is one system call
that others can see between: the guards on the bytes read (`Start`), the existence check
(`CheckBackup`), the two halves of `shutil.copy2` (`OpenBackup` truncates, `FillBackup`
copies), `WriteTemp`, `SyncTemp`, `Replace` with the sync of the directory, `Recheck`. Any
of them can fail (`Fail`) or be the last (`Kill`). Around them an editor changes the file,
the kernel writes backups back, and the power fails. A content is its APPEND token and the
rest of its lines; hashes are the contents themselves. `author`, `outcome` and `applied`
are histories for the properties.

The disk model for power loss: a rename and an unsynced file may or may not have reached
the disk. What `_atomic_write_bytes` synced has. A backup that was copied is `volatile` until
the kernel writes it back (`Writeback`), again after every copy over it; a power loss takes or
tears any volatile one.

`Store` maps this to `BootConfigStore`: the file and what a power loss may leave of it are themselves, a
content is *saved* when the backup under its hash is intact, *settled* when that backup is not
volatile either. `Replace` is the patch, `Recheck` syncs it, `FillBackup` saves, `Writeback`
settles, and every other step of an applier is a stutter.

### JetsonSweep

`run_sweep` is the sequence `prepare`, `preflight`, `port_check`, `poll`/`probe`,
`benchmark`, `stream`, `record`, `shutdown`, `closing` for each variant, then `report` and
`manifest`. A step is what happens between two moments at which a container can change
state. A server is `<<run, variant>>`; it is `launching` (gate, download), then `starting`
(container up, nothing listens), `loading` (HTTP 503), `serving`, `exited`. One that listens may become `hung`:
it does not answer within a second, and may come back (`Recover`). The port check takes one refused or late probe for
a closed port, so `EndpointOpen` sees neither a container that starts nor one that hangs. `docker
run` fails while another container has the port. `detached` are containers whose client was
killed. A request is answered by any container that serves. Files remember which run wrote each
record and who answered it, whether they hold a torn line, and which run wrote the benchmark
manifest; all of that is keyed by `FileOf`, because file names are run prefix and variant. Of
records that are alike a file keeps one, and at most `MaxRecords` different ones of a sweep.

The benchmark writes its manifest before its exit status is known. A command that fails may
therefore have broken off (`Breaks`, perhaps within a line) or have left its manifest
(`Documents`), and so may one whose sweep was killed: it ends with the sweep, or stays behind in
`strays` and goes on appending (`StrayAsks`, `StrayEnds`). The profile that `closing` makes
of a ready variant with a benchmark manifest reads both files and raises on a torn line, which
ends the sweep (`ProfileFails`). Three histories are there for the properties: how the
container of the current variant was shut down (`shutdown`), who ran without answering when it
was launched (`unseen`), and which sweeps were cut off (`cut`).

`Ledger` maps the sweep to `SweepLedger`. The result list is not the ledger: `run_sweep` appends an
entry when the variant is measured and writes the outcome of the shutdown into it afterwards, so
the last entry counts only once its container was dealt with (`Settled`). Appending an entry
for a variant that was skipped, and `closing` for one that was launched, are then `Enter`;
writing the manifest is `Publish`.

A `^C` runs the `finally` block of `run_sweep`; `Crash` is the kill that does not (SIGKILL,
the OOM killer, the loss of the session).

### FakeStream

Time is in ticks since `stream_started`. A frame is skipped (`Skip`) or waited for, sent,
recorded and adapted to in one step (`Send`): nothing else can run in between. Which of the
two is decided by `IsSent`, that is `_should_skip_late_frame`. `Slack` is what sleeping, the
loop and the writing of the record may add, at two places per frame and once before the first
(the time between `stream_started` and the loop). `RequestRaises` is
what the loop does not catch (an `http.client.IncompleteRead` or an `IndexError` from
the client), `ThresholdRaises` and `AdaptRaises` are refused arguments: the latter are only
looked at after the first frame was sent and recorded. The scale is in halves.

### HfDownload

The remote file is `Chunks` chunks, the first of which has the magic. A launcher goes
`check`, `request`, `transfer`, then `rename` or `failed`, `magic`, `ready`; the steps in
between are the lines of `download_hf_file`. Files are inodes with names (`partial`,
`destination`), since curl writes to what it has opened, whatever it is called now. curl
appends when it resumes and overwrites in place when it does not. Its error output reaches
the log through `tee` in a process substitution, which bash does not wait for: `TeeWrites` is
an action of its own, at any time until the launcher ends. The launcher takes status 22 (`exit` is
`range` or `http`) for a 416 if it finds these digits in the log. A refused range always writes them; any
other output of curl may hold them, in its progress meter or a byte position (`SaysAnything`), so
that another HTTP error can install a partial file that is not complete. `misled` is the history
of that. A login page answers a request
with no range like the file itself would (`DownloadPage`); the operator removes a destination
without magic, as the message of `require_gguf_artifact` asks (`RemoveInvalid`).

`Store` maps this to `HfArtifact`: the artifact is what is at the destination, `have` the length of
the partial file, `genuine` whether it began with the remote file's first chunk. `Receive` is
`Fetch`, and `Rename` is `Install` or, when misled, `InstallTruncated`; a killed curl, a late log, an HTTP error and a
second launcher's start are stutters.

### VariantSelector and RemoteSweep

`VariantSelector` has what the four Python programs compute: `Selection` (the reasons
against each of the two candidates and the rank chosen), `WithRegular` and `WithSudo` (the
assessments of later samples and what they add), `CmaPlan` (the sizes of the reservations, with
`RoundUp`) and `BootPlan`. A lane is its position in the variant catalog; a memory sample is
missing or a number of free blocks and their size.

`RemoteSweep` is the wrapper: `select`, `sudo`, `cma`, `patch`, `dry`, `gguf`, then the sweep's
`plan` and `lane`. Each step is one remote command and what the shell does with its output;
`RemoteFails` is the failure of any, which `set -e` makes the end. The wrapper does not read the
selector's numbers: it appends `--variant` and, for the fallback, `--variant-min-lfb-blocks` to
the user's arguments (`Forwarded`). The sweep works out the gate of each lane from these
(`GateOf`) and samples memory again (`Outcomes`), so that selector and sweep agree only if
the arguments say the same. `EditBoot` is a person with an editor between the plans and the dry
run. What a lane does after its launch is `JetsonSweep`.

### Eligibility and PromotionSuite

`Eligibility` says what follows from the files of a sweep. A results file is the number of its
records, the `<<trial, case>>` pairs that have a successful one, and the kinds of flaws in
it; a `Rows` record holds what the comparison reads for one variant. `RankingPassed` and
`PromotionPassed` are the prechecks with the flags the suites give; `Selection` filters the rows,
`Bundle` joins selections, and `Routes` orders the candidates of a lane: groups by their first
member, and q4 first in a group that has both quantizations.

`PromotionSuite` writes these files: the sweep lane by lane (`LaneBlocked`, `LaneStarts`,
`BenchRecord` per request, `BenchEnds` with the benchmark manifest, `StreamFrame`, `LaneEnds`,
`SweepEnds`), the review of each variant (`ReviewVariant`, or `ReviewFails` on a torn manifest),
the manifest written in place (`Rewrite`), `Compare`, the four selections (`Select`) and, at any
time, `BuildRoutes`. With a reused prefix results are appended to and everything else is
replaced; `Killed` ends a suite at any step, and `Continue` is the operator who runs the steps
after the sweep by hand. A comparison fails but does not stop the suite (its status is kept for
the end); every other failure does (`Abort`). Each fault counts against `MaxFaults`.

Suites of one prefix run one after the other. A review is found by the manifest or under
its name for the run, which is the same file here. The rows with no lane are bundled and not
routed. The conditions of promotion on clocks, caches and the token limit are set by the suites
themselves and do not appear; the trials and the sampling (`greedy`) do, because an environment
may change them. Of the files rewritten in place only the sweep manifest can be torn: a torn
eligibility, review, selection or benchmark manifest makes its reader raise, which is
what a lost `Compare`, an `Abort` or a `BenchFails` already do.

## What each run checks

Each of these runs passes:

* `boot_serial` (`TypeOK`, `BackupHoldsItsHash`, `AppliedHasBackup`, `Implements`): one person at a
  time, with failures, kills, retries and power losses at every system call. A file named after
  a hash is that content, torn, or not there. An applied patch has an intact backup under the hash
  of what it replaced, unless the power took that backup before it was written back. The applier
  implements `BootConfigStore`, in which a patch is one step and has a backup before it, and a
  backup that was written back stays, whatever is retried, applied again or lost.
* `boot_concurrent` (`OnlyReviewedContent`, `TargetNeverTorn`): two appliers of two plans, an editor
  and power losses, interleaved. The file is never torn and what the helper put there was a
  candidate of a ready plan. The editor also changes lines that no plan is about, so that each
  content has a candidate of its own, and an applier that trusted a plan of an older content
  would leave one that nobody reviewed.
* `sweep_attribution` (`TypeOK`, `AttributedRecords`, `MeasuredAlone`, `OrphansAreReported`,
  `ProfileOfOwnBenchmark`, `FailedVariantsHaveNoRow`): two sweeps with containers that survive in any
  state, servers that hang, and kills that leave the benchmark running. The code does not keep a
  foreign container away from a measurement; what it does is checked: a record of a sweep that
  is not cut off is answered by the variant's own server, by nobody, or by a container that ran and
  did not answer the port check before the launch; one that runs beside a measurement has escaped
  its shutdown as well; an entry that does not say `kill_group` is one whose container is gone; a
  profile has records of its own sweep under it, and a variant that never got ready has none that
  a report would take for its own.
* `sweep_faults` (`Implements`, `ManifestWritten`): kills, failing steps, stubborn processes and torn
  lines in a sweep of three variants. The
  sweep implements `SweepLedger`, so the entries are those of the plan in its order, whatever
  exit each took, an entry that is made is complete and never changes, a variant that was not
  started or not ready claims no measurement, one with images has both of them, and the manifest
  is of the whole ledger, with the report about exactly the benchmarks that succeeded; the sweep ends with
  a manifest unless it is killed, its last wait after SIGKILL times out, or the
  files of a variant with a benchmark manifest hold a torn line (`TornProfile`).
* `fake_stream` (`TypeOK`, `NoFrameLost`, `LastFrameSent`, `NeverBeforeItsTime`,
  `SentFramesAreFresh`, `AdaptiveKeepsUp`, `KeepsPace`): every combination of options. Each frame is in
  the output or in the skipped count of the next one, the last is sent however late, no frame
  comes before its time, one that is sent is fresh when late ones are skipped (up to what the loop
  itself takes after the decision), and an adaptive
  stream without a cap never falls behind by what its frames took. As long as no frame has taken
  longer than an interval, none is skipped and none is late by more than two delays of the loop.
* `download` (`TypeOK`, `DestinationWhole`, `Implements`, `Arrives`): one launcher, run again and again. A
  file at the destination that has the magic is the whole remote file, unless another HTTP error was
  taken for a 416 (`misled`); the download implements
  `HfArtifact`, so nothing that arrived is thrown away or fetched twice, whatever is killed
  in between, and an artifact with the magic is final, a truncated one too; a launcher gets to its server unless the partial file began as a login page.
* `remote_sweep` (`TypeOK`, `SelectedMeetsItsGate`, `RelaxedOnlyForFallback`, `PlannedSizeSuffices`,
  `NamedLanesAreSwept`, `LaunchedArtifactsAreValid`): the wrapper over three
  lanes, with every mixture of evidence, host and samples. The selected lane is launched only
  on a sample that meets the gate it was selected by, and on less than the user's gate only if it
  is the fallback of an unusable primary. A proposed reservation removes the shortage of every candidate, by less than one rounding
  step too much, and can be written as a boot argument. The selected lane and those the user
  named have an entry in a sweep that ends; with a fatal preflight none is launched with a bad
  file.
* `promotion` (`TypeOK`, `PromotedIsComplete`, `PromotedIsReviewed`, `RankedHadMemory`,
  `ZeroExitIsEarned`, `RoutedIsComplete`, `PrimaryIsQ4First`): two suites of
  one prefix over two variants of one group, with at most two faults among failed, flagged and rejected answers,
  lost programs, kills and a torn manifest. What is promoted, and what is routed from any
  mixture of selections, has answered every case in every trial asked for; its review is of
  the records it has; what is ranked had the memory of the ranking gate; a suite that exits 0 has
  left selections of its own comparison, and if it was told to fail on a missed promotion
  precheck, its promotion selection is the whole plan with complete evidence; a lane with candidates has exactly one primary.

The violation runs are described under Divergences.

## Bounds

* `boot_serial`: one applier (more are not concurrent when they run one after the other,
  and an applier may run any number of times), two tokens so that a patch can replace a
  patch, one kind of other lines; `MaxPlans` is 4, which is every content there is; retries and
  power losses are unbounded. The tokens are
  symmetric: nothing orders them, and no liveness is checked. 129 000 states.
* `boot_concurrent`: two appliers suffice for every two-party race on the backup and
  the file; one token and two kinds of other lines give two patchable contents with different
  candidates, and `MaxPlans = 2` a plan of each; the view drops the histories `outcome` and `applied`,
  which influence neither steps nor the two invariants. 683 000 states. The theorems
  have any number. `boot_two_appliers` needs one kind of other lines and no power loss.
* `sweep_attribution`: two sweeps are the least that has a container and a benchmark left by an
  earlier sweep. One variant is enough for that, and a second would meet the leftovers of
  the first as the second sweep does those of the first one; two records (`MaxRecords`) are one
  before and one after another server takes the port. 507 000 states. The theorems have any number of
  each.
* `sweep_faults`: three variants, so that one is first, one follows a leftover and one is
  last; one sweep, because the prefix is fresh; one record, because the ledger does not tell them
  apart, and no hanging servers, which the sweep cannot tell from closed ones. 461 000 states.
  `SweepImplementsLedger` is proved for any number of sweeps and with hanging servers.
* `fake_stream`: four frames are a first, a last and two in the middle, of which one can be
  skipped after another; frames take 1 tick, which with three delays is within the interval of 4, or 6,
  which is not; slack is 0 or 1; thresholds of -1, 0 and 2 are refused, always met, and
  between delay and interval; a cap is below the interval (1) or above it (5). 2.7 million
  states. The theorems have any number of frames and any integers.
* `download`: three chunks are the first, a middle and a last; one destination and one partial
  file need two inodes. `download_orphan` has a second launcher and two inodes more, so
  that none is reused while a launcher has it open.
* `remote_sweep`: the pair and one lane that is not in it; two gates, so that a sample can
  meet the relaxed one and not the other; blocks of two sizes, so that the sizes of a plan
  depend on which sample they are made from; one edit of the boot configuration
  (`MaxEdits`), which is what a plan can be stale against. 690 000 states.
* `promotion`: a q8 image variant before a q4 text one is the least for which the order of the
  catalog and that of the routes differ; two cases and two trials, so that a benchmark can end
  between trials and in the middle of one; two suites (`MaxRuns`), which leave files of an
  earlier run to the later one; two faults (`MaxFaults`), such as a benchmark that fails in one run
  and a comparison in the next; the full option is strict, the others are not, so that a strict
  suite can fail and succeed. 1.1 million states. The theorems have any number of
  variants, cases, trials and frames.

No counter of the code is cut off in the middle of a behaviour: `MaxRuns` bounds how many
sweeps are started, `Count` is the length of the plan, which is finite. `MaxRecords` bounds the
different records that a file keeps of a sweep, `MaxPlans` the plans that lie about at one time.

## Fairness

`FairSpec` of `JetsonSweep` assumes that the sweep takes its steps, that commands end, and
that the clock passes the deadline of `_wait_for_server`. Nothing is assumed of
servers: they may hang in every state, fail, or refuse to stop. That commands end is
the environment's part: the client has a timeout of 120 s per request and the number of
requests is finite, but `subprocess.run` of the commands and of the pre-variant command has
none (`jetson_sweep.py:911`), so a hung `sudo` prompt stops the sweep.

`FairSpec` of `HfDownload` assumes that launchers are run again (a sweep starts one whenever its
variant comes up) and, with strong fairness for each step, that no step is prevented
every single time by a kill, an error of the network, a login page or a late `tee`. Of a `tee` that is
late this is assumed only after a refused range, whose message is sure to come. Weak
fairness would promise nothing, since each of these disables the step they interrupt. All
other specifications check safety and assume no fairness.

## What is proved

`BootConfigCmaProofs`: with `Whole`, that is `TypeOK` together with `TargetNeverTorn`, as the
inductive invariant, `TypeCorrect` and `TargetIsWhole` hold with any number of appliers,
power losses and kills. `TypeOK` alone is not inductive: a plan made from a torn file would
have no content. `HelperWritesReviewedContent` adds that what an applier is about to
rename is a candidate of a ready plan (`Reviewed`). `BackupsAreGenuine`, the refinement
`HelperImplementsStore` and the action property `SettledBackupsStay` assume one person at a time
(`Serial`) and hold over power losses, as does `AppliedIsBackedUp`; they use `SerialInv`: at most
one applier is busy, what it read is the file, and past the copy the backup holds it.
`SettledBackupsStay` is proved of the store (`SettledStay`) and carried over by the refinement; no run checks it beside `Implements`, which implies it.
`AppliedIsBackedUp` excepts the backups that a power loss takes before they are written back
(`PowerLoss` drops those contents from `applied`), because the backup is not synced when the patch is
reported applied. Without `Serial` it is violated, as `boot_two_appliers` shows.

`JetsonSweepProofs`: all its theorems hold under every fault, hanging servers and commands that outlive
their sweep included. `TypeCorrect` and `ManifestFollowsPlan` are proved with `Typed`, the types and the order
of the entries. `ClosedMeansGone` uses `Orphans`: the containers of runs and variants to come do
not exist (`Fresh`), only launched ones are detached (`DetachedLaunched`), the sweep's own one is not,
up to its shutdown (`StillAttached`), and a shutdown that did not send SIGKILL has ended it, at that
moment (`ShutMeansGone`) and for good (`ClosedGone`). `RecordsAreAttributed` and `VariantsRunAlone` use
`Others`: past the launch a container that is alive is the sweep's own or one that was
overlooked then (`Overlooks`); one that is alive and not the sweep's own has escaped its shutdown
(`LetGo`); a stray command is of a sweep that was cut off (`StraysCut`). It is needed because the properties
say nothing about the steps between the port check and the measurement, in which the leftovers
matter. `ProfilesAreOwn` and `FailuresHaveNoRow` need that each sweep
has a run prefix of its own (`FreshPrefix`, the default). Their invariant is `Filed`: a
variant whose benchmark has not begun has no files (`NoFiles`), a benchmark manifest is of its own
run and has records beside it (`Manifested`), stray commands write to files of a sweep that has no
manifest (`Apart`), records are those of ready variants (`Rows`), and
the manifest is that of a sweep that is over (`Latest`).

`SweepImplementsLedger`, the refinement of `SweepLedger`, holds under every fault and for any number of
sweeps, also with a reused prefix. Its invariant `Ledgered` says what a step of the sweep may
rely on about the entries: the exit codes it carries are those of commands that ran
(`Coded`), the entry of the variant that is being closed is the last and still open (`Opened`), and
what is reported to the manifest is so far exactly the benchmarks that succeeded
(`Told`). `ManifestFollowsPlan` is proved on its own; the runs check it as a part of
`Implements`. Most steps are stutters; the proof is about the three places where an entry appears or is
closed and the one where the manifest is written.

`FakeStreamProofs`: all seven properties, for any number of frames and any command line. The
inductive invariant `IInv` adds three facts to them. `NothingSkippedAtEnd`: the frame that may
not be skipped is the last, so nothing is left counted at the end. `OnSchedule`: the adaptive
schedule is never before the fixed cadence, since every interval it adds is at least the
configured one. `ClockFollows`: after each frame the clock is at most the accumulated slack past
the schedule, which needs the interval to be the one computed *from that frame*; the mutant that
advances the schedule by the interval before breaks it. `QuickServerKeepsPace` has an invariant of its
own beside it, `Paced`: while every frame so far was quick, the loop comes to the next one at most one
delay after its schedule. Its induction needs that the schedule advances by at least the
configured interval whatever is adapted (`NextSchedule`), and that a skip is then impossible,
since the delay is below the threshold (`PacedSkip`).

`HfDownloadProofs`: `TypeCorrect` for any number of launchers side by side, and
`DestinationIsWhole` for a file of any size under the assumption `Serial` (a launcher starts only
when no other one runs), which `download_orphan` shows to be needed. The inductive invariant
`IInv` says that a partial file is a beginning of the remote file or begins as a login
page (`Sound`), that curl stands at its end (`AtTheEnd`), that a `tee` is late only for the log that
its own launcher searches next (`TeeWaits`), that a range is refused only when nothing is left to
resume (`RefusedAtEnd`), that what is renamed is complete if it has the magic and the error was not
another one (`ReadyToRename`), and that partial and destination are two files (`Separate`). TLC
checked it with two launchers and three chunks before the proof. `DownloadImplementsArtifact`, under
the same assumption, adds `Fetching`: from the request to the rename the destination is empty, and
what is renamed is not. With `AtTheEnd`, a chunk that arrives is then a step of `HfArtifact`, and not
the continuation of a file that was installed meanwhile.

`RemoteSweepProofs`: all six properties, for any catalog, gates, sizes and samples. The first
part is about the operators: `SelectionFacts`, `AssessmentFacts`, `EnrichedFacts` (later samples
leave rank, gates and `usable` alone) and `RoundedSuffices` (the arithmetic of the rounding). The
inductive invariant `IInv` adds to `TypeOK` which artifacts are there at which step
(`Artifacts`), that the selection is the one its candidates imply and that the CMA plan is made
from it (`Decided`), that the arguments are the request, the selected lane and its relaxed gate and
nothing else (`Forwards`), and what the sweep has done with the lanes so far (`Swept`). `Forwards`
carries the two properties about gates: they compare the selector's record with a launch,
and only the arguments connect the two.

`PromotionSuiteProofs` and `EligibilityProofs`: all seven properties, for any plan, any number of
cases, trials, frames, and command lines of the bundle. `IInv` is the conjunction of six parts
over the types and what each step presupposes (`TInv`). `Answers`: without a failed record, a
benchmark manifest that says so many trials has that many complete trials beside it, which survives
later runs because results are only appended to; and the rows still say so of the files that are
there now. `Judgements`: from the review on, each results file has the review of exactly its
records, and the rows copy both at one moment. `Measured`: an entry that is ready had at least
the blocks its own gate asked for. `Freshness`: past the comparison, if its status is 0, the rows are of
this run, and so is every selection already written. `Strictness`: past a strict comparison with status 0
every row passes the promotion precheck, and the promotion selection is made of these same rows; the
evidence on disk then follows from `Routed`. `Routed`: what the routes name is
complete. The order of the routes needs no invariant beyond being computed by `Routes`
(`Ordered`); `RouteIsQ4First` shows that `Precedes` is total and antisymmetric, so that a finite set of
candidates has one head.

Only model-checked: `ManifestWritten` and `Arrives`, which are liveness and out of the prover's
reach.

## Divergences

The violation runs show where the code does not do what its documentation says; each is a
finding in `PROJECT.json` with the quoted line:

* `boot_two_appliers`: the existence check of the backup and the copy are two steps; two
  appliers can lose the original.
* `sweep_silent_orphan`: a container killed out of sight before it listens can make the next
  variant "ready".
* `download_orphan`: the partial file has a fixed name and no lock. A launcher survives a sweep
  that is killed (its session is its own) and downloads beside the next one into the same
  file. The result begins with the magic, is renamed, and passes every later check.
* `remote_evidence_abort`: a wrapper whose selector chose no lane says that it continues without one. By
  default it first plans a boot change and dry-runs it, and a plan that is not ready (no readable
  boot configuration, several APPEND lines, no sample) makes the dry run return 1; `set -e` ends the
  wrapper there and no lane is swept, although `docs/benchmark_protocol.md:522-524` says that these
  assessments are evidence only.

More were seen with the same models and have no run of their own. An edit of the boot
configuration between the applier's read (`boot_config_cma_apply.py:207`) and its
`os.replace` is overwritten, although `docs/benchmark_protocol.md:554-555` says that stale
plans are rejected. The backup is not synced (`boot_config_cma_apply.py:251`) while the
replacement is, so a power loss after "applied" can leave the patch without its backup.
With a reused `--run-prefix` a benchmark that failed gets the profile of the earlier
sweep's benchmark manifest (`jetson_sweep.py:957`).

Of the sweep: a listening server that does not answer within a second counts as a closed port
(`jetson_sweep.py:829-830`, 833-841). `server_port_closed_after_shutdown` may therefore be true beside a
container that is still there, and the guard before a launch lets a variant start beside it;
when it comes back it may make the variant ready and answer its requests. The theorems say how far
this goes: only a container that was overlooked so. A sweep that is killed may leave its
benchmark behind, which goes on appending to the files of that sweep, answered by whoever serves. A torn
line of a fake stream, or of a benchmark whose files hold an earlier manifest, makes the profile raise
(`jetson_sweep.py:1346`, 46), and the sweep ends without its manifest even with a fresh prefix: the
results of all variants are lost for one line. A benchmark that
fails after its manifest was written (`benchmark.py:391`) has a failed return code and a profile.

Of the download: `grep -q "416"` (`hf_artifacts.sh:26`) reads all that curl wrote, so that another HTTP
error with these digits in a progress meter or byte position installs an incomplete file that has
the magic. Every later check accepts it, and it stays (`InstallTruncated`).

A byte of the boot configuration that is not UTF-8 is rewritten by the applier although it stands
outside the APPEND line, since the file is decoded with replacement. A half line left by a kill in
a results file of a reused prefix makes the report raise, and that sweep writes no manifest.

Of the stream: a frame is dropped when its delay is *at least* the threshold
(`fake_stream.py:101`, and so `docs/benchmark_protocol.md:865-868`), while the help text of
`--skip-late-frames` says "exceeds" (line 272); with a threshold of 0 every frame but the last is
dropped, late or not. Of the download: a login page that is resumed to the size of the file is
refused for ever, because neither the file nor its rejection removes the partial file
(`Stuck`); a 416 whose message reaches the log too late is rejected once, and the next launcher
recovers.

Of the selector: `docs/benchmark_protocol.md:524-526` adds the preboot reason to "a blocked
candidate", while `WithRegular` adds it by the later sample, also to a candidate that counts as
usable, whose reasons are then not empty. Of the wrapper: of a repeated `--min-lfb-blocks` the
sweep takes the last and the selector is given the first, and without one the selector has a gate
of 150 and the sweep none, which is why
`SelectedMeetsItsGate` is stated for one; a `--model` that excludes the selected lane leaves it out
of the sweep in silence (the premise of `NamedLanesAreSwept`); `LLAMA_SERVER_CMD` reaches the
launcher and not the container of the selector's probe.

Of the promotion: the prechecks read records, not exit codes, so a fake stream that crashes after one
good frame counts as success, although `docs/benchmark_protocol.md:668-670` asks for "fake-stream
success" (`StreamPassed`). One empty results file makes the comparison raise for all variants of the
suite (`Readable`). When it raises with a reused prefix the selections are made again of the
eligibility file of the earlier run; the suite exits 1, which is what `ZeroExitIsEarned`
rests on. A manifest that was torn by a kill stops every review and comparison of
its prefix until another sweep replaces it.

## What is not modelled

* The FIFO that feeds a sudo password to the pre-variant command: its effect, a lane that is not
  launched, is in `Outcomes`. The environment checks of the wrapper that exit 2 before any
  remote command.
* The suite of the current defaults and the preflight smoke test: straight lines of the
  commands that are modelled. The Tencent suite is the modelled one with other variants.
* Stop-on-error and dry runs of the benchmark client, which the sweep does not use, and streaming
  answers. Averages, deltas and tables of the reports, on which nothing is decided.
* Torn files other than the sweep's manifest and the boot configuration (see PromotionSuite).
* Between the memory sample of a lane and the moment its server allocates, memory can be taken by
  anything else (`jetson_sweep.py:1173`); a launch is a promise about the sample, not about the
  allocation, and the properties claim no more.
* Profile summaries, memory diagnostics, workstation scripts and remote probes: parsing of what
  tegrastats, `/proc` and debugfs print, and lists of commands without a decision.
* The lifecycle log, profile samples and memory snapshots of the sweep: observations that no
  later step decides on.
* The container of the runtime gate and the help text it parses: selector and sweep see its
  verdict (`Probes`, `Blocked`).
* A remote model file that changes between two downloads: curl would join two revisions, and
  nothing in the repository compares a hash.
* A docker client that dies alone, without a signal of the sweep (the OOM killer): the sweep would read
  `already_exited` while the container runs. A container stopped from outside is `ServerExits`.

## Plan

Done in this order: the boot configuration (the only part that can make the machine
unbootable), the sweep (where every number comes from), the fake stream, the download; then
the selector and the wrapper, the comparison, reviews and selections, and the suites that
run them.

Next:

1. The password FIFO between wrapper and pre-variant command, with a reader that is late or absent.
2. `Benchmark`: stop-on-error and the timeouts of the client, as a refinement of what `JetsonSweep` and
   `PromotionSuite` see of it.
3. The suite of the current defaults, beside another suite under the same prefix.
