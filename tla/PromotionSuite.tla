---------------------------- MODULE PromotionSuite ----------------------------
(***************************************************************************)
(* run_remote_lightweight_model_suite.sh and its siblings, with everything  *)
(* they run on the Jetson: a sweep (benchmark and fake stream of each       *)
(* variant), the quality reviews, the comparison, the selections; and       *)
(* build_remote_leq2b_candidate_bundle.sh, which routes what was selected.  *)
(*                                                                          *)
(* A suite may be run again with the same run prefix: the results files are *)
(* appended to, the others are replaced.  A suite that stopped half way may *)
(* also be continued by hand at the review.  What is killed on the          *)
(* workstation is taken to have ended on the Jetson before the next run.    *)
(***************************************************************************)
EXTENDS Eligibility, Sequences

CONSTANTS Options,    \* environments of a suite
          MaxFrames,  \* --fake-stream-max-frames
          Samples,    \* free blocks a memory sample may read
          Torn,       \* a manifest cut off while it was written
          Inputs      \* command lines of the bundle: sequences of selections

MaxRuns   == 2        \* bound: suites and continuations
MaxFaults == 2        \* bound: how much goes wrong, in all of them

Comparisons == [run : Nat, row : [Variants -> Rows]]
Chosen      == [run : Nat, variants : SUBSET Variants]
Option == [trials : Nat, greedy : BOOLEAN, relaxed : [Variants -> Nat \cup {None}],
           strict : BOOLEAN]

ASSUME PromotionAssumption ==
    /\ Options \subseteq Option
    /\ MaxFrames \in Nat
    /\ Samples \subseteq Nat
    /\ \A inputs \in Inputs : \A i \in DOMAIN inputs : i \in Nat /\ inputs[i] \in Kinds
    /\ Torn # None /\ {None, Torn} \cap [Variants -> Entries] = {}
    /\ None \notin BOOLEAN \cup Chosen \cup Comparisons

VARIABLES run,       \* how many suites were started
          faults,    \* what went wrong so far
          option,    \* the environment of this suite
          pc,        \* its step
          at,        \* the variant the step is at
          next,      \* <<trial, case>> the benchmark is at; the frame of the stream
          entry,     \* the sweep's entry of this variant, being made
          entries,   \* those it has made
          files, streams, metas, reviews,   \* the files of each variant
          manifest,  \* the sweep's manifest: None, Torn or entries
          rows,      \* comparison.eligibility.json, and the run that wrote it
          compared,  \* the comparison's exit status was 0
          chosen,    \* the selections, and the runs that wrote them
          exit,      \* the suite's exit status was 0; None while it runs
          routes     \* the routes file

disk   == <<files, streams, metas, reviews>>
sweep  == <<next, entry, entries>>
export == <<rows, compared, chosen>>
vars   == <<run, faults, option, pc, at, sweep, disk, manifest, export, exit, routes>>

KindOrder == <<(<<"ranking", "any">>), (<<"promotion", "any">>),
               (<<"ranking", "scoped">>), (<<"promotion", "scoped">>)>>

Nowhere == [v \in Variants |-> None]

Init == /\ run = 0 /\ faults = 0 /\ option = None /\ pc = "idle" /\ at = 1
        /\ next = <<1, 1>> /\ entry = None /\ entries = Nowhere
        /\ files = Nowhere /\ streams = Nowhere /\ metas = Nowhere /\ reviews = Nowhere
        /\ manifest = None /\ rows = None /\ compared = TRUE
        /\ chosen = [k \in Kinds |-> None] /\ exit = None /\ routes = None

Faulty(bad) == faults' = (IF bad THEN faults + 1 ELSE faults) /\ faults' <= MaxFaults

-----------------------------------------------------------------------------

StartSuite == /\ pc = "idle" /\ run < MaxRuns
              /\ run' = run + 1 /\ option' \in Options
              /\ pc' = "launch" /\ at' = 1 /\ entries' = Nowhere /\ exit' = None
              /\ UNCHANGED <<faults, next, entry, disk, manifest, export, routes>>

Continue == /\ pc = "idle" /\ run < MaxRuns /\ run > 0 /\ manifest # None
            /\ run' = run + 1 /\ pc' = "review" /\ at' = 1 /\ exit' = None
            /\ UNCHANGED <<faults, option, sweep, disk, manifest, export, routes>>

\* A command of the suite fails: set -e.
Abort == pc' = "idle" /\ exit' = FALSE

-----------------------------------------------------------------------------
(* The sweep, one variant after the other. *)

Required(v) == IF option.relaxed[v] # None THEN option.relaxed[v] ELSE RankingMin

\* Mutant: the entry has a gate only when it is relaxed.
EntryNoGate(ready, lfb, cached) ==
    [ready |-> ready, lfb |-> lfb, required |-> option.relaxed[at], cached |-> cached,
     benchmark |-> FALSE]

\* Mutant: the entry has the gate of the plan.
EntryPlanGate(ready, lfb, cached) ==
    [ready |-> ready, lfb |-> lfb, required |-> RankingMin, cached |-> cached,
     benchmark |-> FALSE]

Entry(ready, lfb, cached) ==
    [ready |-> ready, lfb |-> lfb, required |-> Required(at), cached |-> cached,
     benchmark |-> FALSE]

\* The gate, the pre-variant command, the runtime, the port or the server
\* itself: no server, no records.
LaneBlocked == /\ pc = "launch"
               /\ \E lfb \in Samples : entry' = Entry(FALSE, lfb, FALSE)
               /\ Faulty(TRUE)
               /\ pc' = "store"
               /\ UNCHANGED <<run, option, at, next, entries, disk, manifest, export, exit, routes>>

LaneStarts ==
    /\ pc = "launch"
    /\ \E lfb \in {l \in Samples : l >= Required(at)}, cached \in BOOLEAN :
         entry' = Entry(TRUE, lfb, cached) /\ Faulty(~cached)
    /\ files' = [files EXCEPT ![at] = IF @ = None THEN [records |-> 0, done |-> {}, flaws |-> {}]
                                                  ELSE @]
    /\ pc' = "bench" /\ next' = <<1, 1>>
    /\ UNCHANGED <<run, option, at, entries, streams, metas, reviews, manifest, export, exit, routes>>

Following(p) == IF p[2] < Cases THEN <<p[1], p[2] + 1>> ELSE <<p[1] + 1, 1>>

\* The request of one case in one trial, and its record.
BenchRecord ==
    /\ pc = "bench" /\ next[1] <= option.trials
    /\ \E bad \in {{}} \cup {{f} : f \in Flaws} :
         /\ Faulty(bad # {})
         /\ files' = [files EXCEPT ![at] =
                        [records |-> @.records + 1,
                         done    |-> IF bad = {"failed"} THEN @.done ELSE @.done \cup {next},
                         flaws   |-> @.flaws \cup bad]]
    /\ next' = Following(next)
    /\ UNCHANGED <<run, option, pc, at, entry, entries, streams, metas, reviews, manifest,
                   export, exit, routes>>

OpenStream == /\ next' = <<1, 1>>
              /\ IF at \in Images
                 THEN /\ pc' = "stream"
                      /\ streams' = [streams EXCEPT ![at] =
                                       IF @ = None THEN [records |-> 0, flaws |-> {}] ELSE @]
                 ELSE pc' = "store" /\ streams' = streams

\* The manifest comes last, with the trials that were asked for.
BenchEnds == /\ pc = "bench" /\ next[1] > option.trials
             /\ metas' = [metas EXCEPT ![at] = [trials |-> option.trials, greedy |-> option.greedy]]
             /\ entry' = [entry EXCEPT !.benchmark = TRUE]
             /\ OpenStream
             /\ UNCHANGED <<run, faults, option, at, entries, files, reviews, manifest, export,
                            exit, routes>>

\* Mutant: the manifest is written although the benchmark failed.
BenchFailsWithManifest ==
    /\ pc = "bench" /\ Faulty(TRUE)
    /\ metas' = [metas EXCEPT ![at] = [trials |-> option.trials, greedy |-> option.greedy]]
    /\ OpenStream
    /\ UNCHANGED <<run, option, at, entry, entries, files, reviews, manifest, export, exit, routes>>

\* It is killed, or runs into an answer it does not expect.
BenchFails == /\ pc = "bench" /\ Faulty(TRUE)
              /\ OpenStream
              /\ UNCHANGED <<run, option, at, entry, entries, files, metas, reviews, manifest,
                             export, exit, routes>>

StreamFrame ==
    /\ pc = "stream" /\ next[1] <= MaxFrames
    /\ \E bad \in {{}, {"failed"}, {"flagged"}} :
         /\ Faulty(bad # {})
         /\ streams' = [streams EXCEPT ![at] = [records |-> @.records + 1, flaws |-> @.flaws \cup bad]]
    /\ next' = <<next[1] + 1, 1>>
    /\ UNCHANGED <<run, option, pc, at, entry, entries, files, metas, reviews, manifest, export,
                   exit, routes>>

StreamEnds == /\ pc = "stream" /\ next[1] > MaxFrames
              /\ pc' = "store"
              /\ UNCHANGED <<run, faults, option, at, sweep, disk, manifest, export, exit, routes>>

StreamFails == /\ pc = "stream" /\ Faulty(TRUE)
               /\ pc' = "store"
               /\ UNCHANGED <<run, option, at, sweep, disk, manifest, export, exit, routes>>

\* The profile, and with it the artifact phase, needs a benchmark manifest.
LaneEnds == /\ pc = "store"
            /\ entries' = [entries EXCEPT ![at] = [entry EXCEPT !.cached = @ /\ metas[at] # None]]
            /\ IF at < Count THEN at' = at + 1 /\ pc' = "launch"
                             ELSE at' = at /\ pc' = "manifest"
            /\ UNCHANGED <<run, faults, option, next, entry, disk, manifest, export, exit, routes>>

\* Without a successful benchmark there is no report, and the sweep exits 1.
SweepEnds == /\ pc = "manifest"
             /\ manifest' = entries
             /\ IF \E v \in Variants : entries[v].benchmark
                THEN pc' = "review" /\ at' = 1 /\ exit' = exit
                ELSE Abort /\ at' = at
             /\ UNCHANGED <<run, faults, option, sweep, disk, export, routes>>

-----------------------------------------------------------------------------
(* The reviews, the comparison, the selections. *)

\* Mutant: a review that is there is kept.
ReviewMissing ==
    /\ pc = "review" /\ manifest # Torn
    /\ reviews' = IF files[at] = None \/ reviews[at] # None THEN reviews
                  ELSE [reviews EXCEPT ![at] = Review(files[at])]
    /\ IF at < Count THEN at' = at + 1 /\ pc' = pc ELSE at' = at /\ pc' = "rewrite"
    /\ UNCHANGED <<run, faults, option, sweep, files, streams, metas, manifest, export, exit, routes>>

ReviewVariant ==
    /\ pc = "review" /\ manifest # Torn
    /\ reviews' = IF files[at] = None THEN reviews
                  ELSE [reviews EXCEPT ![at] = Review(files[at])]
    /\ IF at < Count THEN at' = at + 1 /\ pc' = pc ELSE at' = at /\ pc' = "rewrite"
    /\ UNCHANGED <<run, faults, option, sweep, files, streams, metas, manifest, export, exit, routes>>

ReviewFails == /\ pc = "review" /\ manifest = Torn
               /\ Abort
               /\ UNCHANGED <<run, faults, option, at, sweep, disk, manifest, export, routes>>

\* The manifest is written again in place, with the paths of the reviews.
Rewrite == /\ pc = "rewrite"
           /\ pc' = "compare"
           /\ UNCHANGED <<run, faults, option, at, sweep, disk, manifest, export, exit, routes>>

Row(v) == [entry |-> manifest[v], file |-> files[v], frames |-> streams[v],
           meta |-> metas[v], review |-> reviews[v]]

\* Mutant: the exit status is that of the prechecks alone.
CompareTolerated ==
    /\ pc = "compare" /\ pc' = "select" /\ at' = 1
    /\ \E lost \in BOOLEAN :
         /\ Faulty(lost)
         /\ IF ~lost /\ \A v \in Variants : Readable(files[v])
            THEN rows' = [run |-> run, row |-> [v \in Variants |-> Row(v)]]
            ELSE rows' = rows
         /\ compared' = (option.strict => lost \/ \A v \in Variants : PromotionPassed(v, Row(v)))
    /\ UNCHANGED <<run, option, sweep, disk, manifest, chosen, exit, routes>>

\* The report and the eligibility file are written before the prechecks
\* become the exit status.  The suite goes on whatever that status is.
Compare ==
    /\ pc = "compare" /\ pc' = "select" /\ at' = 1
    /\ \E lost \in BOOLEAN :
         /\ Faulty(lost)
         /\ IF ~lost /\ \A v \in Variants : Readable(files[v])
            THEN /\ rows' = [run |-> run, row |-> [v \in Variants |-> Row(v)]]
                 /\ compared' = (option.strict => \A v \in Variants : PromotionPassed(v, Row(v)))
            ELSE rows' = rows /\ compared' = FALSE
    /\ UNCHANGED <<run, option, sweep, disk, manifest, chosen, exit, routes>>

Select ==
    /\ pc = "select"
    /\ IF rows = None
       THEN Abort /\ UNCHANGED <<at, chosen>>
       ELSE /\ chosen' = [chosen EXCEPT ![KindOrder[at]] =
                            [run |-> rows.run, variants |-> Selection(rows.row, KindOrder[at])]]
            /\ IF at < Len(KindOrder) THEN at' = at + 1 /\ UNCHANGED <<pc, exit>>
                                      ELSE at' = at /\ pc' = "idle" /\ exit' = compared
    /\ UNCHANGED <<run, faults, option, sweep, disk, manifest, rows, compared, routes>>

\* ssh or a program is killed, perhaps while it writes the sweep's manifest.
Killed == /\ pc # "idle" /\ Faulty(TRUE)
          /\ Abort
          /\ manifest' \in {manifest} \cup (IF pc \in {"manifest", "rewrite"} THEN {Torn} ELSE {})
          /\ UNCHANGED <<run, option, at, sweep, disk, export, routes>>

-----------------------------------------------------------------------------

\* The bundle is written, then read for the routes; at any time.
BuildRoutes ==
    \E inputs \in Inputs :
      /\ \A i \in DOMAIN inputs : chosen[inputs[i]] # None
      /\ routes' = Routes(Bundle(inputs, [k \in {inputs[i] : i \in DOMAIN inputs} |->
                                            chosen[k].variants]))
      /\ UNCHANGED <<run, faults, option, pc, at, sweep, disk, manifest, export, exit>>

Next == \/ StartSuite \/ Continue \/ LaneBlocked \/ LaneStarts
        \/ BenchRecord \/ BenchEnds \/ BenchFails
        \/ StreamFrame \/ StreamEnds \/ StreamFails \/ LaneEnds \/ SweepEnds
        \/ ReviewVariant \/ ReviewFails \/ Rewrite \/ Compare \/ Select
        \/ Killed \/ BuildRoutes

Spec == Init /\ [][Next]_vars

-----------------------------------------------------------------------------
(* Properties. *)

Steps == {"idle", "launch", "bench", "stream", "store", "manifest", "review", "rewrite",
          "compare", "select"}

(* Types of the suite's state, of the files it leaves and of the routes. *)
TypeOK ==
    /\ run \in 0..MaxRuns /\ faults \in 0..MaxFaults
    /\ option \in {None} \cup Option
    /\ pc \in Steps /\ at \in Variants \cup DOMAIN KindOrder /\ next \in Nat \X Nat
    /\ entry \in {None} \cup Entries /\ entries \in [Variants -> {None} \cup Entries]
    /\ files \in [Variants -> {None} \cup Results]
    /\ streams \in [Variants -> {None} \cup Frames]
    /\ metas \in [Variants -> {None} \cup Metas]
    /\ reviews \in [Variants -> {None} \cup Reviews]
    /\ manifest \in {None, Torn} \cup [Variants -> Entries]
    /\ rows \in {None} \cup Comparisons
    /\ compared \in BOOLEAN /\ exit \in BOOLEAN \cup {None}
    /\ chosen \in [Kinds -> {None} \cup Chosen]

Promoted(v) == rows # None /\ PromotionPassed(v, rows.row[v])

(* A promoted variant has answered every prompt case in every trial the     *)
(* stage asks for, although the trials are read off the benchmark manifest  *)
(* of whichever run wrote one last.                                         *)
PromotedIsComplete ==
    \A v \in Variants : Promoted(v) => (1..MinTrials) \X (1..Cases) \subseteq files[v].done

(* The review a promoted row rests on is of the records the row counts,     *)
(* and not of those of an earlier run.                                      *)
PromotedIsReviewed ==
    \A v \in Variants : Promoted(v) =>
        /\ rows.row[v].review.records = rows.row[v].file.records
        /\ "rejected" \notin rows.row[v].file.flaws

(* A ranked variant was launched on at least the free blocks of the ranking *)
(* gate, also when its gate in the sweep was relaxed.                       *)
RankedHadMemory ==
    rows # None => \A v \in Variants :
        RankingPassed(rows.row[v]) => rows.row[v].entry.lfb >= RankingMin

(* A suite that exits 0 has left the comparison and the selections of its   *)
(* own results, none of an earlier run; one that was told to fail on a      *)
(* missed promotion precheck, only if every variant of its plan is in its   *)
(* promotion selection and has answered every case in every trial: the exit *)
(* status is decided before the selections are made, by another program.    *)
ZeroExitIsEarned ==
    exit = TRUE =>
        /\ rows # None /\ \A k \in Kinds : chosen[k] # None /\ chosen[k].run = run
        /\ option.strict =>
             /\ chosen[<<"promotion", "any">>].variants = Variants
             /\ \A v \in Variants : (1..MinTrials) \X (1..Cases) \subseteq files[v].done

(* Whatever the bundle was made of and however often the suites were run,   *)
(* what is routed for promotion has answered every case in every trial.     *)
RoutedIsComplete ==
    routes # None => \A lane \in Lanes : \A c \in routes[lane].candidates :
        (1..MinTrials) \X (1..Cases) \subseteq files[c[2]].done

(* A lane that has candidates has one primary, which is not a q8 when its   *)
(* group has a q4; what is listed as a fallback is never the primary.       *)
PrimaryIsQ4First ==
    routes # None => \A lane \in Lanes : LET r == routes[lane] IN
        /\ Cardinality(r.primary) = (IF r.candidates = {} THEN 0 ELSE 1)
        /\ r.primary \cap r.fallbacks = {}
        /\ \A p \in r.primary, c \in r.candidates :
             Group(c) = Group(p) /\ Bucket(c) = "q4" => Bucket(p) # "q8"
=============================================================================
