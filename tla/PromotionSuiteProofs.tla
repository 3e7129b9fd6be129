------------------------- MODULE PromotionSuiteProofs -------------------------
(***************************************************************************)
(* Proofs about PromotionSuite, for any number of variants, cases, trials,  *)
(* frames, gates, runs and faults.                                          *)
(***************************************************************************)
EXTENDS PromotionSuite, EligibilityProofs, TLAPS

Sweeping == {"launch", "bench", "stream", "store"}

(* What a step of the suite finds.                                          *)
Stages ==
    /\ run > 0 => option \in Option
    /\ pc # "idle" => run > 0 /\ exit = None
    /\ pc \in Sweeping => at \in Variants /\ \A v \in Variants : v < at => entries[v] # None
    /\ pc \in Sweeping \ {"launch"} => entry # None
    /\ pc = "bench" => files[at] # None /\ next[1] > 0 /\ next[2] \in 1..Cases
    /\ pc = "stream" => streams[at] # None
    /\ pc = "manifest" => \A v \in Variants : entries[v] # None
    /\ pc = "review" => at \in Variants /\ manifest # None
    /\ pc \in {"rewrite", "compare"} => manifest \in [Variants -> Entries]
    /\ pc = "select" => at \in DOMAIN KindOrder

TInv == TypeOK /\ Stages

LEMMA FirstVariant == 1 \in Variants /\ 1 \in DOMAIN KindOrder /\ Count \in Nat \ {0} /\ Cases \in Nat \ {0}
  BY EligibilityAssumption DEF Variants, KindOrder

LEMMA NothingIsNone == /\ None \notin Results /\ None \notin Frames /\ None \notin Metas
                       /\ None \notin Reviews /\ None \notin Entries /\ None \notin Chosen
  BY EligibilityNone, PromotionAssumption

LEMMA NextVariant ==
    ASSUME NEW v \in Variants, v < Count
    PROVE  v + 1 \in Variants /\ \A w \in Variants : w < v + 1 => w < v \/ w = v
  BY FirstVariant DEF Variants

LEMMA LastVariant ==
    ASSUME NEW v \in Variants, ~(v < Count)
    PROVE  \A w \in Variants : w < v \/ w = v
  BY FirstVariant DEF Variants

LEMMA InitTyped == Init => TInv
<1> SUFFICES ASSUME Init PROVE TInv
  OBVIOUS
<1>1. TypeOK
  BY FirstVariant, PromotionAssumption DEF Init, TypeOK, Steps, Nowhere, MaxRuns, MaxFaults
<1>2. Stages
  BY DEF Init, Stages, Sweeping
<1> QED
  BY <1>1, <1>2 DEF TInv

LEMMA FaultyType == ASSUME TypeOK, NEW bad \in BOOLEAN, Faulty(bad) PROVE faults' \in 0..MaxFaults
  BY DEF TypeOK, Faulty, MaxFaults

LEMMA EntryType ==
    ASSUME TypeOK, option \in Option, at \in Variants,
           NEW ready \in BOOLEAN, NEW lfb \in Nat, NEW cached \in BOOLEAN
    PROVE  Entry(ready, lfb, cached) \in Entries /\ Required(at) \in Nat
  BY EligibilityAssumption DEF Entry, Entries, Required, Option

LEMMA StartStep == ASSUME TInv, StartSuite \/ Continue PROVE TInv'
<1>1. /\ run' = run + 1 /\ run' \in 0..MaxRuns /\ run' > 0 /\ option' \in Option
      /\ UNCHANGED <<faults, next, entry, disk, manifest, export, routes>>
      /\ at' = 1 /\ exit' = None /\ entries' \in {entries, Nowhere}
      /\ \/ pc' = "launch"
         \/ pc' = "review" /\ manifest # None
  BY PromotionAssumption DEF TInv, TypeOK, Stages, StartSuite, Continue, MaxRuns, sweep
<1>2. entries' \in [Variants -> {None} \cup Entries]
  BY <1>1 DEF TInv, TypeOK, Nowhere
<1>3. TypeOK'
  BY <1>1, <1>2, FirstVariant DEF TInv, TypeOK, Steps, disk, export
<1>4. \A v \in Variants : ~(v < 1)
  BY FirstVariant DEF Variants
<1>5. Stages'
  BY <1>1, <1>4, FirstVariant DEF Stages, Sweeping
<1> QED
  BY <1>3, <1>5 DEF TInv

LEMMA LaunchStep == ASSUME TInv, LaneBlocked \/ LaneStarts PROVE TInv'
<1>1. /\ pc = "launch" /\ at \in Variants /\ option \in Option /\ run > 0 /\ exit = None
      /\ \A v \in Variants : v < at => entries[v] # None
  BY DEF TInv, Stages, Sweeping, LaneBlocked, LaneStarts
<1>2. CASE LaneBlocked
  <2>1. PICK lfb \in Samples : entry' = Entry(FALSE, lfb, FALSE)
    BY <1>2 DEF LaneBlocked
  <2>2. entry' \in Entries /\ entry' # None
    BY <1>1, <2>1, EntryType, PromotionAssumption, NothingIsNone DEF TInv
  <2>3. faults' \in 0..MaxFaults
    BY <1>2, FaultyType DEF LaneBlocked, TInv
  <2>4. pc' = "store"
        /\ UNCHANGED <<run, option, at, next, entries, disk, manifest, export, exit, routes>>
    BY <1>2 DEF LaneBlocked
  <2>5. TypeOK'
    BY <2>2, <2>3, <2>4 DEF TInv, TypeOK, Steps, disk, export
  <2>6. Stages'
    BY <1>1, <2>2, <2>4 DEF Stages, Sweeping
  <2> QED
    BY <2>5, <2>6 DEF TInv
<1>3. CASE LaneStarts
  <2>1. PICK lfb \in {l \in Samples : l >= Required(at)}, cached \in BOOLEAN :
          entry' = Entry(TRUE, lfb, cached) /\ Faulty(~cached)
    BY <1>3 DEF LaneStarts
  <2>2. entry' \in Entries /\ entry' # None
    BY <1>1, <2>1, EntryType, PromotionAssumption, NothingIsNone DEF TInv
  <2>3. faults' \in 0..MaxFaults
    BY <2>1, FaultyType DEF TInv
  <2>4. /\ pc' = "bench" /\ next' = <<1, 1>>
        /\ UNCHANGED <<run, option, at, entries, streams, metas, reviews, manifest, export, exit,
                       routes>>
        /\ files' = [files EXCEPT ![at] = IF @ = None
                                          THEN [records |-> 0, done |-> {}, flaws |-> {}] ELSE @]
    BY <1>3 DEF LaneStarts
  <2>5. files' \in [Variants -> {None} \cup Results] /\ files'[at] # None
    BY <1>1, <2>4, NothingIsNone DEF TInv, TypeOK, Results
  <2>6. TypeOK'
    BY <2>2, <2>3, <2>4, <2>5 DEF TInv, TypeOK, Steps, export
  <2>7. Stages'
    BY <1>1, <2>2, <2>4, <2>5, FirstVariant DEF Stages, Sweeping
  <2> QED
    BY <2>6, <2>7 DEF TInv
<1> QED
  BY <1>2, <1>3

LEMMA FollowingType ==
    ASSUME NEW p \in Nat \X Nat, p[1] > 0, p[2] \in 1..Cases
    PROVE  /\ Following(p) \in Nat \X Nat
           /\ Following(p)[1] > 0 /\ Following(p)[2] \in 1..Cases
  BY FirstVariant DEF Following

LEMMA OpenStreamFacts ==
    ASSUME TypeOK, at \in Variants, OpenStream
    PROVE  /\ next' = <<1, 1>> /\ pc' \in {"stream", "store"}
           /\ streams' \in [Variants -> {None} \cup Frames]
           /\ pc' = "stream" => streams'[at] # None
<1>1. CASE at \in Images
  <2> DEFINE f == IF streams[at] = None THEN [records |-> 0, flaws |-> {}] ELSE streams[at]
  <2>1. streams' = [streams EXCEPT ![at] = f] /\ pc' = "stream" /\ next' = <<1, 1>>
    BY <1>1 DEF OpenStream
  <2>2. f \in Frames
    BY DEF TypeOK, Frames
  <2> HIDE DEF f
  <2> QED
    BY <2>1, <2>2, NothingIsNone DEF TypeOK
<1>2. CASE at \notin Images
  BY <1>2 DEF OpenStream, TypeOK
<1> QED
  BY <1>1, <1>2

LEMMA BenchStep == ASSUME TInv, BenchRecord \/ BenchEnds \/ BenchFails PROVE TInv'
<1>1. /\ pc = "bench" /\ at \in Variants /\ option \in Option /\ run > 0 /\ exit = None
      /\ \A v \in Variants : v < at => entries[v] # None
      /\ entry # None /\ entry \in Entries /\ files[at] # None /\ files[at] \in Results
      /\ next \in Nat \X Nat /\ next[1] > 0 /\ next[2] \in 1..Cases
  BY DEF TInv, TypeOK, Stages, Sweeping, BenchRecord, BenchEnds, BenchFails
<1>2. CASE BenchRecord
  <2>1. PICK bad \in {{}} \cup {{f} : f \in Flaws} :
          /\ Faulty(bad # {})
          /\ files' = [files EXCEPT ![at] =
                         [records |-> @.records + 1,
                          done    |-> IF bad = {"failed"} THEN @.done ELSE @.done \cup {next},
                          flaws   |-> @.flaws \cup bad]]
    BY <1>2 DEF BenchRecord
  <2>2. faults' \in 0..MaxFaults
    BY <2>1, FaultyType DEF TInv
  <2>3. next' = Following(next)
        /\ UNCHANGED <<run, option, pc, at, entry, entries, streams, metas, reviews, manifest,
                       export, exit, routes>>
    BY <1>2 DEF BenchRecord
  <2>4. files' \in [Variants -> {None} \cup Results] /\ files'[at] # None
    <3> DEFINE f == [records |-> files[at].records + 1,
                     done    |-> IF bad = {"failed"} THEN files[at].done
                                 ELSE files[at].done \cup {next},
                     flaws   |-> files[at].flaws \cup bad]
    <3>1. f \in Results
      <4>1. bad \subseteq Flaws
        OBVIOUS
      <4> QED
        BY <1>1, <4>1 DEF Results
    <3>2. files' = [files EXCEPT ![at] = f]
      BY <2>1
    <3> HIDE DEF f
    <3> QED
      BY <1>1, <3>1, <3>2, NothingIsNone DEF TInv, TypeOK
  <2>5. next' \in Nat \X Nat /\ next'[1] > 0 /\ next'[2] \in 1..Cases
    BY <1>1, <2>3, FollowingType
  <2>6. TypeOK'
    BY <2>2, <2>3, <2>4, <2>5 DEF TInv, TypeOK, Steps, export
  <2>7. Stages'
    BY <1>1, <2>3, <2>4, <2>5 DEF Stages, Sweeping
  <2> QED
    BY <2>6, <2>7 DEF TInv
<1>3. CASE BenchEnds \/ BenchFails
  <2>1. OpenStream /\ UNCHANGED <<run, option, at, entries, files, reviews, manifest, export,
                                  exit, routes>>
    BY <1>3 DEF BenchEnds, BenchFails
  <2>2. entry' \in Entries /\ entry' # None
    <3>1. [entry EXCEPT !.benchmark = TRUE] \in Entries
      BY <1>1 DEF Entries
    <3>2. entry' = entry \/ entry' = [entry EXCEPT !.benchmark = TRUE]
      BY <1>3 DEF BenchEnds, BenchFails
    <3> QED
      BY <1>1, <3>1, <3>2, NothingIsNone
  <2>3. metas' \in [Variants -> {None} \cup Metas]
    <3> DEFINE m == [trials |-> option.trials, greedy |-> option.greedy]
    <3>1. m \in Metas
      BY <1>1 DEF Metas, Option
    <3>2. metas' = metas \/ metas' = [metas EXCEPT ![at] = m]
      BY <1>3 DEF BenchEnds, BenchFails
    <3> HIDE DEF m
    <3> QED
      BY <1>1, <3>1, <3>2 DEF TInv, TypeOK
  <2>4. faults' \in 0..MaxFaults
    BY <1>3, FaultyType DEF BenchEnds, BenchFails, TInv, TypeOK
  <2>5. /\ next' = <<1, 1>> /\ pc' \in {"stream", "store"}
        /\ streams' \in [Variants -> {None} \cup Frames]
        /\ pc' = "stream" => streams'[at] # None
    BY <1>1, <2>1, OpenStreamFacts DEF TInv
  <2>6. TypeOK'
    BY <2>1, <2>2, <2>3, <2>4, <2>5 DEF TInv, TypeOK, Steps, export
  <2>7. Stages'
    BY <1>1, <2>1, <2>2, <2>5 DEF Stages, Sweeping
  <2> QED
    BY <2>6, <2>7 DEF TInv
<1> QED
  BY <1>2, <1>3

LEMMA StreamStep == ASSUME TInv, StreamFrame \/ StreamEnds \/ StreamFails PROVE TInv'
<1>1. /\ pc = "stream" /\ at \in Variants /\ option \in Option /\ run > 0 /\ exit = None
      /\ \A v \in Variants : v < at => entries[v] # None
      /\ entry # None /\ streams[at] \in Frames /\ streams[at] # None /\ next \in Nat \X Nat
  BY DEF TInv, TypeOK, Stages, Sweeping, StreamFrame, StreamEnds, StreamFails
<1>2. /\ UNCHANGED <<run, option, at, entry, entries, files, metas, reviews, manifest,
                     export, exit, routes>>
      /\ pc' \in {"stream", "store"}
      /\ next' \in {next, <<next[1] + 1, 1>>} /\ next' \in Nat \X Nat
  <2>1. <<next[1] + 1, 1>> \in Nat \X Nat
    BY <1>1
  <2>2. CASE StreamFrame
    BY <1>1, <2>1, <2>2 DEF StreamFrame
  <2>3. CASE StreamEnds \/ StreamFails
    BY <1>1, <2>3 DEF StreamEnds, StreamFails, sweep, disk
  <2> QED
    BY <2>2, <2>3
<1>3. faults' \in 0..MaxFaults
  <2>1. CASE StreamFrame
    BY <2>1, FaultyType DEF StreamFrame, TInv
  <2>2. CASE StreamEnds \/ StreamFails
    BY <2>2, FaultyType DEF StreamEnds, StreamFails, TInv, TypeOK
  <2> QED
    BY <2>1, <2>2
<1>4. streams' \in [Variants -> {None} \cup Frames] /\ streams'[at] # None
  <2>1. CASE StreamFrame
    <3>1. PICK bad \in {{}, {"failed"}, {"flagged"}} :
            streams' = [streams EXCEPT ![at] = [records |-> @.records + 1, flaws |-> @.flaws \cup bad]]
      BY <2>1 DEF StreamFrame
    <3> DEFINE f == [records |-> streams[at].records + 1, flaws |-> streams[at].flaws \cup bad]
    <3>2. f \in Frames
      BY <1>1 DEF Frames, Flaws
    <3>3. streams' = [streams EXCEPT ![at] = f]
      BY <3>1
    <3> HIDE DEF f
    <3> QED
      BY <1>1, <3>2, <3>3, NothingIsNone DEF TInv, TypeOK
  <2>2. CASE StreamEnds \/ StreamFails
    BY <1>1, <2>2 DEF StreamEnds, StreamFails, disk, TInv, TypeOK
  <2> QED
    BY <2>1, <2>2
<1>5. TypeOK'
  BY <1>2, <1>3, <1>4 DEF TInv, TypeOK, Steps, export
<1>6. Stages'
  BY <1>1, <1>2, <1>4 DEF Stages, Sweeping
<1> QED
  BY <1>5, <1>6 DEF TInv

LEMMA ManifestStep == ASSUME TInv, LaneEnds \/ SweepEnds PROVE TInv'
<1>1. UNCHANGED <<run, faults, option, next, entry, disk, export, routes>>
  BY DEF LaneEnds, SweepEnds, sweep
<1>2. CASE LaneEnds
  <2> DEFINE e == [entry EXCEPT !.cached = @ /\ metas[at] # None]
  <2>1. /\ pc = "store" /\ at \in Variants /\ run > 0 /\ exit = None /\ option \in Option
        /\ \A v \in Variants : v < at => entries[v] # None
        /\ entry # None /\ entry \in Entries
    BY <1>2 DEF LaneEnds, TInv, TypeOK, Stages, Sweeping
  <2>2. e \in Entries
    BY <2>1 DEF Entries
  <2>3. entries' = [entries EXCEPT ![at] = e] /\ manifest' = manifest /\ exit' = exit
        /\ \/ at < Count /\ at' = at + 1 /\ pc' = "launch"
           \/ ~(at < Count) /\ at' = at /\ pc' = "manifest"
    BY <1>2 DEF LaneEnds
  <2> HIDE DEF e
  <2>4. /\ entries' \in [Variants -> {None} \cup Entries] /\ entries'[at] # None
        /\ \A v \in Variants : v < at => entries'[v] # None
    BY <2>1, <2>2, <2>3, NothingIsNone DEF TInv, TypeOK
  <2>5. TypeOK'
    BY <1>1, <2>1, <2>3, <2>4, NextVariant DEF TInv, TypeOK, Steps, disk, export
  <2>6. Stages'
    BY <1>1, <2>1, <2>3, <2>4, NextVariant, LastVariant DEF Stages, Sweeping
  <2> QED
    BY <2>5, <2>6 DEF TInv
<1>3. CASE SweepEnds
  <2>1. /\ pc = "manifest" /\ run > 0 /\ exit = None /\ option \in Option
        /\ \A v \in Variants : entries[v] # None
    BY <1>3 DEF SweepEnds, TInv, Stages
  <2>2. entries \in [Variants -> Entries] /\ manifest' = entries /\ entries' = entries
    BY <1>3, <2>1 DEF SweepEnds, TInv, TypeOK, sweep
  <2>3. \/ pc' = "review" /\ at' = 1 /\ exit' = exit
        \/ pc' = "idle" /\ exit' = FALSE /\ at' = at
    BY <1>3 DEF SweepEnds, Abort
  <2>4. TypeOK'
    BY <1>1, <2>1, <2>2, <2>3, FirstVariant DEF TInv, TypeOK, Steps, disk, export
  <2>5. Stages'
    BY <1>1, <2>1, <2>2, <2>3, FirstVariant, PromotionAssumption DEF Stages, Sweeping
  <2> QED
    BY <2>4, <2>5 DEF TInv
<1> QED
  BY <1>2, <1>3

LEMMA ReviewType == ASSUME NEW f \in Results PROVE Review(f) \in Reviews
  BY DEF Review, Results, Reviews

LEMMA ReviewStep == ASSUME TInv, ReviewVariant \/ ReviewFails \/ Rewrite PROVE TInv'
<1>1. UNCHANGED <<run, faults, option, sweep, files, streams, metas, manifest, export, routes>>
  BY DEF ReviewVariant, ReviewFails, Rewrite, disk
<1>2. CASE ReviewVariant
  <2>1. /\ pc = "review" /\ at \in Variants /\ manifest # None /\ manifest # Torn
        /\ run > 0 /\ option \in Option /\ exit = None /\ exit' = exit
        /\ manifest \in [Variants -> Entries]
    BY <1>2 DEF ReviewVariant, TInv, TypeOK, Stages
  <2>2. reviews' \in [Variants -> {None} \cup Reviews]
    <3>1. CASE files[at] = None
      BY <1>2, <3>1 DEF ReviewVariant, TInv, TypeOK
    <3>2. CASE files[at] # None
      <4>1. Review(files[at]) \in Reviews
        BY <2>1, <3>2, ReviewType DEF TInv, TypeOK
      <4>2. reviews' = [reviews EXCEPT ![at] = Review(files[at])]
        BY <1>2, <3>2 DEF ReviewVariant
      <4> QED
        BY <2>1, <4>1, <4>2 DEF TInv, TypeOK
    <3> QED
      BY <3>1, <3>2
  <2>3. at' \in Variants /\ pc' \in {"review", "rewrite"}
    BY <1>2, <2>1, NextVariant DEF ReviewVariant
  <2>4. TypeOK'
    BY <1>1, <2>1, <2>2, <2>3 DEF TInv, TypeOK, Steps, sweep, export
  <2>5. Stages'
    BY <1>1, <2>1, <2>3 DEF Stages, Sweeping
  <2> QED
    BY <2>4, <2>5 DEF TInv
<1>3. CASE ReviewFails
  <2>1. pc' = "idle" /\ exit' = FALSE /\ UNCHANGED <<at, reviews>>
    BY <1>3 DEF ReviewFails, Abort, disk
  <2> QED
    BY <1>1, <2>1 DEF TInv, TypeOK, Stages, Steps, Sweeping, sweep, export
<1>4. CASE Rewrite
  <2>1. pc = "rewrite" /\ pc' = "compare" /\ UNCHANGED <<at, reviews, exit>>
    BY <1>4 DEF Rewrite, disk
  <2> QED
    BY <1>1, <2>1 DEF TInv, TypeOK, Stages, Steps, Sweeping, sweep, export
<1> QED
  BY <1>2, <1>3, <1>4

LEMMA RowType ==
    ASSUME TypeOK, manifest \in [Variants -> Entries], NEW v \in Variants
    PROVE  Row(v) \in Rows
  BY DEF Row, Rows, TypeOK

LEMMA CompareStep == ASSUME TInv, Compare PROVE TInv'
<1>1. /\ pc = "compare" /\ pc' = "select" /\ at' = 1
      /\ UNCHANGED <<run, option, sweep, disk, manifest, chosen, exit, routes>>
      /\ manifest \in [Variants -> Entries]
      /\ run > 0 /\ option \in Option /\ exit = None /\ run \in Nat
  BY DEF Compare, TInv, TypeOK, Stages, MaxRuns
<1>2. PICK lost \in BOOLEAN :
        /\ Faulty(lost)
        /\ IF ~lost /\ \A v \in Variants : Readable(files[v])
           THEN /\ rows' = [run |-> run, row |-> [v \in Variants |-> Row(v)]]
                /\ compared' = (option.strict => \A v \in Variants : PromotionPassed(v, Row(v)))
           ELSE rows' = rows /\ compared' = FALSE
  BY DEF Compare
<1>3. faults' \in 0..MaxFaults
  BY <1>2, FaultyType DEF TInv
<1>4. rows' \in {None} \cup Comparisons
  BY <1>1, <1>2, RowType DEF TInv, TypeOK, Comparisons
<1>5. compared' \in BOOLEAN
  <2> DEFINE passed == \A v \in Variants : PromotionPassed(v, Row(v))
  <2>1. option.strict \in BOOLEAN /\ passed \in BOOLEAN
    BY <1>1 DEF Option
  <2>2. compared' = (option.strict => passed) \/ compared' = FALSE
    BY <1>2
  <2> HIDE DEF passed
  <2>3. (option.strict => passed) \in BOOLEAN
    BY <2>1
  <2> QED
    BY <2>2, <2>3
<1>6. TypeOK'
  BY <1>1, <1>3, <1>4, <1>5, FirstVariant DEF TInv, TypeOK, Steps, sweep, disk
<1>7. Stages'
  BY <1>1, FirstVariant DEF Stages, Sweeping
<1> QED
  BY <1>6, <1>7 DEF TInv

LEMMA KindsListed ==
    /\ DOMAIN KindOrder = 1..4 /\ Len(KindOrder) = 4
    /\ \A i \in 1..4 : KindOrder[i] \in Kinds
    /\ \A k \in Kinds : \E i \in 1..4 : KindOrder[i] = k
<1>1. KindOrder[1] = <<"ranking", "any">> /\ KindOrder[2] = <<"promotion", "any">>
      /\ KindOrder[3] = <<"ranking", "scoped">> /\ KindOrder[4] = <<"promotion", "scoped">>
      /\ DOMAIN KindOrder = 1..4 /\ Len(KindOrder) = 4
  BY DEF KindOrder
<1>2. \A i \in 1..4 : i = 1 \/ i = 2 \/ i = 3 \/ i = 4
  OBVIOUS
<1>3. \A k \in Kinds : k \in {<<"ranking", "any">>, <<"promotion", "any">>,
                              <<"ranking", "scoped">>, <<"promotion", "scoped">>}
  BY DEF Kinds, Gates
<1>4. {<<"ranking", "any">>, <<"promotion", "any">>, <<"ranking", "scoped">>, <<"promotion", "scoped">>}
        \subseteq Kinds
  BY DEF Kinds, Gates
<1> QED
  BY <1>1, <1>2, <1>3, <1>4

(* What the selection of one kind does.                                     *)
LEMMA SelectFacts ==
    ASSUME TInv, Select
    PROVE  /\ pc = "select" /\ at \in 1..4 /\ KindOrder[at] \in Kinds
           /\ UNCHANGED <<run, faults, option, sweep, disk, manifest, rows, compared, routes>>
           /\ \/ rows = None /\ pc' = "idle" /\ exit' = FALSE /\ UNCHANGED <<at, chosen>>
              \/ /\ rows \in Comparisons
                 /\ chosen' = [chosen EXCEPT ![KindOrder[at]] =
                                 [run |-> rows.run,
                                  variants |-> Selection(rows.row, KindOrder[at])]]
                 /\ \/ at < 4 /\ at' = at + 1 /\ pc' = pc /\ exit' = exit
                    \/ at = 4 /\ at' = at /\ pc' = "idle" /\ exit' = compared
<1>1. pc = "select" /\ at \in 1..4
  BY KindsListed DEF Select, TInv, Stages
<1>2. rows = None \/ rows \in Comparisons
  BY DEF TInv, TypeOK
<1> QED
  BY <1>1, <1>2, KindsListed DEF Select, Abort

LEMMA SelectStep == ASSUME TInv, Select PROVE TInv'
<1>1. run > 0 /\ option \in Option /\ exit = None
  BY SelectFacts DEF TInv, Stages
<1>2. chosen' \in [Kinds -> {None} \cup Chosen]
  <2>1. CASE rows = None /\ chosen' = chosen
    BY <2>1 DEF TInv, TypeOK
  <2>2. CASE rows \in Comparisons
             /\ chosen' = [chosen EXCEPT ![KindOrder[at]] =
                             [run |-> rows.run, variants |-> Selection(rows.row, KindOrder[at])]]
    <3> DEFINE c == [run |-> rows.run, variants |-> Selection(rows.row, KindOrder[at])]
    <3>1. c \in Chosen
      BY <2>2 DEF Chosen, Selection, Comparisons
    <3> HIDE DEF c
    <3> QED
      BY <2>2, <3>1 DEF TInv, TypeOK, c
  <2> QED
    BY <2>1, <2>2, SelectFacts
<1>3. at' \in 1..4 /\ pc' \in {"select", "idle"} /\ (pc' = "select" => exit' = None)
  <2>1. pc = "select" /\ at \in 1..4
    BY SelectFacts
  <2>2. CASE pc' = "idle" /\ at' = at
    BY <2>1, <2>2
  <2>3. CASE at < 4 /\ at' = at + 1 /\ pc' = pc /\ exit' = exit
    BY <1>1, <2>1, <2>3
  <2> QED
    BY <2>2, <2>3, SelectFacts
<1>4. exit' \in BOOLEAN \cup {None}
  <2>1. exit' = FALSE \/ exit' = exit \/ exit' = compared
    BY SelectFacts
  <2>2. exit \in BOOLEAN \cup {None} /\ compared \in BOOLEAN
    BY DEF TInv, TypeOK
  <2> QED
    BY <2>1, <2>2, Zenon
<1>5. TypeOK'
  BY <1>2, <1>3, <1>4, SelectFacts, KindsListed DEF TInv, TypeOK, Steps, sweep, disk
<1>6. Stages'
  BY <1>1, <1>3, SelectFacts, KindsListed DEF Stages, Sweeping
<1> QED
  BY <1>5, <1>6 DEF TInv

LEMMA KilledStep == ASSUME TInv, Killed \/ BuildRoutes PROVE TInv'
<1>1. CASE Killed
  <2>1. pc' = "idle" /\ exit' = FALSE /\ manifest' \in {manifest, Torn} /\ faults' \in 0..MaxFaults
        /\ UNCHANGED <<run, option, at, sweep, disk, export, routes>>
    BY <1>1, FaultyType DEF Killed, Abort, TInv
  <2> QED
    BY <2>1 DEF TInv, TypeOK, Stages, Steps, Sweeping, sweep, disk, export
<1>2. CASE BuildRoutes
  <2>1. UNCHANGED <<run, faults, option, pc, at, sweep, disk, manifest, export, exit>>
    BY <1>2 DEF BuildRoutes
  <2> QED
    BY <2>1 DEF TInv, TypeOK, Stages, Sweeping, sweep, disk, export
<1> QED
  BY <1>1, <1>2

LEMMA TypeStep == TInv /\ [Next]_vars => TInv'
<1> SUFFICES ASSUME TInv, [Next]_vars PROVE TInv'
  OBVIOUS
<1>1. CASE UNCHANGED vars
  BY <1>1 DEF vars, TInv, TypeOK, Stages, Sweeping, sweep, disk, export
<1> QED
  BY <1>1, StartStep, LaunchStep, BenchStep, StreamStep, ManifestStep, ReviewStep, CompareStep,
     SelectStep, KilledStep DEF Next

-----------------------------------------------------------------------------
(* What a step leaves alone. *)

LEMMA RowFields ==
    ASSUME NEW v \in Variants
    PROVE  /\ Row(v).entry = manifest[v] /\ Row(v).file = files[v] /\ Row(v).frames = streams[v]
           /\ Row(v).meta = metas[v] /\ Row(v).review = reviews[v]
  BY DEF Row

(* Only the comparison writes the rows, and writes what is on disk.         *)
LEMMA RowsWritten ==
    ASSUME TInv, [Next]_vars
    PROVE  \/ rows' = rows
           \/ /\ pc = "compare" /\ pc' = "select"
              /\ rows' = [run |-> run, row |-> [v \in Variants |-> Row(v)]]
              /\ rows'.run = run
              /\ \A v \in Variants : rows'.row[v] = Row(v)
              /\ UNCHANGED <<run, sweep, disk, manifest, chosen, routes>>
<1>1. CASE Compare
  BY <1>1 DEF Compare
<1>2. CASE Next /\ ~Compare
  BY <1>2 DEF Next, StartSuite, Continue, LaneBlocked, LaneStarts, BenchRecord, BenchEnds,
         BenchFails, StreamFrame, StreamEnds, StreamFails, LaneEnds, SweepEnds, ReviewVariant,
         ReviewFails, Rewrite, Select, Killed, BuildRoutes, export
<1> QED
  BY <1>1, <1>2 DEF vars, export

(* Records are never taken back.                                            *)
LEMMA FilesGrow ==
    ASSUME TInv, [Next]_vars, NEW v \in Variants, files[v] # None
    PROVE  files'[v] # None /\ files[v].done \subseteq files'[v].done
<1>1. CASE LaneStarts
  BY <1>1 DEF LaneStarts, TInv, TypeOK
<1>2. CASE BenchRecord
  <2>1. PICK bad \in {{}} \cup {{f} : f \in Flaws} :
          files' = [files EXCEPT ![at] =
                      [records |-> @.records + 1,
                       done    |-> IF bad = {"failed"} THEN @.done ELSE @.done \cup {next},
                       flaws   |-> @.flaws \cup bad]]
    BY <1>2 DEF BenchRecord
  <2>2. files' \in [Variants -> {None} \cup Results] /\ files'[at] # None
    <3>1. pc' = "bench" /\ at' = at
      BY <1>2 DEF BenchRecord
    <3> QED
      BY <1>2, <3>1, BenchStep DEF TInv, TypeOK, Stages
  <2> QED
    BY <2>1, <2>2 DEF TInv, TypeOK
<1>3. CASE Next /\ ~LaneStarts /\ ~BenchRecord
  <2>1. files' = files
    BY <1>3 DEF Next, StartSuite, Continue, LaneBlocked, BenchEnds,
           BenchFails, StreamFrame, StreamEnds, StreamFails, LaneEnds, SweepEnds, ReviewVariant,
           ReviewFails, Rewrite, Compare, Select, Killed, BuildRoutes, disk
  <2> QED
    BY <2>1
<1> QED
  BY <1>1, <1>2, <1>3 DEF vars, disk

-----------------------------------------------------------------------------
(* The cases that were answered. *)

Answered(f, n) == (1..n) \X (1..Cases) \subseteq f.done
Reached(p, done) == \A t \in Nat \ {0}, c \in 1..Cases :
                       t < p[1] \/ (t = p[1] /\ c < p[2]) => <<t, c>> \in done
Documented(m, f) == m # None => f # None /\ ("failed" \notin f.flaws => Answered(f, m.trials))

(* A benchmark manifest speaks of records that are there; while a benchmark *)
(* runs, so far; and what the rows say was so when they were written.       *)
Answers ==
    /\ \A v \in Variants : Documented(metas[v], files[v])
    /\ pc = "bench" /\ "failed" \notin files[at].flaws => Reached(next, files[at].done)
    /\ rows # None => \A v \in Variants :
         /\ Documented(rows.row[v].meta, rows.row[v].file)
         /\ rows.row[v].file # None => /\ files[v] # None
                                       /\ rows.row[v].file.done \subseteq files[v].done

LEMMA ReachedFollowing ==
    ASSUME NEW p \in Nat \X Nat, p[1] > 0, p[2] \in 1..Cases, NEW done, Reached(p, done)
    PROVE  Reached(Following(p), done \cup {p})
<1> SUFFICES ASSUME NEW t \in Nat \ {0}, NEW c \in 1..Cases,
                    \/ t < Following(p)[1]
                    \/ t = Following(p)[1] /\ c < Following(p)[2]
             PROVE  <<t, c>> \in done \cup {p}
  BY DEF Reached
<1>1. t < p[1] \/ (t = p[1] /\ c < p[2]) \/ (t = p[1] /\ c = p[2])
  BY FirstVariant DEF Following
<1>2. p = <<p[1], p[2]>>
  OBVIOUS
<1> QED
  BY <1>1, <1>2 DEF Reached

LEMMA ReachedEnd ==
    ASSUME NEW p \in Nat \X Nat, NEW n \in Nat, p[1] > n, NEW f, Reached(p, f.done)
    PROVE  Answered(f, n)
<1> SUFFICES ASSUME NEW q \in (1..n) \X (1..Cases) PROVE q \in f.done
  BY DEF Answered
<1>1. q = <<q[1], q[2]>> /\ q[1] \in Nat \ {0} /\ q[2] \in 1..Cases /\ q[1] < p[1]
  OBVIOUS
<1> QED
  BY <1>1 DEF Reached

LEMMA AnswersInit == Init => Answers
  BY DEF Init, Answers, Documented, Nowhere

(* A record of the benchmark.                                               *)
LEMMA AnswersRecord ==
    ASSUME TInv, Answers, BenchRecord
    PROVE  /\ \A v \in Variants : Documented(metas'[v], files'[v])
           /\ "failed" \notin files'[at].flaws => Reached(next', files'[at].done)
<1>1. PICK bad \in {{}} \cup {{f} : f \in Flaws} :
        files' = [files EXCEPT ![at] =
                    [records |-> @.records + 1,
                     done    |-> IF bad = {"failed"} THEN @.done ELSE @.done \cup {next},
                     flaws   |-> @.flaws \cup bad]]
  BY DEF BenchRecord
<1> DEFINE f == [records |-> files[at].records + 1,
                 done    |-> IF bad = {"failed"} THEN files[at].done ELSE files[at].done \cup {next},
                 flaws   |-> files[at].flaws \cup bad]
<1>2. /\ pc = "bench" /\ at \in Variants /\ files[at] # None
      /\ next \in Nat \X Nat /\ next[1] > 0 /\ next[2] \in 1..Cases
      /\ next' = Following(next) /\ metas' = metas
  BY DEF BenchRecord, TInv, TypeOK, Stages, Sweeping
<1>3. files'[at] = f /\ \A v \in Variants \ {at} : files'[v] = files[v]
  BY <1>1, <1>2 DEF TInv, TypeOK
<1>4. f.flaws = files[at].flaws \cup bad /\ files[at].done \subseteq f.done
      /\ ("failed" \notin f.flaws => f.done = files[at].done \cup {next})
  OBVIOUS
<1>5. f # None
  <2>1. pc' = "bench" /\ at' = at
    BY DEF BenchRecord
  <2>2. files'[at] # None
    BY <2>1, BenchStep DEF TInv, Stages
  <2> QED
    BY <1>3, <2>2
<1> HIDE DEF f
<1>6. "failed" \notin f.flaws => Reached(next', f.done)
  BY <1>2, <1>4, ReachedFollowing DEF Answers
<1>7. Documented(metas[at], f)
  BY <1>2, <1>4, <1>5 DEF Answers, Documented, Answered
<1> QED
  BY <1>2, <1>3, <1>6, <1>7 DEF Answers

LEMMA AnswersOnDisk ==
    ASSUME TInv, Answers, [Next]_vars
    PROVE  /\ \A v \in Variants : Documented(metas'[v], files'[v])
           /\ pc' = "bench" /\ "failed" \notin files'[at'].flaws
                => Reached(next', files'[at'].done)
<1>1. CASE LaneStarts
  <2>1. /\ at \in Variants /\ at' = at /\ next' = <<1, 1>> /\ metas' = metas
        /\ files' = [files EXCEPT ![at] = IF @ = None
                                          THEN [records |-> 0, done |-> {}, flaws |-> {}] ELSE @]
    BY <1>1 DEF LaneStarts, TInv, Stages, Sweeping
  <2>2. \A v \in Variants : files'[v] # files[v] => files[v] = None
    BY <2>1 DEF TInv, TypeOK
  <2>3. \A v \in Variants : Documented(metas'[v], files'[v])
    BY <2>1, <2>2 DEF Answers, Documented
  <2>4. \A done : Reached(<<1, 1>>, done)
    BY DEF Reached
  <2> QED
    BY <2>1, <2>3, <2>4
<1>2. CASE BenchRecord
  <2>1. at' = at
    BY <1>2 DEF BenchRecord
  <2> QED
    BY <1>2, <2>1, AnswersRecord
<1>3. CASE BenchEnds
  <2>1. /\ pc = "bench" /\ at \in Variants /\ option \in Option /\ next[1] > option.trials
        /\ files[at] # None /\ files' = files /\ next \in Nat \X Nat
        /\ metas' = [metas EXCEPT ![at] = [trials |-> option.trials, greedy |-> option.greedy]]
    BY <1>3 DEF BenchEnds, TInv, TypeOK, Stages, Sweeping
  <2>2. pc' # "bench"
    BY <1>3, <2>1, OpenStreamFacts DEF BenchEnds, TInv
  <2>3. option.trials \in Nat
    BY <2>1 DEF Option
  <2>4. "failed" \notin files[at].flaws => Answered(files[at], option.trials)
    BY <2>1, <2>3, ReachedEnd DEF Answers
  <2>5. \A v \in Variants : metas'[v] = IF v = at THEN [trials |-> option.trials,
                                                        greedy |-> option.greedy] ELSE metas[v]
    BY <2>1 DEF TInv, TypeOK
  <2> QED
    BY <2>1, <2>2, <2>4, <2>5 DEF Answers, Documented
<1>4. CASE BenchFails
  <2>1. pc' # "bench" /\ files' = files /\ metas' = metas
    BY <1>4, OpenStreamFacts DEF BenchFails, TInv, Stages, Sweeping
  <2> QED
    BY <2>1 DEF Answers
<1>5. CASE StartSuite \/ Continue \/ LaneBlocked \/ StreamFrame \/ StreamEnds \/ StreamFails
           \/ LaneEnds \/ SweepEnds \/ ReviewVariant \/ ReviewFails \/ Rewrite \/ Compare \/ Select
           \/ Killed
  <2>1. files' = files /\ metas' = metas /\ pc' # "bench"
    BY <1>5 DEF StartSuite, Continue, LaneBlocked, StreamFrame, StreamEnds, StreamFails, LaneEnds,
           SweepEnds, ReviewVariant, ReviewFails, Rewrite, Compare, Select, Killed, Abort, disk
  <2> QED
    BY <2>1 DEF Answers
<1>6. CASE BuildRoutes \/ UNCHANGED vars
  <2>1. UNCHANGED <<pc, at, files, metas, next>>
    BY <1>6 DEF BuildRoutes, vars, sweep, disk
  <2> QED
    BY <2>1 DEF Answers
<1> QED
  BY <1>1, <1>2, <1>3, <1>4, <1>5, <1>6 DEF Next

LEMMA AnswersStep == TInv /\ Answers /\ [Next]_vars => Answers'
<1> SUFFICES ASSUME TInv, Answers, [Next]_vars PROVE Answers'
  OBVIOUS
<1>1. CASE rows' = rows
  <2>1. ASSUME rows # None, NEW v \in Variants
        PROVE  /\ Documented(rows.row[v].meta, rows.row[v].file)
               /\ rows.row[v].file # None => /\ files'[v] # None
                                             /\ rows.row[v].file.done \subseteq files'[v].done
    <3>1. CASE rows.row[v].file = None
      BY <2>1, <3>1 DEF Answers
    <3>2. CASE rows.row[v].file # None
      <4>1. files[v] # None /\ rows.row[v].file.done \subseteq files[v].done
        BY <2>1, <3>2 DEF Answers
      <4>2. files'[v] # None /\ files[v].done \subseteq files'[v].done
        BY <4>1, FilesGrow
      <4> QED
        BY <2>1, <4>1, <4>2 DEF Answers
    <3> QED
      BY <3>1, <3>2
  <2> QED
    BY <1>1, <2>1, AnswersOnDisk DEF Answers
<1>2. CASE /\ \A v \in Variants : rows'.row[v] = Row(v)
           /\ UNCHANGED disk
  <2>1. \A v \in Variants : rows'.row[v].meta = metas[v] /\ rows'.row[v].file = files[v]
    BY <1>2, RowFields
  <2>2. files' = files
    BY <1>2 DEF disk
  <2> QED
    BY <2>1, <2>2, AnswersOnDisk DEF Answers
<1> QED
  BY <1>1, <1>2, RowsWritten

-----------------------------------------------------------------------------
(* The records that were reviewed, and the memory that was there.           *)

Judged(f, r) == f # None => r = Review(f)

(* From the review on, each results file has the review of its records.     *)
Judgements == /\ pc = "review" => \A v \in Variants : v < at => Judged(files[v], reviews[v])
              /\ pc \in {"rewrite", "compare"} => \A v \in Variants : Judged(files[v], reviews[v])
              /\ rows # None => \A v \in Variants : Judged(rows.row[v].file, rows.row[v].review)

LEMMA JudgementsInit == Init => Judgements
  BY DEF Init, Judgements

LEMMA JudgementsStep == TInv /\ Judgements /\ [Next]_vars => Judgements'
<1> SUFFICES ASSUME TInv, Judgements, [Next]_vars PROVE Judgements'
  OBVIOUS
<1> DEFINE OnDisk == /\ pc = "review" => \A v \in Variants : v < at => Judged(files[v], reviews[v])
                     /\ pc \in {"rewrite", "compare"} =>
                          \A v \in Variants : Judged(files[v], reviews[v])
<1>1. OnDisk'
  <2>1. CASE ReviewVariant
    <3>1. /\ pc = "review" /\ at \in Variants /\ files' = files
          /\ \/ at < Count /\ at' = at + 1 /\ pc' = pc
             \/ ~(at < Count) /\ at' = at /\ pc' = "rewrite"
      BY <2>1 DEF ReviewVariant, TInv, Stages
    <3>2. reviews' = IF files[at] = None THEN reviews
                     ELSE [reviews EXCEPT ![at] = Review(files[at])]
      BY <2>1 DEF ReviewVariant
    <3>3. Judged(files'[at], reviews'[at])
      BY <3>1, <3>2 DEF Judged, TInv, TypeOK
    <3>4. \A v \in Variants : v < at => Judged(files'[v], reviews'[v])
      BY <3>1, <3>2 DEF Judged, Judgements, TInv, TypeOK
    <3> QED
      BY <3>1, <3>3, <3>4, NextVariant, LastVariant
  <2>2. CASE Rewrite
    BY <2>2 DEF Rewrite, disk, Judgements
  <2>3. CASE StartSuite \/ Continue \/ SweepEnds
    <3>1. pc' \in {"launch", "review", "idle"} /\ (pc' = "review" => at' = 1)
      BY <2>3 DEF StartSuite, Continue, SweepEnds, Abort
    <3>2. \A v \in Variants : ~(v < 1)
      BY FirstVariant DEF Variants
    <3> QED
      BY <3>1, <3>2
  <2>4. CASE LaneBlocked \/ LaneStarts \/ BenchRecord \/ BenchEnds \/ BenchFails \/ StreamFrame
             \/ StreamEnds \/ StreamFails \/ LaneEnds \/ ReviewFails \/ Compare \/ Select \/ Killed
    <3>1. pc' \notin {"review", "rewrite", "compare"}
      BY <2>4 DEF LaneBlocked, LaneStarts, BenchRecord, BenchEnds, BenchFails, OpenStream,
             StreamFrame, StreamEnds, StreamFails, LaneEnds, ReviewFails, Compare, Select, Killed,
             Abort
    <3> QED
      BY <3>1
  <2>5. CASE BuildRoutes \/ UNCHANGED vars
    <3>1. UNCHANGED <<pc, at, files, reviews>>
      BY <2>5 DEF BuildRoutes, vars, disk
    <3> QED
      BY <3>1 DEF Judgements
  <2> QED
    BY <2>1, <2>2, <2>3, <2>4, <2>5 DEF Next
<1>2. rows' # None => \A v \in Variants : Judged(rows'.row[v].file, rows'.row[v].review)
  <2>1. CASE rows' = rows
    BY <2>1 DEF Judgements
  <2>2. CASE pc = "compare" /\ \A v \in Variants : rows'.row[v] = Row(v)
    BY <2>2, RowFields DEF Judgements
  <2> QED
    BY <2>1, <2>2, RowsWritten
<1> QED
  BY <1>1, <1>2 DEF Judgements

Sufficient(e) == e.ready => e.lfb >= e.required

(* A variant is launched on at least the blocks its entry asks for.         *)
Measured == /\ entry # None => Sufficient(entry)
            /\ \A v \in Variants : entries[v] # None => Sufficient(entries[v])
            /\ manifest \notin {None, Torn} => \A v \in Variants : Sufficient(manifest[v])
            /\ rows # None => \A v \in Variants : Sufficient(rows.row[v].entry)

LEMMA MeasuredInit == Init => Measured
  BY DEF Init, Measured, Nowhere

LEMMA MeasuredStep == TInv /\ Measured /\ [Next]_vars => Measured'
<1> SUFFICES ASSUME TInv, Measured, [Next]_vars PROVE Measured'
  OBVIOUS
<1>1. entry' # None => Sufficient(entry')
  <2>1. CASE LaneBlocked
    BY <2>1 DEF LaneBlocked, Entry, Sufficient
  <2>2. CASE LaneStarts
    <3>1. PICK lfb \in {l \in Samples : l >= Required(at)}, cached \in BOOLEAN :
            entry' = Entry(TRUE, lfb, cached)
      BY <2>2 DEF LaneStarts
    <3> QED
      BY <3>1 DEF Entry, Sufficient
  <2>3. CASE BenchEnds
    <3>1. entry # None /\ entry \in Entries /\ entry' = [entry EXCEPT !.benchmark = TRUE]
      BY <2>3 DEF BenchEnds, TInv, TypeOK, Stages, Sweeping
    <3> QED
      BY <3>1 DEF Measured, Sufficient, Entries
  <2>4. CASE Next /\ ~LaneBlocked /\ ~LaneStarts /\ ~BenchEnds
    <3>1. entry' = entry
      BY <2>4 DEF Next, StartSuite, Continue, BenchRecord, BenchFails, StreamFrame, StreamEnds,
             StreamFails, LaneEnds, SweepEnds, ReviewVariant, ReviewFails, Rewrite, Compare,
             Select, Killed, BuildRoutes, sweep
    <3> QED
      BY <3>1 DEF Measured
  <2> QED
    BY <2>1, <2>2, <2>3, <2>4 DEF vars, sweep, Measured
<1>2. ASSUME NEW v \in Variants, entries'[v] # None PROVE Sufficient(entries'[v])
  <2>1. CASE StartSuite
    BY <1>2, <2>1 DEF StartSuite, Nowhere
  <2>2. CASE LaneEnds
    <3> DEFINE e == [entry EXCEPT !.cached = @ /\ metas[at] # None]
    <3>1. /\ entry # None /\ entry \in Entries /\ at \in Variants
          /\ entries' = [entries EXCEPT ![at] = e]
      BY <2>2 DEF LaneEnds, TInv, TypeOK, Stages, Sweeping
    <3>2. Sufficient(e)
      BY <3>1 DEF Measured, Sufficient, Entries
    <3> HIDE DEF e
    <3>3. entries'[v] = IF v = at THEN e ELSE entries[v]
      BY <3>1 DEF TInv, TypeOK
    <3> QED
      BY <1>2, <3>2, <3>3 DEF Measured
  <2>3. CASE Next /\ ~StartSuite /\ ~LaneEnds
    <3>1. entries' = entries
      BY <2>3 DEF Next, Continue, LaneBlocked, LaneStarts, BenchRecord, BenchEnds, BenchFails,
             StreamFrame, StreamEnds, StreamFails, SweepEnds, ReviewVariant, ReviewFails,
             Rewrite, Compare, Select, Killed, BuildRoutes, sweep
    <3> QED
      BY <1>2, <3>1 DEF Measured
  <2> QED
    BY <1>2, <2>1, <2>2, <2>3 DEF vars, sweep, Measured
<1>3. manifest' \notin {None, Torn} => \A v \in Variants : Sufficient(manifest'[v])
  <2>1. CASE SweepEnds
    BY <2>1 DEF SweepEnds, Measured, TInv, Stages
  <2>2. CASE Next /\ ~SweepEnds
    <3>1. manifest' \in {manifest, Torn}
      BY <2>2 DEF Next, StartSuite, Continue, LaneBlocked, LaneStarts, BenchRecord, BenchEnds,
             BenchFails, StreamFrame, StreamEnds, StreamFails, LaneEnds, ReviewVariant,
             ReviewFails, Rewrite, Compare, Select, Killed, BuildRoutes
    <3> QED
      BY <3>1 DEF Measured
  <2> QED
    BY <2>1, <2>2 DEF vars, Measured
<1>4. rows' # None => \A v \in Variants : Sufficient(rows'.row[v].entry)
  <2>1. CASE rows' = rows
    BY <2>1 DEF Measured
  <2>2. CASE pc = "compare" /\ \A v \in Variants : rows'.row[v] = Row(v)
    <3>1. manifest \notin {None, Torn}
      BY <2>2, PromotionAssumption DEF TInv, Stages
    <3> QED
      BY <2>2, <3>1, RowFields DEF Measured
  <2> QED
    BY <2>1, <2>2, RowsWritten
<1> QED
  BY <1>1, <1>2, <1>3, <1>4 DEF Measured

-----------------------------------------------------------------------------
(* What an exit status of 0 means.                                          *)

Current(k, n) == chosen[k] # None /\ chosen[k].run = n

(* A comparison that exits 0 has written the rows; the selections so far    *)
(* are of the rows that are there.                                          *)
Freshness ==
    /\ pc = "select" /\ compared => rows # None /\ rows.run = run
    /\ pc = "select" => \A i \in 1..4 : i < at => rows # None /\ Current(KindOrder[i], rows.run)
    /\ exit = TRUE => rows # None /\ \A k \in Kinds : Current(k, run)

LEMMA FreshnessInit == Init => Freshness
  BY PromotionAssumption DEF Init, Freshness

LEMMA FreshnessStep == TInv /\ Freshness /\ [Next]_vars => Freshness'
<1> SUFFICES ASSUME TInv, Freshness, [Next]_vars PROVE Freshness'
  OBVIOUS
<1>0. None # TRUE
  BY PromotionAssumption
<1>1. CASE Compare
  <2>1. PICK lost \in BOOLEAN :
          IF ~lost /\ \A v \in Variants : Readable(files[v])
          THEN rows' = [run |-> run, row |-> [v \in Variants |-> Row(v)]]
          ELSE rows' = rows /\ compared' = FALSE
    BY <1>1 DEF Compare
  <2>2. pc' = "select" /\ at' = 1 /\ run' = run /\ exit' = exit /\ exit = None
    BY <1>1 DEF Compare, TInv, Stages
  <2>3. compared' = TRUE => rows'.run = run /\ rows' # None
    <3>1. CASE rows' = [run |-> run, row |-> [v \in Variants |-> Row(v)]]
      <4>1. rows'.run = run
        BY <3>1
      <4>2. rows' # None
        BY <1>1, <3>1, RowType, PromotionAssumption
           DEF Compare, TInv, TypeOK, Stages, Comparisons, MaxRuns
      <4> QED
        BY <4>1, <4>2
    <3>2. CASE compared' = FALSE
      BY <3>2
    <3> QED
      BY <2>1, <3>1, <3>2
  <2>4. \A i \in 1..4 : ~(i < 1)
    OBVIOUS
  <2> QED
    BY <1>0, <2>2, <2>3, <2>4 DEF Freshness
<1>2. CASE Select
  <2>1. /\ pc = "select" /\ at \in 1..4 /\ KindOrder[at] \in Kinds /\ exit = None
        /\ rows' = rows /\ run' = run /\ compared' = compared
    BY <1>2, SelectFacts DEF TInv, Stages
  <2>2. CASE pc' = "idle" /\ exit' = FALSE
    BY <2>2 DEF Freshness
  <2>3. CASE /\ rows \in Comparisons
             /\ chosen' = [chosen EXCEPT ![KindOrder[at]] =
                             [run |-> rows.run, variants |-> Selection(rows.row, KindOrder[at])]]
             /\ \/ at < 4 /\ at' = at + 1 /\ pc' = pc /\ exit' = exit
                \/ at = 4 /\ at' = at /\ pc' = "idle" /\ exit' = compared
    <3>0. rows # None
      BY <2>3, PromotionAssumption
    <3>1. chosen'[KindOrder[at]] # None /\ chosen'[KindOrder[at]].run = rows.run
      <4> DEFINE c == [run |-> rows.run, variants |-> Selection(rows.row, KindOrder[at])]
      <4>1. c \in Chosen
        BY <2>3 DEF Chosen, Selection, Comparisons
      <4>2. c.run = rows.run
        OBVIOUS
      <4> HIDE DEF c
      <4>3. chosen'[KindOrder[at]] = c
        BY <2>1, <2>3 DEF TInv, TypeOK, c
      <4> QED
        BY <4>1, <4>2, <4>3, NothingIsNone
    <3>2. \A k \in Kinds : k # KindOrder[at] => chosen'[k] = chosen[k]
      BY <2>3 DEF TInv, TypeOK
    <3>3. ASSUME NEW i \in 1..4, i <= at
          PROVE  chosen'[KindOrder[i]] # None /\ chosen'[KindOrder[i]].run = rows.run
      <4>1. i = at \/ i < at
        BY <2>1, <3>3
      <4>2. i < at => Current(KindOrder[i], rows.run)
        BY <2>1 DEF Freshness
      <4>3. KindOrder[i] \in Kinds
        BY KindsListed
      <4> QED
        BY <3>1, <3>2, <4>1, <4>2, <4>3 DEF Current
    <3>4. CASE at < 4 /\ at' = at + 1 /\ pc' = pc /\ exit' = exit
      <4>1. \A i \in 1..4 : i < at' => i <= at
        BY <2>1, <3>4
      <4> QED
        BY <1>0, <2>1, <2>3, <3>0, <3>3, <3>4, <4>1 DEF Freshness, Current
    <3>5. CASE at = 4 /\ pc' = "idle" /\ exit' = compared
      <4>1. \A i \in 1..4 : i <= at
        BY <3>5
      <4>2. \A k \in Kinds : chosen'[k] # None /\ chosen'[k].run = rows.run
        BY <3>3, <4>1, KindsListed
      <4> QED
        BY <2>1, <2>3, <3>0, <3>5, <4>2 DEF Freshness, Current
    <3> QED
      BY <2>3, <3>4, <3>5
  <2>4. CASE rows = None /\ pc' = "idle" /\ exit' = FALSE
    BY <2>4 DEF Freshness
  <2> QED
    BY <1>2, <2>2, <2>3, <2>4, SelectFacts
<1>3. CASE StartSuite \/ Continue \/ LaneBlocked \/ LaneStarts \/ BenchRecord \/ BenchEnds
           \/ BenchFails \/ StreamFrame \/ StreamEnds \/ StreamFails \/ LaneEnds \/ SweepEnds
           \/ ReviewVariant \/ ReviewFails \/ Rewrite \/ Killed
  <2>1. pc' # "select"
    BY <1>3 DEF StartSuite, Continue, LaneBlocked, LaneStarts, BenchRecord, BenchEnds, BenchFails,
           OpenStream, StreamFrame, StreamEnds, StreamFails, LaneEnds, SweepEnds, ReviewVariant,
           ReviewFails, Rewrite, Killed, Abort
  <2>2. exit' # TRUE
    <3>1. CASE StartSuite \/ Continue
      BY <1>0, <3>1 DEF StartSuite, Continue
    <3>2. CASE ~StartSuite /\ ~Continue
      <4>1. exit = None
        BY <1>3, <3>2 DEF TInv, Stages, LaneBlocked, LaneStarts, BenchRecord, BenchEnds,
               BenchFails, StreamFrame, StreamEnds, StreamFails, LaneEnds, SweepEnds,
               ReviewVariant, ReviewFails, Rewrite, Killed
      <4>2. exit' = exit \/ exit' = FALSE
        BY <1>3, <3>2 DEF LaneBlocked, LaneStarts, BenchRecord, BenchEnds, BenchFails,
               StreamFrame, StreamEnds, StreamFails, LaneEnds, SweepEnds, ReviewVariant,
               ReviewFails, Rewrite, Killed, Abort
      <4> QED
        BY <1>0, <4>1, <4>2
    <3> QED
      BY <3>1, <3>2
  <2> QED
    BY <2>1, <2>2 DEF Freshness
<1>4. CASE BuildRoutes \/ UNCHANGED vars
  <2>1. UNCHANGED <<run, pc, at, exit, rows, compared, chosen>>
    BY <1>4 DEF BuildRoutes, vars, export
  <2> QED
    BY <2>1 DEF Freshness, Current
<1> QED
  BY <1>1, <1>2, <1>3, <1>4 DEF Next

-----------------------------------------------------------------------------
(* What a strict exit status of 0 means.                                    *)

PromotionAny == <<"promotion", "any">>

(* A strict comparison that exits 0 found every row promoted; the promotion *)
(* selection, once made, is of the rows that are there.                     *)
Strictness ==
    /\ pc = "select" /\ compared /\ option.strict =>
         \A v \in Variants : PromotionPassed(v, rows.row[v])
    /\ pc = "select" /\ at > 2 =>
         chosen[PromotionAny].variants = Selection(rows.row, PromotionAny)
    /\ exit = TRUE /\ option.strict => chosen[PromotionAny].variants = Variants

LEMMA StrictnessInit == Init => Strictness
  BY PromotionAssumption DEF Init, Strictness

LEMMA StrictnessCompare == ASSUME TInv, Compare PROVE Strictness'
<1>1. /\ pc' = "select" /\ at' = 1 /\ option' = option /\ exit' = None /\ None # TRUE
      /\ option.strict \in BOOLEAN
  BY PromotionAssumption DEF Compare, TInv, Stages, Option
<1>2. PICK lost \in BOOLEAN :
        IF ~lost /\ \A v \in Variants : Readable(files[v])
        THEN /\ rows' = [run |-> run, row |-> [v \in Variants |-> Row(v)]]
             /\ compared' = (option.strict => \A v \in Variants : PromotionPassed(v, Row(v)))
        ELSE rows' = rows /\ compared' = FALSE
  BY DEF Compare
<1>3. ASSUME compared', option.strict, NEW v \in Variants
      PROVE  PromotionPassed(v, rows'.row[v])
  <2> DEFINE passed == \A w \in Variants : PromotionPassed(w, Row(w))
  <2>1. /\ rows' = [run |-> run, row |-> [w \in Variants |-> Row(w)]]
        /\ compared' = (option.strict => passed)
    BY <1>2, <1>3
  <2>2. rows'.row[v] = Row(v)
    BY <2>1
  <2>3. passed
    <3> HIDE DEF passed
    <3> QED
      BY <1>3, <2>1
  <2> QED
    BY <2>2, <2>3
<1>4. compared' /\ option'.strict => \A v \in Variants : PromotionPassed(v, rows'.row[v])
  BY <1>1, <1>3, Zenon
<1>5. ~(1 > 2)
  OBVIOUS
<1> QED
  BY <1>1, <1>4, <1>5 DEF Strictness

LEMMA StrictnessSelect == ASSUME TInv, Strictness, Select PROVE Strictness'
<1>1. /\ pc = "select" /\ at \in 1..4 /\ exit = None /\ None # TRUE /\ TRUE # FALSE
      /\ UNCHANGED <<option, rows, compared>>
      /\ compared \in BOOLEAN
  BY SelectFacts, PromotionAssumption DEF TInv, TypeOK, Stages
<1>2. CASE rows = None /\ pc' = "idle" /\ exit' = FALSE
  BY <1>2 DEF Strictness
<1>3. CASE /\ rows \in Comparisons
           /\ chosen' = [chosen EXCEPT ![KindOrder[at]] =
                           [run |-> rows.run, variants |-> Selection(rows.row, KindOrder[at])]]
           /\ \/ at < 4 /\ at' = at + 1 /\ pc' = pc /\ exit' = exit
              \/ at = 4 /\ at' = at /\ pc' = "idle" /\ exit' = compared
  <2>1. /\ KindOrder[2] = PromotionAny /\ PromotionAny \in Kinds
        /\ at # 2 => KindOrder[at] # PromotionAny
    <3>1. at = 1 \/ at = 2 \/ at = 3 \/ at = 4
      BY <1>1
    <3> QED
      BY <3>1 DEF KindOrder, PromotionAny, Kinds, Gates
  <2>2. ASSUME at >= 2
        PROVE  chosen'[PromotionAny].variants = Selection(rows.row, PromotionAny)
    <3>1. CASE at = 2
      BY <1>3, <2>1, <3>1 DEF TInv, TypeOK
    <3>2. CASE at > 2
      <4>1. chosen'[PromotionAny] = chosen[PromotionAny]
        BY <1>3, <2>1, <3>2 DEF TInv, TypeOK
      <4> QED
        BY <1>1, <3>2, <4>1 DEF Strictness
    <3> QED
      BY <1>1, <2>2, <3>1, <3>2
  <2>3. CASE at < 4 /\ at' = at + 1 /\ pc' = pc /\ exit' = exit
    <3>1. at' > 2 => at >= 2
      BY <1>1, <2>3
    <3> QED
      BY <1>1, <2>2, <2>3, <3>1 DEF Strictness
  <2>4. CASE at = 4 /\ pc' = "idle" /\ exit' = compared
    <3>1. ASSUME compared = TRUE, option.strict
          PROVE  chosen'[PromotionAny].variants = Variants
      <4>1. \A v \in Variants : PromotionPassed(v, rows.row[v])
        BY <1>1, <3>1 DEF Strictness
      <4>2. chosen'[PromotionAny].variants = Selection(rows.row, PromotionAny)
        BY <2>2, <2>4
      <4>3. PromotionAny[1] = "promotion" /\ PromotionAny[2] = "any"
        BY DEF PromotionAny
      <4> QED
        BY <4>1, <4>2, <4>3 DEF Selection, Passed
    <3> QED
      BY <1>1, <2>4, <3>1 DEF Strictness
  <2> QED
    BY <1>3, <2>3, <2>4
<1> QED
  BY <1>2, <1>3, SelectFacts

LEMMA StrictnessStep == TInv /\ Strictness /\ [Next]_vars => Strictness'
<1> SUFFICES ASSUME TInv, Strictness, [Next]_vars PROVE Strictness'
  OBVIOUS
<1>0. None # TRUE
  BY PromotionAssumption
<1>1. CASE Compare
  BY <1>1, StrictnessCompare
<1>2. CASE Select
  BY <1>2, StrictnessSelect
<1>3. CASE StartSuite \/ Continue
  BY <1>0, <1>3 DEF StartSuite, Continue, Strictness
<1>4. CASE LaneBlocked \/ LaneStarts \/ BenchRecord \/ BenchEnds
           \/ BenchFails \/ StreamFrame \/ StreamEnds \/ StreamFails \/ LaneEnds \/ SweepEnds
           \/ ReviewVariant \/ ReviewFails \/ Rewrite \/ Killed
  <2>1. pc' # "select"
    BY <1>4 DEF LaneBlocked, LaneStarts, BenchRecord, BenchEnds, BenchFails,
           OpenStream, StreamFrame, StreamEnds, StreamFails, LaneEnds, SweepEnds, ReviewVariant,
           ReviewFails, Rewrite, Killed, Abort
  <2>2. exit = None
    BY <1>4 DEF TInv, Stages, LaneBlocked, LaneStarts, BenchRecord, BenchEnds,
           BenchFails, StreamFrame, StreamEnds, StreamFails, LaneEnds, SweepEnds,
           ReviewVariant, ReviewFails, Rewrite, Killed
  <2>3. exit' = exit \/ exit' = FALSE
    BY <1>4 DEF LaneBlocked, LaneStarts, BenchRecord, BenchEnds, BenchFails,
           StreamFrame, StreamEnds, StreamFails, LaneEnds, SweepEnds, ReviewVariant,
           ReviewFails, Rewrite, Killed, Abort
  <2> QED
    BY <1>0, <2>1, <2>2, <2>3 DEF Strictness
<1>5. CASE BuildRoutes \/ UNCHANGED vars
  <2>1. UNCHANGED <<option, pc, at, exit, rows, compared, chosen>>
    BY <1>5 DEF BuildRoutes, vars, export
  <2> QED
    BY <2>1 DEF Strictness
<1> QED
  BY <1>1, <1>2, <1>3, <1>4, <1>5 DEF Next

-----------------------------------------------------------------------------
(* What was promoted, selected and routed. *)

Whole(v) == v \in Variants /\ files[v] # None /\ Answered(files[v], MinTrials)

(* What a promotion selection names, and what is routed, was complete and   *)
(* stays so.                                                                *)
Routed == /\ \A k \in Kinds : chosen[k] # None /\ k[1] = "promotion" =>
                \A v \in chosen[k].variants : Whole(v)
          /\ routes # None => \A lane \in Lanes : \A c \in routes[lane].candidates : Whole(c[2])

LEMMA PromotedIsWhole ==
    ASSUME TInv, Answers, rows # None, NEW v \in Variants, PromotionPassed(v, rows.row[v])
    PROVE  Whole(v)
<1> DEFINE row == rows.row[v]
<1>1. /\ row.meta # None /\ row.meta.trials >= MinTrials
      /\ row.file # None /\ "failed" \notin row.file.flaws
  BY DEF PromotionPassed, GuardPassed, Sane
<1>2. /\ Answered(row.file, row.meta.trials)
      /\ files[v] # None /\ row.file.done \subseteq files[v].done
  BY <1>1 DEF Answers, Documented
<1>3. row.meta.trials \in Nat /\ MinTrials \in Nat
  BY <1>1, EligibilityAssumption DEF TInv, TypeOK, Comparisons, Rows, Metas
<1>4. 1..MinTrials \subseteq 1..row.meta.trials
  BY <1>1, <1>3
<1> QED
  BY <1>2, <1>4 DEF Whole, Answered

LEMMA WholeStays ==
    ASSUME TInv, [Next]_vars, NEW v, Whole(v)
    PROVE  Whole(v)'
  BY FilesGrow DEF Whole, Answered

LEMMA RoutedInit == Init => Routed
  BY DEF Init, Routed

LEMMA RoutedStep == TInv /\ Answers /\ Routed /\ [Next]_vars => Routed'
<1> SUFFICES ASSUME TInv, Answers, Routed, [Next]_vars PROVE Routed'
  OBVIOUS
<1>1. ASSUME NEW k \in Kinds, chosen'[k] # None, k[1] = "promotion",
             NEW v \in chosen'[k].variants
      PROVE  Whole(v)'
  <2>1. CASE chosen' = chosen
    <3>1. v \in Variants /\ Whole(v)
      BY <1>1, <2>1 DEF Routed, TInv, TypeOK, Chosen
    <3> QED
      BY <3>1, WholeStays
  <2>2. CASE Select /\ chosen' # chosen
    <3>1. /\ rows \in Comparisons /\ rows # None /\ KindOrder[at] \in Kinds
          /\ chosen' = [chosen EXCEPT ![KindOrder[at]] =
                          [run |-> rows.run, variants |-> Selection(rows.row, KindOrder[at])]]
      BY <2>2, SelectFacts, PromotionAssumption
    <3>2. CASE k = KindOrder[at]
      <4>1. v \in Selection(rows.row, k)
        BY <1>1, <3>1, <3>2 DEF TInv, TypeOK
      <4>2. v \in Variants /\ PromotionPassed(v, rows.row[v])
        BY <1>1, <4>1 DEF Selection, Passed
      <4> QED
        BY <3>1, <4>2, PromotedIsWhole, WholeStays
    <3>3. CASE k # KindOrder[at]
      <4>1. chosen'[k] = chosen[k]
        BY <3>1, <3>3 DEF TInv, TypeOK
      <4>2. v \in Variants /\ Whole(v)
        BY <1>1, <4>1 DEF Routed, TInv, TypeOK, Chosen
      <4> QED
        BY <4>2, WholeStays
    <3> QED
      BY <3>2, <3>3
  <2>3. CASE Next /\ ~Select
    <3>1. chosen' = chosen
      BY <2>3 DEF Next, StartSuite, Continue, LaneBlocked, LaneStarts, BenchRecord, BenchEnds,
             BenchFails, StreamFrame, StreamEnds, StreamFails, LaneEnds, SweepEnds, ReviewVariant,
             ReviewFails, Rewrite, Compare, Killed, BuildRoutes, export
    <3> QED
      BY <2>1, <3>1
  <2> QED
    BY <2>1, <2>2, <2>3 DEF vars, export
<1>2. ASSUME routes' # None, NEW lane \in Lanes, NEW c \in routes'[lane].candidates
      PROVE  Whole(c[2])'
  <2>1. CASE BuildRoutes
    <3>1. PICK inputs \in Inputs :
            /\ \A i \in DOMAIN inputs : chosen[inputs[i]] # None
            /\ routes' = Routes(Bundle(inputs, [k \in {inputs[i] : i \in DOMAIN inputs} |->
                                                  chosen[k].variants]))
      BY <2>1 DEF BuildRoutes
    <3> DEFINE named == [k \in {inputs[i] : i \in DOMAIN inputs} |-> chosen[k].variants]
    <3>2. routes'[lane].candidates = InLane(Bundle(inputs, named), lane)
      BY <3>1 DEF Routes, Route
    <3>3. /\ c \in (DOMAIN inputs) \X Variants /\ inputs[c[1]][1] = "promotion"
          /\ c[2] \in chosen[inputs[c[1]]].variants
      BY <1>2, <3>2 DEF InLane, Bundle
    <3>4. inputs[c[1]] \in Kinds /\ chosen[inputs[c[1]]] # None /\ c[2] \in Variants
      BY <3>1, <3>3, PromotionAssumption
    <3> QED
      BY <3>3, <3>4, WholeStays DEF Routed
  <2>2. CASE Next /\ ~BuildRoutes
    <3>1. routes' = routes
      BY <2>2 DEF Next, StartSuite, Continue, LaneBlocked, LaneStarts, BenchRecord, BenchEnds,
             BenchFails, StreamFrame, StreamEnds, StreamFails, LaneEnds, SweepEnds, ReviewVariant,
             ReviewFails, Rewrite, Compare, Select, Killed
    <3>2. Whole(c[2])
      BY <1>2, <3>1 DEF Routed
    <3> QED
      BY <3>2, WholeStays
  <2>3. CASE UNCHANGED vars
    BY <1>2, <2>3 DEF vars, disk, Routed, Whole
  <2> QED
    BY <2>1, <2>2, <2>3
<1> QED
  BY <1>1, <1>2 DEF Routed

-----------------------------------------------------------------------------
(* The theorems. *)

IInv == TInv /\ Answers /\ Judgements /\ Measured /\ Freshness /\ Strictness /\ Routed

THEOREM Invariance == Spec => []IInv
<1>1. Init => IInv
  BY InitTyped, AnswersInit, JudgementsInit, MeasuredInit, FreshnessInit,
     StrictnessInit, RoutedInit DEF IInv
<1>2. IInv /\ [Next]_vars => IInv'
  BY TypeStep, AnswersStep, JudgementsStep, MeasuredStep, FreshnessStep,
     StrictnessStep, RoutedStep DEF IInv
<1> QED
  BY <1>1, <1>2, PTL DEF Spec

(* The types of the suite, of the files it leaves and of its rows, for any  *)
(* number of variants, trials, cases, frames and environments.              *)
THEOREM TypeCorrect == Spec => []TypeOK
<1>1. IInv => TypeOK
  BY DEF IInv, TInv
<1> QED
  BY <1>1, Invariance, PTL

(* A promoted variant has answered every case in every trial, whichever run *)
(* wrote the benchmark manifest and the records.                            *)
THEOREM PromotionIsComplete == Spec => []PromotedIsComplete
<1>1. IInv => PromotedIsComplete
  BY PromotedIsWhole DEF IInv, PromotedIsComplete, Promoted, Whole, Answered
<1> QED
  BY <1>1, Invariance, PTL

(* The review of a promoted row is of the row's own records.                *)
THEOREM PromotionIsReviewed == Spec => []PromotedIsReviewed
<1>1. IInv => PromotedIsReviewed
  <2> SUFFICES ASSUME IInv, NEW v \in Variants, Promoted(v)
               PROVE  /\ rows.row[v].review.records = rows.row[v].file.records
                      /\ "rejected" \notin rows.row[v].file.flaws
    BY DEF PromotedIsReviewed
  <2>1. /\ rows # None /\ rows.row[v].file # None /\ rows.row[v].review.passed
    BY DEF Promoted, PromotionPassed, GuardPassed
  <2>2. rows.row[v].review = Review(rows.row[v].file)
    BY <2>1 DEF IInv, Judgements, Judged
  <2>3. \A f : Review(f).records = f.records /\ (Review(f).passed => "rejected" \notin f.flaws)
    BY DEF Review
  <2> QED
    BY <2>1, <2>2, <2>3
<1> QED
  BY <1>1, Invariance, PTL

(* A ranked variant had the free blocks of the ranking gate, relaxed or not.*)
THEOREM RankingHadMemory == Spec => []RankedHadMemory
<1>1. IInv => RankedHadMemory
  <2> SUFFICES ASSUME IInv, rows # None, NEW v \in Variants, RankingPassed(rows.row[v])
               PROVE  rows.row[v].entry.lfb >= RankingMin
    BY DEF RankedHadMemory
  <2>1. rows.row[v].entry.required >= RankingMin /\ rows.row[v].entry.ready
    BY DEF RankingPassed, StartupPassed
  <2>2. rows.row[v].entry.lfb >= rows.row[v].entry.required
    BY <2>1 DEF IInv, Measured, Sufficient
  <2>3. rows.row[v].entry.lfb \in Nat /\ rows.row[v].entry.required \in Nat /\ RankingMin \in Nat
    BY EligibilityAssumption DEF IInv, TInv, TypeOK, Comparisons, Rows, Entries
  <2> QED
    BY <2>1, <2>2, <2>3
<1> QED
  BY <1>1, Invariance, PTL

(* A suite that exits 0 leaves its own comparison and selections.           *)
LEMMA ZeroExitIsFresh ==
    ASSUME IInv, exit = TRUE
    PROVE  rows # None /\ \A k \in Kinds : chosen[k] # None /\ chosen[k].run = run
  BY DEF IInv, Freshness, Current

(* An exit status of 0 is that of a suite which left its own comparison and *)
(* selections, and a strict one has promoted its whole plan.                *)
THEOREM SuccessIsEarned == Spec => []ZeroExitIsEarned
<1>1. IInv => ZeroExitIsEarned
  <2> SUFFICES ASSUME IInv, exit = TRUE, option.strict
               PROVE  /\ chosen[PromotionAny].variants = Variants
                      /\ \A v \in Variants : (1..MinTrials) \X (1..Cases) \subseteq files[v].done
    BY ZeroExitIsFresh DEF ZeroExitIsEarned, PromotionAny
  <2>1. chosen[PromotionAny].variants = Variants
    BY DEF IInv, Strictness
  <2>2. PromotionAny \in Kinds /\ PromotionAny[1] = "promotion"
    BY DEF PromotionAny, Kinds, Gates
  <2>3. chosen[PromotionAny] # None
    BY <2>2 DEF IInv, Freshness, Current
  <2>4. \A v \in Variants : Whole(v)
    BY <2>1, <2>2, <2>3 DEF IInv, Routed
  <2> QED
    BY <2>1, <2>4 DEF Whole, Answered
<1> QED
  BY <1>1, Invariance, PTL

(* What is routed for promotion is complete, whatever went into the bundle  *)
(* and however often the suites were run.                                   *)
THEOREM RoutesAreComplete == Spec => []RoutedIsComplete
<1>1. IInv => RoutedIsComplete
  BY DEF IInv, Routed, Whole, Answered, RoutedIsComplete
<1> QED
  BY <1>1, Invariance, PTL

(* What is routed is the route of some candidates of the bundle.            *)
Ordered == routes # None => \A lane \in Lanes :
             \E S : Candidates(S) /\ routes[lane] = Route(S)

LEMMA OrderedStep == Ordered /\ [Next]_vars => Ordered'
<1> SUFFICES ASSUME Ordered, [Next]_vars PROVE Ordered'
  OBVIOUS
<1>1. CASE BuildRoutes
  <2>1. PICK inputs \in Inputs :
          routes' = Routes(Bundle(inputs, [k \in {inputs[i] : i \in DOMAIN inputs} |->
                                             chosen[k].variants]))
    BY <1>1 DEF BuildRoutes
  <2> DEFINE named == [k \in {inputs[i] : i \in DOMAIN inputs} |-> chosen[k].variants]
             S(lane) == InLane(Bundle(inputs, named), lane)
  <2>2. \A lane : Candidates(S(lane))
    BY PromotionAssumption, FirstVariant DEF Candidates, InLane, Bundle, Variants
  <2>3. \A lane \in Lanes : routes'[lane] = Route(S(lane))
    BY <2>1 DEF Routes
  <2> HIDE DEF S
  <2> QED
    BY <2>2, <2>3 DEF Ordered
<1>2. CASE Next /\ ~BuildRoutes
  <2>1. routes' = routes
    BY <1>2 DEF Next, StartSuite, Continue, LaneBlocked, LaneStarts, BenchRecord, BenchEnds,
           BenchFails, StreamFrame, StreamEnds, StreamFails, LaneEnds, SweepEnds, ReviewVariant,
           ReviewFails, Rewrite, Compare, Select, Killed
  <2> QED
    BY <2>1 DEF Ordered
<1>3. CASE UNCHANGED vars
  BY <1>3 DEF vars, Ordered
<1> QED
  BY <1>1, <1>2, <1>3

(* Every lane that has candidates is routed to one primary, and to no q8    *)
(* where its group has a q4, for any catalog, bundle and history of runs.   *)
THEOREM PrimariesAreQ4First == Spec => []PrimaryIsQ4First
<1>1. Init => Ordered
  BY DEF Init, Ordered
<1>2. Ordered => PrimaryIsQ4First
  <2> SUFFICES ASSUME Ordered, routes # None, NEW lane \in Lanes
               PROVE  LET r == routes[lane] IN
                        /\ Cardinality(r.primary) = (IF r.candidates = {} THEN 0 ELSE 1)
                        /\ r.primary \cap r.fallbacks = {}
                        /\ \A p \in r.primary, c \in r.candidates :
                             Group(c) = Group(p) /\ Bucket(c) = "q4" => Bucket(p) # "q8"
    BY DEF PrimaryIsQ4First
  <2>1. PICK S : Candidates(S) /\ routes[lane] = Route(S)
    BY DEF Ordered
  <2>2. routes[lane].primary = Heads(S) /\ routes[lane].candidates = S
        /\ routes[lane].fallbacks = Route(S).fallbacks
    BY <2>1 DEF Route
  <2> QED
    BY <2>1, <2>2, RouteIsQ4First
<1> QED
  BY <1>1, <1>2, OrderedStep, PTL DEF Spec
=============================================================================
