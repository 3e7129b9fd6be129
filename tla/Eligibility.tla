----------------------------- MODULE Eligibility -----------------------------
(***************************************************************************)
(* What the files of a sweep say of its variants, and which of them are     *)
(* routed for it:                                                           *)
(*   - optimization compare: a row per variant and the three prechecks;     *)
(*   - quality_review: the verdict on the records of one variant;           *)
(*   - eligibility_selection: selections, their bundle, and the routes.     *)
(*                                                                          *)
(* Variants are numbered in the order of the catalog, in which rows and     *)
(* selections are written.  A results file is known by its number of        *)
(* records, the <<trial, case>> pairs that have a successful one, and the   *)
(* flaws of its records: one that failed, one the sanity guard flags, one   *)
(* the review policy rejects.                                               *)
(***************************************************************************)
EXTENDS Integers, FiniteSets

CONSTANTS Count,       \* variants of the plan
          Images,      \* those whose config supports images
          Scope,       \* Scope[v]: candidate lane, small, comparison group, bucket
          Cases,       \* prompt cases
          MinTrials,   \* the trials the promotion stage asks for
          RankingMin,  \* --ranking-min-lfb-blocks, and the sweep's own gate
          SuiteLane,   \* the lane of the scoped selections
          None

Variants == 1..Count
Buckets  == {"q4", "q8", ""}
Lanes    == {Scope[v].lane : v \in Variants} \ {""}

ASSUME EligibilityAssumption ==
    /\ Count \in Nat \ {0} /\ Cases \in Nat \ {0}
    /\ MinTrials \in Nat \ {0} /\ RankingMin \in Nat
    /\ Images \subseteq Variants
    /\ Scope \in [Variants -> [lane : STRING, small : BOOLEAN, group : STRING, bucket : Buckets]]
    /\ SuiteLane \in STRING

Flaws   == {"failed", "flagged", "rejected"}
Results == [records : Nat, done : SUBSET (Nat \X Nat), flaws : SUBSET Flaws]
Frames  == [records : Nat, flaws : SUBSET Flaws]
Metas   == [trials : Nat, greedy : BOOLEAN]
Reviews == [records : Nat, passed : BOOLEAN]
Entries == [ready : BOOLEAN, lfb : Nat, required : Nat, cached : BOOLEAN,
            benchmark : BOOLEAN]

Rows == [entry : Entries, file : {None} \cup Results, frames : {None} \cup Frames,
         meta : {None} \cup Metas, review : {None} \cup Reviews]

ASSUME EligibilityNone == None \notin Results \cup Frames \cup Metas \cup Reviews
                                        \cup Entries \cup Rows

-----------------------------------------------------------------------------
(* The verdicts on the records of one variant. *)

Review(file) == [records |-> file.records, passed |-> file.flaws \cap {"failed", "rejected"} = {}]

Sane(flaws) == flaws \cap {"failed", "flagged"} = {}

GuardPassed(row) == /\ row.file # None /\ Sane(row.file.flaws)
                    /\ row.frames # None => Sane(row.frames.flaws)

\* An empty results file is an error, and no row is written.
Readable(file) == file # None => file.records > 0

-----------------------------------------------------------------------------
(* The prechecks, with the flags the suites give. *)

StartupPassed(row) == row.entry.ready /\ row.entry.cached

RankingPassed(row) == row.entry.required >= RankingMin /\ StartupPassed(row)

StreamPassed(row) == row.frames # None /\ row.frames.records > 0 /\ "failed" \notin row.frames.flaws

PromotionPassed(v, row) ==
    /\ row.entry.required >= RankingMin
    /\ row.meta # None /\ row.meta.trials >= MinTrials /\ row.meta.greedy
    /\ GuardPassed(row)
    /\ v \in Images => StreamPassed(row)
    /\ StartupPassed(row)
    /\ row.review # None /\ row.review.passed

-----------------------------------------------------------------------------
(* Selections: the variants whose row passes a gate, in the plan's order. *)

Gates == {"ranking", "promotion"}
Kinds == Gates \X {"any", "scoped"}    \* scoped: small candidates of SuiteLane

Passed(gate, v, row) == IF gate = "ranking" THEN RankingPassed(row) ELSE PromotionPassed(v, row)

InScope(v) == Scope[v].small /\ Scope[v].lane = SuiteLane

Selection(rows, kind) == {v \in Variants : /\ Passed(kind[1], v, rows[v])
                                           /\ kind[2] = "scoped" => InScope(v)}

-----------------------------------------------------------------------------
(* The bundle of several selections, and the routes of one gate. *)

\* Mutant: the gate of a selection is forgotten in the bundle.
BundleAny(inputs, chosen) ==
    {c \in (DOMAIN inputs) \X Variants : c[2] \in chosen[inputs[c[1]]]}

\* The candidates of the promotion gate, each with the input it came by.
Bundle(inputs, chosen) ==
    {c \in (DOMAIN inputs) \X Variants : /\ inputs[c[1]][1] = "promotion"
                                         /\ c[2] \in chosen[inputs[c[1]]]}

Earlier(c, d) == c[1] < d[1] \/ (c[1] = d[1] /\ c[2] < d[2])
Group(c)      == Scope[c[2]].group
Bucket(c)     == Scope[c[2]].bucket

InLane(candidates, lane) == {c \in candidates : Scope[c[2]].lane = lane}

\* A group with both quantizations has its q4 members first.
Split(candidates, group) ==
    {"q4", "q8"} \subseteq {Bucket(c) : c \in {d \in candidates : Group(d) = group}}
Demoted(candidates, c) == Split(candidates, Group(c)) /\ Bucket(c) # "q4"

Opens(candidates, c) ==
    CHOOSE d \in candidates : /\ Group(d) = Group(c)
                              /\ \A e \in candidates : Group(e) = Group(c) => ~Earlier(e, d)

\* Mutant: in the order of the bundle.
PrecedesInBundle(candidates, c, d) == Earlier(c, d)

\* Groups in the order of their first members, inside a group as above.
Precedes(candidates, c, d) ==
    \/ Earlier(Opens(candidates, c), Opens(candidates, d))
    \/ /\ Group(c) = Group(d)
       /\ IF Demoted(candidates, c) = Demoted(candidates, d)
          THEN Earlier(c, d) ELSE Demoted(candidates, d)

Heads(candidates) == {c \in candidates : \A d \in candidates \ {c} : Precedes(candidates, c, d)}

Route(candidates) ==
    [candidates |-> candidates,
     primary    |-> Heads(candidates),
     fallbacks  |-> {c \in candidates : Split(candidates, Group(c)) /\ Bucket(c) = "q8"}]

Routes(candidates) == [lane \in Lanes |-> Route(InLane(candidates, lane))]
=============================================================================
