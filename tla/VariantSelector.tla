--------------------------- MODULE VariantSelector ---------------------------
(***************************************************************************)
(* How one lane of a primary/fallback pair is chosen, and the evidence that *)
(* is kept beside the choice:                                               *)
(*   - jetson_variant_selector: which candidate is usable on this device;   *)
(*   - lfb_memory_assessment: what a later memory sample says about it;     *)
(*   - cma_experiment_plan: which boot-time CMA reservations would do;      *)
(*   - boot_config_cma_plan: which of them can be written as cma=<n>M.      *)
(*                                                                          *)
(* A lane is known by its position in the variant catalog, a candidate by   *)
(* its rank (1 primary, 2 fallback).  An LFB sample is None or the free     *)
(* blocks and their size in MiB.  Sizes are bytes, MiB bytes to a MiB.      *)
(***************************************************************************)
EXTENDS Integers, FiniteSets

CONSTANTS Count,      \* lanes in the catalog
          Primary,    \* --primary-variant
          Fallback,   \* --fallback-variant
          Images,     \* the lanes whose config supports images
          ModelOf,    \* ModelOf[v]: the model of lane v
          MiB,        \* bytes to a MiB
          StepMiB,    \* ROUNDING_STEP_MIB
          None

Lanes == 1..Count
Ranks == {1, 2}
LaneAt(rank) == IF rank = 1 THEN Primary ELSE Fallback

ASSUME SelectorAssumption ==
    /\ Count \in Nat \ {0}
    /\ Primary \in Lanes /\ Fallback \in Lanes /\ Primary # Fallback
    /\ Images \subseteq Lanes
    /\ ModelOf \in [Lanes -> STRING]
    /\ MiB \in Nat \ {0} /\ StepMiB \in Nat \ {0}

Statuses == {"ok", "missing", "invalid", "unconfigured"}    \* of a GGUF file
Probes   == {"failed", "no_server", "no_help", "no_mmproj", "ready"}

Lfbs    == {None} \cup [free : Nat, block : Nat]
Reasons == ({"model", "mmproj"} \X Statuses) \cup ({"runtime"} \X Probes)
             \cup ({"lfb", "preboot"} \X {"below"})
Candidates  == [min : Nat, reasons : SUBSET Reasons, usable : BOOLEAN]
Assessments == [lfb : Lfbs, deficits : SUBSET Ranks, reserved : Nat \cup {None},
                paths : BOOLEAN, required : Nat \cup {None}]
Selections  == [rank : {0} \cup Ranks, candidates : [Ranks -> Candidates], lfb : Lfbs,
                regular : {None} \cup Assessments, sudo : {None} \cup Assessments]

Tries     == {"minimum", "rounded"} \X ({0} \cup Ranks) \X Nat
CmaPlans  == [ready : BOOLEAN, paths : BOOLEAN, experiments : SUBSET Tries]
BootPlans == [ready : BOOLEAN, patches : SUBSET Tries, version : Nat \cup {None}]

ASSUME NoneAssumption == None \notin Int \cup [free : Nat, block : Nat] \cup Assessments
                                       \cup Selections \cup CmaPlans \cup BootPlans

First(a, b) == IF a # None THEN a ELSE b
Largest(S)  == CHOOSE x \in S : \A y \in S : y <= x

-----------------------------------------------------------------------------
(* The selection. *)

Roles(v) == {"model"} \cup (IF v \in Images THEN {"mmproj"} ELSE {})

ArtifactReasons(artifact, v) ==
    {<<role, artifact[v][role]>> : role \in {r \in Roles(v) : artifact[v][r] # "ok"}}

\* A probe that failed, or a server whose help failed, blocks nothing here.
RuntimeReasons(probe, v) ==
    IF v \in Images /\ probe \in {"no_server", "no_mmproj"} THEN {<<"runtime", probe>>} ELSE {}

Meets(lfb, gate)      == gate = None \/ (lfb # None /\ lfb.free >= gate)
LfbReasons(lfb, gate) == IF Meets(lfb, gate) THEN {} ELSE {<<"lfb", "below">>}

Candidate(host, lfb, v, gate) ==
    LET reasons == ArtifactReasons(host.artifact, v) \cup RuntimeReasons(host.probe, v)
                     \cup LfbReasons(lfb, gate)
    IN [min |-> gate, reasons |-> reasons, usable |-> reasons = {}]

GateAt(rank, gate, relaxed) == IF rank = 2 /\ relaxed # None THEN relaxed ELSE gate

ChosenRank(candidates) == CASE candidates[1].usable -> 1
                            [] ~candidates[1].usable /\ candidates[2].usable -> 2
                            [] OTHER -> 0

\* The record that is printed and written to the selector output.
Selection(host, lfb, gate, relaxed) ==
    LET candidates == [r \in Ranks |->
                         Candidate(host, lfb, LaneAt(r), GateAt(r, gate, relaxed))]
    IN [rank |-> ChosenRank(candidates), candidates |-> candidates, lfb |-> lfb,
        regular |-> None, sudo |-> None]

Selected(s) == IF s = None \/ s.rank = 0 THEN None ELSE LaneAt(s.rank)

-----------------------------------------------------------------------------
(* The evidence: an assessment of a selection from a later sample. *)

Required(s, rank, block) == s.candidates[rank].min * block * MiB

Assessment(s, seen) ==
    LET lfb       == First(seen.lfb, s.lfb)
        deficits  == IF lfb = None THEN {}
                     ELSE {r \in Ranks : s.candidates[r].min > lfb.free}
    IN [lfb      |-> lfb,
        deficits |-> deficits,
        reserved |-> seen.reserved,
        paths    |-> seen.paths,
        required |-> IF deficits = {} THEN None
                     ELSE Largest({Required(s, r, lfb.block) : r \in deficits})]

PrebootBelow(a) == a.required # None /\ a.reserved # None /\ a.reserved < a.required

\* The candidates that get a preboot_linux_cma_reserved_bytes reason.
PrebootShort(s, a) ==
    IF PrebootBelow(a)
    THEN {r \in a.deficits : a.reserved < Required(s, r, a.lfb.block)}
    ELSE {}

WithRegular(s, seen) ==
    LET a == Assessment(s, seen)
    IN [s EXCEPT
          !.regular = a,
          !.candidates = [r \in Ranks |->
              [s.candidates[r] EXCEPT
                 !.reasons = @ \cup (IF r \in PrebootShort(s, a)
                                     THEN {<<"preboot", "below">>} ELSE {})]]]

WithSudo(s, seen) == [s EXCEPT !.sudo = Assessment(s, seen)]

-----------------------------------------------------------------------------
(* The plans: reservations worth a reboot, and boot arguments for them. *)

\* Mutant: rounded down.
RoundDown(bytes) == (bytes \div (StepMiB * MiB)) * (StepMiB * MiB)

RoundUp(bytes) == ((bytes + StepMiB * MiB - 1) \div (StepMiB * MiB)) * (StepMiB * MiB)

Evidence(s) == First(s.sudo, s.regular)

\* The sudo assessment is preferred to the regular one.
PlanLfb(s) == First(IF s.sudo # None THEN s.sudo.lfb ELSE None,
                    First(IF s.regular # None THEN s.regular.lfb ELSE None, s.lfb))

PlanBlock(s) == IF PlanLfb(s) = None THEN None ELSE PlanLfb(s).block

PlanReserved(s) == First(IF s.sudo # None THEN s.sudo.reserved ELSE None,
                         IF s.regular # None THEN s.regular.reserved ELSE None)

PlanPaths(s) == \/ s.sudo # None /\ s.sudo.paths
                \/ s.regular # None /\ s.regular.paths

\* One experiment a candidate, and one that is enough for every candidate.
Experiments(s, block) ==
    IF block = None THEN {}
    ELSE {<<"minimum", r, Required(s, r, block)>> : r \in Ranks}
         \cup {<<"rounded", 0, RoundUp(Largest({Required(s, r, block) : r \in Ranks}))>>}

CmaPlan(s) == [ready       |-> PlanBlock(s) # None /\ PlanReserved(s) # None,
               paths       |-> PlanPaths(s),
               experiments |-> Experiments(s, PlanBlock(s))]

\* cma=<n>M needs a whole, positive number of MiB.  The status of the CMA
\* plan is not looked at.
Bootable(plan) == {e \in plan.experiments : e[3] > 0 /\ e[3] % MiB = 0}

BootPlan(plan, boot) ==
    LET found    == plan.paths /\ boot.exists
        patches  == IF found /\ boot.appends = 1 THEN Bootable(plan) ELSE {}
    IN [ready |-> patches # {}, patches |-> patches,
        version |-> IF found THEN boot.version ELSE None]

\* boot_config_cma_apply without --apply, for the candidate the wrapper names.
DryRunPasses(patch, boot) ==
    /\ \E e \in patch.patches : e[1] = "rounded"
    /\ patch.ready
    /\ boot.exists /\ boot.version = patch.version
=============================================================================
