----------------------------- MODULE RemoteSweep -----------------------------
(***************************************************************************)
(* One run of scripts/jetson/run_remote_optimization_sweep.sh, from the     *)
(* workstation, up to the launches of the sweep it starts on the Jetson:    *)
(*   1. the selector samples memory and chooses a lane, or none;            *)
(*   2. a second, privileged sample is written into the selector's output;  *)
(*   3. without a choice, evidence for a boot change is planned and checked *)
(*      against the boot configuration, which somebody may be editing;      *)
(*   4. the GGUF files of the lanes the sweep will run are checked;         *)
(*   5. the sweep plans its lanes and samples memory before each of them.   *)
(* Every remote command may fail, which ends the wrapper (set -e) except    *)
(* in step 4.  Memory changes between any two samples.                      *)
(***************************************************************************)
EXTENDS VariantSelector

CONSTANTS Requests,     \* command lines of the wrapper
          Options,      \* its environment
          Hosts,        \* what is on the Jetson: GGUF files, runtime
          Boots,        \* states of the boot configuration, changed by hand
          DefaultGate,  \* the selector's gate without --min-lfb-blocks
          Samples,      \* what a memory sample may read
          Reserved      \* what it may say of the linux,cma reservation

MaxEdits == 1   \* bound: how often the boot configuration is edited

Request == [variants : SUBSET Lanes, models : SUBSET {ModelOf[v] : v \in Lanes},
            min : Nat \cup {None}, override : [Lanes -> Nat \cup {None}]]
Option  == [selector : BOOLEAN, relaxed : Nat \cup {None}, output : BOOLEAN,
            diagnostics : BOOLEAN, sudo : BOOLEAN, cma : BOOLEAN, dry : BOOLEAN,
            gguf : BOOLEAN, strict : BOOLEAN, prepare : BOOLEAN]
Host    == [artifact : [Lanes -> [{"model", "mmproj"} -> Statuses]], probe : Probes]
Boot    == [exists : BOOLEAN, appends : Nat, version : Nat]
Entries == [launched : BOOLEAN, lfb : Lfbs]

ASSUME RemoteAssumption ==
    /\ Requests \subseteq Request
    \* the sudo sidecar needs an output path, or the wrapper exits at once
    /\ Options \subseteq {o \in Option : o.sudo => o.output}
    /\ Hosts \subseteq Host
    /\ Boots \subseteq Boot
    /\ DefaultGate \in Nat
    /\ Samples \subseteq Lfbs
    /\ Reserved \subseteq Nat \cup {None}
    /\ None \notin Entries

VARIABLES request, option, host,   \* given
          boot,       \* the boot configuration
          pc,         \* the step the wrapper is at
          lost,       \* a remote command failed by itself
          selection,  \* the selector's output
          cma, patch, \* the two plans
          args,       \* the arguments of the sweep: variants, override
          context,    \* the selection the sweep has recorded
          lane,       \* the lane the sweep is at
          entries     \* what became of each lane

given == <<request, option, host>>
plans == <<cma, patch>>
sweep == <<context, lane, entries>>
vars  == <<given, boot, pc, lost, selection, plans, args, sweep>>

Ended == {"done", "aborted"}
Steps == Ended \cup {"select", "sudo", "cma", "patch", "dry", "gguf", "plan", "lane"}

Init == /\ request \in Requests /\ option \in Options /\ host \in Hosts
        /\ boot \in {b \in Boots : b.version = 0}
        /\ pc = (IF option.selector THEN "select" ELSE "gguf") /\ lost = FALSE
        /\ selection = None /\ cma = None /\ patch = None
        /\ args = [variants |-> request.variants, override |-> request.override]
        /\ context = None /\ lane = 1 /\ entries = [v \in Lanes |-> None]

-----------------------------------------------------------------------------
(* The selector, and what the wrapper makes of its answer. *)

SelectorGate == IF request.min # None THEN request.min ELSE DefaultGate

Seen == {[lfb |-> l, reserved |-> n, paths |-> p] :
            l \in Samples, n \in Reserved, p \in BOOLEAN}

AfterSelection(s) == IF option.cma /\ Selected(s) = None /\ option.output
                     THEN "cma" ELSE "gguf"

\* Mutant: the relaxed gate is forwarded whichever lane was selected.
ForwardForAny(s) ==
    LET v == Selected(s)
    IN [variants |-> IF v = None THEN args.variants ELSE args.variants \cup {v},
        override |-> IF v # None /\ option.relaxed # None /\ args.override[v] = None
                     THEN [args.override EXCEPT ![v] = option.relaxed]
                     ELSE args.override]

\* Mutant: the relaxed gate is forwarded whether the fallback is selected or not.
ForwardAlways(s) ==
    LET v == Selected(s)
    IN [variants |-> IF v = None THEN args.variants ELSE args.variants \cup {v},
        override |-> IF option.relaxed # None /\ args.override[Fallback] = None
                     THEN [args.override EXCEPT ![Fallback] = option.relaxed]
                     ELSE args.override]

\* Mutant: a sweep that names its variants is not given the selected one.
ForwardIfAlone(s) ==
    LET v == Selected(s)
    IN [variants |-> IF v = None \/ args.variants # {} THEN args.variants ELSE {v},
        override |-> args.override]

Forwarded(s) ==
    LET v == Selected(s)
    IN [variants |-> IF v = None THEN args.variants ELSE args.variants \cup {v},
        override |-> IF v = Fallback /\ option.relaxed # None /\ args.override[v] = None
                     THEN [args.override EXCEPT ![v] = option.relaxed]
                     ELSE args.override]

Select ==
    /\ pc = "select"
    /\ \E l \in Samples, seen \in Seen :
         LET s == Selection(host, l, SelectorGate, option.relaxed)
             kept == IF option.diagnostics /\ option.output THEN WithRegular(s, seen) ELSE s
         IN /\ selection' = kept
            /\ args' = Forwarded(kept)
            /\ pc' = IF option.sudo THEN "sudo" ELSE AfterSelection(kept)
    /\ UNCHANGED <<given, boot, lost, plans, sweep>>

\* The selector's output is rewritten in place.
Enrich == /\ pc = "sudo"
          /\ \E seen \in Seen : selection' = WithSudo(selection, seen)
          /\ pc' = AfterSelection(selection)
          /\ UNCHANGED <<given, boot, lost, plans, args, sweep>>

-----------------------------------------------------------------------------
(* Evidence for a boot change, when no lane was selected. *)

WriteCmaPlan == /\ pc = "cma"
                /\ cma' = CmaPlan(selection)
                /\ pc' = "patch"
                /\ UNCHANGED <<given, boot, lost, selection, patch, args, sweep>>

WriteBootPlan == /\ pc = "patch"
                 /\ patch' = BootPlan(cma, boot)
                 /\ pc' = IF option.dry THEN "dry" ELSE "gguf"
                 /\ UNCHANGED <<given, boot, lost, selection, cma, args, sweep>>

\* A dry run that refuses exits 1, and the wrapper with it.
DryRun == /\ pc = "dry"
          /\ pc' = IF DryRunPasses(patch, boot) THEN "gguf" ELSE "aborted"
          /\ UNCHANGED <<given, boot, lost, selection, plans, args, sweep>>

EditBoot == /\ pc \in {"cma", "patch", "dry"} /\ boot.version < MaxEdits
            /\ boot' \in {b \in Boots : b.version = boot.version + 1}
            /\ UNCHANGED <<given, pc, lost, selection, plans, args, sweep>>

-----------------------------------------------------------------------------
(* The sweep. *)

Matches(v, variants) == /\ request.models # {} => ModelOf[v] \in request.models
                        /\ variants # {} => v \in variants

Planned == {v \in Lanes : Matches(v, args.variants)}

Declared(v) == {r \in {"model", "mmproj"} : host.artifact[v][r] # "unconfigured"}
\* Mutant: a missing file is left to the launcher, as in the selector's manifest.
PlanOkButMissing == \A v \in Planned : \A r \in Declared(v) :
                        host.artifact[v][r] \in {"ok", "missing"}

PlanOk == \A v \in Planned : /\ Declared(v) # {}
                             /\ \A r \in Declared(v) : host.artifact[v][r] = "ok"

\* A sweep without lanes exits 2, also when it is only planned.
CheckArtifacts ==
    /\ pc = "gguf"
    /\ pc' = IF option.gguf /\ (Planned = {} \/ (option.strict /\ ~PlanOk))
             THEN "aborted" ELSE "plan"
    /\ UNCHANGED <<given, boot, lost, selection, plans, args, sweep>>

PlanSweep == /\ pc = "plan"
             /\ pc' = IF Planned = {} THEN "aborted" ELSE "lane"
             /\ context' = IF option.output THEN selection ELSE None
             /\ UNCHANGED <<given, boot, lost, selection, plans, args, lane, entries>>

GateOf(v) == IF args.override[v] # None THEN args.override[v] ELSE request.min

Unlaunched == [launched |-> FALSE, lfb |-> None]

\* The password of the pre-variant command, the gate, then the runtime.
Outcomes(v) ==
    (IF option.prepare THEN {Unlaunched} ELSE {})
    \cup {[launched |-> Meets(l, GateOf(v)) /\ RuntimeReasons(host.probe, v) = {},
           lfb      |-> l] : l \in Samples}

\* Mutant: off by one.
RunLaneOneMore == /\ pc = "lane"
                  /\ lane' = lane + 1
                  /\ pc' = IF lane <= Count THEN pc ELSE "done"
                  /\ UNCHANGED <<given, boot, lost, selection, plans, args, context, entries>>

RunLane == /\ pc = "lane"
           /\ IF lane \in Planned
              THEN \E e \in Outcomes(lane) : entries' = [entries EXCEPT ![lane] = e]
              ELSE entries' = entries
           /\ IF lane < Count THEN lane' = lane + 1 /\ pc' = pc
                              ELSE lane' = lane /\ pc' = "done"
           /\ UNCHANGED <<given, boot, lost, selection, plans, args, context>>

-----------------------------------------------------------------------------

\* ssh, sudo or the program at its end fails, and its output is not used.
RemoteFails == /\ pc \notin Ended
               /\ pc = "gguf" => option.gguf
               /\ pc' = "aborted" /\ lost' = TRUE
               /\ UNCHANGED <<given, boot, selection, plans, args, sweep>>

Next == \/ Select \/ Enrich \/ WriteCmaPlan \/ WriteBootPlan \/ DryRun \/ EditBoot
        \/ CheckArtifacts \/ PlanSweep \/ RunLane \/ RemoteFails

Spec == Init /\ [][Next]_vars

-----------------------------------------------------------------------------
(* Properties. *)

(* Types of the wrapper's state, its artifacts and the sweep's entries. *)
TypeOK ==
    /\ request \in Request /\ option \in Option /\ host \in Host
    /\ boot \in Boot /\ pc \in Steps /\ lost \in BOOLEAN
    /\ selection \in {None} \cup Selections
    /\ cma \in {None} \cup CmaPlans /\ patch \in {None} \cup BootPlans
    /\ args \in [variants : SUBSET Lanes, override : [Lanes -> Nat \cup {None}]]
    /\ context \in {None} \cup Selections
    /\ lane \in Lanes
    /\ entries \in [Lanes -> {None} \cup Entries]

Launched(v) == entries[v] # None /\ entries[v].launched

(* The selected lane is launched only on a sample that meets the gate it    *)
(* was selected by, although the selector, the wrapper and the sweep each   *)
(* work the gate out on their own and memory has changed since.             *)
SelectedMeetsItsGate ==
    \A v \in Lanes :
        /\ Launched(v) /\ v = Selected(selection)
        /\ request.min # None /\ request.override[v] = None
        => Meets(entries[v].lfb, selection.candidates[selection.rank].min)

(* The relaxed gate applies only to the fallback, and only when it was      *)
(* selected because the primary was not usable.                             *)
RelaxedOnlyForFallback ==
    \A v \in Lanes :
        Launched(v) /\ request.override[v] = None /\ ~Meets(entries[v].lfb, request.min)
        => /\ v = Fallback /\ v = Selected(selection)
           /\ option.relaxed # None
           /\ ~selection.candidates[1].usable

(* A reservation proposed for every candidate removes the preboot reason of *)
(* every candidate, costs less than a rounding step too much, and can be    *)
(* written as a boot argument.                                              *)
PlannedSizeSuffices ==
    cma # None => \A e \in cma.experiments : e[1] = "rounded" =>
        /\ Evidence(selection) # None =>
             PrebootShort(selection, [Evidence(selection) EXCEPT !.reserved = e[3]]) = {}
        /\ \E r \in Ranks :
             e[3] < Required(selection, r, PlanBlock(selection)) + StepMiB * MiB
        /\ e[3] > 0 => e \in Bootable(cma)

(* A sweep that gets to its end has an entry for the selected lane and for  *)
(* every lane the user named, unless --model excludes it.                   *)
NamedLanesAreSwept ==
    pc = "done" /\ request.models = {} =>
        \A v \in request.variants \cup ({Selected(selection)} \ {None}) : entries[v] # None

(* With a failing preflight fatal, no lane is launched whose GGUF files are *)
(* not all there and valid, the selected lane included.                     *)
LaunchedArtifactsAreValid ==
    option.gguf /\ option.strict =>
        \A v \in Lanes, r \in {"model", "mmproj"} :
            Launched(v) => host.artifact[v][r] \in {"ok", "unconfigured"}

(* Evidence does not stop a sweep: a wrapper that stops has lost a command, *)
(* or has no lane to run, or has been told to insist on the GGUF files.     *)
EvidenceStopsNothing ==
    pc = "aborted" => lost \/ Planned = {} \/ (option.gguf /\ option.strict)
=============================================================================
