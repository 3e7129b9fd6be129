-------------------------- MODULE BootConfigContent --------------------------
(***************************************************************************)
(* What the extlinux boot configuration may hold, and the one change the    *)
(* CMA planner (src/edge_vlm/boot_config_cma_plan.py) proposes to it.       *)
(***************************************************************************)
CONSTANTS Tokens,       \* the cma=<MiB>M tokens a plan may propose
          Rests,        \* what a file holds besides its APPEND line
          Lossy,        \* what a rest becomes when it is decoded and re-encoded
          NoCma,        \* an APPEND line without a cma token
          Unpatchable   \* no APPEND line, or several of them

ASSUME ContentAssumption ==
    /\ NoCma \notin Tokens
    /\ Unpatchable \notin Tokens \cup {NoCma}
    /\ Lossy \in [Rests -> Rests]

Configs == [append : Tokens \cup {NoCma, Unpatchable}, rest : Rests]

(* A plan is "ready" only for a file with exactly one APPEND line; any      *)
(* other content gives a "review_required" plan without candidates.         *)
PlanReady(base) == base.append # Unpatchable

(* The content with its one APPEND line carrying token t, replaced or       *)
(* appended.  Everything else went through decode("utf-8", errors="replace") *)
(* and encode("utf-8").                                                     *)
Proposed(base, t) == [append |-> t, rest |-> Lossy[base.rest]]
=============================================================================
