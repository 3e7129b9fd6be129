--------------------------- MODULE MCBootConfigCma ---------------------------
(***************************************************************************)
(* Small instances of BootConfigCma: two appliers or two CMA tokens; other  *)
(* lines of one or of two kinds, which survive decoding and encoding.       *)
(***************************************************************************)
EXTENDS BootConfigCma, TLC

CONSTANTS utf8, edited

MCUtf8 == {utf8}
MCLossyUtf8 == [r \in MCUtf8 |-> r]

\* An edit may change lines that no plan is about.
MCEdited == {utf8, edited}
MCLossyEdited == [r \in MCEdited |-> r]

\* outcome and applied are histories: no step and neither of the invariants of
\* boot_concurrent depends on them.
MCWithoutHistory == <<disk, plans, pc, current, token>>

MCTokenSymmetry == Permutations(Tokens)
MCSymmetry == Permutations(Appliers) \cup Permutations(MCEdited)
=============================================================================
