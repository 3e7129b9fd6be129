---------------------------- MODULE MCJetsonSweep ----------------------------
(* Instances of JetsonSweep for TLC.  The second variant supports images    *)
(* and so has a fake stream; the gates are one block, or none where the     *)
(* override says so.                                                        *)
EXTENDS JetsonSweep, TLC

SecondOverridden == [w \in 1..Count |-> IF w = 2 THEN 0 ELSE None]
NoOverride       == [w \in 1..Count |-> None]

\* Steps at which the sweep may be killed.
Anywhere == {"poll", "benchmark", "stream", "shutdown", "manifest"}
=============================================================================
