--------------------------- MODULE MCPromotionSuite ---------------------------
(* A q8 image variant, which the catalog has first, and a q4 text one of    *)
(* the same group; two cases, two trials; a gate of 2 blocks, or 1 relaxed. *)
EXTENDS PromotionSuite

MCScope == <<[lane |-> "vlm", small |-> TRUE, group |-> "g", bucket |-> "q8"],
             [lane |-> "vlm", small |-> TRUE, group |-> "g", bucket |-> "q4"]>>

Full == [trials |-> 2, greedy |-> TRUE, relaxed |-> <<None, None>>, strict |-> TRUE]
MCOptions == {Full, [Full EXCEPT !.trials = 1, !.strict = FALSE],
              [Full EXCEPT !.relaxed = <<1, None>>, !.strict = FALSE]}

MCInputs == {<<(<<"ranking", "scoped">>), (<<"promotion", "scoped">>)>>,
             <<(<<"promotion", "any">>), (<<"promotion", "scoped">>)>>}
=============================================================================
