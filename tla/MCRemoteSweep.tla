---------------------------- MODULE MCRemoteSweep ----------------------------
(* Three lanes, the pair and one more; gates 1 and 2, 2 being the strict    *)
(* one; 2 bytes to a MiB and rounding to 4 MiB.                             *)
EXTENDS RemoteSweep

MCModelOf == [v \in Lanes |-> IF v = 3 THEN "other" ELSE "qwen3"]

NoOverride == [v \in Lanes |-> None]
Asks(variants, models, min, override) ==
    [variants |-> variants, models |-> models, min |-> min, override |-> override]
MCRequests == {Asks({}, {}, None, NoOverride), Asks({2, 3}, {}, 2, NoOverride),
               Asks({3}, {}, 2, [NoOverride EXCEPT ![1] = 1]), Asks({3}, {"other"}, 2, NoOverride)}

Plain == [selector |-> TRUE, relaxed |-> 1, output |-> TRUE, diagnostics |-> FALSE,
          sudo |-> FALSE, cma |-> FALSE, dry |-> FALSE, gguf |-> FALSE,
          strict |-> FALSE, prepare |-> FALSE]
MCOptions ==
    {Plain, [Plain EXCEPT !.relaxed = None, !.prepare = TRUE], [Plain EXCEPT !.output = FALSE],
     [Plain EXCEPT !.selector = FALSE],
     [Plain EXCEPT !.gguf = TRUE], [Plain EXCEPT !.gguf = TRUE, !.strict = TRUE],
     [Plain EXCEPT !.diagnostics = TRUE, !.cma = TRUE, !.dry = TRUE],
     [Plain EXCEPT !.sudo = TRUE, !.cma = TRUE]}

Whole == [model |-> "ok", mmproj |-> "ok"]
Text  == [model |-> "ok", mmproj |-> "unconfigured"]
MCHosts == [artifact : {<<Whole, Whole, Text>>,
                        <<[Whole EXCEPT !.model = "invalid"], Whole, Text>>,
                        <<Whole, [Whole EXCEPT !.mmproj = "missing"], Text>>},
            probe : {"failed", "no_mmproj", "ready"}]

MCBoots   == {b \in [exists : BOOLEAN, appends : {1, 2}, version : {0, 1}] :
                b.exists \/ b.appends = 1}
MCSamples == {None, [free |-> 0, block |-> 3], [free |-> 1, block |-> 1],
              [free |-> 2, block |-> 3]}
MCReserved == {None, 5}
=============================================================================
