---------------------------- MODULE MCStudioGraph ----------------------------
(* StudioGraph on a small instance.                                        *)
EXTENDS StudioGraph

MCOrder == <<"novelty", "methodology", "devil">>
MCSelections == {<<>>, <<"methodology", "nobody", "methodology">>, <<"devil", "novelty">>}
MCThreads == {"paper", "abstract"} \union ToSet(MCOrder)
MCContexts == {"run", "node", "loop"} \union MCThreads

Default == [m0 |-> TRUE, access |-> TRUE, gate |-> TRUE, gateLlm |-> FALSE,
            orchestrator |-> TRUE, interrupt |-> TRUE, shared |-> FALSE]
Plain == [m0 |-> FALSE, access |-> FALSE, gate |-> FALSE, gateLlm |-> FALSE,
          orchestrator |-> FALSE, interrupt |-> FALSE, shared |-> TRUE]
Judged == [Plain EXCEPT !.gate = TRUE, !.gateLlm = TRUE, !.access = TRUE, !.shared = FALSE]

Full == [mode |-> "full_execute", skip |-> FALSE, clarified |-> 1]
Dry == [mode |-> "dry_run", skip |-> TRUE, clarified |-> 0]
Table(n) == [v \in Variants |-> [runs |-> IF v = "v1" THEN n ELSE 0, total |-> 0]]
Process(c, r, k, n) == [config |-> c, request |-> r, keyed |-> k, prompts |-> Table(n)]
MCStarts == {Process(Default, Dry, TRUE, 0), Process(Plain, Full, TRUE, 1),
             Process(Judged, Full, TRUE, 1), Process(Plain, Full, FALSE, 1)}
==============================================================================
