---------------------------- MODULE MCPipelines ----------------------------
EXTENDS Pipelines

MCSymmetry == Permutations(Indexers)

(* Documents, providers, answers and drafts. *)
Text(scope, terms, service) ==
    [file |-> "text", scope |-> scope, terms |-> terms, service |-> service]
MCDocuments == {[Text(FALSE, FALSE, FALSE) EXCEPT !.file = "missing"],
                Text(TRUE, TRUE, FALSE), Text(FALSE, FALSE, TRUE), Text(TRUE, FALSE, FALSE)}
MCSlotSettings == {<<"blank", "full">>, <<"absent", "full">>}
MCExtracted == {<<"operaciones", "procurement">>, <<"training", "marketing", "training">>,
                <<"kitchen">>}
MCBudgets == {50, 60}
Good == [readable |-> TRUE, covers |-> Aspects, price |-> TRUE, currencies |-> {"COP", "USD"},
         pillars |-> TRUE, days |-> 12, rival |-> FALSE, validity |-> TRUE]
MCDrafts == {Good, [Good EXCEPT !.days = 5, !.covers = {"failed"}]}
MCFigures == {[cost |-> 9, setup_days |-> 12, price_per_cover |-> 8],
              [cost |-> -1, setup_days |-> 9, price_per_cover |-> 10]}

(* Sources: how many sentences each heading and each paragraph has. *)
Part(heading, paragraphs) == [heading |-> heading, paragraphs |-> paragraphs]
Manual(format, audience, body) ==
    [format |-> format, audience |-> audience, sections |-> body]
MCSources ==
    [p \in PROFILES |->
        IF p = "staff"
        THEN {Manual("markdown", "none", <<Part(1, <<2>>)>>),
              Manual("markdown", "none", <<Part(0, <<4>>)>>),
              Manual("markdown", "none", <<Part(0, <<1>>)>>)}
        ELSE {Manual("json", "public", <<Part(0, <<1, 1>>)>>),
              Manual("json", "staff", <<Part(0, <<1, 1>>)>>)}]
MCTierSettings == {[public |-> <<"full", "full">>, staff |-> <<"full">>],
                   [public |-> <<"partial">>, staff |-> <<"full", "blank", "full">>]}

(* Telemetry of a week and of the weeks before it. *)
Supply(ts, quantity, cost) ==
    [event_type |-> "supply", ts |-> ts, names |-> "both", quantity |-> quantity,
     unit_cost |-> cost]
MCRecords == {Supply(-29, 1, 4), Supply(-28, 1, 4), Supply(-1, 1, 6), Supply(0, 2, 7),
              Supply(7, 1, 2), Supply(3, 2, -1), [Supply(3, -1, 5) EXCEPT !.names = "location"],
              [Supply(3, 3, -1) EXCEPT !.event_type = "waste"],
              [Supply(6, 1, -1) EXCEPT !.event_type = "stockout"]}
=============================================================================
