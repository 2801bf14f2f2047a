---------------------------- MODULE MCServerSlices ----------------------------
(* Four frames, two squads, and presets and chains of the catalog's shapes.  *)
EXTENDS ServerSlices

MCCatalog == <<"fleet_status", "open_briefs", "queue_deep_review", "systems_pulse">>
MCPresets ==
    [morning_pulse |-> [ids |-> <<"systems_pulse">>, mode |-> "stagger"],
     intel |-> [ids |-> <<"open_briefs", "queue_deep_review">>, mode |-> "wave"]]
MCChains ==
    [morning_then_intel |->
       [presets |-> <<"morning_pulse", "intel">>, dispatchAfter |-> TRUE]]

Base == [kind |-> "six", id |-> "", ids |-> <<>>, mode |-> None, confirmed |-> TRUE,
         guarded |-> TRUE, refresh |-> FALSE, dispatch |-> FALSE, retain |-> TRUE]
MCAsks ==
    {[Base EXCEPT !.confirmed = FALSE, !.refresh = TRUE],
     [Base EXCEPT !.kind = "chain", !.id = "morning_then_intel", !.confirmed = FALSE],
     [Base EXCEPT !.kind = "preset", !.id = "intel", !.dispatch = TRUE],
     [Base EXCEPT !.kind = "preset", !.id = "intel", !.confirmed = FALSE,
                  !.guarded = FALSE],
     [Base EXCEPT !.kind = "frames", !.mode = "stagger", !.confirmed = FALSE,
                  !.ids = <<"systems_pulse", "queue_deep_review", "fleet_status">>],
     [Base EXCEPT !.kind = "preset", !.id = "intel", !.retain = FALSE, !.mode = "stagger"],
     [Base EXCEPT !.kind = "squads", !.retain = FALSE, !.confirmed = FALSE],
     [Base EXCEPT !.kind = "squad", !.retain = FALSE, !.id = "fleet-squad"]}
MCPairs ==
    MCAsks \cup
    {[Base EXCEPT !.kind = "frames", !.mode = "wave", !.confirmed = FALSE,
                  !.ids = <<"systems_pulse", "open_briefs", "fleet_status",
                            "queue_deep_review">>]}
===============================================================================
