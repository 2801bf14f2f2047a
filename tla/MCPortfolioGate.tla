---------------------------- MODULE MCPortfolioGate ----------------------------
(* Two ventures of the portfolio and three entries of the registry, with the *)
(* names that find them, after data/aether/portfolio.json and                *)
(* data/portfolio/execution-context.yaml.                                    *)
EXTENDS PortfolioGate

CONSTANTS api, voice

Go   == [tokens |-> {"pass"}, slug |-> "hermes"]
Hold == [tokens |-> {"hold"}, slug |-> "firstmate-fleet"]
NoGo == [tokens |-> {"go", "no-go"}, slug |-> None]
MCReports == {Go, Hold}
MCWords == {Go, NoGo}

Fleet ==
    [id |-> "firstmate-fleet", called |-> {"firstmate-fleet", "execution"},
     names |-> {"firstmate-fleet", "execution"}, frames |-> {"fleet_status", "open_briefs"}]
Hermes ==
    [id |-> "hermes-beacon", called |-> {"hermes-beacon", "hermes"},
     names |-> {"hermes-beacon", "hermes"}, frames |-> {"open_briefs"}]
MCPortfolios == {<<Fleet, Hermes>>, <<Hermes>>}

Table ==
    <<[id |-> "firstmate-fleet", slug |-> "clapart",
       exact |-> {"firstmate-fleet", "clapart"}, names |-> {"firstmate-fleet", "clapart"}],
      [id |-> "clapart", slug |-> "clapart", exact |-> {"clapart"}, names |-> {"clapart"}],
      [id |-> "hermes-beacon", slug |-> "hermes",
       exact |-> {"hermes-beacon", "hermes"}, names |-> {"hermes-beacon", "hermes"}]>>
MCContexts ==
    {[table |-> Table, fromFile |-> b, active |-> [id |-> "firstmate-fleet", slug |-> "clapart"]]
       : b \in BOOLEAN}

All  == [write |-> TRUE, emit |-> TRUE, git |-> TRUE]
MCOptions == {All, [All EXCEPT !.write = FALSE], [All EXCEPT !.emit = FALSE, !.git = FALSE]}
================================================================================
