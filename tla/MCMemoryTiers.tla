---------------------------- MODULE MCMemoryTiers ----------------------------
(* The voice agent retains turns and lessons, the API everything else; one  *)
(* environment per way to each backend.                                     *)
EXTENDS MemoryTiers, TLC

CONSTANTS c1, c2, c3, r1, api, voice

MCCalls == {c1, c2, c3}
MCRecalls == {r1}
MCProcesses == {api, voice}
\* No words, which fit every line, or those of the API's lesson alone.
MCQueries == {MCCalls, {c3}}
MCHome == (c1 :> voice) @@ (c2 :> voice) @@ (c3 :> api)
MCInputs ==
    (voice :> {<<"turn", "plain">>, <<"lesson", "plain">>}) @@
    (api :> {<<"fact", "plain">>, <<"belief", "backlog">>, <<"belief", "buried">>,
             <<"lesson", "plain">>, <<"error", "plain">>})
MCUnsummed == (voice :> {}) @@ (api :> {<<"belief", "unsummed">>})

On == [hindsight |-> "bridge", http |-> TRUE, docker |-> TRUE, letta |-> TRUE,
       store |-> TRUE, postgres |-> TRUE, redis |-> TRUE]
\* Everything on; the API's container without Letta and the bridge's URL; the
\* development machine with Hindsight's client and nothing else.
MCEnvs ==
    {On,
     [On EXCEPT !.http = FALSE, !.docker = FALSE, !.letta = FALSE],
     [On EXCEPT !.hindsight = "direct", !.letta = FALSE, !.store = FALSE,
                !.postgres = FALSE, !.redis = FALSE]}
MCSymmetry == Permutations({c1, c2})
==============================================================================
