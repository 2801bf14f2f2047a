--------------------------- MODULE MCVoiceSession ---------------------------
(***************************************************************************)
(* Small instances of VoiceSession.  Every transcript is one that users say, *)
(* with what the classifiers make of it.                                    *)
(***************************************************************************)
EXTENDS VoiceSession, TLC

Said(o, p, f, c, e, g) ==
    [op |-> o, project |-> p, frame |-> f, confirm |-> c, explicit |-> e, stopGo |-> g]

\* "wake firstmate"
Wake == Said("wake_firstmate", None, None, FALSE, FALSE, FALSE)
\* "wake firstmate confirm"
WakeConfirm == Said("wake_firstmate", None, None, TRUE, TRUE, TRUE)
\* "stop fleet"
StopFleet == Said("fleet_stop", None, None, FALSE, FALSE, FALSE)
\* "stop fleet go ahead"
StopFleetGo == Said("fleet_stop", None, None, TRUE, TRUE, TRUE)
\* "yes"
Yes == Said(None, None, None, TRUE, TRUE, TRUE)
\* "stop agents"
StopAgents == Said("stop_agents", None, None, FALSE, FALSE, FALSE)
\* "stop agents confirm"
StopAgentsConfirm == Said("stop_agents", None, None, TRUE, TRUE, TRUE)
\* "yes stop agents"
YesStopAgents == Said("stop_agents", None, None, TRUE, TRUE, FALSE)
\* "restart agents"
RestartAgents == Said("restart_agents", None, None, FALSE, FALSE, FALSE)
\* "queue deep review"
DeepReview == Said(None, None, "review", FALSE, FALSE, FALSE)
\* "queue deep review yes"
DeepReviewYes == Said(None, None, "review", TRUE, TRUE, TRUE)
\* "queue deep review for advoi"
DeepReviewFor == Said(None, "function", "review", FALSE, FALSE, FALSE)
\* "okay how is the fleet"
FleetOkay == Said(None, None, "other", TRUE, TRUE, FALSE)
\* "systems pulse"
Pulse == Said(None, None, "other", FALSE, FALSE, FALSE)
\* "run all agents"
RunAll == Said("run_all", None, None, FALSE, FALSE, FALSE)
\* "dispatch all squads"
Squads == Said("dispatch_squads", None, None, FALSE, FALSE, FALSE)
\* "what can you do"
WhatCanYouDo == Said("info", None, None, FALSE, FALSE, FALSE)
\* "switch to advoi"
SwitchTo == Said(None, "switch", None, FALSE, FALSE, FALSE)
\* "how are you today"
Hello == Said(None, None, None, FALSE, FALSE, FALSE)

FleetTalk == {Wake, WakeConfirm, StopFleet, StopFleetGo, Yes, FleetOkay, Hello}

AllTalk == FleetTalk \cup
    {StopAgents, StopAgentsConfirm, YesStopAgents, RestartAgents, DeepReview, DeepReviewYes,
     DeepReviewFor, Pulse, RunAll, Squads, WhatCanYouDo, SwitchTo}
=============================================================================
