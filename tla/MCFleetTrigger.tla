--------------------------- MODULE MCFleetTrigger ---------------------------
(***************************************************************************)
(* Small instances of FleetTrigger.                                         *)
(***************************************************************************)
EXTENDS FleetTrigger, TLC

Perms == Permutations(Requests)

\* Confirmed multi-step and backlog actions, every one with a key.
KeyedCalls ==
    [action : {"start_development", "run_next_backlog"}, key : Keys, confirmed : {TRUE}]

\* One single-step action, confirmed, with or without a key.
StopCalls == [action : {"fleet_stop"}, key : Keys \cup {NoKey}, confirmed : {TRUE}]

\* Confirmed or not, with or without a key.
MixedCalls ==
    [action : {"wake_firstmate", "start_development", "run_next_backlog", "fleet_stop"},
     key : Keys \cup {NoKey}, confirmed : BOOLEAN]

\* Everything, the bare low-level invoke included.
AllCalls == Call
=============================================================================
