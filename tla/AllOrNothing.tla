---------------------------- MODULE AllOrNothing ----------------------------
(***************************************************************************)
(* What an atomic publish promises: the files on show change together, to   *)
(* the version of the publisher that is told so, and a publisher that is    *)
(* told of a failure changed nothing.                                       *)
(***************************************************************************)

CONSTANTS
    Publishers,     \* each publishes one version of all files
    Files,
    Old             \* the version on show before the first publish

VARIABLES
    shown,          \* shown[f]: the version of file f
    told            \* what each publisher was told

vars == <<shown, told>>

Init ==
    /\ shown = [f \in Files |-> Old]
    /\ told = [p \in Publishers |-> "none"]

Publish(p) ==
    /\ told[p] = "none"
    /\ shown' = [f \in Files |-> p]
    /\ told' = [told EXCEPT ![p] = "ok"]

Fail(p) ==
    /\ told[p] = "none"
    /\ told' = [told EXCEPT ![p] = "failed"]
    /\ UNCHANGED shown

Next == \E p \in Publishers : Publish(p) \/ Fail(p)

Spec == Init /\ [][Next]_vars
=============================================================================
