------------------------------ MODULE PortfolioGate ------------------------------
(***************************************************************************)
(* The gate report between its exports and the processes that read it:     *)
(* GateExport and ActiveProject over one report.                           *)
(***************************************************************************)
EXTENDS GateExport, ActiveProject

vars == <<report, mishaps, exportVars, projectVars>>

Init ==
    /\ report \in Texts /\ mishaps = 0
    /\ ExportInit /\ ProjectInit

World ==
    \/ Rewrite /\ UNCHANGED <<exportVars, projectVars>>
    \/ EditFiles /\ UNCHANGED <<report, exportVars>>
    \/ \E p \in Processes : Restart(p) /\ UNCHANGED <<report, exportVars>>

Next ==
    \/ ExportNext /\ UNCHANGED <<report, projectVars>>
    \/ ProjectNext /\ UNCHANGED <<report, mishaps, exportVars>>
    \/ World

Spec == Init /\ [][Next]_vars
===============================================================================
