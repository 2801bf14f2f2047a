------------------------------ MODULE GateReport ------------------------------
(***************************************************************************)
(* The Aether gate report, a file in the fleet tree that FirstMate writes, *)
(* and what aether/gate.py reads in it.  Of its verdict line the tokens    *)
(* found in it are kept, of its active slug the name.                      *)
(***************************************************************************)
EXTENDS Naturals, Sequences, FiniteSets, TLC

CONSTANTS
    None,           \* no report, no name
    Reports,        \* the reports that may be written
    MaxMishaps      \* bound on what happens from outside

VARIABLES
    report,         \* the report in the fleet tree, or None
    mishaps         \* changes of files, failures and deaths so far

\* The tokens of _VERDICT_MAP, in the order in which they are looked for.
Tokens == <<"pass", "hold", "fail", "blocked", "go", "no-go", "no go">>
MeaningOf ==
    [pass |-> "pass", hold |-> "hold", fail |-> "fail", blocked |-> "fail",
     go |-> "pass"] @@ [t \in {"no-go", "no go"} |-> "fail"]

ASSUME ReportsAreReports ==
    /\ \A r \in Reports : r.tokens \subseteq {Tokens[i] : i \in DOMAIN Tokens}
    /\ None \notin Reports /\ MaxMishaps \in Nat

\* _normalize_verdict: the first token found anywhere in the line decides.
Verdict(r) ==
    LET found == SelectSeq(Tokens, LAMBDA t : t \in r.tokens)
    IN IF found = <<>> THEN "unknown" ELSE MeaningOf[Head(found)]

ActiveSlug(r) == IF r = None THEN None ELSE r.slug

Mishap == mishaps < MaxMishaps /\ mishaps' = mishaps + 1

\* FirstMate writes a report, puts an older one back, or takes it away.
Rewrite == Mishap /\ report' \in (Reports \cup {None}) \ {report}
===============================================================================
