------------------------------ MODULE GateExport ------------------------------
(***************************************************************************)
(* The export of the gate report into the repository (gate_export.py):     *)
(* read the report, write it into the working tree, append an event to the *)
(* portfolio's log, add it to git's index and commit it.  Each export is a *)
(* process of its own, started by cron, by hand or after a gate; any step  *)
(* of it may fail, the process may die between two steps, and two may      *)
(* overlap.                                                                *)
(***************************************************************************)
EXTENDS GateReport

CONSTANTS
    N,              \* exports, numbered in the order in which they begin
    Options         \* what exports are asked to do

VARIABLES
    at,             \* at[e]: the next step of export e
    opts,           \* opts[e]: its options
    text,           \* text[e]: the report it read
    result,         \* result[e]: what it says of git
    met,            \* met[e]: another export ran at the same time
    repo,           \* the working tree's copy and the export that wrote it
    index,          \* git's index
    head,           \* the last commit: its copy, that copy's export, the committer
    events          \* the rows appended to the portfolio's log

exportVars == <<at, opts, text, result, met, repo, index, head, events>>

Exports == 1 .. N
Texts == Reports \cup {None}

ASSUME ExportAssumption ==
    /\ N \in Nat
    /\ Options \subseteq [write : BOOLEAN, emit : BOOLEAN, git : BOOLEAN]

NoOptions == [write |-> FALSE, emit |-> FALSE, git |-> FALSE]

ExportInit ==
    /\ at = [e \in Exports |-> "idle"]
    /\ opts = [e \in Exports |-> NoOptions]
    /\ text = [e \in Exports |-> None]
    /\ result = [e \in Exports |-> "none"]
    /\ met = [e \in Exports |-> FALSE]
    /\ repo = [text |-> None, by |-> 0]
    /\ index = None
    /\ head = [text |-> None, by |-> 0, says |-> 0]
    /\ events = {}

-------------------------------------------------------------------------------
Running(e) == at[e] \notin {"idle", "done", "failed", "dead"}

\* Export e goes on with step s, or ends with what it says of git.
GoOn(e, s) == at' = [at EXCEPT ![e] = s] /\ UNCHANGED result
Say(e, o) == at' = [at EXCEPT ![e] = "done"] /\ result' = [result EXCEPT ![e] = o]

\* resolve_source_gate: the fleet's report, or the copy exported before.
Source == IF report # None THEN report ELSE repo.text

AfterLog(e)  == IF opts[e].write /\ opts[e].git THEN "add" ELSE "done"

Begins(e) == at[e] = "idle" /\ \A d \in 1 .. e - 1 : at[d] # "idle"

Read(e) ==
    \E o \in Options :
        /\ Begins(e) /\ Source # None /\ (o.write \/ o.emit)
        /\ opts' = [opts EXCEPT ![e] = o]
        /\ text' = [text EXCEPT ![e] = Source]
        /\ met' = [d \in Exports |->
                     met[d] \/ IF d = e THEN \E c \in Exports : Running(c) ELSE Running(d)]
        /\ GoOn(e, IF o.write THEN "write" ELSE "log")
        /\ UNCHANGED <<repo, index, head, events, mishaps>>

\* Nothing to do, no source, a report gone since it was found or not readable.
ReadFails(e) ==
    \E o \in Options :
        /\ Begins(e)
        /\ IF Source = None \/ ~(o.write \/ o.emit) THEN UNCHANGED mishaps ELSE Mishap
        /\ GoOn(e, "failed")
        /\ UNCHANGED <<opts, text, met, repo, index, head, events>>

\* Mutant: a copy that cannot be written is passed over.
WriteGoesOn(e) ==
    /\ at[e] = "write"
    /\ \/ repo' = [text |-> text[e], by |-> e] /\ UNCHANGED mishaps
       \/ Mishap /\ UNCHANGED repo
    /\ GoOn(e, "log")
    /\ UNCHANGED <<opts, text, met, index, head, events>>

\* write_gate_to_repo: a temporary file of the process, renamed over the copy.
Write(e) ==
    /\ at[e] = "write"
    /\ \/ repo' = [text |-> text[e], by |-> e] /\ GoOn(e, "log") /\ UNCHANGED mishaps
       \/ Mishap /\ GoOn(e, "failed") /\ UNCHANGED repo
    /\ UNCHANGED <<opts, text, met, index, head, events>>

\* _guardian_for_verdict
GuardianStatus(v) ==
    CASE v = "pass" -> "allowed" [] v = "hold" -> "pending"
      [] v = "fail" -> "denied"  [] OTHER -> "not_required"

\* emit_gate_export_pel: best effort.
Log(e) ==
    /\ at[e] = "log"
    /\ \/ /\ opts[e].emit /\ UNCHANGED mishaps
          /\ events' = events \cup
               {[by |-> e, text |-> text[e], status |-> GuardianStatus(Verdict(text[e]))]}
       \/ opts[e].emit /\ Mishap /\ UNCHANGED events
       \/ ~opts[e].emit /\ UNCHANGED <<mishaps, events>>
    /\ GoOn(e, AfterLog(e))
    /\ UNCHANGED <<opts, text, met, repo, index, head>>

\* maybe_git_commit.  What is added and committed is the copy of the moment.
Add(e) ==
    /\ at[e] = "add"
    /\ \/ index' = repo.text /\ GoOn(e, "diff") /\ UNCHANGED mishaps
       \/ Mishap /\ Say(e, "git_add_failed") /\ UNCHANGED index
    /\ UNCHANGED <<opts, text, met, repo, head, events>>

\* Mutant: the difference between copy and index, not between index and commit.
DiffUnstaged(e) ==
    /\ at[e] = "diff"
    /\ IF index = repo.text THEN Say(e, "no_change") ELSE GoOn(e, "commit")
    /\ UNCHANGED <<opts, text, met, repo, index, head, events, mishaps>>

Diff(e) ==
    /\ at[e] = "diff"
    /\ IF index = head.text THEN Say(e, "no_change") ELSE GoOn(e, "commit")
    /\ UNCHANGED <<opts, text, met, repo, index, head, events, mishaps>>

\* commit -- path takes the working tree's copy, and fails if that has not
\* changed since the last commit.
Commit(e) ==
    /\ at[e] = "commit"
    /\ \/ /\ repo.text # head.text /\ Say(e, "ok") /\ UNCHANGED mishaps
          /\ head' = [text |-> repo.text, by |-> repo.by, says |-> e]
          /\ index' = repo.text
       \/ /\ IF repo.text # head.text THEN Mishap ELSE UNCHANGED mishaps
          /\ Say(e, "git_commit_failed") /\ UNCHANGED <<head, index>>
    /\ UNCHANGED <<opts, text, met, repo, events>>

Die(e) ==
    /\ Running(e) /\ Mishap
    /\ GoOn(e, "dead")
    /\ UNCHANGED <<opts, text, met, repo, index, head, events>>

Export(e) ==
    \/ Read(e) \/ ReadFails(e) \/ Write(e) \/ Log(e)
    \/ Add(e) \/ Diff(e) \/ Commit(e) \/ Die(e)

ExportNext == \E e \in Exports : Export(e)

\* The export by itself, with a report that is rewritten all the while.
ExportSpec ==
    /\ report \in Texts /\ mishaps = 0 /\ ExportInit
    /\ [][\/ ExportNext /\ UNCHANGED report
          \/ Rewrite /\ UNCHANGED exportVars]_<<report, mishaps, exportVars>>

-------------------------------------------------------------------------------
Steps == {"idle", "write", "log", "add", "diff", "commit", "done", "failed", "dead"}
Results == {"none", "git_add_failed", "no_change", "ok", "git_commit_failed"}

ExportTypeOK ==
    /\ at \in [Exports -> Steps] /\ opts \in [Exports -> Options \cup {NoOptions}]
    /\ text \in [Exports -> Texts] /\ result \in [Exports -> Results]
    /\ met \in [Exports -> BOOLEAN]
    /\ repo \in [text : Texts, by : 0 .. N] /\ index \in Texts
    /\ head \in [text : Texts, by : 0 .. N, says : 0 .. N]
    /\ events \subseteq [by : Exports, text : Reports,
                         status : {"allowed", "pending", "denied", "not_required"}]

\* What an export that met no other has written stays in the working tree
\* until a later one replaces it; and if it said that it committed, or that
\* there was nothing to commit, the last commit holds it, whatever step of
\* whichever export before had failed or died (gate_export.py:160).
ExportIsKept ==
    \A e \in Exports : at[e] = "done" /\ opts[e].write /\ ~met[e] =>
        /\ repo.by > e \/ repo = [text |-> text[e], by |-> e]
        /\ result[e] \in {"ok", "no_change"} => head.by > e \/ head.text = text[e]

\* The message of a commit names the verdict of the report that is in it,
\* unless its export met another (gate_export.py:341).
CommitIsTold ==
    head.says # 0 /\ ~met[head.says] => head.text = text[head.says]

\* Violated, see the README: what was exported last is what stays.
NewestIsKept ==
    \A e \in Exports : at[e] = "done" /\ opts[e].write => repo.by >= e

\* Violated, see PortfolioGateWords.cfg: no report that withholds the go is
\* logged as allowed, as _VERDICT_MAP (gate.py:12) has it.
NoGoIsDenied ==
    \A v \in events : v.status = "allowed" =>
        v.text.tokens \cap {"hold", "fail", "blocked", "no-go", "no go"} = {}
===============================================================================
