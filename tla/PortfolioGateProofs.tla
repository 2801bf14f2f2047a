-------------------------- MODULE PortfolioGateProofs --------------------------
(***************************************************************************)
(* Theorems about the exports of the gate report and the processes that    *)
(* read it, for any number of exports, processes, files and mishaps.       *)
(***************************************************************************)
EXTENDS PortfolioGate, TLAPS

-------------------------------------------------------------------------------
\* The active project

ProjectTypes ==
    /\ files \in [portfolio : Portfolios, context : Contexts, profile : Profiles]
    /\ ventures \in [Processes -> Portfolios]
    /\ context \in [Processes -> Contexts \cup {None}]
    /\ DOMAIN override = Processes
    /\ DOMAIN chosen = Processes
    /\ DOMAIN telling = Processes

\* Who was answered to have activated a venture has the override for it.
ChosenIsKept ==
    \A p \in Processes : chosen[p] # None =>
        override[p].venture = chosen[p] /\ override[p].source = "session"

\* What is being enriched is what the files read at its beginning say.
Enriched(p) ==
    telling[p].frame # None =>
        /\ telling[p].venture = VentureFor(p, telling[p].frame)
        /\ telling[p].active = ActiveVenture(p, ActiveSlug(telling[p].report))
        /\ telling[p].flag = "none"
EnrichedRight == \A p \in Processes : Enriched(p)

ProjectInv == ProjectTypes /\ ChosenIsKept /\ EnrichedRight

LEMMA InitProject == ASSUME Init PROVE ProjectInv
<1>1. ProjectTypes
  BY DEF Init, ProjectInit, ProjectTypes
<1>2. ChosenIsKept
  BY DEF Init, ProjectInit, ChosenIsKept
<1>3. EnrichedRight
  BY DEF Init, ProjectInit, EnrichedRight, Enriched, Told
<1> QED
  BY <1>1, <1>2, <1>3 DEF ProjectInv

\* A venture that is activated is the venture of the override: the registry
\* does not give its project to another (OwnEntry).
LEMMA SessionIsOwn ==
    ASSUME NEW p \in Processes, NEW id, ProjectTypes, Known(p, id)
    PROVE  Session(p, id).venture = id /\ Session(p, id).source = "session"
<1>1. PICK i \in DOMAIN ventures[p] : ventures[p][i].id = id
  BY DEF Known
<1>2. ventures[p] \in Portfolios /\ Context(p) \in Contexts
  BY DEF ProjectTypes, Context
<1>3. LET m == First(Context(p).table, "names", id) IN m = None \/ m.id = id
  BY <1>1, <1>2, OwnEntry
<1> QED
  BY <1>3 DEF Session, Project

LEMMA ProjectStep == ASSUME ProjectInv, [Next]_vars PROVE ProjectInv'
<1> USE DEF ProjectInv
<1>0. CASE UNCHANGED projectVars
  <2>1. UNCHANGED <<files, ventures, routes, context, override, chosen, telling>>
    BY <1>0 DEF projectVars
  <2> QED
    BY <2>1 DEF ProjectTypes, ChosenIsKept, EnrichedRight, Enriched, VentureFor, ActiveVenture
<1>1. ASSUME NEW p \in Processes, Activate(p) PROVE ProjectInv'
  <2>1. PICK q \in Queries :
          /\ Free(p) /\ Loaded(p)
          /\ IF Known(p, MatchVenture(p, q))
             THEN /\ override' = [override EXCEPT ![p] = Session(p, MatchVenture(p, q))]
                  /\ chosen' = [chosen EXCEPT ![p] = MatchVenture(p, q)]
             ELSE UNCHANGED <<override, chosen>>
          /\ UNCHANGED <<files, ventures, routes, telling>>
    BY <1>1 DEF Activate
  <2>2. ProjectTypes'
    BY <2>1 DEF ProjectTypes, Loaded, Context
  <2>3. ChosenIsKept'
    BY <2>1, SessionIsOwn DEF ChosenIsKept, ProjectTypes
  <2>4. EnrichedRight'
    BY <2>1 DEF EnrichedRight, Enriched, VentureFor, ActiveVenture
  <2> QED
    BY <2>2, <2>3, <2>4
<1>2. ASSUME NEW p \in Processes, Look(p) PROVE ProjectInv'
  BY <1>2 DEF Look, Loaded, Context, ProjectTypes, ChosenIsKept, EnrichedRight, Enriched,
              VentureFor, ActiveVenture
<1>3. ASSUME NEW p \in Processes, Reload(p) PROVE ProjectInv'
  <2>1. \A q \in Processes : q # p => routes'[q] = routes[q]
    BY <1>3 DEF Reload
  <2>2. EnrichedRight'
    BY <1>3, <2>1 DEF Reload, Free, EnrichedRight, Enriched, VentureFor, ActiveVenture
  <2> QED
    BY <1>3, <2>2 DEF Reload, ProjectTypes, ChosenIsKept
<1>4. ASSUME NEW p \in Processes, Enrich(p) PROVE ProjectInv'
  BY <1>4 DEF Enrich, ProjectTypes, ChosenIsKept, EnrichedRight, Enriched, VentureFor,
              ActiveVenture
<1>5. ASSUME NEW p \in Processes, EnrichFlag(p) PROVE ProjectInv'
  BY <1>5 DEF EnrichFlag, Told, ProjectTypes, ChosenIsKept, EnrichedRight, Enriched,
              VentureFor, ActiveVenture
<1>6. ASSUME NEW p \in Processes, Restart(p) PROVE ProjectInv'
  <2>1. ProjectTypes'
    BY <1>6 DEF Restart, ProjectTypes
  <2>2. ChosenIsKept'
    BY <1>6 DEF Restart, ProjectTypes, ChosenIsKept
  <2>3. EnrichedRight'
    BY <1>6 DEF Restart, Told, ProjectTypes, EnrichedRight, Enriched, VentureFor, ActiveVenture
  <2> QED
    BY <2>1, <2>2, <2>3
<1>7. ASSUME EditFiles PROVE ProjectInv'
  BY <1>7 DEF EditFiles, ProjectTypes, ChosenIsKept, EnrichedRight, Enriched, VentureFor,
              ActiveVenture
<1> QED
  BY <1>0, <1>1, <1>2, <1>3, <1>4, <1>5, <1>6, <1>7
  DEF Next, World, ProjectNext, vars

\* The system never works on another project than the one it last answered to
\* have activated, however the report, the files and the exports go on
\* (ecr.py:183, frame_runner.py:137).
THEOREM ActivatedStays == Spec => []ActivatedIsActive
<1>1. ASSUME ProjectInv PROVE ActivatedIsActive
  <2> SUFFICES ASSUME NEW p \in Processes, chosen[p] # None
               PROVE  /\ Target(p, None).venture = chosen[p]
                      /\ CatalogTarget(p) = Target(p, None)
                      /\ ScoutSlug(p) = ActionSlug(p)
    BY DEF ActivatedIsActive
  <2>1. override[p].venture = chosen[p] /\ override[p].source = "session"
    BY <1>1 DEF ProjectInv, ChosenIsKept
  <2>2. override[p] # NoProject
    BY <2>1 DEF NoProject, Project
  <2>3. \A slug : Target(p, slug) = override[p]
    BY <2>2 DEF Target
  <2> QED
    BY <2>1, <2>3 DEF CatalogTarget, ScoutSlug, ActionSlug
<1> QED
  BY <1>1, InitProject, ProjectStep, PTL DEF Spec

\* What is told of a frame's venture does not contradict itself, unless the
\* report changed between its two readings (router.py:12).
THEOREM TellingIsConsistent == Spec => TellingAgrees
<1> DEFINE Agrees(p) ==
      telling[p].frame # None /\ telling'[p].flag # "none" /\ telling[p].report = report =>
          (telling'[p].flag = "yes" <=>
              telling[p].venture # None /\ telling[p].venture = telling[p].active)
<1>1. ASSUME ProjectInv, [Next]_vars, NEW p \in Processes PROVE Agrees(p)
  <2>1. CASE telling'[p] = telling[p]
    BY <1>1, <2>1 DEF ProjectInv, EnrichedRight, Enriched
  <2>2. CASE telling'[p].flag = "none"
    BY <2>2
  <2>3. CASE EnrichFlag(p)
    <3>1. telling'[p].flag =
            LET a == ActiveVenture(p, ActiveSlug(report))
            IN IF a # None /\ VentureFor(p, telling[p].frame) = a THEN "yes" ELSE "no"
      BY <1>1, <2>3 DEF EnrichFlag, Told, ProjectInv, ProjectTypes
    <3> QED
      BY <1>1, <3>1 DEF ProjectInv, EnrichedRight, Enriched
  <2>4. ASSUME NEW q \in Processes, Activate(q) \/ Look(q) \/ Reload(q)
        PROVE  telling'[p] = telling[p]
    BY <2>4 DEF Activate, Look, Reload
  <2>5. ASSUME NEW q \in Processes, Enrich(q) \/ Restart(q)
        PROVE  telling'[p] = telling[p] \/ telling'[p].flag = "none"
    BY <1>1, <2>5 DEF Enrich, Restart, Told, ProjectInv, ProjectTypes
  <2>6. ASSUME NEW q \in Processes, EnrichFlag(q), q # p PROVE telling'[p] = telling[p]
    BY <1>1, <2>6 DEF EnrichFlag, ProjectInv, ProjectTypes
  <2> HIDE DEF Agrees
  <2> QED
    BY <1>1, <2>1, <2>2, <2>3, <2>4, <2>5, <2>6
    DEF Next, World, ProjectNext, EditFiles, vars, projectVars
<1>2. ASSUME ProjectInv, [Next]_vars PROVE [\A p \in Processes : Agrees(p)]_<<report, projectVars>>
  BY <1>1, <1>2
<1> QED
  BY <1>2, InitProject, ProjectStep, PTL DEF Spec, TellingAgrees

-------------------------------------------------------------------------------
\* The exports

\* The report an export goes on with is one that it has read, and it writes
\* only if it was asked to.
HasRead(e) ==
    /\ Running(e) => text[e] \in Reports
    /\ at[e] \in {"write", "add", "diff", "commit"} => opts[e].write
ReadFirst == \A e \in Exports : HasRead(e)

\* An export says nothing of git before its end.
Silent == \A e \in Exports : at[e] # "done" => result[e] = "none"

InOrder == \A e \in Exports : at[e] # "idle" => \A d \in 1 .. e - 1 : at[d] # "idle"

\* Two exports of which the older one still ran when the younger one had begun
\* know that they met.
Begun(e) == at[e] \notin {"idle", "failed"}
Met == \A d, e \in Exports : d < e /\ Running(d) /\ Begun(e) => met[d] /\ met[e]

\* The copy, and from git add on the index, are those of an export that is
\* under way and has met no other.
Alone(e) ==
    ~met[e] /\ opts[e].write =>
        /\ at[e] \in {"log", "add", "diff", "commit"} => repo = [text |-> text[e], by |-> e]
        /\ at[e] \in {"diff", "commit"} => index = text[e]
Undisturbed == \A e \in Exports : Alone(e)

CommitterBegan == head.says # 0 => at[head.says] # "idle"

\* ExportIsKept, one export at a time.
Kept(e) ==
    at[e] = "done" /\ opts[e].write /\ ~met[e] =>
        /\ repo.by > e \/ repo = [text |-> text[e], by |-> e]
        /\ result[e] \in {"ok", "no_change"} => head.by > e \/ head.text = text[e]

ExportInv ==
    /\ report \in Texts /\ ExportTypeOK
    /\ ReadFirst /\ Silent /\ InOrder /\ Met /\ Undisturbed
    /\ CommitterBegan /\ CommitIsTold /\ ExportIsKept

LEMMA InitExport == ASSUME Init PROVE ExportInv
<1>1. 0 \in 0 .. N
  BY ExportAssumption
<1>2. ExportTypeOK
  BY <1>1, ExportAssumption DEF Init, ExportInit, ExportTypeOK, Texts, Steps, Results
<1>3. ReadFirst /\ Silent /\ InOrder /\ Met /\ Undisturbed /\ ExportIsKept
  BY DEF Init, ExportInit, ReadFirst, HasRead, Silent, InOrder, Met, Undisturbed, Alone, ExportIsKept,
         Running, Begun, Exports
<1> QED
  BY <1>2, <1>3 DEF Init, ExportInit, ExportInv, CommitterBegan, CommitIsTold

\* What is not a step of an export changes none of the above.
LEMMA ExportStutters ==
    ASSUME ExportInv, UNCHANGED exportVars, report' \in Texts PROVE ExportInv'
BY DEF exportVars, ExportInv, ExportTypeOK, ReadFirst, HasRead, Silent, InOrder, Met, Undisturbed, Alone,
       CommitterBegan, CommitIsTold, ExportIsKept, Running, Begun

\* An export that runs while another one is under way, or is older than it,
\* has met it; so what it does cannot disturb one that met no other.
LEMMA OthersAreOlder ==
    ASSUME ExportInv, NEW d \in Exports, NEW e \in Exports, d # e, Running(d),
           Begun(e), ~met[e]
    PROVE  e < d /\ ~Running(e)
<1>1. d \in Nat /\ e \in Nat
  BY ExportAssumption DEF Exports
<1>2. Begun(d)
  BY DEF Running, Begun
<1> QED
  BY <1>1, <1>2 DEF ExportInv, Met

\* A step of an export under way, whatever it does to copy, index and commit:
\* what must be shown of the export itself is enough for all the others.
Goes(d, s, o) ==
    /\ at' = [at EXCEPT ![d] = s]
    /\ result' = result \/ (s = "done" /\ result' = [result EXCEPT ![d] = o])
    /\ UNCHANGED <<report, opts, text, met>>

Files ==
    /\ repo \in [text : Texts, by : 0 .. N] /\ index \in Texts
    /\ head \in [text : Texts, by : 0 .. N, says : 0 .. N]
    /\ events \subseteq [by : Exports, text : Reports,
                         status : {"allowed", "pending", "denied", "not_required"}]

LEMMA StepKeeps ==
    ASSUME ExportInv, NEW d \in Exports, Running(d),
           NEW s \in Steps \ {"idle"}, NEW o \in Results, Goes(d, s, o),
           Files', HasRead(d)', Alone(d)', Kept(d)',
           repo' = repo \/ repo'.by = d,
           head' = head \/ (repo' = repo /\ head'.text = repo.text /\ head'.by = repo.by
                              /\ head'.says = d /\ (~met[d] => repo.text = text[d]))
    PROVE  ExportInv'
<1>1. /\ at \in [Exports -> Steps] /\ result \in [Exports -> Results]
      /\ opts \in [Exports -> Options \cup {NoOptions}]
      /\ text \in [Exports -> Texts] /\ met \in [Exports -> BOOLEAN]
      /\ Files
  BY DEF ExportInv, ExportTypeOK, Files
<1>2. \A e \in Exports : e # d => at'[e] = at[e] /\ result'[e] = result[e]
  BY <1>1 DEF Goes
<1>3. at'[d] = s /\ at[d] # "idle" /\ s # "idle"
  BY <1>1 DEF Running, Goes
<1>4. \A e \in Exports : at'[e] = "idle" <=> at[e] = "idle"
  BY <1>2, <1>3
<1>5. ExportTypeOK' /\ report' \in Texts
  BY <1>1 DEF ExportTypeOK, ExportInv, Goes, Files
<1>6. InOrder'
  <2>1. \A e \in Exports : \A c \in 1 .. e - 1 : c \in Exports
    BY ExportAssumption DEF Exports
  <2> QED
    BY <1>4, <2>1 DEF InOrder, ExportInv
<1>7. Met'
  <2>1. \A e \in Exports : (Running(e)' => Running(e)) /\ (Begun(e)' => Begun(e))
    BY <1>2, <1>3 DEF Running, Begun
  <2> QED
    BY <2>1 DEF Met, ExportInv, Goes
<1>8. ReadFirst'
  <2>1. \A e \in Exports : e # d => HasRead(e)'
    BY <1>2 DEF ExportInv, ReadFirst, HasRead, Running, Goes
  <2> QED
    BY <2>1 DEF ReadFirst
<1>9. ASSUME NEW e \in Exports, e # d, ~met[e], Begun(e)
      PROVE  e < d /\ ~Running(e)
  BY <1>9, OthersAreOlder
<1>10. Undisturbed'
  <2>1. ASSUME NEW e \in Exports, e # d PROVE Alone(e)'
    BY <1>2, <1>9, <2>1 DEF Alone, Running, Begun, Goes
  <2> QED
    BY <2>1 DEF Undisturbed
<1>11. CommitterBegan'
  <2>1. head'.says = head.says \/ head'.says = d
    OBVIOUS
  <2>2. head.says \in 0 .. N
    BY <1>1 DEF Files
  <2>3. head.says # 0 => head.says \in Exports
    BY <2>2, ExportAssumption DEF Exports
  <2> QED
    BY <1>3, <1>4, <2>1, <2>3 DEF CommitterBegan, ExportInv
<1>12. CommitIsTold'
  BY DEF CommitIsTold, ExportInv, Goes
<1>13. ExportIsKept'
  <2>1. ASSUME NEW e \in Exports, e # d PROVE Kept(e)'
    <3> SUFFICES ASSUME at'[e] = "done", opts[e].write, ~met[e]
                 PROVE  /\ repo'.by > e \/ repo' = [text |-> text[e], by |-> e]
                        /\ result'[e] \in {"ok", "no_change"} =>
                             head'.by > e \/ head'.text = text[e]
      BY DEF Kept, Goes
    <3>1. at[e] = "done" /\ result'[e] = result[e]
      BY <1>2, <2>1
    <3>2. e < d
      BY <1>9, <2>1, <3>1 DEF Begun
    <3>3. /\ repo.by > e \/ repo = [text |-> text[e], by |-> e]
          /\ result[e] \in {"ok", "no_change"} => head.by > e \/ head.text = text[e]
      BY <3>1 DEF ExportInv, ExportIsKept
    <3>4. repo'.by > e \/ repo' = [text |-> text[e], by |-> e]
      BY <3>2, <3>3
    <3>5. head' # head => head'.by > e \/ head'.text = text[e]
      BY <3>3
    <3> QED
      BY <3>1, <3>3, <3>4, <3>5
  <2> QED
    BY <2>1 DEF ExportIsKept, Kept
<1>14. Silent'
  <2>1. result[d] = "none"
    BY DEF ExportInv, Silent, Running
  <2> QED
    BY <1>2, <1>3, <2>1 DEF Silent, ExportInv, Goes, Running
<1> QED
  BY <1>5, <1>6, <1>7, <1>8, <1>10, <1>11, <1>12, <1>13, <1>14 DEF ExportInv

\* An export that begins has met whoever is under way.
LEMMA ReadKeeps == ASSUME ExportInv, NEW e \in Exports, Read(e), UNCHANGED report
                   PROVE  ExportInv'
<1>1. PICK o \in Options :
        /\ Begins(e) /\ Source # None /\ (o.write \/ o.emit)
        /\ opts' = [opts EXCEPT ![e] = o]
        /\ text' = [text EXCEPT ![e] = Source]
        /\ met' = [d \in Exports |->
                     met[d] \/ IF d = e THEN \E c \in Exports : Running(c) ELSE Running(d)]
        /\ at' = [at EXCEPT ![e] = IF o.write THEN "write" ELSE "log"]
        /\ UNCHANGED <<result, repo, index, head, events>>
  BY DEF Read, GoOn
<1>2. /\ at \in [Exports -> Steps] /\ opts \in [Exports -> Options \cup {NoOptions}]
      /\ text \in [Exports -> Texts] /\ met \in [Exports -> BOOLEAN]
      /\ repo.text \in Texts /\ report \in Texts
  BY DEF ExportInv, ExportTypeOK
<1>3. Source \in Reports
  BY <1>1, <1>2 DEF Source, Texts
<1>4. ExportTypeOK'
  <2>1. at' \in [Exports -> Steps] /\ opts' \in [Exports -> Options \cup {NoOptions}]
    BY <1>1, <1>2 DEF Steps
  <2>2. text' \in [Exports -> Texts] /\ met' \in [Exports -> BOOLEAN]
    BY <1>1, <1>2, <1>3 DEF Texts
  <2> QED
    BY <1>1, <2>1, <2>2 DEF ExportInv, ExportTypeOK
<1>5. /\ at[e] = "idle" /\ at'[e] \in {"write", "log"} /\ text'[e] = Source
      /\ at'[e] = "write" <=> opts'[e].write
  BY <1>1, <1>2 DEF Begins
<1>6. \A d \in Exports : d # e => at'[d] = at[d] /\ text'[d] = text[d] /\ opts'[d] = opts[d]
  BY <1>1, <1>2
<1>7. ReadFirst'
  <2>1. \A d \in Exports : d # e => HasRead(d)'
    BY <1>6 DEF ExportInv, ReadFirst, HasRead, Running
  <2>2. HasRead(e)'
    BY <1>3, <1>5 DEF HasRead
  <2> QED
    BY <2>1, <2>2 DEF ReadFirst
<1>8. \A d \in Exports : d < e <=> d \in 1 .. e - 1
  BY ExportAssumption DEF Exports
<1>9. \A d \in Exports : d < e => at[d] # "idle"
  BY <1>1, <1>8 DEF Begins
<1>10. \A d \in Exports : e < d => at[d] = "idle"
  <2>1. ASSUME NEW d \in Exports, e < d PROVE at[d] = "idle"
    <3>1. e \in 1 .. d - 1
      BY <2>1, ExportAssumption DEF Exports
    <3> QED
      BY <1>5, <3>1 DEF ExportInv, InOrder
  <2> QED
    BY <2>1
<1>11. InOrder'
  <2>1. ASSUME NEW d \in Exports, at'[d] # "idle", NEW c \in 1 .. d - 1 PROVE at'[c] # "idle"
    <3>1. c \in Exports
      BY ExportAssumption DEF Exports
    <3>2. CASE c = e
      BY <1>5, <3>2
    <3>3. CASE c # e /\ d = e
      BY <1>1, <1>6, <2>1, <3>1, <3>3 DEF Begins
    <3>4. CASE c # e /\ d # e
      BY <1>6, <2>1, <3>1, <3>4 DEF ExportInv, InOrder
    <3> QED
      BY <3>2, <3>3, <3>4
  <2> QED
    BY <2>1 DEF InOrder
<1>12. Met'
  <2>1. ASSUME NEW c \in Exports, NEW d \in Exports, c < d, Running(c)', Begun(d)'
        PROVE  met'[c] /\ met'[d]
    <3>1. c \in Nat /\ d \in Nat /\ c # d
      BY <2>1, ExportAssumption DEF Exports
    <3>2. CASE d = e
      <4>1. Running(c)
        BY <1>6, <2>1, <3>1, <3>2 DEF Running
      <4> QED
        BY <1>1, <3>1, <3>2, <4>1
    <3>3. CASE c = e
      BY <1>6, <1>10, <2>1, <3>1, <3>3 DEF Begun
    <3>4. CASE c # e /\ d # e
      <4>1. Running(c) /\ Begun(d)
        BY <1>6, <2>1, <3>4 DEF Running, Begun
      <4> QED
        BY <1>1, <2>1, <4>1 DEF ExportInv, Met
    <3> QED
      BY <3>2, <3>3, <3>4
  <2> QED
    BY <2>1 DEF Met
<1>13. \A d \in Exports : ~met'[d] => ~met[d]
  BY <1>1
<1>14. Undisturbed'
  <2>1. \A d \in Exports : d # e => Alone(d)'
    BY <1>1, <1>6, <1>13 DEF ExportInv, Undisturbed, Alone
  <2>2. Alone(e)'
    BY <1>1, <1>5 DEF Alone
  <2> QED
    BY <2>1, <2>2 DEF Undisturbed
<1>15. head.says # 0 => head.says \in Exports /\ head.says # e /\ at[head.says] # "idle"
  <2>1. head.says \in 0 .. N
    BY DEF ExportInv, ExportTypeOK
  <2> QED
    BY <1>5, <2>1, ExportAssumption DEF Exports, ExportInv, CommitterBegan
<1>16. CommitterBegan' /\ CommitIsTold'
  BY <1>1, <1>6, <1>13, <1>15 DEF CommitterBegan, CommitIsTold, ExportInv
<1>17. ExportIsKept'
  <2>1. \A d \in Exports : d # e => Kept(d)'
    BY <1>1, <1>6, <1>13 DEF ExportInv, ExportIsKept, Kept
  <2>2. Kept(e)'
    BY <1>5 DEF Kept
  <2> QED
    BY <2>1, <2>2 DEF ExportIsKept, Kept
<1>18. Silent'
  BY <1>1, <1>5, <1>6 DEF Silent, ExportInv
<1> QED
  BY <1>2, <1>4, <1>7, <1>11, <1>12, <1>14, <1>16, <1>17, <1>18 DEF ExportInv

\* One that cannot begin has failed.
LEMMA ReadFailsKeeps == ASSUME ExportInv, NEW e \in Exports, ReadFails(e), UNCHANGED report
                        PROVE  ExportInv'
<1>1. /\ Begins(e) /\ at' = [at EXCEPT ![e] = "failed"]
      /\ UNCHANGED <<result, opts, text, met, repo, index, head, events>>
  BY DEF ReadFails, GoOn
<1>2. at \in [Exports -> Steps]
  BY DEF ExportInv, ExportTypeOK
<1>3. /\ at[e] = "idle" /\ at'[e] = "failed"
      /\ \A d \in Exports : d # e => at'[d] = at[d]
  BY <1>1, <1>2 DEF Begins
<1>4. ExportTypeOK'
  BY <1>1, <1>2 DEF ExportInv, ExportTypeOK, Steps
<1>5. ReadFirst' /\ Silent' /\ Undisturbed' /\ ExportIsKept'
  BY <1>1, <1>3 DEF ExportInv, ReadFirst, Silent, HasRead, Undisturbed, Alone, ExportIsKept, Running
<1>6. InOrder'
  <2>1. ASSUME NEW d \in Exports, at'[d] # "idle", NEW c \in 1 .. d - 1 PROVE at'[c] # "idle"
    <3>1. c \in Exports
      BY ExportAssumption DEF Exports
    <3>2. CASE d = e
      BY <1>1, <1>3, <3>1, <3>2 DEF Begins
    <3>3. CASE d # e
      BY <1>3, <2>1, <3>1, <3>3 DEF ExportInv, InOrder
    <3> QED
      BY <3>2, <3>3
  <2> QED
    BY <2>1 DEF InOrder
<1>7. Met'
  <2>1. ASSUME NEW c \in Exports, NEW d \in Exports, c < d, Running(c)', Begun(d)'
        PROVE  met'[c] /\ met'[d]
    <3>1. c # e /\ Running(c)
      BY <1>3, <2>1 DEF Running
    <3>2. d # e /\ Begun(d)
      BY <1>3, <2>1 DEF Begun
    <3> QED
      BY <1>1, <1>3, <2>1, <3>1, <3>2 DEF ExportInv, Met
  <2> QED
    BY <2>1 DEF Met
<1>8. CommitterBegan' /\ CommitIsTold'
  <2>1. head.says \in 0 .. N
    BY DEF ExportInv, ExportTypeOK
  <2> QED
    BY <1>1, <1>3, <2>1, ExportAssumption
    DEF Exports, CommitterBegan, CommitIsTold, ExportInv
<1> QED
  BY <1>1, <1>4, <1>5, <1>6, <1>7, <1>8 DEF ExportInv

-------------------------------------------------------------------------------
\* The steps of an export

LEMMA GoesOn ==
    ASSUME ExportInv, NEW e \in Exports, NEW s,
           GoOn(e, s), UNCHANGED <<report, opts, text, met>>
    PROVE  \E o \in Results : Goes(e, s, o)
<1>1. "none" \in Results
  BY DEF Results
<1>2. Goes(e, s, "none")
  BY DEF GoOn, Goes
<1> QED
  BY <1>1, <1>2

LEMMA SaysSo ==
    ASSUME NEW e \in Exports, NEW o, Say(e, o), UNCHANGED <<report, opts, text, met>>
    PROVE  Goes(e, "done", o)
BY DEF Say, Goes

\* The place and the answer after the step.
LEMMA Now ==
    ASSUME ExportInv, NEW e \in Exports, NEW s, NEW o, Goes(e, s, o)
    PROVE  /\ at'[e] = s /\ result'[e] \in {result[e], o}
           /\ text'[e] = text[e] /\ opts'[e] = opts[e] /\ met'[e] = met[e]
BY DEF ExportInv, ExportTypeOK, Goes

LEMMA WriteKeeps == ASSUME ExportInv, NEW e \in Exports, Write(e), UNCHANGED report
                    PROVE  ExportInv'
<1>1. /\ at[e] = "write" /\ UNCHANGED <<opts, text, met, index, head, events>>
      /\ \/ repo' = [text |-> text[e], by |-> e] /\ GoOn(e, "log")
         \/ GoOn(e, "failed") /\ UNCHANGED repo
  BY DEF Write
<1>2. Running(e) /\ text[e] \in Reports /\ e \in 0 .. N
  BY <1>1, ExportAssumption DEF Running, ExportInv, ReadFirst, HasRead, Exports
<1>3. Files
  BY DEF ExportInv, ExportTypeOK, Files
<1>4. PICK s \in {"log", "failed"} : /\ GoOn(e, s)
                                     /\ s = "log" => repo' = [text |-> text[e], by |-> e]
                                     /\ repo' = repo \/ repo' = [text |-> text[e], by |-> e]
  BY <1>1
<1>5. PICK o \in Results : Goes(e, s, o)
  BY <1>1, <1>4, GoesOn
<1>6. Files'
  BY <1>1, <1>2, <1>3, <1>4 DEF Files, Texts
<1>7. HasRead(e)' /\ Alone(e)' /\ Kept(e)'
  BY <1>2, <1>4, <1>5, Now DEF HasRead, Alone, Kept, Running
<1>8. repo' = repo \/ repo'.by = e
  BY <1>4
<1>9. s \in Steps \ {"idle"}
  BY DEF Steps
<1> QED
  BY <1>1, <1>2, <1>5, <1>6, <1>7, <1>8, <1>9, StepKeeps

LEMMA LogKeeps == ASSUME ExportInv, NEW e \in Exports, Log(e), UNCHANGED report
                  PROVE  ExportInv'
<1> DEFINE Event == [by |-> e, text |-> text[e], status |-> GuardianStatus(Verdict(text[e]))]
<1>1. /\ at[e] = "log" /\ UNCHANGED <<opts, text, met, repo, index, head>>
      /\ GoOn(e, AfterLog(e))
      /\ events' = events \cup {Event} \/ UNCHANGED events
  BY DEF Log
<1>2. Running(e) /\ text[e] \in Reports
  BY <1>1 DEF Running, ExportInv, ReadFirst, HasRead
<1>3. \A v : GuardianStatus(v) \in {"allowed", "pending", "denied", "not_required"}
  BY DEF GuardianStatus
<1>4. Event \in [by : Exports, text : Reports,
                 status : {"allowed", "pending", "denied", "not_required"}]
  BY <1>2, <1>3
<1>5. Files
  BY DEF ExportInv, ExportTypeOK, Files
<1> HIDE DEF Event
<1>6. Files'
  BY <1>1, <1>4, <1>5 DEF Files
<1>7. PICK o \in Results : Goes(e, AfterLog(e), o)
  BY <1>1, GoesOn
<1>8. /\ AfterLog(e) \in {"add", "done"} /\ (AfterLog(e) = "add" => opts[e].write)
      /\ AfterLog(e) \in Steps \ {"idle"}
  BY DEF AfterLog, Steps
<1>9. Alone(e)
  BY DEF ExportInv, Undisturbed
<1>10. HasRead(e)' /\ Alone(e)'
  BY <1>1, <1>2, <1>7, <1>8, <1>9, Now DEF HasRead, Alone, Running
<1>11. result'[e] = result[e]
  BY <1>1 DEF GoOn
<1>12. result[e] \notin {"ok", "no_change"}
  BY <1>1 DEF ExportInv, Silent
<1>13. Kept(e)'
  BY <1>1, <1>7, <1>9, <1>11, <1>12, Now DEF Kept, Alone
<1> QED
  BY <1>1, <1>2, <1>6, <1>7, <1>8, <1>10, <1>13, StepKeeps

LEMMA AddKeeps == ASSUME ExportInv, NEW e \in Exports, Add(e), UNCHANGED report
                  PROVE  ExportInv'
<1>1. /\ at[e] = "add" /\ UNCHANGED <<opts, text, met, repo, head, events>>
      /\ \/ index' = repo.text /\ GoOn(e, "diff")
         \/ Say(e, "git_add_failed") /\ UNCHANGED index
  BY DEF Add
<1>2. Running(e) /\ text[e] \in Reports /\ opts[e].write /\ Alone(e)
  BY <1>1 DEF Running, ExportInv, ReadFirst, HasRead, Undisturbed
<1>3. Files
  BY DEF ExportInv, ExportTypeOK, Files
<1>4. Files'
  BY <1>1, <1>3 DEF Files
<1>5. CASE index' = repo.text /\ GoOn(e, "diff")
  <2>1. PICK o \in Results : Goes(e, "diff", o)
    BY <1>1, <1>5, GoesOn
  <2>2. HasRead(e)' /\ Alone(e)' /\ Kept(e)'
    BY <1>1, <1>2, <1>5, <2>1, Now DEF HasRead, Alone, Kept, Running
  <2> QED
    BY <1>1, <1>2, <1>4, <2>1, <2>2, StepKeeps DEF Steps
<1>6. CASE Say(e, "git_add_failed")
  <2>1. Goes(e, "done", "git_add_failed") /\ "git_add_failed" \in Results
    BY <1>1, <1>6, SaysSo DEF Results
  <2>2. result'[e] = "git_add_failed"
    BY <1>6 DEF Say, ExportInv, ExportTypeOK
  <2>3. HasRead(e)' /\ Alone(e)' /\ Kept(e)'
    BY <1>1, <1>2, <2>1, <2>2, Now DEF HasRead, Alone, Kept, Running
  <2> QED
    BY <1>1, <1>2, <1>4, <2>1, <2>3, StepKeeps DEF Steps
<1> QED
  BY <1>1, <1>5, <1>6

LEMMA DiffKeeps == ASSUME ExportInv, NEW e \in Exports, Diff(e), UNCHANGED report
                   PROVE  ExportInv'
<1>1. /\ at[e] = "diff" /\ UNCHANGED <<opts, text, met, repo, index, head, events>>
      /\ IF index = head.text THEN Say(e, "no_change") ELSE GoOn(e, "commit")
  BY DEF Diff
<1>2. Running(e) /\ text[e] \in Reports /\ opts[e].write /\ Alone(e)
  BY <1>1 DEF Running, ExportInv, ReadFirst, HasRead, Undisturbed
<1>3. Files'
  BY <1>1 DEF ExportInv, ExportTypeOK, Files
<1>4. CASE index # head.text
  <2>1. PICK o \in Results : Goes(e, "commit", o)
    BY <1>1, <1>4, GoesOn
  <2>2. HasRead(e)' /\ Alone(e)' /\ Kept(e)'
    BY <1>1, <1>2, <2>1, Now DEF HasRead, Alone, Kept, Running
  <2> QED
    BY <1>1, <1>2, <1>3, <2>1, <2>2, StepKeeps DEF Steps
<1>5. CASE index = head.text
  <2>1. Goes(e, "done", "no_change") /\ "no_change" \in Results
    BY <1>1, <1>5, SaysSo DEF Results
  <2>2. HasRead(e)' /\ Alone(e)' /\ Kept(e)'
    BY <1>1, <1>2, <1>5, <2>1, Now DEF HasRead, Alone, Kept, Running
  <2> QED
    BY <1>1, <1>2, <1>3, <2>1, <2>2, StepKeeps DEF Steps
<1> QED
  BY <1>4, <1>5

LEMMA CommitKeeps == ASSUME ExportInv, NEW e \in Exports, Commit(e), UNCHANGED report
                     PROVE  ExportInv'
<1>1. /\ at[e] = "commit" /\ UNCHANGED <<opts, text, met, repo, events>>
      /\ \/ /\ Say(e, "ok") /\ index' = repo.text
            /\ head' = [text |-> repo.text, by |-> repo.by, says |-> e]
         \/ Say(e, "git_commit_failed") /\ UNCHANGED <<head, index>>
  BY DEF Commit
<1>2. Running(e) /\ text[e] \in Reports /\ opts[e].write /\ Alone(e) /\ e \in 0 .. N
  BY <1>1, ExportAssumption DEF Running, ExportInv, ReadFirst, HasRead, Undisturbed, Exports
<1>3. Files
  BY DEF ExportInv, ExportTypeOK, Files
<1>4. Files'
  BY <1>1, <1>2, <1>3 DEF Files
<1>5. PICK o \in {"ok", "git_commit_failed"} : Say(e, o) /\ (o = "ok" => head'.text = repo.text)
  BY <1>1
<1>6. Goes(e, "done", o) /\ o \in Results /\ result'[e] = o
  BY <1>1, <1>5, SaysSo DEF Results, Say, ExportInv, ExportTypeOK
<1>7. HasRead(e)' /\ Alone(e)' /\ Kept(e)'
  BY <1>1, <1>2, <1>5, <1>6, Now DEF HasRead, Alone, Kept, Running
<1>8. ~met[e] => repo.text = text[e]
  BY <1>1, <1>2 DEF Alone
<1> QED
  BY <1>1, <1>2, <1>4, <1>6, <1>7, <1>8, StepKeeps DEF Steps

LEMMA DieKeeps == ASSUME ExportInv, NEW e \in Exports, Die(e), UNCHANGED report
                  PROVE  ExportInv'
<1>1. /\ Running(e) /\ GoOn(e, "dead")
      /\ UNCHANGED <<opts, text, met, repo, index, head, events>>
  BY DEF Die
<1>2. Files'
  BY <1>1 DEF ExportInv, ExportTypeOK, Files
<1>3. PICK o \in Results : Goes(e, "dead", o)
  BY <1>1, GoesOn
<1>4. HasRead(e)' /\ Alone(e)' /\ Kept(e)'
  BY <1>1, <1>3, Now DEF HasRead, Alone, Kept, Running
<1> QED
  BY <1>1, <1>2, <1>3, <1>4, StepKeeps DEF Steps

LEMMA ExportStep == ASSUME ExportInv, [Next]_vars PROVE ExportInv'
<1>1. CASE ExportNext /\ UNCHANGED <<report, projectVars>>
  BY <1>1, ReadKeeps, ReadFailsKeeps, WriteKeeps, LogKeeps, AddKeeps, DiffKeeps, CommitKeeps,
     DieKeeps DEF ExportNext, Export
<1>2. CASE ProjectNext /\ UNCHANGED <<report, mishaps, exportVars>>
  BY <1>2, ExportStutters DEF ExportInv
<1>3. CASE World
  <2>1. report' \in Texts
    BY <1>3 DEF World, Rewrite, Texts, ExportInv
  <2> QED
    BY <1>3, <2>1, ExportStutters DEF World
<1>4. CASE UNCHANGED vars
  BY <1>4, ExportStutters DEF vars, ExportInv
<1> QED
  BY <1>1, <1>2, <1>3, <1>4 DEF Next

\* What is exported stays exported, for any number of exports that fail, die or
\* overlap with others (gate_export.py:160).
THEOREM ExportStays == Spec => []ExportIsKept
<1>1. ExportInv => ExportIsKept
  BY DEF ExportInv
<1> QED
  BY <1>1, InitExport, ExportStep, PTL DEF Spec

\* A commit's message tells of the report that is in it (gate_export.py:341).
THEOREM CommitTells == Spec => []CommitIsTold
<1>1. ExportInv => CommitIsTold
  BY DEF ExportInv
<1> QED
  BY <1>1, InitExport, ExportStep, PTL DEF Spec

\* Every variable of the exports keeps its type.
THEOREM ExportTypes == Spec => []ExportTypeOK
<1>1. ExportInv => ExportTypeOK
  BY DEF ExportInv
<1> QED
  BY <1>1, InitExport, ExportStep, PTL DEF Spec
===============================================================================
