----------------------------- MODULE ActiveProject -----------------------------
(***************************************************************************)
(* Which project the system works on: the Execution Context Registry and   *)
(* the session's override (portfolio/ecr.py), the project selector         *)
(* (portfolio/projects.py), the portfolio of ventures (aether/portfolio.py)*)
(* and what is told of a frame's venture (aether/router.py).               *)
(*                                                                         *)
(* The API and the voice agent are processes with a memory of their own;   *)
(* their files and the gate report change under them.                      *)
(***************************************************************************)
EXTENDS GateReport

CONSTANTS
    Processes,      \* the API, the voice agent
    Queries,        \* what clients ask to activate
    Frames,         \* decision frames
    Portfolios,     \* portfolio files: sequences of ventures
    Contexts,       \* execution-context.yaml, or the table built in without it
    Profiles,       \* active slugs of fleet-profile.md
    EnvSlug         \* FM_HERMES_PROJECT, or None

VARIABLES
    files,          \* the portfolio, context and profile on disk
    ventures,       \* ventures[p]: VENTURES as p's modules imported it
    routes,         \* routes[p]: the portfolio's own VENTURES, rebound by a reload
    context,        \* context[p]: _CONTEXT, None until it is read
    override,       \* override[p]: _SESSION_OVERRIDE, or NoProject
    chosen,         \* chosen[p]: the venture p last answered to have activated
    telling         \* telling[p]: the detail of the frame p is enriching

projectVars == <<files, ventures, routes, context, override, chosen, telling>>

\* The functions that look for a project by name each take the first entry
\* that fits, by rules of their own: key k of an entry is the names that fit.
First(entries, k, x) ==
    LET fits == {i \in DOMAIN entries : x \in entries[i][k]}
    IN IF fits = {} THEN None
       ELSE entries[CHOOSE i \in fits : \A j \in fits : i <= j]

\* The registry finds a venture of the portfolio by its id, or not at all.
ASSUME OwnEntry ==
    \A c \in Contexts, f \in Portfolios : \A i \in DOMAIN f :
        /\ f[i].id # None
        /\ LET m == First(c.table, "names", f[i].id) IN m = None \/ m.id = f[i].id

Project(v, s, from) == [venture |-> v, slug |-> s, source |-> from]
NoProject == Project(None, None, "none")

\* Nothing is being enriched; the flag is the last one told.
Told(flag) == [frame |-> None, venture |-> None, report |-> None, active |-> None,
               flag |-> flag]

ProjectInit ==
    /\ files \in [portfolio : Portfolios, context : Contexts, profile : Profiles]
    /\ ventures = [p \in Processes |-> files.portfolio]
    /\ routes = ventures
    /\ context = [p \in Processes |-> None]
    /\ override = [p \in Processes |-> NoProject]
    /\ chosen = [p \in Processes |-> None]
    /\ telling = [p \in Processes |-> Told("none")]

-------------------------------------------------------------------------------
\* What is read of the registry

\* load_execution_context: read once in the life of a process.
Context(p) == IF context[p] = None THEN files.context ELSE context[p]
Loaded(p) == context' = [context EXCEPT ![p] = Context(p)]

\* Mutant: the slug of the gate goes before the session.
TargetOfGate(p, slug) ==
    LET c == Context(p)
        m == First(c.table, "names", slug)
    IN IF m # None THEN Project(m.id, m.slug, "gate")
       ELSE IF override[p] # NoProject THEN override[p]
       ELSE Project(c.active.id, c.active.slug, IF c.fromFile THEN "ecr" ELSE "fallback")

\* The registry names no slug for its target.
LastResort(c) ==
    LET slug == IF EnvSlug = None THEN "clapart" ELSE EnvSlug
        m == First(c.table, "names", slug)
    IN Project(IF m = None THEN "firstmate-fleet" ELSE m.id, slug, "fallback")

\* resolve_execution_target
Target(p, slug) ==
    LET c == Context(p)
        m == First(c.table, "names", slug)
        n == First(c.table, "names", EnvSlug)
    IN IF override[p] # NoProject THEN override[p]
       ELSE IF m # None THEN Project(m.id, m.slug, "gate")
       ELSE IF ~c.fromFile /\ EnvSlug # None
       THEN Project(IF n = None THEN None ELSE n.id, EnvSlug, "fallback")
       ELSE IF c.active.slug # None
       THEN Project(c.active.id, c.active.slug, IF c.fromFile THEN "ecr" ELSE "fallback")
       ELSE LastResort(c)

\* The four that ask: the project of a fleet action, the one that the fleet
\* scout tells of, those of the selector and of the Aether status.
ActionSlug(p) == Target(p, None).slug
ScoutSlug(p) ==
    IF Target(p, None).source # "session" /\ files.profile # None
    THEN files.profile ELSE Target(p, None).slug
CatalogTarget(p) == Target(p, ActiveSlug(report))

\* The venture of a query: of the portfolio, else of the registry.
MatchVenture(p, q) ==
    LET v == First(ventures[p], "called", q)
        m == First(Context(p).table, "exact", q)
    IN IF v # None THEN v.id ELSE IF m # None THEN m.id ELSE q

Known(p, id) == \E i \in DOMAIN ventures[p] : ventures[p][i].id = id

-------------------------------------------------------------------------------
\* A process that reads the report twice does nothing in between.
Free(p) == telling[p].frame = None

\* activate_project; a venture outside the portfolio is an error.
Session(p, id) ==
    LET m == First(Context(p).table, "names", id)
    IN IF m = None THEN Project(id, id, "session") ELSE Project(m.id, m.slug, "session")

Activate(p) ==
    \E q \in Queries :
        /\ Free(p) /\ Loaded(p)
        /\ IF Known(p, MatchVenture(p, q))
           THEN /\ override' = [override EXCEPT ![p] = Session(p, MatchVenture(p, q))]
                /\ chosen' = [chosen EXCEPT ![p] = MatchVenture(p, q)]
           ELSE UNCHANGED <<override, chosen>>
        /\ UNCHANGED <<files, ventures, routes, telling>>

\* A selector, a status, a scout or an action that is asked for.
Look(p) ==
    /\ Free(p) /\ context[p] = None /\ Loaded(p)
    /\ UNCHANGED <<files, ventures, routes, override, chosen, telling>>

\* POST /api/aether/reload rebinds the portfolio's own names; the modules that
\* imported VENTURES keep theirs.
Reload(p) ==
    /\ Free(p) /\ routes' = [routes EXCEPT ![p] = files.portfolio]
    /\ UNCHANGED <<files, ventures, context, override, chosen, telling>>

Restart(p) ==
    /\ Mishap
    /\ ventures' = [ventures EXCEPT ![p] = files.portfolio]
    /\ routes' = [routes EXCEPT ![p] = files.portfolio]
    /\ context' = [context EXCEPT ![p] = None]
    /\ override' = [override EXCEPT ![p] = NoProject]
    /\ chosen' = [chosen EXCEPT ![p] = None]
    /\ telling' = [telling EXCEPT ![p] = Told("none")]
    /\ UNCHANGED files

EditFiles ==
    /\ Mishap
    /\ files' \in [portfolio : Portfolios, context : Contexts, profile : Profiles]
    /\ files' # files
    /\ UNCHANGED <<ventures, routes, context, override, chosen, telling>>

-------------------------------------------------------------------------------
\* enrich_frame_context reads the report, and venture_is_active_for_frame reads
\* it again for the flag.
VentureFor(p, f) ==
    LET v == First(routes[p], "frames", f) IN IF v = None THEN None ELSE v.id
ActiveVenture(p, slug) ==
    LET v == First(ventures[p], "names", slug) IN IF v = None THEN None ELSE v.id

Enrich(p) ==
    \E f \in Frames :
        /\ Free(p)
        /\ telling' = [telling EXCEPT ![p] =
               [frame |-> f, venture |-> VentureFor(p, f), report |-> report,
                active |-> ActiveVenture(p, ActiveSlug(report)),
                flag |-> "none"]]
        /\ UNCHANGED <<files, ventures, routes, context, override, chosen>>

\* Mutant: the flag compares the routed venture with the slug as written.
EnrichFlagSlug(p) ==
    /\ ~Free(p)
    /\ telling' = [telling EXCEPT ![p] =
           Told(IF telling[p].venture # None /\ telling[p].venture = ActiveSlug(report)
                THEN "yes" ELSE "no")]
    /\ UNCHANGED <<files, ventures, routes, context, override, chosen>>

EnrichFlag(p) ==
    /\ ~Free(p)
    /\ telling' = [telling EXCEPT ![p] =
           LET a == ActiveVenture(p, ActiveSlug(report))
           IN Told(IF a # None /\ VentureFor(p, telling[p].frame) = a THEN "yes" ELSE "no")]
    /\ UNCHANGED <<files, ventures, routes, context, override, chosen>>

ProjectNext ==
    \E p \in Processes :
        \/ Activate(p) \/ Look(p) \/ Reload(p) \/ Enrich(p) \/ EnrichFlag(p)

-------------------------------------------------------------------------------
\* What was answered to have been activated is what everything works on until
\* the next activation: the action that is dispatched, the queue the scout
\* reads out, the selector and the status, whatever the gate report, the
\* profile and the registry have come to say (ecr.py:183, frame_runner.py:137).
ActivatedIsActive ==
    \A p \in Processes : chosen[p] # None =>
        /\ Target(p, None).venture = chosen[p]
        /\ CatalogTarget(p) = Target(p, None)
        /\ ScoutSlug(p) = ActionSlug(p)

\* A frame is told to be of the gate's active venture if and only if the
\* venture told with it is the active one told with it, unless the report was
\* changed between the two times it is read (router.py:12).
TellingAgrees ==
    [][\A p \in Processes :
         telling[p].frame # None /\ telling'[p].flag # "none" /\ telling[p].report = report =>
             (telling'[p].flag = "yes" <=>
                 telling[p].venture # None /\ telling[p].venture = telling[p].active)
      ]_<<report, projectVars>>

\* Violated, see the README: an active venture that is told is one
\* of the portfolio that is served, as service.py:45 answers after a reload.
ReloadIsSeen ==
    \A p \in Processes : telling[p].active # None =>
        \E i \in DOMAIN routes[p] : routes[p][i].id = telling[p].active

\* Violated, see the README: an action goes by the same rules as
\* the fleet scout, as trigger.py:60 says.
ScoutAgrees == \A p \in Processes : ScoutSlug(p) = ActionSlug(p)

\* Violated, see PortfolioGateRooms.cfg: the room and the page work on one
\* project.
OneProject == \A p, q \in Processes : ActionSlug(p) = ActionSlug(q)
===============================================================================
