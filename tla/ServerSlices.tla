------------------------------ MODULE ServerSlices ------------------------------
(***************************************************************************)
(* Runs of several agents on the server: a preset, a chain of presets, a   *)
(* list of frames or all six, in waves (routing/slice_orchestration.py,    *)
(* routing/orchestrator.py), followed by a memory of the run and a job for *)
(* every squad (squads/).  Requests of the API and of the command line     *)
(* share the agents' cache in Redis.                                       *)
(*                                                                         *)
(* The frames of a wave run at once.  If one raises, the request fails at  *)
(* once and the others of its wave go on.                                  *)
(***************************************************************************)
EXTENDS Naturals, FiniteSets, SequencesExt

CONSTANTS
    None,           \* no mode, nothing counted
    N,              \* requests, numbered in the order in which they begin
    Asks,           \* what clients ask for
    Catalog,        \* FRAMES: the frames in order
    Presets,        \* SLICE_PRESETS: id -> [ids, mode]
    Chains,         \* PRESET_CHAINS: id -> [presets, dispatchAfter]
    Squads,         \* SQUADS
    MaxMishaps      \* bound on frames that raise and answers that are lost

VARIABLES
    at,             \* at[r]: where request r is
    ask,            \* ask[r]: what it was asked
    todo,           \* todo[r]: its waves; the first one is running
    tasks,          \* tasks[r]: the frames of that wave
    results,        \* results[r]: the results of the waves before
    counted,        \* counted[r]: the agents its pulse counted as warm, or None
    kept,           \* kept[f]: status of the answer in the cache of frame f's agent
    jobs,           \* the jobs of the squads
    retained,       \* requests remembered
    queued,         \* queued[r]: deep reviews that r put in the queue
    deferred,       \* deferred[r]: those it answers as queued without an id
    raised,         \* requests a frame of which raised
    lost,           \* frames an answer of which was not kept
    mishaps

slices == <<at, ask, todo, tasks, results, counted, kept, jobs, retained, queued,
          deferred, raised, lost, mishaps>>

Requests == 1 .. N
Pulse == "systems_pulse"
Review == "queue_deep_review"
Parts == <<"fleet_status", "open_briefs">>

Cacheable == {"ok", "confirmation_required"}

Modes == {"parallel", "wave", "stagger"}

Stage == [ids : Seq(STRING), mode : Modes]

\* guarded: whether confirmations are required in the process that serves it.
Ask == [kind : {"six", "preset", "chain", "frames", "squad", "squads"}, id : STRING,
        ids : Seq(STRING), mode : Modes \cup {None}, confirmed : BOOLEAN,
        guarded : BOOLEAN, refresh : BOOLEAN, dispatch : BOOLEAN, retain : BOOLEAN]

ASSUME SliceAssumption ==
    /\ N \in Nat /\ MaxMishaps \in Nat
    /\ Catalog \in Seq(STRING)
    /\ {Pulse, Parts[1], Parts[2]} \subseteq ToSet(Catalog)
    /\ \A p \in DOMAIN Presets : Presets[p] \in Stage
    /\ \A c \in DOMAIN Chains : Chains[c].presets \in Seq(DOMAIN Presets)
    /\ \A q \in Asks :
         /\ q \in Ask
         /\ q.kind = "preset" => q.id \in DOMAIN Presets
         /\ q.kind = "chain" => q.id \in DOMAIN Chains
         /\ q.kind = "squad" => q.id \in Squads

Mishap == mishaps < MaxMishaps /\ mishaps' = mishaps + 1

-------------------------------------------------------------------------------
\* What is run, in which order

Known(f) == f \in ToSet(Catalog)

\* The frames of a list that are in F, in their order.
Only(ids, F) ==
    LET upTo[i \in 0 .. Len(ids)] ==
          IF i = 0 THEN <<>>
          ELSE IF ids[i] \in F THEN Append(upTo[i - 1], ids[i]) ELSE upTo[i - 1]
    IN upTo[Len(ids)]

\* Mutant: the pulse runs in its place.
InPlace(ids) == ids

\* order_pulse_last, without the frames that the catalog does not have.
PulseLast(ids) ==
    Only(ids, ToSet(ids) \ {Pulse}) \o
        (IF Pulse \in ToSet(ids) THEN <<Pulse>> ELSE <<>>)

\* chunk_frame_waves: all at once, in pairs, one by one.
Chunks(ids, mode) ==
    LET size == CASE mode = "parallel" -> Len(ids) [] mode = "wave" -> 2 [] OTHER -> 1
        count == IF ids = <<>> THEN 0 ELSE (Len(ids) + size - 1) \div size
        last(i) == IF i * size < Len(ids) THEN i * size ELSE Len(ids)
    IN [i \in 1 .. count |-> SubSeq(ids, (i - 1) * size + 1, last(i))]

Waves(stage) == Chunks(Only(PulseLast(stage.ids), ToSet(Catalog)), stage.mode)

\* run_all_specialist_frames: everything else at once, then the pulse.
Six == <<[ids |-> Only(Catalog, ToSet(Catalog) \ {Pulse}), mode |-> "parallel"],
         [ids |-> <<Pulse>>, mode |-> "stagger"]>>

\* resolve_slice_run; a chain runs in the modes of its presets.
Stages(q) ==
    LET Moded(stage, mode) == IF q.mode = None THEN [stage EXCEPT !.mode = mode]
                              ELSE [stage EXCEPT !.mode = q.mode]
    IN CASE q.kind = "six"    -> Six
         [] q.kind = "preset" -> <<Moded(Presets[q.id], Presets[q.id].mode)>>
         [] q.kind = "chain"  -> [i \in DOMAIN Chains[q.id].presets |->
                                    Presets[Chains[q.id].presets[i]]]
         [] q.kind = "frames" -> <<Moded([ids |-> q.ids, mode |-> None], "parallel")>>
         [] OTHER             -> <<>>

Plan(q) == FlattenSeq([i \in DOMAIN Stages(q) |-> Waves(Stages(q)[i])])

Dispatches(q) == q.dispatch \/ (q.kind = "chain" /\ Chains[q.id].dispatchAfter)

SquadsOf(q) == IF q.kind = "squad" THEN {q.id} ELSE Squads

-------------------------------------------------------------------------------
Task(f, s, v) == [frame |-> f, at |-> s, status |-> v]

\* Mutant: an answer in the cache is good for a confirmed run too.
StartFromCache(f, confirmed, refresh) ==
    IF ~refresh /\ kept[f] = "ok" THEN Task(f, "done", "ok") ELSE Task(f, "run", "none")

\* run_frame up to its first await.
Start(f, confirmed, refresh) ==
    IF ~refresh /\ ~confirmed /\ kept[f] = "ok"
    THEN Task(f, "done", "ok") ELSE Task(f, "run", "none")

\* The tasks of a wave begin back to back; the pulse has two of its own.
StartWave(w, q) ==
    [i \in DOMAIN w |-> Start(w[i], q.confirmed, q.refresh)]
        \o IF Pulse \in ToSet(w) THEN [i \in {1, 2} |-> Task(Parts[i], "none", "none")]
           ELSE <<>>

SlicesInit ==
    /\ at = [r \in Requests |-> "idle"]
    /\ ask = [r \in Requests |-> None]
    /\ todo = [r \in Requests |-> <<>>]
    /\ tasks = [r \in Requests |-> <<>>]
    /\ results = [r \in Requests |-> <<>>]
    /\ counted = [r \in Requests |-> None]
    /\ kept = [f \in ToSet(Catalog) |-> "none"]
    /\ jobs = {} /\ retained = {} /\ raised = {} /\ lost = {} /\ mishaps = 0
    /\ queued = [r \in Requests |-> 0] /\ deferred = [r \in Requests |-> 0]

-------------------------------------------------------------------------------
\* Where requests come from

Receive(r, q) ==
    /\ at[r] = "idle" /\ \A s \in 1 .. r - 1 : at[s] # "idle"
    /\ ask' = [ask EXCEPT ![r] = q]
    /\ todo' = [todo EXCEPT ![r] = Plan(q)]
    /\ IF Plan(q) = <<>>
       THEN at' = [at EXCEPT ![r] = "dispatch"] /\ UNCHANGED tasks
       ELSE /\ at' = [at EXCEPT ![r] = "frames"]
            /\ tasks' = [tasks EXCEPT ![r] = StartWave(Head(Plan(q)), q)]
    /\ UNCHANGED <<results, counted, kept, jobs, retained, queued, deferred, raised,
                   lost, mishaps>>

\* POST /api/agents/orchestrate: every frame named must be in the catalog.
Orchestrate(r) ==
    \E q \in Asks :
        /\ q.kind \in {"preset", "chain", "frames"} /\ q.retain
        /\ \A i \in DOMAIN q.ids : Known(q.ids[i])
        /\ Receive(r, q)

\* POST /api/agents/run-all, /api/agents/run-six
RunSix(r) == \E q \in Asks : q.kind = "six" /\ q.retain /\ Receive(r, q)

\* POST /api/squads/dispatch, /api/squads/dispatch-all
DispatchSquads(r) == \E q \in Asks : q.kind \in {"squad", "squads"} /\ Receive(r, q)

\* The command line confirms everything.
CommandLine(r) ==
    \E q \in Asks : q.kind \in {"six", "preset", "chain"} /\ q.confirmed /\ Receive(r, q)

-------------------------------------------------------------------------------
\* A wave.  Tasks go on when their request has failed.

Move(r, i, t) == tasks' = [tasks EXCEPT ![r][i] = t]

\* evaluate_frame_confirmation
Proceeds(q) == q.confirmed \/ ~q.guarded

Outcomes(f, q) ==
    CASE f = Review -> {IF Proceeds(q) THEN "ok" ELSE "confirmation_required"}
      [] f = "open_briefs" -> {"ok"}
      [] OTHER -> {"ok", "degraded"}

\* enqueue_review: with no database, or one that fails, no row is added; with
\* one that fails late a row is, and its id is lost.  Without an id the frame
\* answers that the review is queued all the same.
Enqueue(r) ==
    \/ /\ queued' = [queued EXCEPT ![r] = @ + 1]
       /\ UNCHANGED deferred
    \/ /\ queued' \in {queued, [queued EXCEPT ![r] = @ + 1]}
       /\ deferred' = [deferred EXCEPT ![r] = @ + 1]

\* The frame's own work; a review that may go on is put in the queue.
Work(r, i) ==
    LET t == tasks[r][i] IN
    /\ t.at = "run" /\ t.frame # Pulse
    /\ \E s \in Outcomes(t.frame, ask[r]) : Move(r, i, Task(t.frame, "post", s))
    /\ IF t.frame = Review /\ Proceeds(ask[r]) THEN Enqueue(r)
       ELSE UNCHANGED <<queued, deferred>>
    /\ UNCHANGED <<at, ask, todo, results, counted, kept, jobs, retained, raised,
                   lost, mishaps>>

\* run_systems_pulse: fleet and briefs at once, never confirmed.
Fork(r, i) ==
    LET n == Len(tasks[r]) IN
    /\ tasks[r][i].frame = Pulse /\ tasks[r][i].at = "run"
    /\ tasks' = [tasks EXCEPT
                   ![r][i] = Task(Pulse, "parts", "none"),
                   ![r][n - 1] = Start(Parts[1], FALSE, ask[r].refresh),
                   ![r][n] = Start(Parts[2], FALSE, ask[r].refresh)]
    /\ UNCHANGED <<at, ask, todo, results, counted, kept, jobs, retained, queued,
                   deferred, raised, lost, mishaps>>

WarmAgents == {f \in DOMAIN kept : kept[f] # "none"}

\* synthesize_systems_pulse
Tell(r, i) ==
    LET n == Len(tasks[r])
        parts == {tasks[r][n - 1], tasks[r][n]}
    IN
    /\ tasks[r][i].at = "parts" /\ \A t \in parts : t.at = "done"
    /\ counted' = [counted EXCEPT ![r] = WarmAgents]
    /\ Move(r, i, Task(Pulse, "post", IF \A t \in parts : t.status = "ok"
                                      THEN "ok" ELSE "degraded"))
    /\ UNCHANGED <<at, ask, todo, results, kept, jobs, retained, queued, deferred,
                   raised, lost, mishaps>>

\* cache_frame_run; Redis may be away.
KeepAnswer(r, i) ==
    LET t == tasks[r][i] IN
    /\ t.at = "post" /\ Move(r, i, Task(t.frame, "done", t.status))
    /\ \/ /\ t.status \in Cacheable /\ UNCHANGED <<lost, mishaps>>
          /\ kept' = [kept EXCEPT ![t.frame] = t.status]
       \/ t.status \in Cacheable /\ Mishap /\ lost' = lost \cup {t.frame} /\ UNCHANGED kept
       \/ t.status \notin Cacheable /\ UNCHANGED <<kept, lost, mishaps>>
    /\ UNCHANGED <<at, ask, todo, results, counted, jobs, retained, queued,
                   deferred, raised>>

\* A frame raises, in its work or when its result is enriched; with a part of
\* the pulse the pulse does.
Broken(r, i) ==
    [j \in DOMAIN tasks[r] |->
        IF j = i \/ (tasks[r][j].at = "parts" /\ i > Len(tasks[r]) - 2)
        THEN Task(tasks[r][j].frame, "raised", "none") ELSE tasks[r][j]]

\* Mutant: the exceptions of a wave are taken for results.
RaiseGoesOn(r, i) ==
    /\ tasks[r][i].at \in {"run", "post"} /\ Mishap
    /\ tasks' = [tasks EXCEPT ![r][i] = Task(tasks[r][i].frame, "done", "error")]
    /\ raised' = raised \cup {r}
    /\ UNCHANGED <<at, ask, todo, results, counted, kept, jobs, retained, queued,
                   deferred, lost>>

Raise(r, i) ==
    /\ tasks[r][i].at \in {"run", "post"} /\ Mishap
    /\ tasks' = [tasks EXCEPT ![r] = Broken(r, i)]
    /\ at' = [at EXCEPT ![r] = "failed"] /\ raised' = raised \cup {r}
    /\ UNCHANGED <<ask, todo, results, counted, kept, jobs, retained, queued,
                   deferred, lost>>

\* The wave is over: the next one, or what follows the frames.
EndWave(r) ==
    LET w == Head(todo[r])
        more == Tail(todo[r])
    IN
    /\ at[r] = "frames" /\ \A i \in DOMAIN w : tasks[r][i].at = "done"
    /\ results' = [results EXCEPT ![r] = @ \o
           [i \in DOMAIN w |-> [frame |-> w[i], status |-> tasks[r][i].status]]]
    /\ todo' = [todo EXCEPT ![r] = more]
    /\ tasks' = [tasks EXCEPT ![r] =
                   IF more = <<>> THEN <<>> ELSE StartWave(Head(more), ask[r])]
    /\ at' = [at EXCEPT ![r] = IF more # <<>> THEN "frames"
                               ELSE IF ask[r].retain THEN "retain"
                               ELSE IF Dispatches(ask[r]) THEN "dispatch" ELSE "done"]
    /\ UNCHANGED <<ask, counted, kept, jobs, retained, queued, deferred, raised,
                   lost, mishaps>>

-------------------------------------------------------------------------------
\* After the frames

\* retain_orchestration_memory: best effort.
Retain(r) ==
    /\ at[r] = "retain"
    /\ \/ retained' = retained \cup {r} /\ UNCHANGED mishaps
       \/ Mishap /\ UNCHANGED retained
    /\ at' = [at EXCEPT ![r] = IF Dispatches(ask[r]) THEN "dispatch" ELSE "done"]
    /\ UNCHANGED <<ask, todo, tasks, results, counted, kept, jobs, queued, deferred,
                   raised, lost>>

Posted(r) == {j.squad : j \in {k \in jobs : k.by = r}}

\* dispatch_squad_job: a deep review is refused without a confirmation.
Dispatch(r) ==
    /\ at[r] = "dispatch"
    /\ \E s \in SquadsOf(ask[r]) \ Posted(r) :
         \/ /\ s # "review-squad" \/ ask[r].confirmed
            /\ jobs' = jobs \cup {[by |-> r, squad |-> s, ok |-> TRUE]} /\ UNCHANGED mishaps
         \/ /\ s # "review-squad" \/ ask[r].confirmed
            /\ jobs' = jobs \cup {[by |-> r, squad |-> s, ok |-> FALSE]} /\ Mishap
         \/ /\ s = "review-squad" /\ ~ask[r].confirmed
            /\ jobs' = jobs \cup {[by |-> r, squad |-> s, ok |-> FALSE]} /\ UNCHANGED mishaps
    /\ UNCHANGED <<at, ask, todo, tasks, results, counted, kept, retained, queued,
                   deferred, raised, lost>>

Respond(r) ==
    /\ at[r] = "dispatch" /\ SquadsOf(ask[r]) = Posted(r)
    /\ at' = [at EXCEPT ![r] = "done"]
    /\ UNCHANGED <<ask, todo, tasks, results, counted, kept, jobs, retained, queued,
                   deferred, raised, lost, mishaps>>

\* An answer in the cache reaches its age, or the agents are stopped.
Expire ==
    \E f \in WarmAgents :
        /\ Mishap /\ kept' = [kept EXCEPT ![f] = "none"] /\ lost' = lost \cup {f}
        /\ UNCHANGED <<at, ask, todo, tasks, results, counted, jobs, retained,
                       queued, deferred, raised>>

SlicesNext ==
    \/ \E r \in Requests :
         \/ Orchestrate(r) \/ RunSix(r) \/ DispatchSquads(r) \/ CommandLine(r)
         \/ EndWave(r) \/ Retain(r) \/ Dispatch(r) \/ Respond(r)
         \/ \E i \in DOMAIN tasks[r] :
              Work(r, i) \/ Fork(r, i) \/ Tell(r, i) \/ KeepAnswer(r, i) \/ Raise(r, i)
    \/ Expire

SlicesSpec == SlicesInit /\ [][SlicesNext]_slices

-------------------------------------------------------------------------------
Statuses == {"none", "ok", "confirmation_required", "degraded"}

SlicesTypeOK ==
    /\ at \in [Requests -> {"idle", "frames", "retain", "dispatch", "done", "failed"}]
    /\ \A r \in Requests :
         /\ at[r] = "idle" \/ ask[r] \in Asks
         /\ \A i \in DOMAIN tasks[r] :
              tasks[r][i] \in [frame : ToSet(Catalog), status : Statuses,
                               at : {"none", "run", "post", "parts", "done", "raised"}]
         /\ \A i \in DOMAIN results[r] :
              results[r][i] \in [frame : ToSet(Catalog), status : Statuses \ {"none"}]
         /\ counted[r] = None \/ counted[r] \subseteq ToSet(Catalog)
    /\ kept \in [ToSet(Catalog) -> {"none"} \cup Cacheable]
    /\ jobs \subseteq [by : Requests, squad : Squads, ok : BOOLEAN]
    /\ retained \subseteq Requests /\ raised \subseteq Requests
    /\ queued \in [Requests -> Nat] /\ deferred \in [Requests -> Nat]
    /\ lost \subseteq ToSet(Catalog)

\* One stage with its frames one by one, or all six.
OneByOne(q) ==
    q.kind = "six" \/ (q.kind # "chain" /\ Stages(q) # <<>> /\ Stages(q)[1].mode = "stagger")

Answered(r) == {results[r][i].frame : i \in {j \in DOMAIN results[r] :
                                               results[r][j].status \in Cacheable}}

Counted(r) == counted[r] = None \/ Answered(r) \subseteq counted[r] \cup lost \cup {Pulse}

\* The pulse of a run of all six, or of frames one by one, counts the agent of
\* every frame of the run that has answered, unless that answer was not kept in
\* Redis, whatever else runs at the same time (slice_orchestration.py:137,
\* orchestrator.py:170).
PulseCountsAll ==
    \A r \in Requests : ask[r] # None /\ OneByOne(ask[r]) => Counted(r)

\* The deep reviews that the answer of r holds.
ReviewsOf(r) == {i \in DOMAIN results[r] : results[r][i].frame = Review}

\* Each deep review that a confirmed run answers as queued is in the queue, and
\* none twice, unless its answer has no id of a row: however lately another run
\* was told of one.  An unconfirmed run has put none there where confirmations
\* are required, and no more than it answers where they are not
\* (frame_runner.py:724, frame_runner.py:625).
ReviewIsQueued ==
    \A r \in Requests :
        at[r] = "done" =>
            /\ ~Proceeds(ask[r]) => queued[r] = 0
            /\ queued[r] <= Cardinality(ReviewsOf(r))
            /\ ask[r].confirmed => Cardinality(ReviewsOf(r)) <= queued[r] + deferred[r]

\* A request a frame of which raised is told so: it remembers nothing and
\* dispatches no squad, and it answers nothing that it did not get from every
\* frame of its plan (slice_orchestration.py:216).
FailureStops ==
    \A r \in Requests :
        /\ r \in raised => at[r] = "failed" /\ r \notin retained /\ Posted(r) = {}
        /\ at[r] \in {"retain", "dispatch", "done"} =>
             [i \in DOMAIN results[r] |-> results[r][i].frame] = FlattenSeq(Plan(ask[r]))

\* Violated, see ServerSlicesPairs.cfg: in every mode the pulse counts what the other
\* frames of the run found, as order_pulse_last says.
PulseIsLast == \A r \in Requests : ask[r] # None /\ ask[r].kind # "chain" => Counted(r)

\* Violated, see ServerSlicesPairs.cfg: the wave plan of an answer is what was run.
PlanIsRun ==
    \A r \in Requests : at[r] = "done" /\ ask[r].kind \in {"preset", "frames"} =>
        Chunks(Stages(ask[r])[1].ids, Stages(ask[r])[1].mode) = Plan(ask[r])

\* Violated, see the README: a deep review that was not confirmed asks for it.
UnconfirmedAsks ==
    \A r \in Requests : \A i \in DOMAIN results[r] :
        results[r][i].frame = Review /\ results[r][i].status = "ok" => Proceeds(ask[r])

\* Violated, see the README: a deep review that is answered as queued is in the
\* queue.
SaidQueuedIsQueued ==
    \A r \in Requests :
        at[r] = "done" /\ ask[r].confirmed => Cardinality(ReviewsOf(r)) <= queued[r]

\* Violated, see the README: a request that failed has queued nothing.
FailedIsUndone == \A r \in Requests : at[r] = "failed" => queued[r] = 0
================================================================================
