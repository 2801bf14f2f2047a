# Verification of the ADVoi system

TLA+ models of the parts of this repository whose correctness depends on order:
overlapping requests, retries, crashes, pending confirmations, background
processes, backends that fail.  Every definition is translated from the source; `PROJECT.json`
maps each one to the lines it stands for.  Paths below are those of the
repository.

- [Inventory](#inventory): the system's parts
- [Modules](#modules): what models what, and how
- [Runs](#runs): what TLC checks, with which bounds and fairness
- [Counterexamples](#counterexamples): where code and documentation differ
- [Proofs](#proofs): what is proved, and how
- [Not modelled](#not-modelled) and [Plan](#plan)

Checking: `tlc -config <run>.cfg MC<Module>.tla`; proving: `tlapm <Module>Proofs.tla`.

## Inventory

ADVoi is a voice-first operator console.  One FastAPI process (uvicorn, one
event loop), one LiveKit voice agent process, six specialist agent daemons
(one process each) and a memory bridge share Redis, Postgres, a data volume and
the "fleet tree" of an external system, FirstMate, which is reached through the
script `scripts/fm-bridge.sh`.  The web application in `web/` is the API's
client.

| Component | State it keeps | Operations | Hard behaviour | What makes it correct |
|---|---|---|---|---|
| Fleet dispatch (`advoi/fleet/trigger.py`, `idempotency.py`) | in-process cache key -> (expiry, result) | four structured actions, a bare invoke | overlapping requests, retries, window expiry, restart, arm without work | gated, once per key and window, never claims more than was done |
| Guardian gate (`advoi/guardian/confirmation.py`) | none | evaluate an action, a frame, a transcript | many callers | nothing high-risk without a confirmation |
| Voice turns (`advoi/voice/respond.py`, `intent_processor.py`, `advoi/fleet/session.py`) | a pending fleet action and a pending frame per session, in process | a turn in the room, on the page, a preview | a confirmation that arrives late, twice, or with another command | every confirmation answers one question |
| Ingestion (`advoi/ingestion/`) | `index.json`, uploaded files | upload, triage, review, approve, re-route, dispatch | a dispatch holds a copy over awaits; torn index | only approved items reach the fleet; statuses move forward |
| Aether publishing (`advoi/aether/publish_atomic.py`) | three files in the fleet tree, staging and backup directories | publish | failing renames, rollback, crash, overlap | all or nothing; nothing lost |
| Specialist agents (`advoi/routing/agent_*.py`, `advoi/cache/`, `advoi/guardian/`) | cached answers and a pause flag in Redis; open issues per process | tick, retry, stop, restart, prewarm, run a frame | independent processes, Redis outages, restarts, self-feeding cache | paused means idle; caches catch up; issues pair up |
| Orchestration (`advoi/routing/orchestrator.py`, `slice_orchestration.py`, `advoi/squads/`) | none beyond a run; the agents' cache | run in parallel, in waves, by squad | ordering of waves, one agent failing, a cached answer for a confirmed review | the pulse sees what the others found; what is confirmed is queued; a failed run dispatches nothing |
| Aether gate (`advoi/aether/gate.py`, `gate_export.py`) | the report in the fleet tree, its copy in the repository, git's index and commits | export, log, commit | each step may fail, exports overlap, the report is rewritten | what was exported and committed stays; commits tell what is in them |
| Active project (`advoi/portfolio/`, `advoi/aether/portfolio.py`, `lifecycle.py`, `router.py`) | `VENTURES`, the registry and the session's override, each in process | activate, reload, enrich a frame | four files name a project, names imported before a reload, the report read twice | all readers work on what was activated |
| Open briefs (`advoi/memory/postgres_store.py`, `briefs_cache.py`) | Postgres rows, a Redis copy | read through, write and invalidate | fill against invalidate | the copy does not outlive a write |
| Review queue (`advoi/memory/review_queue.py`) | Postgres rows | enqueue, list, dequeue | two desks | an item is handed out once |
| Migrations, event log (`advoi/db/migrations.py`, `advoi/analytics/pel.py`, `advoi/portfolio/pel.py`) | schema table, `portfolio_events` | apply, append | concurrent boots, legacy keys | each file and event once |
| Memory routing (`advoi/memory/router.py` and its stores) | Hindsight, Letta, Postgres, Redis, the local store, guardian log, counters in process | recall, retain | some stores down, lost answers, torn lines, three ways to Hindsight | a yes is kept, a recall complete, failures counted; no fleet backlog in Hindsight |
| Agents page (`web/components/agents/`, `web/lib/agents/`) | the run in progress, a queue of batches, the lit tiles, a log, in React state and refs | run, stack, reorder, cancel, retry, mirror a frame of the voice page | late renders and effects, rejected promises, answers of other lanes, stale closures | one run at a time, queue and log true, nothing stays lit |
| Voice page (`web/components/VoiceSession.tsx`, `web/voice-interface/`) | React state of a voice session | turns, confirmations, abort | answers of aborted requests | what is shown is the last request's |
| Observability, diagnostics, ontology, LLM client, tokens, TTS | none | lookups and I/O | none | not modelled |

Interaction: the API, the voice agent and the daemons call `run_frame`, which
reads and writes the agents' cache in Redis; the API and the voice agent call
the fleet dispatch, each with its own in-process cache; ingestion calls it for
an approved item; publishing writes into the fleet tree that the fleet scout
reads, as the Aether gate and its exports do.  Frames, voice turns and squads
retain through the memory router.

## Modules

| Module | Models |
|---|---|
| `KeyedOnce` | what an idempotency key promises: an owner, and answers that come from it |
| `FleetTrigger` | the fleet dispatch of one process, with the gate and the cache |
| `Ingestion` | the lifecycle of ingested documents and the handlers that move them |
| `AllOrNothing` | what a publish promises: the old files, or all of the new ones |
| `AtomicPublish` | `publish_atomic`, one step per file operation |
| `VoiceSession` | a turn of a conversation and the confirmations it leaves pending |
| `AgentDaemons` | the daemons, their cache, the pause flag, the issues |
| `Stores` | what is kept in Postgres: schema, event log, gate snapshots, briefs with their copy in Redis, review queue |
| `MemoryTiers` | retains and recalls of the memory router over its backends |
| `GateReport` | the gate report and its reading, shared by the next two |
| `GateExport` | the exports of the report into the repository and the event log |
| `ActiveProject` | which project each process works on, and what it tells of it |
| `PortfolioGate` | `GateExport` and `ActiveProject` over one report |
| `ServerSlices` | runs of several agents on the server, in waves over the agents' cache |
| `SliceRuns` | the runs of the Agents page: batches, their requests, the queue, rendering, cancel, the mirror |
| `MC*` | small instances; `*Proofs` the theorems |

**What is one step.**  The API runs its handlers on one event loop, so in
`FleetTrigger`, `Ingestion` and `VoiceSession` a step reaches from one await to
the next.  Publishers and daemons are processes: in `AtomicPublish` every file
operation is a step, in `AgentDaemons` every access to Redis, in
`Stores` every transaction of one statement, and for longer ones every part that
holds or waits for a lock, in `MemoryTiers` every access to a backend, in
`GateExport` every file or git operation, in `ServerSlices` what a task does
between two awaits, in `SliceRuns` every handler of the page.

**FleetTrigger.**  `pc[r]` says where a handler awaits: the append of the gate
event (`refusing`, `ready`), the bridge subprocess (`running`), the append of
the trigger event (`logging`).  `Receive` is the lookup and the gate, `Begin`
and `Return` start the next bridge verb or store and answer, `Exit` is the end
of the subprocess.  `cache` is `_CACHE` with its expiries, `now` the monotonic
clock.  A result is its status and the request whose execution made it, so that
a replay can be told from a run.  `ran` records what became of every bridge
verb, `started`, `finished` and `era` when and in which process a request ran;
they are history.  `Calls` are the requests clients make.  With `Overlap =
FALSE` a client waits for its answer before it sends a key again.

**Ingestion.**  `index` is `index.json`.  Triage, review, approval and
re-routing hold the loop from read to save and are one step each; the dispatch
reads the row into `task[d].row`, awaits the fleet twice, and saves that copy.
`Crash` may cut a save in the middle, which reads back as an empty index.  What
the classifier decides is nondeterministic.

**AtomicPublish.**  `dest` is the fleet tree, `backup[p]` the backup directory
of run `p`; a version is the run that wrote it.  Each of the loops (look, copy,
replace, restore) is an action that does one file.  `last` is history: the tree
as the last good run left it.  A run that is killed leaves its directories
(`Crash`).  One that is interrupted from the keyboard, in the command line or in
`scripts/aether-publish-atomic.sh`, does not (`Interrupt`): a `KeyboardInterrupt`
is no `Exception`, so nothing is rolled back, and the `finally` removes staging
and backup.

**VoiceSession.**  A transcript is what the classifiers make of it (operator
intent, project intent, frame, and which confirmation words it has); the
instance lists real sentences with their classification.  `fleet` and `review`
are the pending confirmations, `asked`, `asks`, `runs` and `did` are history.

**AgentDaemons.**  `run[r]` is a frame run, by a daemon's tick, a prewarm or a
user; it reads its source, saves its answer (`run_frame`) and a tick saves it
again (`tick_agent`).  What an agent reports on is a version number, so that a
stale answer can be told from a fresh one; an answer's age counts intervals up
to the expiry of two.  `Reach` says whether a process has Redis: `get_redis`
tries once per process.  `left` holds the bounds.

**Stores.**  `call[c]` is a call of any helper, from the API, the voice agent or
a script, on a connection of its own; a row's content is the number of the call
that wrote it.  A statement with its commit is a step with three outcomes:
committed and answered, committed with the answer lost (the helpers treat it as
a failure), not committed.  `done` is what a transaction read of
`schema_migrations`; it runs the pending files and commits them in one step, may
fail if another migration committed in between, and fails if `portfolio_events`
has the columns of the gate snapshots.  Creating a table in a new database
holds `ddl`, the schema's lock, from the statement to the commit.  The append's
insert shares the transaction of its migration.  `got`, `handed` and `excused`
are history.

**MemoryTiers.**  `todo[c]` are the targets a retain has yet to write (`WriteMap`;
event types that share their targets share a name), `said[c]` its answers.  A
backend does the work, refuses, fails, or does it and loses the answer; a disk
may cut a line.  Hindsight is reached over the HTTP bridge, then `docker exec`,
or by its own client.  Of a payload the model keeps where fleet backlog sits in
it: the check looks at some fields only, what is retained is the summary or, if
there is none, everything.  Of a query it keeps which calls' lines hold its words
(`fits[r]`): the local store answers with the newest lines that do, Letta with the
passages that fit best, whether or not they fit.  `faults` bounds what goes wrong, `died` the processes
that are killed and started again, which loses their counters.

**GateExport, ActiveProject.**  An export is a process: it reads the report,
renames its copy into place, appends an event, adds and commits.  `repo` and
`head` remember whose copy they hold; `met[e]` says that another export ran
during `e`.  A verdict line is the set of tokens found in it.  Of the projects,
`ventures[p]` is `VENTURES` as `lifecycle.py`, `projects.py` and the others
imported it, `routes[p]` the portfolio's own name, the only one a reload rebinds.
An entry's names are sets, one for each of the matching rules the code has.
Enriching a frame is two steps, one for each time it reads the report: the
process does nothing else in between, but FirstMate is another process.

**ServerSlices.**  `todo[r]` are the waves of a request, `tasks[r]` the frames of
the one that runs, each at its place in `run_frame`.  `kept` is the agents' cache,
`counted[r]` what the pulse of a request found in it, `lost` the frames an answer
of which never got there or has expired.  All tasks of a wave look
into the cache when the wave starts, since their first steps run back to back on
the loop.  The pulse has two tasks of its own.  `guarded` says whether
confirmations are required in the process that serves a request
(`ADVOI_CONFIRMATION_REQUIRED`).  `Enqueue` has three outcomes: a row and its id, no
row (no database, or one that fails), a row whose id is lost; without an id the
frame answers ok and the review counts as `deferred`.  A frame that raises fails its
request at once, and the others of its wave go on (`asyncio.gather`).

**SliceRuns.**  `run[b]` is a batch: its plan, its phase, and for each lane the
step it is at (`at`) and the requests not yet answered (`open`).  A plan is what
the many buttons come to: waves one after the other (`Run`), stages with a
dispatch (`Sequence`), squads side by side or in turn, all six at once,
a dispatch.  `driver` is the batch begun last, which `abortRef` and the log's
label belong to.  `busy` is what was set last, `shown` what was rendered last
and what every handler sees.  React's scheduling is part of the model: what a
click sets is rendered when its handler returns (`sync`), everything else in a
task of its own (`Commit`), and the effect that drains the queue in a later one
(`Drain`, while `due`); a rejected promise is handled (`Settle`) after the
synchronous render and before the next task (`Quiet`).  A render with its effect
is taken to be quicker than an answer over the network (`Rendered`).  A long
press (`Press`, `Hold`) acts on the page as it was when pressed.  Status and
progress text, selection, suggestions and the lists kept in the browser's
storage are left out; the mode of a retry is a constant.

## Runs

| Run | Question | Bounds |
|---|---|---|
| `fleet_serial` | Do patient clients get one execution per key and window? (`OnePerWindow`, and `FleetTrigger` implements `KeyedOnce`) | 3 requests of one key, window 2, clock to 3: a third request may come inside, at the end of, or after the window |
| `fleet_clients` | What reaches the bridge, what is replayed, is everybody answered, when clients overlap? | 2 requests over 4 actions, with and without key and confirmation, window 1, clock to 1, a restart |
| `ingest_overlap` | Can a stale copy, a crash or a second dispatch send an unapproved item, lose a dispatch or move an item back? | 1 item (items share nothing but the index file), 2 overlapping dispatches, both modes, a crash |
| `publish_serial` | Are publishes all-or-nothing (`AllOrNothing`)? | 3 runs in a row over a complete tree of 3 files, as many as the code writes, failing anywhere |
| `publish_crash` | Is what was last published still on disk, and no file ever missing? | 3 runs, 2 of which may die or be interrupted, over each of the 8 possible trees |
| `voice_all` | Does every fleet action rest on a confirmation that names it or answers a question, each question once? | 19 sentences, a room and a page, 4 turns (ask, replace, confirm, confirm again), restarts |
| `stores_all` | Is what is recorded applied, has a mirrored row one event and a review item one taker, is the schema's lock always released, and why can the cached briefs be stale? | 2 callers at once, 4 calls of 8 kinds, a new database or one with the baseline only, one outage |
| `memory_all` | What may a yes, a recall, the counters be trusted for, and does the backlog stay out of Hindsight, when backends fail? | 3 retains (two of the voice agent, one of the API) of 7 kinds, one recall for one of two queries (which fits every line, or one lesson's only), 3 environments that between them have each way to each backend, a window of 1 turn and a limit of 2 rows so that both overflow, one fault, one death |
| `gate_all` | Do copy, index, commit and log agree with what the exports say, and all readers with the last activation? | 2 exports with 3 sets of options, so that one can find what the other left; one process, 2 reports, 2 portfolios, 3 entries of the registry, 2 mishaps (a rewritten report or file, a failure, a death, a restart) |
| `server_slices` | Does the pulse count what the others found, is every confirmed review queued that got an id, does a failure stop the rest? | 2 requests of 8 kinds, one where confirmations are switched off, a database that may be away or fail late, over 4 frames and 2 squads (one that needs a confirmation), one mishap (a frame that raises, an answer lost or expired) |
| `slices_all` | Is at most one run in progress, and can it be cancelled; are queue, log, busy flag and tiles true; does the queue empty? | 2 frames, 3 batches, a queue of 2 and a log of 2 (so that both overflow), one plan of each kind, chains of 2 and 3 batches, one of them without frames, one mirror |
| `daemons_live` | Do issues pair up, do paused daemons come to rest, do caches catch up? | one refreshing agent (agents share only the flag and the clearing), 1 retry, up to 4 of: change, 2 outages, Redis outage, 2 control calls, user run, reboot |

Every property has a mutant in `PROJECT.json`: a plausible bug of a mapped
definition, kept in the module beside it and marked `Mutant`, under which TLC
finds the property violated.

Three properties are conjunctions: `SchemaIsSound` (what is recorded was run, and
the schema's lock is held by a call that is at work), `Accounted` (the log is
true, no queued batch is lost) and `PageIsTrue` (tiles are dark at rest; busy
exactly while a run is in progress, until a run in progress is aborted).  Type
correctness is proved in the proof modules and not run: `TypeOK`, in `SliceRuns`
`PageTypeOK`, in `ServerSlices` `SlicesTypeOK`, since a proof module extends these
two together with another specification.

**Fairness.**  `FleetTrigger!Fairness`: a handler whose await is over runs, and
the bridge script ends; the code sets no timeout on it, so `Answered` rests on
the script.  `AgentDaemons!Fairness`: time passes, the daemons' endless loops
go on, a frame run, a stop and a prewarm that began end.  Nothing is assumed of
outages, users or control calls.  `SliceRuns!Fairness`: React renders and runs
effects, microtasks run, and requests are answered or fail; users need do
nothing.  The other modules claim no liveness.

## Counterexamples

Statements of docstrings, comments and spoken texts that the code does not keep.
They are defined in the modules, and TLC refutes each: in the configuration
named, or, where a run is named, in the run's own with the property (as INVARIANT
or PROPERTY) in place of its properties.

| Configuration | Property | What happens |
|---|---|---|
| `FleetTriggerOverlap.cfg` | `OnePerWindow` | Two requests with one key overlap: the cache is read before and written after the bridge runs (`trigger.py:400`), so both run, against `idempotency.py:5` "return the **same result** without re-executing". |
| `FleetTriggerGuardian.cfg` | `RefusalNotReplayed` | A bare invoke's refusal is stored under its key and replayed to the confirmed retry (`trigger.py:307`, against `idempotency.py:22`). |
| `ingest_overlap` | `FailedRecovers` | A failed item is re-routed, answered ok, and stays failed for good (`pipeline.py:169`, against `pipeline.py:80`). |
| `ingest_overlap` | `TriageAdvances` | Triage of an item past review answers ok and advances nothing (`pipeline.py:138`, against `api/app.py:480`). |
| `ingest_overlap` | `DispatchedMeansWork` | In mode `start_development` the arm's result is taken for the work's (`pipeline.py:258`, against `ingestion/README.md:49`). |
| `AtomicPublishFirst.cfg` | `NoMix` | A first publish fails midway; what it had put in place has no backup and stays (`publish_atomic.py:163`, against `publish_atomic.py:98`). |
| `AtomicPublishMix.cfg` | `NoMix` | Two overlapping publishes both end well and leave files of both. |
| `AtomicPublishRollback.cfg` | `LastIsOnDisk` | A rename of the rollback fails and the backups not yet restored are deleted (`publish_atomic.py:179`). |
| `publish_crash` | `LastStaysOnDisk` | A run is interrupted from the keyboard between two replaces: `except Exception` (`publish_atomic.py:159`) does not see it, the `finally` (`:179`) deletes the backups, and what the last good publish had written there is nowhere, against `publish_atomic.py:98` "all-or-nothing". |
| `voice_all` | `SaidStopStops` | "stop agents confirm" while a fleet action is pending runs that action and stops no agent (`respond.py:259`, against `respond.py:325`). |
| `voice_all` | `YesAnswersLastAsked` | A bare yes answers an older question than the last. |
| `voice_all` | `StopNeedsConfirm` | The preview of "stop agents" stops them (`api/app.py:671`). |
| `voice_all` | `ReviewNeedsConfirm` | A full run, a squad dispatch or a frame named for a project queues a deep review nobody confirmed. |
| `AgentDaemonsCurator.cfg` | `CachesCatchUp` | A daemon that does not ask for a refresh answers from its cache and keeps that answer alive for ever (`agent_daemon.py:61`), against `agent_bootstrap.py:18` "curators warm from stores on first pass". |
| `daemons_live` | `PausedMeansIdle` | A failing agent goes on with its retries while paused (`auto_restart.py:69`; the only cause left with `MaxRedis = 0`), and a stop while Redis is down is answered ok and pauses no daemon (`agent_control.py:77`; with `MaxOutages = 0`). |
| `daemons_live` | `IssuesAreResolved` | An issue open when its daemon restarts is never resolved (`notifications.py:13`). |
| `StoresBoot.cfg` | `BootMigrates` | A gate snapshot written before the first boot creates `portfolio_events` with other columns (`portfolio/pel.py:14`); the first index of `001_portfolio_events.sql` then fails and no boot can migrate any more: no review queue, no briefs, no event log. `docs/operations/MIGRATIONS.md:45` says "apply missing files in order", and `:36` "Do not put new inline `CREATE TABLE` in Python". |
| `stores_all` | `SnapshotOnce` | Two overlapping writers of one gate snapshot both insert (`portfolio/pel.py:78`). |
| `stores_all` | `NeverStale` | A commit whose answer is lost, or a reader overtaken by a writer, leaves a stale list in Redis (`frame_runner.py:552`, against `briefs_cache.py:6`). |
| `slices_all` | `QueuedWaits` | A batch of the queue starts over one in progress and aborts it (`SliceQueueDrawer.tsx:158`). |
| `slices_all` | `MirrorEnds` | A mirrored frame has run and the mirror still times out: the cache is stamped in seconds (`agent_cache.py:34`), the page compares milliseconds (`voiceFrameBridge.ts:62`). |
| `memory_all` | `StoredOnce` | The bridge retains, its answer is lost, and `docker exec` retains again (`hindsight.py:152`). |
| `memory_all` | `StoreIsRecalled` | A lesson that only the local store has kept is not recalled as long as Letta has others (`operational_bridge.py:16`). |
| `memory_all`, `Inputs <- MCUnsummed` | `NeverBacklog` | A payload without summary or text goes to Hindsight whole (`hindsight.py:240`), backlog in a field nobody looks at included, against `write_targets.py:10` "fleet backlog → Hindsight / strategic memory", which is listed as never. |
| `gate_all` | `NewestIsKept` | Of two overlapping exports the one that began first writes last. |
| `gate_all` | `ReloadIsSeen` | A reload answers with the new count (`service.py:45`); `lifecycle.py:10`, `projects.py:9`, `ingestion/route.py:8` and `system_graph.py:7` keep the ventures they imported. |
| `gate_all` | `ScoutAgrees` | The scout reads out the queue of the profile's project, an action goes to the registry's (`frame_runner.py:133`), against `trigger.py:60` "same rules as Fleet Scout". |
| `PortfolioGateWords.cfg` | `NoGoIsDenied` | "NO-GO" is read as pass, since "go" is looked for first (`gate.py:37`, against its own table at `gate.py:12`), and logged as allowed. |
| `PortfolioGateRooms.cfg` | `OneProject` | A project activated on the page is not the room's: the override is kept by the process (`ecr.py:16`). |
| `ServerSlicesPairs.cfg` | `PulseIsLast` | In pairs the pulse runs beside another frame and does not count it, against `slice_orchestration.py:138`. |
| `ServerSlicesPairs.cfg` | `PlanIsRun` | The wave plan that is answered is of the order asked for, not of the order run (`slice_orchestration.py:299`). |
| `server_slices` | `UnconfirmedAsks` | A deep review nobody confirmed is answered "ok" from the cache, and nothing was queued (`frame_runner.py:724`). |
| `server_slices` | `SaidQueuedIsQueued` | A confirmed deep review is answered "Deep review queued for desktop prep" (`frame_runner.py:627`) though `enqueue_review` returned None and there is no row (`frame_runner.py:625`, `review_queue.py:74`). |
| `server_slices` | `FailedIsUndone` | A request fails, and the review of the same wave is queued all the same. |

`QueuedWaits` fails in three ways.  A long press fires after another run began
(`AgentSliceTile.tsx:46`).  A click falls between the render of an idle page and
the effect that drains the queue (`AgentsOrchestrator.tsx:495`).  And a cancel
with batches waiting: the page is rendered idle, the effect starts the next
batch, and only then the cancelled run's `finally` (`:621`) clears `busy` and the
tiles, so that the next batch runs unseen, cannot be cancelled, and is aborted
by the next click.  What then still waits is not started either, since `busy` never
changes again: this, and a batch without frames, which returns without setting
`busy` (`:600`), is what `Served` excuses.

## Proofs

All theorems hold for every value of the constants that meets the named
assumptions in the modules (`FleetAssumption`, `DaemonsAssumption` and so on,
which TLC evaluates in the runs).  Extra hypotheses are in the theorem.

| Module | Theorems | Argument |
|---|---|---|
| `FleetTriggerProofs` | `TypeOK`; `GateHolds`, `WorkNeedsArm`, `OkIsEarned`, `ReplayIsFaithful`, `RefusalNotReplayed` (no bare invokes), `RetryIsReplayed`, `OnePerWindow` (no overlap) | The invariant ties each handler's place to what it ran, and each cache entry to the request that made it: its key, process, status and finishing time.  None of the properties is inductive without the entries. |
| | `ImplementsKeyedOnce` (no overlap) | With patient clients one request of a key is in flight, and meanwhile its key has no answer that is still good; so a handler that begins takes the key (`Take`), one that ends settles it, a hit replays the owner's answer, the clock and a restart release what has run out, and all else is a stutter. |
| `IngestionProofs` | `TypeOK`, `NoFleetUnapproved`, `OkIsDurable`, `NothingMovesBack`, `DispatchIsEarned` | A copy in flight is of an approved item, and while it is in flight the item can only be approved or dispatched; an item that says dispatched has a handler that is over, was accepted, and never runs again, whoever saves the item after it. |
| `AtomicPublishProofs` | `TypeOK`, `FilesStay`, `LastIsOnDisk` (serial, any tree, any crash or interrupt, no failing rollback rename), `ImplementsAllOrNothing` (serial, complete tree, no crash or interrupt, no failing rollback) | The invariant says, phase by phase, which files are of the run, which of the old version, and where their backups are, but for files an interrupted run had replaced, whose version is then that run's until another replaces it; the refinement maps each replace to a stutter and the end of a run to the one step of `AllOrNothing`. |
| `SessionProofs` | of `VoiceSession`: `TypeOK`, `OneRunPerAsk`, `NamedAndConfirmed` | A pending action was asked about once more than it was run. |
| | of `SliceRuns`: `PageTypeOK`, `OneDriver`, `Accounted`, `PageIsTrue` | Batches are made in the order of their names, the queue holds exactly those that wait, and a run in progress is at a step of each of its lanes, or has failed and asks for nothing more.  A run that finishes is the only one going, so the label the log takes from the driver is its own.  A mirror ends only by timeout or by its own cancel, seconds being less than milliseconds. |
| `MemoryTiersProofs` | `TypeOK`; `YesIsKept`; `NeverBacklog` (`Summed`: no payload is of the kind of the counterexample above); `WindowKept`, `FailuresCounted` (finitely many calls); `RecallIsComplete` | A retain that waits for `docker exec` or its own store has passed the check of its payload, and an answer is written in the step that stores. For the window, each turn in excess is tied to a retain that has still to trim or did not end well; the bound is on a cardinality, so each push is shown to add one such retain and each trim to cut the list to its length.  A failure is counted in the step that makes the answer a no.  What a recall looks back at has ended and stays as it is; a call has one line in the store, so the newest lines that fit, as many as a recall may take, are of that many lessons. |
| `PortfolioGateProofs` | `ActivatedIsActive`; `TellingAgrees`; `ExportIsKept`; `CommitIsTold`; the exports' types | An override is of the venture last chosen and its slug the registry's. Exports begin in order, so one that met no other saw all earlier ones ended; the invariant says which of them `repo`, `index` and `head` can then belong to, step by step of the one that runs. |
| `StoresProofs` | `TypeOK`, `SchemaIsSound`, `MirroredOnce`, `HandedOnce`, `StaleIsExcused` | A call that migrates has read only versions that are still applied, and one that looked for the snapshots' table and found none holds the schema's lock, so a migration that goes through finds no snapshot.  Without the rows in memory an answered id is a row of its key, and a key has one row.  Calls have numbers of their own, and a review's item is not in the queue before the review is. |
| `AgentsProofs` | of `AgentDaemons`: `TypeOK`, `IssueOpenIffFailing` | The daemon's own flag, its last event in the log and how its last tick ended agree; a version and the changes still to come stay within their bound. |
| | of `ServerSlices`: `SlicesTypeOK`, `PulseCountsAll`, `ReviewIsQueued`, `FailureStops` | The tasks of a request are those of its first wave, and its waves are what is left of its plan, of which the results have the frames so far (`Passed`).  For frames one by one the plan is shown to have the pulse in a last wave of its own (`OneByOnePulse`), so that when it counts, every other answer is in the cache or lost.  The queued reviews are bounded on both sides by a cardinality: at most the results that are reviews and the tasks that have got as far, and with the deferred ones no fewer if the run is confirmed. |

The proofs are by one step per action, and under it one per part of the
invariant the action can disturb.  `ActivatedIsActive` rests on `OwnEntry`, that
the registry finds a venture of the portfolio by its id or not at all; it covers
every registry, one that names no slug for its target (`LastResort`) included, which
the run's two contexts do not have.
`WorkNeedsArm` is proved (`ArmBeforeWork`) and not run.

The plan of a request is made by recursive functions (`FlattenSeq`, `Only`).
What they return is proved from their equation, which holds since such a function
exists at every length, by induction over `Nat` in the form for sets: a set that
has 0 and with each number the next contains `Nat`.

Every safety property the runs check is stated by a theorem.  Only model-checked
is liveness (`Answered`, `StopSettles`, `CachesCatchUp`, `Served`): its fairness
is of `ENABLED`, which is beyond the prover.

## Not modelled

`PROJECT.json` lists every component with its status.  Left out for good: I/O
without state (LiveKit, TTS, the LLM client, OpenTelemetry, static tables),
wording and layout, shell deployment.  Abstracted: classifiers (a transcript or
document has any of its outcomes), the contents of answers, the optional
`docker compose` stop and restart of the daemons, the fleet beyond its bridge
script, the recalls of Hindsight and Redis (each reads one backend and changes
nothing), in `ServerSlices` the command line's modes `pulse`, `parallel` and
`prewarm`, which call single parts, and `ADVOI_FRAME_MOCK` (`frame_runner.py:612`),
which is taken to be off.  A log append that fails is ignored by the
code and by the models.  The feed cron is a shell script without state; it
honours the gate setting only as `1`, where `feed_cron.is_gate_required` also
takes `true`, `yes` and `on`.  The voice page's states are those of one browser
session, whose requests are the turns of `VoiceSession`.

## Plan

In this order:

1. `PageVoice`: the voice page's state and aborts; the confirmation a page holds
   against the one the server holds.
2. The fleet tree as the frames read it: `frame_runner.py:313` looks for the gate
   report in the tree's `data/`, `gate.py:82` in its root.
