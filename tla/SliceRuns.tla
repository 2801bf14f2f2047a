------------------------------ MODULE SliceRuns ------------------------------
(***************************************************************************)
(* The runs of the Agents page: batches of frames that the browser sends to *)
(* the API in waves, the queue of batches behind them, their cancellation,  *)
(* and the mirror of a frame that the Voice page runs                       *)
(* (src/web/components/agents/AgentsOrchestrator.tsx, src/web/lib/agents).  *)
(*                                                                          *)
(* The page has one thread, and what interleaves on it are handlers: of     *)
(* clicks and keys, of answers to fetch, of rejected promises, of timers,   *)
(* and of React, which renders (Commit) some time after setBusy and runs    *)
(* the effect of a render (Drain) some time after that.  A handler sees the *)
(* busy of the last render, shown; setBusy sets busy.  What a click sets is *)
(* rendered as soon as its handler returns, and a rejected promise is       *)
(* handled next: both come before any other handler.                        *)
(*                                                                          *)
(* A batch is run at most once, so its name also names its run and its      *)
(* AbortController.  A plan is the calls a batch makes: lanes run side by   *)
(* side, the steps of a lane one after the other, the calls of a step at    *)
(* the same time.                                                           *)
(***************************************************************************)
EXTENDS Integers, Sequences, FiniteSets

CONSTANTS
    Frames,      \* the frames of the specialist agents
    Unset,        \* no batch, no frame
    Post,        \* the one call of a step that is a single request
    Plans,       \* the plans that a button, a key or a chip runs
    Chains,      \* the sequences of plans that a button stacks
    Abroad,      \* the frames that other pages run
    Mode,        \* runMode: "parallel", "wave" or "stagger"
    Depth,       \* MAX_SLICE_QUEUE_DEPTH
    LogMax,      \* MAX_ENTRIES of the run log
    Clock,       \* the second it is
    MaxBatches,  \* bound: batches started or stacked
    MaxMirrors   \* bound: mirror timers that have not rung

ASSUME UnsetAssumption == Unset \notin Frames \cup (1..MaxBatches)
ASSUME PostAssumption == Post \notin Frames
ASSUME FramesAssumption == IsFiniteSet(Frames) /\ Abroad \subseteq Frames
ASSUME BoundsAssumption == /\ Depth \in Nat \ {0} /\ LogMax \in Nat \ {0}
                           /\ Clock \in Nat \ {0} /\ MaxBatches \in Nat /\ MaxMirrors \in Nat

VARIABLES
    run,      \* of each batch: its plan, its phase and how far each lane is
    queue,    \* runQueueRef: the batches that wait
    aborted,  \* the batches whose signal is aborted
    driver,   \* abortRef and runLogMetaRef: the batch begun last
    busy,     \* the busy last set
    shown,    \* the busy last rendered
    due,      \* the effect of that render has not run yet
    sync,     \* a click's updates have not been rendered yet
    running,  \* runningFrames
    waiting,  \* queuedFrames
    last,     \* the frames that failed, of lastResults
    log,      \* the label of each entry of the run log, the newest first
    auto,     \* autoRunQueue
    held,     \* a tile of the idle page is held down
    mirror,   \* voiceMirrorFrameRef
    fresh,    \* the mirrored frame has run since the mirror began
    alarms    \* the frames of the 30 s timers that have not rung

tiles == <<running, waiting>>
react == <<due, sync>>
state == <<busy, shown, react>>
book == <<last, log>>
user == <<auto, held>>
voice == <<mirror, fresh, alarms>>
pageVars == <<run, queue, aborted, driver, state, tiles, book, user, voice>>

-----------------------------------------------------------------------------
(* Plans.                                                                   *)

Batches == 1..MaxBatches
Values(s) == {s[i] : i \in DOMAIN s}

\* A frame per call, whose errors are results; and one call for everything,
\* whose failure is the step's.
Each(fs, rest) == [frames |-> fs, later |-> rest, calls |-> fs, soft |-> TRUE]
Once(fs) == [frames |-> fs, later |-> {}, calls |-> {Post}, soft |-> FALSE]
Dispatch == Once({})

\* chunkFrameWaves and executeSlicePlan: one POST, or waves of two or of one.
Stage(ids, mode) ==
    LET size == IF mode = "wave" THEN 2 ELSE 1
        part(i, j) == {ids[k] : k \in {x \in DOMAIN ids : i < x /\ x <= j}}
    IN  IF mode = "parallel" THEN <<Once(Values(ids))>>
        ELSE [w \in 1..((Len(ids) + size - 1) \div size) |->
                 Each(part(size * (w - 1), size * w), part(size * w, Len(ids)))]

\* One stage; nothing at all if it has no frames.
Run(ids, mode) ==
    [kind |-> "waves", lanes |-> IF ids = <<>> THEN <<>> ELSE <<Stage(ids, mode)>>]

\* Stages one after the other, and perhaps a dispatch after the last.
Sequence(a, b, dispatch) ==
    [kind |-> "waves", lanes |-> <<a \o b \o (IF dispatch THEN <<Dispatch>> ELSE <<>>)>>]

\* Squads side by side, or one after the other; each may dispatch after its
\* frames.
Squad(stage, dispatch) == stage \o (IF dispatch THEN <<Dispatch>> ELSE <<>>)
Squads(a, b, dispatch) ==
    [kind |-> "squads", lanes |-> <<Squad(a, dispatch), Squad(b, dispatch)>>]
SquadsInTurn(a, b, dispatch) ==
    [kind |-> "squads", lanes |-> <<Squad(a, dispatch) \o Squad(b, dispatch)>>]

\* The server runs all six, and dispatches; or it only dispatches.
RunSix == [kind |-> "six", lanes |-> <<<<Once(Frames)>>>>]
DispatchAll == [kind |-> "dispatch", lanes |-> <<<<Dispatch>>>>]

\* The plan of a tile; and those that retry failed frames, in any order.
Tile(f) == Run(<<f>>, "stagger")
Orders(fs) == {ids \in [1..Cardinality(fs) -> fs] : Values(ids) = fs}
Retries(fs) == {Run(ids, mode) : ids \in Orders(fs), mode \in {Mode, "stagger"}}

\* A plan: no lane is empty, and only squads run side by side.
Calls == Frames \cup {Post}
Stages == {s \in [frames : SUBSET Frames, later : SUBSET Frames, calls : SUBSET Calls, soft : BOOLEAN] :
             s.calls = IF s.soft THEN s.frames ELSE {Post}}
Shapes == {p \in [kind : {"waves", "squads", "six", "dispatch"}, lanes : Seq(Seq(Stages) \ {<<>>})] :
             p.kind = "squads" \/ Len(p.lanes) <= 1}

ASSUME PlansAssumption == Plans \subseteq Shapes /\ Chains \subseteq Seq(Shapes)

AllPlans == Plans \cup {DispatchAll} \cup {Tile(f) : f \in Frames}
            \cup (UNION {Values(ps) : ps \in Chains}) \cup (UNION {Retries(fs) : fs \in SUBSET Frames})
FramesOf(p) == UNION {UNION {s.frames : s \in Values(lane)} : lane \in Values(p.lanes)}

-----------------------------------------------------------------------------
(* The beginning and the end of a run.                                      *)

\* The batches whose run is in progress and not aborted.
Going == {b \in Batches : run[b].phase = "going" /\ b \notin aborted}

Entry(p, phase) == [plan |-> p, phase |-> phase, at |-> <<>>, open |-> <<>>, bad |-> {}]
Fresh == Entry(Unset, "new")
\* A batch that is over: nothing reads its plan any more.
Over(phase) == Entry(Unset, phase)
Made == {b \in Batches : run[b].phase # "new"}
Next1 == Cardinality(Made) + 1

\* createQueueEntry, or a click: the batches from b on get their plans.
WithPlans(ps, phase) ==
    [b \in Batches |->
        IF b - Next1 + 1 \in DOMAIN ps
        THEN Entry(ps[b - Next1 + 1], phase) ELSE run[b]]

\* What a run shows when its first step, or a later one, starts: the callbacks
\* of a wave, or all the frames at once and no callbacks.
Lights(p, s) ==
    IF p.kind \in {"squads", "six"} THEN FramesOf(p)
    ELSE IF s.frames = {} THEN running ELSE s.frames
Queued(p, s) ==
    IF p.kind = "squads" THEN {}
    ELSE IF p.kind = "six" \/ s.frames = {} THEN waiting ELSE s.later

\* Mutant: beginRun does not abort the run before.
BeginKeeps(b, runs) ==
    LET p == runs[b].plan IN
    IF p.lanes = <<>>
    THEN /\ run' = [runs EXCEPT ![b] = Over("nothing")]
         /\ UNCHANGED <<aborted, driver, busy, tiles, last>>
    ELSE /\ run' = [runs EXCEPT ![b].phase = "going",
                                ![b].at = [l \in DOMAIN p.lanes |-> 1],
                                ![b].open = [l \in DOMAIN p.lanes |-> p.lanes[l][1].calls]]
         /\ aborted' = aborted
         /\ driver' = b
         /\ busy' = TRUE
         /\ last' = IF p.kind \in {"waves", "squads"} THEN {} ELSE last
         /\ running' = Lights(p, p.lanes[1][1])
         /\ waiting' = Queued(p, p.lanes[1][1])

\* runWithPlanInternal and its like, up to the first await: without frames they
\* return at once; otherwise beginRun aborts the run before.
Begin(b, runs) ==
    LET p == runs[b].plan IN
    IF p.lanes = <<>>
    THEN /\ run' = [runs EXCEPT ![b] = Over("nothing")]
         /\ UNCHANGED <<aborted, driver, busy, tiles, last>>
    ELSE /\ run' = [runs EXCEPT ![b].phase = "going",
                                ![b].at = [l \in DOMAIN p.lanes |-> 1],
                                ![b].open = [l \in DOMAIN p.lanes |-> p.lanes[l][1].calls]]
         /\ aborted' = aborted \cup ({driver} \ {Unset})
         /\ driver' = b
         /\ busy' = TRUE
         /\ last' = IF p.kind \in {"waves", "squads"} THEN {} ELSE last
         /\ running' = Lights(p, p.lanes[1][1])
         /\ waiting' = Queued(p, p.lanes[1][1])

\* Mutant: a failed run leaves the page busy.
ResetTiles ==
    /\ UNCHANGED busy
    /\ running' = {}
    /\ waiting' = {}

\* resetRunUi and setBusy(false).
Reset ==
    /\ busy' = FALSE
    /\ running' = {}
    /\ waiting' = {}

-----------------------------------------------------------------------------
(* The queue.                                                               *)

\* enqueueSliceRun, once for each batch: the oldest is dropped over Depth.
Enqueued(q) == IF Len(q) <= Depth THEN q ELSE SubSeq(q, Len(q) - Depth + 1, Len(q))
Kept(runs, q) ==
    [b \in Batches |-> IF runs[b].phase = "queued" /\ b \notin Values(q)
                       THEN Over("dropped") ELSE runs[b]]

\* dequeueSliceRun and the run of what it returns.
Dequeue(q, runs) ==
    /\ queue' = IF q = <<>> THEN q ELSE Tail(q)
    /\ IF q = <<>> THEN run' = runs /\ UNCHANGED <<aborted, driver, busy, tiles, last>>
       ELSE Begin(Head(q), runs)

\* The end of every handler of a click or a key.
Flush ==
    /\ sync' = (due \/ shown # busy')
    /\ UNCHANGED <<shown, due>>

\* No microtask is pending: the next handler may run.
Quiet == ~sync /\ \A b \in aborted : run[b].phase # "going"

\* A button, a key, a chip or a retry while the page shows no run: scheduleRun
\* runs it at once.
Click(p) ==
    /\ Quiet /\ ~shown /\ Next1 \in Batches
    /\ Begin(Next1, WithPlans(<<p>>, "new"))
    /\ Flush
    /\ UNCHANGED <<queue, log, user, voice>>

ClickPlan == \E p \in Plans : Click(p)
ClickRetry == last # {} /\ \E p \in Retries(last) : Click(p)

\* A tile: of an idle page any, of a busy one those that run or wait.
TapIdle(f) == Click(Tile(f))
TapBusy(f) ==
    /\ Quiet /\ shown /\ f \in running \cup waiting /\ Next1 \in Batches
    /\ queue' = Enqueued(Append(queue, Next1))
    /\ run' = Kept(WithPlans(<<Tile(f)>>, "queued"), queue')
    /\ UNCHANGED <<aborted, driver, busy, tiles, book, user, voice>>
    /\ Flush

\* useLongPress: held down for half a second, a tile of an idle page dispatches
\* its squads.  The timer's closure still sees the page idle.
Press ==
    /\ Quiet /\ ~held /\ ~shown /\ Next1 \in Batches
    /\ held' = TRUE
    /\ UNCHANGED <<run, queue, aborted, driver, state, tiles, book, auto, voice>>
LetGo ==
    /\ Quiet /\ held
    /\ held' = FALSE
    /\ UNCHANGED <<run, queue, aborted, driver, state, tiles, book, auto, voice>>
Hold ==
    /\ Quiet /\ held /\ Next1 \in Batches
    /\ held' = FALSE
    /\ Begin(Next1, WithPlans(<<DispatchAll>>, "new"))
    /\ UNCHANGED <<queue, shown, react, log, auto, voice>>

\* stackBatch, for each stage of a chain; then maybeAutoStartQueue.
Stack(ps) ==
    LET q == Enqueued(queue \o [i \in DOMAIN ps |-> Next1 + i - 1])
        runs == Kept(WithPlans(ps, "queued"), q)
    IN  /\ Quiet /\ ~shown /\ Next1 + Len(ps) - 1 \in Batches
        /\ IF auto THEN Dequeue(q, runs)
           ELSE /\ queue' = q /\ run' = runs
                /\ UNCHANGED <<aborted, driver, busy, tiles, last>>
        /\ Flush
        /\ UNCHANGED <<log, user, voice>>

\* runQueueNow.
RunQueueNow ==
    /\ Quiet /\ ~shown /\ queue # <<>>
    /\ Dequeue(queue, run)
    /\ Flush
    /\ UNCHANGED <<log, user, voice>>

ToggleAuto ==
    /\ Quiet /\ ~shown
    /\ auto' = ~auto
    /\ UNCHANGED <<run, queue, aborted, driver, busy, tiles, book, held, voice>>
    /\ Flush

\* The drawer of the queue: remove a batch, move it to another place (bump, up,
\* down, drop), clear.
Keep(q) ==
    /\ Quiet
    /\ queue' = q
    /\ run' = Kept(run, q)
    /\ UNCHANGED <<aborted, driver, busy, tiles, book, user, voice>>
    /\ Flush

Without(q, i) == SubSeq(q, 1, i - 1) \o SubSeq(q, i + 1, Len(q))
Inserted(q, i, b) == SubSeq(q, 1, i - 1) \o <<b>> \o SubSeq(q, i, Len(q))
Remove(b) == \E i \in DOMAIN queue : queue[i] = b /\ Keep(Without(queue, i))
Reorder(b, to) ==
    /\ to \in DOMAIN queue
    /\ \E i \in DOMAIN queue \ {to} :
          queue[i] = b /\ Keep(Inserted(Without(queue, i), to, b))
Clear == queue # <<>> /\ Keep(<<>>)

-----------------------------------------------------------------------------
(* React.                                                                   *)

\* The page renders another busy: at the end of a click, after the effect that
\* is due; otherwise in a task of its own.  Only the render of an idle page has
\* an effect that does something.
Commit ==
    /\ shown # busy
    /\ IF sync THEN ~due ELSE Quiet
    /\ shown' = busy
    /\ due' = ~busy
    /\ sync' = (sync /\ ~busy)
    /\ UNCHANGED <<run, queue, aborted, driver, busy, tiles, book, user, voice>>

\* Mutant: the effect starts nothing.
DrainNothing ==
    /\ due /\ (sync \/ Quiet)
    /\ due' = FALSE
    /\ sync' = (sync /\ shown # busy)
    /\ UNCHANGED <<run, queue, aborted, driver, busy, shown, tiles, book, user, voice>>

\* The effect on busy: it starts the next batch, whatever autoRunQueue says.
Drain ==
    /\ due /\ (sync \/ Quiet)
    /\ due' = FALSE
    /\ sync' = (sync /\ shown # busy)
    /\ Dequeue(queue, run)
    /\ UNCHANGED <<shown, log, user, voice>>

-----------------------------------------------------------------------------
(* The answers.                                                             *)

Step(b, l) == run[b].plan.lanes[l][run[b].at[l]]

\* The batches whose answers are still heard: fetch rejects for an aborted one,
\* and the other lanes of a run that failed go on.
Heard == {b \in Batches : run[b].phase \in {"going", "failed"} /\ b \notin aborted}

\* The run of b after call c of lane l was answered, with failed frames worse:
\* when all calls of a step are answered, the next step's are made.
Answered(b, l, c, worse) ==
    LET r == run[b]
        lane == r.plan.lanes[l]
        rest == r.open[l] \ {c}
        more == rest = {} /\ r.at[l] < Len(lane)
    IN  [r EXCEPT !.bad = @ \cup worse,
                  !.at[l] = IF rest = {} THEN @ + 1 ELSE @,
                  !.open[l] = IF more THEN lane[r.at[l] + 1].calls ELSE rest]

Complete(r) == \A l \in DOMAIN r.plan.lanes : r.at[l] > Len(r.plan.lanes[l])

\* appendSliceRunLog: the newest first, the oldest dropped.
Logged(label) ==
    SubSeq(<<label>> \o log, 1, IF Len(log) < LogMax THEN Len(log) + 1 ELSE LogMax)

\* finishRun and the finally: the label is that of runLogMetaRef.
Finish(r) ==
    /\ last' = r.bad
    /\ log' = Logged(driver)
    /\ Reset

\* The callbacks of a wave: done frames go dark, a new wave lights up.
Relight(b, l, c, r) ==
    LET s == Step(b, l)
        new == r.at[l] # run[b].at[l] /\ r.at[l] <= Len(r.plan.lanes[l])
        next == r.plan.lanes[l][r.at[l]]
        done == IF s.soft THEN {c} ELSE s.frames
    IN  IF r.plan.kind # "waves" THEN UNCHANGED tiles
        ELSE IF new /\ next.frames # {} THEN running' = next.frames /\ waiting' = next.later
        ELSE running' = running \ done /\ UNCHANGED waiting

\* A render and its effect are done before an answer comes over the network.
Rendered == Quiet /\ ~due /\ shown = busy

\* A call is answered; some frames of it may have failed.
Answer(b, l, c) ==
    /\ b \in Heard /\ Rendered
    /\ l \in DOMAIN run[b].open /\ c \in run[b].open[l]
    /\ \E worse \in SUBSET (IF Step(b, l).soft THEN {c} ELSE Step(b, l).frames) :
          LET r == Answered(b, l, c, worse)
              ends == Complete(r) /\ r.phase = "going"
          IN  /\ run' = [run EXCEPT ![b] = IF ends THEN Over("finished") ELSE r]
              /\ IF ends THEN Finish(r)
                 ELSE Relight(b, l, c, r) /\ UNCHANGED <<busy, book>>
    /\ fresh' = (fresh \/ mirror \in (IF Step(b, l).soft THEN {c} ELSE Step(b, l).frames))
    /\ UNCHANGED <<queue, aborted, driver, shown, react, user, mirror, alarms>>

\* A request for everything fails: its lane ends, and with it the run, if that
\* has not failed already.  The other lanes are not aborted.
Break(b, l) ==
    /\ b \in Heard /\ Rendered
    /\ l \in DOMAIN run[b].open /\ Post \in run[b].open[l]
    /\ run' = [run EXCEPT ![b].phase = "failed", ![b].open[l] = {}]
    /\ IF run[b].phase = "going" THEN Reset ELSE UNCHANGED <<busy, tiles>>
    /\ UNCHANGED <<queue, aborted, driver, shown, react, book, user, voice>>

\* cancelRun: the Cancel button or Escape; a mirror goes on at the slower pace.
Cancel ==
    /\ Quiet /\ shown
    /\ aborted' = aborted \cup ({driver} \ {Unset})
    /\ Reset
    /\ Flush
    /\ UNCHANGED <<run, queue, driver, book, user, voice>>

\* Mutant: a frame's AbortError is a failed result, and the run finishes.
SettleFinished(b) ==
    /\ ~sync
    /\ run[b].phase = "going" /\ b \in aborted
    /\ run' = [run EXCEPT ![b] = Over("finished")]
    /\ Finish([run[b] EXCEPT !.bad = FramesOf(run[b].plan)])
    /\ UNCHANGED <<queue, aborted, driver, shown, react, user, voice>>

\* The AbortError reaches the catch and the finally of the run, by way of the
\* promises of all its calls: after what a click sets is rendered.
Settle(b) ==
    /\ ~sync
    /\ run[b].phase = "going" /\ b \in aborted
    /\ run' = [run EXCEPT ![b] = Over("aborted")]
    /\ Reset
    /\ UNCHANGED <<queue, aborted, driver, shown, react, book, user, voice>>

-----------------------------------------------------------------------------
(* The mirror of a frame that the Voice page runs.                          *)

\* onFrame, for an event of another page.
Mirror(f) ==
    /\ Quiet /\ Len(alarms) < MaxMirrors
    /\ mirror' = f
    /\ fresh' = FALSE
    /\ alarms' = Append(alarms, f)
    /\ running' = {f}
    /\ UNCHANGED <<run, queue, aborted, driver, state, waiting, book, user>>

\* The Voice page's run of the frame is done, and the agent's cache has it.
VoiceRuns ==
    /\ Quiet /\ mirror # Unset /\ ~fresh
    /\ fresh' = TRUE
    /\ UNCHANGED <<run, queue, aborted, driver, state, tiles, book, user, mirror, alarms>>

\* detectVoiceMirrorComplete: the cache is stamped in seconds, the start of the
\* mirror in milliseconds.
Stamp == Clock
StartedAt == 1000 * Clock
MirrorComplete == mirror # Unset /\ fresh /\ Stamp >= StartedAt

\* reload: every 20 s, and every 2 s while a mirror polls, which changes nothing
\* but the pace: completeVoiceMirror.
Reload ==
    /\ Quiet /\ mirror # Unset
    /\ IF MirrorComplete
       THEN /\ mirror' = Unset /\ fresh' = FALSE
            /\ running' = {}
            /\ \E bad \in SUBSET {mirror} : last' = bad
            /\ log' = Logged(mirror)
       ELSE UNCHANGED <<mirror, fresh, running, book>>
    /\ UNCHANGED <<run, queue, aborted, driver, state, waiting, user, alarms>>

\* The timer of a mirror rings, if that frame is still mirrored.
Alarm ==
    /\ Quiet /\ alarms # <<>>
    /\ alarms' = Tail(alarms)
    /\ IF mirror = Head(alarms)
       THEN mirror' = Unset /\ fresh' = FALSE /\ running' = {}
       ELSE UNCHANGED <<mirror, fresh, running>>
    /\ UNCHANGED <<run, queue, aborted, driver, state, waiting, book, user>>

-----------------------------------------------------------------------------
PageInit ==
    /\ run = [b \in Batches |-> Fresh]
    /\ queue = <<>> /\ aborted = {} /\ driver = Unset
    /\ busy = FALSE /\ shown = FALSE /\ due = FALSE /\ sync = FALSE
    /\ running = {} /\ waiting = {}
    /\ last = {} /\ log = <<>>
    /\ auto \in BOOLEAN /\ held = FALSE
    /\ mirror = Unset /\ fresh = FALSE /\ alarms = <<>>

Lanes(b) == DOMAIN run[b].open
AnswerSome(b) == \E l \in Lanes(b) : \E c \in Calls : Answer(b, l, c)
BreakSome(b) == \E l \in Lanes(b) : Break(b, l)

PageNext ==
    \/ ClickPlan \/ ClickRetry
    \/ \E f \in Frames : TapIdle(f) \/ TapBusy(f)
    \/ Press \/ LetGo \/ Hold
    \/ \E f \in Abroad : Mirror(f)
    \/ \E ps \in Chains : Stack(ps)
    \/ RunQueueNow \/ ToggleAuto \/ Clear
    \/ \E b \in Batches : Remove(b) \/ \E i \in 1..Depth : Reorder(b, i)
    \/ Commit \/ Drain \/ Cancel
    \/ \E b \in Batches : AnswerSome(b) \/ BreakSome(b) \/ Settle(b)
    \/ VoiceRuns \/ Reload \/ Alarm

\* React renders and runs effects, a rejected promise is handled, and requests
\* are answered or fail.
Fairness ==
    /\ WF_pageVars(Commit \/ Drain \/ \E b \in Batches : Settle(b))
    /\ WF_pageVars(\E b \in Batches : AnswerSome(b) \/ BreakSome(b))

PageSpec == PageInit /\ [][PageNext]_pageVars /\ Fairness

-----------------------------------------------------------------------------
(* Properties.                                                              *)

Phases == {"new", "nothing", "queued", "dropped", "going", "finished", "failed", "aborted"}

\* The types of the variables (React state and refs of AgentsOrchestrator); the
\* run log is cut to its length.
PageTypeOK ==
    /\ DOMAIN run = Batches
    /\ \A b \in Batches : /\ run[b].plan \in AllPlans \cup {Unset}
                          /\ run[b].phase \in Phases
                          /\ run[b].bad \subseteq Frames
    /\ queue \in Seq(Batches) /\ aborted \subseteq Batches /\ driver \in Batches \cup {Unset}
    /\ busy \in BOOLEAN /\ shown \in BOOLEAN /\ due \in BOOLEAN /\ sync \in BOOLEAN
    /\ running \subseteq Frames /\ waiting \subseteq Frames
    /\ last \subseteq Frames
    /\ log \in Seq(Batches \cup Frames) /\ Len(log) <= LogMax
    /\ auto \in BOOLEAN /\ held \in BOOLEAN
    /\ mirror \in Frames \cup {Unset} /\ fresh \in BOOLEAN
    /\ alarms \in Seq(Frames)

\* However clicks, renders and rejected promises interleave, at most one run is
\* in progress that is not aborted, and it is the one the Cancel button aborts
\* (abortRef in beginRun and cancelRun).
OneDriver == \A b \in Going : b = driver

\* The run log has one entry per finished run, under that run's own label,
\* although the label is read from a ref that every run overwrites (finishRun).
LogIsTrue ==
    /\ \A i, j \in DOMAIN log : log[i] = log[j] /\ log[i] \in Batches => i = j
    /\ \A b \in Values(log) \cap Batches : run[b].phase = "finished"
    /\ Len(log) < LogMax =>
          \A b \in Batches : run[b].phase = "finished" => b \in Values(log)

\* A batch that waits is in the queue once, and nothing else is: no batch is
\* lost or started twice by a dequeue, a drop at the cap or a reorder
\* (sliceRunQueue.ts).
QueueKept ==
    /\ Len(queue) <= Depth
    /\ \A i, j \in DOMAIN queue : i # j => queue[i] # queue[j]
    /\ Values(queue) = {b \in Batches : run[b].phase = "queued"}

\* So every batch is accounted for, once: in the queue while it waits, in the
\* log when it has finished.
Accounted == LogIsTrue /\ QueueKept

\* With no run in progress and no mirror, no tile is lit (resetRunUi on every
\* way out of a run).
DarkAtRest ==
    ((\A b \in Batches : run[b].phase # "going") /\ mirror = Unset) => running \cup waiting = {}

\* Until a run in progress is aborted, the page is busy exactly while a run is in
\* progress (setBusy in every run's try, catch and finally).
BusyIsTrue ==
    (\A b \in Batches : /\ run[b].phase # "aborted"
                        /\ run[b].phase = "going" => b \notin aborted)
    => (busy <=> Going # {})

\* What the page shows of the runs is true, whatever ended them.
PageIsTrue == DarkAtRest /\ BusyIsTrue

\* The queue behind a run empties, when no more is added, unless a run was
\* aborted or a batch had no frames (the effect on busy).
Excused == \E b \in Batches : run[b].phase \in {"aborted", "nothing"} \/ b \in aborted
Served == (queue # <<>> /\ Going # {}) ~> (queue = <<>> \/ Excused)

\* A batch of the queue starts only after the batch in progress is over
\* (SliceQueueDrawer: "Runs after the current batch finishes.").
QueuedWaits ==
    [][\A b \in Batches :
          run[b].phase = "queued" /\ run'[b].phase = "going" => Going = {}]_pageVars

\* A mirror whose frame has run does not time out (detectVoiceMirrorComplete:
\* "True when agent last_run timestamp is newer than mirror start.").
MirrorEnds ==
    [][fresh /\ mirror # Unset /\ mirror' = Unset => MirrorComplete]_pageVars
=============================================================================
