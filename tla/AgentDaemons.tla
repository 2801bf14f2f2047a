---------------------------- MODULE AgentDaemons ----------------------------
(***************************************************************************)
(* The specialist agents: their daemons (advoi/routing/agent_daemon.py,       *)
(* agent_bootstrap.py, advoi/guardian/auto_restart.py), the answers they keep *)
(* in Redis (advoi/cache/agent_cache.py), the frames that users run           *)
(* (run_frame, advoi/routing/frame_runner.py), and the calls that pause and   *)
(* resume the daemons (advoi/routing/agent_control.py).                       *)
(*                                                                          *)
(* Every agent's daemon is a process of its own; the calls run in the API or  *)
(* the voice agent.  They meet in Redis only: the cached answers and the      *)
(* pause flag.  What an agent reports on is a version that grows.             *)
(***************************************************************************)
EXTENDS Integers

CONSTANTS
    Agents,
    Live,           \* agents whose daemon asks for a refresh (the fleet scout)
    Absent,         \* no cached answer
    MaxRetries,     \* GUARDIAN_AUTO_RESTART_MAX
    MaxChanges,     \* bound on the changes of what an agent reports on
    MaxOutages,     \* bound on outages of the agents' sources
    MaxRedis,       \* bound on outages of Redis
    MaxControls,    \* bound on stop, restart and prewarm calls
    MaxAsks,        \* bound on frames run by users
    MaxBoots,       \* bound on restarts of daemon processes
    MaxEvents       \* bound on all of these together

ASSUME DaemonsAssumption ==
    /\ Live \subseteq Agents
    /\ {MaxRetries, MaxChanges, MaxOutages, MaxRedis, MaxControls, MaxAsks, MaxBoots,
       MaxEvents}
          \subseteq Nat

VARIABLES
    world,      \* what there is to report, per agent
    source,     \* can it be read: "well", "unwell" (a bad status), "raising"
    cache,      \* advoi:agent:<id>:last, with its age, or Absent
    run,        \* the frame runs under way
    attempt,    \* run_with_auto_restart: which attempt the daemon is at
    due,        \* has the daemon slept long enough?
    failing,    \* _agent_had_failure, and with it _OPEN_ISSUES
    log,        \* the last issue event of each agent in the guardian log;
                \* "orphaned": detected by a process that is gone
    ended,      \* history: how the last tick of the daemon's process ended
    redis,      \* is Redis up?
    linked,     \* has the daemon's process a Redis client?
    paused,     \* advoi:agents:paused
    stopping,   \* a stop has set the flag and is to clear the caches
    warming,    \* a prewarm waits for its runs
    told,       \* history: "paused" from a stop to the next restart
    left        \* what is left of every bound

tick == <<attempt, failing, log, ended>>
control == <<paused, stopping, warming, told>>
world_ == <<world, source>>
wires == <<redis, linked>>
vars == <<world_, cache, run, tick, due, wires, control, left>>

Answer == [ver : 0 .. MaxChanges, age : 0 .. 1]

ASSUME AbsentAssumption == Absent \notin Answer

\* A frame runs for a daemon's tick, for a prewarm's tick or for a user.
Runners == {"daemon", "warm", "user"} \X Agents
Run == [at : {"idle", "probing", "probed", "keeping", "done", "raised", "backoff"},
        got : 0 .. MaxChanges]
NoRun == [at |-> "idle", got |-> 0]

Daemon(a) == <<"daemon", a>>
Warm(a) == <<"warm", a>>
User(a) == <<"user", a>>

Spend(what) ==
    /\ left[what] > 0 /\ left.all > 0
    /\ left' = [left EXCEPT ![what] = @ - 1, !.all = @ - 1]

-----------------------------------------------------------------------------
(* The cache.  Redis that is down reads as empty and loses what is written;  *)
(* get_redis tries once: a process that began without Redis has no client.   *)

Reach(r) == redis /\ (r[1] = "daemon" => linked[r[2]])

ReadCache(r) == IF Reach(r) THEN cache[r[2]] ELSE Absent

WriteCache(r, v) ==
    cache' = IF Reach(r) THEN [cache EXCEPT ![r[2]] = [ver |-> v, age |-> 0]] ELSE cache

\* INTERVAL_SECS have passed: a daemon that is asleep is due, and an answer
\* that was kept twice as long expires.
Interval ==
    /\ due' = [a \in Agents |-> due[a] \/ run[Daemon(a)].at = "idle"]
    /\ cache' = [a \in Agents |->
                    IF cache[a] = Absent \/ cache[a].age = 1 THEN Absent
                    ELSE [cache[a] EXCEPT !.age = 1]]
    /\ UNCHANGED <<world_, run, tick, wires, control, left>>

-----------------------------------------------------------------------------
(* run_frame, and tick_agent around it.                                     *)

\* A tick goes on where a user has an answer.
At(r, where) == IF r[1] = "user" THEN "idle" ELSE where

\* A run that neither refreshes nor is confirmed is answered from the cache;
\* a tick keeps that answer as if it were new.
Entered(r, bypass) ==
    LET c == ReadCache(r)
    IN  IF ~bypass /\ c # Absent THEN [at |-> At(r, "keeping"), got |-> c.ver]
        ELSE [at |-> "probing", got |-> 0]

Enter(r, bypass) == run' = [run EXCEPT ![r] = Entered(r, bypass)]

\* The source is read; a bad status is an answer that is not cached.
Probe(r) ==
    /\ run[r].at = "probing"
    /\ run' = [run EXCEPT ![r] =
          CASE source[r[2]] = "well" -> [at |-> "probed", got |-> world[r[2]]]
            [] source[r[2]] = "unwell" -> [at |-> At(r, "done"), got |-> 0]
            [] source[r[2]] = "raising" -> [at |-> At(r, "raised"), got |-> 0]]
    /\ UNCHANGED <<world_, cache, tick, due, wires, control, left>>

\* cache_frame_run in run_frame, after the last await that can take long.
Save(r) ==
    /\ run[r].at = "probed"
    /\ WriteCache(r, run[r].got)
    /\ run' = [run EXCEPT ![r].at = At(r, "keeping")]
    /\ UNCHANGED <<world_, tick, due, wires, control, left>>

\* cache_frame_run in tick_agent.
Keep(r) ==
    /\ run[r].at = "keeping"
    /\ WriteCache(r, run[r].got)
    /\ run' = [run EXCEPT ![r].at = "done"]
    /\ UNCHANGED <<world_, tick, due, wires, control, left>>

RunStep(r) == Probe(r) \/ Save(r) \/ Keep(r)

\* POST /api/frames/<id>/run, a voice turn, a bundle.
UserRun(a) ==
    /\ run[User(a)].at = "idle"
    /\ Spend("asks")
    /\ \E bypass \in BOOLEAN : Enter(User(a), bypass)
    /\ UNCHANGED <<world_, cache, tick, due, wires, control>>

-----------------------------------------------------------------------------
(* run_specialist.                                                          *)

\* agents_paused: without Redis, the flag of a daemon's own process, which
\* nothing sets.
AgentsPaused(a) == Reach(Daemon(a)) /\ paused

\* Mutant: no tick asks for a refresh.
LoopStartCached(a) ==
    /\ due[a] /\ run[Daemon(a)].at = "idle"
    /\ due' = [due EXCEPT ![a] = FALSE]
    /\ IF AgentsPaused(a)
       THEN UNCHANGED <<run, attempt>>
       ELSE /\ attempt' = [attempt EXCEPT ![a] = 1]
            /\ Enter(Daemon(a), FALSE)
    /\ UNCHANGED <<world_, cache, failing, log, ended, wires, control, left>>

\* The head of the loop: a paused daemon goes back to sleep.
LoopStart(a) ==
    /\ due[a] /\ run[Daemon(a)].at = "idle"
    /\ due' = [due EXCEPT ![a] = FALSE]
    /\ IF AgentsPaused(a)
       THEN UNCHANGED <<run, attempt>>
       ELSE /\ attempt' = [attempt EXCEPT ![a] = 1]
            /\ Enter(Daemon(a), a \in Live)
    /\ UNCHANGED <<world_, cache, failing, log, ended, wires, control, left>>

\* Mutant: the failure is not forgotten.
TickEndsFailing(a) ==
    /\ run[Daemon(a)].at = "done"
    /\ run' = [run EXCEPT ![Daemon(a)].at = "idle"]
    /\ log' = IF failing[a] THEN [log EXCEPT ![a] = "resolved"] ELSE log
    /\ ended' = [ended EXCEPT ![a] = "ok"]
    /\ UNCHANGED <<world_, cache, due, attempt, failing, wires, control, left>>

\* A tick that returns, whatever its status, ends an issue.
TickEnds(a) ==
    /\ run[Daemon(a)].at = "done"
    /\ run' = [run EXCEPT ![Daemon(a)].at = "idle"]
    /\ log' = IF failing[a] THEN [log EXCEPT ![a] = "resolved"] ELSE log
    /\ failing' = [failing EXCEPT ![a] = FALSE]
    /\ ended' = [ended EXCEPT ![a] = "ok"]
    /\ UNCHANGED <<world_, cache, due, attempt, wires, control, left>>

\* Mutant: the attempts are not counted.
TickRaisesForever(a) ==
    /\ run[Daemon(a)].at = "raised"
    /\ run' = [run EXCEPT ![Daemon(a)].at = "backoff"]
    /\ UNCHANGED <<world_, cache, due, tick, wires, control, left>>

\* A tick that raises is tried again after a delay, and at last reported: as
\* an issue, if none is open.
TickRaises(a) ==
    /\ run[Daemon(a)].at = "raised"
    /\ IF attempt[a] <= MaxRetries
       THEN /\ run' = [run EXCEPT ![Daemon(a)].at = "backoff"]
            /\ attempt' = [attempt EXCEPT ![a] = @ + 1]
            /\ UNCHANGED <<failing, log, ended>>
       ELSE /\ run' = [run EXCEPT ![Daemon(a)].at = "idle"]
            /\ log' = IF failing[a] THEN log ELSE [log EXCEPT ![a] = "detected"]
            /\ failing' = [failing EXCEPT ![a] = TRUE]
            /\ ended' = [ended EXCEPT ![a] = "failed"]
            /\ UNCHANGED attempt
    /\ UNCHANGED <<world_, cache, due, wires, control, left>>

\* After the delay the tick is tried again, paused or not.
Retry(a) ==
    /\ run[Daemon(a)].at = "backoff"
    /\ Enter(Daemon(a), a \in Live)
    /\ UNCHANGED <<world_, cache, due, tick, wires, control, left>>

\* The daemon's process is restarted; nothing is read back from the log.
Boot(a) ==
    /\ Spend("boots")
    /\ run' = [run EXCEPT ![Daemon(a)] = NoRun]
    /\ due' = [due EXCEPT ![a] = TRUE]
    /\ attempt' = [attempt EXCEPT ![a] = 0]
    /\ failing' = [failing EXCEPT ![a] = FALSE]
    /\ linked' = [linked EXCEPT ![a] = redis]
    /\ log' = [log EXCEPT ![a] = IF @ = "detected" THEN "orphaned" ELSE @]
    /\ ended' = [ended EXCEPT ![a] = "none"]
    /\ UNCHANGED <<world_, cache, redis, control>>

DaemonStep(a) == LoopStart(a) \/ TickEnds(a) \/ TickRaises(a) \/ Retry(a)

-----------------------------------------------------------------------------
(* Pausing and resuming.                                                    *)

\* stop_agent_daemons: the flag, then the caches; it answers ok without Redis.
StopFlag ==
    /\ ~stopping
    /\ Spend("controls")
    /\ stopping' = TRUE
    /\ paused' = (redis \/ paused)
    /\ told' = "paused"
    /\ UNCHANGED <<world_, cache, run, tick, due, wires, warming>>

StopClear ==
    /\ stopping
    /\ stopping' = FALSE
    /\ cache' = IF redis THEN [a \in Agents |-> Absent] ELSE cache
    /\ UNCHANGED <<world_, run, tick, due, wires, paused, warming, told, left>>

\* prewarm_all_agents: a refreshing tick of every agent; one such call at a
\* time is a bound.
WarmAll ==
    /\ ~warming
    /\ warming' = TRUE
    /\ run' = [r \in Runners |-> IF r[1] = "warm" THEN Entered(r, TRUE) ELSE run[r]]

\* restart_agent_daemons
Restart ==
    /\ Spend("controls")
    /\ paused' = (paused /\ ~redis)
    /\ told' = "resumed"
    /\ WarmAll
    /\ UNCHANGED <<world_, cache, tick, due, wires, stopping>>

\* POST /api/agents/prewarm, or the boot of the API: the flag stays.
Prewarm ==
    /\ Spend("controls")
    /\ WarmAll
    /\ UNCHANGED <<world_, cache, tick, due, wires, paused, stopping, told>>

\* The gather returns when every tick has returned or raised.
WarmEnds ==
    /\ warming
    /\ \A a \in Agents : run[Warm(a)].at \in {"done", "raised"}
    /\ warming' = FALSE
    /\ run' = [r \in Runners |-> IF r[1] = "warm" THEN NoRun ELSE run[r]]
    /\ UNCHANGED <<world_, cache, tick, due, wires, paused, stopping, told, left>>

-----------------------------------------------------------------------------
(* The environment.                                                         *)

Changes(a) ==
    /\ Spend("changes")
    /\ world' = [world EXCEPT ![a] = @ + 1]
    /\ UNCHANGED <<source, cache, run, tick, due, wires, control>>

Outage(a) ==
    /\ source[a] = "well"
    /\ Spend("outages")
    /\ \E s \in {"unwell", "raising"} : source' = [source EXCEPT ![a] = s]
    /\ UNCHANGED <<world, cache, run, tick, due, wires, control>>

Recovers(a) ==
    /\ source[a] # "well"
    /\ source' = [source EXCEPT ![a] = "well"]
    /\ UNCHANGED <<world, cache, run, tick, due, wires, control, left>>

RedisFails ==
    /\ redis
    /\ Spend("redis")
    /\ redis' = FALSE
    /\ UNCHANGED <<world_, cache, run, tick, due, linked, control>>

RedisReturns ==
    /\ ~redis
    /\ redis' = TRUE
    /\ UNCHANGED <<world_, cache, run, tick, due, linked, control, left>>

Bounds == [changes |-> MaxChanges, outages |-> MaxOutages, redis |-> MaxRedis,
           controls |-> MaxControls, asks |-> MaxAsks, boots |-> MaxBoots,
           all |-> MaxEvents]

Init ==
    /\ world = [a \in Agents |-> 0]
    /\ source = [a \in Agents |-> "well"]
    /\ cache = [a \in Agents |-> Absent]
    /\ run = [r \in Runners |-> NoRun]
    /\ attempt = [a \in Agents |-> 0]
    /\ due = [a \in Agents |-> TRUE]
    /\ failing = [a \in Agents |-> FALSE]
    /\ log = [a \in Agents |-> "none"]
    /\ ended = [a \in Agents |-> "none"]
    /\ redis = TRUE
    /\ linked = [a \in Agents |-> TRUE]
    /\ paused = FALSE
    /\ stopping = FALSE
    /\ warming = FALSE
    /\ told = "none"
    /\ left = Bounds

Next ==
    \/ Interval
    \/ \E r \in Runners : RunStep(r)
    \/ \E a \in Agents : UserRun(a) \/ DaemonStep(a) \/ Boot(a)
    \/ StopFlag \/ StopClear \/ Restart \/ Prewarm \/ WarmEnds
    \/ \E a \in Agents : Changes(a) \/ Outage(a) \/ Recovers(a)
    \/ RedisFails \/ RedisReturns

\* The daemons' loops never end and time passes; a call that has begun ends.
Fairness ==
    /\ WF_vars(Interval)
    /\ \A r \in Runners : WF_vars(RunStep(r))
    /\ \A a \in Agents : WF_vars(DaemonStep(a))
    /\ WF_vars(StopClear) /\ WF_vars(WarmEnds)

Spec == Init /\ [][Next]_vars

FairSpec == Spec /\ Fairness

-----------------------------------------------------------------------------
(* Properties.                                                              *)

TypeOK ==
    /\ world \in [Agents -> 0 .. MaxChanges]
    /\ source \in [Agents -> {"well", "unwell", "raising"}]
    /\ cache \in [Agents -> Answer \cup {Absent}]
    /\ run \in [Runners -> Run]
    /\ attempt \in [Agents -> 0 .. MaxRetries + 1]
    /\ due \in [Agents -> BOOLEAN]
    /\ linked \in [Agents -> BOOLEAN]
    /\ failing \in [Agents -> BOOLEAN]
    /\ log \in [Agents -> {"none", "detected", "resolved", "orphaned"}]
    /\ ended \in [Agents -> {"none", "ok", "failed"}]
    /\ {redis, paused, stopping, warming} \subseteq BOOLEAN
    /\ told \in {"none", "paused", "resumed"}
    /\ left \in [DOMAIN Bounds -> Nat]

\* An issue detected by the daemon's process is open in the guardian log just
\* as long as the process's last tick failed for good: detected once, resolved
\* once, over any number of failures, recoveries and restarts.
IssueOpenIffFailing ==
    \A a \in Agents : log[a] = "detected" <=> ended[a] = "failed"

\* An agent whose last tick was good has no issue open.
IssuesAreResolved == \A a \in Agents : ended[a] = "ok" => log[a] \in {"none", "resolved"}

Resting == {"idle", "backoff"}

\* From a stop to the next restart no daemon begins to run its frame.
PausedMeansIdle ==
    [][told = "paused" /\ told' = "paused" =>
          \A a \in Agents :
              run[Daemon(a)].at \in Resting => run'[Daemon(a)].at \in Resting]_vars

\* Agents that stay paused come to rest, failing ones too.
StopSettles ==
    \A a \in Agents : <>[]AgentsPaused(a) => <>[](run[Daemon(a)].at = "idle")

\* While its source and its Redis stay up and nobody pauses it, an agent's cache
\* ends up showing what there is to show.
CachesCatchUp ==
    \A a \in Agents :
        <>[](source[a] = "well" /\ Reach(Daemon(a)) /\ ~paused) =>
            <>[](cache[a] # Absent => cache[a].ver = world[a])
=============================================================================
