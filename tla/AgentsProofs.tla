---------------------------- MODULE AgentsProofs ----------------------------
(***************************************************************************)
(* Theorems about the specialist agents: AgentDaemons, for any number of      *)
(* agents, retries, outages, restarts and calls, and ServerSlices, for any    *)
(* catalog, presets, chains and squads and any number of requests.            *)
(*                                                                          *)
(* The plan of a request is joined and filtered by recursive functions; what  *)
(* they return follows from induction over Nat, in the form for sets.         *)
(***************************************************************************)
EXTENDS AgentDaemons, ServerSlices, FiniteSetTheorems, SequenceTheorems,
        WellFoundedInduction, TLAPS

Cache == [Agents -> Answer \cup {Absent}]
Runs == [Runners -> Run]

\* What is still to change fits in what the versions may reach.
Budget == \A a \in Agents : world[a] + left.changes <= MaxChanges

\* The daemon's own flag, the log and the last tick agree.
IssuesAgree ==
    \A a \in Agents :
        /\ failing[a] <=> ended[a] = "failed"
        /\ failing[a] <=> log[a] = "detected"

IInv == TypeOK /\ Budget /\ IssuesAgree

-----------------------------------------------------------------------------

\* Every event that is bounded takes one from its own bound and one from all.
LEMMA SpendTakesOne ==
    ASSUME NEW what \in DOMAIN Bounds \ {"all"}, left \in [DOMAIN Bounds -> Nat], Spend(what)
    PROVE  /\ left' \in [DOMAIN Bounds -> Nat]
           /\ left'[what] = left[what] - 1
           /\ \A w \in DOMAIN Bounds \ {what, "all"} : left'[w] = left[w]
<1>1. "all" \in DOMAIN Bounds
  BY DEF Bounds
<1>2. /\ left[what] \in Nat /\ left[what] > 0
      /\ left["all"] \in Nat /\ left["all"] > 0
      /\ left' = [left EXCEPT ![what] = left[what] - 1, !["all"] = left["all"] - 1]
  BY <1>1 DEF Spend
<1>3. left[what] - 1 \in Nat /\ left["all"] - 1 \in Nat
  BY <1>2
<1> QED
  BY <1>1, <1>2, <1>3

\* A run begins with what its cache holds, or with nothing.
LEMMA EnteredTyped ==
    ASSUME NEW r \in Runners, NEW bypass, cache \in Cache
    PROVE  Entered(r, bypass) \in Run
<1>1. r[2] \in Agents
  BY DEF Runners
<1>2. ReadCache(r) \in Answer \cup {Absent}
  BY <1>1 DEF ReadCache, Cache
<1>3. \A c \in Answer : c.ver \in 0 .. MaxChanges
  BY DEF Answer
<1>4. At(r, "keeping") \in {"idle", "keeping"}
  BY DEF At
<1>5. 0 \in 0 .. MaxChanges
  BY DaemonsAssumption
<1>6. CASE ~bypass /\ ReadCache(r) # Absent
  <2>1. ReadCache(r).ver \in 0 .. MaxChanges
    BY <1>2, <1>3, <1>6
  <2>2. Entered(r, bypass) = [at |-> At(r, "keeping"), got |-> ReadCache(r).ver]
    BY <1>6 DEF Entered
  <2> QED
    BY <1>4, <2>1, <2>2 DEF Run
<1>7. CASE ~(~bypass /\ ReadCache(r) # Absent)
  <2>1. Entered(r, bypass) = [at |-> "probing", got |-> 0]
    BY <1>7 DEF Entered
  <2> QED
    BY <1>5, <2>1 DEF Run
<1> QED
  BY <1>6, <1>7

\* Entering a run keeps the runs' type.
LEMMA EnterTyped ==
    ASSUME NEW r \in Runners, NEW bypass, cache \in Cache, run \in Runs, Enter(r, bypass)
    PROVE  run' \in Runs
<1>1. Entered(r, bypass) \in Run
  BY EnteredTyped
<1>2. run' = [run EXCEPT ![r] = Entered(r, bypass)]
  BY DEF Enter
<1> HIDE DEF Run
<1> QED
  BY <1>1, <1>2 DEF Runs

\* So does writing an answer that was read.
LEMMA WriteTyped ==
    ASSUME NEW r \in Runners, NEW v \in 0 .. MaxChanges, cache \in Cache, WriteCache(r, v)
    PROVE  cache' \in Cache
<1>1. [ver |-> v, age |-> 0] \in Answer
  BY DEF Answer
<1>2. CASE Reach(r)
  <2> DEFINE entry == [ver |-> v, age |-> 0]
  <2>1. cache' = [cache EXCEPT ![r[2]] = entry]
    BY <1>2 DEF WriteCache
  <2>2. entry \in Answer
    BY <1>1
  <2> HIDE DEF entry
  <2> QED
    BY <2>1, <2>2 DEF Cache
<1>3. CASE ~Reach(r)
  BY <1>3 DEF WriteCache
<1> QED
  BY <1>2, <1>3

\* A run moves on without losing its type.
LEMMA MoveTyped ==
    ASSUME NEW r \in Runners, run \in Runs, NEW place,
           place \in {"idle", "probing", "probed", "keeping", "done", "raised", "backoff"}
    PROVE  [run EXCEPT ![r].at = place] \in Runs
<1> DEFINE moved == [run[r] EXCEPT !.at = place]
<1>1. run[r] \in Run
  BY DEF Runs
<1>2. moved \in Run
  BY <1>1 DEF Run
<1>3. [run EXCEPT ![r].at = place] = [run EXCEPT ![r] = moved]
  OBVIOUS
<1> HIDE DEF moved
<1> QED
  BY <1>2, <1>3 DEF Runs

\* The bounds are numbers, the one on changes among them.
LEMMA BoundsTyped == Bounds \in [DOMAIN Bounds -> Nat] /\ Bounds.changes = MaxChanges
<1>1. DOMAIN Bounds = {"changes", "outages", "redis", "controls", "asks", "boots", "all"}
  BY DEF Bounds
<1>2. \A w \in DOMAIN Bounds : Bounds[w] \in Nat
  BY <1>1, DaemonsAssumption DEF Bounds
<1>3. Bounds = [w \in DOMAIN Bounds |-> Bounds[w]]
  BY DEF Bounds
<1> QED
  BY <1>2, <1>3 DEF Bounds

-----------------------------------------------------------------------------

LEMMA InitInv == Init => IInv
<1> SUFFICES ASSUME Init
             PROVE  IInv
  OBVIOUS
<1>1. 0 \in 0 .. MaxChanges /\ 0 \in 0 .. MaxRetries + 1
  BY DaemonsAssumption
<1>2. NoRun \in Run
  BY <1>1 DEF NoRun, Run
<1>3. run \in [Runners -> Run]
  BY <1>2 DEF Init
<1>4. left \in [DOMAIN Bounds -> Nat] /\ left.changes = MaxChanges
  BY BoundsTyped DEF Init
<1>5. TypeOK
  <2>1. /\ world \in [Agents -> 0 .. MaxChanges]
        /\ attempt \in [Agents -> 0 .. MaxRetries + 1]
        /\ cache \in [Agents -> Answer \cup {Absent}]
    BY <1>1 DEF Init
  <2>2. /\ source \in [Agents -> {"well", "unwell", "raising"}]
        /\ log \in [Agents -> {"none", "detected", "resolved", "orphaned"}]
        /\ ended \in [Agents -> {"none", "ok", "failed"}]
        /\ told \in {"none", "paused", "resumed"}
    BY DEF Init
  <2>3. /\ due \in [Agents -> BOOLEAN]
        /\ linked \in [Agents -> BOOLEAN]
        /\ failing \in [Agents -> BOOLEAN]
    BY DEF Init
  <2>4. {redis, paused, stopping, warming} \subseteq BOOLEAN
    BY DEF Init
  <2> QED
    BY <1>3, <1>4, <2>1, <2>2, <2>3, <2>4 DEF TypeOK
<1>6. Budget
  <2>1. \A a \in Agents : world[a] = 0
    BY DEF Init
  <2>2. MaxChanges \in Nat
    BY DaemonsAssumption
  <2> SUFFICES ASSUME NEW a \in Agents
               PROVE  world[a] + left["changes"] <= MaxChanges
    BY DEF Budget
  <2>3. world[a] = 0 /\ left["changes"] = MaxChanges
    BY <1>4, <2>1
  <2> QED
    BY <2>2, <2>3
<1>7. IssuesAgree
  BY DEF Init, IssuesAgree
<1> QED
  BY <1>5, <1>6, <1>7 DEF IInv

\* What a step leaves to the issues and the budget when it touches neither.
LEMMA Undisturbed ==
    ASSUME IInv, UNCHANGED <<failing, ended, log, world>>, left'.changes = left.changes
    PROVE  Budget' /\ IssuesAgree'
BY DEF IInv, Budget, IssuesAgree

LEMMA ChangesIsABound == "changes" \in DOMAIN Bounds /\ "all" \in DOMAIN Bounds
BY DEF Bounds

\* Steps that move a run on: reading the source, saving and keeping an answer.
LEMMA RunStepInv ==
    ASSUME IInv, NEW r \in Runners, RunStep(r)
    PROVE  IInv'
<1>1. cache \in Cache /\ run \in Runs
  BY DEF IInv, TypeOK, Cache, Runs
<1>2. r[2] \in Agents /\ run[r] \in Run
  BY <1>1 DEF Runners, Runs
<1>3. run[r].got \in 0 .. MaxChanges
  BY <1>2 DEF Run
<1>4. cache' \in Cache /\ run' \in Runs
  <2>1. CASE Probe(r)
    <3>1. world[r[2]] \in 0 .. MaxChanges /\ 0 \in 0 .. MaxChanges
      BY <1>2, DaemonsAssumption DEF IInv, TypeOK
    <3>2. At(r, "done") \in {"idle", "done"} /\ At(r, "raised") \in {"idle", "raised"}
      BY DEF At
    <3>3. \E x \in Run : run' = [run EXCEPT ![r] = x]
      <4>1. CASE source[r[2]] = "well"
        <5>1. [at |-> "probed", got |-> world[r[2]]] \in Run
          BY <3>1 DEF Run
        <5> QED
          BY <2>1, <4>1, <5>1 DEF Probe
      <4>2. CASE source[r[2]] = "unwell"
        <5>1. [at |-> At(r, "done"), got |-> 0] \in Run
          BY <3>1, <3>2 DEF Run
        <5> QED
          BY <2>1, <4>2, <5>1 DEF Probe
      <4>3. CASE source[r[2]] = "raising"
        <5>1. [at |-> At(r, "raised"), got |-> 0] \in Run
          BY <3>1, <3>2 DEF Run
        <5> QED
          BY <2>1, <4>3, <5>1 DEF Probe
      <4>4. source[r[2]] \in {"well", "unwell", "raising"}
        BY <1>2 DEF IInv, TypeOK
      <4> QED
        BY <4>1, <4>2, <4>3, <4>4
    <3>4. run' \in Runs
      BY <1>1, <3>3 DEF Runs
    <3> QED
      BY <1>1, <2>1, <3>4 DEF Probe
  <2>2. CASE Save(r)
    <3>1. At(r, "keeping") \in {"idle", "keeping"}
      BY DEF At
    <3>2. run' \in Runs
      BY <1>1, <2>2, <3>1, MoveTyped DEF Save
    <3>3. cache' \in Cache
      BY <1>1, <1>3, <2>2, WriteTyped DEF Save
    <3> QED
      BY <3>2, <3>3
  <2>3. CASE Keep(r)
    <3>1. run' \in Runs
      BY <1>1, <2>3, MoveTyped DEF Keep
    <3>2. cache' \in Cache
      BY <1>1, <1>3, <2>3, WriteTyped DEF Keep
    <3> QED
      BY <3>1, <3>2
  <2> QED
    BY <2>1, <2>2, <2>3 DEF RunStep
<1>5. UNCHANGED <<world, source, attempt, failing, log, ended, due, redis, linked,
                  paused, stopping, warming, told, left>>
  BY DEF RunStep, Probe, Save, Keep, tick, control, world_, wires
<1>6. TypeOK'
  BY <1>4, <1>5 DEF IInv, TypeOK, Cache, Runs
<1> QED
  BY <1>5, <1>6, Undisturbed DEF IInv

-----------------------------------------------------------------------------
(* The daemon.                                                              *)

LEMMA LoopStartInv ==
    ASSUME IInv, NEW a \in Agents, LoopStart(a)
    PROVE  IInv'
<1>1. cache \in Cache /\ run \in Runs /\ Daemon(a) \in Runners
  BY DEF IInv, TypeOK, Cache, Runs, Daemon, Runners
<1>2. run' \in Runs
  BY <1>1, EnterTyped DEF LoopStart
<1>3. 1 \in 0 .. MaxRetries + 1
  BY DaemonsAssumption
<1>4. attempt' \in [Agents -> 0 .. MaxRetries + 1] /\ due' \in [Agents -> BOOLEAN]
  BY <1>3 DEF LoopStart, IInv, TypeOK
<1>5. UNCHANGED <<world, source, cache, failing, log, ended, redis, linked,
                  paused, stopping, warming, told, left>>
  BY DEF LoopStart, control, world_, wires
<1>6. TypeOK'
  BY <1>2, <1>4, <1>5 DEF IInv, TypeOK, Runs
<1> QED
  BY <1>5, <1>6, Undisturbed DEF IInv

LEMMA RetryInv ==
    ASSUME IInv, NEW a \in Agents, Retry(a)
    PROVE  IInv'
<1>1. cache \in Cache /\ run \in Runs /\ Daemon(a) \in Runners
  BY DEF IInv, TypeOK, Cache, Runs, Daemon, Runners
<1>2. run' \in Runs
  BY <1>1, EnterTyped DEF Retry
<1>3. UNCHANGED <<world, source, cache, attempt, failing, log, ended, due, redis, linked,
                  paused, stopping, warming, told, left>>
  BY DEF Retry, tick, control, world_, wires
<1>4. TypeOK'
  BY <1>2, <1>3 DEF IInv, TypeOK, Runs
<1> QED
  BY <1>3, <1>4, Undisturbed DEF IInv

LEMMA TickEndsInv ==
    ASSUME IInv, NEW a \in Agents, TickEnds(a)
    PROVE  IInv'
<1>1. run \in Runs /\ Daemon(a) \in Runners
  BY DEF IInv, TypeOK, Runs, Daemon, Runners
<1>2. run' \in Runs
  BY <1>1, MoveTyped DEF TickEnds
<1>3. UNCHANGED <<world, source, cache, attempt, due, redis, linked,
                  paused, stopping, warming, told, left>>
  BY DEF TickEnds, control, world_, wires
<1>4. /\ failing' \in [Agents -> BOOLEAN]
      /\ log' \in [Agents -> {"none", "detected", "resolved", "orphaned"}]
      /\ ended' \in [Agents -> {"none", "ok", "failed"}]
  BY DEF TickEnds, IInv, TypeOK
<1>5. TypeOK'
  BY <1>2, <1>3, <1>4 DEF IInv, TypeOK, Runs
<1>6. IssuesAgree'
  BY DEF TickEnds, IInv, TypeOK, IssuesAgree
<1>7. Budget'
  BY <1>3 DEF IInv, Budget
<1> QED
  BY <1>5, <1>6, <1>7 DEF IInv

LEMMA TickRaisesInv ==
    ASSUME IInv, NEW a \in Agents, TickRaises(a)
    PROVE  IInv'
<1>1. run \in Runs /\ Daemon(a) \in Runners
  BY DEF IInv, TypeOK, Runs, Daemon, Runners
<1>2. run' \in Runs
  BY <1>1, MoveTyped DEF TickRaises
<1>3. UNCHANGED <<world, source, cache, due, redis, linked,
                  paused, stopping, warming, told, left>>
  BY DEF TickRaises, control, world_, wires
<1>4. attempt' \in [Agents -> 0 .. MaxRetries + 1]
  <2>1. attempt[a] \in 0 .. MaxRetries + 1
    BY DEF IInv, TypeOK
  <2>2. CASE attempt[a] <= MaxRetries
    <3>1. attempt[a] + 1 \in 0 .. MaxRetries + 1
      BY <2>1, <2>2, DaemonsAssumption
    <3> QED
      BY <2>2, <3>1 DEF TickRaises, IInv, TypeOK
  <2>3. CASE ~(attempt[a] <= MaxRetries)
    BY <2>3 DEF TickRaises, IInv, TypeOK
  <2> QED
    BY <2>2, <2>3
<1>5. /\ failing' \in [Agents -> BOOLEAN]
      /\ log' \in [Agents -> {"none", "detected", "resolved", "orphaned"}]
      /\ ended' \in [Agents -> {"none", "ok", "failed"}]
  BY DEF TickRaises, IInv, TypeOK
<1>6. TypeOK'
  BY <1>2, <1>3, <1>4, <1>5 DEF IInv, TypeOK, Runs
<1>7. IssuesAgree'
  BY DEF TickRaises, IInv, TypeOK, IssuesAgree
<1>8. Budget'
  BY <1>3 DEF IInv, Budget
<1> QED
  BY <1>6, <1>7, <1>8 DEF IInv

LEMMA BootInv ==
    ASSUME IInv, NEW a \in Agents, Boot(a)
    PROVE  IInv'
<1>1. 0 \in 0 .. MaxChanges /\ 0 \in 0 .. MaxRetries + 1
  BY DaemonsAssumption
<1>2. NoRun \in Run
  BY <1>1 DEF NoRun, Run
<1>3. run' \in Runs
  <2> HIDE DEF NoRun, Run
  <2> QED
    BY <1>2 DEF Boot, IInv, TypeOK, Runs
<1>4. left' \in [DOMAIN Bounds -> Nat] /\ left'.changes = left.changes
  <2>1. "boots" \in DOMAIN Bounds \ {"all"} /\ "changes" \in DOMAIN Bounds \ {"boots", "all"}
    BY DEF Bounds
  <2> QED
    BY <2>1, SpendTakesOne DEF Boot, IInv, TypeOK
<1>5. UNCHANGED <<world, source, cache, redis, paused, stopping, warming, told>>
  BY DEF Boot, control, world_
<1>6. /\ attempt' \in [Agents -> 0 .. MaxRetries + 1]
      /\ due' \in [Agents -> BOOLEAN]
      /\ failing' \in [Agents -> BOOLEAN]
      /\ log' \in [Agents -> {"none", "detected", "resolved", "orphaned"}]
      /\ ended' \in [Agents -> {"none", "ok", "failed"}]
  BY <1>1 DEF Boot, IInv, TypeOK
<1>7. linked' \in [Agents -> BOOLEAN]
  BY DEF Boot, IInv, TypeOK
<1>8. TypeOK'
  BY <1>3, <1>4, <1>5, <1>6, <1>7 DEF IInv, TypeOK, Runs
<1>9. IssuesAgree'
  BY DEF Boot, IInv, TypeOK, IssuesAgree
<1>10. Budget'
  BY <1>4, <1>5 DEF IInv, Budget
<1> QED
  BY <1>8, <1>9, <1>10 DEF IInv
-----------------------------------------------------------------------------
(* Calls, users and time.                                                   *)

\* A call or an event that is bounded leaves the budget for changes alone.
LEMMA SpendElsewhere ==
    ASSUME NEW what \in DOMAIN Bounds \ {"all", "changes"}, TypeOK, Spend(what)
    PROVE  left' \in [DOMAIN Bounds -> Nat] /\ left'.changes = left.changes
BY SpendTakesOne, ChangesIsABound DEF TypeOK

LEMMA BoundNames ==
    {"controls", "asks", "outages", "redis"} \subseteq DOMAIN Bounds \ {"all", "changes"}
BY DEF Bounds

LEMMA IntervalInv ==
    ASSUME IInv, Interval
    PROVE  IInv'
<1>1. due' \in [Agents -> BOOLEAN]
  BY DEF Interval, IInv, TypeOK
<1>2. cache' \in Cache
  <2> DEFINE aged(a) == [cache[a] EXCEPT !.age = 1]
             stays(a) == IF cache[a] = Absent \/ cache[a].age = 1 THEN Absent ELSE aged(a)
  <2>1. ASSUME NEW a \in Agents, cache[a] # Absent
        PROVE  aged(a) \in Answer
    BY <2>1 DEF IInv, TypeOK, Answer
  <2>2. cache' = [a \in Agents |-> stays(a)]
    BY DEF Interval
  <2> HIDE DEF aged
  <2>3. \A a \in Agents : stays(a) \in Answer \cup {Absent}
    BY <2>1
  <2> HIDE DEF stays
  <2> QED
    BY <2>2, <2>3 DEF Cache
<1>3. UNCHANGED <<world, source, run, attempt, failing, log, ended, redis, linked,
                  paused, stopping, warming, told, left>>
  BY DEF Interval, tick, control, world_, wires
<1>4. TypeOK'
  BY <1>1, <1>2, <1>3 DEF IInv, TypeOK, Cache
<1> QED
  BY <1>3, <1>4, Undisturbed DEF IInv

LEMMA UserRunInv ==
    ASSUME IInv, NEW a \in Agents, UserRun(a)
    PROVE  IInv'
<1>1. cache \in Cache /\ run \in Runs /\ User(a) \in Runners
  BY DEF IInv, TypeOK, Cache, Runs, User, Runners
<1>2. run' \in Runs
  BY <1>1, EnterTyped DEF UserRun
<1>3. left' \in [DOMAIN Bounds -> Nat] /\ left'.changes = left.changes
  BY SpendElsewhere, BoundNames DEF UserRun, IInv
<1>4. UNCHANGED <<world, source, cache, attempt, failing, log, ended, due, redis, linked,
                  paused, stopping, warming, told>>
  BY DEF UserRun, tick, control, world_, wires
<1>5. TypeOK'
  BY <1>2, <1>3, <1>4 DEF IInv, TypeOK, Runs
<1> QED
  BY <1>3, <1>4, <1>5, Undisturbed DEF IInv

\* A prewarm enters a run per agent.
LEMMA WarmTyped ==
    ASSUME IInv, WarmAll
    PROVE  run' \in Runs /\ warming' \in BOOLEAN
<1>1. \A r \in Runners : Entered(r, TRUE) \in Run /\ run[r] \in Run
  BY EnteredTyped DEF IInv, TypeOK, Cache
<1>2. run' = [r \in Runners |-> IF r[1] = "warm" THEN Entered(r, TRUE) ELSE run[r]]
  BY DEF WarmAll
<1>3. run' \in Runs
  <2> HIDE DEF Run, Entered, Runners
  <2> QED
    BY <1>1, <1>2 DEF Runs
<1> QED
  BY <1>3 DEF WarmAll

LEMMA StopFlagInv ==
    ASSUME IInv, StopFlag
    PROVE  IInv'
<1>1. left' \in [DOMAIN Bounds -> Nat] /\ left'.changes = left.changes
  BY SpendElsewhere, BoundNames DEF StopFlag, IInv
<1>2. UNCHANGED <<world, source, cache, run, attempt, failing, log, ended, due, redis,
                  linked, warming>>
  BY DEF StopFlag, tick, world_, wires
<1>3. {redis, paused', stopping', warming} \subseteq BOOLEAN /\ told' = "paused"
  BY DEF StopFlag, IInv, TypeOK
<1>4. TypeOK'
  BY <1>1, <1>2, <1>3 DEF IInv, TypeOK
<1> QED
  BY <1>1, <1>2, <1>4, Undisturbed DEF IInv

LEMMA StopClearInv ==
    ASSUME IInv, StopClear
    PROVE  IInv'
<1>1. cache' \in Cache
  BY DEF StopClear, IInv, TypeOK, Cache
<1>2. UNCHANGED <<world, source, run, attempt, failing, log, ended, due, redis, linked,
                  paused, warming, told, left>> /\ stopping' = FALSE
  BY DEF StopClear, tick, world_, wires
<1>3. TypeOK'
  BY <1>1, <1>2 DEF IInv, TypeOK, Cache
<1> QED
  BY <1>2, <1>3, Undisturbed DEF IInv

LEMMA RestartInv ==
    ASSUME IInv, Restart
    PROVE  IInv'
<1>1. left' \in [DOMAIN Bounds -> Nat] /\ left'.changes = left.changes
  BY SpendElsewhere, BoundNames DEF Restart, IInv
<1>2. run' \in Runs /\ warming' \in BOOLEAN
  BY WarmTyped DEF Restart
<1>3. UNCHANGED <<world, source, cache, attempt, failing, log, ended, due, redis, linked,
                  stopping>>
  BY DEF Restart, tick, world_, wires
<1>4. {redis, paused', stopping, warming'} \subseteq BOOLEAN /\ told' = "resumed"
  BY <1>2 DEF Restart, IInv, TypeOK
<1>5. TypeOK'
  BY <1>1, <1>2, <1>3, <1>4 DEF IInv, TypeOK, Runs
<1> QED
  BY <1>1, <1>3, <1>5, Undisturbed DEF IInv

LEMMA PrewarmInv ==
    ASSUME IInv, Prewarm
    PROVE  IInv'
<1>1. left' \in [DOMAIN Bounds -> Nat] /\ left'.changes = left.changes
  BY SpendElsewhere, BoundNames DEF Prewarm, IInv
<1>2. run' \in Runs /\ warming' \in BOOLEAN
  BY WarmTyped DEF Prewarm
<1>3. UNCHANGED <<world, source, cache, attempt, failing, log, ended, due, redis, linked,
                  paused, stopping, told>>
  BY DEF Prewarm, tick, world_, wires
<1>4. TypeOK'
  BY <1>1, <1>2, <1>3 DEF IInv, TypeOK, Runs
<1> QED
  BY <1>1, <1>3, <1>4, Undisturbed DEF IInv

LEMMA WarmEndsInv ==
    ASSUME IInv, WarmEnds
    PROVE  IInv'
<1>1. NoRun \in Run
  BY DaemonsAssumption DEF NoRun, Run
<1>2. run' \in Runs
  <2> HIDE DEF Run, NoRun, Runners
  <2> QED
    BY <1>1 DEF WarmEnds, IInv, TypeOK, Runs
<1>3. UNCHANGED <<world, source, cache, attempt, failing, log, ended, due, redis, linked,
                  paused, stopping, told, left>> /\ warming' = FALSE
  BY DEF WarmEnds, tick, world_, wires
<1>4. TypeOK'
  BY <1>2, <1>3 DEF IInv, TypeOK, Runs
<1> QED
  BY <1>3, <1>4, Undisturbed DEF IInv

-----------------------------------------------------------------------------
(* The environment.                                                         *)

LEMMA ChangesInv ==
    ASSUME IInv, NEW a \in Agents, Changes(a)
    PROVE  IInv'
<1>1. /\ left' \in [DOMAIN Bounds -> Nat]
      /\ left["changes"] \in Nat /\ left["changes"] > 0
      /\ left'["changes"] = left["changes"] - 1
  BY SpendTakesOne, ChangesIsABound DEF Changes, Spend, IInv, TypeOK
<1>2. UNCHANGED <<source, cache, run, attempt, failing, log, ended, due, redis, linked,
                  paused, stopping, warming, told>>
  BY DEF Changes, tick, control, wires
<1>3. world \in [Agents -> 0 .. MaxChanges] /\ MaxChanges \in Nat
  BY DaemonsAssumption DEF IInv, TypeOK
<1>4. world' = [world EXCEPT ![a] = world[a] + 1]
  BY DEF Changes
<1>5. \A b \in Agents : world[b] + left["changes"] <= MaxChanges
  BY DEF IInv, Budget
<1>6. world' \in [Agents -> 0 .. MaxChanges]
  <2>1. world[a] + 1 \in 0 .. MaxChanges
    BY <1>1, <1>3, <1>5
  <2> QED
    BY <1>3, <1>4, <2>1
<1>7. Budget'
  <2> SUFFICES ASSUME NEW b \in Agents
               PROVE  world'[b] + left'["changes"] <= MaxChanges
    BY DEF Budget
  <2>1. world[b] \in Nat /\ world'[b] = IF b = a THEN world[b] + 1 ELSE world[b]
    BY <1>3, <1>4
  <2> QED
    BY <1>1, <1>3, <1>5, <2>1
<1>8. TypeOK'
  BY <1>1, <1>2, <1>6 DEF IInv, TypeOK
<1>9. IssuesAgree'
  BY <1>2 DEF IInv, IssuesAgree
<1> QED
  BY <1>7, <1>8, <1>9 DEF IInv

LEMMA OutageInv ==
    ASSUME IInv, NEW a \in Agents, Outage(a)
    PROVE  IInv'
<1>1. left' \in [DOMAIN Bounds -> Nat] /\ left'.changes = left.changes
  BY SpendElsewhere, BoundNames DEF Outage, IInv
<1>2. source' \in [Agents -> {"well", "unwell", "raising"}]
  BY DEF Outage, IInv, TypeOK
<1>3. UNCHANGED <<world, cache, run, attempt, failing, log, ended, due, redis, linked,
                  paused, stopping, warming, told>>
  BY DEF Outage, tick, control, wires
<1>4. TypeOK'
  BY <1>1, <1>2, <1>3 DEF IInv, TypeOK
<1> QED
  BY <1>1, <1>3, <1>4, Undisturbed DEF IInv

LEMMA RecoversInv ==
    ASSUME IInv, NEW a \in Agents, Recovers(a)
    PROVE  IInv'
<1>1. source' \in [Agents -> {"well", "unwell", "raising"}]
  BY DEF Recovers, IInv, TypeOK
<1>2. UNCHANGED <<world, cache, run, attempt, failing, log, ended, due, redis, linked,
                  paused, stopping, warming, told, left>>
  BY DEF Recovers, tick, control, wires
<1>3. TypeOK'
  BY <1>1, <1>2 DEF IInv, TypeOK
<1> QED
  BY <1>2, <1>3, Undisturbed DEF IInv

LEMMA RedisInv ==
    ASSUME IInv, RedisFails \/ RedisReturns
    PROVE  IInv'
<1>1. left' \in [DOMAIN Bounds -> Nat] /\ left'.changes = left.changes
  BY SpendElsewhere, BoundNames DEF RedisFails, RedisReturns, IInv, TypeOK
<1>2. UNCHANGED <<world, source, cache, run, attempt, failing, log, ended, due, linked,
                  paused, stopping, warming, told>> /\ redis' \in BOOLEAN
  BY DEF RedisFails, RedisReturns, tick, control, world_
<1>3. TypeOK'
  BY <1>1, <1>2 DEF IInv, TypeOK
<1> QED
  BY <1>1, <1>2, <1>3, Undisturbed DEF IInv

-----------------------------------------------------------------------------

LEMMA NextInv == IInv /\ [Next]_vars => IInv'
<1> SUFFICES ASSUME IInv, [Next]_vars
             PROVE  IInv'
  OBVIOUS
<1>1. CASE Interval
  BY <1>1, IntervalInv
<1>2. CASE \E r \in Runners : RunStep(r)
  BY <1>2, RunStepInv
<1>3. ASSUME NEW a \in Agents, UserRun(a) \/ DaemonStep(a) \/ Boot(a)
      PROVE  IInv'
  BY <1>3, UserRunInv, LoopStartInv, TickEndsInv, TickRaisesInv, RetryInv, BootInv
     DEF DaemonStep
<1>4. CASE StopFlag \/ StopClear \/ Restart \/ Prewarm \/ WarmEnds
  BY <1>4, StopFlagInv, StopClearInv, RestartInv, PrewarmInv, WarmEndsInv
<1>5. ASSUME NEW a \in Agents, Changes(a) \/ Outage(a) \/ Recovers(a)
      PROVE  IInv'
  BY <1>5, ChangesInv, OutageInv, RecoversInv
<1>6. CASE RedisFails \/ RedisReturns
  BY <1>6, RedisInv
<1>7. CASE UNCHANGED vars
  <2>1. UNCHANGED <<world, source, cache, run, attempt, failing, log, ended, due, redis,
                    linked, paused, stopping, warming, told, left>>
    BY <1>7 DEF vars, tick, control, world_, wires
  <2> QED
    BY <2>1 DEF IInv, TypeOK, Budget, IssuesAgree
<1> QED
  BY <1>1, <1>2, <1>3, <1>4, <1>5, <1>6, <1>7 DEF Next

LEMMA Invariance == Spec => []IInv
<1>1. Init => IInv
  BY InitInv
<1>2. IInv /\ [Next]_vars => IInv'
  BY NextInv
<1> QED
  BY <1>1, <1>2, PTL DEF Spec

\* Every variable keeps its type: the versions never pass their bound, a daemon
\* never counts more attempts than run_with_auto_restart makes.
THEOREM TypeCorrect == Spec => []TypeOK
<1>1. IInv => TypeOK
  BY DEF IInv
<1> QED
  BY <1>1, Invariance, PTL

\* For any number of agents, failures, retries, restarts and outages of Redis,
\* what a daemon's process has reported in the guardian log (detected, resolved)
\* agrees with how its last tick ended.
THEOREM IssuesCorrect == Spec => []IssueOpenIffFailing
<1>1. IInv => IssueOpenIffFailing
  BY DEF IInv, TypeOK, IssuesAgree, IssueOpenIffFailing
<1> QED
  BY <1>1, Invariance, PTL

-------------------------------------------------------------------------------
(* Recursive functions over the lengths of sequences.                          *)

\* Induction over the naturals, of a set.
LEMMA LeastOf ==
    ASSUME NEW T \in SUBSET Nat, T # {}
    PROVE  \E m \in T : \A k \in T : m <= k
<1> DEFINE R == OpToRel(<, Nat)
<1>1. IsWellFoundedOn(R, Nat)
  BY NatLessThanWellFounded
<1>2. \A x, y \in Nat : x < y => <<x, y>> \in R
  BY DEF OpToRel
<1> HIDE DEF R
<1>3. PICK m \in T : \A y \in T : ~(<<y, m>> \in R)
  BY <1>1, WFMin
<1>4. ASSUME NEW k \in T PROVE m <= k
  <2>1. ~(k < m)
    BY <1>2, <1>3
  <2> QED
    BY <2>1
<1> QED
  BY <1>4

LEMMA Induction == \A S : 0 \in S /\ (\A n \in Nat : n \in S => n + 1 \in S) => Nat \subseteq S
<1> SUFFICES ASSUME NEW S, 0 \in S, \A n \in Nat : n \in S => n + 1 \in S,
                    Nat \ S # {}
             PROVE  FALSE
  OBVIOUS
<1>1. PICK x \in Nat \ S : \A k \in Nat \ S : x <= k
  BY LeastOf
<1>2. x \in Nat /\ x # 0 /\ x - 1 \in Nat /\ (x - 1) + 1 = x
  BY <1>1
<1>3. x - 1 \in S
  BY <1>1, <1>2
<1> QED
  BY <1>1, <1>2, <1>3

\* What FlattenSeq joins of the first sequences of p.
Joined(p) ==
    LET flatten[i \in 1 .. Len(p)] ==
          IF i = 1 THEN p[i] ELSE flatten[i - 1] \o p[i]
    IN flatten

LEMMA JoinedExists ==
    ASSUME NEW p
    PROVE  \A n \in Nat :
             \E f : f = [i \in 1 .. n |-> IF i = 1 THEN p[i] ELSE f[i - 1] \o p[i]]
<1> DEFINE E(n) == \E f : f = [i \in 1 .. n |-> IF i = 1 THEN p[i] ELSE f[i - 1] \o p[i]]
           S == {n \in Nat : E(n)}
<1>1. 0 \in S
  <2> DEFINE f == [i \in 1 .. 0 |-> p]
  <2>1. f = [i \in 1 .. 0 |-> IF i = 1 THEN p[i] ELSE f[i - 1] \o p[i]]
    OBVIOUS
  <2> QED
    BY <2>1
<1>2. ASSUME NEW n \in Nat, n \in S PROVE n + 1 \in S
  <2> PICK f : f = [i \in 1 .. n |-> IF i = 1 THEN p[i] ELSE f[i - 1] \o p[i]]
    BY <1>2
  <2> DEFINE g == [i \in 1 .. n + 1 |->
                     IF i = 1 THEN p[i] ELSE f[i - 1] \o p[i]]
  <2>1. ASSUME NEW i \in 1 .. n + 1, i # 1 PROVE g[i - 1] = f[i - 1]
    <3>1. i - 1 \in 1 .. n /\ i - 1 \in 1 .. n + 1
      BY <2>1
    <3> QED
      BY <3>1
  <2>2. g = [i \in 1 .. n + 1 |-> IF i = 1 THEN p[i] ELSE g[i - 1] \o p[i]]
    BY <2>1
  <2> HIDE DEF g
  <2>3. E(n + 1)
    BY <2>2
  <2> HIDE DEF E
  <2> QED
    BY <2>3
<1> HIDE DEF S
<1>3. Nat \subseteq S
  BY <1>1, <1>2, Induction
<1> QED
  BY <1>3 DEF S

LEMMA JoinedUnfolds ==
    ASSUME NEW p, Len(p) \in Nat
    PROVE  \A i \in 1 .. Len(p) :
             Joined(p)[i] = IF i = 1 THEN p[i] ELSE Joined(p)[i - 1] \o p[i]
<1>1. Joined(p) = [i \in 1 .. Len(p) |-> IF i = 1 THEN p[i] ELSE Joined(p)[i - 1] \o p[i]]
  BY JoinedExists DEF Joined
<1> HIDE DEF Joined
<1> QED
  BY <1>1

LEMMA JoinedTyped ==
    ASSUME NEW T, NEW p \in Seq(Seq(T)), NEW n \in 1 .. Len(p)
    PROVE  Joined(p)[n] \in Seq(T)
<1> DEFINE S == {k \in Nat : k + 1 \in 1 .. Len(p) => Joined(p)[k + 1] \in Seq(T)}
<1>0. Len(p) \in Nat /\ \A i \in 1 .. Len(p) : p[i] \in Seq(T)
  OBVIOUS
<1>1. 0 \in S
  <2>1. 1 \in 1 .. Len(p) => Joined(p)[1] = p[1]
    BY <1>0, JoinedUnfolds
  <2> QED
    BY <1>0, <2>1
<1>2. ASSUME NEW k \in Nat, k \in S PROVE k + 1 \in S
  <2> SUFFICES ASSUME (k + 1) + 1 \in 1 .. Len(p)
               PROVE  Joined(p)[(k + 1) + 1] \in Seq(T)
    OBVIOUS
  <2>1. k + 1 \in 1 .. Len(p) /\ (k + 1) + 1 # 1 /\ ((k + 1) + 1) - 1 = k + 1
    BY <1>0
  <2>2. Joined(p)[k + 1] \in Seq(T)
    BY <1>2, <2>1
  <2>3. Joined(p)[(k + 1) + 1] = Joined(p)[k + 1] \o p[(k + 1) + 1]
    <3> DEFINE m == (k + 1) + 1
    <3>1. m \in 1 .. Len(p) /\ m # 1 /\ m - 1 = k + 1
      BY <2>1
    <3> HIDE DEF m
    <3>2. Joined(p)[m] = Joined(p)[m - 1] \o p[m]
      BY <1>0, <3>1, JoinedUnfolds
    <3> QED
      BY <3>1, <3>2 DEF m
  <2> QED
    BY <1>0, <2>2, <2>3
<1> HIDE DEF S
<1>3. Nat \subseteq S
  BY <1>1, <1>2, Induction
<1>4. n - 1 \in Nat /\ (n - 1) + 1 = n
  BY <1>0
<1> QED
  BY <1>3, <1>4 DEF S

LEMMA FlattenIsJoined ==
    ASSUME NEW p, p # <<>>, NEW T, p \in Seq(T)
    PROVE  FlattenSeq(p) = Joined(p)[Len(p)] /\ Len(p) \in 1 .. Len(p)
<1>1. Len(p) # 0 /\ Len(p) \in Nat
  OBVIOUS
<1> QED
  BY <1>1 DEF FlattenSeq, Joined

LEMMA FlattenTyped ==
    ASSUME NEW T, NEW p \in Seq(Seq(T))
    PROVE  FlattenSeq(p) \in Seq(T)
<1>1. CASE p = <<>>
  BY <1>1 DEF FlattenSeq
<1>2. CASE p # <<>>
  BY <1>2, FlattenIsJoined, JoinedTyped
<1> QED
  BY <1>1, <1>2

\* What Only keeps of the first frames of a list.
KeptOf(ids, F) ==
    LET upTo[i \in 0 .. Len(ids)] ==
          IF i = 0 THEN <<>>
          ELSE IF ids[i] \in F THEN Append(upTo[i - 1], ids[i]) ELSE upTo[i - 1]
    IN upTo

IsKept(f, ids, F, n) ==
    f = [i \in 0 .. n |->
           IF i = 0 THEN <<>>
           ELSE IF ids[i] \in F THEN Append(f[i - 1], ids[i]) ELSE f[i - 1]]

LEMMA KeptExists ==
    ASSUME NEW ids, NEW F, NEW m \in Nat
    PROVE  \E f : IsKept(f, ids, F, m)
<1> DEFINE E(n) == \E f : IsKept(f, ids, F, n)
           S == {n \in Nat : E(n)}
<1>1. 0 \in S
  <2> DEFINE f == [i \in 0 .. 0 |-> <<>>]
  <2>1. IsKept(f, ids, F, 0)
    BY DEF IsKept
  <2> QED
    BY <2>1
<1>2. ASSUME NEW n \in Nat, n \in S PROVE n + 1 \in S
  <2> PICK f : IsKept(f, ids, F, n)
    BY <1>2
  <2> DEFINE g == [i \in 0 .. n + 1 |->
                     IF i = 0 THEN <<>>
                     ELSE IF ids[i] \in F THEN Append(f[i - 1], ids[i]) ELSE f[i - 1]]
  <2>1. ASSUME NEW i \in 0 .. n + 1, i # 0 PROVE g[i - 1] = f[i - 1]
    <3>1. i - 1 \in 0 .. n /\ i - 1 \in 0 .. n + 1
      BY <2>1
    <3> QED
      BY <3>1 DEF IsKept
  <2>2. IsKept(g, ids, F, n + 1)
    BY <2>1 DEF IsKept
  <2> HIDE DEF g
  <2>3. E(n + 1)
    BY <2>2
  <2> HIDE DEF E
  <2> QED
    BY <2>3
<1> HIDE DEF S
<1>3. Nat \subseteq S
  BY <1>1, <1>2, Induction
<1> QED
  BY <1>3 DEF S

LEMMA KeptUnfolds ==
    ASSUME NEW ids, NEW F, Len(ids) \in Nat
    PROVE  /\ KeptOf(ids, F)[0] = <<>>
           /\ \A i \in 1 .. Len(ids) :
                KeptOf(ids, F)[i] =
                  IF ids[i] \in F THEN Append(KeptOf(ids, F)[i - 1], ids[i])
                  ELSE KeptOf(ids, F)[i - 1]
<1>1. KeptOf(ids, F) =
        [i \in 0 .. Len(ids) |->
           IF i = 0 THEN <<>>
           ELSE IF ids[i] \in F THEN Append(KeptOf(ids, F)[i - 1], ids[i])
                ELSE KeptOf(ids, F)[i - 1]]
  <2>1. \E f : IsKept(f, ids, F, Len(ids))
    BY KeptExists
  <2> QED
    BY <2>1 DEF KeptOf, IsKept
<1> HIDE DEF KeptOf
<1>2. 0 \in 0 .. Len(ids) /\ \A i \in 1 .. Len(ids) : i \in 0 .. Len(ids) /\ i # 0
  OBVIOUS
<1> QED
  BY <1>1, <1>2

\* What is kept of frames of T is of T and of F.
LEMMA KeptTyped ==
    ASSUME NEW ids, NEW F, NEW T, Len(ids) \in Nat, NEW n \in 0 .. Len(ids),
           \A i \in 1 .. n : ids[i] \in T
    PROVE  KeptOf(ids, F)[n] \in Seq(F \cap T)
<1> DEFINE K == KeptOf(ids, F)
           S == {k \in Nat : k <= n => K[k] \in Seq(F \cap T)}
<1> HIDE DEF K
<1>0. /\ K[0] = <<>>
      /\ \A i \in 1 .. Len(ids) : K[i] = IF ids[i] \in F THEN Append(K[i - 1], ids[i])
                                         ELSE K[i - 1]
  BY KeptUnfolds DEF K
<1>1. 0 \in S
  <2>1. <<>> \in Seq(F \cap T)
    OBVIOUS
  <2> QED
    BY <1>0, <2>1
<1>2. ASSUME NEW k \in Nat, k \in S PROVE k + 1 \in S
  <2> SUFFICES ASSUME k + 1 <= n PROVE K[k + 1] \in Seq(F \cap T)
    OBVIOUS
  <2> DEFINE m == k + 1
  <2>1. m \in 1 .. n /\ m \in 1 .. Len(ids) /\ m - 1 = k /\ k <= n
    OBVIOUS
  <2> HIDE DEF m
  <2>2. K[k] \in Seq(F \cap T) /\ ids[m] \in T
    BY <1>2, <2>1
  <2>3. K[m] = IF ids[m] \in F THEN Append(K[k], ids[m]) ELSE K[k]
    BY <1>0, <2>1
  <2>4. K[m] \in Seq(F \cap T)
    BY <2>2, <2>3
  <2> QED
    BY <2>4 DEF m
<1> HIDE DEF S
<1>3. Nat \subseteq S
  BY <1>1, <1>2, Induction
<1> QED
  BY <1>3 DEF S, K

LEMMA OnlyIsKept == ASSUME NEW ids, NEW F PROVE Only(ids, F) = KeptOf(ids, F)[Len(ids)]
BY DEF Only, KeptOf

LEMMA OnlyTyped ==
    ASSUME NEW T, NEW F, NEW ids \in Seq(T)
    PROVE  Only(ids, F) \in Seq(F \cap T)
<1>1. Len(ids) \in 0 .. Len(ids) /\ Len(ids) \in Nat /\ \A i \in 1 .. Len(ids) : ids[i] \in T
  OBVIOUS
<1> QED
  BY <1>1, KeptTyped, OnlyIsKept

\* A last frame that is in F stays the last.
LastStays(A, x, F, T) ==
    \E B \in Seq(F \cap T) : Only(A \o <<x>>, F) = IF x \in F THEN B \o <<x>> ELSE B

LEMMA OnlyLast ==
    ASSUME NEW T, NEW F, NEW A \in Seq(T), NEW x
    PROVE  LastStays(A, x, F, T)
<1> DEFINE ids == A \o <<x>>
           n == Len(A)
<1>1. /\ n \in Nat /\ Len(ids) = n + 1 /\ ids[n + 1] = x
      /\ \A i \in 1 .. n : ids[i] \in T
  OBVIOUS
<1> HIDE DEF ids, n
<1> DEFINE B == KeptOf(ids, F)[n]
<1>2. B \in Seq(F \cap T)
  <2>1. n \in 0 .. Len(ids) /\ Len(ids) \in Nat
    BY <1>1
  <2> QED
    BY <1>1, <2>1, KeptTyped
<1>3. KeptOf(ids, F)[n + 1] = IF x \in F THEN Append(B, x) ELSE B
  <2> DEFINE m == n + 1
  <2>1. m \in 1 .. Len(ids) /\ m - 1 = n /\ ids[m] = x
    BY <1>1
  <2> HIDE DEF m
  <2>2. KeptOf(ids, F)[m] = IF x \in F THEN Append(B, x) ELSE B
    BY <1>1, <2>1, KeptUnfolds
  <2> QED
    BY <2>2 DEF m
<1> HIDE DEF B
<1>4. Append(B, x) = B \o <<x>>
  BY <1>2
<1>5. Only(ids, F) = KeptOf(ids, F)[n + 1]
  BY <1>1, OnlyIsKept
<1> QED
  BY <1>2, <1>3, <1>4, <1>5 DEF ids, LastStays

-------------------------------------------------------------------------------
(* The waves of a request.                                                     *)

Frames == ToSet(Catalog)

LEMMA ToSetOfSeq ==
    ASSUME NEW T, NEW s \in Seq(T)
    PROVE  /\ ToSet(s) = {s[i] : i \in 1 .. Len(s)}
           /\ ToSet(s) \subseteq T
           /\ s \in Seq(ToSet(s))
BY DEF ToSet

LEMMA Widened == ASSUME NEW S, NEW T, S \subseteq T, NEW s \in Seq(S) PROVE s \in Seq(T)
BY SeqMonotonic

\* Where a chunk ends is in the list.
LEMMA ChunksTyped ==
    ASSUME NEW T, NEW ids \in Seq(T), NEW mode
    PROVE  Chunks(ids, mode) \in Seq(Seq(T))
<1> DEFINE size == CASE mode = "parallel" -> Len(ids) [] mode = "wave" -> 2 [] OTHER -> 1
           count == IF ids = <<>> THEN 0 ELSE (Len(ids) + size - 1) \div size
           last(i) == IF i * size < Len(ids) THEN i * size ELSE Len(ids)
<1>0. Len(ids) \in Nat /\ \A i \in 1 .. Len(ids) : ids[i] \in T
  OBVIOUS
<1>1. size \in Nat /\ (ids # <<>> => size # 0)
  <2>1. ids # <<>> => Len(ids) # 0
    OBVIOUS
  <2> QED
    BY <1>0, <2>1
<1>2. Chunks(ids, mode) = [i \in 1 .. count |-> SubSeq(ids, (i - 1) * size + 1, last(i))]
  BY DEF Chunks
<1> HIDE DEF size
<1>3. count \in Nat
  <2>1. \A a, b \in Nat : b # 0 => (a + b - 1) \div b \in Nat
    OBVIOUS
  <2> QED
    BY <1>0, <1>1, <2>1
<1> HIDE DEF count
<1>4. \A i \in 1 .. count : SubSeq(ids, (i - 1) * size + 1, last(i)) \in Seq(T)
  <2> SUFFICES ASSUME NEW i \in 1 .. count
               PROVE  SubSeq(ids, (i - 1) * size + 1, last(i)) \in Seq(T)
    OBVIOUS
  <2>1. i \in Nat /\ i - 1 \in Nat
    BY <1>3
  <2>2. \A a, b \in Nat : a * b \in Nat
    OBVIOUS
  <2>3. i * size \in Nat /\ (i - 1) * size \in Nat
    BY <1>1, <2>1, <2>2
  <2>4. last(i) \in Nat /\ last(i) <= Len(ids)
    BY <1>0, <2>3
  <2> DEFINE m == (i - 1) * size + 1
             n == last(i)
  <2>5. m \in Int /\ n \in Int /\ m >= 1 /\ n <= Len(ids)
    BY <1>0, <2>3, <2>4
  <2> HIDE DEF m, n
  <2>6. \A j \in m .. n : ids[j] \in T
    BY <1>0, <2>5
  <2>7. SubSeq(ids, m, n) \in Seq(T)
    BY <2>5, <2>6, SubSeqProperties
  <2> QED
    BY <2>7 DEF m, n
<1> DEFINE c == [i \in 1 .. count |-> SubSeq(ids, (i - 1) * size + 1, last(i))]
<1>5. c \in [1 .. count -> Seq(T)]
  BY <1>4
<1> HIDE DEF c
<1>6. c \in Seq(Seq(T))
  BY <1>3, <1>5
<1> QED
  BY <1>2, <1>6 DEF c

\* One by one.
LEMMA StaggerChunks ==
    ASSUME NEW T, NEW ids \in Seq(T)
    PROVE  /\ Len(Chunks(ids, "stagger")) = Len(ids)
           /\ \A i \in 1 .. Len(ids) : Chunks(ids, "stagger")[i] = <<ids[i]>>
<1>0. Len(ids) \in Nat /\ (ids = <<>> => Len(ids) = 0)
  OBVIOUS
<1>1. Chunks(ids, "stagger") =
        [i \in 1 .. (IF ids = <<>> THEN 0 ELSE (Len(ids) + 1 - 1) \div 1) |->
           SubSeq(ids, (i - 1) * 1 + 1, IF i * 1 < Len(ids) THEN i * 1 ELSE Len(ids))]
  BY DEF Chunks
<1>2. (IF ids = <<>> THEN 0 ELSE (Len(ids) + 1 - 1) \div 1) = Len(ids)
  BY <1>0
<1>3. ASSUME NEW i \in 1 .. Len(ids)
      PROVE  /\ (i - 1) * 1 + 1 = i
             /\ (IF i * 1 < Len(ids) THEN i * 1 ELSE Len(ids)) = i
             /\ SubSeq(ids, i, i) = <<ids[i]>>
  <2>1. (i - 1) * 1 + 1 = i /\ (IF i * 1 < Len(ids) THEN i * 1 ELSE Len(ids)) = i
    BY <1>0
  <2>2. SubSeq(ids, i, i) = <<ids[i]>>
    <3>1. i \in Int /\ \A j \in i .. i : ids[j] \in T
      BY <1>0
    <3>2. i - i + 1 = 1 /\ i <= i /\ i + 1 - 1 = i
      BY <1>0
    <3>3. /\ SubSeq(ids, i, i) \in Seq(T) /\ Len(SubSeq(ids, i, i)) = 1
          /\ SubSeq(ids, i, i)[1] = ids[i]
      BY <3>1, <3>2, SubSeqProperties
    <3>4. /\ <<ids[i]>> \in Seq(T) /\ Len(<<ids[i]>>) = 1
          /\ <<ids[i]>>[1] = ids[i]
      OBVIOUS
    <3>5. \A j \in 1 .. 1 : j = 1
      OBVIOUS
    <3> DEFINE s == SubSeq(ids, i, i)
               t == <<ids[i]>>
    <3>6. /\ s \in Seq(T) /\ t \in Seq(T) /\ Len(s) = 1 /\ Len(t) = 1 /\ s[1] = t[1]
      BY <3>3, <3>4
    <3> HIDE DEF s, t
    <3>7. \A j \in 1 .. Len(s) : s[j] = t[j]
      BY <3>5, <3>6
    <3>8. s = t
      BY <3>6, <3>7, SeqEqual
    <3> QED
      BY <3>8 DEF s, t
  <2> QED
    BY <2>1, <2>2
<1> DEFINE c == [i \in 1 .. Len(ids) |-> <<ids[i]>>]
<1>4. Chunks(ids, "stagger") = c
  BY <1>1, <1>2, <1>3
<1>5. Len(c) = Len(ids) /\ \A i \in 1 .. Len(ids) : c[i] = <<ids[i]>>
  BY <1>0
<1> QED
  BY <1>4, <1>5


\* The pulse comes last, and once.
LEMMA PulseLastShape ==
    ASSUME NEW ids \in Seq(STRING)
    PROVE  \E A \in Seq(STRING \ {Pulse}) :
             PulseLast(ids) = IF Pulse \in ToSet(ids) THEN A \o <<Pulse>> ELSE A
<1> DEFINE A == Only(ids, ToSet(ids) \ {Pulse})
           U == (ToSet(ids) \ {Pulse}) \cap STRING
<1>1. A \in Seq(U)
  BY OnlyTyped
<1>2. U \subseteq STRING \ {Pulse}
  OBVIOUS
<1>3. PulseLast(ids) = A \o (IF Pulse \in ToSet(ids) THEN <<Pulse>> ELSE <<>>)
  BY DEF PulseLast
<1> HIDE DEF A, U
<1>4. A \in Seq(STRING \ {Pulse})
  BY <1>1, <1>2, Widened
<1>5. A \o <<>> = A
  BY <1>4
<1> QED
  BY <1>3, <1>4, <1>5

\* The frames of a stage that are run: none of them the pulse, but perhaps the last.
LEMMA ValidShape ==
    ASSUME NEW ids \in Seq(STRING)
    PROVE  \E B \in Seq(Frames \ {Pulse}) :
             Only(PulseLast(ids), Frames) =
               IF Pulse \in ToSet(ids) \cap Frames THEN B \o <<Pulse>> ELSE B
<1> PICK A \in Seq(STRING \ {Pulse}) :
       PulseLast(ids) = IF Pulse \in ToSet(ids) THEN A \o <<Pulse>> ELSE A
  BY PulseLastShape
<1> DEFINE V == STRING \ {Pulse}
           U == Frames \cap V
<1>1. U \subseteq Frames \ {Pulse}
  OBVIOUS
<1>0. A \in Seq(V)
  OBVIOUS
<1> HIDE DEF V
<1>2. CASE Pulse \in ToSet(ids)
  <2>1. LastStays(A, Pulse, Frames, V)
    BY <1>0, OnlyLast
  <2> PICK B \in Seq(U) :
          Only(A \o <<Pulse>>, Frames) = IF Pulse \in Frames THEN B \o <<Pulse>> ELSE B
    BY <2>1 DEF LastStays
  <2> HIDE DEF U
  <2>2. B \in Seq(Frames \ {Pulse})
    BY <1>1, Widened
  <2> QED
    BY <1>2, <2>2
<1>3. CASE Pulse \notin ToSet(ids)
  <2>1. Only(A, Frames) \in Seq(U)
    BY <1>0, OnlyTyped
  <2> HIDE DEF U
  <2>2. Only(A, Frames) \in Seq(Frames \ {Pulse})
    BY <1>1, <2>1, Widened
  <2> QED
    BY <1>3, <2>2
<1> QED
  BY <1>2, <1>3

LEMMA ValidTyped ==
    ASSUME NEW ids \in Seq(STRING)
    PROVE  Only(PulseLast(ids), Frames) \in Seq(Frames)
<1> PICK B \in Seq(Frames \ {Pulse}) :
      Only(PulseLast(ids), Frames) =
        IF Pulse \in ToSet(ids) \cap Frames THEN B \o <<Pulse>> ELSE B
  BY ValidShape
<1>1. B \in Seq(Frames)
  <2>1. Frames \ {Pulse} \subseteq Frames
    OBVIOUS
  <2> QED
    BY <2>1, Widened
<1>2. Pulse \in Frames => <<Pulse>> \in Seq(Frames)
  OBVIOUS
<1>3. Pulse \in Frames => B \o <<Pulse>> \in Seq(Frames)
  BY <1>1, <1>2, ConcatProperties
<1> QED
  BY <1>1, <1>3

LEMMA WavesTyped == ASSUME NEW stage \in Stage PROVE Waves(stage) \in Seq(Seq(Frames))
<1>1. stage.ids \in Seq(STRING)
  BY DEF Stage
<1> QED
  BY <1>1, ValidTyped, ChunksTyped DEF Waves, Frames

NoPulse(ws) == \A k \in 1 .. Len(ws) : Pulse \notin ToSet(ws[k])

\* The pulse has a wave of its own, the last one.
PulseAlone(ws) ==
    \A k \in 1 .. Len(ws) : Pulse \in ToSet(ws[k]) => k = Len(ws) /\ ws[k] = <<Pulse>>

LEMMA WavesWithoutPulse ==
    ASSUME NEW stage \in Stage, Pulse \notin ToSet(stage.ids)
    PROVE  NoPulse(Waves(stage))
<1>1. stage.ids \in Seq(STRING)
  BY DEF Stage
<1>2. Only(PulseLast(stage.ids), Frames) \in Seq(Frames \ {Pulse})
  BY <1>1, ValidShape
<1>3. Waves(stage) \in Seq(Seq(Frames \ {Pulse}))
  BY <1>2, ChunksTyped DEF Waves, Frames
<1>4. \A k \in 1 .. Len(Waves(stage)) : Waves(stage)[k] \in Seq(Frames \ {Pulse})
  BY <1>3
<1> QED
  BY <1>4, ToSetOfSeq DEF NoPulse

LEMMA StaggerPulseAlone ==
    ASSUME NEW stage \in Stage, stage.mode = "stagger"
    PROVE  PulseAlone(Waves(stage))
<1> DEFINE v == Only(PulseLast(stage.ids), Frames)
           ws == Waves(stage)
<1>1. stage.ids \in Seq(STRING)
  BY DEF Stage
<1>2. v \in Seq(Frames)
  BY <1>1, ValidTyped
<1>3. ws = Chunks(v, "stagger")
  BY DEF Waves, Frames
<1>4. PICK B \in Seq(Frames \ {Pulse}) : v \in {B, B \o <<Pulse>>}
  BY <1>1, ValidShape
<1> HIDE DEF v, ws
<1>5. \A i \in 1 .. Len(v) : v[i] = Pulse => i = Len(v)
  <2>1. CASE v = B
    BY <2>1
  <2>2. CASE v = B \o <<Pulse>>
    BY <2>2
  <2> QED
    BY <1>4, <2>1, <2>2
<1>6. Len(ws) = Len(v) /\ \A i \in 1 .. Len(v) : ws[i] = <<v[i]>>
  BY <1>2, <1>3, StaggerChunks
<1>7. \A x : ToSet(<<x>>) = {x}
  <2> SUFFICES ASSUME NEW x PROVE ToSet(<<x>>) = {x}
    OBVIOUS
  <2>1. DOMAIN <<x>> = {1} /\ <<x>>[1] = x
    OBVIOUS
  <2> DEFINE s == <<x>>
  <2>2. DOMAIN s = {1} /\ s[1] = x
    BY <2>1
  <2> HIDE DEF s
  <2>3. ToSet(s) = {x}
    BY <2>2 DEF ToSet
  <2> QED
    BY <2>3 DEF s
<1>8. PulseAlone(ws)
  <2> SUFFICES ASSUME NEW k \in 1 .. Len(ws), Pulse \in ToSet(ws[k])
               PROVE  k = Len(ws) /\ ws[k] = <<Pulse>>
    BY DEF PulseAlone
  <2>1. k \in 1 .. Len(v) /\ ws[k] = <<v[k]>>
    BY <1>6
  <2>2. ToSet(ws[k]) = {v[k]}
    BY <1>7, <2>1
  <2>3. v[k] = Pulse
    BY <2>2
  <2> QED
    BY <1>5, <1>6, <2>1, <2>3
<1> QED
  BY <1>8 DEF ws

-------------------------------------------------------------------------------
(* The plan of a request.                                                      *)

LEMMA Single == ASSUME NEW T, NEW x \in T PROVE <<x>> \in Seq(T)
OBVIOUS

LEMMA StagesTyped == ASSUME NEW q \in Asks PROVE Stages(q) \in Seq(Stage)
<1>0. /\ q \in Ask
      /\ q.kind = "preset" => q.id \in DOMAIN Presets
      /\ q.kind = "chain" => q.id \in DOMAIN Chains
  BY SliceAssumption
<1>1. q.ids \in Seq(STRING) /\ q.mode \in Modes \cup {None}
  BY <1>0 DEF Ask
<1>2. ASSUME NEW m \in Modes, NEW s \in Stage
      PROVE  [s EXCEPT !.mode = m] \in Stage
  BY DEF Stage
<1>3. CASE q.kind = "six"
  <2>1. Catalog \in Seq(STRING)
    BY SliceAssumption
  <2> DEFINE F == Frames \ {Pulse}
  <2>2. Only(Catalog, F) \in Seq(F \cap STRING)
    BY <2>1, OnlyTyped
  <2>3. Only(Catalog, F) \in Seq(STRING)
    <3>1. F \cap STRING \subseteq STRING
      OBVIOUS
    <3> HIDE DEF F
    <3> QED
      BY <2>2, <3>1, Widened
  <2>4. Pulse \in STRING
    <3>1. Pulse \in ToSet(Catalog)
      BY SliceAssumption
    <3>2. ToSet(Catalog) \subseteq STRING
      BY <2>1, ToSetOfSeq
    <3> QED
      BY <3>1, <3>2
  <2>5. <<Pulse>> \in Seq(STRING)
    BY <2>4, Single
  <2>6. /\ [ids |-> Only(Catalog, F), mode |-> "parallel"] \in Stage
        /\ [ids |-> <<Pulse>>, mode |-> "stagger"] \in Stage
    BY <2>3, <2>5 DEF Stage, Modes
  <2>7. Six \in Seq(Stage)
    BY <2>6 DEF Six, Frames
  <2>8. Stages(q) = Six
    BY <1>3 DEF Stages
  <2> QED
    BY <2>7, <2>8
<1>4. CASE q.kind = "preset"
  <2>1. Presets[q.id] \in Stage
    BY <1>0, <1>4, SliceAssumption
  <2>2. Presets[q.id].mode \in Modes
    BY <2>1 DEF Stage
  <2> DEFINE s == IF q.mode = None THEN [Presets[q.id] EXCEPT !.mode = Presets[q.id].mode]
                  ELSE [Presets[q.id] EXCEPT !.mode = q.mode]
  <2>3. Stages(q) = <<s>>
    BY <1>4 DEF Stages
  <2>4. s \in Stage
    BY <1>1, <1>2, <2>1, <2>2
  <2> HIDE DEF s
  <2> QED
    BY <2>3, <2>4
<1>5. CASE q.kind = "chain"
  <2> DEFINE c == Chains[q.id].presets
  <2>1. c \in Seq(DOMAIN Presets)
    BY <1>0, <1>5, SliceAssumption
  <2>2. Stages(q) = [i \in DOMAIN c |-> Presets[c[i]]]
    BY <1>5 DEF Stages
  <2> HIDE DEF c
  <2>3. Len(c) \in Nat /\ DOMAIN c = 1 .. Len(c) /\ \A i \in DOMAIN c : c[i] \in DOMAIN Presets
    BY <2>1
  <2>4. \A i \in DOMAIN c : Presets[c[i]] \in Stage
    BY <2>3, SliceAssumption
  <2>5. [i \in 1 .. Len(c) |-> Presets[c[i]]] \in Seq(Stage)
    BY <2>3, <2>4
  <2> QED
    BY <2>2, <2>3, <2>5
<1>6. CASE q.kind = "frames"
  <2> DEFINE b == [ids |-> q.ids, mode |-> None]
             s == IF q.mode = None THEN [b EXCEPT !.mode = "parallel"]
                  ELSE [b EXCEPT !.mode = q.mode]
  <2>1. Stages(q) = <<s>>
    BY <1>6 DEF Stages
  <2>2. s \in Stage
    BY <1>1 DEF Stage, Modes
  <2> HIDE DEF s
  <2> QED
    BY <2>1, <2>2
<1>7. CASE q.kind \notin {"six", "preset", "chain", "frames"}
  <2>1. Stages(q) = <<>>
    BY <1>7 DEF Stages
  <2> QED
    BY <2>1
<1> QED
  BY <1>3, <1>4, <1>5, <1>6, <1>7

LEMMA PlanTyped == ASSUME NEW q \in Asks PROVE Plan(q) \in Seq(Seq(Frames))
<1> DEFINE s == Stages(q)
           p == [i \in DOMAIN s |-> Waves(s[i])]
<1>1. s \in Seq(Stage)
  BY StagesTyped
<1> HIDE DEF s
<1>2. DOMAIN s = 1 .. Len(s) /\ Len(s) \in Nat /\ \A i \in DOMAIN s : s[i] \in Stage
  BY <1>1
<1>3. \A i \in DOMAIN s : Waves(s[i]) \in Seq(Seq(Frames))
  BY <1>2, WavesTyped
<1>4. p \in [1 .. Len(s) -> Seq(Seq(Frames))]
  BY <1>2, <1>3
<1>5. p \in Seq(Seq(Seq(Frames)))
  <2> HIDE DEF p
  <2> QED
    BY <1>2, <1>4
<1> HIDE DEF p
<1>6. FlattenSeq(p) \in Seq(Seq(Frames))
  BY <1>5, FlattenTyped
<1> QED
  BY <1>6 DEF p, s, Plan

LEMMA FlattenOne == ASSUME NEW T, NEW w \in Seq(T) PROVE FlattenSeq(<<w>>) = w
<1> DEFINE p == <<w>>
<1>1. p # <<>> /\ p \in Seq(Seq(T)) /\ Len(p) = 1 /\ p[1] = w
  OBVIOUS
<1> HIDE DEF p
<1>2. FlattenSeq(p) = Joined(p)[1]
  BY <1>1, FlattenIsJoined
<1>3. Joined(p)[1] = w
  <2>1. 1 \in 1 .. Len(p) /\ Len(p) \in Nat
    BY <1>1
  <2> QED
    BY <1>1, <2>1, JoinedUnfolds
<1> QED
  BY <1>2, <1>3 DEF p

LEMMA FlattenTwo ==
    ASSUME NEW T, NEW v \in Seq(T), NEW w \in Seq(T) PROVE FlattenSeq(<<v, w>>) = v \o w
<1> DEFINE p == <<v, w>>
<1>1. p # <<>> /\ p \in Seq(Seq(T)) /\ Len(p) = 2 /\ p[1] = v /\ p[2] = w
  OBVIOUS
<1> HIDE DEF p
<1>2. FlattenSeq(p) = Joined(p)[2]
  BY <1>1, FlattenIsJoined
<1>3. 1 \in 1 .. Len(p) /\ 2 \in 1 .. Len(p) /\ Len(p) \in Nat /\ 2 - 1 = 1 /\ 2 # 1
  BY <1>1
<1>4. Joined(p)[1] = v
  BY <1>1, <1>3, JoinedUnfolds
<1>5. Joined(p)[2] = Joined(p)[2 - 1] \o p[2]
  BY <1>3, JoinedUnfolds
<1> QED
  BY <1>1, <1>2, <1>3, <1>4, <1>5 DEF p

\* One stage with its frames one by one, or all six: the pulse is alone, and last.
LEMMA OneByOnePulse ==
    ASSUME NEW q \in Asks, OneByOne(q) PROVE PulseAlone(Plan(q))
<1>1. Stages(q) \in Seq(Stage)
  BY StagesTyped
<1>2. CASE q.kind = "six"
  <2>1. Stages(q) = Six
    BY <1>2 DEF Stages
  <2> DEFINE v == Waves(Six[1])
             w == Waves(Six[2])
  <2>2. Six \in Seq(Stage) /\ Len(Six) = 2 /\ DOMAIN Six = {1, 2}
    BY <1>1, <2>1 DEF Six
  <2>3. Six[1] \in Stage /\ Six[2] \in Stage
    BY <2>2
  <2>4. v \in Seq(Seq(Frames)) /\ w \in Seq(Seq(Frames))
    BY <2>3, WavesTyped
  <2>5. NoPulse(v)
    <3>1. Six[1].ids = Only(Catalog, Frames \ {Pulse})
      BY DEF Six, Frames
    <3>2. Only(Catalog, Frames \ {Pulse}) \in Seq((Frames \ {Pulse}) \cap STRING)
      BY SliceAssumption, OnlyTyped
    <3>3. Pulse \notin ToSet(Six[1].ids)
      BY <3>1, <3>2, ToSetOfSeq
    <3> QED
      BY <2>3, <3>3, WavesWithoutPulse
  <2>6. PulseAlone(w)
    <3>1. Six[2].mode = "stagger"
      BY DEF Six
    <3> QED
      BY <2>3, <3>1, StaggerPulseAlone
  <2>7. Plan(q) = v \o w
    <3>1. [i \in DOMAIN Six |-> Waves(Six[i])] = <<v, w>>
      BY <2>2
    <3>2. Plan(q) = FlattenSeq(<<v, w>>)
      BY <2>1, <3>1 DEF Plan
    <3> HIDE DEF v, w
    <3> QED
      BY <2>4, <3>2, FlattenTwo
  <2> HIDE DEF v, w
  <2> DEFINE ws == v \o w
  <2>8. /\ Len(ws) = Len(v) + Len(w) /\ Len(v) \in Nat /\ Len(w) \in Nat
        /\ \A k \in 1 .. Len(ws) : ws[k] = IF k <= Len(v) THEN v[k] ELSE w[k - Len(v)]
    BY <2>4
  <2> HIDE DEF ws
  <2>9. PulseAlone(ws)
    <3> SUFFICES ASSUME NEW k \in 1 .. Len(ws), Pulse \in ToSet(ws[k])
                 PROVE  k = Len(ws) /\ ws[k] = <<Pulse>>
      BY DEF PulseAlone
    <3>1. ~ (k <= Len(v))
      <4>1. k <= Len(v) => k \in 1 .. Len(v) /\ ws[k] = v[k]
        BY <2>8
      <4> QED
        BY <2>5, <4>1 DEF NoPulse
    <3> DEFINE j == k - Len(v)
    <3>2. j \in 1 .. Len(w) /\ ws[k] = w[j] /\ (j = Len(w) => k = Len(ws))
      BY <2>8, <3>1
    <3> HIDE DEF j
    <3>3. j = Len(w) /\ w[j] = <<Pulse>>
      BY <2>6, <3>2 DEF PulseAlone
    <3> QED
      BY <3>2, <3>3
  <2> QED
    BY <2>7, <2>9 DEF ws
<1>3. CASE q.kind # "six"
  <2>1. Len(Stages(q)) = 1 /\ Stages(q)[1].mode = "stagger"
    <3>1. q.kind # "chain" /\ Stages(q) # <<>> /\ Stages(q)[1].mode = "stagger"
      BY <1>3 DEF OneByOne
    <3>2. \/ Stages(q) = <<>>
          \/ \E s : Stages(q) = <<s>>
      BY <1>3, <3>1 DEF Stages
    <3> QED
      BY <3>1, <3>2
  <2> DEFINE s == Stages(q)[1]
  <2>2. s \in Stage /\ Stages(q) = <<s>> /\ DOMAIN Stages(q) = {1}
    BY <1>1, <2>1
  <2>3. [i \in DOMAIN Stages(q) |-> Waves(Stages(q)[i])] = <<Waves(s)>>
    BY <2>2
  <2>4. Plan(q) = FlattenSeq(<<Waves(s)>>)
    BY <2>3 DEF Plan
  <2>5. s.mode = "stagger"
    BY <2>1
  <2> HIDE DEF s
  <2>6. Waves(s) \in Seq(Seq(Frames))
    BY <2>2, WavesTyped
  <2>7. Plan(q) = Waves(s)
    BY <2>4, <2>6, FlattenOne
  <2> QED
    BY <2>2, <2>5, <2>7, StaggerPulseAlone
<1> QED
  BY <1>2, <1>3

-------------------------------------------------------------------------------
(* The invariant of a request.                                                 *)

Ats == {"idle", "frames", "retain", "dispatch", "done", "failed"}
Running == {"frames", "failed"}
TaskType == [frame : Frames, status : Statuses,
             at : {"none", "run", "post", "parts", "done", "raised"}]
ResultType == [frame : Frames, status : Statuses \ {"none"}]

StateTyped ==
    /\ at \in [Requests -> Ats]
    /\ ask \in [Requests -> Asks \cup {None}]
    /\ todo \in [Requests -> Seq(Seq(Frames))]
    /\ tasks \in [Requests -> Seq(TaskType)]
    /\ results \in [Requests -> Seq(ResultType)]
    /\ counted \in [Requests -> {None} \cup SUBSET Frames]
    /\ kept \in [Frames -> {"none"} \cup Cacheable]
    /\ jobs \subseteq [by : Requests, squad : Squads, ok : BOOLEAN]
    /\ retained \subseteq Requests /\ raised \subseteq Requests /\ lost \subseteq Frames
    /\ queued \in [Requests -> Nat] /\ deferred \in [Requests -> Nat] /\ mishaps \in Nat

\* What a request has, by where it is.
Alive(r) ==
    /\ at[r] = "idle" => /\ results[r] = <<>> /\ counted[r] = None /\ queued[r] = 0
                         /\ ask[r] = None
    /\ at[r] # "idle" => ask[r] \in Asks
    /\ at[r] \in Running => todo[r] # <<>>
    /\ at[r] \notin Running => todo[r] = <<>> /\ tasks[r] = <<>>
    /\ r \in raised => at[r] = "failed"
    /\ r \in retained \/ (\E j \in jobs : j.by = r) => at[r] \in {"dispatch", "done"}

\* The tasks of the wave that runs: one for each frame, then the parts of a pulse.
WaveOf(ts, w) ==
    /\ Len(ts) = Len(w) + IF Pulse \in ToSet(w) THEN 2 ELSE 0
    /\ \A i \in 1 .. Len(w) : ts[i].frame = w[i]
    /\ \A i \in {1, 2} : Len(w) + i \in 1 .. Len(ts) => ts[Len(w) + i].frame = Parts[i]
    /\ \A i \in 1 .. Len(ts) : /\ ts[i].at = "parts" => ts[i].frame = Pulse
                               /\ ts[i].at \in {"post", "done"} => ts[i].status # "none"

Wave(r) == at[r] \in Running => WaveOf(tasks[r], Head(todo[r]))

\* The plan is the waves that are over and those to come.
Named(s) == [i \in 1 .. Len(s) |-> s[i].frame]

Passed(p, d, fs, n) ==
    /\ n \in 0 .. Len(p) /\ Len(d) = Len(p) - n
    /\ \A j \in 1 .. Len(d) : d[j] = p[n + j]
    /\ fs = IF n = 0 THEN <<>> ELSE Joined(p)[n]

Progress(r) ==
    at[r] # "idle" => \E n \in Nat : Passed(Plan(ask[r]), todo[r], Named(results[r]), n)

\* Where a deep review of the run has been answered: the results, then the tasks.
ReviewSet(x, ts) ==
    {i \in 1 .. Len(x) : x[i].frame = Review}
        \cup {Len(x) + i :
                i \in {j \in 1 .. Len(ts) :
                         ts[j].frame = Review /\ ts[j].at \in {"post", "done"}}}

Reviews(r) == ReviewSet(results[r], tasks[r])

Queued(r) ==
    at[r] \notin {"idle", "failed"} =>
      /\ ~Proceeds(ask[r]) => queued[r] = 0
      /\ queued[r] <= Cardinality(Reviews(r))
      /\ ask[r].confirmed => Cardinality(Reviews(r)) <= queued[r] + deferred[r]

\* An answer that is over is in the cache, or was not kept.
Seen == WarmAgents \cup lost

Remembered(r) ==
    /\ Answered(r) \subseteq Seen
    /\ \A i \in DOMAIN tasks[r] :
         tasks[r][i].at = "done" /\ tasks[r][i].status \in Cacheable => tasks[r][i].frame \in Seen

\* A pulse that runs alone counts at the end.
CountedLast(r) ==
    counted[r] # None /\ OneByOne(ask[r]) =>
      /\ Answered(r) \subseteq counted[r] \cup lost \cup {Pulse}
      /\ at[r] \in Running => todo[r] = <<<<Pulse>>>>

RequestInv(r) ==
    Alive(r) /\ Wave(r) /\ Progress(r) /\ Queued(r) /\ Remembered(r) /\ CountedLast(r)

SlicesInv == StateTyped /\ \A r \in Requests : RequestInv(r)

-------------------------------------------------------------------------------
(* Tasks begin.                                                                *)

LEMMA AsSeq ==
    ASSUME NEW T, NEW n \in Nat, NEW s \in [1 .. n -> T]
    PROVE  s \in Seq(T) /\ Len(s) = n
OBVIOUS

LEMMA FramesNamed == Pulse \in Frames /\ \A i \in {1, 2} : Parts[i] \in Frames
<1>1. Parts[1] \in Frames /\ Parts[2] \in Frames /\ Pulse \in Frames
  BY SliceAssumption DEF Frames
<1> QED
  BY <1>1

LEMMA NamesDiffer == \A i \in {1, 2} : Parts[i] # Pulse /\ Parts[i] # Review /\ Pulse # Review
BY DEF Parts, Pulse, Review

\* A frame that begins is answered from the cache, or it works.
Begun(t, f, confirmed) ==
    /\ t \in TaskType /\ t.frame = f /\ t.at \in {"run", "done"}
    /\ t.at = "done" => t.status = "ok" /\ ~confirmed /\ f \in WarmAgents

LEMMA StartBegins ==
    ASSUME NEW f \in Frames, NEW c, NEW x, StateTyped
    PROVE  Begun(Start(f, c, x), f, c)
<1>1. kept \in [Frames -> {"none"} \cup Cacheable]
  BY DEF StateTyped
<1>2. \A s \in {"run", "done"} : \A v \in {"none", "ok"} :
         /\ Task(f, s, v) \in TaskType
         /\ Task(f, s, v).frame = f /\ Task(f, s, v).at = s /\ Task(f, s, v).status = v
  BY DEF Task, TaskType, Statuses
<1>3. Start(f, c, x) = IF ~x /\ ~c /\ kept[f] = "ok" THEN Task(f, "done", "ok")
                       ELSE Task(f, "run", "none")
  BY DEF Start
<1>4. kept[f] = "ok" => f \in WarmAgents
  BY <1>1 DEF WarmAgents
<1> HIDE DEF Start, Task
<1> QED
  BY <1>2, <1>3, <1>4 DEF Begun

\* A wave that begins.
Opened(ts, w, confirmed) ==
    /\ ts \in Seq(TaskType)
    /\ Len(ts) = Len(w) + IF Pulse \in ToSet(w) THEN 2 ELSE 0
    /\ \A i \in 1 .. Len(w) : Begun(ts[i], w[i], confirmed)
    /\ \A i \in {1, 2} : Len(w) + i \in 1 .. Len(ts) =>
         ts[Len(w) + i] = Task(Parts[i], "none", "none")

LEMMA WaveOpens ==
    ASSUME NEW w \in Seq(Frames), NEW q, StateTyped
    PROVE  Opened(StartWave(w, q), w, q.confirmed)
<1> DEFINE a == [i \in DOMAIN w |-> Start(w[i], q.confirmed, q.refresh)]
           p == [i \in {1, 2} |-> Task(Parts[i], "none", "none")]
           n == Len(w)
<1>1. n \in Nat /\ DOMAIN w = 1 .. n /\ \A i \in 1 .. n : w[i] \in Frames
  BY DEF n
<1> HIDE DEF n
<1>2. \A i \in 1 .. n : Begun(a[i], w[i], q.confirmed)
  BY <1>1, StartBegins
<1>3. a \in Seq(TaskType) /\ Len(a) = n
  <2>1. \A i \in 1 .. n : a[i] \in TaskType
    BY <1>2 DEF Begun
  <2>2. a = [i \in 1 .. n |-> a[i]]
    BY <1>1
  <2> HIDE DEF a
  <2> QED
    BY <1>1, <2>1, <2>2
<1>4. p \in Seq(TaskType) /\ Len(p) = 2 /\ \A i \in {1, 2} : p[i] = Task(Parts[i], "none", "none")
  <2>1. \A i \in {1, 2} : Task(Parts[i], "none", "none") \in TaskType
    BY FramesNamed DEF Task, TaskType, Statuses
  <2>2. 1 .. 2 = {1, 2}
    OBVIOUS
  <2>3. p \in [1 .. 2 -> TaskType]
    BY <2>1, <2>2
  <2>4. \A i \in {1, 2} : p[i] = Task(Parts[i], "none", "none")
    OBVIOUS
  <2> HIDE DEF p
  <2>5. p \in Seq(TaskType) /\ Len(p) = 2
    BY <2>3, AsSeq
  <2> QED
    BY <2>4, <2>5
<1>5. StartWave(w, q) = IF Pulse \in ToSet(w) THEN a \o p ELSE a
  <2>1. StartWave(w, q) = a \o IF Pulse \in ToSet(w) THEN p ELSE <<>>
    BY DEF StartWave
  <2>2. a \o <<>> = a
    BY <1>3
  <2> HIDE DEF a, p
  <2> QED
    BY <2>1, <2>2
<1> HIDE DEF a, p
<1>6. CASE Pulse \in ToSet(w)
  <2> DEFINE ts == a \o p
  <2>1. /\ ts \in Seq(TaskType) /\ Len(ts) = n + 2
        /\ \A i \in 1 .. n : ts[i] = a[i]
        /\ ts[n + 1] = p[1] /\ ts[n + 2] = p[2]
    <3>1. /\ ts \in Seq(TaskType) /\ Len(ts) = Len(a) + Len(p)
          /\ \A i \in 1 .. Len(a) + Len(p) :
               ts[i] = IF i <= Len(a) THEN a[i] ELSE p[i - Len(a)]
      BY <1>3, <1>4, ConcatProperties
    <3>2. Len(a) = n /\ Len(p) = 2
      BY <1>3, <1>4
    <3> HIDE DEF ts
    <3> QED
      BY <1>1, <3>1, <3>2
  <2> HIDE DEF ts
  <2>2. \A i \in {1, 2} : ts[n + i] = Task(Parts[i], "none", "none")
    BY <1>4, <2>1
  <2>3. Opened(ts, w, q.confirmed)
    BY <1>2, <1>6, <2>1, <2>2 DEF Opened, n
  <2> QED
    BY <1>5, <1>6, <2>3 DEF ts
<1>7. CASE Pulse \notin ToSet(w)
  <2>1. \A i \in {1, 2} : n + i \notin 1 .. n
    BY <1>1
  <2> QED
    BY <1>1, <1>2, <1>3, <1>5, <1>7, <2>1 DEF Opened, n
<1> QED
  BY <1>6, <1>7

-------------------------------------------------------------------------------
(* A step of one request, and the other requests.                              *)

LEMMA SlicesInitInv == SlicesInit => SlicesInv
<1> SUFFICES ASSUME SlicesInit PROVE SlicesInv
  OBVIOUS
<1> USE DEF SlicesInit
<1>1. StateTyped
  <2>1. at \in [Requests -> Ats]
    BY DEF Ats
  <2>2. ask \in [Requests -> Asks \cup {None}] /\ counted \in [Requests -> {None} \cup SUBSET Frames]
    OBVIOUS
  <2>3. todo \in [Requests -> Seq(Seq(Frames))]
    OBVIOUS
  <2>4. tasks \in [Requests -> Seq(TaskType)]
    OBVIOUS
  <2>5. results \in [Requests -> Seq(ResultType)]
    OBVIOUS
  <2>6. kept \in [Frames -> {"none"} \cup Cacheable]
    BY DEF Frames
  <2>7. queued \in [Requests -> Nat] /\ deferred \in [Requests -> Nat] /\ mishaps \in Nat
    OBVIOUS
  <2> QED
    BY <2>1, <2>2, <2>3, <2>4, <2>5, <2>6, <2>7 DEF StateTyped
<1>2. ASSUME NEW r \in Requests PROVE RequestInv(r)
  <2>1. /\ at[r] = "idle" /\ ask[r] = None /\ todo[r] = <<>> /\ tasks[r] = <<>>
        /\ results[r] = <<>> /\ counted[r] = None /\ queued[r] = 0
    OBVIOUS
  <2>2. Alive(r)
    BY <2>1 DEF Alive, Running
  <2>3. Wave(r) /\ Progress(r) /\ Queued(r) /\ CountedLast(r)
    BY <2>1 DEF Wave, Progress, Queued, CountedLast, Running
  <2>4. Remembered(r)
    BY <2>1 DEF Remembered, Answered
  <2> QED
    BY <2>2, <2>3, <2>4 DEF RequestInv
<1> QED
  BY <1>1, <1>2 DEF SlicesInv

Same(s) ==
    /\ at'[s] = at[s] /\ ask'[s] = ask[s] /\ todo'[s] = todo[s] /\ tasks'[s] = tasks[s]
    /\ results'[s] = results[s] /\ counted'[s] = counted[s] /\ queued'[s] = queued[s]
    /\ deferred'[s] = deferred[s]
    /\ s \in raised' => s \in raised
    /\ s \in retained' => s \in retained
    /\ (\E j \in jobs' : j.by = s) => (\E j \in jobs : j.by = s)

Growing == Seen \subseteq Seen' /\ lost \subseteq lost'

\* A request that a step leaves alone, while the cache fills, keeps its invariant.
LEMMA OtherKeeps ==
    ASSUME NEW s \in Requests, RequestInv(s), Same(s), Growing
    PROVE  RequestInv(s)'
<1> USE DEF Same
<1>1. Alive(s)'
  BY DEF RequestInv, Alive
<1>2. Wave(s)'
  BY DEF RequestInv, Wave
<1>3. Progress(s)'
  BY DEF RequestInv, Progress
<1>4. Queued(s)'
  <2>1. Reviews(s)' = Reviews(s)
    BY DEF Reviews, ReviewSet
  <2> QED
    BY <2>1 DEF RequestInv, Queued, Proceeds
<1>5. Answered(s)' = Answered(s)
  BY DEF Answered
<1>6. Remembered(s)'
  BY <1>5 DEF RequestInv, Remembered, Growing
<1>7. CountedLast(s)'
  BY <1>5 DEF RequestInv, CountedLast, Growing
<1> QED
  BY <1>1, <1>2, <1>3, <1>4, <1>6, <1>7 DEF RequestInv

\* A step of request r.
LEMMA OneMoves ==
    ASSUME SlicesInv, NEW r \in Requests, StateTyped', Growing,
           \A s \in Requests : s # r => Same(s), RequestInv(r)'
    PROVE  SlicesInv'
<1>1. ASSUME NEW s \in Requests, s # r PROVE RequestInv(s)'
  BY <1>1, OtherKeeps DEF SlicesInv
<1> QED
  BY <1>1 DEF SlicesInv

-------------------------------------------------------------------------------
(* A request comes.                                                            *)

LEMMA OpenedFacts ==
    ASSUME NEW ts, NEW w \in Seq(Frames), NEW c \in BOOLEAN, Opened(ts, w, c)
    PROVE  /\ ts \in Seq(TaskType)
           /\ WaveOf(ts, w)
           /\ \A i \in 1 .. Len(ts) :
                /\ ts[i].at # "post"
                /\ ts[i].at = "done" => ~c /\ ts[i].frame \in WarmAgents
<1> DEFINE n == Len(w)
           m == Len(ts)
<1>1. n \in Nat /\ m \in Nat /\ m \in {n, n + 2}
  BY DEF Opened
<1>2. /\ m = n + IF Pulse \in ToSet(w) THEN 2 ELSE 0
      /\ \A i \in 1 .. n : Begun(ts[i], w[i], c)
      /\ \A i \in {1, 2} : n + i \in 1 .. m => ts[n + i] = Task(Parts[i], "none", "none")
  BY DEF Opened
<1> HIDE DEF n, m
<1>3. \A i \in 1 .. n :
        /\ ts[i].frame = w[i] /\ ts[i].at \in {"run", "done"}
        /\ ts[i].at = "done" => ~c /\ ts[i].frame \in WarmAgents /\ ts[i].status = "ok"
  BY <1>2 DEF Begun
<1>4. \A i \in {1, 2} : n + i \in 1 .. m => ts[n + i].frame = Parts[i] /\ ts[n + i].at = "none"
  <2>1. \A f : Task(f, "none", "none").frame = f /\ Task(f, "none", "none").at = "none"
    BY DEF Task
  <2> QED
    BY <1>2, <2>1
<1>5. \A i \in 1 .. m : i \in 1 .. n \/ \E k \in {1, 2} : i = n + k
  BY <1>1
<1>6. \A i \in 1 .. m : \/ ts[i].at = "none" \/ ts[i].at = "run"
                        \/ /\ ts[i].at = "done" /\ ts[i].status = "ok"
                           /\ ~c /\ ts[i].frame \in WarmAgents
  BY <1>3, <1>4, <1>5
<1>7. WaveOf(ts, w)
  BY <1>2, <1>3, <1>4, <1>6 DEF WaveOf, n, m
<1> QED
  BY <1>6, <1>7 DEF Opened, m

\* A wave that begins has nothing in the queue when it is confirmed.
LEMMA OpenedUnqueued ==
    ASSUME NEW ts, NEW w \in Seq(Frames), Opened(ts, w, TRUE)
    PROVE  {j \in 1 .. Len(ts) : ts[j].frame = Review /\ ts[j].at \in {"post", "done"}} = {}
BY OpenedFacts

LEMMA ReviewsFinite ==
    ASSUME NEW x \in Seq(ResultType), NEW ts \in Seq(TaskType)
    PROVE  IsFiniteSet(ReviewSet(x, ts)) /\ Cardinality(ReviewSet(x, ts)) \in Nat
<1> DEFINE m == Len(x)
           n == Len(ts)
<1>1. m \in Nat /\ n \in Nat
  OBVIOUS
<1> HIDE DEF m, n
<1>2. ReviewSet(x, ts) \subseteq 1 .. (m + n)
  <2>1. \A i \in 1 .. m : i \in 1 .. (m + n)
    BY <1>1
  <2>2. \A j \in 1 .. n : m + j \in 1 .. (m + n)
    BY <1>1
  <2> QED
    BY <2>1, <2>2 DEF ReviewSet, m, n
<1>3. m + n \in Nat
  BY <1>1
<1>4. IsFiniteSet(1 .. (m + n))
  BY <1>3, FS_Interval
<1> QED
  BY <1>2, <1>4, FS_Subset, FS_CardinalityType

LEMMA ReceiveKeeps ==
    ASSUME SlicesInv, NEW r \in Requests, NEW q \in Asks, Receive(r, q)
    PROVE  SlicesInv'
<1> DEFINE p == Plan(q)
           ts == StartWave(Head(p), q)
<1>0. StateTyped /\ RequestInv(r)
  BY DEF SlicesInv
<1>1. p \in Seq(Seq(Frames))
  BY PlanTyped
<1>2. q \in Ask /\ q.confirmed \in BOOLEAN
  BY SliceAssumption DEF Ask
<1>3. p # <<>> => Head(p) \in Seq(Frames)
  BY <1>1
<1>4. p # <<>> => Opened(ts, Head(p), q.confirmed)
  BY <1>0, <1>3, WaveOpens
<1>5. at[r] = "idle"
  BY DEF Receive
<1>6. /\ ask' = [ask EXCEPT ![r] = q]
      /\ todo' = [todo EXCEPT ![r] = p]
      /\ at' = [at EXCEPT ![r] = IF p = <<>> THEN "dispatch" ELSE "frames"]
      /\ tasks' = [tasks EXCEPT ![r] = IF p = <<>> THEN @ ELSE ts]
      /\ UNCHANGED <<results, counted, kept, jobs, retained, queued, deferred, raised, lost, mishaps>>
  <2>1. tasks \in [Requests -> Seq(TaskType)]
    BY <1>0 DEF StateTyped
  <2> QED
    BY <2>1 DEF Receive
<1> HIDE DEF p, ts
<1>7. /\ results[r] = <<>> /\ counted[r] = None /\ queued[r] = 0 /\ tasks[r] = <<>>
      /\ r \notin raised /\ r \notin retained /\ ~\E j \in jobs : j.by = r
  BY <1>0, <1>5 DEF RequestInv, Alive, Running
<1>8. StateTyped'
  <2> USE DEF StateTyped
  <2>1. at' \in [Requests -> Ats]
    BY <1>0, <1>6 DEF Ats
  <2>2. ask' \in [Requests -> Asks \cup {None}] /\ todo' \in [Requests -> Seq(Seq(Frames))]
    BY <1>0, <1>1, <1>6
  <2>3. tasks' \in [Requests -> Seq(TaskType)]
    <3>1. p # <<>> => ts \in Seq(TaskType)
      BY <1>4 DEF Opened
    <3> QED
      BY <1>0, <1>6, <3>1
  <2> QED
    BY <1>0, <1>6, <2>1, <2>2, <2>3
<1>9. Growing /\ \A s \in Requests : s # r => Same(s)
  BY <1>0, <1>6 DEF Growing, Seen, WarmAgents, Same, StateTyped
<1>10. /\ at'[r] = IF p = <<>> THEN "dispatch" ELSE "frames"
       /\ ask'[r] = q /\ todo'[r] = p /\ tasks'[r] = IF p = <<>> THEN <<>> ELSE ts
       /\ results'[r] = <<>> /\ counted'[r] = None /\ queued'[r] = 0
       /\ kept' = kept /\ lost' = lost
       /\ r \notin raised' /\ r \notin retained' /\ ~\E j \in jobs' : j.by = r
  BY <1>0, <1>6, <1>7 DEF StateTyped
<1>11. RequestInv(r)'
  <2>1. Alive(r)'
    BY <1>10 DEF Alive, Running
  <2>2. Wave(r)'
    BY <1>2, <1>3, <1>4, <1>10, OpenedFacts DEF Wave, Running
  <2>3. Progress(r)'
    <3>1. Len(p) \in Nat /\ \A j \in 1 .. Len(p) : p[0 + j] = p[j]
      BY <1>1
    <3>2. Named(<<>>) = <<>>
      BY DEF Named
    <3>3. 0 \in 0 .. Len(p) /\ Len(p) = Len(p) - 0
      BY <3>1
    <3>4. Passed(p, p, <<>>, 0)
      BY <3>1, <3>3 DEF Passed
    <3> QED
      BY <1>10, <3>2, <3>4 DEF Progress, p
  <2>4. Queued(r)'
    <3>0. Cardinality(Reviews(r)') \in Nat /\ deferred'[r] \in Nat
      BY <1>8, ReviewsFinite DEF StateTyped, Reviews
    <3>1. q.confirmed => Reviews(r)' = {}
      <4> SUFFICES ASSUME q.confirmed PROVE Reviews(r)' = {}
        OBVIOUS
      <4>1. p # <<>> => {j \in 1 .. Len(ts) : ts[j].frame = Review
                                             /\ ts[j].at \in {"post", "done"}} = {}
        BY <1>3, <1>4, OpenedUnqueued
      <4>2. Reviews(r)' = {Len(results'[r]) + i :
                i \in {j \in 1 .. Len(tasks'[r]) :
                         tasks'[r][j].frame = Review /\ tasks'[r][j].at \in {"post", "done"}}}
        BY <1>10 DEF Reviews, ReviewSet
      <4> QED
        BY <1>10, <4>1, <4>2
    <3>2. Cardinality({}) = 0
      BY FS_EmptySet
    <3>3. q.confirmed => Cardinality(Reviews(r)') = 0
      BY <3>1, <3>2
    <3> DEFINE c == Cardinality(Reviews(r)')
    <3>4. c \in Nat /\ deferred'[r] \in Nat /\ queued'[r] = 0 /\ (q.confirmed => c = 0)
      BY <1>10, <3>0, <3>3
    <3> HIDE DEF c
    <3>5. queued'[r] <= c /\ (q.confirmed => c <= queued'[r] + deferred'[r])
      BY <3>4
    <3> QED
      BY <1>10, <3>5 DEF Queued, c
  <2>5. Remembered(r)'
    <3>1. Answered(r)' = {}
      BY <1>10 DEF Answered
    <3>2. p # <<>> => DOMAIN ts = 1 .. Len(ts)
      BY <1>4 DEF Opened
    <3>3. \A i \in DOMAIN tasks'[r] : tasks'[r][i].at = "done" => tasks'[r][i].frame \in WarmAgents
      <4>1. CASE p = <<>>
        BY <1>10, <4>1
      <4>2. CASE p # <<>>
        BY <1>2, <1>3, <1>4, <1>10, <3>2, <4>2, OpenedFacts
      <4> QED
        BY <4>1, <4>2
    <3>4. Seen' = Seen
      BY <1>10 DEF Seen, WarmAgents
    <3> QED
      BY <3>1, <3>3, <3>4 DEF Remembered, Seen
  <2>6. CountedLast(r)'
    BY <1>10 DEF CountedLast
  <2> QED
    BY <2>1, <2>2, <2>3, <2>4, <2>5, <2>6 DEF RequestInv
<1> QED
  BY <1>8, <1>9, <1>11, OneMoves

-------------------------------------------------------------------------------
(* The tasks of a wave move.                                                   *)

\* The tasks after a step have the frames they had.
SameFrames(r) ==
    /\ Len(tasks'[r]) = Len(tasks[r])
    /\ \A j \in 1 .. Len(tasks[r]) :
         /\ tasks'[r][j].frame = tasks[r][j].frame
         /\ tasks'[r][j].at = "parts" => tasks'[r][j].frame = Pulse
         /\ tasks'[r][j].at \in {"post", "done"} => tasks'[r][j].status # "none"

LEMMA SameWave ==
    ASSUME StateTyped, NEW r \in Requests, RequestInv(r),
           at[r] \in Running, at'[r] \in Running,
           todo'[r] = todo[r], ask'[r] = ask[r], results'[r] = results[r],
           r \in raised' => at'[r] = "failed",
           retained' = retained, jobs' = jobs, SameFrames(r)
    PROVE  Alive(r)' /\ Wave(r)' /\ Progress(r)'
<1>1. at[r] # "idle" /\ at'[r] # "idle" /\ at[r] \notin {"dispatch", "done"}
  BY DEF Running
<1>2. Alive(r)'
  BY <1>1 DEF RequestInv, Alive
<1>3. Wave(r)'
  <2>1. WaveOf(tasks[r], Head(todo[r]))
    BY DEF RequestInv, Wave
  <2> DEFINE a == tasks[r]
             b == tasks'[r]
             w == Head(todo[r])
  <2>2. /\ Len(b) = Len(a)
        /\ \A j \in 1 .. Len(a) : b[j].frame = a[j].frame
        /\ \A j \in 1 .. Len(b) : /\ b[j].at = "parts" => b[j].frame = Pulse
                                  /\ b[j].at \in {"post", "done"} => b[j].status # "none"
    BY DEF SameFrames
  <2>3. w \in Seq(Frames)
    <3>1. todo[r] \in Seq(Seq(Frames)) /\ todo[r] # <<>>
      BY DEF RequestInv, Alive, StateTyped
    <3> QED
      BY <3>1
  <2> HIDE DEF a, b, w
  <2>4. Len(w) \in Nat /\ WaveOf(a, w)
    BY <2>1, <2>3 DEF a, w
  <2>5. \A i \in 1 .. Len(w) : i \in 1 .. Len(a)
    BY <2>4 DEF WaveOf
  <2>6. WaveOf(b, w)
    BY <2>2, <2>4, <2>5 DEF WaveOf
  <2> QED
    BY <2>6 DEF Wave, b, w
<1>4. Progress(r)'
  BY <1>1 DEF RequestInv, Progress
<1> QED
  BY <1>2, <1>3, <1>4

LEMMA Moved ==
    ASSUME StateTyped, NEW r \in Requests, NEW i \in DOMAIN tasks[r], NEW t \in TaskType,
           Move(r, i, t)
    PROVE  /\ tasks' \in [Requests -> Seq(TaskType)]
           /\ \A s \in Requests : s # r => tasks'[s] = tasks[s]
           /\ Len(tasks'[r]) = Len(tasks[r]) /\ Len(tasks[r]) \in Nat
           /\ DOMAIN tasks[r] = 1 .. Len(tasks[r])
           /\ \A j \in 1 .. Len(tasks[r]) :
                tasks'[r][j] = IF j = i THEN t ELSE tasks[r][j]
<1>1. tasks \in [Requests -> Seq(TaskType)]
  BY DEF StateTyped
<1> DEFINE a == tasks[r]
           b == [a EXCEPT ![i] = t]
<1>2. tasks' = [tasks EXCEPT ![r] = b]
  BY DEF Move
<1>3. a \in Seq(TaskType)
  BY <1>1
<1> HIDE DEF a
<1>4. Len(a) \in Nat /\ DOMAIN a = 1 .. Len(a) /\ a \in [1 .. Len(a) -> TaskType]
  BY <1>3
<1>5. i \in 1 .. Len(a)
  BY <1>4 DEF a
<1>6. b \in [1 .. Len(a) -> TaskType]
  BY <1>4, <1>5
<1>7. \A j \in 1 .. Len(a) : b[j] = IF j = i THEN t ELSE a[j]
  BY <1>4, <1>5
<1> HIDE DEF b
<1>8. b \in Seq(TaskType) /\ Len(b) = Len(a)
  BY <1>4, <1>6, AsSeq
<1> QED
  BY <1>1, <1>2, <1>4, <1>7, <1>8 DEF a

\* Tasks are there only while a wave runs.
LEMMA TasksRun ==
    ASSUME StateTyped, NEW r \in Requests, RequestInv(r), NEW i \in DOMAIN tasks[r]
    PROVE  /\ at[r] \in Running /\ tasks[r][i] \in TaskType
           /\ Len(tasks[r]) \in Nat /\ i \in 1 .. Len(tasks[r])
           /\ ask[r] \in Asks /\ ask[r] \in Ask
           /\ tasks[r][i].frame \in Frames
<1>1. tasks[r] \in Seq(TaskType) /\ tasks[r] # <<>>
  BY DEF StateTyped
<1>2. at[r] \in Running
  BY <1>1 DEF RequestInv, Alive
<1>3. ask[r] \in Asks
  BY <1>2 DEF RequestInv, Alive, Running
<1>4. ask[r] \in Ask
  BY <1>3, SliceAssumption
<1>5. tasks[r][i] \in TaskType
  BY <1>1
<1>6. tasks[r][i].frame \in Frames
  BY <1>5 DEF TaskType
<1> QED
  BY <1>1, <1>2, <1>3, <1>4, <1>5, <1>6

TaskStates(ts) ==
    \A j \in 1 .. Len(ts) : /\ ts[j].at = "parts" => ts[j].frame = Pulse
                            /\ ts[j].at \in {"post", "done"} => ts[j].status # "none"

LEMMA WaveTasks ==
    ASSUME NEW r \in Requests, RequestInv(r), at[r] \in Running
    PROVE  WaveOf(tasks[r], Head(todo[r])) /\ TaskStates(tasks[r])
<1>1. WaveOf(tasks[r], Head(todo[r]))
  BY DEF RequestInv, Wave
<1>2. \A ts, w : WaveOf(ts, w) => TaskStates(ts)
  <2> SUFFICES ASSUME NEW ts, NEW w, WaveOf(ts, w) PROVE TaskStates(ts)
    OBVIOUS
  <2> QED
    BY Zenon DEF WaveOf, TaskStates
<1> QED
  BY <1>1, <1>2

LEMMA ReviewsSame ==
    ASSUME NEW r \in Requests, results'[r] = results[r],
           Len(tasks'[r]) = Len(tasks[r]),
           \A j \in 1 .. Len(tasks[r]) :
             (tasks'[r][j].frame = Review /\ tasks'[r][j].at \in {"post", "done"})
               <=> (tasks[r][j].frame = Review /\ tasks[r][j].at \in {"post", "done"})
    PROVE  Reviews(r)' = Reviews(r)
BY DEF Reviews, ReviewSet

LEMMA AsUsual ==
    ASSUME StateTyped, NEW r \in Requests,
           kept' = kept, lost' = lost, raised' = raised, retained' = retained, jobs' = jobs,
           \A s \in Requests : s # r =>
             /\ at'[s] = at[s] /\ ask'[s] = ask[s] /\ todo'[s] = todo[s] /\ tasks'[s] = tasks[s]
             /\ results'[s] = results[s] /\ counted'[s] = counted[s] /\ queued'[s] = queued[s]
             /\ deferred'[s] = deferred[s]
    PROVE  Seen' = Seen /\ Growing /\ \A s \in Requests : s # r => Same(s)
BY DEF Growing, Seen, WarmAgents, Same

LEMMA WorkKeeps ==
    ASSUME SlicesInv, NEW r \in Requests, NEW i \in DOMAIN tasks[r], Work(r, i)
    PROVE  SlicesInv'
<1>0. StateTyped /\ RequestInv(r)
  BY DEF SlicesInv
<1>1. /\ at[r] \in Running /\ tasks[r][i] \in TaskType
      /\ Len(tasks[r]) \in Nat /\ i \in 1 .. Len(tasks[r])
      /\ ask[r] \in Asks /\ ask[r] \in Ask /\ tasks[r][i].frame \in Frames
  BY <1>0, TasksRun
<1> DEFINE f == tasks[r][i].frame
<1>2. PICK s \in Outcomes(f, ask[r]) : Move(r, i, Task(f, "post", s))
  BY DEF Work
<1>3. /\ tasks[r][i].at = "run" /\ f # Pulse
      /\ IF f = Review /\ Proceeds(ask[r]) THEN Enqueue(r) ELSE UNCHANGED <<queued, deferred>>
      /\ UNCHANGED <<at, ask, todo, results, counted, kept, jobs, retained, raised, lost, mishaps>>
  BY DEF Work
<1>4. s \in Statuses \ {"none"}
  BY DEF Outcomes, Statuses
<1> HIDE DEF f
<1> DEFINE t == Task(f, "post", s)
<1>5. t \in TaskType /\ t.frame = f /\ t.at = "post" /\ t.status = s
  BY <1>1, <1>4 DEF Task, TaskType, f
<1>6. Move(r, i, t)
  BY <1>2
<1> HIDE DEF t
<1>7. /\ tasks' \in [Requests -> Seq(TaskType)]
      /\ \A z \in Requests : z # r => tasks'[z] = tasks[z]
      /\ Len(tasks'[r]) = Len(tasks[r]) /\ DOMAIN tasks[r] = 1 .. Len(tasks[r])
      /\ \A j \in 1 .. Len(tasks[r]) : tasks'[r][j] = IF j = i THEN t ELSE tasks[r][j]
  BY <1>0, <1>5, <1>6, Moved
<1>8. queued \in [Requests -> Nat] /\ deferred \in [Requests -> Nat]
  BY <1>0 DEF StateTyped
<1>9. /\ queued' \in [Requests -> Nat] /\ deferred' \in [Requests -> Nat]
      /\ \A z \in Requests : z # r => queued'[z] = queued[z] /\ deferred'[z] = deferred[z]
      /\ ~(f = Review /\ Proceeds(ask[r])) =>
            queued'[r] = queued[r] /\ deferred'[r] = deferred[r]
      /\ queued'[r] <= queued[r] + 1 /\ queued[r] + deferred[r] <= queued'[r] + deferred'[r]
      /\ f = Review /\ Proceeds(ask[r]) =>
            queued[r] + deferred[r] + 1 <= queued'[r] + deferred'[r]
  <2>1. CASE ~(f = Review /\ Proceeds(ask[r]))
    BY <1>3, <1>8, <2>1
  <2>2. CASE f = Review /\ Proceeds(ask[r])
    <3>1. Enqueue(r)
      BY <1>3, <2>2
    <3>2. CASE queued' = [queued EXCEPT ![r] = @ + 1] /\ deferred' = deferred
      BY <1>8, <2>2, <3>2
    <3>3. CASE queued' = [queued EXCEPT ![r] = @ + 1]
                 /\ deferred' = [deferred EXCEPT ![r] = @ + 1]
      BY <1>8, <2>2, <3>3
    <3>4. CASE queued' = queued /\ deferred' = [deferred EXCEPT ![r] = @ + 1]
      BY <1>8, <2>2, <3>4
    <3> QED
      BY <3>1, <3>2, <3>3, <3>4 DEF Enqueue
  <2> QED
    BY <2>1, <2>2
<1>10. StateTyped'
  BY <1>0, <1>3, <1>7, <1>9 DEF StateTyped
<1>11. Seen' = Seen /\ Growing /\ \A z \in Requests : z # r => Same(z)
  BY <1>0, <1>3, <1>7, <1>9, AsUsual
<1>12. SameFrames(r)
  <2>2. \A j \in 1 .. Len(tasks[r]) :
          /\ tasks[r][j].at = "parts" => tasks[r][j].frame = Pulse
          /\ tasks[r][j].at \in {"post", "done"} => tasks[r][j].status # "none"
    BY <1>0, <1>1, WaveTasks DEF TaskStates
  <2> QED
    BY <1>4, <1>5, <1>7, <2>2 DEF SameFrames, f
<1>13. Alive(r)' /\ Wave(r)' /\ Progress(r)'
  <2>1. r \in raised => at[r] = "failed"
    BY <1>0 DEF RequestInv, Alive
  <2> QED
    BY <1>0, <1>1, <1>3, <1>12, <2>1, SameWave
<1>14. Queued(r)'
  <2>0. Queued(r) /\ at[r] # "idle" /\ IsFiniteSet(Reviews(r)) /\ Cardinality(Reviews(r)) \in Nat
    BY <1>0, <1>1, ReviewsFinite DEF RequestInv, StateTyped, Reviews, Running
  <2>n. Cardinality(Reviews(r)') \in Nat
    BY <1>10, ReviewsFinite DEF StateTyped, Reviews
  <2>m. /\ queued[r] \in Nat /\ queued'[r] \in Nat /\ deferred[r] \in Nat /\ deferred'[r] \in Nat
        /\ at'[r] = at[r] /\ ask'[r] = ask[r]
    BY <1>3, <1>8, <1>9
  <2>1. CASE f = Review /\ Proceeds(ask[r])
    <3> DEFINE x == Len(results[r]) + i
    <3>1. Len(results[r]) \in Nat
      BY <1>0 DEF StateTyped
    <3>2. Reviews(r)' = Reviews(r) \cup {x}
      <4> DEFINE P(j) == tasks[r][j].frame = Review /\ tasks[r][j].at \in {"post", "done"}
                 Q(j) == tasks'[r][j].frame = Review /\ tasks'[r][j].at \in {"post", "done"}
                 n == Len(tasks[r])
                 m == Len(results[r])
      <4>1. \A j \in 1 .. n : Q(j) <=> P(j) \/ j = i
        BY <1>1, <1>3, <1>5, <1>7, <2>1
      <4>2. /\ Reviews(r) = {k \in 1 .. m : results[r][k].frame = Review}
                              \cup {m + k : k \in {j \in 1 .. n : P(j)}}
            /\ Reviews(r)' = {k \in 1 .. m : results[r][k].frame = Review}
                              \cup {m + k : k \in {j \in 1 .. n : Q(j)}}
        BY <1>3, <1>7 DEF Reviews, ReviewSet
      <4>3. i \in 1 .. n
        BY <1>1
      <4> HIDE DEF P, Q, n, m
      <4>4. {j \in 1 .. n : Q(j)} = {j \in 1 .. n : P(j)} \cup {i}
        BY <4>1, <4>3
      <4>5. {m + k : k \in {j \in 1 .. n : P(j)} \cup {i}}
              = {m + k : k \in {j \in 1 .. n : P(j)}} \cup {m + i}
        OBVIOUS
      <4> QED
        BY <4>2, <4>4, <4>5 DEF m
    <3>3. x \notin Reviews(r)
      <4>1. \A k \in 1 .. Len(results[r]) : k # x
        BY <1>1, <3>1
      <4>2. \A j \in 1 .. Len(tasks[r]) : Len(results[r]) + j = x => j = i
        BY <1>1, <3>1
      <4> HIDE DEF x
      <4> QED
        BY <1>3, <4>1, <4>2 DEF Reviews, ReviewSet
    <3> HIDE DEF x
    <3>4. Cardinality(Reviews(r)') = Cardinality(Reviews(r)) + 1
      BY <2>0, <3>2, <3>3, FS_AddElement
    <3>5. Cardinality(Reviews(r)') = Cardinality(Reviews(r)) + 1 /\ at[r] # "failed" =>
             /\ queued'[r] <= Cardinality(Reviews(r)')
             /\ ask[r].confirmed => Cardinality(Reviews(r)') <= queued'[r] + deferred'[r]
      <4> DEFINE c == Cardinality(Reviews(r))
                 e == Cardinality(Reviews(r)')
      <4>1. c \in Nat /\ e \in Nat
        BY <2>0, <2>n
      <4>2. at[r] # "failed" => /\ queued[r] <= c
                                /\ ask[r].confirmed => c <= queued[r] + deferred[r]
        BY <2>0 DEF Queued
      <4> HIDE DEF c, e
      <4>3. e = c + 1 /\ at[r] # "failed" =>
              /\ queued'[r] <= e
              /\ ask[r].confirmed => e <= queued'[r] + deferred'[r]
        BY <1>9, <2>1, <2>m, <4>1, <4>2
      <4> QED
        BY <4>3 DEF c, e
    <3>6. Proceeds(ask[r])'
      BY <2>1, <2>m DEF Proceeds
    <3> QED
      BY <2>m, <3>4, <3>5, <3>6 DEF Queued
  <2>2. CASE f # Review
    <3>1. Reviews(r)' = Reviews(r)
      BY <1>3, <1>5, <1>7, <2>2, ReviewsSame DEF f
    <3>2. queued'[r] = queued[r] /\ deferred'[r] = deferred[r]
      BY <1>9, <2>2
    <3> QED
      BY <2>0, <2>m, <3>1, <3>2 DEF Queued, Proceeds
  <2>3. CASE ~Proceeds(ask[r])
    <3>1. queued'[r] = queued[r] /\ ~ask[r].confirmed
      BY <1>9, <2>3 DEF Proceeds
    <3>2. at[r] # "failed" => queued[r] = 0
      BY <2>0, <2>3 DEF Queued
    <3> QED
      BY <2>m, <2>n, <3>1, <3>2 DEF Queued
  <2> QED
    BY <2>1, <2>2, <2>3
<1>15. Answered(r)' = Answered(r)
  BY <1>3 DEF Answered
<1>16. Remembered(r)'
  <2>1. Remembered(r)
    BY <1>0 DEF RequestInv
  <2>2. DOMAIN tasks'[r] = DOMAIN tasks[r]
    BY <1>7
  <2> QED
    BY <1>5, <1>7, <1>11, <1>15, <2>1, <2>2 DEF Remembered
<1>17. CountedLast(r)'
  BY <1>0, <1>3, <1>15 DEF RequestInv, CountedLast
<1>18. RequestInv(r)'
  BY <1>13, <1>14, <1>16, <1>17 DEF RequestInv
<1> QED
  BY <1>10, <1>11, <1>18, OneMoves

\* The pulse has its parts at the end of its wave.
LEMMA PulseParts ==
    ASSUME StateTyped, NEW r \in Requests, RequestInv(r), NEW i \in DOMAIN tasks[r],
           tasks[r][i].frame = Pulse
    PROVE  LET n == Len(tasks[r])
               w == Head(todo[r])
           IN /\ Pulse \in ToSet(w) /\ n - 1 \in 1 .. n /\ n \in 1 .. n
              /\ i # n - 1 /\ i # n
              /\ tasks[r][n - 1].frame = Parts[1] /\ tasks[r][n].frame = Parts[2]
<1> DEFINE a == tasks[r]
           w == Head(todo[r])
           n == Len(a)
           m == Len(w)
<1>1. at[r] \in Running /\ n \in Nat /\ i \in 1 .. n
  BY TasksRun
<1>2. WaveOf(a, w)
  BY <1>1, WaveTasks
<1>3. w \in Seq(Frames)
  <2>1. todo[r] \in Seq(Seq(Frames)) /\ todo[r] # <<>>
    BY <1>1 DEF RequestInv, Alive, StateTyped
  <2> QED
    BY <2>1
<1>4. a[i].frame = Pulse
  OBVIOUS
<1> HIDE DEF a, w
<1>5. m \in Nat /\ DOMAIN w = 1 .. m
  BY <1>3
<1>6. /\ n = m + IF Pulse \in ToSet(w) THEN 2 ELSE 0
      /\ \A j \in 1 .. m : a[j].frame = w[j]
      /\ \A k \in {1, 2} : m + k \in 1 .. n => a[m + k].frame = Parts[k]
  BY <1>2 DEF WaveOf
<1> HIDE DEF n, m
<1>7. i \in 1 .. m
  <2>1. i \in 1 .. m \/ \E k \in {1, 2} : i = m + k
    BY <1>1, <1>5, <1>6
  <2>2. \A k \in {1, 2} : i # m + k
    BY <1>1, <1>4, <1>6, NamesDiffer
  <2> QED
    BY <2>1, <2>2
<1>8. w[i] = Pulse /\ Pulse \in ToSet(w)
  BY <1>4, <1>5, <1>6, <1>7 DEF ToSet
<1>9. n = m + 2 /\ n - 1 = m + 1
  BY <1>5, <1>6, <1>8
<1>10. n - 1 \in 1 .. n /\ n \in 1 .. n /\ i # n - 1 /\ i # n
  BY <1>5, <1>7, <1>9
<1>11. a[n - 1].frame = Parts[1] /\ a[n].frame = Parts[2]
  BY <1>6, <1>9, <1>10
<1> QED
  BY <1>8, <1>10, <1>11 DEF a, n, w

LEMMA CountedSame ==
    ASSUME NEW r \in Requests, CountedLast(r), lost \subseteq lost',
           counted'[r] = counted[r], ask'[r] = ask[r], results'[r] = results[r],
           todo'[r] = todo[r], at'[r] \in Running => at[r] \in Running
    PROVE  CountedLast(r)'
<1>1. Answered(r)' = Answered(r)
  BY DEF Answered
<1> QED
  BY <1>1 DEF CountedLast

LEMMA ForkKeeps ==
    ASSUME SlicesInv, NEW r \in Requests, NEW i \in DOMAIN tasks[r], Fork(r, i)
    PROVE  SlicesInv'
<1> DEFINE n == Len(tasks[r])
           x == ask[r].refresh
           p == Task(Pulse, "parts", "none")
           a == Start(Parts[1], FALSE, x)
           b == Start(Parts[2], FALSE, x)
<1>0. StateTyped /\ RequestInv(r)
  BY DEF SlicesInv
<1>1. /\ at[r] \in Running /\ n \in Nat /\ i \in 1 .. n
      /\ TaskStates(tasks[r])
  BY <1>0, TasksRun, WaveTasks
<1>2. /\ tasks[r][i].frame = Pulse /\ tasks[r][i].at = "run"
      /\ tasks' = [tasks EXCEPT ![r][i] = p, ![r][n - 1] = a, ![r][n] = b]
      /\ UNCHANGED <<at, ask, todo, results, counted, kept, jobs, retained, queued, deferred, raised,
                     lost, mishaps>>
  BY DEF Fork
<1>3. /\ n - 1 \in 1 .. n /\ n \in 1 .. n /\ i # n - 1 /\ i # n
      /\ tasks[r][n - 1].frame = Parts[1] /\ tasks[r][n].frame = Parts[2]
  BY <1>0, <1>2, PulseParts
<1>4. p \in TaskType /\ p.frame = Pulse /\ p.at = "parts"
  BY FramesNamed DEF Task, TaskType, Statuses
<1>5. Begun(a, Parts[1], FALSE) /\ Begun(b, Parts[2], FALSE)
  BY <1>0, FramesNamed, StartBegins
<1> HIDE DEF p, a, b
<1>6. /\ tasks' \in [Requests -> Seq(TaskType)]
      /\ \A s \in Requests : s # r => tasks'[s] = tasks[s]
      /\ Len(tasks'[r]) = n /\ DOMAIN tasks'[r] = 1 .. n
      /\ \A j \in 1 .. n :
           tasks'[r][j] = IF j = i THEN p ELSE IF j = n - 1 THEN a ELSE IF j = n THEN b
                          ELSE tasks[r][j]
  <2> DEFINE c == tasks[r]
             m == n - 1
             d == [j \in 1 .. n |-> IF j = i THEN p ELSE IF j = m THEN a ELSE IF j = n THEN b
                                    ELSE c[j]]
  <2>1. tasks \in [Requests -> Seq(TaskType)]
    BY <1>0 DEF StateTyped
  <2>2. c \in [1 .. n -> TaskType]
    BY <2>1
  <2>3. m \in 1 .. n /\ n \in 1 .. n /\ i \in 1 .. n /\ i # m /\ i # n /\ m # n
    BY <1>1, <1>3
  <2>4. tasks' = [tasks EXCEPT ![r][i] = p, ![r][m] = a, ![r][n] = b]
    BY <1>2
  <2> HIDE DEF m, n
  <2>5. tasks' = [tasks EXCEPT ![r] = d]
    <3>1. DOMAIN tasks[r] = 1 .. n
      BY <2>2
    <3> HIDE DEF c
    <3>2. tasks'[r] = d
      BY <2>1, <2>3, <2>4, <3>1 DEF c
    <3> HIDE DEF d
    <3> QED
      BY <2>1, <2>4, <3>2
  <2>6. a \in TaskType /\ b \in TaskType
    BY <1>5 DEF Begun
  <2>7. d \in [1 .. n -> TaskType]
    BY <1>4, <2>2, <2>6
  <2>8. \A j \in 1 .. n : d[j] = IF j = i THEN p ELSE IF j = m THEN a ELSE IF j = n THEN b
                                 ELSE c[j]
    OBVIOUS
  <2>9. n \in Nat
    BY <1>1
  <2> HIDE DEF d, c
  <2>10. d \in Seq(TaskType) /\ Len(d) = n /\ DOMAIN d = 1 .. n
    BY <2>7, <2>9, AsSeq
  <2> QED
    BY <2>1, <2>5, <2>8, <2>10 DEF c, m
<1>7. StateTyped'
  BY <1>0, <1>2, <1>6 DEF StateTyped
<1>8. Seen' = Seen /\ Growing /\ \A s \in Requests : s # r => Same(s)
  BY <1>0, <1>2, <1>6, AsUsual
<1>9. /\ a.frame = Parts[1] /\ a.at \in {"run", "done"}
      /\ a.at = "done" => a.status = "ok" /\ a.frame \in WarmAgents
      /\ b.frame = Parts[2] /\ b.at \in {"run", "done"}
      /\ b.at = "done" => b.status = "ok" /\ b.frame \in WarmAgents
  BY <1>5 DEF Begun
<1>10. SameFrames(r)
  <2> SUFFICES ASSUME NEW j \in 1 .. n
               PROVE  /\ tasks'[r][j].frame = tasks[r][j].frame
                      /\ tasks'[r][j].at = "parts" => tasks'[r][j].frame = Pulse
                      /\ tasks'[r][j].at \in {"post", "done"} => tasks'[r][j].status # "none"
    BY <1>6 DEF SameFrames
  <2>1. CASE j \notin {i, n - 1, n}
    BY <1>1, <1>6, <2>1 DEF TaskStates
  <2>2. CASE j = i
    BY <1>2, <1>4, <1>6, <2>2
  <2>3. CASE j = n - 1
    BY <1>3, <1>6, <1>9, <2>3
  <2>4. CASE j = n
    BY <1>3, <1>6, <1>9, <2>4
  <2> QED
    BY <2>1, <2>2, <2>3, <2>4
<1>11. Alive(r)' /\ Wave(r)' /\ Progress(r)'
  <2>1. r \in raised => at[r] = "failed"
    BY <1>0 DEF RequestInv, Alive
  <2> QED
    BY <1>0, <1>1, <1>2, <1>10, <2>1, SameWave
<1>12. Queued(r)'
  <2>1. \A j \in 1 .. n :
          (tasks'[r][j].frame = Review /\ tasks'[r][j].at \in {"post", "done"})
            <=> (tasks[r][j].frame = Review /\ tasks[r][j].at \in {"post", "done"})
    <3> SUFFICES ASSUME NEW j \in 1 .. n
                 PROVE  tasks'[r][j] = tasks[r][j]
                          \/ (tasks'[r][j].frame # Review /\ tasks[r][j].frame # Review)
      OBVIOUS
    <3>1. CASE j \notin {i, n - 1, n}
      BY <1>6, <3>1
    <3>2. CASE j = i
      BY <1>2, <1>4, <1>6, <3>2, NamesDiffer
    <3>3. CASE j = n - 1
      BY <1>3, <1>6, <1>9, <3>3, NamesDiffer
    <3>4. CASE j = n
      BY <1>3, <1>6, <1>9, <3>4, NamesDiffer
    <3> QED
      BY <3>1, <3>2, <3>3, <3>4
  <2>2. Reviews(r)' = Reviews(r)
    BY <1>2, <1>6, <2>1, ReviewsSame
  <2> QED
    BY <1>0, <1>2, <2>2 DEF RequestInv, Queued, Proceeds
<1>13. Remembered(r)'
  <2>1. Remembered(r) /\ Answered(r)' = Answered(r) /\ DOMAIN tasks[r] = 1 .. n
    BY <1>0, <1>2 DEF RequestInv, Answered, StateTyped
  <2>2. ASSUME NEW j \in 1 .. n, tasks'[r][j].at = "done", tasks'[r][j].status \in Cacheable
        PROVE  tasks'[r][j].frame \in Seen
    <3>1. CASE j \notin {i, n - 1, n}
      BY <1>6, <2>1, <2>2, <3>1 DEF Remembered
    <3>2. CASE j = i
      BY <1>4, <1>6, <2>2, <3>2
    <3>3. CASE j = n - 1
      BY <1>3, <1>6, <1>9, <2>2, <3>3 DEF Seen
    <3>4. CASE j = n
      BY <1>3, <1>6, <1>9, <2>2, <3>4 DEF Seen
    <3> QED
      BY <3>1, <3>2, <3>3, <3>4
  <2> QED
    BY <1>6, <1>8, <2>1, <2>2 DEF Remembered
<1>14. CountedLast(r)'
  <2>1. CountedLast(r) /\ lost \subseteq lost'
    BY <1>0, <1>2 DEF RequestInv
  <2> QED
    BY <1>2, <2>1, CountedSame
<1>15. RequestInv(r)'
  BY <1>11, <1>12, <1>13, <1>14 DEF RequestInv
<1> QED
  BY <1>7, <1>8, <1>15, OneMoves

\* A task that moves and stays its frame's.
LEMMA MovedFrames ==
    ASSUME StateTyped, NEW r \in Requests, RequestInv(r), NEW i \in DOMAIN tasks[r],
           NEW t \in TaskType, Move(r, i, t), t.frame = tasks[r][i].frame,
           t.at # "parts", t.status # "none"
    PROVE  SameFrames(r)
<1>1. TaskStates(tasks[r])
  BY TasksRun, WaveTasks
<1>2. /\ Len(tasks'[r]) = Len(tasks[r])
      /\ \A j \in 1 .. Len(tasks[r]) : tasks'[r][j] = IF j = i THEN t ELSE tasks[r][j]
  BY Moved
<1> QED
  BY <1>1, <1>2 DEF SameFrames, TaskStates

\* When the pulse of a run one by one counts, its wave is the last.
LEMMA PulseEnds ==
    ASSUME StateTyped, NEW r \in Requests, RequestInv(r), at[r] \in Running,
           Pulse \in ToSet(Head(todo[r])), OneByOne(ask[r])
    PROVE  todo[r] = <<<<Pulse>>>>
<1> DEFINE p == Plan(ask[r])
           d == todo[r]
<1>1. ask[r] \in Asks /\ at[r] # "idle" /\ d # <<>> /\ d \in Seq(Seq(Frames))
  BY DEF RequestInv, Alive, Running, StateTyped
<1>2. PulseAlone(p) /\ p \in Seq(Seq(Frames))
  BY <1>1, OneByOnePulse, PlanTyped
<1>3. PICK n \in Nat : Passed(p, d, Named(results[r]), n)
  BY <1>1 DEF RequestInv, Progress
<1>4. Pulse \in ToSet(Head(d))
  OBVIOUS
<1> HIDE DEF p, d
<1>5. Len(d) \in Nat /\ Len(d) # 0 /\ Head(d) = d[1]
  BY <1>1
<1>6. Len(p) \in Nat /\ Len(d) = Len(p) - n /\ \A j \in 1 .. Len(d) : d[j] = p[n + j]
  <2>1. Len(p) \in Nat
    BY <1>2
  <2>2. Len(d) = Len(p) - n /\ \A j \in 1 .. Len(d) : d[j] = p[n + j]
    BY <1>3 DEF Passed
  <2> QED
    BY <2>1, <2>2
<1>7. 1 \in 1 .. Len(d) /\ n + 1 \in 1 .. Len(p)
  <2>1. Len(p) \in Nat /\ Len(d) = Len(p) - n
    BY <1>6
  <2> QED
    BY <1>5, <2>1
<1>8. Head(d) = p[n + 1]
  BY <1>5, <1>6, <1>7
<1>9. n + 1 = Len(p) /\ p[n + 1] = <<Pulse>>
  BY <1>2, <1>4, <1>7, <1>8 DEF PulseAlone
<1>10. Len(d) = 1
  BY <1>5, <1>6, <1>9
<1>11. d[1] = <<Pulse>>
  BY <1>5, <1>8, <1>9
<1>12. d = <<d[1]>>
  BY <1>1, <1>10
<1> QED
  BY <1>11, <1>12 DEF d

LEMMA TellKeeps ==
    ASSUME SlicesInv, NEW r \in Requests, NEW i \in DOMAIN tasks[r], Tell(r, i)
    PROVE  SlicesInv'
<1>0. StateTyped /\ RequestInv(r)
  BY DEF SlicesInv
<1>1. /\ at[r] \in Running /\ Len(tasks[r]) \in Nat /\ i \in 1 .. Len(tasks[r])
      /\ TaskStates(tasks[r])
  BY <1>0, TasksRun, WaveTasks
<1>2. PICK v \in {"ok", "degraded"} : Move(r, i, Task(Pulse, "post", v))
  BY DEF Tell
<1>3. /\ tasks[r][i].at = "parts"
      /\ counted' = [counted EXCEPT ![r] = WarmAgents]
      /\ UNCHANGED <<at, ask, todo, results, kept, jobs, retained, queued, deferred, raised, lost,
                     mishaps>>
  BY DEF Tell
<1>4. tasks[r][i].frame = Pulse
  BY <1>1, <1>3 DEF TaskStates
<1> DEFINE t == Task(Pulse, "post", v)
<1>5. t \in TaskType /\ t.frame = Pulse /\ t.at = "post" /\ t.status # "none"
  BY FramesNamed DEF Task, TaskType, Statuses
<1>6. Move(r, i, t)
  BY <1>2
<1> HIDE DEF t
<1>7. /\ tasks' \in [Requests -> Seq(TaskType)]
      /\ \A z \in Requests : z # r => tasks'[z] = tasks[z]
      /\ Len(tasks'[r]) = Len(tasks[r]) /\ DOMAIN tasks[r] = 1 .. Len(tasks[r])
      /\ \A j \in 1 .. Len(tasks[r]) : tasks'[r][j] = IF j = i THEN t ELSE tasks[r][j]
  BY <1>0, <1>5, <1>6, Moved
<1>8. WarmAgents \subseteq Frames
  BY <1>0 DEF StateTyped, WarmAgents
<1>9. /\ counted' \in [Requests -> {None} \cup SUBSET Frames]
      /\ \A z \in Requests : z # r => counted'[z] = counted[z]
      /\ counted'[r] = WarmAgents
  BY <1>0, <1>3, <1>8 DEF StateTyped
<1>10. StateTyped'
  BY <1>0, <1>3, <1>7, <1>9 DEF StateTyped
<1>11. Seen' = Seen /\ Growing /\ \A z \in Requests : z # r => Same(z)
  BY <1>0, <1>3, <1>7, <1>9, AsUsual
<1>12. Alive(r)' /\ Wave(r)' /\ Progress(r)'
  <2>1. r \in raised => at[r] = "failed"
    BY <1>0 DEF RequestInv, Alive
  <2>2. SameFrames(r)
    BY <1>0, <1>4, <1>5, <1>6, MovedFrames
  <2> QED
    BY <1>0, <1>1, <1>3, <2>1, <2>2, SameWave
<1>13. Queued(r)'
  <2>1. Reviews(r)' = Reviews(r)
    BY <1>3, <1>4, <1>5, <1>7, NamesDiffer, ReviewsSame
  <2> QED
    BY <1>0, <1>3, <2>1 DEF RequestInv, Queued, Proceeds
<1>14. Remembered(r) /\ Answered(r)' = Answered(r)
  BY <1>0, <1>3 DEF RequestInv, Answered
<1>15. Remembered(r)'
  <2>1. DOMAIN tasks'[r] = DOMAIN tasks[r]
    BY <1>7
  <2> QED
    BY <1>5, <1>7, <1>11, <1>14, <2>1 DEF Remembered
<1>16. CountedLast(r)'
  <2>1. Pulse \in ToSet(Head(todo[r]))
    BY <1>0, <1>4, PulseParts
  <2>2. OneByOne(ask[r]) => todo[r] = <<<<Pulse>>>>
    BY <1>0, <1>1, <2>1, PulseEnds
  <2>3. Answered(r) \subseteq WarmAgents \cup lost
    BY <1>14 DEF Remembered, Seen
  <2> QED
    BY <1>3, <1>9, <1>14, <2>2, <2>3 DEF CountedLast
<1>17. RequestInv(r)'
  BY <1>12, <1>13, <1>15, <1>16 DEF RequestInv
<1> QED
  BY <1>10, <1>11, <1>17, OneMoves

\* The answer is in the cache, or it is lost.
LEMMA AnswerKept ==
    ASSUME StateTyped, NEW r \in Requests, NEW i \in DOMAIN tasks[r],
           tasks[r][i] \in TaskType, KeepAnswer(r, i)
    PROVE  /\ kept' \in [Frames -> {"none"} \cup Cacheable]
           /\ lost' \subseteq Frames /\ mishaps' \in Nat
           /\ Growing
           /\ tasks[r][i].status \in Cacheable => tasks[r][i].frame \in Seen'
<1> DEFINE f == tasks[r][i].frame
           v == tasks[r][i].status
<1>1. kept \in [Frames -> {"none"} \cup Cacheable] /\ lost \subseteq Frames /\ mishaps \in Nat
  BY DEF StateTyped
<1>2. f \in Frames
  BY DEF TaskType
<1>3. \/ v \in Cacheable /\ lost' = lost /\ mishaps' = mishaps /\ kept' = [kept EXCEPT ![f] = v]
      \/ /\ v \in Cacheable /\ mishaps' = mishaps + 1 /\ lost' = lost \cup {f}
         /\ kept' = kept
      \/ v \notin Cacheable /\ kept' = kept /\ lost' = lost /\ mishaps' = mishaps
  BY DEF KeepAnswer, Mishap
<1> HIDE DEF f, v
<1>4. "none" \notin Cacheable
  BY DEF Cacheable
<1>5. kept' \in [Frames -> {"none"} \cup Cacheable] /\ lost' \subseteq Frames /\ mishaps' \in Nat
  BY <1>1, <1>2, <1>3
<1>6. \A g \in Frames : kept[g] # "none" => kept'[g] # "none"
  BY <1>1, <1>2, <1>3, <1>4
<1>7. Growing
  BY <1>1, <1>3, <1>5, <1>6 DEF Growing, Seen, WarmAgents
<1>8. v \in Cacheable => f \in Seen'
  <2>1. CASE v \in Cacheable /\ kept' = [kept EXCEPT ![f] = v]
    <3>1. kept'[f] # "none" /\ f \in DOMAIN kept'
      BY <1>1, <1>2, <1>4, <2>1
    <3> QED
      BY <3>1 DEF Seen, WarmAgents
  <2>2. CASE lost' = lost \cup {f}
    BY <2>2 DEF Seen
  <2> QED
    BY <1>3, <2>1, <2>2
<1> QED
  BY <1>5, <1>7, <1>8 DEF f, v

LEMMA KeepAnswerKeeps ==
    ASSUME SlicesInv, NEW r \in Requests, NEW i \in DOMAIN tasks[r], KeepAnswer(r, i)
    PROVE  SlicesInv'
<1> DEFINE f == tasks[r][i].frame
           v == tasks[r][i].status
           t == Task(f, "done", v)
<1>0. StateTyped /\ RequestInv(r)
  BY DEF SlicesInv
<1>1. /\ at[r] \in Running /\ Len(tasks[r]) \in Nat /\ i \in 1 .. Len(tasks[r])
      /\ TaskStates(tasks[r]) /\ tasks[r][i] \in TaskType
  BY <1>0, TasksRun, WaveTasks
<1>2. /\ tasks[r][i].at = "post" /\ Move(r, i, t)
      /\ UNCHANGED <<at, ask, todo, results, counted, jobs, retained, queued, deferred, raised>>
  BY DEF KeepAnswer
<1>3. v # "none"
  BY <1>1, <1>2 DEF TaskStates
<1>4. t \in TaskType /\ t.frame = f /\ t.at = "done" /\ t.status = v
  BY <1>1 DEF Task, TaskType
<1>5. /\ kept' \in [Frames -> {"none"} \cup Cacheable]
      /\ lost' \subseteq Frames /\ mishaps' \in Nat /\ Growing
      /\ v \in Cacheable => f \in Seen'
  BY <1>0, <1>1, AnswerKept
<1> HIDE DEF t
<1>6. /\ tasks' \in [Requests -> Seq(TaskType)]
      /\ \A z \in Requests : z # r => tasks'[z] = tasks[z]
      /\ Len(tasks'[r]) = Len(tasks[r]) /\ DOMAIN tasks[r] = 1 .. Len(tasks[r])
      /\ \A j \in 1 .. Len(tasks[r]) : tasks'[r][j] = IF j = i THEN t ELSE tasks[r][j]
  BY <1>0, <1>2, <1>4, Moved
<1>7. StateTyped'
  BY <1>0, <1>2, <1>5, <1>6 DEF StateTyped
<1>8. \A z \in Requests : z # r => Same(z)
  BY <1>2, <1>6 DEF Same
<1>9. Alive(r)' /\ Wave(r)' /\ Progress(r)'
  <2>1. r \in raised => at[r] = "failed"
    BY <1>0 DEF RequestInv, Alive
  <2>2. SameFrames(r)
    BY <1>0, <1>2, <1>3, <1>4, MovedFrames
  <2> QED
    BY <1>0, <1>1, <1>2, <2>1, <2>2, SameWave
<1>10. Queued(r)'
  <2>1. Reviews(r)' = Reviews(r)
    BY <1>2, <1>4, <1>6, ReviewsSame
  <2> QED
    BY <1>0, <1>2, <2>1 DEF RequestInv, Queued, Proceeds
<1>11. Remembered(r)'
  <2>1. Remembered(r) /\ Answered(r)' = Answered(r) /\ DOMAIN tasks'[r] = DOMAIN tasks[r]
    BY <1>0, <1>2, <1>6 DEF RequestInv, Answered
  <2>2. ASSUME NEW j \in DOMAIN tasks'[r], tasks'[r][j].at = "done",
               tasks'[r][j].status \in Cacheable
        PROVE  tasks'[r][j].frame \in Seen'
    <3>1. CASE j = i
      BY <1>4, <1>5, <1>6, <2>1, <2>2, <3>1
    <3>2. CASE j # i
      BY <1>5, <1>6, <2>1, <2>2, <3>2 DEF Remembered, Growing
    <3> QED
      BY <3>1, <3>2
  <2>3. Answered(r)' \subseteq Seen'
    BY <1>5, <2>1 DEF Remembered, Growing
  <2> QED
    BY <2>2, <2>3 DEF Remembered
<1>12. CountedLast(r)'
  <2>1. CountedLast(r) /\ lost \subseteq lost'
    BY <1>0, <1>5 DEF RequestInv, Growing
  <2> QED
    BY <1>2, <2>1, CountedSame
<1>13. RequestInv(r)'
  BY <1>9, <1>10, <1>11, <1>12 DEF RequestInv
<1> QED
  BY <1>5, <1>7, <1>8, <1>13, OneMoves

LEMMA RaiseKeeps ==
    ASSUME SlicesInv, NEW r \in Requests, NEW i \in DOMAIN tasks[r], Raise(r, i)
    PROVE  SlicesInv'
<1> DEFINE a == tasks[r]
           b == Broken(r, i)
<1>0. StateTyped /\ RequestInv(r)
  BY DEF SlicesInv
<1>1. /\ at[r] \in Running /\ Len(a) \in Nat /\ TaskStates(a) /\ a \in Seq(TaskType)
      /\ ask[r] \in Asks
  BY <1>0, TasksRun, WaveTasks DEF StateTyped
<1>2. /\ tasks' = [tasks EXCEPT ![r] = b] /\ at' = [at EXCEPT ![r] = "failed"]
      /\ raised' = raised \cup {r} /\ mishaps' = mishaps + 1
      /\ UNCHANGED <<ask, todo, results, counted, kept, jobs, retained, queued, deferred, lost>>
  BY DEF Raise, Mishap
<1>3. /\ b = [j \in DOMAIN a |-> b[j]]
      /\ \A j \in DOMAIN a : b[j] = a[j] \/ b[j] = Task(a[j].frame, "raised", "none")
  BY DEF Broken
<1>4. \A f \in Frames : Task(f, "raised", "none") \in TaskType
                        /\ Task(f, "raised", "none").frame = f
                        /\ Task(f, "raised", "none").at = "raised"
  BY DEF Task, TaskType, Statuses
<1> HIDE DEF a, b
<1>5. DOMAIN a = 1 .. Len(a) /\ \A j \in DOMAIN a : a[j] \in TaskType /\ a[j].frame \in Frames
  <2>1. DOMAIN a = 1 .. Len(a) /\ \A j \in DOMAIN a : a[j] \in TaskType
    BY <1>1
  <2> QED
    BY <2>1 DEF TaskType
<1>6. \A j \in DOMAIN a : b[j] \in TaskType /\ b[j].frame = a[j].frame
                          /\ (b[j] = a[j] \/ b[j].at = "raised")
  BY <1>3, <1>4, <1>5
<1>7. b \in Seq(TaskType) /\ Len(b) = Len(a) /\ DOMAIN b = DOMAIN a
  <2>1. b \in [1 .. Len(a) -> TaskType]
    BY <1>3, <1>5, <1>6
  <2> QED
    BY <1>1, <1>5, <2>1, AsSeq
<1>8. /\ tasks' \in [Requests -> Seq(TaskType)] /\ tasks'[r] = b
      /\ \A s \in Requests : s # r => tasks'[s] = tasks[s]
      /\ at' \in [Requests -> Ats] /\ at'[r] = "failed"
      /\ \A s \in Requests : s # r => at'[s] = at[s]
  BY <1>0, <1>2, <1>7 DEF StateTyped, Ats
<1>9. StateTyped'
  BY <1>0, <1>2, <1>8 DEF StateTyped
<1>10. Seen' = Seen /\ Growing /\ \A s \in Requests : s # r => Same(s)
  BY <1>2, <1>8 DEF Growing, Seen, WarmAgents, Same
<1>11. SameFrames(r)
  BY <1>1, <1>5, <1>6, <1>7, <1>8 DEF SameFrames, TaskStates, a
<1>12. Alive(r)' /\ Wave(r)' /\ Progress(r)'
  BY <1>0, <1>1, <1>2, <1>8, <1>11, SameWave DEF Running
<1>13. Queued(r)'
  BY <1>8 DEF Queued
<1>14. Remembered(r)'
  <2>1. Remembered(r) /\ Answered(r)' = Answered(r)
    BY <1>0, <1>2 DEF RequestInv, Answered
  <2> QED
    BY <1>6, <1>7, <1>8, <1>10, <2>1 DEF Remembered, a
<1>15. CountedLast(r)'
  <2>1. CountedLast(r) /\ lost \subseteq lost'
    BY <1>0, <1>2 DEF RequestInv
  <2> QED
    BY <1>1, <1>2, <2>1, CountedSame
<1>16. RequestInv(r)'
  BY <1>12, <1>13, <1>14, <1>15 DEF RequestInv
<1> QED
  BY <1>9, <1>10, <1>16, OneMoves

\* The frames of two lists of results.
LEMMA NamedTogether ==
    ASSUME NEW s \in Seq(ResultType), NEW t \in Seq(ResultType)
    PROVE  Named(s \o t) = Named(s) \o Named(t)
<1>1. Len(s) \in Nat /\ Len(t) \in Nat
  OBVIOUS
<1>2. /\ s \o t \in Seq(ResultType) /\ Len(s \o t) = Len(s) + Len(t)
      /\ \A i \in 1 .. Len(s) + Len(t) :
           (s \o t)[i] = IF i <= Len(s) THEN s[i] ELSE t[i - Len(s)]
  BY ConcatProperties
<1>3. \A x \in Seq(ResultType) : /\ Named(x) \in Seq(Frames) /\ Len(Named(x)) = Len(x)
                                 /\ \A i \in 1 .. Len(x) : Named(x)[i] = x[i].frame
  <2> SUFFICES ASSUME NEW x \in Seq(ResultType)
               PROVE  /\ Named(x) \in Seq(Frames) /\ Len(Named(x)) = Len(x)
                      /\ \A i \in 1 .. Len(x) : Named(x)[i] = x[i].frame
    OBVIOUS
  <2>1. Len(x) \in Nat /\ \A i \in 1 .. Len(x) : x[i] \in ResultType
    OBVIOUS
  <2>2. \A i \in 1 .. Len(x) : x[i].frame \in Frames
    BY <2>1 DEF ResultType
  <2>3. Named(x) \in [1 .. Len(x) -> Frames]
    BY <2>2 DEF Named
  <2>4. Named(x) \in Seq(Frames) /\ Len(Named(x)) = Len(x)
    BY <2>1, <2>3, AsSeq
  <2> QED
    BY <2>4 DEF Named
<1> DEFINE a == Named(s)
           b == Named(t)
           c == Named(s \o t)
<1>4. /\ a \in Seq(Frames) /\ Len(a) = Len(s) /\ \A i \in 1 .. Len(s) : a[i] = s[i].frame
      /\ b \in Seq(Frames) /\ Len(b) = Len(t) /\ \A i \in 1 .. Len(t) : b[i] = t[i].frame
  BY <1>3
<1>5. c \in Seq(Frames) /\ Len(c) = Len(s) + Len(t)
      /\ \A i \in 1 .. Len(s) + Len(t) : c[i] = (s \o t)[i].frame
  BY <1>2, <1>3
<1> HIDE DEF a, b, c
<1>6. /\ a \o b \in Seq(Frames) /\ Len(a \o b) = Len(s) + Len(t)
      /\ \A i \in 1 .. Len(s) + Len(t) :
           (a \o b)[i] = IF i <= Len(s) THEN a[i] ELSE b[i - Len(s)]
  <2>1. a \in Seq(Frames) /\ b \in Seq(Frames)
    BY <1>4
  <2>2. /\ a \o b \in Seq(Frames) /\ Len(a \o b) = Len(a) + Len(b)
        /\ \A i \in 1 .. Len(a) + Len(b) :
             (a \o b)[i] = IF i <= Len(a) THEN a[i] ELSE b[i - Len(a)]
    BY <2>1, ConcatProperties
  <2> QED
    BY <1>4, <2>2
<1>7. ASSUME NEW i \in 1 .. Len(s) + Len(t) PROVE c[i] = (a \o b)[i]
  <2>1. CASE i <= Len(s)
    <3>1. i \in 1 .. Len(s)
      BY <1>1, <2>1
    <3> QED
      BY <1>2, <1>4, <1>5, <1>6, <2>1, <3>1
  <2>2. CASE ~(i <= Len(s))
    <3>1. i - Len(s) \in 1 .. Len(t)
      BY <1>1, <2>2
    <3> QED
      BY <1>2, <1>4, <1>5, <1>6, <2>2, <3>1
  <2> QED
    BY <2>1, <2>2
<1> DEFINE e == a \o b
<1>8. e \in Seq(Frames) /\ Len(e) = Len(c) /\ \A i \in 1 .. Len(c) : c[i] = e[i]
  BY <1>5, <1>6, <1>7
<1> HIDE DEF e
<1>9. c = e
  BY <1>5, <1>8, SeqEqual
<1> QED
  BY <1>9 DEF a, b, c, e

-------------------------------------------------------------------------------
(* A wave ends.                                                                *)

Answers(w, a) == [i \in DOMAIN w |-> [frame |-> w[i], status |-> a[i].status]]

LEMMA AnswersTyped ==
    ASSUME NEW w \in Seq(Frames), NEW a \in Seq(TaskType), WaveOf(a, w),
           \A i \in DOMAIN w : a[i].at = "done"
    PROVE  /\ Answers(w, a) \in Seq(ResultType) /\ Len(Answers(w, a)) = Len(w)
           /\ \A i \in 1 .. Len(w) :
                /\ i \in 1 .. Len(a) /\ a[i].frame = w[i]
                /\ Answers(w, a)[i] = [frame |-> w[i], status |-> a[i].status]
           /\ Named(Answers(w, a)) = w
<1> DEFINE R == Answers(w, a)
<1>1. Len(w) \in Nat /\ DOMAIN w = 1 .. Len(w) /\ Len(a) \in Nat
      /\ \A i \in 1 .. Len(w) : w[i] \in Frames
  OBVIOUS
<1>2. \A i \in 1 .. Len(w) : i \in 1 .. Len(a) /\ a[i].frame = w[i] /\ a[i].status # "none"
  BY <1>1 DEF WaveOf
<1>3. \A i \in 1 .. Len(a) : a[i].status \in Statuses
  <2>1. \A i \in 1 .. Len(a) : a[i] \in TaskType
    OBVIOUS
  <2> QED
    BY <2>1 DEF TaskType
<1>4. \A i \in 1 .. Len(w) : [frame |-> w[i], status |-> a[i].status] \in ResultType
  BY <1>1, <1>2, <1>3 DEF ResultType
<1>5. /\ R \in [1 .. Len(w) -> ResultType]
      /\ \A i \in 1 .. Len(w) : R[i] = [frame |-> w[i], status |-> a[i].status]
  BY <1>1, <1>4 DEF Answers
<1> HIDE DEF R
<1>6. R \in Seq(ResultType) /\ Len(R) = Len(w)
  BY <1>1, <1>5, AsSeq
<1>7. Named(R) = w
  <2>1. \A i \in 1 .. Len(w) : R[i].frame = w[i]
    BY <1>5
  <2>2. Named(R) = [i \in 1 .. Len(w) |-> w[i]]
    BY <1>6, <2>1 DEF Named
  <2> QED
    BY <1>1, <2>2
<1> QED
  BY <1>2, <1>5, <1>6, <1>7 DEF R

\* One more wave of the plan is over.
LEMMA ProgressOn ==
    ASSUME NEW p \in Seq(Seq(Frames)), NEW d \in Seq(Seq(Frames)), d # <<>>,
           NEW n \in Nat, NEW s, Passed(p, d, s, n)
    PROVE  Passed(p, Tail(d), s \o Head(d), n + 1)
<1>1. Len(p) \in Nat /\ Len(d) \in Nat /\ Len(d) # 0
  OBVIOUS
<1>0. /\ n \in 0 .. Len(p) /\ Len(d) = Len(p) - n /\ \A j \in 1 .. Len(d) : d[j] = p[n + j]
      /\ s = IF n = 0 THEN <<>> ELSE Joined(p)[n]
  BY DEF Passed
<1>2. n + 1 \in 1 .. Len(p) /\ 1 \in 1 .. Len(d) /\ n + 1 # 0
  BY <1>0, <1>1
<1>3. Head(d) = d[1] /\ Head(d) = p[n + 1] /\ Head(d) \in Seq(Frames)
  BY <1>0, <1>1, <1>2
<1>4. /\ Len(Tail(d)) = Len(d) - 1
      /\ \A j \in 1 .. Len(Tail(d)) : Tail(d)[j] = d[j + 1]
  BY <1>1
<1>5. \A j \in 1 .. Len(Tail(d)) : Tail(d)[j] = p[(n + 1) + j]
  <2> SUFFICES ASSUME NEW j \in 1 .. Len(Tail(d)) PROVE Tail(d)[j] = p[(n + 1) + j]
    OBVIOUS
  <2>1. j + 1 \in 1 .. Len(d) /\ n + (j + 1) = (n + 1) + j
    BY <1>1, <1>4
  <2>2. d[j + 1] = p[n + (j + 1)]
    BY <1>0, <2>1
  <2> QED
    BY <1>4, <2>1, <2>2
<1>6. s \o Head(d) = Joined(p)[n + 1]
  <2> DEFINE m == n + 1
  <2>1. m \in 1 .. Len(p) /\ m - 1 = n /\ (m = 1 <=> n = 0)
    BY <1>1, <1>2
  <2>2. Head(d) = p[m]
    BY <1>3
  <2> HIDE DEF m
  <2>3. Joined(p)[m] = IF m = 1 THEN p[m] ELSE Joined(p)[m - 1] \o p[m]
    BY <1>1, <2>1, JoinedUnfolds
  <2>4. CASE n = 0
    <3>1. <<>> \o Head(d) = Head(d)
      BY <1>3
    <3> QED
      BY <1>0, <2>1, <2>2, <2>3, <2>4, <3>1 DEF m
  <2>5. CASE n # 0
    BY <1>0, <2>1, <2>2, <2>3, <2>5 DEF m
  <2> QED
    BY <2>4, <2>5
<1>7. Len(Tail(d)) = Len(p) - (n + 1)
  BY <1>0, <1>1, <1>4
<1> DEFINE m == n + 1
           t == Tail(d)
           u == s \o Head(d)
<1>8. /\ m \in 0 .. Len(p) /\ m # 0 /\ Len(t) = Len(p) - m
      /\ \A j \in 1 .. Len(t) : t[j] = p[m + j]
      /\ u = Joined(p)[m]
  <2>1. m \in 0 .. Len(p) /\ m # 0
    BY <1>1, <1>2
  <2>2. u = Joined(p)[m]
    BY <1>6
  <2>3. Len(t) = Len(p) - m
    BY <1>7
  <2>4. \A j \in 1 .. Len(t) : t[j] = p[m + j]
    BY <1>5
  <2> QED
    BY <2>1, <2>2, <2>3, <2>4
<1> HIDE DEF m, t, u
<1>9. Passed(p, t, u, m)
  BY <1>8 DEF Passed
<1> QED
  BY <1>9 DEF m, t, u

LEMMA EndWaveKeeps ==
    ASSUME SlicesInv, NEW r \in Requests, EndWave(r)
    PROVE  SlicesInv'
<1> DEFINE a == tasks[r]
           d == todo[r]
           w == Head(d)
           more == Tail(d)
           q == ask[r]
           R == Answers(w, a)
           ts == StartWave(Head(more), q)
           s == results[r]
<1>0. StateTyped /\ RequestInv(r)
  BY DEF SlicesInv
<1>1. at[r] = "frames" /\ at[r] \in Running /\ at[r] # "idle" /\ \A i \in DOMAIN w : a[i].at = "done"
  BY DEF EndWave, Running
<1>2. /\ q \in Asks /\ d # <<>> /\ r \notin raised /\ r \notin retained
      /\ ~\E j \in jobs : j.by = r
  BY <1>0, <1>1 DEF RequestInv, Alive
<1>3. /\ a \in Seq(TaskType) /\ d \in Seq(Seq(Frames)) /\ s \in Seq(ResultType)
  BY <1>0 DEF StateTyped
<1>4. WaveOf(a, w) /\ TaskStates(a)
  BY <1>0, <1>1, WaveTasks
<1>5. /\ results' = [results EXCEPT ![r] = s \o R]
      /\ todo' = [todo EXCEPT ![r] = more]
      /\ tasks' = [tasks EXCEPT ![r] = IF more = <<>> THEN <<>> ELSE ts]
      /\ at' = [at EXCEPT ![r] = IF more # <<>> THEN "frames"
                                 ELSE IF ask[r].retain THEN "retain"
                                 ELSE IF Dispatches(ask[r]) THEN "dispatch" ELSE "done"]
      /\ UNCHANGED <<ask, counted, kept, jobs, retained, queued, deferred, raised, lost, mishaps>>
  BY DEF EndWave, Answers
<1>6. PICK n \in Nat : Passed(Plan(q), d, Named(s), n)
  BY <1>0, <1>1 DEF RequestInv, Progress
<1>7. q \in Ask /\ q.confirmed \in BOOLEAN
  BY <1>2, SliceAssumption DEF Ask
<1> HIDE DEF a, d, R, s, ts, q
<1>8. w \in Seq(Frames) /\ more \in Seq(Seq(Frames)) /\ (more # <<>> => Head(more) \in Seq(Frames))
  BY <1>2, <1>3
<1> HIDE DEF w, more
<1>9. /\ R \in Seq(ResultType) /\ Len(R) = Len(w) /\ Named(R) = w
      /\ \A i \in 1 .. Len(w) : /\ i \in 1 .. Len(a) /\ a[i].frame = w[i]
                                /\ R[i] = [frame |-> w[i], status |-> a[i].status]
  BY <1>1, <1>3, <1>4, <1>8, AnswersTyped DEF R
<1>10. more # <<>> => Opened(ts, Head(more), q.confirmed)
  BY <1>0, <1>8, WaveOpens DEF ts
<1>11. s \o R \in Seq(ResultType)
  BY <1>3, <1>9, ConcatProperties
<1>12. StateTyped'
  <2> USE DEF StateTyped
  <2>1. at' \in [Requests -> Ats]
    BY <1>0, <1>5 DEF Ats
  <2>2. todo' \in [Requests -> Seq(Seq(Frames))]
    BY <1>0, <1>5, <1>8
  <2>3. results' \in [Requests -> Seq(ResultType)]
    BY <1>0, <1>5, <1>11
  <2>4. tasks' \in [Requests -> Seq(TaskType)]
    <3>1. more # <<>> => ts \in Seq(TaskType)
      BY <1>10 DEF Opened
    <3>2. <<>> \in Seq(TaskType)
      OBVIOUS
    <3> QED
      BY <1>0, <1>5, <3>1, <3>2
  <2> QED
    BY <1>0, <1>5, <2>1, <2>2, <2>3, <2>4
<1>13. Seen' = Seen /\ Growing /\ \A z \in Requests : z # r => Same(z)
  BY <1>0, <1>5 DEF Growing, Seen, WarmAgents, Same, StateTyped
<1>14. /\ at'[r] \in {"frames", "retain", "dispatch", "done"}
       /\ at'[r] = "frames" <=> more # <<>>
       /\ todo'[r] = more /\ results'[r] = s \o R
       /\ tasks'[r] = IF more = <<>> THEN <<>> ELSE ts
       /\ ask'[r] = q /\ counted'[r] = counted[r] /\ queued'[r] = queued[r]
       /\ deferred'[r] = deferred[r]
       /\ kept' = kept /\ lost' = lost /\ raised' = raised /\ retained' = retained
       /\ jobs' = jobs
  <2>1. at'[r] \in {"frames", "retain", "dispatch", "done"} /\ (at'[r] = "frames" <=> more # <<>>)
    BY <1>0, <1>5 DEF StateTyped
  <2>2. todo'[r] = more /\ results'[r] = s \o R
    BY <1>0, <1>5 DEF StateTyped
  <2>3. tasks'[r] = IF more = <<>> THEN <<>> ELSE ts
    BY <1>0, <1>5 DEF StateTyped
  <2> QED
    BY <1>5, <2>1, <2>2, <2>3 DEF q
<1>15. Alive(r)'
  BY <1>2, <1>14 DEF Alive, Running
<1>16. Wave(r)'
  <2>1. more # <<>> => WaveOf(ts, Head(more))
    BY <1>7, <1>8, <1>10, OpenedFacts
  <2> QED
    BY <1>14, <2>1 DEF Wave, Running
<1>17. Progress(r)'
  <2>1. Plan(q) \in Seq(Seq(Frames))
    BY <1>2, PlanTyped
  <2>2. Passed(Plan(q), more, Named(s) \o w, n + 1)
    BY <1>2, <1>3, <1>6, <2>1, ProgressOn DEF w, more
  <2>3. Named(s \o R) = Named(s) \o w
    BY <1>3, <1>9, NamedTogether
  <2>4. n + 1 \in Nat
    OBVIOUS
  <2> QED
    BY <1>14, <2>2, <2>3, <2>4 DEF Progress
<1>18. \A i \in 1 .. Len(s) + Len(w) :
         (s \o R)[i] = IF i <= Len(s) THEN s[i] ELSE R[i - Len(s)]
  BY <1>3, <1>9, ConcatProperties
<1>19. Len(s \o R) = Len(s) + Len(w) /\ Len(s) \in Nat /\ Len(w) \in Nat /\ Len(a) \in Nat
  <2>1. Len(s \o R) = Len(s) + Len(R)
    BY <1>3, <1>9, ConcatProperties
  <2>2. Len(s) \in Nat /\ Len(w) \in Nat /\ Len(a) \in Nat
    BY <1>3, <1>8
  <2> QED
    BY <1>9, <2>1, <2>2
<1> DEFINE k == Len(s)
           l == Len(w)
           x == s \o R
<1>20. /\ k \in Nat /\ l \in Nat /\ Len(x) = k + l
       /\ \A i \in 1 .. k : x[i] = s[i]
       /\ \A i \in 1 .. l : x[k + i] = R[i]
       /\ \A i \in 1 .. (k + l) : i \in 1 .. k \/ \E j \in 1 .. l : i = k + j
  <2>1. \A i \in 1 .. k : i \in 1 .. k + l
    BY <1>19
  <2>2. \A i \in 1 .. l : k + i \in 1 .. k + l /\ ~(k + i <= k) /\ (k + i) - k = i
    BY <1>19
  <2>3. \A i \in 1 .. (k + l) : i \in 1 .. k \/ (i - k \in 1 .. l /\ i = k + (i - k))
    BY <1>19
  <2>4. \A i \in 1 .. k : x[i] = s[i]
    BY <1>18, <1>19, <2>1
  <2>5. \A i \in 1 .. l : x[k + i] = R[i]
    BY <1>18, <1>19, <2>2
  <2> QED
    BY <1>19, <2>3, <2>4, <2>5
<1> HIDE DEF k, l, x
<1>21. Queued(r)'
  <2>1. Reviews(r) \subseteq Reviews(r)' /\ (q.confirmed => Reviews(r)' = Reviews(r))
    <3>1. Reviews(r)' = {i \in 1 .. Len(x) : x[i].frame = Review}
                          \cup {Len(x) + i :
                                  i \in {j \in 1 .. Len(tasks'[r]) :
                                           tasks'[r][j].frame = Review
                                             /\ tasks'[r][j].at \in {"post", "done"}}}
      BY <1>14 DEF Reviews, ReviewSet, x
    <3>2. q.confirmed => {j \in 1 .. Len(tasks'[r]) : tasks'[r][j].frame = Review
                                         /\ tasks'[r][j].at \in {"post", "done"}} = {}
      <4> SUFFICES ASSUME q.confirmed
                   PROVE  {j \in 1 .. Len(tasks'[r]) : tasks'[r][j].frame = Review
                             /\ tasks'[r][j].at \in {"post", "done"}} = {}
        OBVIOUS
      <4>0. q.confirmed = TRUE
        BY <1>7
      <4>1. CASE more = <<>>
        BY <1>14, <4>1
      <4>2. CASE more # <<>>
        <5>1. Opened(ts, Head(more), TRUE)
          BY <1>10, <4>0, <4>2
        <5>2. Head(more) \in Seq(Frames)
          BY <1>8, <4>2
        <5> QED
          BY <1>14, <4>2, <5>1, <5>2, OpenedUnqueued
      <4> QED
        BY <4>1, <4>2
    <3>3. /\ {i \in 1 .. (k + l) : x[i].frame = Review} \subseteq Reviews(r)'
          /\ q.confirmed => Reviews(r)' = {i \in 1 .. (k + l) : x[i].frame = Review}
      BY <1>20, <3>1, <3>2
    <3>4. Reviews(r) = {i \in 1 .. k : s[i].frame = Review}
                         \cup {k + i : i \in {j \in 1 .. Len(a) :
                                         a[j].frame = Review /\ a[j].at \in {"post", "done"}}}
      BY DEF Reviews, ReviewSet, k, s, a
    <3>5. \A j \in 1 .. Len(a) :
            (a[j].frame = Review /\ a[j].at \in {"post", "done"})
              <=> (j \in 1 .. l /\ w[j] = Review)
      <4>1. \A j \in 1 .. Len(a) : j \in 1 .. l \/ \E i \in {1, 2} : j = l + i
        BY <1>4, <1>19, <1>20 DEF WaveOf, l
      <4>2. \A i \in {1, 2} : l + i \in 1 .. Len(a) => a[l + i].frame = Parts[i]
        BY <1>4 DEF WaveOf, l
      <4>3. \A i \in {1, 2} : l + i \notin 1 .. l
        BY <1>20
      <4>4. \A j \in 1 .. l : a[j].at = "done" /\ a[j].frame = w[j]
        <5>1. DOMAIN w = 1 .. l
          BY <1>8 DEF l
        <5>2. \A j \in 1 .. l : a[j].frame = w[j]
          BY <1>9 DEF l
        <5> QED
          BY <1>1, <5>1, <5>2
      <4> QED
        BY <4>1, <4>2, <4>3, <4>4, NamesDiffer
    <3>6. {j \in 1 .. Len(a) : a[j].frame = Review /\ a[j].at \in {"post", "done"}}
            = {j \in 1 .. l : w[j] = Review}
      <4>1. \A j \in 1 .. l : j \in 1 .. Len(a)
        BY <1>9 DEF l
      <4> QED
        BY <3>5, <4>1
    <3>7. \A j \in 1 .. l : x[k + j].frame = w[j]
      <4>1. \A j \in 1 .. l : R[j] = [frame |-> w[j], status |-> a[j].status]
        BY <1>9 DEF l
      <4>2. \A j \in 1 .. l : R[j].frame = w[j]
        <5> SUFFICES ASSUME NEW j \in 1 .. l PROVE R[j].frame = w[j]
          OBVIOUS
        <5>1. R[j] = [frame |-> w[j], status |-> a[j].status]
          BY <4>1
        <5> QED
          BY <5>1
      <4> QED
        BY <1>20, <4>2
    <3>8. {i \in 1 .. (k + l) : x[i].frame = Review}
            = {i \in 1 .. k : s[i].frame = Review} \cup {k + i : i \in {j \in 1 .. l : w[j] = Review}}
      <4>1. \A i \in 1 .. k : i \in 1 .. (k + l)
        BY <1>20
      <4>2. \A j \in 1 .. l : k + j \in 1 .. (k + l)
        BY <1>20
      <4>3. \A i \in 1 .. k : x[i].frame = s[i].frame
        BY <1>20
      <4>4. \A i \in 1 .. (k + l) : i \in 1 .. k \/ \E j \in 1 .. l : i = k + j
        BY <1>20
      <4>5. \A i \in 1 .. (k + l) :
              x[i].frame = Review <=>
                \/ i \in 1 .. k /\ s[i].frame = Review
                \/ \E j \in 1 .. l : i = k + j /\ w[j] = Review
        BY <3>7, <4>3, <4>4
      <4> QED
        BY <4>1, <4>2, <4>5
    <3> QED
      BY <3>3, <3>4, <3>6, <3>8
  <2>2. Queued(r)
    BY <1>0 DEF RequestInv
  <2>3. /\ ~Proceeds(q) => queued[r] = 0
        /\ queued[r] <= Cardinality(Reviews(r))
        /\ q.confirmed => Cardinality(Reviews(r)) <= queued[r] + deferred[r]
    BY <1>1, <2>2 DEF Queued, q
  <2>4. /\ IsFiniteSet(Reviews(r)') /\ Cardinality(Reviews(r)') \in Nat
        /\ Cardinality(Reviews(r)) \in Nat /\ queued[r] \in Nat
    BY <1>0, <1>12, ReviewsFinite DEF StateTyped, Reviews
  <2>5. Cardinality(Reviews(r)) <= Cardinality(Reviews(r)')
    BY <2>1, <2>4, FS_Subset
  <2>6. queued[r] <= Cardinality(Reviews(r)')
    <3> DEFINE c == Cardinality(Reviews(r))
               e == Cardinality(Reviews(r)')
    <3>1. c \in Nat /\ e \in Nat /\ queued[r] \in Nat /\ queued[r] <= c /\ c <= e
      BY <2>3, <2>4, <2>5
    <3> HIDE DEF c, e
    <3>2. queued[r] <= e
      BY <3>1
    <3> QED
      BY <3>2 DEF e
  <2>7. ~Proceeds(ask[r])' => ~Proceeds(q)
    BY <1>14 DEF Proceeds
  <2> QED
    BY <1>14, <2>1, <2>3, <2>6, <2>7 DEF Queued
<1>22. Remembered(r)
  BY <1>0 DEF RequestInv
<1>23. \A f \in Answered(r)' : f \in Answered(r) \/ (f \in Seen /\ \E j \in 1 .. l : f = w[j])
  <2> SUFFICES ASSUME NEW i \in DOMAIN x, x[i].status \in Cacheable
               PROVE  \/ x[i].frame \in Answered(r)
                      \/ x[i].frame \in Seen /\ \E j \in 1 .. l : x[i].frame = w[j]
    BY <1>14 DEF Answered, x
  <2>1. i \in 1 .. (k + l)
    BY <1>11, <1>20 DEF x
  <2>2. CASE i \in 1 .. k
    <3>1. x[i] = s[i] /\ i \in DOMAIN s
      BY <1>3, <1>20, <2>2 DEF k
    <3> QED
      BY <2>2, <3>1 DEF Answered, s
  <2>3. ASSUME NEW j \in 1 .. l, i = k + j
        PROVE  x[i].frame \in Seen /\ x[i].frame = w[j]
    <3>1. x[i] = R[j]
      BY <1>20, <2>3
    <3>2. /\ j \in 1 .. Len(a) /\ a[j].frame = w[j]
          /\ R[j] = [frame |-> w[j], status |-> a[j].status]
      BY <1>9 DEF l
    <3>3. j \in DOMAIN w /\ j \in DOMAIN a
      BY <1>3, <1>8, <3>2 DEF l
    <3>4. a[j].at = "done" /\ a[j].status \in Cacheable
      BY <1>1, <3>1, <3>2, <3>3
    <3>5. a[j].frame \in Seen
      BY <1>22, <3>3, <3>4 DEF Remembered, a
    <3> QED
      BY <3>1, <3>2, <3>5
  <2> QED
    BY <1>20, <2>1, <2>2, <2>3
<1>24. Remembered(r)'
  <2>1. Answered(r)' \subseteq Seen'
    BY <1>13, <1>22, <1>23 DEF Remembered
  <2>2. \A i \in DOMAIN tasks'[r] : tasks'[r][i].at = "done" => tasks'[r][i].frame \in WarmAgents
    <3>1. CASE more = <<>>
      BY <1>14, <3>1
    <3>2. CASE more # <<>>
      <4>1. DOMAIN ts = 1 .. Len(ts)
        BY <1>10, <3>2 DEF Opened
      <4> QED
        BY <1>7, <1>8, <1>10, <1>14, <3>2, <4>1, OpenedFacts
    <3> QED
      BY <3>1, <3>2
  <2> QED
    BY <1>13, <2>1, <2>2 DEF Remembered, Seen
<1>25. CountedLast(r)'
  <2> SUFFICES ASSUME counted'[r] # None, OneByOne(ask'[r])
               PROVE  /\ Answered(r)' \subseteq counted'[r] \cup lost' \cup {Pulse}
                      /\ at'[r] \notin Running
    BY DEF CountedLast
  <2>1. counted[r] # None /\ OneByOne(q)
    BY <1>14
  <2>2. Answered(r) \subseteq counted[r] \cup lost \cup {Pulse} /\ d = <<<<Pulse>>>>
    BY <1>0, <1>1, <2>1 DEF RequestInv, CountedLast, q, d
  <2>3. w = <<Pulse>> /\ more = <<>>
    BY <2>2 DEF w, more
  <2>4. \A j \in 1 .. l : w[j] = Pulse
    BY <2>3 DEF l
  <2>5. at'[r] \notin Running
    BY <1>14, <2>3 DEF Running
  <2> QED
    BY <1>14, <1>23, <2>2, <2>4, <2>5
<1>26. RequestInv(r)'
  BY <1>15, <1>16, <1>17, <1>21, <1>24, <1>25 DEF RequestInv
<1> QED
  BY <1>12, <1>13, <1>26, OneMoves

-------------------------------------------------------------------------------
(* After the frames.                                                           *)

LEMMA AfterFrames ==
    ASSUME StateTyped, NEW r \in Requests, RequestInv(r),
           at[r] \in {"retain", "dispatch", "done"}, at'[r] \in {"dispatch", "done"},
           UNCHANGED <<ask, todo, tasks, results, counted, kept, queued, deferred, raised, lost>>
    PROVE  RequestInv(r)'
<1>1. Alive(r)'
  BY DEF RequestInv, Alive, Running
<1>2. Wave(r)'
  BY DEF Wave, Running
<1>3. Progress(r)'
  BY DEF RequestInv, Progress
<1>4. Queued(r)'
  <2>1. Reviews(r)' = Reviews(r)
    BY DEF Reviews, ReviewSet
  <2> QED
    BY <2>1 DEF RequestInv, Queued, Proceeds
<1>5. Answered(r)' = Answered(r) /\ Seen' = Seen
  BY DEF Answered, Seen, WarmAgents
<1>6. Remembered(r)'
  BY <1>5 DEF RequestInv, Remembered
<1>7. CountedLast(r)'
  BY CountedSame DEF RequestInv, Running
<1> QED
  BY <1>1, <1>2, <1>3, <1>4, <1>6, <1>7 DEF RequestInv

LEMMA RetainKeeps ==
    ASSUME SlicesInv, NEW r \in Requests, Retain(r) PROVE SlicesInv'
<1>0. StateTyped /\ RequestInv(r)
  BY DEF SlicesInv
<1>1. /\ at[r] = "retain" /\ retained' \in {retained, retained \cup {r}}
      /\ mishaps' \in {mishaps, mishaps + 1}
      /\ at' = [at EXCEPT ![r] = IF Dispatches(ask[r]) THEN "dispatch" ELSE "done"]
      /\ UNCHANGED <<ask, todo, tasks, results, counted, kept, jobs, queued, deferred, raised, lost>>
  BY DEF Retain, Mishap
<1>2. /\ at' \in [Requests -> Ats] /\ at'[r] \in {"dispatch", "done"}
      /\ \A s \in Requests : s # r => at'[s] = at[s]
  BY <1>0, <1>1 DEF StateTyped, Ats
<1>3. StateTyped'
  BY <1>0, <1>1, <1>2 DEF StateTyped
<1>4. Growing /\ \A s \in Requests : s # r => Same(s)
  BY <1>1, <1>2 DEF Growing, Seen, WarmAgents, Same
<1>5. RequestInv(r)'
  BY <1>0, <1>1, <1>2, AfterFrames
<1> QED
  BY <1>3, <1>4, <1>5, OneMoves

LEMMA DispatchKeeps ==
    ASSUME SlicesInv, NEW r \in Requests, Dispatch(r) PROVE SlicesInv'
<1>0. StateTyped /\ RequestInv(r)
  BY DEF SlicesInv
<1>1. PICK s \in SquadsOf(ask[r]) \ Posted(r), o \in BOOLEAN :
        /\ jobs' = jobs \cup {[by |-> r, squad |-> s, ok |-> o]}
        /\ mishaps' \in {mishaps, mishaps + 1}
  BY DEF Dispatch, Mishap
<1>2. /\ at[r] = "dispatch"
      /\ UNCHANGED <<at, ask, todo, tasks, results, counted, kept, retained, queued, deferred, raised, lost>>
  BY DEF Dispatch
<1>3. s \in Squads
  <2>1. ask[r] \in Asks
    BY <1>0, <1>2 DEF RequestInv, Alive
  <2>2. ask[r].kind = "squad" => ask[r].id \in Squads
    BY <2>1, SliceAssumption
  <2> QED
    BY <1>1, <2>2 DEF SquadsOf
<1> DEFINE e == [by |-> r, squad |-> s, ok |-> o]
<1>4. e \in [by : Requests, squad : Squads, ok : BOOLEAN] /\ e.by = r
  BY <1>3
<1>5. jobs' = jobs \cup {e}
  BY <1>1
<1> HIDE DEF e
<1>6. StateTyped'
  BY <1>0, <1>1, <1>2, <1>4, <1>5 DEF StateTyped
<1>7. Growing /\ \A z \in Requests : z # r => Same(z)
  BY <1>2, <1>4, <1>5 DEF Growing, Seen, WarmAgents, Same
<1>8. RequestInv(r)'
  BY <1>0, <1>2, AfterFrames
<1> QED
  BY <1>6, <1>7, <1>8, OneMoves

LEMMA RespondKeeps ==
    ASSUME SlicesInv, NEW r \in Requests, Respond(r) PROVE SlicesInv'
<1>0. StateTyped /\ RequestInv(r)
  BY DEF SlicesInv
<1>1. /\ at[r] = "dispatch" /\ at' = [at EXCEPT ![r] = "done"]
      /\ UNCHANGED <<ask, todo, tasks, results, counted, kept, jobs, retained, queued, deferred, raised,
                     lost, mishaps>>
  BY DEF Respond
<1>2. /\ at' \in [Requests -> Ats] /\ at'[r] = "done"
      /\ \A s \in Requests : s # r => at'[s] = at[s]
  BY <1>0, <1>1 DEF StateTyped, Ats
<1>3. StateTyped'
  BY <1>0, <1>1, <1>2 DEF StateTyped
<1>4. Growing /\ \A s \in Requests : s # r => Same(s)
  BY <1>1, <1>2 DEF Growing, Seen, WarmAgents, Same
<1>5. RequestInv(r)'
  BY <1>0, <1>1, <1>2, AfterFrames
<1> QED
  BY <1>3, <1>4, <1>5, OneMoves

LEMMA ExpireKeeps == ASSUME SlicesInv, Expire PROVE SlicesInv'
<1>0. StateTyped
  BY DEF SlicesInv
<1>1. PICK f \in WarmAgents :
        /\ mishaps' = mishaps + 1 /\ kept' = [kept EXCEPT ![f] = "none"]
        /\ lost' = lost \cup {f}
        /\ UNCHANGED <<at, ask, todo, tasks, results, counted, jobs, retained, queued, deferred, raised>>
  BY DEF Expire, Mishap
<1>2. f \in Frames /\ kept \in [Frames -> {"none"} \cup Cacheable]
  BY <1>0 DEF StateTyped, WarmAgents
<1>3. StateTyped'
  BY <1>0, <1>1, <1>2 DEF StateTyped
<1>4. Growing
  BY <1>1, <1>2 DEF Growing, Seen, WarmAgents
<1>5. \A s \in Requests : Same(s)
  BY <1>1 DEF Same
<1>6. ASSUME NEW s \in Requests PROVE RequestInv(s)'
  BY <1>4, <1>5, OtherKeeps DEF SlicesInv
<1> QED
  BY <1>3, <1>6 DEF SlicesInv

LEMMA SlicesStep == SlicesInv /\ [SlicesNext]_slices => SlicesInv'
<1> SUFFICES ASSUME SlicesInv, [SlicesNext]_slices PROVE SlicesInv'
  OBVIOUS
<1>1. ASSUME NEW r \in Requests, NEW q \in Asks, Receive(r, q) PROVE SlicesInv'
  BY <1>1, ReceiveKeeps
<1>2. ASSUME NEW r \in Requests,
             Orchestrate(r) \/ RunSix(r) \/ DispatchSquads(r) \/ CommandLine(r)
      PROVE  SlicesInv'
  BY <1>1, <1>2 DEF Orchestrate, RunSix, DispatchSquads, CommandLine
<1>3. ASSUME NEW r \in Requests, EndWave(r) \/ Retain(r) \/ Dispatch(r) \/ Respond(r)
      PROVE  SlicesInv'
  BY <1>3, EndWaveKeeps, RetainKeeps, DispatchKeeps, RespondKeeps
<1>4. ASSUME NEW r \in Requests, NEW i \in DOMAIN tasks[r],
             Work(r, i) \/ Fork(r, i) \/ Tell(r, i) \/ KeepAnswer(r, i) \/ Raise(r, i)
      PROVE  SlicesInv'
  BY <1>4, WorkKeeps, ForkKeeps, TellKeeps, KeepAnswerKeeps, RaiseKeeps
<1>5. CASE UNCHANGED slices
  <2>1. StateTyped'
    BY <1>5 DEF SlicesInv, StateTyped, slices
  <2>2. Growing /\ \A s \in Requests : Same(s)
    BY <1>5 DEF Growing, Seen, WarmAgents, Same, slices
  <2>3. ASSUME NEW s \in Requests PROVE RequestInv(s)'
    BY <2>2, OtherKeeps DEF SlicesInv
  <2> QED
    BY <2>1, <2>3 DEF SlicesInv
<1>6. CASE Expire
  BY <1>6, ExpireKeeps
<1> QED
  BY <1>2, <1>3, <1>4, <1>5, <1>6 DEF SlicesNext

LEMMA SlicesAlways == SlicesSpec => []SlicesInv
BY SlicesInitInv, SlicesStep, PTL DEF SlicesSpec

\* Every request, task, result and answer has its type, in every state.
THEOREM SlicesTypes == SlicesSpec => []SlicesTypeOK
<1>1. SlicesInv => SlicesTypeOK
  <2> SUFFICES ASSUME SlicesInv PROVE SlicesTypeOK
    OBVIOUS
  <2>0. StateTyped
    BY DEF SlicesInv
  <2>1. at \in [Requests -> {"idle", "frames", "retain", "dispatch", "done", "failed"}]
    BY <2>0 DEF StateTyped, Ats
  <2>2. ASSUME NEW r \in Requests
        PROVE  /\ at[r] = "idle" \/ ask[r] \in Asks
               /\ \A i \in DOMAIN tasks[r] : tasks[r][i] \in TaskType
               /\ \A i \in DOMAIN results[r] : results[r][i] \in ResultType
               /\ counted[r] = None \/ counted[r] \subseteq Frames
    <3>1. at[r] = "idle" \/ ask[r] \in Asks
      BY DEF SlicesInv, RequestInv, Alive
    <3>2. tasks[r] \in Seq(TaskType) /\ results[r] \in Seq(ResultType)
      BY <2>0 DEF StateTyped
    <3>3. counted[r] = None \/ counted[r] \subseteq Frames
      BY <2>0 DEF StateTyped
    <3> QED
      BY <3>1, <3>2, <3>3
  <2>3. /\ kept \in [Frames -> {"none"} \cup Cacheable]
        /\ jobs \subseteq [by : Requests, squad : Squads, ok : BOOLEAN]
        /\ retained \subseteq Requests /\ raised \subseteq Requests
        /\ queued \in [Requests -> Nat] /\ deferred \in [Requests -> Nat]
        /\ lost \subseteq Frames
    BY <2>0 DEF StateTyped
  <2> QED
    BY <2>1, <2>2, <2>3 DEF SlicesTypeOK, Frames, TaskType, ResultType
<1> QED
  BY <1>1, SlicesAlways, PTL

\* The pulse counts the agent of every frame that answered.
THEOREM PulseCounts == SlicesSpec => []PulseCountsAll
<1>1. SlicesInv => PulseCountsAll
  BY DEF SlicesInv, RequestInv, CountedLast, PulseCountsAll, Counted
<1> QED
  BY <1>1, SlicesAlways, PTL

\* Each deep review a confirmed run answers as queued is in the queue, none
\* twice, but for those it answers without an id of a row; an unconfirmed run
\* puts none there where confirmations are required (frame_runner.py:625,
\* confirmation.py:109): whatever is in the cache and whatever runs beside it.
THEOREM ReviewsQueued == SlicesSpec => []ReviewIsQueued
<1>1. SlicesInv => ReviewIsQueued
  <2> SUFFICES ASSUME SlicesInv, NEW r \in Requests, at[r] = "done"
               PROVE  /\ ~Proceeds(ask[r]) => queued[r] = 0
                      /\ queued[r] <= Cardinality(ReviewsOf(r))
                      /\ ask[r].confirmed =>
                           Cardinality(ReviewsOf(r)) <= queued[r] + deferred[r]
    BY DEF ReviewIsQueued
  <2>1. Queued(r) /\ tasks[r] = <<>> /\ results[r] \in Seq(ResultType)
    BY DEF SlicesInv, RequestInv, Alive, Running, StateTyped
  <2>2. DOMAIN results[r] = 1 .. Len(results[r])
    BY <2>1
  <2>3. {j \in 1 .. Len(tasks[r]) :
           tasks[r][j].frame = Review /\ tasks[r][j].at \in {"post", "done"}} = {}
    BY <2>1
  <2>4. Reviews(r) = ReviewsOf(r)
    BY <2>2, <2>3 DEF Reviews, ReviewSet, ReviewsOf
  <2> QED
    BY <2>1, <2>4 DEF Queued
<1> QED
  BY <1>1, SlicesAlways, PTL

\* A request a frame of which raised stops there; one that answers has run its plan.
THEOREM FailuresStop == SlicesSpec => []FailureStops
<1>1. SlicesInv => FailureStops
  <2> SUFFICES ASSUME SlicesInv, NEW r \in Requests
               PROVE  /\ r \in raised => at[r] = "failed" /\ r \notin retained /\ Posted(r) = {}
                      /\ at[r] \in {"retain", "dispatch", "done"} =>
                           [i \in DOMAIN results[r] |-> results[r][i].frame]
                             = FlattenSeq(Plan(ask[r]))
    BY DEF FailureStops
  <2>0. StateTyped /\ RequestInv(r)
    BY DEF SlicesInv
  <2>1. r \in raised => at[r] = "failed" /\ r \notin retained /\ Posted(r) = {}
    BY <2>0 DEF RequestInv, Alive, Posted
  <2>2. ASSUME at[r] \in {"retain", "dispatch", "done"}
        PROVE  Named(results[r]) = FlattenSeq(Plan(ask[r]))
    <3> DEFINE p == Plan(ask[r])
    <3>1. ask[r] \in Asks /\ todo[r] = <<>> /\ at[r] # "idle"
      BY <2>0, <2>2 DEF RequestInv, Alive, Running
    <3>2. PICK n \in Nat : Passed(p, todo[r], Named(results[r]), n)
      BY <2>0, <3>1 DEF RequestInv, Progress
    <3>3. p \in Seq(Seq(Frames))
      BY <3>1, PlanTyped
    <3> HIDE DEF p
    <3>4. n = Len(p) /\ Len(p) \in Nat
      <4>1. n \in 0 .. Len(p) /\ 0 = Len(p) - n
        BY <3>1, <3>2 DEF Passed
      <4> QED
        BY <3>3, <4>1
    <3>5. Named(results[r]) = IF Len(p) = 0 THEN <<>> ELSE Joined(p)[Len(p)]
      BY <3>2, <3>4 DEF Passed
    <3>6. CASE p = <<>>
      <4>1. Len(p) = 0
        BY <3>6
      <4>2. FlattenSeq(<<>>) = <<>>
        BY DEF FlattenSeq
      <4> QED
        BY <3>5, <3>6, <4>1, <4>2 DEF p
    <3>7. CASE p # <<>>
      <4>1. Len(p) # 0
        BY <3>3, <3>7
      <4>2. FlattenSeq(p) = Joined(p)[Len(p)]
        BY <3>3, <3>7, FlattenIsJoined
      <4> QED
        BY <3>5, <4>1, <4>2 DEF p
    <3> QED
      BY <3>6, <3>7
  <2>3. Named(results[r]) = [i \in DOMAIN results[r] |-> results[r][i].frame]
    <3>1. DOMAIN results[r] = 1 .. Len(results[r])
      BY <2>0 DEF StateTyped
    <3> QED
      BY <3>1 DEF Named
  <2> QED
    BY <2>1, <2>2, <2>3
<1> QED
  BY <1>1, SlicesAlways, PTL

=============================================================================
