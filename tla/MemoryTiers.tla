------------------------------ MODULE MemoryTiers ------------------------------
(***************************************************************************)
(* The memory router (memory/router.py) over its five backends: Hindsight  *)
(* behind an HTTP bridge, docker exec or its own client (hindsight.py,     *)
(* bridge_server.py), Letta and the local operational store                *)
(* (operational_bridge.py), Postgres, the Redis window of voice turns      *)
(* (redis_store.py) and the Guardian's log.                                *)
(*                                                                         *)
(* A retain writes the targets of its event one after another.  A backend  *)
(* may refuse, fail, or do the work and lose the answer; a process may die *)
(* between two steps, with half a line on disk.  A recall reads the tiers  *)
(* in turn while retains go on.                                            *)
(*                                                                         *)
(* What is retained is the call that retained it.  Of a payload only where *)
(* fleet backlog text sits in it is kept, of a query which calls it fits.  *)
(***************************************************************************)
EXTENDS Naturals, Sequences, FiniteSets

CONSTANTS
    Calls,          \* the retains of a behaviour
    Recalls,        \* its recalls
    Processes,      \* API, voice agent, daemons: each has its own counters
    Home,           \* Home[c] is the process that makes call c
    Queries,        \* for each query a recall may make, the calls it fits
    Inputs,         \* Inputs[p]: the <<event, payload>> pairs that p's callers pass
    Envs,           \* the environments the processes may run in
    None,           \* no call
    MaxTurns,       \* ADVOI_REDIS_VOICE_MAX_TURNS
    Limit,          \* rows a recall of the operational tier asks for
    MaxFaults,      \* bound on steps of a backend that go wrong
    MaxDeaths       \* bound on processes that die and are started again

VARIABLES
    env,            \* the settings, read on every call and never changed
    at,             \* at[c]: the next step of c
    event,          \* event[c]: its MemoryEventType
    payload,        \* payload[c]: its kind of payload
    todo,           \* todo[c]: the targets c has yet to write
    said,           \* said[c][k]: the answer of c under key k
    turns,          \* the session's list in Redis, newest first
    expires,        \* whether the list has a time to live
    facts,          \* facts[c]: how often Hindsight has retained c
    letta,          \* the passages in Letta's archival memory
    rows,           \* the rows of memory_events
    lines,          \* lines[f]: the lines of the JSONL file f
    open,           \* open[f]: the last line of f has no newline
    failures,       \* failures[p]: retain_failure_count of process p
    reading,        \* reading[r]: the next step of recall r
    before,         \* before[r]: the calls that had ended when r began
    fits,           \* fits[r]: the calls whose lines hold the words r asks for
    got,            \* got[r]: what r has from the operational tier
    source,         \* source[r]: where that came from
    faults,         \* steps that went wrong
    died            \* processes that have died and were started again

callVars   == <<at, event, payload, todo, said>>
recallVars == <<reading, before, fits, got, source>>
stores     == <<turns, expires, facts, letta, rows, lines, open>>
vars == <<env, callVars, recallVars, stores, failures, faults, died>>

\* The event types that share their targets share a name here: "fact" is
\* portfolio_fact and governance_decision, "belief" the other two strategic
\* ones, "preference" the events Letta alone keeps, "record" the three
\* structured ones, "turn" and "error" the ephemeral and the Guardian's.
WriteMap ==
    [fact       |-> <<"hindsight", "postgres">>,
     belief     |-> <<"hindsight">>,
     lesson     |-> <<"letta", "postgres">>,
     preference |-> <<"letta">>,
     record     |-> <<"postgres">>,
     turn       |-> <<"redis">>,
     error      |-> <<"guardian_log">>]

Events == DOMAIN WriteMap
Files  == {"operational_store", "guardian_log"}
Keys   == {"hindsight", "letta", "postgres", "redis"} \cup Files
Settings ==
    [hindsight : {"off", "bridge", "direct"}, http : BOOLEAN, docker : BOOLEAN,
     letta : BOOLEAN, store : BOOLEAN, postgres : BOOLEAN, redis : BOOLEAN]
Line == [of : Calls \cup {None}, whole : BOOLEAN]
Steps == {"idle", "next", "unanswered", "store", "trim", "expire", "done", "dead"}

\* Where the fleet's backlog sits in a payload: nowhere, in a field the check
\* looks at, in another field beside a plain summary, or in another field of a
\* payload that has neither summary nor text.
Payloads == {"plain", "backlog", "buried", "unsummed"}

ASSUME CallsAreCalls == None \notin Calls /\ Home \in [Calls -> Processes]
ASSUME InputsAreInputs == Inputs \in [Processes -> SUBSET (Events \X Payloads)]
ASSUME QueriesFitCalls == Queries \subseteq SUBSET Calls
ASSUME EnvsAreSettings == Envs \subseteq Settings
ASSUME BoundsAreNat == {MaxTurns, Limit, MaxFaults, MaxDeaths} \subseteq Nat

Unsaid == [k \in Keys |-> "nothing"]

Init ==
    /\ env \in Envs
    /\ at = [c \in Calls |-> "idle"]
    /\ event = [c \in Calls |-> "turn"]
    /\ payload = [c \in Calls |-> "plain"]
    /\ todo = [c \in Calls |-> <<>>]
    /\ said = [c \in Calls |-> Unsaid]
    /\ turns = <<>> /\ expires = FALSE
    /\ facts = [c \in Calls |-> 0]
    /\ letta = {} /\ rows = {}
    /\ lines = [f \in Files |-> <<>>]
    /\ open = [f \in Files |-> FALSE]
    /\ failures = [p \in Processes |-> 0]
    /\ reading = [r \in Recalls |-> "idle"]
    /\ before = [r \in Recalls |-> {}]
    /\ fits = [r \in Recalls |-> {}]
    /\ got = [r \in Recalls |-> {}]
    /\ source = [r \in Recalls |-> "none"]
    /\ faults = 0 /\ died = {}

-------------------------------------------------------------------------------
\* Pieces of a retain

\* payload_has_fleet_backlog: only some fields are looked at, the whole payload
\* when none of those holds text.
HasBacklog(p) == p = "backlog"

\* The text Hindsight is given: the summary or text, else the whole payload.
KeptText(p) == IF p \in {"backlog", "unsummed"} THEN "backlog" ELSE "plain"

\* A step of a backend that goes well costs nothing, one that does not is a
\* fault of the bounded number.
Outcome(o) ==
    \/ o = "ok" /\ UNCHANGED faults
    \/ o # "ok" /\ faults < MaxFaults /\ faults' = faults + 1

Turn(c, t) == at[c] = "next" /\ todo[c] # <<>> /\ Head(todo[c]) = t

\* Answer k for call c, and go on with the step s or the next target.
Says(c, k, o) ==
    said' = [said EXCEPT ![c][k] = IF o = "ok" THEN "yes" ELSE "no"]
GoTo(c, s) == at' = [at EXCEPT ![c] = s] /\ UNCHANGED todo
NextTarget(c) ==
    /\ at' = [at EXCEPT ![c] = "next"]
    /\ todo' = [todo EXCEPT ![c] = Tail(@)]

\* record_retain_failure, in the counters of the process that made the call.
Counted(c, o) ==
    failures' = IF o = "ok" THEN failures ELSE [failures EXCEPT ![Home[c]] = @ + 1]

\* A line that ends is readable, unless it was glued to a half one.
Appended(f, c) ==
    /\ lines' = [lines EXCEPT ![f] =
           IF open[f] THEN [@ EXCEPT ![Len(@)].of = c]
                      ELSE Append(@, [of |-> c, whole |-> TRUE])]
    /\ open' = [open EXCEPT ![f] = FALSE]

\* The start of a line, glued to a half one if there is one.
Torn(f) ==
    /\ lines' = [lines EXCEPT ![f] =
           IF open[f] THEN @ ELSE Append(@, [of |-> None, whole |-> FALSE])]
    /\ open' = [open EXCEPT ![f] = TRUE]

\* An append to f for call c: written, refused, or cut off by a full disk.
AppendTo(f, c, o) ==
    \/ o = "ok" /\ Appended(f, c)
    \/ o = "down" /\ UNCHANGED <<lines, open>>
    \/ o = "torn" /\ Torn(f)

-------------------------------------------------------------------------------
\* MemoryRouter.retain

Begin(c) ==
    \E i \in Inputs[Home[c]] :
        /\ at[c] = "idle"
        /\ event' = [event EXCEPT ![c] = i[1]]
        /\ payload' = [payload EXCEPT ![c] = i[2]]
        /\ todo' = [todo EXCEPT ![c] = WriteMap[i[1]]]
        /\ at' = [at EXCEPT ![c] = "next"]
        /\ UNCHANGED <<env, said, recallVars, stores, failures, faults, died>>

\* A target that is not configured is passed over.
Configured(t) ==
    CASE t = "hindsight" -> env.hindsight # "off"
      [] t = "postgres"  -> env.postgres
      [] t = "redis"     -> env.redis
      [] OTHER           -> TRUE

PassOver(c) ==
    /\ at[c] = "next" /\ todo[c] # <<>>
    /\ ~Configured(Head(todo[c]))
    /\ NextTarget(c)
    /\ UNCHANGED <<env, event, payload, said, recallVars, stores, failures, faults, died>>

\* Fleet backlog never reaches Hindsight (ADR-026); no failure is counted.
RefuseBacklog(c) ==
    /\ Turn(c, "hindsight") /\ Configured("hindsight") /\ HasBacklog(payload[c])
    /\ Says(c, "hindsight", "refused") /\ NextTarget(c)
    /\ UNCHANGED <<env, event, payload, recallVars, stores, failures, faults, died>>

Retained(c, o) ==
    facts' = IF o \in {"ok", "lost"} THEN [facts EXCEPT ![c] = @ + 1] ELSE facts

\* Mutant: the way over the bridge does not look at the payload.
PostBridgeUnchecked(c) ==
    \E o \in {"ok", "refused", "lost", "down"} :
        /\ Turn(c, "hindsight") /\ env.hindsight = "bridge" /\ env.http
        /\ Outcome(o) /\ Retained(c, o)
        /\ IF o \in {"ok", "refused"}
           THEN Says(c, "hindsight", o) /\ Counted(c, o) /\ NextTarget(c)
           ELSE GoTo(c, "unanswered") /\ UNCHANGED <<said, failures>>
        /\ UNCHANGED <<env, event, payload, recallVars, turns, expires, letta, rows,
                       lines, open, died>>

\* Mutant: a bridge that does not answer is counted, and docker exec after it.
PostBridgeCounted(c) ==
    \E o \in {"ok", "refused", "lost", "down"} :
        /\ Turn(c, "hindsight") /\ env.hindsight = "bridge" /\ env.http
        /\ ~HasBacklog(payload[c])
        /\ Outcome(o) /\ Retained(c, o)
        /\ IF o \in {"ok", "refused"}
           THEN Says(c, "hindsight", o) /\ Counted(c, o) /\ NextTarget(c)
           ELSE GoTo(c, "unanswered") /\ Counted(c, o) /\ UNCHANGED said
        /\ UNCHANGED <<env, event, payload, recallVars, turns, expires, letta, rows,
                       lines, open, died>>

\* The HTTP bridge: an answer is final, whatever it says; with no answer the
\* call goes on to docker exec, though the bridge may have retained the fact.
PostBridge(c) ==
    \E o \in {"ok", "refused", "lost", "down"} :
        /\ Turn(c, "hindsight") /\ env.hindsight = "bridge" /\ env.http
        /\ ~HasBacklog(payload[c])
        /\ Outcome(o) /\ Retained(c, o)
        /\ IF o \in {"ok", "refused"}
           THEN Says(c, "hindsight", o) /\ Counted(c, o) /\ NextTarget(c)
           ELSE GoTo(c, "unanswered") /\ UNCHANGED <<said, failures>>
        /\ UNCHANGED <<env, event, payload, recallVars, turns, expires, letta, rows,
                       lines, open, died>>

\* docker exec: nothing without the CLI; a run that outlives its 45 seconds
\* has failed for the caller and may retain all the same.
ExecBridge(c) ==
    \E o \in {"ok", "lost", "down"} :
        /\ \/ at[c] = "unanswered"
           \/ Turn(c, "hindsight") /\ env.hindsight = "bridge" /\ ~env.http
                /\ ~HasBacklog(payload[c])
        /\ IF env.docker THEN Outcome(o) ELSE o = "down" /\ UNCHANGED faults
        /\ Retained(c, o) /\ Says(c, "hindsight", o) /\ Counted(c, o)
        /\ NextTarget(c)
        /\ UNCHANGED <<env, event, payload, recallVars, turns, expires, letta, rows,
                       lines, open, died>>

\* Hindsight's own client.
RetainDirect(c) ==
    \E o \in {"ok", "lost", "down"} :
        /\ Turn(c, "hindsight") /\ env.hindsight = "direct" /\ ~HasBacklog(payload[c])
        /\ Outcome(o) /\ Retained(c, o)
        /\ Says(c, "hindsight", o) /\ Counted(c, o) /\ NextTarget(c)
        /\ UNCHANGED <<env, event, payload, recallVars, turns, expires, letta, rows,
                       lines, open, died>>

\* Mutant: any answer of Letta counts as a yes.
RetainLettaAny(c) ==
    \E o \in {"ok", "lost", "down"} :
        /\ Turn(c, "letta") /\ env.letta
        /\ Outcome(o) /\ Says(c, "letta", "ok") /\ UNCHANGED failures
        /\ letta' = IF o = "down" THEN letta ELSE letta \cup {c}
        /\ GoTo(c, "store")
        /\ UNCHANGED <<env, event, payload, recallVars, turns, expires, facts, rows,
                       lines, open, died>>

\* Letta first, when it is enabled, and the local store in any case.
RetainLetta(c) ==
    \E o \in {"ok", "lost", "down"} :
        /\ Turn(c, "letta") /\ env.letta
        /\ Outcome(o) /\ Says(c, "letta", o) /\ Counted(c, o)
        /\ letta' = IF o = "down" THEN letta ELSE letta \cup {c}
        /\ GoTo(c, "store")
        /\ UNCHANGED <<env, event, payload, recallVars, turns, expires, facts, rows,
                       lines, open, died>>

AppendOperational(c) ==
    \E o \in {"ok", "down", "torn"} :
        /\ at[c] = "store" \/ (Turn(c, "letta") /\ ~env.letta)
        /\ IF env.store THEN Outcome(o) ELSE o = "down" /\ UNCHANGED faults
        /\ AppendTo("operational_store", c, o)
        /\ Says(c, "operational_store", o) /\ NextTarget(c)
        /\ UNCHANGED <<env, event, payload, recallVars, turns, expires, facts, letta,
                       rows, failures, died>>

RetainStructured(c) ==
    \E o \in {"ok", "lost", "down"} :
        /\ Turn(c, "postgres") /\ env.postgres
        /\ Outcome(o) /\ Says(c, "postgres", o)
        /\ rows' = IF o = "down" THEN rows ELSE rows \cup {c}
        /\ NextTarget(c)
        /\ UNCHANGED <<env, event, payload, recallVars, turns, expires, facts, letta,
                       lines, open, failures, died>>

AppendGuardian(c) ==
    \E o \in {"ok", "down", "torn"} :
        /\ Turn(c, "guardian_log")
        /\ Outcome(o) /\ AppendTo("guardian_log", c, o)
        /\ Says(c, "guardian_log", o) /\ NextTarget(c)
        /\ UNCHANGED <<env, event, payload, recallVars, turns, expires, facts, letta,
                       rows, failures, died>>

\* The Redis window: push, trim and expire are three commands, and the first
\* that fails ends the retain with False.  A command whose answer is lost has
\* been run.
RedisStep(c, o, s) ==
    IF o = "ok" /\ s # "done"
    THEN GoTo(c, s) /\ UNCHANGED said
    ELSE Says(c, "redis", o) /\ NextTarget(c)

Push(c) ==
    \E o \in {"ok", "lost", "down"} :
        /\ Turn(c, "redis") /\ env.redis
        /\ Outcome(o) /\ RedisStep(c, o, "trim")
        /\ turns' = IF o = "down" THEN turns ELSE <<c>> \o turns
        /\ UNCHANGED <<env, event, payload, recallVars, expires, facts, letta, rows,
                       lines, open, failures, died>>

\* Mutant: LTRIM keeps one turn more than the window has.
TrimLong(c) ==
    \E o \in {"ok", "lost", "down"} :
        /\ at[c] = "trim"
        /\ Outcome(o) /\ RedisStep(c, o, "expire")
        /\ turns' = IF o = "down" \/ Len(turns) <= MaxTurns + 1 THEN turns
                    ELSE SubSeq(turns, 1, MaxTurns + 1)
        /\ UNCHANGED <<env, event, payload, recallVars, expires, facts, letta, rows,
                       lines, open, failures, died>>

Trim(c) ==
    \E o \in {"ok", "lost", "down"} :
        /\ at[c] = "trim"
        /\ Outcome(o) /\ RedisStep(c, o, "expire")
        /\ turns' = IF o = "down" \/ Len(turns) <= MaxTurns THEN turns
                    ELSE SubSeq(turns, 1, MaxTurns)
        /\ UNCHANGED <<env, event, payload, recallVars, expires, facts, letta, rows,
                       lines, open, failures, died>>

\* EXPIRE on a list that has expired in between sets nothing.
SetExpiry(c) ==
    \E o \in {"ok", "lost", "down"} :
        /\ at[c] = "expire"
        /\ Outcome(o) /\ RedisStep(c, o, "done")
        /\ expires' = (expires \/ (o # "down" /\ turns # <<>>))
        /\ UNCHANGED <<env, event, payload, recallVars, turns, facts, letta, rows,
                       lines, open, failures, died>>

\* A list that has a time to live ends.
WindowExpires ==
    /\ expires /\ turns' = <<>> /\ expires' = FALSE
    /\ UNCHANGED <<env, callVars, recallVars, facts, letta, rows, lines, open,
                   failures, faults, died>>

End(c) ==
    /\ at[c] = "next" /\ todo[c] = <<>>
    /\ GoTo(c, "done")
    /\ UNCHANGED <<env, event, payload, said, recallVars, stores, failures, faults, died>>

-------------------------------------------------------------------------------
\* MemoryRouter.recall, the operational tier (operational_bridge.py)

\* The words asked for are in the lines of some of the retains.
Open(r) ==
    /\ reading[r] = "idle"
    /\ reading' = [reading EXCEPT ![r] = IF env.letta THEN "letta" ELSE "local"]
    /\ before' = [before EXCEPT ![r] = {c \in Calls : at[c] = "done"}]
    /\ \E q \in Queries : fits' = [fits EXCEPT ![r] = q]
    /\ UNCHANGED <<env, callVars, got, source, stores, failures, faults, died>>

Gets(r, s, from) ==
    /\ got' = [got EXCEPT ![r] = s]
    /\ source' = [source EXCEPT ![r] = IF s = {} THEN "none" ELSE from]

\* Letta answers with the passages that fit best, however little they do, at
\* most Limit of them.  No passage, or no answer, and the local store is read
\* instead.
SearchLetta(r) ==
    \E o \in {"ok", "down"}, s \in SUBSET letta :
        /\ reading[r] = "letta"
        /\ Outcome(o)
        /\ IF o = "ok" THEN s = letta \/ Cardinality(s) = Limit ELSE s = {}
        /\ Cardinality(s) <= Limit
        /\ IF s = {}
           THEN reading' = [reading EXCEPT ![r] = "local"] /\ UNCHANGED <<got, source>>
           ELSE reading' = [reading EXCEPT ![r] = "done"] /\ Gets(r, s, "letta")
        /\ UNCHANGED <<env, callVars, before, fits, stores, failures, died>>

\* The lines of f that are JSON and hold the words asked for, those of the calls
\* in q, and the newest n of them.
Readable(f, q) ==
    {c \in q : \E i \in DOMAIN lines[f] : lines[f][i] = [of |-> c, whole |-> TRUE]}
Newest(f, q, n) ==
    {c \in Readable(f, q) : \E i \in DOMAIN lines[f] :
        /\ lines[f][i].of = c
        /\ Cardinality({j \in DOMAIN lines[f] :
                           j > i /\ lines[f][j].whole /\ lines[f][j].of \in q}) < n}

\* Mutant: the newest lines are taken first, and then those that fit.
ReadLastLines(r) ==
    \E o \in {"ok", "down"} :
        /\ reading[r] = "local"
        /\ Outcome(o)
        /\ Gets(r, IF o = "ok" /\ env.store
                   THEN Newest("operational_store", Calls, Limit) \cap fits[r] ELSE {},
                "operational_store")
        /\ reading' = [reading EXCEPT ![r] = IF o = "ok" THEN "done" ELSE "failed"]
        /\ UNCHANGED <<env, callVars, before, fits, stores, failures, died>>

\* The newest lines that fit; those that are not JSON are skipped.
ReadStore(r) ==
    \E o \in {"ok", "down"} :
        /\ reading[r] = "local"
        /\ Outcome(o)
        /\ Gets(r, IF o = "ok" /\ env.store
                   THEN Newest("operational_store", fits[r], Limit) ELSE {},
                "operational_store")
        /\ reading' = [reading EXCEPT ![r] = IF o = "ok" THEN "done" ELSE "failed"]
        /\ UNCHANGED <<env, callVars, before, fits, stores, failures, died>>

-------------------------------------------------------------------------------
\* A process dies and is started again: its calls end without an answer, its
\* counters are gone, and a line it was writing may be cut off.
InFlight(c) == at[c] \notin {"idle", "done", "dead"}
Appending(c, f) ==
    CASE f = "guardian_log" -> Turn(c, f)
      [] OTHER -> at[c] = "store" \/ (Turn(c, "letta") /\ ~env.letta)

Die(p) ==
    /\ Cardinality(died) < MaxDeaths /\ died' = died \cup {p}
    /\ at' = [c \in Calls |-> IF Home[c] = p /\ InFlight(c) THEN "dead" ELSE at[c]]
    /\ failures' = [failures EXCEPT ![p] = 0]
    /\ \/ UNCHANGED <<lines, open>>
       \/ \E c \in Calls, f \in Files : Home[c] = p /\ Appending(c, f) /\ Torn(f)
    /\ UNCHANGED <<env, event, payload, todo, said, recallVars, turns, expires, facts,
                   letta, rows, faults>>

Retain(c) ==
    \/ Begin(c) \/ PassOver(c) \/ End(c)
    \/ RefuseBacklog(c) \/ PostBridge(c) \/ ExecBridge(c) \/ RetainDirect(c)
    \/ RetainLetta(c) \/ AppendOperational(c)
    \/ RetainStructured(c) \/ AppendGuardian(c)
    \/ Push(c) \/ Trim(c) \/ SetExpiry(c)

Recall(r) == Open(r) \/ SearchLetta(r) \/ ReadStore(r)

Next ==
    \/ \E c \in Calls : Retain(c)
    \/ \E r \in Recalls : Recall(r)
    \/ \E p \in Processes : Die(p)
    \/ WindowExpires

Spec == Init /\ [][Next]_vars

-------------------------------------------------------------------------------
TypeOK ==
    /\ env \in Envs
    /\ at \in [Calls -> Steps]
    /\ event \in [Calls -> Events] /\ payload \in [Calls -> Payloads]
    /\ todo \in [Calls -> Seq(Keys)]
    /\ said \in [Calls -> [Keys -> {"nothing", "yes", "no"}]]
    /\ turns \in Seq(Calls) /\ expires \in BOOLEAN
    /\ facts \in [Calls -> Nat]
    /\ letta \subseteq Calls /\ rows \subseteq Calls
    /\ lines \in [Files -> Seq(Line)] /\ open \in [Files -> BOOLEAN]
    /\ failures \in [Processes -> Nat]
    /\ reading \in [Recalls -> {"idle", "letta", "local", "done", "failed"}]
    /\ before \in [Recalls -> SUBSET Calls] /\ fits \in [Recalls -> SUBSET Calls]
    /\ got \in [Recalls -> SUBSET Calls]
    /\ source \in [Recalls -> {"none", "letta", "operational_store"}]
    /\ faults \in Nat /\ died \subseteq Processes

\* A retain never answers yes for a backend that does not have what was
\* retained, whatever was lost, torn or retried on the way, and a line whose
\* append answered yes is in its file, at worst glued to a half one
\* (router.py:94, ADR-026).
YesIsKept ==
    \A c \in Calls :
        /\ said[c]["hindsight"] = "yes" => facts[c] > 0
        /\ said[c]["letta"] = "yes" => c \in letta
        /\ said[c]["postgres"] = "yes" => c \in rows
        /\ \A f \in Files : said[c][f] = "yes" =>
               \E i \in DOMAIN lines[f] : lines[f][i].of = c

\* No fleet backlog is ever retained in Hindsight, by whichever of the three
\* ways there (router.py:115, hindsight.py:226, ADR-026's never-rule).
NeverBacklog == \A c \in Calls : facts[c] > 0 => KeptText(payload[c]) # "backlog"

\* The window of turns is longer than it may be only by turns whose trim is to
\* come, or whose retain did not end well, and it does not stay for ever
\* unless such a retain left it (redis_store.py:81).
Cut(c) == event[c] = "turn" /\ (at[c] = "dead" \/ said[c]["redis"] = "no")
WindowKept ==
    /\ Len(turns) <= MaxTurns + Cardinality({c \in Calls : at[c] = "trim" \/ Cut(c)})
    /\ turns # <<>> => expires \/ \E c \in Calls : at[c] \in {"trim", "expire"} \/ Cut(c)

\* A recall that was answered has every lesson its query fits whose retain had
\* answered yes before it began, however many newer lines do not fit, unless it
\* has as many as it asked for or the line is glued to a half one
\* (operational_bridge.py:11, operational_store.py:73).
Glued(c) == \E i \in DOMAIN lines["operational_store"] :
                lines["operational_store"][i] = [of |-> c, whole |-> FALSE]
RecallIsComplete ==
    \A r \in Recalls : reading[r] = "done" =>
        \A c \in before[r] \cap fits[r] :
            \/ c \in got[r] \/ Cardinality(got[r]) >= Limit \/ Glued(c)
            \/ said[c]["operational_store"] # "yes" \/ said[c]["letta"] = "no"

\* What the diagnostics count is the retains a backend failed, each once
\* however many ways to it were tried, and no refusal by policy
\* (retain_metrics.py:21, hindsight.py:233).
Failed(p, k) == {c \in Calls : /\ Home[c] = p /\ said[c][k] = "no"
                               /\ k = "hindsight" => ~HasBacklog(payload[c])}
FailuresCounted ==
    \A p \in Processes \ died :
        failures[p] = Cardinality(Failed(p, "hindsight")) + Cardinality(Failed(p, "letta"))

\* Violated, see the README: what is retained is retained once.
StoredOnce == \A c \in Calls : facts[c] <= 1

\* Violated, see the README: what the local store has kept is
\* recalled, as the docstring of operational_bridge.py promises.
StoreIsRecalled ==
    \A r \in Recalls : reading[r] = "done" =>
        \A c \in before[r] \cap fits[r] :
            said[c]["operational_store"] = "yes" =>
                c \in got[r] \/ Cardinality(got[r]) >= Limit \/ Glued(c)
===============================================================================
