---------------------------- MODULE FleetTrigger ----------------------------
(***************************************************************************)
(* The FirstMate fleet trigger of the API process: the structured actions   *)
(* of fleet_trigger_from_voice, the low-level invoke_fleet_trigger, the     *)
(* Guardian gate in front of them and the in-memory idempotency cache       *)
(* around them (advoi/fleet/trigger.py, advoi/fleet/idempotency.py,         *)
(* advoi/guardian/confirmation.py).                                         *)
(*                                                                          *)
(* All handlers run on one event loop, so what happens between two awaits   *)
(* is one step.  The awaits are the append of the gate event (pc "refusing" *)
(* or "ready"), the bridge subprocess ("running") and the append of the     *)
(* trigger event ("logging").                                               *)
(***************************************************************************)
EXTENDS Integers

CONSTANTS
    Requests,       \* requests clients may send; a retry is another request
    Keys,           \* usable idempotency keys (normalize_idempotency_key)
    NoKey,          \* no key, or one that is blank or too long
    None,           \* an absent cache entry or answer
    Calls,          \* what clients may ask for
    Mock,           \* ADVOI_FLEET_MOCK
    ConfirmationRequired,   \* ADVOI_CONFIRMATION_REQUIRED
    Window,         \* ADVOI_FLEET_IDEMPOTENCY_WINDOW_SECS
    MaxTime,        \* bound on the clock
    MaxRestarts,    \* bound on restarts of the API process
    Overlap         \* may a client send a key again before it was answered?

\* "message" is a bare invoke_fleet_trigger call with the caller's own text.
Actions ==
    {"wake_firstmate", "start_development", "run_next_backlog", "fleet_stop", "message"}

Call == [action : Actions, key : Keys \cup {NoKey}, confirmed : BOOLEAN]

ASSUME FleetAssumption ==
    /\ Calls \subseteq Call
    /\ Mock \in BOOLEAN
    /\ ConfirmationRequired \in BOOLEAN
    /\ NoKey \notin Keys
    /\ None \notin Requests
    /\ Window \in Nat
    /\ MaxTime \in Nat
    /\ MaxRestarts \in Nat
    /\ Overlap \in BOOLEAN

VARIABLES
    call,       \* call[r]: what request r asks for
    now,        \* time.monotonic()
    epoch,      \* incarnation of the API process
    queued,     \* does the fleet's backlog file hold a queued item?
    cache,      \* _CACHE: key -> (expiry, result) or None
    pc,         \* where the handler of each request stands
    local,      \* the invocation a handler is at: its verb, whether it
                \* carries a backlog item, and its status once it ended
    ran,        \* ran[r][v]: what became of the bridge run of verb v
    answer,     \* the result each request was answered with
    started,    \* when each request was received
    finished,   \* when it was answered
    era         \* the incarnation that received it

history == <<started, era>>
vars == <<call, now, epoch, queued, cache, pc, local, ran,
          answer, started, finished, era>>

Verbs == {"arm", "stop", "work", "message"}
BridgeStatus == {"dispatched", "failed", "mock", "bridge_script_missing"}
Status == BridgeStatus \cup
    {"empty_backlog", "confirmation_required", "guardian_required", "error"}

\* `by` stands for the result's content: the request whose execution made it.
Result == [status : Status, by : Requests, deduped : BOOLEAN]
Entry == [exp : Nat, result : Result]

ASSUME NoneAssumption == None \notin Entry

InFlight == {"refusing", "ready", "running", "logging"}

Local == [verb : Verbs \cup {"none"}, item : BOOLEAN, out : BridgeStatus \cup {"none"}]
NoLocal == [verb |-> "none", item |-> FALSE, out |-> "none"]

Key(r) == call[r].key
Action(r) == call[r].action

-----------------------------------------------------------------------------
(* The idempotency cache.                                                   *)

\* Mutant: a hit does not look at the expiry.
FreshForever(k) == k # NoKey /\ cache[k] # None

\* get_idempotent_result finds an entry whose window is still open.
Fresh(k) == k # NoKey /\ cache[k] # None /\ cache[k].exp > now

\* _purge_expired, which every lookup and store with a key begins with.
Purged == [k \in Keys |-> IF cache[k] # None /\ cache[k].exp <= now
                          THEN None ELSE cache[k]]

AfterLookup(k) == IF k = NoKey THEN cache ELSE Purged

\* Mutant: only successes are remembered.
StoreOnlySuccess(k, res) ==
    IF k = NoKey \/ res.status \notin {"dispatched", "mock"} THEN cache
    ELSE [Purged EXCEPT ![k] = [exp |-> now + Window, result |-> res]]

\* store_idempotent_result; a window of zero turns the cache off.
Store(k, res) ==
    IF k = NoKey \/ res.status = "confirmation_required" \/ Window = 0 THEN cache
    ELSE [Purged EXCEPT ![k] = [exp |-> now + Window, result |-> res]]

-----------------------------------------------------------------------------
(* The Guardian gate.  Every structured action is high-risk; a bare message *)
(* needs the caller's guardian_allowed, here its `confirmed`.               *)

\* Mutant: wake_firstmate dropped from HIGH_RISK_FLEET_ACTIONS.
PermittedLax(r) == ConfirmationRequired => call[r].confirmed \/ Action(r) = "wake_firstmate"

Permitted(r) == ConfirmationRequired => call[r].confirmed

-----------------------------------------------------------------------------
(* Results.                                                                 *)

\* Mutant: a missing script is taken for a success.
OkIfNotFailed(s) == s \in {"dispatched", "mock", "bridge_script_missing"}

Ok(s) == s \in {"dispatched", "mock"}

Fresh0(r, s) == [status |-> s, by |-> r, deduped |-> FALSE]

\* What the action answers once its last invocation ended: a
\* start_development whose arm succeeded and whose work on a backlog item
\* failed answers with the arm's result.
FinalStatus(r) ==
    IF /\ Action(r) = "start_development"
       /\ local[r].verb = "work" /\ local[r].item /\ ~Ok(local[r].out)
    THEN "dispatched"
    ELSE local[r].out

\* The handler returns: its locals are gone.
Respond(r, res) ==
    /\ pc' = [pc EXCEPT ![r] = "done"]
    /\ local' = [local EXCEPT ![r] = NoLocal]
    /\ answer' = [answer EXCEPT ![r] = res]
    /\ finished' = [finished EXCEPT ![r] = now]

\* _finish: remember the result under the request's key and answer.
Finish(r, s) ==
    /\ cache' = Store(Key(r), Fresh0(r, s))
    /\ Respond(r, Fresh0(r, s))

-----------------------------------------------------------------------------
(* The handler.                                                             *)

\* A client does not send a key again while it waits for its answer.
Serial(r) ==
    ~Overlap /\ Key(r) # NoKey =>
        \A q \in Requests : pc[q] \in InFlight => Key(q) # Key(r)

\* From the start of the handler to its first await: the lookup, then the
\* gate.  A hit answers at once.
Receive(r) ==
    /\ pc[r] = "idle"
    /\ Serial(r)
    /\ started' = [started EXCEPT ![r] = now]
    /\ era' = [era EXCEPT ![r] = epoch]
    /\ cache' = AfterLookup(Key(r))
    /\ \/ /\ Fresh(Key(r))
          /\ Respond(r, [cache[Key(r)].result EXCEPT !.deduped = TRUE])
       \/ /\ ~Fresh(Key(r))
          /\ pc' = [pc EXCEPT ![r] = IF Permitted(r) THEN "ready" ELSE "refusing"]
          /\ UNCHANGED <<local, answer, finished>>
    /\ UNCHANGED <<call, now, epoch, queued, ran>>

\* Mutant: the gate's refusal goes through _finish and its filter is gone.
RefuseStored(r) ==
    /\ pc[r] = "refusing"
    /\ cache' = IF Key(r) = NoKey THEN cache
                ELSE [Purged EXCEPT ![Key(r)] =
                        [exp |-> now + Window,
                         result |-> Fresh0(r, "confirmation_required")]]
    /\ Respond(r, Fresh0(r, "confirmation_required"))
    /\ UNCHANGED <<call, now, epoch, queued, ran, history>>

\* The refusal, after its event was appended.  A structured action returns it
\* without storing it; invoke_fleet_trigger stores guardian_required.
Refuse(r) ==
    /\ pc[r] = "refusing"
    /\ \/ /\ Action(r) = "message"
          /\ Finish(r, "guardian_required")
       \/ /\ Action(r) # "message"
          /\ Respond(r, Fresh0(r, "confirmation_required"))
          /\ UNCHANGED cache
    /\ UNCHANGED <<call, now, epoch, queued, ran, history>>

(* invoke_fleet_trigger past its gate, up to its next await.                *)

\* The bridge is mocked, or its script is missing: there is no subprocess.
NoBridge(r, v, item) ==
    /\ pc' = [pc EXCEPT ![r] = "logging"]
    /\ local' = [local EXCEPT ![r] =
          [verb |-> v, item |-> item,
           out |-> IF Mock THEN "mock" ELSE "bridge_script_missing"]]
    /\ UNCHANGED <<ran, answer, finished>>

\* The bridge subprocess starts.
Spawn(r, v, item) ==
    /\ ~Mock
    /\ pc' = [pc EXCEPT ![r] = "running"]
    /\ local' = [local EXCEPT ![r] = [verb |-> v, item |-> item, out |-> "none"]]
    /\ ran' = [ran EXCEPT ![r][v] = "started"]
    /\ UNCHANGED <<answer, finished>>

\* The spawn raises: the request ends with an HTTP 500 and stores nothing.
SpawnRaises(r) ==
    /\ ~Mock
    /\ Respond(r, Fresh0(r, "error"))
    /\ UNCHANGED ran

Invoke(r, v, item) == NoBridge(r, v, item) \/ Spawn(r, v, item) \/ SpawnRaises(r)

\* The first bridge verb of each action (FLEET_ACTION_BRIDGE_VERB).
FirstVerb(a) ==
    CASE a \in {"wake_firstmate", "start_development"} -> "arm"
      [] a = "fleet_stop" -> "stop"
      [] a = "run_next_backlog" -> "work"
      [] OTHER -> "message"

\* The gate event is appended and the action starts.
Begin(r) ==
    /\ pc[r] = "ready"
    /\ \/ /\ Action(r) = "run_next_backlog" /\ ~queued
          /\ Finish(r, "empty_backlog")
          /\ UNCHANGED ran
       \/ /\ Action(r) = "run_next_backlog" => queued
          /\ Invoke(r, FirstVerb(Action(r)), Action(r) = "run_next_backlog")
          /\ UNCHANGED cache
    /\ UNCHANGED <<call, now, epoch, queued, history>>

\* The bridge subprocess exits with code zero or not.
Exit(r) ==
    /\ pc[r] = "running"
    /\ \E ok \in BOOLEAN :
          /\ local' = [local EXCEPT ![r].out = IF ok THEN "dispatched" ELSE "failed"]
          /\ ran' = [ran EXCEPT ![r][local[r].verb] = IF ok THEN "ok" ELSE "failed"]
    /\ pc' = [pc EXCEPT ![r] = "logging"]
    /\ UNCHANGED <<call, now, epoch, queued, cache, answer, finished, history>>

\* start_development goes on to its work verb only after its arm succeeded.
WorkIsNext(r) ==
    /\ Action(r) = "start_development"
    /\ local[r].verb = "arm"
    /\ Ok(local[r].out)

\* Mutant: an invocation that failed is never answered.
ReturnOnlySuccess(r) ==
    /\ pc[r] = "logging"
    /\ Ok(local[r].out)
    /\ \/ /\ WorkIsNext(r)
          /\ Invoke(r, "work", queued)
          /\ UNCHANGED cache
       \/ /\ ~WorkIsNext(r)
          /\ Finish(r, FinalStatus(r))
          /\ UNCHANGED ran
    /\ UNCHANGED <<call, now, epoch, queued, history>>

\* The trigger event is appended: the next verb starts, or the result is
\* stored and returned.
Return(r) ==
    /\ pc[r] = "logging"
    /\ \/ /\ WorkIsNext(r)
          /\ Invoke(r, "work", queued)
          /\ UNCHANGED cache
       \/ /\ ~WorkIsNext(r)
          /\ Finish(r, FinalStatus(r))
          /\ UNCHANGED ran
    /\ UNCHANGED <<call, now, epoch, queued, history>>

-----------------------------------------------------------------------------
(* The environment.                                                         *)

\* The captain takes queued work, people add some.
BacklogChanges ==
    /\ queued' = ~queued
    /\ UNCHANGED <<call, now, epoch, cache, pc, local, ran, answer, finished, history>>

Tick ==
    /\ now < MaxTime
    /\ now' = now + 1
    /\ UNCHANGED <<call, epoch, queued, cache, pc, local, ran, answer, finished, history>>

\* The process dies: its cache and its open requests are gone, what the bridge
\* did is not.
Restart ==
    /\ epoch < MaxRestarts
    /\ epoch' = epoch + 1
    /\ cache' = [k \in Keys |-> None]
    /\ pc' = [r \in Requests |-> IF pc[r] \in InFlight THEN "lost" ELSE pc[r]]
    /\ local' = [r \in Requests |-> NoLocal]
    /\ UNCHANGED <<call, now, queued, ran, answer, finished, history>>

Init ==
    /\ call \in [Requests -> Calls]
    /\ now = 0
    /\ epoch = 0
    /\ queued \in BOOLEAN
    /\ cache = [k \in Keys |-> None]
    /\ pc = [r \in Requests |-> "idle"]
    /\ local = [r \in Requests |-> NoLocal]
    /\ ran = [r \in Requests |-> [v \in Verbs |-> "never"]]
    /\ answer = [r \in Requests |-> None]
    /\ started = [r \in Requests |-> 0]
    /\ finished = [r \in Requests |-> 0]
    /\ era = [r \in Requests |-> 0]

Handler(r) == Receive(r) \/ Refuse(r) \/ Begin(r) \/ Exit(r) \/ Return(r)

Next ==
    \/ \E r \in Requests : Handler(r)
    \/ BacklogChanges
    \/ Tick
    \/ Restart

Spec == Init /\ [][Next]_vars

\* The event loop runs every handler whose await is over, and the bridge
\* script ends: the code sets no timeout on it.
Fairness == \A r \in Requests : WF_vars(Refuse(r) \/ Begin(r) \/ Exit(r) \/ Return(r))

FairSpec == Spec /\ Fairness

-----------------------------------------------------------------------------
(* Properties.                                                              *)

TypeOK ==
    /\ call \in [Requests -> Call]
    /\ now \in Nat
    /\ epoch \in Nat
    /\ queued \in BOOLEAN
    /\ cache \in [Keys -> Entry \cup {None}]
    /\ pc \in [Requests -> InFlight \cup {"idle", "done", "lost"}]
    /\ local \in [Requests -> Local]
    /\ ran \in [Requests -> [Verbs -> {"never", "started", "ok", "failed"}]]
    /\ answer \in [Requests -> Result \cup {None}]
    /\ started \in [Requests -> Nat]
    /\ finished \in [Requests -> Nat]
    /\ era \in [Requests -> Nat]

Executed(r) == \E v \in Verbs : ran[r][v] # "never"

SameKey(q, r) == Key(q) = Key(r) /\ Key(r) # NoKey

Executor(r) == pc[r] = "done" /\ ~answer[r].deduped

\* r ended with a result that store_idempotent_result was given.
Kept(r) == Executor(r) /\ answer[r].status \notin {"error", "confirmation_required"}

\* An execution that raised is not remembered, so it is no result to return.
Raised(r) == Executor(r) /\ answer[r].status = "error"

\* With confirmation required, nothing reaches the bridge for a request that
\* nobody confirmed, whatever the other requests were allowed to do and
\* whatever the cache holds.
GateHolds ==
    \A r \in Requests : Executed(r) /\ ConfirmationRequired => call[r].confirmed

\* start_development never sends work to a fleet it did not arm first, in the
\* same request and with exit code zero.
WorkNeedsArm ==
    \A r \in Requests :
        Action(r) = "start_development" /\ ran[r]["work"] # "never" => ran[r]["arm"] = "ok"

\* An answer that claims success, replayed or not, rests on a bridge run of
\* its first verb that exited zero, or on the mock.
OkIsEarned ==
    \A r \in Requests :
        pc[r] = "done" /\ Ok(answer[r].status) =>
            LET q == answer[r].by IN
            Mock \/ ran[q][FirstVerb(Action(q))] = "ok"

\* A replayed answer is the answer of another request of the same process
\* under the same key, given before and no longer ago than the window.
ReplayIsFaithful ==
    \A r \in Requests :
        pc[r] = "done" /\ answer[r].deduped =>
            LET q == answer[r].by IN
            /\ q # r
            /\ SameKey(q, r)
            /\ era[q] = era[r]
            /\ Executor(q)
            /\ answer[q].status = answer[r].status
            /\ finished[q] <= started[r]
            /\ started[r] < finished[q] + Window

\* A refusal is never replayed: whoever confirms after being refused gets the
\* action run, or the result of running it.
RefusalNotReplayed ==
    \A r \in Requests :
        pc[r] = "done" /\ answer[r].deduped =>
            answer[r].status \notin {"confirmation_required", "guardian_required"}

Apart(q, r) == pc[q] = "done" /\ finished[q] + Window <= started[r]

\* Two requests with one key that reached the bridge in one process are a
\* window apart: the duplicate invoke does not run the bridge again.
OnePerWindow ==
    \A q, r \in Requests :
        /\ q # r /\ SameKey(q, r) /\ era[q] = era[r]
        /\ Executed(q) /\ Executed(r)
        /\ ~Raised(q) /\ ~Raised(r)
        => Apart(q, r) \/ Apart(r, q)

\* A request received inside the window of an answer given under its key is
\* answered at once from the cache, even when clients overlap.
RetryIsReplayed ==
    [][\A q, r \in Requests :
          /\ pc[r] = "idle" /\ pc'[r] # "idle"
          /\ SameKey(q, r) /\ Kept(q) /\ era[q] = epoch
          /\ now < finished[q] + Window
          => pc'[r] = "done" /\ answer'[r].deduped]_vars

\* Every request the process receives is answered, unless the process dies.
Answered == \A r \in Requests : pc[r] \in InFlight ~> pc[r] \in {"done", "lost"}

-----------------------------------------------------------------------------
(* Refinement: a key is owned by the request executing under it, then by    *)
(* the one whose result the cache holds.                                    *)

Holds(r, k) == Key(r) = k /\ pc[r] \in InFlight

KeyOwner(k) ==
    IF \E r \in Requests : Holds(r, k) THEN CHOOSE r \in Requests : Holds(r, k)
    ELSE IF Fresh(k) THEN cache[k].result.by
    ELSE None

AnsweredBy(r) == IF pc[r] = "done" /\ Key(r) # NoKey THEN answer[r].by ELSE None

Once == INSTANCE KeyedOnce
    WITH owner <- [k \in Keys |-> KeyOwner(k)],
         source <- [r \in Requests |-> AnsweredBy(r)]

\* Clients that wait for their answer see one execution per key and window.
ImplementsKeyedOnce == Once!Spec
=============================================================================
