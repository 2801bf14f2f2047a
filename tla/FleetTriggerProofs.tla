------------------------- MODULE FleetTriggerProofs -------------------------
(***************************************************************************)
(* Theorems about FleetTrigger for every set of requests and keys, every    *)
(* window, any number of restarts and any clock, with their proofs.         *)
(***************************************************************************)
EXTENDS FleetTrigger, TLAPS

-----------------------------------------------------------------------------
(* The inductive invariant, part by part.                                   *)

\* The verbs an action sends.
VerbFits(r, v) ==
    \/ v = FirstVerb(Action(r))
    \/ /\ v = "work" /\ Action(r) = "start_development"
       /\ Mock \/ ran[r]["arm"] = "ok"

RanNothing(r) == \A v \in Verbs : ran[r][v] = "never"

\* A request that nobody received yet, or that the gate stopped, ran nothing.
UntouchedInv ==
    \A r \in Requests :
        /\ pc[r] \in {"idle", "refusing", "ready"} => RanNothing(r)
        /\ /\ pc[r] = "done"
           /\ answer[r].deduped \/ answer[r].status = "confirmation_required"
           => RanNothing(r)

\* The gate lets through, and stops, what it should.
GateInv ==
    \A r \in Requests :
        pc[r] \in {"ready", "running", "logging"} \/ ~RanNothing(r) => Permitted(r)

\* A handler at an invocation is at a verb of its action, and knows what
\* became of it.
LocalInv ==
    \A r \in Requests :
        /\ pc[r] \in {"running", "logging"} =>
              local[r].verb \in Verbs /\ VerbFits(r, local[r].verb)
        /\ pc[r] = "running" => ran[r][local[r].verb] = "started"
        /\ pc[r] = "logging" =>
              /\ local[r].out \in BridgeStatus
              /\ Ok(local[r].out) => Mock \/ ran[r][local[r].verb] = "ok"
        /\ Mock => RanNothing(r)

\* start_development sends no work before its arm ended well.
ArmInv ==
    \A r \in Requests :
        Action(r) = "start_development" =>
            /\ ran[r]["work"] # "never" => ran[r]["arm"] = "ok"
            /\ pc[r] \in {"running", "logging"} /\ local[r].verb = "arm" =>
                  ran[r]["work"] = "never"

\* The clock and the incarnation only grow past what requests recorded.
TimeInv ==
    \A r \in Requests :
        /\ started[r] <= now
        /\ finished[r] <= now
        /\ era[r] <= epoch
        /\ pc[r] \in InFlight => era[r] = epoch
        /\ pc[r] = "lost" => era[r] < epoch

\* Every answered request holds a result, its own or another's.
AnswerInv ==
    \A r \in Requests :
        pc[r] = "done" =>
            /\ answer[r] \in Result
            /\ ~answer[r].deduped => answer[r].by = r
            /\ started[r] <= finished[r]
            /\ ~answer[r].deduped /\ Ok(answer[r].status) =>
                  Mock \/ ran[r][FirstVerb(Action(r))] = "ok"
            /\ ~answer[r].deduped /\ answer[r].status = "guardian_required" =>
                  Action(r) = "message"

\* A cache entry is the answer its maker was given, and expires a window
\* after it was given.
CacheInv ==
    \A k \in Keys :
        cache[k] # None =>
            LET q == cache[k].result.by IN
            /\ Executor(q)
            /\ answer[q] = cache[k].result
            /\ Key(q) = k
            /\ era[q] = epoch
            /\ cache[k].exp = finished[q] + Window
            /\ answer[q].status \notin {"confirmation_required", "error"}

\* No replay is a refusal of a structured action.
ReplayStatusInv ==
    \A r \in Requests :
        pc[r] = "done" /\ answer[r].deduped => answer[r].status # "confirmation_required"

\* What was stored is found until its window closes.
CoverInv ==
    \A q \in Requests :
        /\ Kept(q) /\ Key(q) # NoKey /\ era[q] = epoch
        /\ now < finished[q] + Window
        => /\ cache[Key(q)] # None
           /\ cache[Key(q)].exp >= finished[q] + Window
\* r is not idle, and its own execution is its answer or will be.
Owns(r) ==
    /\ pc[r] # "idle"
    /\ pc[r] = "done" => Kept(r)

\* Without overlapping clients, owners of one key are a window apart.
SerialInv ==
    ~Overlap =>
        \A q, r \in Requests :
            q # r /\ SameKey(q, r) /\ era[q] = era[r] /\ Owns(q) /\ Owns(r)
            => Apart(q, r) \/ Apart(r, q)

IInv ==
    /\ TypeOK
    /\ UntouchedInv
    /\ GateInv
    /\ LocalInv
    /\ TimeInv
    /\ AnswerInv
    /\ CacheInv
    /\ CoverInv
    /\ SerialInv
    /\ ArmInv
    /\ ReplayIsFaithful
    /\ ReplayStatusInv

-----------------------------------------------------------------------------
(* What the operators of the model return.                                  *)

LEMMA FreshEntry ==
    ASSUME now \in Nat, NEW r \in Requests, NEW s \in Status
    PROVE  [exp |-> now + Window, result |-> Fresh0(r, s)] \in Entry
BY FleetAssumption DEF Fresh0, Result, Entry

LEMMA StoreType ==
    ASSUME TypeOK, NEW r \in Requests, NEW s \in Status
    PROVE  Store(Key(r), Fresh0(r, s)) \in [Keys -> Entry \cup {None}]
<1>1. Fresh0(r, s) \in Result
  BY DEF Fresh0, Result
<1>2. now + Window \in Nat
  BY FleetAssumption DEF TypeOK
<1>3. Purged \in [Keys -> Entry \cup {None}]
  BY DEF Purged, TypeOK
<1> QED
  BY <1>1, <1>2, <1>3 DEF Store, Entry, TypeOK

LEMMA CallType ==
    ASSUME TypeOK, NEW r \in Requests
    PROVE  /\ Action(r) \in Actions
           /\ Key(r) \in Keys \cup {NoKey}
           /\ FirstVerb(Action(r)) \in Verbs
<1>1. call[r] \in Call
  BY DEF TypeOK
<1>2. Action(r) \in Actions /\ Key(r) \in Keys \cup {NoKey}
  BY <1>1 DEF Call, Action, Key
<1> QED
  BY <1>2 DEF FirstVerb, Verbs

LEMMA FinalStatusType ==
    ASSUME NEW r \in Requests, LocalInv, pc[r] = "logging"
    PROVE  FinalStatus(r) \in BridgeStatus
BY DEF LocalInv, FinalStatus, BridgeStatus

LEMMA FinishType ==
    ASSUME TypeOK, NEW r \in Requests, NEW s \in Status, Finish(r, s),
           UNCHANGED <<call, now, epoch, queued, ran, history>>
    PROVE  TypeOK'
<1>1. Fresh0(r, s) \in Result
  BY DEF Fresh0, Result
<1>2. NoLocal \in Local
  BY DEF NoLocal, Local
<1>3. cache' \in [Keys -> Entry \cup {None}]
  BY StoreType DEF Finish
<1> QED
  BY <1>1, <1>2, <1>3 DEF Finish, Respond, TypeOK, history

LEMMA RespondType ==
    ASSUME TypeOK, NEW r \in Requests, NEW res \in Result, Respond(r, res),
           cache' \in [Keys -> Entry \cup {None}], started' \in [Requests -> Nat],
           era' \in [Requests -> Nat], UNCHANGED <<call, now, epoch, queued, ran>>
    PROVE  TypeOK'
<1>2. NoLocal \in Local
  BY DEF NoLocal, Local
<1> QED
  BY <1>2 DEF Respond, TypeOK

LEMMA InvokeType ==
    ASSUME TypeOK, NEW r \in Requests, NEW v \in Verbs, NEW item \in BOOLEAN,
           Invoke(r, v, item), UNCHANGED <<call, now, epoch, queued, cache, history>>
    PROVE  TypeOK'
<1>1. CASE NoBridge(r, v, item)
  BY <1>1 DEF NoBridge, TypeOK, history, Local, BridgeStatus, InFlight
<1>2. CASE Spawn(r, v, item)
  BY <1>2 DEF Spawn, TypeOK, history, Local, InFlight
<1>3. CASE SpawnRaises(r)
  <2>1. Fresh0(r, "error") \in Result
    BY DEF Fresh0, Result, Status
  <2> QED
    BY <1>3, <2>1, RespondType DEF SpawnRaises, history, TypeOK
<1> QED
  BY <1>1, <1>2, <1>3 DEF Invoke

-----------------------------------------------------------------------------
(* Type correctness.  What a handler returns depends on the status of its   *)
(* last invocation, so LocalInv is carried along.                           *)

LEMMA TypeInit == Init => TypeOK /\ LocalInv
<1> SUFFICES ASSUME Init PROVE TypeOK /\ LocalInv
  OBVIOUS
<1>1. TypeOK
  BY FleetAssumption DEF Init, TypeOK, Local, NoLocal, Verbs
<1>2. LocalInv
  BY DEF Init, LocalInv, RanNothing
<1> QED
  BY <1>1, <1>2

LEMMA TypeNext ==
    ASSUME TypeOK, LocalInv, [Next]_vars
    PROVE  TypeOK'
<1>1. ASSUME NEW r \in Requests, Receive(r)
      PROVE  TypeOK'
  <2>1. AfterLookup(Key(r)) \in [Keys -> Entry \cup {None}]
    BY DEF AfterLookup, Purged, TypeOK
  <2>2. CASE Fresh(Key(r))
    <3>1. cache[Key(r)] \in Entry
      BY <2>2, CallType DEF Fresh, TypeOK
    <3>2. [cache[Key(r)].result EXCEPT !.deduped = TRUE] \in Result
      BY <3>1 DEF Entry, Result
    <3> QED
      BY <1>1, <2>1, <2>2, <3>2, RespondType DEF Receive, TypeOK
  <2>3. CASE ~Fresh(Key(r))
    BY <1>1, <2>1, <2>3 DEF Receive, TypeOK, InFlight
  <2> QED
    BY <2>2, <2>3
<1>2. ASSUME NEW r \in Requests, Refuse(r)
      PROVE  TypeOK'
  <2>1. CASE Finish(r, "guardian_required")
    BY <1>2, <2>1, FinishType DEF Refuse, Status
  <2>2. CASE Respond(r, Fresh0(r, "confirmation_required")) /\ UNCHANGED cache
    <3>1. Fresh0(r, "confirmation_required") \in Result
      BY DEF Fresh0, Result, Status
    <3> QED
      BY <1>2, <2>2, <3>1, RespondType DEF Refuse, TypeOK, history
  <2> QED
    BY <1>2, <2>1, <2>2 DEF Refuse
<1>3. ASSUME NEW r \in Requests, Begin(r)
      PROVE  TypeOK'
  <2>1. CASE Finish(r, "empty_backlog") /\ UNCHANGED ran
    BY <1>3, <2>1, FinishType DEF Begin, Status
  <2>2. CASE /\ Invoke(r, FirstVerb(Action(r)), Action(r) = "run_next_backlog")
             /\ UNCHANGED cache
    BY <1>3, <2>2, CallType, InvokeType DEF Begin
  <2> QED
    BY <1>3, <2>1, <2>2 DEF Begin
<1>4. ASSUME NEW r \in Requests, Exit(r)
      PROVE  TypeOK'
  <2>1. local[r].verb \in Verbs /\ pc[r] = "running"
    BY <1>4 DEF LocalInv, Exit
  <2>2. PICK ok \in BOOLEAN :
          /\ local' = [local EXCEPT ![r].out = IF ok THEN "dispatched" ELSE "failed"]
          /\ ran' = [ran EXCEPT ![r][local[r].verb] = IF ok THEN "ok" ELSE "failed"]
    BY <1>4 DEF Exit
  <2>3. local' \in [Requests -> Local]
    <3>1. \A q \in Requests : local[q] \in Local
      BY DEF TypeOK
    <3>2. \A s \in BridgeStatus : [local[r] EXCEPT !.out = s] \in Local
      BY <3>1 DEF Local
    <3>3. local' = [local EXCEPT ![r] =
                     [local[r] EXCEPT !.out = IF ok THEN "dispatched" ELSE "failed"]]
      BY <2>2 DEF TypeOK
    <3> QED
      BY <3>1, <3>2, <3>3 DEF TypeOK, BridgeStatus
  <2>4. ran' \in [Requests -> [Verbs -> {"never", "started", "ok", "failed"}]]
    BY <2>1, <2>2 DEF TypeOK
  <2> QED
    BY <1>4, <2>3, <2>4 DEF Exit, TypeOK, InFlight, history
<1>5. ASSUME NEW r \in Requests, Return(r)
      PROVE  TypeOK'
  <2>1. CASE Invoke(r, "work", queued) /\ UNCHANGED cache
    BY <1>5, <2>1, InvokeType DEF Return, Verbs, TypeOK
  <2>2. CASE Finish(r, FinalStatus(r)) /\ UNCHANGED ran
    BY <1>5, <2>2, FinalStatusType, FinishType DEF Return, Status
  <2> QED
    BY <1>5, <2>1, <2>2 DEF Return
<1>6. CASE BacklogChanges
  BY <1>6 DEF BacklogChanges, TypeOK, history
<1>7. CASE Tick
  BY <1>7 DEF Tick, TypeOK, history
<1>8. CASE Restart
  <2>1. NoLocal \in Local
    BY DEF NoLocal, Local
  <2> QED
    BY <1>8, <2>1 DEF Restart, TypeOK, history
<1>9. CASE UNCHANGED vars
  BY <1>9 DEF vars, TypeOK
<1> QED
  BY <1>1, <1>2, <1>3, <1>4, <1>5, <1>6, <1>7, <1>8, <1>9 DEF Next, Handler
LEMMA LocalNext ==
    ASSUME TypeOK, LocalInv, [Next]_vars
    PROVE  LocalInv'
<1> DEFINE P(q) ==
      /\ pc[q] \in {"running", "logging"} =>
            local[q].verb \in Verbs /\ VerbFits(q, local[q].verb)
      /\ pc[q] = "running" => ran[q][local[q].verb] = "started"
      /\ pc[q] = "logging" =>
            /\ local[q].out \in BridgeStatus
            /\ Ok(local[q].out) => Mock \/ ran[q][local[q].verb] = "ok"
      /\ Mock => RanNothing(q)
<1>1. \A q \in Requests : P(q)
  BY DEF LocalInv
<1> SUFFICES ASSUME NEW q \in Requests PROVE P(q)'
  BY DEF LocalInv
<1>2. ASSUME UNCHANGED <<call, ran>>, pc'[q] \notin {"running", "logging"}
      PROVE  P(q)'
  BY <1>1, <1>2 DEF RanNothing
<1>3. ASSUME UNCHANGED call, pc'[q] = pc[q], local'[q] = local[q], ran'[q] = ran[q]
      PROVE  P(q)'
  BY <1>1, <1>3 DEF RanNothing, VerbFits, Action
<1>4. ASSUME NEW r \in Requests, NEW v \in Verbs, NEW item \in BOOLEAN,
             Invoke(r, v, item), UNCHANGED call, VerbFits(r, v),
             v = FirstVerb(Action(r)) \/ v # "arm"
      PROVE  P(q)'
  <2>1. CASE q # r
    BY <1>4, <1>3, <2>1 DEF Invoke, NoBridge, Spawn, SpawnRaises, Respond, TypeOK
  <2>2. CASE q = r /\ NoBridge(r, v, item)
    <3>1. pc'[r] = "logging" /\ ran' = ran
      BY <2>2 DEF NoBridge, TypeOK
    <3>2. /\ local'[r].verb = v
          /\ local'[r].out = IF Mock THEN "mock" ELSE "bridge_script_missing"
      BY <2>2 DEF NoBridge, TypeOK
    <3>3. VerbFits(r, v)'
      BY <1>4, <3>1 DEF VerbFits, Action
    <3> QED
      BY <1>1, <2>2, <3>1, <3>2, <3>3 DEF BridgeStatus, Ok, RanNothing
  <2>3. CASE q = r /\ Spawn(r, v, item)
    <3>1. pc'[r] = "running" /\ ran'[r] = [ran[r] EXCEPT ![v] = "started"] /\ ~Mock
      BY <2>3 DEF Spawn, TypeOK
    <3>2. local'[r].verb = v
      BY <2>3 DEF Spawn, TypeOK
    <3>3. VerbFits(r, v)'
      BY <1>4, <3>1 DEF VerbFits, Action, TypeOK, Verbs
    <3>4. ran'[r][v] = "started"
      BY <3>1 DEF TypeOK
    <3> QED
      BY <2>3, <3>1, <3>2, <3>3, <3>4
  <2>4. CASE q = r /\ SpawnRaises(r)
    BY <1>2, <1>4, <2>4 DEF SpawnRaises, Respond, TypeOK
  <2> QED
    BY <1>4, <2>1, <2>2, <2>3, <2>4 DEF Invoke
<1>5. ASSUME NEW r \in Requests, NEW res, Respond(r, res), UNCHANGED <<call, ran>>
      PROVE  P(q)'
  BY <1>2, <1>3, <1>5 DEF Respond, TypeOK
<1>6. ASSUME NEW r \in Requests, Receive(r)
      PROVE  P(q)'
  <2>1. CASE Fresh(Key(r))
    BY <1>5, <1>6, <2>1 DEF Receive
  <2>2. CASE ~Fresh(Key(r))
    BY <1>2, <1>3, <1>6, <2>2 DEF Receive, TypeOK
  <2> QED
    BY <2>1, <2>2
<1>7. ASSUME NEW r \in Requests, Refuse(r)
      PROVE  P(q)'
  BY <1>5, <1>7 DEF Refuse, Finish
<1>8. ASSUME NEW r \in Requests, Begin(r)
      PROVE  P(q)'
  <2>1. CASE Finish(r, "empty_backlog") /\ UNCHANGED ran
    BY <1>5, <1>8, <2>1 DEF Begin, Finish
  <2>2. CASE Invoke(r, FirstVerb(Action(r)), Action(r) = "run_next_backlog")
    BY <1>4, <1>8, <2>2, CallType DEF Begin, VerbFits
  <2> QED
    BY <1>8, <2>1, <2>2 DEF Begin
<1>9. ASSUME NEW r \in Requests, Exit(r)
      PROVE  P(q)'
  <2>1. CASE q # r
    BY <1>3, <1>9, <2>1 DEF Exit, TypeOK
  <2>2. CASE q = r
    <3>1. PICK ok \in BOOLEAN :
            /\ local' = [local EXCEPT ![r].out = IF ok THEN "dispatched" ELSE "failed"]
            /\ ran' = [ran EXCEPT ![r][local[r].verb] = IF ok THEN "ok" ELSE "failed"]
      BY <1>9 DEF Exit
    <3>2. local[r].verb \in Verbs /\ VerbFits(r, local[r].verb) /\ pc[r] = "running"
      BY <1>1, <1>9 DEF Exit
    <3>3. /\ local'[r].verb = local[r].verb
          /\ local'[r].out = IF ok THEN "dispatched" ELSE "failed"
      BY <3>1 DEF TypeOK, Local
    <3>4. ran'[r] = [ran[r] EXCEPT ![local[r].verb] = IF ok THEN "ok" ELSE "failed"]
      BY <3>1 DEF TypeOK
    <3>5. ran'[r][local[r].verb] = IF ok THEN "ok" ELSE "failed"
      BY <3>2, <3>4 DEF TypeOK
    <3>6. VerbFits(r, local[r].verb)'
      BY <1>9, <3>2, <3>3, <3>4 DEF VerbFits, Exit, Action, TypeOK, Verbs, FirstVerb
    <3>7. ~Mock
      BY <1>1, <3>2 DEF RanNothing
    <3>8. pc'[r] = "logging"
      BY <1>9 DEF Exit, TypeOK
    <3> QED
      BY <2>2, <3>2, <3>3, <3>5, <3>6, <3>7, <3>8 DEF BridgeStatus, Ok
  <2> QED
    BY <2>1, <2>2
<1>10. ASSUME NEW r \in Requests, Return(r)
       PROVE  P(q)'
  <2>1. CASE WorkIsNext(r) /\ Invoke(r, "work", queued)
    <3>1. VerbFits(r, "work")
      BY <1>1, <1>10, <2>1 DEF Return, WorkIsNext, VerbFits
    <3> QED
      BY <1>4, <1>10, <2>1, <3>1 DEF Return, TypeOK, Verbs
  <2>2. CASE Finish(r, FinalStatus(r)) /\ UNCHANGED ran
    BY <1>5, <1>10, <2>2 DEF Return, Finish
  <2> QED
    BY <1>10, <2>1, <2>2 DEF Return
<1>11. CASE BacklogChanges
  BY <1>3, <1>11 DEF BacklogChanges
<1>12. CASE Tick
  BY <1>3, <1>12 DEF Tick
<1>13. CASE Restart
  BY <1>2, <1>13 DEF Restart, TypeOK, InFlight
<1>14. CASE UNCHANGED vars
  BY <1>3, <1>14 DEF vars
<1> QED
  BY <1>6, <1>7, <1>8, <1>9, <1>10, <1>11, <1>12, <1>13, <1>14 DEF Next, Handler

\* Every variable always holds a value of its kind: a cached or returned
\* result is one of the statuses the code makes.
THEOREM TypeCorrect == Spec => []TypeOK
<1>1. Init => TypeOK /\ LocalInv
  BY TypeInit
<1>2. TypeOK /\ LocalInv /\ [Next]_vars => (TypeOK /\ LocalInv)'
  BY TypeNext, LocalNext
<1> QED
  BY <1>1, <1>2, PTL DEF Spec

-----------------------------------------------------------------------------
(* What one handler step does, request by request.                          *)

\* A handler step of r touches no other request.
LEMMA HandlerFrame ==
    ASSUME TypeOK, NEW r \in Requests, Handler(r), NEW q \in Requests, q # r
    PROVE  /\ pc'[q] = pc[q] /\ local'[q] = local[q] /\ ran'[q] = ran[q]
           /\ answer'[q] = answer[q] /\ started'[q] = started[q]
           /\ finished'[q] = finished[q] /\ era'[q] = era[q]
<1>1. ASSUME NEW res, Respond(r, res)
      PROVE  /\ pc'[q] = pc[q] /\ local'[q] = local[q]
             /\ answer'[q] = answer[q] /\ finished'[q] = finished[q]
  BY <1>1 DEF Respond, TypeOK
<1>2. ASSUME NEW v \in Verbs, NEW item, Invoke(r, v, item)
      PROVE  /\ pc'[q] = pc[q] /\ local'[q] = local[q] /\ ran'[q] = ran[q]
             /\ answer'[q] = answer[q] /\ finished'[q] = finished[q]
  BY <1>1, <1>2 DEF Invoke, NoBridge, Spawn, SpawnRaises, TypeOK
<1>3. CASE Receive(r)
  BY <1>1, <1>3 DEF Receive, TypeOK
<1>4. CASE Refuse(r)
  BY <1>1, <1>4 DEF Refuse, Finish, TypeOK, history
<1>5. CASE Begin(r)
  BY <1>1, <1>2, <1>5, CallType DEF Begin, Finish, TypeOK, history
<1>6. CASE Exit(r)
  BY <1>6 DEF Exit, TypeOK, history
<1>7. CASE Return(r)
  BY <1>1, <1>2, <1>7 DEF Return, Finish, TypeOK, history, Verbs
<1> QED
  BY <1>3, <1>4, <1>5, <1>6, <1>7 DEF Handler

\* What every handler step leaves alone.
LEMMA HandlerKeeps ==
    ASSUME NEW r \in Requests, Handler(r)
    PROVE  UNCHANGED <<call, now, epoch, queued>>
BY DEF Handler, Receive, Refuse, Begin, Exit, Return

\* r is answered from the cache.
Hit(r) ==
    /\ pc[r] = "idle" /\ pc'[r] = "done"
    /\ Fresh(Key(r))
    /\ answer'[r] = [cache[Key(r)].result EXCEPT !.deduped = TRUE]
    /\ started'[r] = now /\ finished'[r] = now /\ era'[r] = epoch
    /\ ran'[r] = ran[r]
    /\ cache' = AfterLookup(Key(r))

\* r is let in.
Admit(r) ==
    /\ pc[r] = "idle"
    /\ pc'[r] = IF Permitted(r) THEN "ready" ELSE "refusing"
    /\ ~Fresh(Key(r))
    /\ Serial(r)
    /\ started'[r] = now /\ finished'[r] = finished[r] /\ era'[r] = epoch
    /\ ran'[r] = ran[r] /\ answer'[r] = answer[r]
    /\ cache' = AfterLookup(Key(r))

\* r's own execution ends with status s.
End(r, s) ==
    /\ pc[r] \in InFlight \ {"running"} /\ pc'[r] = "done"
    /\ s = "confirmation_required" => pc[r] = "refusing"
    /\ s = "guardian_required" => Action(r) = "message"
    /\ Ok(s) => pc[r] = "logging" /\ s = FinalStatus(r) /\ ~WorkIsNext(r)
    /\ answer'[r] = Fresh0(r, s)
    /\ started'[r] = started[r] /\ finished'[r] = now /\ era'[r] = era[r]
    /\ ran'[r] = ran[r]
    /\ cache' = IF s \in {"confirmation_required", "error"} THEN cache
                ELSE Store(Key(r), Fresh0(r, s))

\* r goes on with an invocation.
Go(r) ==
    /\ pc[r] \in {"ready", "running", "logging"}
    /\ pc'[r] \in {"running", "logging"}
    /\ started'[r] = started[r] /\ finished'[r] = finished[r] /\ era'[r] = era[r]
    /\ answer'[r] = answer[r]
    /\ UNCHANGED cache

LEMMA OwnStep ==
    ASSUME TypeOK, LocalInv, NEW r \in Requests, Handler(r)
    PROVE  Hit(r) \/ Admit(r) \/ Go(r) \/ \E s \in Status : End(r, s)
<1>1. ASSUME NEW res, Respond(r, res)
      PROVE  pc'[r] = "done" /\ answer'[r] = res /\ finished'[r] = now
  BY <1>1 DEF Respond, TypeOK
<1>2. ASSUME NEW s \in Status, Finish(r, s), UNCHANGED <<ran, history>>,
             pc[r] \in InFlight \ {"running"}, s \notin {"confirmation_required", "error"},
             s = "guardian_required" => Action(r) = "message",
             Ok(s) => pc[r] = "logging" /\ s = FinalStatus(r) /\ ~WorkIsNext(r)
      PROVE  End(r, s)
  BY <1>1, <1>2 DEF Finish, End, history
<1>3. ASSUME NEW v \in Verbs, NEW item, Invoke(r, v, item), UNCHANGED <<cache, history>>,
             pc[r] \in {"ready", "logging"}
      PROVE  Go(r) \/ End(r, "error")
  <2>1. CASE NoBridge(r, v, item)
    BY <1>3, <2>1 DEF NoBridge, Go, history, TypeOK
  <2>2. CASE Spawn(r, v, item)
    BY <1>3, <2>2 DEF Spawn, Go, history, TypeOK
  <2>3. CASE SpawnRaises(r)
    BY <1>1, <1>3, <2>3 DEF SpawnRaises, End, history, Ok, InFlight
  <2> QED
    BY <1>3, <2>1, <2>2, <2>3 DEF Invoke
<1>4. CASE Receive(r)
  <2>1. started'[r] = now /\ era'[r] = epoch /\ ran' = ran
    BY <1>4 DEF Receive, TypeOK
  <2>2. CASE Fresh(Key(r))
    BY <1>1, <1>4, <2>1, <2>2 DEF Receive, Hit
  <2>3. CASE ~Fresh(Key(r))
    BY <1>4, <2>1, <2>3 DEF Receive, Admit, TypeOK
  <2> QED
    BY <2>2, <2>3
<1>5. CASE Refuse(r)
  <2>1. CASE Action(r) = "message" /\ Finish(r, "guardian_required")
    BY <1>2, <1>5, <2>1 DEF Refuse, Status, Ok, InFlight
  <2>2. CASE Respond(r, Fresh0(r, "confirmation_required")) /\ UNCHANGED cache
    BY <1>1, <1>5, <2>2 DEF Refuse, End, Status, Ok, InFlight, history
  <2> QED
    BY <1>5, <2>1, <2>2 DEF Refuse
<1>6. CASE Begin(r)
  <2>1. CASE Finish(r, "empty_backlog") /\ UNCHANGED ran
    BY <1>2, <1>6, <2>1 DEF Begin, Status, Ok, InFlight
  <2>2. CASE Invoke(r, FirstVerb(Action(r)), Action(r) = "run_next_backlog") /\ UNCHANGED cache
    BY <1>3, <1>6, <2>2, CallType DEF Begin, Status
  <2> QED
    BY <1>6, <2>1, <2>2 DEF Begin
<1>7. CASE Exit(r)
  BY <1>7 DEF Exit, Go, history, TypeOK
<1>8. CASE Return(r)
  <2>1. CASE Invoke(r, "work", queued) /\ UNCHANGED cache
    BY <1>3, <1>8, <2>1 DEF Return, Verbs, Status
  <2>2. CASE ~WorkIsNext(r) /\ Finish(r, FinalStatus(r)) /\ UNCHANGED ran
    <3>1. FinalStatus(r) \in BridgeStatus
      BY <1>8, FinalStatusType DEF Return
    <3> QED
      BY <1>2, <1>8, <2>2, <3>1 DEF Return, BridgeStatus, Status, InFlight
  <2> QED
    BY <1>8, <2>1, <2>2 DEF Return
<1> QED
  BY <1>4, <1>5, <1>6, <1>7, <1>8 DEF Handler

\* A step that lets b in is no other request's.
LEMMA OneMoves ==
    ASSUME TypeOK, NEW a \in Requests, NEW b \in Requests, a # b, Admit(b)
    PROVE  ~Handler(a)
BY HandlerFrame DEF Admit

\* The steps of the environment.
LEMMA OtherStep ==
    ASSUME [Next]_vars, ~ \E r \in Requests : Handler(r)
    PROVE  BacklogChanges \/ Tick \/ Restart \/ UNCHANGED vars
BY DEF Next
-----------------------------------------------------------------------------
(* Untouched requests and the gate.                                         *)

LEMMA UntouchedNext ==
    ASSUME TypeOK, LocalInv, UntouchedInv, [Next]_vars
    PROVE  UntouchedInv'
<1> DEFINE P(q) ==
      /\ pc[q] \in {"idle", "refusing", "ready"} => RanNothing(q)
      /\ /\ pc[q] = "done"
         /\ answer[q].deduped \/ answer[q].status = "confirmation_required"
         => RanNothing(q)
<1> SUFFICES ASSUME NEW q \in Requests PROVE P(q)'
  BY DEF UntouchedInv
<1>1. P(q)
  BY DEF UntouchedInv
<1>2. ASSUME pc'[q] = pc[q], ran'[q] = ran[q], answer'[q] = answer[q] PROVE P(q)'
  BY <1>1, <1>2 DEF RanNothing
<1>3. ASSUME NEW r \in Requests, Handler(r) PROVE P(q)'
  <2>1. CASE q # r
    BY <1>2, <1>3, <2>1, HandlerFrame
  <2>2. CASE q = r /\ (Hit(r) \/ Admit(r))
    BY <1>1, <2>2 DEF Hit, Admit, RanNothing
  <2>3. CASE q = r /\ Go(r)
    BY <2>3 DEF Go
  <2>4. ASSUME q = r, NEW s \in Status, End(r, s) PROVE P(q)'
    BY <1>1, <2>4 DEF End, RanNothing, Fresh0
  <2> QED
    BY <1>3, <2>1, <2>2, <2>3, <2>4, OwnStep
<1>4. CASE BacklogChanges \/ Tick \/ UNCHANGED vars
  BY <1>2, <1>4 DEF BacklogChanges, Tick, vars
<1>5. CASE Restart
  BY <1>1, <1>5 DEF Restart, RanNothing, TypeOK, InFlight
<1> QED
  BY <1>3, <1>4, <1>5, OtherStep

LEMMA GateNext ==
    ASSUME TypeOK, LocalInv, UntouchedInv, GateInv, [Next]_vars
    PROVE  GateInv'
<1> DEFINE P(q) ==
      pc[q] \in {"ready", "running", "logging"} \/ ~RanNothing(q) => Permitted(q)
<1> SUFFICES ASSUME NEW q \in Requests PROVE P(q)'
  BY DEF GateInv
<1>1. P(q)
  BY DEF GateInv
<1>2. ASSUME pc'[q] = pc[q] \/ pc'[q] = "lost", ran'[q] = ran[q], UNCHANGED call PROVE P(q)'
  BY <1>1, <1>2 DEF RanNothing, Permitted
<1>3. ASSUME NEW r \in Requests, Handler(r) PROVE P(q)'
  <2>0. call' = call
    BY <1>3, HandlerKeeps
  <2>1. CASE q # r
    BY <1>2, <1>3, <2>0, <2>1, HandlerFrame
  <2>2. CASE q = r /\ (Hit(r) \/ Admit(r))
    BY <1>1, <2>0, <2>2 DEF Hit, Admit, RanNothing, Permitted, UntouchedInv
  <2>3. CASE q = r /\ Go(r)
    BY <1>1, <2>0, <2>3 DEF Go, Permitted
  <2>4. ASSUME q = r, NEW s \in Status, End(r, s) PROVE P(q)'
    BY <1>1, <2>0, <2>4 DEF End, RanNothing, Permitted
  <2> QED
    BY <1>3, <2>1, <2>2, <2>3, <2>4, OwnStep
<1>4. CASE BacklogChanges \/ Tick \/ Restart \/ UNCHANGED vars
  BY <1>2, <1>4 DEF BacklogChanges, Tick, vars, Restart, TypeOK
<1> QED
  BY <1>3, <1>4, OtherStep

\* With confirmation required, no request that nobody confirmed ever reaches
\* the bridge, whatever the others do and whatever the cache holds.
THEOREM GateCorrect == Spec => []GateHolds
<1> DEFINE I == TypeOK /\ LocalInv /\ UntouchedInv /\ GateInv
<1>1. Init => I
  BY TypeInit DEF Init, UntouchedInv, GateInv, RanNothing
<1>2. I /\ [Next]_vars => I'
  BY TypeNext, LocalNext, UntouchedNext, GateNext
<1>3. I => GateHolds
  BY DEF GateInv, GateHolds, Executed, RanNothing, Permitted
<1> QED
  BY <1>1, <1>2, <1>3, PTL DEF Spec

-----------------------------------------------------------------------------
(* start_development.                                                       *)

LEMMA ArmNextLive ==
    ASSUME TypeOK, LocalInv, UntouchedInv, ArmInv, ~Mock, [Next]_vars
    PROVE  ArmInv'
<1> DEFINE P(q) ==
      Action(q) = "start_development" =>
          /\ ran[q]["work"] # "never" => ran[q]["arm"] = "ok"
          /\ pc[q] \in {"running", "logging"} /\ local[q].verb = "arm" =>
                ran[q]["work"] = "never"
<1> SUFFICES ASSUME NEW q \in Requests PROVE P(q)'
  BY DEF ArmInv
<1>1. P(q)
  BY DEF ArmInv
<1>2. ASSUME UNCHANGED call, ran'[q] = ran[q],
             pc'[q] \in {"running", "logging"} => pc'[q] = pc[q] /\ local'[q] = local[q]
      PROVE  P(q)'
  BY <1>1, <1>2 DEF Action
<1>3. ASSUME NEW r \in Requests, NEW res, Respond(r, res), UNCHANGED <<call, ran>>
      PROVE  P(q)'
  BY <1>2, <1>3 DEF Respond, TypeOK
<1>4. ASSUME NEW r \in Requests, NEW v \in Verbs, NEW item \in BOOLEAN,
             Invoke(r, v, item), UNCHANGED call,
             Action(r) = "start_development" =>
                \/ v = "arm" /\ RanNothing(r)
                \/ v = "work" /\ ran[r]["arm"] = "ok"
      PROVE  P(q)'
  <2>1. CASE q # r
    BY <1>2, <1>4, <2>1 DEF Invoke, NoBridge, Spawn, SpawnRaises, Respond, TypeOK
  <2>2. CASE q = r /\ NoBridge(r, v, item)
    <3>1. local'[r].verb = v /\ ran' = ran
      BY <2>2 DEF NoBridge, TypeOK
    <3> QED
      BY <1>1, <1>4, <2>2, <3>1 DEF Action, RanNothing, Verbs
  <2>3. CASE q = r /\ Spawn(r, v, item)
    <3>1. local'[r].verb = v /\ ran'[r] = [ran[r] EXCEPT ![v] = "started"]
      BY <2>3 DEF Spawn, TypeOK
    <3> QED
      BY <1>1, <1>4, <2>3, <3>1 DEF Action, RanNothing, Verbs, TypeOK
  <2>4. CASE q = r /\ SpawnRaises(r)
    BY <1>2, <1>4, <2>4 DEF SpawnRaises, Respond, TypeOK
  <2> QED
    BY <1>4, <2>1, <2>2, <2>3, <2>4 DEF Invoke
<1>5. ASSUME NEW r \in Requests, Receive(r) PROVE P(q)'
  <2>1. CASE Fresh(Key(r))
    BY <1>3, <1>5, <2>1 DEF Receive
  <2>2. CASE ~Fresh(Key(r))
    BY <1>2, <1>5, <2>2 DEF Receive, TypeOK
  <2> QED
    BY <2>1, <2>2
<1>6. ASSUME NEW r \in Requests, Refuse(r) PROVE P(q)'
  BY <1>3, <1>6 DEF Refuse, Finish
<1>7. ASSUME NEW r \in Requests, Begin(r) PROVE P(q)'
  <2>1. CASE Finish(r, "empty_backlog") /\ UNCHANGED ran
    BY <1>3, <1>7, <2>1 DEF Begin, Finish
  <2>2. CASE Invoke(r, FirstVerb(Action(r)), Action(r) = "run_next_backlog")
    <3>1. RanNothing(r)
      BY <1>7 DEF Begin, UntouchedInv
    <3> QED
      <4>1. Action(r) = "start_development" => FirstVerb(Action(r)) = "arm"
        BY DEF FirstVerb
      <4>2. UNCHANGED call /\ FirstVerb(Action(r)) \in Verbs
        BY <1>7, CallType DEF Begin
      <4> QED
        <5> DEFINE v == FirstVerb(Action(r))
                   item == Action(r) = "run_next_backlog"
        <5>1. v \in Verbs /\ item \in BOOLEAN /\ Invoke(r, v, item)
          BY <2>2, <4>2
        <5>2. Action(r) = "start_development" => v = "arm" /\ RanNothing(r)
          BY <3>1, <4>1
        <5> HIDE DEF v, item
        <5> QED
          BY <1>4, <4>2, <5>1, <5>2
  <2> QED
    BY <1>7, <2>1, <2>2 DEF Begin
<1>8. ASSUME NEW r \in Requests, Exit(r) PROVE P(q)'
  <2>1. CASE q # r
    BY <1>2, <1>8, <2>1 DEF Exit, TypeOK
  <2>2. CASE q = r
    <3>1. PICK ok \in BOOLEAN :
            /\ local' = [local EXCEPT ![r].out = IF ok THEN "dispatched" ELSE "failed"]
            /\ ran' = [ran EXCEPT ![r][local[r].verb] = IF ok THEN "ok" ELSE "failed"]
      BY <1>8 DEF Exit
    <3>2. local[r].verb \in Verbs /\ VerbFits(r, local[r].verb) /\ pc[r] = "running"
      BY <1>8 DEF Exit, LocalInv
    <3>3. local'[r].verb = local[r].verb
      BY <3>1 DEF TypeOK, Local
    <3>4. ran'[r] = [ran[r] EXCEPT ![local[r].verb] = IF ok THEN "ok" ELSE "failed"]
      BY <3>1 DEF TypeOK
    <3>5. call' = call
      BY <1>8 DEF Exit
    <3>6. CASE local[r].verb = "arm"
      <4>1. Action(r) = "start_development" => ran'[r]["work"] = "never"
        BY <1>1, <2>2, <3>2, <3>4, <3>6 DEF TypeOK, Verbs
      <4> QED
        BY <2>2, <3>5, <4>1 DEF Action
    <3>7. CASE local[r].verb # "arm"
      <4>1. Action(r) = "start_development" => ran[r]["arm"] = "ok"
        BY <3>2, <3>7 DEF VerbFits, FirstVerb
      <4>2. ran'[r]["arm"] = ran[r]["arm"]
        BY <3>4, <3>7 DEF TypeOK, Verbs
      <4> QED
        BY <2>2, <3>3, <3>5, <3>7, <4>1, <4>2 DEF Action
    <3> QED
      BY <3>6, <3>7
  <2> QED
    BY <2>1, <2>2
<1>9. ASSUME NEW r \in Requests, Return(r) PROVE P(q)'
  <2>1. CASE WorkIsNext(r) /\ Invoke(r, "work", queued)
    <3>1. ran[r]["arm"] = "ok"
      BY <1>9, <2>1 DEF Return, WorkIsNext, LocalInv
    <3> QED
      BY <1>4, <1>9, <2>1, <3>1 DEF Return, Verbs, TypeOK
  <2>2. CASE Finish(r, FinalStatus(r)) /\ UNCHANGED ran
    BY <1>3, <1>9, <2>2 DEF Return, Finish
  <2> QED
    BY <1>9, <2>1, <2>2 DEF Return
<1>10. CASE BacklogChanges \/ Tick \/ UNCHANGED vars
  BY <1>2, <1>10 DEF BacklogChanges, Tick, vars
<1>11. CASE Restart
  BY <1>2, <1>11 DEF Restart, TypeOK, InFlight
<1> QED
  BY <1>5, <1>6, <1>7, <1>8, <1>9, <1>10, <1>11 DEF Next, Handler

LEMMA ArmNext ==
    ASSUME TypeOK, LocalInv, UntouchedInv, ArmInv, [Next]_vars
    PROVE  ArmInv'
<1>1. CASE Mock
  <2>1. LocalInv'
    BY LocalNext
  <2> QED
    BY <1>1, <2>1 DEF LocalInv, ArmInv, RanNothing, Verbs
<1> QED
  BY <1>1, ArmNextLive

\* Work is never sent to a fleet that the same request did not arm first.
THEOREM ArmBeforeWork == Spec => []WorkNeedsArm
<1> DEFINE I == TypeOK /\ LocalInv /\ UntouchedInv /\ ArmInv
<1>1. Init => I
  BY TypeInit DEF Init, UntouchedInv, ArmInv, RanNothing, Verbs
<1>2. I /\ [Next]_vars => I'
  BY TypeNext, LocalNext, UntouchedNext, ArmNext
<1>3. I => WorkNeedsArm
  BY DEF ArmInv, WorkNeedsArm
<1> QED
  BY <1>1, <1>2, <1>3, PTL DEF Spec

-----------------------------------------------------------------------------
(* Clocks, answers and the cache.                                           *)

\* Nothing about an answered request ever changes.
LEMMA DoneStays ==
    ASSUME TypeOK, LocalInv, [Next]_vars, NEW q \in Requests, pc[q] = "done"
    PROVE  /\ pc'[q] = pc[q] /\ ran'[q] = ran[q]
           /\ answer'[q] = answer[q] /\ started'[q] = started[q]
           /\ finished'[q] = finished[q] /\ era'[q] = era[q]
           /\ call' = call
<1>1. ASSUME NEW r \in Requests, Handler(r), q # r
      PROVE  /\ pc'[q] = pc[q] /\ ran'[q] = ran[q]
             /\ answer'[q] = answer[q] /\ started'[q] = started[q]
             /\ finished'[q] = finished[q] /\ era'[q] = era[q]
             /\ call' = call
  BY <1>1, HandlerFrame, HandlerKeeps
<1>2. ~Handler(q)
  BY DEF Handler, Receive, Refuse, Begin, Exit, Return
<1>3. CASE BacklogChanges \/ Tick \/ Restart \/ UNCHANGED vars
  BY <1>3 DEF BacklogChanges, Tick, Restart, vars, history, TypeOK, InFlight
<1> QED
  BY <1>1, <1>2, <1>3, OtherStep

LEMMA TimeOfDone == ASSUME TimeInv, NEW q \in Requests PROVE finished[q] <= now
BY DEF TimeInv

LEMMA TimeNext ==
    ASSUME TypeOK, LocalInv, TimeInv, [Next]_vars
    PROVE  TimeInv'
<1> DEFINE P(q) ==
      /\ started[q] <= now
      /\ finished[q] <= now
      /\ era[q] <= epoch
      /\ pc[q] \in InFlight => era[q] = epoch
      /\ pc[q] = "lost" => era[q] < epoch
<1> SUFFICES ASSUME NEW q \in Requests PROVE P(q)'
  BY DEF TimeInv
<1>1. P(q)
  BY DEF TimeInv
<1>2. now \in Nat /\ epoch \in Nat /\ started[q] \in Nat /\ finished[q] \in Nat /\ era[q] \in Nat
  BY DEF TypeOK
<1>3. ASSUME NEW r \in Requests, Handler(r) PROVE P(q)'
  <2>0. now' = now /\ epoch' = epoch
    BY <1>3, HandlerKeeps
  <2>1. CASE q # r
    BY <1>1, <1>3, <2>0, <2>1, HandlerFrame
  <2>2. CASE q = r /\ (Hit(r) \/ Admit(r))
    BY <1>1, <1>2, <2>0, <2>2 DEF Hit, Admit, InFlight
  <2>3. CASE q = r /\ Go(r)
    BY <1>1, <1>2, <2>0, <2>3 DEF Go, InFlight
  <2>4. ASSUME q = r, NEW s \in Status, End(r, s) PROVE P(q)'
    BY <1>1, <1>2, <2>0, <2>4 DEF End, InFlight
  <2> QED
    BY <1>3, <2>1, <2>2, <2>3, <2>4, OwnStep
<1>4. CASE BacklogChanges \/ UNCHANGED vars
  BY <1>1, <1>4 DEF BacklogChanges, vars, history
<1>5. CASE Tick
  BY <1>1, <1>2, <1>5 DEF Tick, history
<1>6. CASE Restart
  BY <1>1, <1>2, <1>6 DEF Restart, history, TypeOK, InFlight
<1> QED
  BY <1>3, <1>4, <1>5, <1>6, OtherStep

LEMMA AnswerNext ==
    ASSUME TypeOK, LocalInv, TimeInv, AnswerInv, CacheInv, [Next]_vars
    PROVE  AnswerInv'
<1> DEFINE P(q) ==
      pc[q] = "done" =>
          /\ answer[q] \in Result
          /\ ~answer[q].deduped => answer[q].by = q
          /\ started[q] <= finished[q]
          /\ ~answer[q].deduped /\ Ok(answer[q].status) =>
                Mock \/ ran[q][FirstVerb(Action(q))] = "ok"
          /\ ~answer[q].deduped /\ answer[q].status = "guardian_required" =>
                Action(q) = "message"
<1> SUFFICES ASSUME NEW q \in Requests, pc'[q] = "done" PROVE P(q)'
  BY DEF AnswerInv
<1>1. P(q)
  BY DEF AnswerInv
<1>2. CASE pc[q] = "done"
  BY <1>1, <1>2, DoneStays DEF Action
<1>3. ASSUME pc[q] # "done", Handler(q) PROVE P(q)'
  <2>0. call' = call /\ now \in Nat /\ started[q] \in Nat
    BY <1>3, HandlerKeeps DEF TypeOK
  <2>1. CASE Hit(q)
    <3>1. cache[Key(q)] \in Entry
      BY <2>1, CallType DEF Hit, Fresh, TypeOK
    <3>2. answer'[q] \in Result /\ answer'[q].deduped
      BY <2>1, <3>1 DEF Hit, Entry, Result
    <3> QED
      BY <2>0, <2>1, <3>2 DEF Hit
  <2>2. ASSUME NEW s \in Status, End(q, s) PROVE P(q)'
    <3>1. /\ answer'[q] \in Result /\ ~answer'[q].deduped /\ answer'[q].by = q
          /\ answer'[q].status = s
      BY <2>2 DEF End, Fresh0, Result
    <3>2. started'[q] <= finished'[q]
      BY <2>2, <2>0 DEF End, TimeInv
    <3>3. Ok(s) => Mock \/ ran[q][FirstVerb(Action(q))] = "ok"
      <4> SUFFICES ASSUME Ok(s), ~Mock PROVE ran[q][FirstVerb(Action(q))] = "ok"
        OBVIOUS
      <4>1. pc[q] = "logging" /\ s = FinalStatus(q) /\ VerbFits(q, local[q].verb)
        BY <2>2 DEF End, LocalInv
      <4>2. CASE local[q].verb = FirstVerb(Action(q))
        <5>1. Ok(local[q].out)
          BY <4>1, <4>2 DEF FinalStatus, FirstVerb
        <5> QED
          BY <4>1, <4>2, <5>1 DEF LocalInv
      <4>3. CASE Action(q) = "start_development" /\ ran[q]["arm"] = "ok"
        BY <4>3 DEF FirstVerb
      <4> QED
        BY <4>1, <4>2, <4>3 DEF VerbFits
    <3>4. s = "guardian_required" => Action(q) = "message"
      BY <2>2 DEF End
    <3>5. Action(q)' = Action(q) /\ ran'[q] = ran[q]
      BY <2>0, <2>2 DEF Action, End
    <3> QED
      BY <3>1, <3>2, <3>3, <3>4, <3>5
  <2> QED
    BY <1>3, <2>1, <2>2, OwnStep DEF Admit, Go
<1>4. CASE pc[q] # "done" /\ ~Handler(q)
  <2>1. ASSUME NEW r \in Requests, Handler(r) PROVE FALSE
    BY <1>4, <2>1, HandlerFrame
  <2> QED
    BY <1>4, <2>1, OtherStep DEF BacklogChanges, Tick, Restart, vars, TypeOK, InFlight
<1> QED
  BY <1>2, <1>3, <1>4

\* What one handler step does to the cache.
LEMMA CacheStep ==
    ASSUME TypeOK, LocalInv, NEW r \in Requests, Handler(r), NEW k \in Keys
    PROVE  \/ cache'[k] = cache[k]
           \/ cache'[k] = None /\ cache[k] # None /\ cache[k].exp <= now
           \/ \E s \in Status :
                 /\ End(r, s) /\ Key(r) = k
                 /\ s \notin {"confirmation_required", "error"}
                 /\ cache'[k] = [exp |-> now + Window, result |-> Fresh0(r, s)]
<1>1. \/ Purged[k] = cache[k]
      \/ Purged[k] = None /\ cache[k] # None /\ cache[k].exp <= now
  BY DEF Purged
<1>2. ASSUME cache' = AfterLookup(Key(r))
      PROVE  \/ cache'[k] = cache[k]
             \/ cache'[k] = None /\ cache[k] # None /\ cache[k].exp <= now
  BY <1>1, <1>2 DEF AfterLookup
<1>3. CASE Hit(r) \/ Admit(r)
  BY <1>2, <1>3 DEF Hit, Admit
<1>4. CASE Go(r)
  BY <1>4 DEF Go
<1>5. ASSUME NEW s \in Status, End(r, s),
             cache' = [Purged EXCEPT ![Key(r)] =
                         [exp |-> now + Window, result |-> Fresh0(r, s)]],
             s \notin {"confirmation_required", "error"}
      PROVE  \/ cache'[k] = cache[k]
             \/ cache'[k] = None /\ cache[k] # None /\ cache[k].exp <= now
             \/ \E t \in Status :
                   /\ End(r, t) /\ Key(r) = k
                   /\ t \notin {"confirmation_required", "error"}
                   /\ cache'[k] = [exp |-> now + Window, result |-> Fresh0(r, t)]
  <2>1. CASE Key(r) = k
    BY <1>5, <2>1 DEF Purged
  <2>2. CASE Key(r) # k
    BY <1>1, <1>5, <2>2 DEF Purged
  <2> QED
    BY <2>1, <2>2
<1>6. ASSUME NEW s \in Status, End(r, s)
      PROVE  \/ cache' = cache
             \/ /\ s \notin {"confirmation_required", "error"}
                /\ cache' = [Purged EXCEPT ![Key(r)] =
                               [exp |-> now + Window, result |-> Fresh0(r, s)]]
  BY <1>6 DEF End, Store, Fresh0
<1>7. CASE \E s \in Status : End(r, s)
  BY <1>5, <1>6, <1>7
<1> QED
  BY <1>3, <1>4, <1>7, OwnStep

LEMMA CacheNext ==
    ASSUME TypeOK, LocalInv, TimeInv, CacheInv, [Next]_vars
    PROVE  CacheInv'
<1> DEFINE P(k) ==
      LET q == cache[k].result.by IN
      /\ Executor(q)
      /\ answer[q] = cache[k].result
      /\ Key(q) = k
      /\ era[q] = epoch
      /\ cache[k].exp = finished[q] + Window
      /\ answer[q].status \notin {"confirmation_required", "error"}
<1> SUFFICES ASSUME NEW k \in Keys, cache'[k] # None PROVE P(k)'
  BY DEF CacheInv
<1>1. ASSUME cache'[k] = cache[k], epoch' = epoch PROVE P(k)'
  <2>1. P(k)
    BY <1>1 DEF CacheInv
  <2>2. cache[k].result.by \in Requests
    BY <1>1 DEF TypeOK, Entry, Result
  <2> QED
    BY <1>1, <2>1, <2>2, DoneStays DEF Executor, Key
<1>2. ASSUME NEW r \in Requests, Handler(r) PROVE P(k)'
  <2>0. epoch' = epoch /\ call' = call
    BY <1>2, HandlerKeeps
  <2>1. CASE cache'[k] = cache[k]
    BY <1>1, <2>0, <2>1
  <2>2. ASSUME NEW s \in Status, End(r, s), Key(r) = k, s \notin {"confirmation_required", "error"},
               cache'[k] = [exp |-> now + Window, result |-> Fresh0(r, s)]
        PROVE  P(k)'
    <3>1. cache'[k].result.by = r /\ cache'[k].result = Fresh0(r, s)
      BY <2>2 DEF Fresh0
    <3>2. Executor(r)' /\ answer'[r] = Fresh0(r, s) /\ answer'[r].status = s
      BY <2>2 DEF End, Executor, Fresh0
    <3>3. era'[r] = epoch'
      BY <2>0, <2>2 DEF End, TimeInv
    <3>4. cache'[k].exp = finished'[r] + Window
      BY <2>2 DEF End
    <3>5. Key(r)' = k
      BY <2>0, <2>2 DEF Key
    <3> QED
      BY <2>2, <3>1, <3>2, <3>3, <3>4, <3>5
  <2> QED
    BY <1>2, <2>1, <2>2, CacheStep
<1>3. CASE BacklogChanges \/ Tick \/ UNCHANGED vars
  BY <1>1, <1>3 DEF BacklogChanges, Tick, vars
<1>4. CASE Restart
  BY <1>4 DEF Restart
<1> QED
  BY <1>2, <1>3, <1>4, OtherStep

LEMMA CoverNext ==
    ASSUME TypeOK, LocalInv, TimeInv, CoverInv, [Next]_vars
    PROVE  CoverInv'
<1> SUFFICES ASSUME NEW q \in Requests,
                    Kept(q)', Key(q)' # NoKey, era'[q] = epoch',
                    now' < finished'[q] + Window
             PROVE  cache'[Key(q)'] # None /\ cache'[Key(q)'].exp >= finished'[q] + Window
  BY DEF CoverInv
<1> DEFINE k == Key(q)
<1>0. call' = call /\ Key(q)' = k
  BY DEF Next, Handler, Receive, Refuse, Begin, Exit, Return, BacklogChanges, Tick, Restart, vars, Key
<1>1. k \in Keys /\ now \in Nat /\ epoch \in Nat /\ era[q] \in Nat /\ finished[q] \in Nat /\ Window \in Nat
  BY <1>0, CallType, FleetAssumption DEF TypeOK
<1>2. ASSUME pc[q] = "done", cache'[k] = cache[k], epoch' = epoch, now <= now', now' \in Nat
      PROVE  cache'[k] # None /\ cache'[k].exp >= finished'[q] + Window
  <2>1. Kept(q) /\ finished'[q] = finished[q] /\ era'[q] = era[q]
    BY <1>2, DoneStays DEF Kept, Executor
  <2> QED
    BY <1>0, <1>1, <1>2, <2>1 DEF CoverInv
<1>3. ASSUME NEW r \in Requests, Handler(r)
      PROVE  cache'[k] # None /\ cache'[k].exp >= finished'[q] + Window
  <2>0. epoch' = epoch /\ now' = now
    BY <1>3, HandlerKeeps
  <2>1. CASE pc[q] = "done"
    <3>1. Kept(q) /\ finished'[q] = finished[q] /\ era'[q] = era[q]
      BY <2>1, DoneStays DEF Kept, Executor
    <3>2. cache[k] # None /\ cache[k].exp >= finished[q] + Window
      BY <1>0, <2>0, <3>1 DEF CoverInv
    <3>3. cache[k].exp > now
      BY <1>1, <2>0, <3>1, <3>2 DEF TypeOK, Entry
    <3>4. CASE cache'[k] = cache[k]
      BY <3>1, <3>2, <3>4
    <3>5. CASE cache'[k] = None /\ cache[k].exp <= now
      BY <1>1, <3>2, <3>3, <3>5 DEF TypeOK, Entry
    <3>6. ASSUME NEW s \in Status, cache'[k] = [exp |-> now + Window, result |-> Fresh0(r, s)]
          PROVE  cache'[k] # None /\ cache'[k].exp >= finished'[q] + Window
      <4>1. finished[q] <= now
        BY DEF TimeInv
      <4>2. cache'[k] # None
        <5>1. cache'[k] \in Entry
          BY <1>1, <3>6, FreshEntry
        <5> QED
          BY <5>1, NoneAssumption
      <4> QED
        BY <1>1, <3>1, <3>6, <4>1, <4>2
    <3> QED
      BY <1>1, <1>3, <3>4, <3>5, <3>6, CacheStep
  <2>2. CASE pc[q] # "done"
    <3>1. pc'[q] = "done" /\ ~answer'[q].deduped
          /\ answer'[q].status \notin {"error", "confirmation_required"}
      BY DEF Kept, Executor
    <3>2. q = r
      BY <1>3, <2>2, <3>1, HandlerFrame
    <3>3. ASSUME NEW s \in Status, End(q, s)
          PROVE  cache'[k] # None /\ cache'[k].exp >= finished'[q] + Window
      <4>1. answer'[q].status = s /\ finished'[q] = now
        BY <3>3 DEF End, Fresh0
      <4>2. cache' = [Purged EXCEPT ![k] = [exp |-> now + Window, result |-> Fresh0(q, s)]]
        BY <1>0, <1>1, <2>0, <3>1, <3>3, <4>1 DEF End, Store, Fresh0
      <4>3. cache'[k] = [exp |-> now + Window, result |-> Fresh0(q, s)]
        BY <1>1, <4>2 DEF Purged
      <4>4. cache'[k] # None
        BY <1>1, <4>3, FreshEntry, NoneAssumption
      <4> QED
        BY <1>1, <4>1, <4>3, <4>4
    <3>4. ~Hit(q)
      <4>1. ASSUME Hit(q) PROVE FALSE
        <5>1. cache[k] \in Entry
          BY <1>1, <4>1 DEF Hit, Fresh, TypeOK
        <5> QED
          BY <3>1, <4>1, <5>1 DEF Hit, Entry, Result
      <4> QED
        BY <4>1
    <3> QED
      BY <1>3, <3>1, <3>2, <3>3, <3>4, OwnStep DEF Admit, Go
  <2> QED
    BY <2>1, <2>2
<1>4. CASE BacklogChanges \/ UNCHANGED vars
  <2>1. pc[q] = "done"
    BY <1>4 DEF BacklogChanges, vars, Kept, Executor
  <2> QED
    BY <1>0, <1>1, <1>2, <1>4, <2>1 DEF BacklogChanges, vars
<1>5. CASE Tick
  <2>1. pc[q] = "done"
    BY <1>5 DEF Tick, Kept, Executor
  <2> QED
    BY <1>0, <1>1, <1>2, <1>5, <2>1 DEF Tick
<1>6. CASE Restart
  BY <1>1, <1>6 DEF Restart, TimeInv, history
<1> QED
  BY <1>0, <1>3, <1>4, <1>5, <1>6, OtherStep

-----------------------------------------------------------------------------
(* Replays.                                                                 *)

LEMMA ReplayNext ==
    ASSUME TypeOK, LocalInv, TimeInv, AnswerInv, CacheInv, ReplayIsFaithful, [Next]_vars
    PROVE  ReplayIsFaithful'
<1> DEFINE P(r) ==
      LET q == answer[r].by IN
      /\ q # r
      /\ SameKey(q, r)
      /\ era[q] = era[r]
      /\ Executor(q)
      /\ answer[q].status = answer[r].status
      /\ finished[q] <= started[r]
      /\ started[r] < finished[q] + Window
<1> SUFFICES ASSUME NEW r \in Requests, pc'[r] = "done", answer'[r].deduped
             PROVE  P(r)'
  BY DEF ReplayIsFaithful
<1>1. CASE pc[r] = "done"
  <2>1. answer'[r] = answer[r] /\ P(r)
    BY <1>1, DoneStays DEF ReplayIsFaithful
  <2>2. answer[r].by \in Requests
    BY <1>1 DEF AnswerInv, Result
  <2> QED
    BY <1>1, <2>1, <2>2, DoneStays DEF SameKey, Executor, Key
<1>2. CASE pc[r] # "done" /\ Handler(r)
  <2>1. Hit(r)
    <3>1. ASSUME NEW s \in Status, End(r, s) PROVE FALSE
      BY <3>1 DEF End, Fresh0
    <3> QED
      BY <1>2, <3>1, OwnStep DEF Admit, Go
  <2>2. DEFINE k == Key(r)
  <2>3. k \in Keys /\ k # NoKey /\ cache[k] # None /\ cache[k].exp > now
    BY <2>1, CallType DEF Hit, Fresh
  <2>4. cache[k] \in Entry /\ cache[k].result.by \in Requests
    BY <2>3 DEF TypeOK, Entry, Result
  <2> PICK q \in Requests : q = cache[k].result.by
    BY <2>4
  <2>5. /\ answer'[r].by = q
        /\ answer'[r].status = cache[k].result.status
    BY <2>1, <2>4 DEF Hit, Entry, Result
  <2>6. /\ Executor(q) /\ answer[q] = cache[k].result /\ Key(q) = k
        /\ era[q] = epoch /\ cache[k].exp = finished[q] + Window
    BY <2>3 DEF CacheInv
  <2>7. /\ call' = call /\ pc'[q] = "done" /\ answer'[q] = answer[q]
        /\ era'[q] = era[q] /\ finished'[q] = finished[q]
    BY <2>4, <2>6, DoneStays DEF Executor
  <2>8. q # r /\ started'[r] = now /\ era'[r] = epoch
    BY <2>1, <2>6 DEF Hit, Executor
  <2>9. Executor(q)' /\ SameKey(q, r)'
    BY <2>3, <2>6, <2>7 DEF Executor, SameKey, Key
  <2>10. finished[q] <= now
    BY <2>4, <2>6, TimeOfDone DEF Executor
  <2>11. started'[r] < finished'[q] + Window
    BY <2>3, <2>6, <2>7, <2>8, FleetAssumption DEF TypeOK, Entry
  <2> QED
    BY <2>5, <2>6, <2>7, <2>8, <2>9, <2>10, <2>11
<1>3. CASE pc[r] # "done" /\ ~Handler(r)
  <2>1. ASSUME NEW p \in Requests, Handler(p) PROVE FALSE
    BY <1>3, <2>1, HandlerFrame
  <2> QED
    BY <1>3, <2>1, OtherStep DEF BacklogChanges, Tick, Restart, vars, TypeOK, InFlight
<1> QED
  BY <1>1, <1>2, <1>3

LEMMA ReplayStatusNext ==
    ASSUME TypeOK, LocalInv, CacheInv, ReplayStatusInv, [Next]_vars
    PROVE  ReplayStatusInv'
<1> SUFFICES ASSUME NEW r \in Requests, pc'[r] = "done", answer'[r].deduped
             PROVE  answer'[r].status # "confirmation_required"
  BY DEF ReplayStatusInv
<1>1. CASE pc[r] = "done"
  BY <1>1, DoneStays DEF ReplayStatusInv
<1>2. CASE pc[r] # "done" /\ Handler(r)
  <2>1. Hit(r)
    <3>1. ASSUME NEW s \in Status, End(r, s) PROVE FALSE
      BY <3>1 DEF End, Fresh0
    <3> QED
      BY <1>2, <3>1, OwnStep DEF Admit, Go
  <2>2. Key(r) \in Keys /\ cache[Key(r)] # None /\ cache[Key(r)] \in Entry
    BY <2>1, CallType DEF Hit, Fresh, TypeOK
  <2> QED
    BY <2>1, <2>2 DEF Hit, Entry, Result, CacheInv
<1>3. CASE pc[r] # "done" /\ ~Handler(r)
  <2>1. ASSUME NEW p \in Requests, Handler(p) PROVE FALSE
    BY <1>3, <2>1, HandlerFrame
  <2> QED
    BY <1>3, <2>1, OtherStep DEF BacklogChanges, Tick, Restart, vars, TypeOK, InFlight
<1> QED
  BY <1>1, <1>2, <1>3

\* A request that begins inside the window of a kept answer to its key is
\* answered from the cache.
LEMMA RetryStep ==
    ASSUME TypeOK, LocalInv, CoverInv, [Next]_vars,
           NEW q \in Requests, NEW r \in Requests,
           pc[r] = "idle", pc'[r] # "idle", SameKey(q, r), Kept(q),
           era[q] = epoch, now < finished[q] + Window
    PROVE  pc'[r] = "done" /\ answer'[r].deduped
<1>1. Handler(r)
  <2>1. ASSUME NEW p \in Requests, Handler(p), p # r PROVE FALSE
    BY <2>1, HandlerFrame
  <2> QED
    BY <2>1, OtherStep DEF BacklogChanges, Tick, Restart, vars, TypeOK, InFlight
<1>2. Key(r) \in Keys /\ cache[Key(r)] # None /\ cache[Key(r)].exp >= finished[q] + Window
  BY CallType DEF CoverInv, SameKey
<1>3. cache[Key(r)] \in Entry
  BY <1>2 DEF TypeOK
<1>4. Fresh(Key(r))
  BY <1>2, <1>3, FleetAssumption DEF Fresh, SameKey, TypeOK, Entry
<1>5. Hit(r)
  BY <1>1, <1>4, OwnStep DEF Admit, Go, End, InFlight
<1> QED
  BY <1>3, <1>5 DEF Hit, Entry, Result

-----------------------------------------------------------------------------
(* Clients that wait.                                                       *)

LEMMA SerialNext ==
    ASSUME ~Overlap, TypeOK, LocalInv, TimeInv, CoverInv, SerialInv, [Next]_vars
    PROVE  SerialInv'
<1> SUFFICES ASSUME NEW q \in Requests, NEW r \in Requests,
                    q # r, SameKey(q, r)', era'[q] = era'[r], Owns(q)', Owns(r)'
             PROVE  Apart(q, r)' \/ Apart(r, q)'
  BY DEF SerialInv
<1>0. call' = call /\ SameKey(q, r)
  BY DEF Next, Handler, Receive, Refuse, Begin, Exit, Return, BacklogChanges, Tick, Restart,
         vars, Key, SameKey
<1>1. ASSUME NEW p \in Requests, Owns(p)', Handler(p)
      PROVE  \/ Admit(p)
             \/ /\ Owns(p) /\ pc[p] # "done"
                /\ started'[p] = started[p] /\ era'[p] = era[p]
  <2>1. ~Hit(p)
    <3>1. ASSUME Hit(p) PROVE FALSE
      <4>1. cache[Key(p)] \in Entry
        BY <3>1, CallType DEF Hit, Fresh, TypeOK
      <4> QED
        BY <1>1, <3>1, <4>1 DEF Hit, Owns, Kept, Executor, Entry, Result
    <3> QED
      BY <3>1
  <2> QED
    BY <1>1, <2>1, OwnStep DEF Go, End, Owns, InFlight
<1>2. ASSUME NEW p \in Requests, Owns(p)', ~Handler(p)
      PROVE  /\ Owns(p) /\ started'[p] = started[p] /\ era'[p] = era[p]
             /\ pc[p] = "done" => pc'[p] = "done" /\ finished'[p] = finished[p]
  <2>1. ASSUME NEW a \in Requests, Handler(a)
        PROVE  /\ Owns(p) /\ started'[p] = started[p] /\ era'[p] = era[p]
               /\ pc[p] = "done" => pc'[p] = "done" /\ finished'[p] = finished[p]
    BY <1>2, <2>1, HandlerFrame DEF Owns, Kept, Executor
  <2>2. CASE BacklogChanges \/ Tick \/ Restart \/ UNCHANGED vars
    BY <1>2, <2>2 DEF BacklogChanges, Tick, Restart, vars, history, Owns, Kept, Executor,
                      TypeOK, InFlight
  <2> QED
    BY <2>1, <2>2, OtherStep
<1>3. ASSUME NEW a \in Requests, NEW b \in Requests, a # b, SameKey(a, b),
             Owns(a)', era'[a] = era'[b], Admit(b), Handler(b)
      PROVE  Apart(a, b)'
  <2>1. ~Handler(a)
    BY <1>3, OneMoves
  <2>2. /\ Owns(a) /\ era[a] = epoch
        /\ pc[a] = "done" => pc'[a] = "done" /\ finished'[a] = finished[a]
    BY <1>2, <1>3, <2>1 DEF Admit
  <2>3. pc[a] \notin InFlight
    BY <1>3 DEF Admit, Serial, SameKey
  <2>4. pc[a] # "lost"
    BY <2>2 DEF TimeInv, TypeOK
  <2>5. pc[a] = "done" /\ Kept(a)
    BY <2>2, <2>3, <2>4 DEF Owns, TypeOK, InFlight
  <2>6. ~(now < finished[a] + Window)
    <3> SUFFICES ASSUME now < finished[a] + Window PROVE FALSE
      OBVIOUS
    <3>1. Key(b) \in Keys /\ cache[Key(b)] # None /\ cache[Key(b)].exp >= finished[a] + Window
      BY <1>3, <2>2, <2>5, CallType DEF CoverInv, SameKey
    <3>2. cache[Key(b)] \in Entry
      BY <3>1 DEF TypeOK
    <3> QED
      BY <1>3, <3>1, <3>2, FleetAssumption DEF Admit, Fresh, SameKey, TypeOK, Entry
  <2> QED
    BY <1>3, <2>2, <2>5, <2>6, FleetAssumption DEF Apart, Admit, TypeOK
<1>4. CASE Handler(q) /\ Admit(q)
  BY <1>0, <1>3, <1>4 DEF SameKey
<1>5. CASE Handler(r) /\ Admit(r)
  BY <1>0, <1>3, <1>5
<1>6. CASE ~(Handler(q) /\ Admit(q)) /\ ~(Handler(r) /\ Admit(r))
  <2>1. ASSUME NEW p \in {q, r}
        PROVE  /\ Owns(p) /\ started'[p] = started[p] /\ era'[p] = era[p]
               /\ pc[p] = "done" => pc'[p] = "done" /\ finished'[p] = finished[p]
    BY <1>1, <1>2, <1>6
  <2>2. Apart(q, r) \/ Apart(r, q)
    BY <1>0, <2>1 DEF SerialInv
  <2> QED
    BY <2>1, <2>2 DEF Apart
<1> QED
  BY <1>4, <1>5, <1>6

-----------------------------------------------------------------------------
(* The invariant as a whole, and what it gives.                             *)

LEMMA InitIInv == Init => IInv
<1> SUFFICES ASSUME Init PROVE IInv
  OBVIOUS
<1>1. TypeOK /\ LocalInv
  BY TypeInit
<1>2. \A r \in Requests : pc[r] = "idle" /\ RanNothing(r)
  BY DEF Init, RanNothing
<1>3. /\ UntouchedInv /\ GateInv /\ ArmInv /\ AnswerInv /\ CoverInv
      /\ ReplayIsFaithful /\ ReplayStatusInv
  BY <1>2 DEF UntouchedInv, GateInv, ArmInv, AnswerInv, CoverInv, ReplayIsFaithful,
              ReplayStatusInv, Kept, Executor, RanNothing, Verbs
<1>4. SerialInv
  BY <1>2 DEF SerialInv, Owns
<1>5. TimeInv /\ CacheInv
  BY DEF Init, TimeInv, CacheInv, InFlight
<1> QED
  BY <1>1, <1>3, <1>4, <1>5 DEF IInv

LEMMA NextIInv == IInv /\ [Next]_vars => IInv'
<1> SUFFICES ASSUME IInv, [Next]_vars PROVE IInv'
  OBVIOUS
<1>1. SerialInv'
  BY SerialNext DEF IInv, SerialInv
<1> QED
  BY <1>1, TypeNext, LocalNext, UntouchedNext, GateNext, ArmNext, TimeNext, AnswerNext,
     CacheNext, CoverNext, ReplayNext, ReplayStatusNext DEF IInv

LEMMA AlwaysIInv == Spec => []IInv
BY InitIInv, NextIInv, PTL DEF Spec

\* A replayed answer is another request's, given in this process under the
\* same key, before and inside the window.
THEOREM ReplayCorrect == Spec => []ReplayIsFaithful
<1>1. IInv => ReplayIsFaithful
  BY DEF IInv
<1> QED
  BY <1>1, AlwaysIInv, PTL

\* Success is only ever claimed for a request whose first verb exited zero
\* (or under the mock), through any chain of replays.
THEOREM SuccessIsEarned == Spec => []OkIsEarned
<1>1. IInv => OkIsEarned
  <2> SUFFICES ASSUME IInv, NEW r \in Requests, pc[r] = "done", Ok(answer[r].status)
               PROVE  Mock \/ ran[answer[r].by][FirstVerb(Action(answer[r].by))] = "ok"
    BY DEF OkIsEarned
  <2>1. answer[r].by \in Requests
    BY DEF IInv, AnswerInv, Result
  <2>2. CASE answer[r].deduped
    BY <2>1, <2>2 DEF IInv, ReplayIsFaithful, AnswerInv, Executor, Ok
  <2>3. CASE ~answer[r].deduped
    BY <2>3 DEF IInv, AnswerInv
  <2> QED
    BY <2>2, <2>3
<1> QED
  BY <1>1, AlwaysIInv, PTL

\* Without bare invokes (the HTTP endpoint makes none), a refusal is never
\* replayed to a client that comes back and confirms.
THEOREM RefusalsForgotten ==
    ASSUME \A c \in Calls : c.action # "message"
    PROVE  Spec => []RefusalNotReplayed
<1> DEFINE Structured == call \in [Requests -> Calls]
<1>1. Init => Structured
  BY DEF Init
<1>2. Structured /\ [Next]_vars => Structured'
  BY DEF Next, Handler, Receive, Refuse, Begin, Exit, Return, BacklogChanges, Tick, Restart, vars
<1>3. IInv /\ Structured => RefusalNotReplayed
  <2> SUFFICES ASSUME IInv, Structured, NEW r \in Requests, pc[r] = "done", answer[r].deduped
               PROVE  answer[r].status \notin {"confirmation_required", "guardian_required"}
    BY DEF RefusalNotReplayed
  <2>1. PICK q \in Requests : q = answer[r].by
    BY DEF IInv, AnswerInv, Result
  <2>2. Executor(q) /\ answer[q].status = answer[r].status /\ SameKey(q, r)
    BY <2>1 DEF IInv, ReplayIsFaithful
  <2>3. answer[q].status # "guardian_required"
    BY <2>2 DEF IInv, AnswerInv, Executor, Action
  <2>4. answer[r].status # "confirmation_required"
    BY DEF IInv, ReplayStatusInv
  <2> QED
    BY <2>2, <2>3, <2>4
<1> QED
  BY <1>1, <1>2, <1>3, AlwaysIInv, PTL DEF Spec

\* A retry inside the window never reaches the bridge, overlap or not.
THEOREM RetryCorrect == Spec => RetryIsReplayed
<1> DEFINE A == \A q, r \in Requests :
                    /\ pc[r] = "idle" /\ pc'[r] # "idle"
                    /\ SameKey(q, r) /\ Kept(q) /\ era[q] = epoch
                    /\ now < finished[q] + Window
                    => pc'[r] = "done" /\ answer'[r].deduped
<1>1. IInv /\ [Next]_vars => [A]_vars
  BY RetryStep DEF IInv
<1> QED
  BY <1>1, AlwaysIInv, PTL DEF Spec, RetryIsReplayed

\* As long as clients wait for an answer before they send its key again, two
\* executions of one key in one process are a window apart.
THEOREM OnceWhenSerial ==
    ASSUME ~Overlap
    PROVE  Spec => []OnePerWindow
<1>1. IInv => OnePerWindow
  <2> SUFFICES ASSUME IInv, NEW q \in Requests, NEW r \in Requests,
                      q # r, SameKey(q, r), era[q] = era[r],
                      Executed(q), Executed(r), ~Raised(q), ~Raised(r)
               PROVE  Apart(q, r) \/ Apart(r, q)
    BY DEF OnePerWindow
  <2>1. ASSUME NEW p \in Requests, Executed(p), ~Raised(p) PROVE Owns(p)
    BY <2>1 DEF IInv, UntouchedInv, RanNothing, Executed, Raised, Owns, Kept, Executor
  <2> QED
    BY <2>1 DEF IInv, SerialInv
<1> QED
  BY <1>1, AlwaysIInv, PTL

-----------------------------------------------------------------------------
(* FleetTrigger implements KeyedOnce.                                       *)

\* Clients that wait have at most one request per key in flight, and while
\* it is in flight the cache holds no open window for its key.
LEMMA OneInFlight ==
    ASSUME ~Overlap, IInv, NEW q \in Requests, NEW r \in Requests,
           q # r, SameKey(q, r), pc[q] \in InFlight
    PROVE  pc[r] \notin InFlight
<1> SUFFICES ASSUME pc[r] \in InFlight PROVE FALSE
  OBVIOUS
<1>1. era[q] = era[r]
  BY DEF IInv, TimeInv
<1>2. Owns(q) /\ Owns(r)
  BY DEF Owns, InFlight
<1> QED
  BY <1>1, <1>2 DEF IInv, SerialInv, Apart, InFlight

LEMMA InFlightNotFresh ==
    ASSUME ~Overlap, IInv, NEW r \in Requests, NEW k \in Keys, Holds(r, k)
    PROVE  ~Fresh(k)
<1> SUFFICES ASSUME Fresh(k) PROVE FALSE
  OBVIOUS
<1>1. k # NoKey /\ cache[k] # None /\ cache[k].exp > now
  BY DEF Fresh
<1>2. cache[k] \in Entry
  BY <1>1 DEF IInv, TypeOK
<1> PICK q \in Requests : q = cache[k].result.by
  BY <1>2 DEF Entry, Result
<1>3. /\ Executor(q) /\ Key(q) = k /\ era[q] = epoch
      /\ cache[k].exp = finished[q] + Window
      /\ answer[q].status \notin {"confirmation_required", "error"}
  BY <1>1 DEF IInv, CacheInv
<1>4. Owns(q) /\ Owns(r) /\ q # r
  BY <1>3 DEF Owns, Kept, Executor, Holds, InFlight
<1>5. SameKey(q, r) /\ era[q] = era[r]
  BY <1>1, <1>3 DEF SameKey, Holds, IInv, TimeInv
<1>6. Apart(q, r)
  BY <1>4, <1>5 DEF IInv, SerialInv, Apart, Holds, InFlight
<1>7. started[r] <= now
  BY DEF IInv, TimeInv
<1>8. started[r] \in Nat /\ now \in Nat /\ finished[q] \in Nat
  BY DEF IInv, TypeOK
<1> QED
  BY <1>1, <1>3, <1>6, <1>7, <1>8, FleetAssumption DEF Apart

\* Who owns a key: the request in flight under it, else whoever made the
\* entry whose window is open.
LEMMA OwnerIs ==
    ASSUME ~Overlap, IInv, NEW k \in Keys
    PROVE  /\ \A r \in Requests : Holds(r, k) => KeyOwner(k) = r
           /\ (\A r \in Requests : ~Holds(r, k)) =>
                 KeyOwner(k) = IF Fresh(k) THEN cache[k].result.by ELSE None
<1>1. ASSUME NEW r \in Requests, Holds(r, k) PROVE KeyOwner(k) = r
  <2>1. \A q \in Requests : Holds(q, k) => q = r
    <3> SUFFICES ASSUME NEW q \in Requests, Holds(q, k), q # r PROVE FALSE
      OBVIOUS
    <3>1. SameKey(q, r)
      BY <1>1, FleetAssumption DEF Holds, SameKey
    <3> QED
      BY <1>1, <3>1, OneInFlight DEF Holds
  <2> QED
    BY <1>1, <2>1 DEF KeyOwner
<1> QED
  BY <1>1 DEF KeyOwner

\* The same of the next state.
LEMMA OwnerIsNext ==
    ASSUME ~Overlap, IInv, [Next]_vars, NEW k \in Keys
    PROVE  /\ \A r \in Requests : Holds(r, k)' => KeyOwner(k)' = r
           /\ (\A r \in Requests : ~Holds(r, k)') =>
                 KeyOwner(k)' = IF Fresh(k)' THEN cache'[k].result.by ELSE None
<1>0. IInv'
  BY NextIInv
<1>1. ASSUME NEW q \in Requests, NEW r \in Requests, Holds(q, k)', Holds(r, k)', q # r
      PROVE  FALSE
  <2>1. era'[q] = era'[r]
    BY <1>0, <1>1 DEF IInv, TimeInv, Holds
  <2>2. Owns(q)' /\ Owns(r)'
    BY <1>1 DEF Owns, Holds, InFlight
  <2>3. SameKey(q, r)'
    BY <1>1, FleetAssumption DEF Holds, SameKey
  <2> QED
    BY <1>0, <1>1, <2>1, <2>2, <2>3 DEF IInv, SerialInv, Apart, Holds, InFlight
<1>2. ASSUME NEW r \in Requests, Holds(r, k)' PROVE KeyOwner(k)' = r
  BY <1>1, <1>2 DEF KeyOwner
<1> QED
  BY <1>2 DEF KeyOwner

\* Who holds a key and who was answered, when only r may have moved.
LEMMA HoldsFrame ==
    ASSUME TypeOK, NEW r \in Requests, Handler(r), NEW q \in Requests, q # r
    PROVE  /\ \A k \in Keys : Holds(q, k)' = Holds(q, k)
           /\ AnsweredBy(q)' = AnsweredBy(q)
BY HandlerFrame, HandlerKeeps DEF Holds, AnsweredBy, Key

\* A handler step of r owns or frees no key but r's own.
LEMMA OtherKeys ==
    ASSUME ~Overlap, IInv, [Next]_vars, NEW r \in Requests, Handler(r),
           NEW k \in Keys, Key(r) # k
    PROVE  KeyOwner(k)' = KeyOwner(k)
<1>0. TypeOK /\ LocalInv /\ now' = now /\ call' = call
  BY HandlerKeeps DEF IInv
<1>1. \A q \in Requests : Holds(q, k)' = Holds(q, k)
  <2> SUFFICES ASSUME NEW q \in Requests PROVE Holds(q, k)' = Holds(q, k)
    OBVIOUS
  <2>1. Holds(r, k) = FALSE /\ Holds(r, k)' = FALSE
    BY <1>0 DEF Holds, Key
  <2>2. CASE q # r
    BY <1>0, <2>2, HoldsFrame
  <2> QED
    BY <2>1, <2>2
<1>2. \/ cache'[k] = cache[k]
      \/ cache'[k] = None /\ cache[k] # None /\ cache[k].exp <= now
  BY <1>0, CacheStep
<1>3. Fresh(k)' = Fresh(k) /\ (Fresh(k) => cache'[k] = cache[k])
  <2>1. CASE cache'[k] = cache[k]
    BY <1>0, <2>1 DEF Fresh
  <2>2. CASE cache'[k] = None /\ cache[k] # None /\ cache[k].exp <= now
    <3>1. cache[k] \in Entry /\ now \in Nat
      BY <1>0, <2>2 DEF TypeOK
    <3>2. ~(cache[k].exp > now)
      BY <2>2, <3>1 DEF Entry
    <3> QED
      BY <2>2, <3>2 DEF Fresh
  <2> QED
    BY <1>2, <2>1, <2>2
<1>4. CASE \E q \in Requests : Holds(q, k)
  BY <1>1, <1>4, OwnerIs, OwnerIsNext
<1>5. CASE \A q \in Requests : ~Holds(q, k)
  BY <1>1, <1>3, <1>5, OwnerIs, OwnerIsNext
<1> QED
  BY <1>4, <1>5

Owners == [k \in Keys |-> KeyOwner(k)]
Sources == [r \in Requests |-> AnsweredBy(r)]

\* A step that answers nobody and at most frees keys.
LEMMA ReleaseStep ==
    ASSUME \A r \in Requests : AnsweredBy(r)' = AnsweredBy(r),
           \A k \in Keys : KeyOwner(k)' \in {None, KeyOwner(k)}
    PROVE  Once!Next
<1> DEFINE S == {k \in Keys : KeyOwner(k)' = None}
<1>1. Owners' = [k \in Keys |-> IF k \in S THEN None ELSE Owners[k]]
  BY DEF Owners
<1>2. Sources' = Sources
  BY DEF Sources
<1>3. S \in SUBSET Keys
  OBVIOUS
<1> HIDE DEF S
<1>4. Once!Release(S)
  BY <1>1, <1>2 DEF Once!Release, Owners, Sources
<1> QED
  BY <1>3, <1>4 DEF Once!Next

\* A step that moves r changes at most the owner of r's key and r's source.
LEMMA MovesOne ==
    ASSUME ~Overlap, IInv, [Next]_vars, NEW r \in Requests, Handler(r)
    PROVE  /\ Sources' = [Sources EXCEPT ![r] = AnsweredBy(r)']
           /\ Key(r) \in Keys => Owners' = [Owners EXCEPT ![Key(r)] = KeyOwner(Key(r))']
           /\ Key(r) \notin Keys => Owners' = Owners
<1>0. TypeOK
  BY DEF IInv
<1>1. Sources' = [Sources EXCEPT ![r] = AnsweredBy(r)']
  BY <1>0, HoldsFrame DEF Sources
<1>2. \A k \in Keys : Key(r) # k => KeyOwner(k)' = KeyOwner(k)
  BY OtherKeys
<1>3. ASSUME NEW j \in Keys, j = Key(r)
      PROVE  Owners' = [Owners EXCEPT ![j] = KeyOwner(j)']
  BY <1>2, <1>3 DEF Owners
<1>4. ASSUME Key(r) \notin Keys PROVE Owners' = Owners
  <2>1. \A k \in Keys : KeyOwner(k)' = KeyOwner(k)
    BY <1>2, <1>4
  <2> QED
    BY <2>1 DEF Owners
<1>5. Key(r) \in Keys => Owners' = [Owners EXCEPT ![Key(r)] = KeyOwner(Key(r))']
  <2>1. call' = call
    BY HandlerKeeps
  <2> QED
    BY <1>3, <2>1 DEF Key
<1> QED
  BY <1>1, <1>4, <1>5

\* What the abstract step needs to know of the request that moves.
LEMMA HandlerImplements ==
    ASSUME ~Overlap, IInv, [Next]_vars, NEW r \in Requests, Handler(r)
    PROVE  Once!Next
<1>0. TypeOK /\ LocalInv /\ now' = now /\ call' = call /\ IInv'
  BY HandlerKeeps, NextIInv DEF IInv
<1>1. \A q \in Requests : q # r => AnsweredBy(q)' = AnsweredBy(q)
  BY <1>0, HoldsFrame
<1>2. ASSUME AnsweredBy(r)' = AnsweredBy(r),
             \A k \in Keys : Key(r) = k => KeyOwner(k)' \in {None, KeyOwner(k)}
      PROVE  Once!Next
  <2>1. \A q \in Requests : AnsweredBy(q)' = AnsweredBy(q)
    BY <1>1, <1>2
  <2>2. \A k \in Keys : KeyOwner(k)' \in {None, KeyOwner(k)}
    BY <1>2, OtherKeys
  <2> QED
    BY <2>1, <2>2, ReleaseStep
<1>3. CASE Key(r) \notin Keys
  <2>1. Key(r) = NoKey
    BY <1>0, <1>3, CallType
  <2>2. AnsweredBy(r)' = AnsweredBy(r)
    BY <1>0, <2>1 DEF AnsweredBy, Key
  <2> QED
    BY <1>2, <1>3, <2>2
<1>4. ASSUME NEW k \in Keys, k = Key(r)
      PROVE  Once!Next
  <2>0. /\ k # NoKey /\ r # None
        /\ Owners' = [Owners EXCEPT ![k] = KeyOwner(k)']
        /\ Sources' = [Sources EXCEPT ![r] = AnsweredBy(r)']
    BY <1>0, <1>4, MovesOne, FleetAssumption DEF Key
  <2>1. CASE Hit(r)
    <3>1. Fresh(k) /\ cache[k] # None /\ cache[k].exp > now /\ cache[k] \in Entry
      BY <1>0, <1>4, <2>1 DEF Hit, Fresh, TypeOK
    <3> PICK q \in Requests : q = cache[k].result.by
      BY <3>1 DEF Entry, Result
    <3>2. Executor(q) /\ Key(q) = k /\ answer[q] = cache[k].result /\ q # r
      BY <2>1, <3>1 DEF IInv, CacheInv, Executor, Hit
    <3>3. KeyOwner(k) = q
      BY <3>1, OwnerIs, InFlightNotFresh
    <3>4. AnsweredBy(q) = q /\ AnsweredBy(r) = None
      BY <2>0, <2>1, <3>2 DEF AnsweredBy, Executor, Hit
    <3>5. AnsweredBy(r)' = q
      <4>1. answer'[r].by = q
        BY <1>4, <2>1, <3>1 DEF Hit, Entry, Result
      <4> QED
        BY <1>0, <1>4, <2>0, <2>1, <4>1 DEF AnsweredBy, Hit, Key
    <3>6. KeyOwner(k)' = q
      <4>1. cache'[k] = cache[k]
        <5>1. now \in Nat /\ cache[k].exp \in Nat
          BY <1>0, <3>1 DEF TypeOK, Entry
        <5>2. ~(cache[k].exp <= now)
          BY <3>1, <5>1
        <5> QED
          BY <1>4, <2>1, <5>2 DEF Hit, AfterLookup, Purged
      <4>2. Fresh(k)'
        BY <1>0, <3>1, <4>1 DEF Fresh
      <4>3. \A p \in Requests : ~Holds(p, k)'
        <5> SUFFICES ASSUME NEW p \in Requests PROVE ~Holds(p, k)'
          OBVIOUS
        <5>1. CASE p = r
          BY <2>1, <5>1 DEF Holds, Hit, InFlight
        <5>2. CASE p # r
          BY <1>0, <3>1, <5>2, HoldsFrame, InFlightNotFresh
        <5> QED
          BY <5>1, <5>2
      <4> QED
        BY <4>1, <4>2, <4>3, OwnerIsNext
    <3>7. q # None
      BY FleetAssumption
    <3>8. Owners' = Owners /\ Sources' = [Sources EXCEPT ![r] = q]
      BY <2>0, <3>3, <3>5, <3>6 DEF Owners
    <3>9. Once!Replay(r, k)
      BY <3>3, <3>4, <3>7, <3>8 DEF Once!Replay, Owners, Sources
    <3> QED
      BY <3>9 DEF Once!Next
  <2>2. CASE Admit(r)
    <3>1. \A p \in Requests : ~Holds(p, k)
      <4> SUFFICES ASSUME NEW p \in Requests, Holds(p, k) PROVE FALSE
        OBVIOUS
      <4> QED
        BY <1>4, <2>0, <2>2 DEF Holds, Admit, Serial
    <3>2. KeyOwner(k) = None
      BY <1>4, <2>2, <3>1, OwnerIs DEF Admit
    <3>3. Holds(r, k)'
      BY <1>0, <1>4, <2>2 DEF Holds, Admit, InFlight, Key
    <3>4. KeyOwner(k)' = r
      BY <3>3, OwnerIsNext
    <3>5. AnsweredBy(r) = None /\ AnsweredBy(r)' = None
      BY <2>2 DEF AnsweredBy, Admit
    <3>6. \A j \in Keys : KeyOwner(j) # r
      <4> SUFFICES ASSUME NEW j \in Keys, KeyOwner(j) = r PROVE FALSE
        OBVIOUS
      <4>1. pc[r] = "idle"
        BY <2>2 DEF Admit
      <4>2. \A p \in Requests : ~Holds(p, j)
        BY <4>1, OwnerIs DEF Holds, InFlight
      <4>3. Fresh(j) /\ cache[j].result.by = r
        BY <2>0, <4>2, OwnerIs
      <4> QED
        BY <4>1, <4>3 DEF Fresh, IInv, CacheInv, Executor
    <3>7. Owners' = [Owners EXCEPT ![k] = r] /\ Sources' = Sources
      BY <2>0, <3>4, <3>5 DEF Sources
    <3>8. Once!Take(r, k)
      BY <3>2, <3>5, <3>6, <3>7 DEF Once!Take, Owners, Sources
    <3> QED
      BY <3>8 DEF Once!Next
  <2>3. CASE Go(r)
    <3>1. AnsweredBy(r)' = AnsweredBy(r)
      BY <2>3 DEF AnsweredBy, Go
    <3>2. Holds(r, k) /\ Holds(r, k)'
      BY <1>0, <1>4, <2>3 DEF Holds, Go, InFlight, Key
    <3>3. KeyOwner(k)' = KeyOwner(k)
      BY <3>2, OwnerIs, OwnerIsNext
    <3> QED
      BY <1>2, <1>4, <3>1, <3>3
  <2>4. ASSUME NEW s \in Status, End(r, s) PROVE Once!Next
    <3>1. Holds(r, k) /\ KeyOwner(k) = r /\ ~Fresh(k)
      <4>1. Holds(r, k)
        BY <1>4, <2>4 DEF Holds, End
      <4> QED
        BY <4>1, OwnerIs, InFlightNotFresh
    <3>2. AnsweredBy(r) = None /\ AnsweredBy(r)' = r
      <4>1. answer'[r].by = r
        BY <2>4 DEF End, Fresh0
      <4> QED
        BY <1>0, <1>4, <2>0, <2>4, <4>1 DEF AnsweredBy, End, Key, InFlight
    <3>3. \A p \in Requests : ~Holds(p, k)'
      <4> SUFFICES ASSUME NEW p \in Requests PROVE ~Holds(p, k)'
        OBVIOUS
      <4>1. CASE p = r
        BY <2>4, <4>1 DEF Holds, End, InFlight
      <4>2. CASE p # r
        <5>1. ~Holds(p, k)
          BY <3>1, <4>2, OwnerIs
        <5> QED
          BY <1>0, <4>2, <5>1, HoldsFrame
      <4> QED
        BY <4>1, <4>2
    <3>4. KeyOwner(k)' \in {None, r}
      <4>1. CASE cache'[k] = cache[k]
        <5>1. ~Fresh(k)'
          BY <1>0, <3>1, <4>1 DEF Fresh
        <5> QED
          BY <3>3, <5>1, OwnerIsNext
      <4>2. CASE cache'[k] = None
        <5>1. ~Fresh(k)'
          BY <4>2 DEF Fresh
        <5> QED
          BY <3>3, <5>1, OwnerIsNext
      <4>3. ASSUME NEW t \in Status,
                   cache'[k] = [exp |-> now + Window, result |-> Fresh0(r, t)]
            PROVE  KeyOwner(k)' \in {None, r}
        <5>1. cache'[k].result.by = r
          BY <4>3 DEF Fresh0
        <5> QED
          BY <3>3, <5>1, OwnerIsNext
      <4> QED
        BY <1>0, <4>1, <4>2, <4>3, CacheStep
    <3>5. Sources' = [Sources EXCEPT ![r] = r]
      BY <2>0, <3>2
    <3>6. Owners' \in {Owners, [Owners EXCEPT ![k] = None]}
      <4>1. CASE KeyOwner(k)' = r
        BY <2>0, <3>1, <4>1 DEF Owners
      <4>2. CASE KeyOwner(k)' = None
        BY <2>0, <4>2
      <4> QED
        BY <3>4, <4>1, <4>2
    <3>7. Once!Settle(r, k)
      BY <3>1, <3>2, <3>5, <3>6 DEF Once!Settle, Owners, Sources
    <3> QED
      BY <3>7 DEF Once!Next
  <2> QED
    BY <1>0, <2>1, <2>2, <2>3, <2>4, OwnStep
<1> QED
  BY <1>3, <1>4

\* The clock closes windows; a restart drops the cache and what is in flight.
LEMMA EnvironmentImplements ==
    ASSUME ~Overlap, IInv, [Next]_vars, BacklogChanges \/ Tick \/ Restart \/ UNCHANGED vars
    PROVE  Once!Next
<1>1. \A r \in Requests : AnsweredBy(r)' = AnsweredBy(r)
  BY DEF AnsweredBy, Key, BacklogChanges, Tick, Restart, vars, IInv, TypeOK, InFlight
<1>2. ASSUME NEW k \in Keys PROVE KeyOwner(k)' \in {None, KeyOwner(k)}
  <2>1. CASE Restart
    <3>1. ~Fresh(k)' /\ \A r \in Requests : ~Holds(r, k)'
      BY <2>1 DEF Restart, Fresh, Holds, IInv, TypeOK, InFlight
    <3> QED
      BY <3>1, OwnerIsNext
  <2>2. CASE BacklogChanges \/ Tick \/ UNCHANGED vars
    <3>1. \A r \in Requests : Holds(r, k)' = Holds(r, k)
      BY <2>2 DEF BacklogChanges, Tick, vars, Holds, Key
    <3>2. cache' = cache /\ (Fresh(k)' => Fresh(k))
      <4>1. CASE Tick
        <5>1. now' = now + 1 /\ cache' = cache /\ now \in Nat
          BY <4>1 DEF Tick, IInv, TypeOK
        <5>2. ASSUME cache[k] # None, cache[k].exp > now + 1 PROVE cache[k].exp > now
          <6>1. cache[k].exp \in Nat
            BY <5>2 DEF IInv, TypeOK, Entry
          <6> QED
            BY <5>1, <5>2, <6>1
        <5> QED
          BY <5>1, <5>2 DEF Fresh
      <4>2. CASE BacklogChanges \/ UNCHANGED vars
        BY <4>2 DEF BacklogChanges, vars, Fresh
      <4> QED
        BY <2>2, <4>1, <4>2
    <3>3. CASE \E r \in Requests : Holds(r, k)
      BY <3>1, <3>3, OwnerIs, OwnerIsNext
    <3>4. CASE \A r \in Requests : ~Holds(r, k)
      BY <3>1, <3>2, <3>4, OwnerIs, OwnerIsNext
    <3> QED
      BY <3>3, <3>4
  <2> QED
    BY <2>1, <2>2
<1> QED
  BY <1>1, <1>2, ReleaseStep

\* Clients that wait for their answer before they send its key again see each
\* key owned by one request at a time, whose result alone answers for it: the
\* cache, its windows and its restarts implement KeyedOnce.
THEOREM KeysAreOwnedOnce ==
    ASSUME ~Overlap
    PROVE  Spec => ImplementsKeyedOnce
<1>1. Init => Once!Init
  <2> SUFFICES ASSUME Init PROVE Once!Init
    OBVIOUS
  <2>1. \A r \in Requests, k \in Keys : ~Holds(r, k) /\ ~Fresh(k)
    BY DEF Init, Holds, InFlight, Fresh
  <2>2. \A k \in Keys : KeyOwner(k) = None
    BY <2>1 DEF KeyOwner, Init, Fresh
  <2>3. \A r \in Requests : AnsweredBy(r) = None
    BY DEF Init, AnsweredBy
  <2> QED
    BY <2>2, <2>3 DEF Once!Init
<1>2. IInv /\ [Next]_vars => [Once!Next]_(Once!vars)
  BY HandlerImplements, EnvironmentImplements, OtherStep
<1> QED
  BY <1>1, <1>2, AlwaysIInv, PTL DEF Spec, ImplementsKeyedOnce, Once!Spec
=============================================================================
