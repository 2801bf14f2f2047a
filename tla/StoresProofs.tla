------------------------------ MODULE StoresProofs ------------------------------
(***************************************************************************)
(* Theorems about what is kept in Postgres and in the briefs' cache, for   *)
(* any number of calls, operations and outages.                            *)
(***************************************************************************)
EXTENDS Stores, TLAPS

-------------------------------------------------------------------------------
\* Types

\* A call under way has a number of its own and is where its operation goes.
CallRight(c) ==
    LET k == call[c] IN
    /\ k.at # "idle" => k.n \in 1 .. numbered /\ k.op \in AllOps
    /\ k.at # "idle" /\ k.op \in {"snapshot", "dequeue"} => k.key \in Numbers
    /\ k.at = "migrating" => k.op \in {"boot", "append"}
    /\ k.at = "conflict" => k.op = "append"
    /\ k.at = "looked" => k.op = "snapshot"
    /\ k.at = "written" => k.op = "brief"
    /\ k.at \in {"selected", "down"} => k.op \in {"open", "review"}
    /\ k.at = "titled" => k.op = "review"
    /\ k.at = "broken" => k.op \in {"boot", "append", "snapshot"}

Base == TypeOK /\ \A c \in Calls : CallRight(c)

LEMMA NoCallIsCall == NoCall \in Call
BY StoresAssumption DEF NoCall, Call, Numbers

LEMMA NewCall ==
    ASSUME NEW op \in AllOps, NEW n \in 0 .. MaxOps, NEW key \in 0 .. MaxOps
    PROVE  [NoCall EXCEPT !.at = "begun", !.op = op, !.n = n, !.key = key] \in Call
BY NoCallIsCall DEF Call

LEMMA InitBase == ASSUME Init PROVE Base
<1>1. TypeOK
  <2> USE DEF Init
  <2>1. {tracking, pg, redis, excused} \subseteq BOOLEAN
    OBVIOUS
  <2>2. /\ applied \in SUBSET Versions
        /\ shape \in {"none", "events", "snapshots"}
        /\ events \in SUBSET Event /\ memory \in SUBSET Event
        /\ notes \in SUBSET Numbers
        /\ briefs \in Seq(Numbers)
        /\ cached \in Seq(Numbers) \cup {None}
        /\ ddl \in Calls \cup {None}
    BY DEF Versions
  <2>3. /\ snaps \in [Numbers -> SUBSET Numbers]
        /\ queue \in [Numbers -> {"none", "pending", "dequeued"}]
        /\ got \in [0 .. MaxOps -> SUBSET Ids]
        /\ handed \in [Numbers -> SUBSET Numbers]
    OBVIOUS
  <2>4. call \in [Calls -> Call]
    BY NoCallIsCall
  <2>5. numbered \in 0 .. MaxOps /\ outages \in 0 .. MaxOutages
    BY StoresAssumption
  <2> QED BY <2>1, <2>2, <2>3, <2>4, <2>5 DEF TypeOK
<1>2. \A c \in Calls : CallRight(c)
  BY DEF Init, NoCall, CallRight
<1> QED BY <1>1, <1>2 DEF Base

\* A step of a call leaves the others alone, and goes on with its own
\* operation or ends it.
LEMMA Moves ==
    ASSUME Base, NEW c \in Calls, CallStep(c)
    PROVE  /\ \A d \in Calls \ {c} : call'[d] = call[d]
           /\ \/ call'[c] = NoCall
              \/ /\ call'[c].at # "idle" /\ call'[c].op = call[c].op
                 /\ call'[c].n = call[c].n /\ call'[c].key = call[c].key
           /\ call[c].at # "idle"
           /\ numbered' = numbered
<1> USE DEF Base, TypeOK, End, GoTo
<1>1. CASE ReadApplied(c) \/ Boot(c)
  BY <1>1 DEF ReadApplied, Boot, Call
<1>2. CASE InsertEvent(c) \/ LookUp(c)
  BY <1>2 DEF InsertEvent, LookUp, Call
<1>3. CASE Retain(c) \/ Look(c) \/ InsertSnapshot(c)
  BY <1>3 DEF Retain, Look, InsertSnapshot, Call
<1>4. CASE InsertBrief(c) \/ Invalidate(c) \/ Enqueue(c) \/ Dequeue(c)
  BY <1>4 DEF InsertBrief, Invalidate, Enqueue, Dequeue, Call
<1>5. CASE Select(c)
  BY <1>5 DEF Select, Call
<1>6. CASE Fill(c) \/ Degrade(c)
  BY <1>6 DEF Fill, Degrade, Loaded, Call
<1>7. CASE Fail(c)
  BY <1>7 DEF Fail, Call
<1> QED BY <1>1, <1>2, <1>3, <1>4, <1>5, <1>6, <1>7 DEF CallStep

LEMMA AppendIsASeq == ASSUME NEW S, NEW s \in Seq(S), NEW x \in S PROVE Append(s, x) \in Seq(S)
OBVIOUS

LEMMA Longer ==
    ASSUME briefs \in Seq(Numbers), NEW n \in Numbers,
           briefs' = Append(briefs, n) \/ briefs' = briefs
    PROVE  briefs' \in Seq(Numbers)
BY AppendIsASeq

LEMMA ShortIsASeq ==
    ASSUME NEW S, NEW s \in Seq(S), s # <<>> PROVE SubSeq(s, 1, Len(s) - 1) \in Seq(S)
OBVIOUS

LEMMA IsASeq == ASSUME NEW S, NEW n \in Nat, NEW f \in [1 .. n -> S] PROVE f \in Seq(S)
OBVIOUS

\* What a read of the table returns are briefs, the latest first.
LEMMA OpenAreNumbers == ASSUME briefs \in Seq(Numbers) PROVE OpenBriefs \in Seq(Numbers)
<1> DEFINE m == IF Len(briefs) < Limit THEN Len(briefs) ELSE Limit
<1>1. m \in Nat /\ m <= Len(briefs) /\ Len(briefs) \in Nat
  BY StoresAssumption
<1>2. \A i \in 1 .. m : briefs[Len(briefs) + 1 - i] \in Numbers
  BY <1>1
<1>3. OpenBriefs \in [1 .. m -> Numbers]
  BY <1>2 DEF OpenBriefs
<1>4. OpenBriefs \in Seq(Numbers)
  BY <1>1, <1>3, IsASeq
<1> QED BY <1>4

LEMMA CallStays ==
    ASSUME Base, NEW c \in Calls, CallStep(c)
    PROVE  call' \in [Calls -> Call] /\ CallRight(c)'
<1> DEFINE k == call[c]
           To(a, done, list) == [k EXCEPT !.at = a, !.done = done, !.list = list]
           Fits(a) == /\ a = "migrating" => k.op \in {"boot", "append"}
                      /\ a = "conflict" => k.op = "append"
                      /\ a = "looked" => k.op = "snapshot"
                      /\ a = "written" => k.op = "brief"
                      /\ a \in {"selected", "down"} => k.op \in {"open", "review"}
                      /\ a = "titled" => k.op = "review"
<1>1. call \in [Calls -> Call] /\ k \in Call /\ briefs \in Seq(Numbers) /\ CallRight(c)
  BY DEF Base, TypeOK
<1>2. numbered' = numbered
  BY Moves
<1>3. ASSUME End(c) PROVE call' \in [Calls -> Call] /\ CallRight(c)'
  BY <1>1, <1>3, NoCallIsCall DEF End, CallRight, NoCall
<1>4. ASSUME NEW a \in {"migrating", "looked", "conflict", "written", "down", "selected", "titled"},
             NEW done \in SUBSET Versions, NEW list \in Seq(Numbers),
             k.at # "idle", Fits(a),
             call' = [call EXCEPT ![c] = To(a, done, list)]
      PROVE  call' \in [Calls -> Call] /\ CallRight(c)'
  <2>1. To(a, done, list) \in Call
    BY <1>1 DEF Call
  <2>2. call' \in [Calls -> Call]
    BY <1>1, <1>4, <2>1
  <2>3. call'[c].at = a /\ call'[c].op = k.op /\ call'[c].n = k.n /\ call'[c].key = k.key
    BY <1>1, <1>4 DEF Call
  <2> QED BY <1>1, <1>2, <1>4, <2>2, <2>3 DEF CallRight
<1>5. k.done \in SUBSET Versions /\ k.list \in Seq(Numbers)
  BY <1>1 DEF Call
<1>6. ASSUME NEW a \in {"looked", "conflict", "written", "down"},
             k.at # "idle", Fits(a), GoTo(c, a)
      PROVE  call' \in [Calls -> Call] /\ CallRight(c)'
  <2>1. call' = [call EXCEPT ![c] = To(a, k.done, k.list)]
    BY <1>1, <1>6 DEF GoTo, Call
  <2>2. a \in {"migrating", "looked", "conflict", "written", "down", "selected", "titled"}
    BY <1>6
  <2> HIDE DEF To, Fits, k
  <2> QED BY <1>4, <1>5, <1>6, <2>1, <2>2
<1>7. ASSUME NEW a \in {"selected", "titled"}, NEW list \in Seq(Numbers),
             k.at # "idle", Fits(a), call' = [call EXCEPT ![c].at = a, ![c].list = list]
      PROVE  call' \in [Calls -> Call] /\ CallRight(c)'
  <2>1. call' = [call EXCEPT ![c] = To(a, k.done, list)]
    BY <1>1, <1>7 DEF Call
  <2>2. a \in {"migrating", "looked", "conflict", "written", "down", "selected", "titled"}
    BY <1>7
  <2> HIDE DEF To, Fits, k
  <2> QED BY <1>4, <1>5, <1>7, <2>1, <2>2
<1>8. CASE ReadApplied(c)
  <2>1. applied \in SUBSET Versions /\ k.at # "idle" /\ Fits("migrating")
    BY <1>8 DEF ReadApplied, Base, TypeOK
  <2>2. call' = [call EXCEPT ![c] = To("migrating", applied, k.list)]
    BY <1>1, <1>8 DEF ReadApplied, Call
  <2> HIDE DEF To, Fits, k
  <2> QED BY <1>4, <1>5, <2>1, <2>2
<1>9. CASE End(c)
  BY <1>3, <1>9
<1>10. CASE InsertEvent(c) /\ ~End(c)
  BY <1>6, <1>10 DEF InsertEvent
<1>11. CASE Look(c) /\ ~End(c)
  BY <1>6, <1>11 DEF Look
<1>12. CASE InsertBrief(c) /\ ~End(c)
  BY <1>6, <1>12 DEF InsertBrief
<1>13. CASE Select(c)
  <2>1. k.at # "idle" /\ k.op \in {"open", "review"}
    BY <1>13 DEF Select
  <2>2. OpenBriefs \in Seq(Numbers)
    BY <1>1, OpenAreNumbers
  <2>3. CASE GoTo(c, "down")
    BY <1>6, <2>1, <2>3
  <2>4. CASE call' = [call EXCEPT ![c].at = "selected", ![c].list = OpenBriefs]
    BY <1>7, <2>1, <2>2, <2>4
  <2> QED BY <1>13, <2>3, <2>4 DEF Select
<1>14. ASSUME NEW list \in Seq(Numbers), Loaded(c, list), ~End(c),
              k.at \in {"selected", "down"}
       PROVE  call' \in [Calls -> Call] /\ CallRight(c)'
  <2>1. k.at # "idle" /\ k.op = "review"
    BY <1>1, <1>14 DEF Loaded, CallRight
  <2>2. call' = [call EXCEPT ![c].at = "titled", ![c].list = list]
    BY <1>14, <2>1 DEF Loaded
  <2> QED BY <1>7, <2>1, <2>2
<1>15. CASE Fill(c) /\ ~End(c)
  BY <1>5, <1>14, <1>15 DEF Fill
<1>16. CASE Degrade(c) /\ ~End(c)
  <2>1. cached \in Seq(Numbers) \cup {None} /\ <<>> \in Seq(Numbers)
    BY DEF Base, TypeOK
  <2>2. (IF redis /\ cached # None THEN cached ELSE <<>>) \in Seq(Numbers)
    BY <2>1
  <2>3. Loaded(c, IF redis /\ cached # None THEN cached ELSE <<>>) /\ k.at = "down"
    BY <1>16 DEF Degrade
  <2> QED BY <1>14, <1>16, <2>2, <2>3
<1>17. CASE Fail(c) /\ ~End(c)
  BY <1>6, <1>17 DEF Fail
<1>18. Boot(c) \/ LookUp(c) \/ Retain(c) \/ InsertSnapshot(c) \/ Invalidate(c)
         \/ Enqueue(c) \/ Dequeue(c) => End(c)
  BY DEF Boot, LookUp, Retain, InsertSnapshot, Invalidate, Enqueue, Dequeue
<1> QED
  BY <1>8, <1>9, <1>10, <1>11, <1>12, <1>13, <1>15, <1>18, <1>16, <1>17 DEF CallStep

LEMMA RowsStay ==
    ASSUME Base, NEW c \in Calls, CallStep(c)
    PROVE  /\ events' \in SUBSET Event /\ memory' \in SUBSET Event
           /\ got' \in [0 .. MaxOps -> SUBSET Ids]
           /\ notes' \in SUBSET Numbers
           /\ snaps' \in [Numbers -> SUBSET Numbers]
<1> USE DEF Base, TypeOK, CallRight, rows, history
<1>0. call[c] \in Call /\ CallRight(c) /\ (call[c].at # "idle" => call[c].n \in Numbers)
  BY StoresAssumption DEF Call, Numbers
<1>1. Backfilled(c) \in SUBSET Event
  BY StoresAssumption DEF Backfilled, Event, Ids, Numbers
<1>2. ASSUME call[c].at # "idle"
      PROVE  /\ [id |-> <<"append", call[c].n>>, key |-> call[c].key] \in Event
             /\ <<"append", call[c].n>> \in Ids
  BY <1>0, <1>2 DEF Event, Ids, Call
<1>3. ASSUME NEW id \in Ids, Answered(c, id) PROVE got' \in [0 .. MaxOps -> SUBSET Ids]
  BY <1>0, <1>3 DEF Answered, Call
<1>4. ASSUME Fallback(c), call[c].at # "idle"
      PROVE  memory' \in SUBSET Event /\ got' \in [0 .. MaxOps -> SUBSET Ids]
  <2>1. \A e \in Event : e.id \in Ids
    BY DEF Event
  <2> QED BY <1>2, <1>3, <1>4, <2>1 DEF Fallback
<1>5. CASE ReadApplied(c)
  BY <1>5 DEF ReadApplied
<1>6. CASE Boot(c)
  BY <1>1, <1>6 DEF Boot
<1>7. CASE InsertEvent(c)
  <2>1. call[c].at # "idle" /\ UNCHANGED <<notes, snaps>>
    BY <1>7 DEF InsertEvent
  <2>2. events' \in SUBSET Event
    BY <1>1, <1>2, <1>7, <2>1 DEF InsertEvent
  <2>3. memory' \in SUBSET Event /\ got' \in [0 .. MaxOps -> SUBSET Ids]
    BY <1>2, <1>3, <1>4, <1>7, <2>1 DEF InsertEvent
  <2> QED BY <2>1, <2>2, <2>3
<1>8. CASE LookUp(c)
  BY <1>3, <1>8 DEF LookUp, Event
<1>9. CASE Retain(c)
  BY <1>0, <1>9 DEF Retain
<1>10. CASE InsertSnapshot(c)
  BY <1>0, <1>10 DEF InsertSnapshot
<1>11. CASE Look(c) \/ InsertBrief(c) \/ Invalidate(c) \/ Select(c) \/ Fill(c)
            \/ Degrade(c) \/ Enqueue(c) \/ Dequeue(c)
  BY <1>11 DEF Look, InsertBrief, Invalidate, Select, Fill, Degrade, Enqueue, Dequeue
<1>12. CASE Fail(c)
  <2>1. call[c].at # "idle" /\ UNCHANGED <<events, notes, snaps>>
    BY <1>12 DEF Fail
  <2> QED BY <1>4, <1>12, <2>1 DEF Fail
<1> QED BY <1>5, <1>6, <1>7, <1>8, <1>9, <1>10, <1>11, <1>12 DEF CallStep

LEMMA BoardStays ==
    ASSUME Base, NEW c \in Calls, CallStep(c)
    PROVE  /\ applied' \in SUBSET Versions
           /\ shape' \in {"none", "events", "snapshots"}
           /\ {tracking', excused'} \subseteq BOOLEAN
           /\ ddl' \in Calls \cup {None}
           /\ briefs' \in Seq(Numbers) /\ cached' \in Seq(Numbers) \cup {None}
           /\ queue' \in [Numbers -> {"none", "pending", "dequeued"}]
           /\ handed' \in [Numbers -> SUBSET Numbers]
           /\ UNCHANGED <<pg, redis, outages, numbered>>
<1> USE DEF Base, TypeOK, CallRight, schema, board, history, net, Release
<1>0. call[c] \in Call /\ CallRight(c) /\ (call[c].at # "idle" => call[c].n \in Numbers)
  BY StoresAssumption DEF Call, Numbers
<1>1. CASE ReadApplied(c)
  BY <1>1 DEF ReadApplied
<1>2. CASE Boot(c)
  BY <1>2 DEF Boot, Migrated, Pending
<1>3. CASE InsertEvent(c)
  BY <1>3 DEF InsertEvent, Migrated, Pending
<1>4. CASE LookUp(c) \/ Retain(c) \/ Look(c) \/ Select(c) \/ Degrade(c) \/ Fail(c)
  BY <1>4 DEF LookUp, Retain, Look, Select, Degrade, Fail
<1>5. CASE InsertSnapshot(c)
  BY <1>5 DEF InsertSnapshot
<1>6. CASE InsertBrief(c)
  <2>1. PICK n \in Numbers : briefs' = Append(briefs, n) \/ briefs' = briefs
    BY <1>0, <1>6 DEF InsertBrief
  <2>2. briefs \in Seq(Numbers) /\ excused' \in BOOLEAN
    BY <1>6 DEF InsertBrief
  <2>3. briefs' \in Seq(Numbers)
    BY <2>1, <2>2, Longer
  <2> QED BY <1>6, <2>2, <2>3 DEF InsertBrief
<1>7. CASE Invalidate(c)
  BY <1>7 DEF Invalidate, Drop
<1>8. CASE Fill(c)
  BY <1>0, <1>8 DEF Fill, Drop, Call
<1>9. CASE Enqueue(c)
  BY <1>0, <1>9 DEF Enqueue
<1>10. CASE Dequeue(c)
  BY <1>0, <1>10 DEF Dequeue
<1> QED BY <1>1, <1>2, <1>3, <1>4, <1>5, <1>6, <1>7, <1>8, <1>9, <1>10 DEF CallStep


LEMMA BeginBase == ASSUME Base, NEW c \in Calls, Begin(c) PROVE Base'
<1> USE DEF Base, TypeOK, schema, rows, board, history, net
<1>1. PICK op \in Ops : \E k \in KeysOf(op) :
        call' = [call EXCEPT ![c] = [NoCall EXCEPT !.at = "begun", !.op = op,
                                        !.n = numbered + 1, !.key = k]]
  BY DEF Begin
<1>2. PICK key \in KeysOf(op) :
        call' = [call EXCEPT ![c] = [NoCall EXCEPT !.at = "begun", !.op = op,
                                        !.n = numbered + 1, !.key = key]]
  BY <1>1
<1>3. /\ numbered \in 0 .. MaxOps /\ numbered' \in 1 .. MaxOps /\ numbered' = numbered + 1
      /\ MaxOps \in Nat
  BY StoresAssumption DEF Begin
<1>4. op \in AllOps /\ key \in 0 .. MaxOps /\ (op \in {"snapshot", "dequeue"} => key \in Numbers)
  <2>1. op \in AllOps
    BY OpsAreOps
  <2>2. notes \in SUBSET Numbers
    OBVIOUS
  <2> QED BY <1>3, <2>1, <2>2 DEF KeysOf, Numbers, AllOps
<1>5. [NoCall EXCEPT !.at = "begun", !.op = op, !.n = numbered + 1, !.key = key] \in Call
  <2>1. numbered + 1 \in 0 .. MaxOps
    BY <1>3
  <2> QED BY <1>4, <2>1, NewCall
<1>6. call' \in [Calls -> Call]
  BY <1>2, <1>5
<1>7. UNCHANGED <<schema, rows, board, ddl, history, net>>
  BY DEF Begin
<1>8. TypeOK'
  <2>1. numbered' \in 0 .. MaxOps
    BY <1>3
  <2> QED BY <1>6, <1>7, <2>1
<1>9. ASSUME NEW d \in Calls PROVE CallRight(d)'
  <2>1. CASE d = c
    BY <1>2, <1>3, <1>4, <2>1 DEF CallRight, NoCall
  <2>2. CASE d # c
    <3>1. call'[d] = call[d] /\ CallRight(d)
      BY <1>2, <2>2
    <3> QED BY <1>3, <3>1 DEF CallRight
  <2> QED BY <2>1, <2>2
<1> QED BY <1>8, <1>9

LEMMA CallStepBase == ASSUME Base, NEW c \in Calls, CallStep(c) PROVE Base'
<1>1. TypeOK'
  <2>1. {tracking, pg, redis, excused} \subseteq BOOLEAN /\ numbered \in 0 .. MaxOps
        /\ outages \in 0 .. MaxOutages
    BY DEF Base, TypeOK
  <2> QED BY <2>1, CallStays, RowsStay, BoardStays DEF TypeOK
<1>2. ASSUME NEW d \in Calls PROVE CallRight(d)'
  <2>1. CASE d = c
    BY <2>1, CallStays
  <2>2. CASE d # c
    <3>1. call'[d] = call[d] /\ numbered' = numbered /\ CallRight(d)
      BY <2>2, Moves DEF Base
    <3> QED BY <3>1 DEF CallRight
  <2> QED BY <2>1, <2>2
<1> QED BY <1>1, <1>2 DEF Base

Outside == PgFails \/ PgReturns \/ RedisFails \/ RedisReturns \/ CloseBrief

LEMMA OutsideBase == ASSUME Base, Outside PROVE Base'
<1> USE DEF Base, TypeOK, schema, rows, board, history, net
<1>1. CASE PgReturns \/ RedisFails \/ RedisReturns
  <2>1. outages' \in 0 .. MaxOutages
    BY <1>1, StoresAssumption DEF PgReturns, RedisFails, RedisReturns
  <2>2. UNCHANGED <<schema, rows, board, ddl, call, history, numbered>>
    BY <1>1 DEF PgReturns, RedisFails, RedisReturns
  <2>3. {tracking, pg, redis, excused}' \subseteq BOOLEAN
    BY <1>1, <2>2 DEF PgReturns, RedisFails, RedisReturns
  <2> QED BY <2>1, <2>2, <2>3 DEF CallRight
<1>2. CASE PgFails
  <2>1. ASSUME NEW d \in Calls
        PROVE  /\ call'[d] = call[d] \/ call'[d] = [call[d] EXCEPT !.at = "broken"]
               /\ call'[d] \in Call /\ CallRight(d)'
    BY <1>2 DEF PgFails, Call, CallRight
  <2>2. call' \in [Calls -> Call]
    BY <1>2, <2>1 DEF PgFails
  <2>3. outages' \in 0 .. MaxOutages
    BY <1>2, StoresAssumption DEF PgFails
  <2> QED BY <1>2, <2>1, <2>2, <2>3 DEF PgFails
<1>3. CASE CloseBrief
  <2>1. outages' \in 0 .. MaxOutages
    BY <1>3, StoresAssumption DEF CloseBrief
  <2>2. briefs' \in Seq(Numbers)
    <3>1. briefs' = SubSeq(briefs, 1, Len(briefs) - 1) /\ briefs # <<>> /\ briefs \in Seq(Numbers)
      BY <1>3 DEF CloseBrief
    <3> QED BY <3>1, ShortIsASeq
  <2>3. \A d \in Calls : CallRight(d)'
    BY <1>3 DEF CloseBrief, CallRight
  <2> QED BY <1>3, <2>1, <2>2, <2>3 DEF CloseBrief
<1> QED BY <1>1, <1>2, <1>3 DEF Outside

LEMMA NextBase == ASSUME Base, [Next]_vars PROVE Base'
<1>1. CASE Next
  BY <1>1, BeginBase, CallStepBase, OutsideBase DEF Next, Outside
<1>2. CASE UNCHANGED vars
  BY <1>2 DEF vars, schema, rows, board, history, net, Base, TypeOK, CallRight
<1> QED BY <1>1, <1>2

\* However calls, outages and lost answers interleave, what is stored keeps
\* its form, and a call that is under way has a number and an operation that
\* goes where it is (advoi/db/migrations.py and the stores beside it).
THEOREM TypeCorrect == Spec => []TypeOK
<1>1. Init => Base
  BY InitBase
<1>2. Base /\ [Next]_vars => Base'
  BY NextBase
<1>3. Base => TypeOK
  BY DEF Base
<1> QED BY <1>1, <1>2, <1>3, PTL DEF Spec

-------------------------------------------------------------------------------
\* The schema

\* What a call has read or looked up still holds: versions are only added, and
\* a table that was missing is missing while the call holds the lock.
StillSo(c) ==
    /\ call[c].at = "migrating" => call[c].done \subseteq applied
    /\ call[c].at = "looked" => shape = "snapshots" \/ (shape = "none" /\ ddl = c)

SchemaInv ==
    /\ SchemaIsSound
    /\ ~tracking => applied = {}
    /\ \A c \in Calls : StillSo(c)

\* A migration that goes through leaves every version applied, and the table
\* is the event log's.
LEMMA AllApplied ==
    ASSUME Base, SchemaInv, NEW c \in Calls, call[c].at = "migrating",
           Appliable(c), Migrated(c)
    PROVE  /\ applied' = Versions /\ shape' = "events" /\ tracking'
           /\ \A t \in Numbers : snaps[t] = {}
           /\ Pending(c) = {} => UNCHANGED <<applied, shape>>
<1> USE DEF Base, TypeOK, SchemaInv, StillSo, SchemaIsSound, RecordedIsApplied
<1>1. call[c].done \subseteq applied /\ applied \subseteq Versions
  OBVIOUS
<1>2. applied' = Versions /\ tracking'
  BY <1>1 DEF Migrated, Pending
<1>3. shape' = "events"
  BY <1>1 DEF Migrated, Pending, Versions
<1>4. shape # "snapshots"
  BY <1>1 DEF Appliable, Pending, Versions
<1> QED BY <1>1, <1>2, <1>3, <1>4 DEF Migrated, Pending

\* A call that neither holds the lock nor has looked disturbs nothing of it.
LEMMA SchemaRests ==
    ASSUME Base, SchemaInv, NEW c \in Calls,
           UNCHANGED <<tracking, applied, shape, events, snaps, ddl>>,
           \A d \in Calls \ {c} : call'[d] = call[d],
           call[c].at \notin {"migrating", "looked"},
           call'[c].at \notin {"migrating", "looked"}
    PROVE  SchemaInv'
<1> USE DEF SchemaInv, SchemaIsSound
<1>1. RecordedIsApplied'
  BY DEF RecordedIsApplied, HasBaseline
<1>2. LockIsHeld'
  <2>1. CASE ddl = None
    BY <2>1 DEF LockIsHeld
  <2>2. CASE ddl # None
    BY <2>2 DEF LockIsHeld, Pending, Base, TypeOK
  <2> QED BY <2>1, <2>2
<1>3. \A d \in Calls : StillSo(d)'
  BY DEF StillSo
<1> QED BY <1>1, <1>2, <1>3

\* The end of a migration.
LEMMA MigrationEnds ==
    ASSUME Base, SchemaInv, NEW c \in Calls, call[c].at = "migrating",
           Pending(c) = {} \/ LockFree(c), Release(c),
           \A d \in Calls \ {c} : call'[d] = call[d],
           call'[c].at \notin {"migrating", "looked"},
           UNCHANGED snaps,
           \/ UNCHANGED <<schema, events>>
           \/ Appliable(c) /\ Migrated(c)
    PROVE  SchemaInv'
<1> USE DEF SchemaInv, SchemaIsSound
<1>1. LockIsHeld'
  BY DEF LockIsHeld, Release, Pending, Base, TypeOK
<1>2. CASE UNCHANGED <<schema, events>>
  <2>1. RecordedIsApplied' /\ (~tracking' => applied' = {})
    BY <1>2 DEF RecordedIsApplied, HasBaseline, schema
  <2>2. \A d \in Calls : StillSo(d)'
    BY <1>2 DEF StillSo, schema, Release
  <2> QED BY <1>1, <2>1, <2>2
<1>3. CASE Appliable(c) /\ Migrated(c)
  <2>1. /\ applied' = Versions /\ shape' = "events" /\ tracking'
        /\ \A t \in Numbers : snaps[t] = {}
        /\ Pending(c) = {} => UNCHANGED <<applied, shape>>
    BY <1>3, AllApplied
  <2>2. RecordedIsApplied'
    BY <2>1 DEF RecordedIsApplied, HasBaseline, Versions
  <2>3. ASSUME NEW d \in Calls PROVE StillSo(d)'
    <3>1. CASE d = c
      BY <3>1 DEF StillSo
    <3>2. CASE d # c /\ call[d].at = "looked"
      <4>1. shape = "snapshots" \/ (shape = "none" /\ ddl = d)
        BY <3>2 DEF StillSo
      <4>2. Pending(c) = {} => shape = "events"
        BY <2>1
      <4>3. ddl \in {None, c} /\ shape = "snapshots"
        BY <3>2, <4>1, <4>2, StoresAssumption DEF LockFree
      <4>4. "events" \notin applied /\ call[c].done \subseteq applied
        BY <4>3 DEF RecordedIsApplied, StillSo
      <4> QED BY <1>3, <4>3, <4>4 DEF Appliable, Pending, Versions
    <3>3. CASE d # c /\ call[d].at # "looked"
      <4>1. call[d] \in Call
        BY DEF Base, TypeOK
      <4> QED BY <2>1, <3>3, <4>1 DEF StillSo, Call
    <3> QED BY <3>1, <3>2, <3>3
  <2> QED BY <1>1, <2>1, <2>2, <2>3
<1> QED BY <1>2, <1>3


LEMMA SchemaCall == ASSUME Base, SchemaInv, NEW c \in Calls, CallStep(c) PROVE SchemaInv'
<1>1. /\ \A d \in Calls \ {c} : call'[d] = call[d]
      /\ \/ call'[c] = NoCall
         \/ call'[c].op = call[c].op /\ call'[c].n = call[c].n
      /\ call[c].at # "idle"
      /\ call \in [Calls -> Call] /\ call[c] \in Call /\ CallRight(c)
  BY Moves DEF Base, TypeOK
<1>2. NoCall.at = "idle"
  BY DEF NoCall
<1>3. CASE ReadApplied(c)
  <2>1. /\ call'[c].at = "migrating" /\ call'[c].done = applied
        /\ tracking \/ LockFree(c)
        /\ ddl' = IF tracking THEN ddl ELSE c
        /\ UNCHANGED <<tracking, applied, shape, events, snaps>>
        /\ call[c].at = "begun"
    BY <1>1, <1>3 DEF ReadApplied, schema, rows
  <2>2. RecordedIsApplied' /\ (~tracking' => applied' = {})
    BY <2>1 DEF SchemaInv, SchemaIsSound, RecordedIsApplied, HasBaseline
  <2>3. LockIsHeld'
    <3>1. CASE tracking
      BY <1>1, <2>1, <3>1 DEF SchemaInv, SchemaIsSound, LockIsHeld, Pending, Base, TypeOK
    <3>2. CASE ~tracking
      BY <1>1, <2>1, <3>2 DEF SchemaInv, LockIsHeld, Pending, Versions
    <3> QED BY <3>1, <3>2
  <2>4. ASSUME NEW d \in Calls PROVE StillSo(d)'
    <3>1. StillSo(d) /\ (~tracking => ddl \in {None, c})
      BY <2>1 DEF SchemaInv, LockFree
    <3> QED BY <1>1, <2>1, <3>1, StoresAssumption DEF StillSo
  <2> QED BY <2>2, <2>3, <2>4 DEF SchemaInv, SchemaIsSound
<1>4. CASE Boot(c)
  <2>1. call'[c].at \notin {"migrating", "looked"}
    BY <1>1, <1>2, <1>4 DEF Boot, End
  <2> QED BY <1>1, <1>4, <2>1, MigrationEnds DEF Boot
<1>5. CASE InsertEvent(c)
  <2>1. call'[c].at \notin {"migrating", "looked"}
    <3>1. End(c) \/ GoTo(c, "conflict")
      BY <1>5 DEF InsertEvent
    <3> QED BY <1>1, <1>2, <3>1 DEF End, GoTo, Call
  <2> QED BY <1>1, <1>5, <2>1, MigrationEnds DEF InsertEvent
<1>6. CASE Look(c)
  <2> DEFINE there == shape = "events" \/ snaps[call[c].key] # {}
  <2>1. /\ UNCHANGED <<tracking, applied, shape, events, snaps>>
        /\ call[c].at = "begun" /\ call[c].key \in Numbers
        /\ shape = "none" => ddl \in {None, c}
        /\ ddl' = IF shape = "none" THEN c ELSE ddl
        /\ IF there THEN End(c) ELSE GoTo(c, "looked")
    BY <1>1, <1>6 DEF Look, LockFree, CallRight, schema, rows
  <2>2. CASE there
    <3>1. shape # "none"
      BY <2>1, <2>2 DEF SchemaInv, SchemaIsSound, RecordedIsApplied
    <3>2. call'[c].at = "idle"
      BY <1>1, <1>2, <2>1, <2>2 DEF End
    <3> HIDE DEF there
    <3> QED BY <1>1, <2>1, <3>1, <3>2, SchemaRests
  <2>3. CASE ~there
    <3>1. /\ call'[c].at = "looked" /\ shape # "events"
          /\ shape = "none" => ddl \in {None, c}
          /\ ddl' = IF shape = "none" THEN c ELSE ddl
          /\ UNCHANGED <<tracking, applied, shape, events, snaps>>
          /\ call[c].at = "begun"
      BY <1>1, <2>1, <2>3 DEF GoTo, Call
    <3>2. RecordedIsApplied' /\ (~tracking' => applied' = {})
      BY <3>1 DEF SchemaInv, SchemaIsSound, RecordedIsApplied, HasBaseline
    <3>3. LockIsHeld'
      BY <1>1, <3>1 DEF SchemaInv, SchemaIsSound, LockIsHeld, Pending, Base, TypeOK
    <3>4. ASSUME NEW d \in Calls PROVE StillSo(d)'
      BY <1>1, <3>1, StoresAssumption DEF StillSo, SchemaInv, Base, TypeOK
    <3> QED BY <3>2, <3>3, <3>4 DEF SchemaInv, SchemaIsSound
  <2> QED BY <2>2, <2>3
<1>7. CASE InsertSnapshot(c)
  <2>1. /\ call'[c].at = "idle" /\ call[c].at = "looked" /\ Release(c)
        /\ UNCHANGED <<tracking, applied, events>>
        /\ shape' = "snapshots" \/ UNCHANGED <<shape, snaps>>
    BY <1>1, <1>2, <1>7 DEF InsertSnapshot, End
  <2>2. shape \in {"none", "snapshots"}
    BY <2>1 DEF SchemaInv, StillSo
  <2>3. RecordedIsApplied' /\ (~tracking' => applied' = {})
    BY <2>1, <2>2 DEF SchemaInv, SchemaIsSound, RecordedIsApplied, HasBaseline
  <2>4. LockIsHeld'
    BY <1>1, <2>1 DEF SchemaInv, SchemaIsSound, LockIsHeld, Release, Pending, Base, TypeOK
  <2>5. ASSUME NEW d \in Calls PROVE StillSo(d)'
    BY <1>1, <2>1 DEF StillSo, SchemaInv, Release
  <2> QED BY <2>3, <2>4, <2>5 DEF SchemaInv, SchemaIsSound
<1>8. CASE LookUp(c) \/ Retain(c) \/ InsertBrief(c) \/ Invalidate(c) \/ Select(c)
           \/ Enqueue(c) \/ Dequeue(c) \/ Fail(c)
  <2>1. /\ call[c].at \notin {"migrating", "looked"}
        /\ call'[c].at \notin {"migrating", "looked"}
        /\ UNCHANGED <<tracking, applied, shape, events, snaps, ddl>>
    BY <1>1, <1>2, <1>8 DEF LookUp, Retain, InsertBrief, Invalidate, Select, Enqueue, Dequeue, Fail,
                      End, GoTo, schema, rows, Call
  <2> QED BY <1>1, <2>1, SchemaRests
<1>9. CASE Fill(c) \/ Degrade(c)
  <2>1. /\ call[c].at \notin {"migrating", "looked"}
        /\ call'[c].at \notin {"migrating", "looked"}
        /\ UNCHANGED <<tracking, applied, shape, events, snaps, ddl>>
    BY <1>1, <1>2, <1>9 DEF Fill, Degrade, Loaded, End, schema, rows, Call
  <2> QED BY <1>1, <2>1, SchemaRests
<1> QED BY <1>3, <1>4, <1>5, <1>6, <1>7, <1>8, <1>9 DEF CallStep

LEMMA SchemaNext == ASSUME Base, SchemaInv, [Next]_vars PROVE SchemaInv'
<1>1. ASSUME NEW c \in Calls, Begin(c) PROVE SchemaInv'
  <2>1. /\ call[c].at = "idle" /\ call'[c].at = "begun"
        /\ \A d \in Calls \ {c} : call'[d] = call[d]
        /\ UNCHANGED <<tracking, applied, shape, events, snaps, ddl>>
    BY <1>1 DEF Begin, schema, rows, NoCall, Base, TypeOK, Call
  <2> QED BY <2>1, SchemaRests
<1>2. CASE PgFails
  <2>1. /\ ddl' = None /\ UNCHANGED <<tracking, applied, shape, events, snaps>>
        /\ \A d \in Calls : call'[d].at \notin {"migrating", "looked"}
    BY <1>2 DEF PgFails, schema, rows, Base, TypeOK, Call
  <2>2. RecordedIsApplied'
    BY <2>1 DEF SchemaInv, SchemaIsSound, RecordedIsApplied, HasBaseline
  <2> QED BY <2>1, <2>2 DEF SchemaInv, SchemaIsSound, LockIsHeld, StillSo
<1>3. CASE UNCHANGED <<tracking, applied, shape, events, snaps, ddl, call>>
  BY <1>3 DEF SchemaInv, SchemaIsSound, RecordedIsApplied, HasBaseline, LockIsHeld, Pending, StillSo
<1>4. CASE PgReturns \/ RedisFails \/ RedisReturns \/ CloseBrief \/ UNCHANGED vars
  BY <1>3, <1>4 DEF PgReturns, RedisFails, RedisReturns, CloseBrief, vars, schema, rows
<1> QED BY <1>1, <1>2, <1>4, SchemaCall DEF Next

\* However the boots, the appends and the gate snapshots of several processes
\* interleave, fail or lose an answer, the schema is what schema_migrations
\* says of it, the two tables of one name are never mixed, and the schema's
\* lock is held only by a call that will release it (apply_pending_migrations).
THEOREM SchemaStays == Spec => []SchemaIsSound
<1>1. Init => Base /\ SchemaInv
  <2>1. ASSUME Init PROVE SchemaInv
    BY <2>1 DEF Init, SchemaInv, SchemaIsSound, RecordedIsApplied, LockIsHeld, HasBaseline, StillSo,
                NoCall, Versions
  <2> QED BY <2>1, InitBase
<1>2. Base /\ SchemaInv /\ [Next]_vars => Base' /\ SchemaInv'
  BY NextBase, SchemaNext
<1>3. SchemaInv => SchemaIsSound
  BY DEF SchemaInv
<1> QED BY <1>1, <1>2, <1>3, PTL DEF Spec

-------------------------------------------------------------------------------
\* The review queue

\* Two calls never share a number, and a review's item is in the queue only
\* once the review is through.
OwnItem(c) ==
    call[c].at # "idle" =>
        /\ \A d \in Calls \ {c} : call[d].at # "idle" => call[d].n # call[c].n
        /\ call[c].op = "review" => queue[call[c].n] = "none"

HandedInv ==
    /\ HandedOnce
    /\ \A q \in Numbers : q > numbered => queue[q] = "none"
    /\ \A c \in Calls : OwnItem(c)

\* A step that leaves the queue alone, and at most ends a call.
LEMMA QueueRests ==
    ASSUME HandedInv, UNCHANGED <<queue, handed, numbered>>,
           \A d \in Calls : \/ call'[d].at = "idle"
                            \/ /\ call[d].at # "idle" /\ call'[d].op = call[d].op
                               /\ call'[d].n = call[d].n
    PROVE  HandedInv'
BY DEF HandedInv, HandedOnce, OwnItem

LEMMA HandedNext == ASSUME Base, HandedInv, [Next]_vars PROVE HandedInv'
<1> USE DEF Base, TypeOK, HandedInv
<1>1. ASSUME NEW c \in Calls, Begin(c) PROVE HandedInv'
  <2>1. /\ numbered' = numbered + 1 /\ numbered \in Nat /\ numbered' \in Numbers
        /\ call[c].at = "idle"
        /\ UNCHANGED <<queue, handed>>
    BY <1>1, StoresAssumption DEF Begin, board, history, Numbers
  <2>2. /\ call'[c].n = numbered' /\ call'[c].at = "begun"
        /\ \A d \in Calls \ {c} : call'[d] = call[d]
    BY <1>1 DEF Begin, NoCall
  <2>3. \A d \in Calls : call[d].at # "idle" => call[d].n \in 1 .. numbered
    BY DEF CallRight
  <2>4. \A q \in Numbers : q > numbered' => queue'[q] = "none"
    BY <2>1 DEF Numbers
  <2>5. ASSUME NEW d \in Calls PROVE OwnItem(d)'
    <3>1. CASE d = c
      <4>1. queue[numbered'] = "none"
        BY <2>1 DEF Numbers
      <4>2. ASSUME NEW e \in Calls \ {c}, call'[e].at # "idle" PROVE call'[e].n # call'[c].n
        BY <2>1, <2>2, <2>3, <4>2
      <4> QED BY <2>1, <2>2, <3>1, <4>1, <4>2 DEF OwnItem
    <3>2. CASE d # c
      <4>1. OwnItem(d) /\ call'[d] = call[d]
        BY <2>2, <3>2
      <4>2. ASSUME call[d].at # "idle" PROVE call[d].n # numbered'
        BY <2>1, <2>3, <4>2
      <4> QED BY <2>1, <2>2, <4>1, <4>2 DEF OwnItem
    <3> QED BY <3>1, <3>2
  <2> QED BY <2>1, <2>4, <2>5 DEF HandedOnce
<1>2. ASSUME NEW c \in Calls, Enqueue(c) PROVE HandedInv'
  <2>1. CallStep(c) /\ call[c] \in Call /\ CallRight(c)
    BY <1>2 DEF CallStep
  <2>2. /\ \A d \in Calls \ {c} : call'[d] = call[d]
        /\ numbered' = numbered
    BY <2>1, Moves
  <2>3. /\ call'[c].at = "idle" /\ call[c].at = "titled" /\ call[c].op = "review"
        /\ call[c].n \in 1 .. numbered /\ call[c].n \in Numbers
        /\ handed' = handed
        /\ queue' = queue \/ queue' = [queue EXCEPT ![call[c].n] = "pending"]
    BY <1>2, <2>1, StoresAssumption DEF Enqueue, End, NoCall, CallRight, history, Numbers
  <2>4. CASE queue' = queue
    BY <2>2, <2>3, <2>4, QueueRests
  <2>5. CASE queue' = [queue EXCEPT ![call[c].n] = "pending"]
    <3>1. queue[call[c].n] = "none"
      BY <2>3 DEF OwnItem
    <3>2. HandedOnce'
      BY <2>3, <2>5, <3>1 DEF HandedOnce
    <3>3. \A q \in Numbers : q > numbered' => queue'[q] = "none"
      BY <2>2, <2>3, <2>5 DEF Numbers
    <3>4. ASSUME NEW d \in Calls PROVE OwnItem(d)'
      BY <2>2, <2>3, <2>5 DEF OwnItem
    <3> QED BY <3>2, <3>3, <3>4
  <2> QED BY <2>3, <2>4, <2>5
<1>3. ASSUME NEW c \in Calls, Dequeue(c) PROVE HandedInv'
  <2>1. CallStep(c) /\ call[c] \in Call /\ CallRight(c)
    BY <1>3 DEF CallStep
  <2>2. /\ \A d \in Calls \ {c} : call'[d] = call[d]
        /\ numbered' = numbered
    BY <2>1, Moves
  <2>3. /\ call'[c].at = "idle" /\ call[c].at = "begun" /\ call[c].key \in Numbers
        /\ \/ UNCHANGED <<queue, handed>>
           \/ /\ queue[call[c].key] = "pending"
              /\ queue' = [queue EXCEPT ![call[c].key] = "dequeued"]
              /\ \/ handed' = [handed EXCEPT ![call[c].key] = @ \cup {call[c].n}]
                 \/ UNCHANGED handed
    BY <1>3, <2>1 DEF Dequeue, End, NoCall, CallRight
  <2>4. CASE UNCHANGED <<queue, handed>>
    BY <2>2, <2>3, <2>4, QueueRests
  <2>5. CASE ~UNCHANGED <<queue, handed>>
    <3>1. handed[call[c].key] = {}
      BY <2>3, <2>5 DEF HandedOnce
    <3>2. HandedOnce'
      BY <2>3, <2>5, <3>1 DEF HandedOnce
    <3>3. \A q \in Numbers : q > numbered' => queue'[q] = "none"
      BY <2>2, <2>3, <2>5
    <3>4. ASSUME NEW d \in Calls PROVE OwnItem(d)'
      <4>1. CASE d = c
        BY <2>3, <4>1 DEF OwnItem
      <4>2. CASE d # c /\ call[d].at # "idle"
        <5>1. call'[d] = call[d] /\ call[d].n \in Numbers /\ OwnItem(d)
          BY <2>2, <4>2, StoresAssumption DEF CallRight, Numbers
        <5>2. call[d].op = "review" => queue'[call[d].n] = "none"
          BY <2>3, <2>5, <4>2, <5>1 DEF OwnItem
        <5> QED BY <2>2, <2>3, <4>2, <5>1, <5>2 DEF OwnItem
      <4>3. CASE d # c /\ call[d].at = "idle"
        BY <2>2, <4>3 DEF OwnItem
      <4> QED BY <4>1, <4>2, <4>3
    <3> QED BY <3>2, <3>3, <3>4
  <2> QED BY <2>4, <2>5
<1>4. ASSUME NEW c \in Calls, CallStep(c), ~Enqueue(c), ~Dequeue(c) PROVE HandedInv'
  <2>1. UNCHANGED <<queue, handed>>
    BY <1>4 DEF CallStep, ReadApplied, Boot, InsertEvent, LookUp, Retain, Look, InsertSnapshot,
                InsertBrief, Invalidate, Select, Fill, Degrade, Fail, board, history
  <2>2. ASSUME NEW d \in Calls
        PROVE  \/ call'[d].at = "idle"
               \/ /\ call[d].at # "idle" /\ call'[d].op = call[d].op /\ call'[d].n = call[d].n
    BY <1>4, Moves DEF NoCall
  <2>3. numbered' = numbered
    BY <1>4, Moves
  <2> QED BY <2>1, <2>2, <2>3, QueueRests
<1>5. CASE PgFails
  BY <1>5, QueueRests DEF PgFails, board, history, Call
<1>6. CASE PgReturns \/ RedisFails \/ RedisReturns \/ CloseBrief \/ UNCHANGED vars
  <2>1. UNCHANGED <<queue, handed, numbered, call>>
    BY <1>6 DEF PgReturns, RedisFails, RedisReturns, CloseBrief, vars, board, history
  <2> QED BY <2>1, QueueRests
<1> QED BY <1>1, <1>2, <1>3, <1>4, <1>5, <1>6 DEF Next

\* However the reviews and the callers of the queue interleave and whichever
\* answers are lost, an item is handed to one caller at most, and only with its
\* leaving the queue (dequeue_review).
THEOREM HandedStays == Spec => []HandedOnce
<1>1. Init => Base /\ HandedInv
  <2>1. ASSUME Init PROVE HandedInv
    BY <2>1 DEF Init, HandedInv, HandedOnce, OwnItem, NoCall
  <2> QED BY <2>1, InitBase
<1>2. Base /\ HandedInv /\ [Next]_vars => Base' /\ HandedInv'
  BY NextBase, HandedNext
<1>3. HandedInv => HandedOnce
  BY DEF HandedInv
<1> QED BY <1>1, <1>2, <1>3, PTL DEF Spec

-------------------------------------------------------------------------------
\* The briefs' cache

\* A step that leaves table and cache alone, and ends no writer.
LEMMA CacheRests ==
    ASSUME StaleIsExcused, UNCHANGED <<briefs, cached>>, excused => excused',
           \A d \in Calls : call[d].at = "written" => call'[d].at = "written"
    PROVE  StaleIsExcused'
BY DEF StaleIsExcused, OpenBriefs

LEMMA StaleNext == ASSUME Base, StaleIsExcused, [Next]_vars PROVE StaleIsExcused'
<1> USE DEF Base, TypeOK
<1>1. ASSUME NEW c \in Calls, Begin(c) PROVE StaleIsExcused'
  <2>1. /\ UNCHANGED <<briefs, cached, excused>>
        /\ \A d \in Calls : call[d].at = "written" => call'[d].at = "written"
    BY <1>1 DEF Begin, board, history
  <2> QED BY <2>1, CacheRests
<1>2. ASSUME NEW c \in Calls, CallStep(c) PROVE StaleIsExcused'
  <2>1. \A d \in Calls \ {c} : call'[d] = call[d]
    BY <1>2, Moves
  <2>2. ASSUME UNCHANGED <<briefs, cached, excused>>, call[c].at # "written" PROVE StaleIsExcused'
    BY <2>1, <2>2, CacheRests
  <2>3. CASE InsertBrief(c)
    <3>1. CASE UNCHANGED <<briefs, excused>>
      BY <2>2, <2>3, <3>1 DEF InsertBrief
    <3>2. CASE GoTo(c, "written") \/ excused'
      <4>1. GoTo(c, "written") => call'[c].at = "written"
        BY DEF GoTo, Call
      <4> QED BY <3>2, <4>1 DEF StaleIsExcused
    <3> QED BY <2>3, <3>1, <3>2 DEF InsertBrief
  <2>4. CASE Invalidate(c)
    BY <2>4 DEF Invalidate, Drop, StaleIsExcused
  <2>5. CASE Fill(c) /\ call[c].list = <<>>
    <3>1. CASE redis
      BY <2>5, <3>1 DEF Fill, Drop, StaleIsExcused
    <3>2. CASE ~redis
      BY <2>5, <3>2 DEF Fill, Drop, StaleIsExcused
    <3> QED BY <3>1, <3>2
  <2>6. CASE Fill(c) /\ call[c].list # <<>>
    <3>1. /\ cached' = IF redis THEN call[c].list ELSE cached
          /\ excused' = (excused \/ call[c].list # OpenBriefs)
          /\ briefs' = briefs /\ call[c].at = "selected"
      BY <2>6 DEF Fill
    <3>2. CASE redis
      <4>1. OpenBriefs' = OpenBriefs
        BY <3>1 DEF OpenBriefs
      <4> QED BY <3>1, <3>2, <4>1 DEF StaleIsExcused
    <3>3. CASE ~redis
      BY <2>1, <3>1, <3>3, CacheRests DEF StaleIsExcused
    <3> QED BY <3>2, <3>3
  <2>7. CASE ReadApplied(c) \/ Boot(c) \/ InsertEvent(c) \/ LookUp(c) \/ Retain(c) \/ Look(c)
             \/ InsertSnapshot(c) \/ Select(c) \/ Degrade(c) \/ Enqueue(c) \/ Dequeue(c) \/ Fail(c)
    <3>1. UNCHANGED <<briefs, cached, excused>> /\ call[c].at # "written"
      BY <2>7 DEF ReadApplied, Boot, InsertEvent, LookUp, Retain, Look, InsertSnapshot, Select,
                  Degrade, Enqueue, Dequeue, Fail, board, history
    <3> QED BY <2>2, <3>1
  <2> QED BY <1>2, <2>3, <2>4, <2>5, <2>6, <2>7 DEF CallStep
<1>3. CASE PgFails
  BY <1>3, CacheRests DEF PgFails, board, history, Call
<1>4. CASE CloseBrief
  BY <1>4 DEF CloseBrief, StaleIsExcused
<1>5. CASE PgReturns \/ RedisFails \/ RedisReturns \/ UNCHANGED vars
  <2>1. UNCHANGED <<briefs, cached, excused, call>>
    BY <1>5 DEF PgReturns, RedisFails, RedisReturns, vars, board, history
  <2> QED BY <2>1, CacheRests
<1> QED BY <1>1, <1>2, <1>3, <1>4, <1>5 DEF Next

\* However reads and writes of the open briefs interleave, the cached list is
\* the table's unless a writer is about to drop it or one of the named losses
\* has happened (briefs_cache.set_open_briefs, invalidate_open_briefs_cache).
THEOREM StaleStays == Spec => []StaleIsExcused
<1>1. Init => Base /\ StaleIsExcused
  <2>1. ASSUME Init PROVE StaleIsExcused
    BY <2>1 DEF Init, StaleIsExcused
  <2> QED BY <2>1, InitBase
<1>2. Base /\ StaleIsExcused /\ [Next]_vars => Base' /\ StaleIsExcused'
  BY NextBase, StaleNext
<1> QED BY <1>1, <1>2, PTL DEF Spec

-------------------------------------------------------------------------------
\* The event log

\* Without the rows in memory, what an append answered for a key is the row
\* of that key.
AnswersAreRows ==
    ~PelMemory =>
        /\ memory = {}
        /\ \A k \in 0 .. MaxOps : \A i \in got[k] : \E e \in events : e.id = i /\ e.key = k

MirrorInv == MirroredOnce /\ AnswersAreRows

LEMMA MirrorRests == ASSUME MirrorInv, UNCHANGED <<events, memory, got>> PROVE MirrorInv'
BY DEF MirrorInv, MirroredOnce, AnswersAreRows

\* Rows are only added, at most one per key, and answers are theirs.
LEMMA MirrorGrows ==
    ASSUME Base, MirrorInv,
           events \subseteq events', memory \subseteq memory',
           \A m \in Numbers : \A e, f \in events' : e.key = m /\ f.key = m => e = f,
           NEW k \in 0 .. MaxOps, NEW i,
           got' = got \/ got' = [got EXCEPT ![k] = @ \cup {i}],
           got' # got => \E e \in events' \cup memory' : e.id = i /\ e.key = k,
           ~PelMemory => memory' = {}
    PROVE  MirrorInv'
<1> USE DEF MirrorInv, MirroredOnce, AnswersAreRows, Base, TypeOK
<1>1. \A j \in 0 .. MaxOps : \A x \in got'[j] : x \in got[j] \/ (got' # got /\ x = i /\ j = k)
  <2>1. got \in [0 .. MaxOps -> SUBSET Ids]
    OBVIOUS
  <2>2. CASE got' = got
    BY <2>2
  <2>3. CASE got' # got
    <3>1. got' = [got EXCEPT ![k] = @ \cup {i}]
      BY <2>3
    <3> QED BY <2>1, <2>3, <3>1
  <2> QED BY <2>2, <2>3
<1>2. ASSUME NEW j \in 0 .. MaxOps, NEW x \in got'[j]
      PROVE  x \in {e.id : e \in events' \cup memory'}
  <2>1. \E e \in events' \cup memory' : e.id = x
    BY <1>1, <1>2
  <2> QED BY <2>1
<1>3. AnswersAreRows'
  BY <1>1
<1>4. ASSUME ~PelMemory, NEW m \in Numbers, NEW x \in got'[m], NEW y \in got'[m] PROVE x = y
  <2>1. m \in 0 .. MaxOps
    BY DEF Numbers
  <2>2. PICK e \in events' : e.id = x /\ e.key = m
    BY <1>3, <1>4, <2>1
  <2>3. PICK f \in events' : f.id = y /\ f.key = m
    BY <1>3, <1>4, <2>1
  <2> QED BY <2>2, <2>3
<1> QED BY <1>2, <1>3, <1>4


OneRow(es) == \A m \in Numbers : \A e, f \in es : e.key = m /\ f.key = m => e = f

\* The backfill adds a row for each key that has none.
LEMMA BackfillKeeps ==
    ASSUME Base, MirrorInv, NEW c \in Calls
    PROVE  events \subseteq Backfilled(c) /\ OneRow(Backfilled(c))
<1>1. OneRow(events)
  BY DEF MirrorInv, MirroredOnce, OneRow
<1>2. CASE "events" \notin Pending(c)
  BY <1>1, <1>2 DEF Backfilled
<1>3. CASE "events" \in Pending(c)
  <2> DEFINE new == {[id |-> <<"backfill", m>>, key |-> m] :
                        m \in {k \in notes : \A e \in events : e.key # k}}
  <2>1. Backfilled(c) = events \cup new
    BY <1>3 DEF Backfilled
  <2>2. \A e \in new : /\ e = [id |-> <<"backfill", e.key>>, key |-> e.key]
                      /\ \A f \in events : f.key # e.key
    OBVIOUS
  <2> HIDE DEF new
  <2> QED BY <1>1, <2>1, <2>2 DEF OneRow
<1> QED BY <1>2, <1>3

AnswersARow(c) ==
    \E i : /\ got' = got \/ got' = [got EXCEPT ![call[c].key] = @ \cup {i}]
           /\ got' # got => \E e \in memory' : e.id = i /\ e.key = call[c].key

\* Rows in memory are only added, and what is answered is the id of one.
LEMMA FallbackAnswers ==
    ASSUME Base, AnswersAreRows, NEW c \in Calls, Fallback(c)
    PROVE  /\ memory \subseteq memory' /\ (~PelMemory => memory' = {})
           /\ AnswersARow(c)
<1> DEFINE key == call[c].key
           same == {e \in memory : key # 0 /\ e.key = key}
           mine == [id |-> <<"append", call[c].n>>, key |-> key]
<1>1. CASE ~PelMemory
  BY <1>1 DEF Fallback, AnswersAreRows, AnswersARow
<1>2. CASE PelMemory /\ same # {}
  <2>1. memory' = memory /\ \E e \in same : Answered(c, e.id)
    BY <1>2 DEF Fallback
  <2> QED BY <1>2, <2>1 DEF Answered, AnswersARow
<1>3. CASE PelMemory /\ same = {}
  <2>1. memory' = memory \cup {mine} /\ Answered(c, mine.id)
    BY <1>3 DEF Fallback
  <2>2. mine \in memory' /\ mine.key = key
    BY <2>1
  <2> QED BY <1>3, <2>1, <2>2 DEF Answered, AnswersARow
<1> QED BY <1>1, <1>2, <1>3

\* So a call that adds at most its own row and falls back keeps the mirror.
LEMMA MirrorFallsBack ==
    ASSUME Base, MirrorInv, NEW c \in Calls, Fallback(c),
           events \subseteq events', OneRow(events')
    PROVE  MirrorInv'
<1>1. call[c].key \in 0 .. MaxOps
  BY DEF Base, TypeOK, Call
<1>2. memory \subseteq memory' /\ (~PelMemory => memory' = {})
  BY FallbackAnswers DEF MirrorInv
<1>3. PICK i : /\ got' = got \/ got' = [got EXCEPT ![call[c].key] = @ \cup {i}]
               /\ got' # got => \E e \in memory' : e.id = i /\ e.key = call[c].key
  BY FallbackAnswers DEF MirrorInv, AnswersARow
<1>4. got' # got => \E e \in events' \cup memory' : e.id = i /\ e.key = call[c].key
  BY <1>3
<1>5. \A m \in Numbers : \A e, f \in events' : e.key = m /\ f.key = m => e = f
  BY DEF OneRow
<1> QED BY <1>1, <1>2, <1>3, <1>4, <1>5, MirrorGrows

\* And one that answers the id of its own row.
LEMMA MirrorAnswers ==
    ASSUME Base, MirrorInv, NEW c \in Calls, NEW mine \in events', mine.key = call[c].key,
           Answered(c, mine.id), UNCHANGED memory,
           events \subseteq events', OneRow(events')
    PROVE  MirrorInv'
<1>1. call[c].key \in 0 .. MaxOps
  BY DEF Base, TypeOK, Call
<1>2. got' = [got EXCEPT ![call[c].key] = @ \cup {mine.id}]
  BY DEF Answered
<1>3. \E e \in events' \cup memory' : e.id = mine.id /\ e.key = call[c].key
  OBVIOUS
<1>4. \A m \in Numbers : \A e, f \in events' : e.key = m /\ f.key = m => e = f
  BY DEF OneRow
<1>5. memory \subseteq memory' /\ (~PelMemory => memory' = {})
  BY DEF MirrorInv, AnswersAreRows
<1> QED BY <1>1, <1>2, <1>3, <1>4, <1>5, MirrorGrows

LEMMA MirrorInsert == ASSUME Base, MirrorInv, NEW c \in Calls, InsertEvent(c) PROVE MirrorInv'
<1> DEFINE key == call[c].key
           mine == [id |-> <<"append", call[c].n>>, key |-> key]
<1>1. events \subseteq Backfilled(c) /\ OneRow(Backfilled(c)) /\ OneRow(events)
  BY BackfillKeeps DEF MirrorInv, MirroredOnce, OneRow
<1>2. key \in 0 .. MaxOps
  BY DEF Base, TypeOK, Call
<1>3. CASE UNCHANGED events
  <2>1. \/ Fallback(c)
        \/ UNCHANGED <<memory, got>>
        \/ mine \in events' /\ Answered(c, mine.id) /\ UNCHANGED memory
    BY <1>3 DEF InsertEvent
  <2>2. CASE Fallback(c)
    BY <1>1, <1>3, <2>2, MirrorFallsBack
  <2>3. CASE UNCHANGED <<memory, got>>
    BY <1>3, <2>3, MirrorRests
  <2>4. CASE mine \in events' /\ Answered(c, mine.id) /\ UNCHANGED memory
    <3>1. mine.key = key /\ events \subseteq events' /\ OneRow(events')
      BY <1>1, <1>3
    <3> HIDE DEF mine
    <3> QED BY <2>4, <3>1, MirrorAnswers
  <2> QED BY <2>1, <2>2, <2>3, <2>4
<1>4. CASE Rejected(c, Backfilled(c)) /\ events' = Backfilled(c)
  <2>1. CASE Fallback(c)
    BY <1>1, <1>4, <2>1, MirrorFallsBack
  <2>2. CASE UNCHANGED <<memory, got>>
    <3>1. got' = got \/ got' = [got EXCEPT ![key] = @ \cup {key}]
      BY <2>2
    <3> QED BY <1>1, <1>2, <1>4, <2>2, <3>1, MirrorGrows DEF OneRow, MirrorInv, AnswersAreRows
  <2>3. CASE UNCHANGED events
    BY <1>3, <2>3
  <2> QED BY <1>4, <2>1, <2>2, <2>3 DEF InsertEvent
<1>5. CASE ~Rejected(c, Backfilled(c)) /\ events' = Backfilled(c) \cup {mine}
  <2>1. mine.key = key /\ mine.id = <<"append", call[c].n>> /\ mine \in events'
    BY <1>5
  <2>2. OneRow(events')
    BY <1>1, <1>5, <2>1 DEF OneRow, Rejected, Numbers
  <2>3. CASE Fallback(c)
    BY <1>1, <1>5, <2>2, <2>3, MirrorFallsBack
  <2>4. CASE Answered(c, mine.id) /\ UNCHANGED memory
    <3>1. events \subseteq events'
      BY <1>1, <1>5
    <3> HIDE DEF mine
    <3> QED BY <2>1, <2>2, <2>4, <3>1, MirrorAnswers
  <2>5. CASE UNCHANGED events
    BY <1>3, <2>5
  <2> QED BY <1>5, <2>3, <2>4, <2>5 DEF InsertEvent
<1>6. \/ UNCHANGED events
      \/ Rejected(c, Backfilled(c)) /\ events' = Backfilled(c)
      \/ ~Rejected(c, Backfilled(c)) /\ events' = Backfilled(c) \cup {mine}
  BY DEF InsertEvent
<1> QED BY <1>3, <1>4, <1>5, <1>6

LEMMA MirrorNext == ASSUME Base, MirrorInv, [Next]_vars PROVE MirrorInv'
<1> USE DEF Base, TypeOK, rows, history
<1>1. ASSUME NEW c \in Calls, Begin(c) PROVE MirrorInv'
  BY <1>1, MirrorRests DEF Begin
<1>2. ASSUME NEW c \in Calls, CallStep(c) PROVE MirrorInv'
  <2>1. CASE InsertEvent(c)
    BY <2>1, MirrorInsert
  <2>2. CASE Boot(c)
    <3>1. UNCHANGED <<memory, got>> /\ (events' = events \/ events' = Backfilled(c))
      BY <2>2 DEF Boot
    <3>2. events \subseteq events' /\ OneRow(events')
      BY <3>1, BackfillKeeps DEF MirrorInv, MirroredOnce, OneRow
    <3>3. 0 \in 0 .. MaxOps
      BY StoresAssumption
    <3> QED BY <3>1, <3>2, <3>3, MirrorGrows DEF OneRow, MirrorInv, AnswersAreRows
  <2>3. CASE LookUp(c)
    <3>1. PICK e \in events :
            e.key = call[c].key /\ Answered(c, e.id) /\ UNCHANGED <<events, memory>>
      BY <2>3 DEF LookUp
    <3>2. call[c].key \in 0 .. MaxOps
      BY DEF Call
    <3> QED BY <3>1, <3>2, MirrorGrows DEF Answered, MirrorInv, MirroredOnce, AnswersAreRows
  <2>4. CASE Fail(c)
    <3>1. UNCHANGED events /\ (Fallback(c) \/ UNCHANGED <<memory, got>>)
      BY <2>4 DEF Fail
    <3>2. OneRow(events')
      BY <3>1 DEF MirrorInv, MirroredOnce, OneRow
    <3> QED BY <3>1, <3>2, MirrorFallsBack, MirrorRests
  <2>5. CASE ReadApplied(c) \/ Retain(c) \/ Look(c) \/ InsertSnapshot(c) \/ InsertBrief(c)
             \/ Invalidate(c) \/ Select(c) \/ Fill(c) \/ Degrade(c) \/ Enqueue(c) \/ Dequeue(c)
    <3>1. UNCHANGED <<events, memory, got>>
      BY <2>5 DEF ReadApplied, Retain, Look, InsertSnapshot, InsertBrief, Invalidate, Select, Fill,
                  Degrade, Enqueue, Dequeue
    <3> QED BY <3>1, MirrorRests
  <2> QED BY <1>2, <2>1, <2>2, <2>3, <2>4, <2>5 DEF CallStep
<1>3. CASE Outside \/ UNCHANGED vars
  <2>1. UNCHANGED <<events, memory, got>>
    BY <1>3 DEF Outside, PgFails, PgReturns, RedisFails, RedisReturns, CloseBrief, vars
  <2> QED BY <2>1, MirrorRests
<1> QED BY <1>1, <1>2, <1>3 DEF Next, Outside

\* However the backfill, several appends of one row, their lost answers and the
\* rows in memory interleave, an answered id is a row's, a row of
\* memory_events is mirrored once, and without the rows in memory all appends
\* of it answer the same id (append_portfolio_event, its ON CONFLICT and the
\* look at the row that was there).
THEOREM MirroredStays == Spec => []MirroredOnce
<1>1. Init => Base /\ MirrorInv
  <2>1. ASSUME Init PROVE MirrorInv
    BY <2>1 DEF Init, MirrorInv, MirroredOnce, AnswersAreRows, Numbers
  <2> QED BY <2>1, InitBase
<1>2. Base /\ MirrorInv /\ [Next]_vars => Base' /\ MirrorInv'
  BY NextBase, MirrorNext
<1>3. MirrorInv => MirroredOnce
  BY DEF MirrorInv
<1> QED BY <1>1, <1>2, <1>3, PTL DEF Spec

===============================================================================
