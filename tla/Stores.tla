------------------------------- MODULE Stores -------------------------------
(***************************************************************************)
(* What the system keeps in Postgres: the schema and its migrations          *)
(* (advoi/db/migrations.py), the event log (advoi/analytics/pel.py), the gate *)
(* snapshots that go to a table of the same name (advoi/portfolio/pel.py),    *)
(* memory_events and the open briefs (advoi/memory/postgres_store.py), the    *)
(* review queue (advoi/memory/review_queue.py), and the briefs' cache in      *)
(* Redis (advoi/memory/briefs_cache.py, frame_runner._load_open_briefs).      *)
(*                                                                          *)
(* A call runs in the API, the voice agent or a script and opens a connection *)
(* of its own.  A transaction of one statement is a step: committed and       *)
(* answered, committed with its answer lost, or not committed.  A row's       *)
(* content is the number of the call that wrote it.                          *)
(***************************************************************************)
EXTENDS Integers, Sequences

CONSTANTS
    Calls,          \* calls that may be under way at once
    None,
    PelMemory,      \* ADVOI_PEL_MEMORY
    Ops,            \* the operations that callers ask for
    Limit,          \* briefs that a read returns
    MaxOps,         \* bound on calls
    MaxOutages      \* bound on outages of Postgres and Redis and on closed briefs

ASSUME StoresAssumption ==
    /\ PelMemory \in BOOLEAN
    /\ {MaxOps, MaxOutages} \subseteq Nat
    /\ Limit \in Nat \ {0}
    /\ None \notin Calls

VARIABLES
    tracking,   \* is there a schema_migrations table?
    applied,    \* its rows
    shape,      \* the columns of portfolio_events: "none", "events", "snapshots"
    events,     \* its rows, as an event log
    snaps,      \* its rows, as gate snapshots: per timestamp, the calls that wrote one
    notes,      \* memory_events
    briefs,     \* decision_briefs, oldest first
    queue,      \* review_queue: the status of each item
    memory,     \* _MEMORY_ROWS
    cached,     \* advoi:briefs:open, or None
    pg,         \* is Postgres up?
    redis,      \* is Redis up?
    ddl,        \* the call that holds the schema's lock, or None
    call,       \* the calls under way
    got,        \* history: the ids that appends answered, per key
    handed,     \* history: who was handed which review item
    excused,    \* history: the cache may be stale
    numbered,   \* calls so far
    outages

schema == <<tracking, applied, shape>>
rows == <<events, snaps, notes, memory>>
board == <<briefs, queue, cached>>
history == <<got, handed, excused>>
net == <<pg, redis, outages>>
vars == <<schema, rows, board, ddl, call, history, net, numbered>>

Versions == {"baseline", "events", "index"}
Numbers == 1 .. MaxOps

\* An event's id: that of the call that appended it, or made by the backfill.
Ids == {"append", "backfill"} \X Numbers
Event == [id : Ids, key : 0 .. MaxOps]

AllOps == {"boot", "append", "snapshot", "retain", "brief", "open", "review", "dequeue"}
ASSUME OpsAreOps == Ops \subseteq AllOps

Call == [at : {"idle", "begun", "migrating", "looked", "conflict", "written", "selected",
               "down", "titled", "broken"},
         op : AllOps \cup {"none"}, n : 0 .. MaxOps, key : 0 .. MaxOps,
         done : SUBSET Versions, list : Seq(Numbers)]

NoCall == [at |-> "idle", op |-> "none", n |-> 0, key |-> 0, done |-> {}, list |-> <<>>]

HasBaseline == "baseline" \in applied

\* list_open_briefs: the latest ones first.
OpenBriefs ==
    [i \in 1 .. (IF Len(briefs) < Limit THEN Len(briefs) ELSE Limit) |->
        briefs[Len(briefs) + 1 - i]]

\* A transaction ends, however it does.
Release(c) == ddl' = IF ddl = c THEN None ELSE ddl
LockFree(c) == ddl \in {None, c}

End(c) == call' = [call EXCEPT ![c] = NoCall]
GoTo(c, where) == call' = [call EXCEPT ![c].at = where]

\* What a call is about: an append may mirror a row of memory_events; a
\* snapshot has a timestamp, a dequeue an item.
KeysOf(op) ==
    CASE op = "append" -> {0} \cup notes
      [] op = "snapshot" -> {1, 2} \cap Numbers
      [] op = "dequeue" -> {q \in Numbers : queue[q] # "none"}
      [] OTHER -> {0}

Begin(c) ==
    /\ call[c].at = "idle" /\ numbered < MaxOps
    /\ numbered' = numbered + 1
    /\ \E op \in Ops : \E key \in KeysOf(op) :
          call' = [call EXCEPT ![c] = [NoCall EXCEPT !.at = "begun", !.op = op,
                                          !.n = numbered + 1, !.key = key]]
    /\ UNCHANGED <<schema, rows, board, ddl, history, net>>

-----------------------------------------------------------------------------
(* Migrations.                                                              *)

\* The tracking table is made sure of and the applied versions are read.  In
\* a new database that takes the schema's lock.
ReadApplied(c) ==
    /\ call[c].at = "begun" /\ call[c].op \in {"boot", "append"} /\ pg
    /\ tracking \/ LockFree(c)
    /\ ddl' = IF tracking THEN ddl ELSE c
    /\ call' = [call EXCEPT ![c].at = "migrating", ![c].done = applied]
    /\ UNCHANGED <<schema, rows, board, history, net, numbered>>

Pending(c) == Versions \ call[c].done

\* Mutant: nothing in the file notices the other table's columns.
AppliableAlways(c) == TRUE

\* The index on a column that the other table of that name has not fails, and
\* with it the whole transaction; so may statements that another migration
\* has run since the versions were read.
Appliable(c) == "events" \in Pending(c) => shape # "snapshots"
MayRaise(c) == applied # call[c].done

\* Mutant: the backfill does not look for conflicts.
BackfilledTwice(c) ==
    IF "events" \in Pending(c)
    THEN events \cup {[id |-> <<"backfill", m>>, key |-> m] : m \in notes}
    ELSE events

\* One row per row of memory_events, unless there is one.
Backfilled(c) ==
    IF "events" \in Pending(c)
    THEN events \cup {[id |-> <<"backfill", m>>, key |-> m] :
                        m \in {k \in notes : \A e \in events : e.key # k}}
    ELSE events

Migrated(c) ==
    /\ tracking' = TRUE
    /\ applied' = applied \cup Pending(c)
    /\ shape' = IF "events" \in Pending(c) THEN "events" ELSE shape

\* API boot: committed, or rolled back; the API starts either way.
Boot(c) ==
    /\ call[c].at = "migrating" /\ call[c].op = "boot"
    /\ Pending(c) = {} \/ LockFree(c)
    /\ \/ /\ Appliable(c)
          /\ Migrated(c)
          /\ events' = Backfilled(c)
       \/ /\ ~Appliable(c) \/ MayRaise(c)
          /\ UNCHANGED <<schema, events>>
    /\ Release(c)
    /\ End(c)
    /\ UNCHANGED <<snaps, notes, memory, board, history, net, numbered>>

-----------------------------------------------------------------------------
(* The event log.                                                           *)

Answered(c, id) == got' = [got EXCEPT ![call[c].key] = @ \cup {id}]

\* The in-memory rows stand in when Postgres does not answer.
Fallback(c) ==
    LET key == call[c].key
        same == {e \in memory : key # 0 /\ e.key = key}
        mine == [id |-> <<"append", call[c].n>>, key |-> key]
    IN  IF ~PelMemory THEN UNCHANGED <<memory, got>>
        ELSE IF same # {} THEN UNCHANGED memory /\ \E e \in same : Answered(c, e.id)
        ELSE memory' = memory \cup {mine} /\ Answered(c, mine.id)

Rejected(c, es) == call[c].key # 0 /\ \E e \in es : e.key = call[c].key

\* The append's own transaction migrates first, inserts and commits.  A
\* migration that fails is swallowed, and the insert then fails.
InsertEvent(c) ==
    LET mine == [id |-> <<"append", call[c].n>>, key |-> call[c].key]
    IN  /\ call[c].at = "migrating" /\ call[c].op = "append"
        /\ Pending(c) = {} \/ LockFree(c)
        /\ \/ /\ Appliable(c)
              /\ Migrated(c)
              /\ IF Rejected(c, Backfilled(c))
                 THEN /\ events' = Backfilled(c)
                      /\ \/ GoTo(c, "conflict") /\ UNCHANGED <<memory, got>>
                         \/ End(c) /\ Fallback(c)
                 ELSE /\ events' = Backfilled(c) \cup {mine}
                      /\ End(c)
                      /\ \/ Answered(c, mine.id) /\ UNCHANGED memory
                         \/ Fallback(c)
           \/ /\ ~Appliable(c) \/ MayRaise(c)
              /\ UNCHANGED <<schema, events>>
              /\ End(c)
              /\ Fallback(c)
        /\ Release(c)
        /\ UNCHANGED <<snaps, notes, board, handed, excused, net, numbered>>

\* After a conflict, a second connection looks for the row that was there.
LookUp(c) ==
    /\ call[c].at = "conflict" /\ pg
    /\ \E e \in {f \in events : f.key = call[c].key} : Answered(c, e.id)
    /\ End(c)
    /\ UNCHANGED <<schema, rows, board, ddl, handed, excused, net, numbered>>

\* retain_structured
Retain(c) ==
    /\ call[c].at = "begun" /\ call[c].op = "retain" /\ pg
    /\ \/ HasBaseline /\ notes' = notes \cup {call[c].n}
       \/ UNCHANGED notes
    /\ End(c)
    /\ UNCHANGED <<schema, events, snaps, memory, board, ddl, history, net, numbered>>

-----------------------------------------------------------------------------
(* Gate snapshots: append_portfolio_event.                                  *)

\* The table is created if there is none, under the schema's lock; columns
\* of the event log make the look fail.
Look(c) ==
    /\ call[c].at = "begun" /\ call[c].op = "snapshot" /\ pg
    /\ shape = "none" => LockFree(c)
    /\ ddl' = IF shape = "none" THEN c ELSE ddl
    /\ IF shape = "events" \/ snaps[call[c].key] # {}
       THEN End(c)
       ELSE GoTo(c, "looked")
    /\ UNCHANGED <<schema, rows, board, history, net, numbered>>

InsertSnapshot(c) ==
    /\ call[c].at = "looked"
    /\ \/ /\ shape' = "snapshots"
          /\ snaps' = [snaps EXCEPT ![call[c].key] = @ \cup {call[c].n}]
       \/ UNCHANGED <<shape, snaps>>
    /\ Release(c)
    /\ End(c)
    /\ UNCHANGED <<tracking, applied, events, notes, memory, board, history, net, numbered>>

-----------------------------------------------------------------------------
(* Open briefs and the review queue.                                        *)

\* upsert_open_brief: a commit whose answer is lost ends the call.
InsertBrief(c) ==
    /\ call[c].at = "begun" /\ call[c].op = "brief" /\ pg
    /\ \/ /\ HasBaseline
          /\ briefs' = Append(briefs, call[c].n)
          /\ \/ GoTo(c, "written") /\ UNCHANGED excused
             \/ End(c) /\ excused' = TRUE
       \/ End(c) /\ UNCHANGED <<briefs, excused>>
    /\ UNCHANGED <<schema, rows, queue, cached, ddl, got, handed, net, numbered>>

\* invalidate_open_briefs_cache; without Redis it is skipped.
Drop ==
    /\ cached' = IF redis THEN None ELSE cached
    /\ excused' = (excused \/ ~redis)

\* Mutant: the cache is left to the next read.
InvalidateLater(c) ==
    /\ call[c].at = "written"
    /\ End(c)
    /\ UNCHANGED <<schema, rows, board, ddl, history, net, numbered>>

Invalidate(c) ==
    /\ call[c].at = "written"
    /\ Drop
    /\ End(c)
    /\ UNCHANGED <<schema, rows, briefs, queue, ddl, got, handed, net, numbered>>

\* _load_open_briefs, for the page or for a deep review that is confirmed: the
\* table is read, or cannot be.
Select(c) ==
    /\ call[c].at = "begun" /\ call[c].op \in {"open", "review"} /\ pg
    /\ \/ /\ HasBaseline
          /\ call' = [call EXCEPT ![c].at = "selected", ![c].list = OpenBriefs]
       \/ GoTo(c, "down")
    /\ UNCHANGED <<schema, rows, board, ddl, history, net, numbered>>

\* The page is answered; a review goes on to its queue.
Loaded(c, list) ==
    IF call[c].op = "open" THEN End(c)
    ELSE call' = [call EXCEPT ![c].at = "titled", ![c].list = list]

\* What was read replaces the cache, however old it is by now; an empty table
\* drops it.
Fill(c) ==
    /\ call[c].at = "selected"
    /\ IF call[c].list = <<>> THEN Drop
       ELSE /\ cached' = IF redis THEN call[c].list ELSE cached
            /\ excused' = (excused \/ call[c].list # OpenBriefs)
    /\ Loaded(c, call[c].list)
    /\ UNCHANGED <<schema, rows, briefs, queue, ddl, got, handed, net, numbered>>

\* Postgres did not answer: the cache does.
Degrade(c) ==
    /\ call[c].at = "down"
    /\ Loaded(c, IF redis /\ cached # None THEN cached ELSE <<>>)
    /\ UNCHANGED <<schema, rows, board, ddl, history, net, numbered>>

\* enqueue_review; the user hears that it is queued, whatever comes of it.
Enqueue(c) ==
    /\ call[c].at = "titled"
    /\ \/ pg /\ HasBaseline /\ queue' = [queue EXCEPT ![call[c].n] = "pending"]
       \/ UNCHANGED queue
    /\ End(c)
    /\ UNCHANGED <<schema, rows, briefs, cached, ddl, history, net, numbered>>

\* Mutant: the status is not part of the update's condition.
DequeueAny(c) ==
    /\ call[c].at = "begun" /\ call[c].op = "dequeue" /\ pg
    /\ \/ /\ queue' = [queue EXCEPT ![call[c].key] = "dequeued"]
          /\ \/ handed' = [handed EXCEPT ![call[c].key] = @ \cup {call[c].n}]
             \/ UNCHANGED handed
       \/ UNCHANGED <<queue, handed>>
    /\ End(c)
    /\ UNCHANGED <<schema, rows, briefs, cached, ddl, got, excused, net, numbered>>

\* dequeue_review: only an item that is still pending; the answer may be lost.
Dequeue(c) ==
    /\ call[c].at = "begun" /\ call[c].op = "dequeue" /\ pg
    /\ \/ /\ queue[call[c].key] = "pending"
          /\ queue' = [queue EXCEPT ![call[c].key] = "dequeued"]
          /\ \/ handed' = [handed EXCEPT ![call[c].key] = @ \cup {call[c].n}]
             \/ UNCHANGED handed
       \/ UNCHANGED <<queue, handed>>
    /\ End(c)
    /\ UNCHANGED <<schema, rows, briefs, cached, ddl, got, excused, net, numbered>>

-----------------------------------------------------------------------------
(* Failures.                                                                *)

\* No connection, or one that broke: every helper answers that it failed.
Fail(c) ==
    /\ call[c].at = "broken" \/ (call[c].at \in {"begun", "conflict"} /\ ~pg)
    /\ IF call[c].op \in {"open", "review"} THEN GoTo(c, "down") ELSE End(c)
    /\ IF call[c].op = "append" THEN Fallback(c) ELSE UNCHANGED <<memory, got>>
    /\ UNCHANGED <<schema, events, snaps, notes, board, ddl, handed, excused, net, numbered>>

\* Postgres stops: open transactions are rolled back and their locks released.
PgFails ==
    /\ pg /\ outages < MaxOutages
    /\ outages' = outages + 1
    /\ pg' = FALSE
    /\ ddl' = None
    /\ call' = [c \in Calls |-> IF call[c].at \in {"migrating", "looked"}
                                THEN [call[c] EXCEPT !.at = "broken"] ELSE call[c]]
    /\ UNCHANGED <<schema, rows, board, history, redis, numbered>>

\* Somebody closes the latest brief in the database; no program of the system
\* does.  It counts as an outage.
CloseBrief ==
    /\ pg /\ briefs # <<>> /\ outages < MaxOutages
    /\ outages' = outages + 1
    /\ briefs' = SubSeq(briefs, 1, Len(briefs) - 1)
    /\ excused' = TRUE
    /\ UNCHANGED <<schema, rows, queue, cached, ddl, call, got, handed, pg, redis, numbered>>

PgReturns ==
    /\ ~pg
    /\ pg' = TRUE
    /\ UNCHANGED <<schema, rows, board, ddl, call, history, redis, outages, numbered>>

RedisFails ==
    /\ redis /\ outages < MaxOutages
    /\ outages' = outages + 1
    /\ redis' = FALSE
    /\ UNCHANGED <<schema, rows, board, ddl, call, history, pg, numbered>>

RedisReturns ==
    /\ ~redis
    /\ redis' = TRUE
    /\ UNCHANGED <<schema, rows, board, ddl, call, history, pg, outages, numbered>>

-----------------------------------------------------------------------------

\* The database is new, or an older release has set it up.
Init ==
    /\ tracking \in BOOLEAN
    /\ applied = IF tracking THEN {"baseline"} ELSE {}
    /\ shape = "none"
    /\ events = {}
    /\ snaps = [t \in Numbers |-> {}]
    /\ notes = {}
    /\ briefs = <<>>
    /\ queue = [q \in Numbers |-> "none"]
    /\ memory = {}
    /\ cached = None
    /\ pg = TRUE
    /\ redis = TRUE
    /\ ddl = None
    /\ call = [c \in Calls |-> NoCall]
    /\ got = [k \in 0 .. MaxOps |-> {}]
    /\ handed = [q \in Numbers |-> {}]
    /\ excused = FALSE
    /\ numbered = 0
    /\ outages = 0

CallStep(c) ==
    \/ ReadApplied(c) \/ Boot(c)
    \/ InsertEvent(c) \/ LookUp(c) \/ Retain(c)
    \/ Look(c) \/ InsertSnapshot(c)
    \/ InsertBrief(c) \/ Invalidate(c) \/ Select(c) \/ Fill(c) \/ Degrade(c)
    \/ Enqueue(c) \/ Dequeue(c)
    \/ Fail(c)

Next ==
    \/ \E c \in Calls : Begin(c) \/ CallStep(c)
    \/ PgFails \/ PgReturns \/ RedisFails \/ RedisReturns \/ CloseBrief

Spec == Init /\ [][Next]_vars

-----------------------------------------------------------------------------
(* Properties.                                                              *)

TypeOK ==
    /\ {tracking, pg, redis, excused} \subseteq BOOLEAN
    /\ applied \in SUBSET Versions
    /\ shape \in {"none", "events", "snapshots"}
    /\ events \in SUBSET Event /\ memory \in SUBSET Event
    /\ snaps \in [Numbers -> SUBSET Numbers]
    /\ notes \in SUBSET Numbers
    /\ briefs \in Seq(Numbers)
    /\ queue \in [Numbers -> {"none", "pending", "dequeued"}]
    /\ cached \in Seq(Numbers) \cup {None}
    /\ ddl \in Calls \cup {None}
    /\ call \in [Calls -> Call]
    /\ got \in [0 .. MaxOps -> SUBSET Ids]
    /\ handed \in [Numbers -> SUBSET Numbers]
    /\ numbered \in 0 .. MaxOps
    /\ outages \in 0 .. MaxOutages

\* A version that is recorded was run, after those it needs, and the event log
\* and the gate snapshots never share a table.
RecordedIsApplied ==
    /\ "events" \in applied <=> shape = "events"
    /\ applied # {} => HasBaseline
    /\ events # {} => shape = "events"
    /\ \A t \in Numbers : snaps[t] # {} => shape = "snapshots"

\* The schema's lock is held only by a call that will release it, so no call
\* waits for ever: errors, outages and lost answers release it too.
LockIsHeld ==
    ddl # None =>
        /\ call[ddl].at \in {"migrating", "looked"}
        /\ call[ddl].at = "migrating" => Pending(ddl) # {}

\* So however two migrations of one database interleave, fail or lose an
\* answer, the schema is what is recorded of it and the next one can go on.
SchemaIsSound == RecordedIsApplied /\ LockIsHeld

\* An id that an append answers is that of a row, and all appends that mirror
\* one row of memory_events answer the same id, the backfill's if it came first.
MirroredOnce ==
    LET kept == {e.id : e \in events \cup memory}
    IN  /\ \A k \in 0 .. MaxOps : got[k] \subseteq kept
        /\ \A m \in Numbers : \A e, f \in events : e.key = m /\ f.key = m => e = f
        /\ ~PelMemory => \A m \in Numbers : \A i, j \in got[m] : i = j

\* An item of the review queue is handed to one caller at most, and only while
\* it leaves the queue.
HandedOnce ==
    \A q \in Numbers :
        /\ \A m, n \in handed[q] : m = n
        /\ handed[q] # {} => queue[q] = "dequeued"

\* The cached briefs are stale only while a writer is on its way to drop them,
\* or after Redis missed a drop, a commit's answer was lost, a reader was
\* overtaken by a writer, or somebody else closed a brief.
StaleIsExcused ==
    cached \in {None, OpenBriefs} \/ excused \/ \E c \in Calls : call[c].at = "written"

\* Dropping them leaves nothing stale (ADR-026).
NeverStale == cached \in {None, OpenBriefs} \/ \E c \in Calls : call[c].at = "written"

\* A gate snapshot is recorded once per timestamp.
SnapshotOnce == \A t \in Numbers : \A m, n \in snaps[t] : m = n

\* A boot that reaches Postgres and is not disturbed leaves nothing pending.
BootMigrates ==
    [][\A c \in Calls : Boot(c) /\ ~MayRaise(c) => applied' = Versions]_vars

=============================================================================
