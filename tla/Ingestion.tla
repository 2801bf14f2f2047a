------------------------------ MODULE Ingestion ------------------------------
(***************************************************************************)
(* The ingestion inbox of the API process: upload, triage, review, approval *)
(* and dispatch of items to FirstMate, and the index file they live in      *)
(* (advoi/ingestion/pipeline.py, lifecycle.py, store.py).                   *)
(*                                                                          *)
(* Every operation but the dispatch runs without giving up the event loop.  *)
(* dispatch_item_dev reads the item once, awaits the fleet, and saves its    *)
(* own copy of the item at the end.                                         *)
(***************************************************************************)
EXTENDS Integers

CONSTANTS
    Items,          \* ids; create_upload draws a fresh one for every file
    Routes,         \* what route_document may say of a file
    Dispatches,     \* dispatch requests; a retry is another request
    Modes,          \* "work", "start_development"
    Absent,         \* no row in the index, no route
    ConfirmationRequired,   \* ADVOI_CONFIRMATION_REQUIRED
    MaxCrashes,     \* bound on crashes of the API process
    Overlap         \* may an operation arrive while a dispatch is in flight?

ASSUME IngestionAssumption ==
    /\ Modes \subseteq {"work", "start_development"}
    /\ Absent \notin Routes
    /\ ConfirmationRequired \in BOOLEAN
    /\ MaxCrashes \in Nat
    /\ Overlap \in BOOLEAN

VARIABLES
    index,      \* index.json: the row of each item, or Absent
    blob,       \* the uploaded files: "none", "readable" or "unreadable"
    task,       \* the handler of each dispatch request
    answer,     \* what each dispatch request was answered
    reply,      \* the reply to the operation that ended last
    crashes

vars == <<index, blob, task, answer, reply, crashes>>

Status ==
    {"uploaded", "triaged", "needs_review", "routed", "approved", "dispatched", "failed"}

Row == [status : Status, route : Routes \cup {Absent}]

ASSUME AbsentAssumption == Absent \notin Row

\* A torn or missing index reads as an empty one.
EmptyIndex == [i \in Items |-> Absent]

Ran == {"never", "ok", "failed"}
InFlight == {"arming", "working", "starting", "settling"}

Task == [at : InFlight \cup {"idle", "done", "lost"}, item : Items \cup {Absent},
         mode : Modes \cup {Absent}, row : Row \cup {Absent}, arm : Ran, work : Ran]

NoTask == [at |-> "idle", item |-> Absent, mode |-> Absent, row |-> Absent,
           arm |-> "never", work |-> "never"]

NoReply == [op |-> "none", item |-> Absent, code |-> "none"]
Reply(o, i, c) == [op |-> o, item |-> i, code |-> c]

Present(i) == index[i] # Absent

-----------------------------------------------------------------------------
(* The lifecycle.                                                           *)

ALLOWED_TRANSITIONS(s) ==
    CASE s = "uploaded"     -> {"triaged", "failed"}
      [] s = "triaged"      -> {"needs_review", "failed"}
      [] s = "needs_review" -> {"approved", "triaged", "failed"}
      [] s = "routed"       -> {"needs_review", "approved", "failed"}
      [] s = "approved"     -> {"dispatched", "failed"}
      [] OTHER              -> {}

\* Mutant: any item that is not terminal may move on.
CanTransitionLax(s, t) == s \notin {"dispatched", "failed"}

CanTransition(s, t) == t \in ALLOWED_TRANSITIONS(s)

\* Mutant: review is enough.
CanDispatchLax(s) == s \in {"needs_review", "approved"}

CanDispatch(s) == s = "approved"

\* The status a triage leaves: an item that is not fresh from its upload is
\* only moved on when the classifier wants it reviewed.
Triaged(s, target) ==
    LET t == IF s = "uploaded" THEN "triaged" ELSE s
    IN  IF target = "needs_review" /\ t = "triaged" THEN "needs_review" ELSE t

\* The inbox page runs one operation at a time.
Quiet == ~Overlap => \A d \in Dispatches : task[d].at \notin InFlight

-----------------------------------------------------------------------------
(* Operations that hold the event loop from the read to the save.           *)

\* ingest_upload: two saves and, if asked for, a triage.
Upload(i) ==
    /\ Quiet
    /\ blob[i] = "none"
    /\ \/ /\ blob' = [blob EXCEPT ![i] = "unreadable"]
          /\ index' = [index EXCEPT ![i] = [status |-> "failed", route |-> Absent]]
          /\ reply' = Reply("upload", i, "failed")
       \/ /\ blob' = [blob EXCEPT ![i] = "readable"]
          /\ \/ \E rt \in Routes, s \in {"uploaded", "triaged", "needs_review"} :
                   /\ index' = [index EXCEPT ![i] = [status |-> s, route |-> rt]]
                   /\ reply' = Reply("upload", i, "ok")
             \/ /\ index' = [index EXCEPT ![i] = [status |-> "failed", route |-> Absent]]
                /\ reply' = Reply("upload", i, "unprocessable")
    /\ UNCHANGED <<task, answer, crashes>>

Missing(o, i) ==
    /\ ~Present(i)
    /\ reply' = Reply(o, i, "not_found")
    /\ UNCHANGED index

Unreadable(o, i) ==
    /\ Present(i)
    /\ blob[i] = "unreadable"
    /\ reply' = Reply(o, i, "not_found")
    /\ UNCHANGED index

\* triage_item
Triage(i) ==
    /\ Quiet
    /\ \/ Missing("triage", i)
       \/ Unreadable("triage", i)
       \/ /\ Present(i) /\ blob[i] = "readable"
          /\ \E rt \in Routes, target \in {"triaged", "needs_review"} :
                index' = [index EXCEPT ![i] =
                             [status |-> Triaged(index[i].status, target), route |-> rt]]
          /\ reply' = Reply("triage", i, "ok")
    /\ UNCHANGED <<blob, task, answer, crashes>>

\* _apply_status and the save, or a 409.
Move(o, i, t) ==
    /\ Present(i)
    /\ \/ /\ CanTransition(index[i].status, t)
          /\ index' = [index EXCEPT ![i].status = t]
          /\ reply' = Reply(o, i, "ok")
       \/ /\ ~CanTransition(index[i].status, t)
          /\ reply' = Reply(o, i, "conflict")
          /\ UNCHANGED index

\* mark_needs_review
MarkNeedsReview(i) ==
    /\ Quiet
    /\ Missing("needs_review", i) \/ Move("needs_review", i, "needs_review")
    /\ UNCHANGED <<blob, task, answer, crashes>>

\* approve_item
Approve(i) ==
    /\ Quiet
    /\ Missing("approve", i) \/ Move("approve", i, "approved")
    /\ UNCHANGED <<blob, task, answer, crashes>>

\* reroute_item
Reroute(i) ==
    /\ Quiet
    /\ \/ Missing("route", i)
       \/ Unreadable("route", i)
       \/ /\ Present(i) /\ blob[i] = "readable"
          /\ \E rt \in Routes : index' = [index EXCEPT ![i].route = rt]
          /\ reply' = Reply("route", i, "ok")
    /\ UNCHANGED <<blob, task, answer, crashes>>

-----------------------------------------------------------------------------
(* dispatch_item_dev                                                        *)

Reject(d, i, why) ==
    /\ task' = [task EXCEPT ![d] = [NoTask EXCEPT !.at = "done", !.item = i]]
    /\ answer' = [answer EXCEPT ![d] = why]

\* The item is read and checked, the Guardian asked, the first fleet call made.
Dispatch(d) ==
    /\ Quiet
    /\ task[d].at = "idle"
    /\ \E i \in Items, m \in Modes, confirmed \in BOOLEAN :
          \/ ~Present(i) /\ Reject(d, i, "not_found")
          \/ Present(i) /\ index[i].status = "failed" /\ Reject(d, i, "failed")
          \/ /\ Present(i) /\ index[i].status # "failed"
             /\ ~CanDispatch(index[i].status)
             /\ Reject(d, i, "not_approved")
          \/ /\ Present(i) /\ index[i].status # "failed"
             /\ CanDispatch(index[i].status)
             /\ IF ConfirmationRequired /\ ~confirmed
                THEN Reject(d, i, "confirmation_required")
                ELSE /\ task' = [task EXCEPT ![d] =
                                    [NoTask EXCEPT
                                       !.at = IF m = "work" THEN "arming" ELSE "starting",
                                       !.item = i, !.mode = m, !.row = index[i]]]
                     /\ UNCHANGED answer
    /\ reply' = NoReply
    /\ UNCHANGED <<index, blob, crashes>>

\* The bridge could not be started: HTTP 500, nothing saved.
Raises(d) ==
    /\ task' = [task EXCEPT ![d].at = "done"]
    /\ answer' = [answer EXCEPT ![d] = "error"]

\* Mode "work": the arm's outcome is kept, the work is sent in any case.
ArmEnds(d) ==
    /\ task[d].at = "arming"
    /\ \/ Raises(d)
       \/ /\ \E o \in {"ok", "failed"} :
                task' = [task EXCEPT ![d].at = "working", ![d].arm = o]
          /\ UNCHANGED answer
    /\ reply' = NoReply
    /\ UNCHANGED <<index, blob, crashes>>

WorkEnds(d) ==
    /\ task[d].at = "working"
    /\ \/ Raises(d)
       \/ /\ \E o \in {"ok", "failed"} :
                task' = [task EXCEPT ![d].at = "settling", ![d].work = o]
          /\ UNCHANGED answer
    /\ reply' = NoReply
    /\ UNCHANGED <<index, blob, crashes>>

\* Mode "start_development": fleet_trigger_from_voice arms and, once armed,
\* sends work.
StartEnds(d) ==
    /\ task[d].at = "starting"
    /\ \/ Raises(d)
       \/ /\ \E a, w \in Ran :
                /\ a # "never"
                /\ w = "never" <=> a = "failed"
                /\ task' = [task EXCEPT ![d].at = "settling", ![d].arm = a, ![d].work = w]
          /\ UNCHANGED answer
    /\ reply' = NoReply
    /\ UNCHANGED <<index, blob, crashes>>

\* result["ok"].  In mode "start_development" a failed work may be answered
\* with the result of the arm.
MayBeOk(d) ==
    /\ task[d].arm = "ok"
    /\ task[d].mode = "work" => task[d].work = "ok"

MayNotBeOk(d) == task[d].arm # "ok" \/ task[d].work # "ok"

\* Mutant: the handler's copy is saved whatever the outcome.
SettleSavesAlways(d) ==
    /\ task[d].at = "settling"
    /\ \/ /\ MayBeOk(d)
          /\ index' = [index EXCEPT ![task[d].item] =
                          [task[d].row EXCEPT !.status = "dispatched"]]
          /\ answer' = [answer EXCEPT ![d] = "ok"]
       \/ /\ MayNotBeOk(d)
          /\ index' = [index EXCEPT ![task[d].item] = task[d].row]
          /\ answer' = [answer EXCEPT ![d] = "not_ok"]
    /\ task' = [task EXCEPT ![d].at = "done"]
    /\ reply' = NoReply
    /\ UNCHANGED <<blob, crashes>>

\* Mutant: the outcome of the arm is enough.
SettleOnArm(d) ==
    /\ task[d].at = "settling"
    /\ \/ /\ task[d].arm = "ok"
          /\ index' = [index EXCEPT ![task[d].item] =
                          [task[d].row EXCEPT !.status = "dispatched"]]
          /\ answer' = [answer EXCEPT ![d] = "ok"]
       \/ /\ MayNotBeOk(d)
          /\ answer' = [answer EXCEPT ![d] = "not_ok"]
          /\ UNCHANGED index
    /\ task' = [task EXCEPT ![d].at = "done"]
    /\ reply' = NoReply
    /\ UNCHANGED <<blob, crashes>>

\* After the last await: the handler's copy, marked dispatched, replaces the
\* row whatever became of it in between.
Settle(d) ==
    /\ task[d].at = "settling"
    /\ \/ /\ MayBeOk(d)
          /\ index' = [index EXCEPT ![task[d].item] =
                          [task[d].row EXCEPT !.status = "dispatched"]]
          /\ answer' = [answer EXCEPT ![d] = "ok"]
       \/ /\ MayNotBeOk(d)
          /\ answer' = [answer EXCEPT ![d] = "not_ok"]
          /\ UNCHANGED index
    /\ task' = [task EXCEPT ![d].at = "done"]
    /\ reply' = NoReply
    /\ UNCHANGED <<blob, crashes>>

-----------------------------------------------------------------------------
(* The environment.                                                         *)

\* Some operation is writing the index.
SaveUnderWay == Quiet \/ \E d \in Dispatches : task[d].at = "settling"

\* The process dies: between two saves of an upload, inside the write of the
\* index (which truncates the file first) or outside of any.  The files stay.
Crash ==
    /\ crashes < MaxCrashes
    /\ crashes' = crashes + 1
    /\ \/ UNCHANGED <<index, blob>>
       \/ SaveUnderWay /\ index' = EmptyIndex /\ UNCHANGED blob
       \/ /\ Quiet
          /\ \E i \in Items, b \in {"readable", "unreadable"} :
                /\ blob[i] = "none"
                /\ blob' = [blob EXCEPT ![i] = b]
                /\ index' = [index EXCEPT ![i] = [status |-> "uploaded", route |-> Absent]]
    /\ task' = [d \in Dispatches |->
                   IF task[d].at \in InFlight THEN [task[d] EXCEPT !.at = "lost"] ELSE task[d]]
    /\ reply' = NoReply
    /\ UNCHANGED answer

\* Items of the first version may still be "routed".
Init ==
    /\ index \in [Items -> {Absent} \cup [status : {"routed"}, route : Routes]]
    /\ blob = [i \in Items |-> IF index[i] = Absent THEN "none" ELSE "readable"]
    /\ task = [d \in Dispatches |-> NoTask]
    /\ answer = [d \in Dispatches |-> "none"]
    /\ reply = NoReply
    /\ crashes = 0

Handler(d) == Dispatch(d) \/ ArmEnds(d) \/ WorkEnds(d) \/ StartEnds(d) \/ Settle(d)

Next ==
    \/ \E i \in Items : Upload(i) \/ Triage(i) \/ MarkNeedsReview(i) \/ Approve(i) \/ Reroute(i)
    \/ \E d \in Dispatches : Handler(d)
    \/ Crash

Spec == Init /\ [][Next]_vars

-----------------------------------------------------------------------------
(* Properties.                                                              *)

Answers == {"none", "not_found", "failed", "not_approved", "confirmation_required",
            "error", "ok", "not_ok"}

Operations == {"none", "upload", "triage", "needs_review", "approve", "route"}
Codes == {"none", "ok", "failed", "unprocessable", "not_found", "conflict"}

TypeOK ==
    /\ index \in [Items -> Row \cup {Absent}]
    /\ blob \in [Items -> {"none", "readable", "unreadable"}]
    /\ task \in [Dispatches -> Task]
    /\ answer \in [Dispatches -> Answers]
    /\ reply \in [op : Operations, item : Items \cup {Absent}, code : Codes]
    /\ crashes \in Nat

\* The fleet never hears of an item that is not past its approval, neither at
\* the first call nor at the later ones, whatever runs between them.
NoFleetUnapproved ==
    \A d \in Dispatches :
        /\ task[d].at \in InFlight \/ task[d].arm # "never"
        /\ Present(task[d].item)
        => index[task[d].item].status \in {"approved", "dispatched"}

\* No save, of a stale copy either, takes an item back: dispatched and failed
\* items keep their status, only a reviewed or legacy item gets approved, and
\* only an approved one dispatched.
NothingMovesBack ==
    [][\A i \in Items :
          Present(i) /\ index'[i] # Absent /\ index'[i].status # index[i].status =>
              /\ index[i].status \notin {"dispatched", "failed"}
              /\ index'[i].status = "approved" =>
                    index[i].status \in {"needs_review", "routed"}
              /\ index'[i].status = "dispatched" => index[i].status = "approved"]_vars

\* What a client was told ok about is what the index says, as long as the
\* index knows the item.
OkIsDurable ==
    \A d \in Dispatches :
        answer[d] = "ok" /\ Present(task[d].item) =>
            index[task[d].item].status = "dispatched"

\* An item is dispatched only after some dispatch of it had its work accepted
\* by the fleet, or in mode start_development at least its arm, whatever the
\* overlapping dispatches were answered.
DispatchIsEarned ==
    \A i \in Items :
        Present(i) /\ index[i].status = "dispatched" =>
            \E d \in Dispatches :
                /\ task[d].item = i
                /\ \/ task[d].work = "ok"
                   \/ task[d].mode = "start_development" /\ task[d].arm = "ok"

\* A dispatched item was sent to the captain: some dispatch of it had a work
\* verb accepted.
DispatchedMeansWork ==
    \A i \in Items :
        Present(i) /\ index[i].status = "dispatched" =>
            \E d \in Dispatches : task[d].item = i /\ task[d].work = "ok"

\* A triage that is answered ok leaves the item triaged or in review.
TriageAdvances ==
    reply.op = "triage" /\ reply.code = "ok" =>
        index[reply.item].status \in {"triaged", "needs_review"}

\* Routing a failed item again recovers it.
FailedRecovers ==
    reply.op = "route" /\ reply.code = "ok" => index[reply.item].status # "failed"
=============================================================================
