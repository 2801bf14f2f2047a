--------------------------- MODULE IngestionProofs ---------------------------
(***************************************************************************)
(* Theorems about Ingestion for every set of items, routes and dispatches,  *)
(* any overlap of operations and any number of crashes, with their proofs.  *)
(***************************************************************************)
EXTENDS Ingestion, TLAPS

-----------------------------------------------------------------------------
(* The inductive invariant.                                                 *)

\* The handler of d is, or was, past the checks of its dispatch.
Engaged(d) == task[d].at \in InFlight \/ task[d].arm # "never" \/ answer[d] = "ok"

\* Whoever is engaged is so for an uploaded item that, where the index still
\* knows it, is approved or dispatched.
EngagedInv ==
    \A d \in Dispatches :
        Engaged(d) =>
            /\ task[d].item \in Items
            /\ blob[task[d].item] # "none"
            /\ Present(task[d].item) =>
                  index[task[d].item].status \in {"approved", "dispatched"}

\* A handler in flight holds a copy of a row and has not answered.
CopyInv ==
    \A d \in Dispatches :
        task[d].at \in InFlight => task[d].row \in Row /\ answer[d] = "none"

\* Handlers start afresh, and so do items.
FreshInv ==
    /\ \A d \in Dispatches : task[d].at = "idle" => task[d] = NoTask /\ answer[d] = "none"
    /\ \A i \in Items : blob[i] = "none" => ~Present(i)

IInv == TypeOK /\ EngagedInv /\ CopyInv /\ FreshInv /\ OkIsDurable

-----------------------------------------------------------------------------
(* What the operations do to the index.                                     *)

LEMMA TriagedFacts ==
    ASSUME NEW s \in Status, NEW t \in {"triaged", "needs_review"}
    PROVE  /\ Triaged(s, t) \in Status
           /\ s \in {"approved", "dispatched", "failed"} => Triaged(s, t) = s
           /\ Triaged(s, t) # s => Triaged(s, t) \in {"triaged", "needs_review"}
BY DEF Triaged, Status

LEMMA TransitionFacts ==
    ASSUME NEW s \in Status, NEW t \in Status, CanTransition(s, t)
    PROVE  /\ s \notin {"dispatched", "failed"}
           /\ t = "approved" => s \in {"needs_review", "routed"}
           /\ s = "approved" => t \in {"dispatched", "failed"}
BY DEF CanTransition, ALLOWED_TRANSITIONS, Status

\* An inbox operation leaves the row of j alone, creates it, or moves an item
\* that is not settled yet, and approves only what was reviewed.
RowStep(j) ==
    \/ index'[j] = index[j]
    \/ blob[j] = "none" /\ index'[j] \in Row /\ index'[j].status # "dispatched"
    \/ /\ Present(j) /\ index'[j] \in Row
       /\ index'[j].status # index[j].status =>
             /\ index[j].status \notin {"approved", "dispatched", "failed"}
             /\ index'[j].status # "dispatched"
             /\ index'[j].status = "approved" => index[j].status \in {"needs_review", "routed"}

LEMMA OneRow ==
    ASSUME TypeOK, NEW i \in Items, NEW row \in Row, index' = [index EXCEPT ![i] = row],
           \/ blob[i] = "none" /\ row.status # "dispatched"
           \/ /\ Present(i)
              /\ row.status # index[i].status =>
                    /\ index[i].status \notin {"approved", "dispatched", "failed"}
                    /\ row.status # "dispatched"
                    /\ row.status = "approved" => index[i].status \in {"needs_review", "routed"}
    PROVE  index' \in [Items -> Row \cup {Absent}] /\ \A j \in Items : RowStep(j)
BY DEF TypeOK, RowStep

LEMMA MoveStep ==
    ASSUME TypeOK, NEW i \in Items, NEW o, NEW t \in {"needs_review", "approved"}, Move(o, i, t)
    PROVE  index' \in [Items -> Row \cup {Absent}] /\ \A j \in Items : RowStep(j)
<1>1. CASE UNCHANGED index
  BY <1>1 DEF RowStep, TypeOK
<1>2. CASE CanTransition(index[i].status, t) /\ index' = [index EXCEPT ![i].status = t]
  <2>1. index[i] \in Row
    BY DEF Move, Present, TypeOK
  <2>2. [index[i] EXCEPT !.status = t] \in Row /\ [index[i] EXCEPT !.status = t].status = t
    BY <2>1 DEF Row, Status
  <2>3. index' = [index EXCEPT ![i] = [index[i] EXCEPT !.status = t]]
    BY <1>2 DEF TypeOK
  <2>4. index[i].status \in Status
    BY <2>1 DEF Row
  <2>5. /\ index[i].status \notin {"approved", "dispatched", "failed"}
        /\ t = "approved" => index[i].status \in {"needs_review", "routed"}
    BY <1>2, <2>4, TransitionFacts DEF Status
  <2> QED
    BY <2>2, <2>3, <2>5, OneRow DEF Move
<1> QED
  BY <1>1, <1>2 DEF Move

\* The operations that do not dispatch.
Inbox(i) == Upload(i) \/ Triage(i) \/ MarkNeedsReview(i) \/ Approve(i) \/ Reroute(i)

LEMMA InboxStep ==
    ASSUME TypeOK, NEW i \in Items, Inbox(i)
    PROVE  /\ index' \in [Items -> Row \cup {Absent}]
           /\ \A j \in Items : RowStep(j)
           /\ UNCHANGED <<task, answer, crashes>>
           /\ \A j \in Items : blob[j] # "none" => blob'[j] # "none"
<1>1. CASE UNCHANGED <<index, blob>>
  BY <1>1 DEF RowStep, TypeOK, Inbox, Upload, Triage, MarkNeedsReview, Approve, Reroute
<1>2. CASE Upload(i)
  <2>1. \A s \in Status, rt \in Routes \cup {Absent} : [status |-> s, route |-> rt] \in Row
    BY DEF Row
  <2>2. PICK row \in Row : row.status # "dispatched" /\ index' = [index EXCEPT ![i] = row]
    <3>1. CASE \E rt \in Routes, s \in {"uploaded", "triaged", "needs_review"} :
                  index' = [index EXCEPT ![i] = [status |-> s, route |-> rt]]
      BY <2>1, <3>1 DEF Status
    <3>2. CASE index' = [index EXCEPT ![i] = [status |-> "failed", route |-> Absent]]
      BY <2>1, <3>2 DEF Status
    <3> QED
      BY <1>2, <3>1, <3>2 DEF Upload
  <2> QED
    BY <1>2, <2>2, OneRow DEF Upload, TypeOK
<1>3. CASE Triage(i)
  <2>1. CASE \E rt \in Routes, target \in {"triaged", "needs_review"} :
                /\ Present(i)
                /\ index' = [index EXCEPT ![i] =
                               [status |-> Triaged(index[i].status, target), route |-> rt]]
    <3>1. PICK rt \in Routes, target \in {"triaged", "needs_review"} :
                /\ Present(i)
                /\ index' = [index EXCEPT ![i] =
                               [status |-> Triaged(index[i].status, target), route |-> rt]]
      BY <2>1
    <3>2. index[i].status \in Status
      BY <3>1 DEF Present, TypeOK, Row
    <3> DEFINE s == Triaged(index[i].status, target)
    <3>3. /\ s \in Status
          /\ index[i].status \in {"approved", "dispatched", "failed"} => s = index[i].status
          /\ s # index[i].status => s \in {"triaged", "needs_review"}
      BY <3>2, TriagedFacts
    <3>4. [status |-> s, route |-> rt] \in Row
      BY <3>3 DEF Row
    <3> HIDE DEF s
    <3>5. index' = [index EXCEPT ![i] = [status |-> s, route |-> rt]]
      BY <3>1 DEF s
    <3> QED
      BY <1>3, <3>1, <3>3, <3>4, <3>5, OneRow DEF Triage
  <2>2. CASE UNCHANGED index
    BY <1>1, <1>3, <2>2 DEF Triage
  <2> QED
    BY <1>3, <2>1, <2>2 DEF Triage, Missing, Unreadable
<1>4. CASE MarkNeedsReview(i)
  <2>1. CASE Missing("needs_review", i)
    BY <1>1, <1>4, <2>1 DEF MarkNeedsReview, Missing
  <2>2. CASE Move("needs_review", i, "needs_review")
    BY <1>4, <2>2, MoveStep DEF MarkNeedsReview
  <2> QED
    BY <1>4, <2>1, <2>2 DEF MarkNeedsReview
<1>5. CASE Approve(i)
  <2>1. CASE Missing("approve", i)
    BY <1>1, <1>5, <2>1 DEF Approve, Missing
  <2>2. CASE Move("approve", i, "approved")
    BY <1>5, <2>2, MoveStep DEF Approve
  <2> QED
    BY <1>5, <2>1, <2>2 DEF Approve
<1>6. CASE Reroute(i)
  <2>1. CASE \E rt \in Routes : Present(i) /\ index' = [index EXCEPT ![i].route = rt]
    <3>1. PICK rt \in Routes : Present(i) /\ index' = [index EXCEPT ![i].route = rt]
      BY <2>1
    <3>2. index[i] \in Row
      BY <3>1 DEF Present, TypeOK
    <3>3. /\ [index[i] EXCEPT !.route = rt] \in Row
          /\ [index[i] EXCEPT !.route = rt].status = index[i].status
      BY <3>2 DEF Row
    <3>4. index' = [index EXCEPT ![i] = [index[i] EXCEPT !.route = rt]]
      BY <3>1 DEF TypeOK
    <3> QED
      BY <1>6, <3>1, <3>3, <3>4, OneRow DEF Reroute
  <2>2. CASE UNCHANGED index
    BY <1>1, <1>6, <2>2 DEF Reroute
  <2> QED
    BY <1>6, <2>1, <2>2 DEF Reroute, Missing, Unreadable
<1> QED
  BY <1>2, <1>3, <1>4, <1>5, <1>6 DEF Inbox

-----------------------------------------------------------------------------
(* What a step of a dispatch handler does.                                  *)

Rejected(d, i, why) ==
    /\ task[d].at = "idle"
    /\ task' = [task EXCEPT ![d] = [NoTask EXCEPT !.at = "done", !.item = i]]
    /\ answer' = [answer EXCEPT ![d] = why]
    /\ UNCHANGED index

Entered(d, i, m, at) ==
    /\ task[d].at = "idle"
    /\ Present(i) /\ index[i].status = "approved"
    /\ task' = [task EXCEPT ![d] = [NoTask EXCEPT !.at = at, !.item = i, !.mode = m,
                                                  !.row = index[i]]]
    /\ UNCHANGED <<answer, index>>

\* d goes on, or ends without success: t is its new state.
Advanced(d, t, why) ==
    /\ task[d].at \in InFlight
    /\ t.at \in InFlight => why = "none"
    /\ t.at # "idle"
    /\ t.item = task[d].item /\ t.row = task[d].row
    /\ task' = [task EXCEPT ![d] = t]
    /\ answer' = [answer EXCEPT ![d] = why]
    /\ UNCHANGED index

Settled(d, t) ==
    /\ task[d].at \in InFlight
    /\ t.at = "done" /\ t.item = task[d].item
    /\ task' = [task EXCEPT ![d] = t]
    /\ answer' = [answer EXCEPT ![d] = "ok"]
    /\ index' = [index EXCEPT ![task[d].item] = [task[d].row EXCEPT !.status = "dispatched"]]

Failures == Answers \ {"ok"}

LEMMA HandlerStep ==
    ASSUME TypeOK, CopyInv, NEW d \in Dispatches, Handler(d)
    PROVE  /\ UNCHANGED <<blob, crashes>> /\ reply' = NoReply
           /\ \/ \E i \in Items, why \in Failures : Rejected(d, i, why)
              \/ \E i \in Items, m \in Modes, at \in {"arming", "starting"} : Entered(d, i, m, at)
              \/ \E t \in Task, why \in Failures : Advanced(d, t, why)
              \/ \E t \in Task : Settled(d, t)
<1>1. UNCHANGED <<blob, crashes>> /\ reply' = NoReply
  BY DEF Handler, Dispatch, ArmEnds, WorkEnds, StartEnds, Settle
<1> DEFINE Out == \/ \E i \in Items, why \in Failures : Rejected(d, i, why)
                  \/ \E i \in Items, m \in Modes, at \in {"arming", "starting"} : Entered(d, i, m, at)
                  \/ \E t \in Task, why \in Failures : Advanced(d, t, why)
                  \/ \E t \in Task : Settled(d, t)
<1> SUFFICES Out
  BY <1>1
<1>0. task[d] \in Task /\ task \in [Dispatches -> Task] /\ answer \in [Dispatches -> Answers]
  BY DEF TypeOK
<1>2. CASE Dispatch(d)
  <2>1. PICK i \in Items, m \in Modes, confirmed \in BOOLEAN :
          \/ \E why \in {"not_found", "failed", "not_approved", "confirmation_required"} :
                Reject(d, i, why)
          \/ /\ Present(i) /\ CanDispatch(index[i].status)
             /\ task' = [task EXCEPT ![d] =
                            [NoTask EXCEPT !.at = IF m = "work" THEN "arming" ELSE "starting",
                                           !.item = i, !.mode = m, !.row = index[i]]]
             /\ UNCHANGED answer
    BY <1>2 DEF Dispatch
  <2>2. UNCHANGED index /\ task[d].at = "idle"
    BY <1>2 DEF Dispatch
  <2>3. CASE \E why \in {"not_found", "failed", "not_approved", "confirmation_required"} :
                Reject(d, i, why)
    BY <2>2, <2>3 DEF Reject, Rejected, Failures, Answers
  <2>4. CASE /\ Present(i) /\ CanDispatch(index[i].status)
             /\ task' = [task EXCEPT ![d] =
                            [NoTask EXCEPT !.at = IF m = "work" THEN "arming" ELSE "starting",
                                           !.item = i, !.mode = m, !.row = index[i]]]
             /\ UNCHANGED answer
    <3>1. PICK at \in {"arming", "starting"} : at = IF m = "work" THEN "arming" ELSE "starting"
      OBVIOUS
    <3>2. Entered(d, i, m, at)
      BY <2>2, <2>4, <3>1 DEF Entered, CanDispatch
    <3> QED
      BY <3>2
  <2> QED
    BY <2>1, <2>3, <2>4
<1>3. ASSUME Raises(d), task[d].at \in InFlight, UNCHANGED index PROVE Out
  <2> DEFINE t == [task[d] EXCEPT !.at = "done"]
  <2>1. t \in Task /\ t.item = task[d].item /\ t.row = task[d].row /\ t.at = "done"
    BY <1>0 DEF Task, InFlight, Ran
  <2>2. task' = [task EXCEPT ![d] = t]
    BY <1>0, <1>3 DEF Raises
  <2> HIDE DEF t
  <2>3. Advanced(d, t, "error")
    BY <1>3, <2>1, <2>2 DEF Advanced, Raises, InFlight
  <2> QED
    BY <2>1, <2>3 DEF Failures, Answers
<1>4. ASSUME NEW t \in Task, t.item = task[d].item, t.row = task[d].row, t.at \in InFlight,
             task' = [task EXCEPT ![d] = t], UNCHANGED <<answer, index>>, task[d].at \in InFlight
      PROVE  Out
  <2>1. answer' = [answer EXCEPT ![d] = "none"]
    BY <1>0, <1>4 DEF CopyInv
  <2>2. Advanced(d, t, "none")
    BY <1>4, <2>1 DEF Advanced, InFlight
  <2> QED
    BY <2>2 DEF Failures, Answers
<1>5. CASE ArmEnds(d)
  <2>1. CASE Raises(d)
    BY <1>3, <1>5, <2>1 DEF ArmEnds, InFlight
  <2>2. ASSUME NEW o \in {"ok", "failed"},
               task' = [task EXCEPT ![d].at = "working", ![d].arm = o], UNCHANGED answer
        PROVE  Out
    <3> DEFINE t == [task[d] EXCEPT !.at = "working", !.arm = o]
    <3>1. t \in Task /\ t.item = task[d].item /\ t.row = task[d].row /\ t.at = "working"
      BY <1>0 DEF Task, InFlight, Ran
    <3>2. task' = [task EXCEPT ![d] = t]
      BY <1>0, <2>2
    <3> HIDE DEF t
    <3> QED
      BY <1>4, <1>5, <2>2, <3>1, <3>2 DEF ArmEnds, InFlight
  <2> QED
    BY <1>5, <2>1, <2>2 DEF ArmEnds
<1>6. CASE WorkEnds(d)
  <2>1. CASE Raises(d)
    BY <1>3, <1>6, <2>1 DEF WorkEnds, InFlight
  <2>2. ASSUME NEW o \in {"ok", "failed"},
               task' = [task EXCEPT ![d].at = "settling", ![d].work = o], UNCHANGED answer
        PROVE  Out
    <3> DEFINE t == [task[d] EXCEPT !.at = "settling", !.work = o]
    <3>1. t \in Task /\ t.item = task[d].item /\ t.row = task[d].row /\ t.at = "settling"
      BY <1>0 DEF Task, InFlight, Ran
    <3>2. task' = [task EXCEPT ![d] = t]
      BY <1>0, <2>2
    <3> HIDE DEF t
    <3> QED
      BY <1>4, <1>6, <2>2, <3>1, <3>2 DEF WorkEnds, InFlight
  <2> QED
    BY <1>6, <2>1, <2>2 DEF WorkEnds
<1>7. CASE StartEnds(d)
  <2>1. CASE Raises(d)
    BY <1>3, <1>7, <2>1 DEF StartEnds, InFlight
  <2>2. ASSUME NEW a \in Ran, NEW w \in Ran,
               task' = [task EXCEPT ![d].at = "settling", ![d].arm = a, ![d].work = w],
               UNCHANGED answer
        PROVE  Out
    <3> DEFINE t == [task[d] EXCEPT !.at = "settling", !.arm = a, !.work = w]
    <3>1. t \in Task /\ t.item = task[d].item /\ t.row = task[d].row /\ t.at = "settling"
      BY <1>0 DEF Task, InFlight, Ran
    <3>2. task' = [task EXCEPT ![d] = t]
      BY <1>0, <2>2
    <3> HIDE DEF t
    <3> QED
      BY <1>4, <1>7, <2>2, <3>1, <3>2 DEF StartEnds, InFlight
  <2> QED
    BY <1>7, <2>1, <2>2 DEF StartEnds
<1>8. CASE Settle(d)
  <2> DEFINE t == [task[d] EXCEPT !.at = "done"]
  <2>1. t \in Task /\ t.item = task[d].item /\ t.row = task[d].row /\ t.at = "done"
    BY <1>0 DEF Task, InFlight, Ran
  <2>2. task' = [task EXCEPT ![d] = t]
    BY <1>0, <1>8 DEF Settle
  <2>3. task[d].at \in InFlight
    BY <1>8 DEF Settle, InFlight
  <2> HIDE DEF t
  <2>4. CASE answer' = [answer EXCEPT ![d] = "not_ok"] /\ UNCHANGED index
    <3>1. Advanced(d, t, "not_ok")
      BY <2>1, <2>2, <2>3, <2>4 DEF Advanced, InFlight
    <3> QED
      BY <2>1, <3>1 DEF Failures, Answers
  <2>5. CASE /\ answer' = [answer EXCEPT ![d] = "ok"]
             /\ index' = [index EXCEPT ![task[d].item] =
                             [task[d].row EXCEPT !.status = "dispatched"]]
    <3>1. Settled(d, t)
      BY <2>1, <2>2, <2>3, <2>5 DEF Settled
    <3> QED
      BY <2>1, <3>1
  <2> QED
    BY <1>8, <2>4, <2>5 DEF Settle
<1> QED
  BY <1>2, <1>5, <1>6, <1>7, <1>8 DEF Handler

-----------------------------------------------------------------------------
(* What any step does to a row.                                             *)

LEMMA Steps ==
    ASSUME [Next]_vars
    PROVE  \/ \E i \in Items : Inbox(i)
           \/ \E d \in Dispatches : Handler(d)
           \/ Crash
           \/ UNCHANGED vars
BY DEF Next, Inbox

LEMMA CrashFacts ==
    ASSUME TypeOK, Crash
    PROVE  /\ UNCHANGED answer
           /\ task' \in [Dispatches -> Task]
           /\ \A d \in Dispatches :
                 /\ task'[d].item = task[d].item /\ task'[d].arm = task[d].arm
                 /\ task'[d].at \notin InFlight
                 /\ task'[d].at = "idle" => task'[d] = task[d]
           /\ blob' \in [Items -> {"none", "readable", "unreadable"}]
           /\ index' \in [Items -> Row \cup {Absent}]
           /\ \A j \in Items :
                 /\ blob[j] # "none" => blob'[j] # "none"
                 /\ blob'[j] = "none" => blob[j] = "none"
                 /\ \/ index'[j] = index[j]
                    \/ index'[j] = Absent
                    \/ /\ blob[j] = "none" /\ blob'[j] # "none"
                       /\ index'[j].status # "dispatched"
<1>1. \A d \in Dispatches : task[d] \in Task
  BY DEF TypeOK
<1>2. \A d \in Dispatches :
         LET t == [task[d] EXCEPT !.at = "lost"]
         IN  t \in Task /\ t.item = task[d].item /\ t.arm = task[d].arm /\ t.at = "lost"
  BY <1>1 DEF Task
<1>3. \A d \in Dispatches :
         task'[d] = IF task[d].at \in InFlight THEN [task[d] EXCEPT !.at = "lost"] ELSE task[d]
  BY DEF Crash
<1>4. \A d \in Dispatches :
         /\ task'[d] \in Task /\ task'[d].item = task[d].item /\ task'[d].arm = task[d].arm
         /\ task'[d].at \notin InFlight
         /\ task'[d].at = "idle" => task'[d] = task[d]
  <2> SUFFICES ASSUME NEW d \in Dispatches
               PROVE  /\ task'[d] \in Task /\ task'[d].item = task[d].item
                      /\ task'[d].arm = task[d].arm
                      /\ task'[d].at \notin InFlight
                      /\ task'[d].at = "idle" => task'[d] = task[d]
    OBVIOUS
  <2>1. CASE task[d].at \in InFlight
    BY <1>2, <1>3, <2>1 DEF InFlight
  <2>2. CASE task[d].at \notin InFlight
    BY <1>1, <1>3, <2>2
  <2> QED
    BY <2>1, <2>2
<1>5. task' \in [Dispatches -> Task]
  BY <1>4 DEF Crash
<1>6. [status |-> "uploaded", route |-> Absent] \in Row
  BY DEF Row, Status
<1>7. /\ blob' \in [Items -> {"none", "readable", "unreadable"}]
      /\ index' \in [Items -> Row \cup {Absent}]
      /\ \A j \in Items :
            /\ blob[j] # "none" => blob'[j] # "none"
            /\ blob'[j] = "none" => blob[j] = "none"
            /\ \/ index'[j] = index[j]
               \/ index'[j] = Absent
               \/ /\ blob[j] = "none" /\ blob'[j] # "none"
                  /\ index'[j].status # "dispatched"
  BY <1>6 DEF Crash, EmptyIndex, TypeOK
<1> QED
  BY <1>4, <1>5, <1>7 DEF Crash

\* Every step follows RowStep, loses the row, or marks it dispatched.
LEMMA IndexStep ==
    ASSUME TypeOK, EngagedInv, CopyInv, FreshInv, [Next]_vars
    PROVE  /\ index' \in [Items -> Row \cup {Absent}]
           /\ \A j \in Items :
                 /\ blob[j] # "none" => blob'[j] # "none"
                 /\ \/ RowStep(j)
                    \/ index'[j] = Absent
                    \/ blob[j] = "none" /\ index'[j].status # "dispatched"
                    \/ /\ index'[j] \in Row /\ index'[j].status = "dispatched"
                       /\ Present(j) => index[j].status \in {"approved", "dispatched"}
<1>1. CASE \E i \in Items : Inbox(i)
  BY <1>1, InboxStep
<1>2. ASSUME NEW d \in Dispatches, Handler(d), UNCHANGED index
      PROVE  /\ index' \in [Items -> Row \cup {Absent}]
             /\ \A j \in Items : (blob[j] # "none" => blob'[j] # "none") /\ RowStep(j)
  BY <1>2, HandlerStep DEF TypeOK, RowStep
<1>3. ASSUME NEW d \in Dispatches, Handler(d), NEW t \in Task, Settled(d, t)
      PROVE  /\ index' \in [Items -> Row \cup {Absent}]
             /\ \A j \in Items :
                   /\ blob[j] # "none" => blob'[j] # "none"
                   /\ \/ RowStep(j)
                      \/ /\ index'[j] \in Row /\ index'[j].status = "dispatched"
                         /\ Present(j) => index[j].status \in {"approved", "dispatched"}
  <2> DEFINE i == task[d].item
             row == [task[d].row EXCEPT !.status = "dispatched"]
  <2>1. task[d].row \in Row
    BY <1>3 DEF Settled, CopyInv
  <2>2. row \in Row /\ row.status = "dispatched"
    BY <2>1 DEF Row, Status
  <2>3. i \in Items /\ (Present(i) => index[i].status \in {"approved", "dispatched"})
    BY <1>3 DEF Settled, EngagedInv, Engaged
  <2>4. index' = [index EXCEPT ![i] = row] /\ blob' = blob
    BY <1>3, HandlerStep DEF Settled
  <2> HIDE DEF i, row
  <2> QED
    BY <2>2, <2>3, <2>4 DEF TypeOK, RowStep
<1>4. CASE \E d \in Dispatches : Handler(d)
  BY <1>2, <1>3, <1>4, HandlerStep DEF Rejected, Entered, Advanced
<1>5. CASE Crash
  BY <1>5, CrashFacts DEF RowStep
<1>6. CASE UNCHANGED vars
  BY <1>6 DEF vars, TypeOK, RowStep
<1> QED
  BY <1>1, <1>4, <1>5, <1>6, Steps

-----------------------------------------------------------------------------
(* The invariant is inductive.                                              *)

LEMMA TypeNext ==
    ASSUME TypeOK, EngagedInv, CopyInv, FreshInv, [Next]_vars
    PROVE  TypeOK'
<1>0. index' \in [Items -> Row \cup {Absent}]
  BY IndexStep
<1>1. ASSUME NEW i \in Items, Inbox(i) PROVE TypeOK'
  <2>1. UNCHANGED <<task, answer, crashes>>
    BY <1>1, InboxStep
  <2>2. blob' \in [Items -> {"none", "readable", "unreadable"}]
    BY <1>1 DEF Inbox, Upload, Triage, MarkNeedsReview, Approve, Reroute, TypeOK
  <2>3. \E o \in Operations, c \in Codes : reply' = Reply(o, i, c)
    BY <1>1 DEF Inbox, Upload, Triage, MarkNeedsReview, Approve, Reroute, Missing, Unreadable,
                Move, Operations, Codes
  <2>4. reply' \in [op : Operations, item : Items \cup {Absent}, code : Codes]
    BY <2>3 DEF Reply
  <2> QED
    BY <1>0, <2>1, <2>2, <2>4 DEF TypeOK
<1>2. NoReply \in [op : Operations, item : Items \cup {Absent}, code : Codes]
  BY DEF NoReply, Operations, Codes
<1>3. ASSUME NEW d \in Dispatches, Handler(d) PROVE TypeOK'
  <2>1. UNCHANGED <<blob, crashes>> /\ reply' = NoReply
    BY <1>3, HandlerStep
  <2>2. task' \in [Dispatches -> Task] /\ answer' \in [Dispatches -> Answers]
    <3>1. ASSUME NEW i \in Items, NEW why \in Failures, Rejected(d, i, why)
          PROVE  task' \in [Dispatches -> Task] /\ answer' \in [Dispatches -> Answers]
      <4>1. [NoTask EXCEPT !.at = "done", !.item = i] \in Task
        BY DEF NoTask, Task, Ran
      <4> QED
        BY <3>1, <4>1 DEF Rejected, TypeOK, Failures
    <3>2. ASSUME NEW i \in Items, NEW m \in Modes, NEW at \in {"arming", "starting"},
                 Entered(d, i, m, at)
          PROVE  task' \in [Dispatches -> Task] /\ answer' \in [Dispatches -> Answers]
      <4>1. index[i] \in Row
        BY <3>2 DEF Entered, Present, TypeOK
      <4>2. [NoTask EXCEPT !.at = at, !.item = i, !.mode = m, !.row = index[i]] \in Task
        BY <4>1 DEF NoTask, Task, Ran, InFlight
      <4> QED
        BY <3>2, <4>2 DEF Entered, TypeOK
    <3>3. ASSUME NEW t \in Task, NEW why \in Failures, Advanced(d, t, why)
          PROVE  task' \in [Dispatches -> Task] /\ answer' \in [Dispatches -> Answers]
      BY <3>3 DEF Advanced, TypeOK, Failures
    <3>4. ASSUME NEW t \in Task, Settled(d, t)
          PROVE  task' \in [Dispatches -> Task] /\ answer' \in [Dispatches -> Answers]
      BY <3>4 DEF Settled, TypeOK, Answers
    <3> QED
      BY <1>3, <3>1, <3>2, <3>3, <3>4, HandlerStep
  <2> QED
    BY <1>0, <1>2, <2>1, <2>2 DEF TypeOK
<1>4. CASE Crash
  <2>1. reply' = NoReply /\ crashes' \in Nat
    BY <1>4 DEF Crash, TypeOK
  <2> QED
    BY <1>0, <1>2, <1>4, <2>1, CrashFacts DEF TypeOK
<1>5. CASE UNCHANGED vars
  BY <1>5 DEF vars, TypeOK
<1> QED
  BY <1>1, <1>3, <1>4, <1>5, Steps

LEMMA RestNext ==
    ASSUME TypeOK, EngagedInv, CopyInv, FreshInv, OkIsDurable, [Next]_vars
    PROVE  EngagedInv' /\ CopyInv' /\ FreshInv' /\ OkIsDurable'
<1> DEFINE E(d) ==
             Engaged(d) =>
                /\ task[d].item \in Items
                /\ blob[task[d].item] # "none"
                /\ Present(task[d].item) =>
                      index[task[d].item].status \in {"approved", "dispatched"}
           C(d) == task[d].at \in InFlight => task[d].row \in Row /\ answer[d] = "none"
           F(d) == task[d].at = "idle" => task[d] = NoTask /\ answer[d] = "none"
           O(d) == answer[d] = "ok" /\ Present(task[d].item) =>
                      index[task[d].item].status = "dispatched"
           All(d) == E(d) /\ C(d) /\ F(d) /\ O(d)
<1>0. \A d \in Dispatches : All(d)
  BY DEF EngagedInv, CopyInv, FreshInv, OkIsDurable
\* A handler that keeps its item, and was engaged if it still is.
<1>1. ASSUME NEW d \in Dispatches, Engaged(d), task'[d].item = task[d].item
      PROVE  /\ task'[d].item \in Items
             /\ blob'[task'[d].item] # "none"
             /\ index'[task'[d].item] # Absent =>
                   index'[task'[d].item].status \in {"approved", "dispatched"}
             /\ answer[d] = "ok" /\ index'[task'[d].item] # Absent =>
                   index'[task'[d].item].status = "dispatched"
  <2>1. PICK j \in Items : j = task[d].item
    BY <1>0, <1>1
  <2>2. blob[j] # "none" /\ (Present(j) => index[j].status \in {"approved", "dispatched"})
    BY <1>0, <1>1, <2>1
  <2>3. answer[d] = "ok" /\ Present(j) => index[j].status = "dispatched"
    BY <1>0, <2>1
  <2>4. /\ blob'[j] # "none"
        /\ \/ RowStep(j)
           \/ index'[j] = Absent
           \/ index'[j].status = "dispatched"
    BY <2>2, IndexStep
  <2>5. Present(j)' => index'[j].status \in {"approved", "dispatched"}
    BY <2>2, <2>4 DEF RowStep, Present
  <2>6. answer[d] = "ok" /\ Present(j)' => index'[j].status = "dispatched"
    BY <2>2, <2>3, <2>4 DEF RowStep, Present
  <2> QED
    BY <1>1, <2>1, <2>4, <2>5, <2>6 DEF Present
\* A handler that does not become engaged, nor is answered ok, by this step.
<1>6. ASSUME NEW d \in Dispatches, Engaged(d)' => Engaged(d), answer'[d] = "ok" => answer[d] = "ok",
             task'[d].item = task[d].item
      PROVE  E(d)' /\ O(d)'
  <2>1. answer[d] = "ok" => Engaged(d)
    BY DEF Engaged
  <2>2. CASE Engaged(d)
    <3>1. /\ task'[d].item \in Items
          /\ blob'[task'[d].item] # "none"
          /\ index'[task'[d].item] # Absent =>
                index'[task'[d].item].status \in {"approved", "dispatched"}
          /\ answer[d] = "ok" /\ index'[task'[d].item] # Absent =>
                index'[task'[d].item].status = "dispatched"
      BY <1>1, <1>6, <2>2
    <3> QED
      BY <1>6, <3>1 DEF Present
  <2>3. CASE ~Engaged(d)
    BY <1>6, <2>1, <2>3
  <2> QED
    BY <2>2, <2>3
<1>2. ASSUME NEW d \in Dispatches, task'[d] = task[d], answer'[d] = answer[d]
      PROVE  All(d)'
  <2>1. Engaged(d)' => Engaged(d)
    BY <1>2 DEF Engaged
  <2>2. E(d)' /\ O(d)'
    BY <1>2, <1>6, <2>1
  <2>3. C(d)' /\ F(d)'
    BY <1>0, <1>2
  <2> QED
    BY <2>2, <2>3
<1>3. \A i \in Items : blob'[i] = "none" => ~Present(i)'
  <2>1. CASE \E i \in Items : Inbox(i)
    BY <2>1 DEF FreshInv, Inbox, Upload, Triage, MarkNeedsReview, Approve, Reroute, Missing,
                Unreadable, Move, Present, TypeOK
  <2>2. CASE \E d \in Dispatches : Handler(d)
    <3> SUFFICES ASSUME NEW i \in Items, blob'[i] = "none" PROVE index'[i] = Absent
      BY DEF Present
    <3>1. blob' = blob /\ index[i] = Absent
      BY <2>2, HandlerStep DEF FreshInv, Present
    <3>2. CASE UNCHANGED index
      BY <3>1, <3>2
    <3>3. ASSUME NEW d \in Dispatches, NEW t \in Task, Settled(d, t) PROVE index'[i] = Absent
      BY <1>0, <3>1, <3>3 DEF Settled, Engaged, TypeOK
    <3> QED
      BY <2>2, <3>2, <3>3, HandlerStep DEF Rejected, Entered, Advanced
  <2>3. CASE Crash
    BY <2>3, CrashFacts DEF FreshInv, Present
  <2>4. CASE UNCHANGED vars
    BY <2>4 DEF vars, FreshInv, Present
  <2> QED
    BY <2>1, <2>2, <2>3, <2>4, Steps
<1>4. ASSUME NEW d \in Dispatches, Handler(d), NEW e \in Dispatches PROVE All(e)'
  <2>0. task \in [Dispatches -> Task] /\ answer \in [Dispatches -> Answers] /\ blob' = blob
    BY <1>4, HandlerStep DEF TypeOK
  <2>1. ASSUME NEW t, NEW why, task' = [task EXCEPT ![d] = t],
               answer' \in {answer, [answer EXCEPT ![d] = why]}, e # d
        PROVE  All(e)'
    BY <1>2, <2>0, <2>1
  <2>2. ASSUME NEW i \in Items, NEW why \in Failures, Rejected(d, i, why) PROVE All(e)'
    <3>1. CASE e = d
      <4>1. /\ task'[e].at = "done" /\ task'[e].arm = "never"
            /\ answer'[e] = why /\ why # "ok"
        BY <2>0, <2>2, <3>1 DEF Rejected, Failures, NoTask
      <4> QED
        BY <4>1 DEF Engaged, InFlight
    <3> QED
      BY <2>1, <2>2, <3>1 DEF Rejected
  <2>3. ASSUME NEW i \in Items, NEW m \in Modes, NEW at \in {"arming", "starting"},
               Entered(d, i, m, at)
        PROVE  All(e)'
    <3>1. CASE e = d
      <4>1. /\ task'[e].at = at /\ task'[e].item = i /\ task'[e].row = index[i]
            /\ answer'[e] = "none" /\ index' = index
        BY <1>0, <2>0, <2>3, <3>1 DEF Entered, NoTask
      <4>2. index[i] \in Row /\ index[i].status = "approved" /\ blob[i] # "none"
        BY <2>3 DEF Entered, Present, TypeOK, FreshInv
      <4> QED
        BY <2>0, <4>1, <4>2 DEF Engaged, InFlight
    <3> QED
      BY <2>1, <2>3, <3>1 DEF Entered
  <2>4. ASSUME NEW t \in Task, NEW why \in Failures, Advanced(d, t, why) PROVE All(e)'
    <3>1. CASE e = d
      <4>1. /\ task'[e] = t /\ answer'[e] = why /\ why # "ok"
            /\ t.item = task[e].item /\ t.row = task[e].row /\ t.at # "idle"
            /\ t.at \in InFlight => why = "none"
            /\ task[e].at \in InFlight
        BY <2>0, <2>4, <3>1 DEF Advanced, Failures
      <4>2. Engaged(e)
        BY <4>1 DEF Engaged
      <4> QED
        <5>1. E(e)' /\ O(e)'
          BY <1>6, <4>1, <4>2
        <5>2. C(e)' /\ F(e)'
          BY <1>0, <4>1
        <5> QED
          BY <5>1, <5>2
    <3> QED
      BY <2>1, <2>4, <3>1 DEF Advanced
  <2>5. ASSUME NEW t \in Task, Settled(d, t) PROVE All(e)'
    <3>1. CASE e = d
      <4>1. /\ task'[e] = t /\ answer'[e] = "ok" /\ t.item = task[e].item /\ t.at = "done"
            /\ task[e].at \in InFlight
            /\ index' = [index EXCEPT ![task[e].item] =
                            [task[e].row EXCEPT !.status = "dispatched"]]
        BY <2>0, <2>5, <3>1 DEF Settled
      <4>2. Engaged(e) /\ task[e].item \in Items /\ task[e].row \in Row
        BY <1>0, <4>1 DEF Engaged
      <4>3. index'[task[e].item].status = "dispatched"
        BY <4>1, <4>2 DEF TypeOK, Row
      <4> QED
        BY <1>1, <4>1, <4>2, <4>3 DEF InFlight
    <3> QED
      BY <2>1, <2>5, <3>1 DEF Settled
  <2> QED
    BY <1>4, <2>2, <2>3, <2>4, <2>5, HandlerStep
<1>5. ASSUME NEW d \in Dispatches PROVE All(d)'
  <2>1. CASE \E i \in Items : Inbox(i)
    BY <1>2, <2>1, InboxStep
  <2>2. CASE Crash
    <3>1. /\ answer'[d] = answer[d] /\ task'[d].item = task[d].item
          /\ task'[d].arm = task[d].arm /\ task'[d].at \notin InFlight
          /\ task'[d].at = "idle" => task'[d] = task[d]
      BY <2>2, CrashFacts
    <3>2. Engaged(d)' => Engaged(d)
      BY <3>1 DEF Engaged
    <3> QED
      <4>1. E(d)' /\ O(d)'
        BY <1>6, <3>1, <3>2
      <4>2. C(d)' /\ F(d)'
        BY <1>0, <3>1
      <4> QED
        BY <4>1, <4>2
  <2>3. CASE UNCHANGED vars
    BY <1>2, <2>3 DEF vars
  <2> QED
    BY <1>4, <2>1, <2>2, <2>3, Steps
<1> QED
  BY <1>3, <1>5 DEF EngagedInv, CopyInv, FreshInv, OkIsDurable

LEMMA InitIInv == Init => IInv
<1> SUFFICES ASSUME Init PROVE IInv
  OBVIOUS
<1>1. index \in [Items -> Row \cup {Absent}]
  BY DEF Init, Row, Status
<1>2. NoTask \in Task /\ NoTask.at = "idle" /\ NoTask.arm = "never"
  BY DEF NoTask, Task, Ran
<1>3. NoReply \in [op : Operations, item : Items \cup {Absent}, code : Codes]
  BY DEF NoReply, Operations, Codes
<1>4. TypeOK
  BY <1>1, <1>2, <1>3 DEF Init, TypeOK, Answers
<1>5. \A d \in Dispatches : task[d] = NoTask /\ answer[d] = "none"
  BY DEF Init
<1>6. \A i \in Items : blob[i] = "none" => ~Present(i)
  BY DEF Init, Present
<1> QED
  BY <1>2, <1>4, <1>5, <1>6 DEF IInv, EngagedInv, Engaged, CopyInv, FreshInv, OkIsDurable, InFlight

LEMMA AlwaysIInv == Spec => []IInv
<1>1. IInv /\ [Next]_vars => IInv'
  BY TypeNext, RestNext DEF IInv
<1> QED
  BY <1>1, InitIInv, PTL DEF Spec

\* Every row of the index keeps one of the seven statuses, whatever is torn,
\* stale or lost.
THEOREM TypeCorrect == Spec => []TypeOK
<1>1. IInv => TypeOK
  BY DEF IInv
<1> QED
  BY <1>1, AlwaysIInv, PTL

\* The fleet is only ever called for items past their approval.
THEOREM ApprovedOnly == Spec => []NoFleetUnapproved
<1>1. IInv => NoFleetUnapproved
  BY DEF IInv, EngagedInv, Engaged, NoFleetUnapproved
<1> QED
  BY <1>1, AlwaysIInv, PTL

\* A dispatch answered ok stays dispatched, through overlapping handlers that
\* save stale copies and through crashes.
THEOREM OkStays == Spec => []OkIsDurable
<1>1. IInv => OkIsDurable
  BY DEF IInv
<1> QED
  BY <1>1, AlwaysIInv, PTL

\* No step takes an item back or skips its review.
THEOREM ForwardOnly == Spec => NothingMovesBack
<1> DEFINE A == \A i \in Items :
          Present(i) /\ index'[i] # Absent /\ index'[i].status # index[i].status =>
              /\ index[i].status \notin {"dispatched", "failed"}
              /\ index'[i].status = "approved" =>
                    index[i].status \in {"needs_review", "routed"}
              /\ index'[i].status = "dispatched" => index[i].status = "approved"
<1>1. IInv /\ [Next]_vars => [A]_vars
  <2> SUFFICES ASSUME IInv, [Next]_vars, NEW i \in Items,
                      Present(i), index'[i] # Absent, index'[i].status # index[i].status
               PROVE  /\ index[i].status \notin {"dispatched", "failed"}
                      /\ index'[i].status = "approved" =>
                            index[i].status \in {"needs_review", "routed"}
                      /\ index'[i].status = "dispatched" => index[i].status = "approved"
    OBVIOUS
  <2>1. blob[i] # "none"
    BY DEF IInv, FreshInv
  <2> QED
    BY <2>1, IndexStep DEF IInv, RowStep
<1> QED
  BY <1>1, AlwaysIInv, PTL DEF Spec, NothingMovesBack

-----------------------------------------------------------------------------
(* Every dispatched item was paid for.                                      *)

\* d is a finished dispatch of i that the fleet accepted.
Paid(d, i) ==
    /\ task[d].at = "done" /\ task[d].item = i
    /\ \/ task[d].work = "ok"
       \/ task[d].mode = "start_development" /\ task[d].arm = "ok"

\* A finished handler never runs again, so what it was told stays known when
\* other handlers save the same item.
PaidInv ==
    /\ \A d \in Dispatches : task[d].at \in InFlight => task[d].mode \in Modes
    /\ \A i \in Items :
          Present(i) /\ index[i].status = "dispatched" => \E d \in Dispatches : Paid(d, i)

LEMMA HandlerMode ==
    ASSUME TypeOK, NEW d \in Dispatches, Handler(d), task[d].at \in InFlight => task[d].mode \in Modes
    PROVE  /\ task[d].at # "done"
           /\ task'[d].at \in InFlight => task'[d].mode \in Modes
           /\ \A e \in Dispatches \ {d} : task'[e] = task[e]
<1>1. task[d] \in Task /\ task \in [Dispatches -> Task]
  BY DEF TypeOK
<1>2. CASE Dispatch(d)
  BY <1>1, <1>2 DEF Dispatch, Reject, NoTask, InFlight
<1>3. CASE ArmEnds(d)
  BY <1>1, <1>3 DEF ArmEnds, Raises, InFlight, Task
<1>4. CASE WorkEnds(d)
  BY <1>1, <1>4 DEF WorkEnds, Raises, InFlight, Task
<1>5. CASE StartEnds(d)
  <2>1. CASE Raises(d)
    BY <1>1, <1>5, <2>1 DEF StartEnds, Raises, InFlight, Task
  <2>2. ASSUME NEW a \in Ran, NEW w \in Ran,
               task' = [task EXCEPT ![d].at = "settling", ![d].arm = a, ![d].work = w]
        PROVE  /\ task'[d].mode = task[d].mode
               /\ \A e \in Dispatches \ {d} : task'[e] = task[e]
    BY <1>1, <2>2 DEF Task
  <2> QED
    BY <1>5, <2>1, <2>2 DEF StartEnds, InFlight
<1>6. CASE Settle(d)
  BY <1>1, <1>6 DEF Settle, InFlight, Task
<1> QED
  BY <1>2, <1>3, <1>4, <1>5, <1>6 DEF Handler

\* A handler that marks an item dispatched has paid for it.
LEMMA HandlerPays ==
    ASSUME TypeOK, EngagedInv, CopyInv, PaidInv, NEW d \in Dispatches, Handler(d),
           NEW i \in Items, index'[i] # index[i]
    PROVE  Paid(d, i)'
<1>1. PICK t \in Task : Settled(d, t)
  BY HandlerStep DEF Rejected, Entered, Advanced
<1>2. task[d].item = i
  BY <1>1 DEF Settled, TypeOK
<1>3. answer[d] = "none" /\ answer \in [Dispatches -> Answers]
  BY <1>1 DEF Settled, CopyInv, TypeOK
<1>4. answer'[d] = "ok"
  BY <1>1, <1>3 DEF Settled
<1>5. Settle(d) /\ MayBeOk(d)
  BY <1>3, <1>4 DEF Handler, Dispatch, Reject, ArmEnds, WorkEnds, StartEnds, Settle, Raises
<1>6. task[d].mode \in Modes
  BY <1>5 DEF PaidInv, Settle, InFlight
<1>7. /\ task'[d].at = "done" /\ task'[d].item = i /\ task'[d].mode = task[d].mode
      /\ task'[d].arm = task[d].arm /\ task'[d].work = task[d].work
  BY <1>2, <1>5 DEF Settle, TypeOK, Task
<1> QED
  BY <1>5, <1>6, <1>7, IngestionAssumption DEF MayBeOk, Paid

LEMMA PaidNext ==
    ASSUME IInv, PaidInv, [Next]_vars
    PROVE  PaidInv'
<1> DEFINE M(d) == task[d].at \in InFlight => task[d].mode \in Modes
           Marked(i) == Present(i) /\ index[i].status = "dispatched"
<1> USE DEF IInv
<1>1. ASSUME \A d \in Dispatches : M(d)',
             \A d \in Dispatches, i \in Items : Paid(d, i) => Paid(d, i)',
             \A i \in Items : Marked(i)' =>
                index'[i] = index[i] \/ RowStep(i) \/ \E d \in Dispatches : Paid(d, i)'
      PROVE  PaidInv'
  <2> SUFFICES ASSUME NEW i \in Items, Marked(i)' PROVE \E d \in Dispatches : Paid(d, i)'
    BY <1>1 DEF PaidInv
  <2>1. CASE \E d \in Dispatches : Paid(d, i)'
    BY <2>1
  <2>2. CASE index'[i] = index[i] \/ RowStep(i)
    <3>1. Marked(i)
      BY <2>2 DEF RowStep, Present
    <3>2. PICK d \in Dispatches : Paid(d, i)
      BY <3>1 DEF PaidInv
    <3> QED
      BY <1>1, <3>2
  <2> QED
    BY <1>1, <2>1, <2>2
<1>2. \A d \in Dispatches : M(d)
  BY DEF PaidInv
<1> HIDE DEF M
<1>3. CASE \E i \in Items : Inbox(i)
  <2>1. task' = task /\ \A j \in Items : RowStep(j)
    BY <1>3, InboxStep
  <2> QED
    BY <1>1, <1>2, <2>1 DEF Paid, M
<1>4. ASSUME NEW d \in Dispatches, Handler(d) PROVE PaidInv'
  <2>1. /\ task[d].at # "done" /\ M(d)'
        /\ \A e \in Dispatches \ {d} : task'[e] = task[e]
    BY <1>2, <1>4, HandlerMode DEF M
  <2>2. \A e \in Dispatches : M(e)'
    BY <1>2, <2>1 DEF M
  <2>3. \A e \in Dispatches, i \in Items : Paid(e, i) => Paid(e, i)'
    BY <2>1 DEF Paid
  <2>4. \A i \in Items : index'[i] # index[i] => Paid(d, i)'
    BY <1>4, HandlerPays
  <2> QED
    BY <1>1, <2>2, <2>3, <2>4
<1>5. CASE Crash
  <2>1. \A d \in Dispatches :
           task'[d] = IF task[d].at \in InFlight THEN [task[d] EXCEPT !.at = "lost"] ELSE task[d]
    BY <1>5 DEF Crash
  <2>2. \A d \in Dispatches : task[d].at = "done" => task'[d] = task[d]
    BY <2>1 DEF InFlight
  <2>3. \A d \in Dispatches, i \in Items : Paid(d, i) => Paid(d, i)'
    BY <2>2 DEF Paid
  <2>4. \A d \in Dispatches : M(d)'
    BY <1>5, CrashFacts DEF M
  <2>5. \A i \in Items : Marked(i)' => index'[i] = index[i]
    BY <1>5, CrashFacts DEF Present
  <2> QED
    BY <1>1, <2>3, <2>4, <2>5
<1>6. CASE UNCHANGED vars
  BY <1>1, <1>2, <1>6 DEF vars, Paid, M
<1> QED
  BY <1>3, <1>4, <1>5, <1>6, Steps

\* No item is ever marked dispatched on the strength of a failed call, also
\* when several handlers of it overlap and the process restarts.
THEOREM DispatchesEarned == Spec => []DispatchIsEarned
<1>1. Init => PaidInv
  BY DEF Init, PaidInv, Present, NoTask, InFlight
<1>2. IInv /\ PaidInv /\ [Next]_vars => PaidInv'
  BY PaidNext
<1>3. PaidInv => DispatchIsEarned
  BY DEF PaidInv, Paid, DispatchIsEarned
<1> QED
  BY <1>1, <1>2, <1>3, AlwaysIInv, PTL DEF Spec
=============================================================================
