---------------------------- MODULE VoiceSession ----------------------------
(***************************************************************************)
(* What a transcript does, in a session of the voice room                   *)
(* (maybe_handle_frame_intent, advoi/voice/intent_processor.py), of the      *)
(* local voice page (warm_spoken_reply, advoi/voice/respond.py) or at the    *)
(* preview endpoint (voice_intent, advoi/api/app.py): the order in which the *)
(* confirmations, operator intents, projects and frames are looked for, the  *)
(* Guardian gate, and the confirmations a session is waiting for.            *)
(*                                                                          *)
(* Both handlers read and change a session's pending confirmations before    *)
(* their first await or, in the room, where one transcript is handled after  *)
(* the other, after it: a transcript is one step.                            *)
(***************************************************************************)
EXTENDS Integers

CONSTANTS
    Rooms,          \* sessions of the voice agent's process
    Pages,          \* sessions of the API process
    Transcripts,    \* what users may say, as the classifiers see it
    None,           \* nothing classified, asked or pending
    ConfirmationRequired,   \* ADVOI_CONFIRMATION_REQUIRED
    MaxTurns        \* bound on what is said

Sessions == Rooms \cup Pages

FleetActions == {"wake_firstmate", "start_development", "run_next_backlog", "fleet_stop"}

Operators == FleetActions \cup
    {"info", "stop_agents", "restart_agents", "run_all", "dispatch_squads"}

\* A transcript: the intents it matches, whether it holds a confirming word
\* (is_confirm_phrase), whether the Guardian takes it for a confirmation
\* (transcript_has_explicit_confirm), and whether stop_agents does.
Transcript ==
    [op : Operators \cup {None},
     project : {"switch", "function", None},
     frame : {"review", "other", None},
     confirm : BOOLEAN, explicit : BOOLEAN, stopGo : BOOLEAN]

ASSUME VoiceAssumption ==
    /\ Rooms \cap Pages = {}
    /\ Transcripts \subseteq Transcript
    /\ \A u \in Transcripts :
          /\ u.confirm => u.explicit
          /\ u.project = "function" => u.frame # None
    /\ None \notin Operators \cup {"switch", "function", "review", "other"}
    /\ ConfirmationRequired \in BOOLEAN
    /\ MaxTurns \in Nat

VARIABLES
    fleet,      \* the fleet action each session is to confirm, or None
    review,     \* does the session wait for a yes to its deep review?
    cached,     \* does the agent cache hold the answer of a queued review?
    asked,      \* history: what each session was last asked to confirm
    asks,       \* history: how often it was asked to confirm a fleet action
    runs,       \* history: how often its confirmation ran that action
    did,        \* history: the turn that ended last
    turns       \* history: how many there were

history == <<asked, asks, runs>>
vars == <<fleet, review, cached, asked, asks, runs, did, turns>>

Askable == FleetActions \cup {"stop_agents", "review"}

\* What a turn may set off.
Effects == FleetActions \cup {"stop_agents", "restart_agents", "review", "frames", "squads"}

Silence == [said |-> None, by |-> None, asked |-> None, ran |-> {}]

-----------------------------------------------------------------------------
(* The gates.                                                               *)

\* Mutant: stopping the fleet is not a write.
FleetGatedLax(u) ==
    u.op \in FleetActions \ {"fleet_stop"} /\ ConfirmationRequired /\ ~u.explicit

\* evaluate_fleet_confirmation of a transcript
FleetGated(u) == u.op \in FleetActions /\ ConfirmationRequired /\ ~u.explicit

\* _stop_agents_needs_confirm
StopGated(u) == u.op = "stop_agents" /\ ConfirmationRequired /\ ~u.stopGo

\* _reply_operator_intent: the full run runs the deep review too, confirmed.
OperatorRuns(op) ==
    CASE op = "run_all" -> {"frames", "review"}
      [] op = "dispatch_squads" -> {"frames", "review", "squads"}
      [] op = "info" -> {}
      [] OTHER -> {op}

\* resolve_voice_action: every frame but the deep review counts as confirmed.
FrameConfirmed(u) == u.frame = "review" => u.confirm

\* run_frame: an unconfirmed run is answered from the cache if that holds a
\* good answer, and only then asks the Guardian.
FromCache(confirmed) == cached /\ ~confirmed
ReviewAsks(confirmed) == ConfirmationRequired /\ ~confirmed /\ ~cached
ReviewRuns(confirmed) ==
    IF FromCache(confirmed) \/ ReviewAsks(confirmed) THEN {} ELSE {"review"}

-----------------------------------------------------------------------------
(* What a turn leaves behind.                                               *)

Turn(s, u, ran) ==
    /\ turns < MaxTurns
    /\ turns' = turns + 1
    /\ did' = [said |-> u, by |-> s, ran |-> ran,
               asked |-> IF s \in Sessions THEN asked[s] ELSE None]
    /\ cached' = (cached \/ "review" \in ran)

Ask(s, what) ==
    /\ asked' = [asked EXCEPT ![s] = what]
    /\ asks' = IF what \in FleetActions THEN [asks EXCEPT ![s][what] = @ + 1] ELSE asks
    /\ UNCHANGED runs

ConfirmsFleet(s, u) == fleet[s] # None /\ u.confirm

\* Mutant: the pending action is cleared only if it could be run.
RunPendingKept(s, u) ==
    /\ ConfirmsFleet(s, u)
    /\ Turn(s, u, {fleet[s]})
    /\ runs' = [runs EXCEPT ![s][fleet[s]] = @ + 1]
    /\ UNCHANGED <<fleet, review, asked, asks>>

\* A confirming word runs the pending fleet action, whatever else was said;
\* it is no longer pending even if it could not be started.
RunPending(s, u) ==
    /\ ConfirmsFleet(s, u)
    /\ fleet' = [fleet EXCEPT ![s] = None]
    /\ \/ /\ Turn(s, u, {fleet[s]})
          /\ runs' = [runs EXCEPT ![s][fleet[s]] = @ + 1]
       \/ /\ Turn(s, u, {})
          /\ UNCHANGED runs
    /\ UNCHANGED <<review, asked, asks>>

\* An operator intent: asked about, or run.
Operate(s, u) ==
    /\ u.op # None
    /\ IF StopGated(u) \/ FleetGated(u)
       THEN /\ fleet' = IF FleetGated(u) THEN [fleet EXCEPT ![s] = u.op] ELSE fleet
            /\ Turn(s, u, {})
            /\ Ask(s, u.op)
       ELSE /\ Turn(s, u, OperatorRuns(u.op))
            /\ UNCHANGED <<fleet, history>>
    /\ UNCHANGED review

\* A frame that the transcript names.
Frame(s, u) ==
    /\ IF u.frame = "review"
       THEN /\ Turn(s, u, ReviewRuns(FrameConfirmed(u)))
            /\ IF ReviewAsks(FrameConfirmed(u)) THEN Ask(s, "review") ELSE UNCHANGED history
       ELSE /\ Turn(s, u, {"frames"})
            /\ UNCHANGED history
    /\ UNCHANGED fleet

\* Left to the language model.
Chat(s, u) ==
    /\ Turn(s, u, {})
    /\ UNCHANGED <<fleet, review, history>>

\* maybe_handle_frame_intent: the pending fleet action, operators, the pending
\* frame, frames.  Whatever a frame answers replaces the pending frame.
Room(s, u) ==
    \/ RunPending(s, u)
    \/ ~ConfirmsFleet(s, u) /\ Operate(s, u)
    \/ /\ ~ConfirmsFleet(s, u) /\ u.op = None
       /\ \/ /\ review[s] /\ u.confirm
             /\ Turn(s, u, {"review"})
             /\ review' = [review EXCEPT ![s] = FALSE]
             /\ UNCHANGED <<fleet, history>>
          \/ /\ ~(review[s] /\ u.confirm) /\ u.frame # None
             /\ Frame(s, u)
             /\ review' = [review EXCEPT ![s] =
                   u.frame = "review" /\ ReviewAsks(FrameConfirmed(u))]
          \/ /\ ~(review[s] /\ u.confirm) /\ u.frame = None
             /\ Chat(s, u)

\* warm_spoken_reply: the pending fleet action, projects, operators, frames.
\* A frame that is named for a project runs as if confirmed, and no frame is
\* ever pending.
Page(s, u) ==
    \/ RunPending(s, u)
    \/ /\ ~ConfirmsFleet(s, u) /\ u.project # None
       /\ Turn(s, u, IF u.project = "switch" THEN {}
                     ELSE IF u.frame = "review" THEN {"review"} ELSE {"frames"})
       /\ UNCHANGED <<fleet, review, history>>
    \/ ~ConfirmsFleet(s, u) /\ u.project = None /\ Operate(s, u)
    \/ /\ ~ConfirmsFleet(s, u) /\ u.project = None /\ u.op = None
       /\ \/ u.frame # None /\ Frame(s, u) /\ UNCHANGED review
          \/ u.frame = None /\ Chat(s, u)

\* voice_intent with preview: an operator is run as it stands, with the fleet
\* gate of fleet_trigger_from_voice alone; then projects and frames.
Preview(u) ==
    /\ Turn(None, u,
            IF u.op # None THEN IF FleetGated(u) THEN {} ELSE OperatorRuns(u.op)
            ELSE IF u.project = "switch" \/ u.frame = None THEN {}
            ELSE IF u.frame = "other" THEN {"frames"}
            ELSE IF u.project = "function" THEN {"review"}
            ELSE ReviewRuns(u.confirm))
    /\ UNCHANGED <<fleet, review, history>>

\* The cached answer runs out, or an agent's tick replaces it.
CacheExpires ==
    /\ cached
    /\ cached' = FALSE
    /\ UNCHANGED <<fleet, review, history, did, turns>>

\* The process of some sessions restarts.
Restart(S) ==
    /\ fleet' = [s \in Sessions |-> IF s \in S THEN None ELSE fleet[s]]
    /\ review' = [s \in Sessions |-> s \notin S /\ review[s]]
    /\ UNCHANGED <<cached, history, did, turns>>

Init ==
    /\ fleet = [s \in Sessions |-> None]
    /\ review = [s \in Sessions |-> FALSE]
    /\ cached = FALSE
    /\ asked = [s \in Sessions |-> None]
    /\ asks = [s \in Sessions |-> [a \in FleetActions |-> 0]]
    /\ runs = [s \in Sessions |-> [a \in FleetActions |-> 0]]
    /\ did = Silence
    /\ turns = 0

Next ==
    \/ \E u \in Transcripts :
          \/ \E s \in Rooms : Room(s, u)
          \/ \E s \in Pages : Page(s, u)
          \/ Preview(u)
    \/ CacheExpires
    \/ Restart(Rooms)
    \/ Restart(Pages)

Spec == Init /\ [][Next]_vars

-----------------------------------------------------------------------------
(* Properties.                                                              *)

TypeOK ==
    /\ fleet \in [Sessions -> FleetActions \cup {None}]
    /\ review \in [Sessions -> BOOLEAN]
    /\ cached \in BOOLEAN
    /\ asked \in [Sessions -> Askable \cup {None}]
    /\ asks \in [Sessions -> [FleetActions -> Nat]]
    /\ runs \in [Sessions -> [FleetActions -> Nat]]
    /\ did \in [said : Transcripts \cup {None}, by : Sessions \cup {None},
                asked : Askable \cup {None}, ran : SUBSET Effects]
    /\ turns \in Nat

\* A fleet action runs only in a turn that confirms, and only if that turn
\* names it or the same session named it before and was asked about it.
NamedAndConfirmed ==
    \A a \in did.ran \cap FleetActions :
        ConfirmationRequired =>
            /\ did.said.explicit
            /\ did.said.op = a \/ (did.by \in Sessions /\ asks[did.by][a] > 0)

\* Every question gets at most one yes: a session's confirmations ran an
\* action no more often than it was asked about it, and one that is pending
\* was asked about once more.
OneRunPerAsk ==
    \A s \in Sessions, a \in FleetActions :
        runs[s][a] + (IF fleet[s] = a THEN 1 ELSE 0) <= asks[s][a]

BareConfirm(u) == u.confirm /\ u.op = None /\ u.project = None /\ u.frame = None

\* A bare yes answers what was asked last.
YesAnswersLastAsked ==
    did.said # None /\ BareConfirm(did.said) => did.ran \subseteq {did.asked}

\* Who says "stop agents confirm" stops the agents.
SaidStopStops ==
    did.said # None /\ did.said.op = "stop_agents" /\ did.said.stopGo =>
        "stop_agents" \in did.ran

\* No agent is stopped by a transcript that does not confirm it.
StopNeedsConfirm ==
    "stop_agents" \in did.ran /\ ConfirmationRequired => did.said.stopGo

\* No deep review is queued by a turn that does not confirm.
ReviewNeedsConfirm ==
    "review" \in did.ran /\ ConfirmationRequired => did.said.confirm
=============================================================================
