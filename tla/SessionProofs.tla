----------------------------- MODULE SessionProofs -----------------------------
(*******************************************************************************)
(* Proofs about what a user's session is: the turns of a voice session, and the *)
(* runs of the Agents page.                                                     *)
(*                                                                              *)
(* VoiceSession, for any sessions, transcripts and number of turns.  Inv is     *)
(* inductive: that a yes finds the question it answers rests on OneRunPerAsk,   *)
(* which says that a pending action was asked about.                            *)
(*                                                                              *)
(* SliceRuns, for any frames, plans, chains and bounds.  PageInv is inductive:  *)
(* batches are made in the order of their names, the queue holds those that     *)
(* wait and no other, and a run in progress is at a step of each of its lanes.  *)
(*******************************************************************************)
EXTENDS VoiceSession, SliceRuns, FiniteSetTheorems, SequenceTheorems, TLAPS

(*******************************************************************************)
(* The voice session.                                                          *)
(*******************************************************************************)

Inv ==
    /\ TypeOK
    /\ OneRunPerAsk
    /\ NamedAndConfirmed

Askers == Sessions \cup {None}

\* What was asked and run, as functions of session and action.
Counted(f) == f \in [Sessions -> [FleetActions -> Nat]]

\* Every turn records itself with values of the right type.
LEMMA TurnFacts ==
    ASSUME TypeOK, NEW s \in Askers, NEW u \in Transcripts,
           NEW ran \in SUBSET Effects, Turn(s, u, ran)
    PROVE  /\ cached' \in BOOLEAN
           /\ turns' \in Nat
           /\ did' \in [said : Transcripts \cup {None}, by : Sessions \cup {None},
                        asked : Askable \cup {None}, ran : SUBSET Effects]
           /\ did'.said = u
           /\ did'.by = s
           /\ did'.ran = ran
<1>1. (IF s \in Sessions THEN asked[s] ELSE None) \in Askable \cup {None}
    BY DEF TypeOK
<1> DEFINE a == IF s \in Sessions THEN asked[s] ELSE None
<1>2. did' = [said |-> u, by |-> s, ran |-> ran, asked |-> a]
    BY DEF Turn
<1>3. a \in Askable \cup {None}
    BY <1>1
<1> HIDE DEF a
<1>4. turns' \in Nat /\ cached' \in BOOLEAN
    BY DEF Turn, TypeOK
<1> QED
    BY <1>2, <1>3, <1>4 DEF Askers

\* A question about a fleet action is counted, and no count goes down.
LEMMA AskFacts ==
    ASSUME TypeOK, NEW s \in Sessions, NEW what \in Askable, Ask(s, what)
    PROVE  /\ asked' \in [Sessions -> Askable \cup {None}]
           /\ Counted(asks')
           /\ runs' = runs
           /\ \A t \in Sessions, a \in FleetActions :
                 asks'[t][a] = asks[t][a] + (IF t = s /\ a = what THEN 1 ELSE 0)
<1>1. asked' \in [Sessions -> Askable \cup {None}] /\ runs' = runs
    BY DEF Ask, TypeOK
<1>2. CASE what \in FleetActions
    <2> DEFINE b == [asks[s] EXCEPT ![what] = asks[s][what] + 1]
    <2>1. asks' = [asks EXCEPT ![s] = b]
        BY <1>2 DEF Ask
    <2>2. b \in [FleetActions -> Nat]
        BY <1>2 DEF TypeOK
    <2>3. \A a \in FleetActions : b[a] = asks[s][a] + (IF a = what THEN 1 ELSE 0)
        BY <1>2 DEF TypeOK
    <2> HIDE DEF b
    <2>4. Counted(asks')
        BY <2>1, <2>2 DEF TypeOK, Counted
    <2>5. ASSUME NEW t \in Sessions, NEW a \in FleetActions
          PROVE  asks'[t][a] = asks[t][a] + (IF t = s /\ a = what THEN 1 ELSE 0)
        <3>1. asks'[t] = IF t = s THEN b ELSE asks[t]
            BY <2>1 DEF TypeOK
        <3>2. asks[t][a] \in Nat
            BY DEF TypeOK
        <3> QED
            BY <2>3, <3>1, <3>2
    <2> QED
        BY <1>1, <2>4, <2>5
<1>3. CASE what \notin FleetActions
    <2>1. asks' = asks
        BY <1>3 DEF Ask
    <2>2. \A t \in Sessions, a \in FleetActions : asks[t][a] \in Nat /\ a # what
        BY <1>3 DEF TypeOK
    <2>3. Counted(asks')
        BY <2>1 DEF TypeOK, Counted
    <2> QED
        BY <1>1, <2>1, <2>2, <2>3
<1> QED
    BY <1>2, <1>3

\* A turn that asks nothing and runs no fleet action, or only one it names
\* and confirms, keeps the invariant.
LEMMA PlainTurn ==
    ASSUME Inv, NEW s \in Askers, NEW u \in Transcripts,
           NEW ran \in SUBSET Effects, Turn(s, u, ran),
           \A a \in ran \cap FleetActions :
               ConfirmationRequired => u.explicit /\ u.op = a,
           UNCHANGED <<fleet, history>>, review' \in [Sessions -> BOOLEAN]
    PROVE  Inv'
<1>1. /\ cached' \in BOOLEAN
      /\ turns' \in Nat
      /\ did' \in [said : Transcripts \cup {None}, by : Sessions \cup {None},
                   asked : Askable \cup {None}, ran : SUBSET Effects]
      /\ did'.said = u
      /\ did'.by = s
      /\ did'.ran = ran
    BY TurnFacts DEF Inv
<1>2. TypeOK'
    BY <1>1 DEF Inv, TypeOK, history
<1>3. OneRunPerAsk'
    BY DEF Inv, OneRunPerAsk, history
<1>4. NamedAndConfirmed'
    BY <1>1 DEF NamedAndConfirmed
<1> QED
    BY <1>2, <1>3, <1>4 DEF Inv

\* A turn that only asks keeps it: what it leaves pending was just asked about.
LEMMA AskingTurn ==
    ASSUME Inv, NEW s \in Sessions, NEW u \in Transcripts, NEW what \in Askable,
           Turn(s, u, {}), Ask(s, what), review' \in [Sessions -> BOOLEAN],
           \/ fleet' = fleet
           \/ what \in FleetActions /\ fleet' = [fleet EXCEPT ![s] = what]
    PROVE  Inv'
<1>1. /\ cached' \in BOOLEAN
      /\ turns' \in Nat
      /\ did' \in [said : Transcripts \cup {None}, by : Sessions \cup {None},
                   asked : Askable \cup {None}, ran : SUBSET Effects]
      /\ did'.ran = {}
    BY TurnFacts DEF Inv, Askers
<1>2. /\ asked' \in [Sessions -> Askable \cup {None}]
      /\ Counted(asks')
      /\ runs' = runs
      /\ \A t \in Sessions, a \in FleetActions :
            asks'[t][a] = asks[t][a] + (IF t = s /\ a = what THEN 1 ELSE 0)
    BY AskFacts DEF Inv
<1>3. fleet' \in [Sessions -> FleetActions \cup {None}]
    BY DEF Inv, TypeOK
<1>4. TypeOK'
    BY <1>1, <1>2, <1>3 DEF Inv, TypeOK, Counted
<1>5. OneRunPerAsk'
    <2> SUFFICES ASSUME NEW t \in Sessions, NEW a \in FleetActions
                 PROVE  runs[t][a] + (IF fleet'[t] = a THEN 1 ELSE 0) <= asks'[t][a]
        BY <1>2 DEF OneRunPerAsk
    <2>1. runs[t][a] \in Nat /\ asks[t][a] \in Nat
        BY DEF Inv, TypeOK
    <2>2. runs[t][a] + (IF fleet[t] = a THEN 1 ELSE 0) <= asks[t][a]
        BY DEF Inv, OneRunPerAsk
    <2>3. fleet'[t] = fleet[t] \/ (t = s /\ fleet'[t] = what)
        BY DEF Inv, TypeOK
    <2> QED
        BY <1>2, <2>1, <2>2, <2>3
<1>6. NamedAndConfirmed'
    BY <1>1 DEF NamedAndConfirmed
<1> QED
    BY <1>4, <1>5, <1>6 DEF Inv

\* The pending action leaves the session as it is run.
LEMMA RunPendingKeeps ==
    ASSUME Inv, NEW s \in Sessions, NEW u \in Transcripts, RunPending(s, u)
    PROVE  Inv'
<1> DEFINE act == fleet[s]
<1>1. act \in FleetActions /\ u.confirm /\ u.explicit
    BY VoiceAssumption DEF RunPending, ConfirmsFleet, Inv, TypeOK
<1>2. \A t \in Sessions, a \in FleetActions : runs[t][a] \in Nat /\ asks[t][a] \in Nat
    BY DEF Inv, TypeOK
<1>3. \A t \in Sessions, a \in FleetActions :
         runs[t][a] + (IF fleet[t] = a THEN 1 ELSE 0) <= asks[t][a]
    BY DEF Inv, OneRunPerAsk
<1>4. asks[s][act] > 0
    BY <1>1, <1>2, <1>3
<1>5. fleet' = [fleet EXCEPT ![s] = None] /\ UNCHANGED <<review, asked, asks>>
    BY DEF RunPending
<1>6. fleet' \in [Sessions -> FleetActions \cup {None}]
    BY <1>5 DEF Inv, TypeOK
<1>7. \A t \in Sessions : t # s => fleet'[t] = fleet[t]
    BY <1>5 DEF Inv, TypeOK
<1>8. \A a \in FleetActions : fleet'[s] # a
    BY <1>5, VoiceAssumption DEF Inv, TypeOK, Operators
<1> DEFINE b == [runs[s] EXCEPT ![act] = runs[s][act] + 1]
<1>9. \/ Turn(s, u, {act}) /\ runs' = [runs EXCEPT ![s] = b]
      \/ Turn(s, u, {}) /\ runs' = runs
    BY DEF RunPending
<1>10. b \in [FleetActions -> Nat] /\ b[act] = runs[s][act] + 1
       /\ \A a \in FleetActions : a # act => b[a] = runs[s][a]
    BY <1>1 DEF Inv, TypeOK
<1> HIDE DEF b, act
<1>11. /\ Counted(runs')
       /\ \A t \in Sessions, a \in FleetActions :
             runs'[t][a] <= runs[t][a] + (IF t = s /\ a = act THEN 1 ELSE 0)
    <2>1. CASE runs' = [runs EXCEPT ![s] = b]
        <3>1. Counted(runs')
            BY <1>10, <2>1 DEF Inv, TypeOK, Counted
        <3>2. ASSUME NEW t \in Sessions, NEW a \in FleetActions
              PROVE  runs'[t][a] <= runs[t][a] + (IF t = s /\ a = act THEN 1 ELSE 0)
            <4>1. runs'[t] = IF t = s THEN b ELSE runs[t]
                BY <2>1 DEF Inv, TypeOK
            <4> QED
                BY <1>2, <1>10, <4>1
        <3> QED
            BY <3>1, <3>2
    <2>2. CASE runs' = runs
        BY <1>2, <2>2 DEF Inv, TypeOK, Counted
    <2> QED
        BY <1>9, <2>1, <2>2
<1>12. PICK ran \in {{}, {act}} : Turn(s, u, ran)
    BY <1>9
<1>13. /\ cached' \in BOOLEAN
       /\ turns' \in Nat
       /\ did' \in [said : Transcripts \cup {None}, by : Sessions \cup {None},
                    asked : Askable \cup {None}, ran : SUBSET Effects]
       /\ did'.said = u
       /\ did'.by = s
       /\ did'.ran = ran
    <2>1. ran \in SUBSET Effects
        BY <1>1, <1>12 DEF Effects, act
    <2> QED
        BY <1>12, <2>1, TurnFacts DEF Inv, Askers
<1>14. TypeOK'
    BY <1>5, <1>6, <1>11, <1>13 DEF Inv, TypeOK, Counted
<1>15. OneRunPerAsk'
    <2> SUFFICES ASSUME NEW t \in Sessions, NEW a \in FleetActions
                 PROVE  runs'[t][a] + (IF fleet'[t] = a THEN 1 ELSE 0) <= asks[t][a]
        BY <1>5 DEF OneRunPerAsk
    <2>1. runs'[t][a] \in Nat
        BY <1>11 DEF Counted
    <2>2. runs'[t][a] <= runs[t][a] + (IF t = s /\ a = act THEN 1 ELSE 0)
        BY <1>11
    <2>3. runs[t][a] + (IF fleet[t] = a THEN 1 ELSE 0) <= asks[t][a]
        BY <1>3
    <2>4. t = s => (IF t = s /\ a = act THEN 1 ELSE 0) = (IF fleet[t] = a THEN 1 ELSE 0)
        BY DEF act
    <2>5. runs[t][a] \in Nat /\ asks[t][a] \in Nat
        BY <1>2
    <2>6. CASE t = s
        <3>1. (IF fleet'[t] = a THEN 1 ELSE 0) = 0
            BY <1>8, <2>6
        <3> QED
            BY <2>1, <2>2, <2>3, <2>4, <2>5, <2>6, <3>1
    <2>7. CASE t # s
        BY <1>7, <2>1, <2>2, <2>3, <2>5, <2>7
    <2> QED
        BY <2>6, <2>7
<1>16. NamedAndConfirmed'
    <2> SUFFICES ASSUME NEW a \in did'.ran \cap FleetActions
                 PROVE  did'.said.explicit /\ did'.by \in Sessions /\ asks'[did'.by][a] > 0
        BY DEF NamedAndConfirmed
    <2>1. a = act
        BY <1>12, <1>13
    <2> QED
        BY <1>1, <1>4, <1>5, <1>13, <2>1
<1> QED
    BY <1>14, <1>15, <1>16 DEF Inv

\* An operator intent keeps it: what runs ungated is named and confirmed.
LEMMA OperateKeeps ==
    ASSUME Inv, NEW s \in Sessions, NEW u \in Transcripts, Operate(s, u)
    PROVE  Inv'
<1>1. u.op \in Operators /\ review' \in [Sessions -> BOOLEAN]
    BY VoiceAssumption DEF Operate, Inv, TypeOK, Transcript
<1>2. CASE StopGated(u) \/ FleetGated(u)
    <2>1. /\ Turn(s, u, {}) /\ Ask(s, u.op)
          /\ fleet' = IF FleetGated(u) THEN [fleet EXCEPT ![s] = u.op] ELSE fleet
        BY <1>2 DEF Operate
    <2>2. u.op \in Askable /\ (FleetGated(u) => u.op \in FleetActions)
        BY <1>2 DEF StopGated, FleetGated, Askable
    <2>3. \/ fleet' = fleet
          \/ u.op \in FleetActions /\ fleet' = [fleet EXCEPT ![s] = u.op]
        BY <2>1, <2>2
    <2> QED
        BY <1>1, <2>1, <2>2, <2>3, AskingTurn
<1>3. CASE ~(StopGated(u) \/ FleetGated(u))
    <2>1. Turn(s, u, OperatorRuns(u.op)) /\ UNCHANGED <<fleet, history>>
        BY <1>3 DEF Operate
    <2>2. OperatorRuns(u.op) \in SUBSET Effects
        BY <1>1 DEF OperatorRuns, Operators, Effects
    <2>3. \A a \in OperatorRuns(u.op) \cap FleetActions :
              ConfirmationRequired => u.explicit /\ u.op = a
        BY <1>1, <1>3 DEF OperatorRuns, FleetGated, Operators, FleetActions
    <2> QED
        BY <1>1, <2>1, <2>2, <2>3, PlainTurn DEF Askers
<1> QED
    BY <1>2, <1>3

\* A frame keeps it: it runs no fleet action.
LEMMA FrameKeeps ==
    ASSUME Inv, NEW s \in Sessions, NEW u \in Transcripts, Frame(s, u),
           review' \in [Sessions -> BOOLEAN]
    PROVE  Inv'
<1>1. fleet' = fleet
    BY DEF Frame
<1>2. PICK ran \in SUBSET {"review", "frames"} :
          /\ Turn(s, u, ran)
          /\ \/ UNCHANGED history
             \/ Ask(s, "review") /\ ran = {}
    <2>1. CASE u.frame = "review" /\ ReviewAsks(FrameConfirmed(u))
        <3>1. ReviewRuns(FrameConfirmed(u)) = {}
            BY <2>1 DEF ReviewRuns
        <3> QED
            BY <2>1, <3>1 DEF Frame
    <2>2. CASE u.frame = "review" /\ ~ReviewAsks(FrameConfirmed(u))
        <3>1. ReviewRuns(FrameConfirmed(u)) \in SUBSET {"review", "frames"}
            BY DEF ReviewRuns
        <3> QED
            BY <2>2, <3>1 DEF Frame
    <2>3. CASE u.frame # "review"
        BY <2>3 DEF Frame
    <2> QED
        BY <2>1, <2>2, <2>3
<1>3. CASE UNCHANGED history
    <2>1. ran \in SUBSET Effects /\ ran \cap FleetActions = {}
        BY DEF Effects, FleetActions
    <2> QED
        BY <1>1, <1>2, <1>3, <2>1, PlainTurn DEF Askers
<1>4. CASE Ask(s, "review") /\ ran = {}
    <2>1. Turn(s, u, {}) /\ "review" \in Askable
        BY <1>2, <1>4 DEF Askable
    <2> QED
        BY <1>1, <1>4, <2>1, AskingTurn
<1> QED
    BY <1>2, <1>3, <1>4

\* A turn of the room keeps it.
LEMMA RoomKeeps ==
    ASSUME Inv, NEW s \in Rooms, NEW u \in Transcripts, Room(s, u)
    PROVE  Inv'
<1>1. s \in Sessions /\ s \in Askers
    BY DEF Sessions, Askers
<1>2. review \in [Sessions -> BOOLEAN]
    BY DEF Inv, TypeOK
<1>3. CASE RunPending(s, u)
    BY <1>1, <1>3, RunPendingKeeps
<1>4. CASE Operate(s, u)
    BY <1>1, <1>4, OperateKeeps
<1>5. CASE /\ Turn(s, u, {"review"})
           /\ review' = [review EXCEPT ![s] = FALSE]
           /\ UNCHANGED <<fleet, history>>
    <2>1. {"review"} \in SUBSET Effects /\ {"review"} \cap FleetActions = {}
        BY DEF Effects, FleetActions
    <2>2. review' \in [Sessions -> BOOLEAN]
        BY <1>2, <1>5
    <2> QED
        BY <1>1, <1>5, <2>1, <2>2, PlainTurn
<1>6. CASE /\ Frame(s, u)
           /\ review' = [review EXCEPT ![s] =
                 u.frame = "review" /\ ReviewAsks(FrameConfirmed(u))]
    <2>1. (u.frame = "review" /\ ReviewAsks(FrameConfirmed(u))) \in BOOLEAN
        OBVIOUS
    <2>2. review' \in [Sessions -> BOOLEAN]
        BY <1>2, <1>6, <2>1
    <2> QED
        BY <1>1, <1>6, <2>2, FrameKeeps
<1>7. CASE Chat(s, u)
    BY <1>1, <1>2, <1>7, PlainTurn DEF Chat
<1> QED
    BY <1>3, <1>4, <1>5, <1>6, <1>7 DEF Room

\* A turn of the page keeps it.
LEMMA PageKeeps ==
    ASSUME Inv, NEW s \in Pages, NEW u \in Transcripts, Page(s, u)
    PROVE  Inv'
<1>1. s \in Sessions /\ s \in Askers
    BY DEF Sessions, Askers
<1>2. review \in [Sessions -> BOOLEAN]
    BY DEF Inv, TypeOK
<1>3. CASE RunPending(s, u)
    BY <1>1, <1>3, RunPendingKeeps
<1>4. CASE /\ u.project # None
           /\ Turn(s, u, IF u.project = "switch" THEN {}
                         ELSE IF u.frame = "review" THEN {"review"} ELSE {"frames"})
           /\ UNCHANGED <<fleet, review, history>>
    <2>1. PICK ran \in SUBSET {"review", "frames"} : Turn(s, u, ran)
        BY <1>4
    <2>2. ran \in SUBSET Effects /\ ran \cap FleetActions = {}
        BY DEF Effects, FleetActions
    <2> QED
        BY <1>1, <1>2, <1>4, <2>1, <2>2, PlainTurn
<1>5. CASE Operate(s, u)
    BY <1>1, <1>5, OperateKeeps
<1>6. CASE Frame(s, u) /\ UNCHANGED review
    BY <1>1, <1>2, <1>6, FrameKeeps
<1>7. CASE Chat(s, u)
    BY <1>1, <1>2, <1>7, PlainTurn DEF Chat
<1> QED
    BY <1>3, <1>4, <1>5, <1>6, <1>7 DEF Page

\* The preview keeps it: it asks no session, and the fleet gate is its own.
LEMMA PreviewKeeps ==
    ASSUME Inv, NEW u \in Transcripts, Preview(u)
    PROVE  Inv'
<1> DEFINE ran ==
        IF u.op # None THEN IF FleetGated(u) THEN {} ELSE OperatorRuns(u.op)
        ELSE IF u.project = "switch" \/ u.frame = None THEN {}
        ELSE IF u.frame = "other" THEN {"frames"}
        ELSE IF u.project = "function" THEN {"review"}
        ELSE ReviewRuns(u.confirm)
<1>1. Turn(None, u, ran) /\ UNCHANGED <<fleet, review, history>>
    BY DEF Preview
<1>2. CASE u.op = None
    <2>1. ran \in SUBSET {"review", "frames"}
        BY <1>2 DEF ReviewRuns
    <2>2. ran \in SUBSET Effects /\ ran \cap FleetActions = {}
        BY <2>1 DEF Effects, FleetActions
    <2> QED
        BY <1>1, <2>2, PlainTurn DEF Inv, TypeOK, Askers
<1>3. CASE u.op # None
    <2>1. u.op \in Operators
        BY <1>3, VoiceAssumption DEF Transcript
    <2>2. ran = IF FleetGated(u) THEN {} ELSE OperatorRuns(u.op)
        BY <1>3
    <2>3. OperatorRuns(u.op) \in SUBSET Effects
        BY <2>1 DEF OperatorRuns, Operators, Effects
    <2>4. ~FleetGated(u) => \A a \in OperatorRuns(u.op) \cap FleetActions :
              ConfirmationRequired => u.explicit /\ u.op = a
        BY <2>1 DEF OperatorRuns, FleetGated, Operators, FleetActions
    <2> HIDE DEF ran
    <2>5. ran \in SUBSET Effects
        BY <2>2, <2>3
    <2>6. \A a \in ran \cap FleetActions : ConfirmationRequired => u.explicit /\ u.op = a
        BY <2>2, <2>4
    <2> QED
        BY <1>1, <2>5, <2>6, PlainTurn DEF Inv, TypeOK, Askers
<1> QED
    BY <1>2, <1>3

\* A restart only forgets.
LEMMA RestartKeeps ==
    ASSUME Inv, NEW S \in {Rooms, Pages}, Restart(S)
    PROVE  Inv'
<1>1. /\ fleet' = [s \in Sessions |-> IF s \in S THEN None ELSE fleet[s]]
      /\ review' = [s \in Sessions |-> s \notin S /\ review[s]]
      /\ UNCHANGED <<cached, asked, asks, runs, did, turns>>
    BY DEF Restart, history
<1>2. TypeOK'
    BY <1>1 DEF Inv, TypeOK
<1>3. OneRunPerAsk'
    <2> SUFFICES ASSUME NEW t \in Sessions, NEW a \in FleetActions
                 PROVE  runs[t][a] + (IF fleet'[t] = a THEN 1 ELSE 0) <= asks[t][a]
        BY <1>1 DEF OneRunPerAsk
    <2>1. runs[t][a] \in Nat /\ asks[t][a] \in Nat
        BY DEF Inv, TypeOK
    <2>2. runs[t][a] + (IF fleet[t] = a THEN 1 ELSE 0) <= asks[t][a]
        BY DEF Inv, OneRunPerAsk
    <2>3. fleet'[t] = fleet[t] \/ fleet'[t] # a
        BY <1>1, VoiceAssumption DEF Operators
    <2> QED
        BY <2>1, <2>2, <2>3
<1>4. NamedAndConfirmed'
    BY <1>1 DEF Inv, NamedAndConfirmed
<1> QED
    BY <1>2, <1>3, <1>4 DEF Inv

LEMMA InitInv ==
    ASSUME Init
    PROVE  Inv
<1>1. TypeOK
    BY DEF Init, TypeOK, Silence
<1>2. OneRunPerAsk
    BY VoiceAssumption DEF Init, OneRunPerAsk, Operators
<1>3. NamedAndConfirmed
    BY DEF Init, NamedAndConfirmed, Silence
<1> QED
    BY <1>1, <1>2, <1>3 DEF Inv

LEMMA NextInv ==
    ASSUME Inv, [Next]_vars
    PROVE  Inv'
<1>1. ASSUME NEW u \in Transcripts, NEW s \in Rooms, Room(s, u)
      PROVE  Inv'
    BY <1>1, RoomKeeps
<1>2. ASSUME NEW u \in Transcripts, NEW s \in Pages, Page(s, u)
      PROVE  Inv'
    BY <1>2, PageKeeps
<1>3. ASSUME NEW u \in Transcripts, Preview(u)
      PROVE  Inv'
    BY <1>3, PreviewKeeps
<1>4. CASE CacheExpires
    BY <1>4 DEF CacheExpires, history, Inv, TypeOK, OneRunPerAsk, NamedAndConfirmed
<1>5. ASSUME NEW S \in {Rooms, Pages}, Restart(S)
      PROVE  Inv'
    BY <1>5, RestartKeeps
<1>6. CASE UNCHANGED vars
    BY <1>6 DEF vars, Inv, TypeOK, OneRunPerAsk, NamedAndConfirmed
<1> QED
    BY <1>1, <1>2, <1>3, <1>4, <1>5, <1>6 DEF Next

LEMMA Invariance == Spec => []Inv
<1>1. Init => Inv
    BY InitInv
<1>2. Inv /\ [Next]_vars => Inv'
    BY NextInv
<1> QED
    BY <1>1, <1>2, PTL DEF Spec

\* Every variable keeps its type.
THEOREM TypeCorrect == Spec => []TypeOK
<1>1. Inv => TypeOK
    BY DEF Inv
<1> QED
    BY <1>1, Invariance, PTL

\* Whatever is said in whatever order, in rooms, on pages and at the preview
\* endpoint, and whatever restarts: a confirmation runs a fleet action at most
\* once for each time the session was asked about it.
THEOREM AsksCorrect == Spec => []OneRunPerAsk
<1>1. Inv => OneRunPerAsk
    BY DEF Inv
<1> QED
    BY <1>1, Invariance, PTL

\* No fleet action runs but in a turn that confirms, and that names it or
\* answers a question about it.
THEOREM ConfirmedOnly == Spec => []NamedAndConfirmed
<1>1. Inv => NamedAndConfirmed
    BY DEF Inv
<1> QED
    BY <1>1, Invariance, PTL

(*******************************************************************************)
(* The queue of the Agents page.                                               *)
(*******************************************************************************)

\* No two places of a queue hold the same batch.
Distinct(q) == \A i, j \in DOMAIN q : q[i] = q[j] => i = j

\* What is cut from a sequence of different batches is one.
LEMMA CutKeeps ==
    ASSUME NEW S, NEW q \in Seq(S), Distinct(q), NEW m \in 1 .. Len(q) + 1, NEW n \in Nat, n <= Len(q)
    PROVE  LET c == SubSeq(q, m, n)
           IN  /\ c \in Seq(S) /\ Distinct(c)
               /\ Len(c) = IF m <= n THEN n - m + 1 ELSE 0
               /\ Values(c) = {q[i] : i \in m .. n}
<1> DEFINE c == SubSeq(q, m, n)
<1>1. Len(q) \in Nat /\ DOMAIN q = 1 .. Len(q) /\ \A i \in 1 .. Len(q) : q[i] \in S
  BY LenProperties, ElementOfSeq
<1>2. \A i \in m .. n : q[i] \in S
  BY <1>1
<1>3. /\ c \in Seq(S)
      /\ Len(c) = IF m <= n THEN n - m + 1 ELSE 0
      /\ \A i \in 1 .. n - m + 1 : c[i] = q[m + i - 1]
  BY <1>1, <1>2, SubSeqProperties
<1>4. DOMAIN c = 1 .. Len(c)
  BY <1>3, LenProperties
<1> HIDE DEF c
<1>5. Distinct(c)
  <2> SUFFICES ASSUME NEW i \in DOMAIN c, NEW j \in DOMAIN c, c[i] = c[j] PROVE i = j
    BY DEF Distinct
  <2>1. \A k \in DOMAIN c : m + k - 1 \in DOMAIN q /\ c[k] = q[m + k - 1]
    <3> SUFFICES ASSUME NEW k \in DOMAIN c PROVE m + k - 1 \in DOMAIN q /\ c[k] = q[m + k - 1]
      OBVIOUS
    <3>1. k \in 1 .. n - m + 1
      BY <1>1, <1>3, <1>4
    <3>2. m + k - 1 \in 1 .. Len(q)
      BY <1>1, <3>1
    <3> QED
      BY <1>1, <1>3, <3>1, <3>2
  <2>2. m + i - 1 = m + j - 1
    BY <2>1 DEF Distinct
  <2> QED
    BY <1>3, <1>4, <2>2
<1>6. Values(c) = {q[i] : i \in m .. n}
  <2>1. \A i \in DOMAIN c : m + i - 1 \in m .. n /\ c[i] = q[m + i - 1]
    BY <1>1, <1>3, <1>4
  <2>2. \A j \in m .. n : (j - m + 1) \in DOMAIN c /\ c[j - m + 1] = q[j]
    BY <1>1, <1>3, <1>4
  <2>3. \A x : x \in Values(c) => x \in {q[i] : i \in m .. n}
    BY <2>1 DEF Values
  <2>4. \A x : x \in {q[i] : i \in m .. n} => x \in Values(c)
    <3> SUFFICES ASSUME NEW j \in m .. n PROVE q[j] \in Values(c)
      OBVIOUS
    <3>1. (j - m + 1) \in DOMAIN c /\ c[j - m + 1] = q[j]
      BY <2>2
    <3> QED
      BY <3>1 DEF Values
  <2> QED
    BY <2>3, <2>4
<1> QED
  BY <1>3, <1>5, <1>6 DEF c

\* Two sequences of different batches with none in common make one.
LEMMA JoinKeeps ==
    ASSUME NEW S, NEW q \in Seq(S), NEW t \in Seq(S), Distinct(q), Distinct(t),
           Values(q) \cap Values(t) = {}
    PROVE  /\ q \o t \in Seq(S) /\ Distinct(q \o t)
           /\ Len(q \o t) = Len(q) + Len(t)
           /\ Values(q \o t) = Values(q) \cup Values(t)
<1> DEFINE c == q \o t
<1>1. /\ Len(q) \in Nat /\ DOMAIN q = 1 .. Len(q)
      /\ Len(t) \in Nat /\ DOMAIN t = 1 .. Len(t)
  BY LenProperties
<1>2. /\ c \in Seq(S) /\ Len(c) = Len(q) + Len(t)
      /\ \A i \in 1 .. Len(q) + Len(t) : c[i] = IF i <= Len(q) THEN q[i] ELSE t[i - Len(q)]
  BY ConcatProperties
<1>3. DOMAIN c = 1 .. Len(c)
  BY <1>2, LenProperties
<1> HIDE DEF c
<1>4. \A i \in DOMAIN q : i \in DOMAIN c /\ c[i] = q[i]
  BY <1>1, <1>2, <1>3
<1>5. \A i \in DOMAIN t : i + Len(q) \in DOMAIN c /\ c[i + Len(q)] = t[i]
  BY <1>1, <1>2, <1>3
<1>6. \A i \in DOMAIN c : \/ i \in DOMAIN q /\ c[i] = q[i]
                          \/ i - Len(q) \in DOMAIN t /\ c[i] = t[i - Len(q)] /\ i \notin DOMAIN q
  BY <1>1, <1>2, <1>3
<1>7. Values(c) = Values(q) \cup Values(t)
  BY <1>4, <1>5, <1>6 DEF Values
<1>8. \A i \in DOMAIN q, j \in DOMAIN t : q[i] # t[j]
  BY DEF Values
<1>9. Distinct(c)
  BY <1>1, <1>3, <1>6, <1>8 DEF Distinct
<1> QED
  BY <1>2, <1>7, <1>9 DEF c

\* removeQueueItem takes one batch out, and no other.
LEMMA WithoutKeeps ==
    ASSUME NEW S, NEW q \in Seq(S), Distinct(q), NEW i \in DOMAIN q
    PROVE  LET c == Without(q, i)
           IN  /\ c \in Seq(S) /\ Distinct(c)
               /\ Len(c) = Len(q) - 1
               /\ Values(c) = Values(q) \ {q[i]}
<1> DEFINE a == SubSeq(q, 1, i - 1)
           b == SubSeq(q, i + 1, Len(q))
<1>1. Len(q) \in Nat /\ DOMAIN q = 1 .. Len(q)
  BY LenProperties
<1>2. /\ a \in Seq(S) /\ Distinct(a) /\ Len(a) = i - 1
      /\ Values(a) = {q[j] : j \in 1 .. i - 1}
  BY <1>1, CutKeeps
<1>3. /\ b \in Seq(S) /\ Distinct(b) /\ Len(b) = Len(q) - i
      /\ Values(b) = {q[j] : j \in i + 1 .. Len(q)}
  BY <1>1, CutKeeps
<1> HIDE DEF a, b
<1>4. Values(a) \cap Values(b) = {}
  BY <1>1, <1>2, <1>3 DEF Distinct
<1>5. Values(a) \cup Values(b) = Values(q) \ {q[i]}
  <2>1. \A j \in DOMAIN q \ {i} : j \in 1 .. i - 1 \/ j \in i + 1 .. Len(q)
    BY <1>1
  <2>2. \A j : j \in 1 .. i - 1 \/ j \in i + 1 .. Len(q) => j \in DOMAIN q \ {i}
    BY <1>1
  <2>3. \A j \in DOMAIN q \ {i} : q[j] # q[i]
    BY DEF Distinct
  <2> QED
    BY <1>2, <1>3, <2>1, <2>2, <2>3 DEF Values
<1>6. Without(q, i) = a \o b
  BY DEF Without, a, b
<1> DEFINE c == a \o b
<1>7. /\ c \in Seq(S) /\ Distinct(c) /\ Len(c) = Len(a) + Len(b)
      /\ Values(c) = Values(a) \cup Values(b)
  <2>1. a \in Seq(S) /\ Distinct(a) /\ b \in Seq(S) /\ Distinct(b)
    BY <1>2, <1>3
  <2> QED
    BY <2>1, <1>4, JoinKeeps
<1> HIDE DEF c
<1>8. Len(c) = Len(q) - 1
  BY <1>1, <1>2, <1>3, <1>7
<1>9. Without(q, i) = c
  BY <1>6 DEF c
<1> QED
  BY <1>5, <1>7, <1>8, <1>9

\* reorderQueueItem puts it back at another place.
LEMMA InsertKeeps ==
    ASSUME NEW S, NEW q \in Seq(S), Distinct(q), NEW i \in 1 .. Len(q) + 1,
           NEW x \in S, x \notin Values(q)
    PROVE  LET c == Inserted(q, i, x)
           IN  /\ c \in Seq(S) /\ Distinct(c)
               /\ Len(c) = Len(q) + 1
               /\ Values(c) = Values(q) \cup {x}
<1> DEFINE a == SubSeq(q, 1, i - 1)
           b == SubSeq(q, i, Len(q))
           one == <<x>>
<1>1. Len(q) \in Nat /\ DOMAIN q = 1 .. Len(q)
  BY LenProperties
<1>2. /\ a \in Seq(S) /\ Distinct(a) /\ Len(a) = i - 1
      /\ Values(a) = {q[j] : j \in 1 .. i - 1}
  BY <1>1, CutKeeps
<1>3. /\ b \in Seq(S) /\ Distinct(b) /\ Len(b) = Len(q) - i + 1
      /\ Values(b) = {q[j] : j \in i .. Len(q)}
  BY <1>1, CutKeeps
<1>4. one \in Seq(S) /\ Len(one) = 1 /\ Distinct(one) /\ Values(one) = {x}
  BY DEF Distinct, Values
<1> HIDE DEF a, b, one
<1>p. /\ \A j \in DOMAIN q : j \in 1 .. i - 1 \/ j \in i .. Len(q)
      /\ \A j \in 1 .. i - 1 : j \in DOMAIN q
      /\ \A j \in i .. Len(q) : j \in DOMAIN q /\ j \notin 1 .. i - 1
  BY <1>1
<1>5. Values(a) \cap Values(b) = {}
  BY <1>2, <1>3, <1>p DEF Distinct
<1>6. Values(a) \cup Values(b) = Values(q)
  BY <1>2, <1>3, <1>p DEF Values
<1>e. Values(a) \cap Values(one) = {}
  BY <1>4, <1>6
<1> DEFINE d == a \o one
<1>7. /\ d \in Seq(S) /\ Distinct(d) /\ Len(d) = Len(a) + Len(one)
      /\ Values(d) = Values(a) \cup Values(one)
  <2>1. a \in Seq(S) /\ Distinct(a) /\ one \in Seq(S) /\ Distinct(one)
    BY <1>2, <1>4
  <2> QED
    BY <2>1, <1>e, JoinKeeps
<1>8. Inserted(q, i, x) = d \o b
  BY DEF Inserted, a, b, one
<1> HIDE DEF d
<1>9. Values(d) \cap Values(b) = {}
  BY <1>4, <1>5, <1>6, <1>7
<1> DEFINE c == d \o b
<1>10. /\ c \in Seq(S) /\ Distinct(c) /\ Len(c) = Len(d) + Len(b)
       /\ Values(c) = Values(d) \cup Values(b)
  <2>1. d \in Seq(S) /\ Distinct(d) /\ b \in Seq(S) /\ Distinct(b)
    BY <1>3, <1>7
  <2> QED
    BY <2>1, <1>9, JoinKeeps
<1> HIDE DEF c
<1>11. Len(c) = Len(q) + 1
  BY <1>1, <1>2, <1>3, <1>4, <1>7, <1>10
<1>12. Values(c) = Values(q) \cup {x}
  BY <1>4, <1>6, <1>7, <1>10
<1>13. Inserted(q, i, x) = c
  BY <1>8 DEF c
<1> QED
  BY <1>10, <1>11, <1>12, <1>13

\* enqueueSliceRun drops the oldest, and nothing twice.
LEMMA EnqueuedKeeps ==
    ASSUME NEW S, NEW q \in Seq(S), Distinct(q)
    PROVE  LET c == Enqueued(q)
           IN  /\ c \in Seq(S) /\ Distinct(c)
               /\ Len(c) <= Depth
               /\ Values(c) \subseteq Values(q)
<1>1. Len(q) \in Nat /\ DOMAIN q = 1 .. Len(q) /\ Depth \in Nat \ {0}
  BY LenProperties, BoundsAssumption
<1>2. CASE Len(q) <= Depth
  BY <1>2 DEF Enqueued
<1>3. CASE ~(Len(q) <= Depth)
  <2> DEFINE m == Len(q) - Depth + 1
             c == SubSeq(q, m, Len(q))
  <2>1. m \in 1 .. Len(q) + 1 /\ m \in 1 .. Len(q)
    BY <1>1, <1>3
  <2>2. /\ c \in Seq(S) /\ Distinct(c)
        /\ Len(c) = IF m <= Len(q) THEN Len(q) - m + 1 ELSE 0
        /\ Values(c) = {q[i] : i \in m .. Len(q)}
    <3> HIDE DEF m
    <3> QED
      BY <1>1, <2>1, CutKeeps
  <2>3. Enqueued(q) = c
    BY <1>3 DEF Enqueued
  <2>4. Len(c) <= Depth
    BY <1>1, <1>3, <2>2
  <2>5. \A i \in m .. Len(q) : i \in DOMAIN q
    BY <1>1, <2>1
  <2> HIDE DEF c, m
  <2> QED
    BY <2>2, <2>3, <2>4, <2>5 DEF Values
<1> QED
  BY <1>2, <1>3

\* dequeueSliceRun takes the first.
LEMMA TailKeeps ==
    ASSUME NEW S, NEW q \in Seq(S), Distinct(q), q # <<>>
    PROVE  /\ Tail(q) \in Seq(S) /\ Distinct(Tail(q))
           /\ Len(Tail(q)) = Len(q) - 1
           /\ Head(q) \in Values(q)
           /\ Values(Tail(q)) = Values(q) \ {Head(q)}
<1>1. Len(q) \in Nat \ {0} /\ DOMAIN q = 1 .. Len(q)
  BY LenProperties, EmptySeq
<1>2. Tail(q) = SubSeq(q, 2, Len(q)) /\ Head(q) = q[1]
  BY TailIsSubSeq
<1> DEFINE n == Len(q)
           c == SubSeq(q, 2, n)
<1>a. n \in Nat /\ 2 \in 1 .. n + 1 /\ n <= Len(q)
  BY <1>1
<1>3. /\ c \in Seq(S) /\ Distinct(c)
      /\ Len(c) = IF 2 <= n THEN n - 2 + 1 ELSE 0
      /\ Values(c) = {q[i] : i \in 2 .. n}
  <2> HIDE DEF n
  <2> QED
    BY <1>a, CutKeeps DEF n
<1>t. Tail(q) = c
  BY <1>2
<1>l. Len(c) = Len(q) - 1
  BY <1>1, <1>3
<1> HIDE DEF c
<1>4. /\ 1 \in DOMAIN q
      /\ \A j \in DOMAIN q : j = 1 \/ j \in 2 .. Len(q)
      /\ \A j \in 2 .. Len(q) : j \in DOMAIN q /\ j # 1
  BY <1>1
<1>5. Values(c) = Values(q) \ {q[1]} /\ q[1] \in Values(q)
  <2>1. Values(c) = {q[i] : i \in 2 .. Len(q)}
    BY <1>3
  <2>2. \A j \in DOMAIN q : j # 1 => q[j] # q[1]
    BY <1>4 DEF Distinct
  <2> QED
    BY <1>4, <2>1, <2>2 DEF Values
<1> QED
  BY <1>2, <1>3, <1>5, <1>t, <1>l

-------------------------------------------------------------------------------
(* Plans.                                                                      *)

Lane == Seq(Stages) \ {<<>>}

LEMMA FunctionIsSeq == \A S : \A n \in Nat : \A s \in [1 .. n -> S] : s \in Seq(S) /\ Len(s) = n
  OBVIOUS

LEMMA OnceShaped == \A fs \in SUBSET Frames : Once(fs) \in Stages /\ <<Once(fs)>> \in Lane
<1> SUFFICES ASSUME NEW fs \in SUBSET Frames PROVE Once(fs) \in Stages /\ <<Once(fs)>> \in Lane
  OBVIOUS
<1>1. Once(fs) \in Stages
  BY DEF Once, Stages, Calls
<1>2. \A x \in Stages : <<x>> \in Seq(Stages) /\ <<x>> # <<>>
  OBVIOUS
<1> QED
  BY <1>1, <1>2 DEF Lane

\* executeSlicePlan makes at least one wave of frames.
LEMMA StageShaped ==
    ASSUME NEW ids \in Seq(Frames), ids # <<>>, NEW mode
    PROVE  Stage(ids, mode) \in Lane
<1> DEFINE size == IF mode = "wave" THEN 2 ELSE 1
           n == (Len(ids) + size - 1) \div size
           part(i, j) == {ids[k] : k \in {x \in DOMAIN ids : i < x /\ x <= j}}
           wave(w) == Each(part(size * (w - 1), size * w), part(size * w, Len(ids)))
           stage == [w \in 1 .. n |-> wave(w)]
<1>1. Len(ids) \in Nat \ {0} /\ DOMAIN ids = 1 .. Len(ids)
  BY LenProperties, EmptySeq
<1>2. \A k \in DOMAIN ids : ids[k] \in Frames
  BY <1>1, ElementOfSeq
<1>3. \A i, j : part(i, j) \in SUBSET Frames
  BY <1>2
<1>4. Values(ids) \in SUBSET Frames
  BY <1>2 DEF Values
<1>5. n \in Nat \ {0}
  <2>1. CASE mode = "wave"
    <3>1. \A l \in Nat \ {0} : (l + 2 - 1) \div 2 \in Nat \ {0}
      OBVIOUS
    <3> QED
      BY <1>1, <2>1, <3>1
  <2>2. CASE mode # "wave"
    <3>1. \A l \in Nat \ {0} : (l + 1 - 1) \div 1 \in Nat \ {0}
      OBVIOUS
    <3> QED
      BY <1>1, <2>2, <3>1
  <2> QED
    BY <2>1, <2>2
<1>6. \A w : wave(w) \in Stages
  <2>1. \A fs, rest \in SUBSET Frames : Each(fs, rest) \in Stages
    BY DEF Each, Stages, Calls
  <2> HIDE DEF part
  <2> QED
    BY <1>3, <2>1
<1>7. CASE mode = "parallel"
  <2>1. Stage(ids, mode) = <<Once(Values(ids))>>
    BY <1>7 DEF Stage
  <2> QED
    BY <1>4, <2>1, OnceShaped
<1>8. CASE mode # "parallel"
  <2>1. Stage(ids, mode) = stage
    BY <1>8 DEF Stage
  <2> HIDE DEF n, wave
  <2>2. stage \in [1 .. n -> Stages]
    BY <1>6
  <2>3. stage \in Seq(Stages)
    BY <1>5, <2>2, FunctionIsSeq
  <2>4. stage # <<>>
    <3>1. 1 \in DOMAIN stage
      BY <1>5
    <3>2. \A x : x = <<>> => 1 \notin DOMAIN x
      OBVIOUS
    <3> HIDE DEF stage
    <3> QED
      BY <3>1, <3>2
  <2> HIDE DEF stage
  <2> QED
    BY <2>1, <2>3, <2>4 DEF Lane
<1> QED
  BY <1>7, <1>8

LEMMA ShapeFacts ==
    /\ \A p \in Shapes : /\ p.kind \in {"waves", "squads", "six", "dispatch"}
                         /\ p.lanes \in Seq(Lane)
                         /\ p.kind = "squads" \/ Len(p.lanes) <= 1
    /\ \A k \in {"waves", "squads", "six", "dispatch"}, lane \in Lane :
          [kind |-> k, lanes |-> <<lane>>] \in Shapes
    /\ \A k \in {"waves", "squads", "six", "dispatch"} : [kind |-> k, lanes |-> <<>>] \in Shapes
<1>1. \A p \in Shapes : /\ p.kind \in {"waves", "squads", "six", "dispatch"}
                        /\ p.lanes \in Seq(Lane)
                        /\ p.kind = "squads" \/ Len(p.lanes) <= 1
  BY DEF Shapes, Lane
<1>2. \A lane \in Lane : <<lane>> \in Seq(Lane) /\ Len(<<lane>>) <= 1
  OBVIOUS
<1>3. <<>> \in Seq(Lane) /\ Len(<<>>) <= 1
  OBVIOUS
<1>4. \A k \in {"waves", "squads", "six", "dispatch"}, ls \in Seq(Lane) :
         Len(ls) <= 1 => [kind |-> k, lanes |-> ls] \in Shapes
  BY DEF Shapes, Lane
<1> QED
  BY <1>1, <1>2, <1>3, <1>4

LEMMA RunShaped ==
    ASSUME NEW ids \in Seq(Frames), NEW mode
    PROVE  Run(ids, mode) \in Shapes
<1>1. CASE ids = <<>>
  BY <1>1, ShapeFacts DEF Run
<1>2. CASE ids # <<>>
  <2>1. Stage(ids, mode) \in Lane
    BY <1>2, StageShaped
  <2> QED
    BY <1>2, <2>1, ShapeFacts DEF Run
<1> QED
  BY <1>1, <1>2

LEMMA TileShaped == \A f \in Frames : Tile(f) \in Shapes
<1> SUFFICES ASSUME NEW f \in Frames PROVE Tile(f) \in Shapes
  OBVIOUS
<1>1. <<f>> \in Seq(Frames)
  OBVIOUS
<1> QED
  BY <1>1, RunShaped DEF Tile

LEMMA RetryShaped == \A fs \in SUBSET Frames : Retries(fs) \subseteq Shapes
<1> SUFFICES ASSUME NEW fs \in SUBSET Frames, NEW ids \in Orders(fs), NEW mode
             PROVE  Run(ids, mode) \in Shapes
  BY DEF Retries
<1>1. Cardinality(fs) \in Nat
  BY FramesAssumption, FS_Subset, FS_CardinalityType
<1>2. ids \in [1 .. Cardinality(fs) -> fs]
  BY DEF Orders
<1>3. ids \in Seq(Frames)
  <2> DEFINE n == Cardinality(fs)
  <2>1. ids \in [1 .. n -> Frames]
    BY <1>2
  <2> HIDE DEF n
  <2> QED
    BY <1>1, <2>1, FunctionIsSeq DEF n
<1> QED
  BY <1>3, RunShaped

LEMMA ChainShaped ==
    ASSUME NEW ps \in Chains
    PROVE  /\ Len(ps) \in Nat /\ DOMAIN ps = 1 .. Len(ps)
           /\ \A i \in DOMAIN ps : ps[i] \in AllPlans
<1>1. ps \in Seq(Shapes)
  BY PlansAssumption
<1>2. Len(ps) \in Nat /\ DOMAIN ps = 1 .. Len(ps)
  BY <1>1, LenProperties
<1>3. \A i \in DOMAIN ps : ps[i] \in Values(ps)
  BY DEF Values
<1> QED
  BY <1>2, <1>3 DEF AllPlans

LEMMA PlansShaped == AllPlans \subseteq Shapes
<1>1. DispatchAll \in Shapes
  <2>1. <<Dispatch>> \in Lane
    BY OnceShaped DEF Dispatch
  <2> QED
    BY <2>1, ShapeFacts DEF DispatchAll
<1>2. \A ps \in Chains : Values(ps) \subseteq Shapes
  BY PlansAssumption, LenProperties, ElementOfSeq DEF Values
<1> DEFINE Chained == UNION {Values(ps) : ps \in Chains}
           Tiles == {Tile(f) : f \in Frames}
           Retried == UNION {Retries(fs) : fs \in SUBSET Frames}
<1>3. Chained \subseteq Shapes
  BY <1>2
<1>4. Tiles \subseteq Shapes
  BY TileShaped
<1>5. Retried \subseteq Shapes
  BY RetryShaped
<1>6. Plans \subseteq Shapes
  BY PlansAssumption
<1>7. \A p \in AllPlans : \/ p \in Plans \/ p = DispatchAll
                           \/ p \in Chained \/ p \in Tiles \/ p \in Retried
  BY DEF AllPlans
<1> HIDE DEF Chained, Tiles, Retried
<1> QED
  BY <1>1, <1>3, <1>4, <1>5, <1>6, <1>7

-------------------------------------------------------------------------------
(* What a batch is.                                                            *)

Marks == UNION {[D -> Nat] : D \in SUBSET Nat}
Opens == UNION {[D -> SUBSET Calls] : D \in SUBSET Nat}
Runs == [plan : AllPlans \cup {Unset}, phase : Phases, at : Marks, open : Opens, bad : SUBSET Frames]

\* A batch that waits has a plan, and one that runs is at a step of each lane
\* until that is over; a batch of one lane that failed asks for nothing more.
Ready(r) ==
    /\ r.phase = "queued" => r.plan \in AllPlans
    /\ r.phase \in {"going", "failed"} =>
          /\ r.plan \in AllPlans
          /\ DOMAIN r.at = DOMAIN r.plan.lanes /\ DOMAIN r.open = DOMAIN r.plan.lanes
          /\ \A l \in DOMAIN r.open : /\ r.at[l] >= 1
                                      /\ r.open[l] # {} =>
                                            /\ r.at[l] <= Len(r.plan.lanes[l])
                                            /\ r.open[l] \subseteq r.plan.lanes[l][r.at[l]].calls
    /\ r.phase = "failed" /\ r.plan.kind # "squads" => \A l \in DOMAIN r.open : r.open[l] = {}

LEMMA MarkFacts ==
    /\ \A D \in SUBSET Nat : \A m \in [D -> Nat] : m \in Marks
    /\ \A D \in SUBSET Nat : \A m \in [D -> SUBSET Calls] : m \in Opens
    /\ \A m \in Marks : m \in [DOMAIN m -> Nat] /\ DOMAIN m \in SUBSET Nat
    /\ \A m \in Opens : m \in [DOMAIN m -> SUBSET Calls] /\ DOMAIN m \in SUBSET Nat
    /\ <<>> \in Marks /\ <<>> \in Opens
<1>1. /\ \A D \in SUBSET Nat : \A m \in [D -> Nat] : m \in Marks
      /\ \A D \in SUBSET Nat : \A m \in [D -> SUBSET Calls] : m \in Opens
  BY DEF Marks, Opens
<1>2. \A m \in Marks : m \in [DOMAIN m -> Nat] /\ DOMAIN m \in SUBSET Nat
  BY DEF Marks
<1>3. \A m \in Opens : m \in [DOMAIN m -> SUBSET Calls] /\ DOMAIN m \in SUBSET Nat
  BY DEF Opens
<1>4. <<>> \in [{} -> Nat] /\ <<>> \in [{} -> SUBSET Calls]
  OBVIOUS
<1> QED
  BY <1>1, <1>2, <1>3, <1>4

LEMMA RunsFacts ==
    /\ \A r \in Runs : /\ r.plan \in AllPlans \cup {Unset} /\ r.phase \in Phases
                       /\ r.at \in Marks /\ r.open \in Opens /\ r.bad \in SUBSET Frames
    /\ \A p \in AllPlans \cup {Unset}, h \in Phases, a \in Marks, o \in Opens, x \in SUBSET Frames :
          [plan |-> p, phase |-> h, at |-> a, open |-> o, bad |-> x] \in Runs
    /\ \A p \in AllPlans \cup {Unset}, h \in Phases :
          Entry(p, h) \in Runs /\ Entry(p, h).plan = p /\ Entry(p, h).phase = h
    /\ Fresh \in Runs /\ Fresh.phase = "new"
    /\ \A h \in Phases : Over(h) \in Runs /\ Over(h).phase = h
<1>1. \A r \in Runs : /\ r.plan \in AllPlans \cup {Unset} /\ r.phase \in Phases
                      /\ r.at \in Marks /\ r.open \in Opens /\ r.bad \in SUBSET Frames
  BY DEF Runs
<1>2. \A p \in AllPlans \cup {Unset}, h \in Phases, a \in Marks, o \in Opens, x \in SUBSET Frames :
         [plan |-> p, phase |-> h, at |-> a, open |-> o, bad |-> x] \in Runs
  BY DEF Runs
<1>3. <<>> \in Marks /\ <<>> \in Opens /\ "new" \in Phases
  BY MarkFacts DEF Phases
<1>4. \A p \in AllPlans \cup {Unset}, h \in Phases :
         Entry(p, h) \in Runs /\ Entry(p, h).plan = p /\ Entry(p, h).phase = h
  BY <1>2, <1>3 DEF Entry
<1>5. Fresh \in Runs /\ Fresh.phase = "new"
  BY <1>3, <1>4 DEF Fresh
<1>6. \A h \in Phases : Over(h) \in Runs /\ Over(h).phase = h
  BY <1>4 DEF Over
<1> QED
  BY <1>1, <1>2, <1>4, <1>5, <1>6

LEMMA LaneFacts ==
    ASSUME NEW p \in AllPlans
    PROVE  /\ Len(p.lanes) \in Nat /\ DOMAIN p.lanes = 1 .. Len(p.lanes)
           /\ p.lanes = <<>> <=> DOMAIN p.lanes = {}
           /\ p.kind \in {"waves", "squads", "six", "dispatch"}
           /\ p.kind = "squads" \/ \A l, m \in DOMAIN p.lanes : l = m
           /\ \A l \in DOMAIN p.lanes :
                 /\ p.lanes[l] \in Seq(Stages)
                 /\ Len(p.lanes[l]) \in Nat \ {0}
                 /\ DOMAIN p.lanes[l] = 1 .. Len(p.lanes[l])
                 /\ \A i \in DOMAIN p.lanes[l] : p.lanes[l][i] \in Stages
<1>1. /\ p.lanes \in Seq(Lane) /\ p.kind \in {"waves", "squads", "six", "dispatch"}
      /\ p.kind = "squads" \/ Len(p.lanes) <= 1
  BY PlansShaped, ShapeFacts
<1>2. Len(p.lanes) \in Nat /\ DOMAIN p.lanes = 1 .. Len(p.lanes)
  BY <1>1, LenProperties
<1>3. p.lanes = <<>> <=> DOMAIN p.lanes = {}
  <2>1. p.lanes # <<>> => Len(p.lanes) \in Nat \ {0}
    BY <1>1, EmptySeq
  <2>2. p.lanes # <<>> => 1 \in DOMAIN p.lanes
    BY <1>2, <2>1
  <2>3. \A x : x = <<>> => DOMAIN x = {}
    OBVIOUS
  <2> QED
    BY <2>2, <2>3
<1>4. p.kind = "squads" \/ \A l, m \in DOMAIN p.lanes : l = m
  BY <1>1, <1>2
<1>5. ASSUME NEW l \in DOMAIN p.lanes
      PROVE  /\ p.lanes[l] \in Seq(Stages)
             /\ Len(p.lanes[l]) \in Nat \ {0}
             /\ DOMAIN p.lanes[l] = 1 .. Len(p.lanes[l])
             /\ \A i \in DOMAIN p.lanes[l] : p.lanes[l][i] \in Stages
  <2>1. p.lanes[l] \in Lane
    BY <1>1, <1>2, ElementOfSeq
  <2> DEFINE s == p.lanes[l]
  <2>2. s \in Seq(Stages) /\ s # <<>>
    BY <2>1 DEF Lane
  <2> HIDE DEF s
  <2>3. Len(s) \in Nat \ {0} /\ DOMAIN s = 1 .. Len(s)
    BY <2>2, EmptySeq, LenProperties
  <2>4. \A i \in DOMAIN s : s[i] \in Stages
    BY <2>2, <2>3, ElementOfSeq
  <2> QED
    BY <2>2, <2>3, <2>4 DEF s
<1> QED
  BY <1>1, <1>2, <1>3, <1>4, <1>5

\* The frames of a plan are frames.
LEMMA FramesFacts ==
    ASSUME NEW p \in AllPlans
    PROVE  /\ FramesOf(p) \in SUBSET Frames
           /\ \A l \in DOMAIN p.lanes : \A i \in DOMAIN p.lanes[l] :
                 LET s == p.lanes[l][i]
                 IN  /\ s.frames \in SUBSET Frames /\ s.later \in SUBSET Frames
                     /\ s.calls \in SUBSET Calls /\ s.soft \in BOOLEAN
                     /\ s.soft => s.calls \in SUBSET Frames
<1>1. \A s \in Stages : /\ s.frames \in SUBSET Frames /\ s.later \in SUBSET Frames
                        /\ s.calls \in SUBSET Calls /\ s.soft \in BOOLEAN
                        /\ s.soft => s.calls \in SUBSET Frames
  BY DEF Stages
<1>2. \A l \in DOMAIN p.lanes : \A i \in DOMAIN p.lanes[l] : p.lanes[l][i] \in Stages
  BY LaneFacts
<1>3. \A lane \in Values(p.lanes) : \A s \in Values(lane) : s.frames \in SUBSET Frames
  BY <1>1, <1>2 DEF Values
<1>4. FramesOf(p) \in SUBSET Frames
  <2> SUFFICES ASSUME NEW x \in FramesOf(p) PROVE x \in Frames
    OBVIOUS
  <2>1. PICK lane \in Values(p.lanes) : x \in UNION {s.frames : s \in Values(lane)}
    BY DEF FramesOf
  <2>2. PICK s \in Values(lane) : x \in s.frames
    BY <2>1
  <2> QED
    BY <1>3, <2>2
<1> QED
  BY <1>1, <1>2, <1>4

-------------------------------------------------------------------------------
(* The variables, and what holds of them.                                      *)

RunTypes ==
    /\ run \in [Batches -> Runs] /\ aborted \in SUBSET Batches /\ driver \in Batches \cup {Unset}
    /\ busy \in BOOLEAN
    /\ running \in SUBSET Frames /\ waiting \in SUBSET Frames /\ last \in SUBSET Frames

OtherTypes ==
    /\ shown \in BOOLEAN /\ due \in BOOLEAN /\ sync \in BOOLEAN
    /\ log \in Seq(Batches \cup Frames) /\ Len(log) <= LogMax
    /\ auto \in BOOLEAN /\ held \in BOOLEAN
    /\ mirror \in Frames \cup {Unset} /\ fresh \in BOOLEAN /\ alarms \in Seq(Frames)

AllReady == \A b \in Batches : Ready(run[b])

\* Batches are made in the order of their names.
InOrder(batches) ==
    \E n \in 0 .. MaxBatches : \A b \in Batches : batches[b].phase # "new" <=> b <= n

\* The queue q is the batches of runs that wait.
Lined(q, batches) ==
    /\ q \in Seq(Batches) /\ Len(q) <= Depth /\ Distinct(q)
    /\ Values(q) = {b \in Batches : batches[b].phase = "queued"}

\* Tiles are dark when no run is in progress, but for the mirrored one.
Dark == (\A b \in Batches : run[b].phase # "going") =>
            waiting = {} /\ (mirror = Unset => running = {})

RunInv ==
    /\ RunTypes /\ AllReady /\ InOrder(run) /\ Lined(queue, run)
    /\ OneDriver /\ LogIsTrue /\ Dark /\ BusyIsTrue

PageInv == RunInv /\ OtherTypes

LEMMA BatchFacts == MaxBatches \in Nat /\ Batches = 1 .. MaxBatches /\ Unset \notin Batches
                    /\ Batches \in SUBSET Nat
  BY BoundsAssumption, UnsetAssumption DEF Batches

\* The next batch is the one after those made.
LEMMA NextFacts ==
    ASSUME InOrder(run)
    PROVE  /\ Next1 \in 1 .. MaxBatches + 1
           /\ \A b \in Batches : run[b].phase # "new" <=> b < Next1
<1>1. PICK n \in 0 .. MaxBatches : \A b \in Batches : run[b].phase # "new" <=> b <= n
  BY DEF InOrder
<1>2. Made = 1 .. n
  BY <1>1, BatchFacts DEF Made
<1>3. Cardinality(Made) = n
  BY <1>1, <1>2, BatchFacts, FS_Interval
<1> QED
  BY <1>1, <1>3, BatchFacts DEF Next1

\* A batch that has become another one, and has not begun to run.
Waited(r, s) ==
    s = r \/ /\ r.phase \in {"new", "queued"} /\ s.phase \in {"new", "queued", "dropped", "nothing"}
             /\ s.phase = "queued" => s.plan \in AllPlans

\* The k next batches have the plans ps, and nothing else has changed.
Planned(batches, ps, k, h) ==
    /\ batches \in [Batches -> Runs]
    /\ \A b \in Batches :
          IF b \in Next1 .. Next1 + k - 1
          THEN /\ batches[b].plan = ps[b - Next1 + 1] /\ batches[b].phase = h
               /\ batches[b].plan \in AllPlans /\ run[b].phase = "new"
          ELSE batches[b] = run[b]

\* createQueueEntry gives plans to new batches, and leaves the others alone.
LEMMA WithPlansFacts ==
    ASSUME RunTypes, InOrder(run),
           NEW ps, NEW k \in Nat, DOMAIN ps = 1 .. k, \A i \in 1 .. k : ps[i] \in AllPlans,
           Next1 + k - 1 \in 0 .. MaxBatches, NEW h \in {"new", "queued"}
    PROVE  Planned(WithPlans(ps, h), ps, k, h)
<1> DEFINE batches == WithPlans(ps, h)
           new(b) == b \in Next1 .. Next1 + k - 1
           entry(b) == Entry(ps[b - Next1 + 1], h)
<1>1. Next1 \in Nat /\ \A b \in Batches : b \in Nat /\ (run[b].phase # "new" <=> b < Next1)
  BY NextFacts, BatchFacts
<1>2. \A b \in Batches : b - Next1 + 1 \in DOMAIN ps <=> new(b)
  BY <1>1
<1>3. \A b \in Batches : batches[b] = IF b - Next1 + 1 \in DOMAIN ps THEN entry(b) ELSE run[b]
  BY DEF WithPlans
<1>4. DOMAIN batches = Batches /\ batches = [b \in Batches |-> batches[b]]
  BY DEF WithPlans
<1>6. \A b \in Batches : new(b) => b - Next1 + 1 \in 1 .. k
  BY <1>1
<1> HIDE DEF entry, batches
<1>7. \A b \in Batches : new(b) => entry(b) \in Runs /\ entry(b).plan = ps[b - Next1 + 1]
                                   /\ entry(b).phase = h /\ entry(b).plan \in AllPlans
  <2> SUFFICES ASSUME NEW b \in Batches, new(b)
               PROVE  /\ entry(b) \in Runs /\ entry(b).plan = ps[b - Next1 + 1]
                      /\ entry(b).phase = h /\ entry(b).plan \in AllPlans
    OBVIOUS
  <2>1. ps[b - Next1 + 1] \in AllPlans
    BY <1>6
  <2>2. h \in Phases
    BY DEF Phases
  <2> QED
    BY <2>1, <2>2, RunsFacts DEF entry
<1>8. \A b \in Batches : new(b) => run[b].phase = "new"
  BY <1>1
<1>9. \A b \in Batches : IF new(b) THEN batches[b] = entry(b) ELSE batches[b] = run[b]
  BY <1>2, <1>3
<1> HIDE DEF new
<1>10. batches \in [Batches -> Runs]
  <2>1. \A b \in Batches : batches[b] \in Runs
    BY <1>7, <1>9 DEF RunTypes
  <2> QED
    BY <1>4, <2>1
<1>11. \A b \in Batches : IF new(b) THEN /\ batches[b].plan = ps[b - Next1 + 1] /\ batches[b].phase = h
                                         /\ batches[b].plan \in AllPlans /\ run[b].phase = "new"
                          ELSE batches[b] = run[b]
  BY <1>7, <1>8, <1>9
<1> QED
  BY <1>10, <1>11 DEF new, batches, Planned

\* What is no longer in the queue is dropped.
LEMMA KeptFacts ==
    ASSUME NEW batches \in [Batches -> Runs], NEW q
    PROVE  /\ Kept(batches, q) \in [Batches -> Runs]
           /\ \A b \in Batches :
                 IF batches[b].phase = "queued" /\ b \notin Values(q)
                 THEN Kept(batches, q)[b].phase = "dropped" ELSE Kept(batches, q)[b] = batches[b]
<1> DEFINE kept == Kept(batches, q)
<1>1. "dropped" \in Phases
  BY DEF Phases
<1>2. kept = [b \in Batches |-> IF batches[b].phase = "queued" /\ b \notin Values(q)
                                THEN Over("dropped") ELSE batches[b]]
  BY DEF Kept
<1>3. Over("dropped") \in Runs /\ Over("dropped").phase = "dropped"
  BY <1>1, RunsFacts
<1> HIDE DEF kept
<1> QED
  BY <1>2, <1>3 DEF kept

\* The invariant but for the queue and the order of the batches.
Orderly == AllReady /\ OneDriver /\ LogIsTrue /\ Dark /\ BusyIsTrue

\* Batches that wait, drop or have no frames disturb nothing.
LEMMA WaitedKeeps ==
    ASSUME RunInv, \A b \in Batches : Waited(run[b], run'[b]),
           UNCHANGED <<aborted, driver, busy, log, running, waiting, mirror>>
    PROVE  Orderly'
<1>1. \A b \in Batches : \/ run'[b] = run[b]
                         \/ /\ run[b].phase \in {"new", "queued"}
                            /\ run'[b].phase \in {"new", "queued", "dropped", "nothing"}
  BY DEF Waited
<1>2. \A b \in Batches : \A h \in {"going", "failed", "aborted", "finished"} :
         run'[b].phase = h <=> run[b].phase = h
  BY <1>1
<1>3. AllReady'
  <2> SUFFICES ASSUME NEW b \in Batches PROVE Ready(run'[b])
    BY DEF AllReady, Batches
  <2>1. CASE run'[b] = run[b]
    BY <2>1 DEF RunInv, AllReady
  <2>2. CASE run'[b] # run[b]
    <3>1. /\ run'[b].phase \in {"new", "queued", "dropped", "nothing"}
          /\ run'[b].phase = "queued" => run'[b].plan \in AllPlans
      BY <2>2 DEF Waited
    <3> QED
      BY <3>1 DEF Ready
  <2> QED
    BY <2>1, <2>2
<1>4. Going' = Going
  BY <1>2 DEF Going
<1>5. OneDriver'
  BY <1>4 DEF RunInv, OneDriver
<1>6. LogIsTrue'
  BY <1>2 DEF RunInv, LogIsTrue, Batches
<1>7. Dark'
  BY <1>2 DEF RunInv, Dark, Batches
<1>8. BusyIsTrue'
  BY <1>2, <1>4 DEF RunInv, BusyIsTrue, Batches
<1> QED
  BY <1>3, <1>5, <1>6, <1>7, <1>8 DEF Orderly

\* beginRun aborts the run before, and makes the new one the driver.
LEMMA StartedKeeps ==
    ASSUME RunInv, NEW b \in Batches, run[b].phase \in {"new", "queued"},
           \A c \in Batches \ {b} : Waited(run[c], run'[c]),
           run'[b].phase = "going", Ready(run'[b]),
           aborted' = aborted \cup ({driver} \ {Unset}), driver' = b, busy' = TRUE, log' = log
    PROVE  Orderly'
<1>1. \A c \in Batches \ {b} : \/ run'[c] = run[c]
                               \/ /\ run[c].phase \in {"new", "queued"}
                                  /\ run'[c].phase \in {"new", "queued", "dropped", "nothing"}
  BY DEF Waited
<1>2. \A c \in Batches \ {b} : \A h \in {"going", "failed", "aborted", "finished"} :
         run'[c].phase = h <=> run[c].phase = h
  BY <1>1
<1>3. AllReady'
  <2> SUFFICES ASSUME NEW c \in Batches, c # b PROVE Ready(run'[c])
    BY DEF AllReady, Batches
  <2>1. CASE run'[c] = run[c]
    BY <2>1 DEF RunInv, AllReady
  <2>2. CASE run'[c] # run[c]
    <3>1. /\ run'[c].phase \in {"new", "queued", "dropped", "nothing"}
          /\ run'[c].phase = "queued" => run'[c].plan \in AllPlans
      BY <2>2 DEF Waited
    <3> QED
      BY <3>1 DEF Ready
  <2> QED
    BY <2>1, <2>2
<1>4. Going' \subseteq {b}
  <2> SUFFICES ASSUME NEW c \in Going', c # b PROVE FALSE
    OBVIOUS
  <2>1. c \in Batches /\ run'[c].phase = "going" /\ c \notin aborted /\ c \notin {driver} \ {Unset}
    BY DEF Going, Batches
  <2>2. c \in Going
    BY <1>2, <2>1 DEF Going
  <2>3. c = driver
    BY <2>2 DEF RunInv, OneDriver
  <2> QED
    BY <2>1, <2>3, BatchFacts
<1>5. OneDriver'
  BY <1>4 DEF OneDriver
<1>6. LogIsTrue'
  BY <1>2 DEF RunInv, LogIsTrue, Batches
<1>7. Dark'
  BY DEF Dark, Batches
<1>8. BusyIsTrue'
  BY DEF BusyIsTrue, Batches, Going
<1> QED
  BY <1>3, <1>5, <1>6, <1>7, <1>8 DEF Orderly

\* What beginRun does, for a batch with frames and for one without.
LEMMA BeginFacts ==
    ASSUME RunTypes, NEW batches \in [Batches -> Runs], NEW b \in Batches,
           batches[b].plan \in AllPlans, Begin(b, batches)
    PROVE  /\ RunTypes'
           /\ \A c \in Batches \ {b} : run'[c] = batches[c]
           /\ \/ /\ run'[b].phase = "nothing"
                 /\ UNCHANGED <<aborted, driver, busy, running, waiting>>
              \/ /\ run'[b].phase = "going" /\ Ready(run'[b])
                 /\ aborted' = aborted \cup ({driver} \ {Unset}) /\ driver' = b /\ busy' = TRUE
<1> DEFINE p == batches[b].plan
<1>1. CASE p.lanes = <<>>
  <2>1. run' = [batches EXCEPT ![b] = Over("nothing")]
    BY <1>1 DEF Begin
  <2>2. UNCHANGED <<aborted, driver, busy, running, waiting, last>>
    BY <1>1 DEF Begin, tiles
  <2>3. Over("nothing") \in Runs /\ Over("nothing").phase = "nothing"
    BY RunsFacts DEF Phases
  <2>4. /\ run' \in [Batches -> Runs] /\ run'[b].phase = "nothing"
        /\ \A c \in Batches \ {b} : run'[c] = batches[c]
    BY <2>1, <2>3
  <2>5. RunTypes'
    BY <2>2, <2>4 DEF RunTypes, Batches
  <2> QED
    BY <2>2, <2>4, <2>5
<1>2. CASE p.lanes # <<>>
  <2> DEFINE a == [l \in DOMAIN p.lanes |-> 1]
             o == [l \in DOMAIN p.lanes |-> p.lanes[l][1].calls]
             r == [batches[b] EXCEPT !.phase = "going", !.at = a, !.open = o]
  <2>1. /\ run' = [batches EXCEPT ![b] = r]
        /\ aborted' = aborted \cup ({driver} \ {Unset}) /\ driver' = b /\ busy' = TRUE
        /\ last' = {} \/ last' = last
        /\ running' = Lights(p, p.lanes[1][1])
        /\ waiting' = Queued(p, p.lanes[1][1])
    BY <1>2 DEF Begin
  <2>2. DOMAIN p.lanes \in SUBSET Nat /\ 1 \in DOMAIN p.lanes
    BY <1>2, LaneFacts
  <2>3. \A l \in DOMAIN p.lanes : /\ 1 \in DOMAIN p.lanes[l]
                                  /\ 1 <= Len(p.lanes[l])
                                  /\ p.lanes[l][1].calls \in SUBSET Calls
    BY LaneFacts, FramesFacts
  <2>4. a \in Marks /\ DOMAIN a = DOMAIN p.lanes /\ \A l \in DOMAIN p.lanes : a[l] = 1
    <3>1. a \in [DOMAIN p.lanes -> Nat]
      OBVIOUS
    <3> QED
      BY <2>2, <3>1, MarkFacts
  <2>5. o \in Opens /\ DOMAIN o = DOMAIN p.lanes
    <3>1. o \in [DOMAIN p.lanes -> SUBSET Calls]
      BY <2>3
    <3> QED
      BY <2>2, <3>1, MarkFacts
  <2> HIDE DEF a, o
  <2>6. r \in Runs /\ r.phase = "going" /\ r.at = a /\ r.open = o /\ r.plan = p
    <3>1. batches[b] \in Runs /\ "going" \in Phases /\ a \in Marks /\ o \in Opens
      BY <2>4, <2>5 DEF Phases
    <3> QED
      BY <3>1 DEF Runs
  <2> HIDE DEF r, p
  <2>7. /\ run' \in [Batches -> Runs] /\ run'[b] = r
        /\ \A c \in Batches \ {b} : run'[c] = batches[c]
    BY <2>1, <2>6
  <2>8. Ready(r)
    <3>1. \A l \in DOMAIN p.lanes : o[l] = p.lanes[l][1].calls
      BY DEF o
    <3> QED
      BY <2>3, <2>4, <2>5, <2>6, <3>1 DEF Ready, p
  <2>9. running' \in SUBSET Frames /\ waiting' \in SUBSET Frames
    <3> DEFINE s == p.lanes[1][1]
    <3>1. s.frames \in SUBSET Frames /\ s.later \in SUBSET Frames /\ FramesOf(p) \in SUBSET Frames
      BY <2>2, <2>3, FramesFacts DEF p
    <3> HIDE DEF s
    <3>2. Lights(p, s) \in SUBSET Frames /\ Queued(p, s) \in SUBSET Frames
      BY <3>1 DEF Lights, Queued, RunTypes
    <3> QED
      BY <2>1, <3>2 DEF s
  <2>10. RunTypes'
    BY <2>1, <2>7, <2>9 DEF RunTypes, Batches
  <2> QED
    BY <2>1, <2>6, <2>7, <2>8, <2>10
<1> QED
  BY <1>1, <1>2

-------------------------------------------------------------------------------
(* The queue.                                                                  *)

\* The batches are runs, and q their queue, and nothing has begun to run.
Arranged(batches, q) ==
    /\ batches \in [Batches -> Runs] /\ InOrder(batches) /\ Lined(q, batches)
    /\ \A b \in Batches : Waited(run[b], batches[b])

LEMMA ArrangedStays ==
    ASSUME RunInv, Arranged(run', queue'),
           UNCHANGED <<aborted, driver, busy, log, running, waiting, last, mirror>>
    PROVE  RunInv'
<1>1. Orderly'
  BY WaitedKeeps DEF Arranged
<1>2. RunTypes'
  BY DEF Arranged, RunInv, RunTypes, Batches
<1>3. InOrder(run)' /\ Lined(queue, run)'
  BY DEF Arranged, InOrder, Lined, Batches, Distinct, Values
<1> QED
  BY <1>1, <1>2, <1>3 DEF RunInv, Orderly

\* A batch that runs has left the queue.
LEMMA DequeueKeeps ==
    ASSUME RunInv, NEW batches, NEW q, Arranged(batches, q), Dequeue(q, batches),
           UNCHANGED <<log, mirror>>
    PROVE  RunInv'
<1>1. CASE q = <<>>
  <2>1. /\ run' = batches /\ queue' = q
        /\ UNCHANGED <<aborted, driver, busy, running, waiting, last>>
    BY <1>1 DEF Dequeue, tiles
  <2> QED
    BY <2>1, ArrangedStays
<1>2. CASE q # <<>>
  <2> DEFINE b == Head(q)
  <2>1. queue' = Tail(q) /\ Begin(b, batches)
    BY <1>2 DEF Dequeue
  <2>2. q \in Seq(Batches) /\ Distinct(q)
    BY DEF Arranged, Lined
  <2>3. /\ queue' \in Seq(Batches) /\ Distinct(queue') /\ Len(queue') = Len(q) - 1
        /\ b \in Values(q) /\ Values(queue') = Values(q) \ {b}
    BY <1>2, <2>1, <2>2, TailKeeps
  <2> HIDE DEF b
  <2>4. b \in Batches /\ batches[b].phase = "queued"
    BY <2>3 DEF Arranged, Lined
  <2>5. /\ run[b].phase \in {"new", "queued"} /\ batches[b].plan \in AllPlans
    <3>1. Waited(run[b], batches[b]) /\ Ready(run[b])
      BY <2>4 DEF Arranged, RunInv, AllReady
    <3> QED
      BY <2>4, <3>1 DEF Waited, Ready
  <2>6. /\ RunTypes'
        /\ \A c \in Batches \ {b} : run'[c] = batches[c]
        /\ \/ /\ run'[b].phase = "nothing"
              /\ UNCHANGED <<aborted, driver, busy, running, waiting>>
           \/ /\ run'[b].phase = "going" /\ Ready(run'[b])
              /\ aborted' = aborted \cup ({driver} \ {Unset}) /\ driver' = b /\ busy' = TRUE
    BY <2>1, <2>4, <2>5, BeginFacts DEF Arranged, RunInv
  <2>7. \A c \in Batches \ {b} : Waited(run[c], run'[c])
    BY <2>6 DEF Arranged
  <2>8. Orderly'
    <3>1. CASE run'[b].phase = "nothing"
      <4>1. Waited(run[b], run'[b])
        BY <2>5, <3>1 DEF Waited
      <4> QED
        BY <2>6, <2>7, <3>1, <4>1, WaitedKeeps
    <3>2. CASE run'[b].phase = "going"
      BY <2>4, <2>5, <2>6, <2>7, <3>2, StartedKeeps
    <3> QED
      BY <2>6, <3>1, <3>2
  <2>9. InOrder(run)'
    <3>1. PICK n \in 0 .. MaxBatches : \A c \in Batches : batches[c].phase # "new" <=> c <= n
      BY DEF Arranged, InOrder
    <3>2. \A c \in Batches : run'[c].phase # "new" <=> c <= n
      BY <2>4, <2>6, <3>1
    <3> QED
      BY <3>2 DEF InOrder, Batches
  <2>10. Lined(queue, run)'
    <3>1. Len(queue') <= Depth
      <4>1. Len(q) \in Nat /\ Len(q) <= Depth /\ Depth \in Nat
        BY <2>2, LenProperties, BoundsAssumption DEF Arranged, Lined
      <4> QED
        BY <2>3, <4>1
    <3>2. Values(queue') = {c \in Batches : run'[c].phase = "queued"}
      BY <2>3, <2>4, <2>6 DEF Arranged, Lined
    <3> QED
      BY <2>3, <3>1, <3>2 DEF Lined, Batches, Distinct, Values
  <2> QED
    BY <2>6, <2>8, <2>9, <2>10 DEF RunInv, Orderly
<1> QED
  BY <1>1, <1>2

\* What is kept of a queue is a queue.
LEMMA KeptArranged ==
    ASSUME RunInv, NEW batches \in [Batches -> Runs], InOrder(batches),
           \A b \in Batches : Waited(run[b], batches[b]),
           NEW q \in Seq(Batches), Distinct(q), Len(q) <= Depth,
           \A b \in Values(q) : batches[b].phase = "queued"
    PROVE  Arranged(Kept(batches, q), q)
<1> DEFINE kept == Kept(batches, q)
<1>1. /\ kept \in [Batches -> Runs]
      /\ \A b \in Batches :
            IF batches[b].phase = "queued" /\ b \notin Values(q)
            THEN kept[b].phase = "dropped" ELSE kept[b] = batches[b]
  BY KeptFacts
<1> HIDE DEF kept
<1>2. \A b \in Batches : kept[b].phase # "new" <=> batches[b].phase # "new"
  BY <1>1
<1>3. InOrder(kept)
  BY <1>2 DEF InOrder
<1>4. Values(q) \subseteq Batches
  <2>1. \A i \in DOMAIN q : q[i] \in Batches
    BY LenProperties, ElementOfSeq
  <2> QED
    BY <2>1 DEF Values
<1>5. Values(q) = {b \in Batches : kept[b].phase = "queued"}
  BY <1>1, <1>4
<1>6. Lined(q, kept)
  BY <1>5 DEF Lined
<1>7. \A b \in Batches : Waited(run[b], kept[b])
  BY <1>1 DEF Waited
<1> QED
  BY <1>1, <1>3, <1>6, <1>7 DEF Arranged, kept

\* Batches are added at the end of the queue.
LEMMA StackArranged ==
    ASSUME RunInv, NEW ps, NEW k \in Nat, DOMAIN ps = 1 .. k, \A i \in 1 .. k : ps[i] \in AllPlans,
           Next1 + k - 1 \in 0 .. MaxBatches,
           NEW more \in Seq(Batches), Len(more) = k, \A i \in 1 .. k : more[i] = Next1 + i - 1
    PROVE  LET q == Enqueued(queue \o more)
           IN  Arranged(Kept(WithPlans(ps, "queued"), q), q)
<1> DEFINE q == Enqueued(queue \o more)
           batches == WithPlans(ps, "queued")
<1>1. /\ batches \in [Batches -> Runs]
      /\ \A b \in Batches :
            IF b \in Next1 .. Next1 + k - 1
            THEN /\ batches[b].plan = ps[b - Next1 + 1] /\ batches[b].phase = "queued"
                 /\ batches[b].plan \in AllPlans /\ run[b].phase = "new"
            ELSE batches[b] = run[b]
  <2>1. Planned(WithPlans(ps, "queued"), ps, k, "queued")
    BY WithPlansFacts DEF RunInv
  <2> QED
    BY <2>1 DEF Planned
<1>2. Next1 \in 1 .. MaxBatches + 1 /\ \A b \in Batches : run[b].phase # "new" <=> b < Next1
  BY NextFacts DEF RunInv
<1> HIDE DEF batches, q
<1>3. InOrder(batches)
  <2>1. \A b \in Batches : batches[b].phase # "new" <=> b <= Next1 + k - 1
    BY <1>1, <1>2, BatchFacts
  <2> QED
    BY <2>1 DEF InOrder
<1>4. \A b \in Batches : Waited(run[b], batches[b])
  BY <1>1 DEF Waited
<1>5. DOMAIN more = 1 .. k
  BY LenProperties
<1>6. /\ Values(more) \subseteq Batches
      /\ \A b \in Values(more) : batches[b].phase = "queued" /\ run[b].phase = "new"
  <2> SUFFICES ASSUME NEW i \in 1 .. k
               PROVE  /\ more[i] \in Batches /\ batches[more[i]].phase = "queued"
                      /\ run[more[i]].phase = "new"
    BY <1>5 DEF Values
  <2>1. more[i] \in Batches
    BY ElementOfSeq
  <2>2. more[i] \in Next1 .. Next1 + k - 1
    BY <1>2
  <2> QED
    BY <1>1, <2>1, <2>2
<1>7. Distinct(more)
  BY <1>2, <1>5 DEF Distinct
<1>8. /\ queue \in Seq(Batches) /\ Distinct(queue)
      /\ Values(queue) = {b \in Batches : run[b].phase = "queued"}
  BY DEF RunInv, Lined
<1>9. Values(queue) \cap Values(more) = {}
  BY <1>6, <1>8
<1>10. /\ queue \o more \in Seq(Batches) /\ Distinct(queue \o more)
       /\ Values(queue \o more) = Values(queue) \cup Values(more)
  BY <1>7, <1>8, <1>9, JoinKeeps
<1>11. /\ q \in Seq(Batches) /\ Distinct(q) /\ Len(q) <= Depth
       /\ Values(q) \subseteq Values(queue) \cup Values(more)
  BY <1>10, EnqueuedKeeps DEF q
<1>12. \A b \in Values(q) : batches[b].phase = "queued"
  <2>1. \A b \in Values(queue) : batches[b].phase = "queued"
    BY <1>1, <1>8
  <2> QED
    BY <1>6, <1>11, <2>1
<1>13. Arranged(Kept(batches, q), q)
  BY <1>1, <1>3, <1>4, <1>11, <1>12, KeptArranged
<1> QED
  BY <1>13 DEF q, batches

\* A click runs a batch at once, and the queue stays as it is.
LEMMA ClickKeeps ==
    ASSUME RunInv, NEW p \in AllPlans, Next1 \in Batches, Begin(Next1, WithPlans(<<p>>, "new")),
           UNCHANGED <<queue, log, mirror>>
    PROVE  RunInv'
<1> DEFINE b == Next1
           batches == WithPlans(<<p>>, "new")
           ps == <<p>>
<1>1. b \in 1 .. MaxBatches /\ \A c \in Batches : run[c].phase # "new" <=> c < b
  BY NextFacts, BatchFacts DEF RunInv
<1>2. /\ batches \in [Batches -> Runs]
      /\ \A c \in Batches :
            IF c \in b .. b + 1 - 1
            THEN /\ batches[c].plan = ps[c - b + 1] /\ batches[c].phase = "new"
                 /\ batches[c].plan \in AllPlans /\ run[c].phase = "new"
            ELSE batches[c] = run[c]
  <2>1. DOMAIN ps = 1 .. 1 /\ \A i \in 1 .. 1 : ps[i] \in AllPlans
    OBVIOUS
  <2>2. Next1 + 1 - 1 \in 0 .. MaxBatches
    BY <1>1
  <2> HIDE DEF ps
  <2>3. Planned(WithPlans(ps, "new"), ps, 1, "new")
    BY <2>1, <2>2, WithPlansFacts DEF RunInv
  <2> QED
    BY <2>3 DEF Planned, ps
<1> HIDE DEF batches, ps
<1>3. /\ batches[b].phase = "new" /\ batches[b].plan \in AllPlans /\ run[b].phase = "new"
      /\ \A c \in Batches \ {b} : batches[c] = run[c]
  BY <1>1, <1>2, BatchFacts
<1>4. b \in Batches /\ Begin(b, batches)
  BY DEF batches
<1> HIDE DEF b
<1>5. /\ RunTypes'
      /\ \A c \in Batches \ {b} : run'[c] = batches[c]
      /\ \/ /\ run'[b].phase = "nothing"
            /\ UNCHANGED <<aborted, driver, busy, running, waiting>>
         \/ /\ run'[b].phase = "going" /\ Ready(run'[b])
            /\ aborted' = aborted \cup ({driver} \ {Unset}) /\ driver' = b /\ busy' = TRUE
  BY <1>2, <1>3, <1>4, BeginFacts DEF RunInv
<1>6. \A c \in Batches \ {b} : Waited(run[c], run'[c])
  BY <1>3, <1>5 DEF Waited
<1>7. Orderly'
  <2>1. CASE run'[b].phase = "nothing"
    <3>1. Waited(run[b], run'[b])
      BY <1>3, <2>1 DEF Waited
    <3> QED
      BY <1>5, <1>6, <2>1, <3>1, WaitedKeeps
  <2>2. CASE run'[b].phase = "going"
    BY <1>3, <1>4, <1>5, <1>6, <2>2, StartedKeeps
  <2> QED
    BY <1>5, <2>1, <2>2
<1>8. InOrder(run)'
  <2>1. \A c \in Batches : run'[c].phase # "new" <=> c <= b
    BY <1>1, <1>3, <1>4, <1>5, BatchFacts
  <2> QED
    BY <1>1, <2>1 DEF InOrder, Batches
<1>9. Lined(queue, run)'
  <2>1. \A c \in Batches : run'[c].phase = "queued" <=> run[c].phase = "queued"
    BY <1>3, <1>5
  <2> QED
    BY <2>1 DEF RunInv, Lined, Batches, Distinct, Values
<1> QED
  BY <1>5, <1>7, <1>8, <1>9 DEF RunInv, Orderly

-------------------------------------------------------------------------------
(* The answers.                                                                *)

LogTypes == log \in Seq(Batches \cup Frames) /\ Len(log) <= LogMax

\* appendSliceRunLog puts the new entry first, and may drop the last.
LEMMA LoggedFacts ==
    ASSUME LogTypes, NEW x \in Batches \cup Frames
    PROVE  /\ Logged(x) \in Seq(Batches \cup Frames) /\ Len(Logged(x)) <= LogMax
           /\ DOMAIN Logged(x) = 1 .. Len(Logged(x)) /\ DOMAIN log = 1 .. Len(log)
           /\ Len(log) \in Nat
           /\ Len(log) < LogMax => Len(Logged(x)) = Len(log) + 1
           /\ Len(Logged(x)) < LogMax => Len(log) < LogMax
           /\ Len(Logged(x)) >= 1 /\ Logged(x)[1] = x
           /\ \A i \in 2 .. Len(Logged(x)) : i - 1 \in DOMAIN log /\ Logged(x)[i] = log[i - 1]
<1> DEFINE all == <<x>> \o log
           n == IF Len(log) < LogMax THEN Len(log) + 1 ELSE LogMax
           new == SubSeq(all, 1, n)
<1>1. /\ log \in Seq(Batches \cup Frames) /\ Len(log) \in Nat /\ DOMAIN log = 1 .. Len(log)
      /\ Len(log) <= LogMax /\ LogMax \in Nat \ {0}
  BY LenProperties, BoundsAssumption DEF LogTypes
<1>2. <<x>> \in Seq(Batches \cup Frames) /\ Len(<<x>>) = 1 /\ <<x>>[1] = x
  OBVIOUS
<1>3. /\ all \in Seq(Batches \cup Frames) /\ Len(all) = 1 + Len(log)
      /\ \A i \in 1 .. 1 + Len(log) : all[i] = IF i <= 1 THEN x ELSE log[i - 1]
  <2> DEFINE one == <<x>>
  <2>1. /\ one \o log \in Seq(Batches \cup Frames) /\ Len(one \o log) = Len(one) + Len(log)
        /\ \A i \in 1 .. Len(one) + Len(log) :
              (one \o log)[i] = IF i <= Len(one) THEN one[i] ELSE log[i - Len(one)]
    BY <1>1, <1>2, ConcatProperties
  <2>2. Len(one) = 1 /\ one[1] = x
    BY <1>2
  <2> HIDE DEF one
  <2> DEFINE both == one \o log
  <2>3. /\ both \in Seq(Batches \cup Frames) /\ Len(both) = 1 + Len(log)
        /\ \A i \in 1 .. 1 + Len(log) : both[i] = IF i <= 1 THEN one[i] ELSE log[i - 1]
    BY <2>1, <2>2
  <2>4. both = all
    BY DEF one
  <2> HIDE DEF both, all
  <2>5. \A i \in 1 .. 1 + Len(log) : i <= 1 => one[i] = x
    BY <1>1, <2>2
  <2> QED
    BY <2>3, <2>4, <2>5
<1>4. DOMAIN all = 1 .. 1 + Len(log) /\ \A i \in 1 .. 1 + Len(log) : all[i] \in Batches \cup Frames
  BY <1>3, LenProperties, ElementOfSeq
<1>5. n \in 1 .. 1 + Len(log) /\ n <= LogMax
  BY <1>1
<1> HIDE DEF all
<1>6. /\ new \in Seq(Batches \cup Frames) /\ Len(new) = n
      /\ \A i \in 1 .. n : new[i] = all[i]
  <2> HIDE DEF n
  <2>1. \A i \in 1 .. n : all[i] \in Batches \cup Frames
    BY <1>1, <1>4, <1>5
  <2>2. /\ SubSeq(all, 1, n) \in Seq(Batches \cup Frames)
        /\ Len(SubSeq(all, 1, n)) = IF 1 <= n THEN n - 1 + 1 ELSE 0
        /\ \A i \in 1 .. n - 1 + 1 : SubSeq(all, 1, n)[i] = all[1 + i - 1]
    BY <1>5, <2>1, SubSeqProperties
  <2>3. n \in Nat \ {0} /\ n - 1 + 1 = n /\ \A i \in 1 .. n : 1 + i - 1 = i
    BY <1>5
  <2> QED
    BY <2>2, <2>3
<1>7. DOMAIN new = 1 .. Len(new)
  BY <1>6, LenProperties
<1>8. Logged(x) = new
  BY DEF Logged, all
<1>9. \A i \in 2 .. n : i - 1 \in DOMAIN log /\ all[i] = log[i - 1]
  BY <1>1, <1>3, <1>5
<1>10. all[1] = x
  BY <1>1, <1>3
<1>11. /\ Len(log) < LogMax => n = Len(log) + 1
       /\ n < LogMax => Len(log) < LogMax
       /\ n >= 1
       /\ 1 \in 1 .. n /\ \A i \in 2 .. n : i \in 1 .. n
  BY <1>1
<1> HIDE DEF n, new
<1> QED
  BY <1>1, <1>5, <1>6, <1>7, <1>8, <1>9, <1>10, <1>11

\* A run that finishes was the driver: its label is the log's.
LEMMA FinishedKeeps ==
    ASSUME RunInv, LogTypes, NEW b \in Going, run'[b].phase = "finished",
           \A c \in Batches \ {b} : run'[c] = run[c],
           aborted' = aborted, driver' = driver, busy' = FALSE, running' = {}, waiting' = {},
           log' = Logged(driver)
    PROVE  Orderly' /\ LogTypes'
<1>1. b \in Batches /\ b = driver /\ run[b].phase = "going" /\ b \notin aborted
  BY DEF RunInv, OneDriver, Going
<1>2. AllReady'
  <2> SUFFICES ASSUME NEW c \in Batches PROVE Ready(run'[c])
    BY DEF AllReady, Batches
  <2>1. Ready(run[c])
    BY DEF RunInv, AllReady
  <2>2. CASE c = b
    BY <2>2 DEF Ready
  <2>3. CASE c # b
    BY <2>1, <2>3
  <2> QED
    BY <2>2, <2>3
<1>3. Going' = Going \ {b}
  BY <1>1 DEF Going, Batches
<1>4. Going = {b}
  BY <1>1 DEF RunInv, OneDriver
<1>5. OneDriver' /\ BusyIsTrue' /\ Dark'
  BY <1>3, <1>4 DEF OneDriver, BusyIsTrue, Dark
<1> DEFINE new == Logged(driver)
<1>6. /\ new \in Seq(Batches \cup Frames) /\ Len(new) <= LogMax
      /\ DOMAIN new = 1 .. Len(new) /\ DOMAIN log = 1 .. Len(log)
      /\ Len(log) \in Nat
      /\ Len(log) < LogMax => Len(new) = Len(log) + 1
      /\ Len(new) < LogMax => Len(log) < LogMax
      /\ Len(new) >= 1 /\ new[1] = b
      /\ \A i \in 2 .. Len(new) : i - 1 \in DOMAIN log /\ new[i] = log[i - 1]
  BY <1>1, LoggedFacts
<1> HIDE DEF new
<1>7. log' = new /\ Len(new) \in Nat
  BY <1>6, LenProperties DEF new
<1>n. \A i \in DOMAIN new : i \in Nat /\ (i = 1 \/ i \in 2 .. Len(new))
  <2>1. DOMAIN new = 1 .. Len(new) /\ Len(new) \in Nat
    BY <1>6, <1>7
  <2> QED
    BY <2>1
<1>8. \A i \in DOMAIN log : log[i] # b
  BY <1>1 DEF RunInv, LogIsTrue, Values
<1>9. \A i, j \in DOMAIN new : new[i] = new[j] /\ new[i] \in Batches => i = j
  <2> SUFFICES ASSUME NEW i \in DOMAIN new, NEW j \in DOMAIN new, new[i] = new[j], new[i] \in Batches
               PROVE  i = j
    OBVIOUS
  <2>1. i \in Nat /\ j \in Nat /\ (i = 1 \/ i \in 2 .. Len(new)) /\ (j = 1 \/ j \in 2 .. Len(new))
    BY <1>n
  <2>2. CASE i = 1 \/ j = 1
    BY <1>6, <1>8, <2>1, <2>2
  <2>3. CASE i \in 2 .. Len(new) /\ j \in 2 .. Len(new)
    <3>1. /\ i - 1 \in DOMAIN log /\ j - 1 \in DOMAIN log
          /\ log[i - 1] = log[j - 1] /\ log[i - 1] \in Batches
      BY <1>6, <2>3
    <3>2. i - 1 = j - 1
      BY <3>1 DEF RunInv, LogIsTrue
    <3> QED
      BY <2>1, <3>2
  <2> QED
    BY <2>1, <2>2, <2>3
<1>10. \A c \in Batches : run'[c].phase = "finished" <=> c = b \/ run[c].phase = "finished"
  BY <1>1
<1>11. \A i \in DOMAIN new : new[i] \in Batches => run'[new[i]].phase = "finished"
  <2> SUFFICES ASSUME NEW i \in DOMAIN new, new[i] \in Batches PROVE run'[new[i]].phase = "finished"
    OBVIOUS
  <2>1. i = 1 \/ i \in 2 .. Len(new)
    BY <1>n
  <2>2. CASE i = 1
    BY <1>6, <2>2
  <2>3. CASE i \in 2 .. Len(new)
    <3>1. i - 1 \in DOMAIN log /\ new[i] = log[i - 1]
      BY <1>6, <2>3
    <3>2. run[new[i]].phase = "finished"
      BY <3>1 DEF RunInv, LogIsTrue, Values
    <3> QED
      BY <1>10, <3>2
  <2> QED
    BY <2>1, <2>2, <2>3
<1>12. Len(new) < LogMax => \A c \in Batches : run'[c].phase = "finished" => c \in Values(new)
  <2> SUFFICES ASSUME Len(new) < LogMax, NEW c \in Batches, run'[c].phase = "finished"
               PROVE  \E i \in DOMAIN new : c = new[i]
    BY DEF Values
  <2>1. CASE c = b
    BY <1>6, <1>7, <2>1
  <2>2. CASE c # b
    <3>1. c \in Values(log)
      BY <1>6, <1>10, <2>2 DEF RunInv, LogIsTrue
    <3>2. PICK i \in DOMAIN log : c = log[i]
      BY <3>1 DEF Values
    <3>3. i + 1 \in 2 .. Len(new) /\ i + 1 - 1 = i
      BY <1>6, <1>7, <3>2
    <3>4. new[i + 1] = log[i] /\ i + 1 \in DOMAIN new
      BY <1>6, <1>7, <3>3
    <3> QED
      BY <3>2, <3>4
  <2> QED
    BY <2>1, <2>2
<1>13. LogIsTrue'
  BY <1>7, <1>9, <1>11, <1>12 DEF LogIsTrue, Values, Batches
<1>14. LogTypes'
  BY <1>6, <1>7 DEF LogTypes, Batches
<1> QED
  BY <1>2, <1>5, <1>13, <1>14 DEF Orderly

\* The queue and the order of the batches, when none is made, added or taken.
LEMMA LineStays ==
    ASSUME InOrder(run), Lined(queue, run), queue' = queue,
           \A c \in Batches : \A h \in {"new", "queued"} : run'[c].phase = h <=> run[c].phase = h
    PROVE  InOrder(run)' /\ Lined(queue, run)'
<1>1. PICK n \in 0 .. MaxBatches : \A c \in Batches : run[c].phase # "new" <=> c <= n
  BY DEF InOrder
<1>2. \A c \in Batches : run'[c].phase # "new" <=> c <= n
  BY <1>1
<1>3. InOrder(run)'
  BY <1>2 DEF InOrder, Batches
<1>4. {c \in Batches : run'[c].phase = "queued"} = {c \in Batches : run[c].phase = "queued"}
  OBVIOUS
<1>5. Lined(queue, run)'
  BY <1>4 DEF Lined, Batches, Distinct, Values
<1> QED
  BY <1>3, <1>5

\* A run that goes on.
LEMMA OngoingKeeps ==
    ASSUME RunInv, NEW b \in Batches, run'[b].phase = run[b].phase, Ready(run'[b]),
           \A c \in Batches \ {b} : run'[c] = run[c],
           UNCHANGED <<queue, aborted, driver, busy, log>>, Dark'
    PROVE  Orderly' /\ InOrder(run)' /\ Lined(queue, run)'
<1>1. \A c \in Batches : run'[c].phase = run[c].phase
  OBVIOUS
<1>2. AllReady'
  <2>1. \A c \in Batches : Ready(run'[c])
    BY DEF RunInv, AllReady
  <2> QED
    BY <2>1 DEF AllReady, Batches
<1>3. Going' = Going
  BY <1>1 DEF Going, Batches
<1>4. OneDriver' /\ BusyIsTrue'
  BY <1>1, <1>3 DEF RunInv, OneDriver, BusyIsTrue, Batches
<1>5. LogIsTrue'
  BY <1>1 DEF RunInv, LogIsTrue, Batches
<1>6. InOrder(run)' /\ Lined(queue, run)'
  BY <1>1, LineStays DEF RunInv
<1> QED
  BY <1>2, <1>4, <1>5, <1>6 DEF Orderly

\* A run that fails or is aborted resets the page.
LEMMA OverKeeps ==
    ASSUME RunInv, NEW b \in Batches, run[b].phase = "going", Ready(run'[b]),
           \/ run'[b].phase = "failed" /\ b \notin aborted
           \/ run'[b].phase = "aborted" /\ b \in aborted,
           \A c \in Batches \ {b} : run'[c] = run[c],
           UNCHANGED <<queue, aborted, driver, log>>, busy' = FALSE, running' = {}, waiting' = {}
    PROVE  Orderly' /\ InOrder(run)' /\ Lined(queue, run)'
<1>1. \A c \in Batches : \A h \in {"new", "queued", "finished"} :
         run'[c].phase = h <=> run[c].phase = h
  OBVIOUS
<1>2. AllReady'
  <2>1. \A c \in Batches : Ready(run'[c])
    BY DEF RunInv, AllReady
  <2> QED
    BY <2>1 DEF AllReady, Batches
<1>3. Going' = Going \ {b}
  BY DEF Going, Batches
<1>4. OneDriver'
  BY <1>3 DEF RunInv, OneDriver
<1>5. BusyIsTrue'
  <2>1. CASE run'[b].phase = "failed" /\ b \notin aborted
    <3>1. Going = {b}
      BY <2>1 DEF RunInv, OneDriver, Going
    <3>2. Going' = {}
      BY <1>3, <3>1
    <3> QED
      BY <3>2 DEF BusyIsTrue
  <2>2. CASE run'[b].phase = "aborted"
    BY <2>2 DEF BusyIsTrue, Batches
  <2> QED
    BY <2>1, <2>2
<1>6. LogIsTrue'
  BY <1>1 DEF RunInv, LogIsTrue, Batches
<1>7. Dark'
  BY DEF Dark
<1>8. InOrder(run)' /\ Lined(queue, run)'
  BY <1>1, LineStays DEF RunInv
<1> QED
  BY <1>2, <1>4, <1>5, <1>6, <1>7, <1>8 DEF Orderly

\* Where a run stands: the step of a lane with calls that are not answered.
LEMMA StepFacts ==
    ASSUME RunTypes, AllReady, NEW b \in Batches, run[b].phase \in {"going", "failed"},
           NEW l \in DOMAIN run[b].open, NEW c \in run[b].open[l]
    PROVE  /\ run[b].plan \in AllPlans /\ l \in DOMAIN run[b].plan.lanes
           /\ run[b].at[l] \in 1 .. Len(run[b].plan.lanes[l])
           /\ Len(run[b].plan.lanes[l]) \in Nat
           /\ c \in Step(b, l).calls /\ Step(b, l).soft \in BOOLEAN
           /\ Step(b, l).frames \in SUBSET Frames
           /\ Step(b, l).soft => c \in Frames
           /\ run[b].phase = "failed" => run[b].plan.kind = "squads"
<1> DEFINE r == run[b]
           p == r.plan
<1>1. r \in Runs /\ Ready(r) /\ r.phase \in {"going", "failed"}
  BY DEF RunTypes, AllReady
<1> HIDE DEF r
<1>2. /\ p \in AllPlans /\ DOMAIN r.at = DOMAIN p.lanes /\ DOMAIN r.open = DOMAIN p.lanes
      /\ \A m \in DOMAIN r.open : /\ r.at[m] >= 1
                                  /\ r.open[m] # {} =>
                                        /\ r.at[m] <= Len(p.lanes[m])
                                        /\ r.open[m] \subseteq p.lanes[m][r.at[m]].calls
      /\ r.phase = "failed" /\ p.kind # "squads" => \A m \in DOMAIN r.open : r.open[m] = {}
  BY <1>1 DEF Ready
<1>3. l \in DOMAIN r.open /\ c \in r.open[l]
  BY DEF r
<1>4. r.at \in [DOMAIN r.at -> Nat]
  BY <1>1, RunsFacts, MarkFacts
<1> HIDE DEF p
<1>5. l \in DOMAIN p.lanes /\ r.at[l] \in Nat /\ r.at[l] >= 1 /\ r.at[l] <= Len(p.lanes[l])
      /\ c \in p.lanes[l][r.at[l]].calls
  BY <1>2, <1>3, <1>4
<1>6. Len(p.lanes[l]) \in Nat /\ DOMAIN p.lanes[l] = 1 .. Len(p.lanes[l])
  BY <1>2, <1>5, LaneFacts
<1>7. r.at[l] \in 1 .. Len(p.lanes[l])
  BY <1>5, <1>6
<1> DEFINE s == p.lanes[l][r.at[l]]
<1>8. /\ s.frames \in SUBSET Frames /\ s.calls \in SUBSET Calls /\ s.soft \in BOOLEAN
      /\ s.soft => s.calls \in SUBSET Frames
  BY <1>2, <1>5, <1>6, <1>7, FramesFacts
<1>9. Step(b, l) = s
  BY DEF Step, r, p
<1> HIDE DEF s
<1>10. /\ c \in s.calls /\ (s.soft => c \in Frames)
  BY <1>5, <1>8 DEF s
<1>11. r.phase = "failed" => p.kind = "squads"
  BY <1>2, <1>3
<1> QED
  BY <1>2, <1>5, <1>6, <1>7, <1>8, <1>9, <1>10, <1>11 DEF r, p

\* An answer leaves its run at a step of each lane.
LEMMA AnsweredFacts ==
    ASSUME RunTypes, AllReady, NEW b \in Batches, run[b].phase \in {"going", "failed"},
           NEW l \in DOMAIN run[b].open, NEW c \in run[b].open[l], NEW worse \in SUBSET Frames
    PROVE  LET r == Answered(b, l, c, worse)
           IN  /\ r \in Runs /\ r.plan = run[b].plan /\ r.phase = run[b].phase /\ Ready(r)
<1> DEFINE r == run[b]
           p == r.plan
           lane == p.lanes[l]
           rest == r.open[l] \ {c}
           more == rest = {} /\ r.at[l] < Len(lane)
           x == r.bad \cup worse
           n == IF rest = {} THEN r.at[l] + 1 ELSE r.at[l]
           calls == IF more THEN lane[r.at[l] + 1].calls ELSE rest
           a == [r.at EXCEPT ![l] = n]
           o == [r.open EXCEPT ![l] = calls]
           s == [r EXCEPT !.bad = x, !.at = a, !.open = o]
<1>1. Answered(b, l, c, worse) = s
  BY DEF Answered
<1>2. r \in Runs /\ Ready(r)
  BY DEF RunTypes, AllReady
<1>3. /\ p \in AllPlans /\ l \in DOMAIN p.lanes /\ r.at[l] \in 1 .. Len(lane) /\ Len(lane) \in Nat
      /\ r.phase = "failed" => p.kind = "squads"
  BY StepFacts
<1>4. r.phase \in {"going", "failed"} /\ r.open[l] # {}
  OBVIOUS
<1> HIDE DEF r
<1>5. /\ DOMAIN r.at = DOMAIN p.lanes /\ DOMAIN r.open = DOMAIN p.lanes
      /\ \A m \in DOMAIN r.open : /\ r.at[m] >= 1
                                  /\ r.open[m] # {} =>
                                        /\ r.at[m] <= Len(p.lanes[m])
                                        /\ r.open[m] \subseteq p.lanes[m][r.at[m]].calls
  BY <1>2, <1>4 DEF Ready
<1>6. /\ r.at \in [DOMAIN p.lanes -> Nat] /\ DOMAIN p.lanes \in SUBSET Nat
      /\ r.open \in [DOMAIN p.lanes -> SUBSET Calls]
  BY <1>2, <1>5, RunsFacts, MarkFacts
<1> HIDE DEF p
<1>7. n \in Nat /\ n >= 1 /\ (rest # {} => n = r.at[l]) /\ (more => n = r.at[l] + 1 /\ n <= Len(lane))
  BY <1>3
<1>8. more => n \in DOMAIN lane /\ lane[n].calls \in SUBSET Calls
  <2>1. \A m \in 1 .. Len(lane) : m \in DOMAIN lane /\ lane[m].calls \in SUBSET Calls
    BY <1>3, LaneFacts, FramesFacts
  <2> HIDE DEF lane, more, n
  <2> QED
    BY <1>3, <1>7, <2>1
<1>9. rest \subseteq r.open[l] /\ r.open[l] \in SUBSET Calls /\ rest \in SUBSET Calls
      /\ r.at[l] <= Len(lane) /\ r.open[l] \subseteq lane[r.at[l]].calls
  BY <1>3, <1>4, <1>5, <1>6
<1>10. calls \in SUBSET Calls
  <2> HIDE DEF lane, more, n, rest
  <2>1. more => lane[r.at[l] + 1].calls \in SUBSET Calls
    BY <1>7, <1>8
  <2> QED
    BY <1>9, <2>1
<1>11. calls # {} => n <= Len(lane) /\ calls \subseteq lane[n].calls
  <2>1. CASE more
    BY <1>7, <2>1
  <2>2. CASE ~more
    <3>1. calls = rest
      BY <2>2
    <3> HIDE DEF calls, lane, more, n, rest
    <3>2. rest # {} => n <= Len(lane) /\ rest \subseteq lane[n].calls
      BY <1>7, <1>9
    <3> QED
      BY <3>1, <3>2
  <2> QED
    BY <2>1, <2>2
<1> HIDE DEF calls, n, more, rest
<1>12. /\ a \in [DOMAIN p.lanes -> Nat] /\ a[l] = n
       /\ \A m \in DOMAIN p.lanes \ {l} : a[m] = r.at[m]
  BY <1>3, <1>6, <1>7
<1>13. /\ o \in [DOMAIN p.lanes -> SUBSET Calls] /\ o[l] = calls
       /\ \A m \in DOMAIN p.lanes \ {l} : o[m] = r.open[m]
  BY <1>3, <1>6, <1>10
<1>14. a \in Marks /\ o \in Opens
  BY <1>6, <1>12, <1>13, MarkFacts
<1>15. x \in SUBSET Frames
  BY <1>2, RunsFacts
<1> HIDE DEF a, o, x
<1>16. s \in Runs /\ s.plan = r.plan /\ s.phase = r.phase /\ s.at = a /\ s.open = o
  BY <1>2, <1>14, <1>15 DEF Runs
<1> HIDE DEF s
<1>17. \A m \in DOMAIN p.lanes : /\ a[m] >= 1
                                 /\ o[m] # {} =>
                                       /\ a[m] <= Len(p.lanes[m])
                                       /\ o[m] \subseteq p.lanes[m][a[m]].calls
  <2> SUFFICES ASSUME NEW m \in DOMAIN p.lanes
               PROVE  /\ a[m] >= 1
                      /\ o[m] # {} =>
                            /\ a[m] <= Len(p.lanes[m])
                            /\ o[m] \subseteq p.lanes[m][a[m]].calls
    OBVIOUS
  <2>1. CASE m = l
    BY <1>7, <1>11, <1>12, <1>13, <2>1 DEF lane
  <2>2. CASE m # l
    BY <1>5, <1>12, <1>13, <2>2
  <2> QED
    BY <2>1, <2>2
<1>18. DOMAIN a = DOMAIN p.lanes /\ DOMAIN o = DOMAIN p.lanes
  BY <1>12, <1>13
<1>19. Ready(s)
  <2>1. s.plan = p /\ s.phase \in {"going", "failed"} /\ s.at = a /\ s.open = o
    BY <1>4, <1>16 DEF p
  <2>2. s.phase = "failed" => p.kind = "squads"
    BY <1>3, <1>16
  <2> QED
    BY <1>3, <1>17, <1>18, <2>1, <2>2 DEF Ready
<1> QED
  BY <1>1, <1>16, <1>19 DEF r

-------------------------------------------------------------------------------
(* The steps.                                                                  *)

LEMMA SteadyKeeps ==
    ASSUME RunInv, UNCHANGED <<run, queue, aborted, driver, busy, log, last>>,
           running' \in SUBSET Frames, waiting' \in SUBSET Frames, Dark'
    PROVE  RunInv'
<1>1. Orderly' /\ InOrder(run)' /\ Lined(queue, run)'
  <2>1. CASE Batches = {}
    <3>1. AllReady' /\ Going' = Going /\ OneDriver' /\ LogIsTrue' /\ BusyIsTrue'
      BY <2>1 DEF RunInv, AllReady, Going, OneDriver, LogIsTrue, BusyIsTrue, Batches
    <3> QED
      BY <3>1, LineStays DEF Orderly, RunInv
  <2>2. CASE Batches # {}
    <3>1. PICK b \in Batches : TRUE
      BY <2>2
    <3>2. Ready(run'[b])
      BY DEF RunInv, AllReady
    <3> QED
      BY <3>1, <3>2, OngoingKeeps
  <2> QED
    BY <2>1, <2>2
<1>2. RunTypes'
  BY DEF RunInv, RunTypes, Batches
<1> QED
  BY <1>1, <1>2 DEF RunInv, Orderly

LEMMA FlushTypes ==
    ASSUME OtherTypes, Flush
    PROVE  shown' \in BOOLEAN /\ due' \in BOOLEAN /\ sync' \in BOOLEAN
<1>1. sync' \in BOOLEAN
  BY DEF Flush
<1> QED
  BY <1>1 DEF Flush, OtherTypes

LEMMA ClickInv == ASSUME PageInv, NEW p \in AllPlans, Click(p) PROVE PageInv'
<1>1. RunInv'
  BY ClickKeeps DEF Click, PageInv, voice
<1>2. OtherTypes'
  BY FlushTypes DEF Click, PageInv, OtherTypes, user, voice, Batches
<1> QED
  BY <1>1, <1>2 DEF PageInv

LEMMA HoldInv == ASSUME PageInv, Hold PROVE PageInv'
<1>1. DispatchAll \in AllPlans
  BY DEF AllPlans
<1>2. RunInv'
  BY <1>1, ClickKeeps DEF Hold, PageInv, voice
<1>3. OtherTypes'
  BY DEF Hold, PageInv, OtherTypes, react, voice, Batches
<1> QED
  BY <1>2, <1>3 DEF PageInv

LEMMA TapBusyInv == ASSUME PageInv, NEW f \in Frames, TapBusy(f) PROVE PageInv'
<1> DEFINE ps == <<Tile(f)>>
           more == <<Next1>>
<1>1. DOMAIN ps = 1 .. 1 /\ (\A i \in 1 .. 1 : ps[i] \in AllPlans)
  BY DEF AllPlans
<1>2. Next1 \in Batches /\ Next1 \in Nat /\ Next1 + 1 - 1 \in 0 .. MaxBatches
  BY NextFacts, BatchFacts DEF TapBusy, PageInv, RunInv
<1>3. more \in Seq(Batches) /\ Len(more) = 1 /\ \A i \in 1 .. 1 : more[i] = Next1 + i - 1
  BY <1>2
<1>4. Append(queue, Next1) = queue \o more
  BY <1>2, AppendIsConcat DEF PageInv, RunInv, Lined
<1>5. queue' = Enqueued(queue \o more) /\ run' = Kept(WithPlans(ps, "queued"), queue')
  BY <1>4 DEF TapBusy
<1> HIDE DEF ps, more
<1>6. Arranged(run', queue')
  BY <1>1, <1>2, <1>3, <1>5, StackArranged DEF PageInv
<1>7. RunInv'
  BY <1>6, ArrangedStays DEF TapBusy, PageInv, tiles, book, voice
<1>8. OtherTypes'
  BY FlushTypes DEF TapBusy, PageInv, OtherTypes, book, user, voice, Batches
<1> QED
  BY <1>7, <1>8 DEF PageInv

LEMMA StackInv == ASSUME PageInv, NEW ps \in Chains, Stack(ps) PROVE PageInv'
<1> DEFINE k == Len(ps)
           more == [i \in DOMAIN ps |-> Next1 + i - 1]
           q == Enqueued(queue \o more)
           batches == Kept(WithPlans(ps, "queued"), q)
<1>1. k \in Nat /\ DOMAIN ps = 1 .. k /\ \A i \in 1 .. k : ps[i] \in AllPlans
  BY ChainShaped
<1>2. /\ Next1 + k - 1 \in Batches
      /\ \/ Dequeue(q, batches)
         \/ queue' = q /\ run' = batches /\ UNCHANGED <<aborted, driver, busy, running, waiting, last>>
      /\ Flush
      /\ UNCHANGED <<log, auto, held, mirror, fresh, alarms>>
  BY DEF Stack, user, voice, tiles
<1> HIDE DEF q, batches
<1>3. Next1 \in 1 .. MaxBatches + 1 /\ Next1 + k - 1 \in 0 .. MaxBatches
  BY <1>1, <1>2, NextFacts, BatchFacts DEF PageInv, RunInv
<1>4. more \in Seq(Batches) /\ Len(more) = k /\ \A i \in 1 .. k : more[i] = Next1 + i - 1
  <2>1. \A i \in 1 .. k : Next1 + i - 1 \in Batches
    BY <1>1, <1>3, BatchFacts
  <2>2. more = [i \in 1 .. k |-> Next1 + i - 1]
    BY <1>1
  <2> HIDE DEF k
  <2>3. more \in [1 .. k -> Batches]
    BY <2>1, <2>2
  <2>4. \A i \in 1 .. k : more[i] = Next1 + i - 1
    BY <2>2
  <2> HIDE DEF more
  <2> QED
    BY <1>1, <2>3, <2>4, FunctionIsSeq
<1> HIDE DEF k, more
<1>5. Arranged(batches, q)
  BY <1>1, <1>3, <1>4, StackArranged DEF PageInv, batches, q
<1>6. RunInv'
  <2>1. CASE Dequeue(q, batches)
    BY <1>2, <1>5, <2>1, DequeueKeeps DEF PageInv
  <2>2. CASE queue' = q /\ run' = batches /\ UNCHANGED <<aborted, driver, busy, running, waiting, last>>
    BY <1>2, <1>5, <2>2, ArrangedStays DEF PageInv
  <2> QED
    BY <1>2, <2>1, <2>2
<1>7. OtherTypes'
  BY <1>2, FlushTypes DEF PageInv, OtherTypes, Batches
<1> QED
  BY <1>6, <1>7 DEF PageInv

\* The queue as it is may be dequeued.
LEMMA TakeKeeps ==
    ASSUME RunInv, Dequeue(queue, run), UNCHANGED <<log, mirror>>
    PROVE  RunInv'
<1>1. Arranged(run, queue)
  BY DEF RunInv, RunTypes, Arranged, Waited
<1> QED
  BY <1>1, DequeueKeeps

LEMMA RunQueueNowInv == ASSUME PageInv, RunQueueNow PROVE PageInv'
<1>1. RunInv'
  BY TakeKeeps DEF RunQueueNow, PageInv, voice
<1>2. OtherTypes'
  BY FlushTypes DEF RunQueueNow, PageInv, OtherTypes, user, voice, Batches
<1> QED
  BY <1>1, <1>2 DEF PageInv

LEMMA DrainInv == ASSUME PageInv, Drain PROVE PageInv'
<1>1. RunInv'
  BY TakeKeeps DEF Drain, PageInv, voice
<1>2. sync' \in BOOLEAN
  BY DEF Drain
<1>3. OtherTypes'
  BY <1>2 DEF Drain, PageInv, OtherTypes, user, voice, Batches
<1> QED
  BY <1>1, <1>3 DEF PageInv

\* Keeping some of the queue, in any order, drops the rest.
LEMMA KeepInv ==
    ASSUME PageInv, NEW q \in Seq(Batches), Distinct(q), Len(q) <= Depth,
           Values(q) \subseteq Values(queue), Keep(q)
    PROVE  PageInv'
<1>1. Arranged(Kept(run, q), q)
  <2>1. \A b \in Batches : Waited(run[b], run[b])
    BY DEF Waited
  <2>2. \A b \in Values(q) : run[b].phase = "queued"
    BY DEF PageInv, RunInv, Lined
  <2>3. run \in [Batches -> Runs] /\ InOrder(run) /\ RunInv
    BY DEF PageInv, RunInv, RunTypes
  <2> QED
    BY <2>1, <2>2, <2>3, KeptArranged
<1>2. run' = Kept(run, q) /\ queue' = q
  BY DEF Keep
<1>3. RunInv'
  BY <1>1, <1>2, ArrangedStays DEF Keep, PageInv, tiles, book, voice
<1>4. OtherTypes'
  BY FlushTypes DEF Keep, PageInv, OtherTypes, book, user, voice, Batches
<1> QED
  BY <1>3, <1>4 DEF PageInv

LEMMA DrawerInv ==
    ASSUME PageInv, NEW b \in Batches,
           Clear \/ Remove(b) \/ \E i \in 1 .. Depth : Reorder(b, i)
    PROVE  PageInv'
<1>1. /\ queue \in Seq(Batches) /\ Distinct(queue) /\ Len(queue) <= Depth
      /\ Len(queue) \in Nat /\ DOMAIN queue = 1 .. Len(queue) /\ Depth \in Nat
  BY LenProperties, BoundsAssumption DEF PageInv, RunInv, Lined
<1>2. CASE Clear
  <2>1. /\ <<>> \in Seq(Batches) /\ Distinct(<<>>) /\ Len(<<>>) <= Depth
        /\ Values(<<>>) \subseteq Values(queue)
    BY <1>1 DEF Distinct, Values
  <2> QED
    BY <1>2, <2>1, KeepInv DEF Clear
<1>3. CASE Remove(b)
  <2>1. PICK i \in DOMAIN queue : Keep(Without(queue, i))
    BY <1>3 DEF Remove
  <2> DEFINE q == Without(queue, i)
  <2>2. /\ q \in Seq(Batches) /\ Distinct(q) /\ Len(q) = Len(queue) - 1
        /\ Values(q) = Values(queue) \ {queue[i]}
    BY <1>1, WithoutKeeps
  <2> HIDE DEF q
  <2>3. Len(q) <= Depth
    BY <1>1, <2>2
  <2>4. Keep(q)
    BY <2>1 DEF q
  <2> QED
    BY <2>2, <2>3, <2>4, KeepInv
<1>4. CASE \E i \in 1 .. Depth : Reorder(b, i)
  <2>1. PICK to \in DOMAIN queue, i \in DOMAIN queue :
           queue[i] = b /\ Keep(Inserted(Without(queue, i), to, b))
    BY <1>4 DEF Reorder
  <2> DEFINE w == Without(queue, i)
             q == Inserted(w, to, b)
  <2>2. /\ w \in Seq(Batches) /\ Distinct(w) /\ Len(w) = Len(queue) - 1
        /\ Values(w) = Values(queue) \ {queue[i]}
    BY <1>1, WithoutKeeps
  <2> HIDE DEF w
  <2>3. to \in 1 .. Len(w) + 1
    BY <1>1, <2>2
  <2>4. b \notin Values(w) /\ b \in Values(queue)
    BY <2>1, <2>2 DEF Values
  <2>5. q \in Seq(Batches) /\ Distinct(q) /\ Len(q) = Len(w) + 1 /\ Values(q) = Values(w) \cup {b}
    BY <2>2, <2>3, <2>4, InsertKeeps
  <2> HIDE DEF q
  <2>6. Len(q) <= Depth
    BY <1>1, <2>2, <2>5
  <2>7. Values(q) \subseteq Values(queue)
    BY <2>2, <2>4, <2>5
  <2>8. Keep(q)
    BY <2>1 DEF q, w
  <2> QED
    BY <2>5, <2>6, <2>7, <2>8, KeepInv
<1> QED
  BY <1>2, <1>3, <1>4

\* Presses, the toggle, renders and the Voice page's own run leave runs and
\* tiles alone.
LEMMA IdleInv ==
    ASSUME PageInv, Press \/ LetGo \/ ToggleAuto \/ Commit \/ VoiceRuns
    PROVE  PageInv'
<1>1. UNCHANGED <<run, queue, aborted, driver, busy, log, last, running, waiting, mirror, alarms>>
  BY DEF Press, LetGo, ToggleAuto, Commit, VoiceRuns, state, tiles, book, user, voice
<1>2. /\ shown' \in BOOLEAN /\ due' \in BOOLEAN /\ sync' \in BOOLEAN
      /\ auto' \in BOOLEAN /\ held' \in BOOLEAN /\ fresh' \in BOOLEAN
  <2>1. OtherTypes /\ busy \in BOOLEAN
    BY DEF PageInv, RunInv, RunTypes
  <2>2. CASE Press
    BY <2>1, <2>2 DEF Press, OtherTypes, state, react, voice
  <2>3. CASE LetGo
    BY <2>1, <2>3 DEF LetGo, OtherTypes, state, react, voice
  <2>4. CASE ToggleAuto
    BY <2>1, <2>4, FlushTypes DEF ToggleAuto, OtherTypes, voice
  <2>5. CASE Commit
    <3>1. due' \in BOOLEAN /\ sync' \in BOOLEAN
      BY <2>5 DEF Commit
    <3> QED
      BY <2>1, <2>5, <3>1 DEF Commit, OtherTypes, user, voice
  <2>6. CASE VoiceRuns
    BY <2>1, <2>6 DEF VoiceRuns, OtherTypes, state, react, user
  <2> QED
    BY <2>2, <2>3, <2>4, <2>5, <2>6
<1>3. OtherTypes'
  BY <1>1, <1>2 DEF PageInv, OtherTypes, Batches
<1>4. Dark'
  BY <1>1 DEF PageInv, RunInv, Dark, Batches
<1>5. RunInv'
  BY <1>1, <1>4, SteadyKeeps DEF PageInv, RunInv, RunTypes
<1> QED
  BY <1>3, <1>5 DEF PageInv

\* A mirror lights its frame, and goes dark when its timer rings.  A reload never
\* finds it complete, for seconds are less than milliseconds.
LEMMA MirrorInv ==
    ASSUME PageInv, Reload \/ Alarm \/ \E f \in Abroad : Mirror(f)
    PROVE  PageInv'
<1>1. CASE Reload
  <2>1. ~MirrorComplete
    BY BoundsAssumption DEF MirrorComplete, Stamp, StartedAt
  <2>2. UNCHANGED <<run, queue, aborted, driver, busy, log, last, running, waiting, mirror>>
    BY <1>1, <2>1 DEF Reload, state, book
  <2>3. UNCHANGED <<shown, due, sync, auto, held, fresh, alarms>>
    BY <1>1, <2>1 DEF Reload, state, react, user
  <2>4. Dark'
    BY <2>2 DEF PageInv, RunInv, Dark, Batches
  <2>5. RunInv'
    BY <2>2, <2>4, SteadyKeeps DEF PageInv, RunInv, RunTypes
  <2>6. OtherTypes'
    BY <2>2, <2>3 DEF PageInv, OtherTypes, Batches
  <2> QED
    BY <2>5, <2>6 DEF PageInv
<1>2. CASE Alarm
  <2>1. UNCHANGED <<run, queue, aborted, driver, busy, log, last, waiting>>
    BY <1>2 DEF Alarm, state, book
  <2>2. \/ mirror' = Unset /\ fresh' = FALSE /\ running' = {}
        \/ UNCHANGED <<mirror, fresh, running>>
    BY <1>2 DEF Alarm
  <2>3. alarms' \in Seq(Frames)
    BY <1>2, HeadTailProperties DEF Alarm, PageInv, OtherTypes
  <2>4. Dark'
    BY <2>1, <2>2 DEF PageInv, RunInv, Dark, Batches
  <2>5. RunInv'
    BY <2>1, <2>2, <2>4, SteadyKeeps DEF PageInv, RunInv, RunTypes
  <2>6. OtherTypes'
    BY <1>2, <2>1, <2>2, <2>3 DEF Alarm, state, react, user, PageInv, OtherTypes, Batches
  <2> QED
    BY <2>5, <2>6 DEF PageInv
<1>3. ASSUME NEW f \in Abroad, Mirror(f) PROVE PageInv'
  <2>1. f \in Frames /\ f # Unset
    BY FramesAssumption, UnsetAssumption
  <2>2. /\ UNCHANGED <<run, queue, aborted, driver, busy, log, last, waiting>>
        /\ mirror' = f /\ fresh' = FALSE /\ running' = {f} /\ alarms' = Append(alarms, f)
    BY <1>3 DEF Mirror, state, book
  <2>3. alarms' \in Seq(Frames)
    BY <2>1, <2>2, AppendProperties DEF PageInv, OtherTypes
  <2>4. Dark'
    BY <2>1, <2>2 DEF PageInv, RunInv, Dark, Batches
  <2>5. RunInv'
    BY <2>1, <2>2, <2>4, SteadyKeeps DEF PageInv, RunInv, RunTypes
  <2>6. OtherTypes'
    BY <1>3, <2>1, <2>2, <2>3 DEF Mirror, state, react, user, PageInv, OtherTypes, Batches
  <2> QED
    BY <2>5, <2>6 DEF PageInv
<1> QED
  BY <1>1, <1>2, <1>3

\* Cancel aborts the only run that goes.
LEMMA CancelInv == ASSUME PageInv, Cancel PROVE PageInv'
<1>1. /\ UNCHANGED <<run, queue, driver, last, log, mirror>>
      /\ aborted' = aborted \cup ({driver} \ {Unset})
      /\ busy' = FALSE /\ running' = {} /\ waiting' = {}
  BY DEF Cancel, Reset, book, voice
<1>2. Going' = {}
  BY <1>1, BatchFacts DEF PageInv, RunInv, OneDriver, Going, Batches
<1>3. OneDriver' /\ BusyIsTrue' /\ Dark'
  BY <1>1, <1>2 DEF OneDriver, BusyIsTrue, Dark
<1>4. AllReady' /\ LogIsTrue'
  BY <1>1 DEF PageInv, RunInv, AllReady, LogIsTrue, Batches
<1>5. InOrder(run)' /\ Lined(queue, run)'
  BY <1>1, LineStays DEF PageInv, RunInv
<1>6. RunTypes'
  BY <1>1 DEF PageInv, RunInv, RunTypes, Batches
<1>7. OtherTypes'
  BY <1>1, FlushTypes DEF Cancel, PageInv, OtherTypes, user, voice, Batches
<1> QED
  BY <1>3, <1>4, <1>5, <1>6, <1>7 DEF PageInv, RunInv

LEMMA SettleInv == ASSUME PageInv, NEW b \in Batches, Settle(b) PROVE PageInv'
<1>1. /\ run[b].phase = "going" /\ b \in aborted
      /\ run' = [run EXCEPT ![b] = Over("aborted")]
      /\ UNCHANGED <<queue, aborted, driver, last, log>>
      /\ busy' = FALSE /\ running' = {} /\ waiting' = {}
  BY DEF Settle, Reset, book
<1>2. Over("aborted") \in Runs /\ Over("aborted").phase = "aborted"
  BY RunsFacts DEF Phases
<1>3. /\ run' \in [Batches -> Runs] /\ run'[b].phase = "aborted"
      /\ \A c \in Batches \ {b} : run'[c] = run[c]
  BY <1>1, <1>2 DEF PageInv, RunInv, RunTypes
<1>4. Ready(run'[b])
  BY <1>3 DEF Ready
<1>5. Orderly' /\ InOrder(run)' /\ Lined(queue, run)'
  BY <1>1, <1>3, <1>4, OverKeeps DEF PageInv
<1>6. RunTypes'
  BY <1>1, <1>3 DEF PageInv, RunInv, RunTypes, Batches
<1>7. OtherTypes'
  BY <1>1 DEF Settle, PageInv, OtherTypes, react, user, voice, Batches
<1> QED
  BY <1>5, <1>6, <1>7 DEF PageInv, RunInv, Orderly

\* A request that fails ends a run of one lane; other lanes go on.
LEMMA BreakInv == ASSUME PageInv, NEW b \in Batches, NEW l \in Lanes(b), Break(b, l) PROVE PageInv'
<1> DEFINE r == run[b]
           o == [r.open EXCEPT ![l] = {}]
           s == [r EXCEPT !.phase = "failed", !.open = o]
<1>1. /\ b \in Batches /\ r.phase \in {"going", "failed"} /\ b \notin aborted
      /\ l \in DOMAIN r.open /\ Post \in r.open[l]
      /\ UNCHANGED <<queue, aborted, driver, last, log, shown, due, sync, auto, held, mirror, fresh, alarms>>
      /\ IF r.phase = "going" THEN busy' = FALSE /\ running' = {} /\ waiting' = {}
         ELSE UNCHANGED <<busy, running, waiting>>
  BY DEF Break, Heard, Reset, tiles, book, react, user, voice
<1>2. run' = [run EXCEPT ![b] = s]
  BY DEF Break
<1>3. r \in Runs /\ Ready(r) /\ RunTypes /\ AllReady
  BY DEF PageInv, RunInv, RunTypes, AllReady
<1>4. /\ r.plan \in AllPlans /\ l \in DOMAIN r.plan.lanes
      /\ r.phase = "failed" => r.plan.kind = "squads"
  BY <1>1, <1>3, StepFacts
<1> HIDE DEF r
<1>5. /\ DOMAIN r.at = DOMAIN r.plan.lanes /\ DOMAIN r.open = DOMAIN r.plan.lanes
      /\ \A m \in DOMAIN r.open : /\ r.at[m] >= 1
                                  /\ r.open[m] # {} =>
                                        /\ r.at[m] <= Len(r.plan.lanes[m])
                                        /\ r.open[m] \subseteq r.plan.lanes[m][r.at[m]].calls
  BY <1>1, <1>3 DEF Ready
<1>6. /\ r.open \in [DOMAIN r.plan.lanes -> SUBSET Calls] /\ DOMAIN r.plan.lanes \in SUBSET Nat
  BY <1>3, <1>5, RunsFacts, MarkFacts
<1>7. /\ o \in [DOMAIN r.plan.lanes -> SUBSET Calls] /\ o[l] = {}
      /\ \A m \in DOMAIN r.plan.lanes \ {l} : o[m] = r.open[m]
  BY <1>4, <1>6
<1>8. o \in Opens
  BY <1>6, <1>7, MarkFacts
<1> HIDE DEF o
<1>9. s \in Runs /\ s.plan = r.plan /\ s.phase = "failed" /\ s.at = r.at /\ s.open = o
  BY <1>3, <1>8 DEF Runs, Phases
<1> HIDE DEF s
<1>10. Ready(s)
  <2> DEFINE p == r.plan
  <2>1. r.plan.kind = "squads" \/ \A m \in DOMAIN r.plan.lanes : m = l
    BY <1>4, LaneFacts
  <2>2. \A m \in DOMAIN r.plan.lanes :
           /\ s.at[m] >= 1
           /\ s.open[m] # {} =>
                 /\ s.at[m] <= Len(r.plan.lanes[m])
                 /\ s.open[m] \subseteq r.plan.lanes[m][s.at[m]].calls
    BY <1>5, <1>7, <1>9
  <2>3. DOMAIN s.open = DOMAIN r.plan.lanes /\ DOMAIN s.at = DOMAIN r.plan.lanes
    BY <1>5, <1>7, <1>9
  <2>4. r.plan.kind # "squads" => \A m \in DOMAIN s.open : s.open[m] = {}
    BY <1>7, <1>9, <2>1, <2>3
  <2> QED
    BY <1>4, <1>9, <2>2, <2>3, <2>4 DEF Ready
<1>11. /\ run' \in [Batches -> Runs] /\ run'[b] = s
       /\ \A c \in Batches \ {b} : run'[c] = run[c]
  BY <1>2, <1>3, <1>9 DEF RunTypes
<1>12. Orderly' /\ InOrder(run)' /\ Lined(queue, run)'
  <2>1. CASE r.phase = "going"
    BY <1>1, <1>9, <1>10, <1>11, <2>1, OverKeeps DEF PageInv, r
  <2>2. CASE r.phase = "failed"
    <3>1. \A c \in Batches : run'[c].phase = run[c].phase
      BY <1>9, <1>11, <2>2 DEF r
    <3>2. Dark'
      BY <1>1, <2>2, <3>1 DEF PageInv, RunInv, Dark, Batches
    <3>3. UNCHANGED <<queue, aborted, driver, busy, log>>
      BY <1>1, <2>2
    <3> QED
      BY <1>10, <1>11, <3>1, <3>2, <3>3, OngoingKeeps DEF PageInv
  <2> QED
    BY <1>1, <2>1, <2>2
<1>13. RunTypes'
  BY <1>1, <1>3, <1>11 DEF RunTypes, Batches
<1>14. OtherTypes'
  BY <1>1 DEF PageInv, OtherTypes, Batches
<1> QED
  BY <1>12, <1>13, <1>14 DEF PageInv, RunInv, Orderly

\* What a wave shows when a frame is done is frames, and other runs show nothing.
LEMMA RelightFacts ==
    ASSUME RunTypes, AllReady, NEW b \in Batches, run[b].phase \in {"going", "failed"},
           NEW l \in DOMAIN run[b].open, NEW c \in run[b].open[l],
           NEW r \in Runs, Ready(r), r.plan = run[b].plan, r.phase = run[b].phase,
           Relight(b, l, c, r)
    PROVE  /\ running' \in SUBSET Frames /\ waiting' \in SUBSET Frames
           /\ run[b].phase = "failed" => UNCHANGED <<running, waiting>>
<1> DEFINE p == r.plan
           new == r.at[l] # run[b].at[l] /\ r.at[l] <= Len(p.lanes[l])
           next == p.lanes[l][r.at[l]]
           done == IF Step(b, l).soft THEN {c} ELSE Step(b, l).frames
<1>1. /\ p \in AllPlans /\ l \in DOMAIN p.lanes /\ Len(p.lanes[l]) \in Nat
      /\ run[b].phase = "failed" => p.kind = "squads"
  BY StepFacts
<1>2. \/ UNCHANGED <<running, waiting>>
      \/ p.kind = "waves" /\ new /\ running' = next.frames /\ waiting' = next.later
      \/ p.kind = "waves" /\ running' = running \ done /\ waiting' = waiting
  BY DEF Relight, tiles
<1> HIDE DEF new, next, done, p
<1>3. r.at[l] \in Nat /\ r.at[l] >= 1
  <2>1. DOMAIN r.at = DOMAIN r.plan.lanes /\ DOMAIN r.open = DOMAIN r.plan.lanes
        /\ \A m \in DOMAIN r.open : r.at[m] >= 1
    BY DEF Ready
  <2>2. r.at \in [DOMAIN r.at -> Nat]
    BY RunsFacts, MarkFacts
  <2> QED
    BY <1>1, <2>1, <2>2 DEF p
<1>4. ASSUME new PROVE next.frames \in SUBSET Frames /\ next.later \in SUBSET Frames
  <2>1. r.at[l] \in 1 .. Len(p.lanes[l])
    BY <1>1, <1>3, <1>4 DEF new
  <2> QED
    BY <1>1, <2>1, LaneFacts, FramesFacts DEF next
<1> QED
  BY <1>1, <1>2, <1>4 DEF RunTypes

\* An answer advances its run, or finishes it.
LEMMA AnswerInv ==
    ASSUME PageInv, NEW b \in Batches, NEW l \in Lanes(b), NEW c, Answer(b, l, c)
    PROVE  PageInv'
<1>1. /\ run[b].phase \in {"going", "failed"} /\ b \notin aborted
      /\ l \in DOMAIN run[b].open /\ c \in run[b].open[l]
      /\ UNCHANGED <<queue, aborted, driver, shown, due, sync, auto, held, mirror, alarms>>
      /\ RunTypes /\ AllReady /\ RunInv
  BY DEF Answer, Heard, react, user, PageInv, RunInv
<1>2. PICK worse \in SUBSET (IF Step(b, l).soft THEN {c} ELSE Step(b, l).frames) :
         LET r == Answered(b, l, c, worse)
             ends == Complete(r) /\ r.phase = "going"
         IN  /\ run' = [run EXCEPT ![b] = IF ends THEN Over("finished") ELSE r]
             /\ IF ends THEN Finish(r)
                ELSE Relight(b, l, c, r) /\ UNCHANGED <<busy, book>>
  BY DEF Answer
<1> DEFINE r == Answered(b, l, c, worse)
           ends == Complete(r) /\ r.phase = "going"
<1>3. worse \in SUBSET Frames
  BY <1>1, StepFacts
<1>4. r \in Runs /\ r.plan = run[b].plan /\ r.phase = run[b].phase /\ Ready(r)
  BY <1>1, <1>3, AnsweredFacts
<1>5. fresh' \in BOOLEAN
  BY DEF Answer
<1>6. CASE ends
  <2>1. run' = [run EXCEPT ![b] = Over("finished")] /\ Finish(r)
    BY <1>2, <1>6
  <2> HIDE DEF r
  <2>2. /\ busy' = FALSE /\ running' = {} /\ waiting' = {}
        /\ last' = r.bad /\ log' = Logged(driver)
    BY <2>1 DEF Finish, Reset
  <2>3. b \in Going
    BY <1>1, <1>4, <1>6 DEF Going
  <2>4. Over("finished") \in Runs /\ Over("finished").phase = "finished"
    BY RunsFacts DEF Phases
  <2>5. /\ run' \in [Batches -> Runs] /\ run'[b].phase = "finished"
        /\ \A d \in Batches \ {b} : run'[d] = run[d]
    BY <1>1, <2>1, <2>4 DEF RunTypes
  <2>6. LogTypes
    BY DEF PageInv, OtherTypes, LogTypes
  <2>7. Orderly' /\ LogTypes'
    BY <1>1, <2>2, <2>3, <2>5, <2>6, FinishedKeeps
  <2>8. InOrder(run)' /\ Lined(queue, run)'
    <3>1. \A d \in Batches : \A h \in {"new", "queued"} : run'[d].phase = h <=> run[d].phase = h
      BY <1>1, <2>5
    <3> QED
      BY <1>1, <3>1, LineStays DEF RunInv
  <2>9. RunTypes'
    <3>1. r.bad \in SUBSET Frames
      BY <1>4, RunsFacts
    <3> QED
      BY <1>1, <2>2, <2>5, <3>1 DEF RunTypes, Batches
  <2>10. OtherTypes'
    BY <1>1, <1>5, <2>7 DEF PageInv, OtherTypes, LogTypes, Batches
  <2> QED
    BY <2>7, <2>8, <2>9, <2>10 DEF PageInv, RunInv, Orderly
<1>7. CASE ~ends
  <2>1. /\ run' = [run EXCEPT ![b] = r] /\ Relight(b, l, c, r)
        /\ UNCHANGED <<busy, last, log>>
    BY <1>2, <1>7 DEF book
  <2> HIDE DEF r
  <2>2. /\ run' \in [Batches -> Runs] /\ run'[b] = r
        /\ \A d \in Batches \ {b} : run'[d] = run[d]
    BY <1>1, <1>4, <2>1 DEF RunTypes
  <2>3. /\ running' \in SUBSET Frames /\ waiting' \in SUBSET Frames
        /\ run[b].phase = "failed" => UNCHANGED <<running, waiting>>
    BY <1>1, <1>4, <2>1, RelightFacts
  <2>4. \A d \in Batches : run'[d].phase = run[d].phase
    BY <1>4, <2>2
  <2>5. Dark'
    <3>1. CASE run[b].phase = "going"
      BY <2>4, <3>1 DEF Dark, Batches
    <3>2. CASE run[b].phase = "failed"
      BY <1>1, <2>3, <2>4, <3>2 DEF RunInv, Dark, Batches
    <3> QED
      BY <1>1, <3>1, <3>2
  <2>6. Orderly' /\ InOrder(run)' /\ Lined(queue, run)'
    BY <1>1, <1>4, <2>1, <2>2, <2>4, <2>5, OngoingKeeps
  <2>7. RunTypes'
    BY <1>1, <2>1, <2>2, <2>3 DEF RunTypes, Batches
  <2>8. OtherTypes'
    BY <1>1, <1>5, <2>1 DEF PageInv, OtherTypes, Batches
  <2> QED
    BY <2>6, <2>7, <2>8 DEF PageInv, RunInv, Orderly
<1> QED
  BY <1>6, <1>7

LEMMA PageInitInv == ASSUME PageInit PROVE PageInv
<1>1. \A b \in Batches : run[b] = Fresh
  BY DEF PageInit
<1>2. Fresh \in Runs /\ Fresh.phase = "new"
  BY RunsFacts
<1>3. \A b \in Batches : run[b].phase = "new"
  BY <1>1, <1>2
<1>4. RunTypes
  BY <1>2 DEF PageInit, RunTypes
<1>5. AllReady
  BY <1>3 DEF AllReady, Ready
<1>6. InOrder(run)
  <2>1. 0 \in 0 .. MaxBatches /\ \A b \in Batches : run[b].phase # "new" <=> b <= 0
    BY <1>3, BatchFacts
  <2> QED
    BY <2>1 DEF InOrder
<1>7. Lined(queue, run)
  <2>1. queue = <<>> /\ <<>> \in Seq(Batches) /\ Len(<<>>) = 0 /\ 0 <= Depth
    BY BoundsAssumption DEF PageInit
  <2>2. Distinct(<<>>) /\ Values(<<>>) = {}
    BY DEF Distinct, Values
  <2>3. {b \in Batches : run[b].phase = "queued"} = {}
    BY <1>3
  <2> QED
    BY <2>1, <2>2, <2>3 DEF Lined
<1>8. OneDriver /\ BusyIsTrue /\ Dark
  BY <1>3 DEF PageInit, OneDriver, BusyIsTrue, Going, Dark
<1>9. LogIsTrue
  <2>1. log = <<>> /\ Values(log) = {}
    BY DEF PageInit, Values
  <2> QED
    BY <1>3, <2>1 DEF LogIsTrue
<1>10. OtherTypes
  <2>1. log = <<>> /\ <<>> \in Seq(Batches \cup Frames) /\ Len(<<>>) <= LogMax
    BY BoundsAssumption DEF PageInit
  <2>2. alarms = <<>> /\ <<>> \in Seq(Frames)
    BY DEF PageInit
  <2> QED
    BY <2>1, <2>2 DEF PageInit, OtherTypes
<1> QED
  BY <1>4, <1>5, <1>6, <1>7, <1>8, <1>9, <1>10 DEF PageInv, RunInv

LEMMA PageStutters == ASSUME PageInv, UNCHANGED pageVars PROVE PageInv'
<1>1. UNCHANGED <<run, queue, aborted, driver, busy, log, last, running, waiting, mirror, alarms,
                  shown, due, sync, auto, held, fresh>>
  BY DEF pageVars, state, react, tiles, book, user, voice
<1>2. Dark' /\ OtherTypes'
  BY <1>1 DEF PageInv, RunInv, Dark, OtherTypes, Batches
<1>3. RunInv'
  BY <1>1, <1>2, SteadyKeeps DEF PageInv, RunInv, RunTypes
<1> QED
  BY <1>2, <1>3 DEF PageInv

\* The plans that are run are those that a button, a key or a chip gives.
LEMMA PageSteps == ASSUME PageInv, PageNext PROVE PageInv'
<1>1. /\ \A p \in Plans : p \in AllPlans
      /\ \A f \in Frames : Tile(f) \in AllPlans
      /\ \A p \in Retries(last) : p \in AllPlans
  BY DEF AllPlans, PageInv, RunInv, RunTypes
<1>2. CASE ClickPlan \/ ClickRetry
  BY <1>1, <1>2, ClickInv DEF ClickPlan, ClickRetry
<1>3. ASSUME NEW f \in Frames, TapIdle(f) \/ TapBusy(f) PROVE PageInv'
  BY <1>1, <1>3, ClickInv, TapBusyInv DEF TapIdle
<1>4. CASE Press \/ LetGo \/ ToggleAuto \/ Commit \/ VoiceRuns
  BY <1>4, IdleInv
<1>5. CASE Hold
  BY <1>5, HoldInv
<1>6. CASE Reload \/ Alarm \/ \E f \in Abroad : Mirror(f)
  BY <1>6, MirrorInv
<1>7. ASSUME NEW ps \in Chains, Stack(ps) PROVE PageInv'
  BY <1>7, StackInv
<1>8. CASE RunQueueNow
  BY <1>8, RunQueueNowInv
<1>9. CASE Drain
  BY <1>9, DrainInv
<1>10. CASE Clear
  <2>1. Batches # {}
    <3>1. queue # <<>> /\ queue \in Seq(Batches)
      BY <1>10 DEF Clear, PageInv, RunInv, Lined
    <3> QED
      BY <3>1, HeadTailProperties
  <2> QED
    BY <1>10, <2>1, DrawerInv
<1>11. ASSUME NEW b \in Batches, Remove(b) \/ \E i \in 1 .. Depth : Reorder(b, i) PROVE PageInv'
  BY <1>11, DrawerInv
<1>12. CASE Cancel
  BY <1>12, CancelInv
<1>13. ASSUME NEW b \in Batches, AnswerSome(b) PROVE PageInv'
  BY <1>13, AnswerInv DEF AnswerSome
<1>14. ASSUME NEW b \in Batches, BreakSome(b) PROVE PageInv'
  BY <1>14, BreakInv DEF BreakSome
<1>15. ASSUME NEW b \in Batches, Settle(b) PROVE PageInv'
  BY <1>15, SettleInv
<1> QED
  BY <1>2, <1>3, <1>4, <1>5, <1>6, <1>7, <1>8, <1>9, <1>10, <1>11, <1>12, <1>13, <1>14, <1>15
     DEF PageNext

\* Whatever is clicked, rendered, answered or aborted, the page is in order
\* (the handlers of AgentsOrchestrator.tsx): this
\* is the invariant the others follow from.
THEOREM PageInOrder == PageSpec => []PageInv
<1>1. PageInit => PageInv
  BY PageInitInv
<1>2. PageInv /\ [PageNext]_pageVars => PageInv'
  BY PageSteps, PageStutters
<1> QED
  BY <1>1, <1>2, PTL DEF PageSpec

\* The variables of the page keep their types.
THEOREM PageTypes == PageSpec => []PageTypeOK
<1>1. PageInv => PageTypeOK
  <2> SUFFICES ASSUME PageInv PROVE PageTypeOK
    OBVIOUS
  <2>1. RunTypes /\ OtherTypes /\ queue \in Seq(Batches)
    BY DEF PageInv, RunInv, Lined
  <2>2. \A b \in Batches : /\ run[b].plan \in AllPlans \cup {Unset}
                            /\ run[b].phase \in Phases
                            /\ run[b].bad \subseteq Frames
    BY <2>1, RunsFacts DEF RunTypes
  <2> QED
    BY <2>1, <2>2 DEF RunTypes, OtherTypes, PageTypeOK
<1> QED
  BY <1>1, PageInOrder, PTL

\* At most one run that is not aborted is in progress, and the Cancel button
\* aborts it.
THEOREM OneDriverAlways == PageSpec => []OneDriver
<1>1. PageInv => OneDriver
  BY DEF PageInv, RunInv
<1> QED
  BY <1>1, PageInOrder, PTL

\* Every batch is accounted for: in the queue once while it waits, in the run log
\* once, under its own label, when it has finished.
THEOREM AccountedAlways == PageSpec => []Accounted
<1>1. PageInv => Accounted
  BY DEF PageInv, RunInv, Lined, Distinct, Accounted, QueueKept
<1> QED
  BY <1>1, PageInOrder, PTL

\* The page shows what its runs are: tiles dark at rest, busy while a run goes.
THEOREM PageIsTrueAlways == PageSpec => []PageIsTrue
<1>1. PageInv => PageIsTrue
  BY DEF PageInv, RunInv, Dark, PageIsTrue, DarkAtRest
<1> QED
  BY <1>1, PageInOrder, PTL
===============================================================================
