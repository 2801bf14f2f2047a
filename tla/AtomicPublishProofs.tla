------------------------ MODULE AtomicPublishProofs ------------------------
(***************************************************************************)
(* Proofs about AtomicPublish: its type invariant, and that runs which      *)
(* follow one another over a complete fleet tree publish all files or none. *)
(***************************************************************************)
EXTENDS AtomicPublish, TLAPS

\* What the run under way would leave if it were rolled back.
Own(p, f) == IF backup[p][f] # Absent THEN backup[p][f] ELSE dest[f]

Calm == ~Overlap /\ ~RestoreFails /\ MaxCrashes = 0 /\ PriorSets \subseteq {Files}

-----------------------------------------------------------------------------
(* Type correctness.                                                        *)

LEMMA TypeStep == TypeOK /\ [Next]_vars => TypeOK'
  <1> SUFFICES ASSUME TypeOK, [Next]_vars PROVE TypeOK'
    OBVIOUS
  <1> USE PublishAssumption DEF TypeOK, Tree, Version, Running, Files
  <1>1. CASE UNCHANGED vars
    BY <1>1 DEF vars
  <1>2. ASSUME NEW p \in Publishers, Run(p) \/ Crash(p) \/ Interrupt(p) PROVE TypeOK'
    <2> DEFINE nb == [f \in Files |-> Absent]
    <2>0. nb \in Tree
      OBVIOUS
    <2>1. ASSUME Fail(p) PROVE TypeOK'
      BY <2>0, <2>1 DEF Fail, EndWith, NoBackup
    <2>a. ASSUME NEW phase \in Running, Enter(p, phase),
                 UNCHANGED <<dest, backup, existing, committed, told, last, crashes>>
          PROVE  TypeOK'
      BY <2>a DEF Enter
    <2>2. CASE Start(p)
      BY <2>1, <2>2, <2>a DEF Start
    <2>3. CASE Stage(p)
      BY <2>1, <2>3, <2>a DEF Stage
    <2>4. CASE Look(p)
      <3>1. CASE pos[p] < N
        <4> DEFINE S == IF dest[pos[p] + 1] # Absent
                        THEN existing[p] \cup {pos[p] + 1} ELSE existing[p]
        <4>1. S \in SUBSET Files
          BY <3>1
        <4>2. existing' = [existing EXCEPT ![p] = S] /\ Advance(p)
              /\ UNCHANGED <<pc, dest, backup, committed, told, last, crashes>>
          BY <2>4, <3>1 DEF Look
        <4> HIDE DEF S
        <4> QED BY <3>1, <4>1, <4>2 DEF Advance
      <3>2. CASE ~(pos[p] < N)
        BY <2>4, <3>2, <2>a DEF Look
      <3> QED BY <3>1, <3>2
    <2>5. CASE Snapshot(p)
      <3>1. CASE pos[p] < N /\ Advance(p)
                 /\ backup' = (IF pos[p] + 1 \in existing[p]
                               THEN [backup EXCEPT ![p][pos[p] + 1] = dest[pos[p] + 1]]
                               ELSE backup)
                 /\ UNCHANGED <<dest, pc, existing, committed, told, last, crashes>>
        BY <3>1 DEF Advance
      <3>2. CASE pos[p] = N /\ Enter(p, "committing")
                 /\ UNCHANGED <<dest, backup, existing, committed, told, last, crashes>>
        BY <2>a, <3>2
      <3> QED BY <2>1, <2>5, <3>1, <3>2 DEF Snapshot
    <2>6. CASE Replace(p)
      <3>1. CASE Advance(p) /\ dest' = [dest EXCEPT ![pos[p] + 1] = p] /\ UNCHANGED <<pc, committed>>
        BY <2>6, <3>1 DEF Replace, Advance
      <3>2. CASE /\ Enter(p, "restoring") /\ UNCHANGED dest
                 /\ committed' = [committed EXCEPT ![p] = pos[p]]
        BY <2>6, <3>2 DEF Replace, Enter
      <3> QED BY <2>6, <3>1, <3>2 DEF Replace
    <2>7. CASE Succeed(p)
      BY <2>0, <2>7 DEF Succeed, EndWith, NoBackup
    <2>8. CASE Restore(p)
      <3> DEFINE f == pos[p] + 1
      <3>1. CASE /\ f <= committed[p]
                 /\ IF backup[p][f] # Absent
                    THEN /\ dest' = [dest EXCEPT ![f] = backup[p][f]]
                         /\ backup' = [backup EXCEPT ![p][f] = Absent]
                    ELSE UNCHANGED <<dest, backup>>
                 /\ Advance(p)
                 /\ UNCHANGED <<pc, existing, committed, told, last, crashes>>
        <4>1. f \in Files
          BY <3>1
        <4> HIDE DEF f
        <4>2. dest' \in Tree /\ backup' \in [Publishers -> Tree]
          <5>1. CASE backup[p][f] # Absent
            <6> DEFINE b == [backup[p] EXCEPT ![f] = Absent]
            <6>1. b \in Tree
              BY <4>1
            <6>2. backup' = [backup EXCEPT ![p] = b]
              BY <3>1, <5>1
            <6>3. dest' \in Tree
              BY <3>1, <4>1, <5>1
            <6> HIDE DEF b
            <6> QED BY <6>1, <6>2, <6>3
          <5> QED BY <3>1, <5>1
        <4>3. pos' \in [Publishers -> 0 .. N]
          BY <3>1 DEF Advance, f
        <4> QED BY <3>1, <4>2, <4>3
      <3> QED BY <2>1, <2>8, <3>1 DEF Restore
    <2>9. CASE Crash(p)
      BY <2>9 DEF Crash
    <2>10. CASE Interrupt(p)
      BY <2>0, <2>10 DEF Interrupt, EndWith, NoBackup
    <2> QED BY <1>2, <2>2, <2>3, <2>4, <2>5, <2>6, <2>7, <2>8, <2>9, <2>10 DEF Run
  <1> QED BY <1>1, <1>2 DEF Next

\* Every variable keeps its type, however runs of publish_atomic overlap and
\* die.
THEOREM TypeCorrect == Spec => []TypeOK
  <1>1. Init => TypeOK
    BY PublishAssumption
    DEF Init, TypeOK, Tree, Version, Running, Files, NoBackup
  <1> QED BY <1>1, TypeStep, PTL DEF Spec

\* No step of any run, overlapping, dying or rolling back, takes a file away.
THEOREM NeverMissing == Spec => FilesStay
  <1>1. TypeOK /\ [Next]_vars => [\A f \in Files : dest[f] # Absent => dest'[f] # Absent]_vars
    <2> SUFFICES ASSUME TypeOK, [Next]_vars, NEW f \in Files, dest[f] # Absent
                 PROVE  dest'[f] # Absent
      BY DEF vars
    <2> USE PublishAssumption DEF TypeOK, Tree
    <2>1. CASE dest' = dest
      BY <2>1
    <2>2. ASSUME NEW p \in Publishers, NEW g \in Files, NEW v, v # Absent,
                 dest' = [dest EXCEPT ![g] = v]
          PROVE  dest'[f] # Absent
      BY <2>2
    <2>3. ASSUME NEW p \in Publishers, Replace(p) PROVE dest'[f] # Absent
      <3>1. pos[p] + 1 \in Files
        BY <2>3 DEF Replace, Files
      <3>2. dest' = dest \/ dest' = [dest EXCEPT ![pos[p] + 1] = p]
        BY <2>3 DEF Replace
      <3>3. p # Absent
        OBVIOUS
      <3> QED BY <2>1, <2>2, <3>1, <3>2, <3>3
    <2>4. ASSUME NEW p \in Publishers, Restore(p) PROVE dest'[f] # Absent
      <3> DEFINE g == pos[p] + 1
      <3>1. dest' = dest \/ (g <= committed[p] /\ backup[p][g] # Absent
                             /\ dest' = [dest EXCEPT ![g] = backup[p][g]])
        BY <2>4 DEF Restore, Fail
      <3>2. g <= committed[p] => g \in Files
        BY DEF Files
      <3> HIDE DEF g
      <3> QED BY <2>1, <2>2, <3>1, <3>2
    <2>5. ASSUME NEW p \in Publishers,
                 \/ Start(p) \/ Stage(p) \/ Look(p) \/ Snapshot(p) \/ Succeed(p)
                 \/ Crash(p) \/ Interrupt(p)
          PROVE  dest' = dest
      BY <2>5 DEF Start, Stage, Look, Snapshot, Succeed, Crash, Interrupt, Fail
    <2> QED BY <2>1, <2>3, <2>4, <2>5 DEF Next, Run, vars
  <1> QED BY <1>1, TypeCorrect, PTL DEF Spec, FilesStay

-----------------------------------------------------------------------------
(* The inductive invariant of runs that follow one another.                 *)

OneRuns == \A p, q \in Publishers : pc[p] \in Running /\ pc[q] \in Running => p = q

CompleteInv == \A f \in Files : dest[f] # Absent

\* What a run knows at each stage, and that its backups complete the tree.
RunInv(p) ==
    /\ pc[p] \in {"idle", "staging", "looking", "ended"} => backup[p] = NoBackup
    /\ pc[p] \in {"idle", "staging"} => existing[p] = {}
    /\ pc[p] = "looking" => existing[p] = 1 .. pos[p]
    /\ pc[p] \in {"copying", "committing", "restoring"} => existing[p] = Files
    /\ pc[p] = "copying" =>
          \A f \in Files : backup[p][f] = IF f <= pos[p] THEN dest[f] ELSE Absent
    /\ pc[p] = "committing" =>
          \A f \in Files :
              /\ backup[p][f] # Absent
              /\ dest[f] = IF f <= pos[p] THEN p ELSE backup[p][f]
    /\ pc[p] = "restoring" =>
          \A f \in Files :
              /\ backup[p][f] = Absent <=> f <= pos[p]
              /\ f > committed[p] => dest[f] = backup[p][f]
              /\ pos[p] <= committed[p]
    /\ told[p] = "none" <=> pc[p] # "ended"
    /\ pc[p] # "dead"

Inv ==
    /\ TypeOK
    /\ crashes = 0
    /\ OneRuns
    /\ CompleteInv
    /\ \A p \in Publishers : RunInv(p)

LEMMA InitInv == ASSUME Calm PROVE Init => Inv
  <1> SUFFICES ASSUME Init PROVE Inv
    OBVIOUS
  <1>1. TypeOK
    BY PublishAssumption DEF Init, TypeOK, Tree, Version, Running, Files, NoBackup
  <1>2. dest = [f \in Files |-> Prior]
    BY DEF Init, Calm
  <1> QED BY <1>1, <1>2, PublishAssumption
          DEF Init, Inv, OneRuns, CompleteInv, RunInv, Running

\* The shape of a step of p as far as the other runs are concerned.
OnlyMoves(p) ==
    \A q \in Publishers : q # p =>
        /\ pc'[q] = pc[q] /\ pos'[q] = pos[q] /\ existing'[q] = existing[q]
        /\ backup'[q] = backup[q] /\ told'[q] = told[q] /\ committed'[q] = committed[q]

LEMMA RunMoves ==
    ASSUME TypeOK, NEW p \in Publishers, Run(p)
    PROVE  OnlyMoves(p) /\ UNCHANGED crashes
  <1> USE DEF TypeOK, OnlyMoves
  <1>1. ASSUME Fail(p) PROVE OnlyMoves(p) /\ UNCHANGED crashes
    BY <1>1 DEF Fail, EndWith
  <1>2. CASE Start(p)
    BY <1>1, <1>2 DEF Start, Enter
  <1>3. CASE Stage(p)
    BY <1>1, <1>3 DEF Stage, Enter
  <1>4. CASE Look(p)
    BY <1>4 DEF Look, Enter, Advance
  <1>5. CASE Snapshot(p)
    BY <1>1, <1>5 DEF Snapshot, Enter, Advance
  <1>6. CASE Replace(p)
    BY <1>6 DEF Replace, Enter, Advance
  <1>7. CASE Succeed(p)
    BY <1>7 DEF Succeed, EndWith
  <1>8. CASE Restore(p)
    BY <1>1, <1>8 DEF Restore, Advance
  <1> QED BY <1>2, <1>3, <1>4, <1>5, <1>6, <1>7, <1>8 DEF Run

\* The other runs are over or have not begun: their backups are empty.
Alone(p) == \A q \in Publishers : q # p => pc[q] \notin Running /\ backup[q] = NoBackup

LEMMA StepAlone ==
    ASSUME Calm, Inv, NEW p \in Publishers, Run(p)
    PROVE  /\ Alone(p) /\ OnlyMoves(p) /\ crashes' = 0
           /\ pc[p] \notin {"ended", "dead"}
  <1> USE PublishAssumption DEF Inv, TypeOK
  <1>1. Alone(p)
    <2>1. CASE Start(p)
      BY <2>1 DEF Start, Alone, Calm, RunInv, Running
    <2>2. CASE pc[p] \in Running
      BY <2>2 DEF OneRuns, Alone, RunInv, Running
    <2> QED BY <2>1, <2>2 DEF Run, Stage, Look, Snapshot, Replace, Succeed, Restore, Running
  <1>2. pc[p] \notin {"ended", "dead"}
    BY DEF Run, Start, Stage, Look, Snapshot, Replace, Succeed, Restore
  <1>3. OnlyMoves(p) /\ crashes' = 0
    BY RunMoves
  <1> QED BY <1>1, <1>2, <1>3

\* What a step of p does to the tree and to the rollback of p.
Harmless(p) ==
    /\ RunInv(p)'
    /\ CompleteInv'
    /\ \A f \in Files : Own(p, f)' = Own(p, f)
    /\ told'[p] \in {"none", "failed"}

LEMMA FailStep ==
    ASSUME Calm, Inv, NEW p \in Publishers, Fail(p),
           \/ pc[p] \in {"idle", "staging", "copying"}
           \/ pc[p] = "restoring" /\ pos[p] + 1 > committed[p]
    PROVE  Harmless(p) /\ told'[p] = "failed"
  <1> USE PublishAssumption DEF Inv, TypeOK
  <1>1. pc'[p] = "ended" /\ told'[p] = "failed" /\ backup'[p] = NoBackup /\ dest' = dest
    BY DEF Fail, EndWith
  <1>2. RunInv(p)' /\ CompleteInv'
    BY <1>1 DEF RunInv, CompleteInv
  <1>3. ASSUME NEW f \in Files PROVE Own(p, f)' = Own(p, f)
    <2>1. backup'[p][f] = Absent
      BY <1>1 DEF NoBackup
    <2>2. backup[p][f] = Absent \/ backup[p][f] = dest[f]
      BY DEF RunInv, NoBackup, Files
    <2> QED BY <1>1, <2>1, <2>2 DEF Own
  <1> QED BY <1>1, <1>2, <1>3 DEF Harmless

LEMMA RunStep ==
    ASSUME Calm, Inv, NEW p \in Publishers, Run(p), TypeOK'
    PROVE  \/ Harmless(p)
           \/ /\ Succeed(p)
              /\ RunInv(p)' /\ CompleteInv' /\ told'[p] = "ok"
              /\ \A f \in Files : Own(p, f)' = p
  <1> USE PublishAssumption
  <1>1. /\ RunInv(p) /\ CompleteInv
        /\ dest \in Tree /\ backup \in [Publishers -> Tree]
        /\ pc \in [Publishers -> Running \cup {"idle", "ended", "dead"}]
        /\ pos \in [Publishers -> 0 .. N] /\ committed \in [Publishers -> 0 .. N]
        /\ existing \in [Publishers -> SUBSET Files]
        /\ told \in [Publishers -> {"none", "ok", "failed", "interrupted"}]
        /\ N \in Nat \ {0}
    BY DEF Inv, TypeOK
  <1>0. pos'[p] \in 0 .. N
    BY DEF TypeOK
  <1>2. ASSUME NEW phase \in {"staging"}, Enter(p, phase), pc[p] = "idle",
               UNCHANGED <<dest, backup, existing, committed, told>>
        PROVE  Harmless(p)
    BY <1>1, <1>2 DEF Enter, Harmless, RunInv, CompleteInv, Own
  <1>3. CASE Start(p)
    BY <1>1, <1>2, <1>3, FailStep DEF Start
  <1>4. CASE Stage(p)
    <2>1. CASE Fail(p)
      BY <1>1, <1>4, <2>1, FailStep DEF Stage
    <2>2. CASE Enter(p, "looking") /\ UNCHANGED <<dest, backup, existing, committed, told>>
      <3>1. pc'[p] = "looking" /\ pos'[p] = 0 /\ existing'[p] = {}
            /\ backup'[p] = NoBackup /\ told'[p] = "none"
        BY <1>1, <1>4, <2>2 DEF Stage, Enter, RunInv
      <3>2. 1 .. 0 = {}
        OBVIOUS
      <3> QED BY <1>1, <2>2, <3>1, <3>2 DEF Harmless, RunInv, CompleteInv, Own
    <2> QED BY <1>1, <1>4, <2>1, <2>2 DEF Stage
  <1>5. CASE Look(p)
    <2>1. /\ dest' = dest /\ backup' = backup /\ told' = told
          /\ pc[p] = "looking" /\ told[p] = "none" /\ existing[p] = 1 .. pos[p]
          /\ backup[p] = NoBackup /\ pos[p] \in Nat
      BY <1>1, <1>5 DEF Look, RunInv
    <2>2. CASE pos[p] < N
      <3>1. pos[p] + 1 \in Files
        BY <1>1, <2>2 DEF Files
      <3>2. existing'[p] = existing[p] \cup {pos[p] + 1} /\ pc'[p] = "looking"
            /\ pos'[p] = pos[p] + 1
        BY <1>1, <1>5, <2>1, <2>2, <3>1 DEF Look, Advance, CompleteInv
      <3>3. existing'[p] = 1 .. pos'[p]
        BY <1>1, <2>1, <3>2
      <3> QED BY <1>1, <2>1, <3>2, <3>3 DEF Harmless, RunInv, CompleteInv, Own
    <2>3. CASE ~(pos[p] < N)
      <3>1. pc'[p] = "copying" /\ pos'[p] = 0 /\ existing'[p] = Files
        BY <1>1, <1>5, <2>1, <2>3 DEF Look, Enter, Files
      <3> QED BY <1>1, <2>1, <3>1 DEF Harmless, RunInv, CompleteInv, Own, NoBackup, Files
    <2> QED BY <1>1, <2>2, <2>3
  <1>6. CASE Snapshot(p)
    <2> DEFINE g == pos[p] + 1
    <2>1. /\ pc[p] = "copying" /\ told[p] = "none" /\ existing[p] = Files
          /\ \A f \in Files : backup[p][f] = IF f <= pos[p] THEN dest[f] ELSE Absent
      BY <1>1, <1>6 DEF Snapshot, RunInv
    <2>2. CASE Fail(p)
      BY <1>1, <2>1, <2>2, FailStep
    <2>3. CASE /\ pos[p] < N
               /\ backup' = (IF g \in existing[p]
                             THEN [backup EXCEPT ![p][g] = dest[g]] ELSE backup)
               /\ Advance(p)
               /\ UNCHANGED <<dest, pc, existing, committed, told, last, crashes>>
      <3>1. g \in Files /\ pos'[p] = g
        BY <1>1, <2>3 DEF Files, Advance
      <3> DEFINE b == [backup[p] EXCEPT ![g] = dest[g]]
      <3>2. backup' = [backup EXCEPT ![p] = b]
        BY <1>1, <2>1, <2>3, <3>1
      <3>3. \A f \in Files : backup'[p][f] = IF f <= g THEN dest[f] ELSE Absent
        <4>1. backup'[p] = b
          BY <1>1, <3>2
        <4>2. \A f \in Files : b[f] = IF f <= g THEN dest[f] ELSE Absent
          BY <1>1, <2>1, <3>1 DEF Tree, Files
        <4> HIDE DEF b
        <4> QED BY <4>1, <4>2
      <3>5. \A f \in Files : backup'[p][f] = IF f <= pos'[p] THEN dest'[f] ELSE Absent
        BY <2>3, <3>1, <3>3
      <3>6. \A f \in Files : Own(p, f)' = dest[f] /\ Own(p, f) = dest[f]
        BY <1>1, <2>1, <2>3, <3>5 DEF Own
      <3> QED BY <1>1, <2>1, <2>3, <3>5, <3>6 DEF Harmless, RunInv, CompleteInv
    <2>4. CASE pos[p] = N /\ Enter(p, "committing")
               /\ UNCHANGED <<dest, backup, existing, committed, told, last, crashes>>
      <3>1. pc'[p] = "committing" /\ pos'[p] = 0
        BY <1>1, <2>4 DEF Enter
      <3>2. \A f \in Files : backup[p][f] = dest[f] /\ dest[f] # Absent
                             /\ ~(f <= 0)
        BY <1>1, <2>1, <2>4 DEF Files, CompleteInv
      <3> QED BY <1>1, <2>1, <2>4, <3>1, <3>2 DEF Harmless, RunInv, CompleteInv, Own
    <2> QED BY <1>1, <1>6, <2>2, <2>3, <2>4 DEF Snapshot
  <1>7. CASE Replace(p)
    <2> DEFINE g == pos[p] + 1
    <2>1. /\ pc[p] = "committing" /\ told[p] = "none" /\ existing[p] = Files
          /\ g \in Files
          /\ \A f \in Files : /\ backup[p][f] # Absent
                              /\ dest[f] = IF f <= pos[p] THEN p ELSE backup[p][f]
          /\ backup' = backup /\ existing' = existing /\ told' = told
      BY <1>1, <1>7 DEF Replace, RunInv, Files
    <2>2. \A f \in Files : Own(p, f)' = Own(p, f)
      BY <1>1, <2>1 DEF Own
    <2>3. CASE dest' = [dest EXCEPT ![g] = p] /\ Advance(p) /\ UNCHANGED pc
      <3>1. pos'[p] = g /\ pc'[p] = "committing"
        BY <1>1, <2>1, <2>3 DEF Advance
      <3>2. \A f \in Files : dest'[f] = IF f <= pos'[p] THEN p ELSE backup[p][f]
        BY <1>1, <2>1, <2>3, <3>1 DEF Tree, Files
      <3> QED BY <1>1, <2>1, <2>2, <3>1, <3>2 DEF Harmless, RunInv, CompleteInv
    <2>4. CASE Enter(p, "restoring") /\ committed' = [committed EXCEPT ![p] = pos[p]]
               /\ UNCHANGED dest
      <3>1. pos'[p] = 0 /\ pc'[p] = "restoring" /\ committed'[p] = pos[p]
        BY <1>1, <2>4 DEF Enter
      <3>2. \A f \in Files : ~(f <= 0) /\ (f > pos[p] <=> ~(f <= pos[p])) /\ 0 <= pos[p]
        BY <1>1 DEF Files
      <3> QED BY <1>1, <2>1, <2>2, <2>4, <3>1, <3>2 DEF Harmless, RunInv, CompleteInv
    <2> QED BY <1>1, <1>7, <2>3, <2>4 DEF Replace
  <1>8. CASE Succeed(p)
    <2>1. /\ pc'[p] = "ended" /\ told'[p] = "ok" /\ backup'[p] = NoBackup
          /\ dest' = dest
      BY <1>1, <1>8 DEF Succeed, EndWith
    <2>2. \A f \in Files : dest[f] = p
      BY <1>1, <1>8 DEF Succeed, RunInv, Files
    <2> QED BY <1>1, <1>8, <2>1, <2>2 DEF RunInv, CompleteInv, Own, NoBackup
  <1>9. CASE Restore(p)
    <2> DEFINE g == pos[p] + 1
    <2>1. /\ pc[p] = "restoring" /\ told[p] = "none" /\ existing[p] = Files
          /\ \A f \in Files : /\ backup[p][f] = Absent <=> f <= pos[p]
                              /\ f > committed[p] => dest[f] = backup[p][f]
                              /\ pos[p] <= committed[p]
      BY <1>1, <1>9 DEF Restore, RunInv
    <2>2. CASE g > committed[p] /\ Fail(p)
      BY <1>1, <2>1, <2>2, FailStep
    <2>3. CASE /\ g <= committed[p]
               /\ IF backup[p][g] # Absent
                  THEN /\ dest' = [dest EXCEPT ![g] = backup[p][g]]
                       /\ backup' = [backup EXCEPT ![p][g] = Absent]
                  ELSE UNCHANGED <<dest, backup>>
               /\ Advance(p)
               /\ UNCHANGED <<pc, existing, committed, told, last, crashes>>
      <3>1. g \in Files /\ pos'[p] = g /\ backup[p][g] # Absent /\ pc'[p] = "restoring"
        BY <1>1, <2>1, <2>3 DEF Files, Advance
      <3> DEFINE b == [backup[p] EXCEPT ![g] = Absent]
      <3>2. backup' = [backup EXCEPT ![p] = b]
        BY <1>1, <2>3, <3>1
      <3>3. \A f \in Files : backup'[p][f] = IF f = g THEN Absent ELSE backup[p][f]
        <4>1. backup'[p] = b
          BY <1>1, <3>2
        <4>2. \A f \in Files : b[f] = IF f = g THEN Absent ELSE backup[p][f]
          BY <1>1, <3>1 DEF Tree
        <4> HIDE DEF b
        <4> QED BY <4>1, <4>2
      <3>5. \A f \in Files : dest'[f] = IF f = g THEN backup[p][g] ELSE dest[f]
        BY <1>1, <2>3, <3>1 DEF Tree
      <3>6. \A f \in Files : backup'[p][f] = Absent <=> f <= pos'[p]
        <4> SUFFICES ASSUME NEW f \in Files PROVE backup'[p][f] = Absent <=> f <= pos'[p]
          OBVIOUS
        <4>1. f <= g <=> f <= pos[p] \/ f = g
          BY <1>1 DEF Files
        <4> QED BY <2>1, <3>1, <3>3, <4>1
      <3>7. \A f \in Files : f > committed[p] => dest'[f] = backup'[p][f]
        <4> SUFFICES ASSUME NEW f \in Files, f > committed[p] PROVE dest'[f] = backup'[p][f]
          OBVIOUS
        <4>1. f # g
          BY <1>1, <2>3 DEF Files
        <4> QED BY <2>1, <3>3, <3>5, <4>1
      <3>8. \A f \in Files : Own(p, f)' = Own(p, f)
        BY <1>1, <3>1, <3>3, <3>5 DEF Own
      <3>9. CompleteInv'
        BY <1>1, <3>1, <3>5 DEF CompleteInv
      <3> QED BY <1>1, <2>1, <2>3, <3>1, <3>6, <3>7, <3>8, <3>9 DEF Harmless, RunInv
    <2> QED BY <1>1, <1>9, <2>2, <2>3 DEF Restore, Calm
  <1> QED BY <1>1, <1>3, <1>4, <1>5, <1>6, <1>7, <1>8, <1>9 DEF Run

LEMMA InvStep == ASSUME Calm, Inv, [Next]_vars PROVE Inv'
  <1>0. TypeOK'
    BY TypeStep DEF Inv
  <1>1. CASE UNCHANGED vars
    BY <1>0, <1>1 DEF vars, Inv, OneRuns, CompleteInv, RunInv
  <1>2. ASSUME NEW p \in Publishers, Crash(p) \/ Interrupt(p) PROVE FALSE
    BY <1>2 DEF Crash, Interrupt, Calm, Inv
  <1>3. ASSUME NEW p \in Publishers, Run(p) PROVE Inv'
    <2>1. RunInv(p)' /\ CompleteInv'
      BY <1>0, <1>3, RunStep DEF Harmless
    <2>2. Alone(p) /\ OnlyMoves(p) /\ crashes' = 0
      BY <1>3, StepAlone
    <2>3. ASSUME NEW q \in Publishers, q # p PROVE RunInv(q)' /\ pc'[q] \notin Running
      <3>1. RunInv(q) /\ pc[q] \notin Running
        BY <2>2, <2>3 DEF Inv, Alone
      <3>2. /\ pc'[q] = pc[q] /\ pos'[q] = pos[q] /\ existing'[q] = existing[q]
            /\ backup'[q] = backup[q] /\ told'[q] = told[q] /\ committed'[q] = committed[q]
        BY <2>2, <2>3 DEF OnlyMoves
      <3> QED BY <3>1, <3>2 DEF RunInv, Running
    <2>4. OneRuns'
      BY <2>3 DEF OneRuns
    <2> QED BY <1>0, <2>1, <2>2, <2>3, <2>4 DEF Inv
  <1> QED BY <1>1, <1>2, <1>3 DEF Next

-----------------------------------------------------------------------------
(* The refinement.                                                          *)

\* If only p may hold backups, a rollback is p's.
LEMMA RolledBackIsOwn ==
    ASSUME NEW b, NEW d, NEW p \in Publishers, NEW f \in Files,
           \A q \in Publishers : q # p => b[q][f] = Absent
    PROVE  (IF \E q \in Publishers : b[q][f] # Absent
            THEN b[CHOOSE q \in Publishers : b[q][f] # Absent][f] ELSE d[f])
           = IF b[p][f] # Absent THEN b[p][f] ELSE d[f]
  <1>1. CASE b[p][f] # Absent
    <2>1. (CHOOSE q \in Publishers : b[q][f] # Absent) = p
      BY <1>1
    <2> QED BY <1>1, <2>1
  <1>2. CASE b[p][f] = Absent
    BY <1>2
  <1> QED BY <1>1, <1>2

\* Runs of publish_atomic that follow one another over a complete fleet tree
\* and do not die change all three files or none, and tell their caller which:
\* whatever file operation fails, short of a rename in the rollback itself.
THEOREM PublishesAllOrNothing ==
    ASSUME Calm PROVE Spec => ImplementsAllOrNothing
  <1>1. Init => Whole!Init
    <2> SUFFICES ASSUME Init PROVE Whole!Init
      OBVIOUS
    <2>1. dest = [f \in Files |-> Prior]
      BY DEF Init, Calm
    <2>2. \A f \in Files : RolledBack(f) = Prior
      BY <2>1 DEF Init, RolledBack, NoBackup
    <2> QED BY <2>2 DEF Init, Whole!Init
  <1>2. Inv /\ [Next]_vars => [Whole!Next]_(Whole!vars)
    <2> SUFFICES ASSUME Inv, [Next]_vars PROVE [Whole!Next]_(Whole!vars)
      OBVIOUS
    <2>1. CASE UNCHANGED vars
      BY <2>1 DEF vars, Whole!vars, RolledBack
    <2>2. ASSUME NEW p \in Publishers, Crash(p) \/ Interrupt(p) PROVE FALSE
      BY <2>2 DEF Crash, Interrupt, Calm, Inv
    <2>3. ASSUME NEW p \in Publishers, Run(p) PROVE [Whole!Next]_(Whole!vars)
      <3>1. TypeOK'
        BY TypeStep DEF Inv
      <3>2. Alone(p) /\ OnlyMoves(p) /\ told[p] = "none"
        BY <2>3, StepAlone DEF Inv, RunInv
      <3>3. ASSUME NEW f \in Files
            PROVE  RolledBack(f) = Own(p, f) /\ RolledBack(f)' = Own(p, f)'
        <4>1. \A q \in Publishers : q # p => backup[q][f] = Absent /\ backup'[q][f] = Absent
          BY <3>2 DEF Alone, OnlyMoves, NoBackup
        <4> QED BY <4>1, RolledBackIsOwn DEF RolledBack, Own
      <3>4. told' = [told EXCEPT ![p] = told'[p]]
        BY <3>1, <3>2 DEF OnlyMoves, Inv, TypeOK
      <3>5. CASE Harmless(p)
        <4>1. [f \in Files |-> RolledBack(f)]' = [f \in Files |-> RolledBack(f)]
          BY <3>3, <3>5 DEF Harmless
        <4>2. CASE told'[p] = "none"
          <5>1. told' = told
            BY <3>2, <3>4, <4>2 DEF Inv, TypeOK
          <5> QED BY <4>1, <5>1 DEF Whole!vars
        <4>3. CASE told'[p] = "failed"
          BY <3>2, <3>4, <4>1, <4>3 DEF Whole!Next, Whole!Fail
        <4> QED BY <3>5, <4>2, <4>3 DEF Harmless
      <3>6. CASE told'[p] = "ok" /\ \A f \in Files : Own(p, f)' = p
        <4>1. [f \in Files |-> RolledBack(f)]' = [f \in Files |-> p]
          BY <3>3, <3>6
        <4> QED BY <3>2, <3>4, <3>6, <4>1 DEF Whole!Next, Whole!Publish
      <3> QED BY <2>3, <3>1, <3>5, <3>6, RunStep
    <2> QED BY <2>1, <2>2, <2>3 DEF Next
  <1> QED BY <1>1, <1>2, InitInv, InvStep, PTL DEF Spec, ImplementsAllOrNothing, Whole!Spec

-----------------------------------------------------------------------------
(* Runs that follow one another and may die or be interrupted, over any     *)
(* tree.                                                                    *)

\* What a run knows at each stage of the files it found: before it replaces a
\* file its backup holds the same version, and a file it replaced is its own
\* until the backup is back in place.
KeptInv(p) ==
    /\ pc[p] \in {"idle", "staging", "looking"} => backup[p] = NoBackup
    /\ pc[p] \in {"idle", "staging"} => existing[p] = {}
    /\ pc[p] = "looking" =>
          \A f \in Files : f \in existing[p] <=> f <= pos[p] /\ dest[f] # Absent
    /\ pc[p] = "copying" =>
          \A f \in Files :
              /\ f \in existing[p] <=> dest[f] # Absent
              /\ backup[p][f] = IF f <= pos[p] THEN dest[f] ELSE Absent
    /\ pc[p] = "committing" =>
          \A f \in Files : IF f <= pos[p] THEN dest[f] = p ELSE backup[p][f] = dest[f]
    /\ pc[p] = "restoring" =>
          /\ pos[p] <= committed[p]
          /\ \A f \in Files :
                /\ f <= pos[p] => backup[p][f] = Absent
                /\ f > pos[p] /\ f <= committed[p] => dest[f] = p
                /\ f > committed[p] => backup[p][f] = dest[f]
    /\ told[p] \in {"ok", "interrupted"} => pc[p] = "ended"

\* A version is the last good one only if its run was told so.
GoodLast == \A f \in Files : last[f] \in Publishers => told[last[f]] = "ok"

Held(f) ==
    \/ OnDisk(f, last[f])
    \/ \E q \in Publishers : told[q] = "interrupted" /\ OnDisk(f, q)

KInv ==
    /\ TypeOK
    /\ OneRuns
    /\ \A p \in Publishers : KeptInv(p)
    /\ GoodLast
    /\ \A f \in Files : last[f] # Absent => Held(f)

LEMMA InitKInv == Init => KInv
  <1> SUFFICES ASSUME Init PROVE KInv
    OBVIOUS
  <1>1. TypeOK
    BY PublishAssumption DEF Init, TypeOK, Tree, Version, Running, Files, NoBackup
  <1>2. OneRuns /\ \A p \in Publishers : KeptInv(p)
    BY DEF Init, OneRuns, KeptInv, Running
  <1>3. GoodLast /\ \A f \in Files : last[f] # Absent => Held(f)
    BY PublishAssumption DEF Init, GoodLast, Held, OnDisk
  <1> QED BY <1>1, <1>2, <1>3 DEF KInv

\* A version of a file survives a step of p that leaves it in place, copies it,
\* puts it back, or replaces another one.
LEMMA StillOnDisk ==
    ASSUME NEW p \in Publishers, NEW f \in Files, NEW v, OnlyMoves(p), OnDisk(f, v),
           \/ dest'[f] = dest[f] /\ backup'[p][f] = backup[p][f]
           \/ dest'[f] = dest[f] /\ backup[p][f] \in {Absent, dest[f]}
           \/ backup'[p][f] = dest[f] /\ backup[p][f] = dest[f]
           \/ dest'[f] = backup[p][f] /\ dest[f] # v,
           v # Absent
    PROVE  OnDisk(f, v)'
  <1>1. ASSUME NEW q \in Publishers, q # p, backup[q][f] = v PROVE OnDisk(f, v)'
    BY <1>1 DEF OnlyMoves, OnDisk
  <1>2. CASE dest[f] = v \/ backup[p][f] = v
    BY <1>2 DEF OnDisk
  <1> QED BY <1>1, <1>2 DEF OnDisk

\* So a file that is held stays so: a version of p's own is neither a last one
\* nor that of an interrupted run before p has ended.
LEMMA StillHeld ==
    ASSUME NEW p \in Publishers, NEW f \in Files, OnlyMoves(p), last' = last, Held(f),
           told[p] # "interrupted",
           \/ dest'[f] = dest[f] /\ backup'[p][f] = backup[p][f]
           \/ dest'[f] = dest[f] /\ backup[p][f] \in {Absent, dest[f]}
           \/ backup'[p][f] = dest[f] /\ backup[p][f] = dest[f]
           \/ dest'[f] = backup[p][f] /\ dest[f] = p /\ p # last[f],
           last[f] # Absent
    PROVE  Held(f)'
  <1>1. CASE OnDisk(f, last[f])
    BY <1>1, StillOnDisk DEF Held, OnDisk
  <1>2. ASSUME NEW q \in Publishers, told[q] = "interrupted", OnDisk(f, q) PROVE Held(f)'
    <2>1. q # p /\ q # Absent
      BY <1>2, PublishAssumption
    <2>2. OnDisk(f, q)'
      BY <1>2, <2>1, StillOnDisk
    <2> QED BY <1>2, <2>1, <2>2 DEF Held, OnlyMoves
  <1> QED BY <1>1, <1>2 DEF Held

\* What a step of p does to its own knowledge and to the last good files.
KeptStep(p) ==
    /\ KeptInv(p)'
    /\ GoodLast'
    /\ \A f \in Files : last'[f] # Absent => Held(f)'

LEMMA KeptFail ==
    ASSUME KInv, NEW p \in Publishers, Fail(p), OnlyMoves(p), pc[p] # "ended",
           \A f \in Files : backup[p][f] \in {Absent, dest[f]}
    PROVE  KeptStep(p)
  <1> USE PublishAssumption
  <1>1. /\ pc'[p] = "ended" /\ told'[p] = "failed"
        /\ dest' = dest /\ last' = last
    BY DEF Fail, EndWith, KInv, TypeOK
  <1>2. KeptInv(p)'
    BY <1>1 DEF KeptInv
  <1>3. GoodLast'
    BY <1>1 DEF GoodLast, OnlyMoves, KInv, KeptInv
  <1>4. told[p] # "interrupted"
    BY DEF KInv, KeptInv
  <1>5. \A f \in Files : last'[f] # Absent => Held(f)'
    BY <1>1, <1>4, StillHeld DEF KInv
  <1> QED BY <1>2, <1>3, <1>5 DEF KeptStep

LEMMA KeptRun ==
    ASSUME ~RestoreFails, KInv, NEW p \in Publishers, Run(p), TypeOK'
    PROVE  KeptStep(p)
  <1> USE PublishAssumption
  <1>1. /\ KeptInv(p) /\ GoodLast
        /\ dest \in Tree /\ backup \in [Publishers -> Tree]
        /\ pc \in [Publishers -> Running \cup {"idle", "ended", "dead"}]
        /\ pos \in [Publishers -> 0 .. N] /\ committed \in [Publishers -> 0 .. N]
        /\ existing \in [Publishers -> SUBSET Files]
        /\ told \in [Publishers -> {"none", "ok", "failed", "interrupted"}]
        /\ \A f \in Files : last[f] # Absent => Held(f)
        /\ N \in Nat \ {0}
    BY DEF KInv, TypeOK
  <1>0. pos'[p] \in 0 .. N /\ OnlyMoves(p)
    BY RunMoves DEF TypeOK, KInv
  <1>a. told[p] # "interrupted"
    BY <1>1 DEF KeptInv, Run, Start, Stage, Look, Snapshot, Replace, Succeed, Restore
  \* Steps that change neither a file nor what anyone was told.
  <1>2. ASSUME dest' = dest, last' = last, told' = told, KeptInv(p)',
               \A f \in Files :
                  backup'[p][f] = backup[p][f] \/ backup[p][f] \in {Absent, dest[f]}
        PROVE  KeptStep(p)
    BY <1>0, <1>1, <1>2, <1>a, StillHeld DEF KeptStep, GoodLast
  <1>3. CASE Start(p)
    <2>1. CASE Fail(p)
      BY <1>0, <1>1, <1>3, <2>1, KeptFail DEF Start, KeptInv, NoBackup
    <2>2. CASE Enter(p, "staging") /\ UNCHANGED <<dest, backup, existing, committed, told, last>>
      <3>1. pc'[p] = "staging"
        BY <1>1, <2>2 DEF Enter
      <3> QED BY <1>1, <1>2, <1>3, <2>2, <3>1 DEF Start, KeptInv
    <2> QED BY <1>3, <2>1, <2>2 DEF Start
  <1>4. CASE Stage(p)
    <2>1. CASE Fail(p)
      BY <1>0, <1>1, <1>4, <2>1, KeptFail DEF Stage, KeptInv, NoBackup
    <2>2. CASE Enter(p, "looking") /\ UNCHANGED <<dest, backup, existing, committed, told, last>>
      <3>1. pc'[p] = "looking" /\ pos'[p] = 0
        BY <1>1, <2>2 DEF Enter
      <3>2. \A f \in Files : ~(f <= 0)
        BY DEF Files
      <3> QED BY <1>1, <1>2, <1>4, <2>2, <3>1, <3>2 DEF Stage, KeptInv
    <2> QED BY <1>4, <2>1, <2>2 DEF Stage
  <1>5. CASE Look(p)
    <2>1. /\ dest' = dest /\ backup' = backup /\ told' = told /\ last' = last
          /\ pc[p] = "looking" /\ told[p] \notin {"ok", "interrupted"} /\ backup[p] = NoBackup
          /\ \A f \in Files : f \in existing[p] <=> f <= pos[p] /\ dest[f] # Absent
      BY <1>1, <1>5 DEF Look, KeptInv
    <2>2. CASE pos[p] < N
      <3> DEFINE g == pos[p] + 1
      <3>1. g \in Files /\ pos'[p] = g /\ pc'[p] = "looking"
            /\ existing'[p] = IF dest[g] # Absent THEN existing[p] \cup {g} ELSE existing[p]
        BY <1>1, <1>5, <2>1, <2>2 DEF Look, Advance, Files
      <3>2. \A f \in Files : f <= g <=> f <= pos[p] \/ f = g
        BY <1>1 DEF Files
      <3> HIDE DEF g
      <3>3. \A f \in Files : f \in existing'[p] <=> f <= pos'[p] /\ dest'[f] # Absent
        BY <2>1, <3>1, <3>2
      <3> QED BY <1>2, <2>1, <3>1, <3>3 DEF KeptInv
    <2>3. CASE ~(pos[p] < N)
      <3>1. pc'[p] = "copying" /\ pos'[p] = 0 /\ existing'[p] = existing[p]
        BY <1>1, <1>5, <2>1, <2>3 DEF Look, Enter
      <3>2. \A f \in Files : ~(f <= 0) /\ f <= pos[p]
        BY <1>1, <2>3 DEF Files
      <3> QED BY <1>2, <2>1, <3>1, <3>2 DEF KeptInv, NoBackup
    <2> QED BY <2>2, <2>3
  <1>6. CASE Snapshot(p)
    <2> DEFINE g == pos[p] + 1
    <2>1. /\ pc[p] = "copying" /\ told[p] \notin {"ok", "interrupted"}
          /\ \A f \in Files :
                /\ f \in existing[p] <=> dest[f] # Absent
                /\ backup[p][f] = IF f <= pos[p] THEN dest[f] ELSE Absent
      BY <1>1, <1>6 DEF Snapshot, KeptInv
    <2>2. CASE Fail(p)
      BY <1>0, <2>1, <2>2, KeptFail
    <2>3. CASE /\ pos[p] < N
               /\ backup' = (IF g \in existing[p]
                             THEN [backup EXCEPT ![p][g] = dest[g]] ELSE backup)
               /\ Advance(p)
               /\ UNCHANGED <<dest, pc, existing, committed, told, last, crashes>>
      <3>1. g \in Files /\ pos'[p] = g
        BY <1>1, <2>3 DEF Files, Advance
      <3> DEFINE b == IF g \in existing[p] THEN [backup[p] EXCEPT ![g] = dest[g]] ELSE backup[p]
      <3>2. backup' = [backup EXCEPT ![p] = b]
        BY <1>1, <2>3, <3>1
      <3>3. backup'[p] = b
        BY <1>1, <3>2
      <3>4. \A f \in Files : f <= g <=> f <= pos[p] \/ f = g
        BY <1>1 DEF Files
      <3>5. \A f \in Files : b[f] = IF f <= g THEN dest[f] ELSE Absent
        BY <1>1, <2>1, <3>1, <3>4 DEF Tree
      <3> HIDE DEF b, g
      <3>6. KeptInv(p)'
        BY <2>1, <2>3, <3>1, <3>3, <3>5 DEF KeptInv
      <3> QED BY <1>2, <2>1, <2>3, <3>6
    <2>4. CASE pos[p] = N /\ Enter(p, "committing")
               /\ UNCHANGED <<dest, backup, existing, committed, told, last, crashes>>
      <3>1. pc'[p] = "committing" /\ pos'[p] = 0
        BY <1>1, <2>4 DEF Enter
      <3>2. \A f \in Files : ~(f <= 0) /\ f <= N
        BY DEF Files
      <3> QED BY <1>2, <2>1, <2>4, <3>1, <3>2 DEF KeptInv
    <2> QED BY <1>6, <2>2, <2>3, <2>4 DEF Snapshot
  <1>7. CASE Replace(p)
    <2> DEFINE g == pos[p] + 1
    <2>1. /\ pc[p] = "committing" /\ told[p] \notin {"ok", "interrupted"} /\ g \in Files
          /\ \A f \in Files : IF f <= pos[p] THEN dest[f] = p ELSE backup[p][f] = dest[f]
          /\ backup' = backup /\ told' = told /\ last' = last
      BY <1>1, <1>7 DEF Replace, KeptInv, Files
    <2>2. CASE dest' = [dest EXCEPT ![g] = p] /\ Advance(p) /\ UNCHANGED pc
      <3>1. pos'[p] = g /\ pc'[p] = "committing"
        BY <1>1, <2>1, <2>2 DEF Advance
      <3>2. ~(g <= pos[p]) /\ \A f \in Files : f <= g <=> f <= pos[p] \/ f = g
        BY <1>1 DEF Files
      <3> HIDE DEF g
      <3>3. \A f \in Files : dest'[f] = IF f = g THEN p ELSE dest[f]
        BY <1>1, <2>1, <2>2 DEF Tree
      <3>4. KeptInv(p)'
        BY <2>1, <3>1, <3>2, <3>3 DEF KeptInv
      <3>5. \A f \in Files : last'[f] # Absent => Held(f)'
        BY <1>0, <1>1, <1>a, <2>1, <3>2, <3>3, StillHeld
      <3> QED BY <1>1, <2>1, <3>4, <3>5 DEF KeptStep, GoodLast
    <2>3. CASE Enter(p, "restoring") /\ committed' = [committed EXCEPT ![p] = pos[p]]
               /\ UNCHANGED dest
      <3>1. pos'[p] = 0 /\ pc'[p] = "restoring" /\ committed'[p] = pos[p]
        BY <1>1, <2>3 DEF Enter
      <3>2. 0 <= pos[p] /\ \A f \in Files : ~(f <= 0) /\ (f > pos[p] <=> ~(f <= pos[p]))
        BY <1>1 DEF Files
      <3> QED BY <1>2, <2>1, <2>3, <3>1, <3>2 DEF KeptInv
    <2> QED BY <1>7, <2>2, <2>3 DEF Replace
  <1>8. CASE Succeed(p)
    <2>1. pc'[p] = "ended" /\ told'[p] = "ok" /\ dest' = dest /\ last' = dest
      BY <1>1, <1>8 DEF Succeed, EndWith
    <2>2. \A f \in Files : dest[f] = p
      BY <1>1, <1>8 DEF Succeed, KeptInv, Files
    <2> QED BY <2>1, <2>2 DEF KeptStep, KeptInv, GoodLast, Held, OnDisk
  <1>9. CASE Restore(p)
    <2> DEFINE g == pos[p] + 1
    <2>1. /\ pc[p] = "restoring" /\ told[p] \notin {"ok", "interrupted"} /\ pos[p] <= committed[p]
          /\ \A f \in Files :
                /\ f <= pos[p] => backup[p][f] = Absent
                /\ f > pos[p] /\ f <= committed[p] => dest[f] = p
                /\ f > committed[p] => backup[p][f] = dest[f]
      BY <1>1, <1>9 DEF Restore, KeptInv
    <2>2. CASE g > committed[p] /\ Fail(p)
      <3>1. \A f \in Files : f <= pos[p] \/ f > committed[p]
        BY <1>1, <2>2 DEF Files
      <3> QED BY <1>0, <2>1, <2>2, <3>1, KeptFail
    <2>3. CASE /\ g <= committed[p]
               /\ IF backup[p][g] # Absent
                  THEN /\ dest' = [dest EXCEPT ![g] = backup[p][g]]
                       /\ backup' = [backup EXCEPT ![p][g] = Absent]
                  ELSE UNCHANGED <<dest, backup>>
               /\ Advance(p)
               /\ UNCHANGED <<pc, existing, committed, told, last, crashes>>
      <3>1. g \in Files /\ pos'[p] = g /\ pc'[p] = "restoring" /\ g > pos[p]
        BY <1>1, <2>1, <2>3 DEF Files, Advance
      <3>2. \A f \in Files :
               /\ f <= g <=> f <= pos[p] \/ f = g
               /\ f > g => f > pos[p] /\ f # g
               /\ f > committed[p] => f # g
        BY <1>1, <2>3 DEF Files
      <3> HIDE DEF g
      <3>3. dest[g] = p /\ p # last[g]
        BY <1>1, <2>1, <2>3, <3>1 DEF GoodLast
      <3>4. \A f \in Files : backup'[p][f] = IF f = g THEN Absent ELSE backup[p][f]
        <4> DEFINE b == [backup[p] EXCEPT ![g] = Absent]
        <4>1. CASE backup[p][g] # Absent
          <5>1. backup'[p] = b
            BY <1>1, <2>3, <3>1, <4>1
          <5>2. \A f \in Files : b[f] = IF f = g THEN Absent ELSE backup[p][f]
            BY <1>1, <3>1 DEF Tree
          <5> HIDE DEF b
          <5> QED BY <5>1, <5>2
        <4> QED BY <2>3, <4>1
      <3>5. \A f \in Files : dest'[f] = IF f = g /\ backup[p][g] # Absent
                                        THEN backup[p][g] ELSE dest[f]
        BY <1>1, <2>3, <3>1 DEF Tree
      <3>6. KeptInv(p)'
        <4>1. \A f \in Files :
                /\ f <= g => backup'[p][f] = Absent
                /\ f > g /\ f <= committed[p] => dest'[f] = p
                /\ f > committed[p] => backup'[p][f] = dest'[f]
          BY <2>1, <3>2, <3>4, <3>5
        <4>2. UNCHANGED <<pc, existing, committed, told>> /\ pos'[p] <= committed'[p]
          BY <2>3, <3>1
        <4> QED BY <2>1, <3>1, <4>1, <4>2 DEF KeptInv
      <3>7. \A f \in Files : last'[f] # Absent => Held(f)'
        BY <1>0, <1>1, <1>a, <2>3, <3>3, <3>4, <3>5, StillHeld
      <3> QED BY <1>1, <2>3, <3>6, <3>7 DEF KeptStep, GoodLast
    <2> QED BY <1>9, <2>2, <2>3 DEF Restore
  <1> QED BY <1>3, <1>4, <1>5, <1>6, <1>7, <1>8, <1>9 DEF Run

\* An interrupted run loses what it had replaced and not put back, and what it
\* leaves there is its own version.
LEMMA KeptInterrupt ==
    ASSUME KInv, TypeOK', NEW p \in Publishers, Interrupt(p)
    PROVE  /\ \A q \in Publishers : KeptInv(q)'
           /\ OneRuns' /\ GoodLast'
           /\ \A f \in Files : last'[f] # Absent => Held(f)'
  <1> USE PublishAssumption
  <1>1. /\ pc[p] \in Running /\ pc'[p] = "ended" /\ told'[p] = "interrupted"
        /\ told[p] \notin {"ok", "interrupted"} /\ backup'[p] = NoBackup
        /\ \A q \in Publishers : q # p =>
              pc'[q] = pc[q] /\ told'[q] = told[q] /\ backup'[q] = backup[q]
        /\ UNCHANGED <<dest, pos, existing, committed, last>>
    BY DEF Interrupt, EndWith, KInv, TypeOK, KeptInv, Running
  <1>2. KeptInv(p)'
    BY <1>1 DEF KeptInv
  <1>3. ASSUME NEW q \in Publishers, q # p PROVE KeptInv(q)'
    BY <1>1, <1>3 DEF KInv, KeptInv
  <1>4. OneRuns'
    BY <1>1 DEF KInv, OneRuns, Running
  <1>5. GoodLast'
    BY <1>1 DEF KInv, GoodLast
  <1>6. ASSUME NEW f \in Files PROVE backup[p][f] \in {Absent, dest[f]} \/ dest[f] = p
    <2>1. /\ KeptInv(p) /\ pos[p] \in 0 .. N /\ committed[p] \in 0 .. N
      BY DEF KInv, TypeOK
    <2>2. CASE pc[p] \in {"staging", "looking"}
      BY <2>1, <2>2 DEF KeptInv, NoBackup
    <2>3. CASE pc[p] \in {"copying", "committing"}
      BY <2>1, <2>3 DEF KeptInv
    <2>4. CASE pc[p] = "restoring"
      <3>1. f <= pos[p] \/ (f > pos[p] /\ f <= committed[p]) \/ f > committed[p]
        BY <2>1 DEF Files
      <3> QED BY <2>1, <2>4, <3>1 DEF KeptInv
    <2> QED BY <1>1, <2>2, <2>3, <2>4 DEF Running
  <1>7. ASSUME NEW f \in Files, NEW v, v # Absent, OnDisk(f, v)
        PROVE  OnDisk(f, v)' \/ OnDisk(f, p)'
    <2>1. ASSUME NEW q \in Publishers, q # p, backup[q][f] = v PROVE OnDisk(f, v)'
      BY <1>1, <2>1 DEF OnDisk
    <2>2. CASE dest[f] = v \/ backup[p][f] = v
      BY <1>1, <1>6, <1>7, <2>2 DEF OnDisk
    <2> QED BY <1>7, <2>1, <2>2 DEF OnDisk
  <1>8. ASSUME NEW f \in Files, last'[f] # Absent PROVE Held(f)'
    <2>1. Held(f) /\ last[f] # Absent
      BY <1>1, <1>8 DEF KInv
    <2>2. CASE OnDisk(f, last[f])
      <3>1. OnDisk(f, last[f])' \/ OnDisk(f, p)'
        BY <1>1, <1>7, <2>1, <2>2 DEF OnDisk
      <3> QED BY <1>1, <3>1 DEF Held
    <2>3. ASSUME NEW q \in Publishers, told[q] = "interrupted", OnDisk(f, q) PROVE Held(f)'
      <3>1. q # p /\ q # Absent /\ told'[q] = "interrupted"
        BY <1>1, <2>3
      <3>2. OnDisk(f, q)' \/ OnDisk(f, p)'
        BY <1>7, <2>3, <3>1
      <3> QED BY <1>1, <3>1, <3>2 DEF Held
    <2> QED BY <2>1, <2>2, <2>3 DEF Held
  <1> QED BY <1>2, <1>3, <1>4, <1>5, <1>8

LEMMA KInvStep ==
    ASSUME ~Overlap, ~RestoreFails, KInv, [Next]_vars PROVE KInv'
  <1>0. TypeOK'
    BY TypeStep DEF KInv
  <1>1. CASE UNCHANGED vars
    BY <1>0, <1>1 DEF vars, KInv, OneRuns, KeptInv, GoodLast, Held, OnDisk
  <1>2. ASSUME NEW p \in Publishers, Crash(p) PROVE KInv'
    <2>1. /\ pc'[p] = "dead" /\ told[p] \notin {"ok", "interrupted"}
          /\ \A q \in Publishers : q # p => pc'[q] = pc[q]
          /\ UNCHANGED <<dest, backup, pos, existing, committed, told, last>>
      BY <1>2 DEF Crash, KInv, TypeOK, KeptInv, Running
    <2>2. \A q \in Publishers : KeptInv(q)'
      BY <2>1 DEF KInv, KeptInv
    <2>3. OneRuns'
      BY <2>1 DEF KInv, OneRuns, Running
    <2>4. GoodLast' /\ \A f \in Files : last'[f] # Absent => Held(f)'
      BY <2>1 DEF KInv, GoodLast, Held, OnDisk
    <2> QED BY <1>0, <2>2, <2>3, <2>4 DEF KInv
  <1>4. ASSUME NEW p \in Publishers, Interrupt(p) PROVE KInv'
    BY <1>0, <1>4, KeptInterrupt DEF KInv
  <1>3. ASSUME NEW p \in Publishers, Run(p) PROVE KInv'
    <2>1. KeptStep(p)
      BY <1>0, <1>3, KeptRun
    <2>2. OnlyMoves(p)
      BY <1>3, RunMoves DEF KInv
    <2>3. \A q \in Publishers : q # p => pc[q] \notin Running
      <3>1. CASE Start(p)
        BY <3>1 DEF Start
      <3>2. CASE pc[p] \in Running
        BY <3>2 DEF KInv, OneRuns
      <3> QED BY <1>3, <3>1, <3>2
              DEF Run, Stage, Look, Snapshot, Replace, Succeed, Restore, Running
    <2>4. ASSUME NEW q \in Publishers, q # p PROVE KeptInv(q)' /\ pc'[q] \notin Running
      <3>1. KeptInv(q) /\ pc[q] \notin Running
        BY <2>3, <2>4 DEF KInv
      <3>2. /\ pc'[q] = pc[q] /\ existing'[q] = existing[q]
            /\ backup'[q] = backup[q] /\ told'[q] = told[q]
        BY <2>2, <2>4 DEF OnlyMoves
      <3> QED BY <3>1, <3>2 DEF KeptInv, Running
    <2>5. OneRuns'
      BY <2>4 DEF OneRuns
    <2> QED BY <1>0, <2>1, <2>4, <2>5 DEF KInv, KeptStep
  <1> QED BY <1>1, <1>2, <1>3, <1>4 DEF Next

\* Whatever file operation fails and whichever runs die, over any tree, the
\* files of the last good publish stay on disk, but for those that a run
\* replaced before it was interrupted, of which that run's version does, as
\* long as runs follow one another and no rename of a rollback fails.
THEOREM LastKept ==
    ASSUME ~Overlap, ~RestoreFails PROVE Spec => []LastIsOnDisk
  <1>1. KInv => LastIsOnDisk
    BY DEF KInv, LastIsOnDisk, Held
  <1>2. KInv /\ [Next]_vars => KInv'
    BY KInvStep
  <1> QED BY <1>1, <1>2, InitKInv, PTL DEF Spec
=============================================================================
