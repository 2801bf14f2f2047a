---------------------------- MODULE AtomicPublish ----------------------------
(***************************************************************************)
(* publish_atomic (advoi/aether/publish_atomic.py): the gate verdict, the   *)
(* proactive feed and the directives are staged, the files they replace are *)
(* copied to a backup, every staged file is renamed into place, and a       *)
(* failure on the way renames the backups back.  Each run is a process of    *)
(* its own (scripts/aether-publish-atomic.sh): steps of two runs interleave *)
(* at every file operation, and a run may die or be interrupted at any.      *)
(***************************************************************************)
EXTENDS Integers

CONSTANTS
    Publishers,     \* runs of publish_atomic, each with a version of its own
    N,              \* how many files, in the order they are replaced
    Prior,          \* the version in the fleet tree before the first run
    Absent,         \* no such file
    PriorSets,      \* which files the fleet tree may hold at first
    Overlap,        \* may two runs overlap?
    RestoreFails,   \* may the rename of a backup fail?
    MaxCrashes      \* bound on runs that die or are interrupted

Files == 1 .. N

ASSUME PublishAssumption ==
    /\ N \in Nat \ {0}
    /\ Prior \notin Publishers
    /\ Absent \notin Publishers
    /\ Prior # Absent
    /\ PriorSets \subseteq SUBSET Files
    /\ Overlap \in BOOLEAN
    /\ RestoreFails \in BOOLEAN
    /\ MaxCrashes \in Nat

VARIABLES
    dest,       \* the fleet tree: the version of each file, or Absent
    backup,     \* the backup directory of each run
    pc,         \* where each run stands
    pos,        \* how many files its present loop has dealt with
    existing,   \* the files the run found in the fleet tree
    committed,  \* how many files a run that rolls back had replaced
    told,       \* what the caller was told
    last,       \* history: the tree the last run to end well left
    crashes

vars == <<dest, backup, pc, pos, existing, committed, told, last, crashes>>

Version == Publishers \cup {Prior}
Tree == [Files -> Version \cup {Absent}]
NoBackup == [f \in Files |-> Absent]

Running == {"staging", "looking", "copying", "committing", "restoring"}

\* What the caller is told, the staging and backup directories removed
\* (the finally clause).
EndWith(p, outcome) ==
    /\ pc' = [pc EXCEPT ![p] = "ended"]
    /\ told' = [told EXCEPT ![p] = outcome]
    /\ backup' = [backup EXCEPT ![p] = NoBackup]

Fail(p) ==
    /\ EndWith(p, "failed")
    /\ UNCHANGED <<dest, pos, existing, committed, last, crashes>>

Enter(p, phase) ==
    /\ pc' = [pc EXCEPT ![p] = phase]
    /\ pos' = [pos EXCEPT ![p] = 0]

Advance(p) == pos' = [pos EXCEPT ![p] = @ + 1]

\* read_sources and the validation: a missing or empty source is refused
\* before anything is written.
Start(p) ==
    /\ pc[p] = "idle"
    /\ Overlap \/ \A q \in Publishers : pc[q] \notin Running
    /\ \/ Fail(p)
       \/ /\ Enter(p, "staging")
          /\ UNCHANGED <<dest, backup, existing, committed, told, last, crashes>>

\* All files are written under the staging directory.
Stage(p) ==
    /\ pc[p] = "staging"
    /\ \/ Fail(p)
       \/ /\ Enter(p, "looking")
          /\ UNCHANGED <<dest, backup, existing, committed, told, last, crashes>>

\* Which of the files are there already?
Look(p) ==
    /\ pc[p] = "looking"
    /\ IF pos[p] < N
       THEN /\ existing' = [existing EXCEPT ![p] =
                   IF dest[pos[p] + 1] # Absent THEN @ \cup {pos[p] + 1} ELSE @]
            /\ Advance(p)
            /\ UNCHANGED pc
       ELSE /\ Enter(p, "copying")
            /\ UNCHANGED existing
    /\ UNCHANGED <<dest, backup, committed, told, last, crashes>>

\* Mutant: the file is moved to the backup instead of copied.
SnapshotMoves(p) ==
    /\ pc[p] = "copying"
    /\ \/ /\ pos[p] < N /\ existing[p] # {}
          /\ Fail(p)
       \/ /\ pos[p] < N
          /\ IF pos[p] + 1 \in existing[p]
             THEN /\ backup' = [backup EXCEPT ![p][pos[p] + 1] = dest[pos[p] + 1]]
                  /\ dest' = [dest EXCEPT ![pos[p] + 1] = Absent]
             ELSE UNCHANGED <<backup, dest>>
          /\ Advance(p)
          /\ UNCHANGED <<pc, existing, committed, told, last, crashes>>
       \/ /\ pos[p] = N
          /\ Enter(p, "committing")
          /\ UNCHANGED <<dest, backup, existing, committed, told, last, crashes>>

\* Each of them is copied to the backup directory.
Snapshot(p) ==
    /\ pc[p] = "copying"
    /\ \/ /\ pos[p] < N /\ existing[p] # {}
          /\ Fail(p)
       \/ /\ pos[p] < N
          /\ backup' = IF pos[p] + 1 \in existing[p]
                       THEN [backup EXCEPT ![p][pos[p] + 1] = dest[pos[p] + 1]]
                       ELSE backup
          /\ Advance(p)
          /\ UNCHANGED <<dest, pc, existing, committed, told, last, crashes>>
       \/ /\ pos[p] = N
          /\ Enter(p, "committing")
          /\ UNCHANGED <<dest, backup, existing, committed, told, last, crashes>>

\* One staged file replaces the file in place; a rename that fails, of the
\* first file or a later one, starts the rollback.
Replace(p) ==
    /\ pc[p] = "committing"
    /\ pos[p] < N
    /\ \/ /\ dest' = [dest EXCEPT ![pos[p] + 1] = p]
          /\ Advance(p)
          /\ UNCHANGED pc
          /\ UNCHANGED committed
       \/ /\ Enter(p, "restoring")
          /\ committed' = [committed EXCEPT ![p] = pos[p]]
          /\ UNCHANGED dest
    /\ UNCHANGED <<backup, existing, told, last, crashes>>

\* Mutant: the directories are removed and success told before the last file.
SucceedEarly(p) ==
    /\ pc[p] = "committing"
    /\ pos[p] >= N - 1
    /\ EndWith(p, "ok")
    /\ last' = dest
    /\ UNCHANGED <<dest, pos, existing, committed, crashes>>

Succeed(p) ==
    /\ pc[p] = "committing"
    /\ pos[p] = N
    /\ EndWith(p, "ok")
    /\ last' = dest
    /\ UNCHANGED <<dest, pos, existing, committed, crashes>>

\* Mutant: the loop ends before the last file that was replaced.
RestoreAllButLast(p) ==
    /\ pc[p] = "restoring"
    /\ LET f == pos[p] + 1 IN
       IF f >= committed[p] THEN Fail(p)
       ELSE /\ IF backup[p][f] # Absent
               THEN /\ dest' = [dest EXCEPT ![f] = backup[p][f]]
                    /\ backup' = [backup EXCEPT ![p][f] = Absent]
               ELSE UNCHANGED <<dest, backup>>
            /\ Advance(p)
            /\ UNCHANGED <<pc, existing, committed, told, last, crashes>>

\* Every file that was replaced gets its backup back, if there is one.  A
\* rename that fails ends the run, and its other backups with it.
Restore(p) ==
    /\ pc[p] = "restoring"
    /\ LET f == pos[p] + 1 IN
       \/ /\ f > committed[p]
          /\ Fail(p)
       \/ /\ f <= committed[p]
          /\ RestoreFails /\ backup[p][f] # Absent
          /\ Fail(p)
       \/ /\ f <= committed[p]
          /\ IF backup[p][f] # Absent
             THEN /\ dest' = [dest EXCEPT ![f] = backup[p][f]]
                  /\ backup' = [backup EXCEPT ![p][f] = Absent]
             ELSE UNCHANGED <<dest, backup>>
          /\ Advance(p)
          /\ UNCHANGED <<pc, existing, committed, told, last, crashes>>

\* The process is killed; its directories stay.
Crash(p) ==
    /\ pc[p] \in Running
    /\ crashes < MaxCrashes
    /\ crashes' = crashes + 1
    /\ pc' = [pc EXCEPT ![p] = "dead"]
    /\ UNCHANGED <<dest, backup, pos, existing, committed, told, last>>

\* The process is interrupted from its keyboard: a KeyboardInterrupt is no
\* Exception, so that nothing more is put back, and the finally clause removes
\* the directories all the same.
Interrupt(p) ==
    /\ pc[p] \in Running
    /\ crashes < MaxCrashes
    /\ crashes' = crashes + 1
    /\ EndWith(p, "interrupted")
    /\ UNCHANGED <<dest, pos, existing, committed, last>>

Init ==
    /\ \E S \in PriorSets : dest = [f \in Files |-> IF f \in S THEN Prior ELSE Absent]
    /\ backup = [p \in Publishers |-> NoBackup]
    /\ pc = [p \in Publishers |-> "idle"]
    /\ pos = [p \in Publishers |-> 0]
    /\ existing = [p \in Publishers |-> {}]
    /\ committed = [p \in Publishers |-> 0]
    /\ told = [p \in Publishers |-> "none"]
    /\ last = dest
    /\ crashes = 0

Run(p) ==
    Start(p) \/ Stage(p) \/ Look(p) \/ Snapshot(p) \/ Replace(p) \/ Succeed(p) \/ Restore(p)

Next == \E p \in Publishers : Run(p) \/ Crash(p) \/ Interrupt(p)

Spec == Init /\ [][Next]_vars

-----------------------------------------------------------------------------
(* Properties.                                                              *)

TypeOK ==
    /\ dest \in Tree
    /\ backup \in [Publishers -> Tree]
    /\ pc \in [Publishers -> Running \cup {"idle", "ended", "dead"}]
    /\ pos \in [Publishers -> 0 .. N]
    /\ existing \in [Publishers -> SUBSET Files]
    /\ committed \in [Publishers -> 0 .. N]
    /\ told \in [Publishers -> {"none", "ok", "failed", "interrupted"}]
    /\ last \in Tree
    /\ crashes \in Nat

\* A file that is in the fleet tree never goes missing, not even between two
\* steps of a publish or of its rollback: gate.py and the feed's readers, who
\* take no lock, always find one.
FilesStay == [][\A f \in Files : dest[f] # Absent => dest'[f] # Absent]_vars

OnDisk(f, v) == dest[f] = v \/ \E p \in Publishers : backup[p][f] = v

\* Every file as the last publish that ended well left it is still on disk, in
\* place or in a backup directory a dead run left behind, or else a run that
\* was interrupted had replaced it, and then that run's version is.
LastIsOnDisk ==
    \A f \in Files : last[f] # Absent =>
        \/ OnDisk(f, last[f])
        \/ \E p \in Publishers : told[p] = "interrupted" /\ OnDisk(f, p)

\* Violated, see the README: the last good version survives every run that does
\* not end well.
LastStaysOnDisk == \A f \in Files : last[f] # Absent => OnDisk(f, last[f])

\* With no run under way the files are of one publish.
NoMix ==
    (\A p \in Publishers : pc[p] \notin Running) =>
        \A f, g \in Files : dest[f] = dest[g]

\* What the tree would be if the runs under way were rolled back.
RolledBack(f) ==
    IF \E p \in Publishers : backup[p][f] # Absent
    THEN backup[CHOOSE p \in Publishers : backup[p][f] # Absent][f]
    ELSE dest[f]

Whole == INSTANCE AllOrNothing WITH
    shown <- [f \in Files |-> RolledBack(f)],
    Old <- Prior

\* Runs that follow one another publish all files or none, and say which.
ImplementsAllOrNothing == Whole!Spec
=============================================================================
