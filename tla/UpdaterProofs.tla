--------------------------- MODULE UpdaterProofs ---------------------------
(***************************************************************************)
(* Theorems about Updater for any number of updaters, any releases and any *)
(* faults, checked by TLAPS.                                               *)
(***************************************************************************)
EXTENDS Updater, TLAPS

-----------------------------------------------------------------------------
\* Type correctness.

\* The disk, the windows and the updaters start with values of their types.
LEMMA InitType == Init => TypeOK
  BY UpdaterAssumption DEF Init, TypeOK, Contents, Codes, StillActive

\* Starting an updater and closing or losing the parent application keep the
\* types.
LEMMA AppType ==
  ASSUME TypeOK, NEW u \in Updaters, App(u) PROVE TypeOK'
<1>1. CASE AppStart(u)
  BY <1>1 DEF AppStart, TypeOK, disk, history
<1>2. CASE AppExit(u)
  BY <1>2 DEF AppExit, TypeOK, disk, history
<1>3. CASE Launch(u)
  BY <1>3 DEF Launch, Goto, At, TypeOK, disk, history, Contents, Active, Unlocked
<1>4. QED BY <1>1, <1>2, <1>3 DEF App

\* The probe of the new release, which runs as a process of its own, keeps the
\* types.
LEMMA ProbeType ==
  ASSUME TypeOK, NEW u \in Updaters, Probe(u) PROVE TypeOK'
<1>1. CASE ProbeConfirms(u)
  BY <1>1 DEF ProbeConfirms, TypeOK, disk, history
<1>2. CASE ProbeQuits(u)
  BY <1>2 DEF ProbeQuits, TypeOK, disk, history
<1>3. CASE ProbeFails(u)
  BY <1>3 DEF ProbeFails, TypeOK, disk, history
<1>4. QED BY <1>1, <1>2, <1>3 DEF Probe

\* Every step of an updater keeps the types, the file operations that fail
\* included.
LEMMA StepType ==
  ASSUME TypeOK, NEW u \in Updaters, Step(u) PROVE TypeOK'
<1> USE DEF Goto, Return, At, Removed, TypeOK, Contents, Codes, Active, Unlocked,
            Locked, disk, process, history
<1>1. CASE Validate(u)
  BY <1>1 DEF Validate
<1>2. CASE TryLock(u)
  BY <1>2 DEF TryLock
<1>3. CASE Preflight(u)
  BY <1>3 DEF Preflight
<1>4. CASE OpenParent(u)
  BY <1>4 DEF OpenParent
<1>5. CASE AwaitParent(u)
  BY <1>5 DEF AwaitParent
<1>6. CASE Verify(u)
  BY <1>6 DEF Verify
<1>7. CASE MakeStaging(u)
  BY <1>7 DEF MakeStaging
<1>8. CASE Extract(u)
  BY <1>8 DEF Extract
<1>9. CASE CheckStaged(u)
  BY <1>9 DEF CheckStaged
<1>10. CASE MoveOldAway(u)
  BY <1>10 DEF MoveOldAway
<1>11. CASE MoveNewIn(u)
  BY <1>11 DEF MoveNewIn
<1>12. CASE Unwind(u)
  BY <1>12 DEF Unwind
<1>13. CASE StartProbe(u)
  BY <1>13 DEF StartProbe
<1>14. CASE WatchProbe(u)
  BY <1>14 DEF WatchProbe
<1>15. CASE MoveFailedAside(u)
  BY <1>15 DEF MoveFailedAside
<1>16. CASE MoveBackupBack(u)
  BY <1>16 DEF MoveBackupBack
<1>17. CASE RelaunchOld(u)
  BY <1>17 DEF RelaunchOld
<1>18. CASE RelaunchNew(u)
  BY <1>18 DEF RelaunchNew
<1>19. CASE DropBackup(u)
  BY <1>19 DEF DropBackup
<1>20. QED
  BY <1>1, <1>2, <1>3, <1>4, <1>5, <1>6, <1>7, <1>8, <1>9, <1>10, <1>11, <1>12, <1>13, <1>14, <1>15, <1>16, <1>17, <1>18, <1>19 DEF Step

\* The loss of an updater's process keeps the types.
LEMMA CrashType ==
  ASSUME TypeOK, NEW u \in Updaters, Crash(u) PROVE TypeOK'
  BY DEF Crash, Return, TypeOK, Codes, Terminated, disk, process, history

\* Types are kept by every step, and by stuttering.
LEMMA NextType == TypeOK /\ [Next]_vars => TypeOK'
<1> SUFFICES ASSUME TypeOK, [Next]_vars PROVE TypeOK'
  OBVIOUS
<1>1. CASE Next
  BY <1>1, AppType, ProbeType, StepType, CrashType DEF Next
<1>2. CASE UNCHANGED vars
  BY <1>2 DEF TypeOK, vars
<1>3. QED BY <1>1, <1>2

\* The variables of the updaters keep their types.
THEOREM TypeCorrect == Spec => []TypeOK
<1>1. QED BY InitType, NextType, PTL DEF Spec

-----------------------------------------------------------------------------
\* The inductive invariant, one conjunct at a time.

\* The lock is taken and given back with the step it protects.
LEMMA LockStep ==
  ASSUME IInv, NEW u \in Updaters, App(u) \/ Step(u) \/ Probe(u) \/ Crash(u)
  PROVE  LockIsHeld'
<1> USE UpdaterAssumption DEF IInv, TypeOK, LockIsHeld, Goto, Return, At, Locked, Active, Unlocked
<1>1. CASE AppStart(u)
  BY <1>1 DEF AppStart
<1>2. CASE AppExit(u)
  BY <1>2 DEF AppExit
<1>3. CASE Launch(u)
  BY <1>3 DEF Launch
<1>4. CASE Validate(u)
  BY <1>4 DEF Validate
<1>5. CASE TryLock(u)
  BY <1>5 DEF TryLock
<1>6. CASE Preflight(u)
  BY <1>6 DEF Preflight
<1>7. CASE OpenParent(u)
  BY <1>7 DEF OpenParent
<1>8. CASE AwaitParent(u)
  BY <1>8 DEF AwaitParent
<1>9. CASE Verify(u)
  BY <1>9 DEF Verify
<1>10. CASE MakeStaging(u)
  BY <1>10 DEF MakeStaging
<1>11. CASE Extract(u)
  BY <1>11 DEF Extract
<1>12. CASE CheckStaged(u)
  BY <1>12 DEF CheckStaged
<1>13. CASE MoveOldAway(u)
  BY <1>13 DEF MoveOldAway
<1>14. CASE MoveNewIn(u)
  BY <1>14 DEF MoveNewIn
<1>15. CASE Unwind(u)
  BY <1>15 DEF Unwind
<1>16. CASE StartProbe(u)
  BY <1>16 DEF StartProbe
<1>17. CASE WatchProbe(u)
  BY <1>17 DEF WatchProbe
<1>18. CASE MoveFailedAside(u)
  BY <1>18 DEF MoveFailedAside
<1>19. CASE MoveBackupBack(u)
  BY <1>19 DEF MoveBackupBack
<1>20. CASE RelaunchOld(u)
  BY <1>20 DEF RelaunchOld
<1>21. CASE RelaunchNew(u)
  BY <1>21 DEF RelaunchNew
<1>22. CASE DropBackup(u)
  BY <1>22 DEF DropBackup
<1>23. CASE ProbeConfirms(u)
  BY <1>23 DEF ProbeConfirms
<1>24. CASE ProbeQuits(u)
  BY <1>24 DEF ProbeQuits
<1>25. CASE ProbeFails(u)
  BY <1>25 DEF ProbeFails
<1>26. CASE Crash(u)
  BY <1>26 DEF Crash
<1>27. QED
  BY <1>1, <1>2, <1>3, <1>4, <1>5, <1>6, <1>7, <1>8, <1>9, <1>10, <1>11, <1>12, <1>13, <1>14, <1>15, <1>16, <1>17, <1>18, <1>19, <1>20, <1>21, <1>22, <1>23, <1>24, <1>25, <1>26 DEF App, Step, Probe

\* Every step keeps true what each updater knows of its parent, its package and
\* its exit code.
LEMMA BookkeepingStep ==
  ASSUME IInv, NEW u \in Updaters, App(u) \/ Step(u) \/ Probe(u) \/ Crash(u),
         NEW v \in Updaters
  PROVE  Bookkeeping(v)'
<1> USE DEF IInv, TypeOK, Bookkeeping, Goto, Return, At, LooksLike, Locked, Active, Unlocked, Contents, Codes, StillActive, Terminated, disk, process, history
<1>1. CASE AppStart(u)
  BY <1>1 DEF AppStart
<1>2. CASE AppExit(u)
  BY <1>2 DEF AppExit
<1>3. CASE Launch(u)
  BY <1>3 DEF Launch
<1>4. CASE Validate(u)
  BY <1>4 DEF Validate
<1>5. CASE TryLock(u)
  BY <1>5 DEF TryLock
<1>6. CASE Preflight(u)
  BY <1>6 DEF Preflight
<1>7. CASE OpenParent(u)
  BY <1>7 DEF OpenParent
<1>8. CASE AwaitParent(u)
  BY <1>8 DEF AwaitParent
<1>9. CASE Verify(u)
  BY <1>9 DEF Verify
<1>10. CASE MakeStaging(u)
  BY <1>10 DEF MakeStaging
<1>11. CASE Extract(u)
  BY <1>11 DEF Extract
<1>12. CASE CheckStaged(u)
  BY <1>12 DEF CheckStaged
<1>13. CASE MoveOldAway(u)
  BY <1>13 DEF MoveOldAway
<1>14. CASE MoveNewIn(u)
  BY <1>14 DEF MoveNewIn
<1>15. CASE Unwind(u)
  BY <1>15 DEF Unwind
<1>16. CASE StartProbe(u)
  BY <1>16 DEF StartProbe
<1>17. CASE WatchProbe(u)
  BY <1>17 DEF WatchProbe
<1>18. CASE MoveFailedAside(u)
  BY <1>18 DEF MoveFailedAside
<1>19. CASE MoveBackupBack(u)
  BY <1>19 DEF MoveBackupBack
<1>20. CASE RelaunchOld(u)
  BY <1>20 DEF RelaunchOld
<1>21. CASE RelaunchNew(u)
  BY <1>21 DEF RelaunchNew
<1>22. CASE DropBackup(u)
  BY <1>22 DEF DropBackup
<1>23. CASE ProbeConfirms(u)
  BY <1>23 DEF ProbeConfirms
<1>24. CASE ProbeQuits(u)
  BY <1>24 DEF ProbeQuits
<1>25. CASE ProbeFails(u)
  BY <1>25 DEF ProbeFails
<1>26. CASE Crash(u)
  BY <1>26 DEF Crash
<1>27. QED
  BY <1>1, <1>2, <1>3, <1>4, <1>5, <1>6, <1>7, <1>8, <1>9, <1>10, <1>11, <1>12, <1>13, <1>14, <1>15, <1>16, <1>17, <1>18, <1>19, <1>20, <1>21, <1>22, <1>23, <1>24, <1>25, <1>26 DEF App, Step, Probe

\* Each step leaves every updater's staging and backup trees where its program
\* counter says they are.
LEMMA PlacementStep ==
  ASSUME IInv, NEW u \in Updaters, App(u) \/ Step(u) \/ Probe(u) \/ Crash(u),
         NEW v \in Updaters
  PROVE  Placement(v)'
<1> USE DEF IInv, TypeOK, LockIsHeld, RootIsRelease, Bookkeeping, Placement, Goto, Return, At, Movable, Locked, Active, Unlocked, Unswapped, Swapped, Contents, disk, process, history
<1>1. CASE AppStart(u)
  BY <1>1 DEF AppStart
<1>2. CASE AppExit(u)
  BY <1>2 DEF AppExit
<1>3. CASE Launch(u)
  BY <1>3 DEF Launch
<1>4. CASE Validate(u)
  BY <1>4 DEF Validate
<1>5. CASE TryLock(u)
  BY <1>5 DEF TryLock
<1>6. CASE Preflight(u)
  BY <1>6 DEF Preflight
<1>7. CASE OpenParent(u)
  BY <1>7 DEF OpenParent
<1>8. CASE AwaitParent(u)
  BY <1>8 DEF AwaitParent
<1>9. CASE Verify(u)
  BY <1>9 DEF Verify
<1>10. CASE MakeStaging(u)
  BY <1>10 DEF MakeStaging
<1>11. CASE Extract(u)
  BY <1>11 DEF Extract
<1>12. CASE CheckStaged(u)
  BY <1>12 DEF CheckStaged
<1>13. CASE MoveOldAway(u)
  BY <1>13 DEF MoveOldAway
<1>14. CASE MoveNewIn(u)
  BY <1>14 DEF MoveNewIn
<1>15. CASE Unwind(u)
  BY <1>15 DEF Unwind
<1>16. CASE StartProbe(u)
  BY <1>16 DEF StartProbe
<1>17. CASE WatchProbe(u)
  BY <1>17 DEF WatchProbe
<1>18. CASE MoveFailedAside(u)
  BY <1>18 DEF MoveFailedAside
<1>19. CASE MoveBackupBack(u)
  BY <1>19 DEF MoveBackupBack
<1>20. CASE RelaunchOld(u)
  BY <1>20 DEF RelaunchOld
<1>21. CASE RelaunchNew(u)
  BY <1>21 DEF RelaunchNew
<1>22. CASE DropBackup(u)
  BY <1>22 DEF DropBackup
<1>23. CASE ProbeConfirms(u)
  BY <1>23 DEF ProbeConfirms
<1>24. CASE ProbeQuits(u)
  BY <1>24 DEF ProbeQuits
<1>25. CASE ProbeFails(u)
  BY <1>25 DEF ProbeFails
<1>26. CASE Crash(u)
  BY <1>26 DEF Crash
<1>27. QED
  BY <1>1, <1>2, <1>3, <1>4, <1>5, <1>6, <1>7, <1>8, <1>9, <1>10, <1>11, <1>12, <1>13, <1>14, <1>15, <1>16, <1>17, <1>18, <1>19, <1>20, <1>21, <1>22, <1>23, <1>24, <1>25, <1>26 DEF App, Step, Probe

\* What the trial of a release has confirmed and committed keeps agreeing with
\* the step reached.
LEMMA ProgressStep ==
  ASSUME IInv, NEW u \in Updaters, App(u) \/ Step(u) \/ Probe(u) \/ Crash(u),
         NEW v \in Updaters
  PROVE  Progress(v)'
<1> USE DEF IInv, TypeOK, LockIsHeld, Bookkeeping, Placement, Progress, Goto, Return, At, Wrecking, Locked, Active, Unlocked, Unswapped, Swapped, Contents, Codes, StillActive, Terminated, disk, process, history
<1>1. CASE AppStart(u)
  BY <1>1 DEF AppStart
<1>2. CASE AppExit(u)
  BY <1>2 DEF AppExit
<1>3. CASE Launch(u)
  BY <1>3 DEF Launch
<1>4. CASE Validate(u)
  BY <1>4 DEF Validate
<1>5. CASE TryLock(u)
  BY <1>5 DEF TryLock
<1>6. CASE Preflight(u)
  BY <1>6 DEF Preflight
<1>7. CASE OpenParent(u)
  BY <1>7 DEF OpenParent
<1>8. CASE AwaitParent(u)
  BY <1>8 DEF AwaitParent
<1>9. CASE Verify(u)
  BY <1>9 DEF Verify
<1>10. CASE MakeStaging(u)
  BY <1>10 DEF MakeStaging
<1>11. CASE Extract(u)
  BY <1>11 DEF Extract
<1>12. CASE CheckStaged(u)
  BY <1>12 DEF CheckStaged
<1>13. CASE MoveOldAway(u)
  BY <1>13 DEF MoveOldAway
<1>14. CASE MoveNewIn(u)
  BY <1>14 DEF MoveNewIn
<1>15. CASE Unwind(u)
  BY <1>15 DEF Unwind
<1>16. CASE StartProbe(u)
  BY <1>16 DEF StartProbe
<1>17. CASE WatchProbe(u)
  BY <1>17 DEF WatchProbe
<1>18. CASE MoveFailedAside(u)
  BY <1>18 DEF MoveFailedAside
<1>19. CASE MoveBackupBack(u)
  BY <1>19 DEF MoveBackupBack
<1>20. CASE RelaunchOld(u)
  BY <1>20 DEF RelaunchOld
<1>21. CASE RelaunchNew(u)
  BY <1>21 DEF RelaunchNew
<1>22. CASE DropBackup(u)
  BY <1>22 DEF DropBackup
<1>23. CASE ProbeConfirms(u)
  BY <1>23 DEF ProbeConfirms
<1>24. CASE ProbeQuits(u)
  BY <1>24 DEF ProbeQuits
<1>25. CASE ProbeFails(u)
  BY <1>25 DEF ProbeFails
<1>26. CASE Crash(u)
  BY <1>26 DEF Crash
<1>27. QED
  BY <1>1, <1>2, <1>3, <1>4, <1>5, <1>6, <1>7, <1>8, <1>9, <1>10, <1>11, <1>12, <1>13, <1>14, <1>15, <1>16, <1>17, <1>18, <1>19, <1>20, <1>21, <1>22, <1>23, <1>24, <1>25, <1>26 DEF App, Step, Probe

\* No step leaves part of a release in the installation root.
LEMMA RootStep ==
  ASSUME IInv, NEW u \in Updaters, App(u) \/ Step(u) \/ Probe(u) \/ Crash(u)
  PROVE  RootIsRelease' /\ proven' \subseteq Versions
<1> USE UpdaterAssumption DEF IInv, TypeOK, RootIsRelease, LockIsHeld, Bookkeeping, Placement, Goto, Return, At, Movable, Locked, Active, Unlocked, Unswapped, Swapped, Contents, disk, process, history
<1>1. CASE AppStart(u)
  BY <1>1 DEF AppStart
<1>2. CASE AppExit(u)
  BY <1>2 DEF AppExit
<1>3. CASE Launch(u)
  BY <1>3 DEF Launch
<1>4. CASE Validate(u)
  BY <1>4 DEF Validate
<1>5. CASE TryLock(u)
  BY <1>5 DEF TryLock
<1>6. CASE Preflight(u)
  BY <1>6 DEF Preflight
<1>7. CASE OpenParent(u)
  BY <1>7 DEF OpenParent
<1>8. CASE AwaitParent(u)
  BY <1>8 DEF AwaitParent
<1>9. CASE Verify(u)
  BY <1>9 DEF Verify
<1>10. CASE MakeStaging(u)
  BY <1>10 DEF MakeStaging
<1>11. CASE Extract(u)
  BY <1>11 DEF Extract
<1>12. CASE CheckStaged(u)
  BY <1>12 DEF CheckStaged
<1>13. CASE MoveOldAway(u)
  BY <1>13 DEF MoveOldAway
<1>14. CASE MoveNewIn(u)
  BY <1>14 DEF MoveNewIn
<1>15. CASE Unwind(u)
  BY <1>15 DEF Unwind
<1>16. CASE StartProbe(u)
  BY <1>16 DEF StartProbe
<1>17. CASE WatchProbe(u)
  <2>1. UNCHANGED root /\ proven' \subseteq proven \cup {target[u]}
    BY <1>17 DEF WatchProbe
  <2>2. target[u] \in Versions
    BY <1>17 DEF WatchProbe
  <2>3. QED BY <2>1, <2>2
<1>18. CASE MoveFailedAside(u)
  BY <1>18 DEF MoveFailedAside
<1>19. CASE MoveBackupBack(u)
  BY <1>19 DEF MoveBackupBack
<1>20. CASE RelaunchOld(u)
  BY <1>20 DEF RelaunchOld
<1>21. CASE RelaunchNew(u)
  BY <1>21 DEF RelaunchNew
<1>22. CASE DropBackup(u)
  BY <1>22 DEF DropBackup
<1>23. CASE ProbeConfirms(u)
  BY <1>23 DEF ProbeConfirms
<1>24. CASE ProbeQuits(u)
  BY <1>24 DEF ProbeQuits
<1>25. CASE ProbeFails(u)
  BY <1>25 DEF ProbeFails
<1>26. CASE Crash(u)
  BY <1>26 DEF Crash
<1>27. QED
  BY <1>1, <1>2, <1>3, <1>4, <1>5, <1>6, <1>7, <1>8, <1>9, <1>10, <1>11, <1>12, <1>13, <1>14, <1>15, <1>16, <1>17, <1>18, <1>19, <1>20, <1>21, <1>22, <1>23, <1>24, <1>25, <1>26 DEF App, Step, Probe

\* While the holder of the lock has no backup, a proven release that is not in
\* the root is in the backup of an updater that ended badly.
LEMMA HeirOfTheWrecked ==
  ASSUME IInv, NEW u \in Updaters, lock = u, backup[u] = Absent
  PROVE  \/ root \in proven
         \/ \E w \in Updaters \ {u} : backup[w] \in proven /\ exit[w] \in Wrecking
<1> USE UpdaterAssumption DEF IInv
<1>1. backup[u] \notin proven
  OBVIOUS
<1>2. QED BY <1>1 DEF ProvenCopyRemains

\* Until the swap, and once it is undone, the holder of the lock may stop with
\* any code: it takes no release with it.
LEMMA CopyKept ==
  ASSUME IInv, NEW u \in Updaters, lock = u, backup[u] = Absent,
         UNCHANGED <<root, backup, proven>>, pc'[u] \notin Swapped,
         \A w \in Updaters \ {u} : exit'[w] = exit[w] /\ pc'[w] = pc[w]
  PROVE  ProvenCopyRemains' /\ TrialIsCovered'
<1> USE DEF IInv
<1>1. ProvenCopyRemains'
  BY HeirOfTheWrecked DEF ProvenCopyRemains
<1>2. \A w \in Updaters : pc'[w] \notin Swapped
  BY DEF LockIsHeld, Swapped, Locked
<1>3. TrialIsCovered'
  BY <1>2 DEF TrialIsCovered
<1>4. QED BY <1>1, <1>3

\* No step takes away the last copy of a release known to run.
LEMMA CopyStep ==
  ASSUME IInv, NEW u \in Updaters, App(u) \/ Step(u) \/ Probe(u) \/ Crash(u)
  PROVE  ProvenCopyRemains' /\ TrialIsCovered'
<1> USE UpdaterAssumption DEF IInv, TypeOK, LockIsHeld, RootIsRelease, Bookkeeping, Placement, Progress, ProvenCopyRemains, TrialIsCovered, Removed, Goto, Return, At, Movable, Wrecking, Locked, Active, Unlocked, Unswapped, Swapped, Contents, Codes, StillActive, Terminated, disk, process, history
<1>1. CASE AppStart(u)
  BY <1>1 DEF AppStart
<1>2. CASE AppExit(u)
  BY <1>2 DEF AppExit
<1>3. CASE Launch(u)
  BY <1>3 DEF Launch
<1>4. CASE Validate(u)
  BY <1>4 DEF Validate
<1>5. CASE TryLock(u)
  BY <1>5 DEF TryLock
<1>6. CASE Preflight(u)
  <2>1. lock = u /\ backup[u] = Absent /\ pc'[u] \notin Swapped
    BY <1>6 DEF Preflight
  <2>2. /\ UNCHANGED <<root, backup, proven>>
        /\ \A w \in Updaters \ {u} : exit'[w] = exit[w] /\ pc'[w] = pc[w]
    BY <1>6 DEF Preflight
  <2>3. QED BY <2>1, <2>2, CopyKept
<1>7. CASE OpenParent(u)
  <2>1. lock = u /\ backup[u] = Absent /\ pc'[u] \notin Swapped
    BY <1>7 DEF OpenParent
  <2>2. /\ UNCHANGED <<root, backup, proven>>
        /\ \A w \in Updaters \ {u} : exit'[w] = exit[w] /\ pc'[w] = pc[w]
    BY <1>7 DEF OpenParent
  <2>3. QED BY <2>1, <2>2, CopyKept
<1>8. CASE AwaitParent(u)
  <2>1. lock = u /\ backup[u] = Absent /\ pc'[u] \notin Swapped
    BY <1>8 DEF AwaitParent
  <2>2. /\ UNCHANGED <<root, backup, proven>>
        /\ \A w \in Updaters \ {u} : exit'[w] = exit[w] /\ pc'[w] = pc[w]
    BY <1>8 DEF AwaitParent
  <2>3. QED BY <2>1, <2>2, CopyKept
<1>9. CASE Verify(u)
  <2>1. lock = u /\ backup[u] = Absent /\ pc'[u] \notin Swapped
    BY <1>9 DEF Verify
  <2>2. /\ UNCHANGED <<root, backup, proven>>
        /\ \A w \in Updaters \ {u} : exit'[w] = exit[w] /\ pc'[w] = pc[w]
    BY <1>9 DEF Verify
  <2>3. QED BY <2>1, <2>2, CopyKept
<1>10. CASE MakeStaging(u)
  <2>1. lock = u /\ backup[u] = Absent /\ pc'[u] \notin Swapped
    BY <1>10 DEF MakeStaging
  <2>2. /\ UNCHANGED <<root, backup, proven>>
        /\ \A w \in Updaters \ {u} : exit'[w] = exit[w] /\ pc'[w] = pc[w]
    BY <1>10 DEF MakeStaging
  <2>3. QED BY <2>1, <2>2, CopyKept
<1>11. CASE Extract(u)
  <2>1. lock = u /\ backup[u] = Absent /\ pc'[u] \notin Swapped
    BY <1>11 DEF Extract
  <2>2. /\ UNCHANGED <<root, backup, proven>>
        /\ \A w \in Updaters \ {u} : exit'[w] = exit[w] /\ pc'[w] = pc[w]
    BY <1>11 DEF Extract
  <2>3. QED BY <2>1, <2>2, CopyKept
<1>12. CASE CheckStaged(u)
  <2>1. lock = u /\ backup[u] = Absent /\ pc'[u] \notin Swapped
    BY <1>12 DEF CheckStaged
  <2>2. /\ UNCHANGED <<root, backup, proven>>
        /\ \A w \in Updaters \ {u} : exit'[w] = exit[w] /\ pc'[w] = pc[w]
    BY <1>12 DEF CheckStaged
  <2>3. QED BY <2>1, <2>2, CopyKept
<1>13. CASE MoveOldAway(u)
  <2>1. lock = u /\ backup[u] = Absent
    BY <1>13 DEF MoveOldAway
  <2>2. CASE backup' = backup
    <3>1. /\ UNCHANGED <<root, proven>> /\ pc'[u] \notin Swapped
          /\ \A w \in Updaters \ {u} : exit'[w] = exit[w] /\ pc'[w] = pc[w]
      BY <2>1, <2>2, <1>13 DEF MoveOldAway
    <3>2. QED BY <2>1, <2>2, <3>1, CopyKept
  <2>3. CASE root # Absent /\ backup' = [backup EXCEPT ![u] = root]
    <3>1. UNCHANGED <<exit, lock, proven>>
      BY <1>13 DEF MoveOldAway
    <3>2. \E w \in Updaters : backup'[w] \in proven /\ (lock = w \/ exit[w] \in Wrecking)
      BY <2>1, <2>3, HeirOfTheWrecked
    <3>3. QED BY <3>1, <3>2
  <2>4. QED BY <1>13, <2>2, <2>3 DEF MoveOldAway
<1>14. CASE MoveNewIn(u)
  BY <1>14 DEF MoveNewIn
<1>15. CASE Unwind(u)
  BY <1>15 DEF Unwind
<1>16. CASE StartProbe(u)
  BY <1>16 DEF StartProbe
<1>17. CASE WatchProbe(u)
  BY <1>17 DEF WatchProbe
<1>18. CASE MoveFailedAside(u)
  BY <1>18 DEF MoveFailedAside
<1>19. CASE MoveBackupBack(u)
  BY <1>19 DEF MoveBackupBack
<1>20. CASE RelaunchOld(u)
  <2>1. lock = u /\ backup[u] = Absent /\ pc'[u] \notin Swapped
    BY <1>20 DEF RelaunchOld
  <2>2. /\ UNCHANGED <<root, backup, proven>>
        /\ \A w \in Updaters \ {u} : exit'[w] = exit[w] /\ pc'[w] = pc[w]
    BY <1>20 DEF RelaunchOld
  <2>3. QED BY <2>1, <2>2, CopyKept
<1>21. CASE RelaunchNew(u)
  BY <1>21 DEF RelaunchNew
<1>22. CASE DropBackup(u)
  BY <1>22 DEF DropBackup
<1>23. CASE ProbeConfirms(u)
  BY <1>23 DEF ProbeConfirms
<1>24. CASE ProbeQuits(u)
  BY <1>24 DEF ProbeQuits
<1>25. CASE ProbeFails(u)
  BY <1>25 DEF ProbeFails
<1>26. CASE Crash(u)
  BY <1>26 DEF Crash
<1>27. QED
  BY <1>1, <1>2, <1>3, <1>4, <1>5, <1>6, <1>7, <1>8, <1>9, <1>10, <1>11, <1>12, <1>13, <1>14, <1>15, <1>16, <1>17, <1>18, <1>19, <1>20, <1>21, <1>22, <1>23, <1>24, <1>25, <1>26 DEF App, Step, Probe

\* The strengthening holds of an installation no updater has touched.
LEMMA InitInv == Init => IInv
<1> SUFFICES ASSUME Init PROVE IInv
  OBVIOUS
<1> USE UpdaterAssumption DEF Init
<1>1. TypeOK
  BY InitType
<1>2. LockIsHeld
  BY DEF LockIsHeld, Locked
<1>3. \A u \in Updaters : Bookkeeping(u) /\ Placement(u) /\ Progress(u)
  BY DEF Bookkeeping, Placement, Progress, Locked, Unlocked, Unswapped, Swapped,
         StillActive
<1>4. RootIsRelease /\ ProvenCopyRemains /\ TrialIsCovered /\ proven \subseteq Versions
  BY DEF RootIsRelease, ProvenCopyRemains, TrialIsCovered, Swapped
<1>5. QED BY <1>1, <1>2, <1>3, <1>4 DEF IInv

\* The strengthening is kept: the lemmas above, one for each conjunct.
LEMMA NextInv == IInv /\ [Next]_vars => IInv'
<1> SUFFICES ASSUME IInv, [Next]_vars PROVE IInv'
  OBVIOUS
<1>1. ASSUME NEW u \in Updaters, App(u) \/ Step(u) \/ Probe(u) \/ Crash(u)
      PROVE  IInv'
  <2>1. TypeOK'
    BY <1>1, AppType, StepType, ProbeType, CrashType DEF IInv
  <2>2. \A v \in Updaters : Bookkeeping(v)' /\ Placement(v)' /\ Progress(v)'
    BY <1>1, BookkeepingStep, PlacementStep, ProgressStep
  <2>3. QED BY <1>1, <2>1, <2>2, LockStep, RootStep, CopyStep DEF IInv
<1>2. CASE UNCHANGED vars
  BY <1>2 DEF vars, IInv, TypeOK, LockIsHeld, Bookkeeping, Placement, Progress,
              RootIsRelease, ProvenCopyRemains, TrialIsCovered
<1>3. QED BY <1>1, <1>2 DEF Next

\* The strengthening that makes the safety properties below inductive.
THEOREM Invariant == Spec => []IInv
<1>1. QED BY InitInv, NextInv, PTL DEF Spec

-----------------------------------------------------------------------------
\* The safety properties.

\* No two updaters are past the lock at once.
THEOREM Exclusive == Spec => []MutualExclusion
<1>1. IInv => MutualExclusion
  BY DEF IInv, LockIsHeld, MutualExclusion
<1>2. QED BY <1>1, Invariant, PTL

\* The installation root holds a whole release or nothing.
THEOREM RootAlwaysRelease == Spec => []RootIsRelease
<1>1. IInv => RootIsRelease
  BY DEF IInv
<1>2. QED BY <1>1, Invariant, PTL

\* Whatever fails, a release known to run is on the disk where it can be found.
THEOREM CopyAlwaysRemains == Spec => []ProvenCopyRemains
<1>1. IInv => ProvenCopyRemains
  BY DEF IInv
<1>2. QED BY <1>1, Invariant, PTL

-----------------------------------------------------------------------------
\* The action properties.

\* An updater returns only with the exit code its path through main has earned.
LEMMA OutcomeStep ==
  ASSUME IInv, NEW u \in Updaters, App(u) \/ Step(u) \/ Probe(u) \/ Crash(u),
         NEW v \in Updaters
  PROVE  pc[v] # "exited" /\ pc'[v] = "exited" => Outcome(v)'
<1> USE UpdaterAssumption DEF IInv, TypeOK, LockIsHeld, Bookkeeping, Placement, Progress, Outcome, Goto, Return, At, Movable, Locked, Active, Unlocked, Unswapped, Swapped, Contents, Codes, StillActive, Terminated, disk, process, history
<1>1. CASE AppStart(u)
  BY <1>1 DEF AppStart
<1>2. CASE AppExit(u)
  BY <1>2 DEF AppExit
<1>3. CASE Launch(u)
  BY <1>3 DEF Launch
<1>4. CASE Validate(u)
  BY <1>4 DEF Validate
<1>5. CASE TryLock(u)
  BY <1>5 DEF TryLock
<1>6. CASE Preflight(u)
  BY <1>6 DEF Preflight
<1>7. CASE OpenParent(u)
  BY <1>7 DEF OpenParent
<1>8. CASE AwaitParent(u)
  BY <1>8 DEF AwaitParent
<1>9. CASE Verify(u)
  BY <1>9 DEF Verify
<1>10. CASE MakeStaging(u)
  BY <1>10 DEF MakeStaging
<1>11. CASE Extract(u)
  BY <1>11 DEF Extract
<1>12. CASE CheckStaged(u)
  BY <1>12 DEF CheckStaged
<1>13. CASE MoveOldAway(u)
  BY <1>13 DEF MoveOldAway
<1>14. CASE MoveNewIn(u)
  BY <1>14 DEF MoveNewIn
<1>15. CASE Unwind(u)
  BY <1>15 DEF Unwind
<1>16. CASE StartProbe(u)
  BY <1>16 DEF StartProbe
<1>17. CASE WatchProbe(u)
  BY <1>17 DEF WatchProbe
<1>18. CASE MoveFailedAside(u)
  BY <1>18 DEF MoveFailedAside
<1>19. CASE MoveBackupBack(u)
  BY <1>19 DEF MoveBackupBack
<1>20. CASE RelaunchOld(u)
  BY <1>20 DEF RelaunchOld
<1>21. CASE RelaunchNew(u)
  BY <1>21 DEF RelaunchNew
<1>22. CASE DropBackup(u)
  BY <1>22 DEF DropBackup
<1>23. CASE ProbeConfirms(u)
  BY <1>23 DEF ProbeConfirms
<1>24. CASE ProbeQuits(u)
  BY <1>24 DEF ProbeQuits
<1>25. CASE ProbeFails(u)
  BY <1>25 DEF ProbeFails
<1>26. CASE Crash(u)
  BY <1>26 DEF Crash
<1>27. QED
  BY <1>1, <1>2, <1>3, <1>4, <1>5, <1>6, <1>7, <1>8, <1>9, <1>10, <1>11, <1>12, <1>13, <1>14, <1>15, <1>16, <1>17, <1>18, <1>19, <1>20, <1>21, <1>22, <1>23, <1>24, <1>25, <1>26 DEF App, Step, Probe

\* The old tree is moved away only by an updater that has seen its parent
\* closed.
LEMMA ParentStep ==
  ASSUME IInv, NEW u \in Updaters, App(u) \/ Step(u) \/ Probe(u) \/ Crash(u),
         NEW v \in Updaters
  PROVE  backup[v] = Absent /\ backup'[v] # Absent => parent[v] = "closed"
<1> USE UpdaterAssumption DEF IInv, TypeOK, Bookkeeping, Placement, Goto, Return, At, Movable, Removed, disk, process, history
<1>1. CASE AppStart(u)
  BY <1>1 DEF AppStart
<1>2. CASE AppExit(u)
  BY <1>2 DEF AppExit
<1>3. CASE Launch(u)
  BY <1>3 DEF Launch
<1>4. CASE Validate(u)
  BY <1>4 DEF Validate
<1>5. CASE TryLock(u)
  BY <1>5 DEF TryLock
<1>6. CASE Preflight(u)
  BY <1>6 DEF Preflight
<1>7. CASE OpenParent(u)
  BY <1>7 DEF OpenParent
<1>8. CASE AwaitParent(u)
  BY <1>8 DEF AwaitParent
<1>9. CASE Verify(u)
  BY <1>9 DEF Verify
<1>10. CASE MakeStaging(u)
  BY <1>10 DEF MakeStaging
<1>11. CASE Extract(u)
  BY <1>11 DEF Extract
<1>12. CASE CheckStaged(u)
  BY <1>12 DEF CheckStaged
<1>13. CASE MoveOldAway(u)
  BY <1>13 DEF MoveOldAway
<1>14. CASE MoveNewIn(u)
  BY <1>14 DEF MoveNewIn
<1>15. CASE Unwind(u)
  BY <1>15 DEF Unwind
<1>16. CASE StartProbe(u)
  BY <1>16 DEF StartProbe
<1>17. CASE WatchProbe(u)
  BY <1>17 DEF WatchProbe
<1>18. CASE MoveFailedAside(u)
  BY <1>18 DEF MoveFailedAside
<1>19. CASE MoveBackupBack(u)
  BY <1>19 DEF MoveBackupBack
<1>20. CASE RelaunchOld(u)
  BY <1>20 DEF RelaunchOld
<1>21. CASE RelaunchNew(u)
  BY <1>21 DEF RelaunchNew
<1>22. CASE DropBackup(u)
  BY <1>22 DEF DropBackup
<1>23. CASE ProbeConfirms(u)
  BY <1>23 DEF ProbeConfirms
<1>24. CASE ProbeQuits(u)
  BY <1>24 DEF ProbeQuits
<1>25. CASE ProbeFails(u)
  BY <1>25 DEF ProbeFails
<1>26. CASE Crash(u)
  BY <1>26 DEF Crash
<1>27. QED
  BY <1>1, <1>2, <1>3, <1>4, <1>5, <1>6, <1>7, <1>8, <1>9, <1>10, <1>11, <1>12, <1>13, <1>14, <1>15, <1>16, <1>17, <1>18, <1>19, <1>20, <1>21, <1>22, <1>23, <1>24, <1>25, <1>26 DEF App, Step, Probe

\* An updater that returns has done what its exit code says.
THEOREM ExitCodesTrue == Spec => ExitCodesAreTrue
<1>1. IInv /\ [Next]_vars =>
        [\A u \in Updaters : pc[u] # "exited" /\ pc'[u] = "exited" => Outcome(u)']_vars
  BY OutcomeStep DEF Next
<1>2. QED BY <1>1, Invariant, PTL DEF Spec, ExitCodesAreTrue

\* The old tree is moved away only after the parent application has closed.
THEOREM ParentClosedBeforeSwap == Spec => SwapWaitsForParent
<1>1. IInv /\ [Next]_vars =>
        [\A u \in Updaters :
           backup[u] = Absent /\ backup'[u] # Absent => parent[u] = "closed"]_vars
  BY ParentStep DEF Next
<1>2. QED BY <1>1, Invariant, PTL DEF Spec, SwapWaitsForParent

-----------------------------------------------------------------------------
\* Updaters come to an end: what of it is a safety property.

\* The launch, each step of main() and its death are a descent in StepsLeft.
LEMMA DescentStep ==
  ASSUME TypeOK, NEW u \in Updaters, Launch(u) \/ Step(u) \/ Crash(u)
  PROVE  /\ Descends(u)
         /\ \A v \in Updaters \ {u} : pc'[v] = pc[v]
<1> USE DEF TypeOK, Descends, StepsLeft, Goto, Return, At, Active, Unlocked, Locked
<1>1. CASE Launch(u)
  BY <1>1 DEF Launch
<1>2. CASE Validate(u)
  BY <1>2 DEF Validate
<1>3. CASE TryLock(u)
  BY <1>3 DEF TryLock
<1>4. CASE Preflight(u)
  BY <1>4 DEF Preflight
<1>5. CASE OpenParent(u)
  BY <1>5 DEF OpenParent
<1>6. CASE AwaitParent(u)
  BY <1>6 DEF AwaitParent
<1>7. CASE Verify(u)
  BY <1>7 DEF Verify
<1>8. CASE MakeStaging(u)
  BY <1>8 DEF MakeStaging
<1>9. CASE Extract(u)
  BY <1>9 DEF Extract
<1>10. CASE CheckStaged(u)
  BY <1>10 DEF CheckStaged
<1>11. CASE MoveOldAway(u)
  BY <1>11 DEF MoveOldAway
<1>12. CASE MoveNewIn(u)
  BY <1>12 DEF MoveNewIn
<1>13. CASE Unwind(u)
  BY <1>13 DEF Unwind
<1>14. CASE StartProbe(u)
  BY <1>14 DEF StartProbe
<1>15. CASE WatchProbe(u)
  BY <1>15 DEF WatchProbe
<1>16. CASE MoveFailedAside(u)
  BY <1>16 DEF MoveFailedAside
<1>17. CASE MoveBackupBack(u)
  BY <1>17 DEF MoveBackupBack
<1>18. CASE RelaunchOld(u)
  BY <1>18 DEF RelaunchOld
<1>19. CASE RelaunchNew(u)
  BY <1>19 DEF RelaunchNew
<1>20. CASE DropBackup(u)
  BY <1>20 DEF DropBackup
<1>21. CASE Crash(u)
  BY <1>21 DEF Crash
<1>22. QED
  BY <1>1, <1>2, <1>3, <1>4, <1>5, <1>6, <1>7, <1>8, <1>9, <1>10, <1>11, <1>12, <1>13, <1>14, <1>15, <1>16, <1>17, <1>18, <1>19, <1>20, <1>21 DEF Step

\* What a probe that is watched may be, and what an updater waits for.
Watched(u) == pc[u] = "watchProbe" => probe[u] \in {"running", "quit", "failed"}

LEMMA WatchedStep ==
  ASSUME TypeOK, NEW v \in Updaters, Watched(v), NEW u \in Updaters,
         App(u) \/ Step(u) \/ Probe(u) \/ Crash(u)
  PROVE  Watched(v)'
<1> USE DEF TypeOK, Watched, Goto, Return, At, disk, process, history
<1>1. CASE AppStart(u)
  BY <1>1 DEF AppStart
<1>2. CASE AppExit(u)
  BY <1>2 DEF AppExit
<1>3. CASE Launch(u)
  BY <1>3 DEF Launch
<1>4. CASE Validate(u)
  BY <1>4 DEF Validate
<1>5. CASE TryLock(u)
  BY <1>5 DEF TryLock
<1>6. CASE Preflight(u)
  BY <1>6 DEF Preflight
<1>7. CASE OpenParent(u)
  BY <1>7 DEF OpenParent
<1>8. CASE AwaitParent(u)
  BY <1>8 DEF AwaitParent
<1>9. CASE Verify(u)
  BY <1>9 DEF Verify
<1>10. CASE MakeStaging(u)
  BY <1>10 DEF MakeStaging
<1>11. CASE Extract(u)
  BY <1>11 DEF Extract
<1>12. CASE CheckStaged(u)
  BY <1>12 DEF CheckStaged
<1>13. CASE MoveOldAway(u)
  BY <1>13 DEF MoveOldAway
<1>14. CASE MoveNewIn(u)
  BY <1>14 DEF MoveNewIn
<1>15. CASE Unwind(u)
  BY <1>15 DEF Unwind
<1>16. CASE StartProbe(u)
  BY <1>16 DEF StartProbe
<1>17. CASE WatchProbe(u)
  BY <1>17 DEF WatchProbe
<1>18. CASE MoveFailedAside(u)
  BY <1>18 DEF MoveFailedAside
<1>19. CASE MoveBackupBack(u)
  BY <1>19 DEF MoveBackupBack
<1>20. CASE RelaunchOld(u)
  BY <1>20 DEF RelaunchOld
<1>21. CASE RelaunchNew(u)
  BY <1>21 DEF RelaunchNew
<1>22. CASE DropBackup(u)
  BY <1>22 DEF DropBackup
<1>23. CASE ProbeConfirms(u)
  BY <1>23 DEF ProbeConfirms
<1>24. CASE ProbeQuits(u)
  BY <1>24 DEF ProbeQuits
<1>25. CASE ProbeFails(u)
  BY <1>25 DEF ProbeFails
<1>26. CASE Crash(u)
  BY <1>26 DEF Crash
<1>27. QED
  BY <1>1, <1>2, <1>3, <1>4, <1>5, <1>6, <1>7, <1>8, <1>9, <1>10, <1>11, <1>12, <1>13, <1>14, <1>15, <1>16, <1>17, <1>18, <1>19, <1>20, <1>21, <1>22, <1>23, <1>24, <1>25, <1>26 DEF App, Step, Probe

\* No step of main() is ever taken twice: an updater returns after at most 17 steps,
\* whatever fails and whatever the others do.
THEOREM StepsAlwaysDescend == Spec => StepsDescend
<1>1. ASSUME TypeOK, Next, NEW u \in Updaters, Step(u) \/ pc'[u] # pc[u]
      PROVE  Descends(u)
  <2>1. CASE Step(u)
    BY <1>1, <2>1, DescentStep
  <2>2. CASE pc'[u] # pc[u]
    <3>1. PICK v \in Updaters : App(v) \/ Step(v) \/ Probe(v) \/ Crash(v)
      BY <1>1 DEF Next
    <3>2. CASE Launch(v) \/ Step(v) \/ Crash(v)
      BY <1>1, <2>2, <3>2, DescentStep
    <3>3. CASE AppStart(v) \/ AppExit(v) \/ Probe(v)
      BY <2>2, <3>3 DEF AppStart, AppExit, Probe, ProbeConfirms, ProbeQuits, ProbeFails
    <3>4. QED BY <3>1, <3>2, <3>3 DEF App
  <2>3. QED BY <1>1, <2>1, <2>2
<1>2. TypeOK /\ [Next]_vars =>
        [\A u \in Updaters : Step(u) \/ pc'[u] # pc[u] => Descends(u)]_vars
  BY <1>1
<1>3. QED BY <1>2, TypeCorrect, PTL DEF Spec, StepsDescend

\* None of the three steps that need something of the parent, of the probe or of
\* the disk can stay without it.
THEOREM UpdatersNeverStuck == Spec => []NeverStuck
<1> DEFINE AllWatched == \A u \in Updaters : Watched(u)
<1>1. Init => AllWatched
  BY DEF Init, Watched
<1>2. IInv /\ AllWatched /\ [Next]_vars => AllWatched'
  <2> SUFFICES ASSUME IInv, AllWatched, [Next]_vars PROVE AllWatched'
    OBVIOUS
  <2>1. CASE Next
    BY <2>1, WatchedStep DEF Next, IInv
  <2>2. CASE UNCHANGED vars
    BY <2>2 DEF Watched, vars, process
  <2>3. QED BY <2>1, <2>2
<1>3. IInv /\ AllWatched => NeverStuck
  BY DEF IInv, TypeOK, Bookkeeping, Placement, Watched, NeverStuck, Movable
<1>4. QED BY <1>1, <1>2, <1>3, Invariant, PTL DEF Spec

-----------------------------------------------------------------------------
\* What is left on the disk when no file operation fails and nobody is killed.

NoDamage == Faults \cap {"crash", "disk", "extract", "rename"} = {}

\* Each directory of an updater holds something only between the step that makes
\* it and the one that clears it.
Tidy(u) ==
  /\ staging[u] # Absent =>
       pc[u] \in {"extract", "checkStaged", "moveOldAway", "moveNewIn", "unwind"}
  /\ aside[u] # Absent => pc[u] \in {"moveBackupBack", "relaunchOld"}
  /\ backup[u] # Absent => pc[u] # "exited"

\* Without damage every path of main to a return clears what it made: a rename
\* that can be done is done, and a removal removes.
LEMMA TidyStep ==
  ASSUME NoDamage, IInv, \A w \in Updaters : Tidy(w), NEW v \in Updaters,
         NEW u \in Updaters, App(u) \/ Step(u) \/ Probe(u) \/ Crash(u)
  PROVE  Tidy(v)'
<1> USE DEF NoDamage, Tidy, IInv, TypeOK, Placement, Fault, Removed, Goto, Return, At, Movable, Active, Unlocked, Locked, Unswapped, Swapped, disk, process, history
<1>1. CASE AppStart(u)
  BY <1>1 DEF AppStart
<1>2. CASE AppExit(u)
  BY <1>2 DEF AppExit
<1>3. CASE Launch(u)
  BY <1>3 DEF Launch
<1>4. CASE Validate(u)
  BY <1>4 DEF Validate
<1>5. CASE TryLock(u)
  BY <1>5 DEF TryLock
<1>6. CASE Preflight(u)
  BY <1>6 DEF Preflight
<1>7. CASE OpenParent(u)
  BY <1>7 DEF OpenParent
<1>8. CASE AwaitParent(u)
  BY <1>8 DEF AwaitParent
<1>9. CASE Verify(u)
  BY <1>9 DEF Verify
<1>10. CASE MakeStaging(u)
  BY <1>10 DEF MakeStaging
<1>11. CASE Extract(u)
  BY <1>11 DEF Extract
<1>12. CASE CheckStaged(u)
  BY <1>12 DEF CheckStaged
<1>13. CASE MoveOldAway(u)
  BY <1>13 DEF MoveOldAway
<1>14. CASE MoveNewIn(u)
  BY <1>14 DEF MoveNewIn
<1>15. CASE Unwind(u)
  BY <1>15 DEF Unwind
<1>16. CASE StartProbe(u)
  BY <1>16 DEF StartProbe
<1>17. CASE WatchProbe(u)
  BY <1>17 DEF WatchProbe
<1>18. CASE MoveFailedAside(u)
  BY <1>18 DEF MoveFailedAside
<1>19. CASE MoveBackupBack(u)
  <2>1. Movable(backup[u], root) /\ ~Fault("rename")
    BY <1>19, UpdaterAssumption DEF MoveBackupBack
  <2>2. backup'[u] = Absent /\ pc'[u] = "relaunchOld"
    BY <1>19, <2>1 DEF MoveBackupBack
  <2>3. QED BY <1>19, <2>1, <2>2 DEF MoveBackupBack
<1>20. CASE RelaunchOld(u)
  BY <1>20 DEF RelaunchOld
<1>21. CASE RelaunchNew(u)
  BY <1>21 DEF RelaunchNew
<1>22. CASE DropBackup(u)
  BY <1>22 DEF DropBackup
<1>23. CASE ProbeConfirms(u)
  BY <1>23 DEF ProbeConfirms
<1>24. CASE ProbeQuits(u)
  BY <1>24 DEF ProbeQuits
<1>25. CASE ProbeFails(u)
  BY <1>25 DEF ProbeFails
<1>26. CASE Crash(u)
  BY <1>26 DEF Crash
<1>27. QED
  BY <1>1, <1>2, <1>3, <1>4, <1>5, <1>6, <1>7, <1>8, <1>9, <1>10, <1>11, <1>12, <1>13, <1>14, <1>15, <1>16, <1>17, <1>18, <1>19, <1>20, <1>21, <1>22, <1>23, <1>24, <1>25, <1>26 DEF App, Step, Probe

\* When no rename, removal or extraction fails and no updater dies, one that has
\* returned leaves none of its three directories on the disk.
THEOREM NothingEverLeftBehind ==
  ASSUME NoDamage PROVE Spec => []NothingLeftBehind
<1> DEFINE AllTidy == \A u \in Updaters : Tidy(u)
<1>1. Init => AllTidy
  BY DEF Init, Tidy
<1>2. IInv /\ AllTidy /\ [Next]_vars => AllTidy'
  <2> SUFFICES ASSUME IInv, AllTidy, [Next]_vars PROVE AllTidy'
    OBVIOUS
  <2>1. CASE Next
    BY <2>1, TidyStep DEF Next
  <2>2. CASE UNCHANGED vars
    BY <2>2 DEF Tidy, vars
  <2>3. QED BY <2>1, <2>2
<1>3. AllTidy => NothingLeftBehind
  BY DEF Tidy, NothingLeftBehind
<1>4. QED BY <1>1, <1>2, <1>3, Invariant, PTL DEF Spec

-----------------------------------------------------------------------------
\* What a sound package can be refused for, without damage.

\* The probe has not answered, and will not.
Unanswered(u) == probe[u] # "running" /\ (probe[u] = "quit" => ~health[u])

\* The root is missing only between the two renames of a swap or of its undoing.
RootHeld ==
  root = Absent => \E u \in Updaters : pc[u] \in {"moveNewIn", "moveBackupBack"}

\* No rename fails, so what is left to end an update early is its package, its
\* probe, its parent, the other updaters and the restart.
Sound(u) ==
  /\ pc[u] # "unwind"
  /\ exit[u] \in {StillActive, 0, 3, 4, 7, 8, 11, 14, 15}
  /\ exit[u] \in {8, 11} => pack[u] # target[u]
  /\ exit[u] = 15 => confirmed[u]
  /\ exit[u] = 14 => Unanswered(u)
  /\ pc[u] \in {"moveFailedAside", "moveBackupBack", "relaunchOld"} /\ ~confirmed[u]
       => Unanswered(u)
  /\ probe[u] # "none" =>
       pc[u] \in {"watchProbe", "relaunchNew", "dropBackup", "moveFailedAside",
                  "moveBackupBack", "relaunchOld", "exited"}

\* The updater that has the lock when the root is missing is the one that moved it.
LEMMA RootHeldStep ==
  ASSUME NoDamage, IInv, RootHeld, NEW u \in Updaters,
         App(u) \/ Step(u) \/ Probe(u) \/ Crash(u)
  PROVE  RootHeld'
<1> USE UpdaterAssumption DEF NoDamage, RootHeld, IInv, TypeOK, LockIsHeld, Bookkeeping, Placement, Fault, Removed, Goto, Return, At, Movable, Active, Unlocked, Locked, Unswapped, Swapped, Contents, disk, process, history
<1>1. CASE AppStart(u)
  BY <1>1 DEF AppStart
<1>2. CASE AppExit(u)
  BY <1>2 DEF AppExit
<1>3. CASE Launch(u)
  BY <1>3 DEF Launch
<1>4. CASE Validate(u)
  BY <1>4 DEF Validate
<1>5. CASE TryLock(u)
  BY <1>5 DEF TryLock
<1>6. CASE Preflight(u)
  BY <1>6 DEF Preflight
<1>7. CASE OpenParent(u)
  BY <1>7 DEF OpenParent
<1>8. CASE AwaitParent(u)
  BY <1>8 DEF AwaitParent
<1>9. CASE Verify(u)
  BY <1>9 DEF Verify
<1>10. CASE MakeStaging(u)
  BY <1>10 DEF MakeStaging
<1>11. CASE Extract(u)
  BY <1>11 DEF Extract
<1>12. CASE CheckStaged(u)
  BY <1>12 DEF CheckStaged
<1>13. CASE MoveOldAway(u)
  BY <1>13 DEF MoveOldAway
<1>14. CASE MoveNewIn(u)
  BY <1>14 DEF MoveNewIn
<1>15. CASE Unwind(u)
  BY <1>15 DEF Unwind
<1>16. CASE StartProbe(u)
  BY <1>16 DEF StartProbe
<1>17. CASE WatchProbe(u)
  BY <1>17 DEF WatchProbe
<1>18. CASE MoveFailedAside(u)
  BY <1>18 DEF MoveFailedAside
<1>19. CASE MoveBackupBack(u)
  BY <1>19 DEF MoveBackupBack
<1>20. CASE RelaunchOld(u)
  BY <1>20 DEF RelaunchOld
<1>21. CASE RelaunchNew(u)
  BY <1>21 DEF RelaunchNew
<1>22. CASE DropBackup(u)
  BY <1>22 DEF DropBackup
<1>23. CASE ProbeConfirms(u)
  BY <1>23 DEF ProbeConfirms
<1>24. CASE ProbeQuits(u)
  BY <1>24 DEF ProbeQuits
<1>25. CASE ProbeFails(u)
  BY <1>25 DEF ProbeFails
<1>26. CASE Crash(u)
  BY <1>26 DEF Crash
<1>27. QED
  BY <1>1, <1>2, <1>3, <1>4, <1>5, <1>6, <1>7, <1>8, <1>9, <1>10, <1>11, <1>12, <1>13, <1>14, <1>15, <1>16, <1>17, <1>18, <1>19, <1>20, <1>21, <1>22, <1>23, <1>24, <1>25, <1>26 DEF App, Step, Probe

\* At a rename of the swap or of its undoing, the source is there and the
\* destination free.
LEMMA RenamesDone ==
  ASSUME IInv, RootHeld, NEW u \in Updaters
  PROVE  /\ At(u, "moveOldAway") => Movable(root, backup[u])
         /\ At(u, "moveNewIn") => Movable(staging[u], root)
         /\ At(u, "moveFailedAside") => Movable(root, aside[u])
         /\ At(u, "moveBackupBack") => Movable(backup[u], root)
<1> USE UpdaterAssumption DEF IInv, TypeOK, LockIsHeld, Bookkeeping, Placement, At, Movable, Locked, Unlocked, Unswapped, Swapped
<1>1. CASE At(u, "moveOldAway")
  <2>1. \A v \in Updaters : pc[v] \notin {"moveNewIn", "moveBackupBack"}
    BY <1>1
  <2>2. root # Absent
    BY <2>1 DEF RootHeld
  <2>3. QED BY <1>1, <2>2
<1>2. CASE At(u, "moveNewIn")
  BY <1>2
<1>3. CASE At(u, "moveFailedAside")
  BY <1>3
<1>4. CASE At(u, "moveBackupBack")
  BY <1>4
<1>5. QED BY <1>1, <1>2, <1>3, <1>4

LEMMA SoundStep ==
  ASSUME NoDamage, IInv, RootHeld, \A w \in Updaters : Sound(w), NEW v \in Updaters,
         NEW u \in Updaters, App(u) \/ Step(u) \/ Probe(u) \/ Crash(u)
  PROVE  Sound(v)'
<1> USE UpdaterAssumption DEF NoDamage, Sound, Unanswered, IInv, TypeOK, Bookkeeping, Progress, Fault, Goto, Return, At, StillActive, Terminated, Active, Unlocked, Locked, LooksLike, disk, process, history
<1>1. CASE AppStart(u)
  BY <1>1 DEF AppStart
<1>2. CASE AppExit(u)
  BY <1>2 DEF AppExit
<1>3. CASE Launch(u)
  BY <1>3 DEF Launch
<1>4. CASE Validate(u)
  BY <1>4 DEF Validate
<1>5. CASE TryLock(u)
  BY <1>5 DEF TryLock
<1>6. CASE Preflight(u)
  BY <1>6 DEF Preflight
<1>7. CASE OpenParent(u)
  BY <1>7 DEF OpenParent
<1>8. CASE AwaitParent(u)
  BY <1>8 DEF AwaitParent
<1>9. CASE Verify(u)
  BY <1>9 DEF Verify
<1>10. CASE MakeStaging(u)
  BY <1>10 DEF MakeStaging
<1>11. CASE Extract(u)
  BY <1>11 DEF Extract
<1>12. CASE CheckStaged(u)
  BY <1>12 DEF CheckStaged
<1>13. CASE MoveOldAway(u)
  BY <1>13, RenamesDone DEF MoveOldAway
<1>14. CASE MoveNewIn(u)
  BY <1>14, RenamesDone DEF MoveNewIn
<1>15. CASE Unwind(u)
  BY <1>15 DEF Unwind
<1>16. CASE StartProbe(u)
  BY <1>16 DEF StartProbe
<1>17. CASE WatchProbe(u)
  BY <1>17 DEF WatchProbe
<1>18. CASE MoveFailedAside(u)
  BY <1>18, RenamesDone DEF MoveFailedAside
<1>19. CASE MoveBackupBack(u)
  BY <1>19, RenamesDone DEF MoveBackupBack
<1>20. CASE RelaunchOld(u)
  BY <1>20 DEF RelaunchOld
<1>21. CASE RelaunchNew(u)
  BY <1>21 DEF RelaunchNew
<1>22. CASE DropBackup(u)
  BY <1>22 DEF DropBackup
<1>23. CASE ProbeConfirms(u)
  BY <1>23 DEF ProbeConfirms
<1>24. CASE ProbeQuits(u)
  BY <1>24 DEF ProbeQuits
<1>25. CASE ProbeFails(u)
  BY <1>25 DEF ProbeFails
<1>26. CASE Crash(u)
  BY <1>26 DEF Crash
<1>27. QED
  BY <1>1, <1>2, <1>3, <1>4, <1>5, <1>6, <1>7, <1>8, <1>9, <1>10, <1>11, <1>12, <1>13, <1>14, <1>15, <1>16, <1>17, <1>18, <1>19, <1>20, <1>21, <1>22, <1>23, <1>24, <1>25, <1>26 DEF App, Step, Probe

\* When no file operation fails and no updater dies, an updater refuses a sound
\* package only because of another updater, of its parent process, of a probe that
\* did not answer or of a restart that failed: nothing main() does itself stands in
\* its own way.
THEOREM SoundlyInstalled ==
  ASSUME NoDamage PROVE Spec => []SoundNeverRefused
<1> DEFINE AllSound == RootHeld /\ \A u \in Updaters : Sound(u)
<1>1. Init => AllSound
  BY UpdaterAssumption DEF Init, RootHeld, Sound, StillActive
<1>2. IInv /\ AllSound /\ [Next]_vars => AllSound'
  <2> SUFFICES ASSUME IInv, AllSound, [Next]_vars PROVE AllSound'
    OBVIOUS
  <2>1. CASE Next
    BY <2>1, RootHeldStep, SoundStep DEF Next
  <2>2. CASE UNCHANGED vars
    BY <2>2 DEF RootHeld, Sound, Unanswered, vars
  <2>3. QED BY <2>1, <2>2
<1>3. IInv /\ AllSound => SoundNeverRefused
  BY DEF Sound, Unanswered, SoundNeverRefused, Excused, IInv, Bookkeeping
<1>4. QED BY <1>1, <1>2, <1>3, Invariant, PTL DEF Spec

-----------------------------------------------------------------------------
\* The updaters implement AtomicUpdate.

\* What a step of u may do to the abstract state of u.
Stays(u) == /\ HowItEnded(u)' = HowItEnded(u)
            /\ Spared(u)' = Spared(u)
            /\ Installed' = Installed
Rejects(u) == /\ HowItEnded(u) = "pending" /\ HowItEnded(u)' = "rejected"
              /\ Installed' = Installed
Installs(u) == /\ HowItEnded(u) = "pending" /\ HowItEnded(u)' = "installed"
               /\ Installed' = target[u] /\ target[u] \in Versions
Wrecks(u) == /\ HowItEnded(u) = "pending" /\ HowItEnded(u)' = "wrecked"
             /\ Installed \in Versions /\ backup'[u] = Installed
             /\ Installed' \in {Absent, target[u]}

\* For the abstract update, a step of an updater decides nothing or settles one
\* of the three fates.
LEMMA FateStep ==
  ASSUME IInv, NEW u \in Updaters, App(u) \/ Step(u) \/ Probe(u) \/ Crash(u)
  PROVE  Stays(u) \/ Rejects(u) \/ Installs(u) \/ Wrecks(u)
<1> USE UpdaterAssumption DEF IInv, TypeOK, LockIsHeld, Bookkeeping, Placement, Progress, Stays, Rejects, Installs, Wrecks, HowItEnded, Spared, Installed, Removed, Goto, Return, At, Movable, Locked, Active, Unlocked, Unswapped, Swapped, Contents, disk, process, history
<1>1. CASE AppStart(u)
  BY <1>1 DEF AppStart
<1>2. CASE AppExit(u)
  BY <1>2 DEF AppExit
<1>3. CASE Launch(u)
  BY <1>3 DEF Launch
<1>4. CASE Validate(u)
  BY <1>4 DEF Validate
<1>5. CASE TryLock(u)
  BY <1>5 DEF TryLock
<1>6. CASE Preflight(u)
  BY <1>6 DEF Preflight
<1>7. CASE OpenParent(u)
  BY <1>7 DEF OpenParent
<1>8. CASE AwaitParent(u)
  BY <1>8 DEF AwaitParent
<1>9. CASE Verify(u)
  BY <1>9 DEF Verify
<1>10. CASE MakeStaging(u)
  BY <1>10 DEF MakeStaging
<1>11. CASE Extract(u)
  BY <1>11 DEF Extract
<1>12. CASE CheckStaged(u)
  BY <1>12 DEF CheckStaged
<1>13. CASE MoveOldAway(u)
  BY <1>13 DEF MoveOldAway
<1>14. CASE MoveNewIn(u)
  BY <1>14 DEF MoveNewIn
<1>15. CASE Unwind(u)
  BY <1>15 DEF Unwind
<1>16. CASE StartProbe(u)
  BY <1>16 DEF StartProbe
<1>17. CASE WatchProbe(u)
  BY <1>17 DEF WatchProbe
<1>18. CASE MoveFailedAside(u)
  BY <1>18 DEF MoveFailedAside
<1>19. CASE MoveBackupBack(u)
  BY <1>19 DEF MoveBackupBack
<1>20. CASE RelaunchOld(u)
  BY <1>20 DEF RelaunchOld
<1>21. CASE RelaunchNew(u)
  BY <1>21 DEF RelaunchNew
<1>22. CASE DropBackup(u)
  BY <1>22 DEF DropBackup
<1>23. CASE ProbeConfirms(u)
  BY <1>23 DEF ProbeConfirms
<1>24. CASE ProbeQuits(u)
  BY <1>24 DEF ProbeQuits
<1>25. CASE ProbeFails(u)
  BY <1>25 DEF ProbeFails
<1>26. CASE Crash(u)
  BY <1>26 DEF Crash
<1>27. QED
  BY <1>1, <1>2, <1>3, <1>4, <1>5, <1>6, <1>7, <1>8, <1>9, <1>10, <1>11, <1>12, <1>13, <1>14, <1>15, <1>16, <1>17, <1>18, <1>19, <1>20, <1>21, <1>22, <1>23, <1>24, <1>25, <1>26 DEF App, Step, Probe

\* A step of one updater leaves alone what the abstract update sees of the
\* others.
LEMMA OthersStep ==
  ASSUME IInv, NEW u \in Updaters, App(u) \/ Step(u) \/ Probe(u) \/ Crash(u),
         NEW v \in Updaters \ {u}
  PROVE  /\ pc'[v] = pc[v] /\ backup'[v] = backup[v] /\ committed'[v] = committed[v]
         /\ target'[v] = target[v]
<1> USE UpdaterAssumption DEF IInv, TypeOK, Goto, Return, At, disk, process, history
<1>1. CASE AppStart(u)
  BY <1>1 DEF AppStart
<1>2. CASE AppExit(u)
  BY <1>2 DEF AppExit
<1>3. CASE Launch(u)
  BY <1>3 DEF Launch
<1>4. CASE Validate(u)
  BY <1>4 DEF Validate
<1>5. CASE TryLock(u)
  BY <1>5 DEF TryLock
<1>6. CASE Preflight(u)
  BY <1>6 DEF Preflight
<1>7. CASE OpenParent(u)
  BY <1>7 DEF OpenParent
<1>8. CASE AwaitParent(u)
  BY <1>8 DEF AwaitParent
<1>9. CASE Verify(u)
  BY <1>9 DEF Verify
<1>10. CASE MakeStaging(u)
  BY <1>10 DEF MakeStaging
<1>11. CASE Extract(u)
  BY <1>11 DEF Extract
<1>12. CASE CheckStaged(u)
  BY <1>12 DEF CheckStaged
<1>13. CASE MoveOldAway(u)
  BY <1>13 DEF MoveOldAway
<1>14. CASE MoveNewIn(u)
  BY <1>14 DEF MoveNewIn
<1>15. CASE Unwind(u)
  BY <1>15 DEF Unwind
<1>16. CASE StartProbe(u)
  BY <1>16 DEF StartProbe
<1>17. CASE WatchProbe(u)
  BY <1>17 DEF WatchProbe
<1>18. CASE MoveFailedAside(u)
  BY <1>18 DEF MoveFailedAside
<1>19. CASE MoveBackupBack(u)
  BY <1>19 DEF MoveBackupBack
<1>20. CASE RelaunchOld(u)
  BY <1>20 DEF RelaunchOld
<1>21. CASE RelaunchNew(u)
  BY <1>21 DEF RelaunchNew
<1>22. CASE DropBackup(u)
  BY <1>22 DEF DropBackup
<1>23. CASE ProbeConfirms(u)
  BY <1>23 DEF ProbeConfirms
<1>24. CASE ProbeQuits(u)
  BY <1>24 DEF ProbeQuits
<1>25. CASE ProbeFails(u)
  BY <1>25 DEF ProbeFails
<1>26. CASE Crash(u)
  BY <1>26 DEF Crash
<1>27. QED
  BY <1>1, <1>2, <1>3, <1>4, <1>5, <1>6, <1>7, <1>8, <1>9, <1>10, <1>11, <1>12, <1>13, <1>14, <1>15, <1>16, <1>17, <1>18, <1>19, <1>20, <1>21, <1>22, <1>23, <1>24, <1>25, <1>26 DEF App, Step, Probe

\* Only a window that opens changes what is offered, and only its own updater is.
LEMMA OfferStep ==
  ASSUME IInv, NEW u \in Updaters, App(u) \/ Step(u) \/ Probe(u) \/ Crash(u)
  PROVE  \/ target' = target
         \/ /\ target[u] = Absent /\ HowItEnded(u) = "pending" /\ Stays(u)
            /\ \E v \in Versions : target' = [target EXCEPT ![u] = v]
<1>1. CASE AppStart(u)
  BY <1>1 DEF AppStart, IInv, Bookkeeping, Placement, Progress, HowItEnded, Spared,
              Installed, Stays, disk, history
<1>2. CASE ~AppStart(u)
  BY <1>2 DEF App, AppExit, Launch, Step, Validate, TryLock, Preflight, OpenParent,
     AwaitParent, Verify, MakeStaging, Extract, CheckStaged, MoveOldAway, MoveNewIn,
     Unwind, StartProbe, WatchProbe, MoveFailedAside, MoveBackupBack, RelaunchOld,
     RelaunchNew, DropBackup, Probe, ProbeConfirms, ProbeQuits, ProbeFails, Crash, process
<1>3. QED BY <1>1, <1>2

\* A step of one updater is a step of the atomic update, or a stutter.
LEMMA StepRefines ==
  ASSUME IInv, NEW u \in Updaters, App(u) \/ Step(u) \/ Probe(u) \/ Crash(u)
  PROVE  Promise!ANext \/ UNCHANGED Promise!avars
<1> DEFINE outcome == [v \in Updaters |-> HowItEnded(v)]
           spared == [v \in Updaters |-> Spared(v)]
<1>1. \A v \in Updaters \ {u} : HowItEnded(v)' = HowItEnded(v) /\ Spared(v)' = Spared(v)
  BY OthersStep DEF HowItEnded, Spared
<1>2. outcome' = [outcome EXCEPT ![u] = HowItEnded(u)']
  BY <1>1
<1>3. spared' = [spared EXCEPT ![u] = Spared(u)']
  BY <1>1
<1>4. CASE Stays(u)
  <2>1. UNCHANGED <<outcome, spared, Installed>>
    BY <1>2, <1>3, <1>4 DEF Stays
  <2>2. CASE target' = target
    BY <2>1, <2>2 DEF Promise!avars
  <2>3. CASE /\ target[u] = Absent /\ HowItEnded(u) = "pending"
             /\ \E v \in Versions : target' = [target EXCEPT ![u] = v]
    <3>1. Promise!Offer(u)
      BY <2>1, <2>3 DEF Promise!Offer
    <3>2. QED BY <3>1 DEF Promise!ANext
  <2>4. QED BY <2>2, <2>3, OfferStep
<1>5. CASE ~Stays(u) /\ HowItEnded(u) = "pending"
  <2> DEFINE how == HowItEnded(u)'
  <2>1. target' = target
    BY <1>5, OfferStep
  <2>2. Promise!Conclude(u, how)
    BY <1>2, <1>5, <2>1 DEF Promise!Conclude
  <2>3. CASE Rejects(u)
    <3>1. UNCHANGED spared
      BY <1>3, <2>3 DEF Rejects, Spared
    <3>2. Promise!Reject(u)
      BY <2>2, <2>3, <3>1 DEF Promise!Reject, Rejects
    <3>3. QED BY <3>2 DEF Promise!ANext
  <2>4. CASE Installs(u)
    <3>1. UNCHANGED spared
      BY <1>3, <2>4 DEF Installs, Spared
    <3>2. Promise!Install(u)
      BY <2>2, <2>4, <3>1 DEF Promise!Install, Installs
    <3>3. QED BY <3>2 DEF Promise!ANext
  <2>5. CASE Wrecks(u)
    <3>1. spared' = [spared EXCEPT ![u] = Installed]
      BY <1>3, <2>5 DEF Wrecks, Spared
    <3>2. Promise!Wreck(u)
      BY <2>2, <2>5, <3>1 DEF Promise!Wreck, Wrecks
    <3>3. QED BY <3>2 DEF Promise!ANext
  <2>6. QED BY <1>5, <2>3, <2>4, <2>5, FateStep
<1>6. QED BY <1>4, <1>5, FateStep DEF Rejects, Installs, Wrecks

\* An untouched installation is an initial state of the atomic update.
LEMMA InitRefines == Init => Promise!AInit
  BY UpdaterAssumption DEF Init, Promise!AInit, Installed, HowItEnded, Spared

\* Updates are atomic: whatever the interleaving and the faults, the updaters
\* install, reject or wreck one release at a time.
THEOREM AtomicityRefined == Spec => IsAtomicUpdate
<1>1. IInv /\ [Next]_vars => [Promise!ANext]_Promise!avars
  <2> SUFFICES ASSUME IInv, [Next]_vars PROVE [Promise!ANext]_Promise!avars
    OBVIOUS
  <2>1. CASE Next
    BY <2>1, StepRefines DEF Next
  <2>2. CASE UNCHANGED vars
    BY <2>2 DEF vars, Promise!avars, Installed, HowItEnded, Spared
  <2>3. QED BY <2>1, <2>2
<1>2. QED BY <1>1, InitRefines, Invariant, PTL DEF Spec, IsAtomicUpdate, Promise!ASpec

=============================================================================
