------------------------------ MODULE Updater ------------------------------
(***************************************************************************)
(* The external updater of RosPlotJugglerStudio (tools/updater/main.cpp):  *)
(* a helper process that swaps the installation directory for a downloaded *)
(* release, tries the new application out and rolls back when it does not  *)
(* come up.                                                                *)
(*                                                                         *)
(* Several updaters may be alive at once, one per application window that  *)
(* asked for an update; they share one installation root and one lock      *)
(* file.  Each has a backup, a staging and an aside ("failed-...")         *)
(* directory of its own, named with a fresh token.  A directory is         *)
(* abstracted to what it holds: a release, nothing, an incomplete tree, or *)
(* a tree unpacked from bytes that are not the release's.                  *)
(*                                                                         *)
(* Faults names what the environment may do wrong.                         *)
(***************************************************************************)
EXTENDS Naturals

CONSTANTS
  Updaters,   \* updater processes, each with the application that starts it
  Versions,   \* releases, ordered as their version numbers are
  Absent,     \* the directory does not exist
  Broken,     \* an incomplete tree: half unpacked, half removed, or misbuilt
  Altered,    \* a tree unpacked from an archive whose hash is not the manifest's
  NoOne,      \* nobody holds the lock
  Faults      \* what may go wrong

FaultKinds == {"crash", "disk", "extract", "package", "probe", "rename", "spawn"}

ASSUME UpdaterAssumption ==
  /\ Versions \subseteq Nat
  /\ Faults \subseteq FaultKinds
  /\ NoOne \notin Updaters
  /\ {Absent, Broken, Altered} \cap Versions = {}
  /\ Absent # Broken /\ Absent # Altered /\ Broken # Altered

VARIABLES
  root,       \* what the installation directory holds
  backup,     \* what the backup directory of each updater holds
  staging,    \* what its staging directory holds
  aside,      \* what its ".failed-" directory holds
  lock,       \* holder of .rspj-update.lock
  parent,     \* the application that starts the updater
  target,     \* the release that application is offered
  pack,       \* what the downloaded archive unpacks to
  pc,         \* where main() of the updater stands
  exit,       \* its exit code
  probe,      \* the application started with --update-health-file
  health,     \* whether the health file exists
  confirmed,  \* whether runHealthProbe succeeded (phase of restoreBackup)
  \* history, read by the properties only:
  before,     \* what root held when the updater took the lock
  committed,  \* whether the updater restarted the new application
  proven      \* releases that were shipped or passed a health probe

vars == <<root, backup, staging, aside, lock, parent, target, pack, pc, exit,
          probe, health, confirmed, before, committed, proven>>

disk    == <<root, backup, staging, aside>>
process == <<parent, target, pack, probe, health>>
history == <<before, committed, proven>>

Contents == Versions \cup {Absent, Broken, Altered}

\* The steps main() takes before it owns the lock, and the ones it takes with it.
Unlocked == {"validate", "tryLock"}
Locked == {"preflight", "openParent", "awaitParent", "verify", "makeStaging",
           "extract", "checkStaged", "moveOldAway", "moveNewIn", "unwind",
           "startProbe", "watchProbe", "moveFailedAside", "moveBackupBack",
           "relaunchOld", "relaunchNew", "dropBackup"}
Active == Unlocked \cup Locked

\* What GetExitCodeProcess tells of an updater: it runs, it was terminated, or
\* one of the codes main() returns.  Code 2, malformed arguments, never happens:
\* launchExternalUpdater builds the command line.
StillActive == 259
Terminated == 1
Codes == {0, StillActive, Terminated} \cup (3 .. 15)

TypeOK ==
  /\ root \in Contents
  /\ backup \in [Updaters -> Contents]
  /\ staging \in [Updaters -> Contents]
  /\ aside \in [Updaters -> Contents]
  /\ lock \in Updaters \cup {NoOne}
  /\ parent \in [Updaters -> {"unborn", "running", "closed"}]
  /\ target \in [Updaters -> Versions \cup {Absent}]
  /\ pack \in [Updaters -> Contents]
  /\ pc \in [Updaters -> Active \cup {"off", "exited"}]
  /\ exit \in [Updaters -> Codes]
  /\ probe \in [Updaters -> {"none", "running", "quit", "failed", "killed"}]
  /\ health \in [Updaters -> BOOLEAN]
  /\ confirmed \in [Updaters -> BOOLEAN]
  /\ before \in [Updaters -> Contents]
  /\ committed \in [Updaters -> BOOLEAN]
  /\ proven \in SUBSET (Versions \cup {Absent})

Init ==
  /\ root \in Versions
  /\ backup = [u \in Updaters |-> Absent]
  /\ staging = [u \in Updaters |-> Absent]
  /\ aside = [u \in Updaters |-> Absent]
  /\ lock = NoOne
  /\ parent = [u \in Updaters |-> "unborn"]
  /\ target = [u \in Updaters |-> Absent]
  /\ pack = [u \in Updaters |-> Absent]
  /\ pc = [u \in Updaters |-> "off"]
  /\ exit = [u \in Updaters |-> StillActive]
  /\ probe = [u \in Updaters |-> "none"]
  /\ health = [u \in Updaters |-> FALSE]
  /\ confirmed = [u \in Updaters |-> FALSE]
  /\ before = [u \in Updaters |-> Absent]
  /\ committed = [u \in Updaters |-> FALSE]
  /\ proven = {root}

-----------------------------------------------------------------------------
\* The control flow of main(): u stands at a step, moves to the next one, or
\* returns, which destroys the QLockFile and so releases the lock it holds.

At(u, step) == pc[u] = step

Goto(u, step) ==
  /\ pc' = [pc EXCEPT ![u] = step]
  /\ UNCHANGED <<exit, lock>>

Return(u, code) ==
  /\ pc' = [pc EXCEPT ![u] = "exited"]
  /\ exit' = [exit EXCEPT ![u] = code]
  /\ lock' = IF lock = u THEN NoOne ELSE lock

Fault(kind) == kind \in Faults

\* removeRecursively() may leave something behind; its result is never read.
Removed == IF Fault("disk") THEN {Absent, Broken} ELSE {Absent}

-----------------------------------------------------------------------------
\* The application that asks for the update.

\* A window is opened from the installed directory.  The checker of that window
\* only ever offers releases newer than the one it runs.
AppStart(u) ==
  /\ parent[u] = "unborn"
  /\ root \in Versions
  /\ \E v \in Versions : v > root /\ target' = [target EXCEPT ![u] = v]
  /\ parent' = [parent EXCEPT ![u] = "running"]
  /\ UNCHANGED <<disk, history, pack, probe, health, lock, pc, exit, confirmed>>

\* The user closes the window, or gives way to the close the updater asks for.
AppExit(u) ==
  /\ parent[u] = "running"
  /\ parent' = [parent EXCEPT ![u] = "closed"]
  /\ UNCHANGED <<disk, history, target, pack, probe, health, lock, pc, exit, confirmed>>

\* launchExternalUpdater: the archive was verified when it was downloaded; it
\* may be damaged since, or have been built without the files it must hold.
Launch(u) ==
  /\ parent[u] = "running"
  /\ At(u, "off")
  /\ \E p \in IF Fault("package") THEN {target[u], Broken, Altered} ELSE {target[u]} :
       pack' = [pack EXCEPT ![u] = p]
  /\ Goto(u, "validate")
  /\ UNCHANGED <<disk, history, parent, target, probe, health, confirmed>>

-----------------------------------------------------------------------------
\* main(), from the preflight to the staged package.

\* The root must hold a valid marker, and the archive and the
\* extractor's script must still be files on the disk.
Validate(u) ==
  /\ At(u, "validate")
  /\ \/ root \in Versions /\ Goto(u, "tryLock")
     \/ /\ Fault("disk") \/ root \notin Versions
        /\ Return(u, 3)
  /\ UNCHANGED <<disk, process, history, confirmed>>

\* Variant: a lock that is held is taken all the same.
TryLockUnchecked(u) ==
  /\ At(u, "tryLock")
  /\ lock' = u
  /\ pc' = [pc EXCEPT ![u] = "preflight"]
  /\ before' = [before EXCEPT ![u] = root]
  /\ UNCHANGED <<disk, process, exit, confirmed, committed, proven>>

TryLock(u) ==
  /\ At(u, "tryLock")
  /\ \/ /\ lock = NoOne
        /\ lock' = u
        /\ pc' = [pc EXCEPT ![u] = "preflight"]
        /\ before' = [before EXCEPT ![u] = root]
        /\ UNCHANGED exit
     \/ /\ lock # NoOne
        /\ Return(u, 4)
        /\ UNCHANGED before
  /\ UNCHANGED <<disk, process, confirmed, committed, proven>>

Preflight(u) ==
  /\ At(u, "preflight")
  /\ \/ Goto(u, "openParent")
     \/ Fault("disk") /\ \E code \in {5, 6} : Return(u, code)
  /\ UNCHANGED <<disk, process, history, confirmed>>

\* OpenProcess finds no process for a parent that is already gone, unless
\* something else in the system still holds a handle of it.
OpenParent(u) ==
  /\ At(u, "openParent")
  /\ \/ Goto(u, "awaitParent")
     \/ parent[u] = "closed" /\ Return(u, 7)
  /\ UNCHANGED <<disk, process, history, confirmed>>

\* Variant: the wait has no deadline.
AwaitParentForever(u) ==
  /\ At(u, "awaitParent")
  /\ parent[u] = "closed"
  /\ Goto(u, "verify")
  /\ UNCHANGED <<disk, process, history, confirmed>>

AwaitParent(u) ==
  /\ At(u, "awaitParent")
  /\ \/ parent[u] = "closed" /\ Goto(u, "verify")
     \/ parent[u] = "running" /\ Return(u, 7)
  /\ UNCHANGED <<disk, process, history, confirmed>>

\* Variant: the package is trusted since it was verified when downloaded.
VerifyOnce(u) ==
  /\ At(u, "verify")
  /\ Goto(u, "makeStaging")
  /\ UNCHANGED <<disk, process, history, confirmed>>

Verify(u) ==
  /\ At(u, "verify")
  /\ \/ pack[u] # Altered /\ Goto(u, "makeStaging")
     \/ pack[u] = Altered /\ Return(u, 8)
  /\ UNCHANGED <<disk, process, history, confirmed>>

MakeStaging(u) ==
  /\ At(u, "makeStaging")
  /\ \/ /\ staging' = [staging EXCEPT ![u] = Broken]
        /\ Goto(u, "extract")
     \/ /\ Fault("disk")
        /\ Return(u, 9)
        /\ UNCHANGED staging
  /\ UNCHANGED <<root, backup, aside, process, history, confirmed>>

\* The PowerShell extractor ends well, or fails or is given up after 30 minutes.
\* One that is given up still writes while staging is removed.
Extract(u) ==
  /\ At(u, "extract")
  /\ \/ /\ staging' = [staging EXCEPT ![u] = pack[u]]
        /\ Goto(u, "checkStaged")
     \/ /\ Fault("extract")
        /\ \E d \in {Absent, Broken} : staging' = [staging EXCEPT ![u] = d]
        /\ Return(u, 10)
  /\ UNCHANGED <<root, backup, aside, process, history, confirmed>>

\* One top-level directory with the marker of the expected version and the
\* three required files: structure only, the bytes were verified before.
LooksLike(u, content) == content \in {target[u], Altered}

CheckStaged(u) ==
  /\ At(u, "checkStaged")
  /\ \/ /\ LooksLike(u, staging[u])
        /\ Goto(u, "moveOldAway")
        /\ UNCHANGED staging
     \/ /\ ~LooksLike(u, staging[u])
        /\ \E d \in Removed : staging' = [staging EXCEPT ![u] = d]
        /\ Return(u, 11)
  /\ UNCHANGED <<root, backup, aside, process, history, confirmed>>

-----------------------------------------------------------------------------
\* The swap.  A rename needs a source and no destination; it fails as well when
\* another process keeps a file below the directory open.

Movable(from, to) == from # Absent /\ to = Absent

MoveOldAway(u) ==
  /\ At(u, "moveOldAway")
  /\ \/ /\ Movable(root, backup[u])
        /\ backup' = [backup EXCEPT ![u] = root]
        /\ root' = Absent
        /\ Goto(u, "moveNewIn")
        /\ UNCHANGED staging
     \/ /\ Fault("rename") \/ ~Movable(root, backup[u])
        /\ Goto(u, "unwind")
        /\ UNCHANGED <<root, backup, staging>>
  /\ UNCHANGED <<aside, process, history, confirmed>>

MoveNewIn(u) ==
  /\ At(u, "moveNewIn")
  /\ \/ /\ Movable(staging[u], root)
        /\ root' = staging[u]
        /\ \E d \in Removed : staging' = [staging EXCEPT ![u] = d]
        /\ Goto(u, "startProbe")
     \/ /\ Fault("rename") \/ ~Movable(staging[u], root)
        /\ Goto(u, "unwind")
        /\ UNCHANGED <<root, staging>>
  /\ UNCHANGED <<backup, aside, process, history, confirmed>>

\* "Atomic directory swap failed": put the old directory back if it was moved.
\* Whether that rename worked is not looked at.
Unwind(u) ==
  /\ At(u, "unwind")
  /\ \/ /\ Movable(backup[u], root)
        /\ root' = backup[u]
        /\ backup' = [backup EXCEPT ![u] = Absent]
     \/ /\ Fault("rename") \/ ~Movable(backup[u], root)
        /\ UNCHANGED <<root, backup>>
  /\ \E d \in Removed : staging' = [staging EXCEPT ![u] = d]
  /\ Return(u, 12)
  /\ UNCHANGED <<aside, process, history, confirmed>>

-----------------------------------------------------------------------------
\* The health probe: the new application, started from the new root.

\* Variants: a probe that cannot be started is no reason to roll back, or the
\* result of waitForStarted is read the wrong way round.
StartProbeOptional(u) ==
  /\ At(u, "startProbe")
  /\ \/ /\ probe' = [probe EXCEPT ![u] = "running"]
        /\ Goto(u, "watchProbe")
     \/ /\ Fault("probe")
        /\ Goto(u, "relaunchNew")
        /\ UNCHANGED probe
  /\ UNCHANGED <<disk, parent, target, pack, health, history, confirmed>>

StartProbeInverted(u) ==
  /\ At(u, "startProbe")
  /\ probe' = [probe EXCEPT ![u] = "running"]
  /\ Goto(u, "moveFailedAside")
  /\ UNCHANGED <<disk, parent, target, pack, health, history, confirmed>>

StartProbe(u) ==
  /\ At(u, "startProbe")
  /\ \/ /\ probe' = [probe EXCEPT ![u] = "running"]
        /\ Goto(u, "watchProbe")
     \/ /\ Fault("probe")
        /\ Goto(u, "moveFailedAside")
        /\ UNCHANGED probe
  /\ UNCHANGED <<disk, parent, target, pack, health, history, confirmed>>

\* The event loop runs: the health file is committed, then the probe quits.
ProbeConfirms(u) ==
  /\ probe[u] = "running"
  /\ ~health[u]
  /\ health' = [health EXCEPT ![u] = TRUE]
  /\ UNCHANGED <<disk, history, parent, target, pack, probe, lock, pc, exit, confirmed>>

ProbeQuits(u) ==
  /\ probe[u] = "running"
  /\ health[u] \/ Fault("probe")
  /\ probe' = [probe EXCEPT ![u] = "quit"]
  /\ UNCHANGED <<disk, history, parent, target, pack, health, lock, pc, exit, confirmed>>

ProbeFails(u) ==
  /\ probe[u] = "running"
  /\ Fault("probe")
  /\ probe' = [probe EXCEPT ![u] = "failed"]
  /\ UNCHANGED <<disk, history, parent, target, pack, health, lock, pc, exit, confirmed>>

\* runHealthProbe waits for the file, then for the exit.  On either timeout it
\* returns false with the child still running, and the destructor of its local
\* QProcess kills that child.
WatchProbe(u) ==
  /\ At(u, "watchProbe")
  /\ \/ /\ probe[u] = "quit" /\ health[u]
        /\ confirmed' = [confirmed EXCEPT ![u] = TRUE]
        /\ proven' = proven \cup {target[u]}
        /\ Goto(u, "relaunchNew")
        /\ UNCHANGED probe
     \/ /\ probe[u] \in {"quit", "failed"}
        /\ probe[u] = "quit" => ~health[u]
        /\ Goto(u, "moveFailedAside")
        /\ UNCHANGED <<confirmed, proven, probe>>
     \/ /\ probe[u] = "running"
        /\ Fault("probe")
        /\ probe' = [probe EXCEPT ![u] = "killed"]
        /\ Goto(u, "moveFailedAside")
        /\ UNCHANGED <<confirmed, proven>>
  /\ UNCHANGED <<disk, parent, target, pack, health, before, committed>>

-----------------------------------------------------------------------------
\* restoreBackup, entered when the probe failed (codes 13, 14) and when the new
\* application could not be restarted after a good probe (code 15).

MoveFailedAside(u) ==
  /\ At(u, "moveFailedAside")
  /\ \/ /\ root = Absent
        /\ Goto(u, "moveBackupBack")
        /\ UNCHANGED <<root, aside>>
     \/ /\ Movable(root, aside[u])
        /\ aside' = [aside EXCEPT ![u] = root]
        /\ root' = Absent
        /\ Goto(u, "moveBackupBack")
     \/ /\ root # Absent
        /\ Fault("rename")
        /\ Return(u, IF confirmed[u] THEN 15 ELSE 13)
        /\ UNCHANGED <<root, aside>>
  /\ UNCHANGED <<backup, staging, process, history, confirmed>>

\* Variant: restoreBackup does not look at whether its second rename worked.
MoveBackupBackUnchecked(u) ==
  /\ At(u, "moveBackupBack")
  /\ \/ /\ Movable(backup[u], root)
        /\ root' = backup[u]
        /\ backup' = [backup EXCEPT ![u] = Absent]
     \/ /\ Fault("rename") \/ ~Movable(backup[u], root)
        /\ UNCHANGED <<root, backup>>
  /\ Goto(u, "relaunchOld")
  /\ UNCHANGED <<staging, aside, process, history, confirmed>>

MoveBackupBack(u) ==
  /\ At(u, "moveBackupBack")
  /\ \/ /\ Movable(backup[u], root)
        /\ root' = backup[u]
        /\ backup' = [backup EXCEPT ![u] = Absent]
        /\ Goto(u, "relaunchOld")
     \/ /\ Fault("rename") \/ ~Movable(backup[u], root)
        /\ Return(u, IF confirmed[u] THEN 15 ELSE 13)
        /\ UNCHANGED <<root, backup>>
  /\ UNCHANGED <<staging, aside, process, history, confirmed>>

\* Variant: the failed tree stays where it was put aside.
RelaunchOldUntidy(u) ==
  /\ At(u, "relaunchOld")
  /\ Return(u, IF confirmed[u] THEN 15 ELSE 14)
  /\ UNCHANGED <<disk, process, history, confirmed>>

\* The failed tree is removed and the old application started, whatever comes
\* of either.
RelaunchOld(u) ==
  /\ At(u, "relaunchOld")
  /\ \E d \in Removed : aside' = [aside EXCEPT ![u] = d]
  /\ Return(u, IF confirmed[u] THEN 15 ELSE 14)
  /\ UNCHANGED <<root, backup, staging, process, history, confirmed>>

-----------------------------------------------------------------------------
\* The end of a good update.

RelaunchNew(u) ==
  /\ At(u, "relaunchNew")
  /\ health' = [health EXCEPT ![u] = FALSE]
  /\ \/ /\ committed' = [committed EXCEPT ![u] = TRUE]
        /\ Goto(u, "dropBackup")
     \/ /\ Fault("spawn")
        /\ Goto(u, "moveFailedAside")
        /\ UNCHANGED committed
  /\ UNCHANGED <<disk, parent, target, pack, probe, before, proven, confirmed>>

DropBackup(u) ==
  /\ At(u, "dropBackup")
  /\ \E d \in Removed : backup' = [backup EXCEPT ![u] = d]
  /\ Return(u, 0)
  /\ UNCHANGED <<root, staging, aside, process, history, confirmed>>

-----------------------------------------------------------------------------
\* The updater is killed, or the machine goes down, between two steps.  Nothing
\* is written down for a later updater to resume from; the operating system
\* frees the lock, and a probe already started lives on.
Crash(u) ==
  /\ Fault("crash")
  /\ pc[u] \in Active
  /\ Return(u, Terminated)
  /\ UNCHANGED <<disk, process, history, confirmed>>

Step(u) ==
  \/ Validate(u) \/ TryLock(u) \/ Preflight(u) \/ OpenParent(u) \/ AwaitParent(u)
  \/ Verify(u) \/ MakeStaging(u) \/ Extract(u) \/ CheckStaged(u)
  \/ MoveOldAway(u) \/ MoveNewIn(u) \/ Unwind(u)
  \/ StartProbe(u) \/ WatchProbe(u)
  \/ MoveFailedAside(u) \/ MoveBackupBack(u) \/ RelaunchOld(u)
  \/ RelaunchNew(u) \/ DropBackup(u)

App(u) == AppStart(u) \/ AppExit(u) \/ Launch(u)

Probe(u) == ProbeConfirms(u) \/ ProbeQuits(u) \/ ProbeFails(u)

Next == \E u \in Updaters : App(u) \/ Step(u) \/ Probe(u) \/ Crash(u)

Spec == Init /\ [][Next]_vars

\* Every wait of main() has a deadline, so a live updater keeps stepping; a
\* probe that has not hung goes on; nothing makes a user close a window.
FairSpec ==
  /\ Spec
  /\ \A u \in Updaters : WF_vars(Step(u)) /\ WF_vars(Probe(u))
-----------------------------------------------------------------------------
\* Safety.

\* No two updaters are past QLockFile::tryLock at once, so no two of them touch
\* the installation root or wait on a probe together.
MutualExclusion ==
  \A u, v \in Updaters : pc[u] \in Locked /\ pc[v] \in Locked => u = v

\* The installation root never holds a half unpacked, half removed or misbuilt
\* tree, nor one unpacked from bytes the manifest does not vouch for: whatever
\* fails and whenever an updater dies, it is a whole release or missing.
RootIsRelease == root \in Versions \cup {Absent}

\* The codes of an updater that may leave the root without a proven release.
Wrecking == {12, 13, 15, Terminated}

\* A release known to run is never lost: it is in the root, or whole in the
\* backup of the updater at work or of one that told, by its exit code or by
\* its death, that it did not clean up.
ProvenCopyRemains ==
  \/ root \in proven
  \/ \E u \in Updaters : /\ backup[u] \in proven
                         /\ lock = u \/ exit[u] \in Wrecking

\* What each exit code tells the caller, at the moment it is returned.
Outcome(u) ==
  /\ exit[u] = 0 => root = target[u] /\ target[u] \in proven
  /\ exit[u] \in (5 .. 11) \cup {14} => root = before[u]
  /\ exit[u] = 12 => root = before[u] \/ (root = Absent /\ backup[u] = before[u])
  /\ exit[u] = 13 => root \in {target[u], Absent} /\ backup[u] = before[u]
  /\ exit[u] = 15 => target[u] \in proven /\ before[u] \in {root, backup[u]}

\* An updater that returns has done what its exit code says: installed a proven
\* release, left the root as it found it, or kept the old one in its backup.
ExitCodesAreTrue ==
  [][\A u \in Updaters : pc[u] # "exited" /\ pc'[u] = "exited" => Outcome(u)']_vars

\* The old tree is moved away only once the application the updater waits for
\* has closed: its files are not pulled from under the window that asked.
SwapWaitsForParent ==
  [][\A u \in Updaters :
       backup[u] = Absent /\ backup'[u] # Absent => parent[u] = "closed"]_vars

\* When no rename, removal or extraction fails and no updater dies, an updater
\* that has returned leaves none of its three directories on the disk.
NothingLeftBehind ==
  \A u \in Updaters :
    pc[u] = "exited" => {backup[u], staging[u], aside[u]} = {Absent}

-----------------------------------------------------------------------------
\* The update is atomic.  Until an updater restarts the new application, what
\* counts as installed is the backup it would roll back to.

Installed ==
  IF \E u \in Updaters : lock = u /\ backup[u] # Absent /\ ~committed[u]
  THEN backup[lock] ELSE root

HowItEnded(u) ==
  IF committed[u] THEN "installed"
  ELSE IF pc[u] # "exited" THEN "pending"
  ELSE IF backup[u] = Absent THEN "rejected" ELSE "wrecked"

Spared(u) == IF HowItEnded(u) = "wrecked" THEN backup[u] ELSE Absent

Promise ==
  INSTANCE AtomicUpdate WITH
    live <- Installed,
    offered <- target,
    outcome <- [u \in Updaters |-> HowItEnded(u)],
    spared <- [u \in Updaters |-> Spared(u)]

\* Every step of the updaters is an atomic install, a rejection, a wreck that
\* spares the old release, or changes nothing of that.
IsAtomicUpdate == Promise!ASpec

-----------------------------------------------------------------------------
\* Liveness.

\* Every updater that starts returns or dies, although windows stay open,
\* probes hang and extractors stall: nothing waits without a deadline.
UpdaterTerminates ==
  \A u \in Updaters : (pc[u] = "validate") ~> (pc[u] = "exited")

\* How many steps main() takes at most from one of its steps on, with the
\* rollbacks that a probe or a restart that fails leads to.
StepsLeft(step) ==
  CASE step = "off" -> 18             [] step = "validate" -> 17
    [] step = "tryLock" -> 16         [] step = "preflight" -> 15
    [] step = "openParent" -> 14      [] step = "awaitParent" -> 13
    [] step = "verify" -> 12          [] step = "makeStaging" -> 11
    [] step = "extract" -> 10         [] step = "checkStaged" -> 9
    [] step = "moveOldAway" -> 8      [] step = "moveNewIn" -> 7
    [] step = "startProbe" -> 6       [] step = "watchProbe" -> 5
    [] step = "relaunchNew" -> 4      [] step = "moveFailedAside" -> 3
    [] step = "moveBackupBack" -> 2   [] step \in {"unwind", "relaunchOld", "dropBackup"} -> 1
    [] OTHER -> 0

Descends(u) == StepsLeft(pc'[u]) < StepsLeft(pc[u])

\* The safety half of UpdaterTerminates.  Nobody, and no failure, ever sends an
\* updater back: every step it takes brings it nearer to its return...
StepsDescend == [][\A u \in Updaters : Step(u) \/ pc'[u] # pc[u] => Descends(u)]_vars

\* ...and none of the steps that ask for something waits for what nobody brings:
\* a probe that is watched can still answer, fail or be given up, and the failed
\* tree has a free place to go to.
NeverStuck ==
  \A u \in Updaters :
    /\ pc[u] = "awaitParent" => parent[u] \in {"running", "closed"}
    /\ pc[u] = "watchProbe" => probe[u] \in {"running", "quit", "failed"}
    /\ pc[u] = "moveFailedAside" => root = Absent \/ Movable(root, aside[u])

\* What an updater with a sound package may end with: it is done (0), another
\* updater is at work (3, 4), it is given up on account of its parent process (7),
\* its probe did not answer (14) or the application that answered cannot be
\* restarted (15).
Excused(u) ==
  \/ exit[u] \in {0, 3, 4, 7}
  \/ exit[u] = 14 /\ probe[u] # "running" /\ (probe[u] = "quit" => ~health[u])
  \/ exit[u] = 15 /\ confirmed[u]

\* An update whose package is sound is installed, or Excused.
SoundUpdateInstalls ==
  \A u \in Updaters : (pc[u] = "validate" /\ pack[u] = target[u]) ~> Excused(u)

\* The half of it that is a safety property: no updater refuses a sound package
\* for any other reason, such as one step of its own in the way of the next.
SoundNeverRefused ==
  \A u \in Updaters : pc[u] = "exited" /\ pack[u] = target[u] => Excused(u)

-----------------------------------------------------------------------------
\* The inductive invariant behind the safety properties.

\* Where the updater has not moved the old tree away yet.
Unswapped == {"off", "exited"} \cup Unlocked \cup
             {"preflight", "openParent", "awaitParent", "verify", "makeStaging",
              "extract", "checkStaged", "moveOldAway"}

\* Where its backup is all there is of the old tree.
Swapped == {"moveNewIn", "startProbe", "watchProbe", "moveFailedAside",
            "moveBackupBack", "relaunchNew"}

LockIsHeld == \A u \in Updaters : pc[u] \in Locked <=> lock = u

\* What an updater knows of its parent, its package and its exit code.
Bookkeeping(u) ==
  /\ parent[u] = "unborn" => target[u] = Absent /\ pc[u] = "off"
  /\ parent[u] # "unborn" => target[u] \in Versions
  /\ pc[u] # "off" => pack[u] \in {target[u], Broken, Altered}
  /\ pc[u] \in {"makeStaging", "extract", "checkStaged"} => pack[u] # Altered
  /\ pc[u] = "checkStaged" => staging[u] = pack[u]
  /\ pc[u] \in {"moveOldAway", "moveNewIn"} => staging[u] = target[u]
  /\ pc[u] \in {"verify", "makeStaging", "extract", "checkStaged", "moveOldAway"}
       => parent[u] = "closed"
  /\ pc[u] = "exited" <=> exit[u] # StillActive

\* Where the old and the new release are, step by step.
Placement(u) ==
  /\ pc[u] \in Unswapped \ {"exited"} => backup[u] = Absent
  /\ pc[u] \in Locked \cap Unswapped => root = before[u]
  /\ pc[u] \in Swapped \cup {"dropBackup"} => backup[u] = before[u] /\ before[u] \in Versions
  /\ pc[u] \in {"moveNewIn", "moveBackupBack"} => root = Absent
  /\ pc[u] \in {"startProbe", "watchProbe", "moveFailedAside", "relaunchNew", "dropBackup"}
       => root = target[u]
  /\ pc[u] = "unwind" => \/ root = before[u] /\ backup[u] = Absent
                         \/ /\ root = Absent
                            /\ backup[u] = before[u]
                            /\ before[u] \in Versions
  /\ pc[u] = "relaunchOld" => root = before[u] /\ backup[u] = Absent
  /\ pc[u] \notin {"moveBackupBack", "relaunchOld", "exited"} => aside[u] = Absent

\* How far the trial of the new release has come.
Progress(u) ==
  /\ confirmed[u] => target[u] \in proven
  /\ confirmed[u] => pc[u] \in {"relaunchNew", "moveFailedAside", "moveBackupBack",
                                "relaunchOld", "dropBackup", "exited"}
  /\ pc[u] \in {"relaunchNew", "dropBackup"} => confirmed[u]
  /\ committed[u] => pc[u] \in {"dropBackup", "exited"}
  /\ pc[u] = "dropBackup" => committed[u]
  /\ pc[u] = "exited" /\ backup[u] # Absent => committed[u] \/ exit[u] \in Wrecking

\* A release known to run is in a backup as long as a trial may fail.
TrialIsCovered ==
  (\E u \in Updaters : pc[u] \in Swapped) =>
    \E u \in Updaters : /\ backup[u] \in proven
                        /\ lock = u \/ exit[u] \in Wrecking

IInv ==
  /\ TypeOK
  /\ proven \subseteq Versions
  /\ LockIsHeld
  /\ \A u \in Updaters : Bookkeeping(u) /\ Placement(u) /\ Progress(u)
  /\ RootIsRelease
  /\ ProvenCopyRemains
  /\ TrialIsCovered

=============================================================================
