---------------------------- MODULE AtomicUpdate ----------------------------
(***************************************************************************)
(* What the external updater promises of one installation: an update       *)
(* either installs its release or leaves the installation as it was, in    *)
(* one step, however many updaters there are.  Only a wrecked update (the  *)
(* updater died, or a rename of its rollback failed) leaves something else *)
(* behind, and then the installation it found is spared.                   *)
(***************************************************************************)
CONSTANTS Updaters, Versions, Absent

VARIABLES
  live,     \* the installation: a release, or nothing
  offered,  \* the release each update is to install
  outcome,  \* how each update ended
  spared    \* what a wrecked update left intact beside the installation

avars == <<live, offered, outcome, spared>>

AInit ==
  /\ live \in Versions
  /\ offered = [u \in Updaters |-> Absent]
  /\ outcome = [u \in Updaters |-> "pending"]
  /\ spared = [u \in Updaters |-> Absent]

Conclude(u, how) ==
  /\ outcome[u] = "pending"
  /\ outcome' = [outcome EXCEPT ![u] = how]
  /\ UNCHANGED offered

\* An update gets its release once, before it ends.
Offer(u) ==
  /\ offered[u] = Absent
  /\ \E v \in Versions : offered' = [offered EXCEPT ![u] = v]
  /\ outcome[u] = "pending"
  /\ UNCHANGED <<live, outcome, spared>>

Install(u) ==
  /\ Conclude(u, "installed")
  /\ offered[u] \in Versions
  /\ live' = offered[u]
  /\ UNCHANGED spared

Reject(u) ==
  /\ Conclude(u, "rejected")
  /\ UNCHANGED <<live, spared>>

Wreck(u) ==
  /\ Conclude(u, "wrecked")
  /\ live \in Versions
  /\ spared' = [spared EXCEPT ![u] = live]
  /\ live' \in {Absent, offered[u]}

ANext == \E u \in Updaters : Offer(u) \/ Install(u) \/ Reject(u) \/ Wreck(u)

ASpec == AInit /\ [][ANext]_avars
=============================================================================
