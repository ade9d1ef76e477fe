----------------------------- MODULE AtomicLoad -----------------------------
(***************************************************************************)
(* What loading a file promises: of the messages that were asked for, all  *)
(* that can be decoded appear in the application, once each and in one     *)
(* step, or the data of the application stays as it was.  How many         *)
(* processes and passes it takes, and how they fail, is not seen.          *)
(***************************************************************************)
EXTENDS Naturals

CONSTANT Messages

VARIABLES
  sought,     \* the messages of the topics that were chosen
  exact,      \* whether names and schemas tell the passes of a load apart
  readable,   \* messages the file gives
  decodable,  \* messages with a decoder that takes them
  outcome,    \* how the load ended
  shown       \* how often each message is in the application

avars == <<sought, exact, readable, decodable, outcome, shown>>

AInit ==
  /\ sought = {}
  /\ exact \in BOOLEAN
  /\ readable \subseteq Messages
  /\ decodable \subseteq Messages
  /\ outcome = "none"
  /\ shown = [m \in Messages |-> 0]

\* Topics are chosen once, before anything is shown.
Choose ==
  /\ outcome = "none"
  /\ sought = {}
  /\ sought' \in SUBSET Messages
  /\ exact' \in BOOLEAN
  /\ UNCHANGED <<readable, decodable, outcome, shown>>

\* A file with a message that cannot be read is not loaded.
Load ==
  /\ outcome = "none"
  /\ outcome' = "loaded"
  /\ sought \subseteq readable
  /\ shown' \in [Messages -> Nat]
  /\ exact => shown' = [m \in Messages |-> IF m \in sought \cap decodable THEN 1 ELSE 0]
  /\ UNCHANGED <<sought, exact, readable, decodable>>

GiveUp ==
  /\ outcome = "none"
  /\ outcome' \in {"failed", "cancelled"}
  /\ UNCHANGED <<sought, exact, readable, decodable, shown>>

ANext == Choose \/ Load \/ GiveUp

ASpec == AInit /\ [][ANext]_avars
=============================================================================
