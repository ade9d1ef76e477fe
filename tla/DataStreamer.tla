---------------------------- MODULE DataStreamer ----------------------------
(***************************************************************************)
(* What the main window relies on of every streaming plugin, whatever its  *)
(* protocol: topics are chosen while no session is open, an open session   *)
(* keeps something of those topics only (samples, parsers, callbacks, a    *)
(* message it handles), and when it is closed, by whomever, everything is  *)
(* gone in the same step.                                                  *)
(***************************************************************************)
CONSTANT Topics

VARIABLES
  open,    \* a session is open
  chosen,  \* the topics selected
  kept     \* the topics the plugin keeps anything of

avars == <<open, chosen, kept>>

AInit ==
  /\ open = FALSE
  /\ chosen \subseteq Topics
  /\ kept = {}

Choose ==
  /\ ~open
  /\ chosen' \in SUBSET Topics
  /\ UNCHANGED <<open, kept>>

Open ==
  /\ ~open
  /\ open' = TRUE
  /\ chosen' \in (SUBSET Topics) \ {{}}
  /\ kept' \subseteq chosen'

Keep ==
  /\ open
  /\ kept' \subseteq chosen
  /\ UNCHANGED <<open, chosen>>

Close ==
  /\ open
  /\ open' = FALSE
  /\ kept' = {}
  /\ UNCHANGED chosen

ANext == Choose \/ Open \/ Keep \/ Close

ASpec == AInit /\ [][ANext]_avars
=============================================================================
