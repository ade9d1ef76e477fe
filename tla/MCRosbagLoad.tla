---------------------------- MODULE MCRosbagLoad ----------------------------
(***************************************************************************)
(* RosbagLoad on small bags: two topics with a connection each, and a      *)
(* message of each.                                                        *)
(***************************************************************************)
EXTENDS RosbagLoad, TLC

CONSTANTS m1, m2, c1, c2, t1, t2, stripped

ConnectionOfEach == [m \in Messages |-> IF m = m2 THEN c2 ELSE c1]

TopicOfEach == c1 :> t1 @@ c2 :> t2

\* rstrip("/") of "t1", "t2/" and "t2".
Stripped == t1 :> t1 @@ t2 :> stripped @@ stripped :> stripped

\* The same for names that do not end with a slash.
Unchanged == [t \in {t1, t2, stripped} |-> t]

\* What a bag holds of m: the two topics differ in nothing else.
Quality(m) ==
  LET bit(b, weight) == IF b THEN weight ELSE 0
  IN bit(m \in bag.readable, 8) + bit(m \in bag.decodable, 4)
       + bit(m \in bag.parsable, 2) + bit(ConnectionOf[m] \in bag.known, 1)

\* Of two bags that differ by an exchange of the topics one is enough.  A bag
\* is fixed: the constraint leaves out whole behaviours, no part of one.
OneOfTwins == Quality(m1) >= Quality(m2)
=============================================================================
