--------------------------- MODULE MCSessionLease ---------------------------
(* Small instances of SessionLease for TLC. *)
EXTENDS SessionLease

CONSTANTS h1, h2, s1

\* One holder is a launch with an absolute deadline, the others are not.
OneLaunch == [h \in Holders |-> IF h = CHOOSE g \in Durable : TRUE THEN 2 ELSE Infinity]

NoDeadlines == [h \in Holders |-> Infinity]

ClocksAgree == [h \in Holders |-> 0]

\* The hosts of the older-format holders run ahead by a tick.
OthersAhead == [h \in Holders |-> IF h \in Durable THEN 0 ELSE 1]
=============================================================================
