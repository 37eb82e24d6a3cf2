----------------------------- MODULE MCCaptures -----------------------------
(* Instances of Captures, in half hours: a match tolerance of 3 (90 minutes) *)
(* and a doubleheader whose nightcap starts 3.5 hours after the opener.      *)
EXTENDS Captures

\* game_pks and original starts of a doubleheader.
Doubleheader == {1, 2}
Starts == [g \in Doubleheader |-> IF g = 1 THEN 1 ELSE 8]

\* A delay of two and a half hours.
Rain == {5}

AllFaults == {"body", "renamed", "crash"}
=============================================================================
