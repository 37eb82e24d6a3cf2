------------------------------ MODULE Matching ------------------------------
(***************************************************************************)
(* The two pure algorithms of src/ingestion/odds.py that read the schedule *)
(* table: which game an Odds API event belongs to (_match_game), and how   *)
(* many first-pitch clusters are still ahead (remaining_start_clusters).   *)
(*                                                                         *)
(* Times are integers.  A schedule maps the game_pks of one pair of clubs  *)
(* to their scheduled start, the way load_game_index groups them; for the  *)
(* clusters only the set of start times matters, because a start equal to  *)
(* the previous one never opens a cluster.                                 *)
(***************************************************************************)
EXTENDS Integers, FiniteSets, FiniteSetsExt

CONSTANTS Tolerance,     \* MATCH_TOLERANCE
          Gap,           \* CLUSTER_GAP
          Horizon,       \* budget_gate's horizon
          Nobody,        \* _match_game returns None
          Ambiguous      \* _match_game raises AmbiguousGame

ASSUME MatchingAssumption == /\ Tolerance \in Nat /\ Gap \in Nat /\ Horizon \in Nat
                             /\ Nobody # Ambiguous

Apart(s, t) == IF s < t THEN t - s ELSE s - t

\* The candidates of load_game_index close enough to `commence`.
Within(schedule, commence) ==
    {pk \in DOMAIN schedule : Apart(schedule[pk], commence) <= Tolerance}

\* Seeded fault: take the nearest candidate (the latest of two as near)
\* instead of refusing to guess.
MatchNearest(schedule, commence) ==
    LET within == Within(schedule, commence)
    IN IF within = {} THEN Nobody
       ELSE CHOOSE pk \in within :
              \A other \in within : Apart(schedule[pk], commence)
                                      <= Apart(schedule[other], commence)

\* _match_game, for the candidates of the event's clubs.
MatchGame(schedule, commence) ==
    LET within == Within(schedule, commence)
    IN IF within = {} THEN Nobody
       ELSE IF Cardinality(within) > 1 THEN Ambiguous
       ELSE CHOOSE pk \in within : TRUE

\* The starts a budget still has to reserve for.
Ahead(starts, now) == {t \in starts : now < t /\ t <= now + Horizon}

\* No cluster yet, and no start before the first.
NoClusters == [clusters |-> 0, previous |-> 0]

\* Seeded fault: the gap is measured from the cluster's first start.
ClustersFromAnchor(starts, now) ==
    LET visit(t, acc) == IF acc.clusters = 0 \/ t - acc.previous > Gap
                         THEN [clusters |-> acc.clusters + 1, previous |-> t]
                         ELSE acc
    IN MapThenFoldSet(visit, NoClusters, LAMBDA t : t, Max, Ahead(starts, now)).clusters

\* remaining_start_clusters: one pass over the starts still ahead, in order (the
\* fold visits the latest start after all the others).
RemainingStartClusters(starts, now) ==
    LET visit(t, acc) ==
            [clusters |-> IF acc.clusters = 0 \/ t - acc.previous > Gap
                          THEN acc.clusters + 1 ELSE acc.clusters,
             previous |-> t]
    IN MapThenFoldSet(visit, NoClusters, LAMBDA t : t, Max, Ahead(starts, now)).clusters
=============================================================================
