-------------------------------- MODULE Slate --------------------------------
(***************************************************************************)
(* The schedule that budget_gate and parse_capture read, as time passes    *)
(* and upsert_schedule lists and moves the games of one pair of clubs:     *)
(* Matching's algorithms against definitions that say what they are for.   *)
(***************************************************************************)
EXTENDS Matching, Functions

CONSTANTS Pks,           \* game_pks
          MaxTime        \* bound on times

ASSUME SlateAssumption == /\ Nobody \notin Pks /\ Ambiguous \notin Pks
                          /\ MaxTime \in Nat

VARIABLES schedule,      \* committed games rows: game_pk -> start
          now

slateVars == <<schedule, now>>

Times == 0..MaxTime

SlateInit == schedule = <<>> /\ now = 0

\* One row of upsert_schedule: a new game, or a known one at a new time.
Upsert(pk, start) ==
    /\ schedule' = [g \in DOMAIN schedule \cup {pk} |->
                       IF g = pk THEN start ELSE schedule[g]]
    /\ UNCHANGED now

TimePasses == /\ now < MaxTime /\ now' = now + 1
              /\ UNCHANGED schedule

SlateNext == TimePasses \/ \E pk \in Pks, start \in Times : Upsert(pk, start)

SlateSpec == SlateInit /\ [][SlateNext]_slateVars
-----------------------------------------------------------------------------
\* odds.py:312: first pitches within CLUSTER_GAP of one another are one
\* cluster.  The single pass counts exactly the starts still ahead that no
\* other start ahead precedes by at most the gap, so the reserve neither counts
\* a chain of starts twice nor merges two that are further apart.
ClustersAreChains ==
    LET ahead == {t \in Range(schedule) : now < t /\ t <= now + Horizon}
    IN RemainingStartClusters(Range(schedule), now) =
         Cardinality({t \in ahead : ~\E s \in ahead : s < t /\ t - s <= Gap})

\* odds.py:277: of two games between the same clubs the matcher never picks
\* the other one: as long as an event is within MATCH_TOLERANCE of its own
\* game's scheduled start it is filed there or nowhere.
NeverTheOtherGame ==
    \A pk \in DOMAIN schedule, commence \in Times :
       Apart(schedule[pk], commence) <= Tolerance
         => MatchGame(schedule, commence) \in {pk, Ambiguous}
=============================================================================
