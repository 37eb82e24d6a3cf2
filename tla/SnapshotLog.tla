----------------------------- MODULE SnapshotLog -----------------------------
(***************************************************************************)
(* What odds_snapshots and the rows_written of its runs promise a reader,  *)
(* with no files, processes or transactions: the table only grows, one row *)
(* per key, by whole runs; each run reports the rows it added and no       *)
(* others, and what it vouches for is in the table when it does so.        *)
(* Captures is the pipeline that implements this.                          *)
(***************************************************************************)
EXTENDS Integers, FiniteSets

VARIABLES snapshots,   \* rows a reader sees
          reported,    \* rows the successful runs say they wrote
          claimed      \* rows the successful runs vouch for

historyVars == <<snapshots, reported, claimed>>

Key(row) == <<row.pk, row.at>>
Keys(R) == {Key(row) : row \in R}

Init == snapshots = {} /\ reported = 0 /\ claimed = {}

\* A run succeeds, having parsed some rows nobody vouched for before, those that
\* are new to the table among them.
Publish(fresh, parsed) ==
    /\ \A r \in fresh : Key(r) \notin Keys(snapshots)
    /\ \A r, s \in fresh : Key(r) = Key(s) => r = s
    /\ fresh \subseteq parsed
    /\ Keys(parsed) \subseteq Keys(snapshots \cup fresh)
    /\ snapshots' = snapshots \cup fresh
    /\ reported' = reported + Cardinality(fresh)
    /\ claimed' = claimed \cup parsed

\* The run is known by its effect: a checker need not guess what it parsed.
Next == Publish(snapshots' \ snapshots, claimed' \ claimed)

Spec == Init /\ [][Next]_historyVars
=============================================================================
