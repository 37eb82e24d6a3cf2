------------------------------- MODULE RunLog -------------------------------
(***************************************************************************)
(* What the ingest_runs table promises its readers, with no connections,   *)
(* clocks or locks: every attempt gets one verdict, a guess made by a      *)
(* reaper may be corrected by the attempt itself and by nobody else, and   *)
(* an attempt's data rows become visible together with its success.        *)
(* IngestRuns is the protocol that implements this.                        *)
(***************************************************************************)
CONSTANT RunIds             \* primary keys of ingest_runs

VARIABLES verdict,          \* what the table says of each attempt
          published         \* attempts whose data rows other sessions can read

logVars == <<verdict, published>>

Verdicts == {"none", "open", "reaped", "failed", "done"}

Init == /\ verdict = [r \in RunIds |-> "none"]
        /\ published = {}

\* The attempt is announced before it does any work.
Open(r) == /\ verdict[r] = "none"
           /\ verdict' = [verdict EXCEPT ![r] = "open"]
           /\ UNCHANGED published

\* Somebody else presumes a set of attempts dead.
Reap(R) == /\ \A r \in R : verdict[r] = "open"
           /\ verdict' = [r \in RunIds |-> IF r \in R THEN "reaped" ELSE verdict[r]]
           /\ UNCHANGED published

\* The attempt reports its own failure: none of its rows are published.
Fail(r) == /\ verdict[r] \in {"open", "reaped"}
           /\ verdict' = [verdict EXCEPT ![r] = "failed"]
           /\ UNCHANGED published

\* The attempt reports success and publishes what it wrote, if anything.
Succeed(r, wrote) == /\ verdict[r] \in {"open", "reaped"}
                     /\ verdict' = [verdict EXCEPT ![r] = "done"]
                     /\ published' = IF wrote THEN published \cup {r} ELSE published

Next == \/ \E r \in RunIds : \/ Open(r)
                             \/ Fail(r)
                             \/ \E wrote \in BOOLEAN : Succeed(r, wrote)
        \/ \E R \in SUBSET RunIds : Reap(R)

Spec == Init /\ [][Next]_logVars
=============================================================================
