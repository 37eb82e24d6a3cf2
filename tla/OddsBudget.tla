----------------------------- MODULE OddsBudget -----------------------------
(***************************************************************************)
(* The credit budget of src/ingestion/odds.py: poll_odds reads what the    *)
(* last recorded poll said was left, refuses to spend when the first       *)
(* pitches still ahead need it, spends, and records what the API now says. *)
(* What is recorded becomes readable only when session_scope commits; a    *)
(* poll that raises after the request rolls its record back.               *)
(*                                                                         *)
(* The run row's own life cycle is in IngestRuns.  Here a row matters only *)
(* while its poll runs and after it succeeded: a failed or abandoned row   *)
(* keeps api_requests = 0 and no `remaining_after`, so neither the gate    *)
(* nor an audit of the spending can tell it from no row, and its slot is   *)
(* given back.  Time appears as the number of first-pitch clusters ahead.  *)
(***************************************************************************)
EXTENDS Integers, FiniteSets, SequencesExt, FiniteSetsExt

CONSTANTS Pollers,      \* processes cron starts
          PollIds,      \* run rows that exist at once (a bound)
          Cost,         \* credits a request costs: len(MARKETS)
          Allowance,    \* credits per billing period
          MaxPeriods,   \* bound on billing periods
          MaxAhead,     \* most clusters within the horizon
          Floors,       \* values cron passes as --min-credits
          NoFloor,      \* --min-credits not given
          NoRun,        \* no row opened
          Unset,        \* params has no remaining_after
          Null,         \* remaining_after is JSON null, or Python None
          Faults        \* what goes wrong: "raise", "timeout", "header", "crash"

ASSUME BudgetAssumption == /\ Cost \in Nat \ {0} /\ Allowance \in Nat
                           /\ MaxPeriods \in Nat \ {0} /\ MaxAhead \in Nat
                           /\ Floors \subseteq Nat \cup {NoFloor}
                           /\ PollIds \subseteq Nat /\ IsFiniteSet(PollIds)
                           /\ NoRun \notin PollIds
                           /\ Unset # Null /\ Unset \notin Nat /\ Null \notin Nat
                           /\ Faults \subseteq {"raise", "timeout", "header", "crash"}

VARIABLES credits,      \* what the API has left for us in this period
          period,       \* which billing period it is
          ahead,        \* first-pitch clusters in the next 24 hours
          opened,       \* open and successful poll rows, by started_at
          left,         \* committed params.remaining_after of each row
          spent,        \* committed api_requests of each row
          pc, run,      \* each poller's position and row
          gate,         \* what the gate read and reserved
          answer,       \* x-requests-remaining of the response in hand
          overlapped,   \* history: two polls have been under way at once
          forgotten     \* history: a poll that was charged has failed

history == <<overlapped, forgotten>>
vars == <<credits, period, ahead, opened, left, spent, pc, run, gate, answer, history>>

NoGate == [known |-> Null, reserved |-> 0]

Init == /\ credits = Allowance
        /\ period = 1
        /\ ahead \in 0..MaxAhead
        /\ opened = <<>>
        /\ left = [i \in PollIds |-> Unset]
        /\ spent = [i \in PollIds |-> 0]
        /\ pc = [p \in Pollers |-> "idle"]
        /\ run = [p \in Pollers |-> NoRun]
        /\ gate = [p \in Pollers |-> NoGate]
        /\ answer = [p \in Pollers |-> Null]
        /\ overlapped = FALSE /\ forgotten = FALSE

\* The places of the rows that carry a recorded balance.
Recorded == {n \in DOMAIN opened : left[opened[n]] # Unset}

\* _remaining_credits: the last recorded balance, other than the own row.
Remaining(p) ==
    LET others == {n \in Recorded : opened[n] # run[p]}
    IN IF others = {} THEN Null ELSE left[opened[Max(others)]]

\* Seeded fault: the credits this very poll costs are not subtracted.
AllowedLate(known, reserved) == known = Null \/ known >= reserved

\* budget_gate's verdict.
Allowed(known, reserved) == known = Null \/ known - Cost >= reserved

Goto(p, from, to) == pc[p] = from /\ pc' = [pc EXCEPT ![p] = to]

\* The row of a poll that came to nothing; its slot is free again.
GiveBack(p) == opened' = RemoveAt(opened, CHOOSE n \in DOMAIN opened : opened[n] = run[p])

\* The poll is over; its locals are gone.
Leave(p) == /\ pc' = [pc EXCEPT ![p] = "idle"]
            /\ run' = [run EXCEPT ![p] = NoRun]
            /\ gate' = [gate EXCEPT ![p] = NoGate]
            /\ answer' = [answer EXCEPT ![p] = Null]
-----------------------------------------------------------------------------
\* ingest_run opens and commits the row.
Open(p) ==
    /\ Goto(p, "idle", "gate")
    /\ \E i \in PollIds : /\ ~Contains(opened, i)
                          /\ \A j \in PollIds : j < i => Contains(opened, j)
                          /\ opened' = Append(opened, i)
                          /\ run' = [run EXCEPT ![p] = i]
    /\ overlapped' = (overlapped \/ \E q \in Pollers \ {p} : pc[q] # "idle")
    /\ UNCHANGED <<credits, period, ahead, left, spent, gate, answer, forgotten>>

\* _remaining_credits and budget_gate; BudgetExhausted when refused.
Gate(p) ==
    /\ pc[p] = "gate"
    /\ \E floor \in Floors :
         LET known == Remaining(p)
             reserved == IF floor = NoFloor THEN ahead * Cost ELSE floor
         IN /\ gate' = [gate EXCEPT ![p] = [known |-> known, reserved |-> reserved]]
            /\ pc' = [pc EXCEPT ![p] = IF Allowed(known, reserved)
                                       THEN "request" ELSE "failing"]
    /\ UNCHANGED <<credits, period, ahead, opened, left, spent, run, answer, history>>

\* Seeded fault: x-requests-used is taken for x-requests-remaining.
RequestReadsUsed(p) ==
    /\ Goto(p, "request", "answered")
    /\ credits >= Cost
    /\ credits' = credits - Cost
    /\ answer' = [answer EXCEPT ![p] = Allowance - credits']
    /\ UNCHANGED <<period, ahead, opened, left, spent, run, gate, history>>

\* capture_slate's request is answered: the credits are gone.  The header that
\* says what is left may be missing.
Request(p) ==
    /\ Goto(p, "request", "answered")
    /\ credits >= Cost
    /\ credits' = credits - Cost
    /\ \E header \in {credits'} \cup (IF "header" \in Faults THEN {Null} ELSE {}) :
         answer' = [answer EXCEPT ![p] = header]
    /\ UNCHANGED <<period, ahead, opened, left, spent, run, gate, history>>

\* The API refuses (nothing left), or answers too late for REQUEST_TIMEOUT
\* although it has charged for the request: urlopen raises either way.
RequestRaises(p) ==
    /\ Goto(p, "request", "failing")
    /\ \/ credits < Cost /\ UNCHANGED credits
       \/ "timeout" \in Faults /\ credits >= Cost /\ credits' = credits - Cost
    /\ forgotten' = (forgotten \/ credits' < credits)
    /\ UNCHANGED <<period, ahead, opened, left, spent, run, gate, answer, overlapped>>

\* Anything between the response and the end of the block raises: the body is
\* not JSON, the disk is full, a team name is unknown, a match is ambiguous,
\* the database refuses.
WorkRaises(p) ==
    /\ "raise" \in Faults
    /\ Goto(p, "answered", "failing")
    /\ forgotten' = TRUE
    /\ UNCHANGED <<credits, period, ahead, opened, left, spent, run, gate, answer, overlapped>>

\* Parse, store and flush succeed, and the healthcheck is pinged.
Ping(p) ==
    /\ Goto(p, "answered", "pinged")
    /\ UNCHANGED <<credits, period, ahead, opened, left, spent, run, gate, answer, history>>

\* Seeded fault: api_requests is charged one per request, not per market.
CommitPerRequest(p) ==
    /\ pc[p] = "pinged"
    /\ left' = [left EXCEPT ![run[p]] = answer[p]]
    /\ spent' = [spent EXCEPT ![run[p]] = 1]
    /\ Leave(p)
    /\ UNCHANGED <<credits, period, ahead, opened, history>>

\* session_scope commits: only now can others read what this poll recorded.
Commit(p) ==
    /\ pc[p] = "pinged"
    /\ left' = [left EXCEPT ![run[p]] = answer[p]]
    /\ spent' = [spent EXCEPT ![run[p]] = Cost]
    /\ Leave(p)
    /\ UNCHANGED <<credits, period, ahead, opened, history>>

\* The except branch of ingest_run: roll back, which forgets api_requests and
\* params, and mark the row failed.
Fail(p) ==
    /\ pc[p] = "failing"
    /\ GiveBack(p)
    /\ Leave(p)
    /\ UNCHANGED <<credits, period, ahead, left, spent, history>>

\* The process is killed, or its last commit fails.
Crash(p) ==
    /\ "crash" \in Faults
    /\ pc[p] # "idle"
    /\ GiveBack(p)
    /\ Leave(p)
    /\ forgotten' = (forgotten \/ pc[p] \in {"answered", "pinged"})
    /\ UNCHANGED <<credits, period, ahead, left, spent, overlapped>>

\* The billing period ends; nobody tells the program.
Reset ==
    /\ period < MaxPeriods
    /\ period' = period + 1
    /\ credits' = Allowance
    /\ UNCHANGED <<ahead, opened, left, spent, pc, run, gate, answer, history>>

\* Games start, and the schedule ingest adds the next ones.
Slate ==
    /\ \E n \in 0..MaxAhead : n # ahead /\ ahead' = n
    /\ UNCHANGED <<credits, period, opened, left, spent, pc, run, gate, answer, history>>

Step(p) == \/ Open(p) \/ Gate(p) \/ Request(p) \/ RequestRaises(p)
           \/ Ping(p) \/ Commit(p) \/ Fail(p)

Next == \/ \E p \in Pollers : Step(p) \/ WorkRaises(p) \/ Crash(p)
        \/ Reset \/ Slate

Spec == Init /\ [][Next]_vars

\* cron keeps starting polls and every poll that is running gets on with it.
FairSpec == Spec /\ \A p \in Pollers : WF_vars(Step(p))
-----------------------------------------------------------------------------
Balance == 0..Allowance

TypeOK ==
    /\ credits \in Balance
    /\ period \in 1..MaxPeriods
    /\ ahead \in 0..MaxAhead
    /\ opened \in Seq(PollIds) /\ IsInjective(opened)
    /\ left \in [PollIds -> Balance \cup {Unset, Null}]
    /\ spent \in [PollIds -> {0, Cost}]
    /\ pc \in [Pollers -> {"idle", "gate", "request", "answered", "pinged", "failing"}]
    /\ run \in [Pollers -> PollIds \cup {NoRun}]
    /\ \A p \in Pollers : IF pc[p] = "idle" THEN run[p] = NoRun ELSE Contains(opened, run[p])
    /\ gate \in [Pollers -> [known : Balance \cup {Null}, reserved : Nat]]
    /\ answer \in [Pollers -> Balance \cup {Null}]
    /\ overlapped \in BOOLEAN /\ forgotten \in BOOLEAN

\* odds.py:477: "Refuses to spend when too few credits remain in the period, so
\* a runaway cron cannot exhaust the month": as long as polls do not overlap and
\* none fails after its request, a poll that knew a balance does not eat into
\* the credits reserved for the first pitches still ahead.
ReserveKept ==
    [][\A p \in Pollers :
         (pc[p] = "request" /\ credits' < credits /\ gate[p].known # Null
            /\ ~overlapped /\ ~forgotten)
           => credits' >= gate[p].reserved]_vars

\* models.py:130: api_requests counts calls "so a monthly budget can be
\* reconstructed from history": with no poll under way the rows add up to what
\* the API charged, overlaps or not, unless a poll failed after its request.
HistoryAccounts ==
    (period = 1 /\ ~forgotten /\ \A p \in Pollers : pc[p] = "idle") =>
       MapThenSumSet(LAMBDA i : spent[i], PollIds) = Allowance - credits

\* Within a billing period the recorded balance errs in one direction only: it
\* never says less than the API has left, so the gate may overspend but never
\* starves a poll the month can afford.
NeverUnderestimates ==
    period = 1 => \A i \in PollIds : left[i] \in Balance => left[i] >= credits

\* BudgetExhausted is about the credits "left in the period", and a refusal is
\* meant for "the rest of the month" (__main__.py:48): in a new period the
\* polls that cron keeps starting spend again.
SpendsAgainAfterReset ==
    \A n \in 2..MaxPeriods :
       (period = n /\ credits = Allowance) ~> (period # n \/ credits # Allowance)
=============================================================================
