----------------------------- MODULE IngestRuns -----------------------------
(***************************************************************************)
(* The provenance protocol of src/database/ingest_run.py: processes open   *)
(* a row of ingest_runs, commit it, reap the rows other processes left     *)
(* behind, do their work in a second transaction, and close the row out.   *)
(*                                                                         *)
(* Each worker is one coroutine inside `async with ingest_run(session)`    *)
(* inside `session_scope()`.  A transaction's uncommitted effects are held *)
(* in per-worker variables until the step that commits them.  Postgres row *)
(* locks matter here (an UPDATE waits for another transaction's UPDATE of  *)
(* the same row, then sees the committed version), so they are modelled;   *)
(* the reaper's UPDATE takes all its row locks in one step.                *)
(*                                                                         *)
(* replay_all runs several blocks in one session and lets the next block's *)
(* first commit publish the previous verdict; here that is Commit followed *)
(* by Begin.                                                               *)
(***************************************************************************)
EXTENDS Naturals

CONSTANTS Workers,     \* processes that ingest
          RunIds,      \* primary keys ingest_runs.id can take (a bound)
          Pids,        \* Postgres backend pids
          NoPid,       \* SQL NULL in backend_pid; no connection
          NoRun,       \* no row opened
          Grace,       \* PID_REAP_GRACE
          StaleAfter,  \* STALE_RUN_AFTER
          MaxTime      \* bound on the clock

ASSUME SentinelsAssumption == NoPid \notin Pids /\ NoRun \notin RunIds
ASSUME TimesAssumption == /\ Grace \in Nat
                          /\ StaleAfter \in Nat
                          /\ MaxTime \in Nat \ {0}

NoTime == 0            \* SQL NULL in finished_at; the clock starts at 1

VARIABLES now,         \* the database server's and the workers' common clock
          runs,        \* committed rows of ingest_runs
          published,   \* runs whose data rows are committed
          pc,          \* where each worker's coroutine is
          run,         \* the row this worker's block yielded
          conn,        \* the backend each worker's session is connected to
          clock,       \* the last utcnow() the coroutine still holds
          pending,     \* data rows written in the worker's open transaction
          touched,     \* the open transaction has an UPDATE of the own row
          reaping,     \* rows the open transaction has marked failed
          churned      \* history: the connection changed since the pid was read

vars == <<now, runs, published, pc, run, conn, clock, pending, touched,
          reaping, churned>>

Absent == [status |-> "absent", started |-> NoTime, finished |-> NoTime,
           error |-> "none", pid |-> NoPid]

Row == [status : {"absent", "running", "failed", "success"},
        started : Nat, finished : Nat,
        error : {"none", "traceback", "backend gone", "no heartbeat"},
        pid : Pids \cup {NoPid}]

\* Coroutine positions at which the worker's own row exists and is its to close.
Owning == {"opened", "reaping", "reaped", "working", "flushed", "failing"}

Owns(w) == pc[w] \in Owning

\* pg_stat_activity: the backends that some session is connected to.
Activity == {conn[w] : w \in Workers} \ {NoPid}

\* Another transaction holds the lock on row r.
LockedByOther(r, w) ==
    \E v \in Workers \ {w} : \/ r \in reaping[v]
                             \/ (touched[v] /\ run[v] = r)

\* Seeded fault: a reaper that believes the age alone.
ReapableByAge(r, t) == /\ runs[r].status = "running"
                       /\ runs[r].started + Grace < t

\* Seeded fault: a reaper that also rewrites rows already marked failed.
ReapableTwice(r, t) == /\ runs[r].status \in {"running", "failed"}
                       /\ runs[r].started + Grace < t
                       /\ runs[r].pid \notin Activity

\* The WHERE clause of reap_stale_runs, with `now` read at time t.
Reapable(r, t) ==
    /\ runs[r].status = "running"
    /\ \/ /\ runs[r].pid # NoPid
          /\ runs[r].started + Grace < t
          /\ runs[r].pid \notin Activity
       \/ /\ runs[r].pid = NoPid
          /\ runs[r].started + StaleAfter < t

\* The row after reap_stale_runs set it failed, with `now` read at time t.
ReapedRow(row, t) ==
    [row EXCEPT !.status = "failed", !.finished = t,
                !.error = IF row.pid = NoPid THEN "no heartbeat" ELSE "backend gone"]

\* A commit makes the transaction's data rows visible.
Publish(w) == published' = IF pending[w] THEN published \cup {run[w]} ELSE published

Goto(w, from, to) == pc[w] = from /\ pc' = [pc EXCEPT ![w] = to]

\* The transaction is over: nothing is pending and its row locks are free.
EndTransaction(w) == /\ pending' = [pending EXCEPT ![w] = FALSE]
                     /\ touched' = [touched EXCEPT ![w] = FALSE]
                     /\ reaping' = [reaping EXCEPT ![w] = {}]

\* The coroutine is gone, and with it its transaction and its locals.
Leave(w) == /\ pc' = [pc EXCEPT ![w] = "idle"]
            /\ run' = [run EXCEPT ![w] = NoRun]
            /\ clock' = [clock EXCEPT ![w] = NoTime]
            /\ churned' = [churned EXCEPT ![w] = FALSE]
            /\ EndTransaction(w)

Init == /\ now = 1
        /\ runs = [r \in RunIds |-> Absent]
        /\ published = {}
        /\ pc = [w \in Workers |-> "idle"]
        /\ run = [w \in Workers |-> NoRun]
        /\ conn = [w \in Workers |-> NoPid]
        /\ clock = [w \in Workers |-> NoTime]
        /\ pending = [w \in Workers |-> FALSE]
        /\ touched = [w \in Workers |-> FALSE]
        /\ reaping = [w \in Workers |-> {}]
        /\ churned = [w \in Workers |-> FALSE]
-----------------------------------------------------------------------------
\* The arguments of IngestRun(...): started_at = utcnow(), then a first
\* statement that checks a connection out of the pool or opens one.
Begin(w) ==
    /\ Goto(w, "idle", "opening")
    /\ clock' = [clock EXCEPT ![w] = now]
    /\ IF conn[w] # NoPid THEN UNCHANGED conn
       ELSE \E p \in Pids \ Activity : conn' = [conn EXCEPT ![w] = p]
    /\ UNCHANGED <<now, runs, published, run, pending, touched, reaping, churned>>

\* session.add(run); session.commit().  The pid is the one read in this same
\* transaction, or NULL when reading it failed.
Insert(w) ==
    /\ Goto(w, "opening", "opened")
    /\ \E r \in RunIds, p \in {conn[w], NoPid} :
         /\ runs[r].status = "absent"
         /\ runs' = [runs EXCEPT ![r] =
                       [status |-> "running", started |-> clock[w],
                        finished |-> NoTime, error |-> "none", pid |-> p]]
         /\ run' = [run EXCEPT ![w] = r]
    /\ UNCHANGED <<now, published, conn, clock, pending, touched, reaping, churned>>

\* Seeded fault: the run's own row is updated in the transaction that reaps.
ReapClockTouches(w) ==
    /\ Goto(w, "opened", "reaping")
    /\ ~LockedByOther(run[w], w)
    /\ clock' = [clock EXCEPT ![w] = now]
    /\ touched' = [touched EXCEPT ![w] = TRUE]
    /\ UNCHANGED <<now, runs, published, run, conn, pending, reaping, churned>>

\* now = utcnow() at the top of reap_stale_runs.
ReapClock(w) ==
    /\ Goto(w, "opened", "reaping")
    /\ clock' = [clock EXCEPT ![w] = now]
    /\ UNCHANGED <<now, runs, published, run, conn, pending, touched, reaping, churned>>

\* The UPDATE of reap_stale_runs.  It waits while another transaction holds a
\* row it would change.
ReapUpdate(w) ==
    /\ Goto(w, "reaping", "reaped")
    /\ LET stale == {r \in RunIds : Reapable(r, clock[w])}
       IN /\ \A r \in stale : ~LockedByOther(r, w)
          /\ reaping' = [reaping EXCEPT ![w] = stale]
    /\ UNCHANGED <<now, runs, published, run, conn, clock, pending, touched, churned>>

\* The commit after the reap: the verdicts become visible, the locks go.
ReapCommit(w) ==
    /\ Goto(w, "reaped", "working")
    /\ runs' = [r \in RunIds |-> IF r \in reaping[w]
                                 THEN ReapedRow(runs[r], clock[w]) ELSE runs[r]]
    /\ reaping' = [reaping EXCEPT ![w] = {}]
    /\ UNCHANGED <<now, published, run, conn, clock, pending, touched, churned>>

\* The body writes data rows in its transaction (snapshots, games, bets).
Write(w) ==
    /\ pc[w] = "working" /\ ~pending[w]
    /\ pending' = [pending EXCEPT ![w] = TRUE]
    /\ UNCHANGED <<now, runs, published, pc, run, conn, clock, touched, reaping, churned>>

\* The body set api_requests or params and a later query autoflushed them: an
\* UPDATE of the own row, whose lock is held until the transaction ends.
Touch(w) ==
    /\ pc[w] = "working" /\ ~touched[w]
    /\ ~LockedByOther(run[w], w)
    /\ touched' = [touched EXCEPT ![w] = TRUE]
    /\ UNCHANGED <<now, runs, published, pc, run, conn, clock, pending, reaping, churned>>

\* The block ended without an exception: status, finished_at and error are
\* flushed, not committed.
FlushSuccess(w) ==
    /\ Goto(w, "working", "flushed")
    /\ ~LockedByOther(run[w], w)
    /\ touched' = [touched EXCEPT ![w] = TRUE]
    /\ clock' = [clock EXCEPT ![w] = now]
    /\ UNCHANGED <<now, runs, published, run, conn, pending, reaping, churned>>

\* Seeded fault: the error a reaper wrote is not cleared.
SucceededRowKeepsError(row, t) ==
    [row EXCEPT !.status = "success", !.finished = t]

\* Seeded fault: a status no code path writes (IngestStatus.PARTIAL).
SucceededRowPartial(row, t) ==
    [row EXCEPT !.status = "partial", !.finished = t, !.error = "none"]

\* The row as the success branch leaves it, finished at time t.
SucceededRow(row, t) ==
    [row EXCEPT !.status = "success", !.finished = t, !.error = "none"]

\* session_scope commits: the data rows and the verdict in one transaction.
Commit(w) ==
    /\ pc[w] = "flushed"
    /\ runs' = [runs EXCEPT ![run[w]] = SucceededRow(@, clock[w])]
    /\ Publish(w)
    /\ Leave(w)
    /\ UNCHANGED <<now, conn>>

\* Seeded fault: the failure is recorded in the transaction that did the work.
RaiseNoRollback(w) ==
    /\ Goto(w, "working", "failing")
    /\ UNCHANGED <<now, runs, published, run, conn, clock, pending, touched,
                   reaping, churned>>

\* The block raised an Exception: roll the work back before anything else.
Raise(w) ==
    /\ Goto(w, "working", "failing")
    /\ EndTransaction(w)
    /\ UNCHANGED <<now, runs, published, run, conn, clock, churned>>

\* The row as the failure branch leaves it, finished at time t.
FailedRow(row, t) ==
    [row EXCEPT !.status = "failed", !.finished = t, !.error = "traceback"]

\* The rest of the except branch: record the failure, commit, re-raise.
RecordFailure(w) ==
    /\ pc[w] = "failing"
    /\ ~LockedByOther(run[w], w)
    /\ runs' = [runs EXCEPT ![run[w]] = FailedRow(@, now)]
    /\ Publish(w)
    /\ Leave(w)
    /\ UNCHANGED <<now, conn>>
-----------------------------------------------------------------------------
\* The block is left without its verdict while the process lives on: the reap
\* raised before `try`, the task was cancelled (not an Exception), recording
\* the failure failed, or session_scope rolled back a flushed success because
\* something after the block raised.
Abandon(w) ==
    /\ pc[w] \in Owning \cup {"opening"}
    /\ Leave(w)
    /\ UNCHANGED <<now, runs, published, conn>>

\* The process dies, or ends between blocks: its backend goes away with it.
Crash(w) ==
    /\ conn[w] # NoPid
    /\ conn' = [conn EXCEPT ![w] = NoPid]
    /\ Leave(w)
    /\ UNCHANGED <<now, runs, published>>

\* Between two transactions the connection is back in the pool; the next
\* checkout may ping it dead and open another one (pool_pre_ping).
Reconnect(w) ==
    /\ pc[w] \in {"opened", "reaping", "working", "failing"}
    /\ ~pending[w] /\ ~touched[w]
    /\ \E p \in Pids \ Activity : conn' = [conn EXCEPT ![w] = p]
    /\ churned' = [churned EXCEPT ![w] = TRUE]
    /\ UNCHANGED <<now, runs, published, pc, run, clock, pending, touched, reaping>>

Tick == /\ now < MaxTime
        /\ now' = now + 1
        /\ UNCHANGED <<runs, published, pc, run, conn, clock, pending, touched,
                       reaping, churned>>

\* What a coroutine that has not raised does next.
Work(w) == \/ ReapClock(w) \/ ReapUpdate(w) \/ ReapCommit(w)
           \/ FlushSuccess(w) \/ Commit(w) \/ RecordFailure(w)

Next == \/ \E w \in Workers : \/ Begin(w) \/ Insert(w) \/ Work(w) \/ Write(w)
                              \/ Touch(w) \/ Raise(w) \/ Abandon(w) \/ Crash(w)
                              \/ Reconnect(w)
        \/ Tick

Spec == Init /\ [][Next]_vars

\* A coroutine whose next statement can run gets to run it: asyncio schedules
\* it, Postgres grants a free lock, and a body that neither returns nor raises
\* is not assumed.  Nothing obliges a process to begin, write, raise or die, so
\* none of these gets a process out of a wait.
FairSpec == Spec /\ \A w \in Workers : WF_vars(Work(w))
-----------------------------------------------------------------------------
TypeOK == /\ now \in Nat
          /\ runs \in [RunIds -> Row]
          /\ published \subseteq RunIds
          /\ pc \in [Workers -> Owning \cup {"idle", "opening"}]
          /\ run \in [Workers -> RunIds \cup {NoRun}]
          /\ conn \in [Workers -> Pids \cup {NoPid}]
          /\ clock \in [Workers -> Nat]
          /\ pending \in [Workers -> BOOLEAN]
          /\ touched \in [Workers -> BOOLEAN]
          /\ reaping \in [Workers -> SUBSET RunIds]
          /\ churned \in [Workers -> BOOLEAN]

\* The CHECK constraints of ingest_runs (finished_iff_done, failed_has_error,
\* success_has_no_error) hold of every row whichever of the block, a reaper and
\* the block again wrote it last, and a row never finishes before it started.
RowsCoherent ==
    \A r \in RunIds : LET row == runs[r] IN
        /\ (row.status \in {"failed", "success"}) <=> (row.finished # NoTime)
        /\ (row.status = "failed") <=> (row.error # "none")
        /\ row.finished # NoTime => row.finished >= row.started

\* Data rows are visible only under a run whose verdict is success, although
\* a reaper may have called that run dead while it was writing them and any
\* later reaper, crash or retry still runs.
PublishedRunsSucceeded ==
    \A r \in published : runs[r].status = "success"

\* A live run that recorded its pid and kept its connection is never called
\* dead: only a changed connection (or a pid that could not be read) exposes it.
ConnectedRunsAreNotReaped ==
    \A w \in Workers : (Owns(w) /\ ~churned[w] /\ runs[run[w]].pid # NoPid)
                          => runs[run[w]].status = "running"

\* A verdict the run itself recorded is never changed by anybody, and a
\* reaper's verdict is changed only by the run it was about.
VerdictsAreFinal ==
    [][\A r \in RunIds :
         (runs[r].status \in {"failed", "success"} /\ runs'[r] # runs[r]) =>
            /\ runs[r].error \in {"backend gone", "no heartbeat"}
            /\ \E w \in Workers : Owns(w) /\ run[w] = r /\ pc'[w] = "idle"]_vars

\* Reapers wait for the row locks of live runs and live runs for the locks of
\* reapers, yet every block that opened its row ends.
EveryBlockEnds == \A w \in Workers : Owns(w) ~> ~Owns(w)

\* The table as its readers may rely on it.
Verdict(r) ==
    IF runs[r].status = "absent" THEN "none"
    ELSE IF runs[r].status = "running" THEN "open"
    ELSE IF runs[r].status = "success" THEN "done"
    ELSE IF runs[r].error = "traceback" THEN "failed" ELSE "reaped"

Log == INSTANCE RunLog WITH verdict <- [r \in RunIds |-> Verdict(r)]

LogSpec == Log!Spec
=============================================================================
