-------------------------- MODULE IngestRuns_proofs --------------------------
(***************************************************************************)
(* Proofs about IngestRuns for every set of workers, rows and pids, every  *)
(* grace period and every bound.                                           *)
(***************************************************************************)
EXTENDS IngestRuns, TLAPS

\* A block and its row belong together: only a coroutine inside its block has a
\* row, no two blocks share one, and nobody but the block has given a verdict
\* other than a reaper's guess.
Ownership ==
    /\ \A w \in Workers : IF Owns(w)
                          THEN /\ run[w] \in RunIds
                               /\ runs[run[w]].status \in {"running", "failed"}
                               /\ runs[run[w]].error # "traceback"
                          ELSE run[w] = NoRun
    /\ \A v, w \in Workers : v # w /\ Owns(v) /\ Owns(w) => run[v] # run[w]

\* Which transactions can hold which row locks, and that no two hold the same.
Locks ==
    /\ \A w \in Workers : /\ pending[w] => pc[w] \in {"working", "flushed"}
                          /\ touched[w] => pc[w] \in {"working", "flushed"}
                          /\ pc[w] = "flushed" => touched[w]
    /\ \A w \in Workers : \A r \in reaping[w] :
          /\ pc[w] = "reaped"
          /\ runs[r].status = "running"
          /\ ~LockedByOther(r, w)

\* The times a coroutine still holds cannot precede the rows it will close.
Clocks ==
    /\ now > NoTime
    /\ \A r \in RunIds : runs[r].started <= now
    /\ \A w \in Workers : /\ clock[w] <= now
                          /\ pc[w] \in Owning \cup {"opening"} => clock[w] > NoTime
                          /\ pc[w] = "flushed" => runs[run[w]].started <= clock[w]
                          /\ \A r \in reaping[w] : runs[r].started <= clock[w]

\* A run that kept its connection is the one pg_stat_activity shows, so no
\* reaper holds its row.
Evidence ==
    \A w \in Workers :
       /\ pc[w] # "idle" => conn[w] # NoPid
       /\ pc[w] \in {"idle", "opening"} => ~churned[w]
       /\ (Owns(w) /\ ~churned[w] /\ runs[run[w]].pid # NoPid) =>
             /\ runs[run[w]].pid = conn[w]
             /\ \A v \in Workers : run[w] \notin reaping[v]

\* The inductive invariant: the three invariants the runs check, the type
\* invariant, and what ties rows, locks, times and connections together.
IInv == /\ TypeOK
        /\ Ownership
        /\ Locks
        /\ Clocks
        /\ Evidence
        /\ RowsCoherent
        /\ PublishedRunsSucceeded
        /\ ConnectedRunsAreNotReaped
-----------------------------------------------------------------------------
\* What a reaper makes of a row.
LEMMA ReapedRowForm ==
  ASSUME NEW row \in Row, NEW t \in Nat
  PROVE  /\ ReapedRow(row, t) \in Row
         /\ ReapedRow(row, t).status = "failed"
         /\ ReapedRow(row, t).started = row.started
         /\ ReapedRow(row, t).finished = t
         /\ ReapedRow(row, t).error \in {"backend gone", "no heartbeat"}
         /\ ReapedRow(row, t).pid = row.pid
  BY DEF Row, ReapedRow

\* What the success branch makes of a row.
LEMMA SucceededRowForm ==
  ASSUME NEW row \in Row, NEW t \in Nat
  PROVE  /\ SucceededRow(row, t) \in Row
         /\ SucceededRow(row, t).status = "success"
         /\ SucceededRow(row, t).started = row.started
         /\ SucceededRow(row, t).finished = t
         /\ SucceededRow(row, t).error = "none"
         /\ SucceededRow(row, t).pid = row.pid
  BY DEF Row, SucceededRow

\* What the failure branch makes of a row.
LEMMA FailedRowForm ==
  ASSUME NEW row \in Row, NEW t \in Nat
  PROVE  /\ FailedRow(row, t) \in Row
         /\ FailedRow(row, t).status = "failed"
         /\ FailedRow(row, t).started = row.started
         /\ FailedRow(row, t).finished = t
         /\ FailedRow(row, t).error = "traceback"
         /\ FailedRow(row, t).pid = row.pid
  BY DEF Row, FailedRow

\* Only an owner's row is a row at all.
LEMMA OwnRow ==
  ASSUME TypeOK, Ownership, NEW w \in Workers, Owns(w)
  PROVE  run[w] \in RunIds /\ runs[run[w]] \in Row
  BY DEF TypeOK, Ownership

\* The type invariant holds before anything runs.
LEMMA TypeInit == Init => TypeOK
  BY SentinelsAssumption DEF Init, TypeOK, Absent, Row, NoTime, Owning

\* Every step keeps every variable in its type.
LEMMA TypeStep ==
  ASSUME TypeOK, Ownership, [Next]_vars
  PROVE  TypeOK'
<1>1. ASSUME NEW w \in Workers, Begin(w) PROVE TypeOK'
  <2>1. /\ pc' \in [Workers -> Owning \cup {"idle", "opening"}]
        /\ clock' \in [Workers -> Nat]
    BY <1>1 DEF TypeOK, Begin, Goto, Owning
  <2>2. conn' \in [Workers -> Pids \cup {NoPid}]
    BY <1>1 DEF TypeOK, Begin
  <2>3. QED BY <1>1, <2>1, <2>2 DEF TypeOK, Begin
<1>2. ASSUME NEW w \in Workers, Insert(w) PROVE TypeOK'
  <2>1. PICK r \in RunIds, p \in {conn[w], NoPid} :
           /\ runs' = [runs EXCEPT ![r] =
                         [status |-> "running", started |-> clock[w],
                          finished |-> NoTime, error |-> "none", pid |-> p]]
           /\ run' = [run EXCEPT ![w] = r]
    BY <1>2 DEF Insert
  <2>2. [status |-> "running", started |-> clock[w], finished |-> NoTime,
         error |-> "none", pid |-> p] \in Row
    BY DEF TypeOK, Row, NoTime
  <2>3. runs' \in [RunIds -> Row] /\ run' \in [Workers -> RunIds \cup {NoRun}]
    BY <2>1, <2>2 DEF TypeOK
  <2>4. pc' \in [Workers -> Owning \cup {"idle", "opening"}]
    BY <1>2 DEF TypeOK, Insert, Goto, Owning
  <2>5. QED BY <1>2, <2>3, <2>4 DEF TypeOK, Insert
<1>3. ASSUME NEW w \in Workers, ReapClock(w) PROVE TypeOK'
  BY <1>3 DEF TypeOK, ReapClock, Goto, Owning
<1>4. ASSUME NEW w \in Workers, ReapUpdate(w) PROVE TypeOK'
  BY <1>4 DEF TypeOK, ReapUpdate, Goto, Owning
<1>5. ASSUME NEW w \in Workers, ReapCommit(w) PROVE TypeOK'
  <2>1. runs' \in [RunIds -> Row]
    BY <1>5, ReapedRowForm DEF TypeOK, ReapCommit
  <2>2. pc' \in [Workers -> Owning \cup {"idle", "opening"}]
    BY <1>5 DEF TypeOK, ReapCommit, Goto, Owning
  <2>3. QED BY <1>5, <2>1, <2>2 DEF TypeOK, ReapCommit
<1>6. ASSUME NEW w \in Workers, FlushSuccess(w) PROVE TypeOK'
  BY <1>6 DEF TypeOK, FlushSuccess, Goto, Owning
<1>7. ASSUME NEW w \in Workers, Commit(w) PROVE TypeOK'
  <2>1. run[w] \in RunIds /\ runs[run[w]] \in Row
    BY <1>7, OwnRow DEF Commit, Owns, Owning
  <2>2. SucceededRow(runs[run[w]], clock[w]) \in Row
    BY <2>1, SucceededRowForm DEF TypeOK
  <2>3. runs' \in [RunIds -> Row] /\ published' \subseteq RunIds
    BY <1>7, <2>1, <2>2 DEF TypeOK, Commit, Publish
  <2>4. QED BY <1>7, <2>3 DEF TypeOK, Commit, Leave, EndTransaction, NoTime
<1>8. ASSUME NEW w \in Workers, Raise(w) PROVE TypeOK'
  BY <1>8 DEF TypeOK, Raise, Goto, EndTransaction, Owning
<1>9. ASSUME NEW w \in Workers, RecordFailure(w) PROVE TypeOK'
  <2>1. run[w] \in RunIds /\ runs[run[w]] \in Row
    BY <1>9, OwnRow DEF RecordFailure, Owns, Owning
  <2>2. FailedRow(runs[run[w]], now) \in Row
    BY <2>1, FailedRowForm DEF TypeOK
  <2>3. runs' \in [RunIds -> Row] /\ published' \subseteq RunIds
    BY <1>9, <2>1, <2>2 DEF TypeOK, RecordFailure, Publish
  <2>4. QED BY <1>9, <2>3 DEF TypeOK, RecordFailure, Leave, EndTransaction, NoTime
<1>10. ASSUME NEW w \in Workers, Write(w) \/ Touch(w) PROVE TypeOK'
  BY <1>10 DEF TypeOK, Write, Touch
<1>11. ASSUME NEW w \in Workers, Abandon(w) PROVE TypeOK'
  BY <1>11 DEF TypeOK, Abandon, Leave, EndTransaction, NoTime
<1>12. ASSUME NEW w \in Workers, Crash(w) PROVE TypeOK'
  BY <1>12 DEF TypeOK, Crash, Leave, EndTransaction, NoTime
<1>13. ASSUME NEW w \in Workers, Reconnect(w) PROVE TypeOK'
  <2>1. conn' \in [Workers -> Pids \cup {NoPid}]
    BY <1>13 DEF TypeOK, Reconnect
  <2>2. QED BY <1>13, <2>1 DEF TypeOK, Reconnect
<1>14. ASSUME Tick PROVE TypeOK'
  BY <1>14 DEF TypeOK, Tick
<1>15. ASSUME UNCHANGED vars PROVE TypeOK'
  BY <1>15 DEF TypeOK, vars
<1>16. QED
  BY <1>1, <1>2, <1>3, <1>4, <1>5, <1>6, <1>7, <1>8, <1>9, <1>10, <1>11,
     <1>12, <1>13, <1>14, <1>15 DEF Next, Work

\* A reap's commit marks exactly the rows it holds, and nothing else changes.
ReapCommitEffect(w) ==
    /\ pc[w] = "reaped"
    /\ \A v \in Workers : /\ pc'[v] = IF v = w THEN "working" ELSE pc[v]
                          /\ reaping'[v] = IF v = w THEN {} ELSE reaping[v]
    /\ \A r \in RunIds \ reaping[w] : runs'[r] = runs[r]
    /\ \A r \in reaping[w] : /\ runs'[r].status = "failed"
                             /\ runs'[r].started = runs[r].started
                             /\ runs'[r].finished = clock[w]
                             /\ runs'[r].error \in {"backend gone", "no heartbeat"}
                             /\ runs'[r].pid = runs[r].pid
    /\ now' = now /\ published' = published /\ run' = run /\ conn' = conn
    /\ clock' = clock /\ pending' = pending /\ touched' = touched
    /\ churned' = churned

\* Committing a reap changes the rows it locked and nothing else.
LEMMA ReapCommitForm ==
  ASSUME IInv, NEW w \in Workers, ReapCommit(w)
  PROVE  ReapCommitEffect(w)
<1>1. clock[w] \in Nat /\ reaping[w] \subseteq RunIds
  BY DEF IInv, TypeOK
<1>2. ASSUME NEW r \in reaping[w]
      PROVE  runs[r] \in Row /\ runs'[r] = ReapedRow(runs[r], clock[w])
  BY <1>1 DEF ReapCommit, IInv, TypeOK
<1>3. ASSUME NEW r \in reaping[w]
      PROVE  /\ runs'[r].status = "failed"
             /\ runs'[r].started = runs[r].started
             /\ runs'[r].finished = clock[w]
             /\ runs'[r].error \in {"backend gone", "no heartbeat"}
             /\ runs'[r].pid = runs[r].pid
  <2>1. runs[r] \in Row /\ runs'[r] = ReapedRow(runs[r], clock[w])
    BY <1>2, <1>3
  <2>2. clock[w] \in Nat
    BY <1>1
  <2> DEFINE row == ReapedRow(runs[r], clock[w])
  <2>3. /\ row.status = "failed"
        /\ row.started = runs[r].started
        /\ row.finished = clock[w]
        /\ row.error \in {"backend gone", "no heartbeat"}
        /\ row.pid = runs[r].pid
    BY <2>1, <2>2, ReapedRowForm
  <2> HIDE DEF row
  <2>4. QED BY <2>1, <2>3 DEF row
<1>4. \A r \in RunIds \ reaping[w] : runs'[r] = runs[r]
  BY DEF ReapCommit
<1>5. /\ pc[w] = "reaped"
      /\ \A v \in Workers : /\ pc'[v] = IF v = w THEN "working" ELSE pc[v]
                            /\ reaping'[v] = IF v = w THEN {} ELSE reaping[v]
      /\ UNCHANGED <<now, published, run, conn, clock, pending, touched, churned>>
  BY DEF ReapCommit, Goto, IInv, TypeOK
<1>6. QED BY <1>3, <1>4, <1>5 DEF ReapCommitEffect

\* Closing a block changes its own row and nobody else's, and leaves the worker
\* with neither a row nor a transaction.
CloseEffect(w) ==
    /\ Owns(w) /\ run[w] \in RunIds
    /\ \A v \in Workers :
          /\ pc'[v] = IF v = w THEN "idle" ELSE pc[v]
          /\ run'[v] = IF v = w THEN NoRun ELSE run[v]
          /\ clock'[v] = IF v = w THEN NoTime ELSE clock[v]
          /\ churned'[v] <=> (v # w /\ churned[v])
          /\ pending'[v] <=> (v # w /\ pending[v])
          /\ touched'[v] <=> (v # w /\ touched[v])
          /\ reaping'[v] = IF v = w THEN {} ELSE reaping[v]
    /\ \A r \in RunIds \ {run[w]} : runs'[r] = runs[r]
    /\ runs'[run[w]].started = runs[run[w]].started
    /\ runs'[run[w]].pid = runs[run[w]].pid
    /\ \/ /\ pc[w] = "flushed"
          /\ runs'[run[w]].status = "success"
          /\ runs'[run[w]].error = "none"
          /\ runs'[run[w]].finished = clock[w]
          /\ published' \in {published, published \cup {run[w]}}
       \/ /\ pc[w] = "failing"
          /\ runs'[run[w]].status = "failed"
          /\ runs'[run[w]].error = "traceback"
          /\ runs'[run[w]].finished = now
          /\ ~LockedByOther(run[w], w)
          /\ published' = published
    /\ now' = now /\ conn' = conn

\* Commit and RecordFailure close the worker's own row and free its locks.
LEMMA CloseForm ==
  ASSUME IInv, NEW w \in Workers, Commit(w) \/ RecordFailure(w)
  PROVE  CloseEffect(w)
<1>1. Owns(w) /\ run[w] \in RunIds /\ runs[run[w]] \in Row
  BY OwnRow DEF Commit, RecordFailure, Owns, Owning, IInv
<1>2. /\ UNCHANGED <<now, conn>>
      /\ \A v \in Workers :
            /\ pc'[v] = IF v = w THEN "idle" ELSE pc[v]
            /\ run'[v] = IF v = w THEN NoRun ELSE run[v]
            /\ clock'[v] = IF v = w THEN NoTime ELSE clock[v]
            /\ reaping'[v] = IF v = w THEN {} ELSE reaping[v]
  BY DEF Commit, RecordFailure, Leave, EndTransaction, IInv, TypeOK
<1>3. ASSUME NEW v \in Workers
      PROVE  /\ churned'[v] <=> (v # w /\ churned[v])
             /\ pending'[v] <=> (v # w /\ pending[v])
             /\ touched'[v] <=> (v # w /\ touched[v])
  <2>1. /\ churned' = [churned EXCEPT ![w] = FALSE]
        /\ pending' = [pending EXCEPT ![w] = FALSE]
        /\ touched' = [touched EXCEPT ![w] = FALSE]
    BY DEF Commit, RecordFailure, Leave, EndTransaction
  <2>2. churned[v] \in BOOLEAN /\ pending[v] \in BOOLEAN /\ touched[v] \in BOOLEAN
    BY DEF IInv, TypeOK
  <2>3. QED BY <2>1, <2>2 DEF IInv, TypeOK
<1>4. CASE Commit(w)
  <2> DEFINE row == SucceededRow(runs[run[w]], clock[w])
  <2>1. runs' = [runs EXCEPT ![run[w]] = row]
    BY <1>4 DEF Commit
  <2>2. /\ pc[w] = "flushed"
        /\ clock[w] \in Nat
        /\ published' \in {published, published \cup {run[w]}}
    BY <1>4 DEF Commit, Publish, IInv, TypeOK
  <2>3. /\ row.status = "success"
        /\ row.error = "none"
        /\ row.finished = clock[w]
        /\ row.started = runs[run[w]].started
        /\ row.pid = runs[run[w]].pid
    BY <1>1, <2>2, SucceededRowForm
  <2> HIDE DEF row
  <2>4. runs'[run[w]] = row /\ \A r \in RunIds \ {run[w]} : runs'[r] = runs[r]
    BY <1>1, <2>1 DEF IInv, TypeOK
  <2>5. QED BY <1>1, <1>2, <2>2, <2>3, <2>4, <1>3 DEF CloseEffect
<1>5. CASE RecordFailure(w)
  <2> DEFINE row == FailedRow(runs[run[w]], now)
  <2>1. runs' = [runs EXCEPT ![run[w]] = row]
    BY <1>5 DEF RecordFailure
  <2>2. /\ pc[w] = "failing"
        /\ now \in Nat
        /\ ~LockedByOther(run[w], w)
        /\ published' = published
    BY <1>5 DEF RecordFailure, Publish, IInv, TypeOK, Locks
  <2>3. /\ row.status = "failed"
        /\ row.error = "traceback"
        /\ row.finished = now
        /\ row.started = runs[run[w]].started
        /\ row.pid = runs[run[w]].pid
    BY <1>1, <2>2, FailedRowForm
  <2> HIDE DEF row
  <2>4. runs'[run[w]] = row /\ \A r \in RunIds \ {run[w]} : runs'[r] = runs[r]
    BY <1>1, <2>1 DEF IInv, TypeOK
  <2>5. QED BY <1>1, <1>2, <2>2, <2>3, <2>4, <1>3 DEF CloseEffect
<1>6. QED BY <1>4, <1>5

\* Blocks and rows stay matched.
LEMMA OwnershipStep ==
  ASSUME IInv, [Next]_vars
  PROVE  Ownership'
<1>1. ASSUME NEW w \in Workers, Begin(w) PROVE Ownership'
  BY <1>1 DEF IInv, TypeOK, Ownership, Owns, Owning, Begin, Goto
<1>2. ASSUME NEW w \in Workers, Insert(w) PROVE Ownership'
  BY <1>2 DEF IInv, TypeOK, Ownership, Owns, Owning, Insert, Goto
<1>3. ASSUME NEW w \in Workers, ReapClock(w) PROVE Ownership'
  BY <1>3 DEF IInv, TypeOK, Ownership, Owns, Owning, ReapClock, Goto
<1>4. ASSUME NEW w \in Workers, ReapUpdate(w) PROVE Ownership'
  BY <1>4 DEF IInv, TypeOK, Ownership, Owns, Owning, ReapUpdate, Goto
<1>5. ASSUME NEW w \in Workers, ReapCommit(w) PROVE Ownership'
  <2>1. ReapCommitEffect(w)
    BY <1>5, ReapCommitForm
  <2>2. ASSUME NEW v \in Workers
        PROVE  /\ Owns(v)' <=> Owns(v)
               /\ run'[v] = run[v]
    BY <2>1 DEF ReapCommitEffect, Owns, Owning
  <2>3. ASSUME NEW v \in Workers, Owns(v)
        PROVE  /\ run[v] \in RunIds
               /\ runs'[run[v]].status \in {"running", "failed"}
               /\ runs'[run[v]].error # "traceback"
    <3>1. /\ run[v] \in RunIds
          /\ runs[run[v]].status \in {"running", "failed"}
          /\ runs[run[v]].error # "traceback"
      BY <2>3 DEF IInv, Ownership
    <3>2. CASE run[v] \in reaping[w]
      BY <2>1, <3>1, <3>2 DEF ReapCommitEffect
    <3>3. CASE run[v] \notin reaping[w]
      BY <2>1, <3>1, <3>3 DEF ReapCommitEffect
    <3>4. QED BY <3>2, <3>3
  <2>4. QED BY <2>2, <2>3 DEF IInv, Ownership
<1>6. ASSUME NEW w \in Workers, FlushSuccess(w) PROVE Ownership'
  BY <1>6 DEF IInv, TypeOK, Ownership, Owns, Owning, FlushSuccess, Goto
<1>7. ASSUME NEW w \in Workers, Commit(w) \/ RecordFailure(w) PROVE Ownership'
  <2>1. CloseEffect(w)
    BY <1>7, CloseForm
  <2>2. ASSUME NEW v \in Workers
        PROVE  /\ v = w => ~Owns(v)' /\ run'[v] = NoRun
               /\ v # w => (Owns(v)' <=> Owns(v)) /\ run'[v] = run[v]
    BY <2>1 DEF CloseEffect, Owns, Owning
  <2>3. ASSUME NEW v \in Workers, v # w, Owns(v)
        PROVE  run[v] \in RunIds /\ runs'[run[v]] = runs[run[v]]
    <3>1. run[v] \in RunIds /\ run[v] # run[w]
      BY <2>1, <2>3 DEF CloseEffect, IInv, Ownership
    <3>2. QED BY <2>1, <3>1 DEF CloseEffect
  <2>4. QED BY <2>2, <2>3 DEF IInv, Ownership
<1>8. ASSUME NEW w \in Workers, Raise(w) PROVE Ownership'
  BY <1>8 DEF IInv, TypeOK, Ownership, Owns, Owning, Raise, Goto, EndTransaction
<1>9. ASSUME NEW w \in Workers, Write(w) PROVE Ownership'
  BY <1>9 DEF IInv, TypeOK, Ownership, Owns, Owning, Write
<1>10. ASSUME NEW w \in Workers, Touch(w) PROVE Ownership'
  BY <1>10 DEF IInv, TypeOK, Ownership, Owns, Owning, Touch
<1>11. ASSUME NEW w \in Workers, Abandon(w) PROVE Ownership'
  BY <1>11 DEF IInv, TypeOK, Ownership, Owns, Owning, Abandon, Leave, EndTransaction
<1>12. ASSUME NEW w \in Workers, Crash(w) PROVE Ownership'
  BY <1>12 DEF IInv, TypeOK, Ownership, Owns, Owning, Crash, Leave, EndTransaction
<1>13. ASSUME NEW w \in Workers, Reconnect(w) PROVE Ownership'
  BY <1>13 DEF IInv, TypeOK, Ownership, Owns, Owning, Reconnect
<1>14. CASE Tick
  BY <1>14 DEF IInv, TypeOK, Ownership, Owns, Owning, Tick
<1>15. CASE UNCHANGED vars
  BY <1>15 DEF IInv, Ownership, Owns, Owning, vars
<1>16. QED
  BY <1>1, <1>2, <1>3, <1>4, <1>5, <1>6, <1>7, <1>8, <1>9, <1>10, <1>11, <1>12, <1>13, <1>14, <1>15 DEF Next, Work

\* Row locks stay exclusive and belong to open transactions.
LEMMA LocksStep ==
  ASSUME IInv, [Next]_vars
  PROVE  Locks'
<1>1. ASSUME NEW w \in Workers, Begin(w) PROVE Locks'
  BY <1>1 DEF IInv, TypeOK, Ownership, Locks, Owns, Owning, LockedByOther, Reapable, Begin, Goto
<1>2. ASSUME NEW w \in Workers, Insert(w) PROVE Locks'
  BY <1>2 DEF IInv, TypeOK, Ownership, Locks, Owns, Owning, LockedByOther, Reapable, Insert, Goto
<1>3. ASSUME NEW w \in Workers, ReapClock(w) PROVE Locks'
  BY <1>3 DEF IInv, TypeOK, Ownership, Locks, Owns, Owning, LockedByOther, Reapable, ReapClock, Goto
<1>4. ASSUME NEW w \in Workers, ReapUpdate(w) PROVE Locks'
  BY <1>4 DEF IInv, TypeOK, Ownership, Locks, Owns, Owning, LockedByOther, Reapable, ReapUpdate, Goto
<1>5. ASSUME NEW w \in Workers, ReapCommit(w) PROVE Locks'
  <2>1. ReapCommitEffect(w)
    BY <1>5, ReapCommitForm
  <2>2. ASSUME NEW v \in Workers
        PROVE  /\ pending'[v] => pc'[v] \in {"working", "flushed"}
               /\ touched'[v] => pc'[v] \in {"working", "flushed"}
               /\ pc'[v] = "flushed" => touched'[v]
    BY <2>1 DEF ReapCommitEffect, IInv, Locks
  <2>3. ASSUME NEW v \in Workers, NEW r \in reaping'[v]
        PROVE  pc'[v] = "reaped" /\ runs'[r].status = "running" /\ ~LockedByOther(r, v)'
    <3>1. v # w /\ r \in reaping[v]
      BY <2>1, <2>3 DEF ReapCommitEffect
    <3>2. /\ pc[v] = "reaped" /\ runs[r].status = "running"
          /\ \A u \in Workers \ {v} : r \notin reaping[u] /\ ~(touched[u] /\ run[u] = r)
      BY <3>1 DEF IInv, Locks, LockedByOther
    <3>3. r \in RunIds /\ r \notin reaping[w]
      BY <3>1, <3>2 DEF IInv, TypeOK
    <3>4. /\ pc'[v] = "reaped" /\ runs'[r].status = "running"
          /\ \A u \in Workers \ {v} : r \notin reaping'[u] /\ ~(touched'[u] /\ run'[u] = r)
      BY <2>1, <3>1, <3>2, <3>3 DEF ReapCommitEffect
    <3>5. QED BY <3>4 DEF LockedByOther
  <2>4. QED BY <2>2, <2>3 DEF Locks
<1>6. ASSUME NEW w \in Workers, FlushSuccess(w) PROVE Locks'
  BY <1>6 DEF IInv, TypeOK, Ownership, Locks, Owns, Owning, LockedByOther, Reapable, FlushSuccess, Goto
<1>7. ASSUME NEW w \in Workers, Commit(w) \/ RecordFailure(w) PROVE Locks'
  <2>1. CloseEffect(w)
    BY <1>7, CloseForm
  <2>2. ASSUME NEW v \in Workers
        PROVE  /\ pending'[v] => pc'[v] \in {"working", "flushed"}
               /\ touched'[v] => pc'[v] \in {"working", "flushed"}
               /\ pc'[v] = "flushed" => touched'[v]
    BY <2>1 DEF CloseEffect, IInv, Locks
  <2>3. ASSUME NEW v \in Workers, NEW r \in reaping'[v]
        PROVE  pc'[v] = "reaped" /\ runs'[r].status = "running" /\ ~LockedByOther(r, v)'
    <3>1. v # w /\ r \in reaping[v] /\ r \in RunIds
      BY <2>1, <2>3 DEF CloseEffect, IInv, TypeOK
    <3>2. /\ pc[v] = "reaped" /\ runs[r].status = "running"
          /\ \A u \in Workers \ {v} : r \notin reaping[u] /\ ~(touched[u] /\ run[u] = r)
      BY <3>1 DEF IInv, Locks, LockedByOther
    <3>3. r # run[w]
      <4>1. CASE pc[w] = "flushed"
        BY <3>1, <3>2, <4>1 DEF IInv, Locks
      <4>2. CASE pc[w] = "failing"
        BY <2>1, <3>1, <4>2 DEF CloseEffect, LockedByOther
      <4>3. QED BY <2>1, <4>1, <4>2 DEF CloseEffect
    <3>4. /\ pc'[v] = "reaped" /\ runs'[r].status = "running"
          /\ \A u \in Workers \ {v} : r \notin reaping'[u] /\ ~(touched'[u] /\ run'[u] = r)
      BY <2>1, <3>1, <3>2, <3>3 DEF CloseEffect
    <3>5. QED BY <3>4 DEF LockedByOther
  <2>4. QED BY <2>2, <2>3 DEF Locks
<1>8. ASSUME NEW w \in Workers, Raise(w) PROVE Locks'
  BY <1>8 DEF IInv, TypeOK, Ownership, Locks, Owns, Owning, LockedByOther, Reapable, Raise, Goto, EndTransaction
<1>9. ASSUME NEW w \in Workers, Write(w) PROVE Locks'
  BY <1>9 DEF IInv, TypeOK, Ownership, Locks, Owns, Owning, LockedByOther, Reapable, Write
<1>10. ASSUME NEW w \in Workers, Touch(w) PROVE Locks'
  BY <1>10 DEF IInv, TypeOK, Ownership, Locks, Owns, Owning, LockedByOther, Reapable, Touch
<1>11. ASSUME NEW w \in Workers, Abandon(w) PROVE Locks'
  BY <1>11 DEF IInv, TypeOK, Ownership, Locks, Owns, Owning, LockedByOther, Reapable, Abandon, Leave, EndTransaction
<1>12. ASSUME NEW w \in Workers, Crash(w) PROVE Locks'
  BY <1>12 DEF IInv, TypeOK, Ownership, Locks, Owns, Owning, LockedByOther, Reapable, Crash, Leave, EndTransaction
<1>13. ASSUME NEW w \in Workers, Reconnect(w) PROVE Locks'
  BY <1>13 DEF IInv, TypeOK, Ownership, Locks, Owns, Owning, LockedByOther, Reapable, Reconnect
<1>14. CASE Tick
  BY <1>14 DEF IInv, TypeOK, Ownership, Locks, Owns, Owning, LockedByOther, Reapable, Tick
<1>15. CASE UNCHANGED vars
  BY <1>15 DEF IInv, Ownership, Locks, Owns, Owning, LockedByOther, Reapable, vars
<1>16. QED
  BY <1>1, <1>2, <1>3, <1>4, <1>5, <1>6, <1>7, <1>8, <1>9, <1>10, <1>11, <1>12, <1>13, <1>14, <1>15 DEF Next, Work

\* No coroutine holds a time earlier than the rows it may close.
LEMMA ClocksStep ==
  ASSUME IInv, [Next]_vars
  PROVE  Clocks'
<1>1. ASSUME NEW w \in Workers, Begin(w) PROVE Clocks'
  BY <1>1 DEF IInv, TypeOK, Ownership, Locks, Clocks, Owns, Owning, NoTime, Begin, Goto
<1>2. ASSUME NEW w \in Workers, Insert(w) PROVE Clocks'
  BY <1>2 DEF IInv, TypeOK, Ownership, Locks, Clocks, Owns, Owning, NoTime, Insert, Goto
<1>3. ASSUME NEW w \in Workers, ReapClock(w) PROVE Clocks'
  <2>1. /\ pc[w] = "opened" /\ pc' = [pc EXCEPT ![w] = "reaping"]
        /\ clock' = [clock EXCEPT ![w] = now]
        /\ UNCHANGED <<now, runs, run, reaping>>
    BY <1>3 DEF ReapClock, Goto
  <2>2. reaping[w] = {}
    BY <2>1 DEF IInv, Locks
  <2>3. QED BY <2>1, <2>2 DEF IInv, TypeOK, Clocks, Owning, NoTime
<1>4. ASSUME NEW w \in Workers, ReapUpdate(w) PROVE Clocks'
  <2>1. /\ reaping' = [reaping EXCEPT ![w] = {r \in RunIds : Reapable(r, clock[w])}]
        /\ pc' = [pc EXCEPT ![w] = "reaped"] /\ pc[w] = "reaping"
        /\ UNCHANGED <<now, runs, run, clock>>
    BY <1>4 DEF ReapUpdate, Goto
  <2>2. ASSUME NEW r \in RunIds, Reapable(r, clock[w])
        PROVE  runs[r].started <= clock[w]
    <3>1. runs[r].started \in Nat /\ clock[w] \in Nat
      BY DEF IInv, TypeOK, Row
    <3>2. runs[r].started + Grace < clock[w] \/ runs[r].started + StaleAfter < clock[w]
      BY <2>2 DEF Reapable
    <3>3. QED BY <3>1, <3>2, TimesAssumption
  <2>3. ASSUME NEW v \in Workers, NEW r \in reaping'[v]
        PROVE  runs[r].started <= clock[v]
    BY <2>1, <2>2, <2>3 DEF IInv, TypeOK, Clocks
  <2>4. ASSUME NEW v \in Workers
        PROVE  /\ pc'[v] \in Owning \cup {"opening"} => pc[v] \in Owning \cup {"opening"}
               /\ pc'[v] = "flushed" => pc[v] = "flushed"
    BY <2>1 DEF IInv, TypeOK, Owning
  <2>5. QED BY <2>1, <2>3, <2>4 DEF IInv, Clocks
<1>5. ASSUME NEW w \in Workers, ReapCommit(w) PROVE Clocks'
  <2>1. ReapCommitEffect(w)
    BY <1>5, ReapCommitForm
  <2>2. \A r \in RunIds : runs'[r].started = runs[r].started
    BY <2>1 DEF ReapCommitEffect
  <2>3. ASSUME NEW v \in Workers, pc'[v] = "flushed"
        PROVE  runs'[run[v]].started <= clock[v]
    <3>1. pc[v] = "flushed"
      BY <2>1, <2>3 DEF ReapCommitEffect
    <3>2. run[v] \in RunIds /\ runs[run[v]].started <= clock[v]
      BY <3>1 DEF IInv, Ownership, Clocks, Owns, Owning
    <3>3. QED BY <2>2, <3>2
  <2>4. ASSUME NEW v \in Workers, NEW r \in reaping'[v]
        PROVE  runs'[r].started <= clock[v]
    <3>1. r \in reaping[v] /\ r \in RunIds
      BY <2>1, <2>4 DEF ReapCommitEffect, IInv, TypeOK
    <3>2. QED BY <2>2, <3>1 DEF IInv, Clocks
  <2>5. /\ now' = now /\ clock' = clock /\ run' = run
        /\ \A v \in Workers : pc'[v] \in Owning \cup {"opening"} => pc[v] \in Owning \cup {"opening"}
    BY <2>1 DEF ReapCommitEffect, Owning
  <2>6. QED BY <2>2, <2>3, <2>4, <2>5 DEF IInv, Clocks
<1>6. ASSUME NEW w \in Workers, FlushSuccess(w) PROVE Clocks'
  BY <1>6 DEF IInv, TypeOK, Ownership, Locks, Clocks, Owns, Owning, NoTime, FlushSuccess, Goto
<1>7. ASSUME NEW w \in Workers, Commit(w) \/ RecordFailure(w) PROVE Clocks'
  <2>1. CloseEffect(w)
    BY <1>7, CloseForm
  <2>2. \A r \in RunIds : runs'[r].started = runs[r].started
    BY <2>1 DEF CloseEffect
  <2>3. ASSUME NEW v \in Workers, pc'[v] = "flushed"
        PROVE  runs'[run'[v]].started <= clock'[v]
    <3>1. v # w /\ pc[v] = "flushed" /\ run'[v] = run[v] /\ clock'[v] = clock[v]
      BY <2>1, <2>3 DEF CloseEffect
    <3>2. run[v] \in RunIds /\ runs[run[v]].started <= clock[v]
      BY <3>1 DEF IInv, Ownership, Clocks, Owns, Owning
    <3>3. QED BY <2>2, <3>1, <3>2
  <2>4. ASSUME NEW v \in Workers, NEW r \in reaping'[v]
        PROVE  runs'[r].started <= clock'[v]
    <3>1. r \in reaping[v] /\ r \in RunIds /\ clock'[v] = clock[v]
      BY <2>1, <2>4 DEF CloseEffect, IInv, TypeOK
    <3>2. QED BY <2>2, <3>1 DEF IInv, Clocks
  <2>5. ASSUME NEW v \in Workers
        PROVE  /\ clock'[v] <= now
               /\ pc'[v] \in Owning \cup {"opening"} => clock'[v] > NoTime
    BY <2>1 DEF CloseEffect, IInv, TypeOK, Clocks, Owning, NoTime
  <2>6. now' = now
    BY <2>1 DEF CloseEffect
  <2>7. QED BY <2>2, <2>3, <2>4, <2>5, <2>6 DEF IInv, Clocks
<1>8. ASSUME NEW w \in Workers, Raise(w) PROVE Clocks'
  BY <1>8 DEF IInv, TypeOK, Ownership, Locks, Clocks, Owns, Owning, NoTime, Raise, Goto, EndTransaction
<1>9. ASSUME NEW w \in Workers, Write(w) PROVE Clocks'
  BY <1>9 DEF IInv, TypeOK, Ownership, Locks, Clocks, Owns, Owning, NoTime, Write
<1>10. ASSUME NEW w \in Workers, Touch(w) PROVE Clocks'
  BY <1>10 DEF IInv, TypeOK, Ownership, Locks, Clocks, Owns, Owning, NoTime, Touch
<1>11. ASSUME NEW w \in Workers, Abandon(w) PROVE Clocks'
  BY <1>11 DEF IInv, TypeOK, Ownership, Locks, Clocks, Owns, Owning, NoTime, Abandon, Leave, EndTransaction
<1>12. ASSUME NEW w \in Workers, Crash(w) PROVE Clocks'
  BY <1>12 DEF IInv, TypeOK, Ownership, Locks, Clocks, Owns, Owning, NoTime, Crash, Leave, EndTransaction
<1>13. ASSUME NEW w \in Workers, Reconnect(w) PROVE Clocks'
  <2>1. UNCHANGED <<now, runs, pc, run, clock, reaping>>
    BY <1>13 DEF Reconnect
  <2>2. QED BY <2>1 DEF IInv, Clocks
<1>14. CASE Tick
  <2>1. now \in Nat /\ now' = now + 1 /\ UNCHANGED <<runs, pc, run, clock, reaping>>
    BY <1>14 DEF Tick, IInv, TypeOK
  <2>2. \A r \in RunIds : runs[r].started \in Nat
    BY DEF IInv, TypeOK, Row
  <2>3. \A v \in Workers : clock[v] \in Nat
    BY DEF IInv, TypeOK
  <2>4. /\ now' > NoTime
        /\ \A r \in RunIds : runs[r].started <= now'
        /\ \A v \in Workers : clock[v] <= now'
    BY <2>1, <2>2, <2>3 DEF IInv, Clocks, NoTime
  <2>5. QED BY <2>1, <2>4 DEF IInv, Clocks
<1>15. CASE UNCHANGED vars
  BY <1>15 DEF IInv, Ownership, Locks, Clocks, Owns, Owning, NoTime, vars
<1>16. QED
  BY <1>1, <1>2, <1>3, <1>4, <1>5, <1>6, <1>7, <1>8, <1>9, <1>10, <1>11, <1>12, <1>13, <1>14, <1>15 DEF Next, Work

\* A run that kept its connection stays out of every reaper's hands.
LEMMA EvidenceStep ==
  ASSUME IInv, [Next]_vars
  PROVE  Evidence'
<1>1. ASSUME NEW w \in Workers, Begin(w) PROVE Evidence'
  <2>1. /\ pc[w] = "idle" /\ pc' = [pc EXCEPT ![w] = "opening"]
        /\ UNCHANGED <<runs, run, reaping, churned>>
    BY <1>1 DEF Begin, Goto
  <2>2. \A v \in Workers : conn'[v] = conn[v] \/ (v = w /\ conn[v] = NoPid)
    BY <1>1 DEF Begin, IInv, TypeOK
  <2>3. conn'[w] # NoPid
    BY <1>1, SentinelsAssumption DEF Begin, IInv, TypeOK
  <2>4. ASSUME NEW v \in Workers
        PROVE  /\ pc'[v] # "idle" => conn'[v] # NoPid
               /\ pc'[v] \in {"idle", "opening"} => ~churned[v]
    BY <2>1, <2>2, <2>3 DEF IInv, TypeOK, Evidence
  <2>5. ASSUME NEW v \in Workers, Owns(v)'
        PROVE  Owns(v) /\ conn'[v] = conn[v]
    BY <2>1, <2>2, <2>5 DEF IInv, TypeOK, Owns, Owning
  <2>6. QED BY <2>1, <2>4, <2>5 DEF IInv, Evidence
<1>2. ASSUME NEW w \in Workers, Insert(w) PROVE Evidence'
  BY <1>2 DEF IInv, TypeOK, Ownership, Locks, Evidence, Owns, Owning, Reapable, Activity, Insert, Goto
<1>3. ASSUME NEW w \in Workers, ReapClock(w) PROVE Evidence'
  BY <1>3 DEF IInv, TypeOK, Ownership, Locks, Evidence, Owns, Owning, Reapable, Activity, ReapClock, Goto
<1>4. ASSUME NEW w \in Workers, ReapUpdate(w) PROVE Evidence'
  BY <1>4 DEF IInv, TypeOK, Ownership, Locks, Evidence, Owns, Owning, Reapable, Activity, ReapUpdate, Goto
<1>5. ASSUME NEW w \in Workers, ReapCommit(w) PROVE Evidence'
  <2>1. ReapCommitEffect(w)
    BY <1>5, ReapCommitForm
  <2>2. ASSUME NEW v \in Workers
        PROVE  /\ pc'[v] # "idle" => conn'[v] # NoPid
               /\ pc'[v] \in {"idle", "opening"} => ~churned'[v]
    BY <2>1 DEF ReapCommitEffect, IInv, Evidence
  <2>3. ASSUME NEW v \in Workers, Owns(v)', ~churned'[v], runs'[run'[v]].pid # NoPid
        PROVE  /\ runs'[run'[v]].pid = conn'[v]
               /\ \A u \in Workers : run'[v] \notin reaping'[u]
    <3>1. Owns(v) /\ run'[v] = run[v] /\ conn'[v] = conn[v] /\ ~churned[v]
      BY <2>1, <2>3 DEF ReapCommitEffect, Owns, Owning
    <3>2. run[v] \in RunIds
      BY <3>1 DEF IInv, Ownership
    <3>3. runs'[run[v]].pid = runs[run[v]].pid
      BY <2>1, <3>2 DEF ReapCommitEffect
    <3>4. /\ runs[run[v]].pid = conn[v]
          /\ \A u \in Workers : run[v] \notin reaping[u]
      BY <2>3, <3>1, <3>3 DEF IInv, Evidence
    <3>5. QED BY <2>1, <3>1, <3>3, <3>4 DEF ReapCommitEffect
  <2>4. QED BY <2>2, <2>3 DEF Evidence
<1>6. ASSUME NEW w \in Workers, FlushSuccess(w) PROVE Evidence'
  BY <1>6 DEF IInv, TypeOK, Ownership, Locks, Evidence, Owns, Owning, Reapable, Activity, FlushSuccess, Goto
<1>7. ASSUME NEW w \in Workers, Commit(w) \/ RecordFailure(w) PROVE Evidence'
  <2>1. CloseEffect(w)
    BY <1>7, CloseForm
  <2>2. ASSUME NEW v \in Workers
        PROVE  /\ pc'[v] # "idle" => conn'[v] # NoPid
               /\ pc'[v] \in {"idle", "opening"} => ~churned'[v]
    BY <2>1 DEF CloseEffect, IInv, Evidence
  <2>3. ASSUME NEW v \in Workers, Owns(v)', ~churned'[v], runs'[run'[v]].pid # NoPid
        PROVE  /\ runs'[run'[v]].pid = conn'[v]
               /\ \A u \in Workers : run'[v] \notin reaping'[u]
    <3>1. v # w /\ Owns(v) /\ run'[v] = run[v] /\ conn'[v] = conn[v] /\ ~churned[v]
      BY <2>1, <2>3 DEF CloseEffect, Owns, Owning
    <3>2. run[v] \in RunIds /\ run[v] # run[w]
      BY <2>1, <3>1 DEF CloseEffect, IInv, Ownership
    <3>3. runs'[run[v]] = runs[run[v]]
      BY <2>1, <3>2 DEF CloseEffect
    <3>4. /\ runs[run[v]].pid = conn[v]
          /\ \A u \in Workers : run[v] \notin reaping[u]
      BY <2>3, <3>1, <3>3 DEF IInv, Evidence
    <3>5. QED BY <2>1, <3>1, <3>3, <3>4 DEF CloseEffect
  <2>4. QED BY <2>2, <2>3 DEF Evidence
<1>8. ASSUME NEW w \in Workers, Raise(w) PROVE Evidence'
  BY <1>8 DEF IInv, TypeOK, Ownership, Locks, Evidence, Owns, Owning, Reapable, Activity, Raise, Goto, EndTransaction
<1>9. ASSUME NEW w \in Workers, Write(w) PROVE Evidence'
  BY <1>9 DEF IInv, TypeOK, Ownership, Locks, Evidence, Owns, Owning, Reapable, Activity, Write
<1>10. ASSUME NEW w \in Workers, Touch(w) PROVE Evidence'
  BY <1>10 DEF IInv, TypeOK, Ownership, Locks, Evidence, Owns, Owning, Reapable, Activity, Touch
<1>11. ASSUME NEW w \in Workers, Abandon(w) PROVE Evidence'
  BY <1>11 DEF IInv, TypeOK, Ownership, Locks, Evidence, Owns, Owning, Reapable, Activity, Abandon, Leave, EndTransaction
<1>12. ASSUME NEW w \in Workers, Crash(w) PROVE Evidence'
  <2>1. /\ pc' = [pc EXCEPT ![w] = "idle"] /\ run' = [run EXCEPT ![w] = NoRun]
        /\ conn' = [conn EXCEPT ![w] = NoPid] /\ churned' = [churned EXCEPT ![w] = FALSE]
        /\ reaping' = [reaping EXCEPT ![w] = {}] /\ runs' = runs
    BY <1>12 DEF Crash, Leave, EndTransaction
  <2>2. QED BY <2>1 DEF IInv, TypeOK, Evidence, Owns, Owning
<1>13. ASSUME NEW w \in Workers, Reconnect(w) PROVE Evidence'
  <2>1. /\ churned' = [churned EXCEPT ![w] = TRUE] /\ Owns(w)
        /\ UNCHANGED <<runs, pc, run, reaping>>
    BY <1>13 DEF Reconnect, Owns, Owning
  <2>2. conn'[w] # NoPid /\ \A v \in Workers \ {w} : conn'[v] = conn[v]
    BY <1>13, SentinelsAssumption DEF Reconnect, IInv, TypeOK
  <2>3. churned'[w] /\ \A v \in Workers \ {w} : churned'[v] = churned[v]
    BY <2>1 DEF IInv, TypeOK
  <2>4. QED BY <2>1, <2>2, <2>3 DEF IInv, Evidence, Owns, Owning
<1>14. CASE Tick
  BY <1>14 DEF IInv, TypeOK, Ownership, Locks, Evidence, Owns, Owning, Reapable, Activity, Tick
<1>15. CASE UNCHANGED vars
  BY <1>15 DEF IInv, Ownership, Locks, Evidence, Owns, Owning, Reapable, Activity, vars
<1>16. QED
  BY <1>1, <1>2, <1>3, <1>4, <1>5, <1>6, <1>7, <1>8, <1>9, <1>10, <1>11, <1>12, <1>13, <1>14, <1>15 DEF Next, Work

\* The CHECK constraints survive every step.
LEMMA RowsCoherentStep ==
  ASSUME IInv, [Next]_vars
  PROVE  RowsCoherent'
<1>1. ASSUME NEW w \in Workers, Begin(w) PROVE RowsCoherent'
  BY <1>1 DEF IInv, TypeOK, Ownership, Locks, Clocks, RowsCoherent, Owns, Owning, NoTime, Begin, Goto
<1>2. ASSUME NEW w \in Workers, Insert(w) PROVE RowsCoherent'
  BY <1>2 DEF IInv, TypeOK, Ownership, Locks, Clocks, RowsCoherent, Owns, Owning, NoTime, Insert, Goto
<1>3. ASSUME NEW w \in Workers, ReapClock(w) PROVE RowsCoherent'
  BY <1>3 DEF IInv, TypeOK, Ownership, Locks, Clocks, RowsCoherent, Owns, Owning, NoTime, ReapClock, Goto
<1>4. ASSUME NEW w \in Workers, ReapUpdate(w) PROVE RowsCoherent'
  BY <1>4 DEF IInv, TypeOK, Ownership, Locks, Clocks, RowsCoherent, Owns, Owning, NoTime, ReapUpdate, Goto
<1>5. ASSUME NEW w \in Workers, ReapCommit(w) PROVE RowsCoherent'
  <2>1. ReapCommitEffect(w)
    BY <1>5, ReapCommitForm
  <2>2. ASSUME NEW r \in reaping[w]
        PROVE  /\ runs'[r].status = "failed" /\ runs'[r].error # "none"
               /\ runs'[r].finished # NoTime /\ runs'[r].started <= runs'[r].finished
    <3>1. r \in RunIds /\ clock[w] > NoTime /\ runs[r].started <= clock[w]
      BY <2>1, <2>2 DEF ReapCommitEffect, IInv, TypeOK, Clocks, Owning
    <3>2. /\ runs'[r].status = "failed" /\ runs'[r].error # "none"
          /\ runs'[r].finished = clock[w] /\ runs'[r].started = runs[r].started
      BY <2>1, <2>2 DEF ReapCommitEffect
    <3>3. QED BY <3>1, <3>2 DEF NoTime
  <2>3. \A r \in RunIds \ reaping[w] : runs'[r] = runs[r]
    BY <2>1 DEF ReapCommitEffect
  <2>4. \A r \in reaping[w] : runs'[r].finished >= runs'[r].started
    BY <2>2
  <2>5. QED BY <2>2, <2>3, <2>4 DEF IInv, RowsCoherent
<1>6. ASSUME NEW w \in Workers, FlushSuccess(w) PROVE RowsCoherent'
  BY <1>6 DEF IInv, TypeOK, Ownership, Locks, Clocks, RowsCoherent, Owns, Owning, NoTime, FlushSuccess, Goto
<1>7. ASSUME NEW w \in Workers, Commit(w) \/ RecordFailure(w) PROVE RowsCoherent'
  <2>1. CloseEffect(w)
    BY <1>7, CloseForm
  <2>2. /\ run[w] \in RunIds /\ now > NoTime /\ clock[w] > NoTime
        /\ pc[w] = "flushed" => runs[run[w]].started <= clock[w]
        /\ runs[run[w]].started <= now
    BY <2>1 DEF CloseEffect, IInv, Clocks, Owning
  <2>3. /\ (runs'[run[w]].status \in {"failed", "success"}) <=> (runs'[run[w]].finished # NoTime)
        /\ (runs'[run[w]].status = "failed") <=> (runs'[run[w]].error # "none")
        /\ runs'[run[w]].finished >= runs'[run[w]].started
    BY <2>1, <2>2 DEF CloseEffect, NoTime
  <2>4. \A r \in RunIds \ {run[w]} : runs'[r] = runs[r]
    BY <2>1 DEF CloseEffect
  <2>5. QED BY <2>3, <2>4 DEF IInv, RowsCoherent
<1>8. ASSUME NEW w \in Workers, Raise(w) PROVE RowsCoherent'
  BY <1>8 DEF IInv, TypeOK, Ownership, Locks, Clocks, RowsCoherent, Owns, Owning, NoTime, Raise, Goto, EndTransaction
<1>9. ASSUME NEW w \in Workers, Write(w) PROVE RowsCoherent'
  BY <1>9 DEF IInv, TypeOK, Ownership, Locks, Clocks, RowsCoherent, Owns, Owning, NoTime, Write
<1>10. ASSUME NEW w \in Workers, Touch(w) PROVE RowsCoherent'
  BY <1>10 DEF IInv, TypeOK, Ownership, Locks, Clocks, RowsCoherent, Owns, Owning, NoTime, Touch
<1>11. ASSUME NEW w \in Workers, Abandon(w) PROVE RowsCoherent'
  BY <1>11 DEF IInv, TypeOK, Ownership, Locks, Clocks, RowsCoherent, Owns, Owning, NoTime, Abandon, Leave, EndTransaction
<1>12. ASSUME NEW w \in Workers, Crash(w) PROVE RowsCoherent'
  BY <1>12 DEF IInv, TypeOK, Ownership, Locks, Clocks, RowsCoherent, Owns, Owning, NoTime, Crash, Leave, EndTransaction
<1>13. ASSUME NEW w \in Workers, Reconnect(w) PROVE RowsCoherent'
  BY <1>13 DEF IInv, TypeOK, Ownership, Locks, Clocks, RowsCoherent, Owns, Owning, NoTime, Reconnect
<1>14. CASE Tick
  BY <1>14 DEF IInv, TypeOK, Ownership, Locks, Clocks, RowsCoherent, Owns, Owning, NoTime, Tick
<1>15. CASE UNCHANGED vars
  BY <1>15 DEF IInv, Ownership, Locks, Clocks, RowsCoherent, Owns, Owning, NoTime, vars
<1>16. QED
  BY <1>1, <1>2, <1>3, <1>4, <1>5, <1>6, <1>7, <1>8, <1>9, <1>10, <1>11, <1>12, <1>13, <1>14, <1>15 DEF Next, Work

\* No step publishes rows without success or takes a success away.
LEMMA PublishedStep ==
  ASSUME IInv, [Next]_vars
  PROVE  PublishedRunsSucceeded'
<1>1. ASSUME NEW w \in Workers, Begin(w) PROVE PublishedRunsSucceeded'
  BY <1>1 DEF IInv, TypeOK, Ownership, Locks, PublishedRunsSucceeded, Owns, Owning, Begin, Goto
<1>2. ASSUME NEW w \in Workers, Insert(w) PROVE PublishedRunsSucceeded'
  BY <1>2 DEF IInv, TypeOK, Ownership, Locks, PublishedRunsSucceeded, Owns, Owning, Insert, Goto
<1>3. ASSUME NEW w \in Workers, ReapClock(w) PROVE PublishedRunsSucceeded'
  BY <1>3 DEF IInv, TypeOK, Ownership, Locks, PublishedRunsSucceeded, Owns, Owning, ReapClock, Goto
<1>4. ASSUME NEW w \in Workers, ReapUpdate(w) PROVE PublishedRunsSucceeded'
  BY <1>4 DEF IInv, TypeOK, Ownership, Locks, PublishedRunsSucceeded, Owns, Owning, ReapUpdate, Goto
<1>5. ASSUME NEW w \in Workers, ReapCommit(w) PROVE PublishedRunsSucceeded'
  <2>1. ReapCommitEffect(w)
    BY <1>5, ReapCommitForm
  <2>2. ASSUME NEW r \in published PROVE runs'[r].status = "success"
    <3>1. r \in RunIds /\ runs[r].status = "success"
      BY DEF IInv, TypeOK, PublishedRunsSucceeded
    <3>2. r \notin reaping[w]
      BY <3>1 DEF IInv, Locks
    <3>3. QED BY <2>1, <3>1, <3>2 DEF ReapCommitEffect
  <2>3. QED BY <2>1, <2>2 DEF ReapCommitEffect, PublishedRunsSucceeded
<1>6. ASSUME NEW w \in Workers, FlushSuccess(w) PROVE PublishedRunsSucceeded'
  BY <1>6 DEF IInv, TypeOK, Ownership, Locks, PublishedRunsSucceeded, Owns, Owning, FlushSuccess, Goto
<1>7. ASSUME NEW w \in Workers, Commit(w) \/ RecordFailure(w) PROVE PublishedRunsSucceeded'
  <2>1. CloseEffect(w)
    BY <1>7, CloseForm
  <2>2. ASSUME NEW r \in published PROVE runs'[r].status = "success"
    <3>1. r \in RunIds /\ runs[r].status = "success"
      BY DEF IInv, TypeOK, PublishedRunsSucceeded
    <3>2. r # run[w]
      BY <2>1, <3>1 DEF CloseEffect, IInv, Ownership
    <3>3. QED BY <2>1, <3>1, <3>2 DEF CloseEffect
  <2>3. QED BY <2>1, <2>2 DEF CloseEffect, PublishedRunsSucceeded
<1>8. ASSUME NEW w \in Workers, Raise(w) PROVE PublishedRunsSucceeded'
  BY <1>8 DEF IInv, TypeOK, Ownership, Locks, PublishedRunsSucceeded, Owns, Owning, Raise, Goto, EndTransaction
<1>9. ASSUME NEW w \in Workers, Write(w) PROVE PublishedRunsSucceeded'
  BY <1>9 DEF IInv, TypeOK, Ownership, Locks, PublishedRunsSucceeded, Owns, Owning, Write
<1>10. ASSUME NEW w \in Workers, Touch(w) PROVE PublishedRunsSucceeded'
  BY <1>10 DEF IInv, TypeOK, Ownership, Locks, PublishedRunsSucceeded, Owns, Owning, Touch
<1>11. ASSUME NEW w \in Workers, Abandon(w) PROVE PublishedRunsSucceeded'
  BY <1>11 DEF IInv, TypeOK, Ownership, Locks, PublishedRunsSucceeded, Owns, Owning, Abandon, Leave, EndTransaction
<1>12. ASSUME NEW w \in Workers, Crash(w) PROVE PublishedRunsSucceeded'
  BY <1>12 DEF IInv, TypeOK, Ownership, Locks, PublishedRunsSucceeded, Owns, Owning, Crash, Leave, EndTransaction
<1>13. ASSUME NEW w \in Workers, Reconnect(w) PROVE PublishedRunsSucceeded'
  BY <1>13 DEF IInv, TypeOK, Ownership, Locks, PublishedRunsSucceeded, Owns, Owning, Reconnect
<1>14. CASE Tick
  BY <1>14 DEF IInv, TypeOK, Ownership, Locks, PublishedRunsSucceeded, Owns, Owning, Tick
<1>15. CASE UNCHANGED vars
  BY <1>15 DEF IInv, Ownership, Locks, PublishedRunsSucceeded, Owns, Owning, vars
<1>16. QED
  BY <1>1, <1>2, <1>3, <1>4, <1>5, <1>6, <1>7, <1>8, <1>9, <1>10, <1>11, <1>12, <1>13, <1>14, <1>15 DEF Next, Work

\* No step marks a connected run failed.
LEMMA ConnectedStep ==
  ASSUME IInv, [Next]_vars
  PROVE  ConnectedRunsAreNotReaped'
<1>1. ASSUME NEW w \in Workers, Begin(w) PROVE ConnectedRunsAreNotReaped'
  BY <1>1 DEF IInv, TypeOK, Ownership, Locks, Evidence, ConnectedRunsAreNotReaped, Owns, Owning, Begin, Goto
<1>2. ASSUME NEW w \in Workers, Insert(w) PROVE ConnectedRunsAreNotReaped'
  BY <1>2 DEF IInv, TypeOK, Ownership, Locks, Evidence, ConnectedRunsAreNotReaped, Owns, Owning, Insert, Goto
<1>3. ASSUME NEW w \in Workers, ReapClock(w) PROVE ConnectedRunsAreNotReaped'
  BY <1>3 DEF IInv, TypeOK, Ownership, Locks, Evidence, ConnectedRunsAreNotReaped, Owns, Owning, ReapClock, Goto
<1>4. ASSUME NEW w \in Workers, ReapUpdate(w) PROVE ConnectedRunsAreNotReaped'
  BY <1>4 DEF IInv, TypeOK, Ownership, Locks, Evidence, ConnectedRunsAreNotReaped, Owns, Owning, ReapUpdate, Goto
<1>5. ASSUME NEW w \in Workers, ReapCommit(w) PROVE ConnectedRunsAreNotReaped'
  <2>1. ReapCommitEffect(w)
    BY <1>5, ReapCommitForm
  <2>2. ASSUME NEW v \in Workers, Owns(v)', ~churned'[v], runs'[run'[v]].pid # NoPid
        PROVE  runs'[run'[v]].status = "running"
    <3>1. Owns(v) /\ run'[v] = run[v] /\ ~churned[v]
      BY <2>1, <2>2 DEF ReapCommitEffect, Owns, Owning
    <3>2. run[v] \in RunIds
      BY <3>1 DEF IInv, Ownership
    <3>3. runs[run[v]].pid # NoPid
      BY <2>1, <2>2, <3>1, <3>2 DEF ReapCommitEffect
    <3>4. run[v] \notin reaping[w] /\ runs[run[v]].status = "running"
      BY <3>1, <3>3 DEF IInv, Evidence, ConnectedRunsAreNotReaped
    <3>5. QED BY <2>1, <3>1, <3>2, <3>4 DEF ReapCommitEffect
  <2>3. QED BY <2>2 DEF ConnectedRunsAreNotReaped
<1>6. ASSUME NEW w \in Workers, FlushSuccess(w) PROVE ConnectedRunsAreNotReaped'
  BY <1>6 DEF IInv, TypeOK, Ownership, Locks, Evidence, ConnectedRunsAreNotReaped, Owns, Owning, FlushSuccess, Goto
<1>7. ASSUME NEW w \in Workers, Commit(w) \/ RecordFailure(w) PROVE ConnectedRunsAreNotReaped'
  <2>1. CloseEffect(w)
    BY <1>7, CloseForm
  <2>2. ASSUME NEW v \in Workers, Owns(v)', ~churned'[v], runs'[run'[v]].pid # NoPid
        PROVE  runs'[run'[v]].status = "running"
    <3>1. v # w /\ Owns(v) /\ run'[v] = run[v] /\ ~churned[v]
      BY <2>1, <2>2 DEF CloseEffect, Owns, Owning
    <3>2. run[v] \in RunIds /\ run[v] # run[w]
      BY <2>1, <3>1 DEF CloseEffect, IInv, Ownership
    <3>3. runs'[run[v]] = runs[run[v]]
      BY <2>1, <3>2 DEF CloseEffect
    <3>4. QED BY <2>2, <3>1, <3>3 DEF IInv, ConnectedRunsAreNotReaped
  <2>3. QED BY <2>2 DEF ConnectedRunsAreNotReaped
<1>8. ASSUME NEW w \in Workers, Raise(w) PROVE ConnectedRunsAreNotReaped'
  BY <1>8 DEF IInv, TypeOK, Ownership, Locks, Evidence, ConnectedRunsAreNotReaped, Owns, Owning, Raise, Goto, EndTransaction
<1>9. ASSUME NEW w \in Workers, Write(w) PROVE ConnectedRunsAreNotReaped'
  BY <1>9 DEF IInv, TypeOK, Ownership, Locks, Evidence, ConnectedRunsAreNotReaped, Owns, Owning, Write
<1>10. ASSUME NEW w \in Workers, Touch(w) PROVE ConnectedRunsAreNotReaped'
  BY <1>10 DEF IInv, TypeOK, Ownership, Locks, Evidence, ConnectedRunsAreNotReaped, Owns, Owning, Touch
<1>11. ASSUME NEW w \in Workers, Abandon(w) PROVE ConnectedRunsAreNotReaped'
  BY <1>11 DEF IInv, TypeOK, Ownership, Locks, Evidence, ConnectedRunsAreNotReaped, Owns, Owning, Abandon, Leave, EndTransaction
<1>12. ASSUME NEW w \in Workers, Crash(w) PROVE ConnectedRunsAreNotReaped'
  BY <1>12 DEF IInv, TypeOK, Ownership, Locks, Evidence, ConnectedRunsAreNotReaped, Owns, Owning, Crash, Leave, EndTransaction
<1>13. ASSUME NEW w \in Workers, Reconnect(w) PROVE ConnectedRunsAreNotReaped'
  BY <1>13 DEF IInv, TypeOK, Ownership, Locks, Evidence, ConnectedRunsAreNotReaped, Owns, Owning, Reconnect
<1>14. CASE Tick
  BY <1>14 DEF IInv, TypeOK, Ownership, Locks, Evidence, ConnectedRunsAreNotReaped, Owns, Owning, Tick
<1>15. CASE UNCHANGED vars
  BY <1>15 DEF IInv, Ownership, Locks, Evidence, ConnectedRunsAreNotReaped, Owns, Owning, vars
<1>16. QED
  BY <1>1, <1>2, <1>3, <1>4, <1>5, <1>6, <1>7, <1>8, <1>9, <1>10, <1>11, <1>12, <1>13, <1>14, <1>15 DEF Next, Work
-----------------------------------------------------------------------------
\* The inductive invariant holds before anything runs.
LEMMA InvInit == Init => IInv
<1> SUFFICES ASSUME Init PROVE IInv
  OBVIOUS
<1>1. TypeOK
  BY TypeInit
<1>2. Ownership /\ Locks
  BY DEF Init, Ownership, Locks, Owns, Owning
<1>3. Clocks
  BY DEF Init, Clocks, Absent, NoTime, Owning
<1>4. Evidence /\ ConnectedRunsAreNotReaped
  BY DEF Init, Evidence, ConnectedRunsAreNotReaped, Owns, Owning
<1>5. RowsCoherent /\ PublishedRunsSucceeded
  BY DEF Init, RowsCoherent, PublishedRunsSucceeded, Absent, NoTime
<1>6. QED BY <1>1, <1>2, <1>3, <1>4, <1>5 DEF IInv

\* Every step preserves the inductive invariant.
LEMMA InvStep == IInv /\ [Next]_vars => IInv'
<1> SUFFICES ASSUME IInv, [Next]_vars PROVE IInv'
  OBVIOUS
<1>1. TypeOK'
  BY TypeStep DEF IInv
<1>2. QED
  BY <1>1, OwnershipStep, LocksStep, ClocksStep, EvidenceStep, RowsCoherentStep,
     PublishedStep, ConnectedStep DEF IInv

\* The strengthened invariant holds in every state.
THEOREM Inductive == Spec => []IInv
  BY InvInit, InvStep, PTL DEF Spec

\* Every variable keeps its type: in particular a row is never closed by a
\* coroutine that does not have one.
THEOREM TypeCorrect == Spec => []TypeOK
<1>1. IInv => TypeOK
  BY DEF IInv
<1>2. QED BY <1>1, Inductive, PTL

\* The CHECK constraints of ingest_runs can never be hit, whatever the order in
\* which a block and reapers write its row.
THEOREM ChecksHold == Spec => []RowsCoherent
<1>1. IInv => RowsCoherent
  BY DEF IInv
<1>2. QED BY <1>1, Inductive, PTL

\* A reader who joins data rows to their run finds success.
THEOREM PublishedUnderSuccess == Spec => []PublishedRunsSucceeded
<1>1. IInv => PublishedRunsSucceeded
  BY DEF IInv
<1>2. QED BY <1>1, Inductive, PTL

\* The evidence the reaper relies on is sound for runs that keep their connection.
THEOREM EvidenceIsSound == Spec => []ConnectedRunsAreNotReaped
<1>1. IInv => ConnectedRunsAreNotReaped
  BY DEF IInv
<1>2. QED BY <1>1, Inductive, PTL

\* Steps that leave the table alone.
LEMMA QuietStep ==
  ASSUME NEW w \in Workers,
         \/ Begin(w) \/ ReapClock(w) \/ ReapUpdate(w) \/ FlushSuccess(w) \/ Raise(w)
         \/ Write(w) \/ Touch(w) \/ Abandon(w) \/ Crash(w) \/ Reconnect(w)
  PROVE  runs' = runs /\ published' = published
<1>1. CASE Begin(w) BY <1>1 DEF Begin
<1>2. CASE ReapClock(w) BY <1>2 DEF ReapClock
<1>3. CASE ReapUpdate(w) BY <1>3 DEF ReapUpdate
<1>4. CASE FlushSuccess(w) BY <1>4 DEF FlushSuccess
<1>5. CASE Raise(w) BY <1>5 DEF Raise
<1>6. CASE Write(w) BY <1>6 DEF Write
<1>7. CASE Touch(w) BY <1>7 DEF Touch
<1>8. CASE Abandon(w) BY <1>8 DEF Abandon
<1>9. CASE Crash(w) BY <1>9 DEF Crash
<1>10. CASE Reconnect(w) BY <1>10 DEF Reconnect
<1>11. QED
  BY <1>1, <1>2, <1>3, <1>4, <1>5, <1>6, <1>7, <1>8, <1>9, <1>10

\* A step changes the table in one of four ways or not at all.
LEMMA TableSteps ==
  ASSUME IInv, [Next]_vars
  PROVE  \/ runs' = runs /\ published' = published
         \/ \E w \in Workers : Insert(w)
         \/ \E w \in Workers : ReapCommitEffect(w)
         \/ \E w \in Workers : CloseEffect(w)
<1>1. CASE Tick
  BY <1>1 DEF Tick
<1>2. CASE UNCHANGED vars
  BY <1>2 DEF vars
<1>3. ASSUME NEW w \in Workers, ReapCommit(w)
      PROVE  ReapCommitEffect(w)
  BY <1>3, ReapCommitForm
<1>4. ASSUME NEW w \in Workers, Commit(w) \/ RecordFailure(w)
      PROVE  CloseEffect(w)
  BY <1>4, CloseForm
<1>5. QED
  BY <1>1, <1>2, <1>3, <1>4, QuietStep DEF Next, Work

\* A run's own verdict is never rewritten, and a reaper's only by that run.
THEOREM FinalVerdicts == Spec => VerdictsAreFinal
<1> DEFINE Final == \A r \in RunIds :
         (runs[r].status \in {"failed", "success"} /\ runs'[r] # runs[r]) =>
            /\ runs[r].error \in {"backend gone", "no heartbeat"}
            /\ \E w \in Workers : Owns(w) /\ run[w] = r /\ pc'[w] = "idle"
<1>1. ASSUME IInv, [Next]_vars
      PROVE  Final
  <2> SUFFICES ASSUME NEW r \in RunIds, runs[r].status \in {"failed", "success"},
                      runs'[r] # runs[r]
               PROVE  /\ runs[r].error \in {"backend gone", "no heartbeat"}
                      /\ \E w \in Workers : Owns(w) /\ run[w] = r /\ pc'[w] = "idle"
    OBVIOUS
  <2>1. ASSUME NEW w \in Workers, Insert(w) PROVE FALSE
    BY <2>1 DEF Insert, IInv, TypeOK
  <2>2. ASSUME NEW w \in Workers, ReapCommitEffect(w) PROVE FALSE
    BY <1>1, <2>2 DEF ReapCommitEffect, IInv, Locks
  <2>3. PICK w \in Workers : CloseEffect(w)
    BY <1>1, <2>1, <2>2, TableSteps
  <2>4. run[w] = r /\ Owns(w) /\ pc'[w] = "idle"
    BY <2>3 DEF CloseEffect
  <2>5. runs[r].status = "failed" /\ runs[r].error # "traceback"
    BY <1>1, <2>4 DEF IInv, Ownership
  <2>6. runs[r].error # "none" /\ runs[r] \in Row
    BY <1>1, <2>5 DEF IInv, RowsCoherent, TypeOK
  <2>7. runs[r].error \in {"backend gone", "no heartbeat"}
    BY <2>5, <2>6 DEF Row
  <2>8. QED BY <2>4, <2>7
<1>2. QED BY <1>1, Inductive, PTL DEF Spec, VerdictsAreFinal

\* The protocol implements the ledger its readers rely on.
THEOREM ImplementsRunLog == Spec => LogSpec
<1>1. Init => Log!Init
  BY DEF Init, Log!Init, Verdict, Absent
<1>2. ASSUME IInv, [Next]_vars
      PROVE  [Log!Next]_(Log!logVars)
  <2>1. CASE runs' = runs /\ published' = published
    BY <2>1 DEF Log!logVars, Verdict
  <2>2. ASSUME NEW w \in Workers, Insert(w)
        PROVE  \E r \in RunIds : Log!Open(r)
    <3>1. PICK r \in RunIds, p \in {conn[w], NoPid} :
             /\ runs[r].status = "absent"
             /\ runs' = [runs EXCEPT ![r] =
                           [status |-> "running", started |-> clock[w],
                            finished |-> NoTime, error |-> "none", pid |-> p]]
      BY <2>2 DEF Insert
    <3>2. runs'[r].status = "running" /\ \A q \in RunIds \ {r} : runs'[q] = runs[q]
      BY <1>2, <3>1 DEF IInv, TypeOK
    <3>3. Verdict(r) = "none" /\ Verdict(r)' = "open"
      BY <3>1, <3>2 DEF Verdict
    <3>4. \A q \in RunIds \ {r} : Verdict(q)' = Verdict(q)
      BY <3>2 DEF Verdict
    <3>5. Log!Open(r)
      BY <2>2, <3>3, <3>4 DEF Log!Open, Insert
    <3>6. QED BY <3>5
  <2>3. ASSUME NEW w \in Workers, ReapCommitEffect(w)
        PROVE  \E R \in SUBSET RunIds : Log!Reap(R)
    <3>1. reaping[w] \in SUBSET RunIds /\ \A r \in reaping[w] : runs[r].status = "running"
      BY <1>2 DEF IInv, TypeOK, Locks
    <3>2. \A r \in reaping[w] : Verdict(r) = "open" /\ Verdict(r)' = "reaped"
      BY <2>3, <3>1 DEF ReapCommitEffect, Verdict
    <3>3. \A r \in RunIds \ reaping[w] : Verdict(r)' = Verdict(r)
      BY <2>3 DEF ReapCommitEffect, Verdict
    <3>4. Log!Reap(reaping[w])
      BY <2>3, <3>1, <3>2, <3>3 DEF Log!Reap, ReapCommitEffect
    <3>5. QED BY <3>1, <3>4
  <2>4. ASSUME NEW w \in Workers, CloseEffect(w)
        PROVE  \E r \in RunIds : Log!Fail(r) \/ \E wrote \in BOOLEAN : Log!Succeed(r, wrote)
    <3>1. PICK own \in RunIds : own = run[w]
      BY <2>4 DEF CloseEffect
    <3>2. \A r \in RunIds \ {own} : Verdict(r)' = Verdict(r)
      BY <2>4, <3>1 DEF CloseEffect, Verdict
    <3>3. Verdict(own) \in {"open", "reaped"}
      BY <1>2, <2>4, <3>1 DEF CloseEffect, IInv, Ownership, Verdict
    <3>4. CASE /\ runs'[own].status = "success"
               /\ published' \in {published, published \cup {own}}
      <4>1. Verdict(own)' = "done"
        BY <3>4 DEF Verdict
      <4>2. \A wrote \in BOOLEAN :
              published' = (IF wrote THEN published \cup {own} ELSE published)
                 => Log!Succeed(own, wrote)
        BY <3>2, <3>3, <4>1 DEF Log!Succeed
      <4>3. CASE published' = published
        BY <4>2, <4>3
      <4>4. CASE published' = published \cup {own}
        BY <4>2, <4>4
      <4>5. QED BY <3>4, <4>3, <4>4
    <3>5. CASE /\ runs'[own].status = "failed" /\ runs'[own].error = "traceback"
               /\ published' = published
      <4>1. Verdict(own)' = "failed"
        BY <3>5 DEF Verdict
      <4>2. Log!Fail(own)
        BY <3>2, <3>3, <3>5, <4>1 DEF Log!Fail
      <4>3. QED BY <4>2
    <3>6. QED BY <2>4, <3>1, <3>4, <3>5 DEF CloseEffect
  <2>5. QED
    BY <1>2, <2>1, <2>2, <2>3, <2>4, TableSteps DEF Log!Next
<1>3. QED BY <1>1, <1>2, Inductive, PTL DEF Spec, LogSpec, Log!Spec
=============================================================================
