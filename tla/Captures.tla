------------------------------ MODULE Captures ------------------------------
(***************************************************************************)
(* From a paid response to rows of odds_snapshots: src/ingestion/odds.py   *)
(* (capture_slate, parse_capture, store_snapshots, poll_odds) and          *)
(* src/ingestion/replay.py, which parses the same files again, against a   *)
(* schedule that src/ingestion/schedule.py keeps changing.                 *)
(*                                                                         *)
(* The slate is the games of one pair of clubs: one game, or a             *)
(* doubleheader.  A response holds one event per game, with the start the  *)
(* Odds API then has for it.  An event stands for one quote, so the unique *)
(* key (game_pk, market, selection, book, line, captured_at) is the pair   *)
(* of game_pk and captured_at.  Run rows are IngestRuns' subject; here a   *)
(* run counts once its transaction commits.                                *)
(***************************************************************************)
EXTENDS Matching

CONSTANTS Pollers, Replayers,   \* processes running poll_odds, replay_all
          Games,                \* game_pks of the pair of clubs
          FirstStarts,          \* their original starts
          Delays,               \* how far a start may slip
          MaxStart,             \* bound on slipping
          MaxResponses,         \* bound on responses paid for
          MaxSecond,            \* bound on the clock that names files
          NoFile, Torn,         \* no file of that name; a partial file
          Unlisted,             \* the game is not in the games table
          Nothing,              \* a local that holds nothing
          Faults                \* "body", "renamed", "crash"

ASSUME CapturesAssumption ==
    /\ IsFiniteSet(Games) /\ MaxStart \in Nat
    /\ FirstStarts \in [Games -> 0..MaxStart] /\ Delays \subseteq Nat
    /\ MaxResponses \in Nat /\ MaxSecond \in Nat \ {0}
    /\ Faults \subseteq {"body", "renamed", "crash"}
    /\ Nobody \notin Games /\ Ambiguous \notin Games /\ Unlisted \notin Nat

Workers == Pollers \cup Replayers
Seconds == 1..MaxSecond

VARIABLES second,      \* wall clock at the resolution of a file name
          actual,      \* when each game now starts, as both APIs report it
          games,       \* committed schedule: start of each game, or Unlisted
          fetched,     \* what the schedule ingest has fetched, not committed
          made,        \* responses paid for so far
          disk,        \* raw/odds_<second>.json
          snapshots,   \* committed rows of odds_snapshots
          reported,    \* sum of rows_written over the successful odds runs
          claimed,     \* history: rows that successful runs had parsed
          pc, file, queue,
          capture,     \* the response or capture in hand
          rows,        \* what parse_capture returned
          inserted     \* rows inserted by the open transaction

world == <<second, actual, games, fetched>>
table == <<snapshots, reported, claimed>>
locals == <<pc, file, queue, capture, rows, inserted>>
vars == <<world, made, disk, table, locals>>

\* A capture file: `at` is the envelope's captured_at, `body` says which response
\* the events came in, `starts` is each event's commence_time, and `renamed`
\* that a team name is missing from the crosswalk.
Envelope == [at : 1..MaxResponses, body : 1..MaxResponses,
             starts : [Games -> 0..MaxStart], renamed : BOOLEAN]

\* Neither an absent nor a partial file is a capture.
ASSUME FilesAssumption == NoFile \notin Envelope /\ Torn \notin Envelope /\ NoFile # Torn

\* A snapshot: `event` and `body` say whose price it is and where it came from.
Snapshot == [event : Games, body : 1..MaxResponses, pk : Games,
             at : 1..MaxResponses]

Key(row) == <<row.pk, row.at>>
Keys(R) == {Key(row) : row \in R}

Init == /\ second = 1 /\ made = 0
        /\ actual = FirstStarts
        /\ games \in {FirstStarts, [g \in Games |-> Unlisted]}
        /\ fetched = Nothing
        /\ disk = [s \in Seconds |-> NoFile]
        /\ snapshots = {} /\ reported = 0 /\ claimed = {}
        /\ pc = [w \in Workers |-> "idle"]
        /\ file = [w \in Workers |-> Nothing]
        /\ queue = [w \in Workers |-> {}]
        /\ capture = [w \in Workers |-> Nothing]
        /\ rows = [w \in Workers |-> {}]
        /\ inserted = [w \in Workers |-> {}]

Goto(w, from, to) == pc[w] = from /\ pc' = [pc EXCEPT ![w] = to]

\* The process is gone; session_scope or the server has rolled back.
Leave(w) == /\ pc' = [pc EXCEPT ![w] = "idle"]
            /\ file' = [file EXCEPT ![w] = Nothing]
            /\ queue' = [queue EXCEPT ![w] = {}]
            /\ capture' = [capture EXCEPT ![w] = Nothing]
            /\ rows' = [rows EXCEPT ![w] = {}]
            /\ inserted' = [inserted EXCEPT ![w] = {}]

\* Seeded fault: rows_written counts what was parsed, not what was inserted.
CommitRunCountsParsed(w) == /\ snapshots' = snapshots \cup inserted[w]
                            /\ reported' = reported + Cardinality(rows[w])
                            /\ claimed' = claimed \cup rows[w]

\* The rows and the verdict of the run just closed become visible together.
CommitRun(w) == /\ snapshots' = snapshots \cup inserted[w]
                /\ reported' = reported + Cardinality(inserted[w])
                /\ claimed' = claimed \cup rows[w]

Listed == {g \in Games : games[g] # Unlisted}
Schedule == [g \in Listed |-> games[g]]
-----------------------------------------------------------------------------
\* capture_slate's request is answered and paid for.
Request(w) ==
    /\ w \in Pollers /\ Goto(w, "idle", "response")
    /\ made < MaxResponses
    /\ made' = made + 1
    /\ \E renamed \in {FALSE} \cup (IF "renamed" \in Faults THEN {TRUE} ELSE {}) :
         capture' = [capture EXCEPT ![w] =
             [at |-> made', body |-> made', starts |-> actual, renamed |-> renamed]]
    /\ UNCHANGED <<world, disk, table, file, queue, rows, inserted>>

\* json.loads(body) raises while the envelope is being built: no file.
BodyRaises(w) ==
    /\ "body" \in Faults
    /\ pc[w] = "response"
    /\ Leave(w)
    /\ UNCHANGED <<world, made, disk, table>>

\* path.write_bytes opens, and so empties, a file whose name has the resolution
\* of a second ...
OpenFile(w) ==
    /\ Goto(w, "response", "writing")
    /\ disk' = [disk EXCEPT ![second] = Torn]
    /\ file' = [file EXCEPT ![w] = second]
    /\ UNCHANGED <<world, made, table, queue, capture, rows, inserted>>

\* ... and writes it.  If another process has written the same file meanwhile,
\* the end of a longer one remains, and the file is no JSON.
WriteCapture(w) ==
    /\ Goto(w, "writing", "captured")
    /\ \E content \in {capture[w]} \cup (IF disk[file[w]] = Torn THEN {} ELSE {Torn}) :
         disk' = [disk EXCEPT ![file[w]] = content]
    /\ UNCHANGED <<world, made, table, file, queue, capture, rows, inserted>>

\* Seeded fault: a file that is no JSON is taken for a capture.
ReadBackUnchecked(w) ==
    /\ Goto(w, "captured", "read")
    /\ capture' = [capture EXCEPT ![w] = disk[file[w]]]
    /\ UNCHANGED <<world, made, disk, table, file, queue, rows, inserted>>

\* Seeded fault: captured_at is the one in memory, the events are the file's.
ReadBackOwnTimestamp(w) ==
    /\ Goto(w, "captured", "read")
    /\ disk[file[w]] # Torn
    /\ capture' = [capture EXCEPT ![w] = [disk[file[w]] EXCEPT !.at = capture[w].at]]
    /\ UNCHANGED <<world, made, disk, table, file, queue, rows, inserted>>

\* poll_odds reads the file back: json.loads(path.read_text()).
ReadBack(w) ==
    /\ Goto(w, "captured", "read")
    /\ disk[file[w]] # Torn
    /\ capture' = [capture EXCEPT ![w] = disk[file[w]]]
    /\ UNCHANGED <<world, made, disk, table, file, queue, rows, inserted>>

\* Another process is rewriting the same file, or died doing so.
ReadBackRaises(w) ==
    /\ pc[w] = "captured" /\ disk[file[w]] = Torn
    /\ Leave(w)
    /\ UNCHANGED <<world, made, disk, table>>
-----------------------------------------------------------------------------
\* replay_all globs the directory.
Glob(w) ==
    /\ w \in Replayers /\ Goto(w, "idle", "next")
    /\ queue' = [queue EXCEPT ![w] = {s \in Seconds : disk[s] # NoFile}]
    /\ UNCHANGED <<world, made, disk, table, file, capture, rows, inserted>>

\* The oldest capture not replayed yet.
IsNext(w, s) == s \in queue[w] /\ \A t \in queue[w] : s <= t

\* replay_capture reads the next file, then opens its run, whose first commit
\* also commits what the previous capture's run had only flushed.
OpenCapture(w) ==
    /\ Goto(w, "next", "read")
    /\ \E s \in Seconds :
         /\ IsNext(w, s) /\ disk[s] # Torn
         /\ capture' = [capture EXCEPT ![w] = disk[s]]
         /\ queue' = [queue EXCEPT ![w] = @ \ {s}]
    /\ CommitRun(w)
    /\ rows' = [rows EXCEPT ![w] = {}]
    /\ inserted' = [inserted EXCEPT ![w] = {}]
    /\ UNCHANGED <<world, made, disk, file>>

\* The next file is not JSON.  JSONDecodeError is neither UnknownGame nor
\* KeyError: the batch ends, and session_scope rolls back what was flushed.
OpenRaises(w) ==
    /\ pc[w] = "next"
    /\ \E s \in Seconds : IsNext(w, s) /\ disk[s] = Torn
    /\ Leave(w)
    /\ UNCHANGED <<world, made, disk, table>>

\* Every capture was replayed: session_scope commits.
Finish(w) ==
    /\ pc[w] = "next" /\ queue[w] = {}
    /\ CommitRun(w)
    /\ Leave(w)
    /\ UNCHANGED <<world, made, disk>>
-----------------------------------------------------------------------------
Outcome(w, g) == MatchGame(Schedule, capture[w].starts[g])

ParseRaises(w) == capture[w].renamed \/ \E g \in Games : Outcome(w, g) = Ambiguous

\* load_game_index and parse_capture: every event that resolves gives a row,
\* one that resolves to nobody is skipped.
Parse(w) ==
    /\ Goto(w, "read", "parsed")
    /\ ~ParseRaises(w)
    /\ rows' = [rows EXCEPT ![w] =
          {[event |-> g, body |-> capture[w].body, pk |-> Outcome(w, g),
            at |-> capture[w].at] : g \in {h \in Games : Outcome(w, h) # Nobody}}]
    /\ UNCHANGED <<world, made, disk, table, file, queue, capture, inserted>>

\* An unknown team or an ambiguous match: the run is rolled back and recorded
\* as failed.  replay_all goes on after a KeyError and after nothing else.
ParseFails(w) ==
    /\ pc[w] = "read" /\ ParseRaises(w)
    /\ \/ /\ w \in Replayers /\ capture[w].renamed
          /\ pc' = [pc EXCEPT ![w] = "next"]
          /\ capture' = [capture EXCEPT ![w] = Nothing]
          /\ UNCHANGED <<file, queue, rows, inserted>>
       \/ /\ w \in Pollers \/ \E g \in Games : Outcome(w, g) = Ambiguous
          /\ Leave(w)
    /\ UNCHANGED <<world, made, disk, table>>

\* Seeded fault: an uncommitted row of another session counts as recorded.
StoreNoWait(w) ==
    /\ Goto(w, "parsed", "stored")
    /\ LET theirs == UNION {inserted[v] : v \in Workers \ {w}}
           fresh == {r \in rows[w] : Key(r) \notin Keys(snapshots \cup theirs)}
       IN \E R \in SUBSET fresh :
            /\ Keys(R) = Keys(fresh) /\ Cardinality(R) = Cardinality(Keys(R))
            /\ inserted' = [inserted EXCEPT ![w] = R]
    /\ UNCHANGED <<world, made, disk, table, file, queue, capture, rows>>

\* store_snapshots: INSERT ... ON CONFLICT DO NOTHING.  It waits while another
\* transaction has inserted one of its keys; of two rows of its own with one
\* key, the first in the API's order is kept.
Store(w) ==
    /\ Goto(w, "parsed", "stored")
    /\ \A v \in Workers \ {w} : Keys(rows[w]) \cap Keys(inserted[v]) = {}
    /\ LET fresh == {r \in rows[w] : Key(r) \notin Keys(snapshots)}
       IN \E R \in SUBSET fresh :
            /\ Keys(R) = Keys(fresh) /\ Cardinality(R) = Cardinality(Keys(R))
            /\ inserted' = [inserted EXCEPT ![w] = R]
    /\ UNCHANGED <<world, made, disk, table, file, queue, capture, rows>>

\* The poll's session_scope commits.
CommitPoll(w) ==
    /\ w \in Pollers /\ pc[w] = "stored"
    /\ CommitRun(w)
    /\ Leave(w)
    /\ UNCHANGED <<world, made, disk>>

\* The replay's block ends: flushed, and on to the next capture.
FlushReplay(w) ==
    /\ w \in Replayers /\ Goto(w, "stored", "next")
    /\ capture' = [capture EXCEPT ![w] = Nothing]
    /\ UNCHANGED <<world, made, disk, table, file, queue, rows, inserted>>

\* The process dies, or the disk or the database fails; the server rolls its transaction back.
Crash(w) ==
    /\ "crash" \in Faults
    /\ pc[w] # "idle"
    /\ Leave(w)
    /\ UNCHANGED <<world, made, disk, table>>
-----------------------------------------------------------------------------
\* A game is delayed.
Delay ==
    /\ \E g \in Games, d \in Delays :
         /\ actual[g] + d <= MaxStart
         /\ actual' = [actual EXCEPT ![g] = @ + d]
    /\ UNCHANGED <<second, games, fetched, made, disk, table, locals>>

\* upsert_schedule: fetch_schedule ...
FetchSchedule ==
    /\ fetched = Nothing /\ fetched' = actual
    /\ UNCHANGED <<second, actual, games, made, disk, table, locals>>

\* ... then upsert every row and commit, ...
UpsertSchedule ==
    /\ fetched # Nothing
    /\ games' = fetched /\ fetched' = Nothing
    /\ UNCHANGED <<second, actual, made, disk, table, locals>>

\* ... or fail in between.
ScheduleFails ==
    /\ fetched # Nothing /\ fetched' = Nothing
    /\ UNCHANGED <<second, actual, games, made, disk, table, locals>>

Tick ==
    /\ second < MaxSecond /\ second' = second + 1
    /\ UNCHANGED <<actual, games, fetched, made, disk, table, locals>>

Poll(w) == \/ Request(w) \/ BodyRaises(w) \/ OpenFile(w) \/ WriteCapture(w)
           \/ ReadBack(w) \/ ReadBackRaises(w) \/ CommitPoll(w)

Replay(w) == Glob(w) \/ OpenCapture(w) \/ OpenRaises(w) \/ FlushReplay(w) \/ Finish(w)

Next == \/ \E w \in Workers : \/ Poll(w) \/ Replay(w) \/ Parse(w) \/ ParseFails(w)
                              \/ Store(w) \/ Crash(w)
        \/ Delay \/ FetchSchedule \/ UpsertSchedule \/ ScheduleFails \/ Tick

Spec == Init /\ [][Next]_vars
-----------------------------------------------------------------------------
TypeOK ==
    /\ second \in Seconds /\ made \in 0..MaxResponses /\ reported \in Nat
    /\ actual \in [Games -> 0..MaxStart]
    /\ games \in [Games -> 0..MaxStart \cup {Unlisted}]
    /\ fetched \in [Games -> 0..MaxStart] \cup {Nothing}
    /\ disk \in [Seconds -> Envelope \cup {NoFile, Torn}]
    /\ snapshots \subseteq Snapshot /\ claimed \subseteq Snapshot
    /\ pc \in [Workers -> {"idle", "response", "writing", "captured", "next",
                           "read", "parsed", "stored"}]
    /\ file \in [Workers -> Seconds \cup {Nothing}]
    /\ queue \in [Workers -> SUBSET Seconds]
    /\ capture \in [Workers -> Envelope \cup {Nothing}]
    /\ rows \in [Workers -> SUBSET Snapshot]
    /\ inserted \in [Workers -> SUBSET Snapshot]

\* A run that ends as success has every price it parsed in the table under its
\* key, although ON CONFLICT DO NOTHING may have left the row to another poll
\* or replay of the same file that could still have failed.
SuccessHasItsRows == \A r \in claimed : Key(r) \in Keys(snapshots)

\* Each row is counted by exactly one successful run: rows_written adds up to
\* the table.
CountsAddUp == reported = Cardinality(snapshots)

\* Whatever polls and replays of the same captures overlap, wait and crash, readers
\* see a table that grows by whole runs, a row per key, each run reporting exactly
\* the rows it added (store_snapshots, odds.py:475, and session_scope's commit).
TableLog == INSTANCE SnapshotLog
TableSpec == TableLog!Spec

\* A row's captured_at is the instant of the response its price came in, also
\* when two polls name their file after the same second and one of them reads
\* back what the other wrote (odds.py:512-519).
HonestTimestamps == \A s \in snapshots : s.at = s.body

\* replay.py:48: "idempotent by construction", which holds as long as no game has
\* moved: one observed price is then never in the table twice, however often its
\* capture is polled, overwritten, replayed and replayed concurrently, and although
\* the games table fills in between.  (Starts only slip here, so actual = FirstStarts
\* says that none has.)
OncePerObservation ==
    actual = FirstStarts =>
       \A s, t \in snapshots : (s.event = t.event /\ s.body = t.body) => s = t
=============================================================================
