------------------------------ MODULE Schedule ------------------------------
(***************************************************************************)
(* The schedule ingest: upsert_schedule of src/ingestion/schedule.py over  *)
(* the resolvers and the page-by-page fetch of statsapi.py, started daily  *)
(* by cron (ingestion/__main__.py) and month by month by                   *)
(* scripts/backfill_schedule.py.  Several ingests overlap, MLB changes the *)
(* schedule between any two requests, and any step may fail.               *)
(*                                                                         *)
(* A start counts half days of UTC; the venues are half a day behind, so   *)
(* an early game of local day d starts at 2d+1, on UTC day d, and a late   *)
(* one at 2d+2, on UTC day d+1.  A game's teams and venue never change and *)
(* are left out; pages hold the regular-season games only.                 *)
(***************************************************************************)
EXTENDS Integers, Sequences, FiniteSets, SequencesExt

CONSTANTS Games,         \* game_pks
          Crons,         \* processes that ingest three days at a time
          Backfills,     \* processes that backfill the season
          FirstStart,    \* each game's start as first published
          LastDay,       \* bound on days; the season begins on day 0
          MonthStarts,   \* the calendar: the first day of each month
          Span,          \* the 32 days that reach into the next month
          MaxChanges,    \* bound on MLB's changes
          None           \* an absent field; a game that is not stored

Ingests == Crons \cup Backfills

Days == 0..LastDay
Starts == 1..(2 * LastDay + 2)

LocalDay(start) == (start - 1) \div 2
UtcDay(start) == start \div 2

\* 32 days from the first of a month are in the next month.
ASSUME ScheduleAssumption ==
    /\ LastDay \in Nat /\ Span \in Nat /\ MaxChanges \in Nat /\ None \notin Int
    /\ MonthStarts \subseteq Nat /\ 0 \in MonthStarts
    /\ \A first \in MonthStarts : first <= LastDay =>
          Cardinality({n \in MonthStarts : first < n /\ n <= first + Span}) = 1
    /\ IsFiniteSet(Games) /\ FirstStart \in [Games -> Starts]

VARIABLES listing,       \* StatsAPI: each game's start, former starts and status
          games,         \* committed rows
          pc, day,       \* each ingest's position and the page it asks for next
          lo, hi, until, \* its range, and where its last range ends
          rows,          \* rows fetched and not yet upserted
          upserted,      \* rows its open transaction has written, and locked
          changes,       \* how often MLB has changed the schedule
          unmoved,       \* history: games MLB has not changed since the ingest began
          current        \* history: games last stored by an ingest that saw the latest change

locals == <<pc, day, lo, hi, until, rows, upserted>>
history == <<unmoved, current>>
vars == <<listing, games, locals, changes, history>>

Status == {"Scheduled", "Postponed", "Final"}

Stored == [date : Days, start : Starts, status : Status, from : Days \cup {None}]

Nothing == [g \in {} |-> None]

Init == /\ listing = [g \in Games |->
                        [start |-> FirstStart[g], former |-> {}, status |-> "Scheduled"]]
        /\ games = [g \in Games |-> None]
        /\ pc = [i \in Ingests |-> "idle"]
        /\ day = [i \in Ingests |-> 0]
        /\ lo = [i \in Ingests |-> 0]
        /\ hi = [i \in Ingests |-> 0]
        /\ until = [i \in Ingests |-> 0]
        /\ rows = [i \in Ingests |-> <<>>]
        /\ upserted = [i \in Ingests |-> Nothing]
        /\ changes = 0
        /\ unmoved = [i \in Ingests |-> {}]
        /\ current = {}
-----------------------------------------------------------------------------
\* StatsAPI.  The row of a game on the page of its day.
HomeRow(g) ==
    LET former == listing[g].former
        last == CHOOSE s \in former : \A other \in former : other <= s
    IN [gamePk |-> g, officialDate |-> LocalDay(listing[g].start),
        gameDate |-> listing[g].start, rescheduleDate |-> None,
        rescheduledFromDate |-> IF former = {} THEN None ELSE LocalDay(last),
        detailedState |-> listing[g].status]

\* The row that stays on the page of a day it was postponed from: its official
\* date has moved, its gameDate has not.
PostponedRow(g, old) ==
    [gamePk |-> g, officialDate |-> LocalDay(listing[g].start), gameDate |-> old,
     rescheduleDate |-> listing[g].start, rescheduledFromDate |-> None,
     detailedState |-> "Postponed"]

Page(d) == {HomeRow(g) : g \in {h \in Games : LocalDay(listing[h].start) = d}}
           \cup UNION {{PostponedRow(g, old) :
                           old \in {s \in listing[g].former : LocalDay(s) = d}} : g \in Games}

Change(g, entry) ==
    /\ changes < MaxChanges /\ changes' = changes + 1
    /\ listing' = [listing EXCEPT ![g] = entry]
    /\ unmoved' = [i \in Ingests |-> unmoved[i] \ {g}]
    /\ current' = current \ {g}
    /\ UNCHANGED <<games, locals>>

\* MLB delays a game to later the same day, moves it to a later one, or plays it.
Delay(g) ==
    /\ listing[g].status = "Scheduled"
    /\ LocalDay(listing[g].start + 1) = LocalDay(listing[g].start)
    /\ Change(g, [listing[g] EXCEPT !.start = @ + 1])

Postpone(g) ==
    /\ listing[g].status = "Scheduled"
    /\ \E s \in Starts :
         /\ LocalDay(s) > LocalDay(listing[g].start)
         /\ Change(g, [listing[g] EXCEPT !.start = s, !.former = @ \cup {listing[g].start}])

Play(g) ==
    /\ listing[g].status = "Scheduled"
    /\ Change(g, [listing[g] EXCEPT !.status = "Final"])
-----------------------------------------------------------------------------
\* Seeded fault: gameDate at face value.
CommenceTimeAsGameDate(row) == row.gameDate

\* resolve_commence_time.
ResolveCommenceTime(row) ==
    IF row.rescheduleDate # None THEN row.rescheduleDate ELSE row.gameDate

\* Seeded fault: the date of the UTC timestamp.
GameDateFromUtc(row) == UtcDay(ResolveCommenceTime(row))

\* resolve_game_date.
ResolveGameDate(row) == row.officialDate

\* resolve_rescheduled_from.
ResolveRescheduledFrom(row) == row.rescheduledFromDate

\* game_values, the key left out.
GameValues(row) == [date |-> ResolveGameDate(row), start |-> ResolveCommenceTime(row),
                    status |-> row.detailedState, from |-> ResolveRescheduledFrom(row)]

\* date.replace(day=1).
FirstOfMonth(d) == CHOOSE first \in MonthStarts :
                      first <= d /\ \A n \in MonthStarts : n <= d => n <= first

\* Seeded fault: 31 days do not leave a month of 31.
NextMonthBy31(d) == FirstOfMonth(FirstOfMonth(d) + Span - 1)

\* Seeded fault: 30 days leave hardly any month.
NextMonthBy30(d) == FirstOfMonth(FirstOfMonth(d) + Span - 2)

\* The first of the next month, as months() computes it.
NextMonth(d) == FirstOfMonth(FirstOfMonth(d) + Span)
-----------------------------------------------------------------------------
Leave(i) == /\ pc' = [pc EXCEPT ![i] = "idle"]
            /\ day' = [day EXCEPT ![i] = 0]
            /\ lo' = [lo EXCEPT ![i] = 0]
            /\ hi' = [hi EXCEPT ![i] = 0]
            /\ until' = [until EXCEPT ![i] = 0]
            /\ rows' = [rows EXCEPT ![i] = <<>>]
            /\ upserted' = [upserted EXCEPT ![i] = Nothing]
            /\ unmoved' = [unmoved EXCEPT ![i] = {}]

\* One call of upsert_schedule opens its run, for a range of days.
Open(i, from, to, last) ==
    /\ pc' = [pc EXCEPT ![i] = "fetching"]
    /\ day' = [day EXCEPT ![i] = from]
    /\ lo' = [lo EXCEPT ![i] = from]
    /\ hi' = [hi EXCEPT ![i] = to]
    /\ until' = [until EXCEPT ![i] = last]
    /\ unmoved' = [unmoved EXCEPT ![i] = Games]
    /\ UNCHANGED <<listing, games, rows, upserted, changes, current>>

\* _schedule: yesterday to tomorrow, of today or of --date.
Daily(i) ==
    /\ i \in Crons /\ pc[i] = "idle"
    /\ \E today \in Days : Open(i, today - 1, today + 1, today + 1)

Lesser(a, b) == IF a <= b THEN a ELSE b

\* main of backfill_schedule: the first of the ranges of months().
Backfill(i) ==
    /\ i \in Backfills /\ pc[i] = "idle"
    /\ \E today \in Days : Open(i, 0, Lesser(NextMonth(0) - 1, today), today)

\* The next of them, in a session of its own, once the last has committed.
BackfillNext(i) ==
    /\ pc[i] = "between"
    /\ LET cur == NextMonth(lo[i])
       IN Open(i, cur, Lesser(NextMonth(cur) - 1, until[i]), until[i])

\* One request of fetch_schedule; the order of a page's games is StatsAPI's.
Fetch(i) ==
    /\ pc[i] = "fetching"
    /\ day' = [day EXCEPT ![i] = @ + 1]
    /\ pc' = [pc EXCEPT ![i] = IF day[i] < hi[i] THEN "fetching" ELSE "upserting"]
    /\ \E page \in SetToSeqs(Page(day[i])) : rows' = [rows EXCEPT ![i] = @ \o page]
    /\ UNCHANGED <<listing, games, lo, hi, until, upserted, changes, history>>

Holds(i, g) == g \in DOMAIN upserted[i]

\* i's next upsert meets a row that j has written and not yet committed.
WaitsFor(i, j) == /\ pc[i] = "upserting" /\ rows[i] # <<>>
                  /\ j # i /\ Holds(j, Head(rows[i]).gamePk)

\* The values of a row replace what is there for its game.
Put(written, row) ==
    [g \in DOMAIN written \cup {row.gamePk} |->
        IF g = row.gamePk THEN GameValues(row) ELSE written[g]]

\* Seeded fault: an upsert that does not wait for another's.
UpsertAtOnce(i) ==
    /\ pc[i] = "upserting" /\ rows[i] # <<>>
    /\ rows' = [rows EXCEPT ![i] = Tail(@)]
    /\ upserted' = [upserted EXCEPT ![i] = Put(@, Head(rows[i]))]
    /\ UNCHANGED <<listing, games, pc, day, lo, hi, until, changes, history>>

\* Seeded fault: ON CONFLICT DO NOTHING.
UpsertKeepsFirst(i) ==
    /\ pc[i] = "upserting" /\ rows[i] # <<>>
    /\ \A j \in Ingests : ~WaitsFor(i, j)
    /\ LET row == Head(rows[i])
       IN upserted' = [upserted EXCEPT ![i] =
             IF Holds(i, row.gamePk) \/ games[row.gamePk] # None THEN @
             ELSE Put(@, row)]
    /\ rows' = [rows EXCEPT ![i] = Tail(@)]
    /\ UNCHANGED <<listing, games, pc, day, lo, hi, until, changes, history>>

\* INSERT ... ON CONFLICT DO UPDATE of one row.
Upsert(i) ==
    /\ pc[i] = "upserting" /\ rows[i] # <<>>
    /\ \A j \in Ingests : ~WaitsFor(i, j)
    /\ rows' = [rows EXCEPT ![i] = Tail(@)]
    /\ upserted' = [upserted EXCEPT ![i] = Put(@, Head(rows[i]))]
    /\ UNCHANGED <<listing, games, pc, day, lo, hi, until, changes, history>>

Done(i) == pc[i] = "upserting" /\ rows[i] = <<>>

\* session_scope commits, and the process ends or goes on to the next month.
Commit(i) ==
    /\ Done(i)
    /\ games' = [g \in Games |-> IF Holds(i, g) THEN upserted[i][g] ELSE games[g]]
    /\ current' = (current \ DOMAIN upserted[i]) \cup (DOMAIN upserted[i] \cap unmoved[i])
    /\ \/ /\ hi[i] < until[i]
          /\ pc' = [pc EXCEPT ![i] = "between"]
          /\ day' = [day EXCEPT ![i] = 0]
          /\ upserted' = [upserted EXCEPT ![i] = Nothing]
          /\ unmoved' = [unmoved EXCEPT ![i] = {}]
          /\ UNCHANGED <<lo, hi, until, rows>>
       \/ hi[i] = until[i] /\ Leave(i)
    /\ UNCHANGED <<listing, changes>>

\* Postgres ends a deadlock by failing the statement of one of those in it.
Victim(i) ==
    /\ \E S \in SUBSET Ingests : i \in S /\ \A j \in S : \E k \in S : WaitsFor(j, k)
    /\ Leave(i)
    /\ UNCHANGED <<listing, games, changes, current>>

\* A request, a statement or the process fails: rolled back, and no further month.
Abort(i) ==
    /\ pc[i] # "idle"
    /\ Leave(i)
    /\ UNCHANGED <<listing, games, changes, current>>

Work(i) == BackfillNext(i) \/ Fetch(i) \/ Upsert(i) \/ Commit(i) \/ Victim(i)

Next == \/ \E g \in Games : Delay(g) \/ Postpone(g) \/ Play(g)
        \/ \E i \in Ingests : Daily(i) \/ Backfill(i) \/ Work(i) \/ Abort(i)

Spec == Init /\ [][Next]_vars

\* Requests end (statsapi.py sets a timeout), Postgres grants a row lock to those
\* who wait for it in turn, and ends deadlocks.
FairSpec == Spec /\ \A i \in Ingests : SF_vars(Work(i))
-----------------------------------------------------------------------------
TypeOK == /\ games \in [Games -> Stored \cup {None}]
          /\ pc \in [Ingests -> {"idle", "fetching", "upserting", "between"}]
          /\ \A i \in Ingests : /\ DOMAIN upserted[i] \subseteq Games
                                /\ Range(upserted[i]) \subseteq Stored
                                /\ -1 <= lo[i] /\ hi[i] <= LastDay + 1
          /\ \A i, j \in Ingests : i # j => DOMAIN upserted[i] \cap DOMAIN upserted[j] = {}
          /\ current \subseteq Games /\ changes \in 0..MaxChanges

\* statsapi.py:44 and :65: the date and the start of a row are two facts and both
\* must be right: whatever pages a fetch has torn apart or repeated, the stored date
\* is the venue's date of the stored start.
DatesAgree == \A g \in Games : games[g] # None => games[g].date = LocalDay(games[g].start)

\* Once an ingest begun after MLB's latest change has stored a game, whichever of its
\* pages it saw, its start is right until MLB changes it again, whatever is ingested
\* again in whatever order; only an ingest begun before the change can undo it.
StartsStayCurrent == \A g \in current : games[g].start = listing[g].start

\* schedule.py:46: "later rows win, which is correct: the replayed row is the more
\* current truth": an ingest of the day a game is now on, begun after its latest
\* change, leaves exactly what StatsAPI says on that day's page.
ReplayedRowWins ==
    [][\A i \in Ingests : Commit(i) =>
          \A g \in unmoved[i] : LocalDay(listing[g].start) \in lo[i]..hi[i] =>
             games'[g] = [date |-> LocalDay(listing[g].start), start |-> listing[g].start,
                          status |-> listing[g].status,
                          from |-> HomeRow(g).rescheduledFromDate]]_vars

\* backfill_schedule.py:25: the ranges of a backfill follow one another without a day
\* left out or fetched twice, none is empty, and none goes beyond today.
RangesTile ==
    [][\A i \in Backfills : BackfillNext(i) =>
          lo'[i] = hi[i] + 1 /\ lo'[i] <= hi'[i] /\ hi'[i] <= until[i]]_vars

\* Overlapping ingests upsert in different orders and deadlock, but each ends: none
\* waits for ever, and a victim gives its rows back.
EveryIngestEnds == \A i \in Ingests : pc[i] # "idle" ~> pc[i] = "idle"
=============================================================================
