-------------------------- MODULE Schedule_proofs --------------------------
(***************************************************************************)
(* Proofs about Schedule for every set of games, every calendar, season    *)
(* and number of changes, and any number of overlapping ingests.           *)
(***************************************************************************)
EXTENDS Schedule, WellFoundedInduction, FiniteSetTheorems, TLAPS

PageRow == [gamePk : Games, officialDate : Days, gameDate : Starts,
            rescheduleDate : Starts \cup {None},
            rescheduledFromDate : Days \cup {None}, detailedState : Status]

\* StatsAPI's games; one that was postponed has moved to a later day.
ListingSound ==
    /\ listing \in [Games -> [start : Starts, former : SUBSET Starts, status : Status]]
    /\ \A g \in Games : \A s \in listing[g].former : LocalDay(s) < LocalDay(listing[g].start)

\* Each ingest's locals are there, and it holds rows only while it works on a range.
LocalsSound ==
    /\ pc \in [Ingests -> {"idle", "fetching", "upserting", "between"}]
    /\ day \in [Ingests -> Int]
    /\ lo \in [Ingests -> Int] /\ hi \in [Ingests -> Int] /\ until \in [Ingests -> Int]
    /\ rows \in [Ingests -> Seq(PageRow)]
    /\ upserted = [i \in Ingests |-> upserted[i]]
    /\ unmoved \in [Ingests -> SUBSET Games]
    /\ \A i \in Ingests : /\ pc[i] \in {"idle", "between"} => rows[i] = <<>>
                          /\ pc[i] # "upserting" => DOMAIN upserted[i] = {}

\* A range ends at the last one's end, or it is a whole month and more follow.
RangesSound ==
    \A i \in Ingests :
       /\ -1 <= lo[i] /\ hi[i] <= until[i] /\ until[i] <= LastDay + 1
       /\ hi[i] < until[i] => /\ lo[i] \in MonthStarts /\ lo[i] <= until[i]
                              /\ until[i] <= LastDay
                              /\ hi[i] = NextMonth(lo[i]) - 1
       /\ pc[i] = "between" => hi[i] < until[i]

\* What an ingest has fetched and not yet upserted agrees with itself, and with
\* StatsAPI on the start of each game that has not changed since it began.
RowsSound ==
    \A i \in Ingests : \A n \in 1..Len(rows[i]) :
       LET row == rows[i][n]
       IN /\ row.officialDate = LocalDay(ResolveCommenceTime(row))
          /\ row.gamePk \in unmoved[i] =>
                ResolveCommenceTime(row) = listing[row.gamePk].start

\* And so does what it has upserted, which nobody else has.
UpsertedSound ==
    /\ \A i \in Ingests : \A g \in DOMAIN upserted[i] :
          /\ g \in Games /\ upserted[i][g] \in Stored
          /\ upserted[i][g].date = LocalDay(upserted[i][g].start)
          /\ g \in unmoved[i] => upserted[i][g].start = listing[g].start
    /\ \A i, j \in Ingests : i # j => DOMAIN upserted[i] \cap DOMAIN upserted[j] = {}

\* What the games table holds, it holds as the upserts left it.
GamesSound ==
    /\ games \in [Games -> Stored \cup {None}]
    /\ current \subseteq Games /\ changes \in 0..MaxChanges

\* Among the rows still to be upserted, the last one of g is the one of its day.
LastToCome(i, g) ==
    \E n \in 1..Len(rows[i]) :
       /\ rows[i][n] = HomeRow(g)
       /\ \A m \in n + 1 .. Len(rows[i]) : rows[i][m].gamePk # g

\* The last upsert of g was that of its day's row, and none is to come.
LastDone(i, g) ==
    /\ g \in DOMAIN upserted[i]
    /\ upserted[i][g] = GameValues(HomeRow(g))
    /\ \A m \in 1..Len(rows[i]) : rows[i][m].gamePk # g

\* The page of g's day is in i's range, and i has fetched it.
HomeFetched(i, g) ==
    /\ pc[i] \in {"fetching", "upserting"}
    /\ LocalDay(listing[g].start) \in lo[i]..hi[i]
    /\ pc[i] = "fetching" => LocalDay(listing[g].start) < day[i]

HomeRowIsLast ==
    \A i \in Ingests : \A g \in unmoved[i] :
       HomeFetched(i, g) => LastToCome(i, g) \/ LastDone(i, g)

\* The inductive invariant.  What a commit writes was decided by pages fetched
\* long before, between changes of StatsAPI's mind.
IInv == /\ ListingSound
        /\ LocalsSound
        /\ RangesSound
        /\ RowsSound
        /\ UpsertedSound
        /\ GamesSound
        /\ HomeRowIsLast
        /\ DatesAgree
        /\ StartsStayCurrent
-----------------------------------------------------------------------------
\* Less-than on the naturals is well-founded, as a set of pairs.
LEMMA NatPairs == IsWellFoundedOn({ss \in Nat \X Nat : ss[1] < ss[2]}, Nat)
<1>1. OpToRel(<, Nat) = {ss \in Nat \X Nat : ss[1] < ss[2]}
  BY DEF OpToRel
<1>2. QED BY <1>1, NatLessThanWellFounded

\* Of some numbers none of which is above d, one is the greatest.
LEMMA Greatest ==
  ASSUME NEW d \in Nat, NEW S, S \subseteq 0..d, S # {}
  PROVE  \E m \in S : \A n \in S : n <= m
<1> DEFINE R == {ss \in Nat \X Nat : ss[1] < ss[2]}
           T == {d - n : n \in S}
<1>1. \A n \in S : n \in 0..d
  OBVIOUS
<1>2. \A n \in 0..d : n \in Nat /\ d - n \in Nat
  OBVIOUS
<1>3. T \subseteq Nat /\ T # {}
  BY <1>1, <1>2
<1>4. IsWellFoundedOn(R, Nat)
  BY NatPairs
<1> HIDE DEF R, T
<1>5. PICK t \in T : \A u \in T : ~(<<u, t>> \in R)
  BY <1>3, <1>4, WFMin
<1>6. PICK m \in S : t = d - m
  BY DEF T
<1>7. ASSUME NEW n \in S PROVE n <= m
  <2>1. <<d - n, d - m>> \notin R
    BY <1>5, <1>6 DEF T
  <2>2. /\ n \in Nat /\ m \in Nat /\ d - n \in Nat /\ d - m \in Nat
    BY <1>1, <1>2
  <2>3. ~(d - n < d - m)
    BY <2>1, <2>2, SMT DEF R
  <2>4. QED BY <2>2, <2>3
<1>8. QED BY <1>7

\* Two sequences one after the other.
LEMMA Joined ==
  ASSUME NEW S, NEW s \in Seq(S), NEW t \in Seq(S)
  PROVE  /\ s \o t \in Seq(S) /\ Len(s \o t) = Len(s) + Len(t)
         /\ Len(s) \in Nat /\ Len(t) \in Nat
         /\ \A n \in 1..Len(s) : (s \o t)[n] = s[n]
         /\ \A n \in Len(s) + 1 .. Len(s) + Len(t) :
               n - Len(s) \in 1..Len(t) /\ (s \o t)[n] = t[n - Len(s)]
<1>1. /\ s \o t \in Seq(S) /\ Len(s \o t) = Len(s) + Len(t)
      /\ Len(s) \in Nat /\ Len(t) \in Nat
      /\ \A n \in 1..Len(s) + Len(t) :
            (s \o t)[n] = IF n <= Len(s) THEN s[n] ELSE t[n - Len(s)]
  OBVIOUS
<1>2. ASSUME NEW n \in 1..Len(s) PROVE (s \o t)[n] = s[n]
  <2>1. n \in 1..Len(s) + Len(t) /\ n <= Len(s)
    BY <1>1
  <2>2. QED BY <1>1, <2>1
<1>3. ASSUME NEW n \in Len(s) + 1 .. Len(s) + Len(t)
      PROVE  n - Len(s) \in 1..Len(t) /\ (s \o t)[n] = t[n - Len(s)]
  <2>1. n \in 1..Len(s) + Len(t) /\ ~(n <= Len(s)) /\ n - Len(s) \in 1..Len(t)
    BY <1>1
  <2>2. QED BY <1>1, <2>1
<1>4. QED BY <1>1, <1>2, <1>3

\* A start is on a day of the season.
LEMMA LocalDayType ==
  ASSUME NEW s \in Starts
  PROVE  LocalDay(s) \in Days
  BY ScheduleAssumption DEF Starts, Days, LocalDay

\* date.replace(day=1): the last first of a month that is not later.
LEMMA FirstOfMonthForm ==
  ASSUME NEW d \in Nat
  PROVE  /\ FirstOfMonth(d) \in MonthStarts /\ FirstOfMonth(d) <= d
         /\ \A n \in MonthStarts : n <= d => n <= FirstOfMonth(d)
<1> DEFINE S == {n \in MonthStarts : n <= d}
<1>1. S \subseteq 0..d /\ 0 \in S
  <2>1. MonthStarts \subseteq Nat /\ 0 \in MonthStarts
    BY ScheduleAssumption
  <2>2. ASSUME NEW n \in S PROVE n \in 0..d
    BY <2>1
  <2>3. 0 \in S
    BY <2>1
  <2>4. QED BY <2>2, <2>3
<1>2. PICK m \in S : \A n \in S : n <= m
  BY <1>1, Greatest
<1>3. m \in MonthStarts /\ m <= d /\ \A n \in MonthStarts : n <= d => n <= m
  BY <1>2
<1>4. QED BY <1>3 DEF FirstOfMonth

\* months(): 32 days from the first of a month are in the next month.
LEMMA NextMonthForm ==
  ASSUME NEW d \in MonthStarts, d <= LastDay
  PROVE  NextMonth(d) \in MonthStarts /\ NextMonth(d) \in Nat /\ d < NextMonth(d)
<1>1. d \in Nat /\ Span \in Nat /\ d + Span \in Nat /\ MonthStarts \subseteq Nat
  BY ScheduleAssumption
<1>2. FirstOfMonth(d) = d
  <2>1. FirstOfMonth(d) \in MonthStarts /\ FirstOfMonth(d) <= d /\ d <= FirstOfMonth(d)
    BY <1>1, FirstOfMonthForm
  <2>2. FirstOfMonth(d) \in Nat
    BY <1>1, <2>1
  <2>3. QED BY <1>1, <2>1, <2>2
<1>3. NextMonth(d) = FirstOfMonth(d + Span)
  BY <1>2 DEF NextMonth
<1>4. PICK n \in MonthStarts : d < n /\ n <= d + Span
  <2>1. Cardinality({n \in MonthStarts : d < n /\ n <= d + Span}) = 1
    BY ScheduleAssumption
  <2>2. {n \in MonthStarts : d < n /\ n <= d + Span} # {}
    BY <2>1, FS_EmptySet
  <2>3. QED BY <2>2
<1>5. FirstOfMonth(d + Span) \in MonthStarts /\ n <= FirstOfMonth(d + Span)
  BY <1>1, <1>4, FirstOfMonthForm
<1>6. n \in Nat /\ FirstOfMonth(d + Span) \in Nat
  BY <1>1, <1>5
<1>7. QED BY <1>1, <1>3, <1>4, <1>5, <1>6
-----------------------------------------------------------------------------
\* What every row of a page has right: its two dates are of one start, and that
\* is the start StatsAPI has for its game.
RowAgrees(row) ==
    /\ row \in PageRow
    /\ row.officialDate = LocalDay(ResolveCommenceTime(row))
    /\ ResolveCommenceTime(row) = listing[row.gamePk].start

\* HomeRow, for what StatsAPI has of the game at one time or another.
HomeRowOf(g, entry) ==
    LET former == entry.former
        last == CHOOSE s \in former : \A other \in former : other <= s
    IN [gamePk |-> g, officialDate |-> LocalDay(entry.start),
        gameDate |-> entry.start, rescheduleDate |-> None,
        rescheduledFromDate |-> IF former = {} THEN None ELSE LocalDay(last),
        detailedState |-> entry.status]

\* The row of a game on its own day.
LEMMA HomeRowForm ==
  ASSUME ListingSound, NEW g \in Games
  PROVE  HomeRow(g).gamePk = g /\ RowAgrees(HomeRow(g))
<1> DEFINE former == listing[g].former
<1>1. /\ listing[g].start \in Starts /\ listing[g].status \in Status
      /\ former \subseteq Starts
  BY DEF ListingSound
<1>2. HomeRow(g).rescheduledFromDate \in Days \cup {None}
  <2>1. CASE former = {}
    BY <2>1 DEF HomeRow
  <2>2. CASE former # {}
    <3>1. 2 * LastDay + 2 \in Nat /\ former \subseteq 0..(2 * LastDay + 2)
      BY <1>1, ScheduleAssumption DEF Starts
    <3>2. PICK s \in former : \A other \in former : other <= s
      BY <2>2, <3>1, Greatest
    <3>3. (CHOOSE x \in former : \A other \in former : other <= x) \in Starts
      BY <1>1, <3>2
    <3>4. QED BY <2>2, <3>3, LocalDayType DEF HomeRow
  <2>3. QED BY <2>1, <2>2
<1>3. LocalDay(listing[g].start) \in Days
  BY <1>1, LocalDayType
<1>4. HomeRow(g) \in PageRow
  BY <1>1, <1>2, <1>3 DEF HomeRow, PageRow
<1>5. QED BY <1>4 DEF HomeRow, RowAgrees, ResolveCommenceTime

\* The row of a game on a day it was postponed from.
LEMMA PostponedRowForm ==
  ASSUME ListingSound, NEW g \in Games, NEW old \in listing[g].former
  PROVE  PostponedRow(g, old).gamePk = g /\ RowAgrees(PostponedRow(g, old))
<1>1. listing[g].start \in Starts /\ old \in Starts /\ listing[g].start # None
  BY ScheduleAssumption DEF ListingSound, Starts
<1>2. LocalDay(listing[g].start) \in Days
  BY <1>1, LocalDayType
<1>3. PostponedRow(g, old) \in PageRow
  BY <1>1, <1>2 DEF PostponedRow, PageRow, Status
<1>4. QED BY <1>1, <1>3 DEF PostponedRow, RowAgrees, ResolveCommenceTime

\* A page's rows: each agrees, none is of a game whose day is before, and of a
\* game of this very day there is its own row and no other.
LEMMA PageForm ==
  ASSUME ListingSound, NEW d \in Int
  PROVE  /\ \A row \in Page(d) :
               /\ RowAgrees(row) /\ row.gamePk \in Games
               /\ d <= LocalDay(listing[row.gamePk].start)
               /\ LocalDay(listing[row.gamePk].start) = d => row = HomeRow(row.gamePk)
         /\ \A g \in Games : LocalDay(listing[g].start) = d => HomeRow(g) \in Page(d)
<1>1. \A g \in Games : LocalDay(listing[g].start) \in Days
  BY LocalDayType DEF ListingSound
<1>2. ASSUME NEW g \in Games, LocalDay(listing[g].start) = d
      PROVE  HomeRow(g) \in Page(d)
  BY <1>2 DEF Page
<1>3. ASSUME NEW row \in Page(d)
      PROVE  /\ RowAgrees(row) /\ row.gamePk \in Games
             /\ d <= LocalDay(listing[row.gamePk].start)
             /\ LocalDay(listing[row.gamePk].start) = d => row = HomeRow(row.gamePk)
  <2>1. CASE \E g \in Games : LocalDay(listing[g].start) = d /\ row = HomeRow(g)
    BY <2>1, HomeRowForm
  <2>2. CASE \E g \in Games : \E old \in listing[g].former :
                LocalDay(old) = d /\ row = PostponedRow(g, old)
    <3>0. PICK g \in Games : \E old \in listing[g].former :
             LocalDay(old) = d /\ row = PostponedRow(g, old)
      BY <2>2
    <3>1. PICK old \in listing[g].former : LocalDay(old) = d /\ row = PostponedRow(g, old)
      BY <3>0
    <3>2. row.gamePk = g /\ RowAgrees(row)
      BY <3>1, PostponedRowForm
    <3>3. d < LocalDay(listing[g].start)
      BY <3>1 DEF ListingSound
    <3>4. LocalDay(listing[g].start) \in Int
      BY <1>1, ScheduleAssumption DEF Days
    <3>5. QED BY <3>2, <3>3, <3>4
  <2>3. QED BY <1>3, <2>1, <2>2 DEF Page
<1>4. QED BY <1>2, <1>3

\* A page is finite.
LEMMA PageFinite ==
  ASSUME ListingSound, NEW d
  PROVE  IsFiniteSet(Page(d))
<1> DEFINE home == [g \in Games |-> HomeRow(g)]
           old == [p \in Games \X Starts |-> PostponedRow(p[1], p[2])]
           H == {home[g] : g \in Games}
           P == {old[p] : p \in Games \X Starts}
<1>1. IsFiniteSet(H)
  <2>1. home \in Surjection(Games, H)
    BY DEF Surjection
  <2>2. QED BY <2>1, FS_Surjection, ScheduleAssumption
<1>2. IsFiniteSet(P)
  <2>1. old \in Surjection(Games \X Starts, P)
    BY DEF Surjection
  <2>2. 2 * LastDay + 2 \in Int
    BY ScheduleAssumption
  <2>3. IsFiniteSet(Starts)
    BY <2>2, FS_Interval DEF Starts
  <2>4. IsFiniteSet(Games \X Starts)
    BY <2>3, FS_Product, ScheduleAssumption
  <2>5. QED BY <2>1, <2>4, FS_Surjection
<1>3. Page(d) \subseteq H \cup P
  <2>1. \A g \in Games : HomeRow(g) \in H
    OBVIOUS
  <2>2. ASSUME NEW g \in Games, NEW s \in listing[g].former
        PROVE  PostponedRow(g, s) \in P
    <3>1. <<g, s>> \in Games \X Starts
      BY DEF ListingSound
    <3>2. old[<<g, s>>] = PostponedRow(g, s)
      BY <3>1
    <3>3. QED BY <3>1, <3>2
  <2> HIDE DEF H, P
  <2>3. QED BY <2>1, <2>2 DEF Page
<1> HIDE DEF H, P
<1>4. QED BY <1>1, <1>2, <1>3, FS_Union, FS_Subset

\* StatsAPI's answer is every row of the page, once each, in some order.
LEMMA PageInOrder ==
  ASSUME ListingSound, NEW d \in Int, NEW page \in SetToSeqs(Page(d))
  PROVE  /\ page \in Seq(PageRow)
         /\ \A n \in 1..Len(page) : page[n] \in Page(d)
         /\ \A row \in Page(d) : \E n \in 1..Len(page) : page[n] = row
         /\ \A m, n \in 1..Len(page) : page[m] = page[n] => m = n
<1> DEFINE K == Cardinality(Page(d))
<1>1. IsFiniteSet(Page(d)) /\ K \in Nat
  BY PageFinite, FS_CardinalityType
<1>2. /\ page \in [1..K -> Page(d)]
      /\ \A i, j \in 1..K : i # j => page[i] # page[j]
  BY DEF SetToSeqs
<1>3. Page(d) \subseteq PageRow
  BY PageForm DEF RowAgrees
<1>4. page \in Seq(PageRow) /\ Len(page) = K
  BY <1>1, <1>2, <1>3
<1>5. page \in Injection(1..K, Page(d))
  BY <1>2 DEF Injection, IsInjective
<1>6. Cardinality(1..K) = K
  BY <1>1, FS_Interval
<1>7. page \in Surjection(1..K, Page(d))
  BY <1>1, <1>5, <1>6, FS_Injection
<1>8. \A row \in Page(d) : \E n \in 1..K : page[n] = row
  BY <1>7 DEF Surjection
<1>9. QED BY <1>2, <1>4, <1>8
-----------------------------------------------------------------------------
\* The values that are stored of a row.
LEMMA ValuesForm ==
  ASSUME NEW row \in PageRow
  PROVE  /\ ResolveCommenceTime(row) \in Starts
         /\ GameValues(row) \in Stored
         /\ GameValues(row).date = row.officialDate
         /\ GameValues(row).start = ResolveCommenceTime(row)
<1>1. ResolveCommenceTime(row) \in Starts
  BY DEF ResolveCommenceTime, PageRow
<1>2. QED BY <1>1 DEF GameValues, ResolveGameDate, ResolveRescheduledFrom, Stored, PageRow

\* An empty table and idle processes are sound.
LEMMA InvInit == Init => IInv
<1> SUFFICES ASSUME Init PROVE IInv
  OBVIOUS
<1>1. ListingSound
  BY ScheduleAssumption DEF Init, ListingSound, Status
<1>2. DOMAIN Nothing = {}
  BY DEF Nothing
<1>3. LocalsSound
  BY <1>2 DEF Init, LocalsSound
<1>4. RangesSound /\ GamesSound
  BY ScheduleAssumption DEF Init, RangesSound, GamesSound
<1>5. RowsSound /\ UpsertedSound
  BY <1>2 DEF Init, RowsSound, UpsertedSound
<1>6. HomeRowIsLast /\ DatesAgree /\ StartsStayCurrent
  BY DEF Init, HomeRowIsLast, DatesAgree, StartsStayCurrent
<1>7. QED BY <1>1, <1>3, <1>4, <1>5, <1>6 DEF IInv

\* What MLB changes of one game concerns no ingest that still counts on it.
LEMMA ChangeStep ==
  ASSUME IInv, NEW g \in Games,
         NEW entry \in [start : Starts, former : SUBSET Starts, status : Status],
         \A s \in entry.former : LocalDay(s) < LocalDay(entry.start),
         Change(g, entry)
  PROVE  IInv'
<1>1. /\ listing' = [listing EXCEPT ![g] = entry]
      /\ unmoved' = [i \in Ingests |-> unmoved[i] \ {g}]
      /\ current' = current \ {g} /\ changes < MaxChanges /\ changes' = changes + 1
      /\ UNCHANGED <<games, pc, day, lo, hi, until, rows, upserted>>
  BY DEF Change, locals
<1>2. /\ listing' \in [Games -> [start : Starts, former : SUBSET Starts, status : Status]]
      /\ listing'[g] = entry
      /\ \A h \in Games \ {g} : listing'[h] = listing[h]
  BY <1>1 DEF IInv, ListingSound
<1>3. ListingSound'
  BY <1>2 DEF IInv, ListingSound
<1>4. LocalsSound' /\ RangesSound' /\ DatesAgree'
  BY <1>1 DEF IInv, LocalsSound, RangesSound, DatesAgree
<1>5. GamesSound'
  BY <1>1, ScheduleAssumption DEF IInv, GamesSound
<1>6. \A i \in Ingests : unmoved'[i] = unmoved[i] \ {g} /\ unmoved[i] \subseteq Games
  BY <1>1 DEF IInv, LocalsSound
<1>7. RowsSound' /\ UpsertedSound' /\ StartsStayCurrent'
  BY <1>1, <1>2, <1>6 DEF IInv, RowsSound, UpsertedSound, StartsStayCurrent, GamesSound
<1>8. ASSUME NEW h \in Games \ {g} PROVE HomeRow(h)' = HomeRow(h)
  <2>1. listing'[h] = listing[h]
    BY <1>2
  <2>2. HomeRow(h) = HomeRowOf(h, listing[h]) /\ HomeRow(h)' = HomeRowOf(h, listing'[h])
    BY DEF HomeRow, HomeRowOf
  <2>3. QED BY <2>1, <2>2
<1>9. HomeRowIsLast'
  <2>1. ASSUME NEW i \in Ingests, NEW h \in unmoved'[i], HomeFetched(i, h)'
        PROVE  LastToCome(i, h)' \/ LastDone(i, h)'
    <3>1. h \in unmoved[i] /\ h \in Games \ {g} /\ HomeRow(h)' = HomeRow(h)
      BY <1>6, <1>8
    <3>2. HomeFetched(i, h)
      BY <2>1, <1>1, <1>2, <3>1 DEF HomeFetched
    <3>3. LastToCome(i, h) \/ LastDone(i, h)
      BY <3>1, <3>2 DEF IInv, HomeRowIsLast
    <3>4. QED BY <1>1, <3>1, <3>3 DEF LastToCome, LastDone
  <2>2. QED BY <2>1 DEF HomeRowIsLast
<1>10. QED BY <1>3, <1>4, <1>5, <1>7, <1>9 DEF IInv

\* MLB's three kinds of change are such changes.
LEMMA ListingStep ==
  ASSUME IInv, NEW g \in Games, Delay(g) \/ Postpone(g) \/ Play(g)
  PROVE  IInv'
<1>1. /\ listing[g] \in [start : Starts, former : SUBSET Starts, status : Status]
      /\ \A s \in listing[g].former : LocalDay(s) < LocalDay(listing[g].start)
  BY DEF IInv, ListingSound
<1>2. CASE Delay(g)
  <2> DEFINE entry == [listing[g] EXCEPT !.start = @ + 1]
  <2>1. /\ LocalDay(listing[g].start + 1) = LocalDay(listing[g].start)
        /\ Change(g, entry)
    BY <1>2 DEF Delay
  <2>2. listing[g].start + 1 \in Starts
    BY <1>1, <2>1, ScheduleAssumption DEF LocalDay, Starts
  <2>3. /\ entry \in [start : Starts, former : SUBSET Starts, status : Status]
        /\ \A s \in entry.former : LocalDay(s) < LocalDay(entry.start)
    BY <1>1, <2>1, <2>2
  <2> HIDE DEF entry
  <2>4. QED BY <2>1, <2>3, ChangeStep
<1>3. CASE Postpone(g)
  <2>1. PICK s \in Starts :
           /\ LocalDay(s) > LocalDay(listing[g].start)
           /\ Change(g, [listing[g] EXCEPT !.start = s, !.former = @ \cup {listing[g].start}])
    BY <1>3 DEF Postpone
  <2> DEFINE entry == [listing[g] EXCEPT !.start = s, !.former = @ \cup {listing[g].start}]
  <2>2. /\ entry \in [start : Starts, former : SUBSET Starts, status : Status]
        /\ entry.start = s /\ entry.former = listing[g].former \cup {listing[g].start}
    BY <1>1
  <2>3. \A t \in Starts : LocalDay(t) \in Int
    BY LocalDayType, ScheduleAssumption DEF Days
  <2>4. \A t \in entry.former : LocalDay(t) < LocalDay(entry.start)
    BY <1>1, <2>1, <2>2, <2>3
  <2> HIDE DEF entry
  <2>5. Change(g, entry)
    BY <2>1 DEF entry
  <2>6. QED BY <2>2, <2>4, <2>5, ChangeStep
<1>4. CASE Play(g)
  <2> DEFINE entry == [listing[g] EXCEPT !.status = "Final"]
  <2>1. Change(g, entry)
    BY <1>4 DEF Play
  <2>2. /\ entry \in [start : Starts, former : SUBSET Starts, status : Status]
        /\ entry.start = listing[g].start /\ entry.former = listing[g].former
    BY <1>1 DEF Status
  <2> HIDE DEF entry
  <2>3. QED BY <1>1, <2>1, <2>2, ChangeStep
<1>5. QED BY <1>2, <1>3, <1>4

\* Where Leave puts an ingest.
LEMMA LeaveForm ==
  ASSUME LocalsSound, NEW i \in Ingests, Leave(i)
  PROVE  /\ LocalsSound'
         /\ pc'[i] = "idle" /\ lo'[i] = 0 /\ hi'[i] = 0 /\ until'[i] = 0
         /\ rows'[i] = <<>> /\ DOMAIN upserted'[i] = {} /\ unmoved'[i] = {}
         /\ \A j \in Ingests \ {i} :
               /\ pc'[j] = pc[j] /\ day'[j] = day[j] /\ lo'[j] = lo[j]
               /\ hi'[j] = hi[j] /\ until'[j] = until[j] /\ rows'[j] = rows[j]
               /\ upserted'[j] = upserted[j] /\ unmoved'[j] = unmoved[j]
<1>1. <<>> \in Seq(PageRow) /\ DOMAIN Nothing = {}
  BY DEF Nothing
<1>2. /\ pc' = [pc EXCEPT ![i] = "idle"] /\ day' = [day EXCEPT ![i] = 0]
      /\ lo' = [lo EXCEPT ![i] = 0] /\ hi' = [hi EXCEPT ![i] = 0]
      /\ until' = [until EXCEPT ![i] = 0]
      /\ rows' = [rows EXCEPT ![i] = <<>>]
      /\ upserted' = [upserted EXCEPT ![i] = Nothing]
      /\ unmoved' = [unmoved EXCEPT ![i] = {}]
  BY DEF Leave
<1>3. /\ pc'[i] = "idle" /\ lo'[i] = 0 /\ hi'[i] = 0 /\ until'[i] = 0
      /\ rows'[i] = <<>> /\ DOMAIN upserted'[i] = {} /\ unmoved'[i] = {}
  BY <1>1, <1>2 DEF LocalsSound
<1>4. \A j \in Ingests \ {i} :
         /\ pc'[j] = pc[j] /\ day'[j] = day[j] /\ lo'[j] = lo[j]
         /\ hi'[j] = hi[j] /\ until'[j] = until[j] /\ rows'[j] = rows[j]
         /\ upserted'[j] = upserted[j] /\ unmoved'[j] = unmoved[j]
  BY <1>2 DEF LocalsSound
<1>5. LocalsSound'
  <2>1. /\ pc' \in [Ingests -> {"idle", "fetching", "upserting", "between"}]
        /\ day' \in [Ingests -> Int]
        /\ lo' \in [Ingests -> Int] /\ hi' \in [Ingests -> Int]
        /\ until' \in [Ingests -> Int] /\ unmoved' \in [Ingests -> SUBSET Games]
    BY <1>2 DEF LocalsSound
  <2>2. rows' \in [Ingests -> Seq(PageRow)]
    BY <1>1, <1>2 DEF LocalsSound
  <2>3. upserted' = [j \in Ingests |-> upserted'[j]]
    BY <1>2 DEF LocalsSound
  <2>4. \A j \in Ingests : /\ pc'[j] \in {"idle", "between"} => rows'[j] = <<>>
                           /\ pc'[j] # "upserting" => DOMAIN upserted'[j] = {}
    BY <1>3, <1>4 DEF LocalsSound
  <2>5. QED BY <2>1, <2>2, <2>3, <2>4 DEF LocalsSound
<1>6. QED BY <1>3, <1>4, <1>5

\* An ingest that ends without committing gives back what it held.
LEMMA LeaveStep ==
  ASSUME IInv, NEW i \in Ingests, Leave(i), UNCHANGED listing
  PROVE  /\ ListingSound' /\ LocalsSound' /\ RangesSound' /\ RowsSound'
         /\ UpsertedSound' /\ HomeRowIsLast'
<1>1. LocalsSound
  BY DEF IInv
<1>2. /\ LocalsSound'
      /\ pc'[i] = "idle" /\ lo'[i] = 0 /\ hi'[i] = 0 /\ until'[i] = 0
      /\ rows'[i] = <<>> /\ DOMAIN upserted'[i] = {} /\ unmoved'[i] = {}
      /\ \A j \in Ingests \ {i} :
            /\ pc'[j] = pc[j] /\ day'[j] = day[j] /\ lo'[j] = lo[j]
            /\ hi'[j] = hi[j] /\ until'[j] = until[j] /\ rows'[j] = rows[j]
            /\ upserted'[j] = upserted[j] /\ unmoved'[j] = unmoved[j]
  BY <1>1, LeaveForm
<1>3. ListingSound'
  BY DEF IInv, ListingSound
<1>4. RangesSound'
  BY <1>2, ScheduleAssumption DEF IInv, RangesSound
<1>5. RowsSound'
  BY <1>2 DEF IInv, RowsSound
<1>6. UpsertedSound'
  BY <1>2 DEF IInv, UpsertedSound
<1>7. HomeRowIsLast'
  <2>1. ASSUME NEW j \in Ingests, NEW g \in unmoved'[j], HomeFetched(j, g)'
        PROVE  LastToCome(j, g)' \/ LastDone(j, g)'
    <3>1. j # i /\ g \in unmoved[j]
      BY <2>1, <1>2 DEF HomeFetched
    <3>2. HomeFetched(j, g)
      BY <2>1, <3>1, <1>2 DEF HomeFetched
    <3>3. LastToCome(j, g) \/ LastDone(j, g)
      BY <3>1, <3>2 DEF IInv, HomeRowIsLast
    <3>4. HomeRow(g)' = HomeRow(g)
      BY DEF HomeRow
    <3>5. QED BY <1>2, <3>1, <3>3, <3>4 DEF LastToCome, LastDone
  <2>2. QED BY <2>1 DEF HomeRowIsLast
<1>8. QED BY <1>2, <1>3, <1>4, <1>5, <1>6, <1>7

\* Aborts and deadlock victims.
LEMMA EndStep ==
  ASSUME IInv, NEW i \in Ingests, Victim(i) \/ Abort(i)
  PROVE  IInv'
<1>1. Leave(i) /\ UNCHANGED <<listing, games, changes, current>>
  BY DEF Victim, Abort
<1>2. GamesSound' /\ DatesAgree' /\ StartsStayCurrent'
  BY <1>1 DEF IInv, GamesSound, DatesAgree, StartsStayCurrent
<1>3. QED BY <1>1, <1>2, LeaveStep DEF IInv

\* A run that opens has fetched nothing and sees every game as it now is.
LEMMA OpenStep ==
  ASSUME IInv, NEW i \in Ingests, pc[i] \in {"idle", "between"},
         NEW from \in Int, NEW to \in Int, NEW last \in Int, Open(i, from, to, last),
         -1 <= from, to <= last, last <= LastDay + 1,
         to < last => /\ from \in MonthStarts /\ from <= last /\ last <= LastDay
                      /\ to = NextMonth(from) - 1
  PROVE  IInv'
<1>1. /\ pc' = [pc EXCEPT ![i] = "fetching"] /\ day' = [day EXCEPT ![i] = from]
      /\ lo' = [lo EXCEPT ![i] = from] /\ hi' = [hi EXCEPT ![i] = to]
      /\ until' = [until EXCEPT ![i] = last]
      /\ unmoved' = [unmoved EXCEPT ![i] = Games]
      /\ UNCHANGED <<listing, games, rows, upserted, changes, current>>
  BY DEF Open
<1>2. /\ rows[i] = <<>> /\ DOMAIN upserted[i] = {}
  BY DEF IInv, LocalsSound
<1>3. LocalsSound'
  BY <1>1, <1>2 DEF IInv, LocalsSound
<1>4. /\ pc'[i] = "fetching" /\ day'[i] = from /\ lo'[i] = from /\ hi'[i] = to
      /\ until'[i] = last
      /\ \A j \in Ingests \ {i} :
            /\ pc'[j] = pc[j] /\ day'[j] = day[j] /\ lo'[j] = lo[j]
            /\ hi'[j] = hi[j] /\ until'[j] = until[j] /\ unmoved'[j] = unmoved[j]
  BY <1>1 DEF IInv, LocalsSound
<1>5. RangesSound'
  BY <1>4 DEF IInv, RangesSound
<1>6. ListingSound' /\ GamesSound' /\ DatesAgree' /\ StartsStayCurrent'
  BY <1>1 DEF IInv, ListingSound, GamesSound, DatesAgree, StartsStayCurrent
<1>7. RowsSound'
  BY <1>1, <1>2, <1>4 DEF IInv, RowsSound
<1>8. UpsertedSound'
  BY <1>1, <1>2, <1>4 DEF IInv, UpsertedSound
<1>9. HomeRowIsLast'
  <2>1. ASSUME NEW j \in Ingests, NEW g \in unmoved'[j], HomeFetched(j, g)'
        PROVE  LastToCome(j, g)' \/ LastDone(j, g)'
    <3>1. g \in Games /\ LocalDay(listing[g].start) \in Int
      <4>1. unmoved' \in [Ingests -> SUBSET Games]
        BY <1>3 DEF LocalsSound
      <4>2. g \in Games
        BY <4>1
      <4>3. listing[g].start \in Starts
        BY <4>2 DEF IInv, ListingSound
      <4>4. QED BY <4>2, <4>3, LocalDayType, ScheduleAssumption DEF Days
    <3>2. j # i
      BY <2>1, <1>1, <1>4, <3>1 DEF HomeFetched
    <3>3. HomeFetched(j, g) /\ g \in unmoved[j]
      BY <2>1, <1>1, <1>4, <3>2 DEF HomeFetched
    <3>4. LastToCome(j, g) \/ LastDone(j, g)
      BY <3>3 DEF IInv, HomeRowIsLast
    <3>5. HomeRow(g)' = HomeRow(g)
      BY <1>1 DEF HomeRow
    <3>6. QED BY <1>1, <3>4, <3>5 DEF LastToCome, LastDone
  <2>2. QED BY <2>1 DEF HomeRowIsLast
<1>10. QED BY <1>3, <1>5, <1>6, <1>7, <1>8, <1>9 DEF IInv

\* Where the next range of a backfill lies.
LEMMA NextRange ==
  ASSUME IInv, NEW i \in Ingests, hi[i] < until[i]
  PROVE  /\ NextMonth(lo[i]) \in MonthStarts /\ NextMonth(lo[i]) = hi[i] + 1
         /\ NextMonth(lo[i]) <= until[i] /\ until[i] <= LastDay
         /\ NextMonth(NextMonth(lo[i])) \in Nat
         /\ NextMonth(lo[i]) < NextMonth(NextMonth(lo[i]))
<1>1. /\ lo[i] \in MonthStarts /\ lo[i] <= until[i] /\ until[i] <= LastDay
      /\ hi[i] = NextMonth(lo[i]) - 1
      /\ lo[i] \in Int /\ hi[i] \in Int /\ until[i] \in Int
  BY DEF IInv, RangesSound, LocalsSound
<1>2. lo[i] <= LastDay /\ LastDay \in Int
  BY <1>1, ScheduleAssumption
<1>3. NextMonth(lo[i]) \in MonthStarts /\ NextMonth(lo[i]) \in Nat
  BY <1>1, <1>2, NextMonthForm
<1>4. NextMonth(lo[i]) = hi[i] + 1 /\ NextMonth(lo[i]) <= until[i]
  BY <1>1, <1>3
<1>5. NextMonth(lo[i]) <= LastDay
  BY <1>1, <1>2, <1>3, <1>4
<1>6. QED BY <1>1, <1>3, <1>4, <1>5, NextMonthForm

\* cron's three days, a backfill's first month and its next ones.
LEMMA BeginStep ==
  ASSUME IInv, NEW i \in Ingests, Daily(i) \/ Backfill(i) \/ BackfillNext(i)
  PROVE  IInv'
<1>1. LastDay \in Nat /\ MonthStarts \subseteq Nat /\ 0 \in MonthStarts
  BY ScheduleAssumption
<1>2. CASE Daily(i)
  <2>1. PICK today \in Days : Open(i, today - 1, today + 1, today + 1)
    BY <1>2 DEF Daily
  <2>2. /\ today - 1 \in Int /\ today + 1 \in Int /\ -1 <= today - 1
        /\ today + 1 <= LastDay + 1 /\ ~(today + 1 < today + 1) /\ today + 1 <= today + 1
    BY <1>1 DEF Days
  <2>3. pc[i] \in {"idle", "between"}
    BY <1>2 DEF Daily
  <2>4. QED BY <2>1, <2>2, <2>3, OpenStep
<1>3. CASE Backfill(i)
  <2>1. PICK today \in Days : Open(i, 0, Lesser(NextMonth(0) - 1, today), today)
    BY <1>3 DEF Backfill
  <2> DEFINE to == Lesser(NextMonth(0) - 1, today)
  <2>2. today \in 0..LastDay /\ NextMonth(0) \in Nat
    BY <1>1, NextMonthForm DEF Days
  <2>3. /\ to \in Int /\ to <= today
        /\ to < today => to = NextMonth(0) - 1
    BY <2>2 DEF Lesser
  <2> HIDE DEF to
  <2>4. Open(i, 0, to, today)
    BY <2>1 DEF to
  <2>5. /\ 0 \in Int /\ today \in Int /\ -1 <= 0 /\ today <= LastDay + 1
        /\ 0 <= today /\ today <= LastDay
    BY <1>1, <2>2
  <2>6. pc[i] \in {"idle", "between"}
    BY <1>3 DEF Backfill
  <2>7. QED BY <1>1, <2>3, <2>4, <2>5, <2>6, OpenStep
<1>4. CASE BackfillNext(i)
  <2> DEFINE cur == NextMonth(lo[i])
             to == Lesser(NextMonth(cur) - 1, until[i])
  <2>1. pc[i] = "between" /\ Open(i, cur, to, until[i])
    BY <1>4 DEF BackfillNext
  <2>2. hi[i] < until[i]
    BY <2>1 DEF IInv, RangesSound
  <2>3. /\ cur \in MonthStarts /\ cur <= until[i] /\ until[i] <= LastDay
        /\ NextMonth(cur) \in Nat
    BY <2>2, NextRange
  <2>4. until[i] \in Int /\ cur \in Nat
    BY <1>1, <2>3 DEF IInv, LocalsSound
  <2> HIDE DEF cur
  <2>5. /\ to \in Int /\ to <= until[i]
        /\ to < until[i] => to = NextMonth(cur) - 1
    BY <2>3, <2>4 DEF Lesser
  <2> HIDE DEF to
  <2>6. cur \in Int /\ -1 <= cur /\ until[i] <= LastDay + 1
    BY <1>1, <2>3, <2>4
  <2>7. QED BY <2>1, <2>3, <2>4, <2>5, <2>6, OpenStep
<1>5. QED BY <1>2, <1>3, <1>4

\* A page joins what was fetched.  The page of a game's own day comes last, for
\* no later page of the range knows the game.
LEMMA FetchStep ==
  ASSUME IInv, NEW i \in Ingests, Fetch(i)
  PROVE  IInv'
<1> DEFINE d == day[i]
           old == rows[i]
           N == Len(rows[i])
<1>1. PICK page \in SetToSeqs(Page(d)) : rows' = [rows EXCEPT ![i] = @ \o page]
  BY DEF Fetch
<1> DEFINE K == Len(page)
           new == old \o page
<1>2. /\ pc[i] = "fetching" /\ day' = [day EXCEPT ![i] = d + 1]
      /\ pc' = [pc EXCEPT ![i] = IF d < hi[i] THEN "fetching" ELSE "upserting"]
      /\ UNCHANGED <<listing, games, lo, hi, until, upserted, changes, unmoved, current>>
  BY DEF Fetch, history
<1>3. ListingSound /\ LocalsSound /\ d \in Int /\ old \in Seq(PageRow)
      /\ DOMAIN upserted[i] = {}
  BY <1>2 DEF IInv, LocalsSound
<1>4. /\ page \in Seq(PageRow)
      /\ \A n \in 1..K : page[n] \in Page(d)
      /\ \A row \in Page(d) : \E n \in 1..K : page[n] = row
      /\ \A m, n \in 1..K : page[m] = page[n] => m = n
  BY <1>3, PageInOrder
<1>5. /\ new \in Seq(PageRow) /\ Len(new) = N + K
      /\ N \in Nat /\ K \in Nat
      /\ \A n \in 1..N : new[n] = old[n]
      /\ \A n \in N + 1 .. N + K : n - N \in 1..K /\ new[n] = page[n - N]
  BY <1>3, <1>4, Joined
<1>6. /\ \A row \in Page(d) :
            /\ RowAgrees(row) /\ row.gamePk \in Games
            /\ d <= LocalDay(listing[row.gamePk].start)
            /\ LocalDay(listing[row.gamePk].start) = d => row = HomeRow(row.gamePk)
      /\ \A g \in Games : LocalDay(listing[g].start) = d => HomeRow(g) \in Page(d)
  BY <1>3, PageForm
<1>7. rows' = [rows EXCEPT ![i] = new]
  BY <1>1
<1> HIDE DEF new
<1>8. /\ rows' \in [Ingests -> Seq(PageRow)] /\ rows'[i] = new
      /\ \A j \in Ingests \ {i} : rows'[j] = rows[j]
  BY <1>3, <1>5, <1>7 DEF LocalsSound
<1>9. /\ pc' \in [Ingests -> {"idle", "fetching", "upserting", "between"}]
      /\ day' \in [Ingests -> Int] /\ day'[i] = d + 1
      /\ pc'[i] = IF d < hi[i] THEN "fetching" ELSE "upserting"
      /\ \A j \in Ingests \ {i} : pc'[j] = pc[j] /\ day'[j] = day[j]
  BY <1>2, <1>3 DEF LocalsSound
<1>10. LocalsSound'
  BY <1>2, <1>3, <1>8, <1>9 DEF LocalsSound
<1>11. ListingSound' /\ GamesSound' /\ DatesAgree' /\ StartsStayCurrent'
  BY <1>2 DEF IInv, ListingSound, GamesSound, DatesAgree, StartsStayCurrent
<1>12. RangesSound'
  BY <1>2, <1>9 DEF IInv, RangesSound
<1>13. UpsertedSound'
  BY <1>2 DEF IInv, UpsertedSound
<1>14. RowsSound'
  <2>1. ASSUME NEW n \in 1..N + K
        PROVE  /\ new[n].officialDate = LocalDay(ResolveCommenceTime(new[n]))
               /\ new[n].gamePk \in unmoved[i] =>
                     ResolveCommenceTime(new[n]) = listing[new[n].gamePk].start
    <3>1. CASE n \in 1..N
      BY <3>1, <1>5 DEF IInv, RowsSound
    <3>2. CASE n \in N + 1 .. N + K
      <4>1. RowAgrees(new[n])
        BY <3>2, <1>4, <1>5, <1>6
      <4>2. QED BY <4>1 DEF RowAgrees
    <3>3. QED BY <1>5, <3>1, <3>2
  <2>2. ASSUME NEW j \in Ingests, NEW n \in 1..Len(rows'[j])
        PROVE  /\ rows'[j][n].officialDate = LocalDay(ResolveCommenceTime(rows'[j][n]))
               /\ rows'[j][n].gamePk \in unmoved[j] =>
                     ResolveCommenceTime(rows'[j][n]) = listing[rows'[j][n].gamePk].start
    <3>1. CASE j = i
      <4>1. rows'[j] = new /\ n \in 1..N + K
        BY <1>5, <1>8, <3>1
      <4>2. QED BY <2>1, <3>1, <4>1
    <3>2. CASE j # i
      <4>1. rows'[j] = rows[j]
        BY <1>8, <3>2
      <4>2. QED BY <4>1 DEF IInv, RowsSound
    <3>3. QED BY <3>1, <3>2
  <2>3. \A row : ResolveCommenceTime(row)' = ResolveCommenceTime(row)
    BY DEF ResolveCommenceTime
  <2>4. QED BY <1>2, <2>2, <2>3 DEF RowsSound, ResolveCommenceTime
<1>15. HomeRowIsLast'
  <2>1. ASSUME NEW j \in Ingests, NEW g \in unmoved[j], HomeFetched(j, g)'
        PROVE  LastToCome(j, g)' \/ LastDone(j, g)'
    <3> DEFINE home == LocalDay(listing[g].start)
    <3>1. HomeRow(g)' = HomeRow(g) /\ listing' = listing
      BY <1>2 DEF HomeRow
    <3>2. g \in Games /\ home \in Int
      <4>1. g \in Games
        BY <1>3 DEF LocalsSound
      <4>2. listing[g].start \in Starts
        BY <4>1, <1>3 DEF ListingSound
      <4>3. QED BY <4>1, <4>2, LocalDayType, ScheduleAssumption DEF Days
    <3>3. CASE j # i
      <4>1. HomeFetched(j, g)
        BY <2>1, <1>2, <1>9, <3>3 DEF HomeFetched
      <4>2. LastToCome(j, g) \/ LastDone(j, g)
        BY <4>1 DEF IInv, HomeRowIsLast
      <4>3. QED BY <1>2, <1>8, <3>1, <3>3, <4>2 DEF LastToCome, LastDone
    <3>4. CASE j = i
      <4>1. /\ home \in lo[i]..hi[i] /\ home <= d
        BY <2>1, <1>2, <1>3, <1>9, <3>1, <3>2, <3>4 DEF HomeFetched, LocalsSound
      <4>2. CASE home < d
        <5>1. HomeFetched(i, g)
          BY <4>1, <4>2, <1>2 DEF HomeFetched
        <5>2. LastToCome(i, g)
          BY <5>1, <1>3, <3>4 DEF IInv, HomeRowIsLast, LastDone
        <5>3. PICK n \in 1..N : /\ old[n] = HomeRow(g)
                                /\ \A m \in n + 1 .. N : old[m].gamePk # g
          BY <5>2 DEF LastToCome
        <5>4. ASSUME NEW m \in N + 1 .. N + K PROVE new[m].gamePk # g
          <6>1. new[m] \in Page(d)
            BY <1>4, <1>5
          <6>2. d <= LocalDay(listing[new[m].gamePk].start)
            BY <1>6, <6>1
          <6>3. ~(d <= home)
            BY <1>3, <3>2, <4>2
          <6>4. QED BY <6>2, <6>3
        <5>5. n \in 1..N + K /\ new[n] = HomeRow(g)
          <6>1. n \in 1..N + K
            BY <1>5
          <6>2. new[n] = old[n]
            BY <1>5
          <6>3. QED BY <5>3, <6>1, <6>2
        <5>6. ASSUME NEW m \in n + 1 .. N + K PROVE new[m].gamePk # g
          <6>1. m \in n + 1 .. N \/ m \in N + 1 .. N + K
            BY <1>5
          <6>2. ASSUME m \in n + 1 .. N PROVE m \in 1..N
            BY <6>2, <1>5
          <6>3. QED BY <1>5, <5>3, <5>4, <6>1, <6>2
        <5>7. QED BY <1>5, <1>8, <3>1, <3>4, <5>5, <5>6 DEF LastToCome
      <4>3. CASE home = d
        <5>1. HomeRow(g) \in Page(d) /\ HomeRow(g).gamePk = g
          BY <1>3, <1>6, <3>2, <4>3, HomeRowForm
        <5>2. PICK k \in 1..K : page[k] = HomeRow(g)
          BY <1>4, <5>1
        <5>3. \A m \in 1..K : page[m].gamePk = g => m = k
          BY <1>4, <1>6, <4>3, <5>2
        <5>4. N + k \in N + 1 .. N + K /\ (N + k) - N = k /\ N + k \in 1..N + K
          BY <1>5
        <5>5. new[N + k] = HomeRow(g)
          BY <1>5, <5>2, <5>4
        <5>6. ASSUME NEW m \in (N + k) + 1 .. N + K PROVE new[m].gamePk # g
          <6>1. m \in N + 1 .. N + K /\ m - N # k
            BY <1>5
          <6>2. QED BY <1>5, <5>3, <6>1
        <5>7. QED BY <1>5, <1>8, <3>1, <3>4, <5>4, <5>5, <5>6 DEF LastToCome
      <4>4. QED BY <1>3, <3>2, <4>1, <4>2, <4>3
    <3>5. QED BY <3>3, <3>4
  <2>2. unmoved' = unmoved
    BY <1>2
  <2>3. QED BY <2>1, <2>2 DEF HomeRowIsLast
<1>16. QED BY <1>10, <1>11, <1>12, <1>13, <1>14, <1>15 DEF IInv

\* An upsert takes the first of the rows that are left, and nobody else holds
\* its game.
LEMMA UpsertStep ==
  ASSUME IInv, NEW i \in Ingests, Upsert(i)
  PROVE  IInv'
<1> DEFINE old == rows[i]
           row == Head(old)
           rest == Tail(old)
           N == Len(old)
           put == Put(upserted[i], row)
<1>1. /\ pc[i] = "upserting" /\ old # <<>>
      /\ rows' = [rows EXCEPT ![i] = rest]
      /\ upserted' = [upserted EXCEPT ![i] = put]
      /\ \A j \in Ingests : ~WaitsFor(i, j)
      /\ UNCHANGED <<listing, games, pc, day, lo, hi, until, changes, unmoved, current>>
  BY DEF Upsert, history
<1>2. LocalsSound /\ ListingSound /\ old \in Seq(PageRow)
  BY DEF IInv, LocalsSound
<1>3. /\ N \in Nat /\ N > 0 /\ row = old[1] /\ row \in PageRow
      /\ rest \in Seq(PageRow) /\ Len(rest) = N - 1
      /\ \A n \in 1..N - 1 : rest[n] = old[n + 1]
  BY <1>1, <1>2
<1>4. 1 \in 1..N /\ \A n \in 1..N - 1 : n + 1 \in 1..N
  BY <1>3
<1>5. /\ DOMAIN put = DOMAIN upserted[i] \cup {row.gamePk}
      /\ put[row.gamePk] = GameValues(row)
      /\ \A g \in DOMAIN upserted[i] : g # row.gamePk => put[g] = upserted[i][g]
  BY DEF Put
<1> HIDE DEF row, rest, put
<1>6. /\ rows' \in [Ingests -> Seq(PageRow)] /\ rows'[i] = rest
      /\ \A j \in Ingests \ {i} : rows'[j] = rows[j]
  BY <1>1, <1>2, <1>3 DEF LocalsSound
<1>7. /\ upserted' = [j \in Ingests |-> upserted'[j]] /\ upserted'[i] = put
      /\ \A j \in Ingests \ {i} : upserted'[j] = upserted[j]
  BY <1>1, <1>2 DEF LocalsSound
<1>8. /\ row.officialDate = LocalDay(ResolveCommenceTime(row))
      /\ row.gamePk \in unmoved[i] => ResolveCommenceTime(row) = listing[row.gamePk].start
  BY <1>3, <1>4 DEF IInv, RowsSound
<1>9. /\ GameValues(row) \in Stored /\ GameValues(row).date = row.officialDate
      /\ GameValues(row).start = ResolveCommenceTime(row) /\ row.gamePk \in Games
  BY <1>3, ValuesForm DEF PageRow
<1>10. LocalsSound'
  BY <1>1, <1>2, <1>6, <1>7 DEF LocalsSound
<1>11. ListingSound' /\ RangesSound' /\ GamesSound' /\ DatesAgree' /\ StartsStayCurrent'
  BY <1>1 DEF IInv, ListingSound, RangesSound, GamesSound, DatesAgree, StartsStayCurrent
<1>12. RowsSound'
  <2>1. ASSUME NEW j \in Ingests, NEW n \in 1..Len(rows'[j])
        PROVE  /\ rows'[j][n].officialDate = LocalDay(ResolveCommenceTime(rows'[j][n]))
               /\ rows'[j][n].gamePk \in unmoved[j] =>
                     ResolveCommenceTime(rows'[j][n]) = listing[rows'[j][n].gamePk].start
    <3>1. CASE j = i
      <4>1. n \in 1..N - 1
        BY <1>3, <1>6, <3>1
      <4>2. rows'[j][n] = rows[i][n + 1] /\ n + 1 \in 1..N
        BY <1>3, <1>4, <1>6, <3>1, <4>1
      <4>3. QED BY <3>1, <4>2 DEF IInv, RowsSound
    <3>2. CASE j # i
      <4>1. rows'[j] = rows[j]
        BY <1>6, <3>2
      <4>2. QED BY <4>1 DEF IInv, RowsSound
    <3>3. QED BY <3>1, <3>2
  <2>2. QED BY <1>1, <2>1 DEF RowsSound, ResolveCommenceTime
<1>13. UpsertedSound'
  <2>1. \A j \in Ingests \ {i} : row.gamePk \notin DOMAIN upserted[j]
    <3>1. \A j \in Ingests \ {i} : ~Holds(j, row.gamePk)
      BY <1>1 DEF WaitsFor, row
    <3>2. QED BY <3>1 DEF Holds
  <2>2. ASSUME NEW j \in Ingests, NEW g \in DOMAIN upserted'[j]
        PROVE  /\ g \in Games /\ upserted'[j][g] \in Stored
               /\ upserted'[j][g].date = LocalDay(upserted'[j][g].start)
               /\ g \in unmoved[j] => upserted'[j][g].start = listing[g].start
    <3>1. CASE j = i /\ g = row.gamePk
      BY <1>5, <1>7, <1>8, <1>9, <3>1
    <3>2. CASE ~(j = i /\ g = row.gamePk)
      <4>1. g \in DOMAIN upserted[j] /\ upserted'[j][g] = upserted[j][g]
        BY <1>5, <1>7, <2>2, <3>2
      <4>2. QED BY <4>1 DEF IInv, UpsertedSound
    <3>3. QED BY <3>1, <3>2
  <2>3. \A j, k \in Ingests : j # k => DOMAIN upserted'[j] \cap DOMAIN upserted'[k] = {}
    BY <1>5, <1>7, <2>1 DEF IInv, UpsertedSound
  <2>4. QED BY <1>1, <2>2, <2>3 DEF UpsertedSound
<1>14. HomeRowIsLast'
  <2>1. ASSUME NEW j \in Ingests, NEW g \in unmoved[j], HomeFetched(j, g)'
        PROVE  LastToCome(j, g)' \/ LastDone(j, g)'
    <3>1. HomeRow(g)' = HomeRow(g)
      BY <1>1 DEF HomeRow
    <3>2. HomeFetched(j, g)
      BY <2>1, <1>1 DEF HomeFetched
    <3>3. LastToCome(j, g) \/ LastDone(j, g)
      BY <3>2 DEF IInv, HomeRowIsLast
    <3>4. CASE j # i
      BY <1>6, <1>7, <3>1, <3>3, <3>4 DEF LastToCome, LastDone
    <3>5. CASE j = i /\ LastToCome(i, g)
      <4>1. PICK n \in 1..N : /\ old[n] = HomeRow(g)
                              /\ \A m \in n + 1 .. N : old[m].gamePk # g
        BY <3>5 DEF LastToCome
      <4>2. CASE n = 1
        <5>1. g \in Games
          BY <1>2, <3>5 DEF LocalsSound
        <5>2. row = HomeRow(g) /\ row.gamePk = g
          BY <1>2, <1>3, <4>1, <4>2, <5>1, HomeRowForm
        <5>3. ASSUME NEW m \in 1..N - 1 PROVE rest[m].gamePk # g
          <6>1. m + 1 \in 2..N
            BY <1>3
          <6>2. QED BY <1>3, <4>1, <4>2, <6>1
        <5>4. GameValues(HomeRow(g))' = GameValues(HomeRow(g))
          BY <3>1 DEF GameValues, ResolveGameDate, ResolveCommenceTime,
             ResolveRescheduledFrom
        <5>5. /\ g \in DOMAIN upserted'[i] /\ upserted'[i][g] = GameValues(HomeRow(g))
          BY <1>5, <1>7, <5>2
        <5>6. QED BY <1>3, <1>6, <3>5, <5>3, <5>4, <5>5 DEF LastDone
      <4>3. CASE n # 1
        <5>1. n - 1 \in 1..N - 1 /\ (n - 1) + 1 = n
          BY <1>3, <4>3
        <5>2. rest[n - 1] = HomeRow(g)
          BY <1>3, <4>1, <5>1
        <5>3. ASSUME NEW m \in (n - 1) + 1 .. N - 1 PROVE rest[m].gamePk # g
          <6>1. m \in 1..N - 1 /\ m + 1 \in n + 1 .. N
            BY <1>3, <5>1
          <6>2. QED BY <1>3, <4>1, <6>1
        <5>4. QED BY <1>3, <1>6, <3>1, <3>5, <5>1, <5>2, <5>3 DEF LastToCome
      <4>4. QED BY <4>2, <4>3
    <3>6. CASE j = i /\ LastDone(i, g)
      <4>1. /\ g \in DOMAIN upserted[i] /\ upserted[i][g] = GameValues(HomeRow(g))
            /\ \A m \in 1..N : old[m].gamePk # g
        BY <3>6 DEF LastDone
      <4>2. row.gamePk # g
        BY <1>3, <1>4, <4>1
      <4>3. g \in DOMAIN upserted'[i] /\ upserted'[i][g] = GameValues(HomeRow(g))
        BY <1>5, <1>7, <4>1, <4>2
      <4>4. \A m \in 1..N - 1 : rest[m].gamePk # g
        BY <1>3, <1>4, <4>1
      <4>5. GameValues(HomeRow(g))' = GameValues(HomeRow(g))
        BY <3>1 DEF GameValues, ResolveGameDate, ResolveCommenceTime,
           ResolveRescheduledFrom
      <4>6. QED BY <1>3, <1>6, <3>6, <4>3, <4>4, <4>5 DEF LastDone
    <3>7. QED BY <3>3, <3>4, <3>5, <3>6
  <2>2. unmoved' = unmoved
    BY <1>1
  <2>3. QED BY <2>1, <2>2 DEF HomeRowIsLast
<1>15. QED BY <1>10, <1>11, <1>12, <1>13, <1>14 DEF IInv

\* What a commit leaves in the table.
LEMMA CommitForm ==
  ASSUME IInv, NEW i \in Ingests, Commit(i)
  PROVE  /\ GamesSound' /\ DatesAgree' /\ StartsStayCurrent'
         /\ \A g \in DOMAIN upserted[i] : g \in Games /\ games'[g] = upserted[i][g]
<1>1. /\ games' = [g \in Games |-> IF Holds(i, g) THEN upserted[i][g] ELSE games[g]]
      /\ current' = (current \ DOMAIN upserted[i]) \cup (DOMAIN upserted[i] \cap unmoved[i])
      /\ listing' = listing /\ changes' = changes
  BY DEF Commit
<1>2. \A g \in DOMAIN upserted[i] :
         /\ g \in Games /\ upserted[i][g] \in Stored
         /\ upserted[i][g].date = LocalDay(upserted[i][g].start)
         /\ g \in unmoved[i] => upserted[i][g].start = listing[g].start
  BY DEF IInv, UpsertedSound
<1>3. \A g \in Games : games'[g] = IF g \in DOMAIN upserted[i] THEN upserted[i][g]
                                                              ELSE games[g]
  BY <1>1 DEF Holds
<1>4. games' \in [Games -> Stored \cup {None}]
  BY <1>1, <1>2 DEF IInv, GamesSound, Holds
<1>5. GamesSound'
  BY <1>1, <1>2, <1>4 DEF IInv, GamesSound
<1>6. DatesAgree'
  BY <1>2, <1>3 DEF IInv, DatesAgree
<1>7. StartsStayCurrent'
  BY <1>1, <1>2, <1>3 DEF IInv, StartsStayCurrent, GamesSound
<1>8. QED BY <1>2, <1>3, <1>5, <1>6, <1>7

\* The commit of a run, after which a backfill may have further months.
LEMMA CommitStep ==
  ASSUME IInv, NEW i \in Ingests, Commit(i)
  PROVE  IInv'
<1>1. Done(i) /\ listing' = listing
  BY DEF Commit
<1>2. CASE Leave(i)
  BY <1>1, <1>2, CommitForm, LeaveStep DEF IInv
<1>3. CASE ~Leave(i)
  <2>1. /\ hi[i] < until[i] /\ pc' = [pc EXCEPT ![i] = "between"]
        /\ day' = [day EXCEPT ![i] = 0]
        /\ upserted' = [upserted EXCEPT ![i] = Nothing]
        /\ unmoved' = [unmoved EXCEPT ![i] = {}]
        /\ UNCHANGED <<lo, hi, until, rows>>
    BY <1>3 DEF Commit
  <2>2. rows[i] = <<>> /\ DOMAIN Nothing = {}
    BY <1>1 DEF Done, Nothing
  <2>3. /\ pc'[i] = "between" /\ DOMAIN upserted'[i] = {} /\ unmoved'[i] = {}
        /\ \A j \in Ingests \ {i} : /\ pc'[j] = pc[j] /\ day'[j] = day[j]
                                    /\ upserted'[j] = upserted[j]
                                    /\ unmoved'[j] = unmoved[j]
    BY <2>1, <2>2 DEF IInv, LocalsSound
  <2>4. LocalsSound'
    <3>1. /\ pc' \in [Ingests -> {"idle", "fetching", "upserting", "between"}]
          /\ day' \in [Ingests -> Int] /\ unmoved' \in [Ingests -> SUBSET Games]
      BY <2>1 DEF IInv, LocalsSound
    <3>2. upserted' = [j \in Ingests |-> upserted'[j]]
      BY <2>1 DEF IInv, LocalsSound
    <3>3. \A j \in Ingests : /\ pc'[j] \in {"idle", "between"} => rows[j] = <<>>
                             /\ pc'[j] # "upserting" => DOMAIN upserted'[j] = {}
      BY <2>2, <2>3 DEF IInv, LocalsSound
    <3>4. QED BY <2>1, <3>1, <3>2, <3>3 DEF IInv, LocalsSound
  <2>5. ListingSound' /\ RangesSound'
    BY <1>1, <2>1, <2>3 DEF IInv, ListingSound, RangesSound
  <2>6. RowsSound'
    BY <1>1, <2>1, <2>2, <2>3 DEF IInv, RowsSound
  <2>7. UpsertedSound'
    BY <1>1, <2>3 DEF IInv, UpsertedSound
  <2>8. HomeRowIsLast'
    <3>1. ASSUME NEW j \in Ingests, NEW g \in unmoved'[j], HomeFetched(j, g)'
          PROVE  LastToCome(j, g)' \/ LastDone(j, g)'
      <4>1. j # i /\ g \in unmoved[j] /\ HomeFetched(j, g)
        BY <1>1, <2>1, <2>3, <3>1 DEF HomeFetched
      <4>2. LastToCome(j, g) \/ LastDone(j, g)
        BY <4>1 DEF IInv, HomeRowIsLast
      <4>3. HomeRow(g)' = HomeRow(g)
        BY <1>1 DEF HomeRow
      <4>4. QED BY <2>1, <2>3, <4>1, <4>2, <4>3 DEF LastToCome, LastDone
    <3>2. QED BY <3>1 DEF HomeRowIsLast
  <2>9. QED BY <2>4, <2>5, <2>6, <2>7, <2>8, CommitForm DEF IInv
<1>4. QED BY <1>2, <1>3

\* Every step keeps the inductive invariant.
LEMMA InvStep == IInv /\ [Next]_vars => IInv'
<1>1. ASSUME IInv, UNCHANGED vars PROVE IInv'
  <2>1. UNCHANGED <<listing, games, pc, day, lo, hi, until, rows, upserted, changes,
                    unmoved, current>>
    BY <1>1 DEF vars, locals, history
  <2>2. \A g : HomeRow(g)' = HomeRow(g)
    BY <2>1 DEF HomeRow
  <2>3. HomeRowIsLast'
    BY <1>1, <2>1, <2>2 DEF IInv, HomeRowIsLast, HomeFetched, LastToCome, LastDone,
       GameValues, ResolveGameDate, ResolveCommenceTime, ResolveRescheduledFrom
  <2>4. QED BY <1>1, <2>1, <2>3 DEF IInv, ListingSound, LocalsSound, RangesSound,
               RowsSound, UpsertedSound, GamesSound, DatesAgree, StartsStayCurrent
<1>2. QED BY <1>1, ListingStep, BeginStep, FetchStep, UpsertStep, CommitStep, EndStep
          DEF Next, Work
-----------------------------------------------------------------------------
\* The inductive invariant holds of every behaviour.
THEOREM Inductive == Spec => []IInv
  BY InvInit, InvStep, PTL DEF Spec

\* Every variable keeps its type; in particular no game is held by two ingests,
\* and what is stored of one is within the season.
THEOREM TypeCorrect == Spec => []TypeOK
<1>1. IInv => TypeOK
  <2> SUFFICES ASSUME IInv PROVE TypeOK
    OBVIOUS
  <2>1. /\ games \in [Games -> Stored \cup {None}]
        /\ pc \in [Ingests -> {"idle", "fetching", "upserting", "between"}]
        /\ current \subseteq Games /\ changes \in 0..MaxChanges
    BY DEF IInv, GamesSound, LocalsSound
  <2>2. ASSUME NEW i \in Ingests
        PROVE  /\ DOMAIN upserted[i] \subseteq Games
               /\ Range(upserted[i]) \subseteq Stored
               /\ -1 <= lo[i] /\ hi[i] <= LastDay + 1
    <3>1. -1 <= lo[i] /\ hi[i] <= until[i] /\ until[i] <= LastDay + 1
      BY DEF IInv, RangesSound
    <3>2. hi[i] \in Int /\ until[i] \in Int /\ LastDay + 1 \in Int
      BY ScheduleAssumption DEF IInv, LocalsSound
    <3>3. QED BY <3>1, <3>2 DEF IInv, UpsertedSound, Range
  <2>3. \A i, j \in Ingests : i # j => DOMAIN upserted[i] \cap DOMAIN upserted[j] = {}
    BY DEF IInv, UpsertedSound
  <2>4. QED BY <2>1, <2>2, <2>3 DEF TypeOK
<1>2. QED BY <1>1, Inductive, PTL

\* statsapi.py:44 and :65: the stored date of a game is the venue's date of its
\* stored start, whatever pages a fetch has torn apart and however ingests overlap.
THEOREM DateIsOfStart == Spec => []DatesAgree
<1>1. IInv => DatesAgree
  BY DEF IInv
<1>2. QED BY <1>1, Inductive, PTL

\* A game last stored by an ingest begun after MLB's latest change of it has the
\* start StatsAPI has, whichever of its pages that ingest saw.
THEOREM StartIsCurrent == Spec => []StartsStayCurrent
<1>1. IInv => StartsStayCurrent
  BY DEF IInv
<1>2. QED BY <1>1, Inductive, PTL

\* schedule.py:46: "later rows win, which is correct": an ingest of the day a game
\* is now on, begun after its latest change, leaves exactly what that day's page
\* says, for any number of postponements and overlapping ingests.
THEOREM LaterRowWins == Spec => ReplayedRowWins
<1> DEFINE Wins == \A i \in Ingests : Commit(i) =>
          \A g \in unmoved[i] : LocalDay(listing[g].start) \in lo[i]..hi[i] =>
             games'[g] = [date |-> LocalDay(listing[g].start), start |-> listing[g].start,
                          status |-> listing[g].status,
                          from |-> HomeRow(g).rescheduledFromDate]
<1>1. ASSUME IInv, NEW i \in Ingests, Commit(i), NEW g \in unmoved[i],
             LocalDay(listing[g].start) \in lo[i]..hi[i]
      PROVE  games'[g] = [date |-> LocalDay(listing[g].start), start |-> listing[g].start,
                          status |-> listing[g].status,
                          from |-> HomeRow(g).rescheduledFromDate]
  <2>1. pc[i] = "upserting" /\ rows[i] = <<>>
    BY <1>1 DEF Commit, Done
  <2>2. HomeFetched(i, g)
    BY <1>1, <2>1 DEF HomeFetched
  <2>3. LastDone(i, g)
    BY <1>1, <2>1, <2>2 DEF IInv, HomeRowIsLast, LastToCome
  <2>4. games'[g] = GameValues(HomeRow(g))
    BY <1>1, <2>3, CommitForm DEF LastDone
  <2>5. QED BY <2>4 DEF GameValues, ResolveGameDate, ResolveCommenceTime,
               ResolveRescheduledFrom, HomeRow
<1>2. IInv /\ [Next]_vars => [Wins]_vars
  BY <1>1
<1>3. QED BY <1>2, Inductive, PTL DEF Spec, ReplayedRowWins

\* backfill_schedule.py:25: for every calendar in which 32 days from the first of a
\* month reach exactly one further month, the ranges of a backfill follow one
\* another without a gap or an overlap, none is empty, none goes beyond today.
THEOREM MonthsTile == Spec => RangesTile
<1> DEFINE Tile == \A i \in Backfills : BackfillNext(i) =>
                      lo'[i] = hi[i] + 1 /\ lo'[i] <= hi'[i] /\ hi'[i] <= until[i]
<1>1. ASSUME IInv, NEW i \in Backfills, BackfillNext(i)
      PROVE  lo'[i] = hi[i] + 1 /\ lo'[i] <= hi'[i] /\ hi'[i] <= until[i]
  <2> DEFINE cur == NextMonth(lo[i])
             to == Lesser(NextMonth(cur) - 1, until[i])
  <2>1. i \in Ingests /\ pc[i] = "between" /\ Open(i, cur, to, until[i])
    BY <1>1 DEF BackfillNext, Ingests
  <2>2. hi[i] < until[i]
    BY <1>1, <2>1 DEF IInv, RangesSound
  <2>3. /\ cur = hi[i] + 1 /\ cur <= until[i] /\ cur < NextMonth(cur)
        /\ NextMonth(cur) \in Nat
    BY <1>1, <2>1, <2>2, NextRange
  <2>4. until[i] \in Int /\ hi[i] \in Int
    BY <1>1, <2>1 DEF IInv, LocalsSound
  <2> HIDE DEF cur
  <2>5. cur <= to /\ to <= until[i]
    BY <2>3, <2>4 DEF Lesser
  <2>6. lo'[i] = cur /\ hi'[i] = to
    BY <1>1, <2>1 DEF Open, IInv, LocalsSound
  <2>7. QED BY <2>3, <2>5, <2>6
<1>2. IInv /\ [Next]_vars => [Tile]_vars
  BY <1>1
<1>3. QED BY <1>2, Inductive, PTL DEF Spec, RangesTile
=============================================================================
