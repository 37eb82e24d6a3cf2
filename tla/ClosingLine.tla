---------------------------- MODULE ClosingLine ----------------------------
(***************************************************************************)
(* The closing lookup of src/betting/clv.py for one bet, while polls,      *)
(* replays and hand-entered prices fill odds_snapshots in any order, the   *)
(* game is moved, and time passes.                                         *)
(*                                                                         *)
(* The rows are those of the bet's game, market, book and line; a price is *)
(* identified by its side and captured_at, so the odds themselves are left *)
(* out.  The bet keeps the commence_time_utc it was logged with.           *)
(***************************************************************************)
EXTENDS Integers, Sequences, FiniteSets, SequencesExt

CONSTANTS MaxTime,       \* bound on times
          MaxRows,       \* bound on rows of odds_snapshots
          FirstStart,    \* the game's original start
          Moves,         \* by how much a start is moved at a time
          SidesQuoted,   \* the sets of sides one response may quote
          HandEntry,     \* whether prices are also entered by hand
          NoRow,         \* no such snapshot (Python None)
          NoBet          \* the bet is not logged yet

Sides == {"home", "away"}
Times == 0..MaxTime

ASSUME ClosingLineAssumption ==
    /\ MaxTime \in Nat /\ MaxRows \in Nat /\ FirstStart \in 1..MaxTime
    /\ Moves \subseteq Int /\ SidesQuoted \subseteq SUBSET Sides
    /\ HandEntry \in BOOLEAN /\ NoBet \notin Times
    /\ NoRow \notin [side : Sides, at : Times]

VARIABLES now,
          start,         \* when the game really starts, or started
          captures,      \* responses on disk: instant and sides quoted
          snapshots,     \* odds_snapshots in the order of their ids
          cutoff         \* the bet's commence_time_utc

vars == <<now, start, captures, snapshots, cutoff>>

Row == [side : Sides, at : Times]

Init == /\ now = 0 /\ start = FirstStart
        /\ captures = {} /\ snapshots = <<>> /\ cutoff = NoBet

Bet == "home"                    \* the side bet on
Opposite(side) == CHOOSE other \in Sides : other # side

\* Seeded fault: the row inserted last.
FindClosingById(side, before) ==
    LET eligible == SelectSeq(snapshots, LAMBDA r : r.side = side /\ r.at < before)
    IN IF eligible = <<>> THEN NoRow ELSE Last(eligible)

\* Seeded fault: a price of the very instant of first pitch counts.
FindClosingAtPitch(side, before) ==
    LET eligible == {r \in Range(snapshots) : r.side = side /\ r.at <= before}
    IN IF eligible = {} THEN NoRow
       ELSE CHOOSE r \in eligible : \A other \in eligible : other.at <= r.at

\* find_closing_snapshot: the latest captured strictly before.  The unique key
\* leaves no two rows of one side and instant for the id to decide between.
FindClosing(side, before) ==
    LET eligible == {r \in Range(snapshots) : r.side = side /\ r.at < before}
    IN IF eligible = {} THEN NoRow
       ELSE CHOOSE r \in eligible : \A other \in eligible : other.at <= r.at

\* Seeded fault: the closing row's own instant is the cutoff of the other side.
FindOpposingBefore(closing, before) == FindClosing(Opposite(closing.side), closing.at)

\* find_opposing_closing_snapshot: the same cutoff, the other side.
FindOpposing(closing, before) == FindClosing(Opposite(closing.side), before)

Closing == IF cutoff = NoBet THEN NoRow ELSE FindClosing(Bet, cutoff)

\* Seeded fault: no unique key, so storing again inserts again.
InsertAlways(R) ==
    /\ Len(snapshots) + Cardinality(R) <= MaxRows
    /\ \E order \in SetToSeqs(R) : snapshots' = snapshots \o order

\* INSERT ... ON CONFLICT DO NOTHING of some rows, in one transaction.
Insert(R) ==
    LET new == R \ Range(snapshots)
    IN /\ Len(snapshots) + Cardinality(new) <= MaxRows
       /\ \E order \in SetToSeqs(new) : snapshots' = snapshots \o order
-----------------------------------------------------------------------------
\* A poll's response reaches the disk.  A book may quote one side only.
Capture ==
    /\ \A c \in captures : c.at # now
    /\ \E sides \in SidesQuoted : captures' = captures \cup {[at |-> now, sides |-> sides]}
    /\ UNCHANGED <<now, start, snapshots, cutoff>>

\* The poll, or any replay at any later time, stores a capture.
Store ==
    /\ \E c \in captures : Insert({[side |-> s, at |-> c.at] : s \in c.sides})
    /\ UNCHANGED <<now, start, captures, cutoff>>

\* add_snapshot: one side, now or with --captured-at.
AddSnapshot ==
    /\ HandEntry
    /\ \E side \in Sides, at \in Times : Insert({[side |-> side, at |-> at]})
    /\ UNCHANGED <<now, start, captures, cutoff>>

\* log_bet: whoever logs it gives the start that is then scheduled.
LogBet ==
    /\ cutoff = NoBet /\ cutoff' = start
    /\ UNCHANGED <<now, start, captures, snapshots>>

\* The game is rescheduled before it starts.
Move ==
    /\ now < start
    /\ \E d \in Moves : /\ start + d \in (now + 1)..MaxTime
                        /\ start' = start + d
    /\ UNCHANGED <<now, captures, snapshots, cutoff>>

Tick == /\ now < MaxTime /\ now' = now + 1
        /\ UNCHANGED <<start, captures, snapshots, cutoff>>

Next == Capture \/ Store \/ AddSnapshot \/ LogBet \/ Move \/ Tick

Spec == Init /\ [][Next]_vars
-----------------------------------------------------------------------------
TypeOK == /\ now \in Times /\ start \in Times
          /\ captures \subseteq [at : Times, sides : SUBSET Sides]
          /\ snapshots \in Seq(Row) /\ IsInjective(snapshots)
          /\ cutoff \in Times \cup {NoBet}

\* clv.py:65: "strictly before first pitch, so a live in-game price can never
\* be mistaken for a closing line", whenever the lookup is made.
NoLivePriceIsAClose == Closing # NoRow => Closing.at < start

\* A bet's closing line only ever moves forward in time: a replay or a
\* back-dated entry that arrives late never puts an older price in its place.
CloseOnlyAdvances ==
    [][Closing # NoRow => (Closing' # NoRow /\ Closing'.at >= Closing.at)]_vars

\* models.py:376: every price of one poll shares a timestamp, "which is also
\* what lets the opposing side of a market be found at the same instant": the
\* two closing prices are of one instant unless some price from then on up to
\* the cutoff was quoted, or entered by hand, for one side alone.
OpposingAtSameInstant ==
    Closing # NoRow =>
       LET eligible == {r \in Range(snapshots) : Closing.at <= r.at /\ r.at < cutoff}
           oneSided == \E r \in eligible :
                          [side |-> Opposite(r.side), at |-> r.at] \notin eligible
           opposing == FindOpposing(Closing, cutoff)
       IN oneSided \/ (opposing # NoRow /\ opposing.at = Closing.at)
=============================================================================
