------------------------- MODULE ClosingLine_proofs -------------------------
(***************************************************************************)
(* Proofs about ClosingLine for every horizon, number of rows and start,   *)
(* every set of quoted sides, with and without entries by hand.            *)
(***************************************************************************)
EXTENDS ClosingLine, WellFoundedInduction, FiniteSetTheorems, TLAPS

\* A bet that is logged has the start that was scheduled then, and while games
\* only move to later that is no later than the real one.
CutoffIsEarly == cutoff # NoBet => cutoff <= start

\* The rows a lookup of find_closing_snapshot chooses from.
Eligible(side, before) == {r \in Range(snapshots) : r.side = side /\ r.at < before}

\* The closing line is the latest of these, if there is any.
CloseIsLatest ==
    cutoff # NoBet =>
       /\ Eligible(Bet, cutoff) \subseteq Row
       /\ Eligible(Bet, cutoff) # {} =>
             /\ Closing # NoRow /\ Closing \in Eligible(Bet, cutoff)
             /\ \A r \in Eligible(Bet, cutoff) : r.at <= Closing.at
-----------------------------------------------------------------------------
\* Less-than on the naturals is well-founded, as a set of pairs.
LEMMA NatPairs == IsWellFoundedOn({ss \in Nat \X Nat : ss[1] < ss[2]}, Nat)
<1>1. OpToRel(<, Nat) = {ss \in Nat \X Nat : ss[1] < ss[2]}
  BY DEF OpToRel
<1>2. QED BY <1>1, NatLessThanWellFounded

\* Of some rows with times up to MaxTime, one is the latest.
LEMMA LatestExists ==
  ASSUME NEW S, S \subseteq Row, S # {}
  PROVE  \E r \in S : \A other \in S : other.at <= r.at
<1> DEFINE R == {ss \in Nat \X Nat : ss[1] < ss[2]}
           T == {MaxTime - r.at : r \in S}
<1>1. \A r \in S : r.at \in 0..MaxTime /\ MaxTime - r.at \in Nat
  BY ClosingLineAssumption DEF Row, Times
<1>2. T \subseteq Nat /\ T # {}
  BY <1>1
<1>3. IsWellFoundedOn(R, Nat)
  BY NatPairs
<1> HIDE DEF R, T
<1>4. PICK t \in T : \A u \in T : ~(<<u, t>> \in R)
  BY <1>2, <1>3, WFMin
<1>5. PICK r \in S : t = MaxTime - r.at
  BY DEF T
<1>6. ASSUME NEW other \in S PROVE other.at <= r.at
  <2>1. <<MaxTime - other.at, MaxTime - r.at>> \notin R
    BY <1>4, <1>5 DEF T
  <2>2. ~(MaxTime - other.at < MaxTime - r.at)
    BY <1>1, <2>1, SMT DEF R
  <2>3. QED BY <1>1, <2>2, ClosingLineAssumption
<1>7. QED BY <1>6

\* find_closing_snapshot returns None, or the latest of the rows before.
LEMMA FindForm ==
  ASSUME TypeOK, NEW side, NEW before
  PROVE  /\ Eligible(side, before) \subseteq Row
         /\ Eligible(side, before) = {} <=> FindClosing(side, before) = NoRow
         /\ Eligible(side, before) # {} =>
               /\ FindClosing(side, before) \in Eligible(side, before)
               /\ \A r \in Eligible(side, before) : r.at <= FindClosing(side, before).at
<1>1. Range(snapshots) \subseteq Row
  BY DEF TypeOK, Range
<1>2. Eligible(side, before) \subseteq Row
  BY <1>1 DEF Eligible
<1>3. CASE Eligible(side, before) = {}
  BY <1>2, <1>3 DEF FindClosing, Eligible
<1>4. CASE Eligible(side, before) # {}
  <2>1. PICK r \in Eligible(side, before) :
           \A other \in Eligible(side, before) : other.at <= r.at
    BY <1>2, <1>4, LatestExists
  <2>2. FindClosing(side, before) =
           CHOOSE x \in Eligible(side, before) :
              \A other \in Eligible(side, before) : other.at <= x.at
    BY <1>4 DEF FindClosing, Eligible
  <2>3. /\ FindClosing(side, before) \in Eligible(side, before)
        /\ \A other \in Eligible(side, before) : other.at <= FindClosing(side, before).at
    BY <2>1, <2>2
  <2>4. FindClosing(side, before) # NoRow
    BY <1>2, <2>3, ClosingLineAssumption DEF Row
  <2>5. QED BY <1>2, <1>4, <2>3, <2>4
<1>5. QED BY <1>3, <1>4

\* The closing line of a logged bet is the latest row before its cutoff.
LEMMA CloseForm == TypeOK => CloseIsLatest
  BY FindForm DEF CloseIsLatest, Closing

\* At most two rows are inserted at once.
LEMMA FewRows ==
  ASSUME NEW at, NEW R, R \subseteq {[side |-> s, at |-> at] : s \in Sides}
  PROVE  IsFiniteSet(R)
<1> DEFINE h == [side |-> "home", at |-> at]
           a == [side |-> "away", at |-> at]
<1>1. R \subseteq {h} \cup {a}
  BY DEF Sides
<1>2. IsFiniteSet({h} \cup {a})
  BY FS_Singleton, FS_AddElement
<1>3. QED BY <1>1, <1>2, FS_Subset

\* INSERT ... ON CONFLICT DO NOTHING appends rows of keys that were not there.
LEMMA InsertForm ==
  ASSUME TypeOK, NEW R, R \subseteq Row, IsFiniteSet(R), Insert(R)
  PROVE  /\ (snapshots \in Seq(Row) /\ IsInjective(snapshots))'
         /\ Range(snapshots) \subseteq Range(snapshots')
<1> DEFINE new == R \ Range(snapshots)
           N == Len(snapshots)
           K == Cardinality(new)
<1>1. IsFiniteSet(new) /\ new \subseteq Row
  BY FS_Difference
<1>2. K \in Nat
  BY <1>1, FS_CardinalityType
<1>3. snapshots \in Seq(Row) /\ N \in Nat /\ DOMAIN snapshots = 1..N
  BY DEF TypeOK
<1>4. \A i, j \in 1..N : snapshots[i] = snapshots[j] => i = j
  BY <1>3 DEF TypeOK, IsInjective
<1>5. PICK order \in SetToSeqs(new) : snapshots' = snapshots \o order
  BY DEF Insert
<1> HIDE DEF K
<1>6. /\ order \in [1..K -> new]
      /\ \A i, j \in 1..K : i # j => order[i] # order[j]
  BY <1>5 DEF SetToSeqs, K
<1>7. order \in Seq(Row) /\ Len(order) = K
  BY <1>1, <1>2, <1>6
<1>8. /\ snapshots' \in Seq(Row) /\ Len(snapshots') = N + K
      /\ \A i \in 1..N + K :
            snapshots'[i] = IF i <= N THEN snapshots[i] ELSE order[i - N]
  <2> DEFINE both == snapshots \o order
  <2>1. /\ both \in Seq(Row) /\ Len(both) = Len(snapshots) + Len(order)
        /\ \A i \in 1..Len(snapshots) + Len(order) :
              both[i] = IF i <= Len(snapshots) THEN snapshots[i]
                        ELSE order[i - Len(snapshots)]
    BY <1>3, <1>7
  <2> HIDE DEF both
  <2>2. snapshots' = both
    BY <1>5 DEF both
  <2>3. QED BY <1>7, <2>1, <2>2
<1>9. \A i \in 1..N : i \in 1..N + K /\ snapshots'[i] = snapshots[i]
  BY <1>2, <1>3, <1>8
<1>10. ASSUME NEW i \in N + 1 .. N + K
       PROVE  i - N \in 1..K /\ snapshots'[i] = order[i - N] /\ snapshots'[i] \in new
  <2>1. i - N \in 1..K /\ i \in 1..N + K /\ ~(i <= N)
    BY <1>2, <1>3
  <2>2. snapshots'[i] = order[i - N]
    BY <1>8, <2>1
  <2>3. QED BY <1>6, <2>1, <2>2
<1>11. \A i \in 1..N : snapshots'[i] \in Range(snapshots)
  BY <1>3, <1>9 DEF Range
<1>12. ASSUME NEW i \in 1..N + K, NEW j \in 1..N + K, snapshots'[i] = snapshots'[j]
       PROVE  i = j
  <2>1. \A x \in 1..N + K : x \in 1..N \/ x \in N + 1 .. N + K
    BY <1>2, <1>3
  <2>2. CASE i \in 1..N /\ j \in 1..N
    BY <1>4, <1>9, <1>12, <2>2
  <2>3. CASE i \in N + 1 .. N + K /\ j \in N + 1 .. N + K
    <3>1. i - N = j - N
      BY <1>6, <1>10, <1>12, <2>3
    <3>2. QED BY <1>3, <3>1
  <2>4. CASE i \in 1..N /\ j \in N + 1 .. N + K
    BY <1>10, <1>11, <1>12, <2>4
  <2>5. CASE i \in N + 1 .. N + K /\ j \in 1..N
    BY <1>10, <1>11, <1>12, <2>5
  <2>6. QED BY <2>1, <2>2, <2>3, <2>4, <2>5
<1>13. IsInjective(snapshots')
  BY <1>8, <1>12 DEF IsInjective
<1>14. Range(snapshots) \subseteq Range(snapshots')
  <2>1. DOMAIN snapshots' = 1..N + K
    BY <1>8
  <2>2. QED BY <1>3, <1>9, <2>1 DEF Range
<1>15. QED BY <1>8, <1>13, <1>14

\* The table keeps its rows, and no two of one side and instant.
LEMMA TableStep ==
  ASSUME TypeOK, [Next]_vars
  PROVE  /\ (snapshots \in Seq(Row) /\ IsInjective(snapshots))'
         /\ Range(snapshots) \subseteq Range(snapshots')
<1>1. CASE Store
  <2>1. PICK c \in captures : Insert({[side |-> s, at |-> c.at] : s \in c.sides})
    BY <1>1 DEF Store
  <2> DEFINE R == {[side |-> s, at |-> c.at] : s \in c.sides}
  <2>2. c.at \in Times /\ c.sides \subseteq Sides
    BY DEF TypeOK
  <2>3. R \subseteq Row /\ IsFiniteSet(R)
    BY <2>2, FewRows DEF Row
  <2> HIDE DEF R
  <2>4. Insert(R)
    BY <2>1 DEF R
  <2>5. QED BY <2>3, <2>4, InsertForm
<1>2. CASE AddSnapshot
  <2>1. PICK side \in Sides, at \in Times : Insert({[side |-> side, at |-> at]})
    BY <1>2 DEF AddSnapshot
  <2> DEFINE R == {[side |-> side, at |-> at]}
  <2>2. R \subseteq Row
    BY DEF Row
  <2>3. IsFiniteSet(R)
    BY FS_Singleton
  <2> HIDE DEF R
  <2>4. Insert(R)
    BY <2>1 DEF R
  <2>5. QED BY <2>2, <2>3, <2>4, InsertForm
<1>3. CASE UNCHANGED snapshots
  BY <1>3 DEF TypeOK
<1>4. QED BY <1>1, <1>2, <1>3 DEF Next, vars, Capture, LogBet, Move, Tick

\* Every variable keeps its type in a step.
LEMMA TypeStep == TypeOK /\ [Next]_vars => TypeOK'
<1> SUFFICES ASSUME TypeOK, [Next]_vars PROVE TypeOK'
  OBVIOUS
<1>1. (snapshots \in Seq(Row) /\ IsInjective(snapshots))'
  BY TableStep
<1>2. now' \in Times /\ start' \in Times
  BY ClosingLineAssumption
     DEF TypeOK, Next, vars, Capture, Store, AddSnapshot, LogBet, Move, Tick, Times
<1>3. captures' \subseteq [at : Times, sides : SUBSET Sides]
  BY ClosingLineAssumption
     DEF TypeOK, Next, vars, Capture, Store, AddSnapshot, LogBet, Move, Tick
<1>4. cutoff' \in Times \cup {NoBet}
  BY DEF TypeOK, Next, vars, Capture, Store, AddSnapshot, LogBet, Move, Tick
<1>5. QED BY <1>1, <1>2, <1>3, <1>4 DEF TypeOK

\* Before the first capture every variable has its type.
LEMMA TypeInit == Init => TypeOK
  BY ClosingLineAssumption DEF Init, TypeOK, Times, IsInjective

\* A logged bet keeps its start.
LEMMA CutoffKept ==
  ASSUME TypeOK, [Next]_vars, cutoff # NoBet
  PROVE  cutoff' = cutoff
  BY DEF Next, vars, Capture, Store, AddSnapshot, LogBet, Move, Tick
-----------------------------------------------------------------------------
\* Every variable has its type; in particular no key is twice in the table.
THEOREM TypeCorrect == Spec => []TypeOK
  BY TypeInit, TypeStep, PTL DEF Spec

\* clv.py:65: as long as a start is only ever moved to later, a bet's closing
\* line was captured before the real first pitch, whenever it is looked up and
\* whatever is inserted in whatever order.  Moved to earlier, it need not be: the
\* bet keeps the start it was logged with.
THEOREM CloseIsNotLive ==
  ASSUME Moves \subseteq Nat
  PROVE  Spec => []NoLivePriceIsAClose
<1> DEFINE IInv == TypeOK /\ CutoffIsEarly
<1>1. Init => IInv
  BY TypeInit DEF Init, CutoffIsEarly
<1>2. IInv /\ [Next]_vars => IInv'
  <2> SUFFICES ASSUME TypeOK, CutoffIsEarly, [Next]_vars PROVE CutoffIsEarly'
    BY TypeStep
  <2>1. start \in Nat /\ start' \in Nat /\ start <= start'
    BY DEF TypeOK, Next, vars, Capture, Store, AddSnapshot, LogBet, Move, Tick, Times
  <2>2. cutoff' = cutoff \/ cutoff' = start
    BY DEF Next, vars, Capture, Store, AddSnapshot, LogBet, Move, Tick
  <2>3. cutoff # NoBet => cutoff \in Nat
    BY DEF TypeOK, Times
  <2>4. QED BY <2>1, <2>2, <2>3 DEF CutoffIsEarly
<1>3. IInv => NoLivePriceIsAClose
  <2> SUFFICES ASSUME TypeOK, CutoffIsEarly, Closing # NoRow PROVE Closing.at < start
    BY DEF NoLivePriceIsAClose
  <2>1. cutoff # NoBet /\ Closing = FindClosing(Bet, cutoff)
    BY DEF Closing
  <2>2. Closing \in Eligible(Bet, cutoff) /\ Eligible(Bet, cutoff) \subseteq Row
    BY <2>1, FindForm
  <2>3. Closing.at < cutoff /\ Closing.at \in Times
    BY <2>2 DEF Eligible, Row
  <2>4. cutoff \in Times /\ start \in Times /\ cutoff <= start
    BY <2>1 DEF TypeOK, CutoffIsEarly
  <2>5. QED BY <2>3, <2>4 DEF Times
<1>4. QED BY <1>1, <1>2, <1>3, PTL DEF Spec

\* A replay or a back-dated entry that arrives late never puts an older price in
\* the place of a bet's closing line, nor takes it away.
THEOREM CloseAdvances == Spec => CloseOnlyAdvances
<1>1. ASSUME TypeOK, TypeOK', [Next]_vars, Closing # NoRow
      PROVE  Closing' # NoRow /\ Closing'.at >= Closing.at
  <2>1. cutoff # NoBet /\ Closing = FindClosing(Bet, cutoff)
    BY <1>1 DEF Closing
  <2>2. cutoff' = cutoff
    BY <1>1, <2>1, CutoffKept
  <2>3. Eligible(Bet, cutoff) \subseteq Eligible(Bet, cutoff)'
    BY <1>1, <2>2, TableStep DEF Eligible, Bet
  <2>4. Closing \in Eligible(Bet, cutoff)
    BY <1>1, <2>1, FindForm
  <2>5. CloseIsLatest'
    BY <1>1, CloseForm, PTL
  <2>6. /\ Eligible(Bet, cutoff)' \subseteq Row
        /\ Closing' # NoRow /\ Closing' \in Eligible(Bet, cutoff)'
        /\ \A r \in Eligible(Bet, cutoff)' : r.at <= Closing'.at
    BY <2>1, <2>2, <2>3, <2>4, <2>5 DEF CloseIsLatest
  <2>7. Closing.at <= Closing'.at /\ Closing.at \in Times /\ Closing'.at \in Times
    BY <2>3, <2>4, <2>6 DEF Row
  <2>8. QED BY <2>6, <2>7 DEF Times
<1>2. QED BY <1>1, TypeCorrect, PTL DEF Spec, CloseOnlyAdvances

\* models.py:376: the opposing closing price is of the instant of the closing
\* one, unless from then on up to the cutoff some price was recorded for one side
\* alone: a market that is always quoted whole is always devigged within one poll.
THEOREM OpposingIsSimultaneous == Spec => []OpposingAtSameInstant
<1>1. TypeOK => OpposingAtSameInstant
  <2> DEFINE eligible == {r \in Range(snapshots) : Closing.at <= r.at /\ r.at < cutoff}
             opposing == FindOpposing(Closing, cutoff)
  <2> SUFFICES ASSUME TypeOK, Closing # NoRow,
                      \A r \in eligible : [side |-> Opposite(r.side), at |-> r.at] \in eligible
               PROVE  opposing # NoRow /\ opposing.at = Closing.at
    BY DEF OpposingAtSameInstant
  <2>1. cutoff # NoBet /\ Closing = FindClosing(Bet, cutoff)
    BY DEF Closing
  <2>2. /\ Closing \in Eligible(Bet, cutoff) /\ Eligible(Bet, cutoff) \subseteq Row
        /\ \A r \in Eligible(Bet, cutoff) : r.at <= Closing.at
    BY <2>1, FindForm
  <2>3. /\ Closing \in Row /\ Closing.side = "home" /\ Closing.at < cutoff
        /\ Closing \in Range(snapshots)
    BY <2>2 DEF Eligible, Bet
  <2>4. cutoff \in Int /\ \A r \in Row : r.at \in Int
    BY <2>1, ClosingLineAssumption DEF TypeOK, Row, Times
  <2>5. Opposite("home") = "away" /\ Opposite("away") = "home"
    BY DEF Opposite, Sides
  <2>6. Closing \in eligible
    BY <2>3, <2>4
  <2>7. [side |-> "away", at |-> Closing.at] \in eligible
    BY <2>3, <2>5, <2>6
  <2> HIDE DEF eligible
  <2>8. [side |-> "away", at |-> Closing.at] \in Eligible("away", cutoff)
    BY <2>7, <2>3 DEF eligible, Eligible
  <2>9. opposing = FindClosing("away", cutoff)
    BY <2>3, <2>5 DEF FindOpposing
  <2> HIDE DEF opposing
  <2>10. /\ opposing # NoRow /\ opposing \in Eligible("away", cutoff)
         /\ Closing.at <= opposing.at /\ Eligible("away", cutoff) \subseteq Row
    BY <2>8, <2>9, FindForm
  <2>11. opposing \in eligible /\ opposing.side = "away"
    BY <2>10 DEF eligible, Eligible
  <2>12. [side |-> "home", at |-> opposing.at] \in eligible
    BY <2>5, <2>11
  <2>13. [side |-> "home", at |-> opposing.at] \in Eligible("home", cutoff)
    BY <2>12 DEF eligible, Eligible
  <2>14. opposing.at <= Closing.at
    BY <2>2, <2>13 DEF Bet
  <2>15. QED BY <2>3, <2>4, <2>10, <2>14
<1>2. QED BY <1>1, TypeCorrect, PTL
=============================================================================
