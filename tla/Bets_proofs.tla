----------------------------- MODULE Bets_proofs -----------------------------
(***************************************************************************)
(* Proofs about Bets for every number of clerks and bets, every set of     *)
(* tickets and overrides, and every precision of the decimal context.      *)
(***************************************************************************)
EXTENDS Bets, TLAPS

\* What may stand in a payout: the amount given, or what ticket and verdict
\* come to.
RightAmount(amount, ticket, status) ==
    amount \in Overrides \cup {Payout(ticket.stake, ticket.odds, status)}

\* Stake and price are there from log_bet on, and a settled row pays what it
\* should.
RowsSound ==
    \A b \in BetIds :
       /\ bets[b].status # "none" => bets[b].ticket \in Tickets
       /\ bets[b].status \in Verdicts =>
             RightAmount(bets[b].payout, bets[b].ticket, bets[b].status)

\* A clerk inside settle_bet holds a bet that was logged.
HandsSound ==
    \A c \in Clerks : pc[c] # "idle" => /\ bet[c] \in BetIds
                                        /\ bets[bet[c]].status # "none"
                                        /\ verdict[c] \in Verdicts

\* The row an open transaction has written is one settlement, of one verdict.
UpdatesSound ==
    \A c \in Clerks : pc[c] = "flushed" =>
       /\ update[c].ticket = bets[bet[c]].ticket
       /\ update[c].status = verdict[c]
       /\ update[c].settled
       /\ update[c].payout \in Nat
       /\ RightAmount(update[c].payout, update[c].ticket, update[c].status)

\* A bet that two clerks hold is contested, and one that nobody contests is
\* still as its only clerk read it.
HandsTold ==
    /\ \A c, d \in Clerks : c # d /\ pc[c] # "idle" /\ pc[d] # "idle" /\ bet[c] = bet[d]
                               => bet[c] \in contested
    /\ \A c \in Clerks : pc[c] # "idle" /\ bet[c] \notin contested
                               => ~IsSettled(bets[bet[c]].status)

\* The inductive invariant.  SettlementCoherent alone is not inductive: what a
\* commit makes of a row is what the flush of that clerk wrote steps earlier.
IInv == /\ TypeOK
        /\ RowsSound
        /\ HandsSound
        /\ UpdatesSound
        /\ HandsTold
        /\ SettlementCoherent
-----------------------------------------------------------------------------
\* payout_cents returns a number of cents, whatever the verdict.
LEMMA PayoutType ==
  ASSUME NEW ticket \in Tickets, NEW status \in Verdicts
  PROVE  Payout(ticket.stake, ticket.odds, status) \in Nat
  BY BetsAssumption, WinAssumption DEF Payout, Verdicts, ReturnsStakeOnly

\* What a clerk writes into a logged bet is an amount that belongs there.
LEMMA AmountForm ==
  ASSUME IInv, NEW c \in Clerks, pc[c] # "idle"
  PROVE  /\ bets[bet[c]] \in Row /\ bets[bet[c]].ticket \in Tickets
         /\ Amount(c) \in Nat
         /\ RightAmount(Amount(c), bets[bet[c]].ticket, verdict[c])
<1>1. /\ bets[bet[c]] \in Row
      /\ bets[bet[c]].ticket \in Tickets
      /\ verdict[c] \in Verdicts
  BY DEF IInv, TypeOK, RowsSound, HandsSound
<1>2. Payout(bets[bet[c]].ticket.stake, bets[bet[c]].ticket.odds, verdict[c]) \in Nat
  BY <1>1, PayoutType
<1>3. paid[c] \in Overrides \cup {Computed} /\ Overrides \subseteq Nat
  BY BetsAssumption DEF IInv, TypeOK
<1>4. QED BY <1>1, <1>2, <1>3 DEF Amount, RightAmount

\* The row an UPDATE makes, field by field.
LEMMA SettledForm ==
  ASSUME IInv, NEW c \in Clerks, pc[c] # "idle", NEW amount \in Nat
  PROVE  /\ Settled(c, amount) \in Row
         /\ Settled(c, amount).ticket = bets[bet[c]].ticket
         /\ Settled(c, amount).status = verdict[c]
         /\ Settled(c, amount).settled = TRUE
         /\ Settled(c, amount).payout = amount
<1>1. bets[bet[c]] \in Row /\ verdict[c] \in Verdicts
  BY DEF IInv, TypeOK, HandsSound
<1>2. QED BY <1>1 DEF Settled, Row

\* An empty bets table is sound.
LEMMA InvInit == Init => IInv
<1> SUFFICES ASSUME Init PROVE IInv
  OBVIOUS
<1>1. Unlogged \in Row
  BY DEF Unlogged, Row
<1>2. TypeOK
  BY <1>1 DEF Init, TypeOK
<1>3. RowsSound /\ SettlementCoherent
  BY DEF Init, RowsSound, SettlementCoherent, Unlogged, Verdicts
<1>4. HandsSound /\ UpdatesSound /\ HandsTold
  BY DEF Init, HandsSound, UpdatesSound, HandsTold
<1>5. QED BY <1>2, <1>3, <1>4 DEF IInv

\* log_bet fills a row nobody holds.
LEMMA LogStep ==
  ASSUME IInv, NEW c \in Clerks, Log(c)
  PROVE  IInv'
<1>1. PICK b \in BetIds, ticket \in Tickets :
         /\ bets[b] = Unlogged
         /\ bets' = [bets EXCEPT ![b] =
               [Unlogged EXCEPT !.ticket = ticket, !.status = "open"]]
  BY DEF Log
<1> DEFINE new == [Unlogged EXCEPT !.ticket = ticket, !.status = "open"]
<1>2. /\ new \in Row /\ new.ticket = ticket /\ new.status = "open"
      /\ new.settled = FALSE /\ new.payout = Nothing
  BY DEF Unlogged, Row
<1>3. bets \in [BetIds -> Row]
  BY DEF IInv, TypeOK
<1>4. /\ bets' \in [BetIds -> Row] /\ bets'[b] = new
      /\ \A x \in BetIds \ {b} : bets'[x] = bets[x]
  BY <1>1, <1>2, <1>3
<1>5. UNCHANGED <<pc, bet, verdict, paid, update, contested>>
  BY DEF Log, locals
<1>6. \A d \in Clerks : pc[d] # "idle" => bet[d] # b
  BY <1>1 DEF IInv, HandsSound, Unlogged
<1>7. TypeOK'
  BY <1>4, <1>5 DEF IInv, TypeOK
<1>8. RowsSound' /\ SettlementCoherent'
  <2>1. new.ticket \in Tickets /\ new.status \notin Verdicts
    BY <1>2 DEF Verdicts
  <2> HIDE DEF new
  <2>2. RowsSound'
    BY <1>4, <2>1 DEF IInv, RowsSound, RightAmount, Verdicts
  <2>3. SettlementCoherent'
    BY <1>2, <1>4, <2>1 DEF IInv, SettlementCoherent
  <2>4. QED BY <2>2, <2>3
<1>9. ASSUME NEW d \in Clerks, pc[d] # "idle"
      PROVE  bet[d] \in BetIds /\ bets'[bet[d]] = bets[bet[d]]
  <2>1. bet[d] \in BetIds
    BY <1>9 DEF IInv, HandsSound
  <2>2. bet[d] # b
    BY <1>6, <1>9
  <2>3. QED BY <1>4, <2>1, <2>2
<1>10. HandsSound'
  BY <1>5, <1>9 DEF IInv, HandsSound
<1>11. UpdatesSound'
  BY <1>5, <1>9 DEF IInv, UpdatesSound, RightAmount
<1>12. HandsTold'
  BY <1>5, <1>9 DEF IInv, HandsTold
<1>13. QED BY <1>7, <1>8, <1>10, <1>11, <1>12 DEF IInv

\* settle_bet's read takes an open bet in hand; if another clerk has it, the bet
\* is contested from here on.
LEMMA ReadStep ==
  ASSUME IInv, NEW c \in Clerks, Read(c)
  PROVE  IInv'
<1>1. PICK b \in BetIds, v \in Verdicts, amount \in Overrides \cup {Computed} :
         /\ bets[b] # Unlogged /\ ~IsSettled(bets[b].status)
         /\ bet' = [bet EXCEPT ![c] = b]
         /\ verdict' = [verdict EXCEPT ![c] = v]
         /\ paid' = [paid EXCEPT ![c] = amount]
         /\ Contest(b)
  BY DEF Read
<1>2. /\ pc[c] = "idle" /\ pc' = [pc EXCEPT ![c] = "validated"]
      /\ bets' = bets /\ update' = update
  BY DEF Read, Goto
<1>3. TypeOK'
  <2>1. contested' \subseteq BetIds
    BY <1>1 DEF IInv, TypeOK, Contest
  <2>2. QED BY <1>1, <1>2, <2>1 DEF IInv, TypeOK
<1>4. RowsSound' /\ SettlementCoherent'
  BY <1>2 DEF IInv, RowsSound, SettlementCoherent, RightAmount
<1>5. \A d \in Clerks \ {c} : pc'[d] = pc[d] /\ bet'[d] = bet[d] /\ verdict'[d] = verdict[d]
  BY <1>1, <1>2 DEF IInv, TypeOK
<1>6. pc'[c] = "validated" /\ bet'[c] = b /\ verdict'[c] = v
  BY <1>1, <1>2 DEF IInv, TypeOK
<1>7. HandsSound'
  BY <1>1, <1>2, <1>5, <1>6 DEF IInv, HandsSound, IsSettled
<1>8. UpdatesSound'
  BY <1>2, <1>5, <1>6 DEF IInv, UpdatesSound, RightAmount
<1>9. contested \subseteq contested' /\ (InHand(b) => b \in contested')
  BY <1>1 DEF Contest
<1>10. HandsTold'
  <2>1. ASSUME NEW x \in Clerks, NEW d \in Clerks, x # d,
               pc'[x] # "idle", pc'[d] # "idle", bet'[x] = bet'[d]
        PROVE  bet'[x] \in contested'
    <3>1. CASE x = c \/ d = c
      BY <3>1, <2>1, <1>5, <1>6, <1>9 DEF InHand
    <3>2. CASE x # c /\ d # c
      BY <3>2, <2>1, <1>5, <1>9 DEF IInv, HandsTold
    <3>3. QED BY <3>1, <3>2
  <2>2. ASSUME NEW x \in Clerks, pc'[x] # "idle", bet'[x] \notin contested'
        PROVE  ~IsSettled(bets'[bet'[x]].status)
    BY <2>2, <1>1, <1>2, <1>5, <1>6, <1>9 DEF IInv, HandsTold
  <2>3. QED BY <2>1, <2>2 DEF HandsTold
<1>11. QED BY <1>3, <1>4, <1>7, <1>8, <1>10 DEF IInv

\* The flush writes a whole settlement into the transaction.
LEMMA FlushStep ==
  ASSUME IInv, NEW c \in Clerks, Flush(c)
  PROVE  IInv'
<1>1. /\ pc[c] = "validated" /\ pc' = [pc EXCEPT ![c] = "flushed"]
      /\ update' = [update EXCEPT ![c] = Settled(c, Amount(c))]
      /\ UNCHANGED <<bets, bet, verdict, paid, contested>>
  BY DEF Flush, Goto
<1>2. /\ bets[bet[c]].ticket \in Tickets
      /\ Amount(c) \in Nat
      /\ RightAmount(Amount(c), bets[bet[c]].ticket, verdict[c])
  BY <1>1, AmountForm
<1>3. /\ Settled(c, Amount(c)) \in Row
      /\ Settled(c, Amount(c)).ticket = bets[bet[c]].ticket
      /\ Settled(c, Amount(c)).status = verdict[c]
      /\ Settled(c, Amount(c)).settled = TRUE
      /\ Settled(c, Amount(c)).payout = Amount(c)
  BY <1>1, <1>2, SettledForm
<1>4. /\ pc'[c] = "flushed" /\ update'[c] = Settled(c, Amount(c))
      /\ \A d \in Clerks \ {c} : pc'[d] = pc[d] /\ update'[d] = update[d]
  BY <1>1 DEF IInv, TypeOK
<1>5. TypeOK'
  BY <1>1, <1>3 DEF IInv, TypeOK
<1>6. RowsSound' /\ SettlementCoherent'
  BY <1>1 DEF IInv, RowsSound, SettlementCoherent, RightAmount
<1>7. HandsSound' /\ HandsTold'
  BY <1>1, <1>4 DEF IInv, HandsSound, HandsTold
<1>8. UpdatesSound'
  <2>1. ASSUME NEW d \in Clerks, pc'[d] = "flushed", d # c
        PROVE  /\ update'[d].ticket = bets'[bet'[d]].ticket
               /\ update'[d].status = verdict'[d]
               /\ update'[d].settled
               /\ update'[d].payout \in Nat
               /\ RightAmount(update'[d].payout, update'[d].ticket, update'[d].status)
    BY <2>1, <1>1, <1>4 DEF IInv, UpdatesSound
  <2>2. /\ update'[c].ticket = bets'[bet'[c]].ticket
        /\ update'[c].status = verdict'[c]
        /\ update'[c].settled
        /\ update'[c].payout \in Nat
        /\ RightAmount(update'[c].payout, update'[c].ticket, update'[c].status)
    BY <1>1, <1>2, <1>3, <1>4
  <2>3. QED BY <2>1, <2>2 DEF UpdatesSound, RightAmount
<1>9. QED BY <1>5, <1>6, <1>7, <1>8 DEF IInv

\* What ends a clerk's transaction leaves the others as they are.
LEMMA LeaveForm ==
  ASSUME TypeOK, NEW c \in Clerks, Leave(c)
  PROVE  /\ pc' \in [Clerks -> {"idle", "validated", "flushed"}]
         /\ bet' \in [Clerks -> BetIds \cup {Nothing}]
         /\ update' \in [Clerks -> Row]
         /\ verdict' \in [Clerks -> {"open"} \cup Verdicts]
         /\ paid' \in [Clerks -> Overrides \cup {Computed}]
         /\ pc'[c] = "idle"
         /\ \A d \in Clerks \ {c} : /\ pc'[d] = pc[d] /\ bet'[d] = bet[d]
                                    /\ verdict'[d] = verdict[d]
                                    /\ update'[d] = update[d]
<1>1. Unlogged \in Row
  BY DEF Unlogged, Row
<1>2. QED BY <1>1 DEF TypeOK, Leave

\* The commit puts the flushed row in the place of whatever was there.
LEMMA CommitStep ==
  ASSUME IInv, NEW c \in Clerks, Commit(c)
  PROVE  IInv'
<1>1. /\ pc[c] = "flushed" /\ Leave(c)
      /\ bets' = [bets EXCEPT ![bet[c]] = update[c]] /\ contested' = contested
  BY DEF Commit
<1>2. /\ bet[c] \in BetIds /\ bets[bet[c]].status # "none"
      /\ verdict[c] \in Verdicts /\ bets[bet[c]].ticket \in Tickets
  BY <1>1 DEF IInv, HandsSound, RowsSound
<1>3. /\ update[c] \in Row /\ update[c].ticket = bets[bet[c]].ticket
      /\ update[c].status = verdict[c] /\ update[c].settled = TRUE
      /\ update[c].payout \in Nat
      /\ RightAmount(update[c].payout, update[c].ticket, update[c].status)
  BY <1>1 DEF IInv, UpdatesSound, TypeOK, Row
<1>4. /\ bets' \in [BetIds -> Row] /\ bets'[bet[c]] = update[c]
      /\ \A b \in BetIds \ {bet[c]} : bets'[b] = bets[b]
  BY <1>1, <1>2, <1>3 DEF IInv, TypeOK
<1>5. TypeOK
  BY DEF IInv
<1>6. TypeOK'
  BY <1>1, <1>4, <1>5, LeaveForm DEF TypeOK
<1>7. RowsSound'
  BY <1>2, <1>3, <1>4 DEF IInv, RowsSound, RightAmount
<1>8. SettlementCoherent'
  BY <1>2, <1>3, <1>4, BetsAssumption DEF IInv, SettlementCoherent
<1>9. \A b \in BetIds : bets'[b].ticket = bets[b].ticket
  BY <1>3, <1>4
<1>10. /\ pc'[c] = "idle"
       /\ \A d \in Clerks \ {c} : /\ pc'[d] = pc[d] /\ bet'[d] = bet[d]
                                  /\ verdict'[d] = verdict[d]
                                  /\ update'[d] = update[d]
  BY <1>1, <1>5, LeaveForm
<1>11. HandsSound'
  <2>1. verdict[c] # "none"
    BY <1>2 DEF Verdicts
  <2>2. QED BY <1>2, <1>3, <1>4, <1>10, <2>1 DEF IInv, HandsSound
<1>12. UpdatesSound'
  <2>1. ASSUME NEW d \in Clerks, pc'[d] = "flushed"
        PROVE  /\ d # c /\ pc[d] = "flushed" /\ bet[d] \in BetIds
               /\ update'[d].ticket = bets'[bet'[d]].ticket
    BY <2>1, <1>9, <1>10 DEF IInv, HandsSound, UpdatesSound
  <2>2. QED BY <2>1, <1>10 DEF IInv, UpdatesSound, RightAmount
<1>13. HandsTold'
  BY <1>1, <1>2, <1>4, <1>10 DEF IInv, HandsTold, HandsSound
<1>14. QED BY <1>6, <1>7, <1>8, <1>11, <1>12, <1>13 DEF IInv

\* A rollback changes no row.
LEMMA AbortStep ==
  ASSUME IInv, NEW c \in Clerks, Abort(c)
  PROVE  IInv'
<1>1. Leave(c) /\ UNCHANGED <<bets, contested>> /\ TypeOK
  BY DEF Abort, IInv
<1>2. TypeOK'
  BY <1>1, LeaveForm DEF TypeOK
<1>3. RowsSound' /\ SettlementCoherent'
  BY <1>1 DEF IInv, RowsSound, SettlementCoherent, RightAmount
<1>4. HandsSound' /\ UpdatesSound' /\ HandsTold'
  BY <1>1, LeaveForm DEF IInv, HandsSound, UpdatesSound, HandsTold, RightAmount
<1>5. QED BY <1>2, <1>3, <1>4 DEF IInv

\* Every step of the command line keeps the inductive invariant.
LEMMA InvStep == IInv /\ [Next]_vars => IInv'
<1>1. ASSUME IInv, UNCHANGED vars PROVE IInv'
  BY <1>1 DEF vars, locals, IInv, TypeOK, RowsSound, HandsSound, UpdatesSound,
     HandsTold, SettlementCoherent, RightAmount
<1>2. QED BY <1>1, LogStep, ReadStep, FlushStep, CommitStep, AbortStep DEF Next
-----------------------------------------------------------------------------
\* The inductive invariant holds of every behaviour.
THEOREM Inductive == Spec => []IInv
  BY InvInit, InvStep, PTL DEF Spec

\* Rows, transactions and the history stay in their types: in particular a
\* payout is a number of cents or NULL, whatever was settled with whatever
\* override.
THEOREM TypeCorrect == Spec => []TypeOK
<1>1. IInv => TypeOK
  BY DEF IInv
<1>2. QED BY <1>1, Inductive, PTL

\* models.py:423: status, settled_at and payout say the same of every bet, also
\* after clerks have overwritten each other's settlement.
THEOREM Coherent == Spec => []SettlementCoherent
<1>1. IInv => SettlementCoherent
  BY DEF IInv
<1>2. QED BY <1>1, Inductive, PTL

\* cli.py:325: a settled bet that no two clerks had in hand at once stays as it
\* is.
THEOREM NotSettledAgain == Spec => SettledOnce
<1> DEFINE Once == \A b \in BetIds \ contested :
                      bets[b].status \in Verdicts => bets'[b] = bets[b]
<1>1. IInv /\ [Next]_vars => [Once]_vars
  <2>1. ASSUME IInv, NEW c \in Clerks, Log(c) PROVE Once
    BY <2>1 DEF Log, Unlogged, Verdicts, IInv, TypeOK
  <2>2. ASSUME IInv, NEW c \in Clerks, Commit(c) PROVE Once
    <3>1. bet[c] \in contested \/ bets[bet[c]].status \notin Verdicts
      BY <2>2 DEF Commit, IInv, HandsTold, IsSettled, Verdicts
    <3>2. QED BY <2>2, <3>1 DEF Commit, IInv, TypeOK
  <2>3. ASSUME NEW c \in Clerks, Read(c) \/ Flush(c) \/ Abort(c) PROVE Once
    BY <2>3 DEF Read, Flush, Abort
  <2>4. QED BY <2>1, <2>2, <2>3 DEF Next
<1>2. QED BY <1>1, Inductive, PTL DEF Spec, SettledOnce

\* The total returned by a win is within half a cent of the exact one.
ExactWin(stake, odds) ==
    LET num == IF odds > 0 THEN 100 + odds ELSE 100 - odds
        den == IF odds > 0 THEN 100 ELSE 0 - odds
        off == 2 * (Win(stake, odds) * den - stake * num)
    IN off <= den /\ -den <= off

\* settle.py:3 and :8: if the two roundings stay within half a cent for every
\* ticket (which is arithmetic of the tickets alone, and is evaluated by TLC on
\* those of the run), then no order of reads, flushes, commits and rollbacks
\* leaves the amount of one settlement under the status of another.
THEOREM AmountBelongsToStatus ==
  ASSUME \A ticket \in Tickets : ExactWin(ticket.stake, ticket.odds)
  PROVE  Spec => []PayoutIsExact
<1>1. IInv => PayoutIsExact
  <2> SUFFICES ASSUME IInv, NEW b \in BetIds, bets[b].status \in Verdicts
               PROVE  LET stake == bets[b].ticket.stake
                          odds == bets[b].ticket.odds
                          num == IF odds > 0 THEN 100 + odds ELSE 100 - odds
                          den == IF odds > 0 THEN 100 ELSE 0 - odds
                          off == 2 * (bets[b].payout * den - stake * num)
                      IN \/ bets[b].payout \in Overrides
                         \/ bets[b].status = "lost" /\ bets[b].payout = 0
                         \/ ReturnsStakeOnly(bets[b].status) /\ bets[b].payout = stake
                         \/ bets[b].status = "won" /\ off <= den /\ -den <= off
    BY DEF PayoutIsExact
  <2>1. /\ bets[b].ticket \in Tickets
        /\ RightAmount(bets[b].payout, bets[b].ticket, bets[b].status)
    BY DEF IInv, RowsSound, Verdicts
  <2>2. CASE bets[b].payout \in Overrides
    BY <2>2
  <2>3. CASE bets[b].payout = Payout(bets[b].ticket.stake, bets[b].ticket.odds,
                                     bets[b].status)
    <3>1. CASE bets[b].status = "won"
      <4>1. bets[b].payout = Win(bets[b].ticket.stake, bets[b].ticket.odds)
        BY <2>3, <3>1 DEF Payout, ReturnsStakeOnly
      <4>2. QED BY <2>1, <3>1, <4>1 DEF ExactWin
    <3>2. CASE bets[b].status # "won"
      BY <2>3, <3>2 DEF Payout, ReturnsStakeOnly, Verdicts
    <3>3. QED BY <3>1, <3>2
  <2>4. QED BY <2>1, <2>2, <2>3 DEF RightAmount
<1>2. QED BY <1>1, Inductive, PTL
=============================================================================
