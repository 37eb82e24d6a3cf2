-------------------------------- MODULE Bets --------------------------------
(***************************************************************************)
(* The bets table under src/betting/cli.py: log_bet and settle_bet, run by *)
(* several clerks at once.  settle_bet reads and validates the bet, then   *)
(* opens its ingest run, whose commits end the transaction it was read in, *)
(* and writes later, from the copy it kept (expire_on_commit=False).  An   *)
(* UPDATE holds the row until its transaction ends.                        *)
(*                                                                         *)
(* A ticket is what log_bet writes once and for all: stake and price.      *)
(* Overrides are the amounts given as --payout.                            *)
(***************************************************************************)
EXTENDS Settle

CONSTANTS Clerks,        \* processes running the CLI
          BetIds,        \* primary keys of bets (a bound)
          Tickets,       \* stakes and prices that are bet
          Overrides,     \* amounts passed as --payout
          Computed,      \* --payout not given
          Nothing,       \* SQL NULL; no bet in hand
          Faults         \* "raise", "crash"

ASSUME BetsAssumption ==
    /\ Tickets \subseteq [stake : Nat \ {0}, odds : {o \in Int : o >= 100 \/ o <= -100}]
    /\ Overrides \subseteq Nat \ {0} /\ Computed \notin Nat
    /\ Nothing \notin Nat /\ Nothing \notin BetIds /\ Nothing \notin Tickets
    /\ Faults \subseteq {"raise", "crash"}

\* The decimal context is wide enough for these tickets (28 digits are, for every
\* 32-bit stake and price), so that what a win comes to is a number of cents.
ASSUME WinAssumption == \A ticket \in Tickets : Win(ticket.stake, ticket.odds) \in Nat

Verdicts == {"won", "lost", "push", "void", "postponed"}

VARIABLES bets,          \* committed rows
          pc, bet,       \* each clerk's position and bet
          verdict,       \* the status asked for
          paid,          \* --payout
          update,        \* the row as the open transaction's UPDATE leaves it
          contested      \* history: bets two clerks have had in hand at once

locals == <<pc, bet, verdict, paid, update>>
vars == <<bets, locals, contested>>

Unlogged == [ticket |-> Nothing, status |-> "none", settled |-> FALSE, payout |-> Nothing]

Row == [ticket : Tickets \cup {Nothing}, status : {"none", "open"} \cup Verdicts,
        settled : BOOLEAN, payout : Nat \cup {Nothing}]

Init == /\ bets = [b \in BetIds |-> Unlogged]
        /\ pc = [c \in Clerks |-> "idle"]
        /\ bet = [c \in Clerks |-> Nothing]
        /\ verdict = [c \in Clerks |-> "open"]
        /\ paid = [c \in Clerks |-> Computed]
        /\ update = [c \in Clerks |-> Unlogged]
        /\ contested = {}

Goto(c, from, to) == pc[c] = from /\ pc' = [pc EXCEPT ![c] = to]

Leave(c) == /\ pc' = [pc EXCEPT ![c] = "idle"]
            /\ bet' = [bet EXCEPT ![c] = Nothing]
            /\ verdict' = [verdict EXCEPT ![c] = "open"]
            /\ paid' = [paid EXCEPT ![c] = Computed]
            /\ update' = [update EXCEPT ![c] = Unlogged]

\* BetStatus.is_settled.
IsSettled(status) == status # "open"
-----------------------------------------------------------------------------
\* log_bet: its row is visible from the commit on.
Log(c) ==
    /\ pc[c] = "idle"
    /\ \E b \in BetIds, ticket \in Tickets :
         /\ bets[b] = Unlogged
         /\ bets' = [bets EXCEPT ![b] =
               [Unlogged EXCEPT !.ticket = ticket, !.status = "open"]]
    /\ UNCHANGED <<locals, contested>>

InHand(b) == \E d \in Clerks : pc[d] # "idle" /\ bet[d] = b

Contest(b) == contested' = IF InHand(b) THEN contested \cup {b} ELSE contested

\* Seeded fault: only the verdicts that move money count as settled.
ReadForgetsPostponed(c) ==
    /\ Goto(c, "idle", "validated")
    /\ \E b \in BetIds, v \in Verdicts, amount \in Overrides \cup {Computed} :
         /\ bets[b] # Unlogged /\ bets[b].status \in {"open", "postponed"}
         /\ bet' = [bet EXCEPT ![c] = b]
         /\ verdict' = [verdict EXCEPT ![c] = v]
         /\ paid' = [paid EXCEPT ![c] = amount]
         /\ Contest(b)
    /\ UNCHANGED <<bets, update>>

\* settle_bet reads the bet and refuses one that is settled; then ingest_run
\* commits, and what was read is no longer current.
Read(c) ==
    /\ Goto(c, "idle", "validated")
    /\ \E b \in BetIds, v \in Verdicts, amount \in Overrides \cup {Computed} :
         /\ bets[b] # Unlogged /\ ~IsSettled(bets[b].status)
         /\ bet' = [bet EXCEPT ![c] = b]
         /\ verdict' = [verdict EXCEPT ![c] = v]
         /\ paid' = [paid EXCEPT ![c] = amount]
         /\ Contest(b)
    /\ UNCHANGED <<bets, update>>

LockedByOther(b, c) == \E d \in Clerks \ {c} : pc[d] = "flushed" /\ bet[d] = b

\* The row an UPDATE by id makes of what is committed by now.
Settled(c, amount) ==
    [bets[bet[c]] EXCEPT !.status = verdict[c], !.settled = TRUE, !.payout = amount]

Amount(c) == LET ticket == bets[bet[c]].ticket
             IN IF paid[c] = Computed
                THEN Payout(ticket.stake, ticket.odds, verdict[c]) ELSE paid[c]

\* Seeded fault: a payout is written only for the verdicts that pay a profit or
\* nothing; a returned stake is left to the reader.
FlushOmitsStake(c) ==
    /\ Goto(c, "validated", "flushed")
    /\ ~LockedByOther(bet[c], c)
    /\ update' = [update EXCEPT ![c] =
          Settled(c, IF ReturnsStakeOnly(verdict[c]) THEN Nothing ELSE Amount(c))]
    /\ UNCHANGED <<bets, bet, verdict, paid, contested>>

\* The three assignments and the flush that closes the run.  All three columns
\* differ from the open copy in hand, so the UPDATE sets all three, whatever
\* the row holds by now: its WHERE clause names the id alone.  Stake and price
\* are never rewritten, so the copy's are the row's.
Flush(c) ==
    /\ Goto(c, "validated", "flushed")
    /\ ~LockedByOther(bet[c], c)
    /\ update' = [update EXCEPT ![c] = Settled(c, Amount(c))]
    /\ UNCHANGED <<bets, bet, verdict, paid, contested>>

\* session_scope commits.
Commit(c) ==
    /\ pc[c] = "flushed"
    /\ bets' = [bets EXCEPT ![bet[c]] = update[c]]
    /\ Leave(c)
    /\ UNCHANGED contested

\* The process dies, or a statement fails: the transaction is rolled back.
Abort(c) ==
    /\ Faults # {} /\ pc[c] # "idle"
    /\ Leave(c)
    /\ UNCHANGED <<bets, contested>>

Next == \E c \in Clerks : Log(c) \/ Read(c) \/ Flush(c) \/ Commit(c) \/ Abort(c)

Spec == Init /\ [][Next]_vars
-----------------------------------------------------------------------------
TypeOK == /\ bets \in [BetIds -> Row]
          /\ pc \in [Clerks -> {"idle", "validated", "flushed"}]
          /\ bet \in [Clerks -> BetIds \cup {Nothing}]
          /\ update \in [Clerks -> Row]
          /\ verdict \in [Clerks -> {"open"} \cup Verdicts]
          /\ paid \in [Clerks -> Overrides \cup {Computed}]
          /\ contested \subseteq BetIds

\* models.py:423, ck_bets_settlement_coherent: "settled" means one thing, also
\* when two settlements of one bet overlap and the later overwrites the other.
SettlementCoherent ==
    \A b \in BetIds :
       /\ bets[b].settled <=> bets[b].status \in Verdicts
       /\ (bets[b].payout # Nothing) <=> bets[b].status \in Verdicts

\* settle.py:3 and :8: a settled row pays what its own verdict, stake and price
\* come to: overlapping settlements never leave the amount of one under the status
\* of the other, and the two roundings of a win stay within half a cent of the exact
\* stake * (1 + 100 / -odds) or stake * (1 + odds / 100).  (Not on the right side of
\* it: an exact half may have been rounded down by the first of them.)
PayoutIsExact ==
    \A b \in BetIds : bets[b].status \in Verdicts =>
       LET stake == bets[b].ticket.stake
           odds == bets[b].ticket.odds
           num == IF odds > 0 THEN 100 + odds ELSE 100 - odds
           den == IF odds > 0 THEN 100 ELSE 0 - odds
           off == 2 * (bets[b].payout * den - stake * num)
       IN \/ bets[b].payout \in Overrides
          \/ bets[b].status = "lost" /\ bets[b].payout = 0
          \/ ReturnsStakeOnly(bets[b].status) /\ bets[b].payout = stake
          \/ bets[b].status = "won" /\ off <= den /\ -den <= off

\* cli.py:325: "settlement is not re-run in place": a settled bet stays as it is,
\* if no two clerks ever had it in hand at once; the check at 322 and the UPDATE
\* are not one step, so of two who have, the second overwrites the first.
SettledOnce ==
    [][\A b \in BetIds \ contested :
          bets[b].status \in Verdicts => bets'[b] = bets[b]]_vars
=============================================================================
