------------------------------- MODULE MCBets -------------------------------
(* Instances of Bets, with 6 digits in the place of 28: a bet at -150, one   *)
(* at +110, and two that win exactly half a cent.                            *)
EXTENDS Bets, TLC

SmallTickets == {[stake |-> 50, odds |-> -150], [stake |-> 7, odds |-> 110],
                 [stake |-> 6, odds |-> -1200], [stake |-> 3, odds |-> -600]}
Promotion == {90}
AllFaults == {"raise", "crash"}
Symmetry == Permutations(Clerks) \cup Permutations(BetIds)
=============================================================================
