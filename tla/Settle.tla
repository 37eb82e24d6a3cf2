------------------------------- MODULE Settle -------------------------------
(***************************************************************************)
(* payout_cents of src/betting/settle.py, in the arithmetic of Python's    *)
(* decimal module: a decimal is a coefficient c and a scale e, worth       *)
(* c * 10^-e, and every result is rounded half to even to Digits           *)
(* significant digits (28 in the default context the code runs in).        *)
(***************************************************************************)
EXTENDS Integers

CONSTANT Digits          \* precision of the decimal context

ASSUME DigitsAssumption == Digits \in Nat \ {0}

\* c / d to the nearest integer, a tie to the even one, or upwards.
HalfEven(c, d) == LET q == c \div d
                      r == 2 * (c % d)
                  IN IF r > d \/ (r = d /\ q % 2 = 1) THEN q + 1 ELSE q
HalfUp(c, d) == IF 2 * (c % d) >= d THEN (c \div d) + 1 ELSE c \div d

\* The context's rounding of an exact result.
Rounded(x) ==
    LET excess == CHOOSE k \in 0..Digits : \/ k = 0 /\ x.c < 10^Digits
                                           \/ k > 0 /\ 10^(Digits + k - 1) <= x.c
                                                    /\ x.c < 10^(Digits + k)
    IN [c |-> HalfEven(x.c, 10^excess), e |-> x.e - excess]

\* 100 / n, for n >= 100.
HundredOver(n) ==
    LET e == CHOOSE k \in 0..(2 * Digits) : /\ 10^(Digits - 1) * n <= 100 * 10^k
                                            /\ 100 * 10^k < 10^Digits * n
    IN [c |-> HalfEven(100 * 10^e, n), e |-> e]

OnePlus(x) == Rounded([c |-> 10^x.e + x.c, e |-> x.e])

DecimalOdds(odds) == IF odds > 0 THEN OnePlus([c |-> odds, e |-> 2])
                     ELSE OnePlus(HundredOver(0 - odds))

\* Seeded fault: quantize with ROUND_DOWN.
WinRoundedDown(stake, odds) ==
    LET x == DecimalOdds(odds)
        product == Rounded([c |-> stake * x.c, e |-> x.e])
    IN product.c \div 10^product.e

\* Stake plus profit of a win, to the cent, ROUND_HALF_UP.
Win(stake, odds) ==
    LET x == DecimalOdds(odds)
        product == Rounded([c |-> stake * x.c, e |-> x.e])
    IN HalfUp(product.c, 10^product.e)

\* BetStatus.returns_stake_only.
ReturnsStakeOnly(status) == status \in {"push", "void", "postponed"}

\* Seeded fault: the profit instead of the total returned.
PayoutAsProfit(stake, odds, status) ==
    IF status = "lost" THEN 0 - stake
    ELSE IF ReturnsStakeOnly(status) THEN 0 ELSE Win(stake, odds) - stake

\* payout_cents.
Payout(stake, odds, status) ==
    IF status = "lost" THEN 0
    ELSE IF ReturnsStakeOnly(status) THEN stake ELSE Win(stake, odds)
=============================================================================
