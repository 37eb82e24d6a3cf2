-------------------------------- MODULE Clv --------------------------------
(***************************************************************************)
(* compute_clv of src/betting/clv.py: a bet's price against the devigged   *)
(* closing market, with the conversions of src/betting/odds.py and the     *)
(* solver of Devig.  A market is a sequence of American prices, the bet's  *)
(* side first.                                                             *)
(*                                                                         *)
(* A Python float is a fixed-point number here, an integer in units of     *)
(* 1/One; a power is a product of square roots, each result rounded up.    *)
(***************************************************************************)
EXTENDS Devig, FiniteSets, SequencesExt

CONSTANTS Prices,        \* prices bets are made at
          UnitBits,      \* Unit = 2^UnitBits
          Bits           \* One = 2^Bits

One == Doubled[Bits]

\* validate_american.
IsPrice(odds) == odds \in Int /\ (odds <= -100 \/ odds >= 100)

\* What a price pays, over what is staked.
Pays(odds) == IF odds > 0 THEN odds ELSE 100
Stakes(odds) == IF odds > 0 THEN 100 ELSE -odds

\* american_to_implied_prob.
ImpliedProb(odds) == (Stakes(odds) * One) \div (Pays(odds) + Stakes(odds))

\* american_to_decimal(a) > american_to_decimal(b), in whole numbers.
ReturnsMore(a, b) == Pays(a) * Stakes(b) > Pays(b) * Stakes(a)

ASSUME ClvAssumption ==
    /\ UnitBits \in Nat /\ Bits \in Nat /\ Unit = Doubled[UnitBits]
    /\ \A odds \in Prices : IsPrice(odds)
    /\ \A m \in Markets : m \in Seq(Int) /\ \A i \in DOMAIN m : IsPrice(m[i])

\* 1/One tells the prices of bets from those of the market, as 53 bits do in the code.
ASSUME ResolutionAssumption ==
    \A bet \in Prices, m \in Markets :
       Len(m) >= 2 /\ ReturnsMore(bet, m[1]) => ImpliedProb(bet) < ImpliedProb(m[1])

Times(p, q) == (p * q + One - 1) \div One

SquareRoot(p) ==
    CHOOSE r \in 0..One : p * One <= r * r /\ (r = 0 \/ (r - 1) * (r - 1) < p * One)

QuotedProbs == UNION {{ImpliedProb(m[i]) : i \in DOMAIN m} : m \in Markets}

\* p ** (1 / 2^n) of every probability quoted.
Roots == [p \in QuotedProbs |->
    LET root[n \in 0..UnitBits] == IF n = 0 THEN p ELSE SquareRoot(root[n - 1])
    IN [n \in 1..UnitBits |-> root[n]]]

\* p ** n.
WholePower(p, n) ==
    LET whole[i \in 0..n] == IF i = 0 THEN One ELSE Times(whole[i - 1], p)
    IN whole[n]

\* p ** (x / Unit): a whole power, then a root for each bit of the fraction.
Power(p, x) ==
    LET bit(n) == (x \div Doubled[UnitBits - n]) % 2 = 1
        power[n \in 0..UnitBits] ==
            IF n = 0 THEN WholePower(p, x \div Unit)
            ELSE IF bit(n) THEN Times(power[n - 1], Roots[p][n]) ELSE power[n - 1]
    IN power[UnitBits]

SumOf(s) == FoldLeft(LAMBDA a, b : a + b, 0, s)

\* f(k) of _solve_k, the value of the constant Excess.
MarketExcess(m, x) == SumOf([i \in DOMAIN m |-> Power(ImpliedProb(m[i]), x)]) - One

\* DevigResult.overround.
Overround == F(Unit)

\* Seeded fault: normalised by the sum instead.
FairByProportion(i) ==
    (ImpliedProb(market[i]) * One) \div SumOf([j \in DOMAIN market |-> ImpliedProb(market[j])])

\* Seeded fault: the probability of the other side.
FairOfOther(i) == Power(ImpliedProb(market[Len(market) + 1 - i]), k)

\* DevigResult.fair_probs.
FairProb(i) == Power(ImpliedProb(market[i]), k)

\* clv_prob_points > 0 and clv_pct > 0 of a bet at this price.
PointsPositive(bet) == FairProb(1) > ImpliedProb(bet)
PctPositive(bet) == ReturnsMore(bet, market[1])
-----------------------------------------------------------------------------
\* clv.py:31 to :55: the two metrics agree in one direction, and which one depends on
\* the closing market: with a margin, a bet that beats the fair probability has beaten
\* the price; with a negative one, as two closing prices of different instants may
\* have, a bet that beats the price has beaten the fair probability.
MetricsAgreeOneWay ==
    pc = "solved" =>
       \A bet \in Prices :
          /\ Overround > 0 /\ PointsPositive(bet) => PctPositive(bet)
          /\ Overround < 0 /\ PctPositive(bet) => PointsPositive(bet)

\* devig.py:20: the power method takes "proportionally more from the longshot than the
\* favorite", on either side of the market, at every margin it can solve.
LongshotPaysMore ==
    pc = "solved" /\ Overround > Tol =>
       \A i, j \in DOMAIN market :
          ImpliedProb(market[i]) > ImpliedProb(market[j]) =>
             FairProb(i) * ImpliedProb(market[j]) > FairProb(j) * ImpliedProb(market[i])
=============================================================================
