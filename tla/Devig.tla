------------------------------- MODULE Devig -------------------------------
(***************************************************************************)
(* _solve_k of src/betting/devig.py: the exponent k at which the powers of *)
(* a market's implied probabilities sum to 1, bracketed by doubling or     *)
(* halving and then bisected, one iteration a step.                        *)
(*                                                                         *)
(* Exponents are integers in units of 1/Unit, so that k = 1 is Unit, and   *)
(* the excess f(k) = sum(p**k) - 1 is an integer too; which function it is *)
(* is left to whoever gives the constant Excess its value.                 *)
(***************************************************************************)
EXTENDS Integers, Sequences

CONSTANTS Markets,       \* the markets devigged: sequences of selections
          Excess(_, _),  \* f, of a market and an exponent
          Unit,          \* the exponent 1
          KMin, KMax,    \* _K_MIN and _K_MAX
          Tol,           \* tol
          Limits,        \* the values of max_iter it is called with
          Enough         \* one of them, its default

ASSUME DevigAssumption ==
    /\ Unit \in Nat \ {0} /\ KMin \in 1..Unit /\ KMax \in Nat /\ KMax >= 2 * Unit
    /\ Tol \in Nat /\ Limits \subseteq Nat /\ Enough \in Limits

\* 2^n.
Doubled[n \in Nat] == IF n = 0 THEN 1 ELSE 2 * Doubled[n - 1]

\* The default max_iter is more than what doublings up to _K_MAX and halvings of the
\* bracket they leave can draw.  In the code it is 200, for a _K_MAX of 10^6 and brackets
\* down to 10^-15 wide: Unit is 10^15 there and KMax * KMax is 10^42, below 2^140.
ASSUME EnoughAssumption == KMax * KMax < Doubled[Enough]

VARIABLES market, maxIter, pc, lo, hi, k, iterations

vars == <<market, maxIter, pc, lo, hi, k, iterations>>

Init == /\ market \in Markets /\ maxIter \in Limits /\ pc = "called"
        /\ lo = 0 /\ hi = 0 /\ k = 0 /\ iterations = 0

F(x) == Excess(market, x)

Within(x) == -Tol <= F(x) /\ F(x) <= Tol

Larger(a, b) == IF a >= b THEN a ELSE b
-----------------------------------------------------------------------------
\* _validate_probs: one price says nothing of the margin.
Refuse == /\ pc = "called" /\ Len(market) < 2
          /\ pc' = "refused"
          /\ UNCHANGED <<market, maxIter, lo, hi, k, iterations>>

\* A fair book: k is exactly 1.
Fair == /\ pc = "called" /\ Len(market) >= 2
        /\ Within(Unit)
        /\ pc' = "solved" /\ k' = Unit
        /\ UNCHANGED <<market, maxIter, lo, hi, iterations>>

\* Overround: the root is above 1 ...
Over == /\ pc = "called" /\ Len(market) >= 2
        /\ F(Unit) > Tol
        /\ pc' = "growing" /\ lo' = Unit /\ hi' = 2 * Unit
        /\ UNCHANGED <<market, maxIter, k, iterations>>

\* Seeded fault: hi is doubled before lo takes its value.
GrowHiFirst ==
    /\ pc = "growing" /\ F(hi) > 0
    /\ hi' = 2 * hi /\ lo' = hi'
    /\ iterations' = iterations + 1
    /\ pc' = IF hi' > KMax THEN "raised" ELSE "growing"
    /\ UNCHANGED <<market, maxIter, k>>

\* ... and the bracket grows, as long as its upper end stays below _K_MAX.
Grow == /\ pc = "growing" /\ F(hi) > 0
        /\ lo' = hi /\ hi' = 2 * hi
        /\ iterations' = iterations + 1
        /\ pc' = IF hi' > KMax THEN "raised" ELSE "growing"
        /\ UNCHANGED <<market, maxIter, k>>

\* Seeded fault: both directions are bracketed from above.
UnderAsOver ==
    /\ pc = "called" /\ Len(market) >= 2
    /\ F(Unit) < -Tol
    /\ pc' = "growing" /\ lo' = Unit /\ hi' = 2 * Unit
    /\ UNCHANGED <<market, maxIter, k, iterations>>

\* Underround, an arbitrage: the root is below 1 ...
Under == /\ pc = "called" /\ Len(market) >= 2
         /\ F(Unit) < -Tol
         /\ pc' = "shrinking" /\ lo' = Unit \div 2 /\ hi' = Unit
         /\ UNCHANGED <<market, maxIter, k, iterations>>

\* ... and the bracket is halved until it holds it.
Shrink == /\ pc = "shrinking" /\ F(lo) < 0
          /\ hi' = lo /\ lo' = lo \div 2
          /\ iterations' = iterations + 1
          /\ pc' = IF lo' < KMin THEN "raised" ELSE "shrinking"
          /\ UNCHANGED <<market, maxIter, k>>

Bracket == /\ \/ pc = "growing" /\ F(hi) <= 0
              \/ pc = "shrinking" /\ F(lo) >= 0
           /\ pc' = "bisecting"
           /\ UNCHANGED <<market, maxIter, lo, hi, k, iterations>>

\* Seeded fault: the loop ends on the tolerance alone.
BisectToTol ==
    /\ pc = "bisecting" /\ iterations < maxIter
    /\ iterations' = iterations + 1
    /\ k' = (lo + hi) \div 2
    /\ \/ /\ Within(k')
          /\ pc' = "solved" /\ UNCHANGED <<lo, hi>>
       \/ /\ ~Within(k')
          /\ pc' = pc
          /\ IF F(k') > 0 THEN lo' = k' /\ hi' = hi ELSE hi' = k' /\ lo' = lo
    /\ UNCHANGED <<market, maxIter>>

\* One bisection: close enough in f, or the bracket too narrow for its size to
\* be split, or on with the half that holds the root.
Bisect ==
    /\ pc = "bisecting" /\ iterations < maxIter
    /\ iterations' = iterations + 1
    /\ k' = (lo + hi) \div 2
    /\ \/ /\ Within(k') \/ hi - lo <= Larger(Unit, k') \div Unit
          /\ pc' = "solved" /\ UNCHANGED <<lo, hi>>
       \/ /\ ~Within(k') /\ hi - lo > Larger(Unit, k') \div Unit
          /\ pc' = pc
          /\ IF F(k') > 0 THEN lo' = k' /\ hi' = hi ELSE hi' = k' /\ lo' = lo
    /\ UNCHANGED <<market, maxIter>>

\* The loop runs out of max_iter, which the bracketing has drawn on too.
GiveUp == /\ pc = "bisecting" /\ iterations >= maxIter
          /\ pc' = "raised"
          /\ UNCHANGED <<market, maxIter, lo, hi, k, iterations>>

Next == Refuse \/ Fair \/ Over \/ Under \/ Grow \/ Shrink \/ Bracket \/ Bisect \/ GiveUp

Spec == Init /\ [][Next]_vars
-----------------------------------------------------------------------------
TypeOK == /\ market \in Markets /\ maxIter \in Limits
          /\ pc \in {"called", "growing", "shrinking", "bisecting", "solved",
                     "raised", "refused"}
          /\ lo \in Nat /\ hi \in Nat /\ k \in Nat /\ iterations \in Nat
          /\ pc = "bisecting" => lo < hi

\* devig.py:95: "no divergence": the bracket holds a sign change of f from the moment
\* it is made to the answer, on the side of 1 on which the market's margin puts it,
\* and the answer is inside it.
Bracketed ==
    pc \in {"bisecting", "solved"} /\ hi > 0 =>
       /\ F(lo) >= 0 /\ F(hi) <= 0
       /\ F(Unit) > 0 => Unit <= lo
       /\ F(Unit) < 0 => hi <= Unit
       /\ pc = "solved" => lo <= k /\ k <= hi

\* devig.py:60: with the default max_iter, which bracketing and bisecting share, an
\* exception means a market beyond the bounds and never an answer not reached: f has no
\* root between twice _K_MIN and half of _K_MAX.  (It may have one nearer the bounds:
\* doubling and halving step over it.)
RaisesOnlyBeyondBounds ==
    pc = "raised" /\ maxIter >= Enough =>
       \/ F(Unit) > 0 /\ F(KMax \div 2) > 0
       \/ F(Unit) < 0 /\ F(2 * KMin) < 0
=============================================================================
