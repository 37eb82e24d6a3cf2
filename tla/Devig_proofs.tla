---------------------------- MODULE Devig_proofs ----------------------------
(***************************************************************************)
(* Proofs about Devig for every market, every integer-valued excess f, all *)
(* units, bounds, tolerances and iteration limits, where nothing is        *)
(* assumed of the shape of f except where a theorem says so; and, at the   *)
(* end, about Clv, whose powers are computed and rounded, for every price  *)
(* and every fineness of the fixed point.                                  *)
(***************************************************************************)
EXTENDS Clv, WellFoundedInduction, TLAPS

\* f is a function to the numbers the module computes with.
IntegerExcess == \A m \in Markets, x \in Nat : Excess(m, x) \in Int

\* f falls as the exponent grows, up to an error of rounding: a power of a
\* probability falls, the number that stands for it may be off by a few units.
FallsWithin(error) ==
    \A m \in Markets : \A x, y \in Nat : x < y => Excess(m, y) <= Excess(m, x) + error

\* Where each loop stands with its bracket.
Growing == pc = "growing" =>
              /\ Unit <= lo /\ lo < hi
              /\ F(Unit) > 0 /\ F(lo) > 0
Shrinking == pc = "shrinking" =>
              /\ lo < hi /\ hi <= Unit /\ lo = hi \div 2
              /\ F(Unit) < 0 /\ F(hi) < 0
Bisecting == pc = "bisecting" => lo < hi
Unbracketed == pc \in {"called", "refused"} => hi = 0

\* What ends the search with an answer.
Answered == pc = "solved" => Within(k) \/ hi - lo <= Larger(Unit, k) \div Unit

\* What ends it with an exception.
RaisedFor ==
    pc = "raised" => \/ iterations >= maxIter
                     \/ F(Unit) > 0 /\ \E x \in Nat : KMax < 2 * x /\ F(x) > 0
                     \/ F(Unit) < 0 /\ \E x \in Nat : x < 2 * KMin /\ F(x) < 0

\* The inductive invariant.  Bracketed speaks of the bisection alone; it is the
\* doubling and the halving before it that put the change of sign between lo
\* and hi, so they are part of the invariant.
IInv == /\ TypeOK
        /\ Growing /\ Shrinking /\ Bisecting /\ Unbracketed
        /\ Bracketed
        /\ Answered
        /\ RaisedFor
-----------------------------------------------------------------------------
\* The width at which bisecting stops is at least 1.
LEMMA WidthPositive ==
  ASSUME NEW x \in Nat
  PROVE  Larger(Unit, x) \div Unit \in Nat /\ Larger(Unit, x) \div Unit >= 1
<1> DEFINE a == Larger(Unit, x)
           q == a \div Unit
<1>1. Unit \in Nat /\ Unit > 0 /\ a \in Nat /\ a >= Unit
  BY DevigAssumption DEF Larger
<1> HIDE DEF a
<1>2. q \in Nat
  BY <1>1
<1>3. a = Unit * q + (a % Unit) /\ a % Unit < Unit
  BY <1>1
<1>4. q # 0
  <2>1. SUFFICES ASSUME q = 0 PROVE FALSE
    OBVIOUS
  <2>2. Unit * q = 0
    BY <2>1, <1>1
  <2> HIDE DEF q
  <2>3. a % Unit \in Nat
    BY <1>1
  <2>4. QED BY <2>2, <2>3, <1>1, <1>3
<1>5. QED BY <1>2, <1>4 DEF a

\* The midpoint, inside a bracket and strictly inside one that is still wide.
LEMMA Midpoint ==
  ASSUME NEW a \in Nat, NEW b \in Nat, a < b
  PROVE  LET m == (a + b) \div 2
         IN m \in Nat /\ a <= m /\ m < b /\ (b - a > 1 => a < m)
  OBVIOUS

\* The invariant holds of a call.
LEMMA InvInit == Init => IInv
  BY DEF Init, IInv, TypeOK, Growing, Shrinking, Bisecting, Unbracketed,
     Bracketed, Answered, RaisedFor

\* Every iteration of the doubling, the halving and the bisection keeps it.
LEMMA InvStep ==
  ASSUME IntegerExcess, IInv, [Next]_vars
  PROVE  IInv'
<1> USE DEF F, Within
<1>1. /\ Unit \in Nat /\ Unit > 0 /\ KMin \in Nat /\ KMin > 0 /\ KMax \in Nat
      /\ Tol \in Nat /\ market \in Markets /\ maxIter \in Nat
      /\ lo \in Nat /\ hi \in Nat /\ k \in Nat /\ iterations \in Nat
  BY DevigAssumption DEF IInv, TypeOK
<1>2. \A x \in Nat : Excess(market, x) \in Int
  BY <1>1 DEF IntegerExcess
<1>3. CASE Refuse
  BY <1>3, <1>1 DEF Refuse, IInv, TypeOK, Growing, Shrinking, Bisecting, Unbracketed,
     Bracketed, Answered, RaisedFor
<1>4. CASE Fair
  BY <1>4, <1>1, <1>2 DEF Fair, IInv, TypeOK, Growing, Shrinking, Bisecting,
     Unbracketed, Bracketed, Answered, RaisedFor
<1>5. CASE Over
  BY <1>5, <1>1, <1>2 DEF Over, IInv, TypeOK, Growing, Shrinking, Bisecting,
     Unbracketed, Bracketed, Answered, RaisedFor
<1>6. CASE Under
  BY <1>6, <1>1, <1>2 DEF Under, IInv, TypeOK, Growing, Shrinking, Bisecting,
     Unbracketed, Bracketed, Answered, RaisedFor
<1>7. CASE Grow
  <2>1. /\ lo' = hi /\ hi' = 2 * hi /\ F(hi) > 0 /\ F(Unit) > 0
        /\ Unit <= hi /\ market' = market /\ maxIter' = maxIter /\ k' = k
        /\ iterations' = iterations + 1
        /\ pc' = IF hi' > KMax THEN "raised" ELSE "growing"
    BY <1>7, <1>1 DEF Grow, IInv, Growing
  <2>2. TypeOK'
    BY <2>1, <1>1 DEF IInv, TypeOK
  <2>3. RaisedFor'
    BY <2>1, <1>1 DEF RaisedFor
  <2>4. QED BY <2>1, <2>2, <2>3, <1>1 DEF IInv, Growing, Shrinking, Bisecting,
             Unbracketed, Bracketed, Answered
<1>8. CASE Shrink
  <2>1. /\ hi' = lo /\ lo' = lo \div 2 /\ F(lo) < 0 /\ F(Unit) < 0
        /\ lo <= Unit /\ market' = market /\ maxIter' = maxIter /\ k' = k
        /\ iterations' = iterations + 1
        /\ pc' = IF lo' < KMin THEN "raised" ELSE "shrinking"
    BY <1>8, <1>1 DEF Shrink, IInv, Shrinking
  <2>2. TypeOK'
    BY <2>1, <1>1 DEF IInv, TypeOK
  <2>3. RaisedFor'
    BY <2>1, <1>1 DEF RaisedFor
  <2>4. QED BY <2>1, <2>2, <2>3, <1>1 DEF IInv, Growing, Shrinking, Bisecting,
             Unbracketed, Bracketed, Answered
<1>9. CASE Bracket
  BY <1>9, <1>1, <1>2 DEF Bracket, IInv, TypeOK, Growing, Shrinking, Bisecting,
     Unbracketed, Bracketed, Answered, RaisedFor
<1>10. CASE Bisect
  <2>1. /\ pc = "bisecting" /\ lo < hi /\ hi > 0
        /\ F(lo) >= 0 /\ F(hi) <= 0
        /\ F(Unit) > 0 => Unit <= lo
        /\ F(Unit) < 0 => hi <= Unit
    BY <1>10, <1>1 DEF Bisect, IInv, TypeOK, Bracketed
  <2>2. /\ k' = (lo + hi) \div 2 /\ iterations' = iterations + 1
        /\ market' = market /\ maxIter' = maxIter
    BY <1>10 DEF Bisect
  <2>3. /\ k' \in Nat /\ lo <= k' /\ k' < hi /\ (hi - lo > 1 => lo < k')
    BY <2>1, <2>2, <1>1, Midpoint
  <2>4. CASE /\ Within(k') \/ hi - lo <= Larger(Unit, k') \div Unit
             /\ pc' = "solved" /\ UNCHANGED <<lo, hi>>
    BY <2>1, <2>2, <2>3, <2>4, <1>1, <1>2 DEF IInv, TypeOK, Growing, Shrinking,
       Bisecting, Unbracketed, Bracketed, Answered, RaisedFor
  <2>5. CASE /\ hi - lo > Larger(Unit, k') \div Unit /\ pc' = pc
             /\ IF F(k') > 0 THEN lo' = k' /\ hi' = hi ELSE hi' = k' /\ lo' = lo
    <3>1. lo < k'
      BY <2>3, <2>5, <1>1, WidthPositive
    <3>2. F(k') \in Int
      BY <2>3, <1>2
    <3>3. QED
      BY <2>1, <2>2, <2>3, <2>5, <3>1, <3>2, <1>1 DEF IInv, TypeOK, Growing,
         Shrinking, Bisecting, Unbracketed, Bracketed, Answered, RaisedFor
  <2>6. QED BY <1>10, <2>4, <2>5 DEF Bisect
<1>11. CASE GiveUp
  BY <1>11, <1>1 DEF GiveUp, IInv, TypeOK, Growing, Shrinking, Bisecting,
     Unbracketed, Bracketed, Answered, RaisedFor
<1>12. CASE UNCHANGED vars
  BY <1>12 DEF vars, IInv, TypeOK, Growing, Shrinking, Bisecting, Unbracketed,
     Bracketed, Answered, RaisedFor
<1>13. QED
  BY <1>3, <1>4, <1>5, <1>6, <1>7, <1>8, <1>9, <1>10, <1>11, <1>12 DEF Next
-----------------------------------------------------------------------------
\* The inductive invariant holds of every call.
THEOREM Inductive ==
  ASSUME IntegerExcess
  PROVE  Spec => []IInv
  BY InvInit, InvStep, PTL DEF Spec

\* Bracket, exponent and counter stay natural numbers, and a bracket under
\* bisection is never empty or reversed.
THEOREM TypeCorrect ==
  ASSUME IntegerExcess
  PROVE  Spec => []TypeOK
<1>1. IInv => TypeOK
  BY DEF IInv
<1>2. QED BY <1>1, Inductive, PTL

\* devig.py:95: whatever f is, monotone or not, the bracket holds a change of its
\* sign until the answer, on the side of 1 the margin asks for.
THEOREM BracketSound ==
  ASSUME IntegerExcess
  PROVE  Spec => []Bracketed
<1>1. IInv => Bracketed
  BY DEF IInv
<1>2. QED BY <1>1, Inductive, PTL

\* devig.py:87 to :115: for a falling f, no step loses the root: an answer of the
\* bisection is within tolerance in f, or f is on its first side further below the
\* answer than the final width, and on its second further above (but for the error of
\* rounding), so that its root is no further away.
NearRoot(error) ==
    pc = "solved" /\ hi > 0 =>
       \/ Within(k)
       \/ \A x \in Nat : /\ k - x > Larger(Unit, k) \div Unit => F(x) >= 0 - error
                         /\ x - k > Larger(Unit, k) \div Unit => F(x) <= error

\* The answer is near the root, for every f that falls within any error.
THEOREM AnswerNearRoot ==
  ASSUME IntegerExcess, NEW error \in Nat, FallsWithin(error)
  PROVE  Spec => []NearRoot(error)
<1>1. IInv => NearRoot(error)
  <2> SUFFICES ASSUME IInv, pc = "solved", hi > 0, ~Within(k), NEW x \in Nat
               PROVE  /\ k - x > Larger(Unit, k) \div Unit => F(x) >= 0 - error
                      /\ x - k > Larger(Unit, k) \div Unit => F(x) <= error
    BY DEF NearRoot
  <2>1. /\ market \in Markets /\ lo \in Nat /\ hi \in Nat /\ k \in Nat
        /\ F(lo) >= 0 /\ F(hi) <= 0 /\ lo <= k /\ k <= hi
        /\ hi - lo <= Larger(Unit, k) \div Unit
    BY DEF IInv, TypeOK, Bracketed, Answered
  <2>2. F(lo) \in Int /\ F(hi) \in Int /\ F(x) \in Int
    BY <2>1 DEF IntegerExcess, F
  <2>3. Larger(Unit, k) \div Unit \in Nat
    BY <2>1, WidthPositive
  <2>4. ASSUME k - x > Larger(Unit, k) \div Unit
        PROVE  F(x) >= 0 - error
    <3>1. x < lo
      BY <2>1, <2>3, <2>4
    <3>2. F(lo) <= F(x) + error
      BY <2>1, <3>1 DEF FallsWithin, F
    <3>3. QED BY <2>1, <2>2, <3>2
  <2>5. ASSUME x - k > Larger(Unit, k) \div Unit
        PROVE  F(x) <= error
    <3>1. hi < x
      BY <2>1, <2>3, <2>5
    <3>2. F(x) <= F(hi) + error
      BY <2>1, <3>1 DEF FallsWithin, F
    <3>3. QED BY <2>1, <2>2, <3>2
  <2>6. QED BY <2>4, <2>5
<1>2. QED BY <1>1, Inductive, PTL

\* What a bound that was passed says of the bounds themselves, for an f that falls
\* within some error.
LEMMA BeyondBounds ==
  ASSUME IntegerExcess, NEW error \in Nat, FallsWithin(error), TypeOK,
         \/ F(Unit) > 0 /\ \E x \in Nat : KMax < 2 * x /\ F(x) > 0
         \/ F(Unit) < 0 /\ \E x \in Nat : x < 2 * KMin /\ F(x) < 0
  PROVE  \/ F(Unit) > 0 /\ F(KMax \div 2) > 0 - error
         \/ F(Unit) < 0 /\ F(2 * KMin) < error
<1>1. /\ market \in Markets /\ KMax \in Nat /\ KMin \in Nat
      /\ KMax \div 2 \in Nat /\ 2 * KMin \in Nat
      /\ F(KMax \div 2) \in Int /\ F(2 * KMin) \in Int
  BY DevigAssumption DEF TypeOK, IntegerExcess, F
<1>2. ASSUME NEW x \in Nat, KMax < 2 * x, F(x) > 0
      PROVE  F(KMax \div 2) > 0 - error
  <2>1. KMax \div 2 <= x /\ F(x) \in Int
    BY <1>1, <1>2 DEF IntegerExcess, F
  <2>2. F(x) <= F(KMax \div 2) + error
    BY <1>1, <2>1 DEF FallsWithin, F
  <2>3. QED BY <1>1, <1>2, <2>1, <2>2
<1>3. ASSUME NEW x \in Nat, x < 2 * KMin, F(x) < 0
      PROVE  F(2 * KMin) < error
  <2>1. F(2 * KMin) <= F(x) + error /\ F(x) \in Int
    BY <1>1, <1>3 DEF FallsWithin, IntegerExcess, F
  <2>2. QED BY <1>1, <1>3, <2>1
<1>4. QED BY <1>2, <1>3

\* devig.py:60, :103 and :107: for a falling f, an exception means a root beyond the
\* bounds (but for the error of rounding), or iterations drawn on to the last.
RaisesForCause(error) ==
    pc = "raised" => \/ iterations >= maxIter
                     \/ F(Unit) > 0 /\ F(KMax \div 2) > 0 - error
                     \/ F(Unit) < 0 /\ F(2 * KMin) < error

\* Every exception has one of the two causes, whatever max_iter it was called with, for
\* every f that falls within any error.
THEOREM RaisesHaveCause ==
  ASSUME IntegerExcess, NEW error \in Nat, FallsWithin(error)
  PROVE  Spec => []RaisesForCause(error)
<1>1. IInv => RaisesForCause(error)
  BY BeyondBounds DEF IInv, RaisedFor, RaisesForCause
<1>2. QED BY <1>1, Inductive, PTL
-----------------------------------------------------------------------------
\* Less-than on the naturals is well-founded, as a set of pairs.
LEMMA NatPairs == IsWellFoundedOn({ss \in Nat \X Nat : ss[1] < ss[2]}, Nat)
<1>1. OpToRel(<, Nat) = {ss \in Nat \X Nat : ss[1] < ss[2]}
  BY DEF OpToRel
<1>2. QED BY <1>1, NatLessThanWellFounded

\* A set of natural numbers has a least element.
LEMMA Least ==
  ASSUME NEW S, S \subseteq Nat, S # {}
  PROVE  \E m \in S : \A n \in S : m <= n
<1> DEFINE R == {ss \in Nat \X Nat : ss[1] < ss[2]}
<1>1. IsWellFoundedOn(R, Nat)
  BY NatPairs
<1> HIDE DEF R
<1>2. PICK m \in S : \A y \in S : ~(<<y, m>> \in R)
  BY <1>1, WFMin
<1>3. ASSUME NEW n \in S PROVE m <= n
  <2>1. m \in Nat /\ n \in Nat
    OBVIOUS
  <2>2. <<n, m>> \notin R /\ <<n, m>> \in Nat \X Nat
    BY <1>2, <2>1
  <2>3. ~(n < m)
    BY <2>2, SMT DEF R
  <2>4. QED BY <2>1, <2>3
<1>4. QED BY <1>3

\* The first n + 1 powers of two.
Powers(n) == {g \in [0..n -> Nat] : g[0] = 1 /\ \A i \in 1..n : g[i] = 2 * g[i - 1]}

\* There are such powers for every n ...
LEMMA PowersExist == \A n \in Nat : Powers(n) # {}
<1> DEFINE Bad == {n \in Nat : Powers(n) = {}}
<1>1. SUFFICES ASSUME Bad # {} PROVE FALSE
  OBVIOUS
<1>2. PICK m \in Bad : \A n \in Bad : m <= n
  BY <1>1, Least
<1>3. m # 0
  <2>1. [i \in 0..0 |-> 1] \in Powers(0)
    BY DEF Powers
  <2>2. QED BY <2>1, <1>2
<1>4. m - 1 \in Nat /\ m - 1 \notin Bad
  BY <1>2, <1>3
<1>5. PICK g : g \in Powers(m - 1)
  BY <1>4
<1> DEFINE h == [i \in 0..m |-> IF i = m THEN 2 * g[m - 1] ELSE g[i]]
<1>6. h \in [0..m -> Nat]
  <2>1. g \in [0..m - 1 -> Nat] /\ g[m - 1] \in Nat
    BY <1>4, <1>5 DEF Powers
  <2>2. QED BY <2>1, <1>2
<1>7. h[0] = 1
  BY <1>2, <1>3, <1>5 DEF Powers
<1>8. ASSUME NEW i \in 1..m PROVE h[i] = 2 * h[i - 1]
  <2>1. i - 1 \in 0..m - 1 /\ i - 1 # m /\ i \in 0..m /\ i - 1 \in 0..m
    BY <1>2
  <2>2. h[i - 1] = g[i - 1]
    BY <2>1
  <2>3. CASE i = m
    BY <2>1, <2>2, <2>3
  <2>4. CASE i # m
    BY <2>1, <2>2, <2>4, <1>2, <1>5 DEF Powers
  <2>5. QED BY <2>3, <2>4
<1>9. h \in Powers(m)
  BY <1>6, <1>7, <1>8 DEF Powers
<1>10. QED BY <1>2, <1>9

\* ... and they agree with one another.
LEMMA PowersAgree ==
  ASSUME NEW n \in Nat, NEW m \in Nat, NEW g \in Powers(n), NEW h \in Powers(m),
         NEW j \in Nat, j <= n, j <= m
  PROVE  g[j] = h[j]
<1> DEFINE Bad == {i \in Nat : i <= n /\ i <= m /\ g[i] # h[i]}
<1>1. SUFFICES ASSUME Bad # {} PROVE FALSE
  OBVIOUS
<1>2. PICK i \in Bad : \A x \in Bad : i <= x
  BY <1>1, Least
<1>3. i # 0
  BY <1>2 DEF Powers
<1>4. i - 1 \in Nat /\ i - 1 \notin Bad
  BY <1>2, <1>3
<1>5. g[i - 1] = h[i - 1]
  BY <1>2, <1>4
<1>6. g[i] = 2 * g[i - 1] /\ h[i] = 2 * h[i - 1]
  BY <1>2, <1>3 DEF Powers
<1>7. QED BY <1>2, <1>5, <1>6

\* Doubled is what its equation says.
LEMMA DoubledForm ==
  /\ Doubled \in [Nat -> Nat] /\ Doubled[0] = 1
  /\ \A n \in Nat : Doubled[n + 1] = 2 * Doubled[n]
<1> DEFINE some(n) == CHOOSE g : g \in Powers(n)
           d == [n \in Nat |-> some(n)[n]]
<1>1. \A n \in Nat : some(n) \in Powers(n)
  BY PowersExist
<1> HIDE DEF some
<1>2. d[0] = 1
  BY <1>1 DEF Powers
<1>3. ASSUME NEW n \in Nat, n # 0 PROVE d[n] = 2 * d[n - 1]
  <2>1. n - 1 \in Nat /\ n \in 1..n
    BY <1>3
  <2>2. some(n)[n] = 2 * some(n)[n - 1]
    BY <2>1, <1>1 DEF Powers
  <2>3. some(n)[n - 1] = some(n - 1)[n - 1]
    BY <2>1, <1>1, PowersAgree
  <2>4. QED BY <2>1, <2>2, <2>3
<1>4. d = [n \in Nat |-> IF n = 0 THEN 1 ELSE 2 * d[n - 1]]
  BY <1>2, <1>3
<1> HIDE DEF d
<1>5. Doubled = [n \in Nat |-> IF n = 0 THEN 1 ELSE 2 * Doubled[n - 1]]
  BY <1>4 DEF Doubled
<1>6. /\ Doubled[0] = 1
      /\ \A n \in Nat : Doubled[n + 1] = 2 * Doubled[n]
  <2>1. \A n \in Nat : Doubled[n] = IF n = 0 THEN 1 ELSE 2 * Doubled[n - 1]
    BY <1>5
  <2>2. Doubled[0] = 1
    BY <2>1
  <2>3. ASSUME NEW n \in Nat PROVE Doubled[n + 1] = 2 * Doubled[n]
    <3>1. n + 1 \in Nat /\ n + 1 # 0 /\ (n + 1) - 1 = n
      OBVIOUS
    <3>2. QED BY <2>1, <3>1
  <2>4. QED BY <2>2, <2>3
<1>7. Doubled \in [Nat -> Nat]
  <2> DEFINE Bad == {n \in Nat : Doubled[n] \notin Nat}
  <2>1. SUFFICES ASSUME Bad # {} PROVE FALSE
    BY <1>5
  <2>2. PICK m \in Bad : \A n \in Bad : m <= n
    BY <2>1, Least
  <2>3. m # 0
    BY <2>2, <1>6
  <2>4. m - 1 \in Nat /\ m - 1 \notin Bad /\ (m - 1) + 1 = m
    BY <2>2, <2>3
  <2>5. Doubled[m] = 2 * Doubled[m - 1]
    BY <2>4, <1>6
  <2>6. QED BY <2>2, <2>4, <2>5
<1>8. QED BY <1>6, <1>7

\* Doubling only adds.
LEMMA DoubledGrows ==
  ASSUME NEW n \in Nat, NEW m \in Nat, n <= m
  PROVE  Doubled[n] <= Doubled[m]
<1> DEFINE Bad == {i \in Nat : n <= i /\ ~(Doubled[n] <= Doubled[i])}
<1>1. SUFFICES ASSUME Bad # {} PROVE FALSE
  OBVIOUS
<1>2. PICK i \in Bad : \A x \in Bad : i <= x
  BY <1>1, Least
<1>3. Doubled[n] \in Nat
  BY DoubledForm
<1>4. i # n
  BY <1>2, <1>3
<1>5. i - 1 \in Nat /\ n <= i - 1 /\ i - 1 \notin Bad /\ (i - 1) + 1 = i
  BY <1>2, <1>4
<1>6. Doubled[i] = 2 * Doubled[i - 1] /\ Doubled[i - 1] \in Nat
  BY <1>5, DoubledForm
<1>7. QED BY <1>2, <1>3, <1>5, <1>6

-----------------------------------------------------------------------------
\* An exception says of f what the bounds let it say, and nothing of max_iter.
RaisedBeyond ==
    pc = "raised" /\ maxIter >= Enough =>
       \/ F(Unit) > 0 /\ \E x \in Nat : KMax < 2 * x /\ F(x) > 0
       \/ F(Unit) < 0 /\ \E x \in Nat : x < 2 * KMin /\ F(x) < 0

\* What each loop has drawn of the iterations shows in its bracket: doubling has
\* doubled its lower end, halving has halved its upper end, and bisecting has halved
\* what is left of the width over 1, of a bracket no wider than _K_MAX.
Paced ==
    /\ pc = "called" => iterations = 0
    /\ pc = "growing" => /\ Doubled[iterations] <= lo
                         /\ hi = 2 * lo /\ hi <= KMax
    /\ pc = "shrinking" => hi * Doubled[iterations] <= Unit
    /\ pc = "bisecting" => /\ Doubled[iterations] <= KMax * KMax
                           /\ (hi - lo - 1) * Doubled[iterations + 1] <= KMax * KMax
    /\ RaisedBeyond

\* Products of smaller numbers are smaller.
LEMMA Products ==
  ASSUME NEW a \in Nat, NEW b \in Nat, NEW c \in Nat, NEW d \in Nat, a <= c, b <= d
  PROVE  a * b <= c * d /\ a * b \in Nat
<1>1. a * b <= c * b
  BY Z3
<1>2. c * b <= c * d
  BY Z3
<1>3. a * b \in Nat /\ c * b \in Nat /\ c * d \in Nat
  OBVIOUS
<1>4. QED BY <1>1, <1>2, <1>3

\* Every iteration keeps the pace.
LEMMA PacedStep ==
  ASSUME IntegerExcess, IInv, Paced, [Next]_vars
  PROVE  Paced'
<1> DEFINE most == KMax * KMax
<1>1. /\ Unit \in Nat /\ Unit > 0 /\ KMin \in Nat /\ KMax \in Nat /\ KMax >= 2 * Unit
      /\ Enough \in Nat /\ maxIter \in Nat
      /\ lo \in Nat /\ hi \in Nat /\ k \in Nat /\ iterations \in Nat
      /\ market \in Markets
  BY DevigAssumption DEF IInv, TypeOK
<1>2. /\ iterations + 1 \in Nat
      /\ Doubled[iterations] \in Nat /\ Doubled[iterations + 1] \in Nat
      /\ Doubled[iterations + 1] = 2 * Doubled[iterations]
      /\ Doubled[iterations + 1 + 1] = 2 * Doubled[iterations + 1]
      /\ Doubled[iterations + 1 + 1] \in Nat
      /\ Doubled[0] = 1
  BY <1>1, DoubledForm
<1>3. most \in Nat /\ Unit <= most /\ KMax <= most
  <2>1. 1 * KMax <= most /\ most \in Nat
    BY <1>1, Products
  <2>2. QED BY <2>1, <1>1
<1> HIDE DEF most
<1>4. CASE Refuse \/ Fair
  BY <1>4 DEF Refuse, Fair, Paced, RaisedBeyond
<1>5. CASE Over
  <2>1. /\ pc' = "growing" /\ lo' = Unit /\ hi' = 2 * Unit /\ iterations' = 0
    BY <1>5 DEF Over, Paced
  <2>2. QED BY <2>1, <1>1, <1>2 DEF Paced, RaisedBeyond
<1>6. CASE Under
  <2>1. pc' = "shrinking" /\ hi' = Unit /\ iterations' = 0
    BY <1>6 DEF Under, Paced
  <2>2. QED BY <2>1, <1>1, <1>2 DEF Paced, RaisedBeyond
<1>7. CASE Grow
  <2>1. /\ lo' = hi /\ hi' = 2 * hi /\ F(hi) > 0 /\ F(Unit) > 0
        /\ market' = market /\ iterations' = iterations + 1
        /\ pc' = IF hi' > KMax THEN "raised" ELSE "growing"
        /\ Doubled[iterations] <= lo /\ hi = 2 * lo
    BY <1>7 DEF Grow, Paced, IInv, Growing
  <2>2. RaisedBeyond'
    <3>1. SUFFICES ASSUME pc' = "raised"
                   PROVE  (F(Unit) > 0 /\ \E x \in Nat : KMax < 2 * x /\ F(x) > 0)'
      BY DEF RaisedBeyond
    <3>2. KMax < 2 * hi
      BY <2>1, <3>1, <1>1
    <3>3. QED BY <2>1, <3>2, <1>1 DEF F
  <2>3. Doubled[iterations'] <= lo'
    BY <2>1, <1>1, <1>2
  <2>4. pc' = "growing" => hi' = 2 * lo' /\ hi' <= KMax
    BY <2>1, <1>1
  <2>5. QED BY <2>1, <2>2, <2>3, <2>4 DEF Paced
<1>8. CASE Shrink
  <2>1. /\ hi' = lo /\ lo' = lo \div 2 /\ F(lo) < 0 /\ F(Unit) < 0
        /\ market' = market /\ iterations' = iterations + 1
        /\ pc' = IF lo' < KMin THEN "raised" ELSE "shrinking"
        /\ hi * Doubled[iterations] <= Unit /\ lo = hi \div 2
    BY <1>8 DEF Shrink, Paced, IInv, Shrinking
  <2>2. RaisedBeyond'
    <3>1. SUFFICES ASSUME pc' = "raised"
                   PROVE  (F(Unit) < 0 /\ \E x \in Nat : x < 2 * KMin /\ F(x) < 0)'
      BY DEF RaisedBeyond
    <3>2. lo < 2 * KMin
      BY <2>1, <3>1, <1>1
    <3>3. QED BY <2>1, <3>2, <1>1 DEF F
  <2>3. hi' * Doubled[iterations'] <= Unit
    <3> DEFINE a == Doubled[iterations]
    <3>1. 2 * lo <= hi /\ 2 * lo \in Nat
      BY <2>1, <1>1
    <3>2. a \in Nat /\ Doubled[iterations'] = 2 * a
      BY <2>1, <1>2
    <3> HIDE DEF a
    <3>3. (2 * lo) * a <= hi * a /\ (2 * lo) * a \in Nat
      BY <3>1, <3>2, <1>1, Products
    <3>4. lo * (2 * a) = (2 * lo) * a
      BY <3>2, <1>1
    <3>5. hi * a \in Nat /\ hi * a <= Unit
      BY <2>1, <3>2, <1>1 DEF a
    <3>6. (2 * lo) * a <= Unit
      BY <3>3, <3>5, <1>1
    <3>7. hi' * Doubled[iterations'] = lo * (2 * a)
      BY <2>1, <3>2
    <3>8. QED BY <3>4, <3>6, <3>7
  <2>4. QED BY <2>1, <2>2, <2>3 DEF Paced
<1>9. CASE Bracket
  <2>1. /\ pc \in {"growing", "shrinking"} /\ pc' = "bisecting"
        /\ UNCHANGED <<lo, hi, iterations, maxIter, market>>
    BY <1>9 DEF Bracket
  <2> DEFINE a == Doubled[iterations]
  <2>2. a \in Nat /\ Doubled[iterations + 1] = 2 * a
    BY <1>2
  <2> HIDE DEF a
  <2>3. a <= most /\ (hi - lo - 1) * (2 * a) <= most
    <3>1. CASE pc = "growing"
      <4>1. a <= lo /\ hi = 2 * lo /\ hi <= KMax /\ lo < hi
        BY <3>1 DEF Paced, IInv, Growing, a
      <4>2. hi - lo - 1 \in Nat /\ hi - lo - 1 <= KMax /\ 2 * a <= KMax /\ a <= KMax
        BY <4>1, <2>2, <1>1
      <4>3. 2 * a \in Nat
        BY <2>2
      <4>4. (hi - lo - 1) * (2 * a) <= KMax * KMax
        BY <4>2, <4>3, <1>1, Products
      <4>5. QED BY <4>2, <4>4, <2>2, <1>1, <1>3 DEF most
    <3>2. CASE pc = "shrinking"
      <4>1. hi * a <= Unit /\ lo = hi \div 2 /\ lo < hi
        BY <3>2 DEF Paced, IInv, Shrinking, a
      <4>2. 1 <= hi /\ hi - lo - 1 \in Nat /\ 2 * (hi - lo - 1) <= hi
        BY <4>1, <1>1
      <4>3. 1 * a <= hi * a /\ hi * a \in Nat
        <5>1. hi * a \in Nat
          BY <2>2, <1>1
        <5>2. QED BY <5>1, <4>2, <2>2, <1>1, Products
      <4>4. 2 * (hi - lo - 1) \in Nat
        BY <4>2
      <4>5. (2 * (hi - lo - 1)) * a <= hi * a /\ (2 * (hi - lo - 1)) * a \in Nat
        BY <4>2, <4>4, <2>2, <1>1, Products
      <4>6. (2 * (hi - lo - 1)) * a = (hi - lo - 1) * (2 * a)
        BY <4>2, <2>2
      <4>7. a <= Unit
        BY <4>1, <4>3, <2>2, <1>1
      <4>8. (hi - lo - 1) * (2 * a) <= Unit /\ (hi - lo - 1) * (2 * a) \in Nat
        BY <4>1, <4>3, <4>5, <4>6, <1>1
      <4>9. QED BY <4>7, <4>8, <2>2, <1>1, <1>3
    <3>3. QED BY <2>1, <3>1, <3>2
  <2>4. QED BY <2>1, <2>2, <2>3 DEF Paced, RaisedBeyond, most, a
<1>10. CASE Bisect
  <2>1. /\ pc = "bisecting" /\ lo < hi
        /\ k' = (lo + hi) \div 2 /\ iterations' = iterations + 1
        /\ market' = market /\ maxIter' = maxIter
    BY <1>10 DEF Bisect, IInv, Bisecting
  <2>2. CASE pc' = "solved"
    BY <2>2 DEF Paced, RaisedBeyond
  <2>3. CASE /\ hi - lo > Larger(Unit, k') \div Unit /\ pc' = pc
             /\ IF F(k') > 0 THEN lo' = k' /\ hi' = hi ELSE hi' = k' /\ lo' = lo
    <3> DEFINE a == Doubled[iterations + 1]
               w == hi - lo - 1
               v == hi' - lo' - 1
    <3>1. k' \in Nat /\ lo <= k' /\ k' < hi
      BY <2>1, <1>1, Midpoint
    <3>2. w \in Nat /\ w >= 1
      BY <2>1, <2>3, <3>1, <1>1, WidthPositive
    <3>3. v \in Nat /\ 2 * v <= w
      <4>1. lo < k'
        BY <2>1, <3>2, <1>1, Midpoint
      <4>2. CASE lo' = k' /\ hi' = hi
        BY <4>1, <4>2, <2>1, <3>1, <1>1
      <4>3. CASE hi' = k' /\ lo' = lo
        BY <4>1, <4>3, <2>1, <3>1, <1>1
      <4>4. QED BY <2>3, <4>2, <4>3
    <3>4. a \in Nat /\ Doubled[iterations' + 1] = 2 * a /\ Doubled[iterations'] = a
      BY <2>1, <1>2
    <3>5. w * a <= most
      BY <2>1 DEF Paced, most
    <3> HIDE DEF a, w, v
    <3>6. 1 * a <= w * a /\ w * a \in Nat
      <4>1. w * a \in Nat
        BY <3>2, <3>4
      <4>2. QED BY <4>1, <3>2, <3>4, Products
    <3>7. 2 * v \in Nat
      BY <3>3
    <3>8. (2 * v) * a <= w * a /\ (2 * v) * a \in Nat
      BY <3>2, <3>3, <3>4, <3>7, Products
    <3>9. (2 * v) * a = v * (2 * a)
      BY <3>3, <3>4
    <3>10. a <= most
      BY <3>4, <3>5, <3>6, <1>3
    <3>11. v * (2 * a) <= most
      <4>1. (2 * v) * a <= most
        BY <3>5, <3>6, <3>8, <1>3
      <4>2. QED BY <4>1, <3>9
    <3>12. QED BY <2>1, <2>3, <3>4, <3>10, <3>11 DEF Paced, RaisedBeyond, v, most
  <2>4. QED BY <1>10, <2>2, <2>3 DEF Bisect
<1>11. CASE GiveUp
  <2>1. /\ pc = "bisecting" /\ iterations >= maxIter /\ pc' = "raised"
        /\ UNCHANGED <<market, maxIter>>
    BY <1>11 DEF GiveUp
  <2>2. Doubled[iterations] <= most /\ most < Doubled[Enough]
    BY <2>1, EnoughAssumption DEF Paced, most
  <2>3. ~(maxIter >= Enough)
    <3>1. SUFFICES ASSUME Enough <= iterations PROVE FALSE
      BY <2>1, <1>1
    <3>2. Doubled[Enough] <= Doubled[iterations] /\ Doubled[Enough] \in Nat
      BY <3>1, <1>1, DoubledGrows, DoubledForm
    <3>3. QED BY <2>2, <3>2, <1>2, <1>3
  <2>4. QED BY <2>1, <2>3 DEF Paced, RaisedBeyond
<1>12. CASE UNCHANGED vars
  BY <1>12 DEF vars, Paced, RaisedBeyond, F
<1>13. QED
  BY <1>4, <1>5, <1>6, <1>7, <1>8, <1>9, <1>10, <1>11, <1>12 DEF Next

\* The pace is kept in every run.
LEMMA AlwaysPaced ==
  ASSUME IntegerExcess
  PROVE  Spec => []Paced
<1>1. Init => Paced
  BY DEF Init, Paced, RaisedBeyond
<1>2. IInv /\ Paced /\ [Next]_vars => Paced'
  BY PacedStep
<1>3. QED BY <1>1, <1>2, Inductive, PTL DEF Spec

\* RaisesOnlyBeyondBounds, but for the error of rounding.
RaisesBeyond(error) ==
    pc = "raised" /\ maxIter >= Enough =>
       \/ F(Unit) > 0 /\ F(KMax \div 2) > 0 - error
       \/ F(Unit) < 0 /\ F(2 * KMin) < error

\* No market is given up for want of iterations, although doubling, halving and
\* bisecting share one count, for every f that falls within any error.
THEOREM NeverOutOfIterations ==
  ASSUME IntegerExcess, NEW error \in Nat, FallsWithin(error)
  PROVE  Spec => []RaisesBeyond(error)
<1>1. IInv /\ Paced => RaisesBeyond(error)
  BY BeyondBounds DEF IInv, Paced, RaisedBeyond, RaisesBeyond
<1>2. QED BY <1>1, Inductive, AlwaysPaced, PTL

\* devig.py:60: for a falling f and the default max_iter, an exception means that f has
\* no root between twice _K_MIN and half of _K_MAX.
THEOREM GivesUpOnlyBeyondBounds ==
  ASSUME IntegerExcess, FallsWithin(0)
  PROVE  Spec => []RaisesOnlyBeyondBounds
<1>1. IInv /\ Paced => RaisesOnlyBeyondBounds
  <2>1. SUFFICES ASSUME IInv, Paced PROVE RaisesOnlyBeyondBounds
    OBVIOUS
  <2>2. 0 \in Nat /\ 0 - 0 = 0
    OBVIOUS
  <2>3. RaisesBeyond(0)
    BY <2>1, <2>2, BeyondBounds DEF IInv, Paced, RaisedBeyond, RaisesBeyond
  <2>4. QED BY <2>2, <2>3 DEF RaisesBeyond, RaisesOnlyBeyondBounds
<1>2. QED BY <1>1, Inductive, AlwaysPaced, PTL
-----------------------------------------------------------------------------
\* A set that holds 0 and, with each number below N, the next, holds all up to N.
LEMMA UpTo ==
  ASSUME NEW N \in Nat, NEW S, 0 \in S, \A n \in 1..N : n - 1 \in S => n \in S
  PROVE  \A n \in 0..N : n \in S
<1> DEFINE Bad == {n \in Nat : n <= N /\ n \notin S}
<1>1. SUFFICES ASSUME Bad # {} PROVE FALSE
  OBVIOUS
<1>2. PICK m \in Bad : \A n \in Bad : m <= n
  BY <1>1, Least
<1>3. m \in 1..N /\ m - 1 \in 0..N /\ m - 1 \notin Bad
  BY <1>2
<1>4. QED BY <1>2, <1>3

\* A function up to N is determined by its first value and what follows each value.
Runs(n, V, base, step) ==
    {h \in [0..n -> V] : h[0] = base /\ \A i \in 1..n : h[i] = step[i][h[i - 1]]}

LEMMA Recursion ==
  ASSUME NEW N \in Nat, NEW V, NEW base \in V, NEW step \in [1..N -> [V -> V]]
  PROVE  Runs(N, V, base, step) # {}
<1> DEFINE S == {n \in 0..N : Runs(n, V, base, step) # {}}
<1>1. 0 \in S
  <2>1. [i \in 0..0 |-> base] \in Runs(0, V, base, step)
    BY DEF Runs
  <2>2. QED BY <2>1
<1>2. ASSUME NEW n \in 1..N, n - 1 \in S PROVE n \in S
  <2>1. PICK g : g \in Runs(n - 1, V, base, step)
    BY <1>2
  <2> DEFINE h == [i \in 0..n |-> IF i = n THEN step[n][g[n - 1]] ELSE g[i]]
  <2>2. n - 1 \in 0..(n - 1) /\ g \in [0..(n - 1) -> V] /\ g[n - 1] \in V /\ g[0] = base
    BY <2>1 DEF Runs
  <2>3. h \in [0..n -> V]
    <3>1. step[n][g[n - 1]] \in V
      BY <2>2
    <3>2. QED BY <2>2, <3>1
  <2>4. h[0] = base
    BY <2>2
  <2>5. ASSUME NEW i \in 1..n PROVE h[i] = step[i][h[i - 1]]
    <3>1. i - 1 \in 0..(n - 1) /\ i - 1 # n /\ i \in 0..n /\ i - 1 \in 0..n
      OBVIOUS
    <3>2. h[i - 1] = g[i - 1]
      BY <3>1
    <3>3. CASE i = n
      BY <3>1, <3>2, <3>3
    <3>4. CASE i # n
      BY <3>1, <3>2, <3>4, <2>1 DEF Runs
    <3>5. QED BY <3>3, <3>4
  <2>6. h \in Runs(n, V, base, step)
    BY <2>3, <2>4, <2>5 DEF Runs
  <2>7. QED BY <2>6
<1> HIDE DEF S
<1>3. \A n \in 0..N : n \in S
  BY <1>1, <1>2, UpTo
<1>4. QED BY <1>3 DEF S

\* The fixed point.
LEMMA OneForm == One \in Nat /\ One > 0
<1>1. Bits \in Nat /\ 0 \in Nat /\ 0 <= Bits
  BY ClvAssumption
<1>2. Doubled[Bits] \in Nat /\ Doubled[0] = 1
  BY <1>1, DoubledForm
<1>3. Doubled[0] <= Doubled[Bits]
  BY <1>1, DoubledGrows
<1>4. QED BY <1>2, <1>3 DEF One

\* A product is rounded up, and never exceeds a factor the other of which is at most 1.
LEMMA TimesForm ==
  ASSUME NEW p \in Nat, NEW q \in Nat
  PROVE  /\ Times(p, q) \in Nat
         /\ p * q <= Times(p, q) * One
         /\ q <= One => Times(p, q) <= p
         /\ Times(One, q) = q
<1>1. One \in Nat /\ One > 0
  BY OneForm
<1> DEFINE O == One
<1> HIDE DEF O
<1>2. \A a \in Nat : LET d == (a + O - 1) \div O IN d \in Nat /\ O * d <= a + O - 1 /\ a + O - 1 < O * d + O
  BY <1>1 DEF O
<1>3. p * q \in Nat
  OBVIOUS
<1> DEFINE d == (p * q + O - 1) \div O
<1>4. d \in Nat /\ O * d <= p * q + O - 1 /\ p * q + O - 1 < O * d + O
  BY <1>2, <1>3
<1> HIDE DEF d
<1>5. p * q <= d * O
  BY <1>1, <1>3, <1>4 DEF O
<1>6. ASSUME q <= O PROVE d <= p
  <2>1. p * q <= p * O
    BY <1>1, <1>6, Products DEF O
  <2>2. O * d < O * (p + 1)
    BY <1>1, <1>3, <1>4, <2>1 DEF O
  <2>3. QED BY <1>1, <1>4, <2>2 DEF O
<1>7. (O * q + O - 1) \div O = q
  <2> DEFINE e == (O * q + O - 1) \div O
  <2>1. O * q \in Nat
    BY <1>1 DEF O
  <2>2. e \in Nat /\ O * e <= O * q + O - 1 /\ O * q + O - 1 < O * e + O
    BY <1>2, <2>1
  <2> HIDE DEF e
  <2>3. O * e < O * (q + 1) /\ O * q < O * (e + 1)
    BY <1>1, <2>1, <2>2 DEF O
  <2>4. e < q + 1 /\ q < e + 1
    BY <1>1, <2>2, <2>3 DEF O
  <2>5. e = q
    BY <2>2, <2>4
  <2>6. QED BY <2>5 DEF e
<1>8. QED BY <1>1, <1>4, <1>5, <1>6, <1>7 DEF Times, O, d

\* A root is rounded up too.
LEMMA RootForm ==
  ASSUME NEW p \in 0..One
  PROVE  /\ SquareRoot(p) \in 0..One
         /\ p * One <= SquareRoot(p) * SquareRoot(p)
<1>1. One \in Nat /\ One > 0
  BY OneForm
<1> DEFINE Enclosing == {r \in Nat : r <= One /\ p * One <= r * r}
<1>2. One \in Enclosing
  <2>1. p * One <= One * One
    BY <1>1, Products
  <2>2. QED BY <1>1, <2>1
<1>3. PICK r \in Enclosing : \A s \in Enclosing : r <= s
  BY <1>1, <1>2, Least
<1>4. r = 0 \/ (r - 1) * (r - 1) < p * One
  <2>1. SUFFICES ASSUME r # 0 PROVE (r - 1) * (r - 1) < p * One
    OBVIOUS
  <2>2. r - 1 \in 0..One /\ r - 1 \notin Enclosing
    BY <1>1, <1>3, <2>1
  <2>3. (r - 1) * (r - 1) \in Int /\ p * One \in Int
    BY <1>1, <2>2
  <2>4. QED BY <2>2, <2>3
<1>5. \E s \in 0..One : p * One <= s * s /\ (s = 0 \/ (s - 1) * (s - 1) < p * One)
  BY <1>3, <1>4
<1>6. QED BY <1>5 DEF SquareRoot

\* The functions that WholePower, Roots and Power build, one value at a time.
WholeStep(p, n, whole) == [i \in 0..n |-> IF i = 0 THEN One ELSE Times(whole[i - 1], p)]

RootStep(p, root) == [n \in 0..UnitBits |-> IF n = 0 THEN p ELSE SquareRoot(root[n - 1])]

Bit(x, n) == (x \div Doubled[UnitBits - n]) % 2 = 1

PowerStep(p, x, power) ==
    [n \in 0..UnitBits |->
        IF n = 0 THEN WholePower(p, x \div Unit)
        ELSE IF Bit(x, n) THEN Times(power[n - 1], Roots[p][n]) ELSE power[n - 1]]

\* A whole power of a probability is a probability, at most its base, and the first
\* is the base.
LEMMA WholeForm ==
  ASSUME NEW p \in 0..One, NEW n \in Nat
  PROVE  /\ WholePower(p, n) \in 0..One
         /\ n = 0 => WholePower(p, n) = One
         /\ n >= 1 => WholePower(p, n) <= p
         /\ n = 1 => WholePower(p, n) = p
<1>1. One \in Nat /\ One > 0 /\ p \in Nat /\ p <= One
  BY OneForm
<1>2. ASSUME NEW q \in 0..One PROVE Times(q, p) \in 0..One /\ Times(q, p) <= q
  BY <1>1, <1>2, TimesForm
<1> DEFINE step == [i \in 1..n |-> [q \in 0..One |-> Times(q, p)]]
           V == 0..One
<1>3. step \in [1..n -> [V -> V]] /\ One \in V
  BY <1>1, <1>2
<1>4. \A i \in 1..n, q \in V : step[i][q] = Times(q, p)
  OBVIOUS
<1> HIDE DEF step
<1>5. PICK h : h \in Runs(n, V, One, step)
  <2> HIDE DEF V
  <2>1. Runs(n, V, One, step) # {}
    BY <1>3, Recursion
  <2>2. QED BY <2>1
<1>6. h = WholeStep(p, n, h)
  <2>1. h \in [0..n -> V] /\ h[0] = One
    BY <1>5 DEF Runs
  <2>2. ASSUME NEW i \in 1..n PROVE h[i] = Times(h[i - 1], p)
    <3>1. h[i] = step[i][h[i - 1]] /\ h[i - 1] \in V
      BY <1>5 DEF Runs
    <3>2. QED BY <3>1, <1>4
  <2>3. QED BY <2>1, <2>2 DEF WholeStep
<1> DEFINE w == CHOOSE whole : whole = WholeStep(p, n, whole)
<1>7. w = WholeStep(p, n, w)
  BY <1>6
<1>8. WholePower(p, n) = w[n]
  BY DEF WholePower, WholeStep
<1> HIDE DEF w
<1>9. /\ w[0] = One
      /\ \A i \in 1..n : w[i] = Times(w[i - 1], p)
  BY <1>7 DEF WholeStep
<1> DEFINE S == {i \in Nat : w[i] \in 0..One /\ (i >= 1 => w[i] <= p)}
<1>10. 0 \in S
  BY <1>1, <1>9
<1>11. n >= 1 => w[1] = p
  <2>1. Times(One, p) = p
    BY <1>1, TimesForm
  <2>2. n >= 1 => w[1] = Times(w[1 - 1], p) /\ w[1 - 1] = One
    BY <1>9
  <2>3. QED BY <2>1, <2>2
<1>12. ASSUME NEW i \in 1..n, i - 1 \in S PROVE i \in S
  <2>1. w[i] \in 0..One /\ w[i] <= w[i - 1]
    BY <1>2, <1>9, <1>12
  <2>2. CASE i = 1
    BY <2>1, <2>2, <1>1, <1>11
  <2>3. CASE i # 1
    BY <2>1, <2>3, <1>1, <1>12
  <2>4. QED BY <2>2, <2>3
<1> HIDE DEF S
<1>13. n \in S
  BY <1>10, <1>12, UpTo
<1>14. QED BY <1>8, <1>9, <1>11, <1>13 DEF S

\* The roots are probabilities, each squared at least the one before it.
LEMMA RootsForm ==
  ASSUME NEW p \in QuotedProbs, p \in 0..One
  PROVE  \E r \in [0..UnitBits -> 0..One] :
            /\ r[0] = p
            /\ \A n \in 1..UnitBits : Roots[p][n] = r[n] /\ r[n - 1] * One <= r[n] * r[n]
<1>1. UnitBits \in Nat
  BY ClvAssumption
<1> DEFINE V == 0..One
           step == [i \in 1..UnitBits |-> [q \in V |-> SquareRoot(q)]]
<1>2. step \in [1..UnitBits -> [V -> V]]
  BY RootForm
<1>3. \A i \in 1..UnitBits, q \in V : step[i][q] = SquareRoot(q)
  OBVIOUS
<1> HIDE DEF step
<1>4. PICK h : h \in Runs(UnitBits, V, p, step)
  <2>1. p \in V
    OBVIOUS
  <2> HIDE DEF V
  <2>2. Runs(UnitBits, V, p, step) # {}
    BY <1>1, <1>2, <2>1, Recursion
  <2>3. QED BY <2>2
<1>5. h = RootStep(p, h)
  <2>1. h \in [0..UnitBits -> V] /\ h[0] = p
    BY <1>4 DEF Runs
  <2>2. ASSUME NEW i \in 1..UnitBits PROVE h[i] = SquareRoot(h[i - 1])
    <3>1. h[i] = step[i][h[i - 1]] /\ h[i - 1] \in V
      BY <1>1, <1>4 DEF Runs
    <3>2. QED BY <3>1, <1>3
  <2>3. QED BY <2>1, <2>2, <1>1 DEF RootStep
<1> DEFINE r == CHOOSE root : root = RootStep(p, root)
<1>6. r = RootStep(p, r)
  BY <1>5
<1>7. Roots[p] = [n \in 1..UnitBits |-> r[n]]
  BY DEF Roots, RootStep
<1> HIDE DEF r
<1>8. r[0] = p /\ \A n \in 1..UnitBits : r[n] = SquareRoot(r[n - 1])
  BY <1>1, <1>6 DEF RootStep
<1> DEFINE S == {n \in Nat : r[n] \in V}
<1>9. \A n \in 0..UnitBits : n \in S
  <2>1. 0 \in S
    BY <1>8
  <2>2. ASSUME NEW n \in 1..UnitBits, n - 1 \in S PROVE n \in S
    BY <2>2, <1>1, <1>8, RootForm
  <2> HIDE DEF S
  <2>3. QED BY <2>1, <2>2, <1>1, UpTo
<1>10. r \in [0..UnitBits -> V]
  BY <1>6, <1>9 DEF RootStep
<1>11. ASSUME NEW n \in 1..UnitBits PROVE r[n - 1] * One <= r[n] * r[n]
  <2>1. n - 1 \in 0..UnitBits
    BY <1>1
  <2>2. QED BY <2>1, <1>8, <1>10, RootForm
<1>12. QED BY <1>7, <1>8, <1>10, <1>11

\* 2^n is 2^j times 2^(n - j).
LEMMA DoubledSplits ==
  ASSUME NEW n \in Nat, NEW j \in 0..n
  PROVE  Doubled[n] = Doubled[j] * Doubled[n - j]
<1> DEFINE S == {i \in Nat : i <= n /\ Doubled[n] = Doubled[i] * Doubled[n - i]}
<1>1. 0 \in S
  <2>1. Doubled[0] = 1 /\ Doubled[n] \in Nat /\ n - 0 = n
    BY DoubledForm
  <2>2. QED BY <2>1
<1>2. ASSUME NEW i \in 1..n, i - 1 \in S PROVE i \in S
  <2>1. /\ i - 1 \in Nat /\ (i - 1) + 1 = i /\ n - i \in Nat /\ (n - i) + 1 = n - (i - 1)
    OBVIOUS
  <2>2. /\ Doubled[i] = 2 * Doubled[i - 1] /\ Doubled[n - (i - 1)] = 2 * Doubled[n - i]
        /\ Doubled[i - 1] \in Nat /\ Doubled[n - i] \in Nat
    BY <2>1, DoubledForm
  <2>3. \A a, b \in Nat : a * (2 * b) = (2 * a) * b
    OBVIOUS
  <2>4. Doubled[n] = Doubled[i - 1] * (2 * Doubled[n - i])
    BY <1>2, <2>2
  <2>5. Doubled[n] = (2 * Doubled[i - 1]) * Doubled[n - i]
    BY <2>2, <2>3, <2>4
  <2>6. QED BY <2>2, <2>5
<1> HIDE DEF S
<1>3. j \in S
  BY <1>1, <1>2, UpTo
<1>4. QED BY <1>3 DEF S

\* The exponent 1 has no fraction.
LEMMA UnitForm ==
  /\ Unit \in Nat /\ Unit > 0 /\ UnitBits \in Nat
  /\ \A n \in 1..UnitBits : ~Bit(Unit, n)
<1>1. Unit \in Nat /\ Unit > 0 /\ UnitBits \in Nat /\ Unit = Doubled[UnitBits]
  BY DevigAssumption, ClvAssumption
<1>2. ASSUME NEW n \in 1..UnitBits PROVE ~Bit(Unit, n)
  <2>1. n - 1 \in Nat /\ (n - 1) + 1 = n /\ UnitBits - n \in Nat /\ n \in 0..UnitBits
    BY <1>1
  <2> DEFINE a == Doubled[n - 1]
             b == Doubled[UnitBits - n]
  <2>2. a \in Nat /\ b \in Nat /\ Doubled[n] = 2 * a
    BY <2>1, DoubledForm
  <2>3. Unit = (2 * a) * b
    BY <1>1, <2>1, <2>2, DoubledSplits
  <2> HIDE DEF a, b
  <2>4. b > 0
    BY <1>1, <2>2, <2>3
  <2>5. ((2 * a) * b) \div b = 2 * a
    <3> DEFINE c == 2 * a
               d == (c * b) \div b
    <3>1. c \in Nat /\ c * b \in Nat
      BY <2>2
    <3> HIDE DEF c
    <3>2. d \in Nat /\ b * d <= c * b /\ c * b < b * d + b
      BY <2>2, <2>4, <3>1
    <3> HIDE DEF d
    <3>3. b * d < b * (c + 1) /\ b * c < b * (d + 1)
      BY <2>2, <2>4, <3>1, <3>2
    <3>4. d < c + 1 /\ c < d + 1
      BY <2>2, <2>4, <3>1, <3>2, <3>3
    <3>5. d = c
      BY <3>1, <3>2, <3>4
    <3>6. QED BY <3>5 DEF c, d
  <2>6. (2 * a) % 2 = 0
    BY <2>2
  <2>7. QED BY <2>3, <2>5, <2>6 DEF Bit, b
<1>3. QED BY <1>1, <1>2

\* A power of a quoted probability, however it is rounded: at most the probability
\* when the exponent is 1 or more, at least the probability when it is 1 or less.
LEMMA PowerForm ==
  ASSUME NEW p \in QuotedProbs, p \in 0..One, NEW x \in Nat
  PROVE  /\ Power(p, x) \in 0..One
         /\ x >= Unit => Power(p, x) <= p
         /\ x <= Unit => Power(p, x) >= p
<1>1. One \in Nat /\ One > 0 /\ Unit \in Nat /\ Unit > 0 /\ UnitBits \in Nat
      /\ p \in Nat /\ p <= One
  BY OneForm, UnitForm
<1>2. PICK r \in [0..UnitBits -> 0..One] :
         /\ r[0] = p
         /\ \A n \in 1..UnitBits : Roots[p][n] = r[n] /\ r[n - 1] * One <= r[n] * r[n]
  BY RootsForm
<1> DEFINE W == WholePower(p, x \div Unit)
           V == 0..One
<1>3. x \div Unit \in Nat
  BY <1>1
<1>4. W \in 0..One /\ (x >= Unit => W <= p) /\ (x < Unit => W = One) /\ (x = Unit => W = p)
  <2>1. x >= Unit => x \div Unit >= 1
    BY <1>1
  <2>2. x < Unit => x \div Unit = 0
    BY <1>1
  <2>3. x = Unit => x \div Unit = 1
    BY <1>1
  <2>4. QED BY <1>3, <2>1, <2>2, <2>3, WholeForm
<1> HIDE DEF W
<1>5. ASSUME NEW q \in V, NEW n \in 1..UnitBits
      PROVE  Times(q, r[n]) \in V /\ Times(q, r[n]) <= q
  <2>1. q \in Nat /\ q <= One /\ r[n] \in Nat /\ r[n] <= One
    BY <1>1, <1>2
  <2>2. Times(q, r[n]) \in Nat /\ Times(q, r[n]) <= q
    BY <2>1, TimesForm
  <2>3. QED BY <2>1, <2>2, <1>1
<1> DEFINE step == [n \in 1..UnitBits |->
                      [q \in V |-> IF Bit(x, n) THEN Times(q, r[n]) ELSE q]]
<1>6. step \in [1..UnitBits -> [V -> V]]
  BY <1>5
<1>7. \A n \in 1..UnitBits, q \in V : step[n][q] = IF Bit(x, n) THEN Times(q, r[n]) ELSE q
  OBVIOUS
<1> HIDE DEF step
<1>8. PICK h : h \in Runs(UnitBits, V, W, step)
  <2>1. W \in V
    BY <1>4
  <2> HIDE DEF V
  <2>2. Runs(UnitBits, V, W, step) # {}
    BY <1>1, <1>6, <2>1, Recursion
  <2>3. QED BY <2>2
<1>9. h = PowerStep(p, x, h)
  <2>1. h \in [0..UnitBits -> V] /\ h[0] = WholePower(p, x \div Unit)
    BY <1>8 DEF Runs, W
  <2>2. ASSUME NEW n \in 1..UnitBits
        PROVE  h[n] = IF Bit(x, n) THEN Times(h[n - 1], Roots[p][n]) ELSE h[n - 1]
    <3>1. h[n] = step[n][h[n - 1]] /\ h[n - 1] \in V
      BY <1>1, <1>8 DEF Runs
    <3>2. QED BY <3>1, <1>2, <1>7
  <2>3. QED BY <2>1, <2>2, <1>1 DEF PowerStep
<1> DEFINE w == CHOOSE power : power = PowerStep(p, x, power)
<1>10. w = PowerStep(p, x, w)
  BY <1>9
<1>11. Power(p, x) = w[UnitBits]
  BY DEF Power, PowerStep, Bit
<1> HIDE DEF w
<1>12. /\ w[0] = W
       /\ \A n \in 1..UnitBits : w[n] = IF Bit(x, n) THEN Times(w[n - 1], r[n]) ELSE w[n - 1]
  <2>1. w[0] = W
    BY <1>1, <1>10 DEF PowerStep, W
  <2>2. ASSUME NEW n \in 1..UnitBits
        PROVE  w[n] = IF Bit(x, n) THEN Times(w[n - 1], r[n]) ELSE w[n - 1]
    <3>1. n \in 0..UnitBits /\ n # 0
      BY <1>1
    <3>2. w[n] = IF Bit(x, n) THEN Times(w[n - 1], Roots[p][n]) ELSE w[n - 1]
      BY <3>1, <1>10 DEF PowerStep
    <3>3. QED BY <3>2, <1>2
  <2>3. QED BY <2>1, <2>2
\* Roots are at most 1: the whole power is not exceeded.
<1> DEFINE S == {n \in Nat : w[n] \in V /\ w[n] <= W}
<1>13. \A n \in 0..UnitBits : n \in S
  <2>1. 0 \in S
    BY <1>4, <1>12
  <2>2. ASSUME NEW n \in 1..UnitBits, n - 1 \in S PROVE n \in S
    <3>1. w[n - 1] \in V /\ w[n - 1] <= W /\ n \in Nat
      BY <2>2
    <3>2. w[n] = w[n - 1] \/ w[n] = Times(w[n - 1], r[n])
      BY <1>12
    <3>3. w[n] \in V /\ w[n] <= w[n - 1]
      <4>1. Times(w[n - 1], r[n]) \in V /\ Times(w[n - 1], r[n]) <= w[n - 1]
        BY <3>1, <1>5
      <4>2. w[n - 1] <= w[n - 1]
        BY <3>1, <1>1
      <4>3. QED BY <3>1, <3>2, <4>1, <4>2
    <3>4. w[n] <= W
      BY <3>1, <3>3, <1>1, <1>4
    <3>5. QED BY <3>1, <3>3, <3>4
  <2> HIDE DEF S
  <2>3. QED BY <2>1, <2>2, <1>1, UpTo
\* Below 1, what has been multiplied and the last root still make at least p.
<1>14. ASSUME x < Unit PROVE w[UnitBits] >= p
  <2> DEFINE T == {n \in Nat : n <= UnitBits /\ p * One <= w[n] * r[n]}
  <2>1. 0 \in T
    BY <1>1, <1>2, <1>4, <1>12, <1>14
  <2>2. ASSUME NEW n \in 1..UnitBits, n - 1 \in T PROVE n \in T
    <3>1. /\ n - 1 \in 0..UnitBits /\ n \in 0..UnitBits
          /\ w[n - 1] \in Nat /\ w[n] \in Nat /\ r[n - 1] \in Nat /\ r[n] \in Nat /\ r[n] <= One
          /\ p * One <= w[n - 1] * r[n - 1]
          /\ r[n - 1] * One <= r[n] * r[n]
      BY <1>1, <1>2, <1>13, <2>2
    <3> DEFINE a == w[n - 1]
               b == w[n]
               c == r[n - 1]
               e == r[n]
    <3>2. a * e <= b * One
      <4>1. CASE Bit(x, n)
        BY <4>1, <3>1, <1>12, TimesForm
      <4>2. CASE ~Bit(x, n)
        <5>1. a = b
          BY <4>2, <1>12
        <5>2. a \in Nat /\ e \in Nat /\ e <= One
          BY <3>1
        <5> HIDE DEF a, b, e
        <5>3. a * e <= a * One
          BY <5>2, <1>1, Products
        <5>4. QED BY <5>1, <5>3
      <4>3. QED BY <4>1, <4>2
    <3>3. a \in Nat /\ b \in Nat /\ c \in Nat /\ e \in Nat /\ p * One <= a * c
          /\ c * One <= e * e
      BY <3>1
    <3> HIDE DEF a, b, c, e
    <3>4. (p * One) * One <= (b * e) * One
      <4>1. (p * One) * One <= (a * c) * One
        BY <3>3, <1>1, Products
      <4>2. a * (c * One) <= a * (e * e)
        BY <3>3, <1>1, Products
      <4>3. (a * e) * e <= (b * One) * e
        BY <3>2, <3>3, <1>1, Products
      <4>4. /\ (a * c) * One = a * (c * One)
            /\ (a * e) * e = a * (e * e)
            /\ (b * One) * e = (b * e) * One
        BY <3>3, <1>1
      <4>5. /\ (p * One) * One \in Nat /\ a * (c * One) \in Nat
            /\ a * (e * e) \in Nat /\ (b * e) * One \in Nat
        BY <3>3, <1>1
      <4>6. QED BY <4>1, <4>2, <4>3, <4>4, <4>5
    <3>5. p * One <= b * e
      <4>1. p * One \in Nat /\ b * e \in Nat
        BY <3>3, <1>1
      <4>2. \A u, v \in Nat : u * One <= v * One => u <= v
        BY <1>1, Z3
      <4>3. QED BY <3>4, <4>1, <4>2
    <3>6. QED BY <3>1, <3>5 DEF b, e
  <2> HIDE DEF T
  <2>3. UnitBits \in T
    <3>1. \A n \in 0..UnitBits : n \in T
      BY <2>1, <2>2, <1>1, UpTo
    <3>2. QED BY <3>1, <1>1
  <2>4. p * One <= w[UnitBits] * r[UnitBits]
    BY <2>3 DEF T
  <2>5. w[UnitBits] \in Nat /\ r[UnitBits] \in Nat /\ r[UnitBits] <= One
    BY <1>1, <1>2, <1>13
  <2>6. w[UnitBits] * r[UnitBits] <= w[UnitBits] * One
    <3> DEFINE a == w[UnitBits]
               b == r[UnitBits]
    <3>1. a \in Nat /\ b \in Nat /\ b <= One
      BY <2>5
    <3> HIDE DEF a, b
    <3>2. a * b <= a * One
      BY <3>1, <1>1, Products
    <3>3. QED BY <3>2 DEF a, b
  <2>7. p * One <= w[UnitBits] * One
    <3>1. /\ p * One \in Nat /\ w[UnitBits] * r[UnitBits] \in Nat /\ w[UnitBits] * One \in Nat
      BY <2>5, <1>1
    <3>2. QED BY <2>4, <2>6, <3>1
  <2>8. \A u, v \in Nat : u * One <= v * One => u <= v
    BY <1>1, Z3
  <2>9. QED BY <2>5, <2>7, <2>8, <1>1
\* At 1, it is p.
<1>15. ASSUME x = Unit PROVE w[UnitBits] = p
  <2> DEFINE T == {n \in Nat : w[n] = p}
  <2>1. 0 \in T
    BY <1>4, <1>12, <1>15
  <2>2. ASSUME NEW n \in 1..UnitBits, n - 1 \in T PROVE n \in T
    BY <1>12, <1>15, <2>2, UnitForm
  <2> HIDE DEF T
  <2>3. UnitBits \in T
    <3>1. \A n \in 0..UnitBits : n \in T
      BY <2>1, <2>2, <1>1, UpTo
    <3>2. QED BY <3>1, <1>1
  <2>4. QED BY <2>3 DEF T
<1>16. w[UnitBits] \in 0..One /\ w[UnitBits] <= W
  BY <1>1, <1>13
<1>17. QED BY <1>1, <1>4, <1>11, <1>14, <1>15, <1>16

\* What a price comes to is a probability.
LEMMA ImpliedForm ==
  ASSUME NEW odds, IsPrice(odds)
  PROVE  /\ Pays(odds) \in Nat /\ Stakes(odds) \in Nat
         /\ Pays(odds) > 0 /\ Stakes(odds) > 0
         /\ ImpliedProb(odds) \in 0..One
         /\ LET s == Pays(odds) + Stakes(odds)
            IN  /\ ImpliedProb(odds) * s <= Stakes(odds) * One
                /\ Stakes(odds) * One < (ImpliedProb(odds) + 1) * s
<1>1. /\ Pays(odds) \in Nat /\ Stakes(odds) \in Nat
      /\ Pays(odds) > 0 /\ Stakes(odds) > 0
  BY DEF IsPrice, Pays, Stakes
<1>2. One \in Nat /\ One > 0
  BY OneForm
<1> DEFINE s == Pays(odds) + Stakes(odds)
           d == (Stakes(odds) * One) \div s
<1>3. s \in Nat /\ s > 0 /\ Stakes(odds) <= s /\ Stakes(odds) * One \in Nat
  BY <1>1, <1>2
<1> HIDE DEF s
<1>4. d \in Nat /\ s * d <= Stakes(odds) * One /\ Stakes(odds) * One < s * d + s
  BY <1>3
<1> HIDE DEF d
<1>5. d <= One
  <2>1. Stakes(odds) * One <= s * One
    BY <1>1, <1>2, <1>3, Products
  <2>2. s * d < s * (One + 1)
    BY <1>2, <1>3, <1>4, <2>1
  <2>3. d < One + 1
    BY <1>2, <1>3, <1>4, <2>2
  <2>4. QED BY <1>2, <1>4, <2>3
<1>6. d * s = s * d /\ (d + 1) * s = s * d + s
  BY <1>3, <1>4
<1>7. ImpliedProb(odds) = d
  BY DEF ImpliedProb, d, s
<1>8. QED BY <1>1, <1>2, <1>4, <1>5, <1>6, <1>7 DEF s

\* Of two prices, the one with the smaller probability returns more.
LEMMA SmallerReturnsMore ==
  ASSUME NEW a, NEW b, IsPrice(a), IsPrice(b), ImpliedProb(a) < ImpliedProb(b)
  PROVE  ReturnsMore(a, b)
<1> DEFINE m == Pays(a)
           c == Stakes(a)
           n == Pays(b)
           d == Stakes(b)
           p == ImpliedProb(a)
           q == ImpliedProb(b)
           O == One
<1>1. /\ m \in Nat /\ c \in Nat /\ n \in Nat /\ d \in Nat /\ p \in Nat /\ q \in Nat
      /\ m > 0 /\ c > 0 /\ n > 0 /\ d > 0 /\ O \in Nat /\ O > 0 /\ p + 1 <= q
      /\ c * O < (p + 1) * (m + c)
      /\ q * (n + d) <= d * O
  BY OneForm, ImpliedForm
<1> HIDE DEF m, c, n, d, p, q, O
<1>2. SUFFICES ASSUME m * d <= n * c PROVE FALSE
  <2>1. m * d \in Nat /\ n * c \in Nat
    BY <1>1
  <2>2. m * d > n * c
    BY <1>2, <2>1
  <2>3. QED BY <2>2 DEF ReturnsMore, m, n, c, d
<1> DEFINE s == m + c
           u == n + d
<1>3. s \in Nat /\ u \in Nat /\ s > 0 /\ u > 0
  BY <1>1
<1>4. d * s <= c * u
  <2>1. d * s = m * d + c * d /\ c * u = n * c + c * d
    BY <1>1
  <2>2. m * d \in Nat /\ n * c \in Nat /\ c * d \in Nat
    BY <1>1
  <2> HIDE DEF s, u
  <2>3. QED BY <1>2, <2>1, <2>2
<1>5. c * O < q * s
  <2>1. (p + 1) * s <= q * s
    BY <1>1, <1>3, Products
  <2>2. (p + 1) * s \in Nat /\ q * s \in Nat /\ c * O \in Nat
    BY <1>1, <1>3
  <2>3. QED BY <1>1, <2>1, <2>2
<1> HIDE DEF s, u
<1>6. (c * O) * u < (q * s) * u
  <2>1. c * O \in Nat /\ q * s \in Nat
    BY <1>1, <1>3
  <2>2. \A x, y \in Nat : x < y => x * u < y * u
    BY <1>3, Z3
  <2>3. QED BY <1>5, <2>1, <2>2
<1>7. (q * u) * s <= (d * O) * s
  <2>1. q * u <= d * O /\ q * u \in Nat /\ d * O \in Nat
    BY <1>1, <1>3 DEF u
  <2>2. QED BY <2>1, <1>3, Products
<1>8. (d * s) * O <= (c * u) * O
  <2>1. d * s \in Nat /\ c * u \in Nat
    BY <1>1, <1>3
  <2>2. QED BY <2>1, <1>1, <1>4, Products
<1>9. /\ (c * O) * u = (c * u) * O
      /\ (q * s) * u = (q * u) * s
      /\ (d * O) * s = (d * s) * O
  BY <1>1, <1>3
<1>10. (c * O) * u \in Nat /\ (q * s) * u \in Nat /\ (d * O) * s \in Nat
  BY <1>1, <1>3
<1>11. QED BY <1>6, <1>7, <1>8, <1>9, <1>10

\* A solved market has two prices or more, and its exponent is on the side of 1 on
\* which its margin is.
Solved == /\ pc \notin {"called", "refused"} => Len(market) >= 2
          /\ pc = "solved" => /\ F(Unit) > 0 => Unit <= k
                              /\ F(Unit) < 0 => k <= Unit

LEMMA AlwaysSolved ==
  ASSUME IntegerExcess
  PROVE  Spec => []Solved
<1>1. Init => Solved
  BY DEF Init, Solved
<1>2. IInv /\ Solved /\ [Next]_vars => Solved'
  <2>1. SUFFICES ASSUME IInv, Solved, [Next]_vars PROVE Solved'
    OBVIOUS
  <2>2. CASE Bisect
    <3>1. lo \in Nat /\ hi \in Nat /\ lo < hi /\ pc = "bisecting"
      BY <2>1, <2>2 DEF Bisect, IInv, TypeOK
    <3>2. k' = (lo + hi) \div 2 /\ market' = market
      BY <2>2 DEF Bisect
    <3>3. lo <= k' /\ k' <= hi /\ k' \in Nat
      BY <3>1, <3>2
    <3>4. (F(Unit) > 0 => Unit <= lo) /\ (F(Unit) < 0 => hi <= Unit)
      BY <2>1, <3>1 DEF IInv, Bracketed
    <3>5. F(Unit)' = F(Unit) /\ Unit \in Nat
      BY <3>2, DevigAssumption DEF F
    <3>6. (F(Unit)' > 0 => Unit <= k') /\ (F(Unit)' < 0 => k' <= Unit)
      BY <3>1, <3>3, <3>4, <3>5
    <3>7. QED BY <2>1, <3>1, <3>2, <3>6 DEF Solved
  <2>3. CASE Grow \/ Shrink \/ Bracket \/ GiveUp \/ UNCHANGED vars
    BY <2>1, <2>3 DEF Solved, Grow, Shrink, Bracket, GiveUp, vars, F
  <2>4. CASE Refuse \/ Fair \/ Over \/ Under
    BY <2>1, <2>4, DevigAssumption DEF Solved, Refuse, Fair, Over, Under, F
  <2>5. QED BY <2>1, <2>2, <2>3, <2>4 DEF Next
<1>3. QED BY <1>1, <1>2, Inductive, PTL DEF Spec

\* clv.py:31 to :55: whichever metric the sign of the closing margin makes the weaker
\* follows from the other, for every market and price, however coarse the rounding,
\* as long as it tells the prices of bets from those of the market.
THEOREM MetricsAgree ==
  ASSUME IntegerExcess
  PROVE  Spec => []MetricsAgreeOneWay
<1>1. IInv /\ Solved => MetricsAgreeOneWay
  <2>1. SUFFICES ASSUME IInv, Solved, pc = "solved", NEW bet \in Prices
                 PROVE  /\ Overround > 0 /\ PointsPositive(bet) => PctPositive(bet)
                        /\ Overround < 0 /\ PctPositive(bet) => PointsPositive(bet)
    BY DEF MetricsAgreeOneWay
  <2> DEFINE close == market[1]
             p == ImpliedProb(close)
             q == ImpliedProb(bet)
  <2>2. market \in Markets /\ Len(market) >= 2 /\ k \in Nat
    BY <2>1 DEF IInv, TypeOK, Solved
  <2>3. market \in Seq(Int) /\ 1 \in DOMAIN market /\ IsPrice(close) /\ IsPrice(bet)
    BY <2>2, ClvAssumption
  <2>4. p \in QuotedProbs
    BY <2>2, <2>3 DEF QuotedProbs
  <2>5. p \in 0..One /\ q \in 0..One /\ One \in Nat
    BY <2>3, ImpliedForm, OneForm
  <2>6. FairProb(1) = Power(p, k)
    BY DEF FairProb
  <2>7. /\ FairProb(1) \in 0..One
        /\ Unit <= k => FairProb(1) <= p
        /\ k <= Unit => FairProb(1) >= p
    <3> HIDE DEF p
    <3>1. Unit \in Nat
      BY DevigAssumption
    <3>2. QED BY <3>1, <2>2, <2>4, <2>5, <2>6, PowerForm
  <2>8. ASSUME Overround > 0, PointsPositive(bet) PROVE PctPositive(bet)
    <3>1. FairProb(1) <= p
      BY <2>1, <2>7, <2>8 DEF Overround, Solved
    <3>2. q < p
      BY <3>1, <2>5, <2>7, <2>8 DEF PointsPositive
    <3>3. QED BY <3>2, <2>3, SmallerReturnsMore DEF PctPositive
  <2>9. ASSUME Overround < 0, PctPositive(bet) PROVE PointsPositive(bet)
    <3>1. FairProb(1) >= p
      BY <2>1, <2>7, <2>9 DEF Overround, Solved
    <3>2. q < p
      BY <2>2, <2>9, ResolutionAssumption DEF PctPositive
    <3>3. QED BY <3>1, <3>2, <2>5, <2>7 DEF PointsPositive
  <2>10. QED BY <2>8, <2>9
<1>2. QED BY <1>1, Inductive, AlwaysSolved, PTL
=============================================================================
