-------------------------- MODULE OddsBudget_proofs --------------------------
(***************************************************************************)
(* Proofs about OddsBudget for every number of pollers and rows, every     *)
(* cost, allowance, number of periods and floor, with every fault.         *)
(***************************************************************************)
EXTENDS OddsBudget, FiniteSetTheorems, WellFoundedInduction, TLAPS

Running(p) == pc[p] # "idle"

\* A row is the row of one poll, and has recorded nothing before that poll's
\* commit; neither has a slot without a row.
Rows ==
    /\ \A p, q \in Pollers : p # q /\ Running(p) /\ Running(q) => run[p] # run[q]
    /\ \A p \in Pollers : Running(p) => left[run[p]] = Unset
    /\ \A i \in PollIds : ~Contains(opened, i) => left[i] = Unset

\* Within a period credits only go down, so what was answered is not too low.
Answers ==
    period = 1 => \A p \in Pollers : answer[p] \in Balance => answer[p] >= credits

\* A poll on its way to the request was allowed by its own gate.
Gated ==
    \A p \in Pollers : pc[p] = "request" => Allowed(gate[p].known, gate[p].reserved)

\* Polls that never overlapped: at most one is running, and its row is the last.
OneAtATime ==
    ~overlapped => /\ \A p, q \in Pollers : Running(p) /\ Running(q) => p = q
                   /\ \A p \in Pollers : Running(p) => opened[Len(opened)] = run[p]

\* The row at n is the last that recorded a balance.
LastKnown(n) == /\ left[opened[n]] \in Balance
                /\ \A m \in n + 1 .. Len(opened) : left[opened[m]] = Unset

\* A poll that has been charged and has not recorded it.
Charged(p) == pc[p] \in {"answered", "pinged"}

\* If besides no charge was forgotten, neither the last recorded balance (but
\* for a charge still to be recorded) nor what a poll holds of it says more than
\* the API has left.
NoneTooHigh ==
    ~overlapped /\ ~forgotten =>
       /\ (\A p \in Pollers : ~Charged(p)) =>
             \A n \in 1..Len(opened) : LastKnown(n) => left[opened[n]] <= credits
       /\ \A p \in Pollers :
             /\ pc[p] = "request" /\ gate[p].known \in Balance => gate[p].known <= credits
             /\ Charged(p) /\ answer[p] \in Balance => answer[p] <= credits

\* The inductive invariant.  ReserveKept is about one step, but the bound on what
\* the gate knew was laid down when an earlier poll committed.
IInv == /\ TypeOK
        /\ Rows
        /\ Answers
        /\ Gated
        /\ OneAtATime
        /\ NoneTooHigh
        /\ NeverUnderestimates
-----------------------------------------------------------------------------
\* Less-than on the naturals is well-founded, as a set of pairs.
LEMMA NatPairs == IsWellFoundedOn({ss \in Nat \X Nat : ss[1] < ss[2]}, Nat)
<1>1. OpToRel(<, Nat) = {ss \in Nat \X Nat : ss[1] < ss[2]}
  BY DEF OpToRel
<1>2. QED BY <1>1, NatLessThanWellFounded

\* A set of natural numbers has a least element.
LEMMA Least ==
  ASSUME NEW S, S \subseteq Nat, S # {}
  PROVE  \E m \in S : \A n \in S : m <= n
<1> DEFINE R == {ss \in Nat \X Nat : ss[1] < ss[2]}
<1>1. IsWellFoundedOn(R, Nat)
  BY NatPairs
<1> HIDE DEF R
<1>2. PICK m \in S : \A y \in S : ~(<<y, m>> \in R)
  BY <1>1, WFMin
<1>3. ASSUME NEW n \in S PROVE m <= n
  <2>1. m \in Nat /\ n \in Nat
    OBVIOUS
  <2>2. <<n, m>> \notin R /\ <<n, m>> \in Nat \X Nat
    BY <1>2, <2>1
  <2>3. ~(n < m)
    BY <2>2, SMT DEF R
  <2>4. QED BY <2>1, <2>3
<1>4. QED BY <1>3

\* A set of places in a sequence has a last one, and Max is it.
LEMMA Greatest ==
  ASSUME NEW N \in Nat, NEW S, S \subseteq 1..N, S # {}
  PROVE  Max(S) \in S /\ \A n \in S : n <= Max(S)
<1> DEFINE T == {N - n : n \in S}
<1>1. T \subseteq Nat /\ T # {}
  <2>1. \A n \in S : n \in 1..N
    OBVIOUS
  <2>2. \A n \in 1..N : N - n \in Nat
    OBVIOUS
  <2>3. QED BY <2>1, <2>2
<1> HIDE DEF T
<1>2. PICK t \in T : \A u \in T : t <= u
  BY <1>1, Least
<1>3. PICK m \in S : t = N - m
  BY DEF T
<1>4. \A n \in S : N - m <= N - n
  BY <1>2, <1>3 DEF T
<1>5. \A n \in S : m >= n
  BY <1>4
<1>6. QED BY <1>5 DEF Max

\* A sequence without its n-th element.
LEMMA RemoveAtForm ==
  ASSUME NEW S, NEW s \in Seq(S), NEW n \in 1..Len(s)
  PROVE  /\ RemoveAt(s, n) \in Seq(S)
         /\ Len(RemoveAt(s, n)) = Len(s) - 1
         /\ \A i \in 1..Len(s) - 1 :
               RemoveAt(s, n)[i] = IF i < n THEN s[i] ELSE s[i + 1]
<1> DEFINE a == SubSeq(s, 1, n - 1)
           b == SubSeq(s, n + 1, Len(s))
<1>1. /\ a \in Seq(S) /\ Len(a) = n - 1
      /\ \A i \in 1..n - 1 : a[i] = s[i]
  OBVIOUS
<1>2. b \in Seq(S) /\ Len(b) = Len(s) - n
  OBVIOUS
<1>3. \A i \in 1..Len(s) - n : b[i] = s[i + n]
  OBVIOUS
<1> HIDE DEF a, b
<1>4. /\ a \o b \in Seq(S) /\ Len(a \o b) = Len(s) - 1
      /\ \A i \in 1..n - 1 : (a \o b)[i] = a[i]
      /\ \A i \in n..Len(s) - 1 : (a \o b)[i] = b[i - (n - 1)]
  <2>1. Len(s) \in Nat /\ n \in Nat /\ Len(a) + Len(b) = Len(s) - 1
    BY <1>1, <1>2
  <2>2. a \o b \in Seq(S) /\ Len(a \o b) = Len(a) + Len(b)
    <3>1. a \in Seq(S) /\ b \in Seq(S)
      BY <1>1, <1>2
    <3>2. QED BY <3>1
  <2>3. \A i \in 1..Len(a) + Len(b) :
           (a \o b)[i] = IF i <= Len(a) THEN a[i] ELSE b[i - Len(a)]
    BY <1>1, <1>2
  <2>4. ASSUME NEW i \in 1..n - 1 PROVE (a \o b)[i] = a[i]
    <3>1. i \in 1..Len(a) + Len(b) /\ i <= Len(a)
      BY <1>1, <2>1
    <3>2. QED BY <2>3, <3>1
  <2>5. ASSUME NEW i \in n..Len(s) - 1 PROVE (a \o b)[i] = b[i - (n - 1)]
    <3>1. i \in 1..Len(a) + Len(b) /\ ~(i <= Len(a))
      BY <1>1, <2>1
    <3>2. QED BY <1>1, <2>3, <3>1
  <2>6. QED BY <2>1, <2>2, <2>4, <2>5
<1>5. ASSUME NEW i \in n..Len(s) - 1 PROVE (a \o b)[i] = s[i + 1]
  <2>1. i - (n - 1) \in 1..Len(s) - n /\ (i - (n - 1)) + n = i + 1
    OBVIOUS
  <2>2. QED BY <2>1, <1>3, <1>4
<1>6. RemoveAt(s, n) = a \o b
  BY DEF RemoveAt, a, b
<1>7. QED BY <1>1, <1>4, <1>5, <1>6

\* Giving a row back takes it, and nothing else, off the list, and leaves the
\* order of the others.
LEMMA GiveBackForm ==
  ASSUME TypeOK, NEW p \in Pollers, Running(p), GiveBack(p)
  PROVE  /\ opened' \in Seq(PollIds) /\ IsInjective(opened')
         /\ Len(opened') = Len(opened) - 1
         /\ \A i \in PollIds : Contains(opened', i) <=> Contains(opened, i) /\ i # run[p]
         /\ opened[Len(opened)] = run[p] =>
               \A n \in 1..Len(opened') : opened'[n] = opened[n]
<1>1. opened \in Seq(PollIds) /\ IsInjective(opened) /\ Contains(opened, run[p])
  BY DEF TypeOK, Running
<1>2. PICK n \in 1..Len(opened) : opened[n] = run[p]
  BY <1>1 DEF Contains
<1>3. \A m \in 1..Len(opened) : opened[m] = run[p] => m = n
  BY <1>1, <1>2 DEF IsInjective
<1>4. opened' = RemoveAt(opened, n)
  BY <1>1, <1>2, <1>3 DEF GiveBack
<1>5. /\ opened' \in Seq(PollIds)
      /\ Len(opened') = Len(opened) - 1
      /\ \A i \in 1..Len(opened) - 1 :
            opened'[i] = IF i < n THEN opened[i] ELSE opened[i + 1]
  BY <1>1, <1>4, RemoveAtForm
<1>6. IsInjective(opened')
  <2>1. DOMAIN opened' = 1..Len(opened) - 1 /\ DOMAIN opened = 1..Len(opened)
    BY <1>1, <1>5
  <2>2. ASSUME NEW i \in 1..Len(opened) - 1, NEW j \in 1..Len(opened) - 1,
               opened'[i] = opened'[j]
        PROVE  i = j
    <3>1. \A x, y \in 1..Len(opened) : opened[x] = opened[y] => x = y
      BY <1>1, <2>1 DEF IsInjective
    <3>2. /\ i \in 1..Len(opened) /\ i + 1 \in 1..Len(opened)
          /\ j \in 1..Len(opened) /\ j + 1 \in 1..Len(opened)
      BY <1>1
    <3> DEFINE before(x) == IF x < n THEN x ELSE x + 1
    <3>3. opened[before(i)] = opened[before(j)]
      BY <1>5, <2>2
    <3>4. before(i) \in 1..Len(opened) /\ before(j) \in 1..Len(opened)
      BY <3>2
    <3>5. before(i) = before(j)
      <4> HIDE DEF before
      <4>1. QED BY <3>1, <3>3, <3>4
    <3>6. QED BY <3>2, <3>5
  <2>3. QED BY <2>1, <2>2 DEF IsInjective
<1>7. ASSUME NEW i \in PollIds
      PROVE  Contains(opened', i) <=> Contains(opened, i) /\ i # run[p]
  <2>1. ASSUME NEW m \in 1..Len(opened'), opened'[m] = i
        PROVE  Contains(opened, i) /\ i # run[p]
    BY <2>1, <1>1, <1>2, <1>3, <1>5 DEF Contains
  <2>2. ASSUME NEW m \in 1..Len(opened), opened[m] = i, i # run[p]
        PROVE  Contains(opened', i)
    <3>1. CASE m < n
      BY <3>1, <2>2, <1>1, <1>5 DEF Contains
    <3>2. CASE m > n
      <4>1. m - 1 \in 1..Len(opened) - 1 /\ ~(m - 1 < n) /\ (m - 1) + 1 = m
        BY <3>2, <1>1
      <4>2. opened'[m - 1] = i
        BY <4>1, <2>2, <1>5
      <4>3. QED BY <4>1, <4>2, <1>5 DEF Contains
    <3>3. QED BY <3>1, <3>2, <2>2, <1>2
  <2>3. QED BY <2>1, <2>2 DEF Contains
<1>8. opened[Len(opened)] = run[p] => \A m \in 1..Len(opened') : opened'[m] = opened[m]
  <2>1. SUFFICES ASSUME opened[Len(opened)] = run[p]
                 PROVE  n = Len(opened)
    BY <1>1, <1>2, <1>5
  <2>2. Len(opened) \in 1..Len(opened)
    BY <1>1, <1>2
  <2>3. QED BY <2>1, <2>2, <1>3
<1>9. QED BY <1>5, <1>6, <1>7, <1>8

\* The balance the gate reads is one that was recorded, or none.
LEMMA RemainingForm ==
  ASSUME TypeOK, NEW p \in Pollers
  PROVE  /\ Remaining(p) \in Balance \cup {Null}
         /\ Remaining(p) # Null => \E n \in 1..Len(opened) :
               /\ Remaining(p) = left[opened[n]]
               /\ \A m \in n + 1 .. Len(opened) :
                     left[opened[m]] = Unset \/ opened[m] = run[p]
<1> DEFINE others == {n \in Recorded : opened[n] # run[p]}
<1>1. /\ opened \in Seq(PollIds) /\ Len(opened) \in Nat
      /\ DOMAIN opened = 1..Len(opened)
      /\ left \in [PollIds -> Balance \cup {Unset, Null}]
  BY DEF TypeOK
<1>2. CASE others = {}
  BY <1>2 DEF Remaining
<1> HIDE DEF others
<1>3. CASE others # {}
  <2>1. others \subseteq 1..Len(opened)
    BY <1>1 DEF Recorded, others
  <2>2. Max(others) \in others /\ \A n \in others : n <= Max(others)
    BY <2>1, <1>1, <1>3, Greatest
  <2>3. Remaining(p) = left[opened[Max(others)]]
    BY <1>3 DEF Remaining, others
  <2>4. Max(others) \in 1..Len(opened) /\ left[opened[Max(others)]] # Unset
    BY <2>2, <1>1 DEF Recorded, others
  <2>5. opened[Max(others)] \in PollIds
    BY <2>4, <1>1
  <2>6. left[opened[Max(others)]] \in Balance \cup {Null}
    BY <2>4, <2>5, <1>1
  <2>7. \A m \in Max(others) + 1 .. Len(opened) :
           left[opened[m]] = Unset \/ opened[m] = run[p]
    <3>1. ASSUME NEW m \in Max(others) + 1 .. Len(opened)
          PROVE  m \notin others /\ m \in DOMAIN opened
      BY <2>2, <2>4, <1>1
    <3>2. QED BY <3>1 DEF others, Recorded
  <2>8. QED BY <2>3, <2>4, <2>6, <2>7
<1>4. QED BY <1>2, <1>3

\* Numbers the steps compute with.
LEMMA Numbers ==
  ASSUME TypeOK
  PROVE  /\ credits \in Nat /\ credits <= Allowance /\ Allowance \in Nat
         /\ Cost \in Nat /\ Cost > 0 /\ ahead * Cost \in Nat
         /\ \A b \in Balance : b \in Nat /\ b <= Allowance /\ b # Null /\ b # Unset
<1>1. /\ ahead \in Nat /\ Cost \in Nat /\ Cost > 0 /\ Allowance \in Nat
      /\ credits \in Nat /\ credits <= Allowance
  BY BudgetAssumption DEF TypeOK, Balance
<1>2. ahead * Cost \in Nat
  BY <1>1
<1>3. \A b \in Balance : b \in Nat /\ b <= Allowance
  BY <1>1 DEF Balance
<1>4. QED BY <1>1, <1>2, <1>3, BudgetAssumption

\* A running poll has a row.
LEMMA OwnRow ==
  ASSUME TypeOK, NEW p \in Pollers, Running(p)
  PROVE  run[p] \in PollIds /\ Contains(opened, run[p])
<1>1. Contains(opened, run[p]) /\ opened \in Seq(PollIds)
  BY DEF TypeOK, Running
<1>2. PICK m \in 1..Len(opened) : opened[m] = run[p]
  BY <1>1 DEF Contains
<1>3. QED BY <1>1, <1>2

\* The budget starts sound.
LEMMA InvInit == Init => IInv
<1> SUFFICES ASSUME Init PROVE IInv
  OBVIOUS
<1>1. Allowance \in Nat /\ MaxPeriods \in Nat \ {0}
  BY BudgetAssumption
<1>2. /\ opened = <<>> /\ opened \in Seq(PollIds) /\ Len(opened) = 0
      /\ \A p \in Pollers : pc[p] = "idle"
      /\ \A i \in PollIds : left[i] = Unset
      /\ \A p \in Pollers : answer[p] = Null
  BY DEF Init
<1>3. IsInjective(opened)
  BY <1>2 DEF IsInjective
<1>4. TypeOK
  <2>1. credits \in Balance /\ period \in 1..MaxPeriods
    BY <1>1 DEF Init, Balance
  <2>2. NoGate \in [known : Balance \cup {Null}, reserved : Nat]
    BY DEF NoGate
  <2>3. spent \in [PollIds -> {0, Cost}] /\ left \in [PollIds -> Balance \cup {Unset, Null}]
    BY DEF Init
  <2>4. QED BY <1>2, <1>3, <2>1, <2>2, <2>3 DEF Init, TypeOK
<1>5. Rows /\ Answers /\ Gated /\ OneAtATime
  BY <1>2, <1>4, Numbers DEF Rows, Answers, Gated, OneAtATime, Running
<1>6. NoneTooHigh /\ NeverUnderestimates
  BY <1>2, <1>4, Numbers DEF NoneTooHigh, NeverUnderestimates, Charged
<1>7. QED BY <1>4, <1>5, <1>6 DEF IInv

\* ingest_run appends the row of a free slot.
LEMMA OpenStep ==
  ASSUME IInv, NEW p \in Pollers, Open(p)
  PROVE  IInv'
<1>1. PICK i \in PollIds : /\ ~Contains(opened, i)
                          /\ opened' = Append(opened, i)
                          /\ run' = [run EXCEPT ![p] = i]
  BY DEF Open
<1>2. /\ pc[p] = "idle" /\ pc' = [pc EXCEPT ![p] = "gate"]
      /\ overlapped' = (overlapped \/ \E q \in Pollers \ {p} : pc[q] # "idle")
      /\ UNCHANGED <<credits, period, ahead, left, spent, gate, answer, forgotten>>
  BY DEF Open, Goto
<1>3. /\ opened \in Seq(PollIds) /\ IsInjective(opened) /\ Len(opened) \in Nat
      /\ TypeOK /\ pc'[p] = "gate" /\ run'[p] = i
      /\ \A q \in Pollers \ {p} : pc'[q] = pc[q] /\ run'[q] = run[q]
  BY <1>1, <1>2 DEF IInv, TypeOK
<1>4. /\ opened' \in Seq(PollIds) /\ Len(opened') = Len(opened) + 1
      /\ opened'[Len(opened')] = i
      /\ \A n \in 1..Len(opened) : opened'[n] = opened[n]
  BY <1>1, <1>3
<1>5. \A x \in PollIds : Contains(opened', x) <=> Contains(opened, x) \/ x = i
  BY <1>3, <1>4 DEF Contains
<1>6. IsInjective(opened')
  <2>1. DOMAIN opened = 1..Len(opened) /\ DOMAIN opened' = 1..Len(opened) + 1
    BY <1>3, <1>4
  <2>2. \A n \in 1..Len(opened) : opened[n] # i
    BY <1>1 DEF Contains
  <2>3. \A n \in 1..Len(opened) + 1 : n \in 1..Len(opened) \/ n = Len(opened')
    BY <1>3, <1>4
  <2>4. QED BY <1>3, <1>4, <2>1, <2>2, <2>3 DEF IsInjective
<1>7. TypeOK'
  <2>1. run' \in [Pollers -> PollIds \cup {NoRun}]
    BY <1>1 DEF IInv, TypeOK
  <2>2. pc' \in [Pollers -> {"idle", "gate", "request", "answered", "pinged", "failing"}]
    BY <1>2 DEF IInv, TypeOK
  <2>3. \A q \in Pollers : IF pc'[q] = "idle" THEN run'[q] = NoRun
                            ELSE Contains(opened', run'[q])
    <3>1. \A q \in Pollers \ {p} : IF pc[q] = "idle" THEN run[q] = NoRun
                                     ELSE Contains(opened, run[q]) /\ run[q] \in PollIds
      BY OwnRow DEF IInv, TypeOK, Running
    <3>2. QED BY <1>3, <1>5, <3>1
  <2>4. overlapped' \in BOOLEAN
    BY <1>2
  <2>5. QED BY <1>2, <1>4, <1>6, <2>1, <2>2, <2>3, <2>4 DEF IInv, TypeOK
<1>8. left[i] = Unset
  BY <1>1 DEF IInv, Rows
<1>9. Rows'
  <2>1. \A q \in Pollers : Running(q) => run[q] # i
    BY <1>1, <1>3 DEF TypeOK, Running
  <2>2. QED BY <1>2, <1>3, <1>5, <1>8, <2>1 DEF IInv, Rows, Running
<1>10. Answers' /\ NeverUnderestimates'
  BY <1>2 DEF IInv, Answers, NeverUnderestimates
<1>11. Gated'
  BY <1>2, <1>3 DEF IInv, Gated
<1>12. OneAtATime'
  BY <1>2, <1>3, <1>4 DEF OneAtATime, Running
<1>13. NoneTooHigh'
  <2>1. SUFFICES ASSUME ~overlapped, ~forgotten
                 PROVE  NoneTooHigh'
    BY <1>2 DEF NoneTooHigh
  <2>2. ASSUME NEW n \in 1..Len(opened'), LastKnown(n)',
               \A q \in Pollers : ~Charged(q)'
        PROVE  left'[opened'[n]] <= credits'
    <3>1. n # Len(opened')
      BY <2>2, <1>2, <1>3, <1>4, <1>8, Numbers DEF LastKnown
    <3>2. n \in 1..Len(opened)
      BY <3>1, <1>3, <1>4
    <3>3. LastKnown(n)
      BY <2>2, <3>2, <1>2, <1>3, <1>4 DEF LastKnown
    <3>4. \A q \in Pollers : ~Charged(q)
      BY <2>2, <1>2, <1>3 DEF Charged
    <3>5. QED BY <2>1, <3>2, <3>3, <3>4, <1>2, <1>4 DEF IInv, NoneTooHigh
  <2>3. ASSUME NEW q \in Pollers
        PROVE  /\ pc'[q] = "request" /\ gate'[q].known \in Balance
                     => gate'[q].known <= credits'
               /\ Charged(q)' /\ answer'[q] \in Balance => answer'[q] <= credits'
    BY <2>1, <1>2, <1>3 DEF IInv, NoneTooHigh, Charged
  <2>4. QED BY <2>2, <2>3 DEF NoneTooHigh
<1>14. QED BY <1>7, <1>9, <1>10, <1>11, <1>12, <1>13 DEF IInv

\* The gate reads the last recorded balance of somebody else.
LEMMA GateStep ==
  ASSUME IInv, NEW p \in Pollers, Gate(p)
  PROVE  IInv'
<1>1. PICK floor \in Floors :
         LET known == Remaining(p)
             reserved == IF floor = NoFloor THEN ahead * Cost ELSE floor
         IN /\ gate' = [gate EXCEPT ![p] = [known |-> known, reserved |-> reserved]]
            /\ pc' = [pc EXCEPT ![p] = IF Allowed(known, reserved)
                                       THEN "request" ELSE "failing"]
  BY DEF Gate
<1> DEFINE known == Remaining(p)
           reserved == IF floor = NoFloor THEN ahead * Cost ELSE floor
<1>2. /\ pc[p] = "gate"
      /\ UNCHANGED <<credits, period, ahead, opened, left, spent, run, answer,
                     overlapped, forgotten>>
  BY DEF Gate, history
<1>3. known \in Balance \cup {Null} /\ reserved \in Nat
  BY RemainingForm, Numbers, BudgetAssumption DEF IInv
<1>4. /\ pc'[p] = IF Allowed(known, reserved) THEN "request" ELSE "failing"
      /\ gate'[p].known = known /\ gate'[p].reserved = reserved
      /\ \A q \in Pollers \ {p} : pc'[q] = pc[q] /\ gate'[q] = gate[q]
  BY <1>1 DEF IInv, TypeOK
<1> HIDE DEF known, reserved
<1>5. TypeOK'
  <2>1. gate' \in [Pollers -> [known : Balance \cup {Null}, reserved : Nat]]
    BY <1>1, <1>3 DEF IInv, TypeOK, known, reserved
  <2>2. pc' \in [Pollers -> {"idle", "gate", "request", "answered", "pinged", "failing"}]
    BY <1>1 DEF IInv, TypeOK
  <2>3. QED BY <1>2, <1>4, <2>1, <2>2 DEF IInv, TypeOK
<1>6. Rows' /\ OneAtATime'
  BY <1>2, <1>4 DEF IInv, Rows, OneAtATime, Running
<1>7. Answers' /\ NeverUnderestimates'
  BY <1>2 DEF IInv, Answers, NeverUnderestimates
<1>8. Gated'
  BY <1>4 DEF IInv, Gated
<1>9. NoneTooHigh'
  <2>1. SUFFICES ASSUME ~overlapped, ~forgotten
                 PROVE  NoneTooHigh'
    BY <1>2 DEF NoneTooHigh
  <2>2. \A q \in Pollers : Charged(q)' <=> Charged(q)
    BY <1>2, <1>4 DEF Charged
  <2>3. ASSUME known \in Balance PROVE known <= credits
    <3>1. known # Null
      BY <2>3, Numbers DEF IInv
    <3>2. PICK n \in 1..Len(opened) :
             /\ known = left[opened[n]]
             /\ \A m \in n + 1 .. Len(opened) :
                   left[opened[m]] = Unset \/ opened[m] = run[p]
      BY <3>1, RemainingForm DEF IInv, known
    <3>3. left[run[p]] = Unset
      BY <1>2 DEF IInv, Rows, Running
    <3>4. LastKnown(n)
      BY <2>3, <3>2, <3>3 DEF LastKnown
    <3>5. \A q \in Pollers : ~Charged(q)
      BY <2>1, <1>2 DEF IInv, OneAtATime, Running, Charged
    <3>6. QED BY <2>1, <3>2, <3>4, <3>5 DEF IInv, NoneTooHigh
  <2>4. \A n \in 1..Len(opened) : LastKnown(n)' <=> LastKnown(n)
    BY <1>2 DEF LastKnown
  <2>5. \A q \in Pollers : pc'[q] = "request" /\ gate'[q].known \in Balance
                              => gate'[q].known <= credits'
    BY <2>1, <2>3, <1>2, <1>4 DEF IInv, NoneTooHigh
  <2>6. QED BY <2>1, <2>2, <2>4, <2>5, <1>2 DEF IInv, NoneTooHigh
<1>10. QED BY <1>5, <1>6, <1>7, <1>8, <1>9 DEF IInv

\* The request is charged, and its answer says what is left.
LEMMA RequestStep ==
  ASSUME IInv, NEW p \in Pollers, Request(p)
  PROVE  IInv'
<1>1. /\ pc[p] = "request" /\ pc' = [pc EXCEPT ![p] = "answered"]
      /\ credits >= Cost /\ credits' = credits - Cost
      /\ UNCHANGED <<period, ahead, opened, left, spent, run, gate, overlapped, forgotten>>
  BY DEF Request, Goto, history
<1>2. PICK header \in {credits', Null} : answer' = [answer EXCEPT ![p] = header]
  BY DEF Request
<1>3. /\ credits \in Nat /\ credits <= Allowance /\ Cost \in Nat /\ Cost > 0
      /\ Allowance \in Nat /\ TypeOK
      /\ \A b \in Balance : b \in Nat
  BY Numbers DEF IInv
<1>4. credits' \in Balance /\ credits' < credits /\ credits' \in Nat
  BY <1>1, <1>3 DEF Balance
<1>5. /\ pc'[p] = "answered" /\ answer'[p] = header
      /\ \A q \in Pollers \ {p} : pc'[q] = pc[q] /\ answer'[q] = answer[q]
  BY <1>1, <1>2, <1>3 DEF TypeOK
<1>6. TypeOK'
  <2>1. answer' \in [Pollers -> Balance \cup {Null}]
    BY <1>2, <1>3, <1>4 DEF TypeOK
  <2>2. pc' \in [Pollers -> {"idle", "gate", "request", "answered", "pinged", "failing"}]
    BY <1>1, <1>3 DEF TypeOK
  <2>3. \A q \in Pollers : pc'[q] = "idle" <=> pc[q] = "idle"
    BY <1>1, <1>5
  <2>4. QED BY <1>1, <1>3, <1>4, <2>1, <2>2, <2>3 DEF TypeOK
<1>7. Rows' /\ OneAtATime'
  BY <1>1, <1>5 DEF IInv, Rows, OneAtATime, Running
<1>8. Answers'
  <2>1. SUFFICES ASSUME period = 1, NEW q \in Pollers, answer'[q] \in Balance
                 PROVE  answer'[q] >= credits'
    BY <1>1 DEF Answers
  <2>2. CASE q = p
    <3>1. header = credits' \/ header = Null
      BY <1>2
    <3>2. Null \notin Balance
      BY Numbers DEF IInv
    <3>3. QED BY <2>1, <2>2, <3>1, <3>2, <1>4, <1>5
  <2>3. CASE q # p
    <3>1. answer'[q] = answer[q] /\ answer[q] >= credits
      BY <2>1, <2>3, <1>5 DEF IInv, Answers
    <3>2. answer[q] \in Nat
      BY <2>1, <3>1, <1>3
    <3>3. QED BY <3>1, <3>2, <1>3, <1>4
  <2>4. QED BY <2>2, <2>3
<1>9. NeverUnderestimates'
  <2>1. SUFFICES ASSUME period = 1, NEW i \in PollIds, left[i] \in Balance
                 PROVE  left[i] >= credits'
    BY <1>1 DEF NeverUnderestimates
  <2>2. left[i] >= credits /\ left[i] \in Nat
    BY <2>1, <1>3 DEF IInv, NeverUnderestimates
  <2>3. QED BY <2>2, <1>3, <1>4
<1>10. Gated'
  BY <1>1, <1>5 DEF IInv, Gated
<1>11. NoneTooHigh'
  <2>1. SUFFICES ASSUME ~overlapped, ~forgotten
                 PROVE  NoneTooHigh'
    BY <1>1 DEF NoneTooHigh
  <2>2. Charged(p)'
    BY <1>5 DEF Charged
  <2>3. \A q \in Pollers \ {p} : pc'[q] = "idle"
    BY <2>1, <1>1, <1>5 DEF IInv, OneAtATime, Running
  <2>4. answer'[p] \in Balance => answer'[p] <= credits'
    <3>1. header = credits' \/ header = Null
      BY <1>2
    <3>2. Null \notin Balance
      BY Numbers DEF IInv
    <3>3. QED BY <3>1, <3>2, <1>4, <1>5
  <2>5. QED BY <2>2, <2>3, <2>4, <1>5 DEF NoneTooHigh, Charged
<1>12. QED BY <1>6, <1>7, <1>8, <1>9, <1>10, <1>11 DEF IInv

\* The request raises, charged or not.
LEMMA RequestRaisesStep ==
  ASSUME IInv, NEW p \in Pollers, RequestRaises(p)
  PROVE  IInv'
<1>1. /\ pc[p] = "request" /\ pc' = [pc EXCEPT ![p] = "failing"]
      /\ credits' = credits \/ (credits >= Cost /\ credits' = credits - Cost)
      /\ forgotten' = (forgotten \/ credits' < credits)
      /\ UNCHANGED <<period, ahead, opened, left, spent, run, gate, answer, overlapped>>
  BY DEF RequestRaises, Goto
<1>2. /\ credits \in Nat /\ credits <= Allowance /\ Cost \in Nat /\ Cost > 0
      /\ Allowance \in Nat /\ TypeOK
      /\ \A b \in Balance : b \in Nat
  BY Numbers DEF IInv
<1>3. credits' \in Balance /\ credits' <= credits /\ credits' \in Nat
  BY <1>1, <1>2 DEF Balance
<1>4. /\ pc'[p] = "failing"
      /\ \A q \in Pollers \ {p} : pc'[q] = pc[q]
  BY <1>1, <1>2 DEF TypeOK
<1>5. TypeOK'
  <2>1. pc' \in [Pollers -> {"idle", "gate", "request", "answered", "pinged", "failing"}]
    BY <1>1, <1>2 DEF TypeOK
  <2>2. \A q \in Pollers : pc'[q] = "idle" <=> pc[q] = "idle"
    BY <1>1, <1>4
  <2>3. forgotten' \in BOOLEAN
    BY <1>1
  <2>4. QED BY <1>1, <1>2, <1>3, <2>1, <2>2, <2>3 DEF TypeOK
<1>6. Rows' /\ OneAtATime'
  BY <1>1, <1>4 DEF IInv, Rows, OneAtATime, Running
<1>7. Answers'
  <2>1. SUFFICES ASSUME period = 1, NEW q \in Pollers, answer[q] \in Balance
                 PROVE  answer[q] >= credits'
    BY <1>1 DEF Answers
  <2>2. answer[q] >= credits /\ answer[q] \in Nat
    BY <2>1, <1>2 DEF IInv, Answers
  <2>3. QED BY <2>2, <1>2, <1>3
<1>8. NeverUnderestimates'
  <2>1. SUFFICES ASSUME period = 1, NEW i \in PollIds, left[i] \in Balance
                 PROVE  left[i] >= credits'
    BY <1>1 DEF NeverUnderestimates
  <2>2. left[i] >= credits /\ left[i] \in Nat
    BY <2>1, <1>2 DEF IInv, NeverUnderestimates
  <2>3. QED BY <2>2, <1>2, <1>3
<1>9. Gated'
  BY <1>1, <1>4 DEF IInv, Gated
<1>10. NoneTooHigh'
  <2>0. ~forgotten' => ~forgotten /\ credits' = credits
    <3>1. ~forgotten' => ~forgotten /\ ~(credits' < credits)
      BY <1>1
    <3>2. ~(credits' < credits) => credits' = credits
      BY <1>2, <1>3
    <3>3. QED BY <3>1, <3>2
  <2>1. SUFFICES ASSUME ~overlapped, ~forgotten, credits' = credits
                 PROVE  NoneTooHigh'
    BY <2>0, <1>1 DEF NoneTooHigh
  <2>2. \A q \in Pollers : /\ Charged(q)' <=> Charged(q)
                           /\ pc'[q] = "request" => pc[q] = "request"
    BY <1>1, <1>4 DEF Charged
  <2>3. \A n \in 1..Len(opened) : LastKnown(n)' <=> LastKnown(n)
    BY <1>1 DEF LastKnown
  <2>4. ASSUME \A q \in Pollers : ~Charged(q)',
               NEW n \in 1..Len(opened), LastKnown(n)'
        PROVE  left[opened[n]] <= credits
    BY <2>1, <2>2, <2>3, <2>4 DEF IInv, NoneTooHigh
  <2>5. ASSUME NEW q \in Pollers
        PROVE  /\ pc'[q] = "request" /\ gate[q].known \in Balance
                     => gate[q].known <= credits
               /\ Charged(q)' /\ answer[q] \in Balance => answer[q] <= credits
    BY <2>1, <2>2 DEF IInv, NoneTooHigh
  <2>6. QED BY <2>1, <2>4, <2>5, <1>1 DEF NoneTooHigh
<1>11. QED BY <1>5, <1>6, <1>7, <1>8, <1>9, <1>10 DEF IInv

\* What follows a response: the ping, or an exception that forgets the charge.
LEMMA WorkStep ==
  ASSUME IInv, NEW p \in Pollers, WorkRaises(p) \/ Ping(p)
  PROVE  IInv'
<1>1. /\ pc[p] = "answered"
      /\ \/ pc' = [pc EXCEPT ![p] = "failing"] /\ forgotten' = TRUE
         \/ pc' = [pc EXCEPT ![p] = "pinged"] /\ forgotten' = forgotten
      /\ UNCHANGED <<credits, period, ahead, opened, left, spent, run, gate, answer,
                     overlapped>>
  BY DEF WorkRaises, Ping, Goto, history
<1>2. /\ \/ pc'[p] = "failing" /\ forgotten'
         \/ pc'[p] = "pinged" /\ forgotten' = forgotten
      /\ \A q \in Pollers \ {p} : pc'[q] = pc[q]
  BY <1>1 DEF IInv, TypeOK
<1>3. TypeOK'
  <2>1. pc' \in [Pollers -> {"idle", "gate", "request", "answered", "pinged", "failing"}]
    BY <1>1 DEF IInv, TypeOK
  <2>2. \A q \in Pollers : pc'[q] = "idle" <=> pc[q] = "idle"
    BY <1>1, <1>2
  <2>3. QED BY <1>1, <2>1, <2>2 DEF IInv, TypeOK
<1>4. Rows' /\ OneAtATime'
  BY <1>1, <1>2 DEF IInv, Rows, OneAtATime, Running
<1>5. Answers' /\ NeverUnderestimates'
  BY <1>1 DEF IInv, Answers, NeverUnderestimates
<1>6. Gated'
  BY <1>1, <1>2 DEF IInv, Gated
<1>7. NoneTooHigh'
  <2>1. CASE forgotten'
    BY <2>1 DEF NoneTooHigh
  <2>2. CASE pc'[p] = "pinged" /\ forgotten' = forgotten
    <3>1. \A q \in Pollers : /\ Charged(q)' <=> Charged(q)
                             /\ pc'[q] = "request" => pc[q] = "request"
      BY <1>1, <1>2, <2>2 DEF Charged
    <3>2. \A n \in 1..Len(opened) : LastKnown(n)' <=> LastKnown(n)
      BY <1>1 DEF LastKnown
    <3>3. SUFFICES ASSUME ~overlapped, ~forgotten PROVE NoneTooHigh'
      BY <1>1, <2>2 DEF NoneTooHigh
    <3>4. ASSUME \A q \in Pollers : ~Charged(q)',
                 NEW n \in 1..Len(opened), LastKnown(n)'
          PROVE  left[opened[n]] <= credits
      BY <3>1, <3>2, <3>3, <3>4 DEF IInv, NoneTooHigh
    <3>5. ASSUME NEW q \in Pollers
          PROVE  /\ pc'[q] = "request" /\ gate[q].known \in Balance
                       => gate[q].known <= credits
                 /\ Charged(q)' /\ answer[q] \in Balance => answer[q] <= credits
      BY <3>1, <3>3 DEF IInv, NoneTooHigh
    <3>6. QED BY <3>4, <3>5, <1>1 DEF NoneTooHigh
  <2>3. QED BY <1>2, <2>1, <2>2
<1>8. QED BY <1>3, <1>4, <1>5, <1>6, <1>7 DEF IInv

\* What ends a poll leaves the locals of the others as they are.
LEMMA LeaveForm ==
  ASSUME TypeOK, NEW p \in Pollers, Leave(p)
  PROVE  /\ pc' \in [Pollers -> {"idle", "gate", "request", "answered", "pinged", "failing"}]
         /\ run' \in [Pollers -> PollIds \cup {NoRun}]
         /\ gate' \in [Pollers -> [known : Balance \cup {Null}, reserved : Nat]]
         /\ answer' \in [Pollers -> Balance \cup {Null}]
         /\ pc'[p] = "idle" /\ run'[p] = NoRun /\ answer'[p] = Null
         /\ \A q \in Pollers \ {p} : /\ pc'[q] = pc[q] /\ run'[q] = run[q]
                                     /\ gate'[q] = gate[q] /\ answer'[q] = answer[q]
<1>1. NoGate \in [known : Balance \cup {Null}, reserved : Nat]
  BY DEF NoGate
<1>2. QED BY <1>1 DEF TypeOK, Leave

\* The commit records a balance in the row of the poll, which nobody else has.
LEMMA CommitStep ==
  ASSUME IInv, NEW p \in Pollers, Commit(p)
  PROVE  IInv'
<1>1. /\ pc[p] = "pinged" /\ Leave(p) /\ TypeOK /\ Running(p)
      /\ left' = [left EXCEPT ![run[p]] = answer[p]]
      /\ spent' = [spent EXCEPT ![run[p]] = Cost]
      /\ UNCHANGED <<credits, period, ahead, opened, overlapped, forgotten>>
  BY DEF Commit, history, IInv, Running
<1>2. /\ run[p] \in PollIds /\ Contains(opened, run[p])
      /\ answer[p] \in Balance \cup {Null}
  BY <1>1, OwnRow DEF TypeOK
<1>3. /\ left'[run[p]] = answer[p]
      /\ \A i \in PollIds \ {run[p]} : left'[i] = left[i]
      /\ left' \in [PollIds -> Balance \cup {Unset, Null}]
      /\ spent' \in [PollIds -> {0, Cost}]
  BY <1>1, <1>2 DEF TypeOK
<1>4. /\ pc'[p] = "idle" /\ run'[p] = NoRun /\ answer'[p] = Null
      /\ \A q \in Pollers \ {p} : /\ pc'[q] = pc[q] /\ run'[q] = run[q]
                                  /\ gate'[q] = gate[q] /\ answer'[q] = answer[q]
  BY <1>1, LeaveForm
<1>5. TypeOK'
  <2>1. \A q \in Pollers : IF pc'[q] = "idle" THEN run'[q] = NoRun
                            ELSE Contains(opened, run'[q])
    BY <1>1, <1>4 DEF TypeOK
  <2>2. QED BY <1>1, <1>3, <2>1, LeaveForm DEF TypeOK
<1>6. Rows'
  <2>1. \A q \in Pollers \ {p} : Running(q) => run[q] # run[p] /\ run[q] \in PollIds
    BY <1>1, OwnRow DEF IInv, Rows
  <2>2. \A i \in PollIds : ~Contains(opened, i) => i # run[p]
    BY <1>2
  <2>3. QED BY <1>1, <1>3, <1>4, <2>1, <2>2 DEF IInv, Rows, Running
<1>7. Null \notin Balance /\ Unset \notin Balance /\ Unset # Null
  BY Numbers, BudgetAssumption DEF IInv
<1>8. Answers'
  BY <1>1, <1>4, <1>7 DEF IInv, Answers
<1>9. NeverUnderestimates'
  BY <1>1, <1>2, <1>3 DEF IInv, NeverUnderestimates, Answers
<1>10. Gated'
  BY <1>4 DEF IInv, Gated
<1>11. OneAtATime'
  BY <1>1, <1>4 DEF IInv, OneAtATime, Running
<1>12. NoneTooHigh'
  <2>1. SUFFICES ASSUME ~overlapped, ~forgotten PROVE NoneTooHigh'
    BY <1>1 DEF NoneTooHigh
  <2>2. \A q \in Pollers : pc'[q] = "idle"
    BY <2>1, <1>1, <1>4 DEF IInv, OneAtATime, Running
  <2>3. opened[Len(opened)] = run[p]
    BY <2>1, <1>1 DEF IInv, OneAtATime
  <2>4. ASSUME NEW n \in 1..Len(opened), LastKnown(n)'
        PROVE  left'[opened[n]] <= credits
    <3>1. Len(opened) \in Nat /\ n <= Len(opened) /\ n \in Nat
      BY <1>1 DEF TypeOK
    <3>2. CASE n = Len(opened)
      <4>1. answer[p] \in Balance
        BY <2>3, <2>4, <3>2, <1>1, <1>3 DEF LastKnown
      <4>2. Charged(p)
        BY <1>1 DEF Charged
      <4>3. answer[p] <= credits
        BY <2>1, <4>1, <4>2 DEF IInv, NoneTooHigh
      <4>4. QED BY <4>3, <2>3, <3>2, <1>3
    <3>3. CASE n # Len(opened)
      <4>1. Len(opened) \in n + 1 .. Len(opened)
        BY <3>1, <3>3
      <4>2. left'[opened[Len(opened)]] = Unset
        BY <2>4, <4>1, <1>1 DEF LastKnown
      <4>3. QED BY <4>2, <2>3, <1>2, <1>3, <1>7
    <3>4. QED BY <3>2, <3>3
  <2>5. QED BY <2>2, <2>4, <1>1 DEF NoneTooHigh, Charged
<1>13. QED BY <1>5, <1>6, <1>8, <1>9, <1>10, <1>11, <1>12 DEF IInv

\* A poll that fails or dies gives its row back; if it had been charged, that is
\* forgotten.
LEMMA EndStep ==
  ASSUME IInv, NEW p \in Pollers, Fail(p) \/ Crash(p)
  PROVE  IInv'
<1>1. /\ Running(p) /\ TypeOK /\ GiveBack(p) /\ Leave(p)
      /\ ~forgotten' => ~forgotten /\ ~Charged(p)
      /\ forgotten' \in BOOLEAN
      /\ UNCHANGED <<credits, period, ahead, left, spent, overlapped>>
  BY DEF Fail, Crash, Running, Charged, history, IInv, TypeOK
<1>2. /\ opened' \in Seq(PollIds) /\ IsInjective(opened')
      /\ Len(opened') = Len(opened) - 1
      /\ \A i \in PollIds : Contains(opened', i) <=> Contains(opened, i) /\ i # run[p]
      /\ opened[Len(opened)] = run[p] =>
            \A n \in 1..Len(opened') : opened'[n] = opened[n]
  BY <1>1, GiveBackForm
<1>3. /\ pc'[p] = "idle" /\ run'[p] = NoRun /\ answer'[p] = Null
      /\ \A q \in Pollers \ {p} : /\ pc'[q] = pc[q] /\ run'[q] = run[q]
                                  /\ gate'[q] = gate[q] /\ answer'[q] = answer[q]
  BY <1>1, LeaveForm
<1>4. \A q \in Pollers \ {p} : Running(q) =>
         run[q] # run[p] /\ run[q] \in PollIds /\ Contains(opened, run[q])
  BY <1>1, OwnRow DEF IInv, Rows
<1>5. TypeOK'
  <2>1. \A q \in Pollers : IF pc'[q] = "idle" THEN run'[q] = NoRun
                            ELSE Contains(opened', run'[q])
    BY <1>1, <1>2, <1>3, <1>4 DEF TypeOK, Running
  <2>2. QED BY <1>1, <1>2, <2>1, LeaveForm DEF TypeOK
<1>6. Rows'
  <2>1. left[run[p]] = Unset
    BY <1>1 DEF IInv, Rows
  <2>2. QED BY <1>1, <1>2, <1>3, <2>1 DEF IInv, Rows, Running
<1>7. Null \notin Balance
  BY Numbers DEF IInv
<1>8. Answers' /\ NeverUnderestimates'
  BY <1>1, <1>3, <1>7 DEF IInv, Answers, NeverUnderestimates
<1>9. Gated'
  BY <1>3 DEF IInv, Gated
<1>10. ~overlapped => \A q \in Pollers : pc'[q] = "idle"
  BY <1>1, <1>3 DEF IInv, OneAtATime, Running
<1>11. OneAtATime'
  BY <1>1, <1>10 DEF OneAtATime, Running
<1>12. NoneTooHigh'
  <2>1. SUFFICES ASSUME ~overlapped, ~forgotten, ~Charged(p) PROVE NoneTooHigh'
    BY <1>1 DEF NoneTooHigh
  <2>2. \A q \in Pollers : ~Charged(q)
    BY <2>1, <1>1 DEF IInv, OneAtATime, Running, Charged
  <2>3. opened[Len(opened)] = run[p] /\ left[run[p]] = Unset
    BY <2>1, <1>1 DEF IInv, OneAtATime, Rows
  <2>4. ASSUME NEW n \in 1..Len(opened'), LastKnown(n)'
        PROVE  left[opened'[n]] <= credits
    <3>1. n \in 1..Len(opened) /\ opened'[n] = opened[n] /\ Len(opened) \in Nat
      BY <1>1, <1>2, <2>3 DEF TypeOK
    <3>2. left[opened[n]] \in Balance
      BY <2>4, <3>1, <1>1 DEF LastKnown
    <3>3. ASSUME NEW m \in n + 1 .. Len(opened)
          PROVE  left[opened[m]] = Unset
      <4>1. CASE m = Len(opened)
        BY <4>1, <2>3
      <4>2. CASE m # Len(opened)
        <5>1. m \in n + 1 .. Len(opened') /\ m \in 1..Len(opened')
          BY <3>1, <4>2, <1>2
        <5>2. QED BY <5>1, <2>3, <2>4, <1>1, <1>2 DEF LastKnown
      <4>3. QED BY <4>1, <4>2
    <3>4. LastKnown(n)
      BY <3>2, <3>3 DEF LastKnown
    <3>5. QED BY <2>1, <2>2, <3>1, <3>4 DEF IInv, NoneTooHigh
  <2>5. QED BY <2>1, <2>4, <1>1, <1>10 DEF NoneTooHigh, Charged
<1>13. QED BY <1>5, <1>6, <1>8, <1>9, <1>11, <1>12 DEF IInv

\* A new period: more credits, and what was recorded belongs to the last one.
LEMMA ResetStep ==
  ASSUME IInv, Reset
  PROVE  IInv'
<1>1. /\ period < MaxPeriods /\ period' = period + 1 /\ credits' = Allowance
      /\ UNCHANGED <<ahead, opened, left, spent, pc, run, gate, answer,
                     overlapped, forgotten>>
  BY DEF Reset, history
<1>2. /\ credits \in Nat /\ Allowance \in Nat /\ credits <= Allowance
      /\ \A b \in Balance : b \in Nat /\ b <= Allowance
  BY Numbers DEF IInv
<1>3. period \in 1..MaxPeriods /\ MaxPeriods \in Nat
  BY BudgetAssumption DEF IInv, TypeOK
<1>4. period' \in 1..MaxPeriods /\ period' # 1 /\ credits' \in Balance
  BY <1>1, <1>2, <1>3 DEF Balance
<1>5. TypeOK'
  BY <1>1, <1>4 DEF IInv, TypeOK
<1>6. Rows' /\ Gated' /\ OneAtATime'
  BY <1>1 DEF IInv, Rows, Gated, OneAtATime, Running
<1>7. Answers' /\ NeverUnderestimates'
  BY <1>4 DEF Answers, NeverUnderestimates
<1>8. NoneTooHigh'
  <2>1. \A n \in 1..Len(opened) : LastKnown(n)' => left'[opened'[n]] <= credits'
    BY <1>1, <1>2 DEF LastKnown
  <2>2. \A q \in Pollers : /\ gate'[q].known \in Balance => gate'[q].known <= credits'
                           /\ answer'[q] \in Balance => answer'[q] <= credits'
    BY <1>1, <1>2
  <2>3. QED BY <1>1, <2>1, <2>2 DEF NoneTooHigh
<1>9. QED BY <1>5, <1>6, <1>7, <1>8 DEF IInv

\* Every step of polls, API and clock keeps the inductive invariant.
LEMMA InvStep == IInv /\ [Next]_vars => IInv'
<1>1. ASSUME IInv, ahead' \in 0..MaxAhead,
             UNCHANGED <<credits, period, opened, left, spent, pc, run, gate, answer, history>>
      PROVE  IInv'
  BY <1>1 DEF history, IInv, TypeOK, Rows, Answers, Gated, OneAtATime, NoneTooHigh,
     NeverUnderestimates, Running, Charged, LastKnown
<1>2. ASSUME IInv, Slate PROVE IInv'
  BY <1>1, <1>2 DEF Slate
<1>3. ASSUME IInv, UNCHANGED vars PROVE IInv'
  BY <1>1, <1>3 DEF vars, IInv, TypeOK
<1>4. QED BY <1>2, <1>3, OpenStep, GateStep, RequestStep, RequestRaisesStep, WorkStep,
     CommitStep, EndStep, ResetStep DEF Next, Step
-----------------------------------------------------------------------------
\* The inductive invariant holds of every behaviour.
THEOREM Inductive == Spec => []IInv
  BY InvInit, InvStep, PTL DEF Spec

\* Balances, rows and polls keep their types; in particular a running poll always
\* has a row of its own, and no row is listed twice.
THEOREM TypeCorrect == Spec => []TypeOK
<1>1. IInv => TypeOK
  BY DEF IInv
<1>2. QED BY <1>1, Inductive, PTL

\* Within a billing period no recorded balance is below what the API has left,
\* however polls overlap, fail or die.
THEOREM GateNeverStarves == Spec => []NeverUnderestimates
<1>1. IInv => NeverUnderestimates
  BY DEF IInv
<1>2. QED BY <1>1, Inductive, PTL

\* odds.py:477: without an overlap or a forgotten charge, no request eats into the
\* credits its poll reserved for the first pitches ahead.
THEOREM ReserveIsKept == Spec => ReserveKept
<1> DEFINE Kept == \A p \in Pollers :
              (pc[p] = "request" /\ credits' < credits /\ gate[p].known # Null
                 /\ ~overlapped /\ ~forgotten)
                => credits' >= gate[p].reserved
<1>1. IInv /\ [Next]_vars => [Kept]_vars
  <2>1. SUFFICES ASSUME IInv, Next, NEW p \in Pollers,
                        pc[p] = "request", credits' < credits, gate[p].known # Null,
                        ~overlapped, ~forgotten
                 PROVE  credits' >= gate[p].reserved
    OBVIOUS
  <2>2. /\ credits \in Nat /\ credits <= Allowance /\ Allowance \in Nat /\ Cost \in Nat
        /\ \A b \in Balance : b \in Nat
    BY <2>1, Numbers DEF IInv
  <2>3. /\ gate[p].known \in Balance /\ gate[p].reserved \in Nat
        /\ gate[p].known \in Nat
    BY <2>1, <2>2 DEF IInv, TypeOK
  <2>4. gate[p].known - Cost >= gate[p].reserved /\ gate[p].known <= credits
    BY <2>1, <2>3 DEF IInv, Gated, Allowed, NoneTooHigh
  <2>5. credits' = credits - Cost
    <3>1. ~Reset
      BY <2>1, <2>2 DEF Reset
    <3>2. PICK q \in Pollers : Request(q) \/ RequestRaises(q)
      BY <2>1, <2>2, <3>1 DEF Next, Step, Open, Gate, Ping, Commit, Fail, WorkRaises,
         Crash, Slate
    <3>3. QED BY <2>1, <2>2, <3>2 DEF Request, RequestRaises
  <2>6. QED BY <2>2, <2>3, <2>4, <2>5
<1>2. QED BY <1>1, Inductive, PTL DEF Spec, ReserveKept
-----------------------------------------------------------------------------
\* One round of the loop that MapThenSumSet stands for.
OneMore(f, S, sum) ==
    [s \in SUBSET S |-> IF s = {} THEN 0
                        ELSE LET x == CHOOSE x \in s : TRUE IN f[x] + sum[s \ {x}]]

\* What the loop computes.
SumOf(f, S) == (CHOOSE sum : sum = OneMore(f, S, sum))[S]

\* A sum of charges that are each nothing or one poll's cost is that cost times the
\* number of polls charged.
LEMMA SumOfCharges ==
  ASSUME NEW f \in [PollIds -> {0, Cost}]
  PROVE  SumOf(f, PollIds) = Cost * Cardinality({i \in PollIds : f[i] = Cost})
<1>0. IsFiniteSet(PollIds) /\ Cost \in Nat /\ Cost > 0
  BY BudgetAssumption
<1> USE <1>0
<1> DEFINE paid(s) == {i \in s : f[i] = Cost}
           g == [s \in SUBSET PollIds |-> Cost * Cardinality(paid(s))]
<1>1. \A s \in SUBSET PollIds : IsFiniteSet(s) /\ IsFiniteSet(paid(s))
                            /\ Cardinality(s) \in Nat /\ Cardinality(paid(s)) \in Nat
  <2>1. ASSUME NEW s \in SUBSET PollIds PROVE IsFiniteSet(s) /\ IsFiniteSet(paid(s))
    BY FS_Subset
  <2>2. QED BY <2>1, FS_CardinalityType
<1>2. ASSUME NEW s \in SUBSET PollIds, NEW x \in s
      PROVE  Cardinality(paid(s)) = IF f[x] = Cost THEN Cardinality(paid(s \ {x})) + 1
                                                ELSE Cardinality(paid(s \ {x}))
  <2>1. CASE f[x] = Cost
    <3>1. paid(s) = paid(s \ {x}) \cup {x} /\ x \notin paid(s \ {x})
      BY <2>1
    <3>2. IsFiniteSet(paid(s \ {x}))
      BY <1>1
    <3> HIDE DEF paid
    <3>3. QED BY <2>1, <3>1, <3>2, FS_AddElement
  <2>2. CASE f[x] # Cost
    <3>1. paid(s) = paid(s \ {x})
      BY <2>2
    <3>2. QED BY <3>1, <2>2
  <2>3. QED BY <2>1, <2>2
<1>3. paid({}) = {} /\ Cardinality(paid({})) = 0
  BY FS_EmptySet
<1> HIDE DEF paid
<1>4. g = OneMore(f, PollIds, g)
  <2>1. ASSUME NEW s \in SUBSET PollIds, s # {}
        PROVE  LET x == CHOOSE x \in s : TRUE IN g[s] = f[x] + g[s \ {x}]
    <3> DEFINE x == CHOOSE x \in s : TRUE
    <3>1. x \in s
      BY <2>1
    <3> HIDE DEF x
    <3>2. s \ {x} \in SUBSET PollIds /\ f[x] \in {0, Cost}
      BY <3>1
    <3>3. /\ g[s] = Cost * Cardinality(paid(s))
          /\ g[s \ {x}] = Cost * Cardinality(paid(s \ {x}))
      BY <3>2
    <3>4. /\ Cardinality(paid(s)) \in Nat /\ Cardinality(paid(s \ {x})) \in Nat
          /\ Cardinality(paid(s)) = IF f[x] = Cost THEN Cardinality(paid(s \ {x})) + 1
                                                ELSE Cardinality(paid(s \ {x}))
      BY <1>1, <1>2, <3>1, <3>2
    <3> HIDE DEF g
    <3>5. g[s] = f[x] + g[s \ {x}]
      <4>1. \A n \in Nat : Cost * (n + 1) = Cost + Cost * n /\ Cost * n \in Nat
        OBVIOUS
      <4>2. QED BY <4>1, <3>2, <3>3, <3>4
    <3>6. QED BY <3>5 DEF x
  <2>2. g[{}] = 0
    BY <1>3
  <2>3. QED BY <2>1, <2>2 DEF OneMore
<1> DEFINE h == CHOOSE sum : sum = OneMore(f, PollIds, sum)
<1> HIDE DEF g
<1>5. h = OneMore(f, PollIds, h)
  BY <1>4
<1> HIDE DEF h
<1>6. \A s \in SUBSET PollIds : h[s] = g[s]
  <2> DEFINE Bad == {Cardinality(s) : s \in {t \in SUBSET PollIds : h[t] # g[t]}}
  <2>1. SUFFICES ASSUME Bad # {} PROVE FALSE
    OBVIOUS
  <2>2. Bad \subseteq Nat
    BY <1>1
  <2>3. PICK m \in Bad : \A n \in Bad : m <= n
    BY <2>1, <2>2, Least
  <2>4. PICK s \in SUBSET PollIds : h[s] # g[s] /\ m = Cardinality(s)
    BY <2>3
  <2> DEFINE x == CHOOSE x \in s : TRUE
  <2>5. s # {}
    BY <2>4, <1>4, <1>5 DEF OneMore
  <2>6. x \in s
    BY <2>5
  <2> HIDE DEF x
  <2>7. h[s] = f[x] + h[s \ {x}] /\ g[s] = f[x] + g[s \ {x}]
    BY <2>5, <1>4, <1>5 DEF OneMore, x
  <2>8. h[s \ {x}] = g[s \ {x}]
    <3>1. s \ {x} \in SUBSET PollIds
      OBVIOUS
    <3>2. Cardinality(s \ {x}) = Cardinality(s) - 1
      BY <2>6, <1>1, FS_RemoveElement
    <3>3. ~(m <= Cardinality(s \ {x}))
      BY <3>2, <2>4, <1>1
    <3>4. QED BY <3>1, <3>3, <2>3
  <2>9. QED BY <2>4, <2>7, <2>8
<1>7. QED BY <1>6 DEF SumOf, h, g, paid

\* MapThenSumSet over the rows is that loop.
LEMMA LedgerSum ==
   MapThenSumSet(LAMBDA i : spent[i], PollIds) = SumOf(spent, PollIds)
  BY DEF MapThenSumSet, MapThenFoldSet, SumOf, OneMore

\* The rows that say what their poll cost, and those of polls that have been charged
\* and have not said so yet.
Billed == {i \in PollIds : \/ spent[i] = Cost
                           \/ \E p \in Pollers : Charged(p) /\ run[p] = i}

\* A row says nothing of a charge while its poll runs, nor does a free slot; and as
\* long as no charge was forgotten, what the API has charged in the first period is
\* in the rows or still in the hands of the polls.  HistoryAccounts speaks of the
\* moments without a poll; this is what holds between them.
Ledger ==
    /\ \A p \in Pollers : Running(p) => spent[run[p]] = 0
    /\ \A i \in PollIds : ~Contains(opened, i) => spent[i] = 0
    /\ period = 1 /\ ~forgotten => Allowance - credits = Cost * Cardinality(Billed)

\* A poll that is charged adds its row, and no other, to those billed.
LEMMA BilledOnRequest ==
  ASSUME IInv, Ledger, IsFiniteSet(Billed), NEW p \in Pollers, pc[p] = "request",
         pc' = [pc EXCEPT ![p] = "answered"], UNCHANGED <<spent, run>>
  PROVE  Cardinality(Billed') = Cardinality(Billed) + 1
<1>1. /\ \A q \in Pollers \ {p} : pc'[q] = pc[q]
      /\ pc'[p] = "answered" /\ TypeOK
  BY DEF IInv, TypeOK
<1>2. run[p] \in PollIds /\ spent[run[p]] = 0 /\ Cost # 0
  BY <1>1, OwnRow, Numbers DEF Ledger, Running
<1>3. \A q \in Pollers : Charged(q) => run[q] # run[p]
  BY <1>1 DEF IInv, Rows, Running, Charged
<1>4. run[p] \notin Billed
  BY <1>2, <1>3 DEF Billed
<1>5. ~Charged(p) /\ Charged(p)' /\ \A q \in Pollers \ {p} : Charged(q)' <=> Charged(q)
  BY <1>1 DEF Charged
<1>6. Billed' = Billed \cup {run[p]}
  BY <1>2, <1>5 DEF Billed
<1>7. QED BY <1>4, <1>6, FS_AddElement

\* Every step keeps the ledger: a charge enters it with its request, changes hands
\* with its commit, and leaves it only by being forgotten.
LEMMA LedgerStep ==
  ASSUME IInv, Ledger, [Next]_vars
  PROVE  Ledger'
<1>1. /\ TypeOK /\ Cost \in Nat /\ Cost > 0 /\ Allowance \in Nat /\ credits \in Nat
      /\ period \in Nat /\ period >= 1
  BY Numbers, BudgetAssumption DEF IInv, TypeOK
<1>2. IsFiniteSet(Billed) /\ Cardinality(Billed) \in Nat
  BY BudgetAssumption, FS_Subset, FS_CardinalityType DEF Billed
<1>3. ASSUME UNCHANGED <<spent, opened, period, credits, forgotten>>,
             \A q \in Pollers : (Running(q)' => Running(q)) /\ (Charged(q)' <=> Charged(q)),
             \A q \in Pollers : Running(q) => run'[q] = run[q] \/ ~Running(q)'
      PROVE  Ledger'
  <2>1. \A q \in Pollers : Charged(q) => Running(q) /\ Running(q)'
    BY <1>3 DEF Charged, Running
  <2>2. Billed' = Billed
    BY <1>3, <2>1 DEF Billed
  <2>3. QED BY <1>3, <2>2 DEF Ledger
<1>4. CASE \E p \in Pollers : Gate(p) \/ Ping(p)
  BY <1>1, <1>3, <1>4 DEF Gate, Ping, Goto, history, Running, Charged, TypeOK
<1>5. CASE Slate \/ UNCHANGED vars
  BY <1>3, <1>5 DEF Slate, vars, history, Running, Charged
<1>6. ASSUME NEW p \in Pollers, Open(p) PROVE Ledger'
  <2>1. PICK i \in PollIds : /\ ~Contains(opened, i)
                            /\ opened' = Append(opened, i)
                            /\ run' = [run EXCEPT ![p] = i]
    BY <1>6 DEF Open
  <2>2. /\ pc[p] = "idle" /\ pc'[p] = "gate" /\ run'[p] = i
        /\ \A q \in Pollers \ {p} : pc'[q] = pc[q] /\ run'[q] = run[q]
        /\ UNCHANGED <<credits, period, spent, forgotten>>
    BY <1>6, <1>1, <2>1 DEF Open, Goto, TypeOK
  <2>3. \A q \in Pollers : (Charged(q)' <=> Charged(q)) /\ (Charged(q) => run'[q] = run[q])
    BY <2>2 DEF Charged
  <2>4. Billed' = Billed
    BY <2>2, <2>3 DEF Billed
  <2>5. spent[i] = 0
    BY <2>1 DEF Ledger
  <2>6. \A x \in PollIds : Contains(opened, x) => Contains(opened', x)
    BY <1>1, <2>1 DEF TypeOK, Contains
  <2>7. QED BY <2>2, <2>4, <2>5, <2>6 DEF Ledger, Running
<1>7. ASSUME NEW p \in Pollers, Request(p) PROVE Ledger'
  <2>1. /\ pc[p] = "request" /\ pc' = [pc EXCEPT ![p] = "answered"]
        /\ credits' = credits - Cost
        /\ UNCHANGED <<period, opened, spent, run, forgotten>>
    BY <1>7 DEF Request, Goto, history
  <2>2. Cardinality(Billed') = Cardinality(Billed) + 1
    BY <2>1, <1>2, BilledOnRequest
  <2>3. \A q \in Pollers : Running(q)' => Running(q)
    BY <2>1, <1>1 DEF Running, TypeOK
  <2>4. period' = 1 /\ ~forgotten' =>
           Allowance - credits' = Cost * Cardinality(Billed')
    <3>1. \A n \in Nat : Cost * (n + 1) = Cost * n + Cost /\ Cost * n \in Nat
      BY <1>1
    <3>2. QED BY <3>1, <2>1, <2>2, <1>1, <1>2 DEF Ledger
  <2>5. QED BY <2>1, <2>3, <2>4 DEF Ledger
<1>8. ASSUME NEW p \in Pollers, RequestRaises(p) \/ WorkRaises(p) PROVE Ledger'
  <2>1. /\ pc[p] \in {"request", "answered"} /\ pc' = [pc EXCEPT ![p] = "failing"]
        /\ UNCHANGED <<period, opened, spent, run>>
        /\ ~forgotten' => ~forgotten /\ pc[p] = "request" /\ ~(credits' < credits)
    BY <1>8 DEF RequestRaises, WorkRaises, Goto
  <2>2. credits' = credits \/ credits' = credits - Cost
    BY <1>8 DEF RequestRaises, WorkRaises
  <2>3. \A q \in Pollers : Running(q)' => Running(q)
    BY <2>1, <1>1 DEF Running, TypeOK
  <2>4. ASSUME ~forgotten' PROVE credits' = credits /\ Billed' = Billed
    <3>1. credits' = credits
      BY <2>1, <2>2, <2>4, <1>1
    <3>2. \A q \in Pollers : Charged(q)' <=> Charged(q)
      BY <2>1, <2>4, <1>1 DEF Charged, TypeOK
    <3>3. QED BY <3>1, <3>2, <2>1 DEF Billed
  <2>5. QED BY <2>1, <2>3, <2>4 DEF Ledger
<1>9. ASSUME NEW p \in Pollers, Commit(p) PROVE Ledger'
  <2>1. /\ pc[p] = "pinged" /\ Leave(p) /\ Running(p) /\ Charged(p)
        /\ spent' = [spent EXCEPT ![run[p]] = Cost]
        /\ UNCHANGED <<credits, period, opened, forgotten>>
    BY <1>9 DEF Commit, history, Running, Charged
  <2>2. /\ pc'[p] = "idle"
        /\ \A q \in Pollers \ {p} : pc'[q] = pc[q] /\ run'[q] = run[q]
    BY <1>1, <2>1, LeaveForm
  <2>3. /\ run[p] \in PollIds /\ Contains(opened, run[p])
        /\ spent'[run[p]] = Cost
        /\ \A i \in PollIds \ {run[p]} : spent'[i] = spent[i]
    BY <1>1, <2>1, OwnRow DEF TypeOK
  <2>4. \A q \in Pollers \ {p} : Running(q) => run[q] # run[p] /\ run[q] \in PollIds
    BY <1>1, <2>1, OwnRow DEF IInv, Rows
  <2>5. ~Charged(p)' /\ \A q \in Pollers \ {p} : Charged(q)' <=> Charged(q)
    BY <2>2 DEF Charged
  <2>6. Billed' = Billed
    BY <2>1, <2>2, <2>3, <2>5 DEF Billed
  <2>7. QED BY <2>1, <2>2, <2>3, <2>4, <2>6 DEF Ledger, Running
<1>10. ASSUME NEW p \in Pollers, Fail(p) \/ Crash(p) PROVE Ledger'
  <2>1. /\ Running(p) /\ GiveBack(p) /\ Leave(p)
        /\ ~forgotten' => ~forgotten /\ ~Charged(p)
        /\ UNCHANGED <<credits, period, spent>>
    <3>1. CASE Fail(p)
      BY <3>1 DEF Fail, Running, Charged, history
    <3>2. CASE Crash(p)
      BY <3>2 DEF Crash, Running, Charged
    <3>3. QED BY <3>1, <3>2, <1>10
  <2>2. \A i \in PollIds : Contains(opened', i) <=> Contains(opened, i) /\ i # run[p]
    BY <1>1, <2>1, GiveBackForm
  <2>3. /\ pc'[p] = "idle"
        /\ \A q \in Pollers \ {p} : pc'[q] = pc[q] /\ run'[q] = run[q]
    BY <1>1, <2>1, LeaveForm
  <2>4. spent[run[p]] = 0
    BY <2>1 DEF Ledger
  <2>5. ASSUME ~forgotten' PROVE Billed' = Billed
    BY <2>1, <2>3, <2>5 DEF Billed, Charged
  <2>6. QED BY <2>1, <2>2, <2>3, <2>4, <2>5 DEF Ledger, Running
<1>11. CASE Reset
  <2>1. /\ period' = period + 1 /\ UNCHANGED <<opened, spent, pc, run, forgotten>>
    BY <1>11 DEF Reset, history
  <2>2. period' # 1
    BY <2>1, <1>1
  <2>3. QED BY <2>1, <2>2 DEF Ledger, Running
<1>12. QED
  BY <1>4, <1>5, <1>6, <1>7, <1>8, <1>9, <1>10, <1>11 DEF Next, Step

\* models.py:130: in the first period, and as long as no charged poll has failed, the
\* api_requests of the rows add up to what the API has charged whenever no poll is
\* under way, however many polls overlapped on the way there.
THEOREM HistoryAddsUp == Spec => []HistoryAccounts
<1>1. Init => Ledger
  <2>1. SUFFICES ASSUME Init PROVE Ledger
    OBVIOUS
  <2>2. /\ TypeOK /\ \A p \in Pollers : ~Running(p) /\ ~Charged(p)
        /\ \A i \in PollIds : spent[i] = 0
        /\ credits = Allowance /\ Cost # 0 /\ Cost \in Nat /\ Allowance \in Nat
    BY <2>1, InvInit, Numbers DEF IInv, Init, Running, Charged
  <2>3. Billed = {} /\ Cardinality(Billed) = 0
    BY <2>2, FS_EmptySet DEF Billed
  <2>4. QED BY <2>2, <2>3 DEF Ledger
<1>2. IInv /\ Ledger => HistoryAccounts
  <2>1. SUFFICES ASSUME IInv, Ledger, period = 1, ~forgotten,
                        \A p \in Pollers : pc[p] = "idle"
                 PROVE  SumOf(spent, PollIds) = Allowance - credits
    BY LedgerSum DEF HistoryAccounts
  <2>2. spent \in [PollIds -> {0, Cost}] /\ Cost \in Nat /\ Cost > 0
    BY <2>1, Numbers DEF IInv, TypeOK
  <2>3. SumOf(spent, PollIds) = Cost * Cardinality({i \in PollIds : spent[i] = Cost})
    BY <2>2, SumOfCharges
  <2>4. Billed = {i \in PollIds : spent[i] = Cost}
    BY <2>1 DEF Billed, Charged
  <2>5. QED BY <2>1, <2>3, <2>4 DEF Ledger
<1>3. IInv /\ Ledger /\ [Next]_vars => Ledger'
  BY LedgerStep
<1>4. QED BY <1>1, <1>2, <1>3, Inductive, PTL DEF Spec
=============================================================================
