-------------------------- MODULE Migrations_proofs --------------------------
(***************************************************************************)
(* Proofs about Migrations for every number of migrators, writers, games   *)
(* and rows, with and without failures of the count.                       *)
(***************************************************************************)
EXTENDS Migrations, TLAPS

\* A migrator on its way has its command line and knows what it started from.
CommandsSound ==
    \A m \in Migrators : pc[m] # "idle" => /\ command[m] \in Command
                                           /\ began[m] \subseteq Row

\* An open transaction writes into tables that are there, and at head its row
\* has its game.
WritesSound ==
    \A w \in Writers : writing[w] # Nothing =>
       /\ writing[w] \in Row
       /\ rev >= Tables
       /\ rev = Head => writing[w].pk \in games

\* No row has been given an id yet that a later row will get.
IdsGiven ==
    /\ \A r \in rows : r.id <= made
    /\ \A m \in Migrators : pc[m] # "idle" => \A r \in began[m] : r.id <= made
    /\ \A w \in Writers : writing[w] # Nothing => writing[w].id <= made

\* A row that is still to be committed is not in the table, was not when any
\* migrator started, and is nobody else's.
UncommittedIsNew ==
    /\ \A w \in Writers : writing[w] # Nothing =>
          /\ writing[w] \notin rows
          /\ \A m \in Migrators : pc[m] # "idle" => writing[w] \notin began[m]
    /\ \A v, w \in Writers : v # w /\ writing[v] # Nothing /\ writing[w] # Nothing
                                => writing[v] # writing[w]

\* A downgrade that has counted found none of the prices it started from.
Counted ==
    \A m \in Migrators :
       pc[m] = "migrate" /\ command[m].down /\ ~command[m].forced /\ ~blind[m]
          => Prices(began[m] \cap rows) = {}

\* The inductive invariant.  The count is taken steps before the tables are
\* dropped, and what is committed in between must be no row the migrator knew.
IInv == /\ TypeOK
        /\ RowsHaveGames
        /\ CommandsSound
        /\ WritesSound
        /\ IdsGiven
        /\ UncommittedIsNew
        /\ Counted
-----------------------------------------------------------------------------
\* An empty database is sound.
LEMMA InvInit == Init => IInv
  BY MigrationsAssumption DEF Init, IInv, TypeOK, RowsHaveGames, CommandsSound,
     WritesSound, IdsGiven, UncommittedIsNew, Counted, Referenced, Base, Tables, Head

\* What a step of one migrator leaves of the others, and of the invariant when
\* the tables stay as they are.
LEMMA ProbeStep ==
  ASSUME IInv, NEW m \in Migrators, UNCHANGED <<data, made, writing>>,
         pc' \in [Migrators -> {"idle", "owner", "loss", "migrate"}],
         command' \in [Migrators -> Command \cup {Nothing}],
         blind' \in [Migrators -> BOOLEAN],
         began' \in [Migrators -> (SUBSET Row) \cup {Nothing}],
         \A n \in Migrators \ {m} : /\ pc'[n] = pc[n] /\ command'[n] = command[n]
                                    /\ blind'[n] = blind[n] /\ began'[n] = began[n],
         pc'[m] # "idle" => /\ command'[m] \in Command
                            /\ (began'[m] = rows \/ (pc[m] # "idle" /\ began'[m] = began[m])),
         pc'[m] = "migrate" /\ command'[m].down /\ ~command'[m].forced /\ ~blind'[m]
            => Prices(began'[m] \cap rows) = {}
  PROVE  IInv'
<1>1. TypeOK' /\ RowsHaveGames' /\ WritesSound'
  BY DEF IInv, TypeOK, RowsHaveGames, WritesSound, Referenced, data
<1>2. ASSUME NEW n \in Migrators, pc'[n] # "idle"
      PROVE  /\ command'[n] \in Command /\ began'[n] \subseteq Row
             /\ \A r \in began'[n] : r.id <= made
             /\ \A w \in Writers : writing[w] # Nothing => writing[w] \notin began'[n]
  <2>1. (began'[n] = rows \/ (pc[n] # "idle" /\ began'[n] = began[n]))
    BY <1>2
  <2>2. QED BY <1>2, <2>1 DEF IInv, TypeOK, CommandsSound, IdsGiven, UncommittedIsNew
<1>3. CommandsSound' /\ IdsGiven' /\ UncommittedIsNew'
  BY <1>2 DEF IInv, CommandsSound, IdsGiven, UncommittedIsNew, data
<1>4. Counted'
  <2>1. ASSUME NEW n \in Migrators, pc'[n] = "migrate", command'[n].down,
               ~command'[n].forced, ~blind'[n]
        PROVE  Prices(began'[n] \cap rows') = {}
    BY <2>1 DEF IInv, Counted, data, Prices
  <2>2. QED BY <2>1 DEF Counted
<1>5. QED BY <1>1, <1>3, <1>4 DEF IInv

\* Where Leave puts a migrator.
LEMMA LeaveForm ==
  ASSUME IInv, NEW m \in Migrators, Leave(m)
  PROVE  /\ pc' \in [Migrators -> {"idle", "owner", "loss", "migrate"}]
         /\ command' \in [Migrators -> Command \cup {Nothing}]
         /\ blind' \in [Migrators -> BOOLEAN]
         /\ began' \in [Migrators -> (SUBSET Row) \cup {Nothing}]
         /\ pc'[m] = "idle"
         /\ \A n \in Migrators \ {m} : /\ pc'[n] = pc[n] /\ command'[n] = command[n]
                                       /\ blind'[n] = blind[n] /\ began'[n] = began[n]
  BY DEF IInv, TypeOK, Leave

\* Ending a command without touching the tables.
LEMMA LeaveStep ==
  ASSUME IInv, NEW m \in Migrators, Leave(m), UNCHANGED <<data, made, writing>>
  PROVE  IInv'
  BY LeaveForm, ProbeStep

\* A command starts from the committed rows.
LEMMA StartStep ==
  ASSUME IInv, NEW m \in Migrators, Start(m)
  PROVE  IInv'
<1>1. PICK c \in Command : /\ command' = [command EXCEPT ![m] = c]
                           /\ began' = [began EXCEPT ![m] = rows]
  BY DEF Start
<1>2. /\ pc' = [pc EXCEPT ![m] = "owner"] /\ blind' = blind
      /\ UNCHANGED <<data, made, writing>>
  BY DEF Start, Goto
<1>3. /\ pc' \in [Migrators -> {"idle", "owner", "loss", "migrate"}]
      /\ command' \in [Migrators -> Command \cup {Nothing}]
      /\ blind' \in [Migrators -> BOOLEAN]
      /\ began' \in [Migrators -> (SUBSET Row) \cup {Nothing}]
      /\ pc'[m] = "owner" /\ command'[m] = c /\ began'[m] = rows
      /\ \A n \in Migrators \ {m} : /\ pc'[n] = pc[n] /\ command'[n] = command[n]
                                    /\ blind'[n] = blind[n] /\ began'[n] = began[n]
  BY <1>1, <1>2 DEF IInv, TypeOK
<1>4. QED BY <1>2, <1>3, ProbeStep

\* The two probes and their failure move one migrator on or end its command.
LEMMA CheckStep ==
  ASSUME IInv, NEW m \in Migrators, CheckOwner(m) \/ CheckLoss(m) \/ CheckLossErrs(m)
  PROVE  IInv'
<1>1. CASE Leave(m)
  <2>1. UNCHANGED <<data, made, writing>>
    BY DEF CheckOwner, CheckLoss, CheckLossErrs
  <2>2. QED BY <1>1, <2>1, LeaveStep
<1>2. CASE ~Leave(m)
  <2>1. /\ UNCHANGED <<data, made, writing>> /\ UNCHANGED <<command, began>>
        /\ pc[m] # "idle"
        /\ \E to \in {"loss", "migrate"} : pc' = [pc EXCEPT ![m] = to]
        /\ blind' = blind \/ blind' = [blind EXCEPT ![m] = TRUE]
    BY <1>2 DEF CheckOwner, CheckLoss, CheckLossErrs, Goto
  <2>2. /\ pc' \in [Migrators -> {"idle", "owner", "loss", "migrate"}]
        /\ blind' \in [Migrators -> BOOLEAN]
        /\ \A n \in Migrators \ {m} : pc'[n] = pc[n] /\ blind'[n] = blind[n]
    BY <2>1 DEF IInv, TypeOK
  <2>3. ASSUME pc'[m] = "migrate", command[m].down, ~command[m].forced, ~blind'[m]
        PROVE  Prices(began[m] \cap rows) = {}
    <3>1. CASE CheckOwner(m)
      BY <1>2, <2>3, <3>1 DEF CheckOwner, Goto, IInv, TypeOK
    <3>2. CASE CheckLoss(m)
      BY <1>2, <2>3, <3>2 DEF CheckLoss, Prices
    <3>3. CASE CheckLossErrs(m)
      BY <2>3, <3>3 DEF CheckLossErrs, IInv, TypeOK
    <3>4. QED BY <3>1, <3>2, <3>3
  <2>4. command[m] \in Command
    BY <2>1 DEF IInv, CommandsSound
  <2>5. /\ command \in [Migrators -> Command \cup {Nothing}]
        /\ began \in [Migrators -> (SUBSET Row) \cup {Nothing}]
    BY DEF IInv, TypeOK
  <2>6. QED BY <2>1, <2>2, <2>3, <2>4, <2>5, ProbeStep
<1>3. QED BY <1>1, <1>2

\* A migration moves the schema, empties what it creates and drops, and meets
\* no open transaction.
LEMMA MigrateStep ==
  ASSUME IInv, NEW m \in Migrators, Migrate(m)
  PROVE  IInv'
<1>1. CASE Reaches(command[m])
  <2> DEFINE c == command[m]
  <2>1. /\ c \in Command /\ rev' = c.to /\ games' = {} /\ rows' = NewRows(c)
        /\ Leave(m) /\ UNCHANGED <<foreign, made, writing>>
        /\ \A w \in Writers : writing[w] = Nothing
    BY <1>1 DEF Migrate, NewGames, IInv, CommandsSound
  <2>2. /\ c.to \in Base..Head /\ rows' \subseteq rows
        /\ c.to < Tables => rows' = {}
    BY <2>1 DEF Command, NewRows, Base, Tables, Head
  <2>3. c.to = Head => ~c.down /\ Referenced(rows, {})
    BY <1>1, <2>1 DEF Reaches, Moves, Command, Base, Head, IInv, TypeOK
  <2>4. TypeOK'
    BY <2>1, <2>2, LeaveForm DEF IInv, TypeOK
  <2>5. RowsHaveGames'
    BY <2>1, <2>2, <2>3 DEF RowsHaveGames, Referenced
  <2>6. CommandsSound' /\ WritesSound' /\ IdsGiven' /\ UncommittedIsNew' /\ Counted'
    BY <2>1, <2>2, LeaveForm DEF IInv, CommandsSound, WritesSound, IdsGiven,
       UncommittedIsNew, Counted, Prices
  <2>7. QED BY <2>4, <2>5, <2>6 DEF IInv
<1>2. CASE ~Reaches(command[m])
  <2>1. Leave(m) /\ UNCHANGED <<data, made, writing>>
    BY <1>2 DEF Migrate, data
  <2>2. QED BY <2>1, LeaveStep
<1>3. QED BY <1>1, <1>2

\* A row is written with an id of its own and, at head, with its game.
LEMMA InsertStep ==
  ASSUME IInv, NEW w \in Writers, Insert(w)
  PROVE  IInv'
<1>1. PICK pk \in Pks, kind \in {"price", "bet"} :
         /\ rev = Head => Referenced({[id |-> made + 1, pk |-> pk, kind |-> kind]}, games)
         /\ writing' = [writing EXCEPT ![w] = [id |-> made + 1, pk |-> pk, kind |-> kind]]
  BY DEF Insert
<1> DEFINE r == [id |-> made + 1, pk |-> pk, kind |-> kind]
<1>2. /\ made' = made + 1 /\ made < MaxRows /\ rev >= Tables
      /\ UNCHANGED <<rev, foreign, games, rows, pc, command, blind, began>>
  BY DEF Insert, data, probes
<1>3. made \in 0..MaxRows /\ MaxRows \in Nat
  BY MigrationsAssumption DEF IInv, TypeOK
<1>4. r \in Row /\ r.id = made + 1 /\ r.pk = pk
  BY <1>2, <1>3 DEF Row
<1>5. rev = Head => r.pk \in games
  BY <1>1 DEF Referenced
<1> HIDE DEF r
<1>6. writing' \in [Writers -> Row \cup {Nothing}] /\ writing'[w] = r
      /\ \A v \in Writers \ {w} : writing'[v] = writing[v]
  BY <1>1, <1>4 DEF IInv, TypeOK, r
<1>7. /\ r \notin rows
      /\ \A m \in Migrators : pc[m] # "idle" => r \notin began[m]
      /\ \A v \in Writers : writing[v] # Nothing => writing[v] # r
  BY <1>3, <1>4 DEF IInv, IdsGiven
<1>8. TypeOK' /\ RowsHaveGames' /\ CommandsSound' /\ Counted'
  BY <1>2, <1>3, <1>6 DEF IInv, TypeOK, RowsHaveGames, Referenced, CommandsSound,
     Counted, Prices
<1>9. WritesSound'
  BY <1>2, <1>4, <1>5, <1>6 DEF IInv, WritesSound
<1>10. IdsGiven'
  <2>1. \A q \in Row : q.id <= made => q.id <= made + 1
    BY <1>3 DEF Row
  <2>2. /\ rows \subseteq Row
        /\ \A m \in Migrators : pc[m] # "idle" => began[m] \subseteq Row
        /\ \A v \in Writers : writing[v] # Nothing => writing[v] \in Row
    BY DEF IInv, TypeOK, CommandsSound, WritesSound
  <2>3. r.id <= made + 1
    BY <1>3, <1>4
  <2>4. QED BY <1>2, <1>6, <2>1, <2>2, <2>3 DEF IInv, IdsGiven
<1>11. UncommittedIsNew'
  BY <1>2, <1>6, <1>7 DEF IInv, UncommittedIsNew
<1>12. QED BY <1>8, <1>9, <1>10, <1>11 DEF IInv

\* A committed row is in the table, and in no migrator's knowledge.
LEMMA CommitStep ==
  ASSUME IInv, NEW w \in Writers, Commit(w)
  PROVE  IInv'
<1>1. /\ writing[w] # Nothing /\ rows' = rows \cup {writing[w]}
      /\ writing' = [writing EXCEPT ![w] = Nothing]
      /\ UNCHANGED <<rev, foreign, games, made, pc, command, blind, began>>
  BY DEF Commit, probes
<1>2. /\ writing' \in [Writers -> Row \cup {Nothing}] /\ writing'[w] = Nothing
      /\ \A v \in Writers \ {w} : writing'[v] = writing[v]
  BY <1>1 DEF IInv, TypeOK
<1>3. /\ writing[w] \in Row /\ rev >= Tables
      /\ rev = Head => writing[w].pk \in games
  BY <1>1 DEF IInv, WritesSound
<1>4. TypeOK'
  BY <1>1, <1>2, <1>3 DEF IInv, TypeOK, Base, Tables, Head
<1>5. RowsHaveGames' /\ CommandsSound' /\ WritesSound'
  BY <1>1, <1>2, <1>3 DEF IInv, RowsHaveGames, Referenced, CommandsSound, WritesSound
<1>6. IdsGiven' /\ UncommittedIsNew'
  BY <1>1, <1>2 DEF IInv, IdsGiven, UncommittedIsNew
<1>7. Counted'
  BY <1>1 DEF IInv, Counted, UncommittedIsNew, Prices
<1>8. QED BY <1>4, <1>5, <1>6, <1>7 DEF IInv

\* What touches neither the tables' rows nor the migrators keeps the invariant.
LEMMA OtherStep ==
  ASSUME IInv,
         (\E w \in Writers : Rollback(w)) \/ Intrude \/ ListGame \/ UNCHANGED vars
  PROVE  IInv'
<1>1. CASE \E w \in Writers : Rollback(w)
  BY <1>1 DEF Rollback, data, probes, IInv, TypeOK, RowsHaveGames, Referenced,
     CommandsSound, WritesSound, IdsGiven, UncommittedIsNew, Counted, Prices
<1>2. CASE Intrude
  BY <1>2 DEF Intrude, probes, IInv, TypeOK, RowsHaveGames, Referenced,
     CommandsSound, WritesSound, IdsGiven, UncommittedIsNew, Counted, Prices
<1>3. CASE ListGame
  BY <1>3 DEF ListGame, probes, IInv, TypeOK, RowsHaveGames, Referenced,
     CommandsSound, WritesSound, IdsGiven, UncommittedIsNew, Counted, Prices
<1>4. CASE UNCHANGED vars
  BY <1>4 DEF vars, data, probes, IInv, TypeOK, RowsHaveGames, Referenced,
     CommandsSound, WritesSound, IdsGiven, UncommittedIsNew, Counted, Prices
<1>5. QED BY <1>1, <1>2, <1>3, <1>4

\* Every step keeps the inductive invariant.
LEMMA InvStep == IInv /\ [Next]_vars => IInv'
<1>1. ASSUME IInv, NEW m \in Migrators, Abort(m) PROVE IInv'
  BY <1>1, LeaveStep DEF Abort
<1>2. QED BY <1>1, StartStep, CheckStep, MigrateStep, InsertStep, CommitStep,
             OtherStep DEF Next
-----------------------------------------------------------------------------
\* The inductive invariant holds of every behaviour.
THEOREM Inductive == Spec => []IInv
  BY InvInit, InvStep, PTL DEF Spec

\* Every variable keeps its type, and no table holds rows below the revision
\* that creates it.
THEOREM TypeCorrect == Spec => []TypeOK
<1>1. IInv => TypeOK
  BY DEF IInv
<1>2. QED BY <1>1, Inductive, PTL

\* 0002, its two foreign keys: at head every snapshot and every bet has its
\* game, however upgrades, downgrades and writers interleave.
THEOREM KeysHold == Spec => []RowsHaveGames
<1>1. IInv => RowsHaveGames
  BY DEF IInv
<1>2. QED BY <1>1, Inductive, PTL

\* env.py:111: no command without `-x allow_data_loss` whose count could be made
\* takes a price that was committed when it started, with any number of other
\* migrations and writers in between.
THEOREM NoKnownPriceLost == Spec => KnownPricesSurvive
<1> DEFINE Survive == \A m \in Migrators :
              Ends(m) /\ ~command[m].forced /\ ~blind[m] =>
                 Prices(began[m] \cap rows) \subseteq rows'
<1>1. ASSUME IInv, Next, NEW m \in Migrators, Ends(m), ~command[m].forced, ~blind[m]
      PROVE  Prices(began[m] \cap rows) \subseteq rows'
  <2>1. CASE rows \subseteq rows'
    BY <2>1 DEF Prices
  <2>2. CASE ~(rows \subseteq rows')
    <3>1. PICK n \in Migrators : Migrate(n)
      BY <1>1, <2>2 DEF Next, Start, CheckOwner, CheckLoss, CheckLossErrs, Abort,
         Insert, Commit, Rollback, Intrude, ListGame, data
    <3>2. n = m
      BY <1>1, <3>1, LeaveForm DEF Migrate, Ends
    <3>3. command[m] \in Command /\ command[m].to = Base /\ Moves(command[m])
      BY <1>1, <2>2, <3>1, <3>2 DEF Migrate, Reaches, NewRows, Ends, IInv, CommandsSound
    <3>4. command[m].down
      <4>1. SUFFICES ASSUME ~command[m].down PROVE FALSE
        OBVIOUS
      <4>2. rev < 0 /\ rev \in 0..2
        BY <1>1, <3>3, <4>1 DEF Moves, Base, Head, IInv, TypeOK
      <4>3. QED BY <4>2
    <3>5. Prices(began[m] \cap rows) = {}
      BY <1>1, <3>4 DEF Ends, IInv, Counted
    <3>6. QED BY <3>5
  <2>3. QED BY <2>1, <2>2
<1>2. IInv /\ [Next]_vars => [Survive]_vars
  BY <1>1
<1>3. QED BY <1>2, Inductive, PTL DEF Spec, KnownPricesSurvive
=============================================================================
