----------------------------- MODULE Migrations -----------------------------
(***************************************************************************)
(* The schema under `alembic upgrade` and `alembic downgrade`              *)
(* (src/database/migrations/), while other processes write.  Before        *)
(* anything changes, env.py looks at the database over connections of its  *)
(* own: are these our tables, and would a downgrade lose prices?  What the *)
(* probes saw may be out of date when the migration runs.                  *)
(*                                                                         *)
(* A migration is one transaction: all its revisions or none.  Its DDL     *)
(* waits for every transaction that has touched the tables, and a deadlock *)
(* with one of these ends either of them (Abort, Rollback).                *)
(***************************************************************************)
EXTENDS Naturals

CONSTANTS Migrators,     \* processes running alembic
          Writers,       \* polls, replays and the CLI
          Pks,           \* game_pks (a bound)
          MaxRows,       \* rows ever inserted (a bound)
          Nothing,       \* no command; no open transaction
          Faults         \* "probe": the count of prices fails with an error

ASSUME MigrationsAssumption == /\ MaxRows \in Nat
                               /\ Faults \subseteq {"probe"}

VARIABLES rev,           \* alembic_version: 0 is base, 2 is head
          foreign,       \* another project's tables are in the database
          games,         \* committed rows of games, by game_pk
          rows,          \* committed rows of odds_snapshots and bets
          made,          \* rows inserted so far
          writing,       \* the row of each writer's open transaction
          pc, command,   \* each migrator's position and command line
          blind,         \* its count of prices failed
          began          \* history: the rows there were when it started

data == <<rev, foreign, games, rows>>
probes == <<pc, command, blind, began>>
vars == <<data, made, writing, probes>>

Row == [id : 1..MaxRows, pk : Pks, kind : {"price", "bet"}]

\* The tables 0001 and 0002 create are missing below these revisions.
Base == 0
Tables == 1
Head == 2

Command == [to : Base..Head, down : BOOLEAN, forced : BOOLEAN]

Prices(table) == {r \in table : r.kind = "price"}

\* fk_bets_game and fk_odds_snapshots_game.
Referenced(table, parents) == \A r \in table : r.pk \in parents

Init == /\ rev = Base /\ foreign \in BOOLEAN
        /\ games = {} /\ rows = {} /\ made = 0
        /\ writing = [w \in Writers |-> Nothing]
        /\ pc = [m \in Migrators |-> "idle"]
        /\ command = [m \in Migrators |-> Nothing]
        /\ blind = [m \in Migrators |-> FALSE]
        /\ began = [m \in Migrators |-> Nothing]
-----------------------------------------------------------------------------
Goto(m, from, to) == pc[m] = from /\ pc' = [pc EXCEPT ![m] = to]

Leave(m) == /\ pc' = [pc EXCEPT ![m] = "idle"]
            /\ command' = [command EXCEPT ![m] = Nothing]
            /\ blind' = [blind EXCEPT ![m] = FALSE]
            /\ began' = [began EXCEPT ![m] = Nothing]

\* `alembic upgrade` or `alembic downgrade`, with or without
\* `-x allow_data_loss=1`; an upgrade does not look at the flag.
Start(m) ==
    /\ Goto(m, "idle", "owner")
    /\ \E c \in Command :
         /\ c.forced => c.down
         /\ command' = [command EXCEPT ![m] = c]
         /\ began' = [began EXCEPT ![m] = rows]
    /\ UNCHANGED <<data, made, writing, blind>>

\* assert_database_is_ours: any table that is not ours ends the command.
CheckOwner(m) ==
    /\ pc[m] = "owner"
    /\ IF foreign
       THEN Leave(m)
       ELSE /\ Goto(m, "owner", IF command[m].down THEN "loss" ELSE "migrate")
            /\ UNCHANGED <<command, blind, began>>
    /\ UNCHANGED <<data, made, writing>>

\* Seeded fault: the prices are counted at the head revision alone.
CheckLossAtHead(m) ==
    /\ pc[m] = "loss"
    /\ IF ~command[m].forced /\ rev = Head /\ Prices(rows) # {}
       THEN Leave(m)
       ELSE Goto(m, "loss", "migrate") /\ UNCHANGED <<command, blind, began>>
    /\ UNCHANGED <<data, made, writing>>

\* assert_no_data_loss counts the committed prices; without the table it has
\* nothing to count.  Bets are not counted.
CheckLoss(m) ==
    /\ pc[m] = "loss"
    /\ IF ~command[m].forced /\ Prices(rows) # {}
       THEN Leave(m)
       ELSE Goto(m, "loss", "migrate") /\ UNCHANGED <<command, blind, began>>
    /\ UNCHANGED <<data, made, writing>>

\* `except DatabaseError` takes every failure of the count (a timeout, a lost
\* connection) for a missing table.
CheckLossErrs(m) ==
    /\ "probe" \in Faults
    /\ Goto(m, "loss", "migrate") /\ ~command[m].forced
    /\ blind' = [blind EXCEPT ![m] = TRUE]
    /\ UNCHANGED <<data, made, writing, command, began>>

\* Upgrades only go up, downgrades only down; anything else changes nothing.
Moves(c) == IF c.down THEN c.to < rev ELSE rev < c.to

\* Seeded fault: the constraint is added without looking at the rows there are.
ReachesUnchecked(c) == Moves(c)

\* 0002 creates games in the transaction that then adds the foreign keys: the
\* keys are validated against an empty table, and a row that is already there
\* fails the migration as a whole.  The UPDATE and the count between the two
\* join that empty table and do nothing.
Reaches(c) == Moves(c) /\ (~c.down /\ c.to = Head => Referenced(rows, {}))

\* Seeded fault: 0002's downgrade drops the constraints and not the table.
KeptGames(c) == IF c.down /\ c.to = Tables THEN games ELSE {}

\* What upgrade() and downgrade() of the revisions in between leave of games:
\* 0002 creates it empty and drops it.
NewGames(c) == {}

\* And of the tables of 0001: its downgrade drops them with all they hold.
NewRows(c) == IF c.to = Base THEN {} ELSE rows

\* run_migrations, once nobody else has an open transaction on the tables.  Of
\* two migrations at once the later finds its plan outdated and fails (Abort),
\* or starts from what the earlier left.
Migrate(m) ==
    /\ pc[m] = "migrate"
    /\ \A w \in Writers : writing[w] = Nothing
    /\ LET c == command[m] IN
         IF Reaches(c)
         THEN /\ rev' = c.to
              /\ games' = NewGames(c)
              /\ rows' = NewRows(c)
         ELSE UNCHANGED <<rev, games, rows>>
    /\ Leave(m)
    /\ UNCHANGED <<foreign, made, writing>>

\* The process dies, or is the victim of a deadlock.
Abort(m) ==
    /\ pc[m] # "idle"
    /\ Leave(m)
    /\ UNCHANGED <<data, made, writing>>
-----------------------------------------------------------------------------
\* Another project is pointed at this database.
Intrude == /\ ~foreign /\ foreign' = TRUE
           /\ UNCHANGED <<rev, games, rows, made, writing, probes>>

\* The schedule ingest stores a game.
ListGame == /\ rev = Head
            /\ \E pk \in Pks \ games : games' = games \cup {pk}
            /\ UNCHANGED <<rev, foreign, rows, made, writing, probes>>

\* A snapshot or a bet; the CLI writes them at revision 0001 too, where no
\* game is needed.
Insert(w) ==
    /\ writing[w] = Nothing /\ made < MaxRows /\ rev >= Tables
    /\ \E pk \in Pks, kind \in {"price", "bet"} :
         LET r == [id |-> made + 1, pk |-> pk, kind |-> kind] IN
           /\ rev = Head => Referenced({r}, games)
           /\ writing' = [writing EXCEPT ![w] = r]
    /\ made' = made + 1
    /\ UNCHANGED <<data, probes>>

Commit(w) ==
    /\ writing[w] # Nothing
    /\ rows' = rows \cup {writing[w]}
    /\ writing' = [writing EXCEPT ![w] = Nothing]
    /\ UNCHANGED <<rev, foreign, games, made, probes>>

Rollback(w) ==
    /\ writing[w] # Nothing
    /\ writing' = [writing EXCEPT ![w] = Nothing]
    /\ UNCHANGED <<data, made, probes>>

Next == \/ \E m \in Migrators : \/ Start(m) \/ CheckOwner(m) \/ CheckLoss(m)
                                \/ CheckLossErrs(m) \/ Migrate(m) \/ Abort(m)
        \/ \E w \in Writers : Insert(w) \/ Commit(w) \/ Rollback(w)
        \/ Intrude \/ ListGame

Spec == Init /\ [][Next]_vars
-----------------------------------------------------------------------------
\* Every variable has its type, and the tables hold nothing below the
\* revisions that create them.
TypeOK == /\ rev \in Base..Head /\ foreign \in BOOLEAN
          /\ games \subseteq Pks /\ (rev < Head => games = {})
          /\ rows \subseteq Row /\ (rev < Tables => rows = {})
          /\ made \in 0..MaxRows
          /\ writing \in [Writers -> Row \cup {Nothing}]
          /\ pc \in [Migrators -> {"idle", "owner", "loss", "migrate"}]
          /\ command \in [Migrators -> Command \cup {Nothing}]
          /\ blind \in [Migrators -> BOOLEAN]
          /\ began \in [Migrators -> (SUBSET Row) \cup {Nothing}]

\* 0002, its two foreign keys: at head every row has its game, whatever was
\* written before, during and after the migration that brought it there.
RowsHaveGames == rev = Head => Referenced(rows, games)

Ends(m) == pc[m] = "migrate" /\ pc'[m] = "idle"

\* env.py:111: a command without `-x allow_data_loss` never takes a price that
\* was committed when it started, provided its count could be made; prices that
\* arrive after the count have no such protection.
KnownPricesSurvive ==
    [][\A m \in Migrators : Ends(m) /\ ~command[m].forced /\ ~blind[m] =>
          Prices(began[m] \cap rows) \subseteq rows']_vars
=============================================================================
