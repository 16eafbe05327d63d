------------------------------ MODULE Storage ------------------------------
(***************************************************************************)
(* The Berkeley DB file and the handles a process has on it                *)
(* (src/dbmanager.c): what is on the disk, what the process sees through   *)
(* its handles, how the tables are made, opened, synced and closed, and    *)
(* the counters that give users and game types their ids.                  *)
(*                                                                         *)
(* The library writes to the disk when it is told to (sync, close) and     *)
(* not before, one table after the other: a kill may come between two.     *)
(***************************************************************************)
EXTENDS Naturals, Sequences, FiniteSets

CONSTANTS Codes, Root,  \* codes of users, and the one init_db creates
          Names,        \* names of game types
          GameIds,
          MaxUsers,     \* bound on the counter of users
          MaxTypes,     \* bound on the counter of game types
          Absent,       \* a table the file does not have
          None          \* no record under a key

VARIABLES file,         \* the tables on the disk
          live,         \* the tables as seen through the handles
          handles,      \* db_users etc.: "closed", "open", "half" opened
          statbuf,      \* the memory of db_stats that DB->get returns
          torn          \* a kill left tables and indexes of different ages on the disk

storage == <<file, live, handles, statbuf, torn>>

ASSUME StorageOK ==
  /\ Root \in Codes
  /\ MaxUsers \in Nat \ {0} /\ MaxTypes \in Nat
  /\ None \notin Codes \cup Names \cup Nat

UserTable == [1..MaxUsers -> Codes \cup {None}]
TypeTable == [1..MaxTypes -> Names \cup {None}]
GameTable == [GameIds -> (1..MaxTypes) \cup {None}]  \* a game is its game_type_id
Stats     == [user : 0..MaxUsers, type : 0..MaxTypes]

Tables == [users : UserTable \cup {Absent},
           games : GameTable \cup {Absent},
           types : TypeTable \cup {Absent},
           stats : Stats \cup {Absent},
           sess  : {{}, Absent}]

\* The order in which init_db makes the tables, each empty; init_stats fills one.
InitOrder == <<"users", "games", "types", "stats", "sess">>

Made == [users |-> [i \in 1..MaxUsers |-> None],
         games |-> [g \in GameIds |-> None],
         types |-> [i \in 1..MaxTypes |-> None],
         stats |-> [user |-> 0, type |-> 0],
         sess  |-> {}]

NoTables == [t \in DOMAIN Made |-> Absent]

\* Absent is no table.
ASSUME AbsentOK ==
  /\ Absent \notin UserTable /\ Absent \notin GameTable
  /\ Absent \notin TypeTable /\ Absent \notin Stats /\ Absent # {}

Complete(tables) == \A t \in DOMAIN Made : tables[t] # Absent

StorageTypeOK ==
  /\ file \in Tables /\ live \in Tables
  /\ handles \in {"closed", "half", "open"}
  /\ handles = "open" => Complete(live) /\ Complete(file)
  /\ statbuf \in 0..MaxTypes
  /\ torn \in BOOLEAN

StorageInit ==
  /\ file = NoTables /\ live = NoTables
  /\ handles = "closed"
  /\ statbuf = 0
  /\ torn = FALSE

\* Mutant of OpenDbs: a table that is missing is not noticed.
OpenDbsM == \/ handles # "closed" /\ UNCHANGED <<live, handles>>
            \/ handles = "closed" /\ live' = file /\ handles' = "open"

\* open_dbs.  No table is created: a missing one leaves the handles half opened,
\* and db_users, which says that they are open, set.
OpenDbs ==
  \/ handles # "closed" /\ UNCHANGED <<live, handles>>
  \/ handles = "closed" /\ Complete(file) /\ live' = file /\ handles' = "open"
  \/ handles = "closed" /\ ~ Complete(file) /\ handles' = "half" /\ UNCHANGED live

\* May the tables be used once open_dbs has been called?
Usable == handles = "open" \/ (handles = "closed" /\ Complete(file))

\* The tables as they are once open_dbs has been called.
Seen == IF handles = "open" THEN live ELSE file

\* Mutant of Flushed: dbact_sync leaves the counters out.
FlushedM == [live EXCEPT !.stats = file.stats]

\* What dbact_sync and dbact_close leave on the disk.
Flushed == live

Sync  == file' = (IF handles = "open" THEN Flushed ELSE file)

\* The handles of a process that is gone.
NoHandles == handles' = "closed" /\ live' = NoTables /\ statbuf' = 0

Close == Sync /\ NoHandles /\ UNCHANGED torn

\* The process is gone without dbact_close.
Lose  == NoHandles /\ UNCHANGED <<file, torn>>

\* The order in which dbact_sync and dbact_close flush the tables and their indexes.
FlushOrder == <<"users", "users_code", "games", "types", "types_name", "stats", "sess">>

\* What is on the disk when the first n have been flushed.
Partly(n) == [t \in DOMAIN Made |-> IF \E i \in 1..n : FlushOrder[i] = t THEN Flushed[t] ELSE file[t]]

\* The process is killed while it flushes.  No harm is done if nothing had reached the
\* disk, or if all of it had and no index was left behind its table.
Tear(tables) ==
  /\ file' = tables
  /\ torn' = (torn \/ (file' # file /\ (file' # live \/ live.types # file.types)))
  /\ NoHandles

\* The ids under which the index of names has this name.
Indexed(name, tables) == {i \in 1..MaxTypes : tables.types[i] = name}

\* The ids the index of names may lead to.  An index that is behind its table has lost
\* the name, or leads to a record that was written again under another.
Leads(name, tables) ==
  IF torn THEN {i \in 1..MaxTypes : tables.types[i] # None} ELSE Indexed(name, tables)

\* dbput_data of a game type: the index is unique, a second record with the name of
\* another is refused as "Clave duplicada"; otherwise the record under the id is replaced.
PutType(id, name) ==
  \/ /\ torn \/ Indexed(name, live) \subseteq {id}
     /\ live' = [live EXCEPT !.types[id] = name]
  \/ /\ torn \/ ~ Indexed(name, live) \subseteq {id}
     /\ UNCHANGED live
=============================================================================
