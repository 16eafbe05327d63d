------------------------------ MODULE GamesWalk ------------------------------
(***************************************************************************)
(* The walk of /registraciones over the table of games (game_next in       *)
(* src/games.c, dbcur_new and dbcur_get in src/dbmanager.c).  A cursor is  *)
(* read without update_semaphore, one record per call; between two calls   *)
(* the other threads store and delete games.  The library keeps the keys   *)
(* in order, and DB_NEXT goes to the next key there is, also when the      *)
(* record under the cursor was deleted.                                    *)
(*                                                                         *)
(* Between walks nobody looks at the table: a walk begins with any.        *)
(***************************************************************************)
EXTENDS Integers, Sequences

CONSTANTS Ids,          \* keys, in the order of the library
          Records,      \* games, each with its owner
          Walkers,      \* users that list their games
          Administrators,
          NoUser, NoRecord

ASSUME WalkConstants ==
  /\ Ids \subseteq Nat \ {0}
  /\ NoRecord \notin Records

VARIABLES walk,         \* "idle", "walking" or "done"; "down": the process has ended
          user,         \* session_user
          table,
          pos,          \* the key under the cursor, 0 before the first
          list,         \* the games listed so far
          steady,       \* ghost: games the user had a right on since the walk began
          seen,         \* ghost: what has been in the table since the walk began
          failed        \* ghost: dbcur_get returned an error

walkVars == <<walk, user, table, pos, list, steady, seen, failed>>

Tables == [Ids -> Records \cup {NoRecord}]
Empty  == [k \in Ids |-> NoRecord]

\* game_check_user
MayList(u, game) == u \in Administrators \/ u = game.owner

HasRight(u, t, k) == t[k] # NoRecord /\ MayList(u, t[k])
Contents(t) == {[id |-> k, game |-> t[k]] : k \in {i \in Ids : t[i] # NoRecord}}

WalkInit ==
  /\ walk = "idle" /\ user = NoUser /\ table = Empty /\ pos = 0 /\ list = <<>>
  /\ steady = {} /\ seen = {} /\ failed = FALSE

\* The handler has the session; the first game_next opens the cursor.
Begin ==
  /\ walk = "idle" /\ walk' = "walking"
  /\ user' \in Walkers /\ table' \in Tables
  /\ pos' = 0 /\ list' = <<>> /\ failed' = FALSE
  /\ steady' = {k \in Ids : HasRight(user', table', k)}
  /\ seen' = Contents(table')

\* dbcur_new fails: dbcur_get dereferences the NULL it is given, and the process ends.
NoCursor ==
  /\ walk = "idle" /\ walk' = "down"
  /\ UNCHANGED <<user, table, pos, list, steady, seen, failed>>

\* Somebody starts the server again.
Started ==
  /\ walk = "down" /\ walk' = "idle"
  /\ UNCHANGED <<user, table, pos, list, steady, seen, failed>>

\* Mutant of Ahead: the cursor reads the record it is on again.
AheadM(k) == k >= pos /\ table[k] # NoRecord

Ahead(k) == k > pos /\ table[k] # NoRecord

\* game_next finds a game; the handler lists it if the user has a right on it.
Advance ==
  /\ walk = "walking"
  /\ \E k \in Ids :
       /\ Ahead(k) /\ \A j \in Ids : Ahead(j) => k <= j
       /\ pos' = k
       /\ list' = IF MayList(user, table[k]) THEN Append(list, [id |-> k, game |-> table[k]])
                  ELSE list
  /\ UNCHANGED <<walk, user, table, steady, seen, failed>>

\* DB_NOTFOUND: there are no more games.
Finish ==
  /\ walk = "walking" /\ \A k \in Ids : ~ Ahead(k)
  /\ walk' = "done"
  /\ UNCHANGED <<user, table, pos, list, steady, seen, failed>>

\* dbcur_get fails, or bin_to_game does: game_next returns 0 as it does at the end, and
\* what has been listed is the answer.
ReadError ==
  /\ walk = "walking" /\ walk' = "done" /\ failed' = TRUE
  /\ UNCHANGED <<user, table, pos, list, steady, seen>>

\* Another thread stores or deletes a game.
Change ==
  /\ walk = "walking"
  /\ \E k \in Ids, r \in Records \cup {NoRecord} :
       /\ r # table[k]
       /\ table' = [table EXCEPT ![k] = r]
       /\ steady' = IF HasRight(user, table', k) THEN steady ELSE steady \ {k}
       /\ seen' = seen \cup Contents(table')
  /\ UNCHANGED <<walk, user, pos, list, failed>>

\* The cursor is closed and the answer built from the list.
Close ==
  /\ walk = "done" /\ walk' = "idle"
  /\ user' = NoUser /\ table' = Empty /\ pos' = 0 /\ list' = <<>>
  /\ steady' = {} /\ seen' = {} /\ failed' = FALSE

Walk == Begin \/ NoCursor \/ Started \/ Advance \/ Finish \/ ReadError \/ Change

WalkSpec == WalkInit /\ [][Walk \/ Close]_walkVars

\* Whatever the other threads store and delete meanwhile, a list is in order and names no
\* game twice, every game in it was in the table during the walk and is one the user has a
\* right on, and it names every game the user had a right on all the time, unless reading
\* the table failed.
WalkIsComplete ==
  walk = "done" =>
    /\ \A i, j \in DOMAIN list : i < j => list[i].id < list[j].id
    /\ \A i \in DOMAIN list : list[i] \in seen /\ MayList(user, list[i].game)
    /\ failed \/ \A k \in steady : \E i \in DOMAIN list : list[i].id = k

(***************************************************************************)
(* Why: what lies behind the cursor has been listed.                       *)
(***************************************************************************)
WalkTypeOK ==
  /\ walk \in {"idle", "walking", "done", "down"} /\ table \in Tables /\ pos \in Ids \cup {0}
  /\ list \in Seq([id : Ids, game : Records])
  /\ steady \subseteq Ids /\ failed \in BOOLEAN

ListInOrder ==
  /\ \A i \in DOMAIN list : list[i].id <= pos
  /\ \A i, j \in DOMAIN list : i < j => list[i].id < list[j].id

ListIsTrue == \A i \in DOMAIN list : list[i] \in seen /\ MayList(user, list[i].game)

TableSeen == walk \in {"walking", "done"} => Contents(table) \subseteq seen

ListedBehind ==
  /\ walk = "walking" => \A k \in steady : HasRight(user, table, k)
  /\ \A k \in steady : k <= pos => \E i \in DOMAIN list : list[i].id = k
  /\ walk = "done" /\ ~ failed => \A k \in steady : k <= pos

WalkInv == WalkTypeOK /\ ListInOrder /\ ListIsTrue /\ TableSeen /\ ListedBehind
=============================================================================
