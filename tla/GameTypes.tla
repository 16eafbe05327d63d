----------------------------- MODULE GameTypes -----------------------------
(***************************************************************************)
(* The game types of a server (src/game_types.c): a table in the file, and *)
(* an array of pointers in memory that all threads share without a lock.   *)
(* One action is one call into dbmanager.c, or one pass over the array,    *)
(* with the code of the thread up to the next.                             *)
(***************************************************************************)
EXTENDS Storage

CONSTANTS Main,         \* the thread of main(), which runs game_type_discover
          Workers,      \* threads of the mongoose pool
          Broken,       \* names whose definition does not load
          Chunk,        \* slots added to the array when it is full
          Junk          \* the name decoded from a pointer nobody set

VARIABLES list,         \* game_types_lista, up to game_types_lista_count
          alloc,        \* game_types_lista_alloc
          defs,         \* names that have a .qgame file
          pc, name, id, \* per thread: where it is, and its GameType or its key
          game,         \* per thread: the game it creates or plays
          todo,         \* names game_type_discover has not read yet
          born          \* history: the name of the type a game was created with

array  == <<list, alloc>>
frames == <<pc, name, id, game>>

Threads == Workers \cup {Main}

Places == {"idle", "search", "lookup", "read", "bump", "store", "put",
           "save", "sync", "load", "resolve", "fetch", "walk"}

\* The thread uses game_type_share_by_name.
Sharing == {"search", "lookup", "read", "bump", "store", "put"}

Entry == [name : Names \cup {Junk}, id : 0..MaxTypes]

ASSUME GameTypesOK ==
  /\ Main \notin Workers
  /\ Broken \subseteq Names
  /\ Chunk \in Nat \ {0}
  /\ Junk \notin Names \cup {None} /\ None \notin Entry

TypesTypeOK ==
  /\ list \in Seq(Entry)
  /\ alloc \in Nat
  /\ defs \subseteq Names /\ todo \subseteq Names
  /\ born \in [GameIds -> Names \cup {None}]
  /\ pc   \in [Threads -> Places]
  /\ name \in [Threads -> Names \cup {None}]
  /\ id   \in [Threads -> 0..MaxTypes]
  /\ game \in [Threads -> GameIds \cup {None}]

TypesInit ==
  /\ list = <<>> /\ alloc = 0 /\ defs = {} /\ todo = {}
  /\ born = [g \in GameIds |-> None]
  /\ pc   = [t \in Threads |-> "idle"]
  /\ name = [t \in Threads |-> None]
  /\ id   = [t \in Threads |-> 0]
  /\ game = [t \in Threads |-> None]

Goto(t, label) == pc' = [pc EXCEPT ![t] = label]

\* The thread is done: its request is answered.
Done(t) ==
  /\ Goto(t, "idle")
  /\ name' = [name EXCEPT ![t] = None]
  /\ id'   = [id   EXCEPT ![t] = 0]
  /\ game' = [game EXCEPT ![t] = None]

\* game_type_share_by_name returned entry e: discover goes on, crea makes its game.
Shared(t, e) ==
  IF t = Main THEN Done(t)
  ELSE /\ Goto(t, "save")
       /\ id' = [id EXCEPT ![t] = e.id]
       /\ UNCHANGED <<name, game>>

\* Positions of the array a lookup by name, or by id, may stop at: it stops at the first.
ByName(n) == {i \in DOMAIN list : list[i].name = n}
ById(k)   == {i \in DOMAIN list : list[i].id = k}
IsFirst(i, S) == i \in S /\ \A j \in S : i <= j

\* Mutant of Grown: the array grows one entry too late.
GrownM == IF Len(list) > alloc THEN alloc + Chunk ELSE alloc

\* Room for one more entry, made before it is known whether one is needed.
Grown == IF Len(list) >= alloc THEN alloc + Chunk ELSE alloc

Rules(n) == n \in defs \ Broken

\* game_type_share_by_name returned NULL: discover stops, crea answers 404.
Failed(t) ==
  /\ Done(t)
  /\ todo' = IF t = Main THEN {} ELSE todo

(***************************************************************************)
(* game_type_share_by_name                                                 *)
(***************************************************************************)
Search(t) ==
  /\ pc[t] = "search"
  /\ \/ /\ \E i \in ByName(name[t]) : IsFirst(i, ByName(name[t])) /\ Shared(t, list[i])
        /\ UNCHANGED alloc
     \/ /\ ByName(name[t]) = {}
        /\ alloc' = Grown
        /\ Goto(t, "lookup") /\ UNCHANGED <<name, id, game>>
  /\ UNCHANGED <<storage, list, defs, todo, born>>

\* The name is not in the file: its rules are opened, under lector_mutex.
NotStored(t) ==
  /\ \/ Rules(name[t])   /\ Goto(t, "read") /\ UNCHANGED <<name, id, game, todo>>
     \/ ~ Rules(name[t]) /\ Failed(t)
  /\ UNCHANGED list

Add(t, e) ==
  /\ list' = Append(list, e)
  /\ Shared(t, e) /\ UNCHANGED todo

\* What game_type_by_name may make of dbget_data: the record the index leads to, or None.
\* A handle that did not open gives an error, which is taken for success: memory nobody
\* set is decoded, and may give nothing or anything.
Got(n) ==
  LET ids == IF Usable THEN Leads(n, Seen) ELSE {}
  IN {[name |-> Seen.types[i], id |-> i] : i \in ids}
     \cup (IF ids = {} \/ torn THEN {None} ELSE {})
     \cup (IF handles = "half" THEN {[name |-> Junk, id |-> 0]} ELSE {})

\* game_type_by_name, then its rules if there is no such record.
Lookup(t) ==
  /\ pc[t] = "lookup"
  /\ OpenDbs
  /\ \E e \in Got(name[t]) : IF e = None THEN NotStored(t) ELSE Add(t, e)
  /\ UNCHANGED <<file, statbuf, torn, alloc, defs, born>>

\* Mutant of Read: the counters are not read again.
ReadM(t) ==
  /\ pc[t] = "read"
  /\ \/ handles = "open" /\ Goto(t, "bump")
     \/ handles = "half" /\ Goto(t, "put")
  /\ UNCHANGED <<storage, array, defs, name, id, game, todo, born>>

\* game_type_save always takes a new id: dbget_stats_struct reads the counters into
\* the memory of the library, ...
Read(t) ==
  /\ pc[t] = "read"
  /\ \/ handles = "open" /\ statbuf' = live.stats.type /\ Goto(t, "bump")
     \/ handles = "half" /\ Goto(t, "put") /\ UNCHANGED statbuf
  /\ UNCHANGED <<file, live, handles, torn, array, defs, name, id, game, todo, born>>

\* ... dbget_game_typenextid counts there, ...
Bump(t) ==
  /\ pc[t] = "bump" /\ statbuf < MaxTypes
  /\ statbuf' = statbuf + 1
  /\ id' = [id EXCEPT ![t] = statbuf + 1]
  /\ Goto(t, "store")
  /\ UNCHANGED <<file, live, handles, torn, array, defs, name, game, todo, born>>

Counted == [live EXCEPT !.stats.type = statbuf]

\* ... and dbput_stats_struct stores what is there now.
Store(t) ==
  /\ pc[t] = "store"
  /\ live' = Counted
  /\ Goto(t, "put")
  /\ UNCHANGED <<file, handles, statbuf, torn, array, defs, name, id, game, todo, born>>

\* The result of game_type_save is ignored.
Put(t) ==
  /\ pc[t] = "put"
  /\ IF handles = "open" THEN PutType(id[t], name[t]) ELSE UNCHANGED live
  /\ Add(t, [name |-> name[t], id |-> id[t]])
  /\ UNCHANGED <<file, handles, statbuf, torn, alloc, defs, born>>

(***************************************************************************)
(* What requests do with game types.                                       *)
(***************************************************************************)
\* Some id no game has; which one does not matter.
Unused == CHOOSE g \in GameIds : born[g] = None

\* game_controller_crea: game_type_create draws an id, game_save, then dbact_sync;
\* game_controller_registra stores a game under an id of the client and answers.
Save(t) ==
  /\ pc[t] = "save"
  /\ \E g \in GameIds : born[g] = None
  /\ live' = [live EXCEPT !.games[Unused] = id[t]]
  /\ born' = [born EXCEPT ![Unused] = name[t]]
  /\ \/ Goto(t, "sync") /\ game' = [game EXCEPT ![t] = Unused] /\ UNCHANGED <<name, id>>
     \/ Done(t)
  /\ UNCHANGED <<file, handles, statbuf, torn, array, defs, todo>>

\* dbact_sync; /crea reads its game back, the others have their answer.
SyncGame(t) ==
  /\ pc[t] = "sync"
  /\ Sync
  /\ \/ game[t] # None /\ Goto(t, "load") /\ UNCHANGED <<name, id, game>>
     \/ game[t] = None /\ Done(t)
  /\ UNCHANGED <<live, handles, statbuf, torn, array, defs, todo, born>>

\* A request that is done with the types: /mueve stores the game again, of the same
\* type, and syncs.
Played(t) ==
  \/ Done(t)
  \/ /\ Goto(t, "sync")
     /\ id' = [id EXCEPT ![t] = 0] /\ game' = [game EXCEPT ![t] = None] /\ UNCHANGED name

\* game_load; a game that is not there is answered 404.
Load(t) ==
  /\ pc[t] = "load"
  /\ \/ /\ live.games[game[t]] # None
        /\ id' = [id EXCEPT ![t] = live.games[game[t]]]
        /\ Goto(t, "resolve") /\ UNCHANGED <<name, game>>
     \/ live.games[game[t]] = None /\ Done(t)
  /\ UNCHANGED <<storage, array, defs, todo, born>>

\* game_game_type: game_type_share_by_id in the array, then in the table.
Resolve(t) ==
  /\ pc[t] = "resolve"
  /\ \/ ById(id[t]) # {} /\ Played(t) /\ UNCHANGED alloc
     \/ /\ ById(id[t]) = {}
        /\ alloc' = Grown
        /\ Goto(t, "fetch") /\ UNCHANGED <<name, id, game>>
  /\ UNCHANGED <<storage, list, defs, todo, born>>

\* game_type_load; the cursor of game_type_next decodes its record the same way.
TypeLoad(k) == [name |-> live.types[k], id |-> k]

Fetch(t) ==
  /\ pc[t] = "fetch"
  /\ live.types[id[t]] # None
  /\ list' = Append(list, TypeLoad(id[t]))
  /\ Played(t)
  /\ UNCHANGED <<storage, alloc, defs, todo, born>>

\* Mutant of Loaded: game_type_next adds what it reads without looking for it.
LoadedM(k) == /\ list' = Append(list, TypeLoad(k))
              /\ alloc' = Grown

\* game_type_share_by_id with the record the cursor has read.
Loaded(k) ==
  \/ ById(k) # {} /\ UNCHANGED array
  \/ /\ ById(k) = {}
     /\ list' = Append(list, TypeLoad(k))
     /\ alloc' = Grown

\* game_controller_tjuegos: the cursor goes from record to record, in the order of ids.
Walk(t) ==
  LET rest == {k \in 1..MaxTypes : k > id[t] /\ live.types[k] # None} IN
  /\ pc[t] = "walk"
  /\ \/ /\ \E k \in rest : /\ IsFirst(k, rest)
                           /\ Loaded(k)
                           /\ id' = [id EXCEPT ![t] = k]
        /\ UNCHANGED <<pc, name, game>>
     \/ rest = {} /\ Done(t) /\ UNCHANGED array
  /\ UNCHANGED <<storage, defs, todo, born>>

Work(t) ==
  \/ Search(t) \/ Lookup(t) \/ Read(t) \/ Bump(t) \/ Store(t) \/ Put(t)
  \/ Save(t) \/ SyncGame(t) \/ Load(t) \/ Resolve(t) \/ Fetch(t) \/ Walk(t)
=============================================================================
