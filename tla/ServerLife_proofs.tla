-------------------------- MODULE ServerLife_proofs --------------------------
(***************************************************************************)
(* Theorems about ServerLife, for any number of users, definitions, games  *)
(* and workers.  They assume Careful: it leaves one worker, the default,   *)
(* free to do anything.                                                    *)
(***************************************************************************)
EXTENDS ServerLife, TLAPS

(***************************************************************************)
(* The inductive invariant.  A file that no kill has torn is Sane; on a    *)
(* torn one a single worker is Alone; the Base holds of both.              *)
(***************************************************************************)
\* Who runs in each phase of the life of a process, and on which handles.
PhaseOK ==
  /\ proc \in {"down", "creating"} => handles = "closed" /\ AllIdle
  /\ proc = "starting" => \A w \in Workers : Idle(w)
  /\ proc # "starting" => Idle(Main) /\ todo = {}
  /\ \A w \in Workers : ~ Idle(w) => w <= width /\ handles = "open"
  /\ handles = "closed" => list = <<>>
  /\ todo \subseteq defs

\* init_db makes the tables one after the other; a file without all its tables has
\* no games, and one without the first table has none.
FileOK ==
  /\ file.users = Absent => file = NoTables
  /\ proc = "creating" =>
       file = [t \in DOMAIN Made |->
                 IF \E i \in 1..made : InitOrder[i] = t THEN Made[t] ELSE Absent]
  /\ ~ Complete(file) => \A g \in GameIds : ~ Stored(file, g)

\* Where a thread adds to the list, and where it draws an id to do so.
Adding   == {"lookup", "read", "bump", "store", "put"}
Counting == Adding \ {"lookup"}

\* What a thread holds at each place, on any file.
Holds(t) ==
  /\ pc[t] \in Sharing \cup {"save"} => name[t] \in Names
  /\ pc[t] \in {"save", "sync", "load", "resolve", "fetch", "walk"} => t # Main
  /\ pc[t] \in Adding \cup {"fetch"} => Len(list) < alloc
  /\ pc[t] \in Counting => handles # "closed"
  /\ pc[t] \in {"bump", "store"} => handles = "open"
  /\ pc[t] = "bump"  => statbuf = live.stats.type
  /\ pc[t] = "store" => statbuf = live.stats.type + 1 /\ id[t] = statbuf
  /\ pc[t] = "put" /\ handles = "open" => id[t] \in 1..MaxTypes
  /\ pc[t] = "load" => game[t] \in GameIds
  /\ pc[t] \in {"save", "resolve", "fetch"} => id[t] \in 1..MaxTypes

AllHold == \A t \in Threads : Holds(t)

\* The process is not behind the disk: its counter is as far, and it sees the types that
\* are there for good.
CountsOK ==
  handles = "open" =>
    /\ file.stats.type <= live.stats.type
    /\ \A i \in 1..MaxTypes : OnDisk(i) => live.types[i] = file.types[i]

Base == TypeOK /\ PhaseOK /\ FileOK /\ AllHold /\ CountsOK /\ Roomy

\* A complete set of tables: types have ids the counter has passed, their names are
\* unique and were once defined, and games keep their rules.
Sound(tables) ==
  /\ \A i \in 1..MaxTypes : tables.types[i] # None =>
       i <= tables.stats.type /\ tables.types[i] \in defs
  /\ \A i, j \in 1..MaxTypes :
       tables.types[i] = tables.types[j] /\ tables.types[i] # None => i = j
  /\ \A g \in GameIds : tables.games[g] # None =>
       born[g] # None /\ tables.types[tables.games[g]] = born[g]

TablesOK ==
  /\ Complete(file) => Sound(file)
  /\ handles = "open" => /\ Sound(live)
                         /\ \A i \in 1..MaxTypes :
                              file.types[i] # None => live.types[i] = file.types[i]

\* What a thread knows at each place, on a file that is not torn.
ThreadOK(t) ==
  /\ Holds(t)
  /\ pc[t] \in Sharing /\ t = Main => name[t] \in defs
  /\ pc[t] \in Adding => ByName(name[t]) = {}
  /\ pc[t] \in Counting =>
       /\ name[t] \in defs
       /\ handles = "open" => Indexed(name[t], live) = {}
  /\ pc[t] = "put" /\ handles = "open" =>
       id[t] = live.stats.type /\ live.types[id[t]] = None
  /\ pc[t] = "save" => live.types[id[t]] = name[t]
  /\ pc[t] \in {"resolve", "fetch"} => live.types[id[t]] # None
  /\ pc[t] = "fetch" => ById(id[t]) = {}

ThreadsOK == \A t \in Threads : ThreadOK(t)

\* With several workers the definitions are all in the list before requests are served:
\* nobody has anything to add.
WideOK ==
  proc \in {"starting", "serving", "stopping"} /\ width > 1 =>
    /\ defs \cap Broken = {}
    /\ handles # "half" =>
         \A n \in defs : \/ n \in todo \/ ByName(n) # {}
                         \/ pc[Main] \in Sharing /\ name[Main] = n
    /\ \A w \in Workers :
         /\ pc[w] \notin Counting \cup {"fetch"}
         /\ pc[w] = "lookup" => name[w] \notin defs

Sane == ~ torn /\ TablesOK /\ ThreadsOK /\ WideOK /\ ListIsTheTable

\* On a torn file one thread at a time does its work, and the id it draws is one the
\* counter on the disk has not reached.
Alone ==
  /\ torn
  /\ proc \in {"starting", "serving", "stopping"} => width = 1
  /\ handles = "open" => \A i \in DOMAIN list : list[i].id \in 1..MaxTypes
  /\ \A t \in Threads : pc[t] = "put" /\ handles = "open" => file.stats.type < id[t]

IInv == Base /\ (Sane \/ Alone)

(***************************************************************************)
(* Tables.                                                                 *)
(***************************************************************************)
\* The tables of a complete file have their types.
LEMMA Full ==
  ASSUME NEW T \in Tables, Complete(T)
  PROVE  /\ T.users \in UserTable /\ T.games \in GameTable
         /\ T.types \in TypeTable /\ T.stats \in Stats /\ T.sess = {}
BY DEF Tables, Complete, Made

\* The tables with one of them replaced are complete, too.
LEMMA Replaced ==
  ASSUME NEW T \in Tables, Complete(T)
  PROVE  /\ \A u \in UserTable : [T EXCEPT !.users = u] \in Tables /\ Complete([T EXCEPT !.users = u])
         /\ \A g \in GameTable : [T EXCEPT !.games = g] \in Tables /\ Complete([T EXCEPT !.games = g])
         /\ \A y \in TypeTable : [T EXCEPT !.types = y] \in Tables /\ Complete([T EXCEPT !.types = y])
         /\ \A s \in Stats : [T EXCEPT !.stats = s] \in Tables /\ Complete([T EXCEPT !.stats = s])
<1> USE AbsentOK DEF Tables, Complete, Made
<1>1. ASSUME NEW u \in UserTable
      PROVE  [T EXCEPT !.users = u] \in Tables /\ Complete([T EXCEPT !.users = u])
  OBVIOUS
<1>2. ASSUME NEW g \in GameTable
      PROVE  [T EXCEPT !.games = g] \in Tables /\ Complete([T EXCEPT !.games = g])
  OBVIOUS
<1>3. ASSUME NEW y \in TypeTable
      PROVE  [T EXCEPT !.types = y] \in Tables /\ Complete([T EXCEPT !.types = y])
  OBVIOUS
<1>4. ASSUME NEW s \in Stats
      PROVE  [T EXCEPT !.stats = s] \in Tables /\ Complete([T EXCEPT !.stats = s])
  OBVIOUS
<1> QED BY <1>1, <1>2, <1>3, <1>4

\* A file without tables is a file, but not a complete one.
LEMMA EmptyTables == NoTables \in Tables /\ ~ Complete(NoTables)
BY DEF NoTables, Tables, Complete, Made

\* What init_db makes.
LEMMA MadeTables ==
  /\ Made.users \in UserTable /\ Made.games \in GameTable
  /\ Made.types \in TypeTable /\ Made.stats \in Stats /\ Made.sess = {}
  /\ DOMAIN Made = {"users", "games", "types", "stats", "sess"}
BY StorageOK DEF Made, UserTable, GameTable, TypeTable, Stats

\* Two threads are at work only in a server of several workers, and none of them adds
\* to the list.
LEMMA Together ==
  ASSUME Base, Sane, NEW s \in Threads, NEW t \in Threads, s # t, ~ Idle(s), ~ Idle(t)
  PROVE  /\ proc \in {"serving", "stopping"} /\ width > 1 /\ handles = "open"
         /\ s \in Workers /\ t \in Workers
         /\ defs \cap Broken = {}
         /\ \A n \in defs : ByName(n) # {}
         /\ pc[s] \notin Counting \cup {"fetch"} /\ pc[t] \notin Counting \cup {"fetch"}
<1>1. proc # "down" /\ proc # "creating"
  BY DEF Base, Sane, PhaseOK, AllIdle
<1>2. proc # "starting"
  BY DEF Base, Sane, PhaseOK, Threads
<1>3. /\ s \in Workers /\ t \in Workers /\ Idle(Main) /\ todo = {}
  BY <1>2 DEF Base, Sane, PhaseOK, Threads
<1>4. proc \in {"serving", "stopping"} /\ s <= width /\ t <= width /\ handles = "open"
  BY <1>1, <1>2, <1>3 DEF Base, Sane, PhaseOK, TypeOK
<1>5. width > 1
  BY <1>3, <1>4, LifeOK DEF Base, Sane, TypeOK
<1>6. pc[Main] \notin Sharing
  BY <1>3 DEF Idle, Sharing
<1> QED BY <1>3, <1>4, <1>5, <1>6 DEF Base, Sane, WideOK

(***************************************************************************)
(* The steps of a thread.                                                  *)
(***************************************************************************)
\* What a thread at work, and its handles, look like.
LEMMA AtWork ==
  ASSUME Base, NEW t \in Threads, ~ Idle(t)
  PROVE  /\ proc \in {"starting", "serving", "stopping"}
         /\ Holds(t)
         /\ t = Main <=> proc = "starting"
         /\ t # Main => t \in Workers /\ t <= width /\ handles = "open"
         /\ handles = "closed" => t = Main /\ pc[t] \in {"search", "lookup"}
<1>1. proc \in {"starting", "serving", "stopping"}
  BY DEF Base, TypeOK, PhaseOK, AllIdle
<1>2. Holds(t)
  BY DEF Base, AllHold
<1>3. t = Main <=> proc = "starting"
  BY <1>1, GameTypesOK DEF Base, PhaseOK, Threads
<1>4. t # Main => t \in Workers /\ t <= width /\ handles = "open"
  BY DEF Base, PhaseOK, Threads
<1>5. pc[t] \in Places
  BY DEF Base, TypeOK, TypesTypeOK
<1>6. handles = "closed" => t = Main /\ pc[t] \in {"search", "lookup"}
  BY <1>2, <1>4, <1>5 DEF Holds, Places, Counting, Adding, Idle
<1> QED BY <1>1, <1>2, <1>3, <1>4, <1>6

\* Frames whose entry t was replaced are frames.
LEMMA FrameTypes ==
  ASSUME TypesTypeOK, NEW t \in Threads
  PROVE  /\ \A l \in Places : [pc EXCEPT ![t] = l] \in [Threads -> Places]
         /\ \A n \in Names \cup {None} : [name EXCEPT ![t] = n] \in [Threads -> Names \cup {None}]
         /\ \A i \in 0..MaxTypes : [id EXCEPT ![t] = i] \in [Threads -> 0..MaxTypes]
         /\ \A g \in GameIds \cup {None} : [game EXCEPT ![t] = g] \in [Threads -> GameIds \cup {None}]
BY DEF TypesTypeOK

\* The frames of all threads have their types.
FramesOK ==
  /\ pc   \in [Threads -> Places]
  /\ name \in [Threads -> Names \cup {None}]
  /\ id   \in [Threads -> 0..MaxTypes]
  /\ game \in [Threads -> GameIds \cup {None}]

\* A thread that goes to a place is at a place.
LEMMA GotoTypes ==
  ASSUME TypesTypeOK, NEW t \in Threads, NEW l \in Places, Goto(t, l)
  PROVE  pc' \in [Threads -> Places]
BY FrameTypes DEF Goto

\* A thread that is done leaves good frames,
LEMMA DoneTypes ==
  ASSUME TypesTypeOK, NEW t \in Threads, Done(t)
  PROVE  FramesOK'
<1>1. "idle" \in Places /\ 0 \in 0..MaxTypes
  BY StorageOK DEF Places
<1> QED BY <1>1, FrameTypes DEF Done, Goto, FramesOK

\* ... so does one that goes on to sync,
LEMMA PlayedTypes ==
  ASSUME TypesTypeOK, NEW t \in Threads, Played(t)
  PROVE  FramesOK'
<1>1. "sync" \in Places /\ 0 \in 0..MaxTypes
  BY StorageOK DEF Places
<1>2. CASE Done(t)
  BY <1>2, DoneTypes
<1>3. CASE Goto(t, "sync") /\ id' = [id EXCEPT ![t] = 0] /\ game' = [game EXCEPT ![t] = None] /\ UNCHANGED name
  <2>1. pc' \in [Threads -> Places]
    BY <1>1, <1>3, GotoTypes
  <2> QED BY <1>1, <1>3, <2>1, FrameTypes DEF FramesOK, TypesTypeOK
<1> QED BY <1>2, <1>3 DEF Played

\* A record of the table of types gives an entry.
LEMMA LoadTypes ==
  ASSUME live.types \in TypeTable, NEW k \in 1..MaxTypes, live.types[k] # None
  PROVE  TypeLoad(k) \in Entry /\ k \in 0..MaxTypes
<1>1. live.types[k] \in Names /\ k \in 0..MaxTypes
  BY StorageOK DEF TypeTable
<1> QED BY <1>1 DEF TypeLoad, Entry

\* ... so does one that got its type,
LEMMA SharedTypes ==
  ASSUME TypesTypeOK, NEW t \in Threads, NEW e \in Entry, Shared(t, e)
  PROVE  FramesOK'
<1>1. CASE t = Main
  BY <1>1, DoneTypes DEF Shared
<1>2. CASE t # Main
  <2>1. "save" \in Places /\ e.id \in 0..MaxTypes
    BY DEF Places, Entry
  <2> QED BY <1>2, <2>1, FrameTypes DEF Shared, Goto, FramesOK, TypesTypeOK
<1> QED BY <1>1, <1>2

\* ... and one that added it to the list.
LEMMA AddTypes ==
  ASSUME TypesTypeOK, NEW t \in Threads, NEW e \in Entry, Add(t, e)
  PROVE  FramesOK' /\ list' \in Seq(Entry)
BY SharedTypes DEF Add, TypesTypeOK

\* game_type_by_name gives an entry or nothing.
LEMMA GotTypes ==
  ASSUME StorageTypeOK, NEW n \in Names, NEW e \in Got(n)
  PROVE  e \in Entry \cup {None}
<1>1. ASSUME Usable, NEW i \in Leads(n, Seen)
      PROVE  [name |-> Seen.types[i], id |-> i] \in Entry
  <2>1. Seen \in Tables /\ Complete(Seen)
    BY <1>1 DEF Usable, Seen, StorageTypeOK
  <2>2. Seen.types \in TypeTable /\ i \in 1..MaxTypes /\ Seen.types[i] # None
    BY <1>1, <2>1, Full, StorageOK DEF Leads, Indexed
  <2> QED BY <2>2, StorageOK DEF Entry, TypeTable
<1> QED BY <1>1, StorageOK DEF Got, Entry

\* ... the record with the name, if the file is not torn.
LEMMA GotSane ==
  ASSUME ~ torn, NEW n \in Names, NEW e \in Got(n)
  PROVE  \/ e = None /\ (Usable => Indexed(n, Seen) = {})
         \/ Usable /\ \E i \in Indexed(n, Seen) : e = [name |-> n, id |-> i]
         \/ handles = "half" /\ e = [name |-> Junk, id |-> 0]
<1>1. Leads(n, Seen) = Indexed(n, Seen)
  BY DEF Leads
<1>2. \A i \in Indexed(n, Seen) : Seen.types[i] = n
  BY DEF Indexed
<1> QED BY <1>1, <1>2 DEF Got

\* open_dbs leaves complete tables open, or others half open.
LEMMA OpenTypes ==
  ASSUME StorageTypeOK, OpenDbs
  PROVE  live' \in Tables /\ handles' \in {"closed", "half", "open"}
         /\ (handles' = "open" => Complete(live') /\ Complete(file))
BY DEF OpenDbs, StorageTypeOK

\* There is room for one more once the array has grown.
LEMMA GrownTypes ==
  ASSUME TypesTypeOK, alloc' = Grown
  PROVE  alloc' \in Nat /\ alloc' >= alloc /\ (Len(list) <= alloc => Len(list) < alloc')
<1>1. Len(list) \in Nat /\ alloc \in Nat /\ Chunk \in Nat /\ Chunk > 0
  BY GameTypesOK DEF TypesTypeOK
<1> QED BY <1>1 DEF Grown

\* Tables of types, games and counters with one entry changed.
LEMMA EntryTypes ==
  /\ \A y \in TypeTable, i \in 1..MaxTypes, n \in Names : [y EXCEPT ![i] = n] \in TypeTable
  /\ \A y \in GameTable, g \in GameIds, i \in 1..MaxTypes : [y EXCEPT ![g] = i] \in GameTable
  /\ \A s \in Stats, i \in 0..MaxTypes : [s EXCEPT !.type = i] \in Stats
BY DEF TypeTable, GameTable, Stats

\* The types of a storage nobody touches.
LEMMA StorageSame ==
  ASSUME StorageTypeOK, UNCHANGED storage
  PROVE  StorageTypeOK'
BY DEF StorageTypeOK, storage, Complete

\* Every step of a thread keeps the types of the variables.
LEMMA WorkTypes ==
  ASSUME Base, NEW t \in Threads, Work(t), UNCHANGED life
  PROVE  TypeOK'
<1>1. /\ StorageTypeOK /\ TypesTypeOK /\ Holds(t)
      /\ list \in Seq(Entry) /\ alloc \in Nat /\ FramesOK
      /\ "save" \in Places /\ "lookup" \in Places /\ "read" \in Places
  BY DEF Base, TypeOK, AllHold, TypesTypeOK, FramesOK, Places
<1>2. SUFFICES StorageTypeOK' /\ TypesTypeOK'
  BY DEF Base, TypeOK, life
<1>3. ASSUME handles = "open"
      PROVE  /\ live \in Tables /\ Complete(live) /\ Complete(file)
             /\ live.games \in GameTable /\ live.types \in TypeTable /\ live.stats \in Stats
  BY <1>1, <1>3, Full DEF StorageTypeOK
<1>4. CASE Search(t)
  <2>1. CASE ByName(name[t]) # {} /\ \E i \in ByName(name[t]) : Shared(t, list[i]) /\ UNCHANGED alloc
    <3>1. PICK i \in DOMAIN list : Shared(t, list[i]) /\ UNCHANGED alloc
      BY <2>1 DEF ByName
    <3>2. list[i] \in Entry
      BY <1>1
    <3> QED BY <1>1, <1>4, <3>1, <3>2, SharedTypes, StorageSame DEF Search, TypesTypeOK, FramesOK
  <2>2. CASE alloc' = Grown /\ Goto(t, "lookup") /\ UNCHANGED <<name, id, game>>
    BY <1>1, <1>4, <2>2, GotoTypes, GrownTypes, StorageSame DEF Search, TypesTypeOK, FramesOK
  <2> QED BY <1>4, <2>1, <2>2 DEF Search
<1>5. CASE Lookup(t)
  <2>1. name[t] \in Names
    BY <1>1, <1>5 DEF Lookup, Holds, Sharing
  <2>2. StorageTypeOK'
    BY <1>1, <1>5, OpenTypes DEF Lookup, StorageTypeOK, Complete
  <2>3. PICK e \in Got(name[t]) : IF e = None THEN NotStored(t) ELSE Add(t, e)
    BY <1>5 DEF Lookup
  <2>4. FramesOK' /\ list' \in Seq(Entry) /\ todo' \subseteq Names
    <3>1. CASE Add(t, e) /\ e # None
      BY <1>1, <2>1, <3>1, GotTypes, AddTypes DEF Add, TypesTypeOK
    <3>2. CASE NotStored(t)
      BY <1>1, <3>2, GotoTypes, DoneTypes DEF NotStored, Failed, TypesTypeOK, FramesOK
    <3> QED BY <2>3, <3>1, <3>2
  <2> QED BY <1>1, <1>5, <2>2, <2>4 DEF Lookup, TypesTypeOK, FramesOK
<1>6. CASE Read(t)
  <2>1. "bump" \in Places /\ "put" \in Places
    BY DEF Places
  <2>2. StorageTypeOK'
    BY <1>1, <1>3, <1>6 DEF Read, StorageTypeOK, Stats, Complete
  <2>3. pc' \in [Threads -> Places]
    BY <1>1, <1>6, <2>1, GotoTypes DEF Read
  <2> QED BY <1>1, <1>6, <2>2, <2>3 DEF Read, TypesTypeOK, array
<1>7. CASE Bump(t)
  <2>1. "store" \in Places
    BY DEF Places
  <2>2. statbuf \in 0..MaxTypes /\ statbuf < MaxTypes /\ MaxTypes \in Nat
    BY <1>1, <1>7, StorageOK DEF Bump, StorageTypeOK
  <2>3. statbuf + 1 \in 0..MaxTypes
    BY <2>2
  <2>4. StorageTypeOK'
    BY <1>1, <1>7, <2>3 DEF Bump, StorageTypeOK, Complete
  <2>5. pc' \in [Threads -> Places] /\ id' \in [Threads -> 0..MaxTypes]
    BY <1>1, <1>7, <2>1, <2>3, GotoTypes, FrameTypes DEF Bump
  <2> QED BY <1>1, <1>7, <2>4, <2>5 DEF Bump, TypesTypeOK, array
<1>8. CASE Store(t)
  <2>1. "put" \in Places /\ handles = "open"
    BY <1>1, <1>8 DEF Places, Store, Holds
  <2>2. live' \in Tables /\ Complete(live')
    <3>1. statbuf \in 0..MaxTypes /\ [live.stats EXCEPT !.type = statbuf] \in Stats
      BY <1>1, <1>3, <2>1, EntryTypes DEF StorageTypeOK
    <3> QED BY <1>3, <1>8, <2>1, <3>1, Replaced DEF Store, Counted
  <2>3. StorageTypeOK'
    BY <1>1, <1>3, <1>8, <2>1, <2>2 DEF Store, StorageTypeOK, Complete
  <2>4. pc' \in [Threads -> Places]
    BY <1>1, <1>8, <2>1, GotoTypes DEF Store
  <2> QED BY <1>1, <1>8, <2>3, <2>4 DEF Store, TypesTypeOK, array
<1>9. CASE Put(t)
  <2>1. name[t] \in Names /\ id[t] \in 0..MaxTypes /\ [name |-> name[t], id |-> id[t]] \in Entry
    BY <1>1, <1>9 DEF Put, Holds, Sharing, FramesOK, Entry
  <2>2. live' \in Tables /\ (handles = "open" => Complete(live'))
    <3>1. CASE handles # "open" \/ UNCHANGED live
      BY <1>1, <1>3, <1>9, <3>1 DEF Put, StorageTypeOK
    <3>2. CASE handles = "open" /\ live' = [live EXCEPT !.types[id[t]] = name[t]]
      <4>1. id[t] \in 1..MaxTypes
        BY <1>1, <1>9, <3>2 DEF Put, Holds
      <4>2. [live.types EXCEPT ![id[t]] = name[t]] \in TypeTable
        BY <1>3, <2>1, <3>2, <4>1, EntryTypes
      <4> QED BY <1>3, <3>2, <4>2, Replaced
    <3> QED BY <1>9, <3>1, <3>2 DEF Put, PutType
  <2>3. StorageTypeOK'
    BY <1>1, <1>3, <1>9, <2>2 DEF Put, StorageTypeOK, Complete
  <2>4. FramesOK' /\ list' \in Seq(Entry)
    BY <1>1, <1>9, <2>1, AddTypes DEF Put
  <2> QED BY <1>1, <1>9, <2>3, <2>4 DEF Put, Add, TypesTypeOK, FramesOK
<1>10. CASE Save(t)
  <2>1. /\ handles = "open" /\ name[t] \in Names /\ id[t] \in 1..MaxTypes
    <3>1. ~ Idle(t) /\ t # Main
      BY <1>1, <1>10 DEF Save, Idle, Holds
    <3> QED BY <1>1, <1>10, <3>1, AtWork DEF Save, Holds
  <2>2. Unused \in GameIds
    BY <1>10 DEF Save, Unused
  <2>3. live' \in Tables /\ Complete(live')
    BY <1>3, <1>10, <2>1, <2>2, EntryTypes, Replaced DEF Save
  <2>4. StorageTypeOK'
    BY <1>1, <1>3, <1>10, <2>1, <2>3 DEF Save, StorageTypeOK, Complete
  <2>5. FramesOK'
    <3>1. "sync" \in Places
      BY DEF Places
    <3> QED BY <1>1, <1>10, <2>2, <3>1, GotoTypes, DoneTypes, FrameTypes DEF Save, FramesOK
  <2>6. born' \in [GameIds -> Names \cup {None}]
    BY <1>1, <1>10, <2>1, <2>2 DEF Save, TypesTypeOK
  <2> QED BY <1>1, <1>10, <2>4, <2>5, <2>6 DEF Save, TypesTypeOK, FramesOK, array
<1>11. CASE SyncGame(t)
  <2>1. FramesOK'
    <3>1. "load" \in Places
      BY DEF Places
    <3> QED BY <1>1, <1>11, <3>1, GotoTypes, DoneTypes DEF SyncGame, FramesOK
  <2>2. StorageTypeOK'
    BY <1>1, <1>3, <1>11 DEF SyncGame, Sync, Flushed, StorageTypeOK, Complete
  <2> QED BY <1>1, <1>11, <2>1, <2>2 DEF SyncGame, TypesTypeOK, FramesOK, array
<1>12. CASE Load(t)
  <2>1. /\ handles = "open" /\ game[t] \in GameIds /\ "resolve" \in Places
    <3>1. ~ Idle(t) /\ t # Main
      BY <1>1, <1>12 DEF Load, Idle, Holds
    <3> QED BY <1>1, <1>12, <3>1, AtWork DEF Load, Holds, Places
  <2>2. live.games[game[t]] # None => live.games[game[t]] \in 0..MaxTypes
    BY <1>3, <2>1 DEF GameTable
  <2>3. FramesOK'
    BY <1>1, <1>12, <2>1, <2>2, GotoTypes, DoneTypes, FrameTypes DEF Load, FramesOK
  <2> QED BY <1>1, <1>12, <2>3, StorageSame DEF Load, TypesTypeOK, FramesOK, array
<1>13. CASE Resolve(t)
  <2>1. "fetch" \in Places
    BY DEF Places
  <2> QED BY <1>1, <1>13, <2>1, GotoTypes, PlayedTypes, GrownTypes, StorageSame
          DEF Resolve, TypesTypeOK, FramesOK
<1>14. CASE Fetch(t)
  <2>1. handles = "open" /\ id[t] \in 1..MaxTypes
    <3>1. ~ Idle(t) /\ t # Main
      BY <1>1, <1>14 DEF Fetch, Idle, Holds
    <3> QED BY <1>1, <1>14, <3>1, AtWork DEF Fetch, Holds
  <2>2. TypeLoad(id[t]) \in Entry
    BY <1>3, <1>14, <2>1, LoadTypes DEF Fetch
  <2>3. list' \in Seq(Entry)
    BY <1>1, <1>14, <2>2 DEF Fetch
  <2> QED BY <1>1, <1>14, <2>3, PlayedTypes, StorageSame DEF Fetch, TypesTypeOK, FramesOK
<1>15. CASE Walk(t)
  <2>1. handles = "open"
    <3>1. ~ Idle(t) /\ t # Main
      BY <1>1, <1>15 DEF Walk, Idle, Holds
    <3> QED BY <1>1, <3>1, AtWork
  <2>2. CASE \E k \in 1..MaxTypes : live.types[k] # None /\ Loaded(k) /\ id' = [id EXCEPT ![t] = k]
                                    /\ UNCHANGED <<pc, name, game>>
    <3>1. PICK k \in 1..MaxTypes : live.types[k] # None /\ Loaded(k) /\ id' = [id EXCEPT ![t] = k]
                                   /\ UNCHANGED <<pc, name, game>>
      BY <2>2
    <3>2. TypeLoad(k) \in Entry /\ k \in 0..MaxTypes
      BY <1>3, <2>1, <3>1, LoadTypes
    <3>3. list' \in Seq(Entry) /\ alloc' \in Nat
      <4>1. CASE UNCHANGED array
        BY <1>1, <4>1 DEF array
      <4>2. CASE list' = Append(list, TypeLoad(k)) /\ alloc' = Grown
        BY <1>1, <3>2, <4>2, GrownTypes
      <4> QED BY <3>1, <4>1, <4>2 DEF Loaded
    <3> QED BY <1>1, <1>15, <3>1, <3>2, <3>3, FrameTypes, StorageSame DEF Walk, TypesTypeOK, FramesOK
  <2>3. CASE Done(t) /\ UNCHANGED array
    BY <1>1, <1>15, <2>3, DoneTypes, StorageSame DEF Walk, TypesTypeOK, FramesOK, array
  <2> QED BY <1>15, <2>2, <2>3 DEF Walk, IsFirst
<1> QED BY <1>4, <1>5, <1>6, <1>7, <1>8, <1>9, <1>10, <1>11, <1>12, <1>13, <1>14, <1>15 DEF Work

\* Only one step changes the handles, and only where they are not open yet.
LEMMA WorkHandles ==
  ASSUME Base, NEW t \in Threads, Work(t)
  PROVE  /\ ~ Idle(t)
         /\ handles' # "closed" \/ (handles = "closed" /\ UNCHANGED list)
         /\ handles # "closed" => UNCHANGED handles
         /\ ~ Lookup(t) => UNCHANGED handles
         /\ UNCHANGED <<defs, torn>>
         /\ todo' = todo \/ (t = Main /\ todo' = {})
         /\ \A s \in Threads : s # t => pc'[s] = pc[s] /\ name'[s] = name[s]
                                        /\ id'[s] = id[s] /\ game'[s] = game[s]
<1>1. ~ Idle(t)
  BY DEF Work, Search, Lookup, Read, Bump, Store, Put, Save, SyncGame, Load, Resolve, Fetch, Walk, Idle
<1>2. UNCHANGED <<defs, torn>> /\ (~ Lookup(t) => UNCHANGED handles)
  BY DEF Work, Search, Read, Bump, Store, Put, Save, SyncGame, Load, Resolve, Fetch, Walk, Lookup, storage
<1>3. Lookup(t) => handles' # "closed" /\ (handles # "closed" => UNCHANGED handles)
  BY DEF Lookup, OpenDbs
<1>4. handles = "closed" /\ ~ Lookup(t) => UNCHANGED list
  <2>1. handles = "closed" => pc[t] \in {"search", "lookup"}
    BY <1>1, AtWork
  <2> QED BY <2>1 DEF Work, Search, Read, Bump, Store, Put, Save, SyncGame, Load, Resolve, Fetch, Walk
<1>5. todo' = todo \/ (t = Main /\ todo' = {})
  <2>1. \A e : Add(t, e) => todo' = todo
    BY DEF Add
  <2>2. NotStored(t) => todo' = todo \/ (t = Main /\ todo' = {})
    BY DEF NotStored, Failed
  <2> QED BY <2>1, <2>2 DEF Work, Search, Lookup, Read, Bump, Store, Put, Save, SyncGame, Load, Resolve, Fetch, Walk
<1>6. ASSUME NEW s \in Threads, s # t
      PROVE  pc'[s] = pc[s] /\ name'[s] = name[s] /\ id'[s] = id[s] /\ game'[s] = game[s]
  <2> DEFINE Others == pc'[s] = pc[s] /\ name'[s] = name[s] /\ id'[s] = id[s] /\ game'[s] = game[s]
  <2>1. Done(t) => Others
    BY <1>6 DEF Done, Goto, Base, TypeOK, TypesTypeOK
  <2>2. \A e : Shared(t, e) => Others
    BY <1>6, <2>1 DEF Shared, Goto, Base, TypeOK, TypesTypeOK
  <2>3. \A l : Goto(t, l) => pc'[s] = pc[s]
    BY <1>6 DEF Goto, Base, TypeOK, TypesTypeOK
  <2>4. \A e : Add(t, e) => Others
    BY <2>2 DEF Add
  <2>5. NotStored(t) => Others
    BY <2>1, <2>3 DEF NotStored, Failed
  <2>6. Search(t) \/ Lookup(t) \/ Put(t) => Others
    BY <2>2, <2>3, <2>4, <2>5 DEF Search, Lookup, Put
  <2>7. Read(t) \/ Bump(t) \/ Store(t) => Others
    BY <1>6, <2>3 DEF Read, Bump, Store, Base, TypeOK, TypesTypeOK
  <2>8. Save(t) \/ SyncGame(t) \/ Load(t) => Others
    BY <1>6, <2>1, <2>3 DEF Save, SyncGame, Load, Base, TypeOK, TypesTypeOK
  <2>9. Played(t) => Others
    BY <1>6, <2>1, <2>3 DEF Played, Base, TypeOK, TypesTypeOK
  <2>10. Resolve(t) \/ Fetch(t) \/ Walk(t) => Others
    BY <1>6, <2>1, <2>3, <2>9 DEF Resolve, Fetch, Walk, Base, TypeOK, TypesTypeOK
  <2> QED BY <2>6, <2>7, <2>8, <2>10 DEF Work
<1> QED BY <1>1, <1>2, <1>3, <1>4, <1>5, <1>6

\* A step of a thread does not change who may run.
LEMMA WorkPhase ==
  ASSUME Base, NEW t \in Threads, Work(t), UNCHANGED life
  PROVE  PhaseOK'
<1>1. /\ proc \in {"starting", "serving", "stopping"} /\ proc' = proc /\ width' = width
      /\ t = Main <=> proc = "starting"
      /\ t # Main => t \in Workers /\ t <= width /\ handles = "open"
  BY AtWork, WorkHandles DEF life
<1>2. \A s \in Threads : s # t => (Idle(s) <=> pc'[s] = "idle")
  BY WorkHandles DEF Idle
<1>3. Main \in Threads /\ Workers \subseteq Threads /\ Main \notin Workers
  BY GameTypesOK DEF Threads
<1>4. proc' = "starting" => \A w \in Workers : Idle(w)'
  BY <1>1, <1>2, <1>3 DEF Idle, Base, PhaseOK
<1>5. proc' # "starting" => Idle(Main)' /\ todo' = {}
  BY <1>1, <1>2, <1>3, WorkHandles DEF Idle, Base, PhaseOK
<1>6. ASSUME NEW w \in Workers, ~ Idle(w)'
      PROVE  w <= width' /\ handles' = "open"
  BY <1>1, <1>2, <1>3, <1>6, WorkHandles DEF Idle, Base, PhaseOK
<1>7. handles' = "closed" => list' = <<>>
  BY WorkHandles DEF Base, PhaseOK
<1>8. todo' \subseteq defs'
  BY WorkHandles DEF Base, PhaseOK
<1> QED BY <1>1, <1>4, <1>5, <1>6, <1>7, <1>8 DEF PhaseOK

\* The file changes when a game is synced, and then keeps what it had.
LEMMA WorkFile ==
  ASSUME Base, NEW t \in Threads, Work(t)
  PROVE  \/ UNCHANGED file
         \/ SyncGame(t) /\ handles = "open" /\ file' = live /\ UNCHANGED <<live, born>>
<1>1. ASSUME SyncGame(t)
      PROVE  handles = "open" /\ file' = live /\ UNCHANGED <<live, born>>
  <2>1. t # Main /\ ~ Idle(t)
    BY <1>1 DEF SyncGame, Holds, Idle, Base, AllHold
  <2> QED BY <1>1, <2>1, AtWork DEF SyncGame, Sync, Flushed
<1> QED BY <1>1 DEF Work, Search, Lookup, Read, Bump, Store, Put, Save, Load, Resolve, Fetch, Walk, storage

\* A step of a thread leaves a complete file complete.
LEMMA WorkFileOK ==
  ASSUME Base, NEW t \in Threads, Work(t), UNCHANGED life
  PROVE  FileOK'
<1>1. proc' # "creating"
  BY AtWork, WorkHandles DEF life
<1>2. CASE UNCHANGED file
  BY <1>1, <1>2 DEF Base, FileOK, Complete, Stored
<1>3. CASE handles = "open" /\ file' = live
  <2>1. Complete(live) /\ live.users # Absent
    BY <1>3, AbsentOK, Full DEF Base, TypeOK, StorageTypeOK
  <2> QED BY <1>1, <1>3, <2>1 DEF FileOK, Complete, Stored
<1> QED BY <1>2, <1>3, WorkFile

\* The list is never longer than the array, which only grows.
LEMMA WorkRoomy ==
  ASSUME Base, NEW t \in Threads, Work(t)
  PROVE  Roomy' /\ alloc' >= alloc /\ (UNCHANGED list \/ Len(list) < alloc')
<1>1. /\ TypesTypeOK /\ Len(list) <= alloc /\ list \in Seq(Entry) /\ alloc \in Nat
  BY DEF Base, TypeOK, Roomy, TypesTypeOK
<1>2. UNCHANGED alloc \/ alloc' = Grown
  BY DEF Work, Search, Lookup, Read, Bump, Store, Put, Save, SyncGame, Load, Resolve, Fetch, Walk,
         Loaded, array
<1>3. alloc' \in Nat /\ alloc' >= alloc
  BY <1>1, <1>2, GrownTypes
<1>4. UNCHANGED list \/ ((\E e : list' = Append(list, e)) /\ Len(list) < alloc')
  <2>1. Holds(t)
    BY DEF Base, AllHold
  <2>2. Lookup(t) \/ Put(t) => UNCHANGED list \/ ((\E e : list' = Append(list, e)) /\ Len(list) < alloc')
    BY <2>1 DEF Holds, Adding, Lookup, Put, Add, NotStored
  <2>3. Fetch(t) => (\E e : list' = Append(list, e)) /\ Len(list) < alloc'
    BY <2>1 DEF Holds, Fetch
  <2>4. Walk(t) => UNCHANGED list \/ ((\E e : list' = Append(list, e)) /\ Len(list) < alloc')
    BY <1>1, GrownTypes DEF Walk, Loaded, array
  <2> QED BY <2>2, <2>3, <2>4
          DEF Work, Search, Read, Bump, Store, Save, SyncGame, Load, Resolve, array
<1>5. Len(list') <= alloc'
  BY <1>1, <1>3, <1>4
<1> QED BY <1>3, <1>4, <1>5 DEF Roomy

\* A step of a thread does not fall behind the disk.
LEMMA WorkCounts ==
  ASSUME Base, NEW t \in Threads, Work(t), handles = "open",
         pc[t] = "put" => ~ OnDisk(id[t])
  PROVE  CountsOK'
<1>1. /\ live \in Tables /\ live.types \in TypeTable /\ live.stats \in Stats /\ live.stats.type \in Nat
      /\ file.stats \in Stats /\ file.stats.type \in Nat /\ Holds(t) /\ handles' = "open"
  BY Full, WorkHandles, StorageOK DEF Base, TypeOK, StorageTypeOK, AllHold, Stats
<1>2. /\ file.stats.type <= live.stats.type
      /\ \A i \in 1..MaxTypes : OnDisk(i) => live.types[i] = file.types[i]
  BY DEF Base, CountsOK
<1>3. CASE Put(t)
  <2>1. /\ UNCHANGED file /\ id[t] \in 1..MaxTypes /\ ~ OnDisk(id[t])
        /\ live' = live \/ live' = [live EXCEPT !.types[id[t]] = name[t]]
    BY <1>1, <1>3 DEF Put, PutType, Holds
  <2>2. live'.stats = live.stats /\ \A i \in 1..MaxTypes : i # id[t] => live'.types[i] = live.types[i]
    BY <1>1, <2>1 DEF Tables, TypeTable
  <2> QED BY <1>2, <2>1, <2>2 DEF CountsOK, OnDisk
<1>4. CASE Store(t)
  <2>1. statbuf = live.stats.type + 1 /\ live' = Counted /\ UNCHANGED file
    BY <1>1, <1>4 DEF Store, Holds
  <2>2. live'.stats.type = live.stats.type + 1 /\ live'.types = live.types
    BY <1>1, <2>1 DEF Counted, Tables, Stats
  <2> QED BY <1>1, <1>2, <2>1, <2>2 DEF CountsOK, OnDisk
<1>5. CASE Save(t)
  <2>1. UNCHANGED file /\ live'.types = live.types /\ live'.stats = live.stats
    BY <1>1, <1>5 DEF Save, Tables
  <2> QED BY <1>2, <2>1 DEF CountsOK, OnDisk
<1>6. CASE ~ Put(t) /\ ~ Store(t) /\ ~ Save(t)
  <2>1. UNCHANGED live
    BY <1>6 DEF Work, Search, Lookup, OpenDbs, Read, Bump, SyncGame, Load, Resolve, Fetch, Walk, storage
  <2>2. UNCHANGED file \/ file' = live
    BY WorkFile
  <2> QED BY <1>1, <1>2, <2>1, <2>2 DEF CountsOK, OnDisk
<1> QED BY <1>3, <1>4, <1>5, <1>6

\* An entry of the list of a server with its tables open.
LEMMA Entries ==
  ASSUME Base, Sane, handles = "open", NEW i \in DOMAIN list
  PROVE  /\ list[i].id \in 1..MaxTypes
         /\ live.types[list[i].id] = list[i].name /\ list[i].name # None
<1>1. list[i] \in Entry
  BY DEF Base, Sane, TypeOK, TypesTypeOK
<1>2. list[i].name # None
  BY <1>1, StorageOK, GameTypesOK DEF Entry
<1> QED BY <1>2 DEF Base, Sane, ListIsTheTable

\* The tables that are open, and what they hold.
LEMMA Opened ==
  ASSUME Base, Sane, handles = "open"
  PROVE  /\ live \in Tables /\ Complete(live) /\ Complete(file)
         /\ live.types \in TypeTable /\ live.games \in GameTable /\ live.stats \in Stats
         /\ Sound(live) /\ Sound(file)
BY Full DEF Base, Sane, TypeOK, StorageTypeOK, TablesOK

\* A stored type that is not in the list under its id is not there under its name.
LEMMA NewById ==
  ASSUME Base, Sane, handles = "open", NEW k \in 1..MaxTypes, live.types[k] # None, ById(k) = {}
  PROVE  \A i \in DOMAIN list : list[i].id # k /\ list[i].name # live.types[k]
<1>1. SUFFICES ASSUME NEW i \in DOMAIN list, list[i].name = live.types[k]
               PROVE  list[i].id = k
  BY DEF ById
<1> QED BY <1>1, Entries, Opened DEF Sound

\* A name that is in the table, and not in the list, has an id that is not there.
LEMMA NewByName ==
  ASSUME Base, Sane, handles = "open", NEW n \in Names, ByName(n) = {},
         NEW k \in 1..MaxTypes, live.types[k] = n \/ live.types[k] = None
  PROVE  \A i \in DOMAIN list : list[i].id # k /\ list[i].name # n
BY Entries DEF ByName

\* A step keeps the types that are stored.
LEMMA TypesGrow ==
  ASSUME Base, Sane, NEW t \in Threads, Work(t), handles = "open"
  PROVE  /\ handles' = "open"
         /\ ~ Put(t) => live'.types = live.types
         /\ \A i \in 1..MaxTypes : live.types[i] # None => live'.types[i] = live.types[i]
<1>1. handles' = "open"
  BY WorkHandles
<1>2. live \in Tables /\ live.types \in TypeTable
  BY Opened
<1>3. Save(t) \/ Store(t) => live'.types = live.types
  BY <1>2 DEF Save, Store, Counted, Tables
<1>4. Lookup(t) => live' = live
  BY DEF Lookup, OpenDbs
<1>5. ~ Put(t) => live'.types = live.types
  BY <1>3, <1>4 DEF Work, Search, Read, Bump, SyncGame, Load, Resolve, Fetch, Walk, storage
<1>6. ASSUME Put(t), NEW i \in 1..MaxTypes, live.types[i] # None
      PROVE  live'.types[i] = live.types[i]
  <2>1. id[t] \in 1..MaxTypes /\ live.types[id[t]] = None
    BY <1>6 DEF Base, Sane, ThreadsOK, ThreadOK, Holds, Put
  <2>2. live' = live \/ live' = [live EXCEPT !.types[id[t]] = name[t]]
    BY <1>6 DEF Put, PutType
  <2> QED BY <1>2, <1>6, <2>1, <2>2 DEF Tables, TypeTable
<1> QED BY <1>1, <1>5, <1>6

\* Entry e joins the list: it is a record of the table, and is not there yet.
Joins(e) ==
  /\ list' = Append(list, e) /\ Len(list) < alloc'
  /\ handles' = "open" =>
       /\ e.id \in 1..MaxTypes
       /\ live'.types[e.id] = e.name
       /\ \A i \in DOMAIN list : list[i].id # e.id /\ list[i].name # e.name

\* What game_type_by_name finds has the name it looked for, unless its handle is half open.
LEMMA Found ==
  ASSUME Base, Sane, NEW t \in Threads, Lookup(t), NEW e \in Got(name[t]), e # None, handles' = "open"
  PROVE  /\ e.name = name[t] /\ e.id \in 1..MaxTypes
         /\ live'.types[e.id] = e.name
         /\ \A i \in DOMAIN list : list[i].id # e.id /\ list[i].name # e.name
<1>1. name[t] \in Names /\ ByName(name[t]) = {}
  BY DEF Base, Sane, ThreadsOK, ThreadOK, Holds, Lookup, Sharing, Adding
<1>2. handles # "half"
  BY DEF Lookup, OpenDbs
<1>3. /\ e.name = name[t] /\ e.id \in Indexed(name[t], Seen) /\ Usable
  BY <1>1, <1>2, GotSane DEF Sane
<1>4. CASE handles = "open"
  <2>1. live' = live /\ Seen = live
    BY <1>4 DEF Lookup, OpenDbs, Seen
  <2> QED BY <1>1, <1>3, <1>4, <2>1, NewByName DEF Indexed
<1>5. CASE handles = "closed"
  <2>1. live' = file /\ Seen = file /\ list = <<>>
    BY <1>5 DEF Lookup, OpenDbs, Seen, Base, Sane, PhaseOK
  <2> QED BY <1>3, <2>1 DEF Indexed
<1> QED BY <1>2, <1>4, <1>5 DEF Base, Sane, TypeOK, StorageTypeOK

\* The list stays as it is, or an entry joins it.
LEMMA WorkList ==
  ASSUME Base, Sane, NEW t \in Threads, Work(t)
  PROVE  UNCHANGED list \/ \E e \in Entry : Joins(e)
<1>1. /\ ThreadOK(t) /\ StorageTypeOK /\ TypesTypeOK /\ Len(list) <= alloc
  BY DEF Base, Sane, ThreadsOK, TypeOK, Roomy
<1>2. CASE Lookup(t)
  <2>1. Len(list) < alloc' /\ name[t] \in Names
    BY <1>1, <1>2 DEF Lookup, ThreadOK, Holds, Adding, Sharing
  <2>2. PICK e \in Got(name[t]) : IF e = None THEN NotStored(t) ELSE Add(t, e)
    BY <1>2 DEF Lookup
  <2>3. CASE e = None
    BY <2>2, <2>3 DEF NotStored
  <2>4. CASE e # None
    <3>1. list' = Append(list, e) /\ e \in Entry
      BY <1>1, <2>1, <2>2, <2>4, GotTypes DEF Add
    <3> QED BY <1>2, <2>1, <2>4, <3>1, Found DEF Joins
  <2> QED BY <2>3, <2>4
<1>3. CASE Put(t)
  <2> DEFINE e == [name |-> name[t], id |-> id[t]]
  <2>1. /\ list' = Append(list, e) /\ Len(list) < alloc' /\ UNCHANGED handles
        /\ name[t] \in Names /\ e \in Entry
    BY <1>1, <1>3 DEF Put, Add, ThreadOK, Holds, Sharing, Adding, TypesTypeOK, Entry
  <2>2. ASSUME handles = "open"
        PROVE  /\ id[t] \in 1..MaxTypes /\ live'.types[id[t]] = name[t]
               /\ \A i \in DOMAIN list : list[i].id # id[t] /\ list[i].name # name[t]
    <3>1. /\ id[t] \in 1..MaxTypes /\ live.types[id[t]] = None
          /\ Indexed(name[t], live) = {} /\ ByName(name[t]) = {}
      BY <1>1, <1>3, <2>2 DEF Put, ThreadOK, Holds, Counting, Adding
    <3>2. live \in Tables /\ live.types \in TypeTable
      BY <2>2, Opened
    <3>3. live' = [live EXCEPT !.types[id[t]] = name[t]]
      BY <1>3, <2>2, <3>1 DEF Put, PutType, Sane
    <3>4. live'.types[id[t]] = name[t]
      BY <3>1, <3>2, <3>3 DEF Tables, TypeTable
    <3> QED BY <2>1, <2>2, <3>1, <3>4, NewByName
  <2>3. Joins(e)
    BY <2>1, <2>2 DEF Joins
  <2> QED BY <2>1, <2>3
<1>4. CASE Fetch(t)
  <2>1. handles = "open" /\ id[t] \in 1..MaxTypes /\ live.types[id[t]] # None /\ ById(id[t]) = {}
    <3>1. ~ Idle(t) /\ t # Main
      BY <1>1, <1>4 DEF Fetch, Idle, ThreadOK, Holds
    <3> QED BY <1>1, <1>4, <3>1, AtWork DEF Fetch, ThreadOK, Holds
  <2>2. TypeLoad(id[t]) \in Entry
    BY <2>1, Opened, LoadTypes
  <2>3. Joins(TypeLoad(id[t]))
    BY <1>1, <1>4, <2>1, NewById DEF Fetch, Joins, TypeLoad, ThreadOK, Holds, Adding, storage
  <2> QED BY <2>2, <2>3
<1>5. CASE Walk(t)
  <2>1. handles = "open"
    <3>1. ~ Idle(t) /\ t # Main
      BY <1>1, <1>5 DEF Walk, Idle, ThreadOK, Holds
    <3> QED BY <1>1, <3>1, AtWork
  <2>2. CASE \E k \in 1..MaxTypes : live.types[k] # None /\ Loaded(k)
    <3>1. PICK k \in 1..MaxTypes : live.types[k] # None /\ Loaded(k)
      BY <2>2
    <3>2. CASE UNCHANGED array
      BY <3>2 DEF array
    <3>3. CASE ById(k) = {} /\ list' = Append(list, TypeLoad(k)) /\ alloc' = Grown
      <4>1. TypeLoad(k) \in Entry /\ Len(list) < alloc'
        BY <1>1, <2>1, <3>1, <3>3, Opened, LoadTypes, GrownTypes
      <4>2. Joins(TypeLoad(k))
        BY <1>5, <2>1, <3>1, <3>3, <4>1, NewById DEF Walk, Joins, TypeLoad, storage
      <4> QED BY <4>1, <4>2
    <3> QED BY <3>1, <3>2, <3>3 DEF Loaded
  <2> QED BY <1>5, <2>2 DEF Walk, IsFirst, array
<1> QED BY <1>2, <1>3, <1>4, <1>5 DEF Work, Search, Read, Bump, Store, Save, SyncGame, Load, Resolve, array

\* The list agrees with the table after a step of a thread.
LEMMA WorkListIsTheTable ==
  ASSUME Base, Sane, NEW t \in Threads, Work(t)
  PROVE  ListIsTheTable'
<1>1. SUFFICES ASSUME handles' = "open"
               PROVE  /\ \A i \in DOMAIN list' : list'[i].id \in 1..MaxTypes
                                                 /\ live'.types[list'[i].id] = list'[i].name
                      /\ \A i, j \in DOMAIN list' : i # j => /\ list'[i].id # list'[j].id
                                                             /\ list'[i].name # list'[j].name
  BY DEF ListIsTheTable
<1>2. list \in Seq(Entry)
  BY DEF Base, Sane, TypeOK, TypesTypeOK
<1>3. \A i \in DOMAIN list : list[i].id \in 1..MaxTypes /\ live'.types[list[i].id] = list[i].name
  <2>1. CASE handles = "open"
    BY <2>1, Entries, TypesGrow
  <2>2. CASE handles # "open"
    BY <1>1, <2>2, WorkHandles DEF Base, Sane, PhaseOK
  <2> QED BY <2>1, <2>2
<1>4. \A i, j \in DOMAIN list : i # j => list[i].id # list[j].id /\ list[i].name # list[j].name
  <2>1. handles = "open" \/ list = <<>>
    BY <1>1, WorkHandles DEF Base, Sane, PhaseOK
  <2> QED BY <2>1 DEF Base, Sane, ListIsTheTable
<1>5. CASE UNCHANGED list
  BY <1>3, <1>4, <1>5
<1>6. ASSUME NEW e \in Entry, Joins(e)
      PROVE  /\ \A i \in DOMAIN list' : list'[i].id \in 1..MaxTypes
                                        /\ live'.types[list'[i].id] = list'[i].name
             /\ \A i, j \in DOMAIN list' : i # j => /\ list'[i].id # list'[j].id
                                                    /\ list'[i].name # list'[j].name
  <2>1. /\ DOMAIN list' = DOMAIN list \cup {Len(list) + 1}
        /\ \A i \in DOMAIN list : list'[i] = list[i]
        /\ list'[Len(list) + 1] = e
    BY <1>2, <1>6 DEF Joins
  <2>2. /\ e.id \in 1..MaxTypes /\ live'.types[e.id] = e.name
        /\ \A i \in DOMAIN list : list[i].id # e.id /\ list[i].name # e.name
    BY <1>1, <1>6 DEF Joins
  <2> QED BY <1>3, <1>4, <2>1, <2>2
<1> QED BY <1>5, <1>6, WorkList

\* The tables a process sees are sound if the types and the games are as before and the
\* counter is not behind.
LEMMA SoundSame ==
  ASSUME NEW S, NEW T, Sound(S), S.stats.type \in Nat, T.stats.type \in Nat,
         T.types = S.types, T.games = S.games, T.stats.type >= S.stats.type,
         MaxTypes \in Nat, UNCHANGED <<defs, born>>
  PROVE  /\ \A i \in 1..MaxTypes : T.types[i] # None => i <= T.stats.type /\ T.types[i] \in defs'
         /\ \A i, j \in 1..MaxTypes : T.types[i] = T.types[j] /\ T.types[i] # None => i = j
         /\ \A g \in GameIds : T.games[g] # None =>
              born'[g] # None /\ T.types[T.games[g]] = born'[g]
BY DEF Sound

\* A new record of the table of types, under the id the counter has just given.
LEMMA PutSound ==
  ASSUME Base, Sane, NEW t \in Threads, Put(t), handles = "open"
  PROVE  Sound(live)'
<1>1. /\ id[t] \in 1..MaxTypes /\ id[t] = live.stats.type /\ live.types[id[t]] = None
      /\ Indexed(name[t], live) = {} /\ name[t] \in Names /\ name[t] \in defs
  BY DEF Base, Sane, ThreadsOK, ThreadOK, Holds, Put, Counting, Adding, Sharing
<1>2. /\ live \in Tables /\ live.types \in TypeTable /\ live.stats \in Stats
      /\ live.games \in GameTable /\ Sound(live)
  BY Opened
<1>3. live' = [live EXCEPT !.types[id[t]] = name[t]] /\ UNCHANGED <<defs, born>>
  BY <1>1 DEF Put, PutType, Sane
<1>4. /\ live'.stats = live.stats /\ live'.games = live.games
      /\ live'.types = [live.types EXCEPT ![id[t]] = name[t]]
  BY <1>2, <1>3 DEF Tables
<1>5. /\ live'.types[id[t]] = name[t]
      /\ \A i \in 1..MaxTypes : i # id[t] => live'.types[i] = live.types[i]
      /\ \A i \in 1..MaxTypes : live.types[i] # name[t]
  BY <1>1, <1>2, <1>4 DEF TypeTable, Indexed
<1>6. \A i \in 1..MaxTypes : live'.types[i] # None => i <= live'.stats.type /\ live'.types[i] \in defs'
  BY <1>1, <1>2, <1>3, <1>4, <1>5 DEF Sound, Stats
<1>7. \A i, j \in 1..MaxTypes :
        live'.types[i] = live'.types[j] /\ live'.types[i] # None => i = j
  BY <1>2, <1>5 DEF Sound
<1>8. ASSUME NEW g \in GameIds, live'.games[g] # None
      PROVE  born'[g] # None /\ live'.types[live'.games[g]] = born'[g]
  <2>1. live.games[g] \in 1..MaxTypes /\ born[g] # None /\ live.types[live.games[g]] = born[g]
    BY <1>2, <1>4, <1>8 DEF Sound, GameTable
  <2> QED BY <1>1, <1>3, <1>4, <1>5, <2>1
<1> QED BY <1>6, <1>7, <1>8 DEF Sound

\* A new game, under an id that was free.
LEMMA SaveSound ==
  ASSUME Base, Sane, NEW t \in Threads, Save(t)
  PROVE  /\ handles = "open" /\ Sound(live)' /\ Sound(file)' /\ live'.types = live.types
<1>1. /\ handles = "open" /\ name[t] \in Names /\ id[t] \in 1..MaxTypes
      /\ live.types[id[t]] = name[t] /\ name[t] # None
  <2>1. ThreadOK(t) /\ ~ Idle(t) /\ t # Main
    BY DEF Base, Sane, ThreadsOK, ThreadOK, Holds, Save, Idle
  <2> QED BY <2>1, AtWork, StorageOK DEF Save, ThreadOK, Holds
<1>2. /\ live \in Tables /\ live.types \in TypeTable /\ live.games \in GameTable
      /\ file \in Tables /\ file.games \in GameTable /\ Sound(live) /\ Sound(file)
  BY <1>1, Opened, Full DEF Base, Sane, TypeOK, StorageTypeOK
<1>3. Unused \in GameIds /\ born[Unused] = None
  BY DEF Save, Unused
<1>4. /\ live' = [live EXCEPT !.games[Unused] = id[t]]
      /\ born' = [born EXCEPT ![Unused] = name[t]]
      /\ UNCHANGED <<file, defs>> /\ born \in [GameIds -> Names \cup {None}]
  BY DEF Save, Base, Sane, TypeOK, TypesTypeOK
<1>5. /\ live'.types = live.types /\ live'.stats = live.stats
      /\ live'.games = [live.games EXCEPT ![Unused] = id[t]]
  BY <1>2, <1>4 DEF Tables
<1>6. /\ live'.games[Unused] = id[t] /\ born'[Unused] = name[t]
      /\ \A g \in GameIds : g # Unused => live'.games[g] = live.games[g] /\ born'[g] = born[g]
  BY <1>2, <1>3, <1>4, <1>5 DEF GameTable
<1>7. Sound(live)'
  <2>1. \A g \in GameIds : live'.games[g] # None =>
          born'[g] # None /\ live'.types[live'.games[g]] = born'[g]
    BY <1>1, <1>2, <1>5, <1>6 DEF Sound
  <2>2. \A i \in 1..MaxTypes : live'.types[i] # None =>
          i <= live'.stats.type /\ live'.types[i] \in defs'
    BY <1>2, <1>4, <1>5 DEF Sound
  <2>3. \A i, j \in 1..MaxTypes :
          live'.types[i] = live'.types[j] /\ live'.types[i] # None => i = j
    BY <1>2, <1>5 DEF Sound
  <2> QED BY <2>1, <2>2, <2>3 DEF Sound
<1>8. Sound(file)'
  <2>1. file.games[Unused] = None
    BY <1>2, <1>3 DEF Sound
  <2> QED BY <1>2, <1>4, <1>6, <2>1 DEF Sound
<1> QED BY <1>1, <1>5, <1>7, <1>8

\* Both sets of tables are sound after a step of a thread.
LEMMA WorkTablesOK ==
  ASSUME Base, Sane, NEW t \in Threads, Work(t)
  PROVE  TablesOK'
<1>1. UNCHANGED defs /\ (handles # "open" => UNCHANGED file /\ ~ Save(t))
  BY WorkHandles, WorkFile, SaveSound
<1>2. handles = "open" => handles' = "open" /\ Complete(file) /\ Sound(file) /\ Sound(live)
  BY Opened, WorkHandles
<1>3. CASE handles # "open"
  <2>1. UNCHANGED born
    BY <1>1, <1>3 DEF Work, Search, Lookup, Read, Bump, Store, Put, SyncGame, Load, Resolve, Fetch, Walk
  <2>2. Complete(file)' => Sound(file)'
    BY <1>1, <1>3, <2>1 DEF Base, Sane, TablesOK, Complete, Sound
  <2>3. handles' = "open" => live' = file /\ Complete(file)
    BY <1>3, WorkHandles DEF Lookup, OpenDbs
  <2>4. handles' = "open" => Sound(live)'
    BY <1>1, <1>3, <2>1, <2>3 DEF Base, Sane, TablesOK, Sound
  <2> QED BY <1>1, <1>3, <2>2, <2>3, <2>4 DEF TablesOK
<1>4. CASE handles = "open"
  <2>1. CASE Save(t)
    <3>1. UNCHANGED file
      BY <2>1 DEF Save
    <3> QED BY <1>2, <1>4, <2>1, <3>1, SaveSound DEF TablesOK, Base, Sane
  <2>2. CASE Put(t)
    <3>1. UNCHANGED <<file, born>>
      BY <2>2 DEF Put
    <3>2. Sound(file)' /\ Complete(file)'
      BY <1>1, <1>2, <1>4, <3>1 DEF Sound, Complete
    <3>3. \A i \in 1..MaxTypes : file'.types[i] # None => live'.types[i] = file'.types[i]
      BY <1>4, <3>1, TypesGrow DEF Base, Sane, TablesOK
    <3> QED BY <1>4, <2>2, <3>2, <3>3, PutSound DEF TablesOK
  <2>3. CASE Store(t)
    <3>1. /\ statbuf = live.stats.type + 1 /\ live' = Counted /\ UNCHANGED <<file, born>>
      BY <2>3 DEF Store, Base, Sane, ThreadsOK, ThreadOK, Holds
    <3>2. /\ live \in Tables /\ live.stats \in Stats
      BY <1>4, Opened
    <3>3. /\ live'.stats.type = live.stats.type + 1 /\ live.stats.type \in Nat
          /\ live'.types = live.types /\ live'.games = live.games
      BY <3>1, <3>2 DEF Counted, Tables, Stats
    <3>4. live'.stats.type \in Nat /\ live'.stats.type >= live.stats.type
      BY <3>3
    <3>5. Sound(live)'
      BY <1>1, <1>2, <1>4, <3>1, <3>3, <3>4, SoundSame, StorageOK DEF Sound
    <3>6. Sound(file)' /\ Complete(file)'
      BY <1>1, <1>2, <1>4, <3>1 DEF Sound, Complete
    <3> QED BY <1>4, <3>1, <3>3, <3>5, <3>6 DEF TablesOK, Base, Sane
  <2>4. CASE ~ Save(t) /\ ~ Put(t) /\ ~ Store(t)
    <3>1. UNCHANGED <<live, born>>
      <4>1. Lookup(t) => UNCHANGED live
        BY <1>4 DEF Lookup, OpenDbs
      <4> QED BY <2>4, <4>1 DEF Work, Search, Lookup, Read, Bump, SyncGame, Load, Resolve, Fetch, Walk, storage
    <3>2. Sound(live)'
      BY <1>1, <1>2, <1>4, <3>1 DEF Sound
    <3>3. CASE UNCHANGED file
      <4>1. Sound(file)' /\ Complete(file)'
        BY <1>1, <1>2, <1>4, <3>1, <3>3 DEF Sound, Complete
      <4> QED BY <1>4, <3>1, <3>2, <3>3, <4>1 DEF TablesOK, Base, Sane
    <3>4. CASE file' = live
      BY <3>1, <3>2, <3>4 DEF TablesOK, Sound, Complete
    <3> QED BY <3>3, <3>4, WorkFile
  <2> QED BY <2>1, <2>2, <2>3, <2>4
<1> QED BY <1>3, <1>4

\* With several workers at work the list has every definition, and every stored type.
LEMMA WideAll ==
  ASSUME Base, Sane, proc \in {"serving", "stopping"}, width > 1, handles = "open"
  PROVE  /\ defs \cap Broken = {}
         /\ \A n \in defs : ByName(n) # {}
         /\ \A k \in 1..MaxTypes : live.types[k] # None => ById(k) # {}
         /\ \A n \in Names \ defs : Indexed(n, live) = {}
<1>1. /\ defs \cap Broken = {}
      /\ \A n \in defs : ByName(n) # {}
  BY DEF Base, Sane, PhaseOK, WideOK, Idle, Sharing
<1>2. \A k \in 1..MaxTypes : live.types[k] # None => live.types[k] \in defs
  BY Opened DEF Sound
<1>3. ASSUME NEW k \in 1..MaxTypes, live.types[k] # None
      PROVE  ById(k) # {}
  <2>1. PICK i \in DOMAIN list : list[i].name = live.types[k]
    BY <1>1, <1>2, <1>3 DEF ByName
  <2>2. list[i].id = k
    BY <1>3, <2>1, Entries, Opened DEF Sound
  <2> QED BY <2>2 DEF ById
<1>4. \A n \in Names \ defs : Indexed(n, live) = {}
  BY <1>2, StorageOK DEF Indexed
<1> QED BY <1>1, <1>3, <1>4

\* A thread of several goes on without a change to the list, the types or the counters.
LEMMA WideQuiet ==
  ASSUME Base, Sane, NEW t \in Threads, Work(t),
         proc \in {"serving", "stopping"}, width > 1, handles = "open"
  PROVE  /\ UNCHANGED <<list, statbuf>> /\ live'.types = live.types /\ live'.stats = live.stats
         /\ pc'[t] \notin Counting \cup {"fetch"}
         /\ pc'[t] = "lookup" => name'[t] \notin defs
<1>1. /\ t \in Workers /\ t # Main /\ ThreadOK(t)
      /\ pc \in [Threads -> Places] /\ name \in [Threads -> Names \cup {None}]
  BY AtWork, WorkHandles DEF Base, Sane, ThreadsOK, TypeOK, TypesTypeOK
<1>2. pc[t] \notin Counting \cup {"fetch"} /\ (pc[t] = "lookup" => name[t] \notin defs)
  BY <1>1 DEF Base, Sane, WideOK
<1>3. ~ Read(t) /\ ~ Bump(t) /\ ~ Store(t) /\ ~ Put(t) /\ ~ Fetch(t)
  BY <1>2 DEF Read, Bump, Store, Put, Fetch, Counting, Adding
<1>4. Done(t) => pc'[t] = "idle"
  BY <1>1 DEF Done, Goto
<1>5. "idle" \notin Counting \cup {"fetch", "lookup"}
  BY DEF Counting, Adding
<1>6. CASE Search(t)
  <2>1. \/ pc'[t] = "save"
        \/ pc'[t] = "lookup" /\ name'[t] = name[t] /\ ByName(name[t]) = {}
    BY <1>1, <1>6 DEF Search, Shared, Goto
  <2> QED BY <1>6, <2>1, WideAll DEF Search, storage, Counting, Adding
<1>7. CASE Lookup(t)
  <2>1. name[t] \in Names \ defs
    BY <1>1, <1>2, <1>7 DEF Lookup, ThreadOK, Holds, Sharing
  <2>2. UNCHANGED live /\ Got(name[t]) = {None}
    BY <1>7, <2>1, WideAll DEF Lookup, OpenDbs, Got, Leads, Usable, Seen, Sane
  <2>3. NotStored(t) /\ ~ Rules(name[t])
    BY <1>7, <2>1, <2>2 DEF Lookup, Rules
  <2> QED BY <1>4, <1>5, <1>7, <2>2, <2>3 DEF NotStored, Failed, Lookup
<1>8. CASE Save(t)
  <2>1. live'.types = live.types /\ live'.stats = live.stats
    BY <1>8, Opened DEF Save, Tables
  <2>2. pc'[t] \in {"sync", "idle"}
    BY <1>1, <1>4, <1>8 DEF Save, Goto
  <2> QED BY <1>8, <2>1, <2>2 DEF Save, array, Counting, Adding
<1>9. CASE SyncGame(t)
  <2>1. pc'[t] \in {"load", "idle"}
    BY <1>1, <1>4, <1>9 DEF SyncGame, Goto
  <2> QED BY <1>9, <2>1 DEF SyncGame, array, Counting, Adding
<1>10. CASE Load(t)
  <2>1. pc'[t] \in {"resolve", "idle"}
    BY <1>1, <1>4, <1>10 DEF Load, Goto
  <2> QED BY <1>10, <2>1 DEF Load, array, storage, Counting, Adding
<1>11. CASE Resolve(t)
  <2>1. ById(id[t]) # {}
    BY <1>1, <1>11, WideAll DEF Resolve, ThreadOK, Holds
  <2>2. pc'[t] \in {"sync", "idle"}
    BY <1>1, <1>4, <1>11, <2>1 DEF Resolve, Played, Goto
  <2> QED BY <1>11, <2>1, <2>2 DEF Resolve, storage, Counting, Adding
<1>12. CASE Walk(t)
  <2>1. UNCHANGED list
    BY <1>12, WideAll DEF Walk, Loaded, array
  <2>2. pc'[t] \in {"walk", "idle"}
    BY <1>4, <1>12 DEF Walk
  <2> QED BY <1>12, <2>1, <2>2 DEF Walk, storage, Counting, Adding
<1> QED BY <1>3, <1>6, <1>7, <1>8, <1>9, <1>10, <1>11, <1>12 DEF Work

\* With several workers the definitions stay in the list; the main thread puts them there.
LEMMA WorkWideOK ==
  ASSUME Base, Sane, NEW t \in Threads, Work(t), UNCHANGED life
  PROVE  WideOK'
<1>1. SUFFICES ASSUME proc \in {"starting", "serving", "stopping"}, width > 1
               PROVE  /\ defs' \cap Broken = {}
                      /\ handles' # "half" =>
                           \A n \in defs' : \/ n \in todo' \/ ByName(n)' # {}
                                            \/ pc'[Main] \in Sharing /\ name'[Main] = n
                      /\ \A w \in Workers :
                           /\ pc'[w] \notin Counting \cup {"fetch"}
                           /\ pc'[w] = "lookup" => name'[w] \notin defs'
  BY DEF WideOK, life
<1>2. /\ UNCHANGED defs /\ defs \cap Broken = {} /\ Main \in Threads
      /\ Workers \subseteq Threads /\ Main \notin Workers
  BY <1>1, WorkHandles, GameTypesOK DEF Base, Sane, WideOK, Threads
<1>3. \A w \in Workers : w # t => /\ pc'[w] \notin Counting \cup {"fetch"}
                                  /\ pc'[w] = "lookup" => name'[w] \notin defs'
  BY <1>1, <1>2, WorkHandles DEF Base, Sane, WideOK
<1>4. CASE proc # "starting"
  <2>1. t \in Workers /\ handles = "open" /\ t # Main /\ pc[Main] = "idle"
    BY <1>2, <1>4, AtWork, WorkHandles DEF Base, Sane, PhaseOK, Idle
  <2>2. \A n \in defs : ByName(n)' # {}
    BY <1>1, <1>4, <2>1, WideAll, WideQuiet DEF ByName
  <2> QED BY <1>1, <1>2, <1>3, <1>4, <2>1, <2>2, WideQuiet
<1>5. CASE proc = "starting"
  <2>1. t = Main
    BY <1>5, AtWork, WorkHandles
  <2>2. SUFFICES ASSUME handles' # "half", NEW n \in defs
                 PROVE  \/ n \in todo' \/ ByName(n)' # {}
                        \/ pc'[Main] \in Sharing /\ name'[Main] = n
    BY <1>2, <1>3, <2>1
  <2>3. handles # "half"
    BY <2>2, WorkHandles
  <2>4. \/ n \in todo \/ ByName(n) # {}
        \/ pc[Main] \in Sharing /\ name[Main] = n
    BY <1>1, <2>3 DEF Base, Sane, WideOK
  <2>5. list \in Seq(Entry) /\ ThreadOK(t) /\ FramesOK /\ StorageTypeOK
    BY DEF Base, Sane, TypeOK, TypesTypeOK, ThreadsOK, FramesOK
  <2>6. ByName(n) # {} => ByName(n)' # {}
    <3>1. ASSUME NEW e \in Entry, Joins(e), NEW i \in DOMAIN list
          PROVE  i \in DOMAIN list' /\ list'[i] = list[i]
      BY <2>5, <3>1 DEF Joins
    <3> QED BY <3>1, WorkList DEF ByName
  <2>7. ~ Failed(t) /\ n \in todo => n \in todo'
    BY <2>5 DEF Work, Search, Lookup, NotStored, Add, Read, Bump, Store, Put, Save, SyncGame,
                Load, Resolve, Fetch, Walk
  <2>8. CASE Search(t)
    <3>1. ByName(name[t]) # {} \/ (pc'[t] = "lookup" /\ name'[t] = name[t])
      BY <2>5, <2>8 DEF Search, Goto, FramesOK
    <3> QED BY <2>1, <2>4, <2>6, <2>8, <3>1 DEF Search, Sharing
  <2>9. CASE Lookup(t)
    <3>1. PICK e \in Got(name[t]) : IF e = None THEN NotStored(t) ELSE Add(t, e)
      BY <2>9 DEF Lookup
    <3>2. name[t] \in defs /\ Rules(name[t]) /\ name[t] \in Names
      BY <1>2, <2>1, <2>5, <2>9 DEF Lookup, ThreadOK, Holds, Sharing, Rules
    <3>3. CASE e = None
      <4>1. pc'[t] = "read" /\ name'[t] = name[t] /\ UNCHANGED <<todo, list>>
        BY <2>5, <3>1, <3>2, <3>3 DEF NotStored, Goto, FramesOK
      <4> QED BY <2>1, <2>4, <2>6, <4>1 DEF Sharing
    <3>4. CASE e # None
      <4>1. e.name = name[t] /\ e \in Entry /\ list' = Append(list, e) /\ UNCHANGED todo
        BY <2>3, <2>5, <3>1, <3>2, <3>4, GotTypes, GotSane DEF Add, Sane
      <4>3. n = name[t] => ByName(n)' # {}
        <5>1. Len(list) + 1 \in DOMAIN list' /\ list'[Len(list) + 1] = e
          BY <2>5, <4>1
        <5> QED BY <4>1, <5>1 DEF ByName
      <4> QED BY <2>1, <2>4, <2>6, <4>1, <4>3
    <3> QED BY <3>3, <3>4
  <2>10. CASE Put(t)
    <3>1. /\ list' = Append(list, [name |-> name[t], id |-> id[t]]) /\ UNCHANGED todo
          /\ [name |-> name[t], id |-> id[t]] \in Entry
      BY <2>5, <2>10 DEF Put, Add, ThreadOK, Holds, Sharing, FramesOK, Entry
    <3>2. Len(list) + 1 \in DOMAIN list' /\ list'[Len(list) + 1].name = name[t]
      BY <2>5, <3>1
    <3>3. n = name[t] => ByName(n)' # {}
      BY <3>2 DEF ByName
    <3> QED BY <2>1, <2>4, <2>6, <3>1, <3>3
  <2>11. CASE Read(t) \/ Bump(t) \/ Store(t)
    <3>1. pc'[t] \in Sharing /\ name' = name /\ UNCHANGED todo
      BY <2>5, <2>11 DEF Read, Bump, Store, Goto, Sharing, FramesOK
    <3> QED BY <2>1, <2>4, <2>6, <3>1
  <2>12. ~ Save(t) /\ ~ SyncGame(t) /\ ~ Load(t) /\ ~ Resolve(t) /\ ~ Fetch(t) /\ ~ Walk(t)
    BY <2>1, <2>5 DEF ThreadOK, Holds, Save, SyncGame, Load, Resolve, Fetch, Walk
  <2> QED BY <2>8, <2>9, <2>10, <2>11, <2>12 DEF Work
<1> QED BY <1>4, <1>5

\* An idle thread knows nothing.
LEMMA IdleOK ==
  ASSUME NEW t \in Threads, pc'[t] = "idle"
  PROVE  ThreadOK(t)'
BY DEF ThreadOK, Holds, Sharing, Counting, Adding

\* A thread that is done is idle.
LEMMA DoneOK ==
  ASSUME TypesTypeOK, NEW t \in Threads, Done(t)
  PROVE  pc'[t] = "idle" /\ ThreadOK(t)'
<1>1. pc'[t] = "idle"
  BY DEF Done, Goto, TypesTypeOK
<1> QED BY <1>1, IdleOK

\* A thread of the pool that got its type goes on to save a game of it.
LEMMA SharedOK ==
  ASSUME TypesTypeOK, NEW t \in Threads, NEW e \in Entry, Shared(t, e), name[t] \in Names,
         t # Main => e.id \in 1..MaxTypes /\ live'.types[e.id] = name[t]
  PROVE  ThreadOK(t)'
<1>1. CASE t = Main
  BY <1>1, DoneOK DEF Shared
<1>2. CASE t # Main
  <2>1. pc'[t] = "save" /\ id'[t] = e.id /\ name'[t] = name[t]
    BY <1>2 DEF Shared, Goto, TypesTypeOK
  <2> QED BY <1>2, <2>1 DEF ThreadOK, Holds, Sharing, Counting, Adding
<1> QED BY <1>1, <1>2

\* A thread that is done with the types is idle or goes on to sync.
LEMMA PlayedOK ==
  ASSUME TypesTypeOK, NEW t \in Threads, t # Main, Played(t)
  PROVE  pc'[t] \in {"idle", "sync"} /\ ThreadOK(t)'
<1>1. CASE Done(t)
  BY <1>1, DoneOK
<1>2. CASE Goto(t, "sync")
  <2>1. pc'[t] = "sync"
    BY <1>2 DEF Goto, TypesTypeOK
  <2> QED BY <2>1 DEF ThreadOK, Holds, Sharing, Counting, Adding
<1> QED BY <1>1, <1>2 DEF Played

\* What a thread knows after its own step: the search in the list,
LEMMA SearchSelf ==
  ASSUME Base, Sane, NEW t \in Threads, Search(t)
  PROVE  ThreadOK(t)'
<1>1. /\ TypesTypeOK /\ ThreadOK(t) /\ ~ Idle(t) /\ name[t] \in Names /\ Work(t)
      /\ UNCHANGED <<list, defs, live>>
  BY DEF Base, Sane, TypeOK, ThreadsOK, Search, ThreadOK, Holds, Sharing, Idle, Work, storage
<1>2. ASSUME NEW i \in ByName(name[t]), Shared(t, list[i])
      PROVE  ThreadOK(t)'
  <2>1. i \in DOMAIN list /\ list[i].name = name[t] /\ list[i] \in Entry
    BY <1>1 DEF ByName, TypesTypeOK
  <2>2. t # Main => handles = "open"
    BY <1>1, AtWork
  <2> QED BY <1>1, <1>2, <2>1, <2>2, Entries, SharedOK
<1>3. CASE /\ ByName(name[t]) = {} /\ alloc' = Grown
           /\ Goto(t, "lookup") /\ UNCHANGED <<name, id, game>>
  <2>1. pc'[t] = "lookup" /\ name'[t] = name[t] /\ ByName(name[t])' = {}
    BY <1>1, <1>3 DEF Goto, TypesTypeOK, ByName
  <2>2. Len(list') < alloc'
    BY <1>1, <1>3, GrownTypes DEF Base, Sane, Roomy
  <2>3. t = Main => name'[t] \in defs'
    BY <1>1, <2>1 DEF Search, ThreadOK, Holds, Sharing
  <2> QED BY <1>1, <2>1, <2>2, <2>3 DEF ThreadOK, Holds, Sharing, Counting, Adding
<1> QED BY <1>2, <1>3 DEF Search

\* ... the lookup in the table,
LEMMA LookupSelf ==
  ASSUME Base, Sane, NEW t \in Threads, Lookup(t)
  PROVE  ThreadOK(t)'
<1>1. /\ TypesTypeOK /\ StorageTypeOK /\ ThreadOK(t) /\ ~ Idle(t) /\ name[t] \in Names /\ Work(t)
      /\ ByName(name[t]) = {} /\ Len(list) < alloc /\ UNCHANGED <<alloc, defs>>
      /\ handles' # "closed"
  BY DEF Base, Sane, TypeOK, ThreadsOK, Lookup, ThreadOK, Holds, Sharing, Adding, Idle, Work, OpenDbs
<1>2. PICK e \in Got(name[t]) : IF e = None THEN NotStored(t) ELSE Add(t, e)
  BY DEF Lookup
<1>3. CASE e # None
  <2>1. e \in Entry /\ Shared(t, e)
    BY <1>1, <1>2, <1>3, GotTypes DEF Add
  <2>2. t # Main => handles' = "open"
    BY <1>1, AtWork, WorkHandles
  <2> QED BY <1>1, <1>3, <2>1, <2>2, Found, SharedOK
<1>4. CASE e = None /\ Rules(name[t])
  <2>1. /\ pc'[t] = "read" /\ name'[t] = name[t] /\ UNCHANGED list /\ name[t] \in defs
        /\ ByName(name[t])' = {}
    BY <1>1, <1>2, <1>4 DEF NotStored, Goto, Rules, TypesTypeOK, ByName
  <2>2. handles' = "open" => Indexed(name[t], live') = {}
    <3>1. SUFFICES ASSUME handles' = "open"
                   PROVE  Indexed(name[t], live') = {}
      OBVIOUS
    <3>2. handles # "half" /\ Usable /\ Seen = live'
      BY <1>1, <3>1 DEF Lookup, OpenDbs, Usable, Seen, StorageTypeOK
    <3>3. Indexed(name[t], Seen) = {}
      <4>1. \A i \in 1..MaxTypes : [name |-> name[t], id |-> i] # None
        BY <1>1, StorageOK, GameTypesOK DEF Entry
      <4>2. \A i \in Indexed(name[t], Seen) : i \in 1..MaxTypes
        BY DEF Indexed
      <4> QED BY <1>1, <1>2, <1>4, <3>2, <4>1, <4>2, GotSane DEF Sane
    <3> QED BY <3>2, <3>3
  <2>3. t = Main => name'[t] \in defs'
    BY <1>1, <2>1
  <2> QED BY <1>1, <2>1, <2>2, <2>3 DEF ThreadOK, Holds, Sharing, Counting, Adding
<1>5. CASE e = None /\ ~ Rules(name[t])
  BY <1>1, <1>2, <1>5, DoneOK DEF NotStored, Failed
<1> QED BY <1>3, <1>4, <1>5

\* ... the id it draws from the counter,
LEMMA CountSelf ==
  ASSUME Base, Sane, NEW t \in Threads, Read(t) \/ Bump(t) \/ Store(t)
  PROVE  ThreadOK(t)'
<1>1. /\ TypesTypeOK /\ StorageTypeOK /\ ThreadOK(t) /\ name[t] \in Names
      /\ ByName(name[t]) = {} /\ Len(list) < alloc /\ UNCHANGED <<list, alloc, defs, handles>>
      /\ ByName(name[t])' = {} /\ name' = name
      /\ name[t] \in defs /\ handles # "closed"
      /\ handles = "open" => Indexed(name[t], live) = {}
  <2>1. TypesTypeOK /\ StorageTypeOK /\ ThreadOK(t)
    BY DEF Base, Sane, TypeOK, ThreadsOK
  <2>2. /\ pc[t] \in Counting /\ pc[t] \in Adding /\ pc[t] \in Sharing
    BY DEF Read, Bump, Store, Sharing, Adding, Counting
  <2>3. UNCHANGED <<list, alloc, defs, handles, name>>
    BY DEF Read, Bump, Store, array
  <2>4. /\ name[t] \in Names /\ ByName(name[t]) = {} /\ Len(list) < alloc
        /\ name[t] \in defs /\ handles # "closed"
        /\ handles = "open" => Indexed(name[t], live) = {}
    BY <2>1, <2>2 DEF ThreadOK, Holds
  <2>5. ByName(name[t])' = {}
    BY <2>3, <2>4 DEF ByName
  <2> QED BY <2>1, <2>3, <2>4, <2>5
<1>2. CASE Read(t)
  <2>1. UNCHANGED live
    BY <1>2 DEF Read
  <2>2. CASE handles = "open" /\ statbuf' = live.stats.type /\ Goto(t, "bump")
    <3>1. pc'[t] = "bump" /\ statbuf' = live'.stats.type
      BY <1>1, <2>1, <2>2 DEF Goto, TypesTypeOK
    <3> QED BY <1>1, <2>1, <2>2, <3>1 DEF ThreadOK, Holds, Sharing, Counting, Adding
  <2>3. CASE handles = "half" /\ Goto(t, "put")
    <3>1. pc'[t] = "put"
      BY <1>1, <2>3 DEF Goto, TypesTypeOK
    <3> QED BY <1>1, <2>1, <2>3, <3>1 DEF ThreadOK, Holds, Sharing, Counting, Adding
  <2> QED BY <1>2, <2>2, <2>3 DEF Read
<1>3. CASE Bump(t)
  <2>1. /\ UNCHANGED live /\ pc'[t] = "store" /\ statbuf' = statbuf + 1 /\ id'[t] = statbuf + 1
        /\ statbuf = live.stats.type /\ handles = "open"
    BY <1>1, <1>3 DEF Bump, Goto, TypesTypeOK, ThreadOK, Holds
  <2> QED BY <1>1, <2>1 DEF ThreadOK, Holds, Sharing, Counting, Adding
<1>4. CASE Store(t)
  <2>1. /\ pc'[t] = "put" /\ id' = id /\ statbuf = live.stats.type + 1 /\ id[t] = statbuf
        /\ handles = "open" /\ live' = Counted
    BY <1>1, <1>4 DEF Store, Goto, TypesTypeOK, ThreadOK, Holds
  <2>2. live \in Tables /\ live.stats \in Stats /\ live.types \in TypeTable /\ Sound(live)
    BY <2>1, Opened
  <2>3. live'.stats.type = statbuf /\ live'.types = live.types
    BY <2>1, <2>2 DEF Counted, Tables, Stats
  <2>4. statbuf \in 1..MaxTypes
    BY <1>1, <2>1, <2>2, StorageOK DEF Stats, StorageTypeOK
  <2>5. live.types[statbuf] = None
    BY <2>1, <2>2, <2>4, StorageOK DEF Sound, Stats
  <2>6. Indexed(name[t], live') = {}
    BY <1>1, <2>1, <2>3 DEF Indexed
  <2> QED BY <1>1, <2>1, <2>3, <2>4, <2>5, <2>6 DEF ThreadOK, Holds, Sharing, Counting, Adding
<1> QED BY <1>2, <1>3, <1>4

\* ... the record it stores,
LEMMA PutSelf ==
  ASSUME Base, Sane, NEW t \in Threads, Put(t)
  PROVE  ThreadOK(t)'
<1> DEFINE e == [name |-> name[t], id |-> id[t]]
<1>1. /\ TypesTypeOK /\ ThreadOK(t) /\ ~ Idle(t) /\ name[t] \in Names /\ Work(t)
      /\ e \in Entry /\ Shared(t, e)
  BY DEF Base, Sane, TypeOK, ThreadsOK, Put, Add, ThreadOK, Holds, Sharing, Idle, Work, TypesTypeOK, Entry
<1>2. ASSUME t # Main
      PROVE  id[t] \in 1..MaxTypes /\ live'.types[id[t]] = name[t]
  <2>1. handles = "open"
    BY <1>1, <1>2, AtWork
  <2>2. id[t] \in 1..MaxTypes /\ Indexed(name[t], live) = {}
    BY <1>1, <2>1 DEF Put, ThreadOK, Holds, Counting, Adding
  <2>3. live' = [live EXCEPT !.types[id[t]] = name[t]]
    BY <2>1, <2>2 DEF Put, PutType, Sane
  <2> QED BY <2>1, <2>2, <2>3, Opened DEF Tables, TypeTable
<1> QED BY <1>1, <1>2, SharedOK

\* ... and what it does with its game.
LEMMA GameSelf ==
  ASSUME Base, Sane, NEW t \in Threads,
         Save(t) \/ SyncGame(t) \/ Load(t) \/ Resolve(t) \/ Fetch(t) \/ Walk(t)
  PROVE  ThreadOK(t)'
<1>1. /\ TypesTypeOK /\ ThreadOK(t) /\ Work(t)
      /\ t # Main /\ handles = "open"
  <2>1. Work(t) /\ ThreadOK(t) /\ ~ Idle(t) /\ t # Main
    BY DEF Base, Sane, ThreadsOK, ThreadOK, Holds, Save, SyncGame, Load, Resolve, Fetch, Walk, Idle, Work
  <2> QED BY <2>1, AtWork DEF Base, Sane, TypeOK
<1>2. Done(t) => ThreadOK(t)'
  BY <1>1, DoneOK
<1>3. CASE Save(t) /\ ~ Done(t)
  <2>1. pc'[t] = "sync" /\ game'[t] = Unused /\ Unused \in GameIds
    BY <1>1, <1>3 DEF Save, Goto, Unused, TypesTypeOK
  <2> QED BY <1>1, <2>1 DEF ThreadOK, Holds, Sharing, Counting, Adding
<1>4. CASE SyncGame(t) /\ ~ Done(t)
  <2>1. pc'[t] = "load" /\ game'[t] = game[t] /\ game[t] \in GameIds
    BY <1>1, <1>4 DEF SyncGame, Goto, TypesTypeOK
  <2> QED BY <1>1, <2>1 DEF ThreadOK, Holds, Sharing, Counting, Adding
<1>5. CASE Load(t) /\ ~ Done(t)
  <2>1. /\ pc'[t] = "resolve" /\ id'[t] = live.games[game[t]] /\ live.games[game[t]] # None
        /\ game[t] \in GameIds /\ UNCHANGED live
    <3>1. game[t] \in GameIds
      BY <1>1, <1>5 DEF Load, ThreadOK, Holds
    <3>2. live.games[game[t]] # None => live.games[game[t]] \in 0..MaxTypes
      BY <1>1, <3>1, Opened DEF GameTable
    <3> QED BY <1>1, <1>5, <3>1, <3>2 DEF Load, Goto, TypesTypeOK, storage
  <2>2. id'[t] \in 1..MaxTypes /\ live'.types[id'[t]] # None
    BY <1>1, <2>1, Opened DEF Sound, GameTable
  <2> QED BY <1>1, <2>1, <2>2 DEF ThreadOK, Holds, Sharing, Counting, Adding
<1>6. CASE Resolve(t) /\ ~ Played(t)
  <2>1. /\ pc'[t] = "fetch" /\ id'[t] = id[t] /\ UNCHANGED <<live, list>> /\ alloc' = Grown
        /\ id[t] \in 1..MaxTypes /\ live.types[id[t]] # None /\ ById(id[t]) = {}
    BY <1>1, <1>6 DEF Resolve, Goto, TypesTypeOK, ThreadOK, Holds, storage
  <2>2. Len(list') < alloc' /\ ById(id[t])' = {}
    BY <1>1, <2>1, GrownTypes DEF Base, Sane, Roomy, ById
  <2> QED BY <1>1, <2>1, <2>2 DEF ThreadOK, Holds, Sharing, Counting, Adding
<1>7. CASE Fetch(t) \/ Played(t)
  BY <1>1, <1>7, PlayedOK DEF Fetch
<1>8. CASE Walk(t) /\ ~ Done(t)
  <2>1. pc'[t] = "walk"
    BY <1>1, <1>8 DEF Walk
  <2> QED BY <1>1, <2>1 DEF ThreadOK, Holds, Sharing, Counting, Adding
<1> QED BY <1>2, <1>3, <1>4, <1>5, <1>6, <1>7, <1>8

\* A thread that waits keeps what it knows while another goes on.
LEMMA WorkOthers ==
  ASSUME Base, Sane, NEW t \in Threads, Work(t), NEW s \in Threads, s # t
  PROVE  ThreadOK(s)'
<1>1. /\ pc'[s] = pc[s] /\ name'[s] = name[s] /\ id'[s] = id[s] /\ game'[s] = game[s]
      /\ UNCHANGED defs /\ ThreadOK(s) /\ ~ Idle(t)
  BY WorkHandles DEF Base, Sane, ThreadsOK
<1>2. CASE Idle(s)
  BY <1>1, <1>2, IdleOK DEF Idle
<1>3. CASE ~ Idle(s)
  <2>1. /\ proc \in {"serving", "stopping"} /\ width > 1 /\ handles = "open"
        /\ pc[s] \notin Counting \cup {"fetch"}
    BY <1>1, <1>3, Together
  <2>2. /\ UNCHANGED <<list, statbuf>> /\ live'.types = live.types /\ live'.stats = live.stats
    BY <2>1, WideQuiet
  <2>3. alloc' >= alloc /\ alloc \in Nat /\ alloc' \in Nat /\ Len(list) \in Nat
    <3>1. alloc' = alloc \/ alloc' = Grown
      BY DEF Work, Search, Lookup, Read, Bump, Store, Put, Save, SyncGame, Load, Resolve, Fetch, Walk,
             Loaded, array
    <3> QED BY <3>1, WorkRoomy, GrownTypes DEF Base, Sane, TypeOK, TypesTypeOK
  <2>4. pc[s] \in Adding => Len(list') < alloc'
    BY <1>1, <2>2, <2>3 DEF ThreadOK, Holds
  <2>5. ByName(name[s])' = ByName(name[s])
    BY <1>1, <2>2 DEF ByName
  <2> QED BY <1>1, <2>1, <2>2, <2>4, <2>5 DEF ThreadOK, Holds, Counting, Adding
<1> QED BY <1>2, <1>3

\* Nobody has anything to add to the array: what remains is to move it.
LEMMA WideRoom ==
  ASSUME Base, Sane, NEW t \in Threads, Work(t),
         proc \in {"serving", "stopping"}, width > 1, handles = "open", alloc' # alloc
  PROVE  t \in Workers /\ Misses(t) /\ Len(list) < alloc'
<1>1. /\ t \in Workers /\ ThreadOK(t) /\ TypesTypeOK /\ Len(list) <= alloc
      /\ pc[t] \notin Counting \cup {"fetch"}
  <2>1. t \in Workers
    BY AtWork, WorkHandles
  <2> QED BY <2>1 DEF Base, Sane, TypeOK, ThreadsOK, WideOK, Roomy
<1>2. CASE Search(t)
  <2>1. ByName(name[t]) = {} /\ alloc' = Grown /\ pc[t] = "search"
    BY <1>2 DEF Search
  <2>2. Len(list) >= alloc /\ Len(list) \in Nat /\ alloc \in Nat
    BY <1>1, <2>1 DEF Grown, TypesTypeOK
  <2> QED BY <1>1, <2>1, <2>2, GrownTypes DEF Misses
<1>3. Resolve(t) => UNCHANGED alloc
  BY <1>1, WideAll DEF Resolve, ThreadOK, Holds
<1>4. Walk(t) => UNCHANGED alloc
  BY WideAll DEF Walk, Loaded, array
<1>5. Fetch(t) => FALSE
  BY <1>1 DEF Fetch
<1> QED BY <1>2, <1>3, <1>4, <1>5
        DEF Work, Lookup, Read, Bump, Store, Put, Save, SyncGame, Load, array

\* The process keeps up with the disk whether its tables were open or not.
LEMMA WorkCountsOK ==
  ASSUME Base, NEW t \in Threads, Work(t), pc[t] = "put" /\ handles = "open" => ~ OnDisk(id[t])
  PROVE  CountsOK'
<1>1. CASE handles = "open"
  BY <1>1, WorkCounts
<1>2. CASE handles # "open" /\ handles' = "open"
  <2>1. live' = file /\ UNCHANGED file /\ Complete(file) /\ file \in Tables
    BY <1>2, WorkHandles DEF Lookup, OpenDbs, Base, TypeOK, StorageTypeOK
  <2>2. file.stats.type \in Nat
    BY <2>1, Full, StorageOK DEF Stats
  <2> QED BY <2>1, <2>2 DEF CountsOK
<1> QED BY <1>1, <1>2 DEF CountsOK

\* A step of a thread on a file that is not torn.
LEMMA WorkSane ==
  ASSUME Base, Sane, NEW t \in Threads, Work(t), UNCHANGED life
  PROVE  Base' /\ Sane'
<1>1. ThreadOK(t)'
  BY SearchSelf, LookupSelf, CountSelf, PutSelf, GameSelf DEF Work
<1>2. ThreadsOK'
  BY <1>1, WorkOthers DEF ThreadsOK
<1>3. AllHold'
  BY <1>2 DEF ThreadsOK, ThreadOK, AllHold
<1>4. CountsOK'
  <2>1. pc[t] = "put" /\ handles = "open" => ~ OnDisk(id[t])
    BY DEF Sane, ThreadsOK, ThreadOK, Holds, TablesOK, OnDisk
  <2> QED BY <2>1, WorkCountsOK
<1>5. torn' = FALSE
  BY WorkHandles, StorageOK DEF Sane, Base, TypeOK, StorageTypeOK
<1> QED BY <1>2, <1>3, <1>4, <1>5, WorkTypes, WorkPhase, WorkFileOK, WorkTablesOK, WorkWideOK,
           WorkListIsTheTable, WorkRoomy DEF Base, Sane

\* On a torn file nobody else is at work.
LEMMA OnlyOne ==
  ASSUME Base, Alone, NEW t \in Threads, ~ Idle(t), NEW s \in Threads, s # t
  PROVE  Idle(s)
<1>1. SUFFICES ASSUME ~ Idle(s) PROVE FALSE
  OBVIOUS
<1>2. s # Main /\ t # Main
  BY <1>1, AtWork DEF Base, PhaseOK, Threads
<1>3. /\ s \in 1..MaxWidth /\ t \in 1..MaxWidth /\ s <= width /\ t <= width /\ width = 1
  BY <1>1, <1>2, AtWork, LifeOK DEF Alone
<1> QED BY <1>3, LifeOK

\* A thread without a type in its hands.
Free(l) == l \in {"idle", "sync", "walk"}

\* A thread that is done, or on its way to sync, holds nothing.
LEMMA FreeHolds ==
  ASSUME TypesTypeOK, NEW t \in Threads
  PROVE  /\ Done(t) => Holds(t)'
         /\ t # Main /\ Played(t) => Holds(t)'
         /\ \A l : t # Main /\ Free(l) /\ Goto(t, l) => Holds(t)'
         /\ pc'[t] = "idle" => Holds(t)'
BY DoneOK, PlayedOK, IdleOK DEF ThreadOK, Holds, Goto, TypesTypeOK, Free, Sharing, Counting, Adding

\* A thread that got its type and will save a game of it.
LEMMA SharedHolds ==
  ASSUME TypesTypeOK, NEW t \in Threads, NEW e \in Entry, Shared(t, e), name[t] \in Names,
         t # Main => e.id \in 1..MaxTypes
  PROVE  Holds(t)'
<1>1. CASE t = Main
  BY <1>1, FreeHolds DEF Shared
<1>2. CASE t # Main
  <2>1. pc'[t] = "save" /\ id'[t] = e.id /\ name'[t] = name[t]
    BY <1>2 DEF Shared, Goto, TypesTypeOK
  <2> QED BY <1>2, <2>1 DEF Holds, Sharing, Counting, Adding
<1> QED BY <1>1, <1>2

\* What a thread holds after its own step, on a torn file: in the list or the table,
LEMMA FindHolds ==
  ASSUME Base, Alone, NEW t \in Threads, Search(t) \/ Lookup(t)
  PROVE  Holds(t)'
<1>1. /\ TypesTypeOK /\ StorageTypeOK /\ Holds(t) /\ Work(t) /\ ~ Idle(t) /\ name[t] \in Names
      /\ Len(list) <= alloc /\ (t # Main => handles = "open")
  <2>1. /\ TypesTypeOK /\ StorageTypeOK /\ Holds(t) /\ Work(t) /\ ~ Idle(t) /\ Len(list) <= alloc
    BY DEF Base, TypeOK, AllHold, Roomy, Search, Lookup, Work, Idle
  <2> QED BY <2>1, AtWork DEF Holds, Search, Lookup, Sharing
<1>2. CASE Search(t)
  <2>1. ASSUME NEW i \in ByName(name[t]), Shared(t, list[i])
        PROVE  Holds(t)'
    <3>1. i \in DOMAIN list /\ list[i] \in Entry
      BY <1>1 DEF ByName, TypesTypeOK
    <3> QED BY <1>1, <2>1, <3>1, SharedHolds DEF Alone
  <2>2. CASE alloc' = Grown /\ Goto(t, "lookup") /\ UNCHANGED <<name, id, game>>
    <3>1. pc'[t] = "lookup" /\ name'[t] = name[t] /\ Len(list') < alloc'
      BY <1>1, <1>2, <2>2, GrownTypes DEF Goto, TypesTypeOK, Search
    <3> QED BY <1>1, <3>1 DEF Holds, Sharing, Counting, Adding
  <2> QED BY <1>2, <2>1, <2>2 DEF Search
<1>3. CASE Lookup(t)
  <2>1. PICK e \in Got(name[t]) : IF e = None THEN NotStored(t) ELSE Add(t, e)
    BY <1>3 DEF Lookup
  <2>2. handles' # "closed" /\ UNCHANGED alloc /\ Len(list) < alloc
    BY <1>1, <1>3 DEF Lookup, OpenDbs, Holds, Adding
  <2>3. CASE e = None
    <3>1. CASE Goto(t, "read") /\ UNCHANGED <<name, id, game>>
      <4>1. pc'[t] = "read" /\ name'[t] = name[t] /\ UNCHANGED list
        BY <1>1, <2>1, <2>3, <3>1 DEF Goto, TypesTypeOK, NotStored
      <4> QED BY <1>1, <2>2, <4>1 DEF Holds, Sharing, Counting, Adding
    <3> QED BY <1>1, <2>1, <2>3, <3>1, FreeHolds DEF NotStored, Failed
  <2>4. CASE e # None
    <3>1. e \in Entry /\ Shared(t, e)
      BY <1>1, <2>1, <2>4, GotTypes DEF Add
    <3>2. handles = "open" => e.id \in 1..MaxTypes
      BY <2>4 DEF Got, Leads, Indexed
    <3> QED BY <1>1, <3>1, <3>2, SharedHolds
  <2> QED BY <2>3, <2>4
<1> QED BY <1>2, <1>3

\* ... while it draws its id and stores its record,
LEMMA CountHolds ==
  ASSUME Base, Alone, NEW t \in Threads, Read(t) \/ Bump(t) \/ Store(t) \/ Put(t)
  PROVE  /\ Holds(t)'
         /\ pc'[t] = "put" /\ handles' = "open" => file'.stats.type < id'[t]
<1>1. /\ TypesTypeOK /\ StorageTypeOK /\ Holds(t) /\ name[t] \in Names /\ Len(list) < alloc
      /\ handles # "closed" /\ UNCHANGED <<file, handles, alloc>> /\ (t # Main => handles = "open")
  <2>1. /\ TypesTypeOK /\ StorageTypeOK /\ Holds(t) /\ ~ Idle(t)
    BY DEF Base, TypeOK, AllHold, Read, Bump, Store, Put, Idle
  <2>2. pc[t] \in Counting /\ pc[t] \in Adding /\ pc[t] \in Sharing
    BY DEF Read, Bump, Store, Put, Counting, Adding, Sharing
  <2>3. UNCHANGED <<file, handles, alloc>>
    BY DEF Read, Bump, Store, Put, array
  <2> QED BY <2>1, <2>2, <2>3, AtWork DEF Holds
<1>2. CASE Read(t)
  <2>1. UNCHANGED <<live, list, name>>
    BY <1>2 DEF Read, array
  <2>2. CASE handles = "open" /\ statbuf' = live.stats.type /\ Goto(t, "bump")
    <3>1. pc'[t] = "bump" /\ statbuf' = live'.stats.type
      BY <1>1, <2>1, <2>2 DEF Goto, TypesTypeOK
    <3> QED BY <1>1, <2>1, <2>2, <3>1 DEF Holds, Sharing, Counting, Adding
  <2>3. CASE handles = "half" /\ Goto(t, "put")
    <3>1. pc'[t] = "put"
      BY <1>1, <2>3 DEF Goto, TypesTypeOK
    <3> QED BY <1>1, <2>1, <2>3, <3>1 DEF Holds, Sharing, Counting, Adding
  <2> QED BY <1>2, <2>2, <2>3 DEF Read
<1>3. CASE Bump(t)
  <2>1. /\ UNCHANGED <<live, list, name>> /\ pc'[t] = "store" /\ statbuf' = statbuf + 1
        /\ id'[t] = statbuf + 1 /\ statbuf = live.stats.type /\ handles = "open"
    BY <1>1, <1>3 DEF Bump, Goto, TypesTypeOK, Holds, array
  <2> QED BY <1>1, <2>1 DEF Holds, Sharing, Counting, Adding
<1>4. CASE Store(t)
  <2>1. /\ pc'[t] = "put" /\ id' = id /\ statbuf = live.stats.type + 1 /\ id[t] = statbuf
        /\ handles = "open" /\ UNCHANGED <<list, name>> /\ id[t] \in 0..MaxTypes
    BY <1>1, <1>4 DEF Store, Goto, TypesTypeOK, Holds, array
  <2>2. live.stats \in Stats /\ file.stats \in Stats /\ file.stats.type <= live.stats.type
    BY <1>1, <2>1, Full DEF StorageTypeOK, Base, CountsOK
  <2>3. id[t] \in 1..MaxTypes /\ file.stats.type < id[t]
    BY <2>1, <2>2, StorageOK DEF Stats
  <2> QED BY <1>1, <2>1, <2>3 DEF Holds, Sharing, Counting, Adding
<1>5. CASE Put(t)
  <2> DEFINE e == [name |-> name[t], id |-> id[t]]
  <2>1. e \in Entry /\ Shared(t, e) /\ (t # Main => e.id \in 1..MaxTypes)
    BY <1>1, <1>5 DEF Put, Add, Entry, TypesTypeOK, Holds
  <2>2. pc'[t] # "put"
    BY <1>1, <2>1 DEF Shared, Done, Goto, TypesTypeOK
  <2> QED BY <1>1, <2>1, <2>2, SharedHolds
<1> QED BY <1>2, <1>3, <1>4, <1>5

\* ... and with its game.
LEMMA GameHolds ==
  ASSUME Base, NEW t \in Threads,
         Save(t) \/ SyncGame(t) \/ Load(t) \/ Resolve(t) \/ Fetch(t) \/ Walk(t)
  PROVE  Holds(t)'
<1>1. /\ TypesTypeOK /\ StorageTypeOK /\ Holds(t) /\ t # Main /\ handles = "open"
  <2>1. /\ TypesTypeOK /\ StorageTypeOK /\ Holds(t) /\ ~ Idle(t)
    BY DEF Base, TypeOK, AllHold, Save, SyncGame, Load, Resolve, Fetch, Walk, Idle
  <2>2. t # Main
    BY <2>1 DEF Holds, Save, SyncGame, Load, Resolve, Fetch, Walk
  <2> QED BY <2>1, <2>2, AtWork
<1>2. CASE Save(t)
  <2>1. Goto(t, "sync") \/ Done(t)
    BY <1>2 DEF Save
  <2> QED BY <1>1, <2>1, FreeHolds DEF Free
<1>3. CASE SyncGame(t)
  <2>1. ASSUME game[t] # None, Goto(t, "load"), UNCHANGED game
        PROVE  Holds(t)'
    <3>1. pc'[t] = "load" /\ game'[t] \in GameIds
      BY <1>1, <2>1 DEF Goto, TypesTypeOK
    <3> QED BY <1>1, <3>1 DEF Holds, Sharing, Counting, Adding
  <2> QED BY <1>1, <1>3, <2>1, FreeHolds DEF SyncGame
<1>4. CASE Load(t)
  <2>1. ASSUME ~ Done(t)
        PROVE  Holds(t)'
    <3>1. game[t] \in GameIds
      BY <1>1, <1>4 DEF Load, Holds
    <3>2. live.games[game[t]] # None /\ id' = [id EXCEPT ![t] = live.games[game[t]]] /\ Goto(t, "resolve")
      BY <1>4, <2>1 DEF Load
    <3>3. live.games[game[t]] \in 1..MaxTypes
      BY <1>1, <3>1, <3>2, Full DEF StorageTypeOK, GameTable
    <3>4. pc'[t] = "resolve" /\ id'[t] \in 1..MaxTypes
      BY <1>1, <3>2, <3>3 DEF Goto, TypesTypeOK
    <3> QED BY <1>1, <3>4 DEF Holds, Sharing, Counting, Adding
  <2> QED BY <1>1, <2>1, FreeHolds
<1>5. CASE Resolve(t)
  <2>1. ASSUME ~ Played(t)
        PROVE  Holds(t)'
    <3>1. /\ pc'[t] = "fetch" /\ id'[t] = id[t] /\ UNCHANGED list /\ alloc' = Grown
          /\ id[t] \in 1..MaxTypes
      BY <1>1, <1>5, <2>1 DEF Resolve, Goto, TypesTypeOK, Holds
    <3>2. Len(list') < alloc'
      BY <1>1, <3>1, GrownTypes DEF Base, Roomy
    <3> QED BY <1>1, <3>1, <3>2 DEF Holds, Sharing, Counting, Adding
  <2> QED BY <1>1, <2>1, FreeHolds
<1>6. CASE Fetch(t)
  BY <1>1, <1>6, FreeHolds DEF Fetch
<1>7. CASE Walk(t)
  <2>1. ASSUME ~ Done(t)
        PROVE  Holds(t)'
    <3>1. pc' = pc /\ pc[t] = "walk"
      BY <1>7, <2>1 DEF Walk
    <3> QED BY <1>1, <3>1 DEF Holds, Sharing, Counting, Adding
  <2> QED BY <1>1, <2>1, FreeHolds
<1> QED BY <1>2, <1>3, <1>4, <1>5, <1>6, <1>7

\* An entry that joins the list has an id.
LEMMA AloneList ==
  ASSUME Base, Alone, NEW t \in Threads, Work(t), handles' = "open", NEW i \in DOMAIN list'
  PROVE  list'[i].id \in 1..MaxTypes
<1>1. /\ TypesTypeOK /\ StorageTypeOK /\ Holds(t) /\ list \in Seq(Entry)
  BY DEF Base, TypeOK, AllHold, TypesTypeOK
<1>2. \A k \in DOMAIN list : list[k].id \in 1..MaxTypes
  <2>1. handles = "open" \/ handles = "closed"
    BY <1>1, WorkHandles DEF StorageTypeOK
  <2>2. handles = "closed" => list = <<>>
    BY DEF Base, PhaseOK
  <2> QED BY <2>1, <2>2 DEF Alone
<1>3. ASSUME NEW e, list' = Append(list, e), e.id \in 1..MaxTypes
      PROVE  list'[i].id \in 1..MaxTypes
  <2>1. (i \in DOMAIN list /\ list'[i] = list[i]) \/ list'[i] = e
    BY <1>1, <1>3
  <2> QED BY <1>2, <1>3, <2>1
<1>4. UNCHANGED list => list'[i].id \in 1..MaxTypes
  BY <1>2
<1>5. CASE Lookup(t)
  <2>1. PICK e \in Got(name[t]) : IF e = None THEN NotStored(t) ELSE Add(t, e)
    BY <1>5 DEF Lookup
  <2>2. handles # "half"
    BY <1>5 DEF Lookup, OpenDbs
  <2>3. e # None => e.id \in 1..MaxTypes
    BY <2>1, <2>2 DEF Got, Leads, Indexed
  <2> QED BY <1>3, <1>4, <2>1, <2>3 DEF NotStored, Add
<1>6. CASE Put(t)
  <2>1. id[t] \in 1..MaxTypes /\ list' = Append(list, [name |-> name[t], id |-> id[t]])
    BY <1>1, <1>6 DEF Put, Add, Holds
  <2> QED BY <1>3, <2>1
<1>7. CASE Fetch(t)
  <2>1. id[t] \in 1..MaxTypes /\ list' = Append(list, TypeLoad(id[t]))
    BY <1>1, <1>7 DEF Fetch, Holds
  <2> QED BY <1>3, <2>1 DEF TypeLoad
<1>8. CASE Walk(t)
  <2>1. UNCHANGED list \/ \E k \in 1..MaxTypes : list' = Append(list, TypeLoad(k))
    BY <1>8 DEF Walk, Loaded, array
  <2> QED BY <1>3, <1>4, <2>1 DEF TypeLoad
<1> QED BY <1>4, <1>5, <1>6, <1>7, <1>8
        DEF Work, Search, Read, Bump, Store, Save, SyncGame, Load, Resolve, array

\* A step of the one thread at work on a torn file.
LEMMA WorkAlone ==
  ASSUME Base, Alone, NEW t \in Threads, Work(t), UNCHANGED life
  PROVE  Base' /\ Alone'
<1>1. ~ Idle(t) /\ torn' = TRUE /\ TypesTypeOK
  BY WorkHandles DEF Alone, Base, TypeOK, StorageTypeOK
<1>2. \A s \in Threads : s # t => pc'[s] = "idle"
  BY <1>1, OnlyOne, WorkHandles DEF Idle
<1>3. AllHold'
  <2>1. Holds(t)'
    BY FindHolds, CountHolds, GameHolds DEF Work
  <2> QED BY <1>1, <1>2, <2>1, FreeHolds DEF AllHold
<1>4. CountsOK'
  <2>1. pc[t] = "put" /\ handles = "open" => ~ OnDisk(id[t])
    <3>1. SUFFICES ASSUME pc[t] = "put", handles = "open" PROVE ~ OnDisk(id[t])
      OBVIOUS
    <3>2. file.stats.type < id[t] /\ file.stats.type \in Nat /\ id[t] \in Nat
      BY <1>1, <3>1, Full, StorageOK DEF Alone, Base, TypeOK, StorageTypeOK, Stats, TypesTypeOK
    <3> QED BY <3>2 DEF OnDisk
  <2> QED BY <2>1, WorkCountsOK
<1>5. Alone'
  <2>1. pc'[t] = "put" /\ handles' = "open" => file'.stats.type < id'[t]
    <3>1. Read(t) \/ Bump(t) \/ Store(t) \/ Put(t) \/ pc'[t] # "put"
      <4>1. Done(t) \/ Played(t) => pc'[t] # "put"
        BY <1>1 DEF Done, Played, Goto, TypesTypeOK
      <4>2. \A e : Shared(t, e) => pc'[t] # "put"
        BY <1>1, <4>1 DEF Shared, Goto, TypesTypeOK
      <4>3. \A l : l # "put" /\ Goto(t, l) => pc'[t] # "put"
        BY <1>1 DEF Goto, TypesTypeOK
      <4>4. Search(t) \/ Lookup(t) => pc'[t] # "put"
        BY <4>1, <4>2, <4>3 DEF Search, Lookup, NotStored, Failed, Add
      <4>5. Save(t) \/ SyncGame(t) \/ Load(t) \/ Resolve(t) \/ Fetch(t) \/ Walk(t) => pc'[t] # "put"
        BY <4>1, <4>3 DEF Save, SyncGame, Load, Resolve, Fetch, Walk
      <4> QED BY <4>4, <4>5 DEF Work
    <3> QED BY <3>1, CountHolds
  <2>2. \A s \in Threads : pc'[s] = "put" /\ handles' = "open" => file'.stats.type < id'[s]
    BY <1>2, <2>1
  <2>3. proc' \in {"starting", "serving", "stopping"} => width' = 1
    BY DEF Alone, life
  <2> QED BY <1>1, <2>2, <2>3, AloneList DEF Alone
<1> QED BY <1>3, <1>4, <1>5, WorkTypes, WorkPhase, WorkFileOK, WorkRoomy DEF Base

\* A step of a thread keeps the invariant.
LEMMA WorkInvariant ==
  ASSUME IInv, NEW t \in Threads, Work(t), UNCHANGED life
  PROVE  IInv'
BY WorkSane, WorkAlone DEF IInv

(***************************************************************************)
(* The steps of the programs themselves.                                   *)
(***************************************************************************)
\* Nothing is known where nobody is at work.
LEMMA AllIdleOK ==
  ASSUME \A t \in Threads : pc'[t] = "idle"
  PROVE  ThreadsOK' /\ AllHold'
BY IdleOK DEF ThreadsOK, ThreadOK, AllHold

\* What holds of any file when neither the tables nor the list change,
LEMMA DataSame ==
  ASSUME Base, UNCHANGED <<storage, array>>
  PROVE  /\ StorageTypeOK' /\ CountsOK' /\ Roomy'
         /\ \A n : ByName(n)' = ByName(n)
<1>1. StorageTypeOK'
  BY StorageSame DEF Base, TypeOK
<1>2. UNCHANGED <<file, live, handles, list, alloc>>
  BY DEF storage, array
<1>3. CountsOK'
  BY <1>2 DEF Base, CountsOK, OnDisk
<1>4. Roomy' /\ \A n : ByName(n)' = ByName(n)
  BY <1>2 DEF Base, Roomy, ByName
<1> QED BY <1>1, <1>3, <1>4

\* ... of one that is not torn,
LEMMA SaneSame ==
  ASSUME Sane, UNCHANGED <<storage, array, born>>, defs \subseteq defs'
  PROVE  ~ torn' /\ TablesOK' /\ ListIsTheTable'
<1>1. UNCHANGED <<file, live, handles, list, alloc, torn>>
  BY DEF storage, array
<1>2. ASSUME NEW T, Sound(T)
      PROVE  /\ \A i \in 1..MaxTypes : T.types[i] # None => i <= T.stats.type /\ T.types[i] \in defs'
             /\ \A i, j \in 1..MaxTypes : T.types[i] = T.types[j] /\ T.types[i] # None => i = j
             /\ \A g \in GameIds : T.games[g] # None => born'[g] # None /\ T.types[T.games[g]] = born'[g]
  BY <1>2 DEF Sound
<1>3. Sound(file) => Sound(file)'
  BY <1>1, <1>2 DEF Sound
<1>4. Sound(live) => Sound(live)'
  BY <1>1, <1>2 DEF Sound
<1>5. TablesOK'
  BY <1>1, <1>3, <1>4 DEF Sane, TablesOK, Complete
<1>6. ListIsTheTable'
  BY <1>1 DEF Sane, ListIsTheTable
<1> QED BY <1>1, <1>5, <1>6 DEF Sane

\* ... and of one that is torn.
LEMMA AloneSame ==
  ASSUME Alone, UNCHANGED <<storage, array>>,
         proc' \in {"starting", "serving", "stopping"} => width' = 1,
         \A t \in Threads : pc'[t] = "put" => pc[t] = "put" /\ id'[t] = id[t]
  PROVE  Alone'
<1>1. UNCHANGED <<file, handles, list, torn>>
  BY DEF storage, array
<1> QED BY <1>1 DEF Alone

\* A torn file that nobody has open.
LEMMA AloneClosed ==
  ASSUME torn', handles' = "closed", proc' \in {"starting", "serving", "stopping"} => width' = 1
  PROVE  Alone'
BY DEF Alone

\* What the threads hold and know does not change either.
LEMMA ThreadsSame ==
  ASSUME Base, UNCHANGED <<storage, array, frames>>, defs \subseteq defs'
  PROVE  AllHold' /\ (ThreadsOK => ThreadsOK') /\ (AllIdle => AllIdle')
<1>1. UNCHANGED <<file, live, handles, statbuf, list, alloc, pc, name, id, game>>
  BY DEF storage, array, frames
<1>2. ASSUME NEW t \in Threads, Holds(t)
      PROVE  Holds(t)'
  BY <1>1, <1>2 DEF Holds
<1>3. ASSUME NEW t \in Threads, ThreadOK(t)
      PROVE  ThreadOK(t)'
  <2>1. ByName(name[t])' = ByName(name[t]) /\ ById(id[t])' = ById(id[t])
    BY <1>1 DEF ByName, ById
  <2> QED BY <1>1, <1>2, <1>3, <2>1 DEF ThreadOK
<1> QED BY <1>1, <1>2, <1>3 DEF Base, AllHold, ThreadsOK, AllIdle, Idle

\* Nobody is at work in a process that is down or makes its file.
LEMMA Quiet ==
  ASSUME Base, proc \in {"down", "creating"}
  PROVE  /\ handles = "closed" /\ AllIdle /\ todo = {} /\ list = <<>>
         /\ \A t \in Threads : pc[t] = "idle"
BY DEF Base, PhaseOK, AllIdle, Idle

\* init_db begins on a file without tables.
LEMMA CreateInvariant ==
  ASSUME IInv, Create
  PROVE  IInv'
<1>1. /\ UNCHANGED <<storage, array, born, frames, defs, todo, width>>
      /\ proc = "down" /\ proc' = "creating" /\ made' = 0 /\ file = NoTables
  BY DEF Create, IInv, Base, FileOK
<1>2. /\ StorageTypeOK' /\ CountsOK' /\ Roomy' /\ AllHold' /\ AllIdle'
      /\ UNCHANGED <<file, handles, list, pc, torn>>
  BY <1>1, DataSame, ThreadsSame, Quiet DEF IInv, storage, array, frames
<1>3. TypeOK'
  BY <1>1, <1>2 DEF IInv, Base, TypeOK, TypesTypeOK, array, frames, InitOrder
<1>4. PhaseOK'
  BY <1>1, <1>2, Quiet, GameTypesOK DEF IInv, PhaseOK, AllIdle, Idle, Threads
<1>5. FileOK'
  <2>1. file' = NoTables
    BY <1>1, <1>2
  <2>2. file' = [t \in DOMAIN Made |->
                   IF \E i \in 1..made' : InitOrder[i] = t THEN Made[t] ELSE Absent]
    <3>1. 1..made' = {}
      BY <1>1
    <3> QED BY <2>1, <3>1 DEF NoTables
  <2>3. \A g \in GameIds : ~ Stored(file', g)
    BY <2>1, MadeTables DEF Stored, NoTables
  <2> QED BY <2>1, <2>2, <2>3 DEF FileOK, Stored
<1>6. Base'
  BY <1>2, <1>3, <1>4, <1>5 DEF Base
<1>7. Sane => Sane'
  <2>1. WideOK'
    BY <1>1 DEF WideOK
  <2> QED BY <1>1, <2>1, SaneSame, ThreadsSame DEF IInv, Sane
<1>8. Alone => Alone'
  BY <1>1, <1>2, Quiet, AloneClosed DEF IInv, Alone
<1> QED BY <1>6, <1>7, <1>8 DEF IInv

\* One more table, empty.
LEMMA MakeTableInvariant ==
  ASSUME IInv, MakeTable
  PROVE  IInv'
<1>1. /\ proc = "creating" /\ proc' = "creating" /\ made \in 0..4 /\ made' = made + 1
      /\ UNCHANGED <<live, handles, statbuf, torn, array, defs, frames, todo, born, width>>
      /\ file \in Tables
  BY DEF MakeTable, IInv, Base, TypeOK, InitOrder, StorageTypeOK
<1>2. UNCHANGED <<list, alloc, pc, name, id, game>>
  BY <1>1 DEF array, frames
<1>3. /\ handles = "closed" /\ AllIdle /\ todo = {} /\ list = <<>>
      /\ \A t \in Threads : pc[t] = "idle"
  BY <1>1, Quiet DEF IInv
<1> DEFINE x == InitOrder[made + 1]
<1>4. /\ file' = [file EXCEPT ![x] = Made[x]] /\ x \in DOMAIN Made
      /\ \A i \in 1..made + 1 : i \in 1..made \/ i = made + 1
  <2>1. made + 1 \in 1..5
    BY <1>1
  <2>2. x \in {"users", "games", "types", "stats", "sess"}
    BY <2>1 DEF InitOrder
  <2> QED BY <1>1, <2>2, MadeTables DEF MakeTable
<1>5. file = [t \in DOMAIN Made |-> IF \E i \in 1..made : InitOrder[i] = t THEN Made[t] ELSE Absent]
  BY <1>1 DEF IInv, Base, FileOK
<1>6. file' = [t \in DOMAIN Made |-> IF \E i \in 1..made' : InitOrder[i] = t THEN Made[t] ELSE Absent]
  <2>1. \A t : (\E i \in 1..made' : InitOrder[i] = t) <=> t = x \/ \E i \in 1..made : InitOrder[i] = t
    BY <1>1, <1>4
  <2> QED BY <1>4, <1>5, <2>1
<1>7. /\ DOMAIN file' = {"users", "games", "types", "stats", "sess"}
      /\ \A t \in DOMAIN Made : file'[t] \in {Made[t], Absent}
  BY <1>6, MadeTables
<1>8. /\ file'.users \in {Made.users, Absent} /\ file'.games \in {Made.games, Absent}
      /\ file'.types \in {Made.types, Absent} /\ file'.stats \in {Made.stats, Absent}
      /\ file'.sess \in {Made.sess, Absent}
  BY <1>7, MadeTables
<1>9. file' \in Tables
  <2>1. \A T \in Tables : /\ [T EXCEPT !["users"] = Made["users"]] \in Tables
                          /\ [T EXCEPT !["games"] = Made["games"]] \in Tables
                          /\ [T EXCEPT !["types"] = Made["types"]] \in Tables
                          /\ [T EXCEPT !["stats"] = Made["stats"]] \in Tables
                          /\ [T EXCEPT !["sess"] = Made["sess"]] \in Tables
    BY MadeTables DEF Tables
  <2> QED BY <1>1, <1>4, <2>1, MadeTables
<1>10. TypeOK'
  BY <1>1, <1>2, <1>3, <1>9 DEF IInv, Base, TypeOK, StorageTypeOK, TypesTypeOK, InitOrder
<1>11. file'.users = Made.users
  <2>1. \E i \in 1..made' : InitOrder[i] = "users"
    <3>1. 1 \in 1..made' /\ InitOrder[1] = "users"
      BY <1>1 DEF InitOrder
    <3> QED BY <3>1
  <2> QED BY <1>6, <2>1, MadeTables
<1>12. FileOK'
  <2>1. file'.users # Absent
    BY <1>11, MadeTables, AbsentOK
  <2>2. \A g \in GameIds : ~ Stored(file', g)
    BY <1>8 DEF Stored, Made
  <2> QED BY <1>6, <2>1, <2>2 DEF FileOK, Stored
<1>13. TablesOK'
  <2>1. SUFFICES ASSUME Complete(file') PROVE Sound(file)'
    BY <1>1, <1>3 DEF TablesOK, Complete
  <2>2. file'.types = Made.types /\ file'.games = Made.games
    BY <1>8, <2>1, MadeTables DEF Complete
  <2>3. (\A i \in 1..MaxTypes : file'.types[i] = None) /\ (\A g \in GameIds : file'.games[g] = None)
    BY <2>2 DEF Made
  <2> QED BY <2>3 DEF Sound
<1>14. ThreadsOK' /\ AllHold'
  BY <1>2, <1>3, AllIdleOK
<1>15. PhaseOK' /\ WideOK' /\ ListIsTheTable' /\ Roomy' /\ CountsOK'
  BY <1>1, <1>2, <1>3, GameTypesOK
     DEF IInv, Base, PhaseOK, AllIdle, Idle, Threads, WideOK, ListIsTheTable, Roomy, CountsOK
<1>16. Alone => Alone'
  BY <1>1, <1>3, AloneClosed DEF Alone
<1> QED BY <1>1, <1>10, <1>12, <1>13, <1>14, <1>15, <1>16 DEF IInv, Base, Sane

\* A new user changes nothing but the table of users and its counter.
LEMMA NewUserTables ==
  ASSUME file \in Tables, Complete(file), NEW c \in Codes, NewUser(c)
  PROVE  /\ file' \in Tables /\ Complete(file') /\ file'.users # Absent
         /\ file'.types = file.types /\ file'.games = file.games
         /\ file'.stats.type = file.stats.type
<1>1. /\ file.users \in UserTable /\ file.stats \in Stats
      /\ UserNextId \in 1..MaxUsers
  BY Full, StorageOK DEF NewUser, UserNextId, Stats
<1> DEFINE u == UserNextId
           us == [file.users EXCEPT ![u] = c]
           st == [file.stats EXCEPT !.user = u]
           stored == [file EXCEPT !.users = us]
<1>2. us \in UserTable /\ st \in Stats /\ st.type = file.stats.type
  BY <1>1 DEF UserTable, Stats
<1>3. file' = stored \/ file' = [stored EXCEPT !.stats = st]
  BY DEF NewUser, Tables
<1> HIDE DEF u, us, st
<1>4. /\ stored.users = us /\ stored.stats = file.stats /\ stored.games = file.games
      /\ stored.types = file.types
  BY DEF Tables
<1>5. stored \in Tables /\ Complete(stored)
  BY <1>2, Replaced
<1> HIDE DEF stored
<1>6. CASE file' = stored
  BY <1>2, <1>4, <1>5, <1>6, AbsentOK
<1>7. CASE file' = [stored EXCEPT !.stats = st]
  <2>1. file' \in Tables /\ Complete(file')
    BY <1>2, <1>5, <1>7, Replaced
  <2>2. /\ file'.users = us /\ file'.stats = st /\ file'.games = stored.games
        /\ file'.types = stored.types
    BY <1>4, <1>5, <1>7 DEF Tables
  <2> QED BY <1>2, <1>4, <2>1, <2>2, AbsentOK
<1> QED BY <1>3, <1>6, <1>7

\* The tool stores a user and is gone,
LEMMA UserInvariant ==
  ASSUME IInv, NEW c \in Codes, NewUser(c), Complete(file),
         proc \in {"down", "creating"}, proc' = "down",
         UNCHANGED <<live, handles, statbuf, torn, array, defs, frames, todo, born, made, width>>
  PROVE  IInv'
<1>1. UNCHANGED <<list, alloc, pc, name, id, game>>
  BY DEF array, frames
<1>2. /\ handles = "closed" /\ AllIdle /\ todo = {} /\ list = <<>>
      /\ \A t \in Threads : pc[t] = "idle"
  BY Quiet DEF IInv
<1>3. file \in Tables
  BY DEF IInv, Base, TypeOK, StorageTypeOK
<1>4. /\ file' \in Tables /\ Complete(file') /\ file'.users # Absent
      /\ file'.types = file.types /\ file'.games = file.games
      /\ file'.stats.type = file.stats.type
  BY <1>3, NewUserTables
<1>5. TypeOK'
  BY <1>1, <1>2, <1>4 DEF IInv, Base, TypeOK, StorageTypeOK, TypesTypeOK
<1>6. FileOK'
  BY <1>4 DEF FileOK, Complete, Stored
<1>7. TablesOK => TablesOK'
  BY <1>2, <1>4 DEF TablesOK, Sound, Complete
<1>8. ThreadsOK' /\ AllHold'
  BY <1>1, <1>2, AllIdleOK
<1>9. PhaseOK' /\ WideOK' /\ ListIsTheTable' /\ Roomy' /\ CountsOK'
  BY <1>1, <1>2, GameTypesOK
     DEF IInv, Base, PhaseOK, AllIdle, Idle, Threads, WideOK, ListIsTheTable, Roomy, CountsOK
<1>10. Alone => Alone'
  BY <1>2, AloneClosed DEF Alone
<1> QED BY <1>5, <1>6, <1>7, <1>8, <1>9, <1>10 DEF IInv, Base, Sane

\* ... the first one once all tables are there,
LEMMA MakeRootInvariant ==
  ASSUME IInv, MakeRoot
  PROVE  IInv'
<1>1. Complete(file)
  <2>1. /\ made = 5 /\ file = [t \in DOMAIN Made |->
              IF \E i \in 1..made : InitOrder[i] = t THEN Made[t] ELSE Absent]
    BY DEF MakeRoot, InitOrder, IInv, Base, FileOK
  <2>2. \A t \in DOMAIN Made : \E i \in 1..made : InitOrder[i] = t
    <3>1. /\ 1 \in 1..made /\ 2 \in 1..made /\ 3 \in 1..made /\ 4 \in 1..made /\ 5 \in 1..made
      BY <2>1
    <3>2. /\ InitOrder[1] = "users" /\ InitOrder[2] = "games" /\ InitOrder[3] = "types"
          /\ InitOrder[4] = "stats" /\ InitOrder[5] = "sess"
      BY DEF InitOrder
    <3> QED BY <3>1, <3>2, MadeTables
  <2>3. \A t \in DOMAIN Made : file[t] = Made[t]
    BY <2>1, <2>2
  <2> QED BY <2>3, MadeTables, AbsentOK DEF Complete
<1> QED BY <1>1, UserInvariant, StorageOK DEF MakeRoot

\* ... or another in a complete file.
LEMMA AddUserInvariant ==
  ASSUME IInv, NEW c \in Codes, AddUser(c)
  PROVE  IInv'
BY UserInvariant DEF AddUser, life

\* A definition that is put there while several workers run would break WideOK.
LEMMA DefineInvariant ==
  ASSUME IInv, Careful, NEW n \in Names, Define(n)
  PROVE  IInv'
<1>1. /\ UNCHANGED <<storage, array, born, frames, todo, life>>
      /\ UNCHANGED <<file, live, handles, list, alloc, pc, name, id, game, proc, made, width, torn>>
      /\ defs' = defs \cup {n}
  BY DEF Define, storage, array, frames, life
<1>2. StorageTypeOK' /\ CountsOK' /\ Roomy' /\ AllHold' /\ (ThreadsOK => ThreadsOK')
  BY <1>1, DataSame, ThreadsSame DEF IInv
<1>3. TypeOK'
  BY <1>1, <1>2 DEF IInv, Base, TypeOK, TypesTypeOK
<1>4. PhaseOK'
  BY <1>1 DEF IInv, Base, PhaseOK, AllIdle, Idle
<1>5. FileOK'
  BY <1>1 DEF IInv, Base, FileOK, Complete, Stored
<1>6. Sane => Sane'
  <2>1. WideOK'
    BY <1>1 DEF Define, WideOK
  <2> QED BY <1>1, <1>2, <2>1, SaneSame DEF Sane
<1>7. Alone => Alone'
  BY <1>1, AloneSame DEF Alone
<1> QED BY <1>2, <1>3, <1>4, <1>5, <1>6, <1>7 DEF IInv, Base

\* The daemon starts with all its definitions to read; several workers with good ones only.
LEMMA StartInvariant ==
  ASSUME IInv, Careful, NEW w \in Workers, Start(w)
  PROVE  IInv'
<1>1. /\ UNCHANGED <<storage, array, born, frames, defs, made>>
      /\ UNCHANGED <<file, live, handles, list, alloc, pc, name, id, game, torn>>
      /\ proc = "down" /\ proc' = "starting" /\ width' = w /\ todo' = defs
      /\ w = 1 \/ (defs \cap Broken = {} /\ ~ torn)
  BY DEF Start, storage, array, frames
<1>2. StorageTypeOK' /\ CountsOK' /\ Roomy' /\ AllHold' /\ (ThreadsOK => ThreadsOK')
  BY <1>1, DataSame, ThreadsSame DEF IInv
<1>3. handles = "closed" /\ list = <<>> /\ \A t \in Threads : pc[t] = "idle"
  BY <1>1, Quiet DEF IInv
<1>4. TypeOK'
  BY <1>1, <1>2 DEF IInv, Base, TypeOK, TypesTypeOK
<1>5. PhaseOK'
  BY <1>1, <1>3 DEF PhaseOK, AllIdle, Idle, Threads
<1>6. FileOK'
  BY <1>1 DEF IInv, Base, FileOK, Complete, Stored
<1>7. Sane => Sane'
  <2>1. width' > 1 => defs \cap Broken = {}
    BY <1>1, LifeOK
  <2>2. \A v \in Workers : pc'[v] = "idle"
    BY <1>1, <1>3 DEF Threads
  <2>3. WideOK'
    BY <1>1, <2>1, <2>2 DEF WideOK, Counting, Adding
  <2> QED BY <1>1, <1>2, <2>3, SaneSame DEF Sane
<1>8. Alone => Alone'
  BY <1>1, <1>3, AloneClosed DEF Alone
<1> QED BY <1>2, <1>4, <1>5, <1>6, <1>7, <1>8 DEF IInv, Base

\* The main thread takes the next definition.
LEMMA DiscoverInvariant ==
  ASSUME IInv, NEW n \in Names, Discover(n)
  PROVE  IInv'
<1>1. /\ UNCHANGED <<storage, array, born, defs, life>>
      /\ UNCHANGED <<file, live, handles, statbuf, list, alloc, id, game, proc, made, width, torn>>
      /\ proc = "starting" /\ n \in todo /\ todo' = todo \ {n} /\ pc[Main] = "idle"
      /\ Goto(Main, "search") /\ name' = [name EXCEPT ![Main] = n]
      /\ Main \in Threads /\ Main \notin Workers
      /\ FramesOK /\ TypesTypeOK
  BY GameTypesOK DEF Discover, storage, array, life, Threads, Idle, IInv, Base, TypeOK, TypesTypeOK, FramesOK
<1>2. StorageTypeOK' /\ CountsOK' /\ Roomy' /\ \A m : ByName(m)' = ByName(m)
  BY <1>1, DataSame DEF IInv
<1>3. /\ pc'[Main] = "search" /\ name'[Main] = n
      /\ \A s \in Threads : s # Main => pc'[s] = pc[s] /\ name'[s] = name[s]
      /\ \A w \in Workers : pc'[w] = "idle"
  BY <1>1 DEF Goto, FramesOK, IInv, Base, PhaseOK, Idle, Threads
<1>4. TypeOK'
  <2>1. pc' \in [Threads -> Places] /\ name' \in [Threads -> Names \cup {None}]
    BY <1>1, GotoTypes, FrameTypes DEF Places
  <2> QED BY <1>1, <1>2, <2>1 DEF IInv, Base, TypeOK, TypesTypeOK
<1>5. PhaseOK'
  BY <1>1, <1>3 DEF IInv, Base, PhaseOK, Idle
<1>6. FileOK'
  BY <1>1 DEF IInv, Base, FileOK, Complete, Stored
<1>7. ThreadsOK' /\ AllHold'
  <2>1. ThreadOK(Main)'
    <3>1. n \in defs /\ n \in Names
      BY <1>1 DEF IInv, Base, PhaseOK
    <3> QED BY <1>1, <1>3, <3>1 DEF ThreadOK, Holds, Sharing, Counting, Adding
  <2>2. \A w \in Workers : ThreadOK(w)'
    BY <1>3, IdleOK DEF Threads
  <2> QED BY <2>1, <2>2 DEF ThreadsOK, ThreadOK, AllHold, Threads
<1>8. Sane => Sane'
  <2>1. \A w \in Workers : pc'[w] \notin Counting \cup {"fetch"} /\ pc'[w] # "lookup"
    BY <1>3 DEF Counting, Adding
  <2>2. ASSUME Sane
        PROVE  WideOK'
    <3>1. SUFFICES ASSUME width > 1
                   PROVE  /\ defs' \cap Broken = {}
                          /\ handles' # "half" =>
                               \A m \in defs' : \/ m \in todo' \/ ByName(m)' # {}
                                                \/ pc'[Main] \in Sharing /\ name'[Main] = m
      BY <1>1, <2>1 DEF WideOK
    <3> QED BY <1>1, <1>2, <1>3, <2>2, <3>1 DEF Sane, WideOK, Sharing
  <2> QED BY <1>1, <1>7, <2>2, SaneSame DEF Sane
<1>9. Alone => Alone'
  <2>1. \A s \in Threads : pc'[s] = "put" => pc[s] = "put" /\ id'[s] = id[s]
    BY <1>1, <1>3
  <2> QED BY <1>1, <2>1, AloneSame DEF Alone
<1> QED BY <1>2, <1>4, <1>5, <1>6, <1>7, <1>8, <1>9 DEF IInv, Base

\* The daemon begins to serve, or to stop.
LEMMA ServeInvariant ==
  ASSUME IInv, Serve \/ Stop
  PROVE  IInv'
<1>1. /\ UNCHANGED <<storage, array, born, frames, defs, todo, made, width>>
      /\ UNCHANGED <<file, live, handles, list, alloc, pc, name, id, game>>
      /\ proc \in {"starting", "serving"} /\ proc' \in {"serving", "stopping"}
      /\ todo = {} /\ Idle(Main)
  BY DEF Serve, Stop, storage, array, frames, IInv, Base, PhaseOK
<1>2. /\ StorageTypeOK' /\ CountsOK' /\ Roomy' /\ AllHold' /\ (ThreadsOK => ThreadsOK')
      /\ \A n : ByName(n)' = ByName(n)
  BY <1>1, DataSame, ThreadsSame DEF IInv
<1>3. TypeOK'
  BY <1>1, <1>2 DEF IInv, Base, TypeOK, TypesTypeOK
<1>4. PhaseOK'
  BY <1>1 DEF IInv, Base, PhaseOK, AllIdle, Idle
<1>5. FileOK'
  BY <1>1 DEF IInv, Base, FileOK, Complete, Stored
<1>6. Sane => Sane'
  <2>1. ASSUME Sane
        PROVE  WideOK'
    BY <1>1, <1>2, <2>1 DEF Sane, WideOK
  <2> QED BY <1>1, <1>2, <2>1, SaneSame DEF Sane
<1>7. Alone => Alone'
  BY <1>1, AloneSame DEF Alone
<1> QED BY <1>2, <1>3, <1>4, <1>5, <1>6, <1>7 DEF IInv, Base

\* A request that comes in: nobody is at work, or the tables are open already.
LEMMA RequestInvariant ==
  ASSUME IInv, NEW t \in Workers, Receive(t),
         NEW l \in {"search", "load", "walk", "sync"}, Goto(t, l), UNCHANGED id,
         \/ l = "search" /\ (\E n \in Names : name' = [name EXCEPT ![t] = n]) /\ UNCHANGED game
         \/ l = "load" /\ (\E g \in GameIds : game' = [game EXCEPT ![t] = g]) /\ UNCHANGED name
         \/ l \in {"walk", "sync"} /\ UNCHANGED <<name, game>>
  PROVE  IInv'
<1>1. /\ UNCHANGED <<file, statbuf, torn, list, alloc, defs, todo, born, proc, made, width>>
      /\ proc = "serving" /\ t <= width /\ pc[t] = "idle"
      /\ handles' = "open" /\ Complete(file)
      /\ \/ handles = "open" /\ UNCHANGED live
         \/ handles = "closed" /\ live' = file
      /\ t \in Threads /\ t # Main
  <2>1. Usable /\ OpenDbs /\ UNCHANGED <<file, statbuf, torn, array, defs, todo, born, life>>
    BY DEF Receive
  <2>2. handles = "open" => Complete(file)
    BY DEF IInv, Base, TypeOK, StorageTypeOK
  <2> QED BY <2>1, <2>2, GameTypesOK DEF Receive, Accepting, Idle, Usable, OpenDbs, array, life, Threads
<1>2. /\ pc \in [Threads -> Places] /\ name \in [Threads -> Names \cup {None}]
      /\ game \in [Threads -> GameIds \cup {None}] /\ StorageTypeOK /\ TypesTypeOK
  BY DEF IInv, Base, TypeOK, TypesTypeOK
<1>3. /\ pc'[t] = l
      /\ l = "search" => name'[t] \in Names
      /\ l = "load" => game'[t] \in GameIds
      /\ \A s \in Threads : s # t => pc'[s] = pc[s] /\ name'[s] = name[s]
                                     /\ id'[s] = id[s] /\ game'[s] = game[s]
  BY <1>1, <1>2 DEF Goto
<1>4. handles = "closed" => list = <<>> /\ \A s \in Threads : pc[s] = "idle"
  BY <1>1 DEF IInv, Base, PhaseOK, Idle, Threads
<1>5. TypeOK'
  <2>1. live' \in Tables /\ Complete(live')
    BY <1>1, <1>2 DEF StorageTypeOK
  <2>2. /\ pc' \in [Threads -> Places] /\ name' \in [Threads -> Names \cup {None}]
        /\ game' \in [Threads -> GameIds \cup {None}]
    <3>1. l \in Places
      BY DEF Places
    <3> QED BY <1>1, <1>2, <3>1, GotoTypes, FrameTypes
  <2>3. StorageTypeOK'
    BY <1>1, <1>2, <2>1 DEF StorageTypeOK, Complete
  <2> QED BY <1>1, <1>2, <2>2, <2>3 DEF IInv, Base, TypeOK, TypesTypeOK
<1>6. PhaseOK'
  BY <1>1, <1>3 DEF IInv, Base, PhaseOK, AllIdle, Idle, Threads
<1>7. FileOK'
  BY <1>1 DEF IInv, Base, FileOK, Complete, Stored
<1>8. CountsOK' /\ Roomy'
  <2>1. file \in Tables /\ Complete(file)
    BY <1>1, <1>2 DEF StorageTypeOK
  <2>2. file.stats.type \in Nat
    BY <2>1, Full, StorageOK DEF Stats
  <2> QED BY <1>1, <2>2 DEF IInv, Base, CountsOK, OnDisk, Roomy
<1>9. AllHold'
  <2>1. Holds(t)'
    BY <1>1, <1>3 DEF Holds, Sharing, Counting, Adding
  <2>2. ASSUME NEW s \in Threads, s # t, pc[s] # "idle"
        PROVE  Holds(s)'
    BY <1>1, <1>3, <1>4, <2>2 DEF Holds, IInv, Base, AllHold
  <2>3. \A s \in Threads : s # t /\ pc[s] = "idle" => Holds(s)'
    BY <1>3 DEF Holds, Sharing, Counting, Adding
  <2> QED BY <2>1, <2>2, <2>3 DEF AllHold
<1>10. Base'
  BY <1>5, <1>6, <1>7, <1>8, <1>9 DEF Base
<1>11. ASSUME Sane
       PROVE  Sane'
  <2>1. TablesOK'
    <3>1. Sound(file)'
      BY <1>1, <1>11 DEF Sane, TablesOK, Sound
    <3>2. Sound(live)' /\ \A i \in 1..MaxTypes : file'.types[i] # None => live'.types[i] = file'.types[i]
      BY <1>1, <1>11 DEF Sane, TablesOK, Sound
    <3> QED BY <3>1, <3>2 DEF TablesOK
  <2>2. ListIsTheTable'
    BY <1>1, <1>4, <1>11 DEF Sane, ListIsTheTable
  <2>3. ThreadsOK'
    <3>1. ThreadOK(t)'
      BY <1>1, <1>3 DEF ThreadOK, Holds, Sharing, Counting, Adding
    <3>2. ASSUME NEW s \in Threads, s # t
          PROVE  ThreadOK(s)'
      <4>1. CASE pc[s] = "idle"
        BY <1>3, <3>2, <4>1, IdleOK
      <4>2. CASE pc[s] # "idle"
        <5>1. handles = "open" /\ UNCHANGED live
          BY <1>1, <1>4, <4>2
        <5>2. ByName(name[s])' = ByName(name[s]) /\ ById(id[s])' = ById(id[s])
          BY <1>1, <1>3, <3>2 DEF ByName, ById
        <5>3. ThreadOK(s)
          BY <1>11 DEF Sane, ThreadsOK
        <5> QED BY <1>1, <1>3, <3>2, <5>1, <5>2, <5>3 DEF ThreadOK, Holds
      <4> QED BY <4>1, <4>2
    <3> QED BY <3>1, <3>2 DEF ThreadsOK
  <2>4. WideOK'
    <3>1. SUFFICES ASSUME width > 1
                   PROVE  /\ defs' \cap Broken = {}
                          /\ \A m \in defs' : ByName(m)' # {}
                          /\ \A w \in Workers : /\ pc'[w] \notin Counting \cup {"fetch"}
                                                /\ pc'[w] = "lookup" => name'[w] \notin defs'
      BY <1>1 DEF WideOK
    <3>2. \A m \in defs : ByName(m) # {}
      BY <1>1, <1>11, <3>1 DEF IInv, Base, Sane, WideOK, PhaseOK, Idle, Sharing
    <3>3. \A m \in defs : ByName(m)' # {}
      BY <1>1, <3>2 DEF ByName
    <3>4. l \notin Counting \cup {"fetch", "lookup"}
      BY DEF Counting, Adding
    <3> QED BY <1>1, <1>3, <1>11, <3>1, <3>3, <3>4 DEF Sane, WideOK, Threads
  <2> QED BY <1>1, <1>11, <2>1, <2>2, <2>3, <2>4 DEF Sane
<1>12. ASSUME Alone
       PROVE  Alone'
  <2>1. \A s \in Threads : pc'[s] = "put" => handles = "open" /\ pc[s] = "put" /\ id'[s] = id[s]
    BY <1>1, <1>3, <1>4
  <2> QED BY <1>1, <1>4, <1>12, <2>1 DEF Alone
<1> QED BY <1>10, <1>11, <1>12 DEF IInv

\* The end of a process leaves the file as it was, or a complete one.
LEMMA GoneBase ==
  ASSUME Base, Gone, NoHandles, file' \in Tables, torn' \in BOOLEAN,
         UNCHANGED file \/ Complete(file')
  PROVE  Base' /\ ThreadsOK' /\ WideOK' /\ ListIsTheTable'
<1>1. /\ proc' = "down" /\ list' = <<>> /\ alloc' = 0 /\ todo' = {}
      /\ UNCHANGED <<defs, born, made, width>>
      /\ pc' = [t \in Threads |-> "idle"] /\ \A t \in Threads : pc'[t] = "idle"
      /\ handles' = "closed" /\ live' = NoTables /\ statbuf' = 0
  BY DEF Gone, NoHandles
<1>2. TypeOK'
  <2>1. StorageTypeOK'
    BY <1>1, EmptyTables, StorageOK DEF StorageTypeOK
  <2>2. TypesTypeOK'
    BY <1>1, StorageOK DEF Gone, TypesTypeOK, Base, TypeOK, Places
  <2> QED BY <1>1, <2>1, <2>2 DEF Base, TypeOK
<1>3. PhaseOK'
  BY <1>1, GameTypesOK DEF PhaseOK, AllIdle, Idle, Threads
<1>4. FileOK'
  <2>1. CASE UNCHANGED file
    BY <1>1, <2>1 DEF Base, FileOK, Complete, Stored
  <2>2. CASE Complete(file')
    <3>1. file'.users # Absent
      BY <2>2, MadeTables DEF Complete
    <3> QED BY <1>1, <2>2, <3>1 DEF FileOK, Complete
  <2> QED BY <2>1, <2>2
<1>5. ThreadsOK' /\ AllHold'
  BY <1>1, AllIdleOK
<1>6. WideOK' /\ ListIsTheTable' /\ Roomy' /\ CountsOK'
  BY <1>1 DEF WideOK, ListIsTheTable, Roomy, CountsOK
<1> QED BY <1>2, <1>3, <1>4, <1>5, <1>6 DEF Base

\* A file that was not torn, and is not now.
LEMMA GoneTables ==
  ASSUME Base, Sane, Gone, NoHandles, UNCHANGED file \/ (handles = "open" /\ file' = live)
  PROVE  TablesOK'
<1>1. UNCHANGED <<defs, born>> /\ handles' = "closed"
  BY DEF Gone, NoHandles
<1>2. CASE UNCHANGED file
  BY <1>1, <1>2 DEF Sane, TablesOK, Complete, Sound
<1>3. CASE handles = "open" /\ file' = live
  <2>1. Sound(live)
    BY <1>3, Opened
  <2> QED BY <1>1, <1>3, <2>1 DEF TablesOK, Sound
<1> QED BY <1>2, <1>3

\* What a kill within a flush may leave on the disk.
LEMMA PartlyTables ==
  ASSUME StorageTypeOK, handles = "open", NEW n \in DOMAIN FlushOrder
  PROVE  /\ Partly(n) \in Tables /\ Complete(Partly(n))
         /\ Partly(n).types \in {file.types, live.types}
         /\ Partly(n).stats \in {file.stats, live.stats}
<1> DEFINE P == Partly(n)
<1>1. P = [t \in DOMAIN Made |-> IF \E i \in 1..n : FlushOrder[i] = t THEN live[t] ELSE file[t]]
  BY DEF Partly, Flushed
<1>2. /\ DOMAIN P = {"users", "games", "types", "stats", "sess"}
      /\ \A t \in DOMAIN Made : P[t] \in {live[t], file[t]}
  BY <1>1, MadeTables
<1>3. /\ P.users \in {live.users, file.users} /\ P.games \in {live.games, file.games}
      /\ P.types \in {live.types, file.types} /\ P.stats \in {live.stats, file.stats}
      /\ P.sess \in {live.sess, file.sess}
  BY <1>2, MadeTables
<1>4. live \in Tables /\ file \in Tables /\ Complete(live) /\ Complete(file)
  BY DEF StorageTypeOK
<1>5. Complete(P)
  BY <1>2, <1>4 DEF Complete
<1>6. P = [users |-> P.users, games |-> P.games, types |-> P.types, stats |-> P.stats, sess |-> P.sess]
  BY <1>1, MadeTables
<1> HIDE DEF P
<1>7. P \in Tables
  BY <1>3, <1>4, <1>6 DEF Tables
<1> QED BY <1>3, <1>5, <1>7 DEF P

\* The invariant holds before the first program runs.
LEMMA InitInvariant ==
  ASSUME Init
  PROVE  IInv
<1>1. /\ proc = "down" /\ made = 0 /\ width = 1 /\ file = NoTables /\ live = NoTables
      /\ handles = "closed" /\ statbuf = 0 /\ list = <<>> /\ alloc = 0 /\ defs = {} /\ todo = {}
      /\ \A t \in Threads : pc[t] = "idle"
      /\ torn = FALSE
  BY DEF Init, StorageInit, TypesInit
<1>2. TypeOK
  <2>1. torn \in BOOLEAN
    BY <1>1
  <2>2. StorageTypeOK
    BY <1>1, <2>1, EmptyTables, StorageOK DEF StorageTypeOK
  <2>3. TypesTypeOK
    BY <1>1, StorageOK DEF TypesTypeOK, Init, TypesInit, Places
  <2> QED BY <1>1, <2>2, <2>3, LifeOK DEF TypeOK, InitOrder
<1>3. PhaseOK /\ WideOK /\ ListIsTheTable /\ Roomy /\ CountsOK /\ ~ torn
  <2>1. Len(list) = 0
    BY <1>1
  <2>2. ListIsTheTable /\ Roomy /\ CountsOK /\ ~ torn /\ WideOK
    BY <1>1, <2>1 DEF ListIsTheTable, Roomy, CountsOK, WideOK
  <2> QED BY <1>1, <2>2, GameTypesOK DEF PhaseOK, AllIdle, Idle, Threads
<1>4. FileOK /\ TablesOK
  BY <1>1, EmptyTables, MadeTables DEF FileOK, TablesOK, Stored, NoTables
<1>5. ThreadsOK /\ AllHold
  BY <1>1 DEF ThreadsOK, AllHold, ThreadOK, Holds, Sharing, Counting, Adding
<1> QED BY <1>2, <1>3, <1>4, <1>5 DEF IInv, Base, Sane

\* A step that changes nothing keeps the invariant.
LEMMA StutterInvariant ==
  ASSUME IInv, UNCHANGED vars
  PROVE  IInv'
<1>1. /\ UNCHANGED <<storage, array, born, frames, defs, todo, life>>
      /\ UNCHANGED <<file, live, handles, list, alloc, pc, name, id, game, proc, made, width>>
  BY DEF vars, storage, array, frames, life
<1>2. /\ StorageTypeOK' /\ CountsOK' /\ Roomy' /\ AllHold' /\ (ThreadsOK => ThreadsOK')
      /\ \A n : ByName(n)' = ByName(n)
  BY <1>1, DataSame, ThreadsSame DEF IInv
<1>3. TypeOK' /\ PhaseOK' /\ FileOK'
  BY <1>1, <1>2 DEF IInv, Base, TypeOK, TypesTypeOK, PhaseOK, AllIdle, Idle, FileOK, Complete, Stored
<1>4. Sane => Sane'
  <2>1. WideOK => WideOK'
    BY <1>1, <1>2 DEF WideOK
  <2> QED BY <1>1, <1>2, <2>1, SaneSame DEF Sane
<1>5. Alone => Alone'
  BY <1>1, AloneSame DEF Alone
<1> QED BY <1>2, <1>3, <1>4, <1>5 DEF IInv, Base

\* So does any request that comes in.
LEMMA AskInvariant ==
  ASSUME IInv, Request
  PROVE  IInv'
<1>1. ASSUME NEW t \in Workers, NEW n \in Names, AskCrea(t, n)
      PROVE  IInv'
  BY <1>1, RequestInvariant DEF AskCrea
<1>2. ASSUME NEW t \in Workers, NEW g \in GameIds, AskGame(t, g)
      PROVE  IInv'
  BY <1>2, RequestInvariant DEF AskGame
<1>3. ASSUME NEW t \in Workers, AskLogin(t)
      PROVE  IInv'
  BY <1>3, RequestInvariant DEF AskLogin
<1>4. ASSUME NEW t \in Workers, AskTypes(t)
      PROVE  IInv'
  BY <1>4, RequestInvariant DEF AskTypes
<1> QED BY <1>1, <1>2, <1>3, <1>4 DEF Request

\* A process ends with its tables closed, or without, or while it flushes them.
LEMMA EndInvariant ==
  ASSUME IInv, Exit \/ Fault \/ Kill \/ KillInFlush
  PROVE  IInv'
<1>1. /\ StorageTypeOK /\ Gone /\ NoHandles
  BY DEF IInv, Base, TypeOK, Exit, Fault, Kill, KillInFlush, Close, Lose, Tear
<1>2. /\ file' \in Tables /\ torn' \in BOOLEAN
      /\ UNCHANGED file \/ Complete(file')
      /\ torn => torn'
      /\ ~ torn' => UNCHANGED file \/ (handles = "open" /\ file' = live)
  <2>1. CASE Exit \/ Fault \/ Kill
    <3>1. UNCHANGED torn /\ (UNCHANGED file \/ (handles = "open" /\ file' = live))
      BY <2>1 DEF Exit, Fault, Kill, Close, Lose, Sync, Flushed
    <3>2. handles = "open" /\ file' = live => Complete(file')
      BY <1>1 DEF StorageTypeOK
    <3> QED BY <1>1, <3>1, <3>2 DEF StorageTypeOK
  <2>2. CASE KillInFlush
    <3>1. PICK n \in DOMAIN FlushOrder : Tear(Partly(n))
      BY <2>2 DEF KillInFlush
    <3>2. handles = "open" /\ file' = Partly(n)
      BY <2>2, <3>1 DEF KillInFlush, Tear
    <3>3. file' \in Tables /\ Complete(file')
      BY <1>1, <3>2, PartlyTables
    <3> QED BY <1>1, <3>1, <3>2, <3>3 DEF Tear, StorageTypeOK
  <2> QED BY <2>1, <2>2
<1>3. Base' /\ ThreadsOK' /\ WideOK' /\ ListIsTheTable'
  BY <1>1, <1>2, GoneBase DEF IInv
<1>4. CASE torn'
  BY <1>1, <1>3, <1>4, AloneClosed DEF IInv, Gone, NoHandles
<1>5. CASE ~ torn'
  <2>1. Sane
    BY <1>2, <1>5 DEF IInv, Alone
  <2> QED BY <1>1, <1>2, <1>3, <1>5, <2>1, GoneTables DEF IInv, Sane
<1> QED BY <1>4, <1>5

\* The invariant is inductive.
LEMMA NextInvariant ==
  ASSUME Careful, IInv, [Next]_vars
  PROVE  IInv'
<1>1. ASSUME NEW t \in Threads, Step(t)
      PROVE  IInv'
  BY <1>1, WorkInvariant DEF Step
<1> QED BY <1>1, CreateInvariant, MakeTableInvariant, MakeRootInvariant, AddUserInvariant,
           DefineInvariant, StartInvariant, DiscoverInvariant, ServeInvariant, AskInvariant,
           EndInvariant, StutterInvariant DEF Next

(***************************************************************************)
(* Theorems.                                                               *)
(***************************************************************************)
\* The invariant holds in every reachable state of programs that are used with care: with
\* one worker, or with definitions that load and are all there at the start, on a file no
\* kill within a flush has torn.
THEOREM Invariance == ASSUME Careful PROVE Spec => []IInv
<1>1. Init => IInv
  BY InitInvariant
<1>2. IInv /\ [Next]_vars => IInv'
  BY NextInvariant
<1> QED BY <1>1, <1>2, PTL DEF Spec

\* Every variable of the two programs and of their file keeps its type, and open handles
\* are handles on a complete file.
THEOREM TypeCorrect == ASSUME Careful PROVE Spec => []TypeOK
<1>1. IInv => TypeOK
  BY DEF IInv, Base
<1> QED BY <1>1, Invariance, PTL

\* A game is played by the rules it was created with, over every restart, sync, definition
\* added in between and kill outside of a flush (src/game_types.c, src/dbmanager.c).
THEOREM RulesAreKept == ASSUME Careful PROVE Spec => []GameKeepsRules
<1>1. IInv => GameKeepsRules
  <2>1. SUFFICES ASSUME Base, Sane PROVE RulesKept(file) /\ (handles = "open" => RulesKept(live))
    BY DEF IInv, Alone, GameKeepsRules
  <2>2. RulesKept(file)
    <3>1. SUFFICES ASSUME NEW g \in GameIds, Stored(file, g)
                   PROVE  file.types[file.games[g]] = born[g]
      BY DEF RulesKept
    <3>2. Complete(file)
      BY <2>1, <3>1 DEF Base, FileOK
    <3> QED BY <2>1, <3>1, <3>2 DEF Sane, TablesOK, Sound, Stored
  <2>3. handles = "open" => RulesKept(live)
    BY <2>1, Opened DEF RulesKept, Sound, Stored
  <2> QED BY <2>2, <2>3
<1> QED BY <1>1, Invariance, PTL

\* On a file that is not torn each entry of game_types_lista is the record stored under its
\* id, and no id or name is there twice.
THEOREM ListAgrees == ASSUME Careful PROVE Spec => []ListIsTheTable
<1>1. IInv => ListIsTheTable
  BY DEF IInv, Sane, Alone, ListIsTheTable
<1> QED BY <1>1, Invariance, PTL

\* game_types_lista is never written past its end.
THEOREM ArrayHasRoom == ASSUME Careful PROVE Spec => []Roomy
<1>1. IInv => Roomy
  BY DEF IInv, Base
<1> QED BY <1>1, Invariance, PTL

\* The types the disk has, with their counter, stay in every step of a program.
LEMMA FileTypesGrow ==
  ASSUME Base, [Next]_vars, NEW i \in 1..MaxTypes, OnDisk(i)
  PROVE  OnDisk(i)' /\ file'.types[i] = file.types[i]
<1>1. CASE UNCHANGED file
  BY <1>1 DEF OnDisk
<1>2. ASSUME handles = "open", file'.types \in {file.types, live.types},
             file'.stats \in {file.stats, live.stats}
      PROVE  OnDisk(i)' /\ file'.types[i] = file.types[i]
  <2>1. /\ live.types = file.types \/ live.types[i] = file.types[i]
        /\ file.stats.type <= live.stats.type
    BY <1>2 DEF Base, CountsOK
  <2>2. live \in Tables /\ file \in Tables /\ Complete(live) /\ Complete(file)
    BY <1>2 DEF Base, TypeOK, StorageTypeOK
  <2>3. /\ live.types # Absent /\ live.stats # Absent
        /\ live.stats.type \in Nat /\ file.stats.type \in Nat
    BY <2>2, Full, MadeTables, StorageOK DEF Complete, Stats
  <2> QED BY <1>2, <2>1, <2>3 DEF OnDisk
<1>3. CASE MakeTable
  <2>1. file = [t \in DOMAIN Made |->
                  IF \E k \in 1..made : InitOrder[k] = t THEN Made[t] ELSE Absent]
    BY <1>3 DEF MakeTable, Base, FileOK
  <2>2. file.types = Made.types
    BY <2>1, MadeTables DEF OnDisk
  <2> QED BY <2>2 DEF Made, OnDisk
<1>4. CASE MakeRoot
  <2>1. file = [t \in DOMAIN Made |->
                  IF \E k \in 1..made : InitOrder[k] = t THEN Made[t] ELSE Absent]
    BY <1>4 DEF MakeRoot, Base, FileOK
  <2>2. file.types = Made.types
    BY <2>1, MadeTables DEF OnDisk
  <2> QED BY <2>2 DEF Made, OnDisk
<1>5. ASSUME NEW c \in Codes, AddUser(c)
      PROVE  OnDisk(i)' /\ file'.types[i] = file.types[i]
  <2>1. Complete(file) /\ NewUser(c) /\ file \in Tables
    BY <1>5 DEF AddUser, Base, TypeOK, StorageTypeOK
  <2>2. /\ Complete(file') /\ file' \in Tables
        /\ file'.types = file.types /\ file'.stats.type = file.stats.type
    BY <2>1, NewUserTables
  <2> QED BY <2>2, MadeTables DEF OnDisk, Complete
<1>6. ASSUME NEW t \in Threads, Step(t)
      PROVE  UNCHANGED file \/ (handles = "open" /\ file' = live)
  BY <1>6, WorkFile DEF Step
<1>7. Request => UNCHANGED file
  BY DEF Request, AskCrea, AskGame, AskLogin, AskTypes, Receive
<1>8. Exit \/ Fault \/ Kill => UNCHANGED file \/ (handles = "open" /\ file' = live)
  BY DEF Exit, Fault, Kill, Close, Lose, Sync, Flushed
<1>9. CASE KillInFlush
  <2>1. PICK n \in DOMAIN FlushOrder : file' = Partly(n)
    BY <1>9 DEF KillInFlush, Tear
  <2>2. handles = "open" /\ StorageTypeOK
    BY <1>9 DEF KillInFlush, Base, TypeOK
  <2> QED BY <1>2, <2>1, <2>2, PartlyTables
<1>10. /\ Create \/ Serve \/ Stop => UNCHANGED file
       /\ \A n \in Names : Define(n) \/ Discover(n) => UNCHANGED file
       /\ \A w \in Workers : Start(w) => UNCHANGED file
       /\ UNCHANGED vars => UNCHANGED file
  BY DEF Create, Serve, Stop, Define, Discover, Start, vars, storage
<1>11. CASE handles = "open" /\ file' = live
  BY <1>2, <1>11
<1> QED BY <1>1, <1>3, <1>4, <1>5, <1>6, <1>7, <1>8, <1>9, <1>10, <1>11 DEF Next

\* An id of the table of types that reached the disk with its counter is never given to
\* another name, by this process or a later one, whichever tables a kill within a flush
\* left behind.
THEOREM TypeIdsStay == ASSUME Careful PROVE Spec => TypeIdsAreForGood
<1>1. IInv /\ [Next]_vars =>
        [\A i \in 1..MaxTypes : OnDisk(i) => OnDisk(i)' /\ file'.types[i] = file.types[i]]_vars
  BY FileTypesGrow DEF IInv
<1> QED BY <1>1, Invariance, PTL DEF Spec, TypeIdsAreForGood

\* Nobody adds to the list of types of a server with several workers while it serves, and
\* the array is moved only by a search for a name that is no type, when it is full.
THEOREM ListKeepsItsEntries == ASSUME Careful PROVE Spec => ListIsStable
<1> DEFINE Stays == /\ list' = list
                    /\ alloc' # alloc => (\E t \in Workers : Misses(t)) /\ Len(list) < alloc'
<1>1. IInv /\ [Next]_vars =>
        [proc = "serving" /\ proc' = "serving" /\ width > 1 /\ handles = "open" => Stays]_vars
  <2>1. SUFFICES ASSUME IInv, Next, proc = "serving", proc' = "serving", width > 1, handles = "open"
                 PROVE  Stays
    BY DEF vars, array
  <2>2. Base /\ Sane
    BY <2>1 DEF IInv, Alone
  <2>3. ASSUME NEW t \in Threads, Step(t)
        PROVE  Stays
    BY <2>1, <2>2, <2>3, WideQuiet, WideRoom DEF Step
  <2>4. Request \/ (\E n \in Names : Define(n)) => UNCHANGED array
    BY DEF Request, AskCrea, AskGame, AskLogin, AskTypes, Receive, Define
  <2>5. /\ ~ Create /\ ~ MakeTable /\ ~ MakeRoot /\ ~ Serve /\ ~ Stop /\ ~ Exit /\ ~ Fault /\ ~ Kill
        /\ ~ KillInFlush
        /\ \A c \in Codes : ~ AddUser(c)
        /\ \A n \in Names : ~ Discover(n)
        /\ \A w \in Workers : ~ Start(w)
    BY <2>1 DEF Create, MakeTable, MakeRoot, Serve, Stop, Exit, Fault, Kill, KillInFlush, Gone,
                AddUser, Discover, Start
  <2> QED BY <2>1, <2>3, <2>4, <2>5 DEF Next, array
<1> QED BY <1>1, Invariance, PTL DEF Spec, ListIsStable
=============================================================================
