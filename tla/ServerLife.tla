----------------------------- MODULE ServerLife -----------------------------
(***************************************************************************)
(* The life of the two programs on one file: qgserver-tool makes it and    *)
(* adds users, qgserverd finds the definitions of games, starts its        *)
(* threads, serves, stops on SIGTERM or SIGINT, dies of SIGSEGV or is      *)
(* killed, and is started again.                                           *)
(***************************************************************************)
EXTENDS GameTypes

CONSTANTS MaxWidth,     \* bound on option -w
          Careful       \* with several workers all definitions load, new ones are
                        \* added between two runs of the daemon only, and no kill has
                        \* torn the file

VARIABLES proc,         \* the process that uses the file
          made,         \* tables init_db has made
          width         \* option -w, the number of threads

life == <<proc, made, width>>
vars == <<storage, array, defs, frames, todo, born, life>>

ASSUME LifeOK ==
  /\ MaxWidth \in Nat \ {0}
  /\ Workers = 1..MaxWidth
  /\ Careful \in BOOLEAN

TypeOK ==
  /\ StorageTypeOK /\ TypesTypeOK
  /\ proc \in {"down", "creating", "starting", "serving", "stopping"}
  /\ made \in 0..Len(InitOrder)
  /\ width \in Workers

Init ==
  /\ StorageInit /\ TypesInit
  /\ proc = "down" /\ made = 0 /\ width = 1

Idle(t) == pc[t] = "idle"
AllIdle == \A t \in Threads : Idle(t)

\* The memory of the process is gone, and its threads.
Gone ==
  /\ proc' = "down"
  /\ list' = <<>> /\ alloc' = 0 /\ todo' = {}
  /\ pc'   = [t \in Threads |-> "idle"]
  /\ name' = [t \in Threads |-> None]
  /\ id'   = [t \in Threads |-> 0]
  /\ game' = [t \in Threads |-> None]
  /\ UNCHANGED <<defs, born, made, width>>

(***************************************************************************)
(* qgserver-tool                                                           *)
(***************************************************************************)
\* -c: init_db refuses a file that has a table of users already.
Create ==
  /\ proc = "down" /\ file.users = Absent
  /\ proc' = "creating" /\ made' = 0
  /\ UNCHANGED <<storage, array, defs, frames, todo, born, width>>

\* The next table is made and its handle closed.
MakeTable ==
  /\ proc = "creating" /\ made < Len(InitOrder)
  /\ LET t == InitOrder[made + 1] IN file' = [file EXCEPT ![t] = Made[t]]
  /\ made' = made + 1
  /\ UNCHANGED <<live, handles, statbuf, torn, array, defs, frames, todo, born, proc, width>>

\* dbget_usernextid
UserNextId == file.stats.user + 1

\* user_save of a new user, then dbact_sync or dbact_close, which a kill may end between
\* the table and the counter: the next user gets the same id.
NewUser(code) ==
  LET u == UserNextId IN
  /\ u <= MaxUsers
  /\ \/ file' = [file EXCEPT !.users[u] = code, !.stats.user = u]
     \/ file' = [file EXCEPT !.users[u] = code]

MakeRoot ==
  /\ proc = "creating" /\ made = Len(InitOrder)
  /\ NewUser(Root)
  /\ proc' = "down"
  /\ UNCHANGED <<live, handles, statbuf, torn, array, defs, frames, todo, born, made, width>>

\* -u: a code that is there gets a new password only; a file that does not open is
\* left as it is.  A record the counter has not reached may be missing in the index.
AddUser(code) ==
  /\ proc = "down" /\ Complete(file)
  /\ \A u \in 1..file.stats.user : file.users[u] # code
  /\ NewUser(code)
  /\ UNCHANGED <<live, handles, statbuf, torn, array, defs, frames, todo, born, life>>

\* Bound: the counter has an id left for every definition that has none.
IdsLeft(names) ==
  LET tables == Seen IN
  Complete(tables) =>
    tables.stats.type + Cardinality({n \in names \ Broken : Indexed(n, tables) = {}}) <= MaxTypes

\* Somebody puts a definition into the directory of games.
Define(n) ==
  /\ n \in Names \ defs /\ IdsLeft(defs \cup {n})
  /\ Careful => proc \in {"down", "creating"} \/ width = 1
  /\ defs' = defs \cup {n}
  /\ UNCHANGED <<storage, array, frames, todo, born, life>>

(***************************************************************************)
(* qgserverd                                                               *)
(***************************************************************************)
\* Bound: a torn file is used again while its counter has ids left.
Fresh == torn => file.stats.type < MaxTypes

\* main: options, then init_webservice starts with game_type_discover.
Start(w) ==
  /\ proc = "down" /\ IdsLeft(defs) /\ Fresh
  /\ Careful => w = 1 \/ (defs \cap Broken = {} /\ ~ torn)
  /\ proc' = "starting" /\ width' = w
  /\ todo' = defs
  /\ UNCHANGED <<storage, array, defs, frames, born, made>>

\* The next entry of the directory, in any order.
Discover(n) ==
  /\ proc = "starting" /\ Idle(Main)
  /\ n \in todo
  /\ todo' = todo \ {n}
  /\ Goto(Main, "search")
  /\ name' = [name EXCEPT ![Main] = n]
  /\ UNCHANGED <<storage, array, defs, id, game, born, life>>

\* Mutant of Serve: the threads start before the definitions are known.
ServeM ==
  /\ proc = "starting" /\ Idle(Main)
  /\ proc' = "serving"
  /\ UNCHANGED <<storage, array, defs, frames, todo, born, made, width>>

\* game_type_discover returned, its result is ignored; mg_start.
Serve ==
  /\ proc = "starting" /\ Idle(Main) /\ todo = {}
  /\ proc' = "serving"
  /\ UNCHANGED <<storage, array, defs, frames, todo, born, made, width>>

Accepting == proc = "serving"

\* A request with a good session: routes_filter has used the tables.
Receive(t) ==
  /\ Accepting /\ t <= width /\ Idle(t)
  /\ Usable /\ OpenDbs
  /\ UNCHANGED <<file, statbuf, torn, array, defs, todo, born, life>>

\* Requests /crea under way that have not drawn their id yet.
Creating == {t \in Workers : pc[t] \in Sharing \cup {"save"}}

\* Bounds: with an index that is behind its table every /crea of a name it has lost adds
\* one more entry to the list; a torn file gets one game only.
Short == torn => Len(list) <= MaxTypes /\ \A g \in GameIds : born[g] = None

AskCrea(t, n) ==
  /\ Receive(t) /\ Short
  /\ Cardinality(Creating) < Cardinality({g \in GameIds : born[g] = None})
  /\ Goto(t, "search")
  /\ name' = [name EXCEPT ![t] = n]
  /\ UNCHANGED <<id, game>>

AskGame(t, g) ==
  /\ Receive(t)
  /\ born[g] # None
  /\ Goto(t, "load")
  /\ game' = [game EXCEPT ![t] = g]
  /\ UNCHANGED <<name, id>>

\* /login: user_find_by_code uses the tables, a session is stored, or not, and they are synced.
AskLogin(t) ==
  /\ Receive(t)
  /\ Goto(t, "sync")
  /\ UNCHANGED <<name, id, game>>

AskTypes(t) ==
  /\ Receive(t)
  /\ Goto(t, "walk")
  /\ UNCHANGED <<name, id, game>>

Step(t) == proc # "down" /\ Work(t) /\ UNCHANGED life

\* SIGTERM or SIGINT: trap calls stop_webservice, which waits for the threads.
Stop ==
  /\ proc = "serving"
  /\ proc' = "stopping"
  /\ UNCHANGED <<storage, array, defs, frames, todo, born, made, width>>

\* stop_webservice has returned: dbact_close, game_type_share_clean, exit.  It may never
\* return (StopReturns of WorkerPool), so that no fairness is asked of this.
Exit == proc = "stopping" /\ AllIdle /\ Close /\ Gone

\* SIGSEGV in a handler: trap closes the tables and exits.  Any handler may do it, and
\* Fetch always does for a type that is not there.
Fault ==
  /\ proc \in {"serving", "stopping"}
  /\ \E t \in Workers : ~ Idle(t)
  /\ Close /\ Gone

\* kill -9, a signal before trap is installed (a fault while starting), or mg_start
\* that finds its port taken.
Kill == proc # "down" /\ Lose /\ Gone

\* kill -9 in dbact_sync of a request, in dbact_close of trap, or in that of a fault.
KillInFlush ==
  /\ handles = "open" /\ proc \in {"serving", "stopping"}
  /\ proc = "stopping" \/ \E t \in Workers : ~ Idle(t)
  /\ \E tables \in {Partly(n) : n \in DOMAIN FlushOrder} : Tear(tables)
  /\ Gone

Request == \E t \in Workers : \/ \E n \in Names : AskCrea(t, n)
                              \/ \E g \in GameIds : AskGame(t, g)
                              \/ AskLogin(t) \/ AskTypes(t)

Next ==
  \/ Create \/ MakeTable \/ MakeRoot
  \/ \E c \in Codes : AddUser(c)
  \/ \E n \in Names : Define(n) \/ Discover(n)
  \/ \E w \in Workers : Start(w)
  \/ Serve \/ Request
  \/ \E t \in Threads : Step(t)
  \/ Stop \/ Exit \/ Fault \/ Kill \/ KillInFlush

Spec == Init /\ [][Next]_vars

(***************************************************************************)
(* Properties.                                                             *)
(***************************************************************************)
Stored(tables, g) == tables.games # Absent /\ tables.games[g] # None

RulesKept(tables) ==
  \A g \in GameIds : Stored(tables, g) => tables.types[tables.games[g]] = born[g]

\* A game, on the disk or in the tables of the running process, is played by the rules
\* it was created with: its game_type_id leads to the name given to /crea, whatever was
\* killed, restarted or defined in between; only a kill within a flush may change them.
GameKeepsRules == ~ torn => RulesKept(file) /\ (handles = "open" => RulesKept(live))

\* game_types_lista and the table agree: an entry is the record stored under its id, and
\* no two entries have the same id or the same name, although share_by_name, share_by_id
\* and the cursor all add entries and save always draws a new id.  On a file torn by a
\* kill within a flush they may.
ListIsTheTable ==
  handles = "open" /\ ~ torn =>
    /\ \A i \in DOMAIN list : list[i].id \in 1..MaxTypes
                              /\ live.types[list[i].id] = list[i].name
    /\ \A i, j \in DOMAIN list : i # j => /\ list[i].id # list[j].id
                                          /\ list[i].name # list[j].name

\* No entry is written past the end of the array.
Roomy == Len(list) <= alloc

\* The disk has the type under this id, and the counter has passed it.
OnDisk(i) ==
  file.types # Absent /\ file.stats # Absent /\ file.types[i] # None /\ i <= file.stats.type

\* A game type that reached the disk together with its counter keeps its name for good:
\* no later process gives its id to another, not even after kills within a flush.  Before
\* the counter got there, the id may be drawn again.
TypeIdsAreForGood ==
  [][\A i \in 1..MaxTypes : OnDisk(i) => OnDisk(i)' /\ file'.types[i] = file.types[i]]_vars

\* Search is about to look for a name no entry has, in an array that is full.
Misses(t) == pc[t] = "search" /\ ByName(name[t]) = {} /\ Len(list) = alloc

\* With several workers and their definitions in order nobody adds to the shared array
\* while requests are served: every lookup of a type finds it there.  What remains is
\* realloc, which moves the array under its readers: a /crea for a name that is no
\* type does it, once, if discover left the array full.
ListIsStable ==
  [][proc = "serving" /\ proc' = "serving" /\ width > 1 /\ handles = "open" =>
       /\ list' = list
       /\ alloc' # alloc => (\E t \in Workers : Misses(t)) /\ Len(list) < alloc']_vars
=============================================================================
