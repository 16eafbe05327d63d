------------------------------ MODULE QgServer ------------------------------
(***************************************************************************)
(* The HTTP server: worker threads that answer requests on games and       *)
(* sessions kept in Berkeley DB tables.                                    *)
(*                                                                         *)
(* One action is one call into src/dbmanager.c together with the code that *)
(* runs in the thread until the next such call.  dbmanager serialises its  *)
(* calls with update_semaphore, so the call itself is indivisible; what    *)
(* another thread does BETWEEN two calls of a request is explored.  The    *)
(* decoding of a fetched record is taken as part of the fetch.             *)
(***************************************************************************)
EXTENDS Naturals, Sequences, FiniteSets

CONSTANTS Workers,      \* threads of the mongoose pool (option -w of qgserverd)
          Users, Admins,
          SessIds, GameIds,
          ClientIds,    \* game ids a client may choose for /registra by itself
          Moves, MaxMoves,
          Bodies,       \* bodies clients post to /registra
          Ops,          \* operations clients ask for
          Timeout,      \* SESSION_TIMEOUT, in ticks of the clock
          MaxClock,     \* bound on the clock
          ReadMayFail,  \* may DB->get return an error other than DB_NOTFOUND?
          WriteMayFail, \* may DB->put and DB->del return an error?
          PartidaMayFail, \* may a game be one the library cannot play: its type is not in
                        \* the table, its definition does not load, its data is not read?
          NoSess, NoGame,
          Nobody,       \* user_id 0, the owner of a game created without a User*
          Valid,        \* argument of a well formed request that needs none
          NoArg,        \* not a POST, or a missing field
          Unknown,      \* unknown user, bad password, unknown game type
          EmptyBody,    \* a POST to /registra without data
          Garbage,      \* a posted body that is no game: qg_partida_load_tj finds no type in it
          Free          \* update_semaphore is unlocked

VARIABLES semaphore,    \* who holds update_semaphore after the call: Free or a worker
          games, sess,  \* the tables
          known,        \* the game ids in circulation
          clock,
          up,           \* is the process alive?
          pc, req,      \* where a worker is, and the request it serves
          scopy, gcopy, \* its Session* and its Game*
          reply         \* the code of its last answer, 0 while it works

db      == <<semaphore, games, sess, known>>
frames  == <<pc, req, scopy, gcopy, reply>>
vars    == <<semaphore, games, sess, known, clock, up, pc, req, scopy, gcopy, reply>>

Dump    == [moves : Seq(Moves), calc : BOOLEAN]
GameRec == [owner : Users \cup {Nobody}, moves : Seq(Moves), calc : BOOLEAN]
SessRec == [user : Users, seen : Nat, closed : Nat]

\* The handlers that show a game and store what they had to analyse for it.
Views   == {"tablero", "historial", "posibles"}
OnGame  == Views \cup {"partida", "mueve", "registra", "desregistra"}
AllOps  == OnGame \cup {"login", "logout", "lista", "crea"}

ASSUME ConstantsOK ==
  /\ Admins \subseteq Users
  /\ ClientIds \subseteq GameIds
  /\ Ops \subseteq AllOps
  /\ Bodies \subseteq Dump \cup {EmptyBody, Garbage, Unknown}
  /\ {EmptyBody, Garbage, Unknown} \cap Dump = {}
  /\ EmptyBody # Garbage
  /\ MaxMoves \in Nat /\ Timeout \in Nat /\ MaxClock \in Nat \ {0}
  /\ {ReadMayFail, WriteMayFail, PartidaMayFail} \subseteq BOOLEAN
  /\ NoSess \notin SessRec /\ NoGame \notin GameRec
  /\ NoSess \notin SessIds /\ NoGame \notin GameIds
  /\ Free \notin Workers /\ Nobody \notin Users
  /\ \A x \in {Valid, NoArg, Unknown, EmptyBody, Garbage} : x \notin Users \cup Moves
  /\ Valid # NoArg

(***************************************************************************)
(* Requests.  routes.l turns a URI into an operation, a session and a game *)
(* id; the argument stands for the POST fields the handler reads.          *)
(***************************************************************************)
Request(ops, sids, gids, args) == [op : ops, sid : sids, gid : gids, arg : args]

Requests ==
  UNION { Request({"login"}, {NoSess}, {NoGame}, Users \cup {Unknown, NoArg}),
          Request({"logout", "lista"}, SessIds, {NoGame}, {Valid}),
          Request({"crea"}, SessIds, {NoGame}, {Valid, Unknown}),
          Request(Views \cup {"partida"}, SessIds, GameIds, {Valid}),
          Request({"mueve"}, SessIds, GameIds, Moves \cup {NoArg}),
          Request({"registra"}, SessIds, GameIds, Bodies \cup {NoArg}),
          Request({"desregistra"}, SessIds, GameIds, {Valid, NoArg}) }

Args == Users \cup Moves \cup Bodies \cup {Valid, NoArg, Unknown}

NoRequest == [op |-> "lista", sid |-> NoSess, gid |-> NoGame, arg |-> NoArg]

\* Requests in flight that will draw an id: at most as many as there are ids left.
Serving(op) == {w \in Workers : req[w].op = op /\ pc[w] # "idle"}

Sent(r) ==
  /\ r.op \in Ops
  /\ r.gid # NoGame => r.gid \in known
  /\ r.op = "crea"  => Cardinality(Serving("crea")) < Cardinality(GameIds \ known)
  /\ r.op = "login" =>
       Cardinality(Serving("login")) < Cardinality({s \in SessIds : sess[s] = NoSess})

\* Where a worker can be: idle, or before the call of that name.
Places == {"idle", "filter", "touch", "close", "load", "check", "save", "del",
           "crea", "sync", "reload", "login", "issue"}
\* The status handlers mean: the answer of render_400 says 404.
Codes  == {0, 200, 400, 403, 404, 500}

TablesOK ==
  /\ semaphore \in Workers \cup {Free}
  /\ games \in [GameIds -> GameRec \cup {NoGame}]
  /\ sess  \in [SessIds -> SessRec \cup {NoSess}]
  /\ known \subseteq GameIds
  /\ clock \in 1..MaxClock
  /\ up \in BOOLEAN

FramesOK ==
  /\ pc    \in [Workers -> Places]
  /\ req   \in [Workers -> Request(AllOps, SessIds \cup {NoSess}, GameIds \cup {NoGame}, Args)]
  /\ scopy \in [Workers -> SessRec \cup {NoSess}]
  /\ gcopy \in [Workers -> GameRec \cup {NoGame}]
  /\ reply \in [Workers -> Codes]

TypeOK == TablesOK /\ FramesOK

Init ==
  /\ semaphore = Free
  /\ games = [g \in GameIds |-> NoGame]
  /\ sess  = [s \in SessIds |-> NoSess]
  /\ known = ClientIds
  /\ clock = 1
  /\ up = TRUE
  /\ pc    = [w \in Workers |-> "idle"]
  /\ req   = [w \in Workers |-> NoRequest]
  /\ scopy = [w \in Workers |-> NoSess]
  /\ gcopy = [w \in Workers |-> NoGame]
  /\ reply = [w \in Workers |-> 0]

(***************************************************************************)
(* What a record says.                                                     *)
(***************************************************************************)
\* Mutant of CheckUser: any user has rights on any game.
CheckUserM(g, u) == TRUE

\* game_check_user
CheckUser(g, u) == u \in Admins \/ u = g.owner

\* Mutant of Defeated: closed_at is not looked at.
DefeatedM(s) == s.seen + Timeout < clock

\* Mutant of Defeated: the session lives a tick too long.
DefeatedLate(s) == s.closed # 0 \/ s.seen + Timeout + 1 < clock

\* session_defeated
Defeated(s) == s.closed # 0 \/ s.seen + Timeout < clock

\* Mutant of Final: a move is accepted on a game that is over.
FinalM(g) == Len(g.moves) > MaxMoves

\* qg_partida_final: the game is over, no move is legal.
Final(g) == Len(g.moves) >= MaxMoves

\* qg_partida_mover, then game_set_partida; the new position is not analysed.
Moved(g, m) == [owner |-> g.owner, moves |-> Append(g.moves, m), calc |-> FALSE]

\* game_type_create and game_new
NewGame(u) == [owner |-> u, moves |-> <<>>, calc |-> FALSE]

\* game_new with the user of the session, then game_set_partida on the posted game
Registered(u, body) == [owner |-> u, moves |-> body.moves, calc |-> body.calc]

(***************************************************************************)
(* How an action ends: the thread goes to its next call, or it answers,    *)
(* frees its copies and takes its next request.                            *)
(***************************************************************************)
Goto(w, label) == pc' = [pc EXCEPT ![w] = label] /\ UNCHANGED <<req, reply>>

Keep == UNCHANGED <<scopy, gcopy>>

Answer(w, code) ==
  /\ pc'    = [pc    EXCEPT ![w] = "idle"]
  /\ req'   = [req   EXCEPT ![w] = NoRequest]
  /\ scopy' = [scopy EXCEPT ![w] = NoSess]
  /\ gcopy' = [gcopy EXCEPT ![w] = NoGame]
  /\ reply' = [reply EXCEPT ![w] = code]

\* The thread is about to make a call: the process lives, the mutex can be had.
At(w, label) == up /\ pc[w] = label /\ semaphore = Free

\* Mutant of PutSess: the error branch of dbput_data forgets to unlock.
PutSessLeaks(w, id, s) ==
  \/ sess' = [sess EXCEPT ![id] = s] /\ UNCHANGED semaphore
  \/ WriteMayFail /\ semaphore' = w /\ UNCHANGED sess

\* dbput_data of a session: stored, or refused without effect.
PutSess(w, id, s) ==
  /\ \/ sess' = [sess EXCEPT ![id] = s]
     \/ WriteMayFail /\ UNCHANGED sess
  /\ UNCHANGED semaphore

\* session_user.  user_load takes an error of the table for success and decodes
\* a buffer nobody set: it crashes, finds somebody's record there, or nothing.
SessionUser(w) == IF ReadMayFail THEN Users \cup {Nobody} ELSE {scopy[w].user}

\* A NULL pointer is dereferenced: SIGSEGV, trap closes the tables and exits.
Crash == up' = FALSE /\ UNCHANGED frames

(***************************************************************************)
(* The steps of a request.                                                 *)
(***************************************************************************)
\* event_handler, routes_filter up to session_load, and what needs no session:
\* a login that is not a POST is refused at once.
Receive(w) ==
  /\ up /\ pc[w] = "idle"
  /\ \E r \in Requests :
       /\ Sent(r)
       /\ IF r.op = "login" /\ r.arg = NoArg
          THEN /\ reply' = [reply EXCEPT ![w] = 400]
               /\ UNCHANGED <<pc, req>>
          ELSE /\ req' = [req EXCEPT ![w] = r]
               /\ pc'  = [pc EXCEPT ![w] = IF r.op = "login" THEN "login" ELSE "filter"]
               /\ reply' = [reply EXCEPT ![w] = 0]
  /\ Keep /\ UNCHANGED <<db, clock, up>>

\* routes_filter: session_load, session_defeated, then the controller is called.
Filter(w) ==
  /\ At(w, "filter")
  /\ LET s == sess[req[w].sid] IN
       \/ /\ ReadMayFail \/ ~(s # NoSess /\ ~Defeated(s))
          /\ Answer(w, 403)
       \/ /\ s # NoSess /\ ~Defeated(s)
          /\ scopy' = [scopy EXCEPT ![w] = s]
          /\ Goto(w, IF req[w].op = "logout" THEN "close" ELSE "touch")
          /\ UNCHANGED gcopy
  /\ UNCHANGED <<db, clock, up>>

\* Mutant of Malformed: mueve goes on without the field m.
MalformedM(r) == \/ r.op = "crea" /\ r.arg = Unknown
                 \/ r.op \in {"registra", "desregistra"} /\ r.arg = NoArg

\* What a handler refuses before it reads the database.
Malformed(r) ==
  \/ r.op = "crea" /\ r.arg = Unknown
  \/ r.op \in {"mueve", "registra", "desregistra"} /\ r.arg = NoArg

\* game_controller and tjuego_controller: session_save, whose result nobody
\* looks at, then the handler of the operation.
Touch(w) ==
  /\ At(w, "touch")
  /\ PutSess(w, req[w].sid, [scopy[w] EXCEPT !.seen = clock])
  /\ \/ /\ req[w].op = "lista"
        /\ Answer(w, 200)
     \/ /\ Malformed(req[w])
        /\ Answer(w, IF req[w].op = "crea" THEN 404 ELSE 400)
     \/ /\ req[w].op # "lista" /\ ~Malformed(req[w])
        /\ Goto(w, IF req[w].op = "crea" THEN "crea" ELSE "load") /\ Keep
  /\ UNCHANGED <<games, known, clock, up>>

\* logout: session_close, whose result nobody looks at.
Close(w) ==
  /\ At(w, "close")
  /\ PutSess(w, req[w].sid, [scopy[w] EXCEPT !.seen = clock, !.closed = clock])
  /\ Answer(w, 200)
  /\ UNCHANGED <<games, known, clock, up>>

\* login: user_find_by_code and user_check_password.  An error of the table is
\* taken for success, as in session_user; no garbage has the right password.
Login(w) ==
  /\ At(w, "login")
  /\ \/ /\ req[w].arg \in Users
        /\ Goto(w, "issue") /\ Keep /\ UNCHANGED up
     \/ /\ req[w].arg = Unknown \/ ReadMayFail
        /\ pc' = [pc EXCEPT ![w] = "sync"]
        /\ reply' = [reply EXCEPT ![w] = 400]
        /\ Keep /\ UNCHANGED <<req, up>>
     \/ ReadMayFail /\ Crash
  /\ UNCHANGED <<db, clock>>

\* Mutant of Unused: session_generar_id may draw an id that is in the table.
UnusedM(id) == TRUE

\* session_generar_id draws ids nobody else gets.
Unused(id) == sess[id] = NoSess

\* login: session_new and session_save under a new random id.
Issue(w) ==
  /\ At(w, "issue")
  /\ \E id \in SessIds :
       /\ Unused(id)
       /\ \/ /\ sess' = [sess EXCEPT ![id] = [user |-> req[w].arg, seen |-> clock, closed |-> 0]]
             /\ reply' = [reply EXCEPT ![w] = 200]
          \/ /\ WriteMayFail /\ UNCHANGED sess
             /\ reply' = [reply EXCEPT ![w] = 500]
  /\ pc' = [pc EXCEPT ![w] = "sync"]
  /\ UNCHANGED req
  /\ Keep /\ UNCHANGED <<semaphore, games, known, clock, up>>

\* Mutant of CreaFails: the handler does not look at the result of game_save.
CreaUnchecked(w) ==
  /\ \E id \in GameIds \ known : req' = [req EXCEPT ![w].gid = id]
  /\ pc' = [pc EXCEPT ![w] = "sync"]
  /\ UNCHANGED <<reply, scopy, gcopy>>

\* game_save could not store the new game.
CreaFails(w) == Answer(w, 500)

\* game_controller_crea: game_type_create draws the id, game_save stores the game.
\* A user or a definition that could not be read is a NULL it dereferences.
Crea(w) ==
  /\ At(w, "crea")
  /\ \/ \E id \in GameIds \ known, u \in SessionUser(w) :
          /\ games' = [games EXCEPT ![id] = NewGame(u)]
          /\ known' = known \cup {id}
          /\ req'   = [req EXCEPT ![w].gid = id]
          /\ pc'    = [pc EXCEPT ![w] = "sync"]
          /\ UNCHANGED <<reply, scopy, gcopy, up>>
     \/ /\ WriteMayFail
        /\ CreaFails(w)
        /\ UNCHANGED <<games, known, up>>
     \/ /\ ReadMayFail \/ PartidaMayFail
        /\ Crash
        /\ UNCHANGED <<games, known>>
  /\ UNCHANGED <<semaphore, sess, clock>>

\* game_controller_registra once the posted game may be stored.  Without a body it
\* answers 500 and frees a Game* it has freed already, or that is NULL; a body in
\* which there is no game gives strdup a NULL.
TakeBody(w, loaded, u) ==
  \/ /\ req[w].arg \in {EmptyBody, Garbage}
     /\ Crash
  \/ /\ req[w].arg = EmptyBody /\ loaded   \* the second free goes unnoticed
     /\ Answer(w, 500) /\ UNCHANGED up
  \/ /\ req[w].arg = Unknown
     /\ Answer(w, 500) /\ UNCHANGED up
  \/ /\ req[w].arg \in Dump
     /\ gcopy' = [gcopy EXCEPT ![w] = Registered(u, req[w].arg)]
     /\ Goto(w, "save") /\ UNCHANGED <<scopy, up>>
  \/ /\ req[w].arg \in Dump /\ PartidaMayFail   \* qg_partida_load gives NULL, or is given one
     /\ (Answer(w, 500) /\ UNCHANGED up) \/ Crash
  \/ /\ req[w].arg \in Dump /\ ~loaded /\ ReadMayFail   \* session_user, for the first time
     /\ Crash

\* Mutant of NotFound: desregistra goes on to the delete.
DeletesMissing(w) ==
  \/ req[w].op = "registra" /\ \E u \in SessionUser(w) : TakeBody(w, FALSE, u)
  \/ req[w].op = "desregistra" /\ Goto(w, "del") /\ Keep /\ UNCHANGED up
  \/ req[w].op \notin {"registra", "desregistra"} /\ Answer(w, 404) /\ UNCHANGED up

\* game_load gave NULL.  Only registra goes on, without a check of the user.
NotFound(w) ==
  \/ req[w].op = "registra" /\ \E u \in SessionUser(w) : TakeBody(w, FALSE, u)
  \/ req[w].op # "registra" /\ Answer(w, 404) /\ UNCHANGED up

\* game_load of every handler on a game.  An error of the database and a
\* missing record look the same to them.
Load(w) ==
  /\ At(w, "load")
  /\ LET g == games[req[w].gid] IN
       \/ /\ g # NoGame
          /\ gcopy' = [gcopy EXCEPT ![w] = g]
          /\ Goto(w, "check") /\ UNCHANGED <<scopy, up>>
       \/ /\ g = NoGame \/ ReadMayFail
          /\ NotFound(w)
  /\ UNCHANGED <<db, clock>>

\* A handler of Views that has its Partida: save_game_if_not_calculed.  The library
\* may fail to analyse a position; on a finished game that is no error.
Recalculate(w, g) ==
  \/ /\ g.calc \/ Final(g)
     /\ Answer(w, 200)
  \/ /\ ~g.calc
     /\ gcopy' = [gcopy EXCEPT ![w] = [g EXCEPT !.calc = TRUE]]
     /\ Goto(w, "save") /\ UNCHANGED scopy
  \/ /\ ~g.calc /\ ~Final(g)
     /\ Answer(w, 500)

\* game_controller_mueve with its Partida: only a move the library accepts is stored.
Mueve(w, g) ==
  \/ /\ Final(g)
     /\ Answer(w, 400)
  \/ /\ ~Final(g)
     /\ gcopy' = [gcopy EXCEPT ![w] = Moved(g, req[w].arg)]
     /\ Goto(w, "save") /\ UNCHANGED scopy

\* game_partida gives NULL: posibles and mueve look at it, tablero and historial
\* dereference it.  A type that is not in the table is a NULL that game_partida
\* dereferences itself, and so does game_to_cJSON for partida.
NoPartida(w) ==
  /\ PartidaMayFail
  /\ \/ /\ req[w].op \in {"posibles", "mueve"}
        /\ Answer(w, 500) /\ UNCHANGED up
     \/ /\ req[w].op \in Views \cup {"mueve", "partida"}
        /\ Crash

\* The rest of a handler, once game_check_user has looked at the user u.
Checked(w, g, u) ==
  \/ /\ ~CheckUser(g, u)
     /\ Answer(w, 500) /\ UNCHANGED up
  \/ /\ CheckUser(g, u)
     /\ \/ req[w].op = "partida" /\ Answer(w, 200) /\ UNCHANGED up
        \/ req[w].op \in Views /\ Recalculate(w, g) /\ UNCHANGED up
        \/ req[w].op = "mueve" /\ Mueve(w, g) /\ UNCHANGED up
        \/ NoPartida(w)
        \/ req[w].op = "desregistra" /\ Goto(w, "del") /\ Keep /\ UNCHANGED up
        \/ req[w].op = "registra" /\ TakeBody(w, TRUE, u)

\* session_user reads the table of users, for game_check_user on the loaded copy.
Check(w) ==
  /\ At(w, "check")
  /\ \/ \E u \in SessionUser(w) \ {Nobody} : Checked(w, gcopy[w], u)
     \/ ReadMayFail /\ Crash
  /\ UNCHANGED <<db, clock>>

\* Mutant of SaveError: the failure is not reported.
SaveErrorM(op) == 200

\* What the handler answers when game_save fails.
SaveError(op) == IF op = "mueve" THEN 400 ELSE 500

\* game_save: the whole record is written, whatever the table holds by now.
Save(w) ==
  /\ At(w, "save")
  /\ \/ /\ games' = [games EXCEPT ![req[w].gid] = gcopy[w]]
        /\ \/ req[w].op = "mueve" /\ Goto(w, "sync") /\ Keep
           \/ req[w].op # "mueve" /\ Answer(w, 200)
     \/ /\ WriteMayFail /\ UNCHANGED games
        /\ Answer(w, SaveError(req[w].op))
  /\ UNCHANGED <<semaphore, sess, known, clock, up>>

\* game_del, whose result nobody looks at.  dbdel_data returns from the
\* DB_NOTFOUND branch with update_semaphore locked.
Del(w) ==
  /\ At(w, "del")
  /\ \/ /\ games[req[w].gid] # NoGame
        /\ games' = [games EXCEPT ![req[w].gid] = NoGame]
        /\ UNCHANGED semaphore
     \/ /\ games[req[w].gid] = NoGame
        /\ semaphore' = w /\ UNCHANGED games
     \/ /\ WriteMayFail /\ UNCHANGED <<games, semaphore>>
  /\ Answer(w, 200)
  /\ UNCHANGED <<sess, known, clock, up>>

\* dbact_sync, the last call of login and mueve; crea reads its game back.
Sync(w) ==
  /\ At(w, "sync")
  /\ \/ req[w].op = "login" /\ Answer(w, reply[w])
     \/ req[w].op = "mueve" /\ Answer(w, 200)
     \/ req[w].op = "crea"  /\ Goto(w, "reload") /\ Keep
  /\ UNCHANGED <<db, clock, up>>

\* The second game_load of game_controller_crea; its result is not checked.
Reload(w) ==
  /\ At(w, "reload")
  /\ \/ games[req[w].gid] # NoGame /\ Answer(w, 200) /\ UNCHANGED up
     \/ (games[req[w].gid] = NoGame \/ ReadMayFail) /\ Crash
  /\ UNCHANGED <<db, clock>>

\* The server is started again on the same database file.
Restart ==
  /\ ~up /\ semaphore = Free
  /\ up' = TRUE
  /\ pc'    = [w \in Workers |-> "idle"]
  /\ req'   = [w \in Workers |-> NoRequest]
  /\ scopy' = [w \in Workers |-> NoSess]
  /\ gcopy' = [w \in Workers |-> NoGame]
  /\ reply' = [w \in Workers |-> 0]
  /\ UNCHANGED <<db, clock>>

Tick == /\ clock < MaxClock
        /\ clock' = clock + 1
        /\ UNCHANGED <<db, up, frames>>

\* A thread goes on with the request it serves.
Step(w) == \/ Filter(w) \/ Touch(w) \/ Close(w) \/ Login(w) \/ Issue(w) \/ Crea(w)
           \/ Load(w) \/ Check(w) \/ Save(w) \/ Del(w) \/ Sync(w) \/ Reload(w)

Next == \/ \E w \in Workers : Receive(w) \/ Step(w)
        \/ Restart
        \/ Tick

Spec == Init /\ [][Next]_vars

\* A runnable thread runs.  Clients need not send anything and time need not pass.
Fairness == \A w \in Workers : WF_vars(Step(w))

FairSpec == Spec /\ Fairness

(***************************************************************************)
(* Properties.                                                             *)
(***************************************************************************)
OneWorker == \E w \in Workers : Workers = {w}

\* Worker w takes a step of its request; it ends the request; it answers 200.
Acts(w)     == pc'[w] # pc[w]
Ends(w)     == pc[w] # "idle" /\ pc'[w] = "idle"
Confirms(w) == Ends(w) /\ reply'[w] = 200

\* With one thread the games table keeps the promises of GameRepository: the
\* load, check, save sequences of the handlers in game.c are indivisible.
Repository == INSTANCE GameRepository
ImplementsRepository == Repository!Spec

\* With one thread the table of sessions keeps the promises of SessionRegistry:
\* session_close is final, session_save never moves last_seen_at back.
Registry == INSTANCE SessionRegistry
ImplementsRegistry == Registry!Spec

\* No call of dbmanager.c returns with update_semaphore locked.
MutexReleased == semaphore = Free

\* Worker w is in a handler that may be given a NULL it does not look for: a body
\* without a game in it, or a game the library cannot play.  Nobody has written a
\* game at these places.
MayCrash(w) ==
  \/ /\ pc[w] \in {"load", "check"} /\ req[w].op = "registra"
     /\ req[w].arg \in {EmptyBody, Garbage} \/ PartidaMayFail
  \/ PartidaMayFail /\ pc[w] = "check" /\ req[w].op \in Views \cup {"mueve", "partida"}
  \/ PartidaMayFail /\ pc[w] = "crea"

\* While the tables can be read the process goes down only there: over a bad body or
\* a game it cannot play, before the request has stored anything.  Above all /crea,
\* which does not look at the result of its second game_load, finds its game.
CrashesAreKnown == [][up /\ ~up' => \E w \in Workers : MayCrash(w)]_vars

\* A game is changed or deleted only by a request of a user with rights on the
\* record as it is at that moment (game_check_user, games.c).
OnlyEntitledWrites ==
  [][\A id \in GameIds : (games[id] # NoGame /\ games'[id] # games[id]) =>
       \E w \in Workers : Acts(w) /\ Repository!Entitled(scopy[w].user, games[id])]_vars

\* A stored move is never lost: only /registra replaces a history, any other
\* write continues it.
HistoryOnlyGrows ==
  [][\A id \in GameIds : (games[id] # NoGame /\ games'[id] # NoGame) =>
       \/ /\ Len(games[id].moves) <= Len(games'[id].moves)
          /\ SubSeq(games'[id].moves, 1, Len(games[id].moves)) = games[id].moves
       \/ \E w \in Workers : Acts(w) /\ req[w].op = "registra"]_vars

\* A session that was closed is closed for ever (session.c:208).
ClosedForever ==
  [][\A id \in SessIds : (sess[id] # NoSess /\ sess[id].closed # 0) =>
       sess'[id].closed # 0]_vars

\* A session never passes to another user and is never forgotten.
SessionsKeepTheirUser ==
  [][\A id \in SessIds : sess[id] # NoSess =>
       sess'[id] # NoSess /\ sess'[id].user = sess[id].user]_vars

\* Nobody has session id in his hands, and it was closed or not used for longer than
\* SESSION_TIMEOUT.
Gone(id) ==
  /\ sess[id] # NoSess
  /\ sess[id].closed # 0 \/ clock > sess[id].seen + Timeout
  /\ \A w \in Workers : pc[w] \in {"touch", "close"} => req[w].sid # id

\* A session that ran out, or was closed, while no request had got past the check of
\* routes_filter is never used again: no later touch brings it back.
GoneForGood == [][\A id \in SessIds : Gone(id) => Gone(id)']_vars

\* An answer 200 on a game shows the record the table holds at that moment.
AnswerShowsTheStore ==
  [][\A w \in Workers : (Confirms(w) /\ req[w].op \in OnGame \ {"desregistra"}) =>
       games'[req[w].gid] = gcopy[w]]_vars

\* Every request gets its answer.
EveryRequestAnswered == \A w \in Workers : pc[w] # "idle" ~> pc[w] = "idle"

(***************************************************************************)
(* The invariants behind the properties: what a worker has in its hands at *)
(* each place of the code.                                                 *)
(***************************************************************************)
\* Ids not yet drawn have no record.
FreshIdsAreEmpty == \A id \in GameIds \ known : games[id] = NoGame

\* The request that brought a worker where it is, and the copies it made.
WorkerOK(w) ==
  /\ req[w].op \in OnGame => req[w].gid \in known
  /\ req[w].op = "mueve" => req[w].arg \in Moves \cup {NoArg}
  /\ req[w].op = "registra" => req[w].arg \in Bodies \cup {NoArg}
  /\ pc[w] \in {"filter", "touch", "close", "crea", "load", "check", "save", "del"} =>
       req[w].sid \in SessIds
  /\ pc[w] \in {"filter", "touch"} => req[w].op # "login"
  /\ pc[w] = "touch" => req[w].op # "logout"
  /\ pc[w] \in {"touch", "close", "crea", "load", "check", "save", "del"} =>
       scopy[w] \in SessRec
  /\ pc[w] \in {"load", "check", "save", "del"} =>
       req[w].op \in OnGame /\ ~Malformed(req[w])
  /\ pc[w] \in {"check", "save", "del"} => gcopy[w] \in GameRec
  /\ pc[w] = "save" => req[w].op \in Views \cup {"mueve", "registra"}
  /\ pc[w] = "del" => req[w].op = "desregistra"
  /\ pc[w] \in {"crea", "reload"} => req[w].op = "crea"
  /\ pc[w] \in {"login", "issue"} => req[w].op = "login"
  /\ pc[w] = "issue" => req[w].arg \in Users
  /\ pc[w] = "sync" => req[w].op \in {"login", "mueve", "crea"}
  /\ (pc[w] \in {"sync", "reload"} /\ req[w].op = "crea") => req[w].gid \in known

ControlOK == \A w \in Workers : WorkerOK(w)

IInv == TypeOK /\ FreshIdsAreEmpty /\ ControlOK

\* Any number of threads, nobody registers: every copy of a game and its record
\* name the same owner, and who got past the check has rights on the game.
HoldsGame(w) == pc[w] \in {"check", "save", "del"}

CopiesAgree ==
  /\ \A w \in Workers : req[w].op # "registra"
  /\ \A w \in Workers : (HoldsGame(w) /\ games[req[w].gid] # NoGame) =>
       games[req[w].gid].owner = gcopy[w].owner
  /\ \A v, w \in Workers :
       (HoldsGame(v) /\ HoldsGame(w) /\ req[v].gid = req[w].gid) =>
         gcopy[v].owner = gcopy[w].owner
  /\ \A w \in Workers : pc[w] \in {"save", "del"} => CheckUser(gcopy[w], scopy[w].user)

\* One thread: what it loaded is what the table holds, and what it is about to
\* store is the outcome of an operation of GameRepository on that record.
CopyIsCurrent(w) ==
  LET g == games[req[w].gid]
      u == scopy[w].user
  IN /\ pc[w] \in {"check", "del"} => gcopy[w] = g
     /\ pc[w] = "del" => CheckUser(g, u) \/ ReadMayFail
     /\ (pc[w] = "save" /\ req[w].op = "mueve") =>
          /\ g # NoGame /\ (CheckUser(g, u) \/ ReadMayFail) /\ ~Final(g)
          /\ gcopy[w] = Moved(g, req[w].arg)
     /\ (pc[w] = "save" /\ req[w].op \in Views) =>
          /\ g # NoGame /\ (CheckUser(g, u) \/ ReadMayFail)
          /\ gcopy[w] = [g EXCEPT !.calc = TRUE]
     /\ (pc[w] = "save" /\ req[w].op = "registra") =>
          /\ req[w].arg \in Dump
          /\ ReadMayFail \/ /\ g # NoGame => CheckUser(g, u)
                            /\ gcopy[w] = Registered(u, req[w].arg)
     /\ (pc[w] \in {"sync", "reload"} /\ req[w].op = "crea") => g # NoGame

SoloInv == semaphore = Free /\ \A w \in Workers : CopyIsCurrent(w)

\* Any number of threads: a session a worker has loaded is in the table, and
\* belongs to the user its copy names.
SessionsBound ==
  \A w \in Workers : pc[w] \in {"touch", "close"} =>
    sess[req[w].sid] # NoSess /\ sess[req[w].sid].user = scopy[w].user

\* One thread: the session in its hands is the one in the table, and is open.
SessionsAreCurrent ==
  /\ \A id \in SessIds : sess[id] # NoSess => sess[id].seen <= clock
  /\ \A w \in Workers : pc[w] \in {"touch", "close"} =>
       scopy[w] = sess[req[w].sid] /\ scopy[w].closed = 0

=============================================================================
