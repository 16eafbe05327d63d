# qgames-server: specifications, model checks and proofs

`qgserverd` keeps games, sessions, users and game types in a Berkeley DB file
and serves them over HTTP. The rules of the games come from the library
`qgames`, HTTP and threads from a vendored `mongoose`. This directory holds TLA+
modules translated from the C sources, TLC runs over small instances of them, and
theorems that the TLA+ proof system checks for every value of the constants.
Paths below are relative to the repository.

## 1. The system

| component | state | operations |
|---|---|---|
| worker pool (`webservice/mongoose.c`) | ring of accepted sockets, `stop_flag`, number of threads, a mutex and three condition variables | accept, enqueue, dequeue, serve, stop |
| HTTP (`webservice/mongoose.c`) | per connection: buffer, length of the head, bytes of the body handed out | read and parse a head, `mg_read`, `mg_get_var`, `url_decode` |
| routing (`webservice/routes.l`) | global scanner buffers `route_*`, under a lock | `get_ruta`: URI to operation, session, game id, format |
| dispatch (`webservice/webserver.c`) | the POST block in `user_data` | `event_handler`, `routes_filter`, `read_post_data`, `get_var`, the renderers |
| controllers (`webservice/app/*.c`) | per request: a `Session*` and a `Game*`, copies of records | login, logout, crea, tablero, historial, posibles, partida, mueve, registra, desregistra, registraciones, the list of game types, help |
| sessions (`src/session.c`) | table `sess` | new, save, load, close, defeated |
| games (`src/games.c`) | table `game` | new, save, load, del, next, check_user, set_partida |
| users (`src/users.c`) | table `user`, index by code | load, find_by_code, save, check_password |
| game types (`src/game_types.c`) | table, index by name, an array in memory shared by all threads | share_by_name, share_by_id, discover, next, save |
| database manager (`src/dbmanager.c`) | handles `db_*`, `update_semaphore`, counters | get, put, del, sync, cursors, open, close, next ids, init_db |
| record packing (`common/packer.c`) | none | `binary_pack`, `binary_unpack` |
| encodings (`common/cJSON`, `common/base64.c`, `common/md5.c`) | none | trees, JSON and YAML printing, JSON parsing, base64, MD5 |
| daemon (`src/qgserverd.c`) | the process | start, SIGSEGV trap, SIGINT/SIGTERM |
| user tool (`src/qgserver-tool.c`) | none | creates the file, adds users |

How they interact. The master thread accepts a connection and puts its socket into the ring; a worker
takes it out and reads the head of the request. `event_handler` asks `get_ruta` for the operation under a
mutex, because the scanner answers in global variables, and copies the answer. `routes_filter` loads the
session and refuses it if it is missing, closed or expired; `game_controller` and `tjuego_controller` then
store the session again with a new `last_seen_at` ("touch") and call the handler. A handler on a game is
always *load, check the user, work on the copy, perhaps save the whole copy*; it builds a tree, and
`render_200j` prints it in the format the URI asks for. Every call into `dbmanager.c` but a cursor takes
`update_semaphore` and gives it back before it returns; nothing spans two calls. Type ids lead from games to
definitions through the shared array, which is filled from the table and from the directory of definitions.

What is hard, and what must hold (each with its line in `PROJECT.json`, "hazards"):

* **Interleaving.** Between the calls of one request other threads change the
  tables: lost moves, deleted games stored again, closed sessions reopened, rights
  checked on one record and used on another, a table walked while it changes. Correct: every
  operation acts on the record as it is at that moment, and only for a user with rights on it.
* **Mutexes and condition variables.** One path that returns with the semaphore locked stops the server; a
  missed wakeup leaves a connection, or the end of the process, waiting for ever. Correct: the semaphore is free
  after every call, no thread sleeps on work it could do, every request is answered, the server stops.
* **Partial failure.** Errors of the database are told apart from missing records in
  some places and not in others; several results are ignored. Correct: an answer 200
  on a game shows what the table holds; a handler that dereferences what it did not get has stored nothing yet.
* **Time.** A session expires after `SESSION_TIMEOUT` without use; a touch may not
  bring back a closed one.
* **Bytes.** Records, JSON, YAML, base64, form variables, heads of requests and digests each have a writer
  and a reader far apart, and memory computed before it is filled. Correct: what is written fits, and what is
  read is what was written, also when it arrives in pieces.
* **Shared memory without a lock**: the list of game types, the counters, memory that
  belongs to the Berkeley library and is decoded after the mutex is released. Memory shared *with* one: the
  scanner. Correct: every request is routed by its own URI; the list agrees with the table.
* **Start, stop, crash**: a file half made, tables half opened, a kill before a sync or within one, definitions that appear
  and break between two runs. Correct: a game is played for ever by the rules it was created with, an id of a
  game type never changes its meaning; how far that survives a kill between two tables of a sync is part of the properties.

## 2. Modules

| module | what it is |
|---|---|
| `GameRepository` | abstract: what the table of games promises. Each operation is one step on the current record, by an entitled user |
| `SessionRegistry` | abstract: what a session promises. One user for ever, never seen earlier than before, closed for good |
| `BoundedQueue` | abstract: what the ring of sockets promises. First in, first out, no more than its size |
| `QgServer` | the requests: workers, their copies, the tables of games and sessions, the mutex, crash and restart |
| `WorkerPool` | the threads: master, workers, ring, condition variables, `mg_stop` |
| `Routes` | the scanner: `get_ruta` on its global buffers |
| `Requests` | one worker and its connection; uses `Routes` under its lock |
| `Storage` | the Berkeley DB file and the handles on it |
| `GameTypes` | the shared array of game types; uses `Storage` |
| `ServerLife` | tool and daemon on one file over many runs; composes `Storage` and `GameTypes` |
| `GamesWalk` | the cursor of `/registraciones` while other threads write |
| `Base64`, `CJson`, `CYaml` | trees and their texts |
| `Answers` | what every handler answers; composes `CYaml` and `GamesWalk` |
| `Http`, `Md5` | the words of a head, the variables of a form; the blocks of a digest |
| `Logins` | a client, the server and the password; composes `Http` and `Md5` |
| `Packer` | `binary_pack`, `binary_unpack` and the formats of the records |
| `MC*` | instances for TLC |
| `QgServer_proofs`, `WorkerPool_proofs`, `Answers_proofs`, `Packer_proofs`, `ServerLife_proofs`, `Requests_proofs`, `Logins_proofs` | theorems |
| `Recursion` | lemmas about induction and about functions defined by recursion; uses nothing of the system |

`QgServer`, `WorkerPool`, `Requests` and `ServerLife` are four views of one process. A `Receive` of
`QgServer` stands for a `Serve` of `WorkerPool` and for the way from `Connect` to `CopyRoute` of `Requests`;
`ServerLife` keeps of a request only what it does with game types. They share no variable: the ring and the
buffers of a connection belong to the pool, what the database holds belongs to the handlers.

### QgServer

One action is one call into `dbmanager.c`, with the code of the thread up to its next
call. The call itself is indivisible because it runs under `update_semaphore`; what other
threads do between two calls of a request is explored.

| variable | code |
|---|---|
| `semaphore` | who left `update_semaphore` locked on return from a call (`Free`: nobody) |
| `games`, `sess` | the tables; a record is cut down to owner, moves and whether the position is analysed; or user, `last_seen_at`, `closed_at` |
| `known` | ids of games in circulation: drawn by `crea`, or chosen by clients (`ClientIds`) |
| `clock` | `gettimeofday` in ticks |
| `up` | the process lives |
| `pc`, `req` | where a thread is: before the call of that name; and its request |
| `scopy`, `gcopy` | its `Session*` and `Game*` |
| `reply` | the last status code |

| action | code |
|---|---|
| `Receive` | `event_handler`, `get_ruta`, what `login` refuses before reading anything |
| `Filter` | `routes_filter`: `session_load`, `session_defeated` |
| `Touch` | `session_save` in the controllers, then what a handler refuses without the database |
| `Close` | `logout`, `session_close` |
| `Login`, `Issue` | `login`: user and password; `session_new`, `session_save` |
| `Crea`, `Reload` | `game_controller_crea`: new id and `game_save`; the second `game_load`, unchecked |
| `Load`, `NotFound` | `game_load` of every handler on a game, and what each does with NULL |
| `Check` | `session_user` and `game_check_user`, then `Recalculate`, `Mueve`, `TakeBody` or the way to the delete |
| `Save` | `game_save` |
| `Del` | `game_del`, `dbdel_data` |
| `Sync` | `dbact_sync` after login, crea and mueve |
| `Restart` | `qgserverd` started again |

Abstractions. A `qgames` dump is its list of moves and whether it carries its possible
moves; the library is external and accepts any move until the game has `MaxMoves`. The
library may fail to analyse a position. `tablero`, `historial` and `posibles` (`Views`) go the same way once they have their
`Partida`. They part when `game_partida` gives NULL (`src/games.c:328`), which `PartidaMayFail` allows: because the type of the game is
not in the table, its definition does not load or its data is not read. `NoPartida` has what each handler does then: `posibles` and `mueve` look at it and answer 500,
`tablero` and `historial` dereference it (`webservice/app/game.c:147`, `243`), and a type that is not there is dereferenced by `game_partida` itself and by `game_to_cJSON`.
A body posted to `/registra` may be a game, an unknown one, empty, or no game at all (`Garbage`, of which `qg_partida_load_tj` makes NULL, given to `strdup`). `registraciones` is in `GamesWalk`. `imagen` has a handler
(`ACTION_IMAGEN`) and no URI in `routes.l` that leads to it. Users do not change while the server runs
(only the tool writes them), game types are known, `Unknown`, or known and not playable (`PartidaMayFail`). Ids drawn for sessions
and by `crea` are never drawn twice, and a client cannot name one it has not seen
(`known`): what happens when `random()` repeats is listed as a hazard, and shown by
the mutant `UnusedM`. `Sent` keeps a login or a crea from starting when the instance
has no id left for it; the program has no such limit. `Crash` is the dereference of NULL: the SIGSEGV trap closes the
tables and exits, so stored records survive. Memory freed twice is a choice: crash, or
unnoticed. A user decoded from a pointer nobody set is a choice: crash, somebody else's
record, or nobody. Fetching and decoding a record is one step (section 6). Status codes are those the
handlers mean: `render_400` writes 404 (`webserver.c:89`), which the modules call 400.
Records are taken to survive packing, which is what `Packer` is about.

### WorkerPool

What runs under `ctx->mutex` is one action, cut where the code reads or writes `stop_flag`, which is not
protected: `Return` is the second test of `consume_socket`, `Broadcast` the wakeup of the master. A thread
that is about to block is at `"wait"` and still holds the mutex; blocking releases it in the same step, as
`pthread_cond_wait` does. A thread that was woken goes back to its test. The indices `sq_head` and `sq_tail` wrap
as in the code. `Unlucky` workers cannot be created, or get no memory for their connection and return without
counting themselves out of `num_threads`. `Serve` is everything `Requests` and `QgServer` say.

### Routes and Requests

`Routes` is the scanner flex makes of `routes.l`: its start conditions (`sc`), the longest match among the rules, and
the global variables each rule writes. A word of the URI is a symbol, a game id a sequence of letters, and `route_param` an array of `ParamSize` cells, because `strncpy` copies without the terminator and leaves the tail of an
earlier parameter behind. A `WORD` has at most `WordMax` symbols. None of the copies into `route_param` has a bound (`routes.l:158`, `168`, `176`): what a longer piece of a URI
overwrites behind the array is not modelled, and `Short` excludes such URIs, by an assumption of `Requests` that TLC evaluates. Lengths count symbols, of which a word or a session is one.

`Requests` is one worker and its connection. `Receive` is one `recv`: any number of bytes that have arrived and fit.
`Route` calls `get_ruta` with the mutex of `routes_filter`, `CopyRoute` copies the globals and gives it back; between
the two another worker may run, if the mutex lets it. `GetPostData` is `read_post_data` and `mg_read`, called any
number of times; `Answer` frees the block. One request per connection, because `keep_alive` is "no". The header
`get_post_data` looks for is misspelt ("Content-Lenght", `webserver.c:231`): it asks `mg_read` for as many bytes as that header says, if a client sends one (`limit`), else for `POST_BUFFER_LEN`,
and gets as many of them as the body has (`MaxVal`). A negative number there is not modelled: it would become an enormous `size_t` in `malloc`. The bytes of a head are reduced to newline, carriage return, control character
and others. No liveness is claimed here: a POSIX mutex need not be fair.

### Storage, GameTypes, ServerLife

`Storage` has the disk (`file`), what a process sees through its handles (`live`), and whether `open_dbs` succeeded.
The library writes to the disk when it is told to (`dbact_sync`, `dbact_close`) and not before, one table after the other: `FlushOrder` is the order of `dbmanager.c:750-760`, the two indexes included.
A flush nobody interrupts is one step, because other processes do not look at the file meanwhile and threads do not look at the disk. A kill within one is `Tear`: the first `n` tables are new and the others old (`Partly`),
and the file is `torn` from then on, unless nothing had reached the disk, or all of it had. On a torn file an index of names may be behind its table: `Leads` lets a lookup find nothing, or any record, and `PutType` lets a put be refused or not. A table that is missing leaves the handles "half" open: `db_users` is set before anything is
opened, so every later call believes that the tables are open. A put that fails on a game type is not modelled.

`GameTypes` is `game_types.c`. One action is one call into `dbmanager.c` or one pass over the array `game_types_lista`.
`Search`, `Lookup` and `Put` are `game_type_share_by_name`: look in the array, make room (`realloc`, before it is known whether it is needed), look in the table, else load the
definition, save it with a new id, append. `Read`, `Bump`, `Store` are `dbget_game_typenextid`, which counts in the memory of the
library (`statbuf`). `Resolve` and `Fetch` are `game_type_share_by_id`, `Walk` the cursor of `game_type_next`.
A definition is its name and whether it loads (`Broken`).

`ServerLife` runs both programs on one file, over any number of runs: `Create`, `MakeTable`, `MakeRoot` and `AddUser` are
`qgserver-tool`; `Start`, `Discover`, `Serve`, the requests, `Stop`, `Exit`, `Fault` (SIGSEGV trap), `Kill` and `KillInFlush` are `qgserverd`. The tool
is used when the daemon is down; a kill between its own table and counter is the second branch of `NewUser`. `AskLogin` is there because `/login` syncs whatever other requests have stored so far. There is no fairness: whether `mg_stop` returns, so that `Exit` can follow, is the question of `WorkerPool`.
`IdsLeft` and `Fresh` keep the counter of types within `MaxTypes`, `Short` keeps the list of a torn file short and gives it one game; the program has no such limits.
`Careful` is an assumption on the operator: with several workers all definitions load, new ones are added between two runs
only, and a torn file is served by one worker. Without it two workers that meet an unknown name at the same time both append to the array and draw the same id, and `GameKeepsRules`,
`ListIsTheTable` and `Roomy` fail: the array and the counters have no lock. With one worker, the default, nothing is assumed.
With `Careful` and several workers nobody adds to the array while requests are served. It is still not only read: `Search` makes room for a name nobody has, so that a `/crea` of an unknown name moves a full array
under the other threads. `ListIsStable` says that this is all, and that one such move leaves room for the next name; that no reader is in the array at that moment does not hold and is not claimed.

### GamesWalk

`game_next` over a cursor, which is read without `update_semaphore`: the library is opened without `DB_THREAD`, and locks only with
option `-H`. One `dbcur_get` is taken to be indivisible; between two of them other threads store and delete games at will (`Change`).
Between walks nobody looks at the table, so a walk begins with any. A cursor that cannot be made is a NULL that `dbcur_get` dereferences (`NoCursor`); the process ends and is started again (`Started`).

### Base64, CJson, CYaml, Answers

A text is a sequence of symbols: the characters the code tells apart, and words and numerals, each of which stands for a run of other
characters the code only copies and counts. `Json` and `Yaml` are the printers, `JsonRoom` and `YamlRoom` the bytes they allocate before they
print, `Parse` is `cJSON_Parse`. All of them are recursive functions, so that they can be reasoned about: the printers on `Trees`, which are the trees the
functions of cJSON build with up to `MaxDepth` levels (the answers have five), the parsers on the texts over `Symbols`. Lines of base64 have `BinLine` characters, 50 in the code and 6 in the run, so that images of 0 to
7 bytes end before, at and behind the end of a line. `Answers` builds the tree of each handler from a game,
a `Partida`, a list of types, or the list of `GamesWalk`, with every optional member there and missing, and prints it in the format of the
URI. `JoinTargets` is the list of targets of the last move, which `game_to_cJSON` joins in `destino[180]` (`TargetSize`, counted in symbols): it ends at the first target that is too long by itself. The test
was meant to add up the lengths, but its `len` stays 0 (`game.c:75`), so several targets together may be written past `destino`; that, and the `sprintf` of `destino` into itself, is not modelled, and `AnswerConstants` excludes it. The reader of YAML in `YamlReadsBack` is the one thing not taken from the code; it cannot tell a number or a boolean from
a string, nor an empty string from an object without members: the format does not say which it is. It takes the rest of a line as it stands, where a strict one
refuses a plain text with ": " in it, such as the one of `/registraciones` (`webservice/app/game.c:540`): `cYAML.c` writes quotes only around characters it escapes.

### Http, Md5, Logins

`Http` is `parse_http_request`, `get_header`, `mg_get_var`, `url_decode` and `get_var` of `webserver.c`. `Logins` lets a client spell a form in all ways (which
variables, in the query or the body, percent encoding, capitals, three ways to write a head) and asks whether the handler gets what was
meant. The client may write "?" and nothing behind it, and `%00`: the handlers use C strings, so a value ends at its first NUL (`CString`). It writes no "%" that is not an encoding: there the code reads up to two bytes behind the value.
`parse_http_request` keeps `MaxHeaders` headers (64 in the code); `LoginConstants` puts the length among them, and rules out a header "Content-Lenght", which would bound the body (that is in `Requests`).
`Md5` is the buffering, the count of bits in two words and the padding; the arithmetic of `md5_process` is replaced by the sequence of
blocks it was given, so two digests are the same only if all the blocks are. In the run blocks have 8 bytes instead of 64 and words
one byte instead of 4, so the low word overflows and the padding takes both of its forms; the theorems hold for `BlockSize = 64` and `WordBytes = 4`.
`parse_http_headers` and `url_decode` are recursive functions on texts over `Symbols`, which is any set of symbols that has the ones the code tells apart; in the run it is
all strings.

### Packer

One behaviour packs one record argument by argument (`Pack`: one turn of the loop),
hands it to a reader (`Store`), and unpacks it field by field (`Number`, `String`,
`Blob`: one turn of that loop). A C value is the sequence of its bytes, lowest first.
The reader has the same format, or one with further fields (a program newer than the
file), or the shorter one of the index of game types. `strlen` past the end of the record
is a choice: the next byte in memory is 0, or it is not. Lengths stay below `INT_MAX`,
so a blob never has a negative length. A blob may be empty: then its length is packed and not skipped by the reader, and `RoundTrip` promises the fields up to it only (`NoneEmpty`). The server never packs `h`; the rules for
it are in the module and in the theorems.

## 3. Runs

| run | shows |
|---|---|
| `single_games` | one thread, three users of whom one is administrator, two games, failing writes, games that cannot be played, bodies that hold no game: the games implement `GameRepository`, a 200 shows the stored record, only entitled users write, the process goes down only in the handlers that take a NULL for granted and before they have stored anything, nobody is stuck (deadlock is checked) |
| `single_sessions` | one thread, two users, two sessions, a clock of four ticks and a timeout of one: sessions implement `SessionRegistry`, and one that ran out or was closed is not used again |
| `pool_liveness` | two threads, everything but `/desregistra`: every request is answered |
| `pool_failures` | two threads, failing reads and writes, games that cannot be played, bad bodies, crashes and restarts: sessions keep their user |
| `worker_pool` | two workers of which one may not start, four connections, a ring of two: the ring is a `BoundedQueue`, no connection is in two places or forgotten, no wakeup is lost while the server runs, what the threads share is destroyed last, every accepted connection is served, an idle server stops |
| `requests` | two workers, fifteen kinds of connection, every fragmentation: each request is routed by its own URI, nobody gets to a game without a session, head and body are found, blocks are freed once, the scanner ends the process in one known case only |
| `server_life` | a file made and opened over any number of runs, one or two workers, two game types and a broken one, two games, kill, fault and stop at any point, kills between two tables of a flush included: an id that reached the disk with its counter keeps its name whatever happens; while no flush was cut short games keep their rules and the array agrees with the table; the array stays in its memory, and while two workers serve it gets no entry |
| `answers` | every answer of every handler in six formats: the printers write nothing past the memory they allocated (`AnswerFits`), a client that parses the JSON (`JsonReadsBack`) or reads the YAML (`YamlReadsBack`) gets the tree that was built; the walk of `/registraciones` is complete and in order while others write |
| `logins` | up to three variables, the characters that must be encoded in each way the code reads, NUL included, three heads of which one has more headers than are kept: the handler gets the variables the client means up to the first NUL, accepts exactly the right password, and a decoded variable fits its block, but for one byte when query and body are empty |
| `packer` | all formats, five kinds of newer readers, boundaries of a small `ALLOC_SIZE`: nothing is written past the allocation, fields up to an empty blob come back, missing ones of a record without one are zero and counted, the index of users is keyed by the code |
| `lost_move` | violated: a stored move is never lost |
| `stop_hangs` | violated: `mg_stop` returns |

Bounds. Two threads are enough for every race in the list: each is between one request
and one other. Two games and three users separate owner, stranger and administrator;
`MaxMoves` = 2 gives a game that is new, in play and over, and a history that can shrink. A
clock of four ticks with a timeout of one lets a session be used, expire by one
tick and be touched at each moment. `known` and the `Sent` guards bound the number of games and
sessions. In `worker_pool` four sockets go through a ring of two, so it is full while two more wait and its indices wrap.
In `requests` the buffer holds five bytes: a head ends in it, fills it, or is too long, and the body begins in it or behind it; `POST_BUFFER_LEN`
is shorter than one body, and one client bounds its body to one byte; parameters of different lengths follow each other in one buffer. In `server_life` two types and the broken
one fill the counter exactly, `Chunk` = 1 makes the array grow at every entry, and two games tell a type confused with
another. `MaxUsers` is 1 there: no property of the run looks at users. The two types that load are exchanged by symmetry. In `answers` lists have up to three elements, one target alone is too long for `destino`, and the walk has three keys, so that one can vanish or appear
before, under and behind the cursor. In `packer` strings have up to three bytes and blobs none to five, `ALLOC_SIZE` is 4 instead
of 128: every datum meets the cases "fits", "one step" and "longer than a step" of ADDDATA.

Deadlock is checked where the system goes on for ever (`single_*`, `pool_liveness`, `answers`, `logins`). It is switched off where the
program really stops: `pool_failures` (two `/desregistra` leave the mutex locked), `packer` (the functions return), `worker_pool` (the pool has stopped), `requests` (the scanner has ended the process), and `server_life` (a daemon that is down may stay down, and does once the bounds on the counters are used up). The violation runs check one property and nothing else.

Fairness. Of threads that run, and of nothing else; clients need not send requests, the clock need not advance, nobody need send a signal.
`QgServer`: weak fairness of each worker's `Step`. A call is one action and the semaphore is free between calls, so a step once
enabled stays enabled until it is taken. `WorkerPool`: weak fairness of the main thread, of the master without `Accept`, and of each worker;
`Serve` is fair because a request that was read ends. A pthread mutex is not fair, but here it is released within
the same action, or by a step that needs nothing else (the thread that blocks). `ServerLife` has none: its properties are about what is, not about what must come.

## 4. Where the code departs from what it says

With a run:

* `lost_move`: `game_save` (`src/games.c:245`) writes the whole record over whatever is
  there: a move answered 200 is lost. In the same way a `/tablero` or `/mueve` in flight stores
  again a game that was deleted in between.
* `stop_hangs`: `mg_stop` sets `stop_flag`, and the master broadcasts `sq_full` (`webservice/mongoose.c:4098`), without the mutex. A worker between its test and
  its wait misses the broadcast and sleeps for ever. Likewise a worker that sees `stop_flag` (3952) leaves without
  the signal the comment at 3967 counts on, while the master waits for room.

Met while modelling; the assumptions of the theorems and the guards of the runs name them:

* A closed session is reopened: `session_save` in `game_controller` (`webservice/app/game.c:605`)
  writes `closed_at = 0` over a logout of another thread (`src/session.c:208`: never to be
  used again). `ImplementsRegistry` needs one worker.
* `/registra` checks the rights on the record that was loaded, not on the one that is
  replaced (`webservice/app/game.c:411`). `Entitlement` leaves it out.
* `dbdel_data` returns from DB_NOTFOUND with the mutex locked (`src/dbmanager.c:643`): two `/desregistra` of one game stop the server.
  `pool_liveness` leaves it out.
* An empty body posted to `/registra`: `game_free` twice, or of NULL (`webservice/app/game.c:423`); one that holds no game: `strdup` of NULL (426). `CrashesAreKnown` names both.
* `game_partida` gives NULL for a game that cannot be played (`src/games.c:328`). `/mueve` and `/posibles` test it (`webservice/app/game.c:308`, `371`), `/tablero` and `/historial` do not (147, 243). `CrashesAreKnown` names them, and `/partida` and `/crea`, which take the
  type of the game for granted (65).
* `binary_unpack` does not skip the length of an empty blob
  (`common/packer.c:237`). The test that saves such a game (`test/test-create-game.c:60-65`) only
  asserts that the date is positive. `RoundTrip` and `NewFields` except what follows one; the theorems assume there is none.
* `dbact_sync` and `dbact_close` flush seven tables and indexes one after the other (`src/dbmanager.c:750-760`), the types before their counter: after a kill in between the next run draws their ids
  again, so that a stored game changes its rules and the list has two names under one id. `GameKeepsRules` and `ListIsTheTable` except such files, `TypeIdsAreForGood` says what holds of them.
* `game_type_share_by_name` moves the shared array for a name that turns out to be unknown (`src/game_types.c:268-271`), without a lock, under threads that are searching it: `ListIsStable`.
* A cursor that could not be made is used (`src/games.c:357-363`): `NoCursor`.
* `destino[180]` (`webservice/app/game.c:75-84`) is guarded by a `len` that stays 0; `route_param[100]` (`routes.l:158`, `168`, `176`) by nothing. Both are excluded by assumptions on the constants (`AnswerConstants`, `Short`).
* `get_var` with an empty query and no body does `malloc(0)`, and `mg_get_var` writes one byte there (`webserver.c:270-274`, `mongoose.c:1504`): the exception in `FitsBlock`.
* A head with 64 headers before `Content-Length` has no body for the server (`mongoose.c:2600`), a client that does send "Content-Lenght" bounds its own body (`webserver.c:231-234`), and `%00` ends a variable (`src/users.c:53`): `LoginConstants`, `MaxVal`, `CString`.
* `/desregistra` confirms a delete that failed (`webservice/app/game.c:480`),
  which is why `AnswerShowsTheStore` leaves it out; `/registraciones` answers 200 with what was listed
  when reading the table fails (`webservice/app/game.c:367`), which is the escape `failed` in `WalkIsComplete`.
* The parameter of a URI may carry the tail of an earlier, longer one (`routes.l:168`; `test/test-routes.c:62` compares it in a fresh process).
  `RouteIsOwn` says that it begins with its own text. A game id that ends like a format and has no dot
  reaches `error()` and ends the process (`routes.l:174`): `EndsOnlyDotless`.
* `render_400` answers 404 (`webserver.c:89`).
* An interrupted `qgserver-tool -c` leaves a file on which it cannot be repeated (`src/dbmanager.c:446`).
* With several workers the list of game types and the counters are written without a lock (`src/game_types.c:259`,
  `src/dbmanager.c:218`): see `Careful`.

`lost_move`, the first three of these, the realloc and the last need more than one worker (option `-w`, "experimental"; the default is one). `stop_hangs` does not: one worker that misses the broadcast is enough.

## 5. Proofs

All theorems hold for any number of users, games, sessions, moves, workers, sockets and keys, and any size of ring.

**QgServer: `Invariance`, `TypeCorrect`** (`Spec => []IInv`, `[]TypeOK`). `TypeOK` is not inductive:
`Save` stores `gcopy` and `Touch` stores `scopy`, which are records only at the
places where the code has loaded them. `IInv` adds what `WorkerOK` says of each place,
and that ids not yet drawn have no record.

**`Entitlement`**: any number of threads, `"registra" \notin Ops` and `~ReadMayFail`
give `OnlyEntitledWrites`. The loaded copy may be stale, so the proof cannot say that it is the
record. `CopiesAgree` says what survives staleness: every copy and the record name the same
owner, whether or not the game was deleted and stored again. Both assumptions are needed:
two requests `/registra` of one id refute it without the first, and an unreadable table of users makes
`session_user` decode anything.

**`MutexIsReleased`, `RepositoryRefinement`**: `OneWorker`. `SoloInv` says
that what the thread loaded is what the table holds, and that what it is about to store
is an operation of `GameRepository` applied to it; then the delete never meets a missing record,
`Save` is one abstract step, every other step stutters. The first (`MutexReleased`: the semaphore is free after every call) allows failing reads
and writes; the other assumes `~ReadMayFail`.

**`OnlyKnownCrashes`** (`CrashesAreKnown`): one thread, or any number where nobody deletes, and `~ReadMayFail`; games that cannot be played and bodies without a game are allowed. The places where the code takes a NULL for granted are
known (`MayCrash`), and nothing has been stored by the request that gets there. What has to be proved is the rest: no other step crashes. That is `/crea`, which does not look at the result of its second `game_load`; `CreatedStay` says that its game is
there, because ids are drawn once and nobody deletes, or nobody else runs.

**`MutexIsReleasedByAll`**: any number of threads, as long as no client asks for `/desregistra` (`NobodyDeletes`); failing calls and crashes
included. It is the safety half of `EveryRequestAnswered`: no call keeps the mutex from the other threads.

**`AnswersShowTheStore`**: `OneWorker`, with failing reads and writes. `SoloInv` covers the views and `game_save`;
`LastCalls` adds that what `mueve` stored is still in the table after `dbact_sync`, when it answers.

**`SessionsKeepUsers`** needs no assumption: a session that was loaded is in the table and has the
user of its copy (`SessionsBound`). **`GoneSessionsStayGone`** (`GoneForGood`) needs none either: who has not got past `routes_filter` with a session that is closed or ran out never will, so
no touch brings it back. **`RegistryRefinement`** needs `OneWorker` only
(`SessionsAreCurrent`).

**WorkerPool: `TypeCorrect`, `DestroysLast`, `WakesUp`, `OnePlaceOnly`, `ForgetsNone`, `RingIsAQueue`**: no assumption but `PoolConstants`. One inductive
invariant carries all of them: `MutexOK` (who holds the mutex across a step is about to block, a worker on an empty ring, the master on a full one), `PhaseOK` (the order of starting
and stopping), `CountOK` (`num_threads` is at least the number of workers that have still to count themselves out), `HandsOK` (where a thread may hold a socket), `RingOK` (the slots between tail and head hold sockets), and the properties themselves: `NoLostWakeup` needs that a worker blocked while the ring holds
work has another one awake, which a signal per `produce_socket` maintains. For the refinement a step of the ring is an `Append` or a `Tail` of `Waiting`; the lemmas about `%` say that wrapping both
indices by `Size` moves no slot.

**GamesWalk: `WalkInvariance`, `ListsAreComplete`, `AnswersListCompletely`**: any set of keys and any interleaving. `WalkInv` says that all keys listed are at or before the
cursor and in order (`ListInOrder`), and that a game the user had a right on since the walk began and that lies behind the cursor has been listed (`ListedBehind`); a deletion
under the cursor does not move it. The handler that answers the list takes no other step on the cursor (`WalkRefined`). A cursor that cannot be made ends the walk with the process.

**Answers: `AnswersTyped`, `AnswersFit`, `AnswersReadBack`** (the invariants `AnswerFits` and `JsonReadsBack`): any games, boards and lists of types, with every optional part there or missing,
strings over any symbols, images of any number of bytes, lists of any length up to `MaxCount`, any `BinLine`. The constants are what the tables and the library can hold (`AnswerConstants`: the fields of
a game and of a board, and that a number up to `MaxCount` has a numeral), the words the handlers write are symbols (`AnswerWords`), and the kinds of symbols are apart (`JsonConstants`, `Base64Constants`,
`YamlConstants`: a numeral is no bracket, no space, no quote and no word of JSON). The targets of each move are taken to fit `destino`.

`AnswerTypeOK` says that what is answered is `None` or an object of `Trees` without a name, one lemma per handler. The rest holds for every such tree, whoever built it:

* The equations of `Tree`, `Json`, `Yaml`, `Within`, `Total`, `Decode`, `StringBody`, `Parsed` and `InJson` are not contradictory: each is a function, by the lemmas of `Recursion`, because a child is lower than its tree, a rest is shorter than
  its text, and a parser takes at least one symbol before it calls another. That the parsers do leave a shorter text is proved with their existence, not assumed.
* `AnswersFit`: the length of what is printed against the sum the code makes before it prints (`Total`): a string by the characters that are escaped, a member of an object by its name, colon, comma and
  tabs, base64 in YAML by the number of its lines, the last one not full. It holds for every tree in JSON, and in YAML for every item but one: an array at the root is allowed two bytes an entry and takes three
  (`common/cJSON/cYAML.c:99`), so the proof needs what `AnswerTypeOK` says, that handlers answer objects.
* `DecodeEncode`: by induction on the number of bytes, a group of three at a time, the last one of one or two bytes with its padding.
* `ParseStringReads`: by induction on the string, with one case for each way a character is written.
* `TreeReads`: by induction over trees (the lemma `TreeInduction`), with `ReadsAs`: what is printed, with *anything* behind it, is parsed as the tree and leaves exactly what was behind. It is stronger than reading one answer back, and has to be:
  a child is followed by a comma, a newline or a bracket. Arrays and objects are inductions over their members from the last to the first.

**`PackerTypes`, `NeverOverflows`, `RecordsComeBack`, `NewFieldsAreMissing`, `CodesAreIndexed`**: any formats, arguments of any length,
any `ALLOC_SIZE` and any fields added by a newer reader. For `RecordsComeBack`, `RInv` says that there is a
list of offsets at which the pieces of the arguments lie in the record (`Layout`), and that
the pointer of `binary_unpack` is at the offset of the field it reads next (`Reading`); a
piece is then read back because its length, its terminator or its width can be found in its own bytes.
It assumes `Representable`: no empty blob, and no int of more than
16 bits where the format says `h`. So does `NewFieldsAreMissing`: with all stored fields read the pointer is at the end of
the record, and `NInv` says that each field after that is missing and counted, or is the one string that leaves the
pointer behind the end, where nothing can be read. `CodesAreIndexed` needs the layout only, and no assumption. `PackerTypes` (`TypeOK`: the pointer is at most one byte
behind the record) is proved and not a property of the run, which would add nothing to it.

**ServerLife: `Invariance`, `TypeCorrect`, `RulesAreKept`, `ListAgrees`, `ArrayHasRoom`, `TypeIdsStay`, `ListKeepsItsEntries`** (the properties `TypeOK`, `GameKeepsRules`,
`ListIsTheTable`, `Roomy`, `TypeIdsAreForGood`, `ListIsStable`): any number of workers, users, games and definitions, any number of runs, kills and faults, kills within a flush included.
They assume `Careful`: with one worker, the default of `-w`, it says nothing; with several it says that all definitions load, that new ones are put
there between two runs, and that the file is not torn. Without it two threads search and append to the array at once (hazard `game_types.c:259`).
`IInv` is `Base /\ (Sane \/ Alone)`. `Base` holds on any file: `PhaseOK` (who runs in which phase, and that a worker at work has open handles), `FileOK` (`init_db` makes the tables in order, and a file
that lacks one has no games), `AllHold` (what a thread holds at each place, above all that there is room for the entry it is about to add), and `CountsOK`: the counter of the process is as far as the one on the disk, and the process sees every type that reached the disk with its counter.
That is what makes `TypeIdsAreForGood` survive torn files: an id that is drawn is behind the counter of the disk, and the counter is flushed after the types.
`Sane` is for files no kill has torn: `TablesOK` (the tables on the disk and in memory are `Sound`: the ids of types are behind the counter, their names are different and defined, games keep their rules; what the disk has
the memory has too), `ThreadsOK` (the name a thread looks for is not in the list, the id it drew is free) and `WideOK` (with several
workers every definition is in the list before requests are served, and no worker is on the way to add one). No property is inductive without them: an `Append` is right only because of what the thread found before it. `WideQuiet` makes the
knowledge of one thread survive the steps of another: with several workers nobody adds to the list or to the table of types. `Alone` is for torn files, where the tables need not be sound and one thread works at a time. The assumptions `AbsentOK` and `GameTypesOK` say that the model values for no table and no record are neither.

**Requests: `Invariant`, `TypesHold`, `RoutesAreOwn`, `SessionsAreRequired`, `HeadsAreFound`, `BodiesAreOwn`, `OnlyDotlessEnd`, `BlocksHeld`** (all safety
properties of the run): any number of workers, any requests of any length, any size of buffer, of `POST_BUFFER_LEN` and of `route_param`, any letters and session ids.
`RouteConstants` keeps the kinds of symbols apart: the byte 0 is part of no word, and "/" and "." are neither letters nor sessions. `RequestConstants` says what a
client sends: a URI whose pieces between two "/" fit `route_param` (`Short`; without it the theorems would speak of a scanner that overwrites other variables); a head that is complete with its last byte and not before; `Content-Length`, if there is one, is the length of
the body; "Content-Lenght", if there is one, is any natural number; it may close early. Nothing is assumed about the order in which bytes, workers and handlers come. `IInv` is `Shared` and, for each worker, one part per question.
`Shared`: the worker that holds the mutex is the one between `get_ruta` and the copy, and what it is about to copy leads where its own URI does.
`Reading`, `Whole`: while the head is read, buffer and socket together hold what the client sends and the buffer no complete head; then neither gives up a byte until
the handler asks for the body. `Closing`: who is refused deserves it. `Body`: what `mg_read` collected is the beginning of the body, as far as the client sent it. `Blocks`: there is one block
if `user_data` points to one. `Mine`: the copy of the route. `HeadIsFound` and `BodyIsOwn` are not inductive without `Reading` and `Whole`: that the head ends at its last byte says nothing about a buffer
of which nobody knows what it holds. That the search for the end finds nothing in a shorter buffer, and the same end in a longer one, is a lemma of its own.

One theorem is about `get_ruta` alone. `GetRutaIsOwn`: whatever the global variables hold, in a `Short` URI it finds the controller, action, format and
session of the URI, a parameter that begins with the URI's own, and no operation on games or types without a session. The lemma `GetRutaDotless`: it
reaches `error()` only for a game id that ends like a format and has no dot. `yylex` is a recursive function; that it exists (its equation
is not contradictory, the lemma `LoopFunctionExists`) follows because each turn of the scanner uses up some text, and both lemmas are inductions over the
length of the text that is left, with two scanners side by side in the first: one that begins with fresh variables, one with those another request left. That what is left of a `Short` text is `Short`, and that the copies of its rules fit (`ParametersFit`), is proved with them. The induction
principles of the library take an operator as a parameter, which the provers cannot instantiate, so `Recursion` states them with a set instead (`SetInduction`,
`MeasureInduction`), and proves from them that functions defined by recursion exist.

**Logins: `VarsAreReadBack`, `LoginsAreRight`, `GetVarFits`** (all properties of the run): any symbols, names, values, spellings, users, key, heads and number of
variables, any `POST_BUFFER_LEN`, any size of a word up to four bytes and of a block. `LoginConstants` says what a client writes: one of the ways to spell a
character that `SpellingsOf` lists, names without a separator, a head with a `Content-Length` and any other headers before and behind it, with any end of a line; fewer than `MaxHeaders` before it, and none "Content-Lenght". Values are read up to their first NUL. `IInv` says that each
form has no space and holds exactly what the client wrote (`Holds`: a name is found if and only if it was written, and its value
decodes to the one meant), and that what was sent, read and answered are functions of the forms. The step that matters is `Write`, by `AddedFinds`: a variable added to a form is found, those before
it are found as before, and no name begins inside a value. It rests on two inductions over texts: `SpelledDecodes` (`url_decode` reads a value back, however it is spelled) and, when the head is
read, `HeadReads` (`parse_http_request` reads back any head, line by line, up to `MaxHeaders` headers). `GetVarFits` needs `DecodedFits`: `url_decode` writes no more than there is room for; the case of an empty query and an empty body is stated apart, with the one byte that is written.

`LoginsAreRight` is about the digest too. `FinishIsReference`: `md5_append`, called with any pieces, keeps the count, the full blocks and the bytes that wait
(`Represents`), so that `md5_finish` folds the blocks of RFC 1321. The count is kept in two words; that it is the number of bits, carry and `nbytes >> 29` included, is
`CountAdds`; that it gives the offset in a block although the low word overflows is `OffsetIs`, which needs that blocks end where the word overflows (`Md5Constants`). `DigestsTell`: two passwords with the same blocks are the same, because the padding has one 128 and the
length in bits tells how much of it there is. What it does not say is that `md5_process` has no collisions.

Only model-checked: liveness (`EveryRequestAnswered`, `EveryConnectionServed`, `IdleServerStops`), which is out of the prover's reach;
`YamlReadsBack`, whose reader is no code of the repository (a theorem about it would be one about the reader); and the violation runs.

## 6. Not modelled, and the plan

Not modelled, because the server does not use it: files, CGI, SSL, proxying and authentication of `mongoose.c`, the parts of cJSON nobody calls,
the cursor of users and `session_del`, which only tests call. Not modelled, because nothing depends on it: the log, the parsing of options, the load scripts. External: the rules of the games
(`qgames`) and the Berkeley library. Beyond these modules: the arithmetic of `md5_process` (a pure function, tested by its vectors), option `-H` (an environment with
locks), a record overwritten by another thread between the fetch and its decoding (`dbmanager.c:705`: what it decodes to is up to the library's buffers), a fault inside a
call of the library, with the mutex held (`qgserverd.c:41`), the new password of a user that is there already.

Next:

1. Fetch and decoding as two steps, with a record in memory that the next call of another thread overwrites.
2. What `ImplementsRepository` still promises with several workers, if the requests of a game are taken one at a time.
