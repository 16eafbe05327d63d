----------------------------- MODULE MCRequests -----------------------------
(* Instances of Requests for TLC. *)
EXTENDS Requests, TLC

CONSTANTS w1, w2, S1

TwoWorkers == {w1, w2}

Unix == <<"c", "n", "n">>
Dos  == <<"n", "r", "n">>

Get(uri, head) == [uri |-> uri, head |-> head, body |-> <<>>, length |-> -1, limit |-> -1,
                   sent |-> Len(head)]
Post(uri, head, body, sent) ==
  [uri |-> uri, head |-> head, body |-> body, length |-> Len(body), limit |-> -1, sent |-> sent]

Tablero == <<"/", S1, "/", "tablero", "/", "a", "b", ".", "png">>
Partida == <<"/", S1, "/", "partida", "/", "b", ".", "a", ".", "txt">>
Crea    == <<"/", S1, "/", "crea", "/", "lista", ".", "xml">>
Regs    == <<"/", S1, "/", "registraciones">>
Lista   == <<"/", S1, "/", "lista">>
\* A game whose id ends like a format, asked for without a format.
Dotless == <<"/", S1, "/", "tablero", "/", "a", "png", "/", "a", ".">>
Anonym  == <<"/", "lista", "/", "crea">>
Login   == <<"/", "login", ".", "json">>

\* Requests of every kind: with and without a session, a parameter, a format, a
\* body, a controller; clients that give up within the head or the body, or that
\* bound the body to one byte; a head as long as the buffer and a longer one.
Mixed == { Get(Tablero, Dos), Post(Partida, Unix, <<"1", "2", "3">>, 6),
           Post(Login, Unix, <<"4", "5">>, 5),
           [Post(Login, Unix, <<"4", "5">>, 5) EXCEPT !.limit = 1], Get(Anonym, Unix),
           Post(Partida, Unix, <<"1", "2", "3">>, 4), Post(Login, Dos, <<"4", "5">>, 2),
           Get(Crea, Dos), Get(Lista, Unix), Get(Regs, Dos), Get(<<>>, Unix), Get(Dotless, Unix),
           Get(<<"/", "a">>, <<"c", "c", "c", "n", "n">>),
           Get(Regs, <<"control", "c", "n", "n">>),
           Get(Lista, <<"c", "c", "c", "c", "n", "n">>) }

=============================================================================
