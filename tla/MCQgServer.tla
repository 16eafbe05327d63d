----------------------------- MODULE MCQgServer -----------------------------
(***************************************************************************)
(* Small instances of QgServer for TLC.                                    *)
(***************************************************************************)
EXTENDS QgServer, TLC

CONSTANTS m1, m2, w1, w2

\* A game posted to /registra: one move played, already analysed.
OneBody   == {[moves |-> <<m1>>, calc |-> TRUE]}
\* The same, and bodies the handler must refuse.
AllBodies  == OneBody \cup {Unknown, EmptyBody, Garbage}

GameOps    == OnGame \cup {"login", "crea"}
SessionOps == {"login", "logout", "lista"}
NoDeletion == AllOps \ {"desregistra"}
PlayOps    == {"login", "crea", "mueve", "tablero"}
FailOps    == {"login", "logout", "lista", "tablero", "registra", "desregistra"}
=============================================================================
