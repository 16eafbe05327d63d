---------------------------- MODULE MCServerLife ----------------------------
(* Two workers, two loadable game types and one whose definition is broken, two games. *)
EXTENDS ServerLife, TLC

CONSTANTS root, ana, chess, go, bad, g1, g2

MCCodes   == {root, ana}
MCNames   == {chess, go, bad}
MCBroken  == {bad}
MCGameIds == {g1, g2}
MCWorkers == 1..MaxWidth

\* The two game types that load may be exchanged.
MCSymmetry == Permutations(MCNames \ MCBroken)
=============================================================================
