-------------------------- MODULE SessionRegistry ---------------------------
(***************************************************************************)
(* What a session promises: it belongs to one user for ever, it is seen    *)
(* at times that never go back, and once closed it is never used again.    *)
(* QgServer, run with one worker thread, implements this module.           *)
(***************************************************************************)
EXTENDS Naturals

CONSTANTS Users,      \* user ids
          SessIds,    \* keys of the table "sess"
          NoSess      \* no record under this key

VARIABLES sess,       \* the table: SessIds -> record or NoSess
          clock       \* gettimeofday, in the unit of SESSION_TIMEOUT; starts at 1

SessRec == [user : Users, seen : Nat, closed : Nat]   \* closed = 0: open

TypeOK == /\ sess \in [SessIds -> SessRec \cup {NoSess}]
          /\ clock \in Nat \ {0}

Open(s)  == sess[s] # NoSess /\ sess[s].closed = 0

Init == sess = [s \in SessIds |-> NoSess] /\ clock = 1

Issue(s, u) ==
  /\ sess[s] = NoSess
  /\ sess' = [sess EXCEPT ![s] = [user |-> u, seen |-> clock, closed |-> 0]]
  /\ UNCHANGED clock

\* An open session is marked as seen now.
TouchSession(s) ==
  /\ Open(s) /\ sess[s].seen <= clock
  /\ sess' = [sess EXCEPT ![s].seen = clock]
  /\ UNCHANGED clock

\* An open session is closed now, for good.
CloseSession(s) ==
  /\ Open(s) /\ sess[s].seen <= clock
  /\ sess' = [sess EXCEPT ![s].seen = clock, ![s].closed = clock]
  /\ UNCHANGED clock

Tick == clock' = clock + 1 /\ UNCHANGED sess

Next == \/ Tick
        \/ \E s \in SessIds : \/ \E u \in Users : Issue(s, u)
                              \/ TouchSession(s)
                              \/ CloseSession(s)

Spec == Init /\ [][Next]_<<sess, clock>>
=============================================================================
