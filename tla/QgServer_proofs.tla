--------------------------- MODULE QgServer_proofs ---------------------------
(***************************************************************************)
(* Theorems about QgServer, for every value of its constants.              *)
(***************************************************************************)
EXTENDS QgServer, TLAPS

\* A step of w leaves the place, the request and the copies of the others alone.
OthersUnchanged(w) ==
  \A v \in Workers \ {w} :
    pc'[v] = pc[v] /\ req'[v] = req[v] /\ scopy'[v] = scopy[v] /\ gcopy'[v] = gcopy[v]

\* After its step w is at label, with session copy s and game copy g.
MovesTo(w, label, s, g) ==
  /\ pc'[w] = label /\ req'[w] = req[w] /\ scopy'[w] = s /\ gcopy'[w] = g
  /\ OthersUnchanged(w)

\* What a step of w has to establish about the frames.
StepOK(w) == FramesOK' /\ WorkerOK(w)' /\ OthersUnchanged(w)

\* The initial state satisfies the inductive invariant.
LEMMA InitIInv == Init => IInv
  BY ConstantsOK DEF Init, IInv, TypeOK, TablesOK, FramesOK, FreshIdsAreEmpty, ControlOK, WorkerOK,
     NoRequest, Request, Args, AllOps, OnGame, Views, Places, Codes

\* What routes.l and the clients put in a request.
LEMMA RequestFacts ==
  ASSUME NEW r \in Requests
  PROVE  /\ r \in Request(AllOps, SessIds \cup {NoSess}, GameIds \cup {NoGame}, Args)
         /\ r.op \in OnGame => r.gid \in GameIds
         /\ r.op = "mueve" => r.arg \in Moves \cup {NoArg}
         /\ r.op = "registra" => r.arg \in Bodies \cup {NoArg}
         /\ r.op # "login" => r.sid \in SessIds
  BY DEF Requests, Request, Args, AllOps, OnGame, Views

\* session_user gives a user id, and the right one when the table can be read.
LEMMA SessionUserFacts ==
  ASSUME NEW w \in Workers, scopy[w] \in SessRec
  PROVE  /\ SessionUser(w) \subseteq Users \cup {Nobody}
         /\ ~ReadMayFail => SessionUser(w) = {scopy[w].user} /\ scopy[w].user # Nobody
  BY ConstantsOK DEF SessionUser, SessRec

(***************************************************************************)
(* The ways a step ends, one lemma each.                                   *)
(***************************************************************************)
\* An answer frees the frame, and an idle worker satisfies its invariant.
LEMMA AnswerRule ==
  ASSUME FramesOK, NEW w \in Workers, NEW code \in Codes, Answer(w, code)
  PROVE  StepOK(w)
<1>1. FramesOK'
  <2>1. NoRequest \in Request(AllOps, SessIds \cup {NoSess}, GameIds \cup {NoGame}, Args)
    BY DEF NoRequest, Request, Args, AllOps
  <2>2. "idle" \in Places
    BY DEF Places
  <2> QED BY <2>1, <2>2 DEF FramesOK, Answer
<1>2. pc'[w] = "idle" /\ req'[w] = NoRequest
  BY DEF FramesOK, Answer
<1>3. WorkerOK(w)'
  BY <1>2 DEF WorkerOK, NoRequest, OnGame, Views
<1>4. OthersUnchanged(w)
  BY DEF FramesOK, Answer, OthersUnchanged
<1> QED BY <1>1, <1>3, <1>4 DEF StepOK

\* Going on with the copies as they are.
LEMMA GotoRule ==
  ASSUME FramesOK, NEW w \in Workers, NEW label \in Places, Goto(w, label), Keep
  PROVE  FramesOK' /\ MovesTo(w, label, scopy[w], gcopy[w])
<1>1. FramesOK'
  BY DEF FramesOK, Goto, Keep
<1> QED BY <1>1 DEF FramesOK, Goto, Keep, MovesTo, OthersUnchanged

\* Going on with a session just loaded.
LEMMA GotoWithSession ==
  ASSUME FramesOK, NEW w \in Workers, NEW label \in Places, NEW s \in SessRec,
         Goto(w, label), scopy' = [scopy EXCEPT ![w] = s], UNCHANGED gcopy
  PROVE  FramesOK' /\ MovesTo(w, label, s, gcopy[w])
<1>1. FramesOK'
  BY DEF FramesOK, Goto
<1> QED BY <1>1 DEF FramesOK, Goto, MovesTo, OthersUnchanged

\* Going on with a game just loaded or changed.
LEMMA GotoWithGame ==
  ASSUME FramesOK, NEW w \in Workers, NEW label \in Places, NEW g \in GameRec,
         Goto(w, label), gcopy' = [gcopy EXCEPT ![w] = g], UNCHANGED scopy
  PROVE  FramesOK' /\ MovesTo(w, label, scopy[w], g)
<1>1. FramesOK'
  BY DEF FramesOK, Goto
<1> QED BY <1>1 DEF FramesOK, Goto, MovesTo, OthersUnchanged

\* A crash leaves the frames as they were.
LEMMA CrashRule ==
  ASSUME FramesOK, NEW w \in Workers, WorkerOK(w), Crash, UNCHANGED known
  PROVE  StepOK(w)
<1>1. FramesOK'
  BY DEF FramesOK, Crash, frames
<1>2. WorkerOK(w)'
  BY DEF WorkerOK, Crash, frames, Malformed
<1>3. OthersUnchanged(w)
  BY DEF OthersUnchanged, Crash, frames
<1> QED BY <1>1, <1>2, <1>3 DEF StepOK

\* The frames of the other workers keep their invariant.
LEMMA FrameRule ==
  ASSUME NEW w \in Workers, ControlOK, known \subseteq known', StepOK(w)
  PROVE  ControlOK'
<1> SUFFICES ASSUME NEW v \in Workers, v # w PROVE WorkerOK(v)'
  BY DEF ControlOK, StepOK
<1> QED BY DEF ControlOK, StepOK, OthersUnchanged, WorkerOK, Malformed

(***************************************************************************)
(* One lemma per action: it keeps the tables typed, the ids not drawn yet  *)
(* without record, and its worker's frame in order.                        *)
(***************************************************************************)
StepKeeps(w) == TablesOK' /\ FreshIdsAreEmpty' /\ known \subseteq known' /\ StepOK(w)

\* A request accepted, or a login refused at once.
LEMMA ReceiveOK ==
  ASSUME IInv, NEW w \in Workers, Receive(w) PROVE StepKeeps(w)
<1> USE DEF IInv, TypeOK
<1>1. WorkerOK(w)
  BY DEF ControlOK
<1>2. TablesOK' /\ FreshIdsAreEmpty' /\ known \subseteq known'
  BY DEF TablesOK, FreshIdsAreEmpty, Receive, db
<1>3. PICK r \in Requests :
        /\ Sent(r)
        /\ IF r.op = "login" /\ r.arg = NoArg
           THEN reply' = [reply EXCEPT ![w] = 400] /\ UNCHANGED <<pc, req>>
           ELSE /\ req' = [req EXCEPT ![w] = r]
                /\ pc'  = [pc EXCEPT ![w] = IF r.op = "login" THEN "login" ELSE "filter"]
                /\ reply' = [reply EXCEPT ![w] = 0]
  BY DEF Receive
<1>4. r.op \in OnGame => r.gid \in known
  BY <1>3, RequestFacts, ConstantsOK DEF Sent
<1>5. FramesOK'
  <2>1. /\ r \in Request(AllOps, SessIds \cup {NoSess}, GameIds \cup {NoGame}, Args)
        /\ {"login", "filter"} \subseteq Places /\ {0, 400} \subseteq Codes
    BY RequestFacts DEF Places, Codes
  <2>2. CASE r.op = "login" /\ r.arg = NoArg
    BY <1>3, <2>1, <2>2 DEF FramesOK, Receive, Keep
  <2>3. CASE ~(r.op = "login" /\ r.arg = NoArg)
    <3> DEFINE label == IF r.op = "login" THEN "login" ELSE "filter"
    <3>1. label \in Places
      BY <2>1
    <3>2. /\ pc' = [pc EXCEPT ![w] = label] /\ req' = [req EXCEPT ![w] = r]
          /\ reply' = [reply EXCEPT ![w] = 0]
      BY <1>3, <2>3
    <3> HIDE DEF label
    <3> QED BY <2>1, <3>1, <3>2 DEF FramesOK, Receive, Keep
  <2> QED BY <2>2, <2>3
<1>6. OthersUnchanged(w)
  BY <1>3 DEF FramesOK, OthersUnchanged, Receive, Keep
<1>7. WorkerOK(w)'
  <2>1. CASE r.op = "login" /\ r.arg = NoArg
    BY <1>1, <1>3, <2>1 DEF WorkerOK, Receive, Keep, db, Malformed
  <2>2. CASE ~(r.op = "login" /\ r.arg = NoArg)
    <3>1. /\ pc'[w] = IF r.op = "login" THEN "login" ELSE "filter"
          /\ req'[w] = r
          /\ UNCHANGED known
      BY <1>3, <2>2 DEF FramesOK, Receive, db
    <3> QED BY <3>1, <1>4, RequestFacts DEF WorkerOK
  <2> QED BY <2>1, <2>2
<1> QED BY <1>2, <1>5, <1>6, <1>7 DEF StepKeeps, StepOK

\* A session loaded and found good, or 403.
LEMMA FilterOK ==
  ASSUME IInv, NEW w \in Workers, Filter(w) PROVE StepKeeps(w)
<1> USE DEF IInv, TypeOK
<1>1. WorkerOK(w)
  BY DEF ControlOK
<1>2. TablesOK' /\ FreshIdsAreEmpty' /\ known \subseteq known' /\ UNCHANGED known
  BY DEF TablesOK, FreshIdsAreEmpty, Filter, db
<1>3. CASE Answer(w, 403)
  BY <1>2, <1>3, AnswerRule DEF StepKeeps, Codes
<1>4. CASE ~Answer(w, 403)
  <2> DEFINE s == sess[req[w].sid]
             label == IF req[w].op = "logout" THEN "close" ELSE "touch"
  <2>1. /\ s # NoSess
        /\ scopy' = [scopy EXCEPT ![w] = s]
        /\ Goto(w, label)
        /\ UNCHANGED gcopy
    BY <1>4 DEF Filter
  <2>2. s \in SessRec
    BY <1>1, <2>1 DEF Filter, At, WorkerOK, TablesOK
  <2>3. label \in Places
    BY DEF Places
  <2>4. FramesOK' /\ MovesTo(w, label, s, gcopy[w])
    BY <2>1, <2>2, <2>3, GotoWithSession
  <2>5. WorkerOK(w)'
    BY <1>1, <1>2, <2>2, <2>4 DEF WorkerOK, MovesTo, Filter, At
  <2> QED BY <1>2, <2>4, <2>5 DEF StepKeeps, StepOK, MovesTo
<1> QED BY <1>3, <1>4

\* session_save of the touched session.
LEMMA TouchOK ==
  ASSUME IInv, NEW w \in Workers, Touch(w) PROVE StepKeeps(w)
<1> USE DEF IInv, TypeOK
<1>1. WorkerOK(w) /\ pc[w] = "touch"
  BY DEF ControlOK, Touch, At
<1>2. TablesOK' /\ UNCHANGED known
  BY <1>1 DEF TablesOK, Touch, PutSess, WorkerOK, SessRec
<1>3. FreshIdsAreEmpty'
  BY DEF FreshIdsAreEmpty, Touch
<1>4. CASE Answer(w, 200) \/ Answer(w, IF req[w].op = "crea" THEN 404 ELSE 400)
  BY <1>2, <1>3, <1>4, AnswerRule DEF StepKeeps, Codes
<1>5. CASE /\ req[w].op # "lista" /\ ~Malformed(req[w])
           /\ Goto(w, IF req[w].op = "crea" THEN "crea" ELSE "load") /\ Keep
  <2> DEFINE label == IF req[w].op = "crea" THEN "crea" ELSE "load"
  <2>1. label \in Places
    BY DEF Places
  <2>2. FramesOK' /\ MovesTo(w, label, scopy[w], gcopy[w])
    BY <1>5, <2>1, GotoRule
  <2>3. WorkerOK(w)'
    BY <1>1, <1>2, <1>5, <2>2 DEF WorkerOK, MovesTo, Malformed, FramesOK, Request, AllOps
  <2> QED BY <1>2, <1>3, <2>2, <2>3 DEF StepKeeps, StepOK, MovesTo
<1> QED BY <1>4, <1>5 DEF Touch

\* session_close.
LEMMA CloseOK ==
  ASSUME IInv, NEW w \in Workers, Close(w) PROVE StepKeeps(w)
<1> USE DEF IInv, TypeOK
<1>1. WorkerOK(w) /\ pc[w] = "close"
  BY DEF ControlOK, Close, At
<1>2. TablesOK' /\ UNCHANGED known
  <2>1. [scopy[w] EXCEPT !.seen = clock, !.closed = clock] \in SessRec
    <3>1. scopy[w] \in SessRec
      BY <1>1 DEF WorkerOK
    <3>2. clock \in Nat
      BY ConstantsOK DEF TablesOK
    <3> QED BY <3>1, <3>2 DEF SessRec
  <2> QED BY <1>1, <2>1 DEF TablesOK, Close, PutSess, WorkerOK
<1>3. FreshIdsAreEmpty'
  BY DEF FreshIdsAreEmpty, Close
<1> QED BY <1>2, <1>3, AnswerRule DEF StepKeeps, Close, Codes

\* The user found and the password right, or not.
LEMMA LoginOK ==
  ASSUME IInv, NEW w \in Workers, Login(w) PROVE StepKeeps(w)
<1> USE DEF IInv, TypeOK
<1>1. WorkerOK(w) /\ pc[w] = "login"
  BY DEF ControlOK, Login, At
<1>2. TablesOK' /\ FreshIdsAreEmpty' /\ UNCHANGED known
  BY DEF TablesOK, FreshIdsAreEmpty, Login, Crash, db
<1>3. CASE Crash
  BY <1>1, <1>2, <1>3, CrashRule DEF StepKeeps
<1>4. CASE req[w].arg \in Users /\ Goto(w, "issue") /\ Keep
  <2>1. FramesOK' /\ MovesTo(w, "issue", scopy[w], gcopy[w])
    BY <1>4, GotoRule DEF Places
  <2>2. WorkerOK(w)'
    BY <1>1, <1>2, <1>4, <2>1 DEF WorkerOK, MovesTo
  <2> QED BY <1>2, <2>1, <2>2 DEF StepKeeps, StepOK, MovesTo
<1>5. CASE /\ pc' = [pc EXCEPT ![w] = "sync"]
           /\ reply' = [reply EXCEPT ![w] = 400]
           /\ Keep /\ UNCHANGED req
  <2>0. "sync" \in Places /\ 400 \in Codes
    BY DEF Places, Codes
  <2>1. FramesOK'
    BY <1>5, <2>0 DEF FramesOK, Keep
  <2>4. OthersUnchanged(w)
    BY <1>5 DEF FramesOK, Keep, OthersUnchanged
  <2>2. pc'[w] = "sync" /\ req'[w] = req[w]
    BY <1>5 DEF FramesOK
  <2>3. WorkerOK(w)'
    BY <1>1, <1>2, <2>2 DEF WorkerOK
  <2> QED BY <1>2, <2>1, <2>3, <2>4 DEF StepKeeps, StepOK
<1> QED BY <1>3, <1>4, <1>5 DEF Login

\* A new session, stored or not.
LEMMA IssueOK ==
  ASSUME IInv, NEW w \in Workers, Issue(w) PROVE StepKeeps(w)
<1> USE DEF IInv, TypeOK
<1>1. WorkerOK(w) /\ pc[w] = "issue"
  BY DEF ControlOK, Issue, At
<1>2. TablesOK' /\ UNCHANGED known
  <2>1. [user |-> req[w].arg, seen |-> clock, closed |-> 0] \in SessRec
    BY <1>1, ConstantsOK DEF TablesOK, WorkerOK, SessRec
  <2> QED BY <2>1 DEF TablesOK, Issue
<1>3. FreshIdsAreEmpty'
  BY DEF FreshIdsAreEmpty, Issue
<1>4. FramesOK'
  <2>1. "sync" \in Places /\ {200, 500} \subseteq Codes
    BY DEF Places, Codes
  <2> QED BY <2>1 DEF FramesOK, Issue, Keep
<1>5. OthersUnchanged(w)
  BY DEF FramesOK, Issue, Keep, OthersUnchanged
<1>6. req'[w] = req[w] /\ pc'[w] = "sync"
  BY DEF FramesOK, Issue
<1>7. WorkerOK(w)'
  BY <1>1, <1>2, <1>6 DEF WorkerOK
<1> QED BY <1>2, <1>3, <1>4, <1>5, <1>7 DEF StepKeeps, StepOK

\* A new game, stored or not.
LEMMA CreaOK ==
  ASSUME IInv, NEW w \in Workers, Crea(w) PROVE StepKeeps(w)
<1> USE DEF IInv, TypeOK
<1>1. WorkerOK(w) /\ pc[w] = "crea"
  BY DEF ControlOK, Crea, At
<1>2. CASE Answer(w, 500) /\ UNCHANGED <<games, known, up>>
  <2>1. TablesOK' /\ FreshIdsAreEmpty'
    BY <1>2 DEF TablesOK, FreshIdsAreEmpty, Crea
  <2> QED BY <1>2, <2>1, AnswerRule DEF StepKeeps, Codes
<1>3. ASSUME NEW id \in GameIds \ known, NEW u \in SessionUser(w),
             games' = [games EXCEPT ![id] = NewGame(u)],
             known' = known \cup {id},
             req' = [req EXCEPT ![w].gid = id],
             pc' = [pc EXCEPT ![w] = "sync"],
             UNCHANGED <<reply, scopy, gcopy, up>>
      PROVE  StepKeeps(w)
  <2>1. NewGame(u) \in GameRec
    BY <1>1, SessionUserFacts DEF WorkerOK, NewGame, GameRec
  <2>2. TablesOK' /\ FreshIdsAreEmpty' /\ known \subseteq known'
    BY <1>3, <2>1 DEF TablesOK, FreshIdsAreEmpty, Crea
  <2>3. FramesOK'
    BY <1>3 DEF FramesOK, Places, Request
  <2>4. OthersUnchanged(w)
    BY <1>3 DEF FramesOK, OthersUnchanged
  <2>5. /\ req'[w] = [req[w] EXCEPT !.gid = id] /\ req'[w].gid = id
        /\ req'[w].op = req[w].op /\ req'[w].arg = req[w].arg
        /\ pc'[w] = "sync"
    BY <1>3 DEF FramesOK, Request
  <2>6. WorkerOK(w)'
    BY <1>1, <1>3, <2>5 DEF WorkerOK, OnGame, Views
  <2> QED BY <2>2, <2>3, <2>4, <2>6 DEF StepKeeps, StepOK
<1>4. CASE Crash /\ UNCHANGED <<games, known>>
  <2>1. TablesOK' /\ FreshIdsAreEmpty'
    BY <1>4 DEF TablesOK, FreshIdsAreEmpty, Crea, Crash
  <2> QED BY <1>1, <1>4, <2>1, CrashRule DEF StepKeeps
<1> QED BY <1>2, <1>3, <1>4 DEF Crea, CreaFails

\* The end of registra, whether a game was found or not.
LEMMA TakeBodyOK ==
  ASSUME IInv, NEW w \in Workers, NEW loaded \in BOOLEAN, NEW u \in SessionUser(w),
         TakeBody(w, loaded, u), UNCHANGED <<db, clock>>,
         req[w].op = "registra", pc[w] \in {"load", "check"}
  PROVE  StepKeeps(w)
<1> USE DEF IInv, TypeOK
<1>1. WorkerOK(w)
  BY DEF ControlOK
<1>2. TablesOK' /\ FreshIdsAreEmpty' /\ UNCHANGED known
  <2>1. UNCHANGED up \/ up' = FALSE
    BY DEF TakeBody, Crash
  <2> QED BY <2>1 DEF TablesOK, FreshIdsAreEmpty, db
<1>3. CASE Crash
  BY <1>1, <1>2, <1>3, CrashRule DEF StepKeeps
<1>4. CASE Answer(w, 500)
  BY <1>2, <1>4, AnswerRule DEF StepKeeps, Codes
<1>5. CASE /\ req[w].arg \in Dump
           /\ gcopy' = [gcopy EXCEPT ![w] = Registered(u, req[w].arg)]
           /\ Goto(w, "save") /\ UNCHANGED <<scopy, up>>
  <2> DEFINE g == Registered(u, req[w].arg)
  <2>1. g \in GameRec /\ "save" \in Places
    BY <1>1, <1>5, SessionUserFacts DEF WorkerOK, Dump, Registered, GameRec, Places
  <2>2. FramesOK' /\ MovesTo(w, "save", scopy[w], g)
    BY <1>5, <2>1, GotoWithGame
  <2>3. WorkerOK(w)'
    BY <1>1, <1>2, <2>1, <2>2 DEF WorkerOK, MovesTo, Malformed
  <2> QED BY <1>2, <2>2, <2>3 DEF StepKeeps, StepOK, MovesTo
<1> QED BY <1>3, <1>4, <1>5 DEF TakeBody

\* The game loaded, or not found.
LEMMA LoadOK ==
  ASSUME IInv, NEW w \in Workers, Load(w) PROVE StepKeeps(w)
<1> USE DEF IInv, TypeOK
<1>1. WorkerOK(w) /\ pc[w] = "load" /\ UNCHANGED <<db, clock>>
  BY DEF ControlOK, Load, At
<1> DEFINE g == games[req[w].gid]
<1>2. CASE /\ g # NoGame
           /\ gcopy' = [gcopy EXCEPT ![w] = g]
           /\ Goto(w, "check") /\ UNCHANGED <<scopy, up>>
  <2>1. g \in GameRec /\ "check" \in Places
    BY <1>1, <1>2 DEF TablesOK, WorkerOK, Places
  <2>2. TablesOK' /\ FreshIdsAreEmpty' /\ UNCHANGED known
    BY <1>1, <1>2 DEF TablesOK, FreshIdsAreEmpty, db
  <2>3. FramesOK' /\ MovesTo(w, "check", scopy[w], g)
    BY <1>2, <2>1, GotoWithGame
  <2>4. WorkerOK(w)'
    BY <1>1, <2>1, <2>2, <2>3 DEF WorkerOK, MovesTo, Malformed
  <2> QED BY <2>2, <2>3, <2>4 DEF StepKeeps, StepOK, MovesTo
<1>3. CASE NotFound(w)
  <2>1. CASE req[w].op = "registra"
    BY <1>1, <1>3, <2>1, TakeBodyOK DEF NotFound
  <2>2. CASE Answer(w, 404) /\ UNCHANGED up
    <3>1. TablesOK' /\ FreshIdsAreEmpty' /\ UNCHANGED known
      BY <1>1, <2>2 DEF TablesOK, FreshIdsAreEmpty, db
    <3> QED BY <2>2, <3>1, AnswerRule DEF StepKeeps, Codes
  <2> QED BY <1>3, <2>1, <2>2 DEF NotFound
<1> QED BY <1>2, <1>3 DEF Load

\* The user checked and the game changed in the copy.
LEMMA CheckOK ==
  ASSUME IInv, NEW w \in Workers, Check(w) PROVE StepKeeps(w)
<1> USE DEF IInv, TypeOK
<1> DEFINE g == gcopy[w]
<1>1. WorkerOK(w) /\ pc[w] = "check" /\ UNCHANGED <<db, clock>> /\ g \in GameRec
  BY DEF ControlOK, Check, At, WorkerOK
<1>2. FreshIdsAreEmpty' /\ UNCHANGED known
  BY <1>1 DEF FreshIdsAreEmpty, db
<1>3. ASSUME up' \in BOOLEAN PROVE TablesOK'
  BY <1>1, <1>3 DEF TablesOK, db
<1>4. ASSUME NEW code \in Codes, Answer(w, code), UNCHANGED up PROVE StepKeeps(w)
  BY <1>2, <1>3, <1>4, AnswerRule DEF StepKeeps, TablesOK
<1>5. ASSUME NEW h \in GameRec, gcopy' = [gcopy EXCEPT ![w] = h], Goto(w, "save"),
             UNCHANGED <<scopy, up>>, req[w].op \in Views \cup {"mueve"}
      PROVE  StepKeeps(w)
  <2>1. FramesOK' /\ MovesTo(w, "save", scopy[w], h)
    BY <1>5, GotoWithGame DEF Places
  <2>2. WorkerOK(w)'
    BY <1>1, <1>2, <1>5, <2>1 DEF WorkerOK, MovesTo, Malformed
  <2> QED BY <1>2, <1>3, <1>5, <2>1, <2>2 DEF StepKeeps, StepOK, MovesTo, TablesOK
<1>6. ASSUME NEW u \in SessionUser(w), req[w].op = "registra", TakeBody(w, TRUE, u)
      PROVE  StepKeeps(w)
  BY <1>1, <1>6, TakeBodyOK
<1>7. CASE req[w].op = "desregistra" /\ Goto(w, "del") /\ Keep /\ UNCHANGED up
  <2>1. FramesOK' /\ MovesTo(w, "del", scopy[w], gcopy[w])
    BY <1>7, GotoRule DEF Places
  <2>2. WorkerOK(w)'
    BY <1>1, <1>2, <1>7, <2>1 DEF WorkerOK, MovesTo, Malformed
  <2> QED BY <1>2, <1>3, <1>7, <2>1, <2>2 DEF StepKeeps, StepOK, MovesTo, TablesOK
<1>8. CASE req[w].op = "mueve" /\ Mueve(w, g) /\ UNCHANGED up
  <2>1. CASE Answer(w, 400)
    BY <1>4, <1>8, <2>1 DEF Codes
  <2>2. CASE /\ gcopy' = [gcopy EXCEPT ![w] = Moved(g, req[w].arg)]
             /\ Goto(w, "save") /\ UNCHANGED scopy
    <3>1. req[w].arg \in Moves
      BY <1>1, <1>8 DEF WorkerOK, Malformed
    <3>2. Moved(g, req[w].arg) \in GameRec
      <4>1. g.moves \in Seq(Moves) /\ g.owner \in Users \cup {Nobody}
        BY <1>1 DEF GameRec
      <4>2. Append(g.moves, req[w].arg) \in Seq(Moves)
        BY <3>1, <4>1
      <4> QED BY <4>1, <4>2 DEF Moved, GameRec
    <3> QED BY <1>5, <1>8, <2>2, <3>2
  <2> QED BY <1>8, <2>1, <2>2 DEF Mueve
<1>9. CASE req[w].op \in Views /\ Recalculate(w, g) /\ UNCHANGED up
  <2>1. CASE Answer(w, 200) \/ Answer(w, 500)
    BY <1>4, <1>9, <2>1 DEF Codes
  <2>2. CASE /\ gcopy' = [gcopy EXCEPT ![w] = [g EXCEPT !.calc = TRUE]]
             /\ Goto(w, "save") /\ UNCHANGED scopy
    <3>1. [g EXCEPT !.calc = TRUE] \in GameRec
      BY <1>1 DEF GameRec
    <3> QED BY <1>5, <1>9, <2>2, <3>1
  <2> QED BY <1>9, <2>1, <2>2 DEF Recalculate
<1>10. CASE (Answer(w, 200) \/ Answer(w, 500)) /\ UNCHANGED up
  BY <1>4, <1>10 DEF Codes
<1>11. CASE Crash
  BY <1>1, <1>2, <1>3, <1>11, CrashRule DEF StepKeeps, Crash
<1>12. ASSUME NEW u \in SessionUser(w), Checked(w, g, u) PROVE StepKeeps(w)
  BY <1>6, <1>7, <1>8, <1>9, <1>10, <1>11, <1>12 DEF Checked, NoPartida
<1> QED BY <1>11, <1>12 DEF Check

\* game_save.
LEMMA SaveOK ==
  ASSUME IInv, NEW w \in Workers, Save(w) PROVE StepKeeps(w)
<1> USE DEF IInv, TypeOK
<1>1. WorkerOK(w) /\ pc[w] = "save"
  BY DEF ControlOK, Save, At
<1>2. TablesOK' /\ FreshIdsAreEmpty' /\ UNCHANGED known
  BY <1>1 DEF TablesOK, FreshIdsAreEmpty, Save, WorkerOK
<1>3. CASE req[w].op = "mueve" /\ Goto(w, "sync") /\ Keep
  <2>1. FramesOK' /\ MovesTo(w, "sync", scopy[w], gcopy[w])
    BY <1>3, GotoRule DEF Places
  <2>2. WorkerOK(w)'
    BY <1>1, <1>2, <1>3, <2>1 DEF WorkerOK, MovesTo
  <2> QED BY <1>2, <2>1, <2>2 DEF StepKeeps, StepOK, MovesTo
<1>4. CASE Answer(w, 200) \/ Answer(w, SaveError(req[w].op))
  BY <1>2, <1>4, AnswerRule DEF StepKeeps, SaveError, Codes
<1> QED BY <1>3, <1>4 DEF Save

\* game_del.
LEMMA DelOK ==
  ASSUME IInv, NEW w \in Workers, Del(w) PROVE StepKeeps(w)
<1> USE DEF IInv, TypeOK
<1>1. TablesOK' /\ FreshIdsAreEmpty' /\ UNCHANGED known
  BY DEF TablesOK, FreshIdsAreEmpty, Del
<1> QED BY <1>1, AnswerRule DEF StepKeeps, Del, Codes

\* dbact_sync.
LEMMA SyncOK ==
  ASSUME IInv, NEW w \in Workers, Sync(w) PROVE StepKeeps(w)
<1> USE DEF IInv, TypeOK
<1>1. WorkerOK(w) /\ pc[w] = "sync"
  BY DEF ControlOK, Sync, At
<1>2. TablesOK' /\ FreshIdsAreEmpty' /\ UNCHANGED known
  BY DEF TablesOK, FreshIdsAreEmpty, Sync, db
<1>3. CASE Answer(w, reply[w]) \/ Answer(w, 200)
  <2>1. reply[w] \in Codes /\ 200 \in Codes
    BY DEF FramesOK, Codes
  <2> QED BY <1>2, <1>3, <2>1, AnswerRule DEF StepKeeps
<1>4. CASE req[w].op = "crea" /\ Goto(w, "reload") /\ Keep
  <2>1. FramesOK' /\ MovesTo(w, "reload", scopy[w], gcopy[w])
    BY <1>4, GotoRule DEF Places
  <2>2. WorkerOK(w)'
    BY <1>1, <1>2, <1>4, <2>1 DEF WorkerOK, MovesTo
  <2> QED BY <1>2, <2>1, <2>2 DEF StepKeeps, StepOK, MovesTo
<1> QED BY <1>3, <1>4 DEF Sync

\* The game of crea read back, or a crash.
LEMMA ReloadOK ==
  ASSUME IInv, NEW w \in Workers, Reload(w) PROVE StepKeeps(w)
<1> USE DEF IInv, TypeOK
<1>1. WorkerOK(w)
  BY DEF ControlOK
<1>2. TablesOK' /\ FreshIdsAreEmpty' /\ UNCHANGED known
  BY DEF TablesOK, FreshIdsAreEmpty, Reload, Crash, db
<1>3. CASE Answer(w, 200)
  BY <1>2, <1>3, AnswerRule DEF StepKeeps, Codes
<1>4. CASE Crash
  BY <1>1, <1>2, <1>4, CrashRule DEF StepKeeps
<1> QED BY <1>3, <1>4 DEF Reload

\* Any step of a worker.
LEMMA WorkerStepOK ==
  ASSUME IInv, NEW w \in Workers, Receive(w) \/ Step(w) PROVE StepKeeps(w)
BY ReceiveOK, FilterOK, TouchOK, CloseOK, LoginOK, IssueOK, CreaOK, LoadOK, CheckOK, SaveOK,
   DelOK, SyncOK, ReloadOK DEF Step

\* Every step preserves the inductive invariant.
LEMMA StepIInv ==
  ASSUME IInv, [Next]_vars
  PROVE  IInv'
<1>1. ASSUME NEW w \in Workers, Receive(w) \/ Step(w) PROVE IInv'
  BY <1>1, WorkerStepOK, FrameRule DEF IInv, TypeOK, StepKeeps, StepOK
<1>2. CASE Restart
  <2>1. TablesOK' /\ FreshIdsAreEmpty'
    BY <1>2 DEF IInv, TypeOK, TablesOK, FreshIdsAreEmpty, Restart, db
  <2>2. FramesOK'
    BY <1>2 DEF FramesOK, Restart, NoRequest, Request, Args, AllOps, Places, Codes
  <2>3. ControlOK'
    BY <1>2 DEF ControlOK, WorkerOK, Restart, NoRequest, OnGame, Views
  <2> QED BY <2>1, <2>2, <2>3 DEF IInv, TypeOK
<1>3. CASE UNCHANGED <<db, up, frames>> /\ clock' \in 1..MaxClock
  <2>1. TablesOK' /\ FreshIdsAreEmpty'
    BY <1>3 DEF IInv, TypeOK, TablesOK, FreshIdsAreEmpty, db
  <2>2. FramesOK'
    BY <1>3 DEF IInv, TypeOK, FramesOK, frames
  <2>3. ControlOK'
    BY <1>3 DEF IInv, ControlOK, WorkerOK, db, frames, Malformed
  <2> QED BY <2>1, <2>2, <2>3 DEF IInv, TypeOK
<1>4. CASE Tick
  <2>1. clock' \in 1..MaxClock
    BY <1>4, ConstantsOK DEF IInv, TypeOK, TablesOK, Tick
  <2> QED BY <1>3, <1>4, <2>1 DEF Tick
<1>5. CASE UNCHANGED vars
  BY <1>3, <1>5 DEF vars, db, frames, IInv, TypeOK, TablesOK
<1> QED BY <1>1, <1>2, <1>4, <1>5 DEF Next

\* The invariant behind the properties holds with any number of threads,
\* whatever fails and whatever the clients send.
THEOREM Invariance == Spec => []IInv
  BY InitIInv, StepIInv, PTL DEF Spec

\* Type correctness: no handler stores or keeps a malformed record.
THEOREM TypeCorrect == Spec => []TypeOK
  BY Invariance, PTL DEF IInv

(***************************************************************************)
(* Any number of threads, as long as nobody may /registra: only a user     *)
(* with rights on a game changes it, although the check is made on a copy  *)
(* and the write comes later.                                              *)
(***************************************************************************)
\* A step of w that touches no record and leaves w without a checked game.
LEMMA AgreeFrame ==
  ASSUME CopiesAgree, NEW w \in Workers, OthersUnchanged(w), UNCHANGED games,
         req'[w].op # "registra", pc'[w] \notin {"check", "save", "del"}
  PROVE  CopiesAgree'
<1>1. \A v \in Workers : req'[v].op # "registra"
  BY DEF CopiesAgree, OthersUnchanged
<1>2. \A v \in Workers : HoldsGame(v)' =>
        /\ v # w /\ HoldsGame(v)
        /\ pc'[v] = pc[v] /\ req'[v] = req[v] /\ gcopy'[v] = gcopy[v] /\ scopy'[v] = scopy[v]
  BY DEF HoldsGame, OthersUnchanged
<1>3. \A v \in Workers : pc'[v] \in {"save", "del"} => HoldsGame(v)'
  BY DEF HoldsGame
<1>4. \A v \in Workers : (HoldsGame(v)' /\ games'[req'[v].gid] # NoGame) =>
        games'[req'[v].gid].owner = gcopy'[v].owner
  BY <1>2 DEF CopiesAgree
<1>5. \A v, x \in Workers : (HoldsGame(v)' /\ HoldsGame(x)' /\ req'[v].gid = req'[x].gid) =>
        gcopy'[v].owner = gcopy'[x].owner
  BY <1>2 DEF CopiesAgree
<1>6. \A v \in Workers : pc'[v] \in {"save", "del"} => CheckUser(gcopy'[v], scopy'[v].user)
  BY <1>2, <1>3 DEF CopiesAgree
<1> QED BY <1>1, <1>4, <1>5, <1>6 DEF CopiesAgree, CheckUser

\* A step of w that leaves it with a game of the owner its copy had.
LEMMA AgreeKeep ==
  ASSUME CopiesAgree, NEW w \in Workers, OthersUnchanged(w), UNCHANGED games,
         HoldsGame(w), req'[w] = req[w], gcopy'[w].owner = gcopy[w].owner,
         scopy'[w] = scopy[w], CheckUser(gcopy[w], scopy[w].user)
  PROVE  CopiesAgree'
<1>1. \A v \in Workers :
        req'[v] = req[v] /\ gcopy'[v].owner = gcopy[v].owner /\ scopy'[v] = scopy[v]
  BY DEF OthersUnchanged
<1>2. \A v \in Workers : HoldsGame(v)' => HoldsGame(v)
  BY DEF HoldsGame, OthersUnchanged
<1>3. \A v \in Workers : pc'[v] \in {"save", "del"} => CheckUser(gcopy[v], scopy[v].user)
  BY DEF CopiesAgree, OthersUnchanged
<1> QED BY <1>1, <1>2, <1>3 DEF CopiesAgree, CheckUser

\* Every step preserves CopiesAgree.
LEMMA AgreeStep ==
  ASSUME IInv, CopiesAgree, "registra" \notin Ops, ~ReadMayFail, [Next]_vars
  PROVE  CopiesAgree'
<1> USE DEF IInv, TypeOK
<1>1. ASSUME NEW w \in Workers, Receive(w) \/ Step(w) PROVE CopiesAgree'
  <2>1. StepKeeps(w) /\ OthersUnchanged(w) /\ WorkerOK(w)
    BY <1>1, WorkerStepOK DEF StepKeeps, StepOK, ControlOK
  <2>2. req[w].op # "registra" /\ NoRequest.op # "registra"
    BY DEF CopiesAgree, NoRequest
  <2>3. ASSUME UNCHANGED games, pc'[w] = "idle", req'[w] = NoRequest PROVE CopiesAgree'
    BY <2>1, <2>2, <2>3, AgreeFrame
  <2>4. ASSUME NEW code, Answer(w, code), UNCHANGED games PROVE CopiesAgree'
    BY <2>3, <2>4 DEF FramesOK, Answer
  <2>5. CASE Receive(w)
    BY <2>1, <2>2, <2>5, AgreeFrame DEF Receive, Sent, FramesOK, db
  <2>6. CASE Filter(w)
    BY <2>1, <2>2, <2>4, <2>6, AgreeFrame DEF Filter, Goto, FramesOK, db
  <2>7. CASE Touch(w)
    BY <2>1, <2>2, <2>4, <2>7, AgreeFrame DEF Touch, Goto, FramesOK
  <2>8. CASE Close(w)
    BY <2>4, <2>8 DEF Close
  <2>9. CASE Login(w) \/ Issue(w)
    BY <2>1, <2>2, <2>9, AgreeFrame DEF Login, Issue, Goto, FramesOK, db
  <2>10. CASE Sync(w) \/ Reload(w)
    <3>1. CASE Crash
      <4>1. pc' = pc /\ req' = req /\ UNCHANGED games /\ pc[w] = "reload"
        BY <2>10, <3>1 DEF Crash, frames, Sync, Reload, At, db, Answer, Goto, FramesOK
      <4> QED BY <2>1, <2>2, <4>1, AgreeFrame
    <3>2. CASE ~Crash
      BY <2>1, <2>2, <2>4, <2>10, <3>2, AgreeFrame DEF Sync, Reload, Goto, FramesOK, db
    <3> QED BY <3>1, <3>2
  <2>11. CASE Crea(w)
    <3>1. ASSUME NEW id \in GameIds \ known, NEW u,
                 games' = [games EXCEPT ![id] = NewGame(u)],
                 req' = [req EXCEPT ![w].gid = id],
                 pc' = [pc EXCEPT ![w] = "sync"]
          PROVE  CopiesAgree'
      <4>1. pc'[w] = "sync" /\ req'[w].op = req[w].op
        BY <3>1 DEF FramesOK, Request
      <4>2. \A v \in Workers : HoldsGame(v)' =>
              /\ v # w /\ HoldsGame(v)
              /\ pc'[v] = pc[v] /\ req'[v] = req[v] /\ gcopy'[v] = gcopy[v] /\ scopy'[v] = scopy[v]
        BY <2>1, <4>1 DEF HoldsGame, OthersUnchanged
      <4>3. \A v \in Workers : HoldsGame(v) => req[v].gid \in known
        BY DEF HoldsGame, ControlOK, WorkerOK
      <4>4. \A v \in Workers : HoldsGame(v)' => games'[req'[v].gid] = games[req[v].gid]
        BY <3>1, <4>2, <4>3 DEF TablesOK
      <4>5. \A v \in Workers : req'[v].op # "registra"
        BY <2>1, <2>2, <4>1 DEF CopiesAgree, OthersUnchanged
      <4>6. \A v \in Workers : pc'[v] \in {"save", "del"} => HoldsGame(v)'
        BY DEF HoldsGame
      <4> QED BY <4>2, <4>4, <4>5, <4>6 DEF CopiesAgree, CheckUser
    <3>2. CASE Crash /\ UNCHANGED games
      <4>1. pc'[w] = "crea" /\ req'[w] = req[w]
        BY <2>11, <3>2 DEF Crea, At, Crash, frames
      <4> QED BY <2>1, <2>2, <3>2, <4>1, AgreeFrame
    <3> QED BY <2>4, <2>11, <3>1, <3>2 DEF Crea, CreaFails
  <2>12. CASE Load(w)
    <3>1. CASE NotFound(w)
      BY <2>2, <2>4, <2>12, <3>1 DEF NotFound, Load, db
    <3>2. CASE ~NotFound(w)
      <4> DEFINE g == games[req[w].gid]
      <4>1. /\ g # NoGame /\ gcopy'[w] = g /\ pc'[w] = "check"
            /\ req'[w] = req[w] /\ UNCHANGED games
        BY <2>12, <3>2 DEF Load, Goto, FramesOK, db
      <4>2. \A v \in Workers \ {w} : HoldsGame(v)' => HoldsGame(v)
        BY <2>1 DEF HoldsGame, OthersUnchanged
      <4> QED BY <2>1, <4>1, <4>2 DEF CopiesAgree, CheckUser, OthersUnchanged
    <3> QED BY <3>1, <3>2
  <2>13. CASE Check(w)
    <3> DEFINE g == gcopy[w]
    <3>1. UNCHANGED games /\ HoldsGame(w) /\ g \in GameRec
      BY <2>1, <2>13 DEF Check, At, HoldsGame, db, WorkerOK
    <3>4. Checked(w, g, scopy[w].user)
      BY <2>1, <2>13, SessionUserFacts DEF Check, At, WorkerOK
    <3>2. CASE ~CheckUser(g, scopy[w].user)
      BY <2>4, <3>1, <3>2, <3>4 DEF Checked
    <3>3. CASE CheckUser(g, scopy[w].user)
      <4>1. CASE \E code : Answer(w, code)
        BY <2>4, <3>1, <4>1
      <4>3. CASE Crash
        BY <2>1, <3>1, <3>3, <4>3, AgreeKeep DEF Crash, frames
      <4>2. CASE ~Crash /\ ~\E code : Answer(w, code)
        <5>1. /\ req' = req /\ scopy' = scopy
              /\ \/ gcopy' = gcopy
                 \/ gcopy' = [gcopy EXCEPT ![w] = [g EXCEPT !.calc = TRUE]]
                 \/ gcopy' = [gcopy EXCEPT ![w] = Moved(g, req[w].arg)]
          BY <2>2, <3>3, <3>4, <4>2 DEF Checked, NoPartida, Recalculate, Mueve, Goto, Keep
        <5>2. gcopy'[w].owner = g.owner
          BY <3>1, <5>1 DEF FramesOK, GameRec, Moved
        <5> QED BY <2>1, <3>1, <3>3, <5>1, <5>2, AgreeKeep
      <4> QED BY <4>1, <4>2, <4>3
    <3> QED BY <3>2, <3>3
  <2>14. CASE Save(w) \/ Del(w)
    <3>1. /\ HoldsGame(w) /\ req[w].gid \in GameIds
          /\ games' = games \/ games' = [games EXCEPT ![req[w].gid] = gcopy[w]]
                            \/ games' = [games EXCEPT ![req[w].gid] = NoGame]
      BY <2>1, <2>14 DEF Save, Del, At, HoldsGame, WorkerOK, TablesOK
    <3>2. pc'[w] \in {"idle", "sync"} /\ req'[w].op # "registra"
      BY <2>2, <2>14 DEF Save, Del, Answer, Goto, FramesOK
    <3>3. \A v \in Workers : HoldsGame(v)' =>
            /\ v # w /\ HoldsGame(v)
            /\ pc'[v] = pc[v] /\ req'[v] = req[v] /\ gcopy'[v] = gcopy[v] /\ scopy'[v] = scopy[v]
      BY <2>1, <3>2 DEF HoldsGame, OthersUnchanged
    <3>4. \A v \in Workers : req'[v].op # "registra"
      BY <2>1, <3>2 DEF CopiesAgree, OthersUnchanged
    <3>5. \A v \in Workers : (HoldsGame(v)' /\ games'[req'[v].gid] # NoGame) =>
            games'[req'[v].gid].owner = gcopy'[v].owner
      <4> SUFFICES ASSUME NEW v \in Workers, HoldsGame(v)', games'[req'[v].gid] # NoGame
                   PROVE  games'[req'[v].gid].owner = gcopy'[v].owner
        OBVIOUS
      <4>1. /\ HoldsGame(v) /\ req'[v] = req[v] /\ gcopy'[v] = gcopy[v]
            /\ games[req[v].gid] # NoGame => games[req[v].gid].owner = gcopy[v].owner
        BY <3>3 DEF CopiesAgree
      <4>2. CASE req[v].gid = req[w].gid
        <5>1. gcopy[v].owner = gcopy[w].owner
          BY <3>1, <4>1, <4>2 DEF CopiesAgree
        <5>2. games'[req[v].gid] \in {games[req[v].gid], gcopy[w], NoGame}
          BY <3>1, <4>2 DEF TablesOK
        <5> QED BY <4>1, <5>1, <5>2
      <4>3. CASE req[v].gid # req[w].gid
        <5>1. req[v].gid \in GameIds
          BY <4>1 DEF HoldsGame, ControlOK, WorkerOK, TablesOK
        <5>2. games'[req[v].gid] = games[req[v].gid]
          BY <3>1, <4>3, <5>1 DEF TablesOK
        <5> QED BY <4>1, <5>2
      <4> QED BY <4>2, <4>3
    <3>6. \A v \in Workers : pc'[v] \in {"save", "del"} => HoldsGame(v)'
      BY DEF HoldsGame
    <3> QED BY <3>3, <3>4, <3>5, <3>6 DEF CopiesAgree, CheckUser
  <2> QED BY <1>1, <2>5, <2>6, <2>7, <2>8, <2>9, <2>10, <2>11, <2>12, <2>13, <2>14 DEF Step
<1>2. CASE Restart
  BY <1>2 DEF Restart, CopiesAgree, HoldsGame, NoRequest
<1>3. CASE Tick \/ UNCHANGED vars
  BY <1>3 DEF Tick, vars, db, frames, CopiesAgree, HoldsGame, CheckUser
<1> QED BY <1>1, <1>2, <1>3 DEF Next

\* A write to a record that exists is made by a worker whose user has rights on it.
LEMMA EntitledStep ==
  ASSUME IInv, CopiesAgree, [Next]_vars,
         NEW id \in GameIds, games[id] # NoGame, games'[id] # games[id]
  PROVE  \E w \in Workers : Acts(w) /\ Repository!Entitled(scopy[w].user, games[id])
<1> USE DEF IInv, TypeOK
<1>1. PICK w \in Workers : Crea(w) \/ Save(w) \/ Del(w)
  <2>1. ~Restart /\ ~Tick /\ ~UNCHANGED vars
    BY DEF Restart, Tick, vars, db
  <2>2. PICK w \in Workers : Receive(w) \/ Step(w)
    BY <2>1 DEF Next
  <2>3. ~Receive(w) /\ ~Filter(w) /\ ~Touch(w) /\ ~Close(w) /\ ~Login(w) /\ ~Issue(w)
        /\ ~Load(w) /\ ~Check(w) /\ ~Sync(w) /\ ~Reload(w)
    BY DEF Receive, Filter, Touch, Close, Login, Issue, Load, Check, Sync, Reload, db
  <2> QED BY <2>2, <2>3 DEF Step
<1>2. ~Crea(w)
  BY DEF Crea, FreshIdsAreEmpty, TablesOK
<1>3. pc[w] \in {"save", "del"} /\ pc'[w] \in {"idle", "sync"} /\ id = req[w].gid
  BY <1>1, <1>2 DEF Save, Del, At, Answer, Goto, FramesOK, TablesOK
<1>4. CheckUser(gcopy[w], scopy[w].user) /\ games[id].owner = gcopy[w].owner
  BY <1>3 DEF CopiesAgree, HoldsGame
<1> QED BY <1>3, <1>4 DEF Acts, CheckUser, Repository!Entitled

\* With any number of threads, as long as no client may /registra and the tables
\* can be read, nobody but its creator and the administrators changes or deletes
\* a game.
THEOREM Entitlement ==
  ASSUME "registra" \notin Ops, ~ReadMayFail
  PROVE  Spec => OnlyEntitledWrites
<1>1. Init => CopiesAgree
  BY DEF Init, CopiesAgree, HoldsGame, NoRequest
<1>2. IInv /\ CopiesAgree /\ [Next]_vars => CopiesAgree'
  BY AgreeStep
<1>3. IInv /\ CopiesAgree /\ [Next]_vars =>
        [\A id \in GameIds : (games[id] # NoGame /\ games'[id] # games[id]) =>
           \E w \in Workers : Acts(w) /\ Repository!Entitled(scopy[w].user, games[id])]_vars
  BY EntitledStep
<1> QED BY <1>1, <1>2, <1>3, Invariance, PTL DEF Spec, OnlyEntitledWrites

(***************************************************************************)
(* One thread: between the load and the write of a request nobody else     *)
(* writes, so the handlers are the indivisible operations of               *)
(* GameRepository, and the record a delete is asked for is there.          *)
(***************************************************************************)
\* The invariant of the single worker is preserved by its steps.
LEMMA SoloWorkerStep ==
  ASSUME IInv, SoloInv, NEW w \in Workers, Receive(w) \/ Step(w)
  PROVE  semaphore' = Free /\ CopyIsCurrent(w)'
<1> USE DEF IInv, TypeOK
<1>0. WorkerOK(w) /\ CopyIsCurrent(w) /\ semaphore = Free
  BY DEF ControlOK, SoloInv
<1>1. ASSUME UNCHANGED semaphore,
             pc'[w] \in {"idle", "filter", "touch", "close", "load", "crea", "login", "issue"}
      PROVE  semaphore' = Free /\ CopyIsCurrent(w)'
  BY <1>0, <1>1 DEF CopyIsCurrent
<1>2. ASSUME NEW code, Answer(w, code), UNCHANGED semaphore
      PROVE  semaphore' = Free /\ CopyIsCurrent(w)'
  BY <1>1, <1>2 DEF Answer, FramesOK
<1>3. CASE Receive(w)
  BY <1>0, <1>3 DEF Receive, FramesOK, Keep, db, CopyIsCurrent
<1>4. CASE Filter(w)
  BY <1>1, <1>2, <1>4 DEF Filter, Goto, FramesOK, db
<1>5. CASE Touch(w)
  BY <1>1, <1>2, <1>5 DEF Touch, Goto, FramesOK, PutSess
<1>6. CASE Close(w)
  BY <1>2, <1>6 DEF Close, PutSess
<1>7. CASE Login(w) \/ Issue(w)
  <2>1. /\ UNCHANGED semaphore /\ req'[w].op = "login"
        /\ pc'[w] \in {"login", "issue", "sync"}
    BY <1>0, <1>7 DEF Login, Issue, Goto, Crash, frames, FramesOK, db, WorkerOK, At
  <2> QED BY <1>0, <2>1 DEF CopyIsCurrent
<1>8. CASE Crea(w)
  <2>1. ASSUME NEW id \in GameIds \ known, NEW u \in SessionUser(w),
               games' = [games EXCEPT ![id] = NewGame(u)],
               req' = [req EXCEPT ![w].gid = id],
               pc' = [pc EXCEPT ![w] = "sync"], UNCHANGED semaphore
        PROVE  semaphore' = Free /\ CopyIsCurrent(w)'
    <3>1. NewGame(u) # NoGame
      <4>1. u \in Users \cup {Nobody}
        BY <1>0, <1>8, SessionUserFacts DEF Crea, At, WorkerOK
      <4>2. NewGame(u) \in GameRec
        BY <4>1 DEF NewGame, GameRec
      <4> QED BY <4>2, ConstantsOK
    <3>2. pc'[w] = "sync" /\ req'[w].gid = id
      BY <2>1 DEF FramesOK, Request
    <3>3. games'[id] # NoGame
      BY <2>1, <3>1 DEF TablesOK
    <3> QED BY <1>0, <2>1, <3>2, <3>3 DEF CopyIsCurrent
  <2>2. CASE Crash
    BY <1>1, <1>8, <2>2 DEF Crea, At, Crash, frames
  <2> QED BY <1>2, <1>8, <2>1, <2>2 DEF Crea, CreaFails
<1>9. ASSUME NEW loaded \in BOOLEAN, NEW u \in SessionUser(w), TakeBody(w, loaded, u),
             UNCHANGED <<db, clock>>, req[w].op = "registra", pc[w] \in {"load", "check"},
             games[req[w].gid] # NoGame => CheckUser(games[req[w].gid], scopy[w].user) \/ ReadMayFail
      PROVE  semaphore' = Free /\ CopyIsCurrent(w)'
  <2>1. CASE Crash
    BY <1>0, <1>9, <2>1 DEF Crash, frames, db, CopyIsCurrent, CheckUser
  <2>2. CASE Answer(w, 500)
    BY <1>2, <1>9, <2>2 DEF db
  <2>3. CASE /\ req[w].arg \in Dump
             /\ gcopy' = [gcopy EXCEPT ![w] = Registered(u, req[w].arg)]
             /\ Goto(w, "save") /\ UNCHANGED <<scopy, up>>
    <3>1. /\ gcopy'[w] = Registered(u, req[w].arg)
          /\ pc'[w] = "save" /\ req' = req /\ scopy' = scopy
          /\ UNCHANGED <<games, semaphore>>
      BY <1>9, <2>3 DEF Goto, FramesOK, db
    <3>2. ReadMayFail \/ u = scopy[w].user
      BY <1>9 DEF SessionUser
    <3> QED BY <1>0, <1>9, <2>3, <3>1, <3>2 DEF CopyIsCurrent, CheckUser, Registered, Views
  <2> QED BY <1>9, <2>1, <2>2, <2>3 DEF TakeBody
<1>10. CASE Load(w)
  <2>1. UNCHANGED <<db, clock>> /\ pc[w] = "load"
    BY <1>10 DEF Load, At
  <2>2. CASE NotFound(w) /\ (games[req[w].gid] = NoGame \/ ReadMayFail)
    BY <1>2, <1>9, <2>1, <2>2 DEF NotFound, db
  <2>3. CASE gcopy' = [gcopy EXCEPT ![w] = games[req[w].gid]] /\ Goto(w, "check")
    BY <1>0, <2>1, <2>3 DEF Goto, FramesOK, db, CopyIsCurrent
  <2> QED BY <1>10, <2>2, <2>3 DEF Load
<1>11. CASE Check(w)
  <2> DEFINE g == gcopy[w]
  <2>1. /\ UNCHANGED <<db, clock>> /\ pc[w] = "check"
        /\ g = games[req[w].gid] /\ g # NoGame
    BY <1>0, <1>11, ConstantsOK DEF Check, At, CopyIsCurrent, WorkerOK
  <2>2. CASE \E code : Answer(w, code)
    BY <1>2, <2>1, <2>2 DEF db
  <2>7. CASE Crash
    BY <1>0, <2>1, <2>7 DEF Crash, frames, db, CopyIsCurrent, CheckUser
  <2>8. ReadMayFail \/ \A u \in SessionUser(w) : u = scopy[w].user
    BY DEF SessionUser
  <2> DEFINE Passed(u) == u \in SessionUser(w) /\ CheckUser(g, u)
  <2>9. \A u : Passed(u) => (CheckUser(g, scopy[w].user) \/ ReadMayFail)
    BY <2>8
  <2>3. ASSUME NEW u, Passed(u), req[w].op = "registra", TakeBody(w, TRUE, u)
        PROVE  semaphore' = Free /\ CopyIsCurrent(w)'
    BY <1>9, <2>1, <2>3, <2>9
  <2>4. CASE (CheckUser(g, scopy[w].user) \/ ReadMayFail) /\ req[w].op = "desregistra" /\ Goto(w, "del") /\ Keep
    BY <1>0, <2>1, <2>4 DEF Goto, Keep, FramesOK, db, CopyIsCurrent, CheckUser
  <2>5. ASSUME CheckUser(g, scopy[w].user) \/ ReadMayFail, req[w].op = "mueve", ~Final(g),
               gcopy' = [gcopy EXCEPT ![w] = Moved(g, req[w].arg)],
               Goto(w, "save"), UNCHANGED scopy
        PROVE  semaphore' = Free /\ CopyIsCurrent(w)'
    <3>1. /\ gcopy'[w] = Moved(g, req[w].arg) /\ pc'[w] = "save"
          /\ req' = req /\ scopy' = scopy /\ UNCHANGED <<games, semaphore>>
      BY <2>1, <2>5 DEF Goto, FramesOK, db
    <3> QED BY <1>0, <2>1, <2>5, <3>1 DEF CopyIsCurrent, CheckUser, Final, Moved, Views
  <2>6. ASSUME CheckUser(g, scopy[w].user) \/ ReadMayFail, req[w].op \in Views,
               gcopy' = [gcopy EXCEPT ![w] = [g EXCEPT !.calc = TRUE]],
               Goto(w, "save"), UNCHANGED scopy
        PROVE  semaphore' = Free /\ CopyIsCurrent(w)'
    <3>1. /\ gcopy'[w] = [g EXCEPT !.calc = TRUE] /\ pc'[w] = "save"
          /\ req' = req /\ scopy' = scopy /\ UNCHANGED <<games, semaphore>>
      BY <2>1, <2>6 DEF Goto, FramesOK, db
    <3> QED BY <1>0, <2>1, <2>6, <3>1 DEF CopyIsCurrent, CheckUser, Views
  <2>10. ASSUME NEW u \in SessionUser(w), Checked(w, g, u)
         PROVE  semaphore' = Free /\ CopyIsCurrent(w)'
    BY <2>2, <2>3, <2>4, <2>5, <2>6, <2>7, <2>9, <2>10
       DEF Checked, NoPartida, Mueve, Recalculate
  <2> QED BY <1>11, <2>7, <2>10 DEF Check
<1>12. CASE Save(w)
  <2>1. CASE req[w].op = "mueve" /\ Goto(w, "sync")
    BY <1>0, <1>12, <2>1 DEF Save, Goto, FramesOK, CopyIsCurrent
  <2> QED BY <1>2, <1>12, <2>1 DEF Save
<1>13. CASE Del(w)
  <2>1. games[req[w].gid] # NoGame
    BY <1>0, <1>13, ConstantsOK DEF Del, At, CopyIsCurrent, WorkerOK
  <2> QED BY <1>2, <1>13, <2>1 DEF Del
<1>14. CASE Sync(w)
  <2>1. CASE req[w].op = "crea" /\ Goto(w, "reload")
    BY <1>0, <1>14, <2>1 DEF Sync, At, Goto, FramesOK, db, CopyIsCurrent
  <2> QED BY <1>2, <1>14, <2>1 DEF Sync, db
<1>15. CASE Reload(w)
  <2>1. CASE Crash
    BY <1>0, <1>15, <2>1 DEF Reload, Crash, frames, db, CopyIsCurrent, CheckUser, Final, Moved, Registered
  <2> QED BY <1>2, <1>15, <2>1 DEF Reload, db
<1> QED BY <1>3, <1>4, <1>5, <1>6, <1>7, <1>8, <1>10, <1>11, <1>12, <1>13, <1>14, <1>15 DEF Step

\* Every step preserves the invariant of the single worker.
LEMMA SoloStep ==
  ASSUME OneWorker, IInv, SoloInv, [Next]_vars
  PROVE  SoloInv'
<1>1. ASSUME NEW w \in Workers, Receive(w) \/ Step(w) PROVE SoloInv'
  <2>1. Workers = {w}
    BY DEF OneWorker
  <2> QED BY <1>1, <2>1, SoloWorkerStep DEF SoloInv
<1>2. CASE Restart
  BY <1>2 DEF Restart, SoloInv, CopyIsCurrent, db
<1>3. CASE Tick \/ UNCHANGED vars
  BY <1>3 DEF Tick, vars, db, frames, SoloInv, CopyIsCurrent, CheckUser, Final, Moved, Registered
<1> QED BY <1>1, <1>2, <1>3 DEF Next

\* One thread keeps its copies current, and the mutex free.
LEMMA SoloInvariance ==
  ASSUME OneWorker
  PROVE  Spec => []SoloInv
<1>1. Init => SoloInv
  BY DEF Init, SoloInv, CopyIsCurrent, NoRequest
<1>2. IInv /\ SoloInv /\ [Next]_vars => SoloInv'
  BY SoloStep
<1> QED BY <1>1, <1>2, Invariance, PTL DEF Spec

\* With one thread no call returns with update_semaphore locked, even if reads
\* and writes fail: the record a handler deletes is the one it just loaded.
THEOREM MutexIsReleased ==
  ASSUME OneWorker
  PROVE  Spec => []MutexReleased
<1>1. SoloInv => MutexReleased
  BY DEF SoloInv, MutexReleased
<1> QED BY <1>1, SoloInvariance, PTL

\* With any number of threads only a delete can leave it locked: where nobody
\* asks for one it is free after every call, and each request can go on.
NobodyDeletes == semaphore = Free /\ \A w \in Workers : req[w].op # "desregistra"

\* A step that is no delete unlocks what it locked.
LEMMA NobodyDeletesStep ==
  ASSUME "desregistra" \notin Ops, IInv, NobodyDeletes, [Next]_vars
  PROVE  NobodyDeletes'
<1> USE DEF IInv, TypeOK, NobodyDeletes
<1>1. ASSUME NEW w \in Workers, Receive(w) \/ Step(w) PROVE NobodyDeletes'
  <2>1. WorkerOK(w)
    BY DEF ControlOK
  <2> SUFFICES semaphore' = Free /\ \A v \in Workers : req'[v].op # "desregistra"
    OBVIOUS
  <2>2. ASSUME NEW code, Answer(w, code) PROVE \A v \in Workers : req'[v].op # "desregistra"
    BY <2>2 DEF Answer, FramesOK, NoRequest
  <2>3. CASE Receive(w)
    BY <2>3 DEF Receive, Sent, FramesOK, db
  <2>4. CASE Filter(w) \/ Touch(w) \/ Close(w) \/ Login(w) \/ Issue(w)
    <3>1. semaphore' = Free
      BY <2>4 DEF Filter, Touch, Close, Login, Issue, PutSess, db
    <3>2. req' = req \/ \E code : Answer(w, code)
      BY <2>4 DEF Filter, Touch, Close, Login, Issue, Goto, Crash, frames
    <3> QED BY <2>2, <3>1, <3>2
  <2>5. CASE Crea(w)
    <3>1. CASE \E id : req' = [req EXCEPT ![w].gid = id]
      <4>1. \A v \in Workers : req'[v].op = req[v].op
        BY <3>1 DEF FramesOK, Request
      <4> QED BY <2>5, <4>1 DEF Crea
    <3>2. CASE Answer(w, 500) \/ Crash
      BY <2>2, <2>5, <3>2 DEF Crea, Crash, frames
    <3> QED BY <2>5, <3>1, <3>2 DEF Crea, CreaFails
  <2>6. CASE Load(w) \/ Check(w)
    <3>1. semaphore' = Free
      BY <2>6 DEF Load, Check, db
    <3>2. req' = req \/ \E code : Answer(w, code)
      <4>1. ASSUME NEW loaded, NEW u, TakeBody(w, loaded, u)
            PROVE  req' = req \/ \E code : Answer(w, code)
        BY <4>1 DEF TakeBody, Goto, Crash, frames
      <4> QED BY <2>6, <4>1 DEF Load, NotFound, Check, Checked, NoPartida, Recalculate, Mueve,
           Goto, Crash, frames
    <3> QED BY <2>2, <3>1, <3>2
  <2>7. CASE Save(w) \/ Sync(w) \/ Reload(w)
    <3>1. semaphore' = Free
      BY <2>7 DEF Save, Sync, Reload, db
    <3>2. req' = req \/ \E code : Answer(w, code)
      BY <2>7 DEF Save, Sync, Reload, Goto, Crash, frames
    <3> QED BY <2>2, <3>1, <3>2
  <2>8. ~Del(w)
    BY <2>1 DEF Del, At, WorkerOK
  <2> QED BY <1>1, <2>3, <2>4, <2>5, <2>6, <2>7, <2>8 DEF Step
<1>2. CASE Restart
  BY <1>2 DEF Restart, NoRequest, db
<1>3. CASE Tick \/ UNCHANGED vars
  BY <1>3 DEF Tick, vars, db, frames
<1> QED BY <1>1, <1>2, <1>3 DEF Next

\* With any number of threads no call returns with update_semaphore locked as
\* long as nobody deletes, even if reads and writes fail and handlers crash.
THEOREM MutexIsReleasedByAll ==
  ASSUME "desregistra" \notin Ops
  PROVE  Spec => []MutexReleased
<1>1. Init => NobodyDeletes
  BY DEF Init, NobodyDeletes, NoRequest
<1>2. IInv /\ NobodyDeletes /\ [Next]_vars => NobodyDeletes'
  BY NobodyDeletesStep
<1>3. NobodyDeletes => MutexReleased
  BY DEF NobodyDeletes, MutexReleased
<1> QED BY <1>1, <1>2, <1>3, Invariance, PTL DEF Spec

(***************************************************************************)
(* What brings the process down.                                           *)
(***************************************************************************)
\* The game a request of /crea has stored is there when it reads it back.
CreatedStay ==
  \A w \in Workers : (pc[w] \in {"sync", "reload"} /\ req[w].op = "crea") =>
    games[req[w].gid] # NoGame

\* Where nobody deletes, a game that is in the table stays there.
LEMMA GamesStay ==
  ASSUME IInv, NEW w \in Workers, Receive(w) \/ Step(w), ~Del(w),
         NEW id \in GameIds, games[id] # NoGame
  PROVE  games'[id] # NoGame
<1> USE DEF IInv, TypeOK
<1>1. WorkerOK(w) /\ games \in [GameIds -> GameRec \cup {NoGame}]
  BY DEF ControlOK, TablesOK
<1>2. CASE Crea(w)
  BY <1>1, <1>2 DEF Crea, FreshIdsAreEmpty
<1>3. CASE Save(w)
  <2>1. gcopy[w] # NoGame
    BY <1>1, <1>3, ConstantsOK DEF Save, At, WorkerOK
  <2> QED BY <1>1, <1>3, <2>1 DEF Save
<1>4. CASE ~Crea(w) /\ ~Save(w)
  BY <1>4 DEF Receive, Step, Filter, Touch, Close, Login, Issue, Load, Check, Sync, Reload, db
<1> QED BY <1>2, <1>3, <1>4

\* Every step that is no delete keeps the games that are being read back.
LEMMA CreatedStayStep ==
  ASSUME IInv, NobodyDeletes, CreatedStay, [Next]_vars
  PROVE  CreatedStay'
<1> USE DEF IInv, TypeOK
<1>1. ASSUME NEW w \in Workers, Receive(w) \/ Step(w) PROVE CreatedStay'
  <2>1. WorkerOK(w) /\ OthersUnchanged(w)
    BY <1>1, WorkerStepOK DEF ControlOK, StepKeeps, StepOK
  <2>2. ~Del(w)
    BY <2>1 DEF Del, At, WorkerOK, NobodyDeletes
  <2>3. ASSUME NEW v \in Workers, pc[v] \in {"sync", "reload"}, req[v].op = "crea"
        PROVE  games'[req[v].gid] # NoGame
    BY <1>1, <2>2, <2>3, GamesStay DEF CreatedStay, ControlOK, WorkerOK, TablesOK
  <2>4. ASSUME pc'[w] \in {"sync", "reload"}, req'[w].op = "crea"
        PROVE  games'[req'[w].gid] # NoGame
    <3>1. CASE Crea(w)
      <4>1. ~Crash /\ ~\E code : Answer(w, code)
        BY <2>4, <3>1 DEF Crea, At, Crash, frames, Answer, FramesOK
      <4>2. PICK id \in GameIds, u \in SessionUser(w) :
              games' = [games EXCEPT ![id] = NewGame(u)] /\ req' = [req EXCEPT ![w].gid = id]
        BY <3>1, <4>1 DEF Crea, CreaFails
      <4>3. NewGame(u) # NoGame
        <5>1. NewGame(u) \in GameRec
          BY <2>1, <3>1, SessionUserFacts DEF Crea, At, WorkerOK, NewGame, GameRec
        <5> QED BY <5>1, ConstantsOK
      <4>4. req'[w].gid = id
        BY <4>2 DEF FramesOK, Request
      <4> QED BY <4>2, <4>3, <4>4 DEF TablesOK
    <3>2. CASE Sync(w) \/ Reload(w)
      <4>1. (pc[w] \in {"sync", "reload"} /\ req' = req) \/ pc'[w] = "idle"
        BY <3>2 DEF Sync, Reload, At, Goto, Answer, Crash, frames, FramesOK
      <4> QED BY <2>3, <2>4, <4>1
    <3>3. CASE Receive(w) \/ Filter(w) \/ Touch(w) \/ Close(w) \/ Load(w) \/ Check(w)
      <4>1. ASSUME NEW loaded, NEW u, TakeBody(w, loaded, u), pc[w] \in {"load", "check"}
            PROVE  pc'[w] \notin {"sync", "reload"}
        BY <4>1 DEF TakeBody, Goto, Answer, Crash, frames, FramesOK
      <4>2. pc'[w] \notin {"sync", "reload"}
        BY <3>3, <4>1 DEF Receive, Filter, Touch, Close, Load, Check, NotFound, Checked, NoPartida,
           Recalculate, Mueve, At, Goto, Answer, Crash, frames, FramesOK
      <4> QED BY <2>4, <4>2
    <3>4. CASE Login(w) \/ Issue(w) \/ Save(w)
      <4>1. \/ req' = req /\ req[w].op \in {"login", "mueve"}
            \/ pc'[w] = "idle"
        BY <2>1, <3>4 DEF Login, Issue, Save, At, Goto, Answer, Crash, frames, FramesOK, WorkerOK
      <4> QED BY <2>4, <4>1
    <3> QED BY <1>1, <2>2, <3>1, <3>2, <3>3, <3>4 DEF Step
  <2> QED BY <2>1, <2>3, <2>4 DEF CreatedStay, OthersUnchanged
<1>2. CASE Restart
  BY <1>2 DEF Restart, CreatedStay
<1>3. CASE Tick \/ UNCHANGED vars
  BY <1>3 DEF Tick, vars, db, frames, CreatedStay
<1> QED BY <1>1, <1>2, <1>3 DEF Next

\* A step that ends the process is that of a worker where a NULL is not looked for.
LEMMA CrashStep ==
  ASSUME ~ReadMayFail, IInv, CreatedStay, up, ~up', [Next]_vars
  PROVE  \E w \in Workers : MayCrash(w)
<1> USE DEF IInv, TypeOK
<1>1. ~Restart /\ ~Tick /\ ~UNCHANGED vars
  BY DEF Restart, Tick, vars
<1>2. PICK w \in Workers : Receive(w) \/ Step(w)
  BY <1>1 DEF Next
<1>3. WorkerOK(w)
  BY DEF ControlOK
<1>4. ASSUME NEW loaded, NEW u, TakeBody(w, loaded, u), req[w].op = "registra"
      PROVE  req[w].arg \in {EmptyBody, Garbage} \/ PartidaMayFail
  BY <1>4 DEF TakeBody
<1>5. CASE Load(w)
  <2>1. pc[w] = "load" /\ NotFound(w)
    BY <1>5 DEF Load, At
  <2> QED BY <1>4, <2>1 DEF NotFound, MayCrash
<1>6. CASE Check(w)
  <2>1. pc[w] = "check" /\ \E u \in SessionUser(w) : Checked(w, gcopy[w], u)
    BY <1>6 DEF Check, At
  <2> QED BY <1>4, <2>1 DEF Checked, NoPartida, MayCrash
<1>7. CASE Crea(w)
  BY <1>7 DEF Crea, At, MayCrash
<1>8. ~Reload(w)
  BY <1>3 DEF Reload, At, WorkerOK, CreatedStay
<1> QED BY <1>2, <1>5, <1>6, <1>7, <1>8 DEF Receive, Step, Filter, Touch, Close, Login, Issue,
                                            Save, Del, Sync

\* With one thread, or with any number of them where nobody deletes, and as long as
\* the tables can be read, the process goes down only over a body without a game or
\* over a game the library cannot play, and before the request stores anything.
THEOREM OnlyKnownCrashes ==
  ASSUME OneWorker \/ "desregistra" \notin Ops, ~ReadMayFail
  PROVE  Spec => CrashesAreKnown
<1>1. IInv /\ CreatedStay /\ [Next]_vars =>
        [up /\ ~up' => \E w \in Workers : MayCrash(w)]_vars
  BY CrashStep
<1>2. CASE OneWorker
  <2>1. IInv /\ SoloInv => CreatedStay
    BY DEF SoloInv, CopyIsCurrent, CreatedStay
  <2> QED BY <1>1, <1>2, <2>1, Invariance, SoloInvariance, PTL DEF Spec, CrashesAreKnown
<1>3. CASE "desregistra" \notin Ops
  <2>1. Init => NobodyDeletes /\ CreatedStay
    BY DEF Init, NobodyDeletes, CreatedStay, NoRequest
  <2>2. IInv /\ NobodyDeletes /\ [Next]_vars => NobodyDeletes'
    BY <1>3, NobodyDeletesStep
  <2>3. IInv /\ NobodyDeletes /\ CreatedStay /\ [Next]_vars => CreatedStay'
    BY CreatedStayStep
  <2> QED BY <1>1, <2>1, <2>2, <2>3, Invariance, PTL DEF Spec, CrashesAreKnown
<1> QED BY <1>2, <1>3

(***************************************************************************)
(* One thread: a handler answers 200 on a game from the record the table   *)
(* holds.  Between the write of a move and its answer lies dbact_sync.     *)
(***************************************************************************)
\* What mueve has written is still there when it synchronises the tables; only
\* logout ends with session_close.
LastCalls ==
  \A w \in Workers :
    /\ (pc[w] = "sync" /\ req[w].op = "mueve") => games[req[w].gid] = gcopy[w]
    /\ pc[w] = "close" => req[w].op = "logout"

\* Only game_save brings a move to dbact_sync, and nobody writes in between.
LEMMA LastCallsStep ==
  ASSUME OneWorker, IInv, LastCalls, [Next]_vars
  PROVE  LastCalls'
<1> USE DEF IInv, TypeOK
<1>1. ASSUME NEW w \in Workers, Receive(w) \/ Step(w) PROVE LastCalls'
  <2>1. Workers = {w}
    BY DEF OneWorker
  <2>2. WorkerOK(w)
    BY DEF ControlOK
  <2> SUFFICES /\ (pc'[w] = "sync" /\ req'[w].op = "mueve") => games'[req'[w].gid] = gcopy'[w]
               /\ pc'[w] = "close" => req'[w].op = "logout"
    BY <2>1 DEF LastCalls
  <2>3. CASE Save(w)
    <3>1. req[w].gid \in GameIds
      BY <2>2, <2>3 DEF Save, At, WorkerOK, TablesOK
    <3>2. CASE games' = [games EXCEPT ![req[w].gid] = gcopy[w]] /\ Goto(w, "sync") /\ Keep
      <4>1. /\ games'[req[w].gid] = gcopy[w] /\ req' = req /\ gcopy' = gcopy
            /\ pc'[w] = "sync"
        BY <3>1, <3>2 DEF Goto, Keep, TablesOK, FramesOK
      <4> QED BY <4>1
    <3>3. ASSUME NEW code, Answer(w, code) PROVE pc'[w] = "idle"
      BY <3>3 DEF Answer, FramesOK
    <3> QED BY <2>3, <3>2, <3>3 DEF Save
  <2>4. CASE Receive(w) \/ Touch(w) \/ Close(w) \/ Del(w)
    <3>1. pc'[w] \notin {"sync", "close"}
      BY <2>4 DEF Receive, Touch, Close, Del, Goto, Answer, FramesOK, At
    <3> QED BY <3>1
  <2>5. CASE Filter(w)
    <3>1. CASE \E code : Answer(w, code)
      <4>1. pc'[w] = "idle"
        BY <3>1 DEF Answer, FramesOK
      <4> QED BY <4>1
    <3>2. CASE Goto(w, IF req[w].op = "logout" THEN "close" ELSE "touch")
      BY <3>2 DEF Goto, FramesOK
    <3> QED BY <2>5, <3>1, <3>2 DEF Filter
  <2>6. CASE Login(w) \/ Issue(w)
    <3>1. req' = req /\ req[w].op = "login" /\ pc'[w] # "close"
      BY <2>2, <2>6 DEF FramesOK, Login, Issue, Goto, Crash, frames, At, WorkerOK
    <3> QED BY <3>1
  <2>7. CASE Crea(w)
    <3>1. req[w].op = "crea"
      BY <2>2, <2>7 DEF Crea, At, WorkerOK
    <3>2. CASE /\ \E id : req' = [req EXCEPT ![w].gid = id]
               /\ pc' = [pc EXCEPT ![w] = "sync"]
      <4>1. req'[w].op = "crea" /\ pc'[w] = "sync"
        BY <3>1, <3>2 DEF FramesOK, Request
      <4> QED BY <4>1
    <3>3. CASE Answer(w, 500) \/ Crash
      <4>1. pc'[w] \notin {"sync", "close"}
        BY <2>7, <3>3 DEF Crea, At, Answer, Crash, frames, FramesOK
      <4> QED BY <4>1
    <3> QED BY <2>7, <3>2, <3>3 DEF Crea, CreaFails
  <2>8. CASE Load(w)
    <3>1. pc'[w] \notin {"sync", "close"}
      BY <2>8 DEF Load, At, NotFound, TakeBody, Goto, Answer, Crash, frames, FramesOK
    <3> QED BY <3>1
  <2>9. CASE Check(w)
    <3>1. CASE Crash \/ \E code : Answer(w, code)
      <4>1. pc'[w] \notin {"sync", "close"}
        BY <2>9, <3>1 DEF Check, At, Answer, Crash, frames, FramesOK
      <4> QED BY <4>1
    <3>2. CASE Goto(w, "save") \/ Goto(w, "del")
      <4>1. pc'[w] \notin {"sync", "close"}
        BY <3>2 DEF Goto, FramesOK
      <4> QED BY <4>1
    <3> QED BY <2>9, <3>1, <3>2 DEF Check, Checked, NoPartida, Recalculate, Mueve, TakeBody
  <2>10. CASE Sync(w) \/ Reload(w)
    <3>1. pc'[w] \notin {"sync", "close"}
      BY <2>10 DEF Sync, Reload, At, Goto, Answer, Crash, frames, FramesOK
    <3> QED BY <3>1
  <2> QED BY <1>1, <2>3, <2>4, <2>5, <2>6, <2>7, <2>8, <2>9, <2>10 DEF Step
<1>2. CASE Restart
  BY <1>2 DEF Restart, LastCalls
<1>3. CASE Tick \/ UNCHANGED vars
  BY <1>3 DEF Tick, vars, db, frames, LastCalls
<1> QED BY <1>1, <1>2, <1>3 DEF Next

\* Whichever call is the last of a request on a game, its 200 shows the table.
LEMMA ConfirmStep ==
  ASSUME OneWorker, IInv, SoloInv, LastCalls, Next, NEW w \in Workers, Confirms(w),
         req[w].op \in OnGame \ {"desregistra"}
  PROVE  games'[req[w].gid] = gcopy[w]
<1> USE DEF IInv, TypeOK, Confirms, Ends
<1>1. WorkerOK(w) /\ CopyIsCurrent(w) /\ Workers = {w}
  BY DEF ControlOK, SoloInv, OneWorker
<1>2. ~Restart /\ ~Tick
  BY DEF Restart, Tick, frames
<1>3. Receive(w) \/ Step(w)
  BY <1>1, <1>2 DEF Next
<1>4. ASSUME NEW code, Answer(w, code) PROVE code = 200
  BY <1>4 DEF Answer, FramesOK
<1>5. req[w].op \notin {"login", "logout", "lista", "crea", "desregistra"}
  BY DEF OnGame, Views
<1>6. CASE Save(w)
  <2>1. req[w].gid \in GameIds
    BY <1>1, <1>6 DEF Save, At, WorkerOK, TablesOK
  <2>2. SaveError(req[w].op) # 200
    BY DEF SaveError
  <2>3. games' = [games EXCEPT ![req[w].gid] = gcopy[w]]
    BY <1>4, <1>6, <2>2 DEF Save
  <2> QED BY <2>1, <2>3 DEF TablesOK
<1>7. CASE Check(w)
  <2>1. games' = games /\ gcopy[w] = games[req[w].gid]
    BY <1>1, <1>7 DEF Check, At, CopyIsCurrent, db
  <2> QED BY <2>1
<1>8. CASE Sync(w)
  <2>1. games' = games /\ pc[w] = "sync" /\ req[w].op = "mueve"
    BY <1>1, <1>5, <1>8 DEF Sync, At, WorkerOK, db
  <2> QED BY <2>1 DEF LastCalls
<1>9. CASE Load(w)
  <2>1. ASSUME NEW label, Goto(w, label), label # "idle" PROVE FALSE
    BY <2>1 DEF Goto, FramesOK
  <2>2. ~Crash
    BY DEF Crash, frames
  <2>3. ~NotFound(w)
    BY <1>4, <2>1, <2>2 DEF NotFound, TakeBody
  <2> QED BY <1>9, <2>1, <2>3 DEF Load
<1>10. ~Receive(w) /\ ~Login(w) /\ ~Issue(w) /\ ~Crea(w) /\ ~Reload(w) /\ ~Del(w) /\ ~Close(w)
  <2>1. ~Close(w)
    BY <1>5 DEF LastCalls, Close, At
  <2> QED BY <1>1, <1>5, <2>1 DEF Receive, Login, Issue, Crea, Reload, Del, At, WorkerOK
<1>11. ~Filter(w) /\ ~Touch(w)
  BY <1>4, <1>5 DEF Filter, Touch, Goto, FramesOK
<1> QED BY <1>3, <1>6, <1>7, <1>8, <1>9, <1>10, <1>11 DEF Step

\* With one thread an answer 200 on a game shows the record the table holds,
\* even if reads and writes of the tables fail: a refused game_save is reported.
THEOREM AnswersShowTheStore ==
  ASSUME OneWorker
  PROVE  Spec => AnswerShowsTheStore
<1>1. Init => LastCalls
  BY DEF Init, LastCalls
<1>2. IInv /\ LastCalls /\ [Next]_vars => LastCalls'
  BY LastCallsStep
<1>3. IInv /\ SoloInv /\ LastCalls /\ [Next]_vars =>
        [\A w \in Workers : (Confirms(w) /\ req[w].op \in OnGame \ {"desregistra"}) =>
           games'[req[w].gid] = gcopy[w]]_vars
  BY ConfirmStep
<1> QED BY <1>1, <1>2, <1>3, Invariance, SoloInvariance, PTL DEF Spec, AnswerShowsTheStore

(***************************************************************************)
(* Refinement: the single thread implements the abstract specifications.   *)
(***************************************************************************)
\* What a Save writes is the outcome of an operation on the record.
LEMMA SaveRefines ==
  ASSUME ~ReadMayFail, IInv, SoloInv, NEW w \in Workers, Save(w)
  PROVE  [Repository!Next]_games
<1> USE DEF IInv, TypeOK
<1> DEFINE id == req[w].gid
           g  == games[id]
           u  == scopy[w].user
<1>1. /\ WorkerOK(w) /\ CopyIsCurrent(w) /\ pc[w] = "save"
      /\ id \in GameIds /\ u \in Users /\ g \in GameRec \cup {NoGame}
  BY DEF ControlOK, SoloInv, Save, At, WorkerOK, SessRec, TablesOK
<1>2. CASE UNCHANGED games
  BY <1>2
<1>3. CASE games' = [games EXCEPT ![id] = gcopy[w]]
  <2>1. CASE req[w].op = "mueve"
    <3>1. /\ g \in GameRec /\ g # NoGame /\ CheckUser(g, u) /\ ~Final(g)
          /\ gcopy[w] = Moved(g, req[w].arg)
          /\ req[w].arg \in Moves
      BY <1>1, <2>1 DEF CopyIsCurrent, WorkerOK, Malformed
    <3>2. Len(g.moves) < MaxMoves
      <4>1. Len(g.moves) \in Nat
        BY <3>1 DEF GameRec
      <4> QED BY <3>1, <4>1, ConstantsOK DEF Final
    <3>3. games' = [games EXCEPT ![id].moves = Append(@, req[w].arg), ![id].calc = FALSE]
      BY <1>1, <1>3, <3>1 DEF Moved, TablesOK, GameRec
    <3>4. Repository!Play(u, id, req[w].arg)
      BY <3>1, <3>2, <3>3 DEF Repository!Play, Repository!Present, Repository!Entitled, CheckUser
    <3> QED BY <1>1, <3>1, <3>4 DEF Repository!Next
  <2>2. CASE req[w].op \in Views
    <3>1. g \in GameRec /\ CheckUser(g, u) /\ gcopy[w] = [g EXCEPT !.calc = TRUE] /\ g # NoGame
      BY <1>1, <2>2 DEF CopyIsCurrent
    <3>2. Repository!Analyse(u, id)
      BY <1>1, <1>3, <3>1 DEF Repository!Analyse, Repository!Present, Repository!Entitled,
         CheckUser, TablesOK
    <3> QED BY <1>1, <3>2 DEF Repository!Next
  <2>3. CASE req[w].op = "registra"
    <3>1. /\ g # NoGame => CheckUser(g, u)
          /\ req[w].arg \in Bodies \cap Dump
          /\ gcopy[w] = Registered(u, req[w].arg)
      BY <1>1, <2>3 DEF CopyIsCurrent, WorkerOK, Malformed
    <3>2. Repository!Register(u, id, req[w].arg)
      BY <1>3, <3>1 DEF Repository!Register, Repository!Present, Repository!Entitled,
         CheckUser, Registered
    <3> QED BY <1>1, <3>1, <3>2 DEF Repository!Next, Repository!Dump, Dump
  <2> QED BY <1>1, <2>1, <2>2, <2>3 DEF WorkerOK
<1> QED BY <1>2, <1>3 DEF Save

\* With one thread and readable tables the server implements GameRepository:
\* load, check and save of a request are one operation on the current record.
THEOREM RepositoryRefinement ==
  ASSUME OneWorker, ~ReadMayFail
  PROVE  Spec => ImplementsRepository
<1>1. Init => Repository!Init
  BY DEF Init, Repository!Init
<1>2. IInv /\ SoloInv /\ [Next]_vars => [Repository!Next]_games
  <2> SUFFICES ASSUME IInv, SoloInv, [Next]_vars PROVE [Repository!Next]_games
    OBVIOUS
  <2> USE DEF IInv, TypeOK
  <2>1. ASSUME NEW w \in Workers, Receive(w) \/ Step(w) PROVE [Repository!Next]_games
    <3>1. WorkerOK(w) /\ CopyIsCurrent(w)
      BY DEF ControlOK, SoloInv
    <3>2. CASE Save(w)
      BY <3>2, SaveRefines
    <3>3. CASE Del(w)
      <4> DEFINE id == req[w].gid
                 u  == scopy[w].user
      <4>1. /\ games[id] # NoGame /\ CheckUser(games[id], u)
            /\ id \in GameIds /\ u \in Users
        BY <3>1, <3>3, ConstantsOK DEF Del, At, CopyIsCurrent, WorkerOK, SessRec, TablesOK
      <4>2. UNCHANGED games \/ Repository!Unregister(u, id)
        BY <3>3, <4>1 DEF Del, Repository!Unregister, Repository!Present, Repository!Entitled, CheckUser
      <4> QED BY <4>1, <4>2 DEF Repository!Next
    <3>4. CASE Crea(w)
      <4>1. scopy[w].user \in Users /\ SessionUser(w) = {scopy[w].user}
        BY <3>1, <3>4, SessionUserFacts DEF Crea, At, WorkerOK, SessRec
      <4>2. UNCHANGED games \/ \E id \in GameIds : Repository!Create(scopy[w].user, id)
        BY <3>4, <4>1 DEF Crea, FreshIdsAreEmpty, Repository!Create, Repository!Present, NewGame
      <4> QED BY <4>1, <4>2 DEF Repository!Next
    <3>5. CASE ~Save(w) /\ ~Del(w) /\ ~Crea(w)
      BY <2>1, <3>5 DEF Receive, Step, Filter, Touch, Close, Login, Issue, Load, Check, Sync, Reload, db
    <3> QED BY <3>2, <3>3, <3>4, <3>5
  <2>2. CASE Restart \/ Tick \/ UNCHANGED vars
    BY <2>2 DEF Restart, Tick, vars, db
  <2> QED BY <2>1, <2>2 DEF Next
<1> QED BY <1>1, <1>2, Invariance, SoloInvariance, PTL DEF Spec, ImplementsRepository, Repository!Spec

(***************************************************************************)
(* The sessions: what no step may do to one that a worker holds.           *)
(***************************************************************************)

HoldsSession(w) == pc[w] \in {"touch", "close"}

\* A step that is none of these writes no session, and w holds one after it
\* only if it did before.
LEMMA OtherSteps ==
  ASSUME IInv, NEW w \in Workers, Receive(w) \/ Step(w),
         ~Filter(w), ~Touch(w), ~Close(w), ~Issue(w)
  PROVE  /\ UNCHANGED <<sess, clock>>
         /\ HoldsSession(w)' => UNCHANGED frames
<1> USE DEF IInv, TypeOK, FramesOK, HoldsSession
<1>1. CASE Receive(w)
  <2>1. PICK r \in Requests :
          IF r.op = "login" /\ r.arg = NoArg
          THEN UNCHANGED <<pc, req>>
          ELSE pc'  = [pc EXCEPT ![w] = IF r.op = "login" THEN "login" ELSE "filter"]
    BY <1>1 DEF Receive
  <2> QED BY <1>1, <2>1 DEF Receive, db
<1>2. CASE Login(w) \/ Crea(w) \/ Save(w) \/ Del(w) \/ Sync(w) \/ Reload(w)
  BY <1>2 DEF Login, Crea, CreaFails, Save, Del, Sync, Reload, Answer, Goto, Crash, db, frames
<1>3. CASE Load(w) \/ Check(w)
  <2>1. \A loaded, u : TakeBody(w, loaded, u) => UNCHANGED frames \/ pc'[w] \in {"idle", "save"}
    BY DEF TakeBody, Answer, Goto, Crash
  <2>2. NotFound(w) => UNCHANGED frames \/ pc'[w] \in {"idle", "save"}
    BY <2>1 DEF NotFound, Answer
  <2> QED BY <1>3, <2>1, <2>2 DEF Load, Check, Checked, NoPartida, Crash, Recalculate, Mueve, Answer,
     Goto, db
<1> QED BY <1>1, <1>2, <1>3 DEF Step

\* What the steps that deal with sessions do to the table and to their frame.
LEMMA SessionSteps ==
  ASSUME IInv, NEW w \in Workers
  PROVE  /\ Filter(w) =>
              /\ UNCHANGED <<sess, clock>>
              /\ HoldsSession(w)' =>
                   /\ req[w].sid \in SessIds /\ sess[req[w].sid] # NoSess
                   /\ sess[req[w].sid].closed = 0
                   /\ req'[w] = req[w] /\ scopy'[w] = sess[req[w].sid]
         /\ Touch(w) =>
              /\ ~HoldsSession(w)' /\ HoldsSession(w) /\ UNCHANGED clock
              /\ UNCHANGED sess \/
                 sess' = [sess EXCEPT ![req[w].sid] = [scopy[w] EXCEPT !.seen = clock]]
         /\ Close(w) =>
              /\ ~HoldsSession(w)' /\ HoldsSession(w) /\ UNCHANGED clock
              /\ UNCHANGED sess \/
                 sess' = [sess EXCEPT ![req[w].sid] =
                            [scopy[w] EXCEPT !.seen = clock, !.closed = clock]]
         /\ Issue(w) =>
              /\ ~HoldsSession(w)' /\ UNCHANGED clock
              /\ UNCHANGED sess \/
                 \E id \in SessIds :
                   /\ sess[id] = NoSess
                   /\ sess' = [sess EXCEPT ![id] =
                                 [user |-> req[w].arg, seen |-> clock, closed |-> 0]]
<1> USE DEF IInv, TypeOK, FramesOK, HoldsSession
<1>0. WorkerOK(w)
  BY DEF ControlOK
<1>1. ASSUME Filter(w)
      PROVE  /\ UNCHANGED <<sess, clock>>
             /\ HoldsSession(w)' =>
                  /\ req[w].sid \in SessIds /\ sess[req[w].sid] # NoSess
                  /\ sess[req[w].sid].closed = 0
                  /\ req'[w] = req[w] /\ scopy'[w] = sess[req[w].sid]
  BY <1>0, <1>1 DEF Filter, At, Answer, Goto, Defeated, WorkerOK, db
<1>2. ASSUME Touch(w)
      PROVE  /\ ~HoldsSession(w)' /\ HoldsSession(w) /\ UNCHANGED clock
             /\ UNCHANGED sess \/
                sess' = [sess EXCEPT ![req[w].sid] = [scopy[w] EXCEPT !.seen = clock]]
  BY <1>2 DEF Touch, At, PutSess, Answer, Goto
<1>3. ASSUME Close(w)
      PROVE  /\ ~HoldsSession(w)' /\ HoldsSession(w) /\ UNCHANGED clock
             /\ UNCHANGED sess \/
                sess' = [sess EXCEPT ![req[w].sid] =
                           [scopy[w] EXCEPT !.seen = clock, !.closed = clock]]
  BY <1>3 DEF Close, At, PutSess, Answer
<1>4. ASSUME Issue(w)
      PROVE  /\ ~HoldsSession(w)' /\ UNCHANGED clock
             /\ UNCHANGED sess \/
                \E id \in SessIds :
                  /\ sess[id] = NoSess
                  /\ sess' = [sess EXCEPT ![id] =
                                [user |-> req[w].arg, seen |-> clock, closed |-> 0]]
  BY <1>4 DEF Issue, Unused
<1> QED BY <1>1, <1>2, <1>3, <1>4

(***************************************************************************)
(* Any number of threads: a session keeps its user.                        *)
(***************************************************************************)
\* The records a step of a worker may leave under a session id.
KeepsUser ==
  \A id \in SessIds : sess[id] # NoSess =>
    sess'[id] # NoSess /\ sess'[id].user = sess[id].user

\* A step of a worker keeps the user of every session.
LEMMA UserStep ==
  ASSUME IInv, SessionsBound, NEW w \in Workers, Receive(w) \/ Step(w)
  PROVE  KeepsUser
<1> USE DEF KeepsUser
<1>1. WorkerOK(w)
  BY DEF IInv, ControlOK
<1>2. sess \in [SessIds -> SessRec \cup {NoSess}] /\ clock \in Nat
  BY ConstantsOK DEF IInv, TypeOK, TablesOK
<1>3. CASE Touch(w) \/ Close(w)
  <2> DEFINE sid == req[w].sid
  <2>1. HoldsSession(w)
    BY <1>3, SessionSteps
  <2>2. /\ sid \in SessIds /\ scopy[w] \in SessRec
        /\ sess[sid] # NoSess /\ sess[sid].user = scopy[w].user
    BY <1>1, <2>1 DEF SessionsBound, HoldsSession, WorkerOK
  <2>3. \/ UNCHANGED sess
        \/ \E s \in SessRec : s.user = scopy[w].user /\ sess' = [sess EXCEPT ![sid] = s]
    <3> DEFINE touched == [scopy[w] EXCEPT !.seen = clock]
               closed  == [scopy[w] EXCEPT !.seen = clock, !.closed = clock]
    <3>1. \/ UNCHANGED sess
          \/ sess' = [sess EXCEPT ![sid] = touched]
          \/ sess' = [sess EXCEPT ![sid] = closed]
      BY <1>3, SessionSteps
    <3>2. touched \in SessRec /\ touched.user = scopy[w].user
      BY <1>2, <2>2 DEF SessRec
    <3>3. closed \in SessRec /\ closed.user = scopy[w].user
      BY <1>2, <2>2 DEF SessRec
    <3> HIDE DEF touched, closed
    <3> QED BY <3>1, <3>2, <3>3
  <2> QED BY <1>2, <2>2, <2>3, ConstantsOK
<1>4. CASE Issue(w)
  BY <1>2, <1>4, SessionSteps
<1>5. CASE Filter(w)
  BY <1>5, SessionSteps
<1>6. CASE ~Filter(w) /\ ~Touch(w) /\ ~Close(w) /\ ~Issue(w)
  BY <1>6, OtherSteps
<1> QED BY <1>3, <1>4, <1>5, <1>6

\* Every step keeps the sessions the workers hold bound to the table.
LEMMA BoundStep ==
  ASSUME IInv, SessionsBound, [Next]_vars
  PROVE  SessionsBound'
<1>1. ASSUME NEW w \in Workers, Receive(w) \/ Step(w) PROVE SessionsBound'
  <2>1. KeepsUser
    BY <1>1, UserStep
  <2>2. OthersUnchanged(w)
    BY <1>1, WorkerStepOK, ReceiveOK DEF StepKeeps, StepOK
  <2>3. HoldsSession(w)' =>
          /\ req'[w].sid \in SessIds
          /\ sess[req'[w].sid] # NoSess
          /\ sess[req'[w].sid].user = scopy'[w].user
    <3> SUFFICES ASSUME HoldsSession(w)'
                 PROVE  /\ req'[w].sid \in SessIds
                        /\ sess[req'[w].sid] # NoSess
                        /\ sess[req'[w].sid].user = scopy'[w].user
      OBVIOUS
    <3>1. CASE Filter(w)
      BY <3>1, SessionSteps
    <3>2. CASE ~Filter(w)
      <4>1. ~Touch(w) /\ ~Close(w) /\ ~Issue(w)
        BY SessionSteps
      <4>2. UNCHANGED frames
        BY <1>1, <3>2, <4>1, OtherSteps
      <4>3. WorkerOK(w)
        BY DEF IInv, ControlOK
      <4> QED BY <4>2, <4>3 DEF frames, HoldsSession, SessionsBound, WorkerOK
    <3> QED BY <3>1, <3>2
  <2>4. ASSUME NEW v \in Workers, v # w, HoldsSession(v)'
        PROVE  /\ req'[v].sid \in SessIds
               /\ sess[req'[v].sid] # NoSess
               /\ sess[req'[v].sid].user = scopy'[v].user
    <3>1. pc'[v] = pc[v] /\ req'[v] = req[v] /\ scopy'[v] = scopy[v]
      BY <2>2, <2>4 DEF OthersUnchanged
    <3>2. WorkerOK(v)
      BY DEF IInv, ControlOK
    <3> QED BY <2>4, <3>1, <3>2 DEF HoldsSession, SessionsBound, WorkerOK
  <2> QED BY <2>1, <2>3, <2>4 DEF SessionsBound, HoldsSession, KeepsUser
<1>2. CASE Restart
  BY <1>2 DEF Restart, SessionsBound
<1>3. CASE Tick \/ UNCHANGED vars
  BY <1>3 DEF Tick, vars, db, frames, SessionsBound
<1> QED BY <1>1, <1>2, <1>3 DEF Next

\* With any number of threads, whatever fails, no session passes to another
\* user and none is forgotten.
THEOREM SessionsKeepUsers == Spec => SessionsKeepTheirUser
<1>1. Init => SessionsBound
  BY DEF Init, SessionsBound
<1>2. IInv /\ SessionsBound /\ [Next]_vars => SessionsBound'
  BY BoundStep
<1>3. IInv /\ SessionsBound /\ [Next]_vars =>
        [\A id \in SessIds : sess[id] # NoSess =>
           sess'[id] # NoSess /\ sess'[id].user = sess[id].user]_vars
  <2> SUFFICES ASSUME IInv, SessionsBound, [Next]_vars, ~UNCHANGED vars
               PROVE  KeepsUser
    BY DEF KeepsUser
  <2>1. CASE \E w \in Workers : Receive(w) \/ Step(w)
    BY <2>1, UserStep
  <2>2. CASE Restart \/ Tick
    BY <2>2 DEF Restart, Tick, db, KeepsUser
  <2> QED BY <2>1, <2>2 DEF Next
<1> QED BY <1>1, <1>2, <1>3, Invariance, PTL DEF Spec, SessionsKeepTheirUser

\* A step of w leaves a session that is gone as it is, and in nobody's hands.
LEMMA GoneStep ==
  ASSUME IInv, NEW w \in Workers, Receive(w) \/ Step(w), NEW id \in SessIds, Gone(id)
  PROVE  Gone(id)'
<1> USE DEF Gone
<1>0. sess \in [SessIds -> SessRec \cup {NoSess}] /\ clock \in Nat
  BY ConstantsOK DEF IInv, TypeOK, TablesOK
<1>1. OthersUnchanged(w)
  BY WorkerStepOK DEF StepKeeps, StepOK
<1>2. ASSUME sess'[id] = sess[id], UNCHANGED clock, HoldsSession(w)' => req'[w].sid # id
      PROVE  Gone(id)'
  BY <1>1, <1>2 DEF OthersUnchanged, HoldsSession
<1>3. CASE Filter(w)
  <2>1. At(w, "filter") /\ UNCHANGED <<sess, clock>>
    BY <1>3 DEF Filter, db
  <2>2. CASE req[w].sid = id
    <3>1. Defeated(sess[id])
      BY <1>0, <2>2, ConstantsOK DEF Defeated, SessRec
    <3>2. pc'[w] = "idle"
      BY <1>3, <2>2, <3>1 DEF Filter, Answer, IInv, TypeOK, FramesOK
    <3> QED BY <1>2, <2>1, <3>2 DEF HoldsSession
  <2>3. CASE req[w].sid # id
    BY <1>2, <1>3, <2>1, <2>3, SessionSteps
  <2> QED BY <2>2, <2>3
<1>4. CASE Touch(w) \/ Close(w)
  <2>1. HoldsSession(w) /\ ~HoldsSession(w)' /\ UNCHANGED clock
    BY <1>4, SessionSteps
  <2>2. req[w].sid # id
    BY <2>1 DEF HoldsSession
  <2>3. UNCHANGED sess \/ \E s : sess' = [sess EXCEPT ![req[w].sid] = s]
    BY <1>4, SessionSteps
  <2> QED BY <1>0, <1>2, <2>1, <2>2, <2>3
<1>5. CASE Issue(w)
  BY <1>0, <1>2, <1>5, SessionSteps
<1>6. CASE ~Filter(w) /\ ~Touch(w) /\ ~Close(w) /\ ~Issue(w)
  BY <1>2, <1>6, OtherSteps DEF HoldsSession, frames
<1> QED BY <1>3, <1>4, <1>5, <1>6

\* With any number of threads, whatever fails: a session that ran out or was closed,
\* and that no request holds, is never used again.
THEOREM GoneSessionsStayGone == Spec => GoneForGood
<1>1. IInv /\ [Next]_vars => [\A id \in SessIds : Gone(id) => Gone(id)']_vars
  <2> SUFFICES ASSUME IInv, [Next]_vars, ~UNCHANGED vars, NEW id \in SessIds, Gone(id)
               PROVE  Gone(id)'
    OBVIOUS
  <2>0. sess \in [SessIds -> SessRec \cup {NoSess}] /\ clock \in Nat
    BY ConstantsOK DEF IInv, TypeOK, TablesOK
  <2>1. CASE \E w \in Workers : Receive(w) \/ Step(w)
    BY <2>1, GoneStep
  <2>2. CASE Restart
    BY <2>2 DEF Restart, db, Gone
  <2>3. CASE Tick
    BY <2>0, <2>3, ConstantsOK DEF Tick, db, frames, Gone, SessRec
  <2> QED BY <2>1, <2>2, <2>3 DEF Next
<1> QED BY <1>1, Invariance, PTL DEF Spec, GoneForGood

(***************************************************************************)
(* One thread: sessions are those of the abstract registry.                *)
(***************************************************************************)
\* The session in the hands of the single worker is the one in the table.
LEMMA CurrentStep ==
  ASSUME OneWorker, IInv, SessionsAreCurrent, [Next]_vars
  PROVE  SessionsAreCurrent'
<1> USE DEF SessionsAreCurrent
<1>0. sess \in [SessIds -> SessRec \cup {NoSess}] /\ clock \in Nat
  BY ConstantsOK DEF IInv, TypeOK, TablesOK
<1>1. ASSUME NEW w \in Workers, Receive(w) \/ Step(w) PROVE SessionsAreCurrent'
  <2>1. Workers = {w}
    BY DEF OneWorker
  <2>2. WorkerOK(w)
    BY DEF IInv, ControlOK
  <2>3. CASE Filter(w)
    BY <2>1, <2>3, SessionSteps DEF HoldsSession
  <2>4. CASE Touch(w) \/ Close(w)
    <3>1. scopy[w] \in SessRec /\ ~HoldsSession(w)' /\ UNCHANGED clock
      BY <2>2, <2>4, SessionSteps DEF HoldsSession, WorkerOK
    <3>2. UNCHANGED sess \/ \E s \in SessRec :
            s.seen = clock /\ sess' = [sess EXCEPT ![req[w].sid] = s]
      <4> DEFINE touched == [scopy[w] EXCEPT !.seen = clock]
                 closed  == [scopy[w] EXCEPT !.seen = clock, !.closed = clock]
      <4>1. \/ UNCHANGED sess
            \/ sess' = [sess EXCEPT ![req[w].sid] = touched]
            \/ sess' = [sess EXCEPT ![req[w].sid] = closed]
        BY <2>4, SessionSteps
      <4>2. touched \in SessRec /\ touched.seen = clock
        BY <1>0, <3>1 DEF SessRec
      <4>3. closed \in SessRec /\ closed.seen = clock
        BY <1>0, <3>1 DEF SessRec
      <4> HIDE DEF touched, closed
      <4> QED BY <4>1, <4>2, <4>3
    <3> QED BY <1>0, <2>1, <3>1, <3>2 DEF HoldsSession
  <2>5. CASE Issue(w)
    BY <1>0, <2>1, <2>5, SessionSteps DEF HoldsSession
  <2>6. CASE ~Filter(w) /\ ~Touch(w) /\ ~Close(w) /\ ~Issue(w)
    BY <1>1, <2>1, <2>6, OtherSteps DEF HoldsSession, frames
  <2> QED BY <2>3, <2>4, <2>5, <2>6
<1>2. CASE Restart
  BY <1>2 DEF Restart, db
<1>3. CASE Tick
  <2>1. \A id \in SessIds : sess[id] # NoSess => sess[id].seen \in Nat
    BY <1>0 DEF SessRec
  <2> QED BY <1>0, <1>3, <2>1 DEF Tick, db, frames
<1>4. CASE UNCHANGED vars
  BY <1>4 DEF vars
<1> QED BY <1>1, <1>2, <1>3, <1>4 DEF Next

\* A step of the single worker is an operation of the registry, or a stutter.
LEMMA RegistryStep ==
  ASSUME IInv, SessionsAreCurrent, NEW w \in Workers, Receive(w) \/ Step(w)
  PROVE  [Registry!Next]_<<sess, clock>>
<1>0. sess \in [SessIds -> SessRec \cup {NoSess}] /\ clock \in Nat
  BY ConstantsOK DEF IInv, TypeOK, TablesOK
<1>1. WorkerOK(w)
  BY DEF IInv, ControlOK
<1>2. CASE Touch(w) \/ Close(w)
  <2> DEFINE sid == req[w].sid
  <2>1. /\ sid \in SessIds /\ scopy[w] = sess[sid] /\ UNCHANGED clock
        /\ sess[sid] \in SessRec /\ sess[sid].closed = 0 /\ sess[sid].seen <= clock
    <3>1. HoldsSession(w) /\ UNCHANGED clock
      BY <1>2, SessionSteps
    <3>2. sid \in SessIds /\ scopy[w] \in SessRec
      BY <1>1, <3>1 DEF HoldsSession, WorkerOK
    <3>3. scopy[w] = sess[sid] /\ scopy[w].closed = 0
      BY <3>1 DEF HoldsSession, SessionsAreCurrent
    <3>4. sess[sid].seen <= clock
      BY <3>2, <3>3, ConstantsOK DEF SessionsAreCurrent
    <3> QED BY <3>1, <3>2, <3>3, <3>4
  <2>2. Registry!Open(sid)
    BY <2>1, ConstantsOK DEF Registry!Open
  <2>3. \/ UNCHANGED sess
        \/ sess' = [sess EXCEPT ![sid].seen = clock]
        \/ sess' = [sess EXCEPT ![sid].seen = clock, ![sid].closed = clock]
    <3>1. CASE Touch(w)
      BY <2>1, <3>1, SessionSteps
    <3>2. CASE Close(w)
      <4>1. UNCHANGED sess \/
            sess' = [sess EXCEPT ![sid] = [sess[sid] EXCEPT !.seen = clock, !.closed = clock]]
        BY <2>1, <3>2, SessionSteps
      <4>2. [sess EXCEPT ![sid] = [sess[sid] EXCEPT !.seen = clock, !.closed = clock]]
              = [sess EXCEPT ![sid].seen = clock, ![sid].closed = clock]
        BY <1>0, <2>1 DEF SessRec
      <4> QED BY <4>1, <4>2
    <3> QED BY <1>2, <3>1, <3>2
  <2>4. UNCHANGED <<sess, clock>> \/ Registry!TouchSession(sid) \/ Registry!CloseSession(sid)
    BY <2>1, <2>2, <2>3 DEF Registry!TouchSession, Registry!CloseSession
  <2> QED BY <2>1, <2>4 DEF Registry!Next
<1>3. CASE Issue(w)
  <2>1. req[w].arg \in Users
    BY <1>1, <1>3 DEF WorkerOK, Issue, At
  <2>2. UNCHANGED <<sess, clock>> \/ \E id \in SessIds : Registry!Issue(id, req[w].arg)
    BY <1>3, SessionSteps DEF Registry!Issue
  <2> QED BY <2>1, <2>2 DEF Registry!Next
<1>4. CASE ~Touch(w) /\ ~Close(w) /\ ~Issue(w)
  BY <1>4, OtherSteps, SessionSteps
<1> QED BY <1>2, <1>3, <1>4

\* With one thread the server implements SessionRegistry, also when reads and
\* writes fail: what is closed stays closed, and last_seen_at never goes back.
THEOREM RegistryRefinement ==
  ASSUME OneWorker
  PROVE  Spec => ImplementsRegistry
<1>1. Init => SessionsAreCurrent /\ Registry!Init
  BY DEF Init, SessionsAreCurrent, Registry!Init
<1>2. IInv /\ SessionsAreCurrent /\ [Next]_vars => SessionsAreCurrent'
  BY CurrentStep
<1>3. IInv /\ SessionsAreCurrent /\ [Next]_vars => [Registry!Next]_<<sess, clock>>
  <2> SUFFICES ASSUME IInv, SessionsAreCurrent, [Next]_vars
               PROVE  [Registry!Next]_<<sess, clock>>
    OBVIOUS
  <2>1. CASE \E w \in Workers : Receive(w) \/ Step(w)
    BY <2>1, RegistryStep
  <2>2. CASE Tick
    BY <2>2 DEF Tick, db, Registry!Next, Registry!Tick
  <2>3. CASE Restart \/ UNCHANGED vars
    BY <2>3 DEF Restart, vars, db
  <2> QED BY <2>1, <2>2, <2>3 DEF Next
<1> QED BY <1>1, <1>2, <1>3, Invariance, PTL DEF Spec, ImplementsRegistry, Registry!Spec

=============================================================================
