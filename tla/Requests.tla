------------------------------ MODULE Requests ------------------------------
(***************************************************************************)
(* What a worker does with a connection it took from the pool: it reads    *)
(* the head of the request into its buffer, routes the URI through the     *)
(* global variables of the scanner, reads the body when a handler asks for *)
(* it, and gives the memory back (webservice/mongoose.c, webserver.c).     *)
(*                                                                         *)
(* recv hands out what the client sent in pieces of any size.  A handler   *)
(* is what it does with the body: it asks for it any number of times.      *)
(* Answers are written to the socket and change nothing here.              *)
(***************************************************************************)
EXTENDS Routes, Integers

CONSTANTS Workers,
          Requests,     \* what clients send
          BufSize,      \* max_request_size
          PostLen,      \* POST_BUFFER_LEN
          Free, None


(***************************************************************************)
(* The head.                                                               *)
(***************************************************************************)
\* Where an empty line ends: \n\n, or \n\r\n.
EndsAt(b, s) ==
  b[s] = "n" /\ (b[s + 1] = "n" \/ (s + 2 <= Len(b) /\ b[s + 1] = "r" /\ b[s + 2] = "n"))

\* get_request_len: 0 while the head is not complete; -1 for control characters,
\* unless the end is found behind them.
GetRequestLen(b) ==
  LET ends == {s \in 1..(Len(b) - 1) : EndsAt(b, s)} IN
  IF ends # {} THEN LET s == Min(ends) IN IF b[s + 1] = "n" THEN s + 1 ELSE s + 2
  ELSE IF \E s \in 1..(Len(b) - 1) : b[s] = "control" THEN -1 ELSE 0

\* A request: its URI; its head, which ends with the first empty line, and its
\* body, as the bytes the search for the end of the head tells apart; the headers
\* Content-Length and 'Content-Lenght' (-1: none); how many bytes the client sends
\* before it closes.
ASSUME RequestConstants ==
  /\ BufSize \in Nat \ {0} /\ PostLen \in Nat
  /\ \A r \in Requests :
       /\ r.uri \in Seq(GameChars \cup {"/"}) /\ Short(r.uri)
       /\ r.head \in Seq(STRING) /\ r.head # <<>> /\ GetRequestLen(r.head) = Len(r.head)
       /\ r.body \in Seq(STRING)
       /\ r.length \in {-1, Len(r.body)} /\ r.limit \in Nat \cup {-1}
       /\ r.sent \in 0..(Len(r.head) + Len(r.body))
  /\ Free \notin Workers
  /\ None \notin Requests \cup Seq(STRING)

VARIABLES lock, route,          \* the mutex of routes_filter and what it protects
          up,                   \* the process lives
          pc, req,
          wire,                 \* sent by the client and not yet received
          buf, request_len,     \* conn->buf up to data_len
          consumed,             \* conn->consumed_content
          user_data, allocated, \* ri->user_data; blocks read_post_data allocated
          mine,                 \* my_controller, ..., my_session
          given                 \* what get_post_data gave the handler

shared == <<lock, route, up>>
conn   == <<req, wire, buf, request_len, consumed>>
post   == <<user_data, allocated, given>>
vars   == <<lock, route, up, pc, req, wire, buf, request_len, consumed, user_data,
            allocated, mine, given>>

Init ==
  /\ lock = Free /\ route = Fresh /\ up = TRUE
  /\ pc  = [w \in Workers |-> "idle"] /\ req = [w \in Workers |-> None]
  /\ wire = [w \in Workers |-> <<>>] /\ buf = [w \in Workers |-> <<>>]
  /\ request_len = [w \in Workers |-> 0] /\ consumed = [w \in Workers |-> 0]
  /\ user_data = [w \in Workers |-> None] /\ allocated = [w \in Workers |-> 0]
  /\ mine = [w \in Workers |-> None] /\ given = [w \in Workers |-> None]

TypeOK ==
  /\ lock \in Workers \cup {Free} /\ up \in BOOLEAN
  /\ pc \in [Workers -> {"idle", "read", "lock", "copy", "handler", "answer", "close"}]
  /\ req \in [Workers -> Requests \cup {None}]
  /\ \A w \in Workers :
       /\ Len(buf[w]) <= BufSize
       /\ request_len[w] \in -1..BufSize
       /\ allocated[w] \in 0..1
       /\ req[w] # None => Len(buf[w]) + Len(wire[w]) <= req[w].sent

\* worker_thread has a connection.
Connect(w) ==
  /\ up /\ pc[w] = "idle"
  /\ \E r \in Requests :
       /\ req'  = [req EXCEPT ![w] = r]
       /\ wire' = [wire EXCEPT ![w] = SubSeq(r.head \o r.body, 1, r.sent)]
  /\ pc' = [pc EXCEPT ![w] = "read"]
  /\ UNCHANGED <<shared, buf, request_len, consumed, post, mine>>

\* pull: the next n bytes of the socket, without TLS; they are read once.
Pull(w, n) == wire' = [wire EXCEPT ![w] = SubSeq(@, n + 1, Len(@))]

\* One recv of read_request, then get_request_len.
Receive(w) ==
  /\ up /\ pc[w] = "read" /\ wire[w] # <<>>
  /\ \E n \in 1..Min({Len(wire[w]), BufSize - Len(buf[w])}) :
       LET b   == buf[w] \o SubSeq(wire[w], 1, n)
           len == GetRequestLen(b)
       IN /\ buf' = [buf EXCEPT ![w] = b]
          /\ Pull(w, n)
          /\ request_len' = [request_len EXCEPT ![w] = len]
          /\ pc' = [pc EXCEPT ![w] = IF len > 0 THEN "lock"
                                     ELSE IF len < 0 \/ Len(b) = BufSize THEN "close"
                                     ELSE "read"]
  /\ UNCHANGED <<shared, req, consumed, post, mine>>

\* recv returns 0 before the head is complete.
ClosedEarly(w) ==
  /\ up /\ pc[w] = "read" /\ wire[w] = <<>>
  /\ pc' = [pc EXCEPT ![w] = "close"]
  /\ UNCHANGED <<shared, conn, post, mine>>

(***************************************************************************)
(* routes_filter.                                                          *)
(***************************************************************************)
\* Mutant of UserData: call_user does not set it.
UserDataM(d) == d

\* call_user gives each event the user_data of the context, which is NULL.
UserData(d) == None

\* Mutant of LockFree: the mutex is not taken.
LockFreeM == TRUE

LockFree == lock = Free

\* call_user( MG_NEW_REQUEST ), and get_ruta under the mutex.
Route(w) ==
  /\ up /\ pc[w] = "lock" /\ LockFree
  /\ lock' = w
  /\ route' = GetRuta(route, req[w].uri)
  /\ up' = (route'.sc # "error")
  /\ user_data' = [user_data EXCEPT ![w] = UserData(@)]
  /\ pc' = [pc EXCEPT ![w] = "copy"]
  /\ UNCHANGED <<conn, allocated, given, mine>>

\* The result is copied, the mutex given back; 404 without a controller, 403 for
\* a session that may not be used.
CopyRoute(w) ==
  /\ up /\ pc[w] = "copy"
  /\ lock' = Free
  /\ mine' = [mine EXCEPT ![w] = [controller |-> route.controller, action |-> route.action,
                                  format |-> route.format, session |-> route.session,
                                  param |-> CString(route.param)]]
  /\ pc' \in {[pc EXCEPT ![w] = p] :
                p \in (IF route.controller # "" THEN {"handler"} ELSE {"answer"})
                      \cup (IF route.session # Nul THEN {"answer"} ELSE {})}
  /\ UNCHANGED <<route, up, conn, post>>

(***************************************************************************)
(* The body.                                                               *)
(***************************************************************************)
\* The bytes of the body mg_read finds in the buffer.
Buffered(w, len) ==
  LET left == Len(buf[w]) - request_len[w] - consumed[w] IN IF left > 0 THEN Min({len, left}) ELSE 0

\* mg_read: the rest of the buffer, then recv until len bytes are read or the
\* client has closed.
MgRead(w, max) ==
  LET todo == req[w].length - consumed[w]
      len  == Min({max, todo})
      from == request_len[w] + consumed[w]
      old  == Buffered(w, len)
      new  == Min({len - old, Len(wire[w])})
  IN IF todo <= 0 THEN [bytes |-> <<>>, pulled |-> 0]
     ELSE [bytes |-> SubSeq(buf[w], from + 1, from + old) \o SubSeq(wire[w], 1, new),
           pulled |-> new]

\* max_val of read_post_data: the name of the header it looks for is misspelt.
MaxVal(r) == IF r.limit = -1 THEN PostLen ELSE r.limit

\* get_post_data: the first call of a request reads the body.
GetPostData(w) ==
  /\ up /\ pc[w] = "handler"
  /\ IF user_data[w] = None
     THEN LET read == MgRead(w, MaxVal(req[w])) IN
          /\ user_data' = [user_data EXCEPT ![w] = read.bytes]
          /\ allocated' = [allocated EXCEPT ![w] = @ + 1]
          /\ consumed' = [consumed EXCEPT ![w] = @ + Len(read.bytes)]
          /\ Pull(w, read.pulled)
     ELSE UNCHANGED <<user_data, allocated, consumed, wire>>
  /\ given' = [given EXCEPT ![w] = user_data'[w]]
  /\ UNCHANGED <<shared, pc, req, buf, request_len, mine>>

\* The handler has answered.
Handled(w) ==
  /\ up /\ pc[w] = "handler"
  /\ pc' = [pc EXCEPT ![w] = "answer"]
  /\ UNCHANGED <<shared, conn, post, mine>>

\* Mutant of FreePostData: the block is not freed.
FreePostDataM(w) == UNCHANGED allocated

\* free_post_data
FreePostData(w) == allocated' = [allocated EXCEPT ![w] = IF user_data[w] = None THEN @ ELSE @ - 1]

\* discard_current_request_from_buffer: what lies behind the request moves to the
\* front of the buffer.
Discard(w) ==
  LET behind == Len(buf[w]) - request_len[w]
      body   == IF req[w].length = -1 THEN 0 ELSE Min({req[w].length, behind})
  IN buf' = [buf EXCEPT ![w] = SubSeq(@, request_len[w] + body + 1, Len(@))]

\* event_handler ends, call_user( MG_REQUEST_COMPLETE ), the request is discarded.
Answer(w) ==
  /\ up /\ pc[w] = "answer"
  /\ FreePostData(w) /\ Discard(w)
  /\ user_data' = [user_data EXCEPT ![w] = UserData(@)]
  /\ pc' = [pc EXCEPT ![w] = "close"]
  /\ mine' = [mine EXCEPT ![w] = None] /\ given' = [given EXCEPT ![w] = None]
  /\ UNCHANGED <<shared, req, wire, request_len, consumed>>

\* Mutant of ResetRequest: data_len is not reset.
ResetRequestM(w) ==
  /\ request_len' = [request_len EXCEPT ![w] = 0]
  /\ consumed' = [consumed EXCEPT ![w] = 0]
  /\ UNCHANGED buf

\* reset_per_request_attributes, before the next connection is read.
ResetRequest(w) ==
  /\ buf' = [buf EXCEPT ![w] = <<>>]
  /\ request_len' = [request_len EXCEPT ![w] = 0]
  /\ consumed' = [consumed EXCEPT ![w] = 0]

\* keep_alive is "no": one request, then close_connection.
Close(w) ==
  /\ up /\ pc[w] = "close"
  /\ pc'   = [pc EXCEPT ![w] = "idle"]
  /\ req'  = [req EXCEPT ![w] = None]
  /\ wire' = [wire EXCEPT ![w] = <<>>]
  /\ ResetRequest(w)
  /\ UNCHANGED <<shared, post, mine>>

Step(w) == \/ Receive(w) \/ ClosedEarly(w) \/ Route(w) \/ CopyRoute(w)
           \/ Handled(w) \/ Answer(w) \/ Close(w)

Next == \E w \in Workers : Connect(w) \/ GetPostData(w) \/ Step(w)

Spec == Init /\ [][Next]_vars

(***************************************************************************)
(* Properties.                                                             *)
(***************************************************************************)
Routed(w) == pc[w] \in {"handler", "answer"}

\* The route a program that has just started gives to the URI of w.
Own(w) == LET r == GetRuta(Fresh, req[w].uri) IN
  [controller |-> r.controller, action |-> r.action, format |-> r.format, session |-> r.session,
   param |-> CString(r.param)]

\* A request is given its own controller, action, format and session, whatever
\* was routed before it and is routed at the same time, and a parameter that
\* begins with its own.
RouteIsOwn ==
  \A w \in Workers : Routed(w) =>
    /\ [mine[w] EXCEPT !.param = <<>>] = [Own(w) EXCEPT !.param = <<>>]
    /\ IsPrefix(Own(w).param, mine[w].param)

\* Nobody without a session gets to a controller that uses one.
SessionRequired ==
  \A w \in Workers :
    (pc[w] = "handler" /\ mine[w].controller \in {"game", "tjuego"}) => mine[w].session # Nul

\* The head ends where the client ended it, however the bytes arrive and wherever
\* the body begins; only an incomplete one, a too long one and one with control
\* characters is refused.
HeadIsFound ==
  \A w \in Workers :
    /\ pc[w] \in {"lock", "copy", "handler", "answer"} => request_len[w] = Len(req[w].head)
    /\ (pc[w] = "close" /\ request_len[w] <= 0) =>
         \/ Len(req[w].head) > Min({req[w].sent, BufSize})
         \/ "control" \in ToSet(req[w].head)

\* A handler is given the bytes of the body of its own request, from the first
\* one, each once, and every time the same: all the client sent, up to the size
\* of the buffer, or to what the client has in a header 'Content-Lenght'.
BodyIsOwn ==
  \A w \in Workers : given[w] # None =>
    LET n == Min({MaxVal(req[w]), req[w].sent - Len(req[w].head)}) IN
    given[w] = IF req[w].length > 0 THEN SubSeq(req[w].body, 1, n) ELSE <<>>

\* A game id without a dot that ends in the name of a format.
DotlessId(uri, i, j) ==
  /\ uri[i - 1] = "/" /\ uri[j] \in Formats /\ (j < Len(uri) => uri[j + 1] = "/")
  /\ \A k \in i..j : uri[k] \notin {".", "/"}

\* The scanner ends the process, where the handler calls error(), for nothing but
\* such a game id, and for nobody without a session.
EndsOnlyDotless ==
  ~up => /\ route.session # Nul
         /\ \E w \in Workers : /\ pc[w] = "copy"
                               /\ \E j \in 3..Len(req[w].uri) : \E i \in 2..(j - 1) :
                                    DotlessId(req[w].uri, i, j)

\* A block read_post_data allocated is the one user_data points to: none is lost,
\* none is used after it was freed.
BlocksAreHeld ==
  \A w \in Workers : allocated[w] = IF user_data[w] = None THEN 0 ELSE 1

=============================================================================
