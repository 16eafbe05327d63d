----------------------------- MODULE WorkerPool -----------------------------
(***************************************************************************)
(* The threads of the HTTP server: the master accepts connections and puts *)
(* them into a ring, the workers take them out and serve them, mg_stop     *)
(* asks all of them to end (webservice/mongoose.c).                        *)
(*                                                                         *)
(* What runs under ctx->mutex is one action, cut where stop_flag is read:  *)
(* mg_stop writes it without the mutex.  A thread about to block is at     *)
(* "wait", with the mutex; blocking gives the mutex back in the same step. *)
(* A thread that was woken takes the mutex and tests its condition again,  *)
(* as one that has just come.                                              *)
(***************************************************************************)
EXTENDS Integers, Sequences, FiniteSets

CONSTANTS Workers,    \* option num_threads
          Sockets,    \* the connections of clients
          Size,       \* ARRAY_SIZE(ctx->queue)
          Master, Free, None,
          Unlucky     \* the workers that may not be created, or not get their memory

ASSUME PoolConstants ==
  /\ Size \in Nat \ {0}
  /\ IsFiniteSet(Workers)
  /\ Master \notin Workers /\ Free \notin Workers \cup {Master}
  /\ None \notin Sockets
  /\ Unlucky \subseteq Workers

VARIABLES queue, sq_head, sq_tail,   \* the ring
          mutex,                     \* who holds ctx->mutex
          stop_flag, num_threads,
          main,                      \* the thread of main(): mg_start, then mg_stop
          mpc, accepted,             \* the master, and the socket it accepted
          wpc, client,               \* the workers, and conn->client
          pending, closed            \* connections not accepted yet, and closed

ring   == <<queue, sq_head, sq_tail>>
master == <<mpc, accepted>>
worker == <<wpc, client>>
net    == <<pending, closed>>
vars   == <<queue, sq_head, sq_tail, mutex, stop_flag, num_threads, main,
            mpc, accepted, wpc, client, pending, closed>>

TypeOK ==
  /\ queue \in [0..(Size - 1) -> Sockets \cup {None}]
  /\ sq_tail \in 0..Size /\ sq_head \in sq_tail..(sq_tail + Size)
  /\ mutex \in Workers \cup {Master, Free}
  /\ stop_flag \in 0..2
  /\ num_threads \in Int
  /\ main \in {"start", "run", "stop", "stopped"}
  /\ mpc \in {"none", "select", "produce", "wait", "sq_empty", "broadcast", "join",
              "cond", "signal", "done"}
  /\ accepted \in Sockets \cup {None}
  /\ wpc \in [Workers -> {"none", "consume", "wait", "sq_full", "return", "serve",
                          "exit", "done", "failed"}]
  /\ client \in [Workers -> Sockets \cup {None}]
  /\ pending \subseteq Sockets /\ closed \subseteq Sockets

Init ==
  /\ queue = [i \in 0..(Size - 1) |-> None] /\ sq_head = 0 /\ sq_tail = 0
  /\ mutex = Free
  /\ stop_flag = 0 /\ num_threads = 0
  /\ main = "start"
  /\ mpc = "none" /\ accepted = None
  /\ wpc = [w \in Workers |-> "none"] /\ client = [w \in Workers |-> None]
  /\ pending = Sockets /\ closed = {}

Length == sq_head - sq_tail

(***************************************************************************)
(* mg_start and mg_stop.                                                   *)
(***************************************************************************)
StartMaster ==
  /\ main = "start" /\ mpc = "none"
  /\ mpc' = "select"
  /\ UNCHANGED <<ring, mutex, stop_flag, num_threads, main, accepted, worker, net>>

\* start_thread and num_threads++.  A worker without memory for its connection
\* returns at once, and does not take itself off num_threads.
StartWorker(w) ==
  /\ main = "start" /\ mpc # "none" /\ wpc[w] = "none"
  /\ \/ wpc' = [wpc EXCEPT ![w] = "consume"] /\ num_threads' = num_threads + 1
     \/ /\ w \in Unlucky
        /\ wpc' = [wpc EXCEPT ![w] = "failed"]
        /\ num_threads' \in {num_threads, num_threads + 1}
  /\ UNCHANGED <<ring, mutex, stop_flag, main, master, client, net>>

Started ==
  /\ main = "start" /\ mpc # "none" /\ \A w \in Workers : wpc[w] # "none"
  /\ main' = "run"
  /\ UNCHANGED <<ring, mutex, stop_flag, num_threads, master, worker, net>>

\* SIGINT or SIGTERM: trap calls stop_webservice, mg_stop sets stop_flag.
Stop ==
  /\ main = "run"
  /\ stop_flag' = 1 /\ main' = "stop"
  /\ UNCHANGED <<ring, mutex, num_threads, master, worker, net>>

\* mg_stop has seen stop_flag = 2 and frees the context.
Stopped ==
  /\ main = "stop" /\ stop_flag = 2
  /\ main' = "stopped"
  /\ UNCHANGED <<ring, mutex, stop_flag, num_threads, master, worker, net>>

(***************************************************************************)
(* Condition variables.                                                    *)
(***************************************************************************)
Sleeping == {w \in Workers : wpc[w] = "sq_full"}

\* Mutant of SignalFull: produce_socket does not signal.
SignalFullM == UNCHANGED wpc

\* pthread_cond_signal( sq_full ) wakes one worker, if one is blocked.
SignalFull ==
  IF Sleeping = {} THEN UNCHANGED wpc
  ELSE \E w \in Sleeping : wpc' = [wpc EXCEPT ![w] = "consume"]

\* Mutant of BroadcastFull: only one worker is woken.
BroadcastFullM == SignalFull

\* pthread_cond_broadcast( sq_full )
BroadcastFull == wpc' = [w \in Workers |-> IF w \in Sleeping THEN "consume" ELSE wpc[w]]

\* Mutant of SignalMaster: consume_socket and worker_thread do not signal.
SignalMasterM(cond, label) == mpc' = mpc

\* pthread_cond_signal( sq_empty ) and pthread_cond_signal( cond ): the master.
SignalMaster(cond, label) == mpc' = IF mpc = cond THEN label ELSE mpc

(***************************************************************************)
(* The master.                                                             *)
(***************************************************************************)
\* master_thread, accept_new_connection: stop_flag is 0 and a client is there.
Accept(s) ==
  /\ mpc = "select" /\ stop_flag = 0 /\ s \in pending
  /\ mpc' = "produce" /\ accepted' = s
  /\ pending' = pending \ {s}
  /\ UNCHANGED <<ring, mutex, stop_flag, num_threads, main, worker, closed>>

\* Mutant of Enqueue: one socket too many.
EnqueueM(s) ==
  IF Length <= Size
  THEN /\ queue' = [queue EXCEPT ![sq_head % Size] = s]
       /\ sq_head' = sq_head + 1
       /\ UNCHANGED sq_tail
  ELSE UNCHANGED ring

\* The socket goes into the ring, if there is room: it is dropped if there is none.
Enqueue(s) ==
  IF Length < Size
  THEN /\ queue' = [queue EXCEPT ![sq_head % Size] = s]
       /\ sq_head' = sq_head + 1
       /\ UNCHANGED sq_tail
  ELSE UNCHANGED ring

\* Mutant of MustWait: the master does not wait for room.
MustWaitM == FALSE

MustWait == stop_flag = 0 /\ Length >= Size

\* produce_socket
Produce ==
  /\ mpc = "produce" /\ mutex = Free
  /\ IF MustWait
     THEN /\ mpc' = "wait" /\ mutex' = Master
          /\ UNCHANGED <<ring, accepted, wpc>>
     ELSE /\ Enqueue(accepted)
          /\ SignalFull
          /\ mpc' = "select" /\ accepted' = None
          /\ UNCHANGED mutex
  /\ UNCHANGED <<stop_flag, num_threads, main, client, net>>

\* pthread_cond_wait( sq_empty )
ProduceWaits ==
  /\ mpc = "wait" /\ mpc' = "sq_empty" /\ mutex' = Free
  /\ UNCHANGED <<ring, stop_flag, num_threads, main, accepted, worker, net>>

\* The loop of master_thread sees stop_flag and closes the listening sockets.
Leave ==
  /\ mpc = "select" /\ stop_flag # 0
  /\ mpc' = "broadcast"
  /\ UNCHANGED <<ring, mutex, stop_flag, num_threads, main, accepted, worker, net>>

\* "Wakeup workers that are waiting": without the mutex.
Broadcast ==
  /\ mpc = "broadcast" /\ mpc' = "join"
  /\ BroadcastFull
  /\ UNCHANGED <<ring, mutex, stop_flag, num_threads, main, accepted, client, net>>

\* Mutant of Join: the master leaves as soon as one worker has gone.
JoinM ==
  /\ mpc = "join" /\ mutex = Free
  /\ mpc' = IF num_threads > 1 THEN "cond" ELSE "signal"
  /\ UNCHANGED <<ring, mutex, stop_flag, num_threads, main, accepted, worker, net>>

\* "Wait until all threads finish": the test and the wait are under the mutex.
Join ==
  /\ mpc = "join" /\ mutex = Free
  /\ mpc' = IF num_threads > 0 THEN "cond" ELSE "signal"
  /\ UNCHANGED <<ring, mutex, stop_flag, num_threads, main, accepted, worker, net>>

\* "All threads exited": mutex and conditions are destroyed, mg_stop is told.
Finish ==
  /\ mpc = "signal" /\ mpc' = "done" /\ stop_flag' = 2
  /\ UNCHANGED <<ring, mutex, num_threads, main, accepted, worker, net>>

(***************************************************************************)
(* The workers.                                                            *)
(***************************************************************************)
\* Mutant of Dequeue: only the tail is wrapped.
DequeueWrapsTail(w) ==
  IF sq_head > sq_tail
  THEN /\ client'  = [client EXCEPT ![w] = queue[sq_tail % Size]]
       /\ sq_tail' = IF sq_tail = Size THEN 1 ELSE sq_tail + 1
       /\ UNCHANGED <<queue, sq_head>>
  ELSE UNCHANGED <<ring, client>>

\* Mutant of Dequeue: the indices are never wrapped.
DequeueNeverWraps(w) ==
  IF sq_head > sq_tail
  THEN /\ client'  = [client EXCEPT ![w] = queue[sq_tail % Size]]
       /\ sq_tail' = sq_tail + 1
       /\ UNCHANGED <<queue, sq_head>>
  ELSE UNCHANGED <<ring, client>>

\* The oldest socket comes out of the ring, the indices are wrapped: the tail was
\* at most Size, so the while turns at most once.
Dequeue(w) ==
  LET turn == IF sq_tail + 1 > Size THEN Size ELSE 0 IN
  IF sq_head > sq_tail
  THEN /\ client'  = [client EXCEPT ![w] = queue[sq_tail % Size]]
       /\ sq_tail' = sq_tail + 1 - turn
       /\ sq_head' = sq_head - turn
       /\ UNCHANGED queue
  ELSE UNCHANGED <<ring, client>>

\* consume_socket
Consume(w) ==
  /\ wpc[w] = "consume" /\ mutex = Free
  /\ IF sq_head = sq_tail /\ stop_flag = 0
     THEN /\ wpc' = [wpc EXCEPT ![w] = "wait"] /\ mutex' = w
          /\ UNCHANGED <<ring, client, mpc>>
     ELSE /\ Dequeue(w)
          /\ SignalMaster("sq_empty", "produce")
          /\ wpc' = [wpc EXCEPT ![w] = "return"]
          /\ UNCHANGED mutex
  /\ UNCHANGED <<stop_flag, num_threads, main, accepted, net>>

\* pthread_cond_wait( sq_full )
ConsumeWaits(w) ==
  /\ wpc[w] = "wait" /\ wpc' = [wpc EXCEPT ![w] = "sq_full"] /\ mutex' = Free
  /\ UNCHANGED <<ring, stop_flag, num_threads, main, master, client, net>>

\* return !ctx->stop_flag: the mutex is free again.
Return(w) ==
  /\ wpc[w] = "return"
  /\ wpc' = [wpc EXCEPT ![w] = IF stop_flag = 0 THEN "serve" ELSE "exit"]
  /\ UNCHANGED <<ring, mutex, stop_flag, num_threads, main, master, client, net>>

\* process_new_connection, close_connection: the socket is read, answered, closed.
Serve(w) ==
  /\ wpc[w] = "serve"
  /\ closed' = closed \cup {client[w]}
  /\ client' = [client EXCEPT ![w] = None]
  /\ wpc'    = [wpc EXCEPT ![w] = "consume"]
  /\ UNCHANGED <<ring, mutex, stop_flag, num_threads, main, master, pending>>

\* "Signal master that we're done with connection and exiting"
Exit(w) ==
  /\ wpc[w] = "exit" /\ mutex = Free
  /\ num_threads' = num_threads - 1
  /\ SignalMaster("cond", "join")
  /\ wpc' = [wpc EXCEPT ![w] = "done"]
  /\ UNCHANGED <<ring, mutex, stop_flag, main, accepted, client, net>>

WorkerStep(w) == Consume(w) \/ ConsumeWaits(w) \/ Return(w) \/ Serve(w) \/ Exit(w)

MasterStep == \/ \E s \in Sockets : Accept(s)
              \/ Produce \/ ProduceWaits \/ Leave \/ Broadcast \/ Join \/ Finish

MainStep == StartMaster \/ (\E w \in Workers : StartWorker(w)) \/ Started \/ Stopped

Next == MainStep \/ Stop \/ MasterStep \/ \E w \in Workers : WorkerStep(w)

Spec == Init /\ [][Next]_vars

\* Threads run.  Nobody need send a signal, and a client need not come; one that
\* came ends its request.
FairSpec == /\ Spec
            /\ WF_vars(MainStep)
            /\ WF_vars(Produce \/ ProduceWaits \/ Leave \/ Broadcast \/ Join \/ Finish)
            /\ \A w \in Workers : WF_vars(WorkerStep(w))

(***************************************************************************)
(* Properties.                                                             *)
(***************************************************************************)
Waiting == [i \in 1..Length |-> queue[(sq_tail + i - 1) % Size]]

Queue == INSTANCE BoundedQueue WITH Elements <- Sockets, fifo <- Waiting

\* The ring with its wrapping indices is a first in, first out queue: the master
\* overwrites no waiting socket, no socket is handed out twice or out of turn.
ImplementsQueue == Queue!Spec

InRing == {Waiting[i] : i \in 1..Length}
Held   == {client[w] : w \in Workers} \ {None}

\* A connection is in one place at a time: on the net, in the hands of the
\* master, in the ring, with one worker, or closed.
OnePlace ==
  /\ \A i, j \in 1..Length : Waiting[i] = Waiting[j] => i = j
  /\ \A v, w \in Workers : client[v] = client[w] /\ client[v] # None => v = w
  /\ LET places == <<pending, {accepted} \ {None}, InRing, Held, closed>>
     IN \A i, j \in 1..5 : i # j => places[i] \cap places[j] = {}

\* As long as nobody stops the server no connection is forgotten, and one a
\* worker holds is one it is going to serve.
NoneForgotten ==
  stop_flag = 0 =>
    /\ Sockets = pending \cup closed \cup InRing \cup Held \cup ({accepted} \ {None})
    /\ \A w \in Workers : client[w] # None => wpc[w] \in {"return", "serve"}

\* No wakeup is lost while the server runs: nobody sleeps on work he could do.
NoLostWakeup ==
  stop_flag = 0 =>
    /\ mpc \in {"wait", "sq_empty"} => Length = Size
    /\ Length > 0 /\ Sleeping # {} => \E w \in Workers : wpc[w] \in {"consume", "return", "serve"}

\* The mutex and the conditions are destroyed and the context freed only when
\* no thread will touch them again.
DestroyedLast ==
  mpc \in {"signal", "done"} =>
    \A w \in Workers : wpc[w] \in {"done", "failed"}

\* A connection that was accepted is served and closed, or the server is stopped.
EveryConnectionServed ==
  \A s \in Sockets : (s \notin pending) ~> (s \in closed \/ stop_flag # 0)

\* The server is idle: the master in select, every worker blocked on sq_full.
Idle == /\ mpc = "select" /\ Cardinality(Sleeping) = num_threads

\* mg_stop returns when it is called on an idle server.
IdleServerStops == (stop_flag = 1 /\ Idle) ~> (main = "stopped")

\* mg_stop returns: consume_socket is called "even when ctx->stop_flag > 0, to
\* let it signal sq_empty condvar to wake up the master", which then wakes the rest.
StopReturns == (main = "stop") ~> (main = "stopped")
=============================================================================
