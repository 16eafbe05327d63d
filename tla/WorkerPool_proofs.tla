------------------------- MODULE WorkerPool_proofs -------------------------
(***************************************************************************)
(* Theorems about WorkerPool, for every number of workers and connections  *)
(* and every size of the ring.                                             *)
(***************************************************************************)
EXTENDS WorkerPool, FiniteSetTheorems, SequenceTheorems, TLAPS

(***************************************************************************)
(* The inductive invariant.                                                *)
(***************************************************************************)
\* The mutex is held across a step only by a thread about to block, and a worker
\* is about to block only on an empty ring, the master only on a full one.
MutexOK ==
  /\ mutex = Master <=> mpc = "wait"
  /\ \A w \in Workers : mutex = w <=> wpc[w] = "wait"
  /\ mpc = "wait" => Length >= Size
  /\ \A w \in Workers : wpc[w] = "wait" => Length = 0

\* The order in which the server starts and stops.
PhaseOK ==
  /\ mpc = "none" => main = "start"
  /\ main \in {"start", "run"} <=> stop_flag = 0
  /\ mpc \in {"broadcast", "join", "cond", "signal", "done"} => stop_flag # 0
  /\ main # "start" => \A w \in Workers : wpc[w] # "none"
  /\ \A w \in Workers : wpc[w] \in {"exit", "done"} => stop_flag # 0

\* The workers that have still to take themselves off num_threads.
Active == {w \in Workers : wpc[w] \notin {"none", "done", "failed"}}

CountOK == Cardinality(Active) <= num_threads

\* Who holds a socket.
HandsOK ==
  /\ accepted # None <=> mpc \in {"produce", "wait", "sq_empty"}
  /\ \A w \in Workers :
       /\ client[w] # None => wpc[w] \in {"return", "serve", "exit", "done"}
       /\ wpc[w] = "serve" => client[w] # None
       /\ wpc[w] = "return" /\ stop_flag = 0 => client[w] # None

\* The cells of the ring between tail and head hold sockets.
RingOK == \A i \in 1..Length : Waiting[i] \in Sockets

IInv == /\ TypeOK /\ MutexOK /\ PhaseOK /\ CountOK /\ HandsOK /\ RingOK
        /\ NoLostWakeup /\ DestroyedLast
        /\ OnePlace /\ NoneForgotten

(***************************************************************************)
(* The ring.                                                               *)
(***************************************************************************)
\* An index of the ring is wrapped at most once.
LEMMA Wrapped ==
  ASSUME NEW a \in Nat
  PROVE  /\ a < Size => a % Size = a
         /\ Size <= a /\ a < Size + Size => a % Size = a - Size
         /\ a % Size \in 0..(Size - 1)
<1>1. Size \in Nat /\ Size > 0
  BY PoolConstants
<1>2. a % Size \in 0..(Size - 1)
  BY <1>1
<1>3. a = Size * (a \div Size) + (a % Size) /\ a \div Size \in Int
  BY <1>1
<1>4. a < Size => a % Size = a
  BY <1>1
<1>5. Size <= a /\ a < Size + Size => a % Size = a - Size
  BY <1>1
<1> QED BY <1>2, <1>4, <1>5

\* The place of the i-th waiting socket.
LEMMA WaitingAt ==
  ASSUME TypeOK, NEW i \in 1..Length
  PROVE  /\ Length \in 0..Size
         /\ sq_tail + i - 1 \in Nat /\ sq_tail + i - 1 < Size + Size
         /\ Waiting[i] = queue[(sq_tail + i - 1) % Size]
<1>1. Length \in 0..Size /\ sq_tail \in 0..Size
  BY PoolConstants DEF TypeOK, Length
<1>2. Waiting[i] = queue[(sq_tail + i - 1) % Size]
  BY DEF Waiting
<1> QED BY <1>1, <1>2, PoolConstants

\* A socket goes behind the ones that wait.
LEMMA EnqueueFacts ==
  ASSUME TypeOK, NEW s \in Sockets, Length < Size, Enqueue(s)
  PROVE  /\ queue' \in [0..(Size - 1) -> Sockets \cup {None}]
         /\ sq_tail' \in 0..Size /\ sq_head' \in sq_tail'..(sq_tail' + Size)
         /\ Length' = Length + 1
         /\ \A i \in 1..Length : Waiting'[i] = Waiting[i]
         /\ Waiting'[Length + 1] = s
<1>1. /\ Size \in Nat /\ Size > 0 /\ Length \in 0..Size
      /\ sq_tail \in 0..Size /\ sq_head \in Nat /\ sq_head = sq_tail + Length
  BY PoolConstants DEF TypeOK, Length
<1>2. /\ queue' = [queue EXCEPT ![sq_head % Size] = s]
      /\ sq_head' = sq_head + 1 /\ sq_tail' = sq_tail
  BY DEF Enqueue
<1>3. Length' = Length + 1
  BY <1>1, <1>2 DEF Length
<1>4. sq_head % Size \in 0..(Size - 1)
  BY <1>1, Wrapped
<1>5. queue \in [0..(Size - 1) -> Sockets \cup {None}]
  BY DEF TypeOK
<1>6. ASSUME NEW i \in 1..(Length + 1)
      PROVE  Waiting'[i] = queue'[(sq_tail + i - 1) % Size]
  BY <1>2, <1>3 DEF Waiting
<1>7. ASSUME NEW i \in 1..Length
      PROVE  Waiting'[i] = Waiting[i]
  <2>1. /\ sq_tail + i - 1 \in Nat /\ sq_tail + i - 1 < Size + Size
        /\ Waiting[i] = queue[(sq_tail + i - 1) % Size]
    BY WaitingAt
  <2>2. (sq_tail + i - 1) % Size \in 0..(Size - 1)
    BY <2>1, Wrapped
  <2>3. sq_tail + i - 1 < sq_head /\ sq_head - (sq_tail + i - 1) < Size
    BY <1>1
  <2>4. (sq_tail + i - 1) % Size # sq_head % Size
    <3> DEFINE a == sq_tail + i - 1
    <3>1. a < Size => a % Size = a
      BY <2>1, Wrapped
    <3>2. Size <= a /\ a < Size + Size => a % Size = a - Size
      BY <2>1, Wrapped
    <3>3. sq_head < Size => sq_head % Size = sq_head
      BY <1>1, Wrapped
    <3>4. Size <= sq_head /\ sq_head < Size + Size => sq_head % Size = sq_head - Size
      BY <1>1, Wrapped
    <3>5. sq_head < Size + Size
      BY <1>1
    <3> QED BY <1>1, <2>1, <2>3, <3>1, <3>2, <3>3, <3>4, <3>5
  <2>5. Waiting'[i] = queue'[(sq_tail + i - 1) % Size]
    BY <1>1, <1>6
  <2> QED BY <1>2, <1>5, <2>1, <2>2, <2>4, <2>5
<1>8. Waiting'[Length + 1] = s
  <2>1. Waiting'[Length + 1] = queue'[(sq_tail + (Length + 1) - 1) % Size]
    BY <1>1, <1>6
  <2>2. sq_tail + (Length + 1) - 1 = sq_head
    BY <1>1
  <2> QED BY <1>2, <1>4, <1>5, <2>1, <2>2
<1>9. queue' \in [0..(Size - 1) -> Sockets \cup {None}]
  BY <1>2, <1>5
<1> QED BY <1>1, <1>2, <1>3, <1>7, <1>8, <1>9

\* The socket that has waited longest comes out; the others move up.
LEMMA DequeueFacts ==
  ASSUME TypeOK, NEW w \in Workers, sq_head > sq_tail, Dequeue(w)
  PROVE  /\ queue' = queue
         /\ sq_tail' \in 0..Size /\ sq_head' \in sq_tail'..(sq_tail' + Size)
         /\ Length \in 1..Size /\ Length' = Length - 1
         /\ client' = [client EXCEPT ![w] = Waiting[1]]
         /\ \A i \in 1..(Length - 1) : Waiting'[i] = Waiting[i + 1]
<1>1. /\ Size \in Nat /\ Size > 0 /\ Length \in 1..Size
      /\ sq_tail \in 0..Size /\ sq_head \in Nat /\ sq_head = sq_tail + Length
  BY PoolConstants DEF TypeOK, Length
<1>2. /\ queue' = queue
      /\ client' = [client EXCEPT ![w] = queue[sq_tail % Size]]
      /\ sq_tail' = sq_tail + 1 - (IF sq_tail + 1 > Size THEN Size ELSE 0)
      /\ sq_head' = sq_head - (IF sq_tail + 1 > Size THEN Size ELSE 0)
  BY DEF Dequeue
<1>3. Waiting[1] = queue[sq_tail % Size]
  <2>1. Waiting[1] = queue[(sq_tail + 1 - 1) % Size]
    BY <1>1, WaitingAt
  <2> QED BY <1>1, <2>1
<1>4. /\ sq_tail' \in 0..Size /\ sq_head' = sq_tail' + (Length - 1)
      /\ sq_tail' = IF sq_tail = Size THEN 1 ELSE sq_tail + 1
  BY <1>1, <1>2
<1>5. Length' = Length - 1
  BY <1>1, <1>4 DEF Length
<1>6. ASSUME NEW i \in 1..(Length - 1)
      PROVE  Waiting'[i] = Waiting[i + 1]
  <2>1. Waiting[i + 1] = queue[(sq_tail + (i + 1) - 1) % Size]
    BY <1>1, WaitingAt
  <2>2. Waiting'[i] = queue[(sq_tail' + i - 1) % Size]
    BY <1>2, <1>5 DEF Waiting
  <2>3. (sq_tail' + i - 1) % Size = (sq_tail + (i + 1) - 1) % Size
    <3>1. CASE sq_tail # Size
      BY <1>1, <1>4, <3>1
    <3>2. CASE sq_tail = Size
      <4>1. i % Size = i
        BY <1>1, Wrapped
      <4>2. (Size + i) % Size = i
        <5>1. Size + i \in Nat /\ Size <= Size + i /\ Size + i < Size + Size
          BY <1>1
        <5>2. (Size + i) % Size = (Size + i) - Size
          BY <5>1, Wrapped
        <5> QED BY <1>1, <5>2
      <4>3. sq_tail' + i - 1 = i /\ sq_tail + (i + 1) - 1 = Size + i
        BY <1>1, <1>4, <3>2
      <4> QED BY <4>1, <4>2, <4>3
    <3> QED BY <3>1, <3>2
  <2> QED BY <2>1, <2>2, <2>3
<1> QED BY <1>1, <1>2, <1>3, <1>4, <1>5, <1>6

(***************************************************************************)
(* Every step keeps the invariant: a lemma for each part of it.            *)
(***************************************************************************)
\* The steps of the master and of a worker, split at their conditions.
ProduceBlocks == Produce /\ MustWait
ProducePuts   == Produce /\ ~MustWait
ConsumeBlocks(w) == Consume(w) /\ sq_head = sq_tail /\ stop_flag = 0
ConsumeTakes(w)  == Consume(w) /\ sq_head > sq_tail
ConsumeLeaves(w) == Consume(w) /\ sq_head = sq_tail /\ stop_flag # 0

LEMMA ConsumeCases ==
  ASSUME TypeOK, NEW w \in Workers, Consume(w)
  PROVE  ConsumeBlocks(w) \/ ConsumeTakes(w) \/ ConsumeLeaves(w)
<1>1. sq_head \in Int /\ sq_tail \in Int /\ sq_head >= sq_tail
  BY PoolConstants DEF TypeOK
<1> QED BY <1>1 DEF ConsumeBlocks, ConsumeTakes, ConsumeLeaves

\* What is waiting does not change when the ring does not.
LEMMA RingStays ==
  ASSUME UNCHANGED ring
  PROVE  Length' = Length /\ Waiting' = Waiting /\ InRing' = InRing
  BY DEF ring, Length, Waiting, InRing

LEMMA PutFacts ==
  ASSUME TypeOK, HandsOK, ProducePuts
  PROVE  /\ mpc = "produce" /\ mutex = Free /\ accepted \in Sockets
         /\ mpc' = "select" /\ accepted' = None
         /\ wpc' \in [Workers -> {"none", "consume", "wait", "sq_full", "return", "serve",
                                   "exit", "done", "failed"}]
         /\ \A w \in Workers : wpc'[w] = wpc[w] \/ (wpc[w] = "sq_full" /\ wpc'[w] = "consume")
         /\ Sleeping # {} => \E w \in Workers : wpc'[w] = "consume"
         /\ UNCHANGED <<mutex, stop_flag, num_threads, main, client, pending, closed>>
         /\ stop_flag = 0 => Length < Size
         /\ Length < Size => Enqueue(accepted)
         /\ Length >= Size => UNCHANGED ring
<1>1. /\ mpc = "produce" /\ mutex = Free /\ mpc' = "select" /\ accepted' = None
      /\ UNCHANGED <<mutex, stop_flag, num_threads, main, client, pending, closed>>
      /\ Enqueue(accepted) /\ SignalFull
  BY DEF ProducePuts, Produce, net
<1>2. accepted \in Sockets
  BY <1>1 DEF TypeOK, HandsOK
<1>3. /\ wpc' \in [Workers -> {"none", "consume", "wait", "sq_full", "return", "serve",
                                   "exit", "done", "failed"}]
      /\ \A w \in Workers : wpc'[w] = wpc[w] \/ (wpc[w] = "sq_full" /\ wpc'[w] = "consume")
      /\ Sleeping # {} => \E w \in Workers : wpc'[w] = "consume"
  BY <1>1 DEF TypeOK, SignalFull, Sleeping
<1>4. stop_flag = 0 => Length < Size
  BY PoolConstants DEF TypeOK, ProducePuts, MustWait, Length
<1>5. Length >= Size => UNCHANGED ring
  BY <1>1, PoolConstants DEF TypeOK, Enqueue, Length
<1> QED BY <1>1, <1>2, <1>3, <1>4, <1>5

LEMMA TakeFacts ==
  ASSUME TypeOK, NEW w \in Workers, ConsumeTakes(w)
  PROVE  /\ wpc[w] = "consume" /\ mutex = Free
         /\ wpc' = [wpc EXCEPT ![w] = "return"]
         /\ mpc' = IF mpc = "sq_empty" THEN "produce" ELSE mpc
         /\ Dequeue(w)
         /\ UNCHANGED <<mutex, stop_flag, num_threads, main, accepted, pending, closed>>
<1>1. sq_head # sq_tail
  BY PoolConstants DEF ConsumeTakes, TypeOK
<1> QED BY <1>1 DEF ConsumeTakes, Consume, SignalMaster, net

LEMMA LeaveFacts ==
  ASSUME TypeOK, NEW w \in Workers, ConsumeLeaves(w)
  PROVE  /\ wpc[w] = "consume" /\ mutex = Free /\ stop_flag # 0
         /\ wpc' = [wpc EXCEPT ![w] = "return"]
         /\ mpc' = IF mpc = "sq_empty" THEN "produce" ELSE mpc
         /\ UNCHANGED ring
         /\ UNCHANGED <<client, mutex, stop_flag, num_threads, main, accepted, pending, closed>>
<1>1. ~(sq_head > sq_tail)
  BY PoolConstants DEF ConsumeLeaves, TypeOK
<1> QED BY <1>1 DEF ConsumeLeaves, Consume, SignalMaster, Dequeue, net

\* The cases every lemma below splits a step into.
LEMMA NextCases ==
  ASSUME TypeOK, Next
  PROVE  \/ MainStep \/ Stop
         \/ \E s \in Sockets : Accept(s)
         \/ ProduceBlocks \/ ProducePuts \/ ProduceWaits
         \/ Leave \/ Broadcast \/ Join \/ Finish
         \/ \E w \in Workers : \/ ConsumeBlocks(w) \/ ConsumeTakes(w) \/ ConsumeLeaves(w)
                              \/ ConsumeWaits(w) \/ Return(w) \/ Serve(w) \/ Exit(w)
  BY ConsumeCases DEF Next, MasterStep, WorkerStep, ProduceBlocks, ProducePuts

LEMMA TypeStep ==
  ASSUME IInv, Next
  PROVE  TypeOK'
<1>0. TypeOK /\ HandsOK /\ PhaseOK
  BY DEF IInv
<1>1. CASE MainStep \/ Stop
  BY <1>0, <1>1 DEF TypeOK, MainStep, StartMaster, StartWorker, Started, Stopped, Stop,
     ring, master, worker, net
<1>2. ASSUME NEW s \in Sockets, Accept(s) PROVE TypeOK'
  BY <1>0, <1>2 DEF TypeOK, Accept, ring, worker
<1>3. CASE ProduceBlocks
  BY <1>0, <1>3 DEF TypeOK, ProduceBlocks, Produce, ring, net
<1>4. CASE ProducePuts
  <2>1. CASE Length < Size
    BY <1>0, <1>4, <2>1, PutFacts, EnqueueFacts DEF TypeOK
  <2>2. CASE Length >= Size
    BY <1>0, <1>4, <2>2, PutFacts DEF TypeOK, ring
  <2>3. Length \in Int /\ Size \in Int
    BY <1>0, PoolConstants DEF TypeOK, Length
  <2> QED BY <2>1, <2>2, <2>3
<1>5. CASE ProduceWaits \/ Leave \/ Broadcast \/ Join \/ Finish
  BY <1>0, <1>5 DEF TypeOK, ProduceWaits, Leave, Broadcast, BroadcastFull, Join, Finish,
     ring, worker, net
<1>6. ASSUME NEW w \in Workers, ConsumeBlocks(w) PROVE TypeOK'
  BY <1>0, <1>6 DEF TypeOK, ConsumeBlocks, Consume, ring, net
<1>7. ASSUME NEW w \in Workers, ConsumeTakes(w) PROVE TypeOK'
  <2>1. Waiting[1] \in Sockets \cup {None}
    <3>1. 1 \in 1..Length
      BY <1>0, <1>7, PoolConstants DEF TypeOK, ConsumeTakes, Length
    <3>2. sq_tail + 1 - 1 \in Nat /\ Waiting[1] = queue[(sq_tail + 1 - 1) % Size]
      BY <1>0, <3>1, WaitingAt
    <3>3. (sq_tail + 1 - 1) % Size \in 0..(Size - 1)
      BY <3>2, Wrapped
    <3> QED BY <1>0, <3>2, <3>3 DEF TypeOK
  <2>2. sq_head > sq_tail
    BY <1>7 DEF ConsumeTakes
  <2> QED BY <1>0, <1>7, <2>1, <2>2, TakeFacts, DequeueFacts DEF TypeOK
<1>8. ASSUME NEW w \in Workers, ConsumeLeaves(w) PROVE TypeOK'
  BY <1>0, <1>8, LeaveFacts DEF TypeOK, ring
<1>9. ASSUME NEW w \in Workers, ConsumeWaits(w) \/ Return(w) \/ Serve(w) \/ Exit(w)
      PROVE  TypeOK'
  BY <1>0, <1>9 DEF TypeOK, HandsOK, ConsumeWaits, Return, Serve, Exit, SignalMaster,
     ring, master, net
<1> QED BY <1>0, <1>1, <1>2, <1>3, <1>4, <1>5, <1>6, <1>7, <1>8, <1>9, NextCases

LEMMA MutexStep ==
  ASSUME IInv, Next
  PROVE  MutexOK'
<1>0. TypeOK /\ HandsOK /\ MutexOK /\ Master \notin Workers /\ Free \notin Workers /\ Free # Master
  BY PoolConstants DEF IInv
<1>1. CASE MainStep \/ Stop
  BY <1>0, <1>1, RingStays DEF TypeOK, MutexOK, MainStep, StartMaster, StartWorker, Started,
     Stopped, Stop, master, worker
<1>2. ASSUME NEW s \in Sockets, Accept(s) PROVE MutexOK'
  BY <1>0, <1>2, RingStays DEF MutexOK, Accept, worker
<1>3. CASE ProduceBlocks
  BY <1>0, <1>3, RingStays DEF MutexOK, ProduceBlocks, Produce, MustWait, ring
<1>4. CASE ProducePuts
  BY <1>0, <1>4, PutFacts DEF MutexOK
<1>5. CASE ProduceWaits \/ Leave \/ Join \/ Finish
  BY <1>0, <1>5, RingStays DEF MutexOK, ProduceWaits, Leave, Join, Finish, worker
<1>6. CASE Broadcast
  BY <1>0, <1>6, RingStays DEF TypeOK, MutexOK, Broadcast, BroadcastFull, Sleeping
<1>7. ASSUME NEW w \in Workers, ConsumeBlocks(w) PROVE MutexOK'
  <2>1. Length = 0
    BY <1>0, <1>7, PoolConstants DEF TypeOK, ConsumeBlocks, Length
  <2> QED BY <1>0, <1>7, <2>1, RingStays DEF TypeOK, MutexOK, ConsumeBlocks, Consume, ring
<1>8. ASSUME NEW w \in Workers, ConsumeTakes(w) PROVE MutexOK'
  BY <1>0, <1>8, TakeFacts DEF TypeOK, MutexOK
<1>9. ASSUME NEW w \in Workers, ConsumeLeaves(w) PROVE MutexOK'
  BY <1>0, <1>9, LeaveFacts, RingStays DEF TypeOK, MutexOK
<1>10. ASSUME NEW w \in Workers, ConsumeWaits(w) \/ Return(w) \/ Serve(w) \/ Exit(w)
       PROVE  MutexOK'
  BY <1>0, <1>10, RingStays DEF TypeOK, MutexOK, ConsumeWaits, Return, Serve, Exit,
     SignalMaster, master
<1> QED BY <1>0, <1>1, <1>2, <1>3, <1>4, <1>5, <1>6, <1>7, <1>8, <1>9, <1>10, NextCases

LEMMA PhaseStep ==
  ASSUME IInv, Next
  PROVE  PhaseOK'
<1>0. TypeOK /\ HandsOK /\ PhaseOK
  BY DEF IInv
<1>1. CASE MainStep \/ Stop
  BY <1>0, <1>1 DEF TypeOK, PhaseOK, MainStep, StartMaster, StartWorker, Started,
     Stopped, Stop, master, worker
<1>2. ASSUME NEW s \in Sockets, Accept(s) PROVE PhaseOK'
  BY <1>0, <1>2 DEF PhaseOK, Accept, worker
<1>3. CASE ProduceBlocks
  BY <1>0, <1>3 DEF PhaseOK, ProduceBlocks, Produce
<1>4. CASE ProducePuts
  BY <1>0, <1>4, PutFacts DEF PhaseOK
<1>5. CASE ProduceWaits \/ Leave \/ Join \/ Finish
  BY <1>0, <1>5 DEF TypeOK, PhaseOK, ProduceWaits, Leave, Join, Finish, worker
<1>6. CASE Broadcast
  BY <1>0, <1>6 DEF TypeOK, PhaseOK, Broadcast, BroadcastFull, Sleeping
<1>7. ASSUME NEW w \in Workers, ConsumeBlocks(w) PROVE PhaseOK'
  BY <1>0, <1>7 DEF TypeOK, PhaseOK, ConsumeBlocks, Consume
<1>8. ASSUME NEW w \in Workers, ConsumeTakes(w) PROVE PhaseOK'
  BY <1>0, <1>8, TakeFacts DEF TypeOK, PhaseOK
<1>9. ASSUME NEW w \in Workers, ConsumeLeaves(w) PROVE PhaseOK'
  BY <1>0, <1>9, LeaveFacts DEF TypeOK, PhaseOK
<1>10. ASSUME NEW w \in Workers, ConsumeWaits(w) \/ Return(w) \/ Serve(w) \/ Exit(w)
       PROVE  PhaseOK'
  BY <1>0, <1>10 DEF TypeOK, PhaseOK, ConsumeWaits, Return, Serve, Exit, SignalMaster, master
<1> QED BY <1>0, <1>1, <1>2, <1>3, <1>4, <1>5, <1>6, <1>7, <1>8, <1>9, <1>10, NextCases

LEMMA HandsStep ==
  ASSUME IInv, Next
  PROVE  HandsOK'
<1>0. TypeOK /\ HandsOK /\ PhaseOK /\ None \notin Sockets
  BY PoolConstants DEF IInv
<1>1. CASE MainStep \/ Stop
  BY <1>0, <1>1 DEF TypeOK, HandsOK, MainStep, StartMaster, StartWorker, Started,
     Stopped, Stop, master, worker
<1>2. ASSUME NEW s \in Sockets, Accept(s) PROVE HandsOK'
  BY <1>0, <1>2 DEF HandsOK, Accept, worker
<1>3. CASE ProduceBlocks
  BY <1>0, <1>3 DEF HandsOK, ProduceBlocks, Produce
<1>4. CASE ProducePuts
  BY <1>0, <1>4, PutFacts DEF HandsOK
<1>5. CASE ProduceWaits \/ Leave \/ Join \/ Finish
  BY <1>0, <1>5 DEF TypeOK, HandsOK, ProduceWaits, Leave, Join, Finish, worker
<1>6. CASE Broadcast
  BY <1>0, <1>6 DEF TypeOK, HandsOK, Broadcast, BroadcastFull, Sleeping
<1>7. ASSUME NEW w \in Workers, ConsumeBlocks(w) PROVE HandsOK'
  BY <1>0, <1>7 DEF TypeOK, HandsOK, ConsumeBlocks, Consume
<1>8. ASSUME NEW w \in Workers, ConsumeTakes(w) PROVE HandsOK'
  <2>1. sq_head > sq_tail /\ 1 \in 1..Length
    BY <1>0, <1>8, PoolConstants DEF TypeOK, ConsumeTakes, Length
  <2>2. Waiting[1] # None
    BY <1>0, <2>1 DEF IInv, RingOK
  <2>3. client' = [client EXCEPT ![w] = Waiting[1]]
    BY <1>0, <1>8, <2>1, TakeFacts, DequeueFacts
  <2> QED BY <1>0, <1>8, <2>2, <2>3, TakeFacts DEF TypeOK, HandsOK
<1>9. ASSUME NEW w \in Workers, ConsumeLeaves(w) PROVE HandsOK'
  BY <1>0, <1>9, LeaveFacts DEF TypeOK, HandsOK
<1>10. ASSUME NEW w \in Workers, ConsumeWaits(w) \/ Return(w) \/ Serve(w) \/ Exit(w)
       PROVE  HandsOK'
  BY <1>0, <1>10 DEF TypeOK, HandsOK, ConsumeWaits, Return, Serve, Exit, SignalMaster, master
<1> QED BY <1>0, <1>1, <1>2, <1>3, <1>4, <1>5, <1>6, <1>7, <1>8, <1>9, <1>10, NextCases

\* num_threads is never too small: a worker takes itself off when it has gone.
LEMMA CountStep ==
  ASSUME IInv, Next
  PROVE  CountOK'
<1>0. TypeOK /\ HandsOK /\ CountOK
  BY DEF IInv
<1>a. IsFiniteSet(Active) /\ Cardinality(Active) \in Nat
  BY PoolConstants, FS_Subset, FS_CardinalityType DEF Active
<1>b. ASSUME Active' = Active, num_threads' = num_threads PROVE CountOK'
  BY <1>0, <1>b DEF CountOK
<1>1. CASE StartMaster \/ Started \/ Stopped \/ Stop
  BY <1>1, <1>b DEF StartMaster, Started, Stopped, Stop, worker, Active
<1>2. ASSUME NEW w \in Workers, StartWorker(w) PROVE CountOK'
  <2>1. CASE wpc' = [wpc EXCEPT ![w] = "consume"] /\ num_threads' = num_threads + 1
    <3>1. Active' = Active \cup {w}
      BY <1>0, <1>2, <2>1 DEF TypeOK, Active
    <3>2. w \notin Active
      BY <1>2 DEF StartWorker, Active
    <3>3. Cardinality(Active') = Cardinality(Active) + 1
      BY <1>a, <3>1, <3>2, FS_AddElement
    <3> QED BY <1>0, <1>a, <2>1, <3>3 DEF TypeOK, CountOK
  <2>2. CASE wpc' = [wpc EXCEPT ![w] = "failed"] /\ num_threads' \in {num_threads, num_threads + 1}
    <3>1. Active' = Active
      BY <1>0, <1>2, <2>2 DEF TypeOK, StartWorker, Active
    <3> QED BY <1>0, <1>a, <2>2, <3>1 DEF TypeOK, CountOK
  <2> QED BY <1>2, <2>1, <2>2 DEF StartWorker
<1>3. ASSUME NEW s \in Sockets, Accept(s) PROVE CountOK'
  BY <1>3, <1>b DEF Accept, worker, Active
<1>4. CASE ProduceBlocks
  BY <1>4, <1>b DEF ProduceBlocks, Produce, Active
<1>5. CASE ProducePuts
  BY <1>0, <1>5, <1>b, PutFacts DEF Active
<1>6. CASE ProduceWaits \/ Leave \/ Join \/ Finish
  BY <1>6, <1>b DEF ProduceWaits, Leave, Join, Finish, worker, Active
<1>7. CASE Broadcast
  BY <1>0, <1>7, <1>b DEF TypeOK, Broadcast, BroadcastFull, Sleeping, Active
<1>8. ASSUME NEW w \in Workers,
             ConsumeBlocks(w) \/ ConsumeTakes(w) \/ ConsumeLeaves(w) PROVE CountOK'
  BY <1>0, <1>8, <1>b
     DEF TypeOK, ConsumeBlocks, ConsumeTakes, ConsumeLeaves, Consume, Active
<1>9. ASSUME NEW w \in Workers, ConsumeWaits(w) \/ Return(w) \/ Serve(w) PROVE CountOK'
  BY <1>0, <1>9, <1>b DEF TypeOK, ConsumeWaits, Return, Serve, Active
<1>10. ASSUME NEW w \in Workers, Exit(w) PROVE CountOK'
  <2>1. w \in Active /\ Active' = Active \ {w}
    BY <1>0, <1>10 DEF TypeOK, Exit, Active
  <2>2. Cardinality(Active') = Cardinality(Active) - 1
    BY <1>a, <2>1, FS_RemoveElement
  <2>3. num_threads' = num_threads - 1
    BY <1>10 DEF Exit
  <2> QED BY <1>0, <1>a, <2>2, <2>3 DEF TypeOK, CountOK
<1> QED BY <1>0, <1>1, <1>2, <1>3, <1>4, <1>5, <1>6, <1>7, <1>8, <1>9, <1>10, NextCases
    DEF MainStep

LEMMA DestroyedStep ==
  ASSUME IInv, Next
  PROVE  DestroyedLast'
<1>0. TypeOK /\ HandsOK /\ PhaseOK /\ DestroyedLast
  BY DEF IInv
<1>1. CASE mpc \in {"signal", "done"}
  <2>1. \A w \in Workers : wpc[w] \in {"done", "failed"}
    BY <1>0, <1>1 DEF DestroyedLast
  <2>2. main # "start"
    BY <1>0, <1>1 DEF PhaseOK
  <2>3. wpc' = wpc
    BY <1>0, <1>1, <2>1, <2>2, NextCases
       DEF MainStep, StartMaster, StartWorker, Started, Stopped, Stop, Accept, ProduceBlocks,
           ProducePuts, Produce, ProduceWaits, Leave, Broadcast, Join, Finish, ConsumeBlocks,
           ConsumeTakes, ConsumeLeaves, Consume, ConsumeWaits, Return, Serve, Exit, worker
  <2> QED BY <2>1, <2>3 DEF DestroyedLast
<1>2. CASE Join
  <2>1. IsFiniteSet(Active) /\ Cardinality(Active) \in Nat
    BY PoolConstants, FS_Subset, FS_CardinalityType DEF Active
  <2>2. ASSUME mpc' = "signal" PROVE \A w \in Workers : wpc'[w] \in {"done", "failed"}
    <3>1. ~(num_threads > 0) /\ wpc' = wpc /\ mpc = "join"
      BY <1>2, <2>2 DEF Join, worker
    <3>2. Cardinality(Active) = 0
      BY <1>0, <2>1, <3>1 DEF IInv, TypeOK, CountOK
    <3>3. Active = {}
      BY <2>1, <3>2, FS_EmptySet
    <3>4. \A w \in Workers : wpc[w] # "none"
      BY <1>0, <3>1 DEF PhaseOK
    <3> QED BY <3>1, <3>3, <3>4 DEF Active
  <2>3. mpc' # "done"
    BY <1>2 DEF Join
  <2> QED BY <2>2, <2>3 DEF DestroyedLast
<1>3. CASE mpc \notin {"signal", "done"} /\ ~Join
  <2>1. mpc' \notin {"signal", "done"}
    BY <1>0, <1>3, NextCases
       DEF MainStep, StartMaster, StartWorker, Started, Stopped, Stop, Accept, ProduceBlocks,
           ProducePuts, Produce, ProduceWaits, Leave, Broadcast, Finish, ConsumeBlocks,
           ConsumeTakes, ConsumeLeaves, Consume, ConsumeWaits, Return, Serve, Exit,
           SignalMaster, master
  <2> QED BY <2>1 DEF DestroyedLast
<1> QED BY <1>1, <1>2, <1>3

\* What a socket that goes in, and one that comes out, does to the set of waiting ones.
LEMMA PutInRing ==
  ASSUME TypeOK, NEW s \in Sockets, Length < Size, Enqueue(s)
  PROVE  InRing' = InRing \cup {s}
<1>1. Length \in Nat
  BY PoolConstants DEF TypeOK, Length
<1>2. InRing' = {Waiting'[i] : i \in 1..Length'}
  BY DEF InRing
<1>3. Length' = Length + 1 /\ Waiting'[Length + 1] = s
      /\ \A i \in 1..Length : Waiting'[i] = Waiting[i]
  BY EnqueueFacts
<1>4. ASSUME NEW x \in InRing' PROVE x \in InRing \cup {s}
  BY <1>1, <1>2, <1>3, <1>4 DEF InRing
<1>5. ASSUME NEW x \in InRing \cup {s} PROVE x \in InRing'
  <2>1. CASE x = s
    BY <1>1, <1>2, <1>3, <2>1
  <2>2. CASE x \in InRing
    <3>1. PICK i \in 1..Length : x = Waiting[i]
      BY <2>2 DEF InRing
    <3> QED BY <1>1, <1>2, <1>3, <3>1
  <2> QED BY <1>5, <2>1, <2>2
<1> QED BY <1>4, <1>5

LEMMA TakeInRing ==
  ASSUME TypeOK, NEW w \in Workers, sq_head > sq_tail, Dequeue(w),
         \A i, j \in 1..Length : Waiting[i] = Waiting[j] => i = j
  PROVE  Waiting[1] \in InRing /\ InRing' = InRing \ {Waiting[1]}
<1>1. /\ Length \in 1..Size /\ Length' = Length - 1 /\ Size \in Nat
      /\ \A i \in 1..(Length - 1) : Waiting'[i] = Waiting[i + 1]
  BY DequeueFacts, PoolConstants
<1>2. InRing' = {Waiting'[i] : i \in 1..Length'}
  BY DEF InRing
<1>3. Waiting[1] \in InRing
  BY <1>1 DEF InRing
<1>4. ASSUME NEW x \in InRing' PROVE x \in InRing \ {Waiting[1]}
  <2>1. PICK i \in 1..(Length - 1) : x = Waiting'[i]
    BY <1>1, <1>2
  <2>2. x = Waiting[i + 1] /\ i + 1 \in 1..Length /\ i + 1 # 1 /\ 1 \in 1..Length
    BY <1>1, <2>1
  <2> QED BY <2>2 DEF InRing
<1>5. ASSUME NEW x \in InRing \ {Waiting[1]} PROVE x \in InRing'
  <2>1. PICK i \in 1..Length : x = Waiting[i]
    BY <1>5 DEF InRing
  <2>2. i # 1 /\ i - 1 \in 1..(Length - 1) /\ (i - 1) + 1 = i
    BY <1>1, <1>5, <2>1
  <2>3. x = Waiting'[i - 1]
    BY <1>1, <2>1, <2>2
  <2> QED BY <1>1, <1>2, <2>2, <2>3
<1> QED BY <1>3, <1>4, <1>5

\* The steps that leave the ring alone.
LEMMA RingUnchanged ==
  ASSUME TypeOK, Next, ~ProducePuts, \A w \in Workers : ~ConsumeTakes(w)
  PROVE  UNCHANGED ring
<1>1. ASSUME NEW w \in Workers, ConsumeLeaves(w) PROVE UNCHANGED ring
  BY <1>1, LeaveFacts
<1> QED BY <1>1, NextCases
    DEF MainStep, StartMaster, StartWorker, Started, Stopped, Stop, Accept, ProduceBlocks,
        Produce, ProduceWaits, Leave, Broadcast, Join, Finish, ConsumeBlocks, Consume,
        ConsumeWaits, Return, Serve, Exit

LEMMA RingStep ==
  ASSUME IInv, Next
  PROVE  RingOK'
<1>0. TypeOK /\ HandsOK /\ RingOK
  BY DEF IInv
<1>a. Length \in Nat
  BY <1>0, PoolConstants DEF TypeOK, Length
<1>1. CASE ProducePuts
  <2>1. CASE Length < Size
    <3>1. accepted \in Sockets /\ Enqueue(accepted)
      BY <1>0, <1>1, <2>1, PutFacts
    <3>2. /\ Length' = Length + 1 /\ Waiting'[Length + 1] = accepted
          /\ \A i \in 1..Length : Waiting'[i] = Waiting[i]
      BY <1>0, <2>1, <3>1, EnqueueFacts
    <3> QED BY <1>0, <1>a, <3>1, <3>2 DEF RingOK
  <2>2. CASE ~(Length < Size)
    BY <1>0, <1>1, <1>a, <2>2, PutFacts, RingStays, PoolConstants DEF RingOK
  <2> QED BY <2>1, <2>2
<1>2. ASSUME NEW w \in Workers, ConsumeTakes(w) PROVE RingOK'
  <2>1. sq_head > sq_tail /\ Dequeue(w)
    BY <1>0, <1>2, TakeFacts DEF ConsumeTakes
  <2>2. /\ Length \in 1..Size /\ Length' = Length - 1
        /\ \A i \in 1..(Length - 1) : Waiting'[i] = Waiting[i + 1]
    BY <1>0, <2>1, DequeueFacts
  <2> QED BY <1>0, <2>2, PoolConstants DEF RingOK
<1>3. CASE UNCHANGED ring
  BY <1>0, <1>3, RingStays DEF RingOK
<1> QED BY <1>0, <1>1, <1>2, <1>3, RingUnchanged

LEMMA WakeupStep ==
  ASSUME IInv, Next
  PROVE  NoLostWakeup'
<1>0. /\ TypeOK /\ MutexOK /\ PhaseOK /\ HandsOK /\ NoLostWakeup /\ TypeOK'
      /\ Length \in 0..Size /\ Size \in Nat /\ Size > 0
  BY TypeStep, PoolConstants DEF IInv, TypeOK, Length
<1>1. SUFFICES ASSUME stop_flag = 0 PROVE NoLostWakeup'
  <2>1. stop_flag' = 0 => stop_flag = 0
    BY <1>0, NextCases
       DEF MainStep, StartMaster, StartWorker, Started, Stopped, Stop, Accept, ProduceBlocks,
           ProducePuts, Produce, ProduceWaits, Leave, Broadcast, Join, Finish, ConsumeBlocks,
           ConsumeTakes, ConsumeLeaves, Consume, ConsumeWaits, Return, Serve, Exit
  <2> QED BY <1>1, <2>1 DEF NoLostWakeup
<1> DEFINE Ready(w) == wpc[w] \in {"consume", "return", "serve"}
<1>2. CASE ProduceBlocks
  <2>1. Length = Size /\ UNCHANGED ring /\ wpc' = wpc
    BY <1>0, <1>2 DEF ProduceBlocks, Produce, MustWait, ring
  <2> QED BY <1>0, <1>1, <2>1, RingStays DEF NoLostWakeup, Sleeping
<1>3. CASE ProducePuts
  <2>1. Sleeping' \subseteq Sleeping
    BY <1>0, <1>3, PutFacts DEF Sleeping
  <2> QED BY <1>0, <1>3, <2>1, PutFacts DEF NoLostWakeup
<1>4. ASSUME NEW w \in Workers, ConsumeTakes(w) PROVE NoLostWakeup'
  <2>1. wpc'[w] = "return"
    BY <1>0, <1>4, TakeFacts DEF TypeOK
  <2>2. mpc' \notin {"wait", "sq_empty"}
    BY <1>0, <1>4, TakeFacts, PoolConstants DEF MutexOK
  <2> QED BY <2>1, <2>2 DEF NoLostWakeup
<1>5. CASE UNCHANGED ring /\ ~ProduceBlocks
  <2>1. Length' = Length
    BY <1>5, RingStays
  <2>2. mpc' \in {"wait", "sq_empty"} => mpc \in {"wait", "sq_empty"} \/ ProducePuts
    BY <1>0, <1>1, <1>5, NextCases
       DEF MainStep, StartMaster, StartWorker, Started, Stopped, Stop, Accept,
           ProducePuts, ProduceWaits, Leave, Broadcast, Join, Finish, ConsumeBlocks,
           ConsumeTakes, ConsumeLeaves, Consume, ConsumeWaits, Return, Serve, Exit,
           SignalMaster, master
  <2>3. ASSUME ~ProducePuts, Length > 0, Sleeping' # {} PROVE \E w \in Workers : Ready(w)'
    <3>1. CASE wpc' = wpc
      BY <1>0, <1>1, <2>3, <3>1 DEF NoLostWakeup, Sleeping
    <3>2. ASSUME NEW w \in Workers, StartWorker(w) PROVE \E v \in Workers : Ready(v)'
      <4>1. Sleeping # {}
        BY <1>0, <2>3, <3>2 DEF TypeOK, StartWorker, Sleeping
      <4>2. PICK v \in Workers : wpc[v] \in {"consume", "return", "serve"}
        BY <1>0, <1>1, <2>3, <4>1 DEF NoLostWakeup
      <4>3. wpc'[v] = wpc[v]
        BY <1>0, <3>2, <4>2 DEF TypeOK, StartWorker
      <4> QED BY <4>2, <4>3
    <3>3. ASSUME NEW w \in Workers, ConsumeTakes(w) \/ ConsumeLeaves(w) \/ Serve(w) \/ Return(w)
          PROVE  \E v \in Workers : Ready(v)'
      BY <1>0, <1>1, <3>3 DEF TypeOK, ConsumeTakes, ConsumeLeaves, Consume, Serve, Return
    <3>4. ASSUME NEW w \in Workers PROVE ~ConsumeBlocks(w) /\ ~ConsumeWaits(w) /\ ~Exit(w)
      BY <1>0, <1>1, <2>3, <3>4
         DEF MutexOK, PhaseOK, ConsumeBlocks, ConsumeWaits, Exit, Length, TypeOK
    <3>5. ~Broadcast
      BY <1>0, <1>1 DEF PhaseOK, Broadcast
    <3> QED BY <1>0, <1>5, <2>3, <3>1, <3>2, <3>3, <3>4, <3>5, NextCases
        DEF MainStep, StartMaster, Started, Stopped, Stop, Accept, ProduceWaits, Leave,
            Join, Finish, worker
  <2> QED BY <1>0, <1>1, <1>3, <2>1, <2>2, <2>3 DEF NoLostWakeup
<1> QED BY <1>0, <1>2, <1>3, <1>4, <1>5, RingUnchanged

\* OnePlace and NoneForgotten, in the form the steps are easy to follow in: the
\* five places as sets, and which of them meet.
Accepted == {accepted} \ {None}

Apart(a, b, c, d, e) ==
  /\ a \cap b = {} /\ a \cap c = {} /\ a \cap d = {} /\ a \cap e = {}
  /\ b \cap c = {} /\ b \cap d = {} /\ b \cap e = {}
  /\ c \cap d = {} /\ c \cap e = {} /\ d \cap e = {}

LEMMA ApartPlaces ==
  ASSUME NEW a, NEW b, NEW c, NEW d, NEW e
  PROVE  (\A i, j \in 1..5 : i # j => <<a, b, c, d, e>>[i] \cap <<a, b, c, d, e>>[j] = {})
         <=> Apart(a, b, c, d, e)
<1> DEFINE p == <<a, b, c, d, e>>
<1>1. p[1] = a /\ p[2] = b /\ p[3] = c /\ p[4] = d /\ p[5] = e
  OBVIOUS
<1>2. 1..5 = {1, 2, 3, 4, 5}
  OBVIOUS
<1>3. ASSUME \A i, j \in {1, 2, 3, 4, 5} : i # j => p[i] \cap p[j] = {}
      PROVE  Apart(p[1], p[2], p[3], p[4], p[5])
  <2> HIDE DEF p
  <2> QED BY <1>3 DEF Apart
<1>4. ASSUME Apart(p[1], p[2], p[3], p[4], p[5])
      PROVE  \A i, j \in {1, 2, 3, 4, 5} : i # j => p[i] \cap p[j] = {}
  <2> HIDE DEF p
  <2>1. ASSUME NEW i \in {1, 2, 3, 4, 5}, NEW j \in {1, 2, 3, 4, 5}, i # j
        PROVE  p[i] \cap p[j] = {}
    <3>1. CASE i = 1
      BY <1>4, <2>1, <3>1 DEF Apart
    <3>2. CASE i = 2
      BY <1>4, <2>1, <3>2 DEF Apart
    <3>3. CASE i = 3
      BY <1>4, <2>1, <3>3 DEF Apart
    <3>4. CASE i = 4
      BY <1>4, <2>1, <3>4 DEF Apart
    <3>5. CASE i = 5
      BY <1>4, <2>1, <3>5 DEF Apart
    <3> QED BY <2>1, <3>1, <3>2, <3>3, <3>4, <3>5
  <2> QED BY <2>1
<1> HIDE DEF p
<1>5. (\A i, j \in 1..5 : i # j => p[i] \cap p[j] = {}) <=> Apart(a, b, c, d, e)
  BY <1>1, <1>2, <1>3, <1>4
<1> QED BY <1>5 DEF p

Distinct == \A i, j \in 1..Length : Waiting[i] = Waiting[j] => i = j
OneClient == \A v, w \in Workers : client[v] = client[w] /\ client[v] # None => v = w
OnePlaceEach == Apart(pending, Accepted, InRing, Held, closed)
AllPlaces == pending \cup Accepted \cup InRing \cup Held \cup closed

LEMMA OnePlaceForm == OnePlace <=> Distinct /\ OneClient /\ OnePlaceEach
  BY ApartPlaces DEF OnePlace, Distinct, OneClient, OnePlaceEach, Accepted

\* Where the sockets are after a step: nowhere else, or one has moved.
LEMMA PlacesStay ==
  ASSUME TypeOK, HandsOK, Next, ~ProducePuts,
         \A s \in Sockets : ~Accept(s),
         \A w \in Workers : ~ConsumeTakes(w) /\ ~Serve(w)
  PROVE  UNCHANGED <<pending, accepted, ring, client, closed>>
<1>1. UNCHANGED ring
  BY RingUnchanged
<1>2. ASSUME NEW w \in Workers, ConsumeLeaves(w) PROVE UNCHANGED <<pending, accepted, client, closed>>
  BY <1>2, LeaveFacts
<1>3. ASSUME NEW w \in Workers, StartWorker(w) PROVE UNCHANGED <<pending, accepted, client, closed>>
  BY <1>3 DEF StartWorker, master, net
<1> QED BY <1>1, <1>2, <1>3, NextCases
    DEF MainStep, StartMaster, Started, Stopped, Stop, ProduceBlocks, Produce,
        ProduceWaits, Leave, Broadcast, Join, Finish, ConsumeBlocks, Consume, ConsumeWaits,
        Return, Exit, master, worker, net

LEMMA AcceptMoves ==
  ASSUME TypeOK, HandsOK, NEW s \in Sockets, Accept(s)
  PROVE  /\ s \in pending /\ pending' = pending \ {s}
         /\ Accepted = {} /\ Accepted' = {s}
         /\ UNCHANGED <<ring, client, closed, stop_flag>>
  BY PoolConstants DEF TypeOK, HandsOK, Accept, Accepted, worker

LEMMA ServeMoves ==
  ASSUME TypeOK, HandsOK, OneClient, NEW w \in Workers, Serve(w)
  PROVE  /\ client[w] \in Held /\ Held' = Held \ {client[w]}
         /\ closed' = closed \cup {client[w]}
         /\ OneClient'
         /\ UNCHANGED <<ring, pending, accepted, stop_flag>>
<1>1. /\ wpc[w] = "serve" /\ client[w] # None /\ client' = [client EXCEPT ![w] = None]
      /\ closed' = closed \cup {client[w]}
      /\ UNCHANGED <<ring, pending, accepted, stop_flag>>
  BY DEF HandsOK, Serve, master
<1>2. client' \in [Workers -> Sockets \cup {None}] /\ client \in [Workers -> Sockets \cup {None}]
  BY <1>1 DEF TypeOK
<1>3. client[w] \in Held
  BY <1>1 DEF Held
<1>4. Held' = Held \ {client[w]}
  <2>1. ASSUME NEW x \in Held' PROVE x \in Held \ {client[w]}
    <3>1. PICK v \in Workers : x = client'[v] /\ x # None
      BY <2>1 DEF Held
    <3>2. v # w /\ x = client[v]
      BY <1>1, <1>2, <3>1
    <3>3. x # client[w]
      BY <1>1, <3>1, <3>2 DEF OneClient
    <3> QED BY <3>1, <3>2, <3>3 DEF Held
  <2>2. ASSUME NEW x \in Held \ {client[w]} PROVE x \in Held'
    <3>1. PICK v \in Workers : x = client[v] /\ x # None
      BY <2>2 DEF Held
    <3>2. v # w /\ client'[v] = x
      BY <1>1, <1>2, <2>2, <3>1
    <3> QED BY <3>1, <3>2 DEF Held
  <2> QED BY <2>1, <2>2
<1>5. OneClient'
  BY <1>1, <1>2 DEF OneClient
<1> QED BY <1>1, <1>3, <1>4, <1>5

LEMMA TakeMoves ==
  ASSUME TypeOK, HandsOK, RingOK, Distinct, OneClient, OnePlaceEach,
         NEW w \in Workers, ConsumeTakes(w)
  PROVE  /\ Waiting[1] \in InRing /\ InRing' = InRing \ {Waiting[1]}
         /\ Held' = Held \cup {Waiting[1]}
         /\ Distinct' /\ OneClient'
         /\ UNCHANGED <<pending, accepted, closed, stop_flag>>
<1>1. sq_head > sq_tail /\ Dequeue(w) /\ UNCHANGED <<pending, accepted, closed, stop_flag>>
      /\ wpc[w] = "consume"
  BY TakeFacts DEF ConsumeTakes
<1>2. /\ Length \in 1..Size /\ Size \in Nat /\ Length' = Length - 1
      /\ client' = [client EXCEPT ![w] = Waiting[1]]
      /\ \A i \in 1..(Length - 1) : Waiting'[i] = Waiting[i + 1]
  BY <1>1, DequeueFacts, PoolConstants
<1>3. Waiting[1] \in InRing /\ InRing' = InRing \ {Waiting[1]}
  BY <1>1, TakeInRing DEF Distinct
<1>4. Waiting[1] \in Sockets /\ Waiting[1] # None
  BY <1>2, PoolConstants DEF RingOK
<1>5. client[w] = None /\ client \in [Workers -> Sockets \cup {None}]
  BY <1>1 DEF TypeOK, HandsOK
<1>6. Waiting[1] \notin Held
  BY <1>3 DEF OnePlaceEach, Apart
<1>7. Held' = Held \cup {Waiting[1]}
  <2>1. ASSUME NEW x \in Held' PROVE x \in Held \cup {Waiting[1]}
    <3>1. PICK v \in Workers : x = client'[v] /\ x # None
      BY <2>1 DEF Held
    <3> QED BY <1>2, <1>5, <3>1 DEF Held
  <2>2. ASSUME NEW x \in Held \cup {Waiting[1]} PROVE x \in Held'
    <3>1. CASE x = Waiting[1]
      BY <1>2, <1>4, <1>5, <3>1 DEF Held
    <3>2. CASE x \in Held
      <4>1. PICK v \in Workers : x = client[v] /\ x # None
        BY <3>2 DEF Held
      <4>2. v # w /\ client'[v] = x
        BY <1>2, <1>5, <4>1
      <4> QED BY <4>1, <4>2 DEF Held
    <3> QED BY <2>2, <3>1, <3>2
  <2> QED BY <2>1, <2>2
<1>8. Distinct'
  <2>1. ASSUME NEW i \in 1..Length', NEW j \in 1..Length', Waiting'[i] = Waiting'[j]
        PROVE  i = j
    <3>1. i + 1 \in 1..Length /\ j + 1 \in 1..Length /\ i \in 1..(Length - 1) /\ j \in 1..(Length - 1)
      BY <1>2, <2>1
    <3>2. Waiting[i + 1] = Waiting[j + 1]
      BY <1>2, <2>1, <3>1
    <3>3. i + 1 = j + 1
      BY <3>1, <3>2 DEF Distinct
    <3> QED BY <3>1, <3>3
  <2> QED BY <2>1 DEF Distinct
<1>9. OneClient'
  <2>1. ASSUME NEW u \in Workers, NEW v \in Workers, client'[u] = client'[v], client'[u] # None
        PROVE  u = v
    <3>1. CASE u # w /\ v # w
      BY <1>2, <1>5, <2>1, <3>1 DEF OneClient
    <3>2. CASE u = w /\ v # w
      BY <1>2, <1>4, <1>5, <1>6, <2>1, <3>2 DEF Held
    <3>3. CASE v = w /\ u # w
      BY <1>2, <1>4, <1>5, <1>6, <2>1, <3>3 DEF Held
    <3> QED BY <3>1, <3>2, <3>3
  <2> QED BY <2>1 DEF OneClient
<1> QED BY <1>1, <1>3, <1>7, <1>8, <1>9

LEMMA PutMoves ==
  ASSUME TypeOK, HandsOK, Distinct, OnePlaceEach, ProducePuts
  PROVE  /\ Accepted = {accepted} /\ Accepted' = {}
         /\ UNCHANGED <<pending, client, closed, stop_flag>>
         /\ Distinct'
         /\ \/ InRing' = InRing \cup Accepted
            \/ InRing' = InRing /\ stop_flag # 0
<1>1. /\ accepted \in Sockets /\ accepted' = None
      /\ UNCHANGED <<pending, client, closed, stop_flag>>
      /\ Length \in Nat /\ Size \in Nat
  BY PutFacts, PoolConstants DEF TypeOK, Length
<1>2. Accepted = {accepted} /\ Accepted' = {}
  BY <1>1, PoolConstants DEF Accepted
<1>3. CASE Length < Size
  <2>1. Enqueue(accepted)
    BY <1>3, PutFacts
  <2>2. /\ Length' = Length + 1 /\ Waiting'[Length + 1] = accepted
        /\ \A i \in 1..Length : Waiting'[i] = Waiting[i]
    BY <1>1, <1>3, <2>1, EnqueueFacts
  <2>3. InRing' = InRing \cup {accepted}
    BY <1>1, <1>3, <2>1, PutInRing
  <2>4. accepted \notin InRing
    BY <1>2 DEF OnePlaceEach, Apart
  <2>5. \A i \in 1..Length : Waiting[i] # accepted
    BY <2>4 DEF InRing
  <2>6. Distinct'
    <3>1. ASSUME NEW i \in 1..Length', NEW j \in 1..Length', Waiting'[i] = Waiting'[j]
          PROVE  i = j
      <4>1. CASE i \in 1..Length /\ j \in 1..Length
        BY <2>2, <3>1, <4>1 DEF Distinct
      <4>2. CASE i = Length + 1 /\ j \in 1..Length
        BY <2>2, <2>5, <3>1, <4>2
      <4>3. CASE j = Length + 1 /\ i \in 1..Length
        BY <2>2, <2>5, <3>1, <4>3
      <4> QED BY <1>1, <2>2, <3>1, <4>1, <4>2, <4>3
    <3> QED BY <3>1 DEF Distinct
  <2> QED BY <1>1, <1>2, <2>3, <2>6
<1>4. CASE ~(Length < Size)
  <2>1. UNCHANGED ring /\ stop_flag # 0
    BY <1>1, <1>4, PutFacts
  <2>2. Length' = Length /\ Waiting' = Waiting /\ InRing' = InRing
    BY <2>1, RingStays
  <2> QED BY <1>1, <1>2, <2>1, <2>2 DEF Distinct
<1> QED BY <1>3, <1>4

\* The part of NoneForgotten that is about the workers follows from HandsOK.
LEMMA ForgottenForm ==
  ASSUME HandsOK, PhaseOK
  PROVE  NoneForgotten <=> (stop_flag = 0 => Sockets = AllPlaces)
  BY DEF NoneForgotten, AllPlaces, Accepted, HandsOK, PhaseOK

LEMMA PlacesStep ==
  ASSUME IInv, Next
  PROVE  OnePlace' /\ NoneForgotten'
<1>0. /\ TypeOK /\ HandsOK /\ RingOK /\ PhaseOK /\ HandsOK' /\ PhaseOK'
      /\ Distinct /\ OneClient /\ OnePlaceEach
      /\ stop_flag = 0 => Sockets = AllPlaces
  BY HandsStep, PhaseStep, OnePlaceForm, ForgottenForm DEF IInv
<1>1. SUFFICES /\ Distinct' /\ OneClient' /\ OnePlaceEach'
               /\ stop_flag' = 0 => Sockets = AllPlaces'
  <2>1. OnePlace' <=> Distinct' /\ OneClient' /\ OnePlaceEach'
    BY OnePlaceForm DEF OnePlaceEach, Distinct, OneClient, OnePlace, Accepted, ApartPlaces, Apart
  <2>2. NoneForgotten' <=> (stop_flag' = 0 => Sockets = AllPlaces')
    BY <1>0 DEF NoneForgotten, AllPlaces, Accepted, HandsOK, PhaseOK
  <2> QED BY <1>1, <2>1, <2>2
<1>2. ASSUME NEW s \in Sockets, Accept(s)
      PROVE  Distinct' /\ OneClient' /\ OnePlaceEach' /\ (stop_flag' = 0 => Sockets = AllPlaces')
  <2>1. /\ s \in pending /\ pending' = pending \ {s} /\ Accepted = {} /\ Accepted' = {s}
        /\ UNCHANGED <<ring, client, closed, stop_flag>>
    BY <1>0, <1>2, AcceptMoves
  <2>2. Length' = Length /\ Waiting' = Waiting /\ InRing' = InRing /\ Held' = Held
    BY <2>1, RingStays DEF Held
  <2> QED BY <1>0, <2>1, <2>2 DEF Distinct, OneClient, OnePlaceEach, Apart, AllPlaces
<1>3. ASSUME NEW w \in Workers, Serve(w)
      PROVE  Distinct' /\ OneClient' /\ OnePlaceEach' /\ (stop_flag' = 0 => Sockets = AllPlaces')
  <2>1. /\ client[w] \in Held /\ Held' = Held \ {client[w]} /\ closed' = closed \cup {client[w]}
        /\ OneClient' /\ UNCHANGED <<ring, pending, accepted, stop_flag>>
    BY <1>0, <1>3, ServeMoves
  <2>2. Length' = Length /\ Waiting' = Waiting /\ InRing' = InRing /\ Accepted' = Accepted
    BY <2>1, RingStays DEF Accepted
  <2> QED BY <1>0, <2>1, <2>2 DEF Distinct, OnePlaceEach, Apart, AllPlaces
<1>4. ASSUME NEW w \in Workers, ConsumeTakes(w)
      PROVE  Distinct' /\ OneClient' /\ OnePlaceEach' /\ (stop_flag' = 0 => Sockets = AllPlaces')
  <2>1. /\ Waiting[1] \in InRing /\ InRing' = InRing \ {Waiting[1]}
        /\ Held' = Held \cup {Waiting[1]} /\ Distinct' /\ OneClient'
        /\ UNCHANGED <<pending, accepted, closed, stop_flag>>
    BY <1>0, <1>4, TakeMoves
  <2>2. Accepted' = Accepted
    BY <2>1 DEF Accepted
  <2> QED BY <1>0, <2>1, <2>2 DEF OnePlaceEach, Apart, AllPlaces
<1>5. CASE ProducePuts
  <2>1. /\ Accepted = {accepted} /\ Accepted' = {}
        /\ UNCHANGED <<pending, client, closed, stop_flag>> /\ Distinct'
        /\ \/ InRing' = InRing \cup Accepted
           \/ InRing' = InRing /\ stop_flag # 0
    BY <1>0, <1>5, PutMoves
  <2>2. Held' = Held /\ OneClient'
    BY <1>0, <2>1 DEF Held, OneClient
  <2> QED BY <1>0, <2>1, <2>2 DEF OnePlaceEach, Apart, AllPlaces
<1>6. CASE UNCHANGED <<pending, accepted, ring, client, closed>>
  <2>1. /\ Length' = Length /\ Waiting' = Waiting /\ InRing' = InRing
        /\ Accepted' = Accepted /\ Held' = Held
    BY <1>6, RingStays DEF Accepted, Held
  <2>2. stop_flag' = 0 => stop_flag = 0
    BY <1>0, NextCases
       DEF MainStep, StartMaster, StartWorker, Started, Stopped, Stop, Accept, ProduceBlocks,
           ProducePuts, Produce, ProduceWaits, Leave, Broadcast, Join, Finish, ConsumeBlocks,
           ConsumeTakes, ConsumeLeaves, Consume, ConsumeWaits, Return, Serve, Exit
  <2> QED BY <1>0, <1>6, <2>1, <2>2 DEF Distinct, OneClient, OnePlaceEach, AllPlaces
<1> QED BY <1>0, <1>2, <1>3, <1>4, <1>5, <1>6, PlacesStay

(***************************************************************************)
(* The theorems.                                                           *)
(***************************************************************************)
LEMMA InitIInv == Init => IInv
<1> SUFFICES ASSUME Init PROVE IInv
  OBVIOUS
<1>1. /\ Size \in Nat /\ Size > 0 /\ IsFiniteSet(Workers) /\ None \notin Sockets
      /\ Master \notin Workers /\ Free \notin Workers /\ Free # Master
  BY PoolConstants
<1>2. TypeOK /\ MutexOK /\ PhaseOK /\ HandsOK
  BY <1>1 DEF Init, TypeOK, MutexOK, PhaseOK, HandsOK, Length
<1>3. Length = 0 /\ 1..Length = {} /\ InRing = {} /\ Held = {} /\ Accepted = {} /\ Sleeping = {}
  BY DEF Init, Length, InRing, Held, Accepted, Sleeping
<1>4. RingOK /\ NoLostWakeup /\ DestroyedLast
  BY <1>3 DEF Init, RingOK, NoLostWakeup, DestroyedLast
<1>5. CountOK
  <2>1. Active = {} /\ num_threads = 0
    BY DEF Init, Active
  <2> QED BY <2>1, FS_EmptySet DEF CountOK
<1>6. Distinct /\ OneClient /\ OnePlaceEach /\ (stop_flag = 0 => Sockets = AllPlaces)
  BY <1>3 DEF Init, Distinct, OneClient, OnePlaceEach, Apart, AllPlaces
<1> QED BY <1>2, <1>4, <1>5, <1>6, OnePlaceForm, ForgottenForm DEF IInv

LEMMA IInvStep == IInv /\ [Next]_vars => IInv'
<1> SUFFICES ASSUME IInv, [Next]_vars PROVE IInv'
  OBVIOUS
<1>1. CASE Next
  BY <1>1, TypeStep, MutexStep, PhaseStep, CountStep, HandsStep, RingStep, WakeupStep,
     DestroyedStep, PlacesStep DEF IInv
<1>2. CASE UNCHANGED vars
  <2>1. /\ Length' = Length /\ Waiting' = Waiting /\ InRing' = InRing
        /\ Held' = Held /\ Active' = Active /\ Sleeping' = Sleeping
    BY <1>2, RingStays DEF vars, ring, Held, Active, Sleeping
  <2>2. TypeOK' /\ MutexOK' /\ PhaseOK' /\ CountOK' /\ HandsOK' /\ RingOK'
    <3>1. TypeOK'
      BY <1>2 DEF vars, IInv, TypeOK
    <3>2. MutexOK' /\ PhaseOK' /\ HandsOK'
      BY <1>2, <2>1 DEF vars, IInv, MutexOK, PhaseOK, HandsOK
    <3> QED BY <1>2, <2>1, <3>1, <3>2 DEF vars, IInv, CountOK, RingOK
  <2>3. NoLostWakeup' /\ DestroyedLast'
    BY <1>2, <2>1 DEF vars, IInv, NoLostWakeup, DestroyedLast
  <2>4. OnePlace' /\ NoneForgotten'
    BY <1>2, <2>1 DEF vars, IInv, OnePlace, NoneForgotten
  <2> QED BY <2>2, <2>3, <2>4 DEF IInv
<1> QED BY <1>1, <1>2

\* The variables of the pool keep their types: sq_tail never passes the end of
\* the array and sq_head never runs more than its size ahead.
THEOREM TypeCorrect == Spec => []TypeOK
<1>1. IInv => TypeOK
  BY DEF IInv
<1> QED BY <1>1, InitIInv, IInvStep, PTL DEF Spec

\* No thread is left that could touch the mutex and the conditions when the
\* master destroys them and mg_stop frees the context.
THEOREM DestroysLast == Spec => []DestroyedLast
<1>1. IInv => DestroyedLast
  BY DEF IInv
<1> QED BY <1>1, InitIInv, IInvStep, PTL DEF Spec

\* No wakeup of produce_socket and consume_socket is lost before mg_stop.
THEOREM WakesUp == Spec => []NoLostWakeup
<1>1. IInv => NoLostWakeup
  BY DEF IInv
<1> QED BY <1>1, InitIInv, IInvStep, PTL DEF Spec

\* No socket is in two hands.
THEOREM OnePlaceOnly == Spec => []OnePlace
<1>1. IInv => OnePlace
  BY DEF IInv
<1> QED BY <1>1, InitIInv, IInvStep, PTL DEF Spec

\* No socket is dropped before mg_stop.
THEOREM ForgetsNone == Spec => []NoneForgotten
<1>1. IInv => NoneForgotten
  BY DEF IInv
<1> QED BY <1>1, InitIInv, IInvStep, PTL DEF Spec

(***************************************************************************)
(* The ring implements the queue.                                          *)
(***************************************************************************)
\* The waiting sockets, seen as a sequence.
LEMMA WaitingIsSeq ==
  ASSUME TypeOK, RingOK
  PROVE  /\ Waiting \in Seq(Sockets) /\ Len(Waiting) = Length /\ Length \in Nat
<1>1. Length \in Nat
  BY PoolConstants DEF TypeOK, Length
<1>2. Waiting \in [1..Length -> Sockets]
  BY DEF RingOK, Waiting
<1>3. Waiting \in Seq(Sockets) /\ Len(Waiting) = Length
  <2> HIDE DEF Waiting, Length
  <2> QED BY <1>1, <1>2
<1> QED BY <1>1, <1>3

LEMMA Difference == \A a, b \in Int : b <= a => a - b \in Nat
  OBVIOUS

LEMMA QueueStep ==
  ASSUME IInv, Next
  PROVE  [Queue!Next]_Waiting
<1>0. /\ TypeOK /\ HandsOK /\ RingOK /\ TypeOK' /\ RingOK' /\ Size \in Nat
  BY TypeStep, RingStep, PoolConstants DEF IInv
<1>a. Waiting \in Seq(Sockets) /\ Len(Waiting) = Length /\ Length \in Nat
  BY <1>0, WaitingIsSeq
<1>b. Waiting' \in Seq(Sockets) /\ Len(Waiting') = Length' /\ Length' \in Nat
  <2>1. Length' \in Nat
    <3>1. sq_tail' \in Int /\ sq_head' \in Int /\ sq_tail' <= sq_head'
      BY <1>0 DEF TypeOK
    <3> QED BY <3>1, Difference DEF Length
  <2>2. Waiting' \in [1..Length' -> Sockets]
    BY <1>0 DEF RingOK, Waiting
  <2> HIDE DEF Waiting, Length
  <2> QED BY <2>1, <2>2
<1>1. CASE ProducePuts /\ Length < Size
  <2>1. accepted \in Sockets /\ Enqueue(accepted)
    BY <1>0, <1>1, PutFacts
  <2>2. /\ Length' = Length + 1 /\ Waiting'[Length + 1] = accepted
        /\ \A i \in 1..Length : Waiting'[i] = Waiting[i]
    BY <1>0, <1>1, <2>1, EnqueueFacts
  <2>3. /\ Append(Waiting, accepted) \in Seq(Sockets)
        /\ Len(Append(Waiting, accepted)) = Length + 1
        /\ Append(Waiting, accepted)[Length + 1] = accepted
        /\ \A i \in 1..Length : Append(Waiting, accepted)[i] = Waiting[i]
    <3> HIDE DEF Waiting, Length
    <3> QED BY <1>a, <2>1
  <2>4. Waiting' = Append(Waiting, accepted)
    <3> DEFINE next == Waiting'
               appended == Append(Waiting, accepted)
    <3>1. \A i \in 1..(Length + 1) : next[i] = appended[i]
      BY <1>a, <2>2, <2>3
    <3>2. next \in Seq(Sockets) /\ appended \in Seq(Sockets) /\ Len(next) = Len(appended)
          /\ Len(next) = Length + 1
      BY <1>b, <2>2, <2>3
    <3> HIDE DEF next, appended
    <3>3. next = appended
      BY <3>1, <3>2, SeqEqual
    <3> QED BY <3>3 DEF next, appended
  <2> QED BY <1>1, <1>a, <2>1, <2>4 DEF Queue!Next, Queue!Put
<1>2. CASE ProducePuts /\ ~(Length < Size)
  BY <1>0, <1>2, <1>a, PutFacts, RingStays
<1>3. ASSUME NEW w \in Workers, ConsumeTakes(w) PROVE Queue!Next
  <2>1. sq_head > sq_tail /\ Dequeue(w)
    BY <1>0, <1>3, TakeFacts DEF ConsumeTakes
  <2>2. /\ Length \in 1..Size /\ Length' = Length - 1
        /\ \A i \in 1..(Length - 1) : Waiting'[i] = Waiting[i + 1]
    BY <1>0, <2>1, DequeueFacts
  <2>3. Waiting # <<>>
    BY <1>0, <1>a, <2>2, EmptySeq
  <2>4. /\ Tail(Waiting) \in Seq(Sockets) /\ Len(Tail(Waiting)) = Length - 1
        /\ \A i \in 1..(Length - 1) : Tail(Waiting)[i] = Waiting[i + 1]
    BY <1>a, <2>3, HeadTailProperties
  <2>5. Waiting' = Tail(Waiting)
    <3> DEFINE next == Waiting'
               tail == Tail(Waiting)
    <3>1. \A i \in 1..(Length - 1) : next[i] = tail[i]
      BY <2>2, <2>4
    <3>2. next \in Seq(Sockets) /\ tail \in Seq(Sockets) /\ Len(next) = Len(tail)
          /\ Len(next) = Length - 1
      BY <1>b, <2>2, <2>4
    <3> HIDE DEF next, tail
    <3>3. next = tail
      BY <3>1, <3>2, SeqEqual
    <3> QED BY <3>3 DEF next, tail
  <2> QED BY <2>3, <2>5 DEF Queue!Next, Queue!Get
<1>4. CASE UNCHANGED ring
  BY <1>4, RingStays
<1> QED BY <1>0, <1>1, <1>2, <1>3, <1>4, RingUnchanged

\* The ring is a bounded queue: produce_socket appends to it, consume_socket takes
\* its first element, nothing else changes it, wherever the indices are.
THEOREM RingIsAQueue == Spec => ImplementsQueue
<1>1. Init => Queue!Init
  <2> SUFFICES ASSUME Init PROVE Waiting = <<>>
    BY DEF Queue!Init
  <2>1. Length = 0
    BY DEF Init, Length
  <2>2. IInv
    BY InitIInv
  <2>3. Waiting \in Seq(Sockets) /\ Len(Waiting) = 0
    BY <2>1, <2>2, WaitingIsSeq DEF IInv
  <2> QED BY <2>3, EmptySeq
<1>2. IInv /\ [Next]_vars => [Queue!Next]_Waiting
  <2>1. ASSUME IInv, UNCHANGED vars PROVE Waiting' = Waiting
    BY <2>1, RingStays DEF vars, ring
  <2> QED BY <2>1, QueueStep
<1> QED BY <1>1, <1>2, InitIInv, IInvStep, PTL DEF Spec, ImplementsQueue, Queue!Spec
=============================================================================
