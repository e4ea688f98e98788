--------------------------- MODULE SqlDelay_proofs ---------------------------
(***************************************************************************)
(* For any number of worker threads, clients, serial ids and operations:   *)
(* operations with one serial id are executed in the order they were       *)
(* handed over, halting the workers loses none, and the workers with their *)
(* queues implement AsyncStore.                                            *)
(*                                                                         *)
(* The argument.  An operation that was not executed is in one of the      *)
(* queues or in the hand of a worker (PlaceInv).  Queues grow at the end   *)
(* and the numbers of the operations grow, so every queue is increasing;   *)
(* all unexecuted operations with the serial id s are with the worker      *)
(* s % NumWorkers, and what that worker has in its hand came before what   *)
(* is still in its queue.  So whatever it executes next is the oldest      *)
(* operation with that id.  When the workers are joined, each destructor   *)
(* leaves the shared queue and its own empty; after the last one there is  *)
(* no place left for an operation that was not executed.                   *)
(***************************************************************************)
EXTENDS SqlDelay, SequenceTheorems, TLAPS

In(n, q) == \E i \in DOMAIN q : q[i] = n

Increasing(q) == \A i, j \in DOMAIN q : i < j => q[i] < q[j]

Pending(n) == n \in DOMAIN ops /\ runs[n] = 0

Mine(n, w) == ops[n].serial # 0 /\ ops[n].serial % NumWorkers = w

(* What is queued is in order, was not executed, and is with its worker.   *)
QueueInv ==
  /\ Increasing(delayQueue)
  /\ \A w \in Bodies : Increasing(serialQueue[w])
  /\ \A n \in OpNumbers :
       In(n, delayQueue) => Pending(n) /\ (workers # 0 => ops[n].serial = 0)
  /\ \A w \in Bodies, n \in OpNumbers :
       In(n, serialQueue[w]) => Pending(n) /\ Mine(n, w)

(* So is what a worker has taken, and it came before what is still queued. *)
HandInv ==
  \A w \in Bodies : hand[w] # 0 =>
    /\ Pending(hand[w])
    /\ pc[w] \in {"shared", "serial"}
    /\ pc[w] = "shared" =>
         /\ ops[hand[w]].serial = 0
         /\ \A n \in OpNumbers : In(n, delayQueue) => hand[w] < n
    /\ pc[w] = "serial" =>
         /\ Mine(hand[w], w)
         /\ \A n \in OpNumbers : In(n, serialQueue[w]) => hand[w] < n
    /\ \A v \in Bodies : hand[v] = hand[w] => v = w

(* Every operation was executed once or is somewhere.                      *)
Somewhere(n) ==
  \/ In(n, delayQueue)
  \/ \E w \in Bodies : hand[w] = n \/ In(n, serialQueue[w])

PlaceInv ==
  \A n \in DOMAIN ops : runs[n] = 1 \/ (runs[n] = 0 /\ Somewhere(n))

(* Until the server has started nothing with a serial id waits.            *)
SyncInv ==
  ~async => \A n \in DOMAIN ops : ops[n].serial # 0 => runs[n] = 1

(* How far the halt is, and what the bodies that are freed left behind.    *)
HaltInv ==
  /\ workers = IF halt \in {"halted", "closed"} THEN 0 ELSE NumWorkers
  /\ halt = "up" => next = 0
  /\ halt = "free" => kept = Len(ops)
  /\ halt = "free" => \A w \in Bodies :
       IF w < next
         THEN /\ pc[w] # "shared" => delayQueue = <<>>
              /\ pc[w] \in {"top", "exited"} => serialQueue[w] = <<>>
         ELSE pc[w] = "exited"
  /\ halt \in {"halted", "closed"} => Stopped /\ kept <= Len(ops)

OrderInv ==
  QueueInv /\ HandInv /\ PlaceInv /\ SyncInv /\ SerialOrder

IInv == TypeOK /\ HaltInv /\ OrderInv /\ NothingLost

-----------------------------------------------------------------------------
(* Queues.                                                                 *)

(* What an append adds.                                                    *)
LEMMA AppendTo ==
  ASSUME NEW S, NEW s \in Seq(S), NEW e \in S
  PROVE  /\ Append(s, e) \in Seq(S)
         /\ Len(Append(s, e)) = Len(s) + 1 /\ Len(s) \in Nat
         /\ DOMAIN s = 1 .. Len(s)
         /\ DOMAIN Append(s, e) = 1 .. Len(s) + 1
         /\ Append(s, e)[Len(s) + 1] = e
         /\ \A n \in DOMAIN s : Append(s, e)[n] = s[n]
  OBVIOUS

(* What is left when the first element is taken.                           *)
LEMMA TailOf ==
  ASSUME NEW S, NEW s \in Seq(S), s # <<>>
  PROVE  /\ Tail(s) \in Seq(S) /\ Head(s) \in S
         /\ Len(s) \in Nat \ {0} /\ DOMAIN s = 1 .. Len(s)
         /\ DOMAIN Tail(s) = 1 .. Len(s) - 1
         /\ Head(s) = s[1]
         /\ \A i \in DOMAIN Tail(s) : Tail(s)[i] = s[i + 1]
  OBVIOUS

(* What is appended is in the queue, behind everything else.               *)
LEMMA AppendQueue ==
  ASSUME NEW q \in Seq(OpNumbers), NEW e \in OpNumbers, Increasing(q),
         \A n \in OpNumbers : In(n, q) => n < e
  PROVE  /\ Append(q, e) \in Seq(OpNumbers)
         /\ Increasing(Append(q, e))
         /\ \A n : In(n, Append(q, e)) <=> In(n, q) \/ n = e
<1> DEFINE r == Append(q, e)
<1>1. /\ r \in Seq(OpNumbers) /\ Len(q) \in Nat /\ DOMAIN q = 1 .. Len(q)
      /\ DOMAIN r = 1 .. Len(q) + 1 /\ r[Len(q) + 1] = e
      /\ \A i \in DOMAIN q : r[i] = q[i] /\ q[i] \in OpNumbers
  BY AppendTo
<1> HIDE DEF r
<1>2. Increasing(r)
  <2> SUFFICES ASSUME NEW i \in DOMAIN r, NEW j \in DOMAIN r, i < j
               PROVE  r[i] < r[j]
    BY DEF Increasing
  <2>1. i \in DOMAIN q /\ In(r[i], q) /\ r[i] \in OpNumbers
    BY <1>1 DEF In
  <2>2. CASE j = Len(q) + 1
    BY <1>1, <2>1, <2>2
  <2>3. CASE j \in DOMAIN q
    BY <1>1, <2>1, <2>3 DEF Increasing
  <2> QED
    BY <1>1, <2>2, <2>3
<1>3. ASSUME NEW n PROVE In(n, r) <=> In(n, q) \/ n = e
  <2>1. ASSUME In(n, r) PROVE In(n, q) \/ n = e
    BY <1>1, <2>1 DEF In
  <2>2. ASSUME In(n, q) PROVE In(n, r)
    <3>1. PICK i \in DOMAIN q : q[i] = n
      BY <2>2 DEF In
    <3>2. i \in DOMAIN r /\ r[i] = n
      BY <1>1, <3>1
    <3> QED
      BY <3>2 DEF In
  <2>3. In(e, r)
    <3>1. Len(q) + 1 \in DOMAIN r
      BY <1>1
    <3> QED
      BY <1>1, <3>1 DEF In
  <2> QED
    BY <2>1, <2>2, <2>3
<1> QED
  BY <1>1, <1>2, <1>3 DEF r

(* The head of an increasing queue came before all that is behind it.      *)
LEMMA TakeFromQueue ==
  ASSUME NEW q \in Seq(OpNumbers), q # <<>>, Increasing(q)
  PROVE  /\ Head(q) \in OpNumbers
         /\ Tail(q) \in Seq(OpNumbers)
         /\ Increasing(Tail(q))
         /\ In(Head(q), q)
         /\ \A n \in OpNumbers : In(n, q) <=> In(n, Tail(q)) \/ n = Head(q)
         /\ \A n \in OpNumbers : In(n, Tail(q)) => Head(q) < n
<1> DEFINE t == Tail(q)
<1>1. /\ t \in Seq(OpNumbers) /\ Len(q) \in Nat \ {0} /\ DOMAIN q = 1 .. Len(q)
      /\ DOMAIN t = 1 .. Len(q) - 1 /\ Head(q) = q[1] /\ Head(q) \in OpNumbers
      /\ \A i \in DOMAIN t : t[i] = q[i + 1]
  BY TailOf
<1> HIDE DEF t
<1>2. Increasing(t)
  BY <1>1 DEF Increasing
<1>3. In(Head(q), q)
  BY <1>1 DEF In
<1>4. ASSUME NEW n, In(n, t) PROVE In(n, q) /\ Head(q) < n
  <2>1. PICK i \in DOMAIN t : t[i] = n
    BY <1>4 DEF In
  <2>2. i + 1 \in DOMAIN q /\ q[i + 1] = n /\ 1 \in DOMAIN q /\ 1 < i + 1
    BY <1>1, <2>1
  <2> QED
    BY <1>1, <2>2 DEF In, Increasing
<1>5. ASSUME NEW n, In(n, q) PROVE In(n, t) \/ n = Head(q)
  <2>1. PICK i \in DOMAIN q : q[i] = n
    BY <1>5 DEF In
  <2>2. CASE i = 1
    BY <1>1, <2>1, <2>2
  <2>3. CASE i # 1
    <3>1. i - 1 \in DOMAIN t /\ t[i - 1] = n
      BY <1>1, <2>1, <2>3
    <3> QED
      BY <3>1 DEF In
  <2> QED
    BY <2>2, <2>3
<1> QED
  BY <1>1, <1>2, <1>3, <1>4, <1>5 DEF t

(* Nothing is in the empty queue.                                          *)
LEMMA EmptyQueue == Increasing(<<>>) /\ \A n : ~In(n, <<>>)
  BY DEF Increasing, In

(* The number of workers divides serial ids among the bodies.              *)
LEMMA WorkerOfSerial ==
  ASSUME NEW s \in Nat PROVE s % NumWorkers \in Bodies
<1>1. ASSUME NEW N \in Nat \ {0} PROVE s % N \in 0 .. N - 1
  BY <1>1, SMTT(30)
<1> QED
  BY <1>1, SqlDelayAssumption DEF Bodies

-----------------------------------------------------------------------------
(* What a step does to the operations and where they are.                  *)

(* Handing an operation over leaves the others what they were.             *)
LEMMA HandedOver ==
  ASSUME TypeOK, NEW op \in Operation, NEW r \in {0, 1}, Len(ops) < MaxOps,
         ops' = Append(ops, op), runs' = Append(runs, r)
  PROVE  /\ Len(ops') \in OpNumbers
         /\ Len(ops') \notin DOMAIN ops
         /\ \A n \in DOMAIN ops : n \in OpNumbers /\ n < Len(ops')
         /\ DOMAIN ops' = DOMAIN ops \cup {Len(ops')}
         /\ ops'[Len(ops')] = op /\ runs'[Len(ops')] = r
         /\ \A n \in DOMAIN ops : ops'[n] = ops[n] /\ runs'[n] = runs[n]
<1>1. /\ ops \in Seq(Operation) /\ runs \in Seq(Nat) /\ Len(runs) = Len(ops)
      /\ MaxOps \in Nat /\ r \in Nat
  BY SqlDelayAssumption DEF TypeOK
<1>2. /\ Len(ops') = Len(ops) + 1 /\ Len(ops) \in Nat
      /\ DOMAIN ops = 1 .. Len(ops) /\ DOMAIN ops' = 1 .. Len(ops) + 1
      /\ ops'[Len(ops) + 1] = op
      /\ \A n \in DOMAIN ops : ops'[n] = ops[n]
  BY <1>1, AppendTo
<1>3. /\ DOMAIN runs = 1 .. Len(ops) /\ runs'[Len(ops) + 1] = r
      /\ \A n \in DOMAIN runs : runs'[n] = runs[n]
  BY <1>1, AppendTo
<1> QED
  BY <1>1, <1>2, <1>3 DEF OpNumbers

(* A step that touches no operation.                                       *)
LEMMA QuietStep ==
  ASSUME OrderInv, UNCHANGED <<ops, runs, delayQueue, serialQueue, hand>>,
         \A w \in Bodies : hand[w] # 0 => pc'[w] = pc[w],
         workers' # 0 => workers # 0, async => async'
  PROVE  OrderInv'
<1>1. QueueInv'
  BY DEF OrderInv, QueueInv, Pending, Mine
<1>2. HandInv'
  BY DEF OrderInv, HandInv, Pending, Mine
<1>3. PlaceInv' /\ SyncInv' /\ SerialOrder'
  BY DEF OrderInv, PlaceInv, Somewhere, SyncInv, SerialOrder
<1> QED
  BY <1>1, <1>2, <1>3 DEF OrderInv

(* An operation that is only handed over is not out of order.              *)
LEMMA StaysInOrder ==
  ASSUME OrderInv, NEW e \in OpNumbers, DOMAIN ops' = DOMAIN ops \cup {e},
         runs'[e] = 0, \A n \in DOMAIN ops : n \in OpNumbers /\ n < e,
         \A n \in DOMAIN ops : ops'[n] = ops[n] /\ runs'[n] = runs[n]
  PROVE  SerialOrder'
<1> SUFFICES ASSUME NEW m \in DOMAIN ops', NEW n \in DOMAIN ops', m < n,
                    ops'[m].serial = ops'[n].serial, ops'[n].serial # 0,
                    runs'[n] > 0
             PROVE  runs'[m] > 0
  BY DEF SerialOrder
<1>1. n \in DOMAIN ops
  OBVIOUS
<1>2. m \in DOMAIN ops
  <2>1. e \in Nat /\ n \in Nat /\ n < e
    BY <1>1, SqlDelayAssumption DEF OpNumbers
  <2> QED
    BY <2>1
<1> QED
  BY <1>1, <1>2 DEF OrderInv, SerialOrder

(* The operation goes to the end of the shared queue.                      *)
LEMMA DelayedStep ==
  ASSUME TypeOK, OrderInv, NEW op \in Operation, Len(ops) < MaxOps,
         AddToDelayQueue(op), workers # 0 \/ ~async => op.serial = 0,
         UNCHANGED <<workers, async, pc, hand>>
  PROVE  OrderInv'
<1> DEFINE e == Len(ops')
<1>1. /\ e \in OpNumbers /\ e \notin DOMAIN ops
      /\ \A n \in DOMAIN ops : n \in OpNumbers /\ n < e
      /\ DOMAIN ops' = DOMAIN ops \cup {e}
      /\ ops'[e] = op /\ runs'[e] = 0
      /\ \A n \in DOMAIN ops : ops'[n] = ops[n] /\ runs'[n] = runs[n]
  BY HandedOver DEF AddToDelayQueue
<1>2. /\ Increasing(delayQueue')
      /\ \A n : In(n, delayQueue') <=> In(n, delayQueue) \/ n = e
  <2>1. delayQueue \in Seq(OpNumbers) /\ Increasing(delayQueue)
    BY DEF TypeOK, OrderInv, QueueInv
  <2>2. \A n \in OpNumbers : In(n, delayQueue) => n < e
    BY <1>1 DEF OrderInv, QueueInv, Pending
  <2> QED
    BY <1>1, <2>1, <2>2, AppendQueue DEF AddToDelayQueue
<1>3. serialQueue' = serialQueue
  BY DEF AddToDelayQueue
<1> HIDE DEF e
<1>4. QueueInv'
  BY <1>1, <1>2, <1>3 DEF OrderInv, QueueInv, Pending, Mine
<1>5. HandInv'
  BY <1>1, <1>2, <1>3 DEF OrderInv, HandInv, Pending, Mine
<1>6. PlaceInv'
  BY <1>1, <1>2, <1>3 DEF OrderInv, PlaceInv, Somewhere
<1>7. SyncInv'
  BY <1>1 DEF OrderInv, SyncInv
<1>8. SerialOrder'
  BY <1>1, StaysInOrder
<1> QED
  BY <1>4, <1>5, <1>6, <1>7, <1>8 DEF OrderInv

(* The operation goes to the end of its worker's queue.                    *)
LEMMA SerialStep ==
  ASSUME TypeOK, OrderInv, NEW op \in Operation, Len(ops) < MaxOps,
         op.serial # 0, workers = NumWorkers, async,
         AddToSerialDelayQueue(op), UNCHANGED <<workers, async, pc, hand>>
  PROVE  OrderInv'
<1> DEFINE e == Len(ops')
           b == op.serial % NumWorkers
<1>0. /\ ops' = Append(ops, op) /\ runs' = Append(runs, 0)
      /\ serialQueue' = [serialQueue EXCEPT ![b] = Append(@, e)]
      /\ delayQueue' = delayQueue
  BY SqlDelayAssumption DEF AddToSerialDelayQueue
<1>1. /\ e \in OpNumbers /\ e \notin DOMAIN ops
      /\ \A n \in DOMAIN ops : n \in OpNumbers /\ n < e
      /\ DOMAIN ops' = DOMAIN ops \cup {e}
      /\ ops'[e] = op /\ runs'[e] = 0
      /\ \A n \in DOMAIN ops : ops'[n] = ops[n] /\ runs'[n] = runs[n]
  BY <1>0, HandedOver
<1>2. b \in Bodies
  BY WorkerOfSerial, SqlDelayAssumption DEF Operation
<1>3. /\ Increasing(serialQueue'[b])
      /\ \A n : In(n, serialQueue'[b]) <=> In(n, serialQueue[b]) \/ n = e
      /\ \A w \in Bodies : w # b => serialQueue'[w] = serialQueue[w]
  <2>1. serialQueue \in [Bodies -> Seq(OpNumbers)] /\ Increasing(serialQueue[b])
    BY <1>2 DEF TypeOK, OrderInv, QueueInv
  <2>2. \A n \in OpNumbers : In(n, serialQueue[b]) => n < e
    BY <1>1, <1>2 DEF OrderInv, QueueInv, Pending
  <2>3. serialQueue'[b] = Append(serialQueue[b], e)
    BY <1>0, <1>2, <2>1
  <2> HIDE DEF e, b
  <2>4. serialQueue[b] \in Seq(OpNumbers)
    BY <1>2, <2>1
  <2>5. \A w \in Bodies : w # b => serialQueue'[w] = serialQueue[w]
    BY <1>0, <2>1
  <2> QED
    BY <1>1, <2>1, <2>2, <2>3, <2>4, <2>5, AppendQueue
<1>4. ops'[e].serial # 0 /\ ops'[e].serial % NumWorkers = b
  BY <1>1
<1> HIDE DEF e, b
<1>5. QueueInv'
  <2>1. \A w \in Bodies : Increasing(serialQueue'[w])
    BY <1>3 DEF OrderInv, QueueInv
  <2>2. ASSUME NEW n \in OpNumbers, In(n, delayQueue')
        PROVE  Pending(n)' /\ (workers' # 0 => ops'[n].serial = 0)
    BY <1>0, <1>1, <2>2 DEF OrderInv, QueueInv, Pending
  <2>3. ASSUME NEW w \in Bodies, NEW n \in OpNumbers, In(n, serialQueue'[w])
        PROVE  Pending(n)' /\ Mine(n, w)'
    <3>1. In(n, serialQueue[w]) \/ (n = e /\ w = b)
      BY <1>3, <2>3
    <3>2. CASE In(n, serialQueue[w])
      BY <1>1, <3>2 DEF OrderInv, QueueInv, Pending, Mine
    <3>3. CASE n = e /\ w = b
      BY <1>1, <1>4, <3>3 DEF Pending, Mine
    <3> QED
      BY <3>1, <3>2, <3>3
  <2> QED
    BY <1>0, <2>1, <2>2, <2>3 DEF OrderInv, QueueInv
<1>6. HandInv'
  <2> SUFFICES ASSUME NEW w \in Bodies, hand[w] # 0
               PROVE  /\ Pending(hand[w])'
                      /\ pc[w] = "shared" => ops'[hand[w]].serial = 0
                      /\ pc[w] = "serial" =>
                           /\ Mine(hand[w], w)'
                           /\ \A n \in OpNumbers :
                                In(n, serialQueue'[w]) => hand[w] < n
    BY <1>0 DEF OrderInv, HandInv
  <2>1. Pending(hand[w]) /\ hand[w] < e
    BY <1>1 DEF OrderInv, HandInv, Pending
  <2>2. ops'[hand[w]] = ops[hand[w]] /\ Pending(hand[w])'
    BY <1>1, <2>1 DEF Pending
  <2>3. \A n \in OpNumbers : In(n, serialQueue'[w]) => In(n, serialQueue[w]) \/ n = e
    BY <1>3
  <2> QED
    BY <2>1, <2>2, <2>3 DEF OrderInv, HandInv, Mine
<1>7. PlaceInv'
  BY <1>0, <1>1, <1>2, <1>3, ZenonT(40) DEF OrderInv, PlaceInv, Somewhere
<1>8. SyncInv'
  BY DEF OrderInv, SyncInv
<1>9. SerialOrder'
  BY <1>1, StaysInOrder
<1> QED
  BY <1>5, <1>6, <1>7, <1>8, <1>9 DEF OrderInv

(* The operation is executed at once.                                      *)
LEMMA DirectStep ==
  ASSUME TypeOK, OrderInv, NEW op \in Operation, Len(ops) < MaxOps, ~async,
         DirectExecute(op), UNCHANGED <<workers, async, pc, hand>>
  PROVE  OrderInv'
<1> DEFINE e == Len(ops')
<1>1. /\ e \in OpNumbers /\ e \notin DOMAIN ops
      /\ \A n \in DOMAIN ops : n \in OpNumbers /\ n < e
      /\ DOMAIN ops' = DOMAIN ops \cup {e}
      /\ ops'[e] = op /\ runs'[e] = 1
      /\ \A n \in DOMAIN ops : ops'[n] = ops[n] /\ runs'[n] = runs[n]
  BY HandedOver DEF DirectExecute
<1>2. delayQueue' = delayQueue /\ serialQueue' = serialQueue
  BY DEF DirectExecute, queues
<1> HIDE DEF e
<1>3. QueueInv'
  BY <1>1, <1>2 DEF OrderInv, QueueInv, Pending, Mine
<1>4. HandInv'
  BY <1>1, <1>2 DEF OrderInv, HandInv, Pending, Mine
<1>5. PlaceInv'
  BY <1>1, <1>2 DEF OrderInv, PlaceInv, Somewhere
<1>6. SyncInv'
  BY <1>1 DEF OrderInv, SyncInv
<1>7. SerialOrder'
  BY <1>1 DEF OrderInv, SerialOrder, SyncInv
<1> QED
  BY <1>3, <1>4, <1>5, <1>6, <1>7 DEF OrderInv

(* A worker takes the oldest operation of the shared queue.                *)
LEMMA TakeSharedStep ==
  ASSUME TypeOK, OrderInv, NEW w \in Bodies, workers # 0, delayQueue # <<>>,
         NextDelayedOperation(w)
  PROVE  OrderInv'
<1> DEFINE e == Head(delayQueue)
<1>1. /\ e \in OpNumbers /\ Increasing(delayQueue') /\ In(e, delayQueue)
      /\ \A n \in OpNumbers : In(n, delayQueue) <=> In(n, delayQueue') \/ n = e
      /\ \A n \in OpNumbers : In(n, delayQueue') => e < n
  <2>1. delayQueue \in Seq(OpNumbers) /\ Increasing(delayQueue)
    BY DEF TypeOK, OrderInv, QueueInv
  <2>2. delayQueue' = Tail(delayQueue)
    BY DEF NextDelayedOperation
  <2> QED
    BY <2>1, <2>2, TakeFromQueue
<1>2. /\ pc[w] = "shared" /\ pc' = pc /\ hand[w] = 0
      /\ hand' = [hand EXCEPT ![w] = e]
      /\ UNCHANGED <<serialQueue, ops, runs, workers, async>>
  BY DEF NextDelayedOperation, halting, history
<1>3. hand'[w] = e /\ \A v \in Bodies : v # w => hand'[v] = hand[v]
  BY <1>2 DEF TypeOK
<1>4. e # 0 /\ Pending(e) /\ ops[e].serial = 0
  <2>1. e # 0
    BY <1>1, SqlDelayAssumption DEF OpNumbers
  <2> QED
    BY <1>1, <2>1 DEF OrderInv, QueueInv
<1>5. ASSUME NEW v \in Bodies, v # w PROVE hand[v] # e
  <2> SUFFICES ASSUME hand[v] = e PROVE FALSE
    OBVIOUS
  <2>1. pc[v] = "shared" /\ e < e
    BY <1>1, <1>4 DEF OrderInv, HandInv, Mine
  <2> QED
    BY <1>1, <2>1, SqlDelayAssumption DEF OpNumbers
<1> HIDE DEF e
<1>6. QueueInv'
  BY <1>1, <1>2 DEF OrderInv, QueueInv, Pending, Mine
<1>7. HandInv'
  <2> SUFFICES ASSUME NEW v \in Bodies, hand'[v] # 0
               PROVE  /\ Pending(hand'[v])
                      /\ pc[v] \in {"shared", "serial"}
                      /\ pc[v] = "shared" =>
                           /\ ops[hand'[v]].serial = 0
                           /\ \A n \in OpNumbers : In(n, delayQueue') => hand'[v] < n
                      /\ pc[v] = "serial" =>
                           /\ Mine(hand'[v], v)
                           /\ \A n \in OpNumbers :
                                In(n, serialQueue[v]) => hand'[v] < n
                      /\ \A u \in Bodies : hand'[u] = hand'[v] => u = v
    BY <1>2 DEF HandInv, Pending, Mine
  <2>1. CASE v = w
    BY <1>1, <1>2, <1>3, <1>4, <1>5, <2>1
  <2>2. CASE v # w
    BY <1>1, <1>2, <1>3, <1>5, <2>2 DEF OrderInv, HandInv
  <2> QED
    BY <2>1, <2>2
<1>8. PlaceInv'
  <2> SUFFICES ASSUME NEW n \in DOMAIN ops, runs[n] = 0, Somewhere(n)
               PROVE  Somewhere(n)'
    BY <1>2 DEF OrderInv, PlaceInv
  <2>1. n \in OpNumbers
    BY SqlDelayAssumption DEF TypeOK, OpNumbers
  <2>2. n # 0
    BY <2>1, SqlDelayAssumption DEF OpNumbers
  <2> QED
    BY <1>1, <1>2, <1>3, <2>1, <2>2 DEF Somewhere
<1>9. SyncInv' /\ SerialOrder'
  BY <1>2 DEF OrderInv, SyncInv, SerialOrder
<1> QED
  BY <1>6, <1>7, <1>8, <1>9 DEF OrderInv

(* A worker takes the oldest operation of its own queue.                   *)
LEMMA TakeSerialStep ==
  ASSUME TypeOK, OrderInv, NEW w \in Bodies, serialQueue[w] # <<>>,
         NextSerialOperation(w)
  PROVE  OrderInv'
<1> DEFINE q == serialQueue[w]
           e == Head(q)
<1>1. /\ e \in OpNumbers /\ Increasing(Tail(q)) /\ In(e, q)
      /\ \A n \in OpNumbers : In(n, q) <=> In(n, Tail(q)) \/ n = e
      /\ \A n \in OpNumbers : In(n, Tail(q)) => e < n
  <2>1. q \in Seq(OpNumbers) /\ Increasing(q)
    BY DEF TypeOK, OrderInv, QueueInv
  <2> HIDE DEF q
  <2> QED
    BY <2>1, TakeFromQueue DEF q
<1>2. /\ pc[w] = "serial" /\ pc' = pc /\ hand[w] = 0
      /\ hand' = [hand EXCEPT ![w] = e]
      /\ serialQueue' = [serialQueue EXCEPT ![w] = Tail(q)]
      /\ UNCHANGED <<delayQueue, ops, runs, workers, async>>
  BY DEF NextSerialOperation, halting, history
<1>3. /\ hand'[w] = e /\ serialQueue'[w] = Tail(q)
      /\ \A v \in Bodies : v # w => hand'[v] = hand[v] /\ serialQueue'[v] = serialQueue[v]
  BY <1>2 DEF TypeOK
<1>4. e # 0 /\ Pending(e) /\ Mine(e, w)
  <2>1. e # 0
    BY <1>1, SqlDelayAssumption DEF OpNumbers
  <2> QED
    BY <1>1, <2>1 DEF OrderInv, QueueInv
<1>5. ASSUME NEW v \in Bodies, v # w PROVE hand[v] # e
  BY <1>4, <1>5 DEF OrderInv, HandInv, Mine
<1> HIDE DEF q, e
<1>6. QueueInv'
  <2> SUFFICES ASSUME NEW v \in Bodies
               PROVE  /\ Increasing(serialQueue'[v])
                      /\ \A n \in OpNumbers :
                           In(n, serialQueue'[v]) => Pending(n) /\ Mine(n, v)
    BY <1>2 DEF OrderInv, QueueInv, Pending, Mine
  <2>1. CASE v = w
    BY <1>1, <1>3, <2>1 DEF OrderInv, QueueInv, q
  <2>2. CASE v # w
    BY <1>3, <2>2 DEF OrderInv, QueueInv
  <2> QED
    BY <2>1, <2>2
<1>7. HandInv'
  <2> SUFFICES ASSUME NEW v \in Bodies, hand'[v] # 0
               PROVE  /\ Pending(hand'[v])
                      /\ pc[v] \in {"shared", "serial"}
                      /\ pc[v] = "shared" =>
                           /\ ops[hand'[v]].serial = 0
                           /\ \A n \in OpNumbers : In(n, delayQueue) => hand'[v] < n
                      /\ pc[v] = "serial" =>
                           /\ Mine(hand'[v], v)
                           /\ \A n \in OpNumbers :
                                In(n, serialQueue'[v]) => hand'[v] < n
                      /\ \A u \in Bodies : hand'[u] = hand'[v] => u = v
    BY <1>2 DEF HandInv, Pending, Mine
  <2>1. CASE v = w
    BY <1>1, <1>2, <1>3, <1>4, <1>5, <2>1
  <2>2. CASE v # w
    BY <1>1, <1>2, <1>3, <1>5, <2>2 DEF OrderInv, HandInv
  <2> QED
    BY <2>1, <2>2
<1>8. PlaceInv'
  <2> SUFFICES ASSUME NEW n \in DOMAIN ops, runs[n] = 0, Somewhere(n)
               PROVE  Somewhere(n)'
    BY <1>2 DEF OrderInv, PlaceInv
  <2>1. n \in OpNumbers
    BY SqlDelayAssumption DEF TypeOK, OpNumbers
  <2>2. n # 0
    BY <2>1, SqlDelayAssumption DEF OpNumbers
  <2> QED
    BY <1>1, <1>2, <1>3, <2>1, <2>2 DEF Somewhere, q
<1>9. SyncInv' /\ SerialOrder'
  BY <1>2 DEF OrderInv, SyncInv, SerialOrder
<1> QED
  BY <1>6, <1>7, <1>8, <1>9 DEF OrderInv

(* What a worker executes is the oldest operation with its serial id that  *)
(* was not executed.                                                       *)
LEMMA OldestFirst ==
  ASSUME TypeOK, OrderInv, NEW w \in Bodies, hand[w] # 0, workers # 0,
         NEW m \in DOMAIN ops, m < hand[w],
         ops[hand[w]].serial # 0, ops[m].serial = ops[hand[w]].serial
  PROVE  runs[m] = 1
<1> SUFFICES ASSUME runs[m] = 0, Somewhere(m) PROVE FALSE
  BY DEF OrderInv, PlaceInv
<1>1. m \in OpNumbers /\ m # 0 /\ m \in Nat
  BY SqlDelayAssumption DEF TypeOK, OpNumbers
<1>2. hand[w] \in OpNumbers /\ hand[w] \in Nat
  BY SqlDelayAssumption DEF TypeOK, OpNumbers
<1>3. pc[w] = "serial" /\ Mine(hand[w], w) /\ Mine(m, w)
  BY DEF OrderInv, HandInv, Mine
<1>4. ~In(m, delayQueue)
  BY <1>1, <1>3 DEF OrderInv, QueueInv, Mine
<1>5. ASSUME NEW v \in Bodies, hand[v] = m PROVE FALSE
  <2>1. v = w
    BY <1>1, <1>3, <1>5 DEF OrderInv, HandInv, Mine
  <2> QED
    BY <1>1, <1>2, <1>5, <2>1
<1>6. ASSUME NEW v \in Bodies, In(m, serialQueue[v]) PROVE FALSE
  <2>1. v = w
    BY <1>1, <1>3, <1>6 DEF OrderInv, QueueInv, Mine
  <2>2. hand[w] < m
    BY <1>1, <1>3, <1>6, <2>1 DEF OrderInv, HandInv
  <2> QED
    BY <1>1, <1>2, <2>2
<1> QED
  BY <1>4, <1>5, <1>6 DEF Somewhere

(* A worker executes what it has taken.                                    *)
LEMMA ExecuteStep ==
  ASSUME TypeOK, OrderInv, NEW w \in Bodies, workers # 0, ExecuteOperation(w)
  PROVE  OrderInv'
<1> DEFINE e == hand[w]
<1>1. /\ e # 0 /\ hand' = [hand EXCEPT ![w] = 0]
      /\ UNCHANGED <<delayQueue, serialQueue, ops, pc, workers, async>>
  BY DEF ExecuteOperation, queues, halting
<1>2. Pending(e) /\ e \in OpNumbers /\ e \in Nat
  BY <1>1, SqlDelayAssumption DEF TypeOK, OrderInv, HandInv, OpNumbers
<1>3. /\ hand'[w] = 0 /\ \A v \in Bodies : v # w => hand'[v] = hand[v] /\ hand[v] # e
  BY <1>1 DEF TypeOK, OrderInv, HandInv
<1>4. /\ DOMAIN runs' = DOMAIN ops /\ runs'[e] = 1
      /\ \A n \in DOMAIN ops : n # e => runs'[n] = runs[n]
  <2>1. DOMAIN runs = DOMAIN ops
    BY DEF TypeOK
  <2> QED
    BY <1>2, <2>1 DEF ExecuteOperation, Pending
<1>5. ~In(e, delayQueue) /\ \A v \in Bodies : ~In(e, serialQueue[v])
  <2>1. pc[w] = "shared" \/ pc[w] = "serial"
    BY <1>1 DEF OrderInv, HandInv
  <2>2. CASE pc[w] = "shared"
    BY <1>1, <1>2, <2>2 DEF OrderInv, HandInv, QueueInv, Mine
  <2>3. CASE pc[w] = "serial"
    <3>1. Mine(e, w) /\ ~In(e, serialQueue[w])
      BY <1>1, <1>2, <2>3 DEF OrderInv, HandInv
    <3> QED
      BY <1>2, <3>1 DEF OrderInv, QueueInv, Mine
  <2> QED
    BY <2>1, <2>2, <2>3
<1>6. QueueInv'
  BY <1>1, <1>4, <1>5 DEF OrderInv, QueueInv, Pending, Mine
<1>7. HandInv'
  BY <1>1, <1>3, <1>4 DEF OrderInv, HandInv, Pending, Mine
<1>8. PlaceInv'
  <2> SUFFICES ASSUME NEW n \in DOMAIN ops, n # e, runs[n] = 0, Somewhere(n)
               PROVE  Somewhere(n)'
    BY <1>1, <1>4 DEF OrderInv, PlaceInv
  <2> QED
    BY <1>1, <1>3 DEF Somewhere
<1>9. SyncInv'
  BY <1>1, <1>4 DEF OrderInv, SyncInv
<1>10. SerialOrder'
  <2> SUFFICES ASSUME NEW m \in DOMAIN ops, NEW n \in DOMAIN ops, m < n,
                      ops[m].serial = ops[n].serial, ops[n].serial # 0,
                      runs'[n] > 0
               PROVE  runs'[m] > 0
    BY <1>1 DEF SerialOrder
  <2>1. CASE n = e
    <3>1. runs[m] = 1
      BY <1>1, <2>1, OldestFirst
    <3> QED
      BY <1>4, <3>1
  <2>2. CASE n # e
    <3>1. runs[m] > 0
      BY <1>4, <2>2 DEF OrderInv, SerialOrder
    <3> QED
      BY <1>4, <3>1
  <2> QED
    BY <2>1, <2>2
<1> QED
  BY <1>6, <1>7, <1>8, <1>9, <1>10 DEF OrderInv

-----------------------------------------------------------------------------
(* Every step keeps the invariant.                                         *)

(* An operation is handed over, one way or another.                        *)
LEMMA HandOverStep ==
  ASSUME IInv, NEW op \in Operation, Accepting,
         \/ AddToSerialDelayQueue(op) /\ (async \/ op.serial = 0)
         \/ DirectExecute(op) /\ ~async,
         UNCHANGED <<async, halting, threads>>,
         trans' \in [Clients -> {NoTrans, 0} \cup SerialIds]
  PROVE  IInv'
<1>1. /\ TypeOK /\ OrderInv /\ HaltInv /\ NothingLost
      /\ Len(ops) < MaxOps /\ halt \in {"up", "stop", "halted"}
      /\ UNCHANGED <<async, workers, halt, next, kept, running, pc, hand>>
  BY DEF IInv, Accepting, halting, threads
<1>2. PICK r \in {0, 1} : ops' = Append(ops, op) /\ runs' = Append(runs, r)
  BY DEF AddToSerialDelayQueue, AddToDelayQueue, DirectExecute
<1>3. /\ Len(ops') \in OpNumbers
      /\ DOMAIN ops' = DOMAIN ops \cup {Len(ops')}
      /\ \A n \in DOMAIN ops : ops'[n] = ops[n] /\ runs'[n] = runs[n]
  BY <1>1, <1>2, HandedOver
<1>4. /\ ops' \in Seq(Operation) /\ runs' \in Seq(Nat) /\ Len(runs') = Len(ops')
      /\ Len(ops') <= MaxOps /\ Len(ops') = Len(ops) + 1 /\ Len(ops) \in Nat
      /\ DOMAIN ops = 1 .. Len(ops)
  <2>1. ops \in Seq(Operation) /\ runs \in Seq(Nat) /\ Len(runs) = Len(ops)
    BY <1>1 DEF TypeOK
  <2>2. r \in Nat /\ MaxOps \in Nat
    BY SqlDelayAssumption
  <2> QED
    BY <1>1, <1>2, <2>1, <2>2, AppendTo
<1>5. delayQueue' \in Seq(OpNumbers) /\ serialQueue' \in [Bodies -> Seq(OpNumbers)]
  <2>1. delayQueue \in Seq(OpNumbers) /\ serialQueue \in [Bodies -> Seq(OpNumbers)]
    BY <1>1 DEF TypeOK
  <2>2. Append(delayQueue, Len(ops')) \in Seq(OpNumbers)
    BY <1>3, <2>1, AppendTo
  <2>3. \A w \in Bodies : Append(serialQueue[w], Len(ops')) \in Seq(OpNumbers)
    BY <1>3, <2>1, AppendTo
  <2> QED
    BY <2>1, <2>2, <2>3
       DEF AddToSerialDelayQueue, AddToDelayQueue, DirectExecute, queues
<1>6. TypeOK'
  BY <1>1, <1>4, <1>5 DEF TypeOK
<1>7. HaltInv'
  BY <1>1, <1>4 DEF HaltInv, Stopped, TypeOK
<1>8. NothingLost'
  <2> SUFFICES ASSUME halt \in {"halted", "closed"}, NEW n \in 1 .. kept
               PROVE  runs'[n] = 1
    BY <1>1 DEF NothingLost
  <2>1. n \in DOMAIN ops /\ runs[n] = 1
    BY <1>1, <1>4 DEF NothingLost, HaltInv, TypeOK
  <2> QED
    BY <1>3, <2>1
<1>9. OrderInv'
  <2>1. CASE DirectExecute(op) /\ ~async
    BY <1>1, <2>1, DirectStep
  <2>2. CASE AddToSerialDelayQueue(op) /\ (op.serial = 0 \/ workers = 0)
                                      /\ (async \/ op.serial = 0)
    <3>1. AddToDelayQueue(op)
      BY <2>2 DEF AddToSerialDelayQueue
    <3> QED
      BY <1>1, <2>2, <3>1, DelayedStep
  <2>3. CASE AddToSerialDelayQueue(op) /\ op.serial # 0 /\ workers # 0 /\ async
    <3>1. workers = NumWorkers
      BY <1>1, <2>3 DEF HaltInv
    <3> QED
      BY <1>1, <2>3, <3>1, SerialStep
  <2> QED
    BY <2>1, <2>2, <2>3
<1> QED
  BY <1>6, <1>7, <1>8, <1>9 DEF IInv

(* What the clients do.                                                    *)
LEMMA ClientKeeps ==
  ASSUME IInv, ClientStep PROVE IInv'
<1>1. /\ trans \in [Clients -> {NoTrans, 0} \cup SerialIds]
      /\ async \in BOOLEAN
  BY DEF IInv, TypeOK
<1>2. \A s \in {0} \cup SerialIds :
        Write(s) \in Operation /\ Write(s).serial = s
  BY DEF Write, Operation
<1>3. ASSUME UNCHANGED <<queues, halting, threads, history>>, async => async',
             async' \in BOOLEAN, trans' \in [Clients -> {NoTrans, 0} \cup SerialIds]
      PROVE  IInv'
  <2>1. UNCHANGED <<delayQueue, serialQueue, workers, halt, next, kept, running,
                    pc, hand, ops, runs>>
    BY <1>3 DEF queues, halting, threads, history
  <2>2. TypeOK' /\ HaltInv' /\ NothingLost'
    BY <1>3, <2>1 DEF IInv, TypeOK, HaltInv, NothingLost, Stopped
  <2>3. OrderInv'
    BY <1>3, <2>1, QuietStep DEF IInv
  <2> QED
    BY <2>2, <2>3 DEF IInv
<1>4. CASE AllowAsyncTransactions
  BY <1>1, <1>3, <1>4 DEF AllowAsyncTransactions
<1>5. ASSUME NEW c \in Clients, Execute(c) PROVE IInv'
  <2>1. CASE async
    <3>1. AddToSerialDelayQueue(Write(0))
      BY <1>2, <1>5, <2>1 DEF Execute, AddToSerialDelayQueue
    <3> QED
      BY <1>1, <1>2, <1>5, <3>1, HandOverStep DEF Execute
  <2>2. CASE ~async
    BY <1>1, <1>2, <1>5, <2>2, HandOverStep DEF Execute
  <2> QED
    BY <2>1, <2>2
<1>6. ASSUME NEW c \in Clients, CommitTransaction(c) PROVE IInv'
  <2>1. trans[c] \in {0} \cup SerialIds
    BY <1>1, <1>6 DEF CommitTransaction
  <2>2. trans' \in [Clients -> {NoTrans, 0} \cup SerialIds]
    BY <1>1, <1>6 DEF CommitTransaction
  <2> QED
    BY <1>2, <1>6, <2>1, <2>2, HandOverStep DEF CommitTransaction
<1>7. ASSUME NEW c \in Clients,
             RollbackTransaction(c) \/ \E s \in {0} \cup SerialIds : BeginTransaction(c, s)
      PROVE  IInv'
  BY <1>1, <1>3, <1>7 DEF RollbackTransaction, BeginTransaction
<1>8. ASSUME NEW sort \in Sorts, AsyncQuery(sort) PROVE IInv'
  <2> DEFINE op == [serial |-> 0, sort |-> sort]
  <2>1. op \in Operation /\ op.serial = 0
    BY DEF Operation
  <2>2. AddToSerialDelayQueue(op)
    BY <1>8, <2>1 DEF AsyncQuery, AddToSerialDelayQueue
  <2> QED
    BY <1>1, <1>8, <2>1, <2>2, HandOverStep DEF AsyncQuery
<1>9. ASSUME NEW sort \in Sorts, NEW s \in {0} \cup SerialIds,
             DelayQueryHolder(s, sort)
      PROVE  IInv'
  <2> DEFINE op == [serial |-> s, sort |-> sort]
  <2>1. op \in Operation
    BY DEF Operation
  <2> QED
    BY <1>1, <1>9, <2>1, HandOverStep DEF DelayQueryHolder
<1> QED
  BY <1>4, <1>5, <1>6, <1>7, <1>8, <1>9 DEF ClientStep

(* A worker outside a halted database.                                     *)
LEMMA AtWork ==
  ASSUME IInv, NEW w \in Bodies, pc[w] # "exited"
  PROVE  halt \notin {"halted", "closed"} /\ workers = NumWorkers /\ workers # 0
  BY SqlDelayAssumption DEF IInv, HaltInv, Stopped

(* What a worker does.                                                     *)
LEMMA WorkerKeeps ==
  ASSUME IInv, NEW w \in Bodies, WorkerStep(w) PROVE IInv'
<1>1. TypeOK /\ HaltInv /\ OrderInv /\ NothingLost
  BY DEF IInv
<1>2. pc[w] # "exited" /\ halt \notin {"halted", "closed"} /\ workers # 0
  <2>1. pc[w] # "exited"
    BY <1>1 DEF WorkerStep, Loop, NextDelayedOperation, NextSerialOperation,
                ExecuteOperation, OrderInv, HandInv
  <2> QED
    BY <2>1, AtWork
<1>3. UNCHANGED <<async, trans, running, workers, halt, next, kept, ops>>
  BY DEF WorkerStep, Loop, NextDelayedOperation, NextSerialOperation,
         ExecuteOperation, halting, history
<1>4. NothingLost'
  BY <1>2, <1>3 DEF NothingLost
<1>5. CASE Loop(w)
  <2>1. /\ UNCHANGED <<delayQueue, serialQueue, hand, runs>> /\ pc[w] = "top"
        /\ pc' = [pc EXCEPT ![w] = IF running[w] THEN "shared" ELSE "exited"]
    BY <1>5 DEF Loop, Goto, queues, history
  <2>2. TypeOK' /\ HaltInv'
    BY <1>1, <1>2, <1>3, <2>1 DEF TypeOK, HaltInv, Stopped
  <2>3. \A v \in Bodies : hand[v] # 0 => pc'[v] = pc[v]
    BY <1>1, <2>1 DEF TypeOK, OrderInv, HandInv
  <2>4. OrderInv'
    BY <1>1, <1>3, <2>1, <2>3, QuietStep
  <2> QED
    BY <1>4, <2>2, <2>4 DEF IInv
<1>6. CASE NextDelayedOperation(w)
  <2>1. CASE delayQueue = <<>>
    <3>1. /\ UNCHANGED <<delayQueue, serialQueue, hand, runs>> /\ hand[w] = 0
          /\ pc' = [pc EXCEPT ![w] = "serial"]
      BY <1>6, <2>1 DEF NextDelayedOperation, Goto, history
    <3>2. TypeOK' /\ HaltInv'
      BY <1>1, <1>2, <1>3, <2>1, <3>1 DEF TypeOK, HaltInv, Stopped
    <3>3. \A v \in Bodies : hand[v] # 0 => pc'[v] = pc[v]
      BY <1>1, <3>1 DEF TypeOK
    <3>4. OrderInv'
      BY <1>1, <1>3, <3>1, <3>3, QuietStep
    <3> QED
      BY <1>4, <3>2, <3>4 DEF IInv
  <2>2. CASE delayQueue # <<>>
    <3>1. OrderInv'
      BY <1>1, <1>2, <1>6, <2>2, TakeSharedStep
    <3>2. /\ hand' = [hand EXCEPT ![w] = Head(delayQueue)]
          /\ delayQueue' = Tail(delayQueue) /\ UNCHANGED <<serialQueue, pc, runs>>
      BY <1>6, <2>2 DEF NextDelayedOperation, history
    <3>3. Head(delayQueue) \in OpNumbers /\ Tail(delayQueue) \in Seq(OpNumbers)
      <4>1. delayQueue \in Seq(OpNumbers)
        BY <1>1 DEF TypeOK
      <4> QED
        BY <2>2, <4>1, TailOf
    <3>4. TypeOK'
      BY <1>1, <1>3, <3>2, <3>3 DEF TypeOK
    <3>5. HaltInv'
      BY <1>1, <1>2, <1>3, <2>2, <3>2 DEF HaltInv, Stopped
    <3> QED
      BY <1>4, <3>1, <3>4, <3>5 DEF IInv
  <2> QED
    BY <2>1, <2>2
<1>7. CASE NextSerialOperation(w)
  <2>1. CASE serialQueue[w] = <<>>
    <3>1. /\ UNCHANGED <<delayQueue, serialQueue, hand, runs>> /\ hand[w] = 0
          /\ pc[w] = "serial" /\ pc' = [pc EXCEPT ![w] = "top"]
      BY <1>7, <2>1 DEF NextSerialOperation, Goto, history
    <3>2. TypeOK' /\ HaltInv'
      BY <1>1, <1>2, <1>3, <2>1, <3>1 DEF TypeOK, HaltInv, Stopped
    <3>3. \A v \in Bodies : hand[v] # 0 => pc'[v] = pc[v]
      BY <1>1, <3>1 DEF TypeOK
    <3>4. OrderInv'
      BY <1>1, <1>3, <3>1, <3>3, QuietStep
    <3> QED
      BY <1>4, <3>2, <3>4 DEF IInv
  <2>2. CASE serialQueue[w] # <<>>
    <3>1. OrderInv'
      BY <1>1, <1>7, <2>2, TakeSerialStep
    <3>2. /\ hand' = [hand EXCEPT ![w] = Head(serialQueue[w])] /\ pc[w] = "serial"
          /\ serialQueue' = [serialQueue EXCEPT ![w] = Tail(serialQueue[w])]
          /\ UNCHANGED <<delayQueue, pc, runs>>
      BY <1>7, <2>2 DEF NextSerialOperation, history
    <3>3. /\ Head(serialQueue[w]) \in OpNumbers
          /\ Tail(serialQueue[w]) \in Seq(OpNumbers)
      <4>1. serialQueue[w] \in Seq(OpNumbers)
        BY <1>1 DEF TypeOK
      <4> QED
        BY <2>2, <4>1, TailOf
    <3>4. TypeOK'
      BY <1>1, <1>3, <3>2, <3>3 DEF TypeOK
    <3>5. \A v \in Bodies : v # w => serialQueue'[v] = serialQueue[v]
      BY <1>1, <3>2 DEF TypeOK
    <3>6. HaltInv'
      BY <1>1, <1>2, <1>3, <3>2, <3>5 DEF HaltInv, Stopped
    <3> QED
      BY <1>4, <3>1, <3>4, <3>6 DEF IInv
  <2> QED
    BY <2>1, <2>2
<1>8. CASE ExecuteOperation(w)
  <2>1. OrderInv'
    BY <1>1, <1>2, <1>8, ExecuteStep
  <2>2. /\ hand' = [hand EXCEPT ![w] = 0] /\ runs' = [runs EXCEPT ![hand[w]] = @ + 1]
        /\ UNCHANGED <<delayQueue, serialQueue, pc>>
    BY <1>8 DEF ExecuteOperation, queues
  <2>3. runs' \in Seq(Nat) /\ Len(runs') = Len(runs)
    <3>1. runs \in Seq(Nat) /\ hand[w] \in DOMAIN ops /\ DOMAIN runs = DOMAIN ops
      BY <1>1, <1>8 DEF TypeOK, OrderInv, HandInv, Pending, ExecuteOperation
    <3> QED
      BY <2>2, <3>1
  <2>4. TypeOK'
    BY <1>1, <1>3, <2>2, <2>3 DEF TypeOK
  <2>5. HaltInv'
    BY <1>1, <1>2, <1>3, <2>2 DEF HaltInv, Stopped
  <2> QED
    BY <1>4, <2>1, <2>4, <2>5 DEF IInv
<1> QED
  BY <1>5, <1>6, <1>7, <1>8 DEF WorkerStep

(* What the halt does.                                                     *)
LEMMA HaltKeeps ==
  ASSUME IInv, HaltStep PROVE IInv'
<1>1. TypeOK /\ HaltInv /\ OrderInv /\ NothingLost /\ NumWorkers \in Nat \ {0}
  BY SqlDelayAssumption DEF IInv
<1>2. UNCHANGED <<async, trans, delayQueue, serialQueue, hand, ops, runs>>
  BY DEF HaltStep, StopServer, StopBody, JoinThreads, FreeBody, Halted,
         CloseConnections, queues, threads, history
<1>3. ASSUME \A w \in Bodies : hand[w] # 0 => pc'[w] = pc[w], workers' # 0 => workers # 0
      PROVE  OrderInv'
  BY <1>1, <1>2, <1>3, QuietStep
<1>4. CASE StopServer
  <2>1. UNCHANGED <<workers, next, running, pc, kept>> /\ halt = "up" /\ halt' = "stop"
    BY <1>4 DEF StopServer, threads
  <2>2. TypeOK' /\ HaltInv' /\ NothingLost'
    BY <1>1, <1>2, <2>1 DEF TypeOK, HaltInv, NothingLost
  <2> QED
    BY <1>3, <2>1, <2>2 DEF IInv
<1>5. CASE StopBody
  <2>1. /\ UNCHANGED <<workers, pc, halt, kept>> /\ halt = "stop"
        /\ next < workers /\ next' = next + 1
        /\ running' = [running EXCEPT ![next] = FALSE]
    BY <1>5 DEF StopBody
  <2>2. TypeOK' /\ HaltInv' /\ NothingLost'
    BY <1>1, <1>2, <2>1 DEF TypeOK, HaltInv, NothingLost, Bodies
  <2> QED
    BY <1>3, <2>1, <2>2 DEF IInv
<1>6. CASE JoinThreads
  <2>1. /\ UNCHANGED <<workers, pc, running>> /\ halt = "stop" /\ halt' = "free"
        /\ next' = 0 /\ Stopped /\ kept' = Len(ops)
    BY <1>6 DEF JoinThreads, threads
  <2>2. TypeOK' /\ HaltInv' /\ NothingLost'
    BY <1>1, <1>2, <2>1 DEF TypeOK, HaltInv, NothingLost, Bodies, Stopped
  <2> QED
    BY <1>3, <2>1, <2>2 DEF IInv
<1>7. CASE FreeBody
  <2>1. /\ UNCHANGED <<workers, running, halt, kept>> /\ halt = "free"
        /\ next < NumWorkers /\ next' = next + 1 /\ Stopped
        /\ pc' = [pc EXCEPT ![next] = "shared"]
    BY <1>7 DEF FreeBody, Goto
  <2>2. next \in Bodies
    BY <1>1, <2>1 DEF TypeOK, Bodies
  <2>3. TypeOK' /\ NothingLost'
    BY <1>1, <1>2, <2>1, <2>2 DEF TypeOK, NothingLost, Bodies
  <2>4. HaltInv'
    BY <1>1, <1>2, <2>1, <2>2 DEF TypeOK, HaltInv, Bodies, Stopped
  <2>5. \A w \in Bodies : hand[w] # 0 => pc'[w] = pc[w]
    BY <1>1, <2>1 DEF OrderInv, HandInv, Stopped
  <2> QED
    BY <1>3, <2>1, <2>3, <2>4, <2>5 DEF IInv
<1>8. CASE Halted
  <2>1. /\ UNCHANGED <<next, pc, running, kept>> /\ halt = "free" /\ halt' = "halted"
        /\ next = NumWorkers /\ workers' = 0 /\ Stopped
    BY <1>8 DEF Halted, threads
  <2>2. \A n \in DOMAIN ops : runs[n] = 1
    <3>1. \A w \in Bodies : hand[w] = 0
      BY <1>1, <2>1 DEF OrderInv, HandInv, Stopped
    <3>2. \A w \in Bodies : w < next /\ pc[w] = "exited"
      BY <1>1, <2>1 DEF Bodies, Stopped
    <3>3. delayQueue = <<>> /\ \A w \in Bodies : serialQueue[w] = <<>>
      <4>1. 0 \in Bodies
        BY <1>1 DEF Bodies
      <4> QED
        BY <1>1, <2>1, <3>2, <4>1 DEF HaltInv
    <3>4. ASSUME NEW n \in DOMAIN ops PROVE n # 0
      BY <1>1, <3>4 DEF TypeOK
    <3> QED
      BY <1>1, <3>1, <3>3, <3>4, EmptyQueue DEF OrderInv, PlaceInv, Somewhere
  <2>3. kept = Len(ops) /\ 1 .. kept = DOMAIN ops
    BY <1>1, <2>1 DEF HaltInv, TypeOK
  <2>4. TypeOK'
    BY <1>1, <1>2, <2>1 DEF TypeOK
  <2>5. HaltInv'
    <3>1. kept <= Len(ops)
      BY <1>1, <2>3 DEF TypeOK
    <3> QED
      BY <1>2, <2>1, <3>1 DEF HaltInv, Stopped
  <2>6. NothingLost'
    BY <1>2, <2>1, <2>2, <2>3 DEF NothingLost
  <2> QED
    BY <1>3, <2>1, <2>4, <2>5, <2>6 DEF IInv
<1>9. CASE CloseConnections
  <2>1. /\ UNCHANGED <<workers, next, pc, running, kept>>
        /\ halt = "halted" /\ halt' = "closed"
    BY <1>9 DEF CloseConnections, threads
  <2>2. TypeOK' /\ HaltInv' /\ NothingLost'
    BY <1>1, <1>2, <2>1 DEF TypeOK, HaltInv, NothingLost, Stopped
  <2> QED
    BY <1>3, <2>1, <2>2 DEF IInv
<1> QED
  BY <1>4, <1>5, <1>6, <1>7, <1>8, <1>9 DEF HaltStep

(* The invariant holds initially.                                          *)
LEMMA InitKeeps == Init => IInv
<1> SUFFICES ASSUME Init PROVE IInv
  OBVIOUS
<1>1. TypeOK /\ HaltInv
  <2>1. \A S : <<>> \in Seq(S) /\ Len(<<>>) = 0
    OBVIOUS
  <2>2. NumWorkers \in Nat \ {0} /\ MaxOps \in Nat
    BY SqlDelayAssumption
  <2>3. TypeOK
    <3>1. /\ delayQueue \in Seq(OpNumbers)
          /\ serialQueue \in [Bodies -> Seq(OpNumbers)]
          /\ ops \in Seq(Operation) /\ runs \in Seq(Nat)
          /\ Len(runs) = Len(ops) /\ Len(ops) <= MaxOps
      BY <2>1, <2>2 DEF Init
    <3>2. /\ async \in BOOLEAN /\ running \in [Bodies -> BOOLEAN]
          /\ trans \in [Clients -> {NoTrans, 0} \cup SerialIds]
          /\ pc \in [Bodies -> {"top", "shared", "serial", "exited"}]
          /\ hand \in [Bodies -> {0} \cup OpNumbers]
      BY DEF Init
    <3>3. /\ workers \in {0, NumWorkers} /\ next \in 0 .. NumWorkers
          /\ kept \in 0 .. MaxOps
          /\ halt \in {"up", "stop", "free", "halted", "closed"}
      BY <2>2 DEF Init
    <3> QED
      BY <3>1, <3>2, <3>3 DEF TypeOK
  <2>4. HaltInv
    BY DEF Init, HaltInv
  <2> QED
    BY <2>3, <2>4
<1>2. /\ DOMAIN ops = {} /\ (\A w \in Bodies : hand[w] = 0)
      /\ delayQueue = <<>> /\ (\A w \in Bodies : serialQueue[w] = <<>>)
  BY DEF Init
<1>3. OrderInv
  BY <1>2, EmptyQueue
     DEF OrderInv, QueueInv, HandInv, PlaceInv, SyncInv, SerialOrder
<1>4. NothingLost
  BY DEF Init, NothingLost
<1> QED
  BY <1>1, <1>3, <1>4 DEF IInv

(* The invariant of the proofs.                                            *)
THEOREM Invariance == Spec => []IInv
<1>1. IInv /\ [Next]_vars => IInv'
  <2> SUFFICES ASSUME IInv, [Next]_vars PROVE IInv'
    OBVIOUS
  <2>1. CASE UNCHANGED vars
    BY <2>1 DEF vars, IInv, TypeOK, HaltInv, OrderInv, QueueInv, HandInv, PlaceInv,
                Somewhere, SyncInv, SerialOrder, NothingLost, Pending, Mine, Stopped
  <2> QED
    BY <2>1, ClientKeeps, WorkerKeeps, HaltKeeps DEF Next
<1> QED
  BY InitKeeps, <1>1, PTL DEF Spec

-----------------------------------------------------------------------------
(* What the runs check on small instances, for every instance.             *)

(* Every variable keeps its type.                                          *)
THEOREM TypeCorrect == Spec => []TypeOK
<1>1. IInv => TypeOK
  BY DEF IInv
<1> QED
  BY <1>1, Invariance, PTL

(* AddToSerialDelayQueue: an operation with a serial id is executed after  *)
(* all those with the same id that were handed over before it.             *)
THEOREM SerialOrderKept == Spec => []SerialOrder
<1>1. IInv => SerialOrder
  BY DEF IInv, OrderInv
<1> QED
  BY <1>1, Invariance, PTL

(* HaltDelayThread and ~SqlDelayThread leave nothing behind.               *)
THEOREM HaltLosesNothing == Spec => []NothingLost
<1>1. IInv => NothingLost
  BY DEF IInv
<1> QED
  BY <1>1, Invariance, PTL

-----------------------------------------------------------------------------
(* The refinement.                                                         *)

(* The serial ids of the operations, as the store sees them.               *)
Serials == [n \in DOMAIN ops |-> ops[n].serial]

(* One more operation is one more serial id.                               *)
LEMMA SerialsGrow ==
  ASSUME NEW s \in Seq(Operation), NEW op \in Operation
  PROVE  LET f(t) == [n \in DOMAIN t |-> t[n].serial]
         IN  f(Append(s, op)) = Append(f(s), op.serial)
<1> DEFINE S == [n \in DOMAIN s |-> s[n].serial]
           T == [n \in DOMAIN Append(s, op) |-> Append(s, op)[n].serial]
           V == {0} \cup SerialIds
<1>1. /\ Len(s) \in Nat /\ DOMAIN s = 1 .. Len(s)
      /\ DOMAIN Append(s, op) = 1 .. Len(s) + 1
      /\ Append(s, op)[Len(s) + 1] = op
      /\ \A n \in DOMAIN s : Append(s, op)[n] = s[n] /\ s[n] \in Operation
  BY AppendTo
<1>2. S \in Seq(V) /\ Len(S) = Len(s) /\ op.serial \in V
  BY <1>1 DEF Operation
<1>3. /\ DOMAIN Append(S, op.serial) = 1 .. Len(s) + 1
      /\ Append(S, op.serial)[Len(s) + 1] = op.serial
      /\ \A n \in DOMAIN S : Append(S, op.serial)[n] = S[n]
      /\ Append(S, op.serial) \in Seq(V)
  <2> HIDE DEF S, V
  <2> QED
    BY <1>2, AppendTo
<1>4. \A n \in 1 .. Len(s) + 1 : T[n] = Append(S, op.serial)[n]
  <2> SUFFICES ASSUME NEW n \in 1 .. Len(s) + 1 PROVE T[n] = Append(S, op.serial)[n]
    OBVIOUS
  <2>1. CASE n = Len(s) + 1
    BY <1>1, <1>3, <2>1
  <2>2. CASE n \in DOMAIN s
    BY <1>1, <1>3, <2>2
  <2> QED
    BY <1>1, <2>1, <2>2
<1>5. T \in Seq(V) /\ Len(T) = Len(s) + 1
  BY <1>1 DEF Operation
<1>6. Len(Append(S, op.serial)) = Len(s) + 1
  <2> HIDE DEF S, V
  <2> QED
    BY <1>2, AppendTo
<1> HIDE DEF S, T, V
<1>7. T = Append(S, op.serial)
  BY <1>3, <1>4, <1>5, <1>6, SeqEqual
<1> QED
  BY <1>7 DEF S, T

(* Handing an operation over is a submission.                              *)
LEMMA HandOverRefines ==
  ASSUME IInv, NEW op \in Operation, Accepting, UNCHANGED <<async, halting>>,
         \/ AddToSerialDelayQueue(op) \/ AddToDelayQueue(op)
         \/ DirectExecute(op) /\ ~async
  PROVE  Store!Next
<1>1. /\ ops \in Seq(Operation) /\ op.serial \in SerialIds \cup {0}
      /\ Len(ops) \in Nat /\ DOMAIN ops = 1 .. Len(ops) /\ halt' = halt
  BY AppendTo DEF IInv, TypeOK, Operation, halting
<1>2. ops' = Append(ops, op) => Serials' = Append(Serials, op.serial)
  BY <1>1, SerialsGrow DEF Serials
<1>3. CASE AddToSerialDelayQueue(op) \/ AddToDelayQueue(op)
  <2>1. ops' = Append(ops, op) /\ runs' = Append(runs, 0)
    BY <1>3 DEF AddToSerialDelayQueue, AddToDelayQueue
  <2>2. Store!Submit(op.serial)
    BY <1>1, <1>2, <2>1 DEF Store!Submit, Serials
  <2> QED
    BY <1>1, <2>2 DEF Store!Next
<1>4. CASE DirectExecute(op) /\ ~async
  <2>1. ops' = Append(ops, op) /\ runs' = Append(runs, 1)
    BY <1>4 DEF DirectExecute
  <2>2. Store!Turn(Len(Serials) + 1, op.serial)
    <3>1. Len(Serials) = Len(ops)
      BY <1>1 DEF Serials
    <3>2. \A m \in DOMAIN ops : ops[m].serial # 0 => runs[m] = 1
      BY <1>4 DEF IInv, OrderInv, SyncInv
    <3> QED
      BY <1>1, <3>1, <3>2 DEF Store!Turn, Store!Executed, Serials
  <2>3. Store!SubmitAndRun(op.serial)
    BY <1>1, <1>2, <1>4, <2>1, <2>2 DEF Store!SubmitAndRun, Serials, Accepting
  <2> QED
    BY <1>1, <2>3 DEF Store!Next
<1> QED
  BY <1>3, <1>4

(* What a worker executes is an abstract run: its turn has come.           *)
LEMMA ExecuteRefines ==
  ASSUME IInv, NEW w \in Bodies, ExecuteOperation(w)
  PROVE  Store!Next
<1> DEFINE n == hand[w]
<1>1. TypeOK /\ OrderInv /\ n # 0 /\ Pending(n) /\ pc[w] # "exited"
  BY DEF IInv, ExecuteOperation, OrderInv, HandInv
<1>2. workers # 0 /\ halt \notin {"halted", "closed"}
  BY <1>1, AtWork
<1>3. runs' = [runs EXCEPT ![n] = 1] /\ UNCHANGED <<ops, halt>>
  BY <1>1 DEF ExecuteOperation, Pending, TypeOK, halting
<1>4. Serials' = Serials
  BY <1>3 DEF Serials
<1>5. Store!Turn(n, Serials[n])
  <2> SUFFICES ASSUME Serials[n] # 0, NEW m \in 1 .. n - 1, Serials[m] = Serials[n]
               PROVE  runs[m] > 0
    BY DEF Store!Turn, Store!Executed, Serials
  <2>1. DOMAIN ops = 1 .. Len(ops) /\ Len(ops) \in Nat
    BY <1>1, AppendTo DEF TypeOK
  <2>2. m \in DOMAIN ops /\ m < n
    BY <1>1, <2>1 DEF Pending
  <2> QED
    BY <1>1, <1>2, <2>2, OldestFirst DEF Serials, Pending
<1>6. Store!Run(n)
  BY <1>1, <1>2, <1>3, <1>4, <1>5 DEF Store!Run, Serials, Pending
<1>7. n \in DOMAIN Serials
  BY <1>1 DEF Pending, Serials
<1> HIDE DEF n
<1> QED
  BY <1>6, <1>7 DEF Store!Next, Serials

(* The workers, their queues and their halt implement AsyncStore.          *)
THEOREM WorkersImplementStore == Spec => ImplementsAsyncStore
<1>1. Init => Store!Init
  <2> SUFFICES ASSUME Init PROVE Store!Init
    OBVIOUS
  <2>1. [n \in DOMAIN ops |-> ops[n].serial] = <<>>
    BY DEF Init
  <2> QED
    BY <2>1 DEF Init, Store!Init
<1>2. IInv /\ IInv' /\ [Next]_vars => [Store!Next]_(Store!vars)
  <2> SUFFICES ASSUME IInv, IInv', [Next]_vars PROVE Store!Next \/ UNCHANGED Store!vars
    OBVIOUS
  <2>1. CASE UNCHANGED <<ops, runs>>
             /\ (halt' \in {"halted", "closed"} <=> halt \in {"halted", "closed"})
    BY <2>1 DEF Store!vars
  <2>2. CASE UNCHANGED vars
    BY <2>1, <2>2 DEF vars
  <2>3. ASSUME NEW w \in Bodies, WorkerStep(w) PROVE Store!Next \/ UNCHANGED Store!vars
    <3>1. CASE ExecuteOperation(w)
      BY <3>1, ExecuteRefines
    <3>2. CASE Loop(w) \/ NextDelayedOperation(w) \/ NextSerialOperation(w)
      BY <2>1, <3>2 DEF Loop, NextDelayedOperation, NextSerialOperation, halting, history
    <3> QED
      BY <2>3, <3>1, <3>2 DEF WorkerStep
  <2>4. CASE HaltStep
    <3>1. CASE Halted
      <4>1. /\ UNCHANGED <<ops, runs>> /\ halt = "free" /\ halt' = "halted"
        BY <3>1 DEF Halted, history
      <4>2. kept' = Len(ops)
        BY <3>1, <4>1 DEF IInv, HaltInv, Halted
      <4>3. \A n \in DOMAIN ops : runs[n] = 1
        BY <4>1, <4>2 DEF IInv, NothingLost, TypeOK
      <4>4. Store!Close
        BY <4>1, <4>3 DEF Store!Close
      <4> QED
        BY <4>4 DEF Store!Next
    <3>2. CASE StopServer \/ StopBody \/ JoinThreads \/ FreeBody \/ CloseConnections
      BY <2>1, <3>2 DEF StopServer, StopBody, JoinThreads, FreeBody, CloseConnections,
                        history
    <3> QED
      BY <2>4, <3>1, <3>2 DEF HaltStep
  <2>5. CASE ClientStep
    <3>1. \A s \in {0} \cup SerialIds : Write(s) \in Operation
      BY DEF Write, Operation
    <3>2. ASSUME NEW c \in Clients, Execute(c) \/ CommitTransaction(c) PROVE Store!Next
      <4>1. trans[c] = NoTrans \/ trans[c] \in {0} \cup SerialIds
        BY DEF IInv, TypeOK
      <4> QED
        BY <3>1, <3>2, <4>1, HandOverRefines DEF Execute, CommitTransaction
    <3>3. ASSUME NEW sort \in Sorts, NEW s \in {0} \cup SerialIds,
                 AsyncQuery(sort) \/ DelayQueryHolder(s, sort)
          PROVE  Store!Next
      <4>1. \A t \in {0} \cup SerialIds : [serial |-> t, sort |-> sort] \in Operation
        BY DEF Operation
      <4> QED
        BY <3>3, <4>1, HandOverRefines DEF AsyncQuery, DelayQueryHolder
    <3>4. CASE \/ AllowAsyncTransactions
               \/ \E c \in Clients : \/ RollbackTransaction(c)
                                      \/ \E s \in {0} \cup SerialIds : BeginTransaction(c, s)
      BY <2>1, <3>4 DEF AllowAsyncTransactions, RollbackTransaction, BeginTransaction,
                        halting, history
    <3> QED
      BY <2>5, <3>2, <3>3, <3>4 DEF ClientStep
  <2> QED
    BY <2>2, <2>3, <2>4, <2>5 DEF Next
<1> QED
  BY <1>1, <1>2, Invariance, PTL DEF Spec, ImplementsAsyncStore, Store!Spec
-----------------------------------------------------------------------------
(* What is handed over too late.                                           *)

(* The callbacks SqlResultQueue::CancelAll runs may hand over operations   *)
(* when the workers are gone.  No step from then on executes anything: an  *)
(* operation that was executed by then stays so, and one that is handed    *)
(* over afterwards never is.                                               *)
NothingRunsLate ==
  halt \in {"halted", "closed"} =>
    \A n \in DOMAIN runs' : runs'[n] = IF n \in DOMAIN runs THEN runs[n] ELSE 0

(* What is only queued is not executed.                                    *)
LEMMA QueuedNotRun ==
  ASSUME IInv, NEW op, AddToSerialDelayQueue(op) \/ AddToDelayQueue(op)
  PROVE  NothingRunsLate
<1>1. runs \in Seq(Nat) /\ runs' = Append(runs, 0)
  BY DEF IInv, TypeOK, AddToSerialDelayQueue, AddToDelayQueue
<1>2. /\ DOMAIN runs' = 1 .. Len(runs) + 1 /\ DOMAIN runs = 1 .. Len(runs)
      /\ Len(runs) \in Nat /\ runs'[Len(runs) + 1] = 0
      /\ \A n \in DOMAIN runs : runs'[n] = runs[n]
  BY <1>1, AppendTo
<1> QED
  BY <1>2 DEF NothingRunsLate

(* HaltDelayThread is final: the joined workers and the drained bodies     *)
(* were the last to execute anything.                                      *)
THEOREM HaltIsFinal == Spec => [][NothingRunsLate]_vars
<1>1. IInv /\ [Next]_vars => [NothingRunsLate]_vars
  <2> SUFFICES ASSUME IInv, Next PROVE NothingRunsLate
    BY DEF vars
  <2> SUFFICES ASSUME halt \in {"halted", "closed"} PROVE NothingRunsLate
    BY DEF NothingRunsLate
  <2>1. CASE UNCHANGED runs
    BY <2>1 DEF NothingRunsLate
  <2>2. \A w \in Bodies : ~ExecuteOperation(w)
    <3> SUFFICES ASSUME NEW w \in Bodies, ExecuteOperation(w) PROVE FALSE
      OBVIOUS
    <3>1. hand[w] # 0
      BY DEF ExecuteOperation
    <3>2. pc[w] # "exited"
      BY <3>1 DEF IInv, OrderInv, HandInv
    <3> QED
      BY <3>2, AtWork
  <2>3. ASSUME NEW w \in Bodies, WorkerStep(w) PROVE UNCHANGED runs
    BY <2>2, <2>3 DEF WorkerStep, Loop, NextDelayedOperation, NextSerialOperation, history
  <2>4. CASE HaltStep
    <3>1. UNCHANGED runs
      BY <2>4 DEF HaltStep, StopServer, StopBody, JoinThreads, FreeBody, Halted,
                  CloseConnections, history
    <3> QED
      BY <2>1, <3>1
  <2>5. CASE ClientStep
    <3>1. Accepting => async
      BY DEF Accepting
    <3>2. CASE \/ AllowAsyncTransactions
               \/ \E c \in Clients : \/ RollbackTransaction(c)
                                      \/ \E s \in {0} \cup SerialIds : BeginTransaction(c, s)
      BY <2>1, <3>2 DEF AllowAsyncTransactions, RollbackTransaction, BeginTransaction, history
    <3>3. CASE \E c \in Clients : Execute(c) \/ CommitTransaction(c)
      BY <3>1, <3>3, QueuedNotRun DEF Execute, CommitTransaction
    <3>4. CASE \E sort \in Sorts : \/ AsyncQuery(sort)
                                   \/ \E s \in {0} \cup SerialIds : DelayQueryHolder(s, sort)
      BY <3>4, QueuedNotRun DEF AsyncQuery, DelayQueryHolder
    <3> QED
      BY <2>5, <3>2, <3>3, <3>4 DEF ClientStep
  <2> QED
    BY <2>1, <2>3, <2>4, <2>5 DEF Next
<1> QED
  BY <1>1, Invariance, PTL DEF Spec
=============================================================================
