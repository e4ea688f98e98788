-------------------------- MODULE Database_proofs --------------------------
(***************************************************************************)
(* For any number of workers, clients, serial ids and operations: every    *)
(* query that was executed has its callback in one place, callbacks that   *)
(* need the world thread are run in the order their queries were finished, *)
(* the callback threads run only while the world thread is in Update, and  *)
(* a closed database has answered what it accepted, but for what a tick    *)
(* that ran out of time left over.                                         *)
(*                                                                         *)
(* The argument.  Seen without the result queue, a step of the database is *)
(* a step of its delay threads or none, so what SqlDelay_proofs shows of   *)
(* them holds: what a worker has in hand was not executed before, so the   *)
(* callback it adds is new.  From there on every step of Update moves one  *)
(* callback from one place to another (PlacesInv).  The queue is the end   *)
(* of what has arrived; what was drained and needs the world thread waits  *)
(* in the order of its arrival or was run (DrainedInv), so that the head   *)
(* of those waiting is the oldest not run.                                 *)
(***************************************************************************)
EXTENDS Database, SqlDelay_proofs, FiniteSetTheorems

Kinds == {"queue", "waiting", "answers", "batch"}

(* The callback of query n is at position p of the list k.                 *)
At(k, p, n) ==
  \/ k = "queue" /\ p \in DOMAIN queue /\ queue[p].query = n
  \/ k = "waiting" /\ p \in DOMAIN waiting /\ waiting[p].query = n
  \/ k = "answers" /\ p \in DOMAIN answers /\ answers[p].query = n
  \/ k = "batch" /\ p \in Unrun \cup Undrained /\ batch[p].query = n

Answerable(n) == n \in DOMAIN ops /\ IsQuery(n) /\ runs[n] > 0

(* The callback of a query that was executed is in one place, and only it. *)
PlacesInv ==
  /\ \A n \in OpNumbers : Answerable(n) => \E k \in Kinds, p \in Nat : At(k, p, n)
  /\ \A n \in OpNumbers, k \in Kinds, p \in Nat : At(k, p, n) => Answerable(n)
  /\ \A n \in OpNumbers, k, l \in Kinds, p, r \in Nat :
       At(k, p, n) /\ At(l, r, n) => k = l /\ p = r

(* What has arrived was executed, and once.                                *)
ArrivedInv ==
  /\ arrived \in Seq(Results!Callback)
  /\ \A i \in DOMAIN arrived : Answerable(arrived[i].query)
  /\ \A i, j \in DOMAIN arrived : arrived[i].query = arrived[j].query => i = j

(* The callback threads and the world thread.                              *)
PoolInv ==
  /\ CallbacksOnlyInUpdate
  /\ phase = "running" => DOMAIN runCount = DOMAIN batch
  /\ \A p \in DOMAIN runCount : runCount[p] \in {0, 1}
  /\ \A p \in DOMAIN batch : batch[p].safe
  /\ halt # "up" => update = "idle"
  /\ halt = "closed" => queue = <<>>

Drained == 1 .. Len(arrived) - Len(queue)

Answered(cb) == \E q \in DOMAIN answers : answers[q] = cb

Waits(cb) == \E w \in DOMAIN waiting : waiting[w] = cb

(* What is queued arrived last; what was drained waits or was run.         *)
DrainedInv ==
  /\ Len(queue) <= Len(arrived)
  /\ \A i \in DOMAIN queue : queue[i] = arrived[Len(arrived) - Len(queue) + i]
  /\ \A i \in Drained : ~arrived[i].safe => Answered(arrived[i]) \/ Waits(arrived[i])
  /\ \A w \in DOMAIN waiting :
       ~waiting[w].safe /\ \E i \in Drained : arrived[i] = waiting[w]
  /\ \A v, w \in DOMAIN waiting, i, j \in DOMAIN arrived :
       v < w /\ arrived[i] = waiting[v] /\ arrived[j] = waiting[w] => i < j
  /\ \A q \in DOMAIN answers : \E i \in DOMAIN arrived : arrived[i] = answers[q]
  /\ \A p \in DOMAIN batch : \E i \in DOMAIN arrived : arrived[i] = batch[p]

DbIInv ==
  /\ QueueTypeOK
  /\ ArrivedInv
  /\ PoolInv
  /\ PlacesInv
  /\ DrainedInv
  /\ UnsafeInOrder
-----------------------------------------------------------------------------
(* The delay threads, with or without the result queue.                    *)

(* A step of the database is a step of the delay threads or none of theirs.*)
LEMMA DelaySteps == [DbNext]_DbVars => [Next]_vars
<1> SUFFICES ASSUME [DbNext]_DbVars PROVE [Next]_vars
  OBVIOUS
<1>1. CASE UNCHANGED DbVars
  BY <1>1 DEF DbVars
<1>2. CASE DbClientStep
  BY <1>2 DEF DbClientStep, Next
<1>3. CASE \E w \in Bodies : DbWorkerStep(w)
  BY <1>3 DEF DbWorkerStep, FinishOperation, WorkerStep, Next
<1>4. CASE ProcessResultQueue
  BY <1>4 DEF ProcessResultQueue
<1>5. CASE CallbackThreads
  BY <1>5 DEF CallbackThreads
<1>6. CASE DbStopServer
  BY <1>6 DEF DbStopServer, HaltStep, Next
<1>7. CASE HaltDelayThread
  BY <1>7 DEF HaltDelayThread, HaltStep, Next
<1>8. CASE CancelAll
  BY <1>8 DEF CancelAll
<1>9. CASE DbCloseConnections
  BY <1>9 DEF DbCloseConnections, HaltStep, Next
<1> QED
  BY <1>1, <1>2, <1>3, <1>4, <1>5, <1>6, <1>7, <1>8, <1>9 DEF DbNext

(* So the database is an execution of the delay threads.                   *)
LEMMA DatabaseRunsDelay == DbSpec => Spec
<1>1. DbInit => Init
  BY DEF DbInit
<1> QED
  BY <1>1, DelaySteps, PTL DEF DbSpec, Spec

(* What holds of the delay threads holds in the database.                  *)
THEOREM DelayInvariance == DbSpec => []IInv
<1> QED
  BY DatabaseRunsDelay, Invariance, PTL

(* The database with its result queue, whose callbacks hand over further   *)
(* operations while StopServer halts, cancels and closes, is the store     *)
(* that the rest of the server relies on.                                  *)
THEOREM DatabaseImplementsStore == DbSpec => ImplementsAsyncStore
<1> QED
  BY DatabaseRunsDelay, WorkersImplementStore, PTL

(* Handing over answers nothing.                                           *)
LEMMA ClientEffect ==
  ASSUME IInv, IInv', ClientStep
  PROVE  /\ \A n \in OpNumbers : Answerable(n)' <=> Answerable(n)
         /\ halt' = halt
<1>1. TypeOK /\ TypeOK'
  BY DEF IInv
<1>2. ASSUME NEW op \in Operation, NEW r \in {0, 1}, r = 0 \/ op.sort = "write",
             Len(ops) < MaxOps, ops' = Append(ops, op), runs' = Append(runs, r)
      PROVE  \A n \in OpNumbers : Answerable(n)' <=> Answerable(n)
  <2>1. PICK e \in OpNumbers :
          /\ e \notin DOMAIN ops
          /\ DOMAIN ops' = DOMAIN ops \cup {e}
          /\ ops'[e] = op /\ runs'[e] = r
          /\ \A n \in DOMAIN ops : ops'[n] = ops[n] /\ runs'[n] = runs[n]
    BY <1>1, <1>2, HandedOver
  <2>2. ~Answerable(e) /\ ~Answerable(e)'
    BY <1>2, <2>1 DEF Answerable, IsQuery
  <2>3. \A n \in DOMAIN ops : Answerable(n)' <=> Answerable(n)
    BY <2>1 DEF Answerable, IsQuery
  <2>4. \A n \in OpNumbers : n \notin DOMAIN ops' => ~Answerable(n) /\ ~Answerable(n)'
    BY <2>1 DEF Answerable
  <2> QED
    BY <2>1, <2>2, <2>3, <2>4
<1>3. ASSUME UNCHANGED history
      PROVE  \A n \in OpNumbers : Answerable(n)' <=> Answerable(n)
  BY <1>3 DEF history, Answerable, IsQuery
<1>4. CASE AllowAsyncTransactions
  BY <1>3, <1>4 DEF AllowAsyncTransactions, halting
<1>5. ASSUME NEW c \in Clients, Execute(c)
      PROVE  /\ \A n \in OpNumbers : Answerable(n)' <=> Answerable(n)
             /\ halt' = halt
  <2>1. Write(0) \in Operation /\ Write(0).sort = "write"
    BY DEF Write, Operation
  <2>2. Len(ops) < MaxOps /\ halt' = halt
    BY <1>5 DEF Execute, Accepting, halting
  <2>3. \E r \in {0, 1} : ops' = Append(ops, Write(0)) /\ runs' = Append(runs, r)
    BY <1>5 DEF Execute, AddToDelayQueue, DirectExecute
  <2> QED
    BY <1>2, <2>1, <2>2, <2>3
<1>6. ASSUME NEW c \in Clients, CommitTransaction(c)
      PROVE  /\ \A n \in OpNumbers : Answerable(n)' <=> Answerable(n)
             /\ halt' = halt
  <2>1. Write(trans[c]) \in Operation /\ Write(trans[c]).sort = "write"
    BY <1>1, <1>6 DEF Write, Operation, CommitTransaction, TypeOK
  <2>2. Len(ops) < MaxOps /\ halt' = halt
    BY <1>6 DEF CommitTransaction, Accepting, halting
  <2>3. \E r \in {0, 1} : ops' = Append(ops, Write(trans[c])) /\ runs' = Append(runs, r)
    BY <1>6 DEF CommitTransaction, AddToSerialDelayQueue, AddToDelayQueue, DirectExecute
  <2> QED
    BY <1>2, <2>1, <2>2, <2>3
<1>7. ASSUME NEW sort \in Sorts, NEW s \in {0} \cup SerialIds,
             AsyncQuery(sort) \/ DelayQueryHolder(s, sort)
      PROVE  /\ \A n \in OpNumbers : Answerable(n)' <=> Answerable(n)
             /\ halt' = halt
  <2>1. [serial |-> 0, sort |-> sort] \in Operation
    BY DEF Operation
  <2>2. [serial |-> s, sort |-> sort] \in Operation
    BY DEF Operation
  <2>3. Len(ops) < MaxOps /\ halt' = halt
    BY <1>7 DEF AsyncQuery, DelayQueryHolder, Accepting, halting
  <2>4. \E op \in Operation : ops' = Append(ops, op) /\ runs' = Append(runs, 0)
    BY <1>7, <2>1, <2>2
    DEF AsyncQuery, DelayQueryHolder, AddToSerialDelayQueue, AddToDelayQueue
  <2> QED
    BY <1>2, <2>3, <2>4
<1>8. ASSUME NEW c \in Clients, NEW s \in {0} \cup SerialIds,
             BeginTransaction(c, s) \/ RollbackTransaction(c)
      PROVE  /\ \A n \in OpNumbers : Answerable(n)' <=> Answerable(n)
             /\ halt' = halt
  BY <1>3, <1>8 DEF BeginTransaction, RollbackTransaction, halting
<1> QED
  BY <1>4, <1>5, <1>6, <1>7, <1>8 DEF ClientStep
-----------------------------------------------------------------------------
(* What a step does to the places of the callbacks.                        *)

(* Positions are numbers.                                                  *)
LEMMA PositionsAreNumbers ==
  ASSUME QueueTypeOK, ArrivedInv
  PROVE  /\ Len(queue) \in Nat /\ DOMAIN queue = 1 .. Len(queue)
         /\ Len(waiting) \in Nat /\ DOMAIN waiting = 1 .. Len(waiting)
         /\ Len(answers) \in Nat /\ DOMAIN answers = 1 .. Len(answers)
         /\ Len(batch) \in Nat /\ DOMAIN batch = 1 .. Len(batch)
         /\ Len(arrived) \in Nat /\ DOMAIN arrived = 1 .. Len(arrived)
         /\ \A i \in DOMAIN queue : queue[i] \in Results!Callback
         /\ \A i \in DOMAIN waiting : waiting[i] \in Results!Callback
         /\ \A i \in DOMAIN answers : answers[i] \in Results!Callback
         /\ \A i \in DOMAIN batch : batch[i] \in Results!Callback
         /\ \A i \in DOMAIN arrived : arrived[i] \in Results!Callback
BY DEF QueueTypeOK, ArrivedInv

(* A step that neither answers a query nor touches the result queue.       *)
LEMMA QueueUntouched ==
  ASSUME DbIInv, UNCHANGED results,
         \A n \in OpNumbers : Answerable(n)' <=> Answerable(n),
         halt' = "up" => halt = "up",
         halt' # "up" => halt # "up" \/ update = "idle",
         halt' = "closed" => halt = "closed" \/ queue = <<>>
  PROVE  DbIInv'
<1> USE DEF results
<1>1. QueueTypeOK'
  BY DEF DbIInv, QueueTypeOK
<1>2. ArrivedInv'
  <2>1. \A i \in DOMAIN arrived : arrived[i] \in Results!Callback
    BY PositionsAreNumbers DEF DbIInv
  <2>2. \A i \in DOMAIN arrived : arrived[i].query \in OpNumbers
    BY <2>1 DEF Results!Callback
  <2> QED
    BY <2>2 DEF DbIInv, ArrivedInv
<1>3. PoolInv'
  BY DEF DbIInv, PoolInv, CallbacksOnlyInUpdate
<1>4. PlacesInv'
  <2>1. \A n \in OpNumbers, k \in Kinds, p \in Nat : At(k, p, n)' <=> At(k, p, n)
    BY DEF At, Unrun, Undrained
  <2> QED
    BY <2>1 DEF DbIInv, PlacesInv
<1>5. DrainedInv'
  BY DEF DbIInv, DrainedInv, Drained, Answered, Waits
<1>6. UnsafeInOrder'
  BY DEF DbIInv, UnsafeInOrder
<1> QED
  BY <1>1, <1>2, <1>3, <1>4, <1>5, <1>6 DEF DbIInv

(* A query that was executed is new to the result queue.                   *)
LEMMA FinishStep ==
  ASSUME IInv, DbIInv, NEW w \in Bodies, FinishOperation(w)
  PROVE  DbIInv'
<1> DEFINE n0 == hand[w]
           cb == [query |-> n0, safe |-> ops[n0].sort = "safe"]
<1>1. /\ n0 \in OpNumbers /\ n0 \in DOMAIN ops /\ runs[n0] = 0
      /\ halt # "closed"
      /\ runs \in Seq(Nat) /\ DOMAIN runs = DOMAIN ops
  <2>1. n0 # 0 /\ TypeOK /\ HandInv /\ HaltInv
    BY DEF FinishOperation, ExecuteOperation, IInv, OrderInv
  <2>2. Pending(n0) /\ pc[w] \in {"shared", "serial"}
    BY <2>1 DEF HandInv
  <2>3. runs \in Seq(Nat) /\ DOMAIN runs = DOMAIN ops
    BY <2>1 DEF TypeOK
  <2> QED
    BY <2>1, <2>2, <2>3, Zenon DEF HaltInv, Stopped, Pending, TypeOK
<1>2. runs' = [runs EXCEPT ![n0] = 1] /\ ops' = ops /\ halt' = halt
  BY <1>1 DEF FinishOperation, ExecuteOperation, halting
<1>3. CASE ~IsQuery(n0)
  <2>1. UNCHANGED results
    BY <1>3 DEF FinishOperation
  <2>2. \A n \in OpNumbers : Answerable(n)' <=> Answerable(n)
    BY <1>1, <1>2, <1>3 DEF Answerable, IsQuery
  <2> QED
    BY <1>2, <2>1, <2>2, QueueUntouched
<1>4. CASE IsQuery(n0)
  <2>1. /\ queue' = Append(queue, cb) /\ arrived' = Append(arrived, cb)
        /\ UNCHANGED <<waiting, unsafe, batch, phase, runCount, update, answers>>
    BY <1>4 DEF FinishOperation, Results!AddCallback, Results!pool
  <2>2. cb \in Results!Callback
    BY <1>1 DEF Results!Callback
  <2>3. /\ ~Answerable(n0)
        /\ \A n \in OpNumbers : Answerable(n)' <=> Answerable(n) \/ n = n0
    BY <1>1, <1>2, <1>4 DEF Answerable, IsQuery
  <2>4. cb.query = n0
    OBVIOUS
  <2> HIDE DEF cb, n0
  <2>5. /\ Len(queue) \in Nat /\ DOMAIN queue = 1 .. Len(queue)
        /\ Len(queue') = Len(queue) + 1 /\ queue' \in Seq(Results!Callback)
        /\ DOMAIN queue' = 1 .. Len(queue) + 1
        /\ queue'[Len(queue) + 1] = cb
        /\ \A i \in DOMAIN queue : queue'[i] = queue[i]
    BY <2>1, <2>2, AppendTo DEF DbIInv, QueueTypeOK
  <2>6. /\ Len(arrived) \in Nat /\ DOMAIN arrived = 1 .. Len(arrived)
        /\ Len(arrived') = Len(arrived) + 1 /\ arrived' \in Seq(Results!Callback)
        /\ DOMAIN arrived' = 1 .. Len(arrived) + 1
        /\ arrived'[Len(arrived) + 1] = cb
        /\ \A i \in DOMAIN arrived :
             arrived'[i] = arrived[i] /\ arrived[i].query \in OpNumbers
    <3>1. \A i \in DOMAIN arrived : arrived[i] \in Results!Callback
      BY PositionsAreNumbers DEF DbIInv
    <3> QED
      BY <2>1, <2>2, <3>1, AppendTo DEF DbIInv, ArrivedInv, Results!Callback
  <2>7. \A i \in DOMAIN arrived : arrived[i].query # n0
    BY <2>3 DEF DbIInv, ArrivedInv
  <2>8. QueueTypeOK'
    BY <2>1, <2>5 DEF DbIInv, QueueTypeOK
  <2>9. ArrivedInv'
    <3>1. \A i \in DOMAIN arrived' : Answerable(arrived[i].query)'
      <4> SUFFICES ASSUME NEW i \in DOMAIN arrived'
                   PROVE  Answerable(arrived[i].query)'
        OBVIOUS
      <4>1. PICK n \in OpNumbers : /\ n = arrived'[i].query
                                   /\ n = n0 \/ Answerable(n)
        <5>1. CASE i = Len(arrived) + 1
          BY <1>1, <2>4, <2>6, <5>1 DEF n0
        <5>2. CASE i \in DOMAIN arrived
          BY <2>6, <5>2 DEF DbIInv, ArrivedInv
        <5> QED
          BY <2>6, <5>1, <5>2
      <4>2. Answerable(n)'
        BY <2>3, <4>1
      <4> QED
        BY <4>1, <4>2 DEF Answerable
    <3>2. \A i, j \in DOMAIN arrived' :
            arrived'[i].query = arrived'[j].query => i = j
      BY <2>4, <2>6, <2>7 DEF DbIInv, ArrivedInv
    <3> QED
      BY <2>6, <3>1, <3>2 DEF ArrivedInv
  <2>10. PoolInv'
    BY <1>1, <1>2, <2>1 DEF DbIInv, PoolInv, CallbacksOnlyInUpdate
  <2>11. PlacesInv'
    <3>1. \A n \in OpNumbers, k \in Kinds, p \in Nat :
            At(k, p, n)' <=> \/ At(k, p, n)
                             \/ k = "queue" /\ p = Len(queue) + 1 /\ n = n0
      BY <2>1, <2>4, <2>5 DEF At, Unrun, Undrained
    <3>2. \A k \in Kinds, p \in Nat : ~At(k, p, n0)
      BY <1>1, <2>3 DEF DbIInv, PlacesInv
    <3>3. Len(queue) + 1 \in Nat /\ "queue" \in Kinds
      BY <2>5 DEF Kinds
    <3>4. \A n \in OpNumbers :
            Answerable(n)' => \E k \in Kinds, p \in Nat : At(k, p, n)'
      BY <2>3, <3>1, <3>3 DEF DbIInv, PlacesInv
    <3>5. \A n \in OpNumbers, k \in Kinds, p \in Nat :
            At(k, p, n)' => Answerable(n)'
      BY <2>3, <3>1 DEF DbIInv, PlacesInv
    <3>6. \A n \in OpNumbers, k, l \in Kinds, p, r \in Nat :
            At(k, p, n)' /\ At(l, r, n)' => k = l /\ p = r
      BY <3>1, <3>2 DEF DbIInv, PlacesInv
    <3> QED
      BY <3>4, <3>5, <3>6 DEF PlacesInv
  <2>12. DrainedInv'
    <3>1. /\ Len(queue) <= Len(arrived)
          /\ Len(arrived') - Len(queue') = Len(arrived) - Len(queue)
          /\ Drained' = Drained /\ Drained \subseteq DOMAIN arrived
      BY <2>5, <2>6 DEF DbIInv, DrainedInv, Drained
    <3>2. \A i \in DOMAIN queue' :
            queue'[i] = arrived'[Len(arrived') - Len(queue') + i]
      <4> SUFFICES ASSUME NEW i \in DOMAIN queue'
                   PROVE  queue'[i] = arrived'[Len(arrived) - Len(queue) + i]
        BY <3>1
      <4>1. CASE i = Len(queue) + 1
        BY <2>5, <2>6, <4>1
      <4>2. CASE i \in DOMAIN queue
        BY <2>5, <2>6, <3>1, <4>2 DEF DbIInv, DrainedInv
      <4> QED
        BY <2>5, <4>1, <4>2
    <3>3. \A i \in Drained' :
            (~arrived[i].safe => Answered(arrived[i]) \/ Waits(arrived[i]))'
      BY <2>1, <2>6, <3>1 DEF DbIInv, DrainedInv, Answered, Waits
    <3>4. \A v \in DOMAIN waiting' :
            ~waiting'[v].safe /\ \E i \in Drained' : arrived'[i] = waiting'[v]
      BY <2>1, <2>6, <3>1 DEF DbIInv, DrainedInv
    <3>5. \A u, v \in DOMAIN waiting', i, j \in DOMAIN arrived' :
            u < v /\ arrived'[i] = waiting'[u] /\ arrived'[j] = waiting'[v] => i < j
      <4>1. \A v \in DOMAIN waiting : \E i \in DOMAIN arrived : arrived[i] = waiting[v]
        BY <3>1 DEF DbIInv, DrainedInv
      <4>2. \A v \in DOMAIN waiting : waiting[v] # cb
        BY <2>4, <2>7, <4>1
      <4> QED
        BY <2>1, <2>6, <4>2 DEF DbIInv, DrainedInv
    <3>6. \A q \in DOMAIN answers' : \E i \in DOMAIN arrived' : arrived'[i] = answers'[q]
      BY <2>1, <2>6 DEF DbIInv, DrainedInv
    <3>7. \A p \in DOMAIN batch' : \E i \in DOMAIN arrived' : arrived'[i] = batch'[p]
      BY <2>1, <2>6 DEF DbIInv, DrainedInv
    <3> QED
      BY <2>5, <2>6, <3>1, <3>2, <3>3, <3>4, <3>5, <3>6, <3>7 DEF DrainedInv
  <2>13. UnsafeInOrder'
    <3>1. \A q \in DOMAIN answers : answers[q] # cb
      <4>1. \A q \in DOMAIN answers : \E i \in DOMAIN arrived : arrived[i] = answers[q]
        BY DEF DbIInv, DrainedInv
      <4> QED
        BY <2>4, <2>7, <4>1
    <3>2. answers' = answers /\ halt' = halt
      BY <1>2, <2>1
    <3>3. SUFFICES ASSUME halt = "up", NEW i \in DOMAIN arrived', NEW j \in DOMAIN arrived',
                          NEW q \in DOMAIN answers, i < j, ~arrived'[i].safe,
                          ~arrived'[j].safe, answers[q] = arrived'[j]
                   PROVE  \E p \in 1 .. q - 1 : answers[p] = arrived'[i]
      BY <3>2 DEF UnsafeInOrder
    <3>4. j # Len(arrived) + 1
      BY <2>6, <3>1, <3>3
    <3>5. /\ i \in DOMAIN arrived /\ j \in DOMAIN arrived
          /\ arrived'[i] = arrived[i] /\ arrived'[j] = arrived[j]
      BY <2>6, <3>3, <3>4
    <3> QED
      BY <3>3, <3>5 DEF DbIInv, UnsafeInOrder
  <2> QED
    BY <2>8, <2>9, <2>10, <2>11, <2>12, <2>13 DEF DbIInv
<1> QED
  BY <1>3, <1>4, Zenon
-----------------------------------------------------------------------------
(* The steps of Update, of the callback threads and of CancelAll.          *)

(* The place p0 of n0 in the list k0 is given up for p1 in k1; h[k] is by  *)
(* how much the others in k move up.                                       *)
Move(n0, k0, p0, k1, p1, h) ==
  \A n \in OpNumbers, k \in Kinds, p \in Nat :
    At(k, p, n)' <=>
      \/ At(k, p + h[k], n) /\ ~(k = k0 /\ p + h[k] = p0)
      \/ k = k1 /\ p = p1 /\ n = n0

(* A move leaves every callback in one place.                              *)
LEMMA Moved ==
  ASSUME PlacesInv, \A n \in OpNumbers : Answerable(n)' <=> Answerable(n),
         NEW n0 \in OpNumbers, NEW k0 \in Kinds, NEW k1 \in Kinds,
         NEW p0 \in Nat, NEW p1 \in Nat, NEW h \in [Kinds -> {0, 1}],
         At(k0, p0, n0),
         \A n \in OpNumbers, k \in Kinds, p \in Nat : At(k, p, n) => p > 0,
         Move(n0, k0, p0, k1, p1, h)
  PROVE  PlacesInv'
<1> USE DEF Move
<1>1. \A k \in Kinds : h[k] \in {0, 1}
  OBVIOUS
<1>2. ASSUME NEW n \in OpNumbers, Answerable(n)'
      PROVE  \E k \in Kinds, p \in Nat : At(k, p, n)'
  <2>1. CASE n = n0
    BY <2>1
  <2>2. CASE n # n0
    <3>1. PICK k \in Kinds, p \in Nat : At(k, p, n)
      BY <1>2 DEF PlacesInv
    <3>2. ~(k = k0 /\ p = p0)
      <4>1. At(k0, p0, n) => n = n0
        BY DEF At, Kinds
      <4> QED
        BY <2>2, <3>1, <4>1
    <3>3. p - h[k] \in Nat /\ (p - h[k]) + h[k] = p
      BY <1>1, <3>1
    <3> QED
      BY <3>1, <3>2, <3>3
  <2> QED
    BY <2>1, <2>2
<1>3. \A n \in OpNumbers, k \in Kinds, p \in Nat : At(k, p, n)' => Answerable(n)'
  <2>1. \A k \in Kinds, p \in Nat : p + h[k] \in Nat
    BY <1>1
  <2> QED
    BY <2>1 DEF PlacesInv
<1>4. ASSUME NEW n \in OpNumbers, NEW k \in Kinds, NEW l \in Kinds,
             NEW p \in Nat, NEW r \in Nat, At(k, p, n)', At(l, r, n)'
      PROVE  k = l /\ p = r
  <2>1. p + h[k] \in Nat /\ r + h[l] \in Nat
    BY <1>1
  <2>2. \A u \in Kinds, v \in Nat : At(u, v, n0) => u = k0 /\ v = p0
    BY DEF PlacesInv
  <2>3. CASE At(k, p + h[k], n) /\ At(l, r + h[l], n)
    <3>1. k = l /\ p + h[k] = r + h[l]
      BY <2>1, <2>3 DEF PlacesInv
    <3> QED
      BY <1>1, <3>1
  <2>4. CASE n # n0
    BY <1>4, <2>3, <2>4
  <2>5. CASE n = n0
    BY <1>4, <2>1, <2>2, <2>5
  <2> QED
    BY <2>4, <2>5
<1> QED
  BY <1>2, <1>3, <1>4 DEF PlacesInv

(* A step of Update that moves no callback.                                *)
LEMMA NothingMoved ==
  ASSUME DbIInv, UNCHANGED vars, UNCHANGED <<queue, waiting, unsafe, arrived, answers>>,
         \A n \in OpNumbers, p \in Nat : At("batch", p, n)' <=> At("batch", p, n),
         batch' = batch \/ batch' = <<>>,
         phase' \in {"idle", "running", "done"},
         update' \in {"idle", "drain", "unsafe", "wait"},
         PoolInv'
  PROVE  DbIInv'
<1>1. \A n : Answerable(n)' <=> Answerable(n)
  BY DEF Answerable, IsQuery, vars
<1>2. QueueTypeOK'
  <2>1. <<>> \in Seq(Results!Callback)
    OBVIOUS
  <2> QED
    BY <2>1 DEF DbIInv, QueueTypeOK
<1>3. ArrivedInv'
  BY <1>1 DEF DbIInv, ArrivedInv
<1>4. PlacesInv'
  <2>1. \A n \in OpNumbers, k \in Kinds, p \in Nat : At(k, p, n)' <=> At(k, p, n)
    BY DEF At, Kinds
  <2> QED
    BY <1>1, <2>1 DEF DbIInv, PlacesInv
<1>5. DrainedInv'
  BY DEF DbIInv, DrainedInv, Drained, Answered, Waits
<1>6. UnsafeInOrder'
  BY DEF DbIInv, UnsafeInOrder, vars
<1> QED
  BY <1>2, <1>3, <1>4, <1>5, <1>6 DEF DbIInv

(* BeginUpdate: what the last batch held was run.                          *)
LEMMA BeginStep ==
  ASSUME DbIInv, halt = "up", UNCHANGED vars, Results!BeginUpdate
  PROVE  DbIInv'
<1> USE DEF Results!BeginUpdate
<1>1. phase # "running"
  BY DEF DbIInv, PoolInv, CallbacksOnlyInUpdate
<1>2. \A n \in OpNumbers, p \in Nat : At("batch", p, n)' <=> At("batch", p, n)
  BY <1>1 DEF At, Unrun, Undrained
<1>3. PoolInv'
  BY <1>1 DEF DbIInv, PoolInv, CallbacksOnlyInUpdate, vars
<1>4. phase' \in {"idle", "running", "done"}
  BY DEF DbIInv, QueueTypeOK
<1> QED
  BY <1>2, <1>3, <1>4, NothingMoved

(* processWorkload: what was drained is now to be run.                     *)
LEMMA SubmitStep ==
  ASSUME DbIInv, halt = "up", UNCHANGED vars, Results!SubmitBatch
  PROVE  DbIInv'
<1> USE DEF Results!SubmitBatch
<1>1. phase # "running" /\ batch' = batch
  BY DEF DbIInv, PoolInv, CallbacksOnlyInUpdate
<1>2. CASE batch = <<>>
  <2>1. UNCHANGED <<phase, runCount>>
    BY <1>2
  <2>2. \A n \in OpNumbers, p \in Nat : At("batch", p, n)' <=> At("batch", p, n)
    BY <1>1, <1>2, <2>1 DEF At, Unrun, Undrained
  <2>3. PoolInv'
    BY <1>1, <2>1 DEF DbIInv, PoolInv, CallbacksOnlyInUpdate, vars
  <2>4. phase' \in {"idle", "running", "done"}
    BY <2>1 DEF DbIInv, QueueTypeOK
  <2> QED
    BY <1>1, <2>2, <2>3, <2>4, NothingMoved
<1>3. CASE batch # <<>>
  <2>1. /\ phase' = "running" /\ DOMAIN runCount' = DOMAIN batch
        /\ \A p \in DOMAIN batch : runCount'[p] = 0
    <3>1. PICK n \in 1 .. MaxOps : runCount' = [p \in 1 .. n |-> 0]
      BY <1>3 DEF Results!Pool!Submit
    <3> QED
      BY <1>3, <3>1 DEF Results!Pool!Submit
  <2>2. \A n \in OpNumbers, p \in Nat : At("batch", p, n)' <=> At("batch", p, n)
    BY <1>1, <2>1 DEF At, Unrun, Undrained
  <2>3. PoolInv'
    BY <1>1, <2>1 DEF DbIInv, PoolInv, CallbacksOnlyInUpdate, vars
  <2> QED
    BY <1>1, <2>1, <2>2, <2>3, NothingMoved
<1> QED
  BY <1>2, <1>3

(* The world thread goes on, or returns when the pool is done.             *)
LEMMA GoOnStep ==
  ASSUME DbIInv, halt = "up", UNCHANGED vars,
         Results!NoneUnsafe \/ Results!FinishUpdate
  PROVE  DbIInv'
<1> USE DEF Results!NoneUnsafe, Results!FinishUpdate, Results!pool
<1>1. \A n \in OpNumbers, p \in Nat : At("batch", p, n)' <=> At("batch", p, n)
  BY DEF At, Unrun, Undrained
<1>2. PoolInv'
  BY DEF DbIInv, PoolInv, CallbacksOnlyInUpdate, vars
<1>3. phase' \in {"idle", "running", "done"}
  BY DEF DbIInv, QueueTypeOK
<1> QED
  BY <1>1, <1>2, <1>3, NothingMoved

(* The future is resolved when nothing of the batch is left.               *)
LEMMA ResolveStep ==
  ASSUME DbIInv, UNCHANGED vars, Results!ResolveBatch
  PROVE  DbIInv'
<1> USE DEF Results!ResolveBatch, Results!Pool!Resolve
<1>1. update \in {"unsafe", "wait"}
  BY DEF DbIInv, PoolInv, CallbacksOnlyInUpdate
<1>2. \A n \in OpNumbers, p \in Nat : At("batch", p, n)' <=> At("batch", p, n)
  BY <1>1 DEF At, Unrun, Undrained, DbIInv, PoolInv
<1>3. PoolInv'
  BY DEF DbIInv, PoolInv, CallbacksOnlyInUpdate, vars
<1> QED
  BY <1>1, <1>2, <1>3, NothingMoved

(* The head of the queue is the oldest callback that was not drained.      *)
LEMMA HeadOfQueue ==
  ASSUME DbIInv, queue # <<>>
  PROVE  /\ Len(queue) \in Nat \ {0} /\ Len(arrived) \in Nat
         /\ Len(queue) <= Len(arrived)
         /\ DOMAIN queue = 1 .. Len(queue) /\ DOMAIN arrived = 1 .. Len(arrived)
         /\ Tail(queue) \in Seq(Results!Callback)
         /\ Len(Tail(queue)) = Len(queue) - 1
         /\ DOMAIN Tail(queue) = 1 .. Len(queue) - 1
         /\ \A i \in DOMAIN Tail(queue) : Tail(queue)[i] = queue[i + 1]
         /\ Head(queue) = queue[1] /\ Head(queue) \in Results!Callback
         /\ Head(queue).query \in OpNumbers
         /\ Head(queue) = arrived[Len(arrived) - Len(queue) + 1]
<1>1. queue \in Seq(Results!Callback)
  BY DEF DbIInv, QueueTypeOK
<1>2. /\ Len(queue) \in Nat \ {0} /\ DOMAIN queue = 1 .. Len(queue)
      /\ Tail(queue) \in Seq(Results!Callback) /\ Head(queue) \in Results!Callback
      /\ DOMAIN Tail(queue) = 1 .. Len(queue) - 1 /\ Head(queue) = queue[1]
      /\ \A i \in DOMAIN Tail(queue) : Tail(queue)[i] = queue[i + 1]
  BY <1>1, TailOf
<1>3. Len(Tail(queue)) = Len(queue) - 1
  BY <1>1
<1>4. Len(arrived) \in Nat /\ DOMAIN arrived = 1 .. Len(arrived)
  BY DEF DbIInv, ArrivedInv
<1>5. Head(queue).query \in OpNumbers
  BY <1>2 DEF Results!Callback
<1>6. Head(queue) = arrived[Len(arrived) - Len(queue) + 1]
  BY <1>2 DEF DbIInv, DrainedInv
<1> QED
  BY <1>2, <1>3, <1>4, <1>5, <1>6 DEF DbIInv, DrainedInv

(* What the end of the queue is when its head is gone.                     *)
LEMMA QueueShrinks ==
  ASSUME DbIInv, queue # <<>>, queue' = Tail(queue), arrived' = arrived
  PROVE  /\ Len(queue') <= Len(arrived')
         /\ \A i \in DOMAIN queue' :
              queue'[i] = arrived'[Len(arrived') - Len(queue') + i]
         /\ Len(arrived) - Len(queue) + 1 \in DOMAIN arrived
         /\ Drained' = Drained \cup {Len(arrived) - Len(queue) + 1}
         /\ Drained' \subseteq DOMAIN arrived
         /\ \A i \in Drained : i < Len(arrived) - Len(queue) + 1
<1>1. /\ Len(queue) \in Nat \ {0} /\ Len(arrived) \in Nat
      /\ Len(queue) <= Len(arrived)
      /\ DOMAIN queue = 1 .. Len(queue) /\ DOMAIN arrived = 1 .. Len(arrived)
      /\ Len(queue') = Len(queue) - 1 /\ DOMAIN queue' = 1 .. Len(queue) - 1
      /\ \A i \in DOMAIN queue' : queue'[i] = queue[i + 1]
  BY HeadOfQueue
<1>2. ASSUME NEW i \in DOMAIN queue'
      PROVE  queue'[i] = arrived'[Len(arrived') - Len(queue') + i]
  <2>1. i + 1 \in DOMAIN queue
    BY <1>1
  <2>2. queue[i + 1] = arrived[Len(arrived) - Len(queue) + (i + 1)]
    BY <2>1 DEF DbIInv, DrainedInv
  <2>3. Len(arrived') - Len(queue') + i = Len(arrived) - Len(queue) + (i + 1)
    BY <1>1, <2>1
  <2> QED
    BY <1>1, <2>2, <2>3
<1>3. /\ Drained = 1 .. Len(arrived) - Len(queue)
      /\ Drained' = 1 .. Len(arrived) - Len(queue) + 1
  BY <1>1 DEF Drained
<1> QED
  BY <1>1, <1>2, <1>3

(* DrainOne: the head goes to the batch, or behind those that wait.        *)
LEMMA DrainStep ==
  ASSUME DbIInv, halt = "up", UNCHANGED vars, Results!DrainOne
  PROVE  DbIInv'
<1> DEFINE x == Head(queue)
           d == Len(arrived) - Len(queue) + 1
<1>1. /\ update = "drain" /\ queue # <<>> /\ queue' = Tail(queue)
      /\ UNCHANGED <<phase, runCount, update, arrived, answers>>
  BY DEF Results!DrainOne
<1>2. \A n \in OpNumbers : Answerable(n)' <=> Answerable(n)
  BY DEF Answerable, IsQuery, vars
<1>3. phase # "running"
  BY <1>1 DEF DbIInv, PoolInv, CallbacksOnlyInUpdate
<1>4. ArrivedInv'
  BY <1>1, PositionsAreNumbers DEF DbIInv, ArrivedInv, Answerable, IsQuery, vars
<1>5. UnsafeInOrder'
  BY <1>1 DEF DbIInv, UnsafeInOrder, vars
<1>6. /\ x = queue[1] /\ x.query \in OpNumbers /\ x \in Results!Callback
      /\ x = arrived[d]
      /\ DOMAIN queue = 1 .. Len(queue) /\ Len(queue) \in Nat \ {0}
      /\ DOMAIN queue' = 1 .. Len(queue) - 1
      /\ queue' \in Seq(Results!Callback)
      /\ \A i \in DOMAIN queue' : queue'[i] = queue[i + 1]
  BY <1>1, HeadOfQueue
<1>7. /\ Len(queue') <= Len(arrived')
      /\ \A i \in DOMAIN queue' :
           queue'[i] = arrived'[Len(arrived') - Len(queue') + i]
      /\ d \in DOMAIN arrived /\ Drained' = Drained \cup {d}
      /\ Drained' \subseteq DOMAIN arrived /\ \A i \in Drained : i < d
  BY <1>1, QueueShrinks
<1>8. At("queue", 1, x.query)
  BY <1>6 DEF At
<1>9. \A n \in OpNumbers, k \in Kinds, p \in Nat : At(k, p, n) => p > 0
  BY PositionsAreNumbers DEF At, Unrun, Undrained, DbIInv
<1> DEFINE h == [k \in Kinds |-> IF k = "queue" THEN 1 ELSE 0]
<1>10. /\ h \in [Kinds -> {0, 1}] /\ {"queue", "batch", "waiting"} \subseteq Kinds
       /\ h["queue"] = 1 /\ \A k \in Kinds : k # "queue" => h[k] = 0
  BY DEF Kinds
<1> HIDE DEF h
<1>11. CASE x.safe
  <2>1. batch' = Append(batch, x) /\ UNCHANGED <<waiting, unsafe>>
    BY <1>11 DEF Results!DrainOne
  <2> HIDE DEF x, d
  <2>2. /\ Len(batch) \in Nat /\ DOMAIN batch = 1 .. Len(batch)
        /\ batch' \in Seq(Results!Callback)
        /\ DOMAIN batch' = 1 .. Len(batch) + 1 /\ batch'[Len(batch) + 1] = x
        /\ \A p \in DOMAIN batch : batch'[p] = batch[p]
    BY <1>6, <2>1, AppendTo DEF DbIInv, QueueTypeOK
  <2>3. QueueTypeOK'
    BY <1>1, <1>6, <2>1, <2>2 DEF DbIInv, QueueTypeOK
  <2>4. PoolInv'
    <3>1. \A p \in DOMAIN batch' : batch'[p].safe
      BY <1>11, <2>2 DEF DbIInv, PoolInv
    <3> QED
      BY <1>1, <1>3, <3>1 DEF DbIInv, PoolInv, CallbacksOnlyInUpdate, vars
  <2>5. PlacesInv'
    <3>1. Move(x.query, "queue", 1, "batch", Len(batch) + 1, h)
      <4> SUFFICES ASSUME NEW n \in OpNumbers, NEW k \in Kinds, NEW p \in Nat
                   PROVE  At(k, p, n)' <=>
                            \/ At(k, p + h[k], n) /\ ~(k = "queue" /\ p + h[k] = 1)
                            \/ k = "batch" /\ p = Len(batch) + 1 /\ n = x.query
        BY DEF Move
      <4>1. CASE k = "queue"
        BY <1>6, <1>10, <4>1 DEF At
      <4>2. CASE k = "batch"
        BY <1>1, <1>3, <1>10, <2>2, <4>2 DEF At, Unrun, Undrained
      <4>3. CASE k \in {"waiting", "answers"}
        BY <1>1, <1>10, <2>1, <4>3 DEF At
      <4> QED
        BY <4>1, <4>2, <4>3 DEF Kinds
    <3>2. Len(batch) + 1 \in Nat
      BY <2>2
    <3> QED
      BY <1>2, <1>6, <1>8, <1>9, <1>10, <3>1, <3>2, Moved DEF DbIInv
  <2>6. DrainedInv'
    <3>1. \A i \in Drained' :
            (~arrived[i].safe => Answered(arrived[i]) \/ Waits(arrived[i]))'
      BY <1>1, <1>6, <1>7, <1>11, <2>1 DEF DbIInv, DrainedInv, Answered, Waits
    <3>2. \A v \in DOMAIN waiting' :
            ~waiting'[v].safe /\ \E i \in Drained' : arrived'[i] = waiting'[v]
      BY <1>1, <1>7, <2>1 DEF DbIInv, DrainedInv
    <3>3. \A p \in DOMAIN batch' : \E i \in DOMAIN arrived' : arrived'[i] = batch'[p]
      BY <1>1, <1>6, <1>7, <2>2 DEF DbIInv, DrainedInv
    <3> QED
      BY <1>1, <1>7, <2>1, <3>1, <3>2, <3>3 DEF DbIInv, DrainedInv
  <2> QED
    BY <1>4, <1>5, <2>3, <2>4, <2>5, <2>6 DEF DbIInv
<1>12. CASE ~x.safe
  <2>1. waiting' = Append(waiting, x) /\ unsafe' = unsafe + 1 /\ batch' = batch
    BY <1>12 DEF Results!DrainOne
  <2> HIDE DEF x, d
  <2>2. /\ Len(waiting) \in Nat /\ DOMAIN waiting = 1 .. Len(waiting)
        /\ waiting' \in Seq(Results!Callback) /\ Len(waiting') = Len(waiting) + 1
        /\ DOMAIN waiting' = 1 .. Len(waiting) + 1 /\ waiting'[Len(waiting) + 1] = x
        /\ \A v \in DOMAIN waiting : waiting'[v] = waiting[v]
    BY <1>6, <2>1, AppendTo DEF DbIInv, QueueTypeOK
  <2>3. QueueTypeOK'
    BY <1>1, <1>6, <2>1, <2>2 DEF DbIInv, QueueTypeOK
  <2>4. PoolInv'
    BY <1>1, <1>3, <2>1 DEF DbIInv, PoolInv, CallbacksOnlyInUpdate, vars
  <2>5. PlacesInv'
    <3>1. Move(x.query, "queue", 1, "waiting", Len(waiting) + 1, h)
      <4> SUFFICES ASSUME NEW n \in OpNumbers, NEW k \in Kinds, NEW p \in Nat
                   PROVE  At(k, p, n)' <=>
                            \/ At(k, p + h[k], n) /\ ~(k = "queue" /\ p + h[k] = 1)
                            \/ k = "waiting" /\ p = Len(waiting) + 1 /\ n = x.query
        BY DEF Move
      <4>1. CASE k = "queue"
        BY <1>6, <1>10, <4>1 DEF At
      <4>2. CASE k = "waiting"
        BY <1>10, <2>2, <4>2 DEF At
      <4>3. CASE k \in {"batch", "answers"}
        BY <1>1, <1>10, <2>1, <4>3 DEF At, Unrun, Undrained
      <4> QED
        BY <4>1, <4>2, <4>3 DEF Kinds
    <3>2. Len(waiting) + 1 \in Nat
      BY <2>2
    <3> QED
      BY <1>2, <1>6, <1>8, <1>9, <1>10, <3>1, <3>2, Moved DEF DbIInv
  <2>6. DrainedInv'
    <3>1. \A i \in Drained' :
            (~arrived[i].safe => Answered(arrived[i]) \/ Waits(arrived[i]))'
      <4>1. \E v \in DOMAIN waiting' : waiting'[v] = x
        BY <2>2
      <4>2. \A cb : Waits(cb) => Waits(cb)'
        BY <2>2 DEF Waits
      <4>3. ASSUME NEW i, i = d PROVE Waits(arrived[i])'
        BY <1>1, <1>6, <4>1, <4>3 DEF Waits
      <4>4. \A i \in Drained :
              (~arrived[i].safe => Answered(arrived[i]) \/ Waits(arrived[i]))'
        BY <1>1, <4>2 DEF DbIInv, DrainedInv, Answered
      <4> QED
        BY <1>7, <4>3, <4>4
    <3>2. \A v \in DOMAIN waiting' :
            ~waiting'[v].safe /\ \E i \in Drained' : arrived'[i] = waiting'[v]
      BY <1>1, <1>6, <1>7, <1>12, <2>2 DEF DbIInv, DrainedInv
    <3>3. ASSUME NEW u \in DOMAIN waiting', NEW v \in DOMAIN waiting',
                 NEW i \in DOMAIN arrived, NEW j \in DOMAIN arrived,
                 u < v, arrived[i] = waiting'[u], arrived[j] = waiting'[v]
          PROVE  i < j
      <4>1. CASE v \in DOMAIN waiting
        BY <2>2, <3>3, <4>1 DEF DbIInv, DrainedInv
      <4>2. CASE v = Len(waiting) + 1
        <5>1. j = d
          BY <1>6, <1>7, <2>2, <3>3, <4>2 DEF DbIInv, ArrivedInv
        <5>2. u \in DOMAIN waiting /\ waiting'[u] = waiting[u]
          BY <2>2, <3>3, <4>2
        <5>3. PICK l \in Drained : arrived[l] = waiting[u]
          BY <5>2 DEF DbIInv, DrainedInv
        <5>4. l = i
          BY <1>7, <3>3, <5>2, <5>3 DEF DbIInv, ArrivedInv
        <5> QED
          BY <1>7, <5>1, <5>3, <5>4
      <4> QED
        BY <2>2, <4>1, <4>2
    <3>4. \A u, v \in DOMAIN waiting', i, j \in DOMAIN arrived' :
            u < v /\ arrived'[i] = waiting'[u] /\ arrived'[j] = waiting'[v] => i < j
      <4>1. arrived' = arrived
        BY <1>1
      <4> QED
        BY <3>3, <4>1
    <3>5. \A q \in DOMAIN answers' : \E i \in DOMAIN arrived' : arrived'[i] = answers'[q]
      BY <1>1 DEF DbIInv, DrainedInv
    <3>6. \A p \in DOMAIN batch' : \E i \in DOMAIN arrived' : arrived'[i] = batch'[p]
      BY <1>1, <2>1 DEF DbIInv, DrainedInv
    <3> QED
      BY <1>7, <3>1, <3>2, <3>4, <3>5, <3>6 DEF DrainedInv
  <2> QED
    BY <1>4, <1>5, <2>3, <2>4, <2>5, <2>6 DEF DbIInv
<1> QED
  BY <1>11, <1>12

(* What the world thread runs next is the oldest of those that wait.       *)
LEMMA RunUnsafeStep ==
  ASSUME DbIInv, halt = "up", UNCHANGED vars, Results!RunUnsafe
  PROVE  DbIInv'
<1> DEFINE x == Head(waiting)
<1>1. /\ waiting # <<>> /\ update = "unsafe" /\ update' \in {"unsafe", "wait"}
      /\ answers' = Append(answers, x) /\ waiting' = Tail(waiting)
      /\ unsafe' = unsafe - 1
      /\ UNCHANGED <<queue, batch, phase, runCount, arrived>>
  BY DEF Results!RunUnsafe, Results!pool
<1>2. \A n \in OpNumbers : Answerable(n)' <=> Answerable(n)
  BY DEF Answerable, IsQuery, vars
<1>3. /\ Len(waiting) \in Nat \ {0} /\ DOMAIN waiting = 1 .. Len(waiting)
      /\ waiting' \in Seq(Results!Callback) /\ x \in Results!Callback
      /\ Len(waiting') = Len(waiting) - 1
      /\ DOMAIN waiting' = 1 .. Len(waiting) - 1 /\ x = waiting[1]
      /\ \A v \in DOMAIN waiting' : waiting'[v] = waiting[v + 1]
  <2>1. waiting \in Seq(Results!Callback)
    BY DEF DbIInv, QueueTypeOK
  <2>2. Len(Tail(waiting)) = Len(waiting) - 1
    BY <1>1, <2>1
  <2> QED
    BY <1>1, <2>1, <2>2, TailOf
<1>4. x.query \in OpNumbers
  BY <1>3 DEF Results!Callback
<1> HIDE DEF x
<1>5. /\ Len(answers) \in Nat /\ DOMAIN answers = 1 .. Len(answers)
      /\ answers' \in Seq(Results!Callback)
      /\ DOMAIN answers' = 1 .. Len(answers) + 1 /\ answers'[Len(answers) + 1] = x
      /\ \A q \in DOMAIN answers : answers'[q] = answers[q]
  BY <1>1, <1>3, AppendTo DEF DbIInv, QueueTypeOK
<1>6. QueueTypeOK'
  BY <1>1, <1>3, <1>5 DEF DbIInv, QueueTypeOK
<1>7. ArrivedInv'
  BY <1>1, PositionsAreNumbers DEF DbIInv, ArrivedInv, Answerable, IsQuery, vars
<1>8. PoolInv'
  BY <1>1 DEF DbIInv, PoolInv, CallbacksOnlyInUpdate, vars
<1>9. PlacesInv'
  <2> DEFINE h == [k \in Kinds |-> IF k = "waiting" THEN 1 ELSE 0]
  <2>1. /\ h \in [Kinds -> {0, 1}] /\ {"waiting", "answers"} \subseteq Kinds
        /\ h["waiting"] = 1 /\ \A k \in Kinds : k # "waiting" => h[k] = 0
    BY DEF Kinds
  <2> HIDE DEF h
  <2>2. At("waiting", 1, x.query)
    BY <1>3 DEF At
  <2>3. \A n \in OpNumbers, k \in Kinds, p \in Nat : At(k, p, n) => p > 0
    BY PositionsAreNumbers DEF At, Unrun, Undrained, DbIInv
  <2>4. Move(x.query, "waiting", 1, "answers", Len(answers) + 1, h)
    <3> SUFFICES ASSUME NEW n \in OpNumbers, NEW k \in Kinds, NEW p \in Nat
                 PROVE  At(k, p, n)' <=>
                          \/ At(k, p + h[k], n) /\ ~(k = "waiting" /\ p + h[k] = 1)
                          \/ k = "answers" /\ p = Len(answers) + 1 /\ n = x.query
      BY DEF Move
    <3>1. CASE k = "waiting"
      <4>1. h[k] = 1 /\ (p + 1 = 1 <=> p = 0)
        BY <2>1, <3>1
      <4>2. At("waiting", p, n)' <=> p \in DOMAIN waiting' /\ waiting'[p].query = n
        BY DEF At
      <4>3. At("waiting", p + 1, n) <=> p + 1 \in DOMAIN waiting /\ waiting[p + 1].query = n
        BY DEF At
      <4>4. p \in DOMAIN waiting' <=> p + 1 \in DOMAIN waiting /\ p # 0
        BY <1>3
      <4>5. p \in DOMAIN waiting' => waiting'[p] = waiting[p + 1]
        BY <1>3
      <4>6. At("waiting", p, n)' <=> At("waiting", p + 1, n) /\ p # 0
        BY <4>2, <4>3, <4>4, <4>5
      <4> QED
        BY <3>1, <4>1, <4>6
    <3>2. CASE k = "answers"
      BY <1>5, <2>1, <3>2 DEF At
    <3>3. CASE k \in {"queue", "batch"}
      BY <1>1, <2>1, <3>3 DEF At, Unrun, Undrained
    <3> QED
      BY <3>1, <3>2, <3>3 DEF Kinds
  <2>5. Len(answers) + 1 \in Nat
    BY <1>5
  <2> QED
    BY <1>2, <1>4, <2>1, <2>2, <2>3, <2>4, <2>5, Moved DEF DbIInv
<1>10. DrainedInv'
  <2>1. Drained' = Drained
    BY <1>1 DEF Drained
  <2>2. ASSUME NEW i \in Drained, ~arrived[i].safe
        PROVE  (Answered(arrived[i]) \/ Waits(arrived[i]))'
    <3>1. Answered(arrived[i]) \/ Waits(arrived[i])
      BY <2>2 DEF DbIInv, DrainedInv
    <3>2. CASE Answered(arrived[i])
      BY <1>1, <1>5, <3>2 DEF Answered
    <3>3. CASE Waits(arrived[i])
      <4>1. PICK v \in DOMAIN waiting : waiting[v] = arrived[i]
        BY <3>3 DEF Waits
      <4>2. CASE v = 1
        <5>1. Len(answers) + 1 \in DOMAIN answers'
          BY <1>5
        <5> QED
          BY <1>1, <1>3, <1>5, <4>1, <4>2, <5>1 DEF Answered
      <4>3. CASE v # 1
        <5>1. v - 1 \in DOMAIN waiting' /\ waiting'[v - 1] = arrived[i]
          BY <1>3, <4>1, <4>3
        <5> QED
          BY <1>1, <5>1 DEF Waits
      <4> QED
        BY <4>2, <4>3
    <3> QED
      BY <3>1, <3>2, <3>3
  <2>3. \A v \in DOMAIN waiting' :
          ~waiting'[v].safe /\ \E i \in Drained' : arrived'[i] = waiting'[v]
    <3> SUFFICES ASSUME NEW v \in DOMAIN waiting'
                 PROVE  ~waiting'[v].safe /\ \E i \in Drained : arrived[i] = waiting'[v]
      BY <1>1, <2>1
    <3>1. v + 1 \in DOMAIN waiting /\ waiting'[v] = waiting[v + 1]
      BY <1>3
    <3> QED
      BY <3>1 DEF DbIInv, DrainedInv
  <2>4. ASSUME NEW u \in DOMAIN waiting', NEW v \in DOMAIN waiting',
               NEW i \in DOMAIN arrived, NEW j \in DOMAIN arrived,
               u < v, arrived[i] = waiting'[u], arrived[j] = waiting'[v]
        PROVE  i < j
    <3>1. /\ u + 1 \in DOMAIN waiting /\ v + 1 \in DOMAIN waiting /\ u + 1 < v + 1
          /\ waiting'[u] = waiting[u + 1] /\ waiting'[v] = waiting[v + 1]
      BY <1>3, <2>4
    <3> QED
      BY <2>4, <3>1 DEF DbIInv, DrainedInv
  <2>5. \A q \in DOMAIN answers' : \E i \in DOMAIN arrived : arrived[i] = answers'[q]
    <3>1. \E i \in DOMAIN arrived : arrived[i] = x
      <4>1. Drained \subseteq DOMAIN arrived
        BY PositionsAreNumbers DEF DbIInv, DrainedInv, Drained
      <4> QED
        BY <1>3, <4>1 DEF DbIInv, DrainedInv
    <3> QED
      BY <1>5, <3>1 DEF DbIInv, DrainedInv
  <2> QED
    BY <1>1, <2>1, <2>2, <2>3, <2>4, <2>5 DEF DbIInv, DrainedInv
<1>11. UnsafeInOrder'
  <2> SUFFICES ASSUME NEW i \in DOMAIN arrived, NEW j \in DOMAIN arrived,
                      NEW q \in DOMAIN answers', i < j, ~arrived[i].safe,
                      ~arrived[j].safe, answers'[q] = arrived[j]
               PROVE  \E p \in 1 .. q - 1 : answers'[p] = arrived[i]
    BY <1>1 DEF UnsafeInOrder
  <2>1. CASE q \in DOMAIN answers
    <3>1. PICK p \in 1 .. q - 1 : answers[p] = arrived[i]
      BY <1>5, <2>1 DEF DbIInv, UnsafeInOrder
    <3> QED
      BY <1>5, <2>1, <3>1
  <2>2. CASE q = Len(answers) + 1
    <3>1. waiting[1] = arrived[j] /\ 1 \in DOMAIN waiting
      BY <1>3, <1>5, <2>2
    <3>2. PICK l \in Drained : arrived[l] = waiting[1]
      BY <3>1 DEF DbIInv, DrainedInv
    <3>3. l \in DOMAIN arrived
      BY PositionsAreNumbers DEF DbIInv, DrainedInv, Drained
    <3>4. l = j
      BY <3>1, <3>2, <3>3 DEF DbIInv, ArrivedInv
    <3>5. i \in Drained
      BY <3>3, <3>4, PositionsAreNumbers DEF DbIInv, Drained
    <3>6. ~Waits(arrived[i])
      <4> SUFFICES ASSUME NEW v \in DOMAIN waiting, waiting[v] = arrived[i]
                   PROVE  FALSE
        BY DEF Waits
      <4>1. CASE v = 1
        BY <3>1, <4>1, PositionsAreNumbers DEF DbIInv, ArrivedInv
      <4>2. CASE 1 < v
        <5>1. j < i
          BY <3>1, <4>2 DEF DbIInv, DrainedInv
        <5> QED
          BY <5>1, PositionsAreNumbers DEF DbIInv
      <4> QED
        BY <1>3, <4>1, <4>2
    <3>7. PICK p \in DOMAIN answers : answers[p] = arrived[i]
      BY <3>5, <3>6 DEF DbIInv, DrainedInv, Answered
    <3> QED
      BY <1>5, <2>2, <3>7
  <2> QED
    BY <1>5, <2>1, <2>2
<1> QED
  BY <1>6, <1>7, <1>8, <1>9, <1>10, <1>11 DEF DbIInv

(* A callback thread runs a callback of the batch that was not run.        *)
LEMMA RunSafeStep ==
  ASSUME DbIInv, UNCHANGED vars, Results!RunSafe
  PROVE  DbIInv'
<1>1. PICK p0 \in DOMAIN runCount :
        /\ phase = "running" /\ phase' = phase /\ runCount[p0] = 0
        /\ runCount' = [runCount EXCEPT ![p0] = 1]
        /\ p0 \in DOMAIN batch /\ answers' = Append(answers, batch[p0])
        /\ UNCHANGED <<queue, waiting, unsafe, batch, update, arrived>>
  <2>1. PICK p0 \in DOMAIN runCount :
          runCount[p0] = 0 /\ runCount' = [runCount EXCEPT ![p0] = 1]
    BY DEF Results!RunSafe, Results!Pool!RunJob
  <2>2. PICK p1 \in DOMAIN batch :
          runCount'[p1] # runCount[p1] /\ answers' = Append(answers, batch[p1])
    BY DEF Results!RunSafe
  <2>3. phase = "running" /\ phase' = phase /\ DOMAIN runCount = DOMAIN batch
    BY DEF Results!RunSafe, Results!Pool!RunJob, DbIInv, PoolInv
  <2>4. p1 = p0
    BY <2>1, <2>2, <2>3
  <2> QED
    BY <2>1, <2>2, <2>3, <2>4 DEF Results!RunSafe
<1> DEFINE x == batch[p0]
<1>2. /\ update \in {"unsafe", "wait"} /\ DOMAIN runCount = DOMAIN batch
      /\ DOMAIN batch = 1 .. Len(batch) /\ Len(batch) \in Nat /\ p0 \in Nat
      /\ x \in Results!Callback /\ x.query \in OpNumbers /\ x.safe
  <2>1. x \in Results!Callback /\ DOMAIN batch = 1 .. Len(batch) /\ Len(batch) \in Nat
    BY <1>1, PositionsAreNumbers DEF DbIInv
  <2> QED
    BY <1>1, <2>1 DEF DbIInv, PoolInv, CallbacksOnlyInUpdate, Results!Callback
<1>3. \A n \in OpNumbers : Answerable(n)' <=> Answerable(n)
  BY DEF Answerable, IsQuery, vars
<1> HIDE DEF x
<1>4. /\ Len(answers) \in Nat /\ DOMAIN answers = 1 .. Len(answers)
      /\ answers' \in Seq(Results!Callback)
      /\ DOMAIN answers' = 1 .. Len(answers) + 1 /\ answers'[Len(answers) + 1] = x
      /\ \A q \in DOMAIN answers : answers'[q] = answers[q]
  BY <1>1, <1>2, AppendTo DEF DbIInv, QueueTypeOK, x
<1>5. QueueTypeOK'
  BY <1>1, <1>4 DEF DbIInv, QueueTypeOK
<1>6. ArrivedInv'
  BY <1>1, PositionsAreNumbers DEF DbIInv, ArrivedInv, Answerable, IsQuery, vars
<1>7. PoolInv'
  <2>1. DOMAIN runCount' = DOMAIN runCount /\ \A p \in DOMAIN runCount' : runCount'[p] \in {0, 1}
    BY <1>1 DEF DbIInv, PoolInv
  <2> QED
    BY <1>1, <2>1 DEF DbIInv, PoolInv, CallbacksOnlyInUpdate, vars
<1>8. PlacesInv'
  <2> DEFINE h == [k \in Kinds |-> 0]
  <2>1. /\ h \in [Kinds -> {0, 1}] /\ {"batch", "answers"} \subseteq Kinds
        /\ \A k \in Kinds : h[k] = 0
    BY DEF Kinds
  <2> HIDE DEF h
  <2>2. At("batch", p0, x.query)
    BY <1>1 DEF At, Unrun, x
  <2>3. \A n \in OpNumbers, k \in Kinds, p \in Nat : At(k, p, n) => p > 0
    BY PositionsAreNumbers DEF At, Unrun, Undrained, DbIInv
  <2>4. Move(x.query, "batch", p0, "answers", Len(answers) + 1, h)
    <3> SUFFICES ASSUME NEW n \in OpNumbers, NEW k \in Kinds, NEW p \in Nat
                 PROVE  At(k, p, n)' <=>
                          \/ At(k, p, n) /\ ~(k = "batch" /\ p = p0)
                          \/ k = "answers" /\ p = Len(answers) + 1 /\ n = x.query
      BY <2>1 DEF Move
    <3>1. CASE k = "batch"
      BY <1>1, <1>2, <3>1 DEF At, Unrun, Undrained
    <3>2. CASE k = "answers"
      BY <1>4, <3>2 DEF At
    <3>3. CASE k \in {"queue", "waiting"}
      BY <1>1, <3>3 DEF At
    <3> QED
      BY <3>1, <3>2, <3>3 DEF Kinds
  <2>5. Len(answers) + 1 \in Nat
    BY <1>4
  <2> QED
    BY <1>2, <1>3, <2>1, <2>2, <2>3, <2>4, <2>5, Moved DEF DbIInv
<1>9. DrainedInv'
  <2>1. Drained' = Drained
    BY <1>1 DEF Drained
  <2>2. \A cb : Answered(cb) => Answered(cb)'
    BY <1>4 DEF Answered
  <2>3. \A i \in Drained :
          (~arrived[i].safe => Answered(arrived[i]) \/ Waits(arrived[i]))'
    BY <1>1, <2>2 DEF DbIInv, DrainedInv, Waits
  <2>4. \A q \in DOMAIN answers' : \E i \in DOMAIN arrived : arrived[i] = answers'[q]
    BY <1>1, <1>4 DEF DbIInv, DrainedInv, x
  <2> QED
    BY <1>1, <2>1, <2>3, <2>4 DEF DbIInv, DrainedInv
<1>10. UnsafeInOrder'
  <2> SUFFICES ASSUME halt = "up", NEW i \in DOMAIN arrived, NEW j \in DOMAIN arrived,
                      NEW q \in DOMAIN answers', i < j, ~arrived[i].safe,
                      ~arrived[j].safe, answers'[q] = arrived[j]
               PROVE  \E p \in 1 .. q - 1 : answers'[p] = arrived[i]
    BY <1>1 DEF UnsafeInOrder, vars
  <2>1. q \in DOMAIN answers
    BY <1>2, <1>4
  <2>2. PICK p \in 1 .. q - 1 : answers[p] = arrived[i]
    BY <1>4, <2>1 DEF DbIInv, UnsafeInOrder
  <2> QED
    BY <1>4, <2>1, <2>2
<1> QED
  BY <1>5, <1>6, <1>7, <1>8, <1>9, <1>10 DEF DbIInv

(* CancelAll runs the head of the queue.                                   *)
LEMMA CancelStep ==
  ASSUME DbIInv, halt = "halted", UNCHANGED vars, Results!CancelOne
  PROVE  DbIInv'
<1> DEFINE x == Head(queue)
           d == Len(arrived) - Len(queue) + 1
<1>1. /\ queue # <<>> /\ queue' = Tail(queue) /\ answers' = Append(answers, x)
      /\ UNCHANGED <<waiting, unsafe, batch, phase, runCount, update, arrived>>
  BY DEF Results!CancelOne, Results!pool
<1>2. \A n \in OpNumbers : Answerable(n)' <=> Answerable(n)
  BY DEF Answerable, IsQuery, vars
<1>3. /\ x = queue[1] /\ x.query \in OpNumbers /\ x \in Results!Callback
      /\ x = arrived[d]
      /\ DOMAIN queue = 1 .. Len(queue) /\ Len(queue) \in Nat \ {0}
      /\ DOMAIN queue' = 1 .. Len(queue) - 1
      /\ queue' \in Seq(Results!Callback)
      /\ \A i \in DOMAIN queue' : queue'[i] = queue[i + 1]
  BY <1>1, HeadOfQueue
<1>4. /\ Len(queue') <= Len(arrived')
      /\ \A i \in DOMAIN queue' :
           queue'[i] = arrived'[Len(arrived') - Len(queue') + i]
      /\ d \in DOMAIN arrived /\ Drained' = Drained \cup {d}
      /\ Drained' \subseteq DOMAIN arrived
  BY <1>1, QueueShrinks
<1> HIDE DEF x, d
<1>5. /\ Len(answers) \in Nat /\ DOMAIN answers = 1 .. Len(answers)
      /\ answers' \in Seq(Results!Callback)
      /\ DOMAIN answers' = 1 .. Len(answers) + 1 /\ answers'[Len(answers) + 1] = x
      /\ \A q \in DOMAIN answers : answers'[q] = answers[q]
  BY <1>1, <1>3, AppendTo DEF DbIInv, QueueTypeOK
<1>6. QueueTypeOK'
  BY <1>1, <1>3, <1>5 DEF DbIInv, QueueTypeOK
<1>7. ArrivedInv'
  BY <1>1, PositionsAreNumbers DEF DbIInv, ArrivedInv, Answerable, IsQuery, vars
<1>8. PoolInv'
  BY <1>1 DEF DbIInv, PoolInv, CallbacksOnlyInUpdate, vars
<1>9. PlacesInv'
  <2> DEFINE h == [k \in Kinds |-> IF k = "queue" THEN 1 ELSE 0]
  <2>1. /\ h \in [Kinds -> {0, 1}] /\ {"queue", "answers"} \subseteq Kinds
        /\ h["queue"] = 1 /\ \A k \in Kinds : k # "queue" => h[k] = 0
    BY DEF Kinds
  <2> HIDE DEF h
  <2>2. At("queue", 1, x.query)
    BY <1>3 DEF At
  <2>3. \A n \in OpNumbers, k \in Kinds, p \in Nat : At(k, p, n) => p > 0
    BY PositionsAreNumbers DEF At, Unrun, Undrained, DbIInv
  <2>4. Move(x.query, "queue", 1, "answers", Len(answers) + 1, h)
    <3> SUFFICES ASSUME NEW n \in OpNumbers, NEW k \in Kinds, NEW p \in Nat
                 PROVE  At(k, p, n)' <=>
                          \/ At(k, p + h[k], n) /\ ~(k = "queue" /\ p + h[k] = 1)
                          \/ k = "answers" /\ p = Len(answers) + 1 /\ n = x.query
      BY DEF Move
    <3>1. CASE k = "queue"
      <4>1. h[k] = 1 /\ (p + 1 = 1 <=> p = 0)
        BY <2>1, <3>1
      <4>2. At("queue", p, n)' <=> p \in DOMAIN queue' /\ queue'[p].query = n
        BY DEF At
      <4>3. At("queue", p + 1, n) <=> p + 1 \in DOMAIN queue /\ queue[p + 1].query = n
        BY DEF At
      <4>4. p \in DOMAIN queue' <=> p + 1 \in DOMAIN queue /\ p # 0
        BY <1>3
      <4>5. p \in DOMAIN queue' => queue'[p] = queue[p + 1]
        BY <1>3
      <4>6. At("queue", p, n)' <=> At("queue", p + 1, n) /\ p # 0
        BY <4>2, <4>3, <4>4, <4>5
      <4> QED
        BY <3>1, <4>1, <4>6
    <3>2. CASE k = "answers"
      BY <1>5, <2>1, <3>2 DEF At
    <3>3. CASE k \in {"waiting", "batch"}
      BY <1>1, <2>1, <3>3 DEF At, Unrun, Undrained
    <3> QED
      BY <3>1, <3>2, <3>3 DEF Kinds
  <2>5. Len(answers) + 1 \in Nat
    BY <1>5
  <2> QED
    BY <1>2, <1>3, <2>1, <2>2, <2>3, <2>4, <2>5, Moved DEF DbIInv
<1>10. DrainedInv'
  <2>1. \A cb : Answered(cb) => Answered(cb)'
    BY <1>5 DEF Answered
  <2>2. ASSUME NEW i, i = d PROVE Answered(arrived[i])'
    <3>1. Len(answers) + 1 \in DOMAIN answers'
      BY <1>5
    <3> QED
      BY <1>1, <1>3, <1>5, <2>2, <3>1 DEF Answered
  <2>3. \A i \in Drained :
          (~arrived[i].safe => Answered(arrived[i]) \/ Waits(arrived[i]))'
    BY <1>1, <2>1 DEF DbIInv, DrainedInv, Waits
  <2>4. \A i \in Drained' :
          (~arrived[i].safe => Answered(arrived[i]) \/ Waits(arrived[i]))'
    BY <1>4, <2>2, <2>3
  <2>5. \A v \in DOMAIN waiting' :
          ~waiting'[v].safe /\ \E i \in Drained' : arrived'[i] = waiting'[v]
    BY <1>1, <1>4 DEF DbIInv, DrainedInv
  <2>6. \A q \in DOMAIN answers' : \E i \in DOMAIN arrived : arrived[i] = answers'[q]
    BY <1>3, <1>4, <1>5 DEF DbIInv, DrainedInv
  <2> QED
    BY <1>1, <1>4, <2>4, <2>5, <2>6 DEF DbIInv, DrainedInv
<1>11. UnsafeInOrder'
  BY DEF UnsafeInOrder, vars
<1> QED
  BY <1>6, <1>7, <1>8, <1>9, <1>10, <1>11 DEF DbIInv

-----------------------------------------------------------------------------
(* The theorems.                                                           *)

(* The invariant holds at first.                                           *)
LEMMA DbStart == DbInit => DbIInv
<1> SUFFICES ASSUME DbInit PROVE DbIInv
  OBVIOUS
<1> USE DEF DbInit, Init, Results!Init, Results!Pool!Init
<1>1. <<>> \in Seq(Results!Callback) /\ Len(<<>>) = 0
  OBVIOUS
<1>2. QueueTypeOK
  BY <1>1 DEF QueueTypeOK
<1>3. ArrivedInv
  BY <1>1 DEF ArrivedInv
<1>4. PoolInv
  BY DEF PoolInv, CallbacksOnlyInUpdate
<1>5. PlacesInv
  <2>1. \A n \in OpNumbers : ~Answerable(n)
    BY DEF Answerable
  <2>2. \A n \in OpNumbers, k \in Kinds, p \in Nat : ~At(k, p, n)
    BY DEF At, Unrun, Undrained
  <2> QED
    BY <2>1, <2>2 DEF PlacesInv
<1>6. DrainedInv
  BY DEF DrainedInv, Drained
<1>7. UnsafeInOrder
  BY DEF UnsafeInOrder
<1> QED
  BY <1>2, <1>3, <1>4, <1>5, <1>6, <1>7 DEF DbIInv

(* Every step keeps it.                                                    *)
LEMMA DbStep ==
  ASSUME IInv, IInv', DbIInv, [DbNext]_DbVars
  PROVE  DbIInv'
<1>1. ASSUME UNCHANGED history
      PROVE  \A n \in OpNumbers : Answerable(n)' <=> Answerable(n)
  BY <1>1 DEF history, Answerable, IsQuery
<1>2. CASE UNCHANGED DbVars
  BY <1>1, <1>2, QueueUntouched DEF DbVars, vars, history
<1>3. CASE DbClientStep
  BY <1>3, ClientEffect, QueueUntouched DEF DbClientStep
<1>4. CASE \E w \in Bodies : DbWorkerStep(w)
  <2>1. PICK w \in Bodies : DbWorkerStep(w)
    BY <1>4
  <2>2. CASE FinishOperation(w)
    BY <2>2, FinishStep
  <2>3. CASE /\ Loop(w) \/ NextDelayedOperation(w) \/ NextSerialOperation(w)
             /\ UNCHANGED results
    <3>1. UNCHANGED history /\ halt' = halt
      BY <2>3 DEF Loop, NextDelayedOperation, NextSerialOperation, halting
    <3> QED
      BY <1>1, <2>3, <3>1, QueueUntouched
  <2> QED
    BY <2>1, <2>2, <2>3 DEF DbWorkerStep
<1>5. CASE ProcessResultQueue
  BY <1>5, BeginStep, DrainStep, SubmitStep, RunUnsafeStep, GoOnStep
  DEF ProcessResultQueue, Results!UpdateStep
<1>6. CASE CallbackThreads
  BY <1>6, RunSafeStep, ResolveStep DEF CallbackThreads, Results!PoolStep
<1>7. CASE DbStopServer
  BY <1>1, <1>7, QueueUntouched DEF DbStopServer, StopServer
<1>8. CASE HaltDelayThread
  <2>1. UNCHANGED history /\ UNCHANGED results /\ halt # "up" /\ halt' # "closed" /\ halt' # "up"
    BY <1>8 DEF HaltDelayThread, StopBody, JoinThreads, FreeBody, Halted
  <2> QED
    BY <1>1, <2>1, QueueUntouched
<1>9. CASE CancelAll
  BY <1>9, CancelStep DEF CancelAll
<1>10. CASE DbCloseConnections
  BY <1>1, <1>10, QueueUntouched DEF DbCloseConnections, CloseConnections
<1> QED
  BY <1>2, <1>3, <1>4, <1>5, <1>6, <1>7, <1>8, <1>9, <1>10 DEF DbNext

(* The invariant of the result queue.                                      *)
THEOREM DbInvariance == DbSpec => []DbIInv
<1>1. IInv /\ IInv' /\ DbIInv /\ [DbNext]_DbVars => DbIInv'
  BY DbStep
<1> QED
  BY <1>1, DbStart, DelayInvariance, PTL DEF DbSpec

(* The result queue's variables keep their types, and numUnsafeQueries is  *)
(* the number of callbacks that wait for the world thread.                 *)
THEOREM QueueTypeCorrect == DbSpec => []QueueTypeOK
<1>1. DbIInv => QueueTypeOK
  BY DEF DbIInv
<1> QED
  BY <1>1, DbInvariance, PTL

(* SqlResultQueue::Update waits for its pool before it returns.            *)
THEOREM CallbacksKeptInUpdate == DbSpec => []CallbacksOnlyInUpdate
<1>1. DbIInv => CallbacksOnlyInUpdate
  BY DEF DbIInv, PoolInv
<1> QED
  BY <1>1, DbInvariance, PTL

(* Callbacks that need the world thread are run in the order in which      *)
(* their queries were finished, whatever ticks run out of time.            *)
THEOREM UnsafeKeptInOrder == DbSpec => []UnsafeInOrder
<1>1. DbIInv => UnsafeInOrder
  BY DEF DbIInv
<1> QED
  BY <1>1, DbInvariance, PTL

(* A pair of Whereabouts is a place, and a place a pair.                   *)
LEMMA PlacesOf ==
  ASSUME DbIInv, NEW n
  PROVE  /\ \A k \in Kinds, p \in Nat : At(k, p, n) => <<k, p>> \in Whereabouts(n)
         /\ \A x \in Whereabouts(n) :
              \E k \in Kinds, p \in Nat : x = <<k, p>> /\ At(k, p, n)
<1>1. ASSUME NEW k \in Kinds, NEW p \in Nat, At(k, p, n)
      PROVE  <<k, p>> \in Whereabouts(n)
  BY <1>1 DEF At, Whereabouts, Places
<1>2. ASSUME NEW x \in Whereabouts(n)
      PROVE  \E k \in Kinds, p \in Nat : x = <<k, p>> /\ At(k, p, n)
  <2> DEFINE B == {p \in Unrun \cup Undrained : batch[p].query = n}
  <2>1. /\ Places(queue, n) \subseteq Nat /\ Places(waiting, n) \subseteq Nat
        /\ Places(answers, n) \subseteq Nat /\ B \subseteq Nat
    BY PositionsAreNumbers DEF DbIInv, Places, Unrun, Undrained
  <2>2. CASE x \in {"queue"} \X Places(queue, n)
    <3>1. PICK p \in Places(queue, n) : x = <<"queue", p>>
      BY <2>2
    <3> QED
      BY <2>1, <3>1 DEF At, Kinds, Places
  <2>3. CASE x \in {"waiting"} \X Places(waiting, n)
    <3>1. PICK p \in Places(waiting, n) : x = <<"waiting", p>>
      BY <2>3
    <3> QED
      BY <2>1, <3>1 DEF At, Kinds, Places
  <2>4. CASE x \in {"answers"} \X Places(answers, n)
    <3>1. PICK p \in Places(answers, n) : x = <<"answers", p>>
      BY <2>4
    <3> QED
      BY <2>1, <3>1 DEF At, Kinds, Places
  <2>5. CASE x \in {"batch"} \X B
    <3>1. PICK p \in B : x = <<"batch", p>>
      BY <2>5
    <3> QED
      BY <2>1, <3>1 DEF At, Kinds
  <2> QED
    BY <1>2, <2>2, <2>3, <2>4, <2>5 DEF Whereabouts
<1> QED
  BY <1>1, <1>2

(* Every query that was executed has its callback in one place.            *)
THEOREM CallbackKeptInOnePlace == DbSpec => []CallbackInOnePlace
<1>1. ASSUME IInv, DbIInv PROVE CallbackInOnePlace
  <2> SUFFICES ASSUME NEW n \in DOMAIN ops, IsQuery(n), runs[n] > 0
               PROVE  Cardinality(Whereabouts(n)) = 1
    BY DEF CallbackInOnePlace
  <2>1. n \in OpNumbers
    BY <1>1, SqlDelayAssumption DEF IInv, TypeOK, OpNumbers
  <2>2. PICK k \in Kinds, p \in Nat : At(k, p, n)
    BY <1>1, <2>1 DEF DbIInv, PlacesInv, Answerable
  <2>3. \A l \in Kinds, r \in Nat : At(l, r, n) => l = k /\ r = p
    BY <1>1, <2>1, <2>2 DEF DbIInv, PlacesInv
  <2>4. Whereabouts(n) = {<<k, p>>}
    BY <1>1, <2>2, <2>3, PlacesOf
  <2> QED
    BY <2>4, FS_Singleton
<1> QED
  BY <1>1, DelayInvariance, DbInvariance, PTL

(* When the connections are closed, every query accepted before the halt   *)
(* was answered or is one that a tick left over.                           *)
THEOREM ClosedIsAnswered == DbSpec => []ClosedMeansAnswered
<1>1. ASSUME IInv, DbIInv PROVE ClosedMeansAnswered
  <2> SUFFICES ASSUME halt = "closed", NEW n \in 1 .. kept, IsQuery(n)
               PROVE  Places(answers, n) # {} \/ Places(waiting, n) # {}
    BY DEF ClosedMeansAnswered
  <2>1. runs[n] = 1 /\ kept <= Len(ops) /\ TypeOK
    BY <1>1 DEF IInv, NothingLost, HaltInv
  <2>2. n \in DOMAIN ops /\ n \in OpNumbers
    BY <2>1, SqlDelayAssumption DEF TypeOK, OpNumbers
  <2>3. PICK k \in Kinds, p \in Nat : At(k, p, n)
    BY <1>1, <2>1, <2>2 DEF DbIInv, PlacesInv, Answerable
  <2>4. queue = <<>> /\ update = "idle" /\ phase # "running"
    BY <1>1 DEF DbIInv, PoolInv, CallbacksOnlyInUpdate
  <2>5. k \in {"waiting", "answers"}
    BY <2>3, <2>4 DEF At, Unrun, Undrained
  <2> QED
    BY <2>3, <2>5 DEF At, Places
<1> QED
  BY <1>1, DelayInvariance, DbInvariance, PTL

=============================================================================
