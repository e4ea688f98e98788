------------------------------ MODULE SqlDelay ------------------------------
(***************************************************************************)
(* The asynchronous half of shared/Database: game threads hand over SQL    *)
(* operations, m_numAsyncWorkers threads (SqlDelayThread) execute them,    *)
(* each on a connection of its own.  Plain statements and queries travel   *)
(* through one shared queue; an operation with a serial id goes to the     *)
(* private queue of the worker its id selects, so that the saves of one    *)
(* character and the query that loads it again stay in order.  Halting     *)
(* stops and joins the workers, whose destructors drain what is left.      *)
(*                                                                         *)
(* Operations are numbered in the order they are handed over.  What is in  *)
(* one (the statements of a transaction) is the business of SqlTransaction.*)
(***************************************************************************)
EXTENDS Integers, Sequences

CONSTANTS
  Clients,     \* the threads that use the database
  NumWorkers,  \* <name>Database.WorkerThreads
  SerialIds,   \* serial ids in use: the low guid of a character, a group id
  Sorts,       \* of the queries: is the callback "safe" or "unsafe"?
  NoTrans,     \* of a thread without an open transaction
  MaxOps       \* bound: operations handed over

ASSUME SqlDelayAssumption ==
  /\ NumWorkers \in Nat \ {0}
  /\ SerialIds \subseteq Nat \ {0}
  /\ Sorts \subseteq {"safe", "unsafe"}
  /\ NoTrans \notin {0} \cup SerialIds
  /\ MaxOps \in Nat

VARIABLES
  async,       \* m_bAllowAsyncTransactions
  trans,       \* m_TransStorage: each thread's open transaction
  workers,     \* m_numAsyncWorkers
  delayQueue,  \* m_delayQueue
  serialQueue, \* SqlDelayThread::m_serialDelayQueue, of each worker
  running,     \* SqlDelayThread::m_running
  pc,          \* where each worker is
  hand,        \* the operation a worker has taken and not finished, or 0
  halt,        \* how far StopServer is
  next,        \* the body it stops or frees next
  ops,         \* history: what was handed over
  runs,        \* history: how often each of them was executed
  kept         \* history: how many were handed over when the workers were joined

vars == <<async, trans, workers, delayQueue, serialQueue, running, pc, hand,
          halt, next, ops, runs, kept>>

queues  == <<delayQueue, serialQueue>>
threads == <<running, pc, hand>>
halting == <<workers, halt, next, kept>>
history == <<ops, runs>>

Bodies == 0 .. NumWorkers - 1

Operation == [serial : {0} \cup SerialIds, sort : {"write"} \cup Sorts]

Init ==
  /\ async = FALSE
  /\ trans = [c \in Clients |-> NoTrans]
  /\ workers = NumWorkers
  /\ delayQueue = <<>>
  /\ serialQueue = [w \in Bodies |-> <<>>]
  /\ running = [w \in Bodies |-> TRUE]
  /\ pc = [w \in Bodies |-> "top"]
  /\ hand = [w \in Bodies |-> 0]
  /\ halt = "up"
  /\ next = 0
  /\ ops = <<>>
  /\ runs = <<>>
  /\ kept = 0

-----------------------------------------------------------------------------
(* Handing over.                                                           *)

(* An operation may come at any time, also while the workers are stopping. *)
(* Not while the bodies are being destroyed: the main thread does that     *)
(* without a pause, and a hand-over would use a body that is gone.  When   *)
(* they are, the callbacks that the main thread cancels use the database.  *)
Accepting ==
  /\ Len(ops) < MaxOps
  /\ halt \in {"up", "stop"} \/ (halt = "halted" /\ async)

(* AddToDelayQueue                                                         *)
AddToDelayQueue(op) ==
  /\ ops' = Append(ops, op)
  /\ runs' = Append(runs, 0)
  /\ delayQueue' = Append(delayQueue, Len(ops'))
  /\ UNCHANGED serialQueue

(* Mutation: any worker may get it.                                        *)
BalanceSerialQueues(op) ==
  /\ ops' = Append(ops, op)
  /\ runs' = Append(runs, 0)
  /\ IF op.serial = 0 \/ workers = 0
       THEN /\ delayQueue' = Append(delayQueue, Len(ops'))
            /\ UNCHANGED serialQueue
       ELSE /\ \E w \in Bodies :
                 serialQueue' = [serialQueue EXCEPT ![w] = Append(@, Len(ops'))]
            /\ UNCHANGED delayQueue

(* AddToSerialDelayQueue: without a serial id, or once the bodies are      *)
(* gone, the operation goes where the others go.                           *)
AddToSerialDelayQueue(op) ==
  IF op.serial = 0 \/ workers = 0
    THEN AddToDelayQueue(op)
    ELSE /\ ops' = Append(ops, op)
         /\ runs' = Append(runs, 0)
         /\ serialQueue' = [serialQueue EXCEPT ![op.serial % workers] =
                              Append(@, Len(ops'))]
         /\ UNCHANGED delayQueue

(* DirectExecute, CommitTransactionDirect: on the connection of its own.   *)
DirectExecute(op) ==
  /\ ops' = Append(ops, op)
  /\ runs' = Append(runs, 1)
  /\ UNCHANGED queues

Write(s) == [serial |-> s, sort |-> "write"]

(* Execute, ExecuteStmt outside a transaction.  Inside one the statement   *)
(* only joins the transaction, which is handed over when it is committed.  *)
Execute(c) ==
  /\ Accepting
  /\ trans[c] = NoTrans
  /\ IF async THEN AddToDelayQueue(Write(0)) ELSE DirectExecute(Write(0))
  /\ UNCHANGED <<async, trans, halting, threads>>

(* AsyncQuery: always queued, whatever transaction is open.                *)
AsyncQuery(sort) ==
  /\ Accepting
  /\ AddToDelayQueue([serial |-> 0, sort |-> sort])
  /\ UNCHANGED <<async, trans, halting, threads>>

(* DelayQueryHolder.  Holders load characters and accounts for players:    *)
(* there are none during startup.                                          *)
DelayQueryHolder(s, sort) ==
  /\ Accepting
  /\ async
  /\ AddToSerialDelayQueue([serial |-> s, sort |-> sort])
  /\ UNCHANGED <<async, trans, halting, threads>>

BeginTransaction(c, s) ==
  /\ Accepting
  /\ trans[c] = NoTrans
  /\ trans' = [trans EXCEPT ![c] = s]
  /\ UNCHANGED <<async, queues, halting, threads, history>>

CommitTransaction(c) ==
  /\ trans[c] # NoTrans
  /\ trans' = [trans EXCEPT ![c] = NoTrans]
  /\ Accepting
  /\ IF async
       THEN AddToSerialDelayQueue(Write(trans[c]))
       ELSE DirectExecute(Write(trans[c]))
  /\ UNCHANGED <<async, halting, threads>>

RollbackTransaction(c) ==
  /\ trans[c] # NoTrans
  /\ trans' = [trans EXCEPT ![c] = NoTrans]
  /\ UNCHANGED <<async, queues, halting, threads, history>>

(* The server has started.                                                 *)
AllowAsyncTransactions ==
  /\ halt = "up"
  /\ ~async
  /\ async' = TRUE
  /\ UNCHANGED <<trans, queues, halting, threads, history>>

ClientStep ==
  \/ AllowAsyncTransactions
  \/ \E c \in Clients :
       \/ Execute(c) \/ CommitTransaction(c) \/ RollbackTransaction(c)
       \/ \E s \in {0} \cup SerialIds : BeginTransaction(c, s)
  \/ \E sort \in Sorts :
       \/ AsyncQuery(sort)
       \/ \E s \in {0} \cup SerialIds : DelayQueryHolder(s, sort)

-----------------------------------------------------------------------------
(* A worker.                                                               *)

Goto(w, l) == pc' = [pc EXCEPT ![w] = l]

(* run: m_running is tested, then the thread sleeps, then it processes.    *)
Loop(w) ==
  /\ pc[w] = "top"
  /\ Goto(w, IF running[w] THEN "shared" ELSE "exited")
  /\ UNCHANGED <<async, trans, queues, running, hand, halting, history>>

(* Mutation: the queue is read and popped without its lock, and another    *)
(* worker may take the same operation.                                     *)
NextDelayedOperationUnlocked(w) ==
  /\ pc[w] = "shared"
  /\ hand[w] = 0
  /\ IF delayQueue = <<>>
       THEN Goto(w, "serial") /\ UNCHANGED <<delayQueue, hand>>
       ELSE /\ hand' = [hand EXCEPT ![w] = Head(delayQueue)]
            /\ delayQueue' \in {delayQueue, Tail(delayQueue)}
            /\ UNCHANGED pc
  /\ UNCHANGED <<async, trans, serialQueue, running, halting, history>>

(* ProcessRequests, its first loop: m_dbEngine->NextDelayedOperation.      *)
NextDelayedOperation(w) ==
  /\ pc[w] = "shared"
  /\ hand[w] = 0
  /\ IF delayQueue = <<>>
       THEN Goto(w, "serial") /\ UNCHANGED <<delayQueue, hand>>
       ELSE /\ hand' = [hand EXCEPT ![w] = Head(delayQueue)]
            /\ delayQueue' = Tail(delayQueue)
            /\ UNCHANGED pc
  /\ UNCHANGED <<async, trans, serialQueue, running, halting, history>>

(* Mutation: the worker forgets its own queue.                             *)
SkipSerialQueue(w) ==
  /\ pc[w] = "serial"
  /\ Goto(w, "top")
  /\ UNCHANGED <<async, trans, queues, running, hand, halting, history>>

(* ProcessRequests, its second loop: m_serialDelayQueue.next.              *)
NextSerialOperation(w) ==
  /\ pc[w] = "serial"
  /\ hand[w] = 0
  /\ IF serialQueue[w] = <<>>
       THEN Goto(w, "top") /\ UNCHANGED <<serialQueue, hand>>
       ELSE /\ hand' = [hand EXCEPT ![w] = Head(serialQueue[w])]
            /\ serialQueue' = [serialQueue EXCEPT ![w] = Tail(@)]
            /\ UNCHANGED pc
  /\ UNCHANGED <<async, trans, delayQueue, running, halting, history>>

(* s->Execute(m_dbConnection); delete s                                    *)
ExecuteOperation(w) ==
  /\ hand[w] # 0
  /\ runs' = [runs EXCEPT ![hand[w]] = @ + 1]
  /\ hand' = [hand EXCEPT ![w] = 0]
  /\ UNCHANGED <<async, trans, queues, running, pc, halting, ops>>

WorkerStep(w) ==
  \/ Loop(w) \/ NextDelayedOperation(w) \/ NextSerialOperation(w)
  \/ ExecuteOperation(w)

-----------------------------------------------------------------------------
(* StopServer, on the main thread.  The threads of the game were joined    *)
(* before it, the one of the command line is joined after it.              *)

Stopped == \A w \in Bodies : pc[w] = "exited"

StopServer ==
  /\ halt = "up"
  /\ halt' = "stop"
  /\ UNCHANGED <<async, trans, queues, workers, next, kept, threads, history>>

(* Mutation: the loop over the bodies runs one too far.                    *)
StopBodyTooFar ==
  /\ halt = "stop"
  /\ next <= workers
  /\ running' = [running EXCEPT ![next] = FALSE]
  /\ next' = next + 1
  /\ UNCHANGED <<async, trans, queues, workers, pc, hand, halt, kept, history>>

(* Mutation: the bodies are not told.                                      *)
StopNobody ==
  /\ halt = "stop"
  /\ next < workers
  /\ next' = next + 1
  /\ UNCHANGED <<async, trans, queues, workers, threads, halt, kept, history>>

(* HaltDelayThread: m_threadsBodies[i]->Stop()                             *)
StopBody ==
  /\ halt = "stop"
  /\ next < workers
  /\ running' = [running EXCEPT ![next] = FALSE]
  /\ next' = next + 1
  /\ UNCHANGED <<async, trans, queues, workers, pc, hand, halt, kept, history>>

(* ... m_delayThreads[i].join()                                            *)
JoinThreads ==
  /\ halt = "stop"
  /\ next = workers
  /\ Stopped
  /\ halt' = "free"
  /\ next' = 0
  /\ kept' = Len(ops)
  /\ UNCHANGED <<async, trans, queues, workers, threads, history>>

(* Mutation: the destructor does not process what is left.                 *)
FreeBodySilently ==
  /\ halt = "free"
  /\ next < NumWorkers
  /\ next' = next + 1
  /\ UNCHANGED <<async, trans, queues, workers, halt, kept, threads, history>>

(* ... m_threadsBodies.clear(), one ~SqlDelayThread after the other: each  *)
(* calls ProcessRequests again.  The main thread does that in the body's   *)
(* stead; m_running being off, it leaves the loop again.                   *)
FreeBody ==
  /\ halt = "free"
  /\ next < NumWorkers
  /\ Stopped
  /\ Goto(next, "shared")
  /\ next' = next + 1
  /\ UNCHANGED <<async, trans, queues, workers, running, hand, halt, kept,
                 history>>

Halted ==
  /\ halt = "free"
  /\ next = NumWorkers
  /\ Stopped
  /\ workers' = 0
  /\ halt' = "halted"
  /\ UNCHANGED <<async, trans, queues, next, kept, threads, history>>

(* The callbacks are cancelled and the connections deleted.                *)
CloseConnections ==
  /\ halt = "halted"
  /\ \A c \in Clients : trans[c] = NoTrans
  /\ halt' = "closed"
  /\ UNCHANGED <<async, trans, queues, workers, next, kept, threads, history>>

HaltStep ==
  \/ StopServer \/ StopBody \/ JoinThreads \/ FreeBody \/ Halted
  \/ CloseConnections

-----------------------------------------------------------------------------
Next == ClientStep \/ HaltStep \/ \E w \in Bodies : WorkerStep(w)

Spec == Init /\ [][Next]_vars

(* Worker threads run and what they execute returns; the main thread goes  *)
(* through with a stop it began.  Clients need not do anything.            *)
Fairness ==
  /\ \A w \in Bodies : WF_vars(WorkerStep(w))
  /\ WF_vars(StopBody \/ JoinThreads \/ FreeBody \/ Halted)

FairSpec == Spec /\ Fairness
-----------------------------------------------------------------------------
(* What has to be true.                                                    *)

OpNumbers == 1 .. MaxOps

(* Every variable has its type.                                            *)
TypeOK ==
  /\ async \in BOOLEAN
  /\ trans \in [Clients -> {NoTrans, 0} \cup SerialIds]
  /\ workers \in {0, NumWorkers}
  /\ delayQueue \in Seq(OpNumbers)
  /\ serialQueue \in [Bodies -> Seq(OpNumbers)]
  /\ running \in [Bodies -> BOOLEAN]
  /\ pc \in [Bodies -> {"top", "shared", "serial", "exited"}]
  /\ hand \in [Bodies -> {0} \cup OpNumbers]
  /\ halt \in {"up", "stop", "free", "halted", "closed"}
  /\ next \in 0 .. NumWorkers
  /\ ops \in Seq(Operation)
  /\ runs \in Seq(Nat)
  /\ Len(runs) = Len(ops)
  /\ Len(ops) <= MaxOps
  /\ kept \in 0 .. MaxOps

(* A query that loads a character sees its saves: among the operations     *)
(* with one serial id, none is executed before one handed over earlier.    *)
SerialOrder ==
  \A m, n \in DOMAIN ops :
    /\ m < n
    /\ ops[m].serial = ops[n].serial
    /\ ops[n].serial # 0
    /\ runs[n] > 0
    => runs[m] > 0

(* When HaltDelayThread returns, everything that was handed over before it *)
(* joined the workers was executed, once, including what came while they   *)
(* stopped: after a worker has left its loop only its destructor does it.  *)
NothingLost ==
  halt \in {"halted", "closed"} => \A n \in 1 .. kept : runs[n] = 1

(* Every operation handed over until the workers are joined is executed    *)
(* eventually, whatever they were doing when they were told to stop.       *)
EveryOperationRuns ==
  \A n \in OpNumbers :
    (halt \in {"up", "stop"} /\ n \in DOMAIN ops)
      ~> (n \in DOMAIN ops /\ runs[n] = 1)

(* HaltDelayThread returns.                                                *)
HaltReturns == halt = "stop" ~> halt = "halted"

(* The workers and their queues implement the store.                       *)
Store == INSTANCE AsyncStore WITH
  serials <- [n \in DOMAIN ops |-> ops[n].serial],
  open    <- halt \notin {"halted", "closed"}

ImplementsAsyncStore == Store!Spec
=============================================================================
