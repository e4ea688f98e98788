--------------------------- MODULE SqlResultQueue ---------------------------
(***************************************************************************)
(* The queue on which finished queries come back.  The database's workers  *)
(* add a callback when its query is done; once per tick the world thread   *)
(* drains the queue (Update): callbacks that are thread safe go to a pool  *)
(* of their own, the others wait for the world thread itself, which runs   *)
(* them until none is left or its time is up, and then waits for the pool. *)
(* The pool is used as the fork-join executor that ThreadPool is shown to  *)
(* implement.                                                              *)
(***************************************************************************)
EXTENDS Integers, Sequences

CONSTANTS
  Queries,     \* the numbers of the queries
  TickTimeout, \* is AsyncQueriesTickTimeout set?
  MaxBatch     \* bound: callbacks in one batch

VARIABLES
  queue,     \* the LockedQueue itself
  waiting,   \* _threadUnsafeWaitingQueries
  unsafe,    \* numUnsafeQueries
  batch,     \* the workload of m_callbackThreads
  phase,     \* of m_callbackThreads, see ForkJoin
  runCount,  \* of m_callbackThreads, see ForkJoin
  update,    \* where the world thread is in Update
  arrived,   \* history: callbacks in the order their queries were finished
  answers    \* history: callbacks in the order they were run

vars == <<queue, waiting, unsafe, batch, phase, runCount, update, arrived,
          answers>>

pool == <<batch, phase, runCount>>

Pool == INSTANCE ForkJoin

Callback == [query : Queries, safe : BOOLEAN]

Init ==
  /\ queue = <<>>
  /\ waiting = <<>>
  /\ unsafe = 0
  /\ batch = <<>>
  /\ Pool!Init
  /\ update = "idle"
  /\ arrived = <<>>
  /\ answers = <<>>

(* SqlQuery::Execute, SqlQueryHolderEx::Execute: m_queue->add(m_callback). *)
AddCallback(cb) ==
  /\ queue' = Append(queue, cb)
  /\ arrived' = Append(arrived, cb)
  /\ UNCHANGED <<waiting, unsafe, pool, update, answers>>

-----------------------------------------------------------------------------
(* Update, on the world thread.                                            *)

(* What the pool ran in the last tick is dropped with the next workload.   *)
BeginUpdate ==
  /\ update = "idle"
  /\ update' = "drain"
  /\ batch' = <<>>
  /\ UNCHANGED <<queue, waiting, unsafe, phase, runCount, arrived, answers>>

(* Mutation: what has to wait for the world thread overtakes the others.   *)
DrainToFront ==
  /\ update = "drain"
  /\ queue # <<>>
  /\ queue' = Tail(queue)
  /\ IF Head(queue).safe
       THEN batch' = Append(batch, Head(queue)) /\ UNCHANGED <<waiting, unsafe>>
       ELSE /\ waiting' = <<Head(queue)>> \o waiting
            /\ unsafe' = unsafe + 1
            /\ UNCHANGED batch
  /\ UNCHANGED <<phase, runCount, update, arrived, answers>>

(* Mutation: the callbacks that wait are not counted.                      *)
DrainUncounted ==
  /\ update = "drain"
  /\ queue # <<>>
  /\ queue' = Tail(queue)
  /\ IF Head(queue).safe
       THEN batch' = Append(batch, Head(queue)) /\ UNCHANGED waiting
       ELSE waiting' = Append(waiting, Head(queue)) /\ UNCHANGED batch
  /\ UNCHANGED <<unsafe, phase, runCount, update, arrived, answers>>

DrainOne ==
  /\ update = "drain"
  /\ queue # <<>>
  /\ queue' = Tail(queue)
  /\ IF Head(queue).safe
       THEN batch' = Append(batch, Head(queue)) /\ UNCHANGED <<waiting, unsafe>>
       ELSE /\ waiting' = Append(waiting, Head(queue))
            /\ unsafe' = unsafe + 1
            /\ UNCHANGED batch
  /\ UNCHANGED <<phase, runCount, update, arrived, answers>>

(* processWorkload: an empty workload starts nothing.                      *)
SubmitBatch ==
  /\ update = "drain"
  /\ queue = <<>>
  /\ IF batch = <<>>
       THEN UNCHANGED <<phase, runCount>>
       ELSE Pool!Submit /\ DOMAIN runCount' = DOMAIN batch
  /\ update' = "unsafe"
  /\ UNCHANGED <<queue, waiting, unsafe, batch, arrived, answers>>

(* Mutation: the callback that runs when the time is up stays in the queue.*)
RunUnsafeAgain ==
  /\ update = "unsafe"
  /\ waiting # <<>>
  /\ answers' = Append(answers, Head(waiting))
  /\ \/ update' = update /\ waiting' = Tail(waiting) /\ unsafe' = unsafe - 1
     \/ TickTimeout /\ update' = "wait" /\ UNCHANGED <<waiting, unsafe>>
  /\ UNCHANGED <<queue, pool, arrived>>

(* Mutation: the time is looked at before a callback runs.                 *)
RunUnsafeInTime ==
  /\ update = "unsafe"
  /\ waiting # <<>>
  /\ \/ /\ answers' = Append(answers, Head(waiting))
        /\ waiting' = Tail(waiting)
        /\ unsafe' = unsafe - 1
        /\ UNCHANGED update
     \/ /\ TickTimeout
        /\ update' = "wait"
        /\ UNCHANGED <<answers, waiting, unsafe>>
  /\ UNCHANGED <<queue, pool, arrived>>

(* One callback; the time is looked at after it has run.                   *)
RunUnsafe ==
  /\ update = "unsafe"
  /\ waiting # <<>>
  /\ answers' = Append(answers, Head(waiting))
  /\ waiting' = Tail(waiting)
  /\ unsafe' = unsafe - 1
  /\ update' \in IF TickTimeout THEN {update, "wait"} ELSE {update}
  /\ UNCHANGED <<queue, pool, arrived>>

NoneUnsafe ==
  /\ update = "unsafe"
  /\ waiting = <<>>
  /\ update' = "wait"
  /\ UNCHANGED <<queue, waiting, unsafe, pool, arrived, answers>>

(* Mutation: the job is not waited for.                                    *)
ReturnAtOnce ==
  /\ update = "wait"
  /\ update' = "idle"
  /\ UNCHANGED <<queue, waiting, unsafe, pool, arrived, answers>>

(* if (job.valid()) job.wait()                                             *)
FinishUpdate ==
  /\ update = "wait"
  /\ phase # "running"
  /\ update' = "idle"
  /\ UNCHANGED <<queue, waiting, unsafe, pool, arrived, answers>>

UpdateStep ==
  \/ BeginUpdate \/ DrainOne \/ SubmitBatch \/ RunUnsafe \/ NoneUnsafe
  \/ FinishUpdate

-----------------------------------------------------------------------------
(* The callback threads.                                                   *)

RunSafe ==
  /\ Pool!RunJob
  /\ \E p \in DOMAIN batch :
       /\ runCount'[p] # runCount[p]
       /\ answers' = Append(answers, batch[p])
  /\ UNCHANGED <<queue, waiting, unsafe, batch, update, arrived>>

ResolveBatch ==
  /\ Pool!Resolve
  /\ UNCHANGED <<queue, waiting, unsafe, batch, update, arrived, answers>>

PoolStep == RunSafe \/ ResolveBatch

-----------------------------------------------------------------------------
(* CancelAll: what is left in the queue runs without a result.             *)
CancelOne ==
  /\ queue # <<>>
  /\ queue' = Tail(queue)
  /\ answers' = Append(answers, Head(queue))
  /\ UNCHANGED <<waiting, unsafe, pool, update, arrived>>
=============================================================================
