------------------------------ MODULE Database ------------------------------
(***************************************************************************)
(* A database as the world server runs it: the delay threads of SqlDelay   *)
(* and the SqlResultQueue on which their queries come back, joined where   *)
(* the code joins them.  A worker that executes a query adds its callback; *)
(* the world thread updates the queue while the server is up; StopServer   *)
(* halts the workers, cancels what the queue still holds and closes.       *)
(***************************************************************************)
EXTENDS SqlDelay, FiniteSets

CONSTANT TickTimeout

VARIABLES queue, waiting, unsafe, batch, phase, runCount, update, arrived,
          answers

Results == INSTANCE SqlResultQueue WITH Queries <- OpNumbers,
                                        MaxBatch <- MaxOps

results == <<queue, waiting, unsafe, batch, phase, runCount, update, arrived,
             answers>>

DbVars == <<vars, results>>

DbInit == Init /\ Results!Init

IsQuery(n) == ops[n].sort # "write"

(* SqlQuery::Execute, SqlQueryHolderEx::Execute and the others' Execute.   *)
FinishOperation(w) ==
  /\ ExecuteOperation(w)
  /\ IF IsQuery(hand[w])
       THEN Results!AddCallback([query |-> hand[w],
                                 safe  |-> ops[hand[w]].sort = "safe"])
       ELSE UNCHANGED results

DbWorkerStep(w) ==
  \/ FinishOperation(w)
  \/ /\ \/ Loop(w)
        \/ NextDelayedOperation(w)
        \/ NextSerialOperation(w)
     /\ UNCHANGED results

DbClientStep == ClientStep /\ UNCHANGED results

(* World::UpdateResultQueue                                                *)
ProcessResultQueue ==
  /\ halt = "up"
  /\ Results!UpdateStep
  /\ UNCHANGED vars

CallbackThreads == Results!PoolStep /\ UNCHANGED vars

(* The world thread has left its loop, and with it Update.                 *)
DbStopServer ==
  /\ update = "idle"
  /\ StopServer
  /\ UNCHANGED results

HaltDelayThread ==
  /\ \/ StopBody \/ JoinThreads \/ FreeBody \/ Halted
  /\ UNCHANGED results

(* StopServer: m_pResultQueue->CancelAll()                                 *)
CancelAll ==
  /\ halt = "halted"
  /\ Results!CancelOne
  /\ UNCHANGED vars

(* Mutation: the queue is deleted with what is in it.                      *)
CloseWithoutCancelling ==
  /\ halt = "halted"
  /\ CloseConnections
  /\ UNCHANGED results

DbCloseConnections ==
  /\ queue = <<>>
  /\ CloseConnections
  /\ UNCHANGED results

DbNext ==
  \/ DbClientStep
  \/ \E w \in Bodies : DbWorkerStep(w)
  \/ ProcessResultQueue \/ CallbackThreads
  \/ DbStopServer \/ HaltDelayThread \/ CancelAll \/ DbCloseConnections

DbSpec == DbInit /\ [][DbNext]_DbVars

(* The world thread ticks and the pool's threads run.                      *)
DbFairness ==
  /\ \A w \in Bodies : WF_DbVars(DbWorkerStep(w))
  /\ WF_DbVars(ProcessResultQueue)
  /\ WF_DbVars(CallbackThreads)

DbFairSpec == DbSpec /\ DbFairness
-----------------------------------------------------------------------------
(* What has to be true.                                                    *)

(* The queue's variables have their types, and the counter that is logged  *)
(* as a bottleneck counts the callbacks that wait.                         *)
QueueTypeOK ==
  /\ queue \in Seq(Results!Callback)
  /\ waiting \in Seq(Results!Callback)
  /\ batch \in Seq(Results!Callback)
  /\ answers \in Seq(Results!Callback)
  /\ phase \in {"idle", "running", "done"}
  /\ update \in {"idle", "drain", "unsafe", "wait"}
  /\ unsafe = Len(waiting)

(* The world tick is alone with the game state: the callback threads run   *)
(* callbacks only while the world thread is in Update.                     *)
CallbacksOnlyInUpdate ==
  phase = "running" => update \in {"unsafe", "wait"}

Places(s, n) == {p \in DOMAIN s : s[p].query = n}

Unrun == {p \in DOMAIN batch : phase = "running" /\ runCount[p] = 0}

Undrained == {p \in DOMAIN batch : update = "drain"}

(* Where the callback of query n is.                                       *)
Whereabouts(n) ==
  ({"queue"} \X Places(queue, n)) \cup ({"waiting"} \X Places(waiting, n))
    \cup ({"answers"} \X Places(answers, n))
    \cup ({"batch"} \X {p \in Unrun \cup Undrained : batch[p].query = n})

(* A query that was executed has one callback, and it is in one place: it  *)
(* waits somewhere or was run once.                                        *)
CallbackInOnePlace ==
  \A n \in DOMAIN ops :
    IsQuery(n) /\ runs[n] > 0 => Cardinality(Whereabouts(n)) = 1

(* Callbacks that need the world thread are run in the order their queries *)
(* were finished, and so are those that a timeout leaves for a later tick. *)
UnsafeInOrder ==
  halt = "up" =>
    \A i, j \in DOMAIN arrived, q \in DOMAIN answers :
      /\ i < j
      /\ ~arrived[i].safe
      /\ ~arrived[j].safe
      /\ answers[q] = arrived[j]
      => \E p \in 1 .. q - 1 : answers[p] = arrived[i]

(* While the server is up every query is answered, timeout or not.         *)
EveryQueryAnswered ==
  \A n \in OpNumbers :
    (n \in DOMAIN ops /\ IsQuery(n) /\ halt = "up")
      ~> (halt # "up" \/ Places(answers, n) # {})

(* A query whose callback was not run when the connections close was left  *)
(* over by a tick whose time was up.                                       *)
ClosedMeansAnswered ==
  halt = "closed" =>
    \A n \in 1 .. kept :
      IsQuery(n) => Places(answers, n) # {} \/ Places(waiting, n) # {}

(* Database.h on StopServer: "Frees data, cancels scheduled queries, closes*)
(* connection", so that afterwards no callback is left that was not run.   *)
ScheduledQueriesCancelled ==
  halt = "closed" =>
    \A n \in 1 .. kept : IsQuery(n) => Places(answers, n) # {}
=============================================================================
