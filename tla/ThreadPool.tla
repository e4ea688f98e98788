----------------------------- MODULE ThreadPool -----------------------------
(***************************************************************************)
(* The worker pool of shared/ThreadPool.{h,cpp}: one controlling thread    *)
(* (the world thread, a map thread or the result queue) fills a workload   *)
(* and hands it to m_size workers, which are woken through a condition     *)
(* variable, take jobs until none is left, and resolve the promise when    *)
(* the last of them is through.                                            *)
(*                                                                         *)
(* The controller's critical section (processWorkload from the lock on)    *)
(* and a worker's test of its wait predicate exclude each other through    *)
(* m_mutex, so each is one step; everything else is unsynchronised and is  *)
(* split at every access to shared state.                                  *)
(***************************************************************************)
EXTENDS Integers, Sequences, FiniteSets

CONSTANTS
  Size,     \* m_size, the number of workers
  Modes,    \* how owners set their pools up, see PoolMode
  MaxBatch, \* bound: longest workload
  MaxJobs   \* bound: jobs handed over, numbered in that order

(* The constructor's ClearMode and ErrorHandling, and the worker type that *)
(* start is instantiated with: worker_sq ("single") or worker_mq ("multi").*)
PoolMode ==
  [clear  : {"NEVER", "UPPON_COMPLETION", "AT_NEXT_WORKLOAD"},
   errors : {"NONE", "IGNORE", "LOG", "TERMINATE"},
   queue  : {"single", "multi"}]

ASSUME PoolAssumption ==
  /\ Size \in Nat
  /\ Modes \subseteq PoolMode
  /\ MaxBatch \in Nat \ {0}
  /\ MaxJobs \in Nat

VARIABLES
  mode,      \* m_clearMode, m_errorHandling and the type of m_workers
  status,    \* m_status
  workload,  \* m_workload
  dirty,     \* m_dirty: the workload was already processed
  active,    \* m_active: prepared workers that are not through yet
  index,     \* m_index: next position, shared by the workers (worker_sq)
  it,        \* worker_mq::it: next position of each worker
  busy,      \* worker::busy
  cur,       \* the position a worker has taken
  pc,        \* where each worker is
  caller,    \* where the controlling thread is
  future,    \* the state behind m_result
  errors,    \* m_errors: the jobs whose exceptions were kept
  runs,      \* history: runs of each position of the last batch handed over
  batch,     \* history: the jobs of that batch
  spent,     \* history: the jobs of the batches before it
  handed     \* history: how many jobs were handed over

vars == <<mode, status, workload, dirty, active, index, it, busy, cur, pc,
          caller, future, errors, runs, batch, spent, handed>>

load    == <<workload, dirty>>
claims  == <<index, it, cur>>
outcome == <<future, errors, runs>>
history == <<mode, batch, spent, handed>>

Workers == 0 .. Size - 1

Elems(s) == {s[p] : p \in DOMAIN s}

Init ==
  /\ mode \in Modes
  /\ status = "STOPPED"
  /\ workload = <<>>
  /\ dirty = FALSE
  /\ active = 0
  /\ index = 0
  /\ it = [w \in Workers |-> 0]
  /\ busy = [w \in Workers |-> FALSE]
  /\ cur = [w \in Workers |-> 0]
  /\ pc = [w \in Workers |-> "none"]
  /\ caller = "idle"
  /\ future = "none"
  /\ errors = {}
  /\ runs = <<>>
  /\ batch = {}
  /\ spent = {}
  /\ handed = 0

Goto(w, l) == pc' = [pc EXCEPT ![w] = l]

(* notify_all: whoever sleeps on m_waitForWork tests its predicate again.  *)
NotifyAll ==
  pc' = [w \in Workers |-> IF pc[w] = "asleep" THEN "test" ELSE pc[w]]

-----------------------------------------------------------------------------
(* The controlling thread.                                                 *)

(* start(): spawn the workers; nothing happens unless the pool is stopped. *)
Start ==
  /\ caller = "idle"
  /\ status = "STOPPED"
  /\ Size > 0
  /\ status' = "READY"
  /\ pc' = [w \in Workers |-> "test"]
  /\ UNCHANGED <<active, busy, caller, history, claims, load, outcome>>

(* Mutation: a workload that was processed is never taken for stale.       *)
NothingIsStale == FALSE

StaleWorkload == mode.clear = "AT_NEXT_WORKLOAD" /\ dirty

(* operator<<: a workload that was processed is dropped first; appending   *)
(* while a workload is processed throws and changes nothing.               *)
Append1 ==
  /\ caller = "idle"
  /\ status \notin {"PROCESSING", "ERROR"}
  /\ handed < MaxJobs
  /\ IF StaleWorkload
       THEN workload' = <<handed + 1>> /\ dirty' = FALSE
       ELSE /\ Len(workload) < MaxBatch
            /\ workload' = Append(workload, handed + 1)
            /\ UNCHANGED dirty
  /\ handed' = handed + 1
  /\ UNCHANGED <<mode, status, active, busy, pc, caller, batch, spent,
                 claims, outcome>>

(* Mutation: m_active counts the jobs, without the min.                    *)
OnePerJob(w) == Len(w)

(* No more workers are woken than there are jobs.                          *)
WorkersNeeded(w) == IF Size < Len(w) THEN Size ELSE Len(w)

(* The unlocked half of processWorkload, once its guard let it through.    *)
BeginRound(w) ==
  /\ workload' = w
  /\ dirty' = TRUE
  /\ active' = WorkersNeeded(w)
  /\ index' = 0
  /\ status' = "PROCESSING"
  /\ future' = "pending"
  /\ caller' = "prepare"
  /\ runs' = [p \in DOMAIN w |-> 0]
  /\ batch' = Elems(w)
  /\ spent' = spent \cup batch
  /\ UNCHANGED <<mode, it, busy, cur, pc, errors>>

(* processWorkload() with the jobs appended so far.                        *)
SubmitAppended ==
  /\ caller = "idle"
  /\ status = "READY"
  /\ ~StaleWorkload
  /\ workload # <<>>
  /\ BeginRound(workload)
  /\ UNCHANGED handed

(* processWorkload(workload): the caller's vector replaces the workload.   *)
SubmitVector(n) ==
  /\ caller = "idle"
  /\ status = "READY"
  /\ handed + n <= MaxJobs
  /\ BeginRound([p \in 1..n |-> handed + p])
  /\ handed' = handed + n

(* A workload that was processed before is dropped, and a vector may be    *)
(* empty: with nothing to do no round begins and no future is returned.    *)
SubmitNothing ==
  /\ caller = "idle"
  /\ status = "READY"
  /\ workload' = <<>>
  /\ dirty' = FALSE
  /\ UNCHANGED <<status, active, busy, pc, caller, history, claims, outcome>>

(* Mutation: every worker is prepared, not only those m_active counts.     *)
PrepareEveryone ==
  /\ caller = "prepare"
  /\ busy' = [w \in Workers |-> TRUE]
  /\ it' = [w \in Workers |-> w]
  /\ NotifyAll
  /\ caller' = "await"
  /\ UNCHANGED <<status, active, index, cur, history, load, outcome>>

(* Mutation: the workers are prepared and nobody wakes them.               *)
PrepareSilently ==
  /\ caller = "prepare"
  /\ busy' = [w \in Workers |-> busy[w] \/ w < active]
  /\ it' = [w \in Workers |-> IF w < active THEN w ELSE it[w]]
  /\ caller' = "await"
  /\ UNCHANGED <<status, active, index, cur, pc, history, load, outcome>>

(* The locked half: prepare the workers the batch needs and wake them.     *)
Prepare ==
  /\ caller = "prepare"
  /\ busy' = [w \in Workers |-> busy[w] \/ w < active]
  /\ it' = [w \in Workers |-> IF w < active THEN w ELSE it[w]]
  /\ NotifyAll
  /\ caller' = "await"
  /\ UNCHANGED <<status, active, index, cur, history, load, outcome>>

(* Every caller waits for the future before it uses the pool again.        *)
Await ==
  /\ caller = "await"
  /\ future = "ready"
  /\ caller' = "idle"
  /\ UNCHANGED <<status, active, busy, pc, history, claims, load, outcome>>

(* Mutation: the destructor forgets those who sleep.                       *)
DestroySilently ==
  /\ caller = "idle"
  /\ status' = "TERMINATING"
  /\ caller' = "join"
  /\ UNCHANGED <<active, busy, pc, history, claims, load, outcome>>

(* ~ThreadPool: announce the end, wake everybody, then join each worker.   *)
Destroy ==
  /\ caller = "idle"
  /\ status' = "TERMINATING"
  /\ NotifyAll
  /\ caller' = "join"
  /\ UNCHANGED <<active, busy, history, claims, load, outcome>>

Joined ==
  /\ caller = "join"
  /\ \A w \in Workers : pc[w] \in {"none", "exited"}
  /\ caller' = "gone"
  /\ UNCHANGED <<status, active, busy, pc, history, claims, load, outcome>>

-----------------------------------------------------------------------------
(* A worker.                                                               *)

(* waitForWork: the predicate is tested under the shared lock and the      *)
(* worker falls asleep in the same critical section.                       *)
WaitForWork(w) ==
  /\ pc[w] = "test"
  /\ \/ /\ status = "TERMINATING"
        /\ Goto(w, "exited")
     \/ /\ status # "TERMINATING"
        /\ busy[w]
        /\ Goto(w, "take")
     \/ /\ status # "TERMINATING"
        /\ ~busy[w]
        /\ Goto(w, "asleep")
  /\ UNCHANGED <<status, active, busy, caller, history, claims, load, outcome>>

(* condition_variable_any may wake a waiter without a notification.        *)
SpuriousWake(w) ==
  /\ pc[w] = "asleep"
  /\ Goto(w, "test")
  /\ UNCHANGED <<status, active, busy, caller, history, claims, load, outcome>>

(* Mutation: m_index is read and advanced in two steps, and one of two     *)
(* simultaneous advances is lost.                                          *)
TakeSingleUnsafely(w) ==
  /\ mode.queue = "single"
  /\ pc[w] = "take"
  /\ index' \in {index, index + 1}
  /\ IF index < Len(workload) /\ status = "PROCESSING"
       THEN cur' = [cur EXCEPT ![w] = index + 1] /\ Goto(w, "run")
       ELSE UNCHANGED cur /\ Goto(w, "rest")
  /\ UNCHANGED <<status, active, it, busy, caller, history, load, outcome>>

(* worker_sq::doWork: the shared counter is advanced in one atomic step.   *)
TakeSingle(w) ==
  /\ mode.queue = "single"
  /\ pc[w] = "take"
  /\ index' = index + 1
  /\ IF index < Len(workload) /\ status = "PROCESSING"
       THEN cur' = [cur EXCEPT ![w] = index + 1] /\ Goto(w, "run")
       ELSE UNCHANGED cur /\ Goto(w, "rest")
  /\ UNCHANGED <<status, active, it, busy, caller, history, load, outcome>>

(* worker_mq::doWork: each worker strides through its own positions.       *)
TakeMulti(w) ==
  /\ mode.queue = "multi"
  /\ pc[w] = "take"
  /\ IF it[w] < Len(workload) /\ status = "PROCESSING"
       THEN /\ cur' = [cur EXCEPT ![w] = it[w] + 1]
            /\ it' = [it EXCEPT ![w] = @ + Size]
            /\ Goto(w, "run")
       ELSE UNCHANGED <<cur, it>> /\ Goto(w, "rest")
  /\ UNCHANGED <<status, active, index, busy, caller, history, load, outcome>>

(* The job at the taken position returns.                                  *)
RunJob(w) ==
  /\ pc[w] = "run"
  /\ runs' = [runs EXCEPT ![cur[w]] = @ + 1]
  /\ Goto(w, "take")
  /\ UNCHANGED <<status, active, busy, caller, future, errors, history,
                 claims, load>>

(* The job throws: loop() is left through loop_wrapper, which enters it    *)
(* again, still busy, unless the pool is terminating.  With NONE the       *)
(* exception leaves the thread and the process ends, so it is not modelled.*)
JobThrows(w) ==
  /\ mode.errors # "NONE"
  /\ pc[w] = "run"
  /\ runs' = [runs EXCEPT ![cur[w]] = @ + 1]
  /\ Goto(w, IF mode.errors = "IGNORE"
               THEN IF status = "TERMINATING" THEN "exited" ELSE "test"
               ELSE "caught")
  /\ UNCHANGED <<status, active, busy, caller, future, errors, history,
                 claims, load>>

(* m_errors.push_back is not synchronised: when another worker is at the   *)
(* same line the element may be lost.                                      *)
KeepError(w) ==
  /\ pc[w] = "caught"
  /\ \/ errors' = errors \cup {workload[cur[w]]}
     \/ /\ \E v \in Workers \ {w} : pc[v] = "caught"
        /\ UNCHANGED errors
  /\ status' = IF mode.errors = "TERMINATE" THEN "TERMINATING" ELSE status
  /\ Goto(w, IF status' = "TERMINATING" THEN "exited" ELSE "test")
  /\ UNCHANGED <<active, busy, caller, future, runs, history, claims, load>>

(* The end of loop(): the flag is lowered before the worker signs off ...  *)
Rest(w) ==
  /\ pc[w] = "rest"
  /\ busy' = [busy EXCEPT ![w] = FALSE]
  /\ Goto(w, "signoff")
  /\ UNCHANGED <<status, active, caller, history, claims, load, outcome>>

(* Mutation: the last but one already takes itself for the last.           *)
SignOffOneEarly(w) ==
  /\ pc[w] = "signoff"
  /\ active' = active - 1
  /\ Goto(w, IF active' <= 1 THEN "last" ELSE "test")
  /\ UNCHANGED <<status, busy, caller, history, claims, load, outcome>>

(* m_active is decremented and tested in one atomic step ...               *)
SignOff(w) ==
  /\ pc[w] = "signoff"
  /\ active' = active - 1
  /\ Goto(w, IF active' = 0 THEN "last" ELSE "test")
  /\ UNCHANGED <<status, busy, caller, history, claims, load, outcome>>

(* Mutation: the promise is resolved before the pool is made ready.        *)
MakeReadyLate(w) ==
  /\ \/ /\ pc[w] = "last"
        /\ future' = "ready"
        /\ Goto(w, "resolve")
        /\ UNCHANGED status
     \/ /\ pc[w] = "resolve"
        /\ status' = "READY"
        /\ Goto(w, "test")
        /\ UNCHANGED future
  /\ UNCHANGED <<active, busy, caller, errors, runs, history, claims, load>>

(* ... and the last one makes the pool ready again ...                     *)
MakeReady(w) ==
  /\ pc[w] = "last"
  /\ IF mode.clear = "UPPON_COMPLETION"
       THEN workload' = <<>> /\ dirty' = FALSE
       ELSE UNCHANGED <<load>>
  /\ status' = "READY"
  /\ Goto(w, "resolve")
  /\ UNCHANGED <<active, busy, caller, history, claims, outcome>>

(* ... before it resolves the promise.                                     *)
Resolve(w) ==
  /\ pc[w] = "resolve"
  /\ future' = "ready"
  /\ Goto(w, "test")
  /\ UNCHANGED <<status, active, busy, caller, errors, runs, history, claims,
                 load>>

-----------------------------------------------------------------------------
WorkerStep(w) ==
  \/ WaitForWork(w) \/ TakeSingle(w) \/ TakeMulti(w)
  \/ RunJob(w) \/ JobThrows(w) \/ KeepError(w)
  \/ Rest(w) \/ SignOff(w) \/ MakeReady(w) \/ Resolve(w)

CallerStep ==
  \/ Start \/ Append1 \/ SubmitAppended \/ SubmitNothing \/ Prepare \/ Await
  \/ Destroy \/ Joined
  \/ \E n \in 1..MaxBatch : SubmitVector(n)

Next ==
  \/ CallerStep
  \/ \E w \in Workers : WorkerStep(w) \/ SpuriousWake(w)

(* Threads run and jobs return; the controller finishes a submission and   *)
(* the destructor, but need not submit anything.                           *)
Fairness ==
  /\ \A w \in Workers : WF_vars(WorkerStep(w))
  /\ WF_vars(Prepare)
  /\ WF_vars(Await)
  /\ WF_vars(Joined)

Spec == Init /\ [][Next]_vars

FairSpec == Spec /\ Fairness
-----------------------------------------------------------------------------
(* What has to be true.                                                    *)

Jobs == 1 .. MaxJobs

(* Every variable has its type; m_active stays within the workers.         *)
TypeOK ==
  /\ mode \in Modes
  /\ status \in {"STOPPED", "READY", "PROCESSING", "TERMINATING"}
  /\ workload \in Seq(Jobs)
  /\ dirty \in BOOLEAN
  /\ active \in 0 .. Size
  /\ index \in Nat
  /\ it \in [Workers -> Nat]
  /\ busy \in [Workers -> BOOLEAN]
  /\ cur \in [Workers -> Nat]
  /\ pc \in [Workers -> {"none", "test", "asleep", "take", "run", "caught",
                         "rest", "signoff", "last", "resolve", "exited"}]
  /\ caller \in {"idle", "prepare", "await", "join", "gone"}
  /\ future \in {"none", "pending", "ready"}
  /\ errors \subseteq Jobs
  /\ runs \in Seq(Nat)
  /\ batch \subseteq Jobs
  /\ spent \subseteq Jobs
  /\ handed \in 0 .. MaxJobs

(* A caller whose future is resolved may use what its jobs computed: every *)
(* job has been run, once, and none is running any more.                   *)
ResolvedMeansDone ==
  future = "ready" =>
    /\ \A p \in DOMAIN runs : runs[p] = 1
    /\ \A w \in Workers : pc[w] \notin {"take", "run", "caught"}

(* m_workload has no lock: while its owner may append to it, and while the *)
(* last worker clears it, no other worker looks into it.                   *)
WorkloadUnshared ==
  (caller = "idle" \/ \E w \in Workers : pc[w] = "last") =>
    \A w \in Workers : pc[w] \notin {"take", "run", "caught"}

(* processWorkload returns no future, and drops the batch in silence, when *)
(* the pool is not READY: it must be once the caller has seen its future.  *)
ResubmitAccepted ==
  caller = "idle" /\ future = "ready" => status = "READY"

(* Unless it is told to keep the workload, the pool never runs a job of an *)
(* earlier batch again.                                                    *)
NoStaleJob ==
  mode.clear # "NEVER" => batch \cap spent = {}

(* A batch that was handed over is finished.  (With TERMINATE the worker   *)
(* whose job throws leaves without signing off, and it never is.)          *)
RoundCompletes ==
  future = "pending" /\ mode.errors # "TERMINATE" ~> future = "ready"

(* The destructor gets every worker to end, asleep or not.                 *)
DestroyJoins == caller = "join" ~> caller = "gone"

(* The pool is a fork-join executor.                                       *)
Phase ==
  CASE future = "none"    -> "idle"
    [] future = "pending" -> "running"
    [] future = "ready"   -> "done"

FJ == INSTANCE ForkJoin WITH phase <- Phase, runCount <- runs

ImplementsForkJoin == FJ!Spec
=============================================================================
