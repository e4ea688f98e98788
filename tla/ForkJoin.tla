------------------------------ MODULE ForkJoin ------------------------------
(***************************************************************************)
(* What a caller of the thread pool relies on: it hands over a batch of    *)
(* jobs, the batch runs, and the future it got back is resolved when, and  *)
(* only when, every job of the batch has been run exactly once.  Who runs  *)
(* a job, and in which order, is left open.                                *)
(***************************************************************************)
EXTENDS Naturals

CONSTANT MaxBatch  \* bound: jobs in a batch

VARIABLES
  phase,     \* "idle", "running" or "done": no future, unresolved, resolved
  runCount   \* how often each job of the batch has been run, by position

vars == <<phase, runCount>>

Init ==
  /\ phase = "idle"
  /\ runCount = <<>>

(* A new batch replaces a finished one: n jobs, none of them run.          *)
Submit ==
  /\ phase # "running"
  /\ phase' = "running"
  /\ \E n \in 1 .. MaxBatch : runCount' = [p \in 1..n |-> 0]

(* Some job that was not run before runs.                                  *)
RunJob ==
  /\ phase = "running"
  /\ \E p \in DOMAIN runCount :
       /\ runCount[p] = 0
       /\ runCount' = [runCount EXCEPT ![p] = 1]
  /\ UNCHANGED phase

Resolve ==
  /\ phase = "running"
  /\ \A p \in DOMAIN runCount : runCount[p] = 1
  /\ phase' = "done"
  /\ UNCHANGED runCount

Next == Submit \/ RunJob \/ Resolve

Spec == Init /\ [][Next]_vars
=============================================================================
