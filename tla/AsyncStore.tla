----------------------------- MODULE AsyncStore -----------------------------
(***************************************************************************)
(* What the rest of the server relies on when it hands an operation to a   *)
(* database and does not wait: the operation is executed once; operations  *)
(* with the same serial id (a character's saves, and the query that loads  *)
(* the character again) are executed in the order they were handed over;   *)
(* and the database does not close on an operation it has not executed.    *)
(* Nothing else is promised about the order.                               *)
(***************************************************************************)
EXTENDS Integers, Sequences

CONSTANT SerialIds   \* the serial ids in use; 0 stands for none

VARIABLES
  serials,  \* the serial id of each operation, in the order handed over
  runs,     \* how often each operation was executed
  open      \* operations are still executed

vars == <<serials, runs, open>>

Init ==
  /\ serials = <<>>
  /\ runs = <<>>
  /\ open = TRUE

Executed(n) == runs[n] > 0

(* Every earlier operation with the serial id s was executed.              *)
Turn(n, s) ==
  s # 0 => \A m \in 1 .. n - 1 : serials[m] = s => Executed(m)

Submit(s) ==
  /\ serials' = Append(serials, s)
  /\ runs' = Append(runs, 0)
  /\ UNCHANGED open

(* Handed over and executed at once.                                       *)
SubmitAndRun(s) ==
  /\ open
  /\ Turn(Len(serials) + 1, s)
  /\ serials' = Append(serials, s)
  /\ runs' = Append(runs, 1)
  /\ UNCHANGED open

Run(n) ==
  /\ open
  /\ runs[n] = 0
  /\ Turn(n, serials[n])
  /\ runs' = [runs EXCEPT ![n] = 1]
  /\ UNCHANGED <<serials, open>>

Close ==
  /\ \A n \in DOMAIN serials : runs[n] = 1
  /\ open' = FALSE
  /\ UNCHANGED <<serials, runs>>

Next ==
  \/ \E s \in SerialIds \cup {0} : Submit(s) \/ SubmitAndRun(s)
  \/ \E n \in DOMAIN serials : Run(n)
  \/ Close

Spec == Init /\ [][Next]_vars
=============================================================================
