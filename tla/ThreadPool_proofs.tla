-------------------------- MODULE ThreadPool_proofs --------------------------
(***************************************************************************)
(* For every number of workers, every batch and every way to set the pool  *)
(* up: a resolved future means that each job of the batch has been run     *)
(* exactly once, and the pool implements ForkJoin.                         *)
(*                                                                         *)
(* The argument.  A worker counts as engaged from the moment it is         *)
(* prepared until it has signed off; m_active is the number of engaged     *)
(* workers, so the worker that brings it to zero is alone.  Whatever       *)
(* position has been claimed (below the shared index, or passed by the     *)
(* stride of the worker it belongs to) has been run or is being run by an  *)
(* engaged worker, and a worker only stops when all the positions it could *)
(* claim are claimed.  With nobody engaged, all of them have been run.     *)
(***************************************************************************)
EXTENDS ThreadPool, FiniteSetTheorems, TLAPS

(* Prepared, and not signed off yet.                                       *)
Engaged == {w \in Workers : busy[w] \/ pc[w] = "signoff"}

Working == {"take", "run", "caught", "rest"}

Closing == {"last", "resolve"}

(* The worker whose turn position p is, when each one strides.             *)
Owner(p) == (p - 1) % Size

(* Nobody will take position p again.                                      *)
Claimed(p) ==
  IF mode.queue = "single" THEN p <= index ELSE p <= it[Owner(p)]

RunsIt(w, p) == pc[w] = "run" /\ cur[w] = p

(* Worker w has nothing left to claim.                                     *)
Through(w) ==
  \A p \in DOMAIN runs : mode.queue = "single" \/ Owner(p) = w => Claimed(p)

(* Where the controller is says how far the round is.                      *)
CallerInv ==
  /\ caller \in {"idle", "join", "gone"} => future # "pending"
  /\ caller = "prepare" => future = "pending" /\ status = "PROCESSING"
  /\ status = "PROCESSING" => future = "pending"
  /\ \A w \in Workers : pc[w] = "resolve" => status = "READY"
  /\ caller \in {"idle", "await"} /\ future = "ready" => status = "READY"
  /\ future = "pending" /\ (\A w \in Workers : pc[w] # "resolve") =>
       status \in {"PROCESSING", "TERMINATING"}
  /\ status = "READY" \/ caller = "prepare" => Size > 0
  /\ Len(workload) <= MaxBatch

EngagedInv ==
  /\ \A w \in Workers : pc[w] \in Working => busy[w]
  /\ \A w \in Workers :
       pc[w] \in {"signoff", "last", "resolve", "asleep"} => ~busy[w]
  /\ caller # "await" \/ future # "pending" =>
       Engaged = {} /\ \A w \in Workers : pc[w] \notin Closing
  /\ caller = "prepare" => active = WorkersNeeded(workload)
  /\ caller = "await" /\ future = "pending" => active = Cardinality(Engaged)
  /\ \A w \in Workers : pc[w] \in Closing =>
       Engaged = {} /\ \A v \in Workers : pc[v] \in Closing => v = w

(* The history of a round belongs to its workload, until that is cleared.  *)
RoundInv ==
  /\ future = "pending" /\ (\A w \in Workers : pc[w] # "resolve") =>
       Len(runs) = Len(workload)
  /\ \A w \in Workers :
       pc[w] \in {"run", "caught"} => cur[w] \in DOMAIN workload
  /\ caller = "prepare" => index = 0 /\ \A p \in DOMAIN runs : runs[p] = 0

(* What a worker may claim next, and what those who stopped left behind.   *)
StrideInv ==
  caller = "await" /\ future = "pending" =>
    /\ mode.queue = "multi" =>
         \A w \in Workers :
           /\ busy[w] => Owner(it[w] + 1) = w
           /\ busy[w] \/ Through(w) \/ status = "TERMINATING"
    /\ \A w \in Workers : pc[w] \in {"rest", "signoff", "last", "resolve"} =>
         Through(w) \/ status = "TERMINATING"
    /\ status = "TERMINATING" =>
         \E w \in Workers : pc[w] = "exited" /\ busy[w]

(* A claimed position has been run or is being run, by one worker.         *)
ClaimInv ==
  caller = "await" /\ future = "pending" =>
    /\ \A p \in DOMAIN runs : runs[p] \in {0, 1}
    /\ \A p \in DOMAIN runs : runs[p] = 1 => Claimed(p)
    /\ \A p \in DOMAIN runs :
         Claimed(p) =>
           \/ runs[p] = 1
           \/ \E w \in Workers : RunsIt(w, p)
           \/ status = "TERMINATING"
    /\ \A w \in Workers : pc[w] = "run" =>
         /\ cur[w] \in DOMAIN runs
         /\ Claimed(cur[w])
         /\ runs[cur[w]] = 0
         /\ \A v \in Workers : RunsIt(v, cur[w]) => v = w

DoneInv == future = "ready" => \A p \in DOMAIN runs : runs[p] = 1

IInv ==
  TypeOK /\ CallerInv /\ EngagedInv /\ RoundInv /\ StrideInv /\ ClaimInv /\ DoneInv

-----------------------------------------------------------------------------
(* Sequences and remainders.                                               *)

(* A sequence stays one when it is appended to or overwritten.             *)
LEMMA SeqFacts ==
  ASSUME NEW S, NEW s \in Seq(S), NEW e \in S
  PROVE  /\ <<>> \in Seq(S) /\ Len(<<>>) = 0
         /\ Append(s, e) \in Seq(S) /\ Len(Append(s, e)) = Len(s) + 1
         /\ <<e>> \in Seq(S) /\ Len(<<e>>) = 1
         /\ DOMAIN s = 1 .. Len(s) /\ Len(s) \in Nat
         /\ \A i \in DOMAIN s : s[i] \in S
  OBVIOUS

(* The history of a new batch counts no run for any of its positions.      *)
LEMMA NoRuns ==
  ASSUME NEW S, NEW s \in Seq(S)
  PROVE  LET r == [p \in DOMAIN s |-> 0]
         IN  r \in Seq(Nat) /\ Len(r) = Len(s) /\ \A p \in DOMAIN r : r[p] = 0
  OBVIOUS

(* Counting one more run of a position keeps the history's length.         *)
LEMMA OneMoreRun ==
  ASSUME NEW s \in Seq(Nat), NEW i \in DOMAIN s
  PROVE  LET r == [s EXCEPT ![i] = @ + 1]
         IN  /\ r \in Seq(Nat) /\ Len(r) = Len(s) /\ DOMAIN r = DOMAIN s
             /\ r[i] = s[i] + 1
             /\ \A p \in DOMAIN s : p # i => r[p] = s[p]
  OBVIOUS

(* Quotient and remainder, and the remainder's uniqueness.                 *)
LEMMA Division ==
  ASSUME NEW S \in Nat \ {0}, NEW a \in Nat
  PROVE  a \div S \in Int /\ a % S \in 0 .. S - 1 /\ a = (S * (a \div S)) + (a % S)
  BY SMTT(30)

(* A quotient and a remainder that fit are the ones there are.             *)
LEMMA Remainder ==
  ASSUME NEW S \in Nat \ {0}, NEW a \in Nat, NEW q \in Int, NEW r \in 0 .. S - 1,
         a = (S * q) + r
  PROVE  a % S = r
  BY SMTT(30)

(* A number below S is its own remainder.                                  *)
LEMMA SmallRemainder ==
  ASSUME NEW S \in Nat \ {0}, NEW a \in 0 .. S - 1
  PROVE  a % S = a
  BY SMTT(30)

(* A positive multiple of S is not below S.                                *)
LEMMA Multiple ==
  ASSUME NEW S \in Nat \ {0}, NEW k \in Int, k >= 1
  PROVE  S * k >= S /\ S * (-k) = -(S * k)
  BY SMTT(30)

(* Multiples of S are subtracted like their factors.                       *)
LEMMA Distribute ==
  ASSUME NEW S \in Nat, NEW k \in Int, NEW l \in Int
  PROVE  (S * k) - (S * l) = S * (k - l)
  BY SMTT(30)

(* A remainder does not exceed the number.                                 *)
LEMMA RemainderBelow ==
  ASSUME NEW S \in Nat \ {0}, NEW a \in Nat
  PROVE  a % S <= a
<1>1. CASE a < S
  BY <1>1, SmallRemainder
<1>2. CASE a >= S
  BY <1>2, Division
<1> QED
  BY <1>1, <1>2

(* A stride of S keeps the remainder ...                                   *)
LEMMA StrideKeepsRemainder ==
  ASSUME NEW S \in Nat \ {0}, NEW a \in Nat
  PROVE  (a + S) % S = a % S
<1> DEFINE q == a \div S  r == a % S
<1>1. q \in Int /\ r \in 0 .. S - 1 /\ a = (S * q) + r
  BY Division
<1> HIDE DEF q, r
<1>2. S * (q + 1) = (S * q) + S
  BY <1>1, SMTT(30)
<1>3. a + S = (S * (q + 1)) + r
  BY <1>1, <1>2
<1>4. (a + S) % S = r
  BY <1>1, <1>3, Remainder
<1> QED
  BY <1>4 DEF r

(* ... and no number it jumps over has the same one.                       *)
LEMMA StrideSkipsNone ==
  ASSUME NEW S \in Nat \ {0}, NEW a \in Nat, NEW b \in Nat,
         a % S = b % S, a <= b, b < a + S
  PROVE  a = b
<1> DEFINE k == (b \div S) - (a \div S)
<1>1. a \div S \in Int /\ b \div S \in Int /\ k \in Int
  BY Division
<1>2. b - a = S * k
  <2> DEFINE x == S * (b \div S)  y == S * (a \div S)  m == a % S
  <2>1. b = x + m /\ a = y + m /\ x \in Int /\ y \in Int /\ m \in Int
    BY Division
  <2>2. x - y = S * k
    BY <1>1, Distribute
  <2> HIDE DEF x, y, m, k
  <2> QED
    BY <2>1, <2>2
<1>3. ~(k >= 1) /\ ~(-k >= 1)
  <2>1. k >= 1 => S * k >= S
    BY <1>1, Multiple
  <2>2. -k >= 1 => S * (-k) >= S /\ S * k = -(S * (-k))
    BY <1>1, Multiple
  <2> HIDE DEF k
  <2> QED
    BY <1>1, <1>2, <2>1, <2>2
<1>4. k = 0
  BY <1>1, <1>3
<1> HIDE DEF k
<1> QED
  BY <1>2, <1>4

-----------------------------------------------------------------------------
(* Whose turn the position after k is.                                     *)
LEMMA OwnerOfNext ==
  ASSUME NEW k \in Nat
  PROVE  Owner(k + 1) = k % Size
<1>1. (k + 1) - 1 = k
  OBVIOUS
<1> QED
  BY <1>1 DEF Owner

(* What the invariant says of a single worker.                             *)

(* The workers are finitely many.                                          *)
LEMMA WorkersFinite ==
  IsFiniteSet(Workers) /\ IsFiniteSet(Engaged)
<1>1. IsFiniteSet(Workers)
  BY PoolAssumption, FS_Interval DEF Workers
<1>2. Engaged \subseteq Workers
  BY DEF Engaged
<1> QED
  BY <1>1, <1>2, FS_Subset

(* A worker on its way through a round: the round is on, and nobody is     *)
(* closing it.                                                             *)
LEMMA OnItsWay ==
  ASSUME IInv, NEW w \in Workers, busy[w] \/ pc[w] \in Working \cup {"signoff"}
  PROVE  /\ caller = "await" /\ future = "pending"
         /\ w \in Engaged
         /\ \A v \in Workers : pc[v] \notin Closing
         /\ Len(runs) = Len(workload) /\ DOMAIN runs = DOMAIN workload
         /\ Size \in Nat \ {0}
<1>1. w \in Engaged
  BY DEF IInv, EngagedInv, Engaged
<1>2. caller = "await" /\ future = "pending"
  BY <1>1 DEF IInv, EngagedInv, CallerInv, TypeOK
<1>3. \A v \in Workers : pc[v] \notin Closing
  BY <1>1 DEF IInv, EngagedInv
<1>4. Len(runs) = Len(workload)
  BY <1>2, <1>3 DEF IInv, RoundInv, Closing
<1>5. DOMAIN runs = DOMAIN workload
  BY <1>4 DEF IInv, TypeOK
<1>6. Size \in Nat \ {0}
  BY PoolAssumption DEF Workers
<1> QED
  BY <1>1, <1>2, <1>3, <1>4, <1>5, <1>6

(* The worker that closes a round: everybody is through, so every position *)
(* has been run.                                                           *)
LEMMA ClosesFinishedRound ==
  ASSUME IInv, NEW w \in Workers, pc[w] \in Closing
  PROVE  /\ caller = "await" /\ future = "pending"
         /\ Engaged = {} /\ status # "TERMINATING"
         /\ \A v \in Workers : pc[v] \in Closing => v = w
         /\ \A v \in Workers : ~busy[v] /\ pc[v] \notin Working \cup {"signoff"}
         /\ \A p \in DOMAIN runs : runs[p] = 1
<1>1. caller = "await" /\ future = "pending"
  BY DEF IInv, EngagedInv
<1>2. Engaged = {} /\ \A v \in Workers : pc[v] \in Closing => v = w
  BY DEF IInv, EngagedInv
<1>3. \A v \in Workers : ~busy[v] /\ pc[v] \notin Working \cup {"signoff"}
  BY <1>2 DEF IInv, EngagedInv, Engaged
<1>4. status # "TERMINATING"
  BY <1>1, <1>3 DEF IInv, StrideInv
<1>5. ASSUME NEW p \in DOMAIN runs
      PROVE  Claimed(p)
  <2>1. Through(w)
    BY <1>1, <1>4 DEF IInv, StrideInv, Closing
  <2>2. CASE mode.queue = "single"
    BY <2>1, <2>2 DEF Through
  <2>3. CASE mode.queue = "multi"
    <3>1. Owner(p) \in Workers
      <4>1. Size \in Nat \ {0} /\ p - 1 \in Nat
        BY PoolAssumption DEF Workers, IInv, TypeOK
      <4> QED
        BY <4>1, Division DEF Owner, Workers
    <3>2. Through(Owner(p))
      BY <1>1, <1>3, <1>4, <2>3, <3>1 DEF IInv, StrideInv
    <3> QED
      BY <3>2 DEF Through
  <2> QED
    BY <2>2, <2>3, PoolAssumption DEF IInv, TypeOK, PoolMode
<1>6. \A p \in DOMAIN runs : runs[p] = 1
  BY <1>1, <1>3, <1>4, <1>5 DEF IInv, ClaimInv, RunsIt, Working
<1> QED
  BY <1>1, <1>2, <1>3, <1>4, <1>6

-----------------------------------------------------------------------------
(* Each step keeps the invariant.                                          *)

(* start() only lets workers appear.                                       *)
LEMMA StartStep ==
  ASSUME IInv, Start
  PROVE  IInv'
<1> USE DEF Start, Goto, NotifyAll, history, claims, load, outcome
<1>1. TypeOK'
  BY DEF IInv, TypeOK
<1>2. CallerInv'
  BY DEF IInv, CallerInv, TypeOK
<1>3. EngagedInv'
  <2>1. Engaged' = Engaged
    BY DEF IInv, TypeOK, EngagedInv, Engaged, Working
  <2> QED
    BY <2>1 DEF IInv, TypeOK, EngagedInv, CallerInv, Working, Closing, WorkersNeeded
<1>4. RoundInv'
  BY DEF IInv, TypeOK, CallerInv, RoundInv, EngagedInv, Closing
<1>5. /\ \A p : Claimed(p)' = Claimed(p)
      /\ \A v : Through(v)' = Through(v)
      /\ \A p : \A v \in Workers : RunsIt(v, p)' <=> RunsIt(v, p)
  BY DEF IInv, TypeOK, Claimed, Owner, Through, RunsIt, EngagedInv, CallerInv,
         Engaged, Working
<1>6. StrideInv'
  BY <1>5 DEF IInv, TypeOK, CallerInv, StrideInv, Owner
<1>7. ClaimInv'
  BY <1>5 DEF IInv, TypeOK, CallerInv, ClaimInv, RunsIt
<1>8. DoneInv'
  BY DEF IInv, DoneInv
<1> QED
  BY <1>1, <1>2, <1>3, <1>4, <1>6, <1>7, <1>8 DEF IInv

(* The controller sees its future resolved.                                *)
LEMMA AwaitStep ==
  ASSUME IInv, Await
  PROVE  IInv'
<1> USE DEF Await, Goto, NotifyAll, history, claims, load, outcome
<1>1. TypeOK'
  BY DEF IInv, TypeOK
<1>2. CallerInv'
  BY DEF IInv, CallerInv, TypeOK
<1>3. EngagedInv'
  <2>1. Engaged' = Engaged
    BY DEF IInv, TypeOK, EngagedInv, Engaged, Working
  <2> QED
    BY <2>1 DEF IInv, TypeOK, EngagedInv, CallerInv, Working, Closing, WorkersNeeded
<1>4. RoundInv'
  BY DEF IInv, TypeOK, CallerInv, RoundInv, EngagedInv, Closing
<1>5. /\ \A p : Claimed(p)' = Claimed(p)
      /\ \A v : Through(v)' = Through(v)
      /\ \A p : \A v \in Workers : RunsIt(v, p)' <=> RunsIt(v, p)
  BY DEF IInv, TypeOK, Claimed, Owner, Through, RunsIt
<1>6. StrideInv'
  BY <1>5 DEF IInv, TypeOK, CallerInv, StrideInv, Owner
<1>7. ClaimInv'
  BY <1>5 DEF IInv, TypeOK, CallerInv, ClaimInv, RunsIt
<1>8. DoneInv'
  BY DEF IInv, DoneInv
<1> QED
  BY <1>1, <1>2, <1>3, <1>4, <1>6, <1>7, <1>8 DEF IInv

(* The destructor starts when no round is on.                              *)
LEMMA DestroyStep ==
  ASSUME IInv, Destroy
  PROVE  IInv'
<1> USE DEF Destroy, Goto, NotifyAll, history, claims, load, outcome
<1>1. TypeOK'
  BY DEF IInv, TypeOK
<1>2. CallerInv'
  <2>1. \A v \in Workers : pc[v] \notin Closing
    BY DEF IInv, EngagedInv
  <2>2. \A v \in Workers : pc'[v] # "resolve"
    BY <2>1 DEF IInv, TypeOK, Closing
  <2> QED
    BY <2>2 DEF IInv, CallerInv, TypeOK
<1>3. EngagedInv'
  <2>1. Engaged' = Engaged
    BY DEF IInv, TypeOK, EngagedInv, Engaged, Working
  <2> QED
    BY <2>1 DEF IInv, TypeOK, EngagedInv, CallerInv, Working, Closing, WorkersNeeded
<1>4. RoundInv'
  BY DEF IInv, TypeOK, CallerInv, RoundInv, EngagedInv, Closing
<1>5. /\ \A p : Claimed(p)' = Claimed(p)
      /\ \A v : Through(v)' = Through(v)
      /\ \A p : \A v \in Workers : RunsIt(v, p)' <=> RunsIt(v, p)
  BY DEF IInv, TypeOK, Claimed, Owner, Through, RunsIt
<1>6. StrideInv'
  BY <1>5 DEF IInv, TypeOK, CallerInv, StrideInv, Owner
<1>7. ClaimInv'
  BY <1>5 DEF IInv, TypeOK, CallerInv, ClaimInv, RunsIt
<1>8. DoneInv'
  BY DEF IInv, DoneInv
<1> QED
  BY <1>1, <1>2, <1>3, <1>4, <1>6, <1>7, <1>8 DEF IInv

(* The destructor ends.                                                    *)
LEMMA JoinedStep ==
  ASSUME IInv, Joined
  PROVE  IInv'
<1> USE DEF Joined, Goto, NotifyAll, history, claims, load, outcome
<1>1. TypeOK'
  BY DEF IInv, TypeOK
<1>2. CallerInv'
  BY DEF IInv, CallerInv, TypeOK
<1>3. EngagedInv'
  <2>1. Engaged' = Engaged
    BY DEF IInv, TypeOK, EngagedInv, Engaged, Working
  <2> QED
    BY <2>1 DEF IInv, TypeOK, EngagedInv, CallerInv, Working, Closing, WorkersNeeded
<1>4. RoundInv'
  BY DEF IInv, TypeOK, CallerInv, RoundInv, EngagedInv, Closing
<1>5. /\ \A p : Claimed(p)' = Claimed(p)
      /\ \A v : Through(v)' = Through(v)
      /\ \A p : \A v \in Workers : RunsIt(v, p)' <=> RunsIt(v, p)
  BY DEF IInv, TypeOK, Claimed, Owner, Through, RunsIt
<1>6. StrideInv'
  BY <1>5 DEF IInv, TypeOK, CallerInv, StrideInv, Owner
<1>7. ClaimInv'
  BY <1>5 DEF IInv, TypeOK, CallerInv, ClaimInv, RunsIt
<1>8. DoneInv'
  BY DEF IInv, DoneInv
<1> QED
  BY <1>1, <1>2, <1>3, <1>4, <1>6, <1>7, <1>8 DEF IInv

(* A worker tests the predicate it waits for.                              *)
LEMMA WaitStep ==
  ASSUME IInv, NEW w \in Workers, WaitForWork(w)
  PROVE  IInv'
<1> USE DEF WaitForWork, Goto, NotifyAll, history, claims, load, outcome
<1>1. TypeOK'
  BY DEF IInv, TypeOK
<1>2. CallerInv'
  BY DEF IInv, CallerInv, TypeOK
<1>3. EngagedInv'
  <2>1. Engaged' = Engaged
    BY DEF IInv, TypeOK, EngagedInv, Engaged, Working
  <2>2. \A v \in Workers : pc'[v] \in Closing <=> pc[v] \in Closing
    BY DEF IInv, TypeOK, Closing
  <2>3. \A v \in Workers : pc'[v] \in Working => busy[v]
    BY DEF IInv, TypeOK, EngagedInv, Working
  <2>4. \A v \in Workers :
          pc'[v] \in {"signoff", "last", "resolve", "asleep"} => ~busy[v]
    BY DEF IInv, TypeOK, EngagedInv
  <2> QED
    BY <2>1, <2>2, <2>3, <2>4 DEF IInv, EngagedInv, WorkersNeeded
<1>4. RoundInv'
  BY DEF IInv, TypeOK, CallerInv, RoundInv, EngagedInv, Closing
<1>5. /\ \A p : Claimed(p)' = Claimed(p)
      /\ \A v : Through(v)' = Through(v)
      /\ \A p : \A v \in Workers : RunsIt(v, p)' <=> RunsIt(v, p)
  BY DEF IInv, TypeOK, Claimed, Owner, Through, RunsIt
<1>6. StrideInv'
  BY <1>5 DEF IInv, TypeOK, CallerInv, StrideInv, Owner
<1>7. ClaimInv'
  <2>1. \A v \in Workers : pc'[v] = "run" <=> pc[v] = "run"
    BY DEF IInv, TypeOK
  <2> QED
    BY <1>5, <2>1 DEF IInv, ClaimInv
<1>8. DoneInv'
  BY DEF IInv, DoneInv
<1> QED
  BY <1>1, <1>2, <1>3, <1>4, <1>6, <1>7, <1>8 DEF IInv

(* A worker wakes for no reason.                                           *)
LEMMA WakeStep ==
  ASSUME IInv, NEW w \in Workers, SpuriousWake(w)
  PROVE  IInv'
<1> USE DEF SpuriousWake, Goto, NotifyAll, history, claims, load, outcome
<1>1. TypeOK'
  BY DEF IInv, TypeOK
<1>2. CallerInv'
  BY DEF IInv, CallerInv, TypeOK
<1>3. EngagedInv'
  <2>1. Engaged' = Engaged
    BY DEF IInv, TypeOK, EngagedInv, Engaged, Working
  <2> QED
    BY <2>1 DEF IInv, TypeOK, EngagedInv, CallerInv, Working, Closing, WorkersNeeded
<1>4. RoundInv'
  BY DEF IInv, TypeOK, CallerInv, RoundInv, EngagedInv, Closing
<1>5. /\ \A p : Claimed(p)' = Claimed(p)
      /\ \A v : Through(v)' = Through(v)
      /\ \A p : \A v \in Workers : RunsIt(v, p)' <=> RunsIt(v, p)
  BY DEF IInv, TypeOK, Claimed, Owner, Through, RunsIt
<1>6. StrideInv'
  BY <1>5 DEF IInv, TypeOK, CallerInv, StrideInv, Owner
<1>7. ClaimInv'
  BY <1>5 DEF IInv, TypeOK, CallerInv, ClaimInv, RunsIt
<1>8. DoneInv'
  BY DEF IInv, DoneInv
<1> QED
  BY <1>1, <1>2, <1>3, <1>4, <1>6, <1>7, <1>8 DEF IInv

(* A processed workload is dropped between rounds.                         *)
LEMMA SubmitNothingStep ==
  ASSUME IInv, SubmitNothing
  PROVE  IInv'
<1> USE DEF SubmitNothing, history, claims, load, outcome
<1>1. caller = "idle" /\ future # "pending" /\ Engaged = {}
  BY DEF IInv, CallerInv, EngagedInv
<1>2. \A v \in Workers : ~busy[v] /\ pc[v] \notin Working \cup Closing \cup {"signoff"}
  BY <1>1 DEF IInv, EngagedInv, Engaged
<1>3. TypeOK' /\ Len(workload') <= MaxBatch
  <2>1. workload' \in Seq(Jobs) /\ Len(workload') = 0
    OBVIOUS
  <2>2. dirty' \in BOOLEAN
    OBVIOUS
  <2> QED
    BY <2>1, <2>2, PoolAssumption DEF IInv, TypeOK
<1>4. CallerInv'
  BY <1>1, <1>3 DEF IInv, CallerInv
<1>5. EngagedInv'
  BY <1>1, <1>2 DEF IInv, EngagedInv, Engaged
<1>6. RoundInv'
  BY <1>1, <1>2 DEF RoundInv, Working
<1>7. StrideInv' /\ ClaimInv'
  BY <1>1 DEF StrideInv, ClaimInv
<1>8. DoneInv'
  BY DEF IInv, DoneInv
<1> QED
  BY <1>3, <1>4, <1>5, <1>6, <1>7, <1>8 DEF IInv

(* A job is appended between rounds.                                       *)
LEMMA AppendStep ==
  ASSUME IInv, Append1
  PROVE  IInv'
<1> USE DEF Append1, history, claims, load, outcome
<1>1. caller = "idle" /\ future # "pending" /\ Engaged = {}
  BY DEF IInv, CallerInv, EngagedInv
<1>2. \A v \in Workers : ~busy[v] /\ pc[v] \notin Working \cup Closing \cup {"signoff"}
  BY <1>1 DEF IInv, EngagedInv, Engaged
<1>3. TypeOK' /\ Len(workload') <= MaxBatch
  <2>1. handed + 1 \in Jobs /\ handed' \in 0 .. MaxJobs
    BY PoolAssumption DEF IInv, TypeOK, Jobs
  <2>2. workload' \in Seq(Jobs) /\ Len(workload') <= MaxBatch
    <3>1. workload \in Seq(Jobs) /\ 1 <= MaxBatch /\ MaxBatch \in Nat
      BY PoolAssumption DEF IInv, TypeOK
    <3>2. CASE StaleWorkload
      <4>1. workload' = <<handed + 1>>
        BY <3>2
      <4>2. <<handed + 1>> \in Seq(Jobs) /\ Len(<<handed + 1>>) = 1
        BY <2>1, <3>1, SeqFacts
      <4> QED
        BY <3>1, <4>1, <4>2
    <3>3. CASE ~StaleWorkload
      <4>1. workload' = Append(workload, handed + 1) /\ Len(workload) < MaxBatch
        BY <3>3
      <4>2. Append(workload, handed + 1) \in Seq(Jobs)
        BY <2>1, <3>1, SeqFacts
      <4>3. Len(Append(workload, handed + 1)) = Len(workload) + 1
        BY <2>1, <3>1, SeqFacts
      <4> QED
        BY <3>1, <4>1, <4>2, <4>3
    <3> QED
      BY <3>2, <3>3
  <2>3. dirty' \in BOOLEAN
    BY DEF IInv, TypeOK
  <2> QED
    BY <2>1, <2>2, <2>3 DEF IInv, TypeOK
<1>4. CallerInv'
  BY <1>1, <1>3 DEF IInv, CallerInv
<1>5. EngagedInv'
  BY <1>1, <1>2 DEF IInv, EngagedInv, Engaged
<1>6. RoundInv'
  BY <1>1, <1>2 DEF RoundInv, Working
<1>7. StrideInv' /\ ClaimInv'
  BY <1>1 DEF StrideInv, ClaimInv
<1>8. DoneInv'
  BY DEF IInv, DoneInv
<1> QED
  BY <1>3, <1>4, <1>5, <1>6, <1>7, <1>8 DEF IInv

(* A round begins: no job of it has been run, and nobody is engaged yet.   *)
LEMMA BeginStep ==
  ASSUME IInv, caller = "idle", status = "READY", NEW s \in Seq(Jobs), Len(s) <= MaxBatch,
         BeginRound(s), handed' \in 0 .. MaxJobs
  PROVE  IInv'
<1> USE DEF BeginRound
<1>1. future # "pending" /\ Engaged = {}
  BY DEF IInv, CallerInv, EngagedInv
<1>2. \A v \in Workers : ~busy[v] /\ pc[v] \notin Working \cup Closing \cup {"signoff"}
  BY <1>1 DEF IInv, EngagedInv, Engaged
<1>3. runs' \in Seq(Nat) /\ Len(runs') = Len(s) /\ \A p \in DOMAIN runs' : runs'[p] = 0
  BY NoRuns
<1>4. TypeOK'
  <2>1. active' \in 0 .. Size
    BY PoolAssumption DEF WorkersNeeded
  <2>2. batch' \subseteq Jobs /\ spent' \subseteq Jobs
    BY SeqFacts DEF IInv, TypeOK, Elems
  <2> QED
    BY <1>3, <2>1, <2>2 DEF IInv, TypeOK
<1>5. CallerInv'
  BY <1>2 DEF IInv, CallerInv, Closing
<1>6. EngagedInv'
  BY <1>1, <1>2 DEF IInv, EngagedInv, Engaged, WorkersNeeded
<1>7. RoundInv'
  BY <1>2, <1>3 DEF RoundInv, Working
<1>8. StrideInv' /\ ClaimInv' /\ DoneInv'
  BY DEF StrideInv, ClaimInv, DoneInv
<1> QED
  BY <1>4, <1>5, <1>6, <1>7, <1>8 DEF IInv

(* The appended jobs are a round ...                                       *)
LEMMA SubmitAppendedStep ==
  ASSUME IInv, SubmitAppended
  PROVE  IInv'
<1>1. workload \in Seq(Jobs) /\ Len(workload) <= MaxBatch /\ handed' \in 0 .. MaxJobs
  BY DEF IInv, TypeOK, CallerInv, SubmitAppended
<1> QED
  BY <1>1, BeginStep DEF SubmitAppended

(* ... and so is the vector of a caller.                                   *)
LEMMA SubmitVectorStep ==
  ASSUME IInv, NEW n \in 1 .. MaxBatch, SubmitVector(n)
  PROVE  IInv'
<1> DEFINE s == [p \in 1..n |-> handed + p]
<1>1. handed' \in 0 .. MaxJobs /\ handed \in Nat /\ n \in Nat /\ handed + n <= MaxJobs
  BY PoolAssumption DEF IInv, TypeOK, SubmitVector
<1>2. \A p \in 1 .. n : handed + p \in Jobs
  BY <1>1, PoolAssumption DEF Jobs
<1>3. s \in Seq(Jobs) /\ Len(s) <= MaxBatch
  BY <1>1, <1>2, PoolAssumption
<1> QED
  BY <1>1, <1>3, BeginStep DEF SubmitVector

(* The flag is lowered: the worker stays engaged until it has signed off.  *)
LEMMA RestStep ==
  ASSUME IInv, NEW w \in Workers, Rest(w)
  PROVE  IInv'
<1> USE DEF Rest, Goto, history, claims, load, outcome
<1>1. /\ caller = "await" /\ future = "pending" /\ w \in Engaged
      /\ \A v \in Workers : pc[v] \notin Closing
      /\ Len(runs) = Len(workload) /\ DOMAIN runs = DOMAIN workload
      /\ Size \in Nat \ {0}
  BY OnItsWay DEF Working
<1>2. TypeOK'
  BY DEF IInv, TypeOK
<1>3. CallerInv'
  BY DEF IInv, CallerInv
<1>4. EngagedInv'
  <2>1. Engaged' = Engaged
    BY DEF IInv, TypeOK, EngagedInv, Engaged, Working
  <2>2. \A v \in Workers : pc'[v] \in Closing <=> pc[v] \in Closing
    BY DEF IInv, TypeOK, Closing
  <2>3. \A v \in Workers : pc'[v] \in Working => busy'[v]
    BY DEF IInv, TypeOK, EngagedInv, Working
  <2>4. \A v \in Workers :
          pc'[v] \in {"signoff", "last", "resolve", "asleep"} => ~busy'[v]
    BY DEF IInv, TypeOK, EngagedInv
  <2> QED
    BY <1>1, <2>1, <2>2, <2>3, <2>4 DEF IInv, EngagedInv, WorkersNeeded
<1>5. RoundInv'
  BY <1>1 DEF IInv, TypeOK, RoundInv
<1>6. /\ \A p : Claimed(p)' = Claimed(p)
      /\ \A v : Through(v)' = Through(v)
      /\ \A p : \A v \in Workers : RunsIt(v, p)' <=> RunsIt(v, p)
  BY DEF IInv, TypeOK, Claimed, Owner, Through, RunsIt
<1>7. StrideInv'
  <2>1. Through(w) \/ status = "TERMINATING"
    BY <1>1 DEF IInv, StrideInv
  <2>2. status = "TERMINATING" =>
          \E v \in Workers : v # w /\ pc[v] = "exited" /\ busy[v]
    BY <1>1 DEF IInv, StrideInv
  <2>3. status = "TERMINATING" => \E v \in Workers : pc'[v] = "exited" /\ busy'[v]
    BY <2>2 DEF IInv, TypeOK
  <2> QED
    BY <1>1, <1>6, <2>1, <2>3 DEF IInv, TypeOK, StrideInv, Owner
<1>8. ClaimInv'
  BY <1>6 DEF IInv, TypeOK, CallerInv, ClaimInv, RunsIt
<1>9. DoneInv'
  BY DEF IInv, DoneInv
<1> QED
  BY <1>2, <1>3, <1>4, <1>5, <1>7, <1>8, <1>9 DEF IInv

(* Signing off: m_active stays the number of engaged workers, and whoever   *)
(* brings it to zero is the only one to close the round.                   *)
LEMMA SignOffStep ==
  ASSUME IInv, NEW w \in Workers, SignOff(w)
  PROVE  IInv'
<1> USE DEF SignOff, Goto, history, claims, load, outcome
<1>1. /\ caller = "await" /\ future = "pending" /\ w \in Engaged
      /\ \A v \in Workers : pc[v] \notin Closing
      /\ Len(runs) = Len(workload) /\ DOMAIN runs = DOMAIN workload
      /\ Size \in Nat \ {0}
  BY OnItsWay DEF Working
<1>2. active = Cardinality(Engaged) /\ ~busy[w]
  BY <1>1 DEF IInv, EngagedInv
<1>3. Engaged' = Engaged \ {w}
  BY <1>2 DEF IInv, TypeOK, Engaged
<1>4. /\ active' = Cardinality(Engaged')
      /\ active' \in 0 .. Size
      /\ active' = 0 => Engaged' = {}
  <2>1. IsFiniteSet(Engaged)
    BY WorkersFinite
  <2>2. Cardinality(Engaged \ {w}) = Cardinality(Engaged) - 1
    BY <1>1, <2>1, FS_RemoveElement
  <2>3. IsFiniteSet(Engaged \ {w}) /\ Cardinality(Engaged \ {w}) \in Nat
    BY <2>1, FS_RemoveElement, FS_CardinalityType
  <2>4. Cardinality(Engaged \ {w}) = 0 => Engaged \ {w} = {}
    BY <2>3, FS_EmptySet
  <2> QED
    BY <1>1, <1>2, <1>3, <2>2, <2>3, <2>4 DEF IInv, TypeOK
<1>5. TypeOK'
  BY <1>4 DEF IInv, TypeOK
<1>6. CallerInv'
  BY DEF IInv, CallerInv
<1>7. EngagedInv'
  <2>1. \A v \in Workers : pc'[v] \in Closing => v = w /\ active' = 0
    BY <1>1 DEF IInv, TypeOK, Closing
  <2>2. \A v \in Workers : pc'[v] \in Working => busy'[v]
    BY DEF IInv, TypeOK, EngagedInv, Working
  <2>3. \A v \in Workers :
          pc'[v] \in {"signoff", "last", "resolve", "asleep"} => ~busy'[v]
    BY <1>2 DEF IInv, TypeOK, EngagedInv
  <2> QED
    BY <1>1, <1>4, <2>1, <2>2, <2>3 DEF EngagedInv
<1>8. RoundInv'
  BY <1>1 DEF IInv, TypeOK, RoundInv
<1>9. /\ \A p : Claimed(p)' = Claimed(p)
      /\ \A v : Through(v)' = Through(v)
      /\ \A p : \A v \in Workers : RunsIt(v, p)' <=> RunsIt(v, p)
  BY DEF IInv, TypeOK, Claimed, Owner, Through, RunsIt
<1>10. StrideInv'
  BY <1>1, <1>9 DEF IInv, TypeOK, StrideInv, Owner
<1>11. ClaimInv'
  BY <1>9 DEF IInv, TypeOK, CallerInv, ClaimInv, RunsIt
<1>12. DoneInv'
  BY DEF IInv, DoneInv
<1> QED
  BY <1>5, <1>6, <1>7, <1>8, <1>10, <1>11, <1>12 DEF IInv

(* The round is closed: the pool is ready, its workload perhaps cleared.   *)
LEMMA MakeReadyStep ==
  ASSUME IInv, NEW w \in Workers, MakeReady(w)
  PROVE  IInv'
<1> USE DEF MakeReady, Goto, history, claims, load, outcome
<1>1. /\ caller = "await" /\ future = "pending" /\ Engaged = {}
      /\ status # "TERMINATING"
      /\ \A v \in Workers : pc[v] \in Closing => v = w
      /\ \A v \in Workers : ~busy[v] /\ pc[v] \notin Working \cup {"signoff"}
      /\ \A p \in DOMAIN runs : runs[p] = 1
  BY ClosesFinishedRound DEF Closing
<1>2. workload' \in Seq(Jobs) /\ Len(workload') <= MaxBatch /\ dirty' \in BOOLEAN
  <2>1. CASE workload' = <<>> /\ dirty' = FALSE
    <3>1. workload' \in Seq(Jobs) /\ Len(workload') = 0
      BY <2>1
    <3>2. 0 <= MaxBatch
      BY PoolAssumption
    <3> HIDE DEF MakeReady
    <3> QED
      BY <2>1, <3>1, <3>2
  <2>2. CASE UNCHANGED load
    BY <2>2 DEF IInv, TypeOK, CallerInv
  <2> QED
    BY <2>1, <2>2
<1>3. TypeOK'
  BY <1>2 DEF IInv, TypeOK
<1>4. CallerInv'
  <2>1. Size > 0
    BY PoolAssumption DEF Workers
  <2> QED
    BY <1>1, <1>2, <2>1 DEF IInv, CallerInv, TypeOK
<1>5. EngagedInv'
  <2>1. Engaged' = Engaged
    BY <1>1 DEF IInv, TypeOK, Engaged
  <2>2. \A v \in Workers : pc'[v] \in Closing <=> pc[v] \in Closing
    BY DEF IInv, TypeOK, Closing
  <2>3. \A v \in Workers : pc'[v] \notin Working
    BY <1>1 DEF IInv, TypeOK, Working
  <2> QED
    BY <1>1, <2>1, <2>2, <2>3 DEF IInv, EngagedInv
<1>6. RoundInv'
  <2>1. pc'[w] = "resolve"
    BY DEF IInv, TypeOK
  <2>2. \A v \in Workers : pc'[v] \notin {"run", "caught"}
    BY <1>1 DEF IInv, TypeOK, Working
  <2> QED
    BY <1>1, <2>1, <2>2 DEF RoundInv
<1>7. /\ \A p : Claimed(p)' = Claimed(p)
      /\ \A v : Through(v)' = Through(v)
  BY DEF Claimed, Owner, Through
<1>8. StrideInv'
  BY <1>1, <1>7 DEF IInv, TypeOK, StrideInv, Owner
<1>9. ClaimInv'
  <2>1. \A v \in Workers : pc'[v] # "run"
    BY <1>1 DEF IInv, TypeOK, Working
  <2> QED
    BY <1>1, <1>7, <2>1 DEF IInv, ClaimInv
<1>10. DoneInv'
  BY DEF IInv, DoneInv
<1> QED
  BY <1>3, <1>4, <1>5, <1>6, <1>8, <1>9, <1>10 DEF IInv

(* The promise is resolved when every job has been run.                    *)
LEMMA ResolveStep ==
  ASSUME IInv, NEW w \in Workers, Resolve(w)
  PROVE  IInv'
<1> USE DEF Resolve, Goto, history, claims, load
<1>1. /\ caller = "await" /\ future = "pending" /\ Engaged = {}
      /\ \A v \in Workers : pc[v] \in Closing => v = w
      /\ \A v \in Workers : ~busy[v] /\ pc[v] \notin Working \cup {"signoff"}
      /\ \A p \in DOMAIN runs : runs[p] = 1
  BY ClosesFinishedRound DEF Closing
<1>2. TypeOK'
  BY DEF IInv, TypeOK
<1>3. \A v \in Workers :
        pc'[v] \notin Working \cup Closing \cup {"signoff"} /\ ~busy'[v]
  BY <1>1 DEF IInv, TypeOK, Working, Closing
<1>4. CallerInv'
  BY <1>1 DEF IInv, CallerInv
<1>5. EngagedInv'
  BY <1>1, <1>3 DEF EngagedInv, Engaged
<1>6. RoundInv' /\ StrideInv' /\ ClaimInv' /\ DoneInv'
  BY <1>1, <1>3 DEF RoundInv, StrideInv, ClaimInv, DoneInv, Working
<1> QED
  BY <1>2, <1>4, <1>5, <1>6 DEF IInv

(* A worker takes position i, which nobody has claimed ...                 *)
LEMMA TakesPosition ==
  ASSUME IInv, NEW w \in Workers, pc[w] = "take",
         NEW i \in DOMAIN runs, ~Claimed(i),
         index' \in Nat, it' \in [Workers -> Nat],
         \A p \in DOMAIN runs : Claimed(p)' <=> Claimed(p) \/ p = i,
         mode.queue = "multi" => \A v \in Workers : busy[v] => Owner(it'[v] + 1) = v,
         cur' = [cur EXCEPT ![w] = i], pc' = [pc EXCEPT ![w] = "run"],
         UNCHANGED <<status, active, busy, caller, history, load, outcome>>
  PROVE  IInv'
<1> USE DEF history, load, outcome
<1>0. i \in Nat
  BY DEF IInv, TypeOK
<1>1. /\ caller = "await" /\ future = "pending" /\ w \in Engaged
      /\ \A v \in Workers : pc[v] \notin Closing
      /\ Len(runs) = Len(workload) /\ DOMAIN runs = DOMAIN workload
      /\ Size \in Nat \ {0}
  BY OnItsWay DEF Working
<1>2. TypeOK'
  BY <1>0 DEF IInv, TypeOK
<1>3. CallerInv'
  BY <1>1 DEF IInv, CallerInv, TypeOK, Closing
<1>4. EngagedInv'
  <2>1. Engaged' = Engaged
    BY DEF IInv, TypeOK, Engaged
  <2>2. \A v \in Workers : pc'[v] \notin Closing
    BY <1>1 DEF IInv, TypeOK, Closing
  <2>3. \A v \in Workers : pc'[v] \in Working => busy[v]
    BY DEF IInv, TypeOK, EngagedInv, Working
  <2>4. \A v \in Workers :
          pc'[v] \in {"signoff", "last", "resolve", "asleep"} => ~busy[v]
    BY DEF IInv, TypeOK, EngagedInv
  <2> QED
    BY <1>1, <2>1, <2>2, <2>3, <2>4 DEF IInv, EngagedInv
<1>5. RoundInv'
  <2>1. \A v \in Workers :
          pc'[v] \in {"run", "caught"} => cur'[v] \in DOMAIN workload
    BY <1>1 DEF IInv, TypeOK, RoundInv
  <2>2. Len(runs) = Len(workload)
    BY <1>1
  <2> QED
    BY <1>1, <2>1, <2>2 DEF RoundInv
<1>6. \A v \in Workers : Through(v) => Through(v)'
  BY DEF Through, Owner
<1>7. StrideInv'
  <2>1. \A v \in Workers : v # w => pc'[v] = pc[v]
    BY DEF IInv, TypeOK
  <2>2. pc'[w] = "run"
    BY DEF IInv, TypeOK
  <2>3. pc[w] = "take"
    OBVIOUS
  <2>4. \A v \in Workers : mode.queue = "multi" /\ busy[v] => Owner(it'[v] + 1) = v
    BY <1>1 DEF IInv, StrideInv
  <2>5. status = "TERMINATING" => \E v \in Workers : pc'[v] = "exited" /\ busy[v]
    BY <1>1, <2>1, <2>3 DEF IInv, StrideInv
  <2>6. \A v \in Workers : pc'[v] \in {"rest", "signoff", "last", "resolve"} =>
          Through(v)' \/ status = "TERMINATING"
    BY <1>1, <1>6, <2>1, <2>2 DEF IInv, StrideInv
  <2>7. mode.queue = "multi" => \A v \in Workers :
          busy[v] \/ Through(v)' \/ status = "TERMINATING"
    BY <1>1, <1>6 DEF IInv, StrideInv
  <2> QED
    BY <2>4, <2>5, <2>6, <2>7 DEF StrideInv, Owner
<1>8. ClaimInv'
  <2>1. runs[i] = 0 /\ \A v \in Workers : ~RunsIt(v, i)
    BY <1>1 DEF IInv, ClaimInv, RunsIt
  <2>2. \A p : \A v \in Workers :
          RunsIt(v, p)' <=> (v = w /\ p = i) \/ (v # w /\ RunsIt(v, p))
    BY DEF IInv, TypeOK, RunsIt
  <2>3. \A p \in DOMAIN runs : Claimed(p)' =>
          \/ runs[p] = 1
          \/ \E v \in Workers : RunsIt(v, p)'
          \/ status = "TERMINATING"
    <3>1. \A p : ~RunsIt(w, p)
      BY DEF RunsIt
    <3> QED
      BY <1>1, <2>2, <3>1 DEF IInv, ClaimInv
  <2>4. \A c : \A v \in Workers : RunsIt(v, c)' =>
          /\ c \in DOMAIN runs /\ Claimed(c)' /\ runs[c] = 0
          /\ \A u \in Workers : RunsIt(u, c)' => u = v
    <3> TAKE c
    <3> TAKE v \in Workers
    <3>1. CASE v = w
      BY <2>1, <2>2, <3>1
    <3>2. CASE v # w
      BY <1>1, <2>1, <2>2, <3>2, SMTT(30) DEF IInv, ClaimInv, RunsIt
    <3> QED
      BY <3>1, <3>2
  <2>5. \A p \in DOMAIN runs : runs[p] \in {0, 1} /\ (runs[p] = 1 => Claimed(p)')
    BY <1>1 DEF IInv, ClaimInv
  <2> QED
    BY <2>3, <2>4, <2>5 DEF ClaimInv, RunsIt, Claimed, Owner
<1>9. DoneInv'
  BY DEF IInv, DoneInv
<1> QED
  BY <1>2, <1>3, <1>4, <1>5, <1>7, <1>8, <1>9 DEF IInv

(* ... or finds that there is nothing left for it to claim.                *)
LEMMA TakesNothing ==
  ASSUME IInv, NEW w \in Workers, pc[w] = "take",
         index' \in Nat, it' = it,
         \A p \in DOMAIN runs : Claimed(p) => Claimed(p)',
         \A p \in DOMAIN runs : Claimed(p)' => Claimed(p) \/ status = "TERMINATING",
         Through(w)' \/ status = "TERMINATING",
         cur' = cur, pc' = [pc EXCEPT ![w] = "rest"],
         UNCHANGED <<status, active, busy, caller, history, load, outcome>>
  PROVE  IInv'
<1> USE DEF history, load, outcome
<1>1. /\ caller = "await" /\ future = "pending" /\ w \in Engaged
      /\ \A v \in Workers : pc[v] \notin Closing
      /\ Len(runs) = Len(workload) /\ DOMAIN runs = DOMAIN workload
      /\ Size \in Nat \ {0}
  BY OnItsWay DEF Working
<1>2. TypeOK'
  BY DEF IInv, TypeOK
<1>3. CallerInv'
  BY <1>1 DEF IInv, CallerInv, TypeOK, Closing
<1>4. EngagedInv'
  <2>1. Engaged' = Engaged
    BY DEF IInv, TypeOK, Engaged
  <2>2. \A v \in Workers : pc'[v] \notin Closing
    BY <1>1 DEF IInv, TypeOK, Closing
  <2>3. \A v \in Workers : pc'[v] \in Working => busy[v]
    BY DEF IInv, TypeOK, EngagedInv, Working
  <2>4. \A v \in Workers :
          pc'[v] \in {"signoff", "last", "resolve", "asleep"} => ~busy[v]
    BY DEF IInv, TypeOK, EngagedInv
  <2> QED
    BY <1>1, <2>1, <2>2, <2>3, <2>4 DEF IInv, EngagedInv
<1>5. RoundInv'
  <2>1. \A v \in Workers :
          pc'[v] \in {"run", "caught"} => cur'[v] \in DOMAIN workload
    BY <1>1 DEF IInv, TypeOK, RoundInv
  <2>2. Len(runs) = Len(workload)
    BY <1>1
  <2> QED
    BY <1>1, <2>1, <2>2 DEF RoundInv
<1>6. \A v \in Workers : Through(v) => Through(v)'
  BY DEF Through, Owner
<1>7. StrideInv'
  <2>1. \A v \in Workers : v # w => pc'[v] = pc[v]
    BY DEF IInv, TypeOK
  <2>2. pc'[w] = "rest"
    BY DEF IInv, TypeOK
  <2>3. pc[w] = "take"
    OBVIOUS
  <2>4. \A v \in Workers : mode.queue = "multi" /\ busy[v] => Owner(it'[v] + 1) = v
    BY <1>1 DEF IInv, StrideInv
  <2>5. status = "TERMINATING" => \E v \in Workers : pc'[v] = "exited" /\ busy[v]
    BY <1>1, <2>1, <2>3 DEF IInv, StrideInv
  <2>6. \A v \in Workers : pc'[v] \in {"rest", "signoff", "last", "resolve"} =>
          Through(v)' \/ status = "TERMINATING"
    BY <1>1, <1>6, <2>1, <2>2 DEF IInv, StrideInv
  <2>7. mode.queue = "multi" => \A v \in Workers :
          busy[v] \/ Through(v)' \/ status = "TERMINATING"
    BY <1>1, <1>6 DEF IInv, StrideInv
  <2> QED
    BY <2>4, <2>5, <2>6, <2>7 DEF StrideInv, Owner
<1>8. ClaimInv'
  <2>1. \A p : \A v \in Workers : RunsIt(v, p)' <=> RunsIt(v, p)
    BY DEF IInv, TypeOK, RunsIt
  <2>2. \A v \in Workers : pc'[v] = "run" <=> pc[v] = "run"
    BY DEF IInv, TypeOK
  <2> QED
    BY <1>1, <2>1, <2>2 DEF IInv, ClaimInv
<1>9. DoneInv'
  BY DEF IInv, DoneInv
<1> QED
  BY <1>2, <1>3, <1>4, <1>5, <1>7, <1>8, <1>9 DEF IInv

(* While the round is on, only a job that threw can have stopped it.       *)
LEMMA StatusOfRound ==
  ASSUME IInv, NEW w \in Workers, busy[w]
  PROVE  status \in {"PROCESSING", "TERMINATING"}
<1>1. future = "pending" /\ \A v \in Workers : pc[v] # "resolve"
  BY OnItsWay DEF Closing
<1> QED
  BY <1>1 DEF IInv, CallerInv

(* worker_sq takes the position after the last one claimed.                *)
LEMMA TakeSingleStep ==
  ASSUME IInv, NEW w \in Workers, TakeSingle(w)
  PROVE  IInv'
<1>1. /\ mode.queue = "single" /\ mode' = mode /\ runs' = runs
      /\ pc[w] = "take" /\ index \in Nat /\ index' = index + 1 /\ it' = it
      /\ it \in [Workers -> Nat]
      /\ UNCHANGED <<status, active, busy, caller, history, load, outcome>>
  BY DEF TakeSingle, history, outcome, IInv, TypeOK
<1>2. /\ DOMAIN runs = 1 .. Len(workload) /\ Len(workload) \in Nat
      /\ status \in {"PROCESSING", "TERMINATING"}
  <2>1. busy[w] /\ DOMAIN runs = DOMAIN workload
    BY <1>1, OnItsWay DEF Working, IInv, EngagedInv
  <2> QED
    BY <2>1, StatusOfRound DEF IInv, TypeOK
<1>3. \A p \in Nat : (Claimed(p) <=> p <= index) /\ (Claimed(p)' <=> p <= index + 1)
  BY <1>1 DEF Claimed
<1>4. mode.queue # "multi" /\ index' \in Nat /\ it' \in [Workers -> Nat]
  BY <1>1
<1>5. CASE index < Len(workload) /\ status = "PROCESSING"
  <2> DEFINE i == index + 1
  <2>1. cur' = [cur EXCEPT ![w] = i] /\ pc' = [pc EXCEPT ![w] = "run"]
    BY <1>5 DEF TakeSingle, Goto
  <2>2. i \in DOMAIN runs /\ ~Claimed(i)
    BY <1>1, <1>2, <1>3, <1>5
  <2>3. \A p \in DOMAIN runs : Claimed(p)' <=> Claimed(p) \/ p = i
    BY <1>1, <1>2, <1>3
  <2> HIDE DEF i
  <2> QED
    BY <1>1, <1>4, <1>5, <2>1, <2>2, <2>3, TakesPosition
<1>6. CASE ~(index < Len(workload) /\ status = "PROCESSING")
  <2>1. cur' = cur /\ pc' = [pc EXCEPT ![w] = "rest"]
    BY <1>6 DEF TakeSingle, Goto
  <2>2. \A p \in DOMAIN runs : Claimed(p) => Claimed(p)'
    BY <1>1, <1>2, <1>3
  <2>3. \A p \in DOMAIN runs : Claimed(p)' => Claimed(p) \/ status = "TERMINATING"
    BY <1>1, <1>2, <1>3, <1>6
  <2>4. Through(w)' \/ status = "TERMINATING"
    BY <1>1, <1>2, <1>3, <1>6 DEF Through
  <2> QED
    BY <1>1, <1>4, <2>1, <2>2, <2>3, <2>4, TakesNothing
<1> QED
  BY <1>5, <1>6

(* worker_mq takes its own next position.                                  *)
LEMMA TakeMultiStep ==
  ASSUME IInv, NEW w \in Workers, TakeMulti(w)
  PROVE  IInv'
<1>1. /\ mode.queue = "multi" /\ mode' = mode /\ runs' = runs
      /\ pc[w] = "take" /\ index' = index /\ index \in Nat
      /\ it \in [Workers -> Nat]
      /\ UNCHANGED <<status, active, busy, caller, history, load, outcome>>
  BY DEF TakeMulti, history, outcome, IInv, TypeOK
<1>2. /\ DOMAIN runs = 1 .. Len(workload) /\ Len(workload) \in Nat
      /\ status \in {"PROCESSING", "TERMINATING"}
      /\ Size \in Nat \ {0} /\ it[w] \in Nat
      /\ \A v \in Workers : busy[v] => Owner(it[v] + 1) = v
  <2>1. busy[w] /\ DOMAIN runs = DOMAIN workload /\ Size \in Nat \ {0}
        /\ caller = "await" /\ future = "pending"
    BY <1>1, OnItsWay DEF Working, IInv, EngagedInv
  <2> QED
    BY <1>1, <2>1, StatusOfRound DEF IInv, TypeOK, StrideInv
<1>3. busy[w]
  BY <1>1 DEF IInv, EngagedInv, Working
<1>4. CASE it[w] < Len(workload) /\ status = "PROCESSING"
  <2> DEFINE i == it[w] + 1
  <2>1. /\ cur' = [cur EXCEPT ![w] = i] /\ pc' = [pc EXCEPT ![w] = "run"]
        /\ it' = [it EXCEPT ![w] = it[w] + Size]
    BY <1>4 DEF TakeMulti, Goto
  <2>2. i \in DOMAIN runs /\ Owner(i) = w /\ i \in Nat
    BY <1>2, <1>3, <1>4
  <2>3. ~Claimed(i)
    BY <1>1, <1>2, <2>2 DEF Claimed
  <2>4. it' \in [Workers -> Nat]
    BY <1>1, <1>2, <2>1
  <2>5. ASSUME NEW p \in DOMAIN runs
        PROVE  Claimed(p)' <=> Claimed(p) \/ p = i
    <3>1. p \in Nat /\ p - 1 \in Nat
      BY <1>2
    <3>2. CASE Owner(p) # w
      <4>1. Owner(p) \in Workers
        BY <1>2, <3>1, Division DEF Owner, Workers
      <4>2. it'[Owner(p)] = it[Owner(p)]
        BY <1>1, <2>1, <3>2, <4>1
      <4>3. Claimed(p)' <=> Claimed(p)
        BY <1>1, <4>2 DEF Claimed, Owner
      <4> QED
        BY <2>2, <3>2, <4>3
    <3>3. CASE Owner(p) = w
      <4>1. it'[w] = it[w] + Size
        BY <1>1, <2>1
      <4>2. (Claimed(p) <=> p <= it[w]) /\ (Claimed(p)' <=> p <= it[w] + Size)
        BY <1>1, <3>3, <4>1 DEF Claimed, Owner
      <4>3. (p - 1) % Size = it[w] % Size
        BY <1>2, <1>3, <3>3, OwnerOfNext DEF Owner
      <4>4. it[w] <= p - 1 /\ p - 1 < it[w] + Size => p - 1 = it[w]
        BY <1>2, <3>1, <4>3, StrideSkipsNone
      <4>5. p <= it[w] + Size <=> p <= it[w] \/ p = i
        BY <1>2, <3>1, <4>4
      <4>6. Claimed(p)' <=> p <= it[w] + Size
        BY <4>2
      <4>7. Claimed(p) <=> p <= it[w]
        BY <4>2
      <4> HIDE DEF i
      <4> QED
        BY <4>5, <4>6, <4>7
    <3> QED
      BY <3>2, <3>3
  <2>6. ASSUME NEW v \in Workers, busy[v]
        PROVE  Owner(it'[v] + 1) = v
    <3>1. CASE v = w
      <4>1. Owner(it[w] + 1) = it[w] % Size
        BY <1>2, OwnerOfNext
      <4>2. (it[w] + Size) % Size = it[w] % Size
        BY <1>2, StrideKeepsRemainder
      <4>3. it[w] % Size = w
        BY <1>2, <1>3, <4>1
      <4>4. it'[v] \in Nat /\ it'[v] = it[w] + Size
        BY <1>1, <1>2, <2>1, <2>4, <3>1
      <4>5. Owner(it'[v] + 1) = it'[v] % Size
        BY <4>4, OwnerOfNext
      <4> QED
        BY <3>1, <4>2, <4>3, <4>4, <4>5
    <3>2. CASE v # w
      BY <1>1, <1>2, <2>1, <2>6, <3>2
    <3> QED
      BY <3>1, <3>2
  <2> HIDE DEF i
  <2> QED
    BY <1>1, <2>1, <2>2, <2>3, <2>4, <2>5, <2>6, TakesPosition
<1>5. CASE ~(it[w] < Len(workload) /\ status = "PROCESSING")
  <2>1. cur' = cur /\ it' = it /\ pc' = [pc EXCEPT ![w] = "rest"]
    BY <1>5 DEF TakeMulti, Goto
  <2>2. \A p : Claimed(p)' <=> Claimed(p)
    BY <1>1, <2>1 DEF Claimed, Owner
  <2>3. Through(w)' \/ status = "TERMINATING"
    BY <1>1, <1>2, <1>5, <2>1 DEF Through, Claimed, Owner
  <2> QED
    BY <1>1, <2>1, <2>2, <2>3, TakesNothing
<1> QED
  BY <1>4, <1>5

(* A job ends, whether it returns or throws: its position has been run.    *)
LEMMA JobEnds ==
  ASSUME IInv, NEW w \in Workers, pc[w] = "run",
         NEW l \in {"take", "test", "caught", "exited"}, pc' = [pc EXCEPT ![w] = l],
         l = "exited" => status = "TERMINATING",
         runs' = [runs EXCEPT ![cur[w]] = @ + 1],
         UNCHANGED <<status, active, busy, caller, future, errors, history,
                     claims, load>>
  PROVE  IInv'
<1> USE DEF history, claims, load
<1>1. /\ caller = "await" /\ future = "pending" /\ w \in Engaged
      /\ \A v \in Workers : pc[v] \notin Closing
      /\ Len(runs) = Len(workload) /\ DOMAIN runs = DOMAIN workload
      /\ Size \in Nat \ {0}
  BY OnItsWay DEF Working
<1>2. /\ cur[w] \in DOMAIN runs /\ Claimed(cur[w]) /\ runs[cur[w]] = 0
      /\ \A v \in Workers : RunsIt(v, cur[w]) => v = w
  BY <1>1 DEF IInv, ClaimInv
<1>3. /\ runs' \in Seq(Nat) /\ Len(runs') = Len(runs) /\ DOMAIN runs' = DOMAIN runs
      /\ runs'[cur[w]] = 1
      /\ \A p \in DOMAIN runs : p # cur[w] => runs'[p] = runs[p]
  <2>1. runs \in Seq(Nat)
    BY DEF IInv, TypeOK
  <2>2. runs'[cur[w]] = runs[cur[w]] + 1
    BY <1>2, <2>1, OneMoreRun
  <2> QED
    BY <1>2, <2>1, <2>2, OneMoreRun
<1>4. /\ \A v \in Workers : v # w => pc'[v] = pc[v]
      /\ pc'[w] = l
  BY DEF IInv, TypeOK
<1>5. TypeOK'
  BY <1>3 DEF IInv, TypeOK
<1>6. CallerInv'
  BY <1>1, <1>4 DEF IInv, CallerInv, Closing
<1>7. EngagedInv'
  <2>1. Engaged' = Engaged
    BY <1>4 DEF Engaged
  <2>2. busy[w]
    BY DEF IInv, EngagedInv, Working
  <2>3. \A v \in Workers : pc'[v] \notin Closing
    BY <1>1, <1>4 DEF Closing
  <2>4. \A v \in Workers : pc'[v] \in Working => busy[v]
    BY <1>4, <2>2 DEF IInv, EngagedInv
  <2>5. \A v \in Workers :
          pc'[v] \in {"signoff", "last", "resolve", "asleep"} => ~busy[v]
    BY <1>4 DEF IInv, EngagedInv
  <2> QED
    BY <1>1, <2>1, <2>3, <2>4, <2>5 DEF IInv, EngagedInv
<1>8. RoundInv'
  <2>1. \A v \in Workers :
          pc'[v] \in {"run", "caught"} => cur[v] \in DOMAIN workload
    BY <1>4 DEF IInv, RoundInv
  <2> QED
    BY <1>1, <1>3, <2>1 DEF RoundInv
<1>9. /\ \A p : Claimed(p)' = Claimed(p)
      /\ \A v : Through(v)' = Through(v)
  BY <1>3 DEF Claimed, Owner, Through
<1>10. StrideInv'
  <2>1. \A v \in Workers : pc[v] = "exited" => pc'[v] = "exited"
    BY <1>4
  <2>2. \A v \in Workers : pc'[v] \in {"rest", "signoff", "last", "resolve"} =>
          pc'[v] = pc[v]
    BY <1>4
  <2> QED
    BY <1>1, <1>9, <2>1, <2>2 DEF IInv, StrideInv, Owner
<1>11. ClaimInv'
  <2>1. \A p : \A v \in Workers : RunsIt(v, p)' <=> v # w /\ RunsIt(v, p)
    BY <1>4 DEF RunsIt
  <2>2. \A p \in DOMAIN runs' :
          p # cur[w] /\ (\E v \in Workers : RunsIt(v, p)) =>
            \E v \in Workers : RunsIt(v, p)'
    BY <2>1 DEF RunsIt
  <2>3. \A p \in DOMAIN runs' :
          runs'[p] \in {0, 1} /\ (runs'[p] = 1 => Claimed(p)')
    BY <1>1, <1>2, <1>3, <1>9 DEF IInv, ClaimInv
  <2>4. \A p \in DOMAIN runs' : Claimed(p)' =>
          \/ runs'[p] = 1
          \/ \E v \in Workers : RunsIt(v, p)'
          \/ status = "TERMINATING"
    BY <1>1, <1>3, <1>9, <2>2 DEF IInv, ClaimInv
  <2>5. \A v \in Workers : pc'[v] = "run" =>
          v # w /\ pc[v] = "run" /\ cur[v] # cur[w]
    BY <1>2, <1>4 DEF RunsIt
  <2>6. \A v \in Workers : pc'[v] = "run" =>
          /\ cur[v] \in DOMAIN runs' /\ Claimed(cur[v]) /\ runs'[cur[v]] = 0
          /\ \A u \in Workers : RunsIt(u, cur[v]) => u = v
    BY <1>1, <1>3, <2>5 DEF IInv, ClaimInv
  <2>7. cur' = cur
    OBVIOUS
  <2> QED
    BY <1>9, <2>1, <2>3, <2>4, <2>6, <2>7 DEF ClaimInv
<1>12. DoneInv'
  BY <1>1 DEF DoneInv
<1> QED
  BY <1>5, <1>6, <1>7, <1>8, <1>10, <1>11, <1>12 DEF IInv

(* A job returns ...                                                       *)
LEMMA RunStep ==
  ASSUME IInv, NEW w \in Workers, RunJob(w)
  PROVE  IInv'
BY JobEnds DEF RunJob, Goto

(* ... or throws.                                                          *)
LEMMA ThrowStep ==
  ASSUME IInv, NEW w \in Workers, JobThrows(w)
  PROVE  IInv'
<1> DEFINE l == IF mode.errors = "IGNORE"
                  THEN IF status = "TERMINATING" THEN "exited" ELSE "test"
                  ELSE "caught"
<1>1. l \in {"take", "test", "caught", "exited"} /\ (l = "exited" => status = "TERMINATING")
  OBVIOUS
<1>2. pc' = [pc EXCEPT ![w] = l]
  BY DEF JobThrows, Goto
<1> HIDE DEF l
<1> QED
  BY <1>1, <1>2, JobEnds DEF JobThrows

(* An exception is kept: the worker stays engaged, and if it leaves for    *)
(* good the round is never closed.                                         *)
LEMMA KeepStep ==
  ASSUME IInv, NEW w \in Workers, KeepError(w)
  PROVE  IInv'
<1> USE DEF history, claims, load
<1> DEFINE l == IF status' = "TERMINATING" THEN "exited" ELSE "test"
<1>1. /\ caller = "await" /\ future = "pending" /\ w \in Engaged
      /\ \A v \in Workers : pc[v] \notin Closing
      /\ Len(runs) = Len(workload) /\ DOMAIN runs = DOMAIN workload
      /\ Size \in Nat \ {0}
  BY OnItsWay DEF KeepError, Working
<1>2. busy[w] /\ pc[w] = "caught" /\ cur[w] \in DOMAIN workload
  BY DEF KeepError, IInv, EngagedInv, RoundInv, Working
<1>3. /\ UNCHANGED <<active, busy, caller, future, runs, history, claims, load>>
      /\ pc' = [pc EXCEPT ![w] = l]
      /\ status' = status \/ status' = "TERMINATING"
  BY DEF KeepError, Goto
<1>4. /\ \A v \in Workers : v # w => pc'[v] = pc[v]
      /\ pc'[w] = l
      /\ l \in {"exited", "test"} /\ (status' = "TERMINATING" => l = "exited")
  BY <1>3 DEF IInv, TypeOK
<1>5. TypeOK'
  <2>1. errors' \subseteq Jobs
    BY <1>2 DEF KeepError, IInv, TypeOK
  <2> QED
    BY <1>3, <2>1 DEF IInv, TypeOK
<1> HIDE DEF l
<1>6. CallerInv'
  BY <1>1, <1>3, <1>4 DEF IInv, CallerInv, Closing
<1>7. EngagedInv'
  <2>1. Engaged' = Engaged
    BY <1>2, <1>3, <1>4 DEF Engaged
  <2>2. \A v \in Workers : pc'[v] \notin Closing
    BY <1>1, <1>4 DEF Closing
  <2>3. \A v \in Workers : pc'[v] \in Working => busy[v]
    BY <1>2, <1>4 DEF IInv, EngagedInv
  <2>4. \A v \in Workers :
          pc'[v] \in {"signoff", "last", "resolve", "asleep"} => ~busy[v]
    BY <1>4 DEF IInv, EngagedInv
  <2> QED
    BY <1>1, <1>3, <2>1, <2>2, <2>3, <2>4 DEF IInv, EngagedInv
<1>8. RoundInv'
  <2>1. \A v \in Workers :
          pc'[v] \in {"run", "caught"} => cur[v] \in DOMAIN workload
    BY <1>4 DEF IInv, RoundInv
  <2> QED
    BY <1>1, <1>3, <2>1 DEF RoundInv
<1>9. /\ \A p : Claimed(p)' = Claimed(p)
      /\ \A v : Through(v)' = Through(v)
      /\ \A p : \A v \in Workers : RunsIt(v, p)' <=> RunsIt(v, p)
      /\ \A v \in Workers : pc'[v] = "run" => pc[v] = "run"
  BY <1>2, <1>3, <1>4 DEF Claimed, Owner, Through, RunsIt
<1>10. StrideInv'
  <2>1. \A v \in Workers : pc'[v] \in {"rest", "signoff", "last", "resolve"} =>
          pc'[v] = pc[v]
    BY <1>4
  <2>2. status' = "TERMINATING" => pc'[w] = "exited" /\ busy'[w]
    BY <1>2, <1>3, <1>4
  <2> QED
    BY <1>1, <1>3, <1>9, <2>1, <2>2 DEF IInv, StrideInv, Owner
<1>11. ClaimInv'
  BY <1>1, <1>3, <1>9 DEF IInv, ClaimInv
<1>12. DoneInv'
  BY <1>1, <1>3 DEF DoneInv
<1> QED
  BY <1>5, <1>6, <1>7, <1>8, <1>10, <1>11, <1>12 DEF IInv

(* The workers are prepared: as many as m_active says, nothing claimed yet.*)
LEMMA PrepareStep ==
  ASSUME IInv, Prepare
  PROVE  IInv'
<1> USE DEF Prepare, NotifyAll, history, load, outcome
<1>1. /\ future = "pending" /\ status = "PROCESSING" /\ Engaged = {}
      /\ active = WorkersNeeded(workload) /\ index = 0
      /\ \A p \in DOMAIN runs : runs[p] = 0
      /\ \A v \in Workers : ~busy[v] /\ pc[v] \notin Working \cup Closing \cup {"signoff"}
  BY DEF IInv, CallerInv, EngagedInv, RoundInv, Engaged
<1>2. Len(runs) = Len(workload) /\ DOMAIN runs = 1 .. Len(workload) /\ Len(workload) \in Nat
  BY <1>1 DEF IInv, TypeOK, RoundInv, Closing
<1>3. /\ \A v \in Workers : busy'[v] <=> v < active
      /\ \A v \in Workers : v < active => it'[v] = v
      /\ \A v \in Workers :
           pc'[v] \notin Working \cup Closing \cup {"signoff", "asleep"}
  BY <1>1 DEF IInv, TypeOK, Working, Closing
<1>4. TypeOK'
  <2>1. it' \in [Workers -> Nat]
    BY DEF IInv, TypeOK, Workers
  <2>2. pc' \in [Workers -> {"none", "test", "asleep", "take", "run", "caught",
                            "rest", "signoff", "last", "resolve", "exited"}]
    BY DEF IInv, TypeOK
  <2>3. busy' \in [Workers -> BOOLEAN]
    BY DEF IInv, TypeOK
  <2> QED
    BY <2>1, <2>2, <2>3 DEF IInv, TypeOK
<1>5. CallerInv'
  BY <1>1, <1>3 DEF IInv, CallerInv, Closing
<1>6. EngagedInv'
  <2>1. active \in 0 .. Size /\ Size \in Nat
    BY PoolAssumption DEF IInv, TypeOK
  <2>2. Engaged' = 0 .. active - 1
    BY <1>3, <2>1 DEF Engaged, Workers
  <2>3. Cardinality(0 .. active - 1) = active
    BY <2>1, FS_Interval
  <2> QED
    BY <1>1, <1>3, <2>2, <2>3 DEF EngagedInv, Working, Closing
<1>7. RoundInv'
  BY <1>2, <1>3 DEF RoundInv, Working
<1>8. ASSUME NEW p \in DOMAIN runs
      PROVE  Owner(p) \in Workers /\ Owner(p) < active /\ ~Claimed(p)'
  <2>1. CASE Size = 0
    BY <2>1 DEF IInv, CallerInv
  <2>2. CASE Size \in Nat \ {0}
    <3>1. p - 1 \in Nat /\ p - 1 < Len(workload)
      BY <1>2
    <3>2. Owner(p) \in 0 .. Size - 1
      BY <2>2, <3>1, Division DEF Owner
    <3>3. Owner(p) <= p - 1
      BY <2>2, <3>1, RemainderBelow DEF Owner
    <3>4. Owner(p) < active /\ Owner(p) \in Workers
      <4>1. Owner(p) \in Int /\ Owner(p) < Size /\ Owner(p) < Len(workload)
        BY <1>2, <2>2, <3>1, <3>2, <3>3
      <4> QED
        BY <1>1, <1>2, <2>2, <3>2, <4>1 DEF WorkersNeeded, Workers
    <3>5. it'[Owner(p)] = Owner(p)
      BY <1>3, <3>4
    <3>6. ~(p <= index') /\ ~(p <= it'[Owner(p)])
      BY <1>1, <1>2, <3>1, <3>2, <3>3, <3>5
    <3> QED
      BY <3>4, <3>6 DEF Claimed, Owner
  <2> QED
    BY <2>1, <2>2, PoolAssumption
<1>9. StrideInv'
  <2>1. \A w \in Workers : busy'[w] => Owner(it'[w] + 1) = w
    <3> TAKE w \in Workers
    <3> HAVE busy'[w]
    <3>1. it'[w] = w /\ Size \in Nat \ {0} /\ w \in 0 .. Size - 1
      BY <1>3, PoolAssumption DEF Workers
    <3>2. Owner(it'[w] + 1) = (w + 1 - 1) % Size
      BY <3>1 DEF Owner
    <3>3. w + 1 - 1 = w
      BY <3>1
    <3>4. w % Size = w
      BY <3>1, SmallRemainder
    <3> QED
      BY <3>2, <3>3, <3>4
  <2>2. \A w \in Workers : mode.queue = "multi" => busy'[w] \/ Through(w)'
    BY <1>3, <1>8 DEF Through, Owner, IInv, TypeOK, PoolMode
  <2> QED
    BY <1>1, <1>3, <2>1, <2>2 DEF StrideInv, Owner, Working, Closing
<1>10. ClaimInv'
  BY <1>1, <1>3, <1>8 DEF ClaimInv, Working
<1>11. DoneInv'
  BY <1>1 DEF DoneInv
<1> QED
  BY <1>4, <1>5, <1>6, <1>7, <1>9, <1>10, <1>11 DEF IInv

-----------------------------------------------------------------------------
(* The invariant is inductive.                                             *)

(* It holds at first ...                                                   *)
LEMMA InitInv == Init => IInv
<1> SUFFICES ASSUME Init PROVE IInv
  OBVIOUS
<1> USE DEF Init
<1>1. TypeOK
  <2>1. workload \in Seq(Jobs) /\ runs \in Seq(Nat)
    OBVIOUS
  <2>2. /\ it \in [Workers -> Nat] /\ cur \in [Workers -> Nat]
        /\ busy \in [Workers -> BOOLEAN]
        /\ pc \in [Workers -> {"none"}]
    OBVIOUS
  <2>3. 0 \in 0 .. Size /\ 0 \in 0 .. MaxJobs
    BY PoolAssumption
  <2>4. pc \in [Workers -> {"none", "test", "asleep", "take", "run", "caught",
                           "rest", "signoff", "last", "resolve", "exited"}]
    OBVIOUS
  <2> HIDE DEF Workers
  <2> QED
    BY <2>1, <2>2, <2>3, <2>4 DEF TypeOK
<1>2. CallerInv
  <2>1. Len(workload) = 0
    OBVIOUS
  <2> QED
    BY <2>1, PoolAssumption DEF CallerInv
<1>3. EngagedInv
  BY DEF EngagedInv, Engaged, Working, Closing
<1>4. RoundInv /\ StrideInv /\ ClaimInv /\ DoneInv
  BY DEF RoundInv, StrideInv, ClaimInv, DoneInv
<1> QED
  BY <1>1, <1>2, <1>3, <1>4 DEF IInv

(* ... when nothing happens ...                                            *)
LEMMA StutterStep ==
  ASSUME IInv, UNCHANGED vars
  PROVE  IInv'
<1> USE DEF vars
<1>1. TypeOK' /\ CallerInv' /\ RoundInv' /\ DoneInv'
  BY DEF IInv, TypeOK, CallerInv, RoundInv, DoneInv
<1>2. EngagedInv'
  BY DEF IInv, EngagedInv, Engaged, WorkersNeeded
<1>3. StrideInv' /\ ClaimInv'
  BY DEF IInv, StrideInv, ClaimInv, Through, Claimed, Owner, RunsIt
<1> QED
  BY <1>1, <1>2, <1>3 DEF IInv

(* ... and after every step.                                               *)
LEMMA NextInv == IInv /\ [Next]_vars => IInv'
<1> SUFFICES ASSUME IInv, [Next]_vars PROVE IInv'
  OBVIOUS
<1>1. CASE Start
  BY <1>1, StartStep
<1>2. CASE Append1
  BY <1>2, AppendStep
<1>3. CASE SubmitAppended
  BY <1>3, SubmitAppendedStep
<1>4. CASE SubmitNothing
  BY <1>4, SubmitNothingStep
<1>5. CASE Prepare
  BY <1>5, PrepareStep
<1>6. CASE Await
  BY <1>6, AwaitStep
<1>7. CASE Destroy
  BY <1>7, DestroyStep
<1>8. CASE Joined
  BY <1>8, JoinedStep
<1>9. ASSUME NEW n \in 1 .. MaxBatch, SubmitVector(n) PROVE IInv'
  BY <1>9, SubmitVectorStep
<1>10. ASSUME NEW w \in Workers, WaitForWork(w) PROVE IInv'
  BY <1>10, WaitStep
<1>11. ASSUME NEW w \in Workers, TakeSingle(w) PROVE IInv'
  BY <1>11, TakeSingleStep
<1>12. ASSUME NEW w \in Workers, TakeMulti(w) PROVE IInv'
  BY <1>12, TakeMultiStep
<1>13. ASSUME NEW w \in Workers, RunJob(w) PROVE IInv'
  BY <1>13, RunStep
<1>14. ASSUME NEW w \in Workers, JobThrows(w) PROVE IInv'
  BY <1>14, ThrowStep
<1>15. ASSUME NEW w \in Workers, KeepError(w) PROVE IInv'
  BY <1>15, KeepStep
<1>16. ASSUME NEW w \in Workers, Rest(w) PROVE IInv'
  BY <1>16, RestStep
<1>17. ASSUME NEW w \in Workers, SignOff(w) PROVE IInv'
  BY <1>17, SignOffStep
<1>18. ASSUME NEW w \in Workers, MakeReady(w) PROVE IInv'
  BY <1>18, MakeReadyStep
<1>19. ASSUME NEW w \in Workers, Resolve(w) PROVE IInv'
  BY <1>19, ResolveStep
<1>20. ASSUME NEW w \in Workers, SpuriousWake(w) PROVE IInv'
  BY <1>20, WakeStep
<1>21. CASE UNCHANGED vars
  BY <1>21, StutterStep
<1> QED
  BY <1>1, <1>2, <1>3, <1>4, <1>5, <1>6, <1>7, <1>8, <1>9, <1>10, <1>11, <1>12, <1>13, <1>14, <1>15, <1>16, <1>17, <1>18, <1>19, <1>20, <1>21
     DEF Next, CallerStep, WorkerStep

(* So it always holds.                                                     *)
LEMMA Invariance == Spec => []IInv
  BY InitInv, NextInv, PTL DEF Spec

(* Every variable keeps its type; above all, m_active never leaves the     *)
(* range 0 .. m_size, though the workers decrement it without a lock.      *)
THEOREM TypeCorrect == Spec => []TypeOK
<1>1. IInv => TypeOK
  BY DEF IInv
<1> QED
  BY <1>1, Invariance, PTL

(* A resolved future means that every job of the batch has been run, once, *)
(* and that no worker is inside one.                                       *)
THEOREM ResolvedFutureMeansDone == Spec => []ResolvedMeansDone
<1>1. IInv => ResolvedMeansDone
  <2> SUFFICES ASSUME IInv, future = "ready" PROVE ResolvedMeansDone
    BY DEF ResolvedMeansDone
  <2>1. \A w \in Workers : pc[w] \notin {"take", "run", "caught"}
    BY OnItsWay DEF Working
  <2> QED
    BY <2>1 DEF IInv, DoneInv, ResolvedMeansDone
<1> QED
  BY <1>1, Invariance, PTL

(* The unlocked workload has one user at a time: its owner between rounds, *)
(* the last worker when it clears it.                                      *)
THEOREM WorkloadIsUnshared == Spec => []WorkloadUnshared
<1>1. IInv => WorkloadUnshared
  <2> SUFFICES ASSUME IInv, NEW w \in Workers, pc[w] \in {"take", "run", "caught"}
               PROVE  caller # "idle" /\ \A v \in Workers : pc[v] # "last"
    BY DEF WorkloadUnshared
  <2> QED
    BY OnItsWay DEF Working, Closing
<1> QED
  BY <1>1, Invariance, PTL

(* Whoever has seen its future resolved finds the pool ready for more.     *)
THEOREM ResubmissionAccepted == Spec => []ResubmitAccepted
<1>1. IInv => ResubmitAccepted
  BY DEF IInv, CallerInv, ResubmitAccepted
<1> QED
  BY <1>1, Invariance, PTL

-----------------------------------------------------------------------------
(* No job of an earlier batch runs again.                                  *)

(* Jobs are numbered as they are handed over; a workload that is not dirty *)
(* holds none of a batch, and a pool that clears its workload on           *)
(* completion has cleared it whenever it would accept another batch.       *)
FreshInv ==
  /\ Elems(workload) \cup batch \cup spent \subseteq 1 .. handed
  /\ mode.clear = "UPPON_COMPLETION" /\ dirty => status \notin {"READY", "STOPPED"}
  /\ mode.clear # "NEVER" /\ ~dirty => Elems(workload) \cap (batch \cup spent) = {}
  /\ NoStaleJob

(* What an append adds to the jobs of a workload.                          *)
LEMMA ElemsOfAppend ==
  ASSUME NEW S, NEW s \in Seq(S), NEW e \in S
  PROVE  Elems(Append(s, e)) = Elems(s) \cup {e}
<1>1. /\ Len(s) \in Nat /\ DOMAIN s = 1 .. Len(s)
      /\ DOMAIN Append(s, e) = 1 .. Len(s) + 1
      /\ Append(s, e)[Len(s) + 1] = e
      /\ \A p \in DOMAIN s : Append(s, e)[p] = s[p]
  OBVIOUS
<1>2. Len(s) + 1 \in DOMAIN Append(s, e) /\ DOMAIN s \subseteq DOMAIN Append(s, e)
  BY <1>1
<1>3. \A p \in DOMAIN Append(s, e) : p \in DOMAIN s \/ p = Len(s) + 1
  BY <1>1
<1> HIDE <1>1
<1>4. Elems(Append(s, e)) \subseteq Elems(s) \cup {e}
  BY <1>1, <1>3 DEF Elems
<1>5. Elems(s) \subseteq Elems(Append(s, e)) /\ e \in Elems(Append(s, e))
  BY <1>1, <1>2 DEF Elems
<1> QED
  BY <1>4, <1>5

(* A batch begins that shares no job with an earlier one.                  *)
LEMMA FreshRound ==
  ASSUME TypeOK, TypeOK', FreshInv, NEW w, BeginRound(w), handed' \in Nat,
         handed <= handed', Elems(w) \subseteq 1 .. handed',
         mode.clear # "NEVER" => Elems(w) \cap (batch \cup spent) = {}
  PROVE  FreshInv'
<1>1. /\ workload' = w /\ dirty' = TRUE /\ status' = "PROCESSING" /\ mode' = mode
      /\ batch' = Elems(w) /\ spent' = spent \cup batch
  BY DEF BeginRound
<1>2. 1 .. handed \subseteq 1 .. handed'
  BY DEF TypeOK
<1> QED
  BY <1>1, <1>2 DEF FreshInv, NoStaleJob, Elems

(* A step that hands over nothing and lets nothing be forgotten.           *)
LEMMA FreshStays ==
  ASSUME FreshInv, UNCHANGED history, UNCHANGED load,
         status' \in {"READY", "STOPPED"} => status \in {"READY", "STOPPED"}
  PROVE  FreshInv'
BY DEF FreshInv, NoStaleJob, Elems, history, load

(* Every step keeps it.                                                    *)
LEMMA FreshNext ==
  ASSUME IInv, IInv', FreshInv, [Next]_vars
  PROVE  FreshInv'
<1>1. TypeOK /\ TypeOK' /\ handed \in Nat /\ handed' \in Nat
  BY PoolAssumption DEF IInv, TypeOK
<1>2. CASE UNCHANGED vars
  BY <1>2, FreshStays DEF vars, history, load
<1>3. CASE Start
  BY <1>3, FreshStays DEF Start
<1>4. CASE Append1
  <2>1. /\ handed' = handed + 1 /\ UNCHANGED <<mode, status, batch, spent>>
        /\ handed + 1 \in Jobs /\ handed + 1 \notin 1 .. handed
        /\ 1 .. handed \cup {handed + 1} = 1 .. handed'
    BY <1>1, <1>4, PoolAssumption DEF Append1, Jobs
  <2>2. CASE StaleWorkload
    <3>1. workload' = <<handed + 1>> /\ dirty' = FALSE
      BY <1>4, <2>2 DEF Append1
    <3>2. Elems(workload') = {handed + 1}
      BY <3>1 DEF Elems
    <3> QED
      BY <2>1, <3>1, <3>2 DEF FreshInv, NoStaleJob
  <2>3. CASE ~StaleWorkload
    <3>1. workload' = Append(workload, handed + 1) /\ dirty' = dirty
      BY <1>4, <2>3 DEF Append1
    <3>2. Elems(workload') = Elems(workload) \cup {handed + 1}
      BY <1>1, <2>1, <3>1, ElemsOfAppend DEF TypeOK
    <3> QED
      BY <2>1, <3>1, <3>2 DEF FreshInv, NoStaleJob
  <2> QED
    BY <2>2, <2>3
<1>5. CASE SubmitAppended
  <2>1. /\ status = "READY" /\ ~StaleWorkload /\ BeginRound(workload)
        /\ handed' = handed
    BY <1>5 DEF SubmitAppended
  <2>2. mode.clear \in {"NEVER", "UPPON_COMPLETION", "AT_NEXT_WORKLOAD"}
    BY <1>1, PoolAssumption DEF TypeOK, PoolMode
  <2>3. mode.clear # "NEVER" => ~dirty
    BY <2>1, <2>2 DEF StaleWorkload, FreshInv
  <2>4. mode.clear # "NEVER" => Elems(workload) \cap (batch \cup spent) = {}
    BY <2>3 DEF FreshInv
  <2>5. Elems(workload) \subseteq 1 .. handed'
    BY <2>1 DEF FreshInv
  <2> QED
    BY <1>1, <2>1, <2>4, <2>5, FreshRound
<1>6. ASSUME NEW n \in 1 .. MaxBatch, SubmitVector(n) PROVE FreshInv'
  <2> DEFINE v == [p \in 1 .. n |-> handed + p]
  <2>1. BeginRound(v) /\ handed' = handed + n /\ n \in Nat
    BY <1>6, PoolAssumption DEF SubmitVector
  <2>2. Elems(v) \subseteq 1 .. handed' /\ Elems(v) \cap 1 .. handed = {}
    BY <1>1, <2>1 DEF Elems
  <2> HIDE DEF v
  <2>3. Elems(v) \cap (batch \cup spent) = {}
    BY <2>2 DEF FreshInv
  <2> QED
    BY <1>1, <2>1, <2>2, <2>3, FreshRound
<1>7. CASE SubmitNothing
  BY <1>7 DEF SubmitNothing, FreshInv, NoStaleJob, Elems, history
<1>8. CASE Prepare \/ Await \/ Destroy \/ Joined
  BY <1>8, FreshStays DEF Prepare, Await, Destroy, Joined
<1>9. ASSUME NEW w \in Workers,
             \/ WaitForWork(w) \/ TakeSingle(w) \/ TakeMulti(w) \/ RunJob(w)
             \/ JobThrows(w) \/ Rest(w) \/ SignOff(w) \/ Resolve(w)
             \/ SpuriousWake(w)
      PROVE  FreshInv'
  BY <1>9, FreshStays
  DEF WaitForWork, TakeSingle, TakeMulti, RunJob, JobThrows, Rest, SignOff,
      Resolve, SpuriousWake
<1>10. ASSUME NEW w \in Workers, KeepError(w) PROVE FreshInv'
  <2>1. status' = status \/ status' = "TERMINATING"
    BY <1>10 DEF KeepError
  <2> QED
    BY <1>10, <2>1, FreshStays DEF KeepError
<1>11. ASSUME NEW w \in Workers, MakeReady(w) PROVE FreshInv'
  <2>1. UNCHANGED history
    BY <1>11 DEF MakeReady
  <2>2. CASE mode.clear = "UPPON_COMPLETION"
    <3>1. workload' = <<>> /\ dirty' = FALSE
      BY <1>11, <2>2 DEF MakeReady
    <3> QED
      BY <2>1, <3>1 DEF FreshInv, NoStaleJob, Elems, history
  <2>3. CASE mode.clear # "UPPON_COMPLETION"
    <3>1. UNCHANGED load
      BY <1>11, <2>3 DEF MakeReady
    <3> QED
      BY <2>1, <2>3, <3>1 DEF FreshInv, NoStaleJob, Elems, history, load
  <2> QED
    BY <2>2, <2>3
<1> QED
  BY <1>2, <1>3, <1>4, <1>5, <1>6, <1>7, <1>8, <1>9, <1>10, <1>11
  DEF Next, CallerStep, WorkerStep

(* However batches are appended, replaced and cleared, a pool that is not  *)
(* told to keep its workload runs no job of an earlier batch again.        *)
THEOREM NoJobRunsStale == Spec => []NoStaleJob
<1>1. Init => FreshInv
  BY DEF Init, FreshInv, NoStaleJob, Elems
<1>2. IInv /\ IInv' /\ FreshInv /\ [Next]_vars => FreshInv'
  BY FreshNext
<1>3. FreshInv => NoStaleJob
  BY Zenon DEF FreshInv
<1> QED
  BY <1>1, <1>2, <1>3, Invariance, PTL DEF Spec

-----------------------------------------------------------------------------
(* The pool implements ForkJoin.                                           *)

(* A round that begins is a submission.                                    *)
LEMMA BeginRefines ==
  ASSUME IInv, caller = "idle", NEW s \in Seq(Jobs), s # <<>>, Len(s) <= MaxBatch,
         BeginRound(s)
  PROVE  FJ!Submit
<1>1. Phase # "running" /\ Phase' = "running"
  <2>1. future \in {"none", "ready"} /\ future' = "pending"
    BY DEF IInv, TypeOK, CallerInv, BeginRound
  <2> QED
    BY <2>1 DEF Phase
<1>2. Len(s) \in 1 .. MaxBatch /\ DOMAIN s = 1 .. Len(s)
  BY PoolAssumption
<1>3. runs' = [p \in 1 .. Len(s) |-> 0]
  BY <1>2 DEF BeginRound
<1> QED
  BY <1>1, <1>2, <1>3 DEF FJ!Submit

(* A job that ends is the abstract run of a job that was not run before.   *)
LEMMA JobRefines ==
  ASSUME IInv, NEW w \in Workers, pc[w] = "run",
         runs' = [runs EXCEPT ![cur[w]] = @ + 1], future' = future
  PROVE  FJ!RunJob
<1>1. caller = "await" /\ future = "pending"
  BY OnItsWay DEF Working
<1>2. cur[w] \in DOMAIN runs /\ runs[cur[w]] = 0
  BY <1>1 DEF IInv, ClaimInv
<1>3. runs' = [runs EXCEPT ![cur[w]] = 1]
  BY <1>2
<1>4. Phase = "running" /\ Phase' = Phase
  BY <1>1 DEF Phase
<1> QED
  BY <1>2, <1>3, <1>4 DEF FJ!RunJob

(* The promise is resolved when the abstract specification allows it.      *)
LEMMA ResolveRefines ==
  ASSUME IInv, NEW w \in Workers, Resolve(w)
  PROVE  FJ!Resolve
<1>1. future = "pending" /\ \A p \in DOMAIN runs : runs[p] = 1
  BY ClosesFinishedRound DEF Closing, Resolve
<1>2. Phase = "running" /\ Phase' = "done" /\ runs' = runs
  BY <1>1 DEF Phase, Resolve
<1> QED
  BY <1>1, <1>2 DEF FJ!Resolve

(* The pool is a fork-join executor: a future is resolved once, and only   *)
(* after every job of its batch has been run exactly once.                 *)
THEOREM PoolImplementsForkJoin == Spec => ImplementsForkJoin
<1>1. Init => FJ!Init
  BY DEF Init, FJ!Init, Phase
<1>2. IInv /\ [Next]_vars => [FJ!Next]_(FJ!vars)
  <2> SUFFICES ASSUME IInv, [Next]_vars PROVE FJ!Next \/ UNCHANGED FJ!vars
    OBVIOUS
  <2>1. CASE SubmitAppended
    <3>1. workload \in Seq(Jobs) /\ Len(workload) <= MaxBatch
      BY DEF IInv, TypeOK, CallerInv
    <3> QED
      BY <2>1, <3>1, BeginRefines DEF SubmitAppended, FJ!Next
  <2>2. ASSUME NEW n \in 1 .. MaxBatch, SubmitVector(n)
        PROVE  FJ!Next
    <3> DEFINE s == [p \in 1..n |-> handed + p]
    <3>1. /\ n \in Nat /\ n >= 1 /\ n <= MaxBatch
          /\ \A p \in 1 .. n : handed + p \in Jobs
      BY <2>2, PoolAssumption DEF IInv, TypeOK, Jobs, SubmitVector
    <3>2. s \in Seq(Jobs) /\ Len(s) = n /\ s # <<>>
      BY <3>1
    <3>3. caller = "idle" /\ BeginRound(s)
      BY <2>2 DEF SubmitVector
    <3> HIDE DEF s
    <3> QED
      BY <3>1, <3>2, <3>3, BeginRefines DEF FJ!Next
  <2>3. ASSUME NEW w \in Workers, RunJob(w) \/ JobThrows(w)
        PROVE  FJ!Next
    <3>1. /\ pc[w] = "run" /\ future' = future
          /\ runs' = [runs EXCEPT ![cur[w]] = @ + 1]
      BY <2>3 DEF RunJob, JobThrows
    <3> QED
      BY <3>1, JobRefines DEF FJ!Next
  <2>4. ASSUME NEW w \in Workers, Resolve(w)
        PROVE  FJ!Next
    BY <2>4, ResolveRefines DEF FJ!Next
  <2>5. CASE UNCHANGED <<future, runs>>
    BY <2>5 DEF Phase, FJ!vars
  <2>6. CASE Start \/ Append1 \/ SubmitNothing \/ Prepare \/ Await \/ Destroy \/ Joined
    BY <2>5, <2>6 DEF Start, Append1, SubmitNothing, Prepare, Await, Destroy, Joined,
                      outcome
  <2>7. ASSUME NEW w \in Workers,
               \/ WaitForWork(w) \/ TakeSingle(w) \/ TakeMulti(w) \/ KeepError(w)
               \/ Rest(w) \/ SignOff(w) \/ MakeReady(w) \/ SpuriousWake(w)
        PROVE  UNCHANGED <<future, runs>>
    BY <2>7 DEF WaitForWork, TakeSingle, TakeMulti, KeepError, Rest, SignOff,
                MakeReady, SpuriousWake, outcome
  <2>8. CASE UNCHANGED vars
    BY <2>5, <2>8 DEF vars
  <2> QED
    BY <2>1, <2>2, <2>3, <2>4, <2>5, <2>6, <2>7, <2>8
       DEF Next, CallerStep, WorkerStep
<1> QED
  BY <1>1, <1>2, Invariance, PTL DEF Spec, ImplementsForkJoin, FJ!Spec
=============================================================================
