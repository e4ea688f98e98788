----------------------- MODULE SqlTransaction_proofs -----------------------
(***************************************************************************)
(* SqlTransaction for any number of statements, transactions and losses:   *)
(* the types, that no foreign statement enters a transaction, and that a   *)
(* transaction which met no re-opened connection is done whole or not at   *)
(* all.                                                                    *)
(*                                                                         *)
(* None of the last two is inductive.  What carries them is where a        *)
(* session can have autocommit off at all, and, as long as the connection  *)
(* was not re-opened, that a session that is still up has just the         *)
(* statements before the loop's index pending and none landed.             *)
(***************************************************************************)
EXTENDS SqlTransaction, TLAPS

(* A session with autocommit off is alive and inside Execute; without it   *)
(* nothing is pending.                                                     *)
SessionInv ==
  /\ inTrans => link = "up" /\ pc \in {"items", "rollback", "commit"}
  /\ ~inTrans => pending = {}
  /\ handle = "null" => link = "lost"

(* What is pending are statements before the loop's index.                 *)
IndexInv ==
  /\ Len(items) <= MaxItems
  /\ pending \subseteq 1 .. pos - 1
  /\ pc = "begin" => pos = 1 /\ Len(items) >= 1
  /\ pc = "items" => pos <= Len(items)
  /\ pc = "commit" => pos = Len(items) + 1

(* Without a re-opened connection the statements are all pending, or lost  *)
(* with their session.                                                     *)
WholeInv ==
  ~reconnected =>
    /\ pc \in {"begin", "items", "rollback", "commit"} => landed = {}
    /\ pc \in {"items", "commit"} =>
          link = "lost" \/ (inTrans /\ pending = 1 .. pos - 1)

IInv == TypeOK /\ SessionInv /\ IndexInv /\ WholeInv /\ AllOrNothing

USE SqlTransactionAssumption

LEMMA IInit == Init => IInv
<1>. SUFFICES ASSUME Init PROVE IInv
  OBVIOUS
<1>1. <<>> \in Seq({"plain", "prepared"}) /\ Len(<<>>) = 0 /\ MaxItems + 1 \in Nat
  OBVIOUS
<1>2. TypeOK
  <2>1. items \in Seq({"plain", "prepared"})
    BY <1>1 DEF Init
  <2>2. pos \in 1 .. MaxItems + 1 /\ losses \in 0 .. MaxLosses /\ transactions \in 0 .. MaxTrans
    BY DEF Init
  <2>. QED  BY <2>1, <2>2 DEF Init, TypeOK
<1>3. SessionInv /\ WholeInv /\ AllOrNothing
  BY DEF Init, SessionInv, WholeInv, AllOrNothing
<1>4. IndexInv
  BY <1>1 DEF Init, IndexInv
<1>. QED  BY <1>2, <1>3, <1>4 DEF IInv

(* A statement of the transaction that the session executes.               *)
LEMMA ApplyItem ==
  ASSUME IInv, pc = "items", Apply(pos)
  PROVE  /\ pending' \subseteq 1 .. pos
         /\ landed' \subseteq 1 .. MaxItems
         /\ ~inTrans => pending' = {}
         /\ inTrans => landed' = landed /\ pending' = pending \cup {pos}
<1>1. pos \in 1 .. Len(items) /\ pos <= MaxItems
  BY DEF IInv, TypeOK, IndexInv
<1>2. CASE inTrans
  <2>1. pending' = pending \cup {pos} /\ landed' = landed
    BY <1>2 DEF Apply
  <2>2. pending \subseteq 1 .. pos
    BY <1>1 DEF IInv, IndexInv
  <2>. QED  BY <1>1, <1>2, <2>1, <2>2 DEF IInv, TypeOK
<1>3. CASE ~inTrans
  <2>1. pending' = {} /\ landed' \subseteq landed \cup {pos}
    BY <1>3 DEF Apply, IInv, SessionInv
  <2>2. pos \in 1 .. MaxItems
    BY <1>1 DEF IInv, IndexInv
  <2>. QED  BY <1>3, <2>1, <2>2 DEF IInv, TypeOK
<1>. QED  BY <1>2, <1>3

LEMMA Step ==
  ASSUME IInv, [Next]_vars
  PROVE  IInv'
<1>. USE DEF session, bounds
<1>0. items \in Seq({"plain", "prepared"}) /\ Len(items) \in Nat /\ pos \in Nat /\ Items = 1 .. Len(items)
  BY DEF IInv, TypeOK, Items
<1>1. CASE LoseConnection
  <2>11. TypeOK'
    <3>1. losses' \in 0 .. MaxLosses
      BY <1>1 DEF LoseConnection, IInv, TypeOK
    <3>. QED  BY <1>1, <3>1 DEF LoseConnection, RollBack, IInv, TypeOK
  <2>12. SessionInv'
    BY <1>0, <1>1 DEF LoseConnection, RollBack, IInv, TypeOK, SessionInv
  <2>13. IndexInv'
    BY <1>0, <1>1 DEF LoseConnection, RollBack, IInv, TypeOK, SessionInv, IndexInv
  <2>14. WholeInv'
    BY <1>0, <1>1 DEF LoseConnection, RollBack, IInv, TypeOK, SessionInv, IndexInv, WholeInv
  <2>15. AllOrNothing'
    BY <1>0, <1>1 DEF LoseConnection, RollBack, IInv, TypeOK, SessionInv, IndexInv, WholeInv, AllOrNothing, Items
  <2>. QED  BY <2>11, <2>12, <2>13, <2>14, <2>15 DEF IInv
<1>2. CASE Start
  <2>1. PICK n \in 0 .. MaxItems : items' \in [1..n -> {"plain", "prepared"}]
    BY <1>2 DEF Start
  <2>2. items' \in Seq({"plain", "prepared"}) /\ Len(items') = n /\ DOMAIN items' = 1 .. n
    BY <2>1
  <2>3. items' = <<>> => Items' = {}
    BY <2>2 DEF Items
  <2>4. items' # <<>> => Len(items') >= 1
    BY <2>2
  <2>5. ~inTrans /\ pending = {}
    BY <1>2 DEF Start, IInv, SessionInv
  <2>6. pc' \in {"idle", "begin"} /\ pos' = 1 /\ landed' = {} /\ ~reconnected'
    BY <1>2 DEF Start
  <2>7. TypeOK'
    <3>1. MaxItems + 1 \in Nat /\ 1 \in 1 .. MaxItems + 1 /\ Len(items') <= MaxItems
      BY <2>2
    <3>2. transactions' \in 0 .. MaxTrans
      BY <1>2 DEF Start, IInv, TypeOK
    <3>. QED  BY <1>2, <2>2, <2>6, <3>1, <3>2 DEF Start, IInv, TypeOK
  <2>8. SessionInv'
    BY <1>2, <2>5 DEF Start, IInv, SessionInv
  <2>9. IndexInv'
    BY <1>2, <2>2, <2>4, <2>5, <2>6 DEF Start, IndexInv
  <2>10. WholeInv'
    BY <2>6 DEF WholeInv
  <2>11. AllOrNothing'
    BY <1>2, <2>3, <2>6 DEF Start, AllOrNothing
  <2>. QED  BY <2>7, <2>8, <2>9, <2>10, <2>11 DEF IInv
<1>3. CASE Begin
  <2>1. pos = 1 /\ pending = {} /\ 1 .. pos - 1 = {}
    BY <1>3 DEF Begin, IInv, SessionInv, IndexInv
  <2>2. Len(items) >= 1
    BY <1>0, <1>3 DEF Begin, IInv, IndexInv
  <2>11. TypeOK'
    BY <1>0, <1>3, <2>1, <2>2 DEF Begin, IInv, TypeOK
  <2>12. SessionInv'
    BY <1>0, <1>3, <2>1, <2>2 DEF Begin, IInv, TypeOK, SessionInv
  <2>13. IndexInv'
    BY <1>0, <1>3, <2>1, <2>2 DEF Begin, IInv, TypeOK, SessionInv, IndexInv
  <2>14. WholeInv'
    BY <1>0, <1>3, <2>1, <2>2 DEF Begin, IInv, TypeOK, SessionInv, IndexInv, WholeInv
  <2>15. AllOrNothing'
    BY <1>0, <1>3, <2>1, <2>2 DEF Begin, IInv, TypeOK, SessionInv, IndexInv, WholeInv, AllOrNothing, Items
  <2>. QED  BY <2>11, <2>12, <2>13, <2>14, <2>15 DEF IInv
<1>4. CASE ItemSucceeds
  <2>1. Apply(pos) /\ Advance /\ pc = "items"
    BY <1>4 DEF ItemSucceeds
  <2>2. pos' = pos + 1 /\ pos' - 1 = pos /\ pos \in 1 .. Len(items) /\ Len(items) <= MaxItems
    BY <1>0, <2>1 DEF Advance, IInv, TypeOK, IndexInv
  <2>11. TypeOK'
    BY <1>0, <1>4, <2>1, <2>2, ApplyItem DEF ItemSucceeds, Advance, IInv, TypeOK
  <2>12. SessionInv'
    BY <1>0, <1>4, <2>1, <2>2, ApplyItem DEF ItemSucceeds, Advance, IInv, TypeOK, SessionInv
  <2>13. IndexInv'
    BY <1>0, <1>4, <2>1, <2>2, ApplyItem DEF ItemSucceeds, Advance, IInv, TypeOK, SessionInv, IndexInv
  <2>14. WholeInv'
    <3>1. ~reconnected => inTrans /\ pending' = 1 .. pos /\ landed' = {}
      <4>1. 1 .. pos = 1 .. pos - 1 \cup {pos}
        BY <1>0, <2>2
      <4>. QED
        BY <1>4, <2>1, <4>1, ApplyItem DEF ItemSucceeds, IInv, WholeInv
    <3>. QED  BY <1>4, <2>1, <2>2, <3>1 DEF ItemSucceeds, Advance, WholeInv
  <2>15. AllOrNothing'
    BY <1>0, <1>4, <2>1, <2>2, ApplyItem DEF ItemSucceeds, Advance, IInv, TypeOK, SessionInv, IndexInv, WholeInv, AllOrNothing, Items
  <2>. QED  BY <2>11, <2>12, <2>13, <2>14, <2>15 DEF IInv
<1>5. CASE ItemFails
  <2>11. TypeOK'
    BY <1>0, <1>5 DEF ItemFails, RollBack, IInv, TypeOK
  <2>12. SessionInv'
    BY <1>0, <1>5 DEF ItemFails, RollBack, IInv, TypeOK, SessionInv
  <2>13. IndexInv'
    BY <1>0, <1>5 DEF ItemFails, RollBack, IInv, TypeOK, SessionInv, IndexInv
  <2>14. WholeInv'
    BY <1>0, <1>5 DEF ItemFails, RollBack, IInv, TypeOK, SessionInv, IndexInv, WholeInv
  <2>15. AllOrNothing'
    BY <1>0, <1>5 DEF ItemFails, RollBack, IInv, TypeOK, SessionInv, IndexInv, WholeInv, AllOrNothing, Items
  <2>. QED  BY <2>11, <2>12, <2>13, <2>14, <2>15 DEF IInv
<1>6. CASE ItemReconnects
  <2>1. Apply(pos) /\ Advance /\ pc = "items" /\ ~inTrans /\ reconnected'
    BY <1>6 DEF ItemReconnects, IInv, SessionInv
  <2>2. pos' = pos + 1 /\ pos' - 1 = pos /\ pos \in 1 .. Len(items) /\ Len(items) <= MaxItems
    BY <1>0, <2>1 DEF Advance, IInv, TypeOK, IndexInv
  <2>11. TypeOK'
    BY <1>0, <1>6, <2>1, <2>2, ApplyItem DEF ItemReconnects, Advance, IInv, TypeOK
  <2>12. SessionInv'
    BY <1>0, <1>6, <2>1, <2>2, ApplyItem DEF ItemReconnects, Advance, IInv, TypeOK, SessionInv
  <2>13. IndexInv'
    BY <1>0, <1>6, <2>1, <2>2, ApplyItem DEF ItemReconnects, Advance, IInv, TypeOK, SessionInv, IndexInv
  <2>14. WholeInv'
    BY <1>0, <1>6, <2>1, <2>2, ApplyItem DEF ItemReconnects, Advance, IInv, TypeOK, SessionInv, IndexInv, WholeInv
  <2>15. AllOrNothing'
    BY <1>0, <1>6, <2>1, <2>2, ApplyItem DEF ItemReconnects, Advance, IInv, TypeOK, SessionInv, IndexInv, WholeInv, AllOrNothing, Items
  <2>. QED  BY <2>11, <2>12, <2>13, <2>14, <2>15 DEF IInv
<1>7. CASE ItemLosesHandle
  BY <1>0, <1>7 DEF ItemLosesHandle, IInv, TypeOK, SessionInv, IndexInv, WholeInv, AllOrNothing, Items
<1>8. CASE PreparedItemFails
  BY <1>0, <1>8 DEF PreparedItemFails, IInv, TypeOK, SessionInv, IndexInv, WholeInv, AllOrNothing, Items
<1>9. CASE Rollback
  BY <1>0, <1>9 DEF Rollback, RollBack, IInv, TypeOK, SessionInv, IndexInv, WholeInv, AllOrNothing, Items
<1>10. CASE Commit
  <2>1. pos - 1 = Len(items) /\ pending \subseteq 1 .. Len(items) /\ Len(items) <= MaxItems
    BY <1>0, <1>10 DEF Commit, IInv, IndexInv
  <2>11. TypeOK'
    <3>1. landed' \subseteq 1 .. MaxItems
      <4>1. landed' = landed \/ landed' = landed \cup pending
        BY <1>10 DEF Commit
      <4>2. landed \subseteq 1 .. MaxItems /\ pending \subseteq 1 .. MaxItems
        BY <1>0, <2>1 DEF IInv, TypeOK
      <4>. QED  BY <4>1, <4>2
    <3>. QED  BY <1>10, <3>1 DEF Commit, RollBack, IInv, TypeOK
  <2>12. SessionInv'
    BY <1>0, <1>10, <2>1 DEF Commit, RollBack, IInv, TypeOK, SessionInv
  <2>13. IndexInv'
    BY <1>0, <1>10, <2>1 DEF Commit, RollBack, IInv, TypeOK, SessionInv, IndexInv
  <2>14. WholeInv'
    BY <1>0, <1>10, <2>1 DEF Commit, RollBack, IInv, TypeOK, SessionInv, IndexInv, WholeInv
  <2>15. AllOrNothing'
    BY <1>0, <1>10, <2>1 DEF Commit, RollBack, IInv, TypeOK, SessionInv, IndexInv, WholeInv, AllOrNothing, Items
  <2>. QED  BY <2>11, <2>12, <2>13, <2>14, <2>15 DEF IInv
<1>11. CASE CommitUnanswered
  <2>1. pos - 1 = Len(items) /\ pending \subseteq 1 .. Len(items) /\ Len(items) <= MaxItems
    BY <1>0, <1>11 DEF CommitUnanswered, IInv, IndexInv
  <2>11. TypeOK'
    <3>1. landed' \subseteq 1 .. MaxItems
      BY <1>0, <1>11, <2>1 DEF CommitUnanswered, IInv, TypeOK
    <3>2. losses' \in 0 .. MaxLosses
      BY <1>11 DEF CommitUnanswered, IInv, TypeOK
    <3>. QED  BY <1>11, <3>1, <3>2 DEF CommitUnanswered, RollBack, IInv, TypeOK
  <2>12. SessionInv'
    BY <1>0, <1>11, <2>1 DEF CommitUnanswered, RollBack, IInv, TypeOK, SessionInv
  <2>13. IndexInv'
    BY <1>0, <1>11, <2>1 DEF CommitUnanswered, RollBack, IInv, TypeOK, SessionInv, IndexInv
  <2>14. WholeInv'
    BY <1>0, <1>11, <2>1 DEF CommitUnanswered, RollBack, IInv, TypeOK, SessionInv, IndexInv, WholeInv
  <2>15. AllOrNothing'
    BY <1>0, <1>11, <2>1 DEF CommitUnanswered, RollBack, IInv, TypeOK, SessionInv, IndexInv, WholeInv, AllOrNothing, Items
  <2>. QED  BY <2>11, <2>12, <2>13, <2>14, <2>15 DEF IInv
<1>12. CASE OtherStatement
  <2>1. pc = "idle" /\ ~inTrans /\ landed' = landed /\ pending' = pending
    BY <1>12 DEF OtherStatement, Locked, Apply, Foreign, IInv, TypeOK, SessionInv
  <2>. QED
    BY <1>0, <1>12, <2>1 DEF OtherStatement, IInv, TypeOK, SessionInv, IndexInv, WholeInv, AllOrNothing, Items
<1>13. CASE Ping
  <2>1. pc = "idle" /\ ~inTrans /\ pending = {}
    BY <1>13 DEF Ping, Locked, IInv, TypeOK, SessionInv
  <2>. QED
    BY <1>0, <1>13, <2>1 DEF Ping, IInv, TypeOK, SessionInv, IndexInv, WholeInv, AllOrNothing, Items
<1>14. CASE UNCHANGED vars
  BY <1>0, <1>14 DEF vars, IInv, TypeOK, SessionInv, IndexInv, WholeInv, AllOrNothing, Items
<1>. QED
  BY <1>1, <1>2, <1>3, <1>4, <1>5, <1>6, <1>7, <1>8, <1>9, <1>10, <1>11, <1>12, <1>13, <1>14
  DEF Next, Execute

(* The invariant holds in every behaviour of the specification.            *)
THEOREM Invariant == Spec => []IInv
  BY IInit, Step, PTL DEF Spec

(* Types: whatever is lost or fails, and however long the transaction is.  *)
THEOREM TypeCorrect == Spec => []TypeOK
<1>1. IInv => TypeOK
  BY DEF IInv
<1>. QED  BY Invariant, <1>1, PTL

(* SqlTransaction::Execute does all of the transaction or nothing of it,   *)
(* unless the connection is re-opened underneath, and does not report      *)
(* success for less than all.                                              *)
THEOREM TransactionIsWhole == Spec => []AllOrNothing
<1>1. IInv => AllOrNothing
  BY DEF IInv
<1>. QED  BY Invariant, <1>1, PTL

(* The connection's lock keeps statements of other threads out of an open  *)
(* transaction.                                                            *)
THEOREM TransactionIsPrivate == Spec => []NoForeignStatement
<1>1. IInv => NoForeignStatement
  <2>1. 0 \notin 1 .. pos - 1
    OBVIOUS
  <2>. QED  BY <2>1 DEF IInv, IndexInv, NoForeignStatement, Foreign
<1>. QED  BY Invariant, <1>1, PTL
=============================================================================
