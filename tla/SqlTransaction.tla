--------------------------- MODULE SqlTransaction ---------------------------
(***************************************************************************)
(* One SqlTransaction executed over one MySQL connection that may be lost  *)
(* at any moment, statement by statement, while other threads want to use  *)
(* the same connection (m_pAsyncConn serves direct transactions, direct    *)
(* statements and the ping of every worker).  Plain statements re-open a   *)
(* lost connection and try again; prepared statements, START TRANSACTION,  *)
(* COMMIT and ROLLBACK do not.                                             *)
(*                                                                         *)
(* The server's half is external: a session that is lost is rolled back, a *)
(* new session starts with autocommit on.                                  *)
(***************************************************************************)
EXTENDS Integers, Sequences

CONSTANTS
  MaxItems,  \* bound: statements in a transaction
  MaxTrans,  \* bound: transactions, one after the other
  MaxLosses  \* bound: how often the connection is lost

ASSUME SqlTransactionAssumption ==
  MaxItems \in Nat /\ MaxTrans \in Nat /\ MaxLosses \in Nat

VARIABLES
  link,        \* the server's end of the connection: "up" or "lost"
  handle,      \* mMysql: "open", or "null" after a failed reconnection
  inTrans,     \* the session has autocommit off
  pending,     \* statements of the session that are not committed
  landed,      \* statements of this transaction that are committed
  items,       \* SqlTransaction::m_queue: "plain" or "prepared"
  pos,         \* the loop's i
  pc,          \* where SqlTransaction::Execute is
  result,      \* what it returned
  reconnected, \* history: the connection was re-opened during it
  losses, transactions

vars == <<link, handle, inTrans, pending, landed, items, pos, pc, result,
          reconnected, losses, transactions>>

session == <<link, inTrans, pending, landed>>
bounds  == <<losses, transactions>>

Foreign == 0   \* a statement of another thread; the items are 1, 2, ...

Items == DOMAIN items

(* SqlPlainRequest; the others are SqlPreparedRequests.                    *)
Plain == {p \in Items : items[p] = "plain"}

Init ==
  /\ link = "up"
  /\ handle = "open"
  /\ inTrans = FALSE
  /\ pending = {}
  /\ landed = {}
  /\ items = <<>>
  /\ pos = 1
  /\ pc = "idle"
  /\ result = "none"
  /\ reconnected = FALSE
  /\ losses = 0
  /\ transactions = 0

-----------------------------------------------------------------------------
(* The server.                                                             *)

RollBack == inTrans' = FALSE /\ pending' = {}

LoseConnection ==
  /\ link = "up"
  /\ losses < MaxLosses
  /\ link' = "lost"
  /\ losses' = losses + 1
  /\ RollBack
  /\ UNCHANGED <<handle, landed, items, pos, pc, result, reconnected,
                 transactions>>

(* The session executes a statement: without a transaction it is committed.*)
Apply(stmt) ==
  IF inTrans
    THEN pending' = pending \cup {stmt} /\ UNCHANGED landed
    ELSE /\ landed' = landed \cup ({stmt} \ {Foreign})
         /\ UNCHANGED pending

-----------------------------------------------------------------------------
(* SqlTransaction::Execute.  From Begin to the end it holds the            *)
(* connection's lock.                                                      *)

Locked == pc \notin {"idle", "crashed"}

Start ==
  /\ pc = "idle"
  /\ transactions < MaxTrans
  /\ transactions' = transactions + 1
  /\ \E n \in 0 .. MaxItems : items' \in [1..n -> {"plain", "prepared"}]
  /\ landed' = {}
  /\ pos' = 1
  /\ reconnected' = FALSE
  /\ IF items' = <<>>
       THEN pc' = "idle" /\ result' = "ok"
       ELSE pc' = "begin" /\ result' = "none"
  /\ UNCHANGED <<link, handle, inTrans, pending, losses>>

(* conn->BeginTransaction(): the result is not looked at.  mysql_query on a*)
(* null handle ends the process.                                           *)
Begin ==
  /\ pc = "begin"
  /\ pc' = IF handle = "null" THEN "crashed" ELSE "items"
  /\ inTrans' = (handle = "open" /\ link = "up")
  /\ UNCHANGED <<link, handle, pending, landed, items, pos, result,
                 reconnected, bounds>>

(* Mutation: the loop runs one too far.                                    *)
AdvanceTooFar ==
  /\ pos' = pos + 1
  /\ pc' = IF pos > Len(items) THEN "commit" ELSE "items"

Advance ==
  /\ pos' = pos + 1
  /\ pc' = IF pos = Len(items) THEN "commit" ELSE "items"

(* The statement is executed.                                              *)
ItemSucceeds ==
  /\ pc = "items"
  /\ handle = "open" /\ link = "up"
  /\ Apply(pos)
  /\ Advance
  /\ UNCHANGED <<link, handle, inTrans, items, result, reconnected, bounds>>

(* Mutation: one statement that fails does not stop the others.            *)
ItemFailsAlone ==
  /\ pc = "items"
  /\ handle = "open" /\ link = "up"
  /\ Advance
  /\ UNCHANGED <<handle, items, result, reconnected, session, bounds>>

(* A duplicate key or a wrong value count: the statement has no effect; a  *)
(* deadlock: the server rolls the whole transaction back.  (Any other error*)
(* of a plain statement is an ASSERT(false).)                              *)
ItemFails ==
  /\ pc = "items"
  /\ handle = "open" /\ link = "up"
  /\ \/ RollBack
     \/ UNCHANGED <<inTrans, pending>>
  /\ pc' = "rollback"
  /\ UNCHANGED <<link, handle, landed, items, pos, result, reconnected, bounds>>

(* A plain statement finds the connection lost: HandleMySQLError opens a   *)
(* new one, and the statement is executed there.                           *)
ItemReconnects ==
  /\ pc = "items"
  /\ pos \in Plain
  /\ handle = "open" /\ link = "lost"
  /\ link' = "up"
  /\ reconnected' = TRUE
  /\ Apply(pos)
  /\ Advance
  /\ UNCHANGED <<handle, inTrans, items, result, bounds>>

(* ... or fails to, and leaves no handle.                                  *)
ItemLosesHandle ==
  /\ pc = "items"
  /\ pos \in Plain
  /\ handle = "open" /\ link = "lost"
  /\ handle' = "null"
  /\ pc' = "rollback"
  /\ UNCHANGED <<items, pos, result, reconnected, session, bounds>>

(* A prepared statement only reports the error.                            *)
PreparedItemFails ==
  /\ pc = "items"
  /\ pos \in Items \ Plain
  /\ handle = "open" /\ link = "lost"
  /\ pc' = "rollback"
  /\ UNCHANGED <<handle, items, pos, result, reconnected, session, bounds>>

(* Mutation: return false alone.                                           *)
ReturnFailure ==
  /\ pc = "rollback"
  /\ pc' = "idle"
  /\ result' = "failed"
  /\ UNCHANGED <<handle, items, pos, reconnected, session, bounds>>

(* conn->RollbackTransaction(), return false                               *)
Rollback ==
  /\ pc = "rollback"
  /\ IF handle = "null"
       THEN pc' = "crashed" /\ UNCHANGED <<inTrans, pending, result>>
       ELSE pc' = "idle" /\ result' = "failed" /\ RollBack
  /\ UNCHANGED <<link, handle, landed, items, pos, reconnected, bounds>>

(* return conn->CommitTransaction()                                        *)
Commit ==
  /\ pc = "commit"
  /\ IF link = "up"
       THEN landed' = landed \cup pending /\ result' = "ok"
       ELSE UNCHANGED landed /\ result' = "failed"
  /\ RollBack
  /\ pc' = "idle"
  /\ UNCHANGED <<link, handle, items, pos, reconnected, bounds>>

(* The server commits, and its answer is lost.                             *)
CommitUnanswered ==
  /\ pc = "commit"
  /\ link = "up"
  /\ losses < MaxLosses
  /\ losses' = losses + 1
  /\ link' = "lost"
  /\ landed' = landed \cup pending
  /\ RollBack
  /\ result' = "failed"
  /\ pc' = "idle"
  /\ UNCHANGED <<handle, items, pos, reconnected, transactions>>

Execute ==
  \/ Begin \/ ItemSucceeds \/ ItemFails \/ ItemReconnects \/ ItemLosesHandle
  \/ PreparedItemFails \/ Rollback \/ Commit \/ CommitUnanswered

-----------------------------------------------------------------------------
(* Other threads.                                                          *)

(* Mutation: the lock is not taken.                                        *)
OtherStatementUnlocked ==
  /\ pc # "crashed"
  /\ handle = "open" /\ link = "up"
  /\ Apply(Foreign)
  /\ UNCHANGED <<link, handle, inTrans, items, pos, pc, result, reconnected,
                 bounds>>

(* Database::DirectExecute, under the connection's lock.                   *)
OtherStatement ==
  /\ ~Locked /\ pc # "crashed"
  /\ handle = "open" /\ link = "up"
  /\ Apply(Foreign)
  /\ UNCHANGED <<link, handle, inTrans, items, pos, pc, result, reconnected,
                 bounds>>

(* Database::Ping, likewise: a query re-opens a lost connection, as a      *)
(* direct statement does, and one that has no handle as well; it may fail. *)
Ping ==
  /\ ~Locked /\ pc # "crashed"
  /\ handle = "null" \/ link = "lost"
  /\ \/ handle' = "open" /\ link' = "up"
     \/ handle' = "null" /\ UNCHANGED link
  /\ UNCHANGED <<inTrans, pending, landed, items, pos, pc, result, reconnected,
                 bounds>>

Next == LoseConnection \/ Start \/ Execute \/ OtherStatement \/ Ping

Spec == Init /\ [][Next]_vars

FairSpec == Spec /\ WF_vars(Execute)
-----------------------------------------------------------------------------
(* What has to be true.                                                    *)

(* Every variable has its type.                                            *)
TypeOK ==
  /\ link \in {"up", "lost"}
  /\ handle \in {"open", "null"}
  /\ inTrans \in BOOLEAN
  /\ pending \subseteq 0 .. MaxItems
  /\ landed \subseteq 1 .. MaxItems
  /\ items \in Seq({"plain", "prepared"})
  /\ pos \in 1 .. MaxItems + 1
  /\ pc \in {"idle", "begin", "items", "rollback", "commit", "crashed"}
  /\ result \in {"none", "ok", "failed"}
  /\ reconnected \in BOOLEAN
  /\ losses \in 0 .. MaxLosses
  /\ transactions \in 0 .. MaxTrans

(* All of a transaction or nothing of it is in the database when it is over*)
(* and, if it reports success, all of it -- whatever failed or was lost,   *)
(* unless the connection was re-opened underneath.                         *)
AllOrNothing ==
  pc = "idle" /\ ~reconnected =>
    /\ landed \in {{}, Items}
    /\ result = "ok" => landed = Items

(* No statement of another thread becomes part of the transaction, to be   *)
(* undone with it.                                                         *)
NoForeignStatement == Foreign \notin pending

(* A transaction that was begun comes to an end, and leaves the session    *)
(* outside a transaction.                                                  *)
TransactionEnds ==
  pc = "begin" ~> pc \in {"idle", "crashed"} /\ ~inTrans

(* DatabaseMysql.cpp on autocommit: "mangos use transactions, autocommit is*)
(* turned of during it".                                                   *)
AutocommitOffInTransaction ==
  pc = "items" /\ pos > 1 /\ link = "up" => inTrans
=============================================================================
