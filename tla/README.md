# A verification project for the VMaNGOS / Eluna world server

The repository is a game server: `mangosd` (one realm's world), `realmd` (login), the
`shared` and `framework` libraries under both, and `game`, the world itself. This
directory holds TLA+ modules translated from that code, TLC configurations that check
them on small instances, and TLAPS proofs about them.

## 1. The system and its parts

| Part | State it keeps | Operations | Talks to | What makes it correct |
|---|---|---|---|---|
| `shared/ThreadPool` | a workload, a status, `m_active`, `m_index`, the promise | start, `<<`, processWorkload, the workers' loop, destructor | map threads, world thread, result queue | a batch runs exactly once, its future resolves only then, the pool can be used again and destroyed |
| `shared/Database` async layer | the shared delay queue, a serial queue per worker, a transaction per thread | Execute, AsyncQuery, Begin/Commit/RollbackTransaction, DelayQueryHolder, HaltDelayThread, StopServer | every subsystem that saves or loads | nothing handed over is lost, operations with one serial id run in order, a transaction is all or nothing |
| `shared/Database` connections | a MySQL session, its autocommit state | Execute, Query, reconnect | the delay threads, synchronous callers | a lost connection is re-opened without tearing a transaction |
| `SqlResultQueue` | finished queries' callbacks, those that may only run on the world thread | Update, CancelAll | delay threads add, the world thread drains, a thread pool runs | every callback runs once, unsafe ones on the world thread only |
| `game/World` sessions | `m_sessions`, the login queue, disconnected sessions, an inbox filled by network threads | AddSession_, RemoveQueuedSession, UpdateSessions, logout | sockets, `WorldSession`, players | one session per account, population limits, a character is saved before it can be loaded again |
| `game/WorldSession` | packet queues, logout timer, the player | Update, QueuePacket, LogoutPlayer, kick | socket threads, `World`, `Map` | each packet handled once by the right thread, no packet after logout |
| `game/Maps` | maps, grids, players per map, far teleports | MapManager::Update, Map::Update, CreateInstance, grid load / unload | thread pools, sessions | a player is on one map, no map updated twice at a time, unloads only when empty |
| `framework/Utilities/EventProcessor` | a time-ordered queue of events | AddEvent, Update, KillAllEvents | units, spells | an event runs once and not before its time |
| `framework/Network` | sockets, output buffers, a reactor per thread | open, handle input / output, close | sessions, realmd | no use after close, nothing sent is dropped silently |
| `game/LFG` | queued players and queued groups, on a thread of their own; two message lists | join, leave, fill a group, form one | groups and players, by messages only | a group that believes itself queued is, or will hear that it is not |
| `game/Group` | members, leader, invitations, a pointer or two per player | invite, accept, remove, change leader, disband | players, the finder, database | membership agreed by both sides, a leader among the members |
| `game/Battlegrounds` queues | queues and invitations | join, invite, timeout | players, groups | nobody invited twice |
| `game/AuctionHouse`, `Mail` | items, money, owners, deadlines | sell, bid, buy out, cancel, expire; send, take, return, delete | players, database | items and money are conserved, in memory and in the database |
| `game/Handlers/TradeHandler` | two offers and two acceptances | offer, accept, cancel | players | both sides change hands or neither |
| `game/Guild`, `Chat/Channels` | members, ranks, owners | join, leave, promote | players, database | one leader, one owner |
| `game/Movement`, `Threat`, `AI`, `Spells`, `Combat`, `Objects` | generator stacks, threat lists, spell states, auras | too many to list | maps | stacks never empty, no dangling references |
| `game/PoolManager`, `GameEventMgr` | spawned members of each pool, running events | spawn, despawn, start, stop | maps | never more than the pool's limit |
| `game/Anticheat` (Warden) | checks sent, reply timer | request, reply, timeout | sessions | a client that stays silent is kicked |
| `realmd` | the auth state of each connection | challenge, proof, reconnect, realm list, patch transfer | login database | nothing but a successful proof reaches the realm list |
| `mangosd` | the process's threads | start up, WorldRunnable, CLI, RA, SOAP, shut down | everything | threads joined in order, nothing runs after its database is closed |
| `scripts`, `sql`, `dep`, `contrib` | content, schemas, vendored libraries, tools | - | - | not part of the core |

What is hard here is not computation but order. Batches of map updates run on worker
threads that share a workload without a lock; saves and loads of one character travel
through queues drained by several database threads; results come back on yet other
threads; sessions are created by network threads, live on the world thread, and outlive
their sockets; shutdown has to empty all of it. `PROJECT.json` lists each of these
hazards at its line.


## 2. Modules

| Module | Models | Its state in the code | Composed with |
|---|---|---|---|
| `ForkJoin` | what a thread pool promises: a batch is handed over, every job runs once, the future resolves | - | implemented by `ThreadPool`, used by `SqlResultQueue` |
| `ThreadPool` | `shared/ThreadPool`: the owner and every worker, step by step at each access to shared state | `m_workload`, `m_status`, `m_active`, `m_index`, `m_dirty`, `m_errors`, the promise | refines `ForkJoin` |
| `AsyncStore` | what the asynchronous database promises: operations handed over are executed once, those with one serial id in order | - | implemented by `SqlDelay` |
| `SqlDelay` | `Database` (handing over, transactions per thread, halting) and `SqlDelayThread::run` | `m_threadBodies` with a `m_serialDelayQueue` each, `m_delayQueue`, `m_bAllowAsyncTransactions`, `m_numAsyncWorkers`, the thread's `m_TransStorage` | refines `AsyncStore` |
| `SqlResultQueue` | `SqlResultQueue::Update`, `CancelAll` and the pool that runs thread-safe callbacks | the queue, `_threadUnsafeWaitingQueries`, `numUnsafeQueries`, the pool through `ForkJoin` | `Database` |
| `Database` | both joined where the code joins them: a worker that executes a query adds its callback, `StopServer` halts, cancels, closes | the state of the two | extends `SqlDelay`; `SqlResultQueue` by INSTANCE, as `Results` |
| `SqlTransaction` | `SqlTransaction::Execute` on a MySQL connection that can be lost between any two statements | the connection's handle, its session, autocommit; the loop's position | - |
| `Sessions` | `World::UpdateSessions` and what it calls, `WorldSession::Update` and `LogoutPlayer`, the character login | `m_sessions`, `m_disconnectedSessions`, `m_QueuedSessions`, `addSessQueue`, the flags of each session, the players, the saves and loads under way | the order of `SqlDelay`, taken as proved |
| `Lfg` | the meeting stone's group finder (`LFGQueue` on its thread, `LFGMgr`, the two `Messager`s) and the parties it fills (`Group`, the group handlers) | `m_queuedPlayers`, `m_queuedGroups`, both message lists, `m_memberSlots`, `m_leaderGuid`, `m_LFGAreaId`, each player's `m_group`, `m_originalGroup`, `m_groupInvite` | - |
| `Auctions` | one auction house and the mails it sends, with what players mail each other: the handlers, `AuctionHouseObject`, `MailDraft`, `MasterPlayer`'s mailbox, on the world thread and the map threads | the auctions, `mAitems`, the mails as rows, each player's `m_mail`, `mMitems`, gold and items | - |
| `SumTheorems` | nothing in the code: what `SumFunction` of the community modules returns on finite functions, for the proofs about gold | - | used by `Auctions_proofs` |
| `MailStore` | how the gold in a mail reaches the database: the row and what its receiver does with it | the rows, the mails in memory, the operations under way | the order `AsyncStore` promises |

The `MC` modules give constants a value a `.cfg` cannot write; the `_proofs` modules
hold the theorems. Variables and actions have the names of the code where it has one
(`m_active`, `AddToSerialDelayQueue`, `RemoveQueuedSession`); a phase or `pc` variable
stands for the place of a thread in a function.

How steps were cut:

- **`ThreadPool`**: `processWorkload` from its lock on, and a worker's test of its wait
  predicate, exclude each other through `m_mutex` and are one step each. The rest is
  unsynchronised and is split at every access to shared state: fetching `m_index`, running
  the job, the decrement of `m_active`, clearing the workload, the status, the promise. A
  job may throw, in each error mode; a worker may wake up for nothing.
- **`SqlDelay`**: one step per queue operation of a worker (both queues have their own
  lock), one for the execution, one for the test of `m_running`. `Execute`, `AsyncQuery`,
  `DelayQueryHolder` and the transaction calls are a step of the calling thread. Halting
  is split as in the code: stop each body, join all, free each (its destructor drains).
  Operations may be handed over while the workers stop and are joined, also to one that has
  left its loop (`SqlDelayThread.cpp:34`); not while the bodies are destroyed, when a hand-over
  would use a body that is gone; and again by the callbacks that are cancelled afterwards.
- **`SqlResultQueue`**: `Update` is split at each callback it takes, at the batch it hands
  to the pool, at each callback it runs itself and at its end; the time limit may strike
  after any callback.
- **`SqlTransaction`**: one step per statement, for each way it can end: it succeeds, it
  fails, it re-opens the connection and goes on, it loses the handle.
- **`Sessions`**: the world thread's tick is a sequence of steps (the limit, one session of
  the inbox, one packet, one session of the loop, one disconnected session, one login
  result), so that a client may vanish, a network thread may add a session, a delay thread
  may execute an operation and somebody may stop the world between any two of them. A
  character's data is a version number.

- **`Lfg`**: one client request, or one message, is one step on the thread that handles it;
  the two threads meet only in the message lists. A list's head may be executed at any time:
  `Execute` swaps the whole list out, but the swap may fall between any two additions. One
  turn of the queue's loop is split into its messages, each assignment of a player, the end of
  each group's turn, and the new group it forms; `Form` carries the name the new group will
  have, taken when the message is sent.
- **`Auctions`**: a handler of the world thread (`PACKET_PROCESS_WORLD`: the auction house,
  `MAIL_TAKE_ITEM`, `MAIL_RETURN`) and the expiry of auctions are one step each, and such a
  step is taken only while no map is updated (`Idle`): `World::Update` goes on when
  `MapManager::Update` has waited for all map threads. `SEND_MAIL`, `MAIL_TAKE_MONEY` and
  `MAIL_DELETE` are `PACKET_PROCESS_MAP` and run on the map threads, beside each other. If the
  receiver is online, `HandleSendMailRequest` calls the rest inline (`MailHandler.cpp:232`), so
  the sender's map thread adds the mail to the receiver's `m_mail` and its item to his
  `mMitems`. It takes no lock, and the receiver or another sender may be in them.
  `SEND_MAIL` is therefore two steps: `Post` up to the row, `Added` the rest; between them
  others may read, save or extend the same mailbox. What a race does is a choice: of two
  mails added at once one may miss the deque; two items added at once may lose items from the
  map; a mail added while `SaveMails` erases may miss the deque. Or `torn` becomes TRUE: a slot
  was read half written, or two threads drew one id from `GenerateMailID`; the program is then
  outside what can be modelled, and no step follows.
- **`MailStore`**: handing over and executing an operation are two steps; those with the
  player's serial id keep their order, those without have none.

What `Sessions` leaves out: bots; negative player limits, which restrict by security level
and are tested by the socket; changing the limit at run time; logging out of a character
whose far teleport can not be finished (the code logs `[CRASH]` and does not save). Time is
a choice: the idle limit of the character screen, the twenty seconds of a logout, the two
minutes of a lingering character and the grace period end when TLC likes.

What `Lfg` leaves out: which roles fit and who has waited longest (any queued player may be
assigned, or none); several teams and areas; raids, assistants, subgroups, battleground
groups and loot; logging in again; the order of a group's slots. `GROUP_KICK` is never
passed to `RemoveMember`, and `LFGQueue::UpdateGroup` never sees a full group (the theorem
`TypeCorrect` shows it): both are dead branches. A message that dereferences a missing group
or player sets `up` to FALSE.

What `Auctions` and `MailStore` leave out: trade; several houses, stacks, the expiry of mails,
game masters' checks. The cut's rounding is kept, its floating point is not. In `Auctions`
everybody is online but for the moment between a logout and the next login (`Relog`); a mail to
a receiver who is offline is only its row, which is what his mailbox is filled from at his next
login. Every player may be on a map of his own; players of one map take turns, which allows
fewer interleavings. What happens after `torn` is left out: a crash, or two mails of one id, of
which only one has a row; gold would not be conserved then.

## 3. Runs

| Run | Instance | Shows |
|---|---|---|
| `pool` | 2 workers, every pool mode, batches of up to 3, 4 jobs in all | a resolved future means every job ran once and no worker is in one; nobody reads the workload while it is changed; the next batch is accepted; nothing runs again by mistake; every round ends; the destructor returns; `ForkJoin` is implemented |
| `delay` | 2 delay threads, a serial id for each, 3 operations, transactions, hand-overs while the workers stop | operations with one serial id run in order; a halt loses nothing, nor what came while the workers stopped; everything handed over is executed; a halt returns; `AsyncStore` is implemented |
| `results` | 1 delay thread, 3 queries of both kinds, ticks that run out of time | a callback is in one place and runs once; unsafe ones in the order their queries finished; none runs while the world thread is elsewhere; when the database has closed all were answered; every query is answered in the end |
| `results_cancel` | 2 unsafe queries, a tick that runs out of time | *violation*: `StopServer` is documented to cancel scheduled queries; those a short tick left over are not |
| `transaction` | 2 transactions of up to 3 statements, 2 losses of the connection | a transaction is all or nothing as long as the connection is not re-opened inside it; no other thread's statement gets between; it ends |
| `transaction_reconnect` | 1 transaction, 1 loss | *violation*: the comment that autocommit is off inside a transaction does not survive a reconnection |
| `sessions` | 3 sessions of 2 accounts (one reconnects, one of them a game master's), 1 character, 3 configurations | no session leaks or is used after its delete; the login queue agrees with the map; a session and its player agree; whoever waits for a character has it coming; the hard limit holds; a login reads what had been saved when it was asked for; a shutdown saves everyone who is connected |
| `sessions_queue` | shipped settings, a player limit of 1 | *violation*: `PlayerHardLimit = 0` is documented to mean no limit, and stops the login queue for good |
| `sessions_stale` | characters linger | *violation*: a login can bring a character back as it was before its last save |
| `lfg` | 3 players, groups of 3, 2 group names, 5 requests | groups keep two members and a leader of their own, players point only to groups that count them; a group's belief that it is queued is backed by the queue or a message, and comes true |
| `auctions` | 3 players, one item that may be listed twice, 3 mails, a cut that overflows, mails added to mailboxes in use, new logins | no gold is made, and none lost but fees and at most the house's percentage; an item is in one place; nobody pays for what others do |
| `mail_money` | 1 mail with gold, 1 log-out and log-in | *violation*: gold taken from a mail can be in it again after the next login |

Why these bounds are enough. A pool's interesting cases are a batch shorter than, as long as
and longer than the number of workers, and a second batch after the first: 2 workers,
batches of 1 to 3 and 4 jobs have them all (a third worker adds states and no new relation;
the theorems cover any number). In the database, order needs two operations with one serial
id and one that competes, and a second worker. A tick that stops early needs one callback
done and two left. A transaction needs a first, a middle and a last statement. A session
needs a successor of its account and a rival; a lost version needs one version more than the
stored one. In the group finder a group is filled by one assignment and exceeded by the
next, so groups of 3 and a third player suffice; five requests let a player join, be invited
elsewhere, accept, leave and log out around the messages of the first. A group that is
already full when it is queued needs seven requests: that branch of `EndTurn` is reached
only beyond the run's bound and rests on the theorems. In the auction house a bid is raised,
outbid and bought out by three players; gold, item prices and `Word` (2^32 in the code) are
shrunk together so that `cutPercent * bid` overflows for the bid of 21 (105) and not for that
of 20, who bids 20 of his 50 can still pay a postage of 30, and the money cap of 65 is met. Two
auctions let an item be listed again; three mails are enough for two senders who add to one
mailbox at once, and for one who adds while its player, who has deleted a mail, saves his mailbox
with the money of another. That two *items* come to one mailbox at once and one
is lost from its map needs more than TLC gets through: with one item those losses rest on the
theorems, which cover any number. `MaxBatch`,
`MaxJobs`, `MaxOps`, `MaxItems`, `MaxTrans`, `MaxLosses`, `MaxVersion`, `MaxLoads`,
`MaxGroups`, `MaxAuctions` and `MaxMails` are bounds of the models, not of the code.

Every property has a mutation in its module, next to the definition it changes (`Mutation:`
in its comment) and listed in `PROJECT.json`: the bug the property is there to catch.

### Fairness

- `ThreadPool!Fairness`: every worker's step, the owner's return from `prepare`, its wait
  and its join. Workers are operating system threads; a step of theirs that stays possible
  is taken, given that the jobs return, as those of every owner do. Handing over a batch
  and destroying the pool are up to the owner: no fairness.
- `SqlDelay!Fairness`: each delay thread's step, and the main thread going on with a halt
  it has begun. An operation is one statement or transaction and returns. Game threads
  hand over what they like: no fairness.
- `Database!DbFairness`: that, the pool of callbacks, and the world thread's
  `ProcessResultQueue`, which `World::Update` calls in every tick.
- `SqlTransaction!FairSpec`: a transaction that was begun goes on.
- `Lfg`: weak fairness of executing a message, on either side. Both threads go through their
  list in every turn until the server stops. Nobody is obliged to fit into a group, and no
  client to do anything.
- `Sessions`, `Auctions` and `MailStore` are checked for safety only.

## 4. Proofs

`ThreadPool_proofs` (any number of workers, every mode, batches of any length):
`TypeCorrect`, `ResolvedFutureMeansDone`, `WorkloadIsUnshared`, `ResubmissionAccepted`,
`NoJobRunsStale` and `PoolImplementsForkJoin`. What is checked is not inductive: that the
worker whose decrement brings `m_active` to 0 is the last one in a job follows from an
account of who is engaged. The invariant `IInv` adds to `TypeOK`

- `CallerInv`: what the owner's place says about the status and the future;
- `EngagedInv`: `m_active` is the number of workers that were prepared and have not signed
  off, and at most one worker is past the signing off, when nobody is engaged;
- `RoundInv`, `StrideInv`: every index below `m_index` (or, with a queue per worker, every
  index of a worker's stride below its iterator) was claimed, and a worker rests only when
  its share is used up;
- `ClaimInv`: a claimed job ran once or is in the hand of exactly one worker;
- `DoneInv`: a resolved future means that all ran.

When the last worker signs off, all are through, so every job is claimed, none is in a
hand, and all ran. The refinement follows step by step from `IInv`. `NoJobRunsStale` needs
one invariant more, `FreshInv`: jobs are numbered as they are handed over, and a workload that
is not dirty holds none of an earlier batch.

`SqlDelay_proofs` (any number of delay threads, clients, serial ids and operations):
`TypeCorrect`, `SerialOrderKept`, `HaltLosesNothing`, `WorkersImplementStore` and `HaltIsFinal`,
from the invariant

- `QueueInv`: queues are increasing in the numbers of their operations, hold nothing that
  was executed, and an operation with serial id `s` waits only at worker `s % NumWorkers`;
- `HandInv`: so does what a worker has taken, and it came before what is still queued;
- `PlaceInv`: what was not executed is in a queue or in a hand;
- `SyncInv`: until asynchronous operation is allowed nothing with a serial id waits;
- `HaltInv`: how far the halt is, and that bodies already freed left empty queues behind.

Whatever a worker executes next is therefore the oldest operation with its serial id, which
is what `AsyncStore` asks; and after the last destructor there is no place left for an
operation that was not executed. `HaltIsFinal` is the other side of the halt: workers are
joined and empty-handed then, so what the callbacks of `CancelAll` still hand over is never
executed. The code does not promise that it would be; whoever writes such a callback should
know.

`Database_proofs` (any number of delay threads and queries, ticks of any length):
`QueueTypeCorrect`, `CallbacksKeptInUpdate`, `CallbackKeptInOnePlace`, `UnsafeKeptInOrder`,
`ClosedIsAnswered` and `DatabaseImplementsStore`. Seen without the result queue every step of `Database` is a step of
`SqlDelay` or none, so `DelayInvariance` carries over the invariant of `SqlDelay_proofs`: a
worker executes what was not executed before, and the callback it adds is new. In the same
way every behaviour of `Database` is one of `SqlDelay` (`DatabaseRunsDelay`), with the cancelled
callbacks among its clients, so the whole layer is the `AsyncStore` that `SqlDelay` is, and
whatever was proved of that holds here. To this come

- `PlacesInv`: the callback of an executed query is in one place (the queue, the waiting list,
  the batch, the answers) and at one position there;
- `ArrivedInv`, `DrainedInv`: the queue is the end of what arrived; of what was drained before
  it, the unsafe callbacks wait in the order of their arrival or were run;
- `PoolInv`: the pool works only inside `Update`, and no callback of a batch runs twice.

`SqlTransaction_proofs` (any number of transactions, statements and lost connections):
`TypeCorrect`, `TransactionIsWhole` and `TransactionIsPrivate`. `SessionInv` ties autocommit
to the session that is up, `IndexInv` what is pending to the loop's index, and `WholeInv` says
that, as long as no statement re-opened the connection, all statements before the index are
pending or were lost together.

`Sessions_proofs` (any number of accounts, sessions and characters, every configuration):
`TypeCorrect`, `SessionsAreHeld`, `QueueStaysSound`, `PlayersAgree`, `LoadsAreCurrent`,
`LoadsAreUnderWay`, `ShutdownIsSafe`, `HardLimitHolds` and `QueueKeepsOrder`.
They need each other: that a deleted session is in no queue needs that a lingering one is
not queued, which holds because a queued session has no character. The invariant `IInv`
adds to what is checked

- `VisitInv`: the loops over sessions visit what is still in the map they go over;
- `QueueFlagged`: a session in the login queue has `m_inQueue` set, even while closing;
- `FreshInv`: a session that was not admitted neither loads nor has a character;
- `SavesInv`: with what the database holds, every load under way will read the version it
  was asked for with, and one asked for now would read the last one saved: the last save
  before it in the queue of its character is of that version, or there is none and the
  database holds it (`QueueReads`);
- `ShutdownInv`: once `KickAll` has closed the sockets, whoever still plays is a session the
  last update has yet to visit.

- `LimitInv`: while sessions are let in, `m_playerLimit` lies between 1 and `PlayerHardLimit`,
  and there are at most `m_playerLimit + 1` sessions in the world and at most
  `PlayerHardLimit` of them, or one more if `LoginPerTick` is above 1.

The last took two attempts and says what the code really keeps. `HardLimitKept` was first stated
with `PlayerHardLimit` itself as the bound, and the run's three sessions agree; the proof did
not go through, and on an instance of six clients (player limit 2, hard limit 4, two per tick)
TLC found why. `RemoveQueuedSession` lets one in while those present are as many as
`m_playerLimit`, so a session that leaves the queue can put one too many into the world; the next
update raises the limit to 4 and lets two in, although there are three. The invariant is the
strongest that holds: an update adds at most `LoginPerTick` to those present, and whenever
it adds more than one, those present are at most one above the limit it raised.
Without a player limit and without `LoginPerTick` the code never looks at the hard limit, so
`HardLimitKept` does not speak of that configuration. The accounts of one session each
(`QueueOfMap`) let the proof count: those in the world are those in the map less those in
the queue, and `RemoveQueuedSession`, `Admit` and `UpdateLimit` each move a known number.

`QueueKeepsOrder` says that nobody passes another in the login queue: as long as the one in
front waits, the one behind waits behind it or leaves the server; it is not let in first. A queue changes by losing one
session anywhere (`RemoveQueuedSession`), losing its front (the next one is let in) or gaining
one at the end (`AddQueuedSession`), and one update may do all of this several times over; each
keeps the order of a queue without duplicates, and sessions are not queued again once they
left. It is stated with the proof and is no property of a run: an instance with two sessions that
stay queued while a third leaves is larger than those the runs explore.

`QueueFitsMap` is why the number of active sessions never wraps: distinct sessions of the
map have distinct accounts, so the queue maps injectively into the map.

`Lfg_proofs` (any number of players and groups, any size of a group): `TypeCorrect`,
`StatusIsBacked` and `GroupsStayWellFormed`, from the invariant

- `Away`: who is offline has no pointer to a group, though his slot remains;
- `UnmadeUnused`, `FormInv`: a name that is not taken, and one that a message is about to use,
  stands for a group with no members and no invitations, and no two messages use one name;
- `InvitedBySomebody`: an invitation does not outlive its group's leader, so the first to
  accept finds a player to make it with;
- `OnlyRealQueued`: only a group that exists believes itself queued, so a notice that finds no
  group had nothing to correct.

The pointers are the hard part: a player who was assigned to a group while he entered another
has two, a third assignment overwrites one, and a removal clears whichever the code picks. So
a member may have no pointer to his group, but a pointer always has its slot behind it.

`Auctions_proofs` (any number of players, items, auctions and mails, any prices and cut):
`TypeCorrect`, `ItemsStayInOnePlace`, `GoldStaysConserved` and `OthersNeverPay`. No purse leaves
its range because what a handler takes was checked against the same purse and what it adds
against the cap, and the cut of a sale is never more than the bid, even when the product
overflows (`CutType`). This needs `BidsAreBelow` (a listed bid is below the buyout, or the
auction would be over), `NoBidderNoBid` (an auction without a bidder holds no bid),
`Letters` (who asks for cash on delivery is a player, to whom the cash can be sent) and
`Addressed` (what is in a mailbox is addressed to its player, whatever thread put it there: who
takes money out of a mail takes his own).

The mailbox may lose mails and items by a race; the gold and the items are in the rows, which
only the handlers change. That a mail misses the mailbox, is thrown away by its receiver while
another is added, or is sent on without the item that was lost from his map, therefore leaves
every item in one place and the gold where it was until the next login.

Gold is conserved because every handler keeps its books. For any weights of mails and
auctions (all the gold in them, or what of it is one player's) there is one lemma per handler, a
ledger, that gives the change of the two sums as what the mails it writes weigh less what the
auction or mail it takes away weighed. `GoldStep` and `WorthStep` read these lemmas at the two
weights and add the purses. `GoldConserved` counts as spent the fees and the percentage the house
should have; a cut whose product overflows may fall short of that percentage, by what `forgone`
counts at most, and `CutType` is what rules out that it ever exceeds it, which would make gold
disappear. `OthersNeverPay` is an action property of the same invariant.
How a sum changes when a function changes at one point is proved in `SumTheorems`. The
obvious proof is an induction over the domain with an operator as a parameter, which the
provers cannot instantiate. Here a sum of naturals is the number of its coins instead: the
pairs of an argument and a positive number up to its value. If the two differed they would
differ first on a smallest set of arguments (`WFMin`, on strict inclusion), and taking one
element away leaves a smaller one; cardinalities of finite sets give the rest.

Assumed are only the constants' ASSUMEs (a pool size in `Nat`, at least one delay thread,
serial ids that are not 0, finitely many accounts) and the library's theorems on sequences,
finite sets and well-founded relations.

Only model-checked are the liveness properties (`RoundCompletes`, `DestroyJoins`,
`EveryOperationRuns`, `HaltReturns`, `EveryQueryAnswered`, `TransactionEnds`, `StatusSettles`):
they need fairness and ENABLED, which the provers do not handle. Every other property of the
passing runs is a theorem. The runs that expect a violation have nothing to prove.

## 5. What the code does otherwise than it says

1. `Database.h:275`: `StopServer` is said to cancel scheduled queries; `CancelAll` drains
   the queue and forgets `_threadUnsafeWaitingQueries` (`results_cancel`).
2. `DatabaseMysql.cpp:114`: autocommit is said to be off during a transaction; a statement
   that re-opens the connection goes on in a fresh session (`transaction_reconnect`).
3. `mangosd.conf.dist.in:127`: `PlayerHardLimit` 0 is said to disable the limit;
   `RemoveQueuedSession` and `UpdateSessions` compare with the 0 (`sessions_queue`).
4. `WorldSession.cpp:692`, `CharacterHandler.cpp:463`: a login is meant to find a character
   that is still online and never an old state of it; its data is read before that is
   looked at, so a lingering character that times out in between comes back as it was
   (`sessions_stale`). The same run under the shipped settings finds a longer way: two
   logins asked for by two successive sessions, the result of the second one delivered
   after the character played and logged out.
5. `MailHandler.cpp:757` saves money and mail together "to prevent cheating", and
   `Player.cpp:16720` asks that gold be written in a transaction with the player's serial id.
   The mail's own row is inserted without one (`Mail.cpp:334`). Nothing orders this insert before
   the receiver's update of the row; if the update comes first it finds no row, and the row
   then written holds the full amount at the next login (`mail_money`).

Met on the way and kept as hazards: `PacketProcessing.h:40` calls it unsafe for a
`PACKET_PROCESS_MAP` handler to write an object located in another map, and `SEND_MAIL` writes the
receiver's mailbox (`MailHandler.cpp:232`, `Mail.cpp:377`); it also draws the id of the mail from
a counter without lock (`ObjectMgr.cpp:120`); a message of the group finder may dereference a group or a
player that is gone (`LFGQueue.cpp:371`); a session that starts to linger frees a slot nobody in
the queue is told of (`World.cpp:3154`), and a shutdown leaves lingering sessions unsaved
although `World.cpp:205` says save and kick all players. `ShutdownSavesConnected` states
how far the saving does go.

## 6. Plan

Next, in this order, each with the abstract statement worth making:

1. **`MapUpdate`**: `MapManager::Update` and `Map::Update` on thread pools, far teleports
   between maps, instance creation and unloading. A player is on at most one map; a map is
   never updated by two threads; nothing is unloaded under a player.
2. **`WorldTick`**: the order of a tick, tasks handed in while a batch runs, packets that
   map threads handle, the shutdown timer, the order in which `Master` stops threads.
3. **`Trade`**, next to `Auctions`: two offers, two acceptances, and a change in between.
4. **`BattleGroundQueue`**: nobody invited twice, offers that time out against answers.
5. **`AuthSocket`**: what a connection may ask before and after its proof.
6. **`EventProcessor`, `MotionMaster`, `ThreatManager`, `PoolManager`, `Warden`**: events
   that add and kill events, stacks cleaned while they run, references kept on both sides.
7. **Proof**: that `MailStore` has its gold taken once when the insert of a mail is executed
   before what its receiver does, the positive side of `mail_money`.

Runs share the instances where they can: a component's safety and liveness are one run.

## 7. Not modelled, and why

`PROJECT.json` lists every component with its reason. In short: spells, auras, combat and
AI are content and arithmetic over floats, where a specification would repeat the code;
the network library and the process's start are system calls around the sessions and
threads modelled here; scripts, SQL and tools are data; vendored libraries are external.
