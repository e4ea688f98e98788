------------------------------ MODULE Sessions ------------------------------
(***************************************************************************)
(* The world's sessions: network threads hand new ones to an inbox, the    *)
(* world thread admits them or puts them in the login queue, updates them, *)
(* logs their characters in and out, and keeps a session whose client is   *)
(* gone while its character lingers in the world.  Loads and saves of a    *)
(* character travel through the database's delay threads, which run the    *)
(* operations of one serial id in order (SqlDelay's SerialOrder), and the  *)
(* result of a load is delivered to whatever session the account has then. *)
(*                                                                         *)
(* A character's data is a version number: Play makes a new one, SaveToDB  *)
(* hands over the one in memory.  Left out: bots, the contents of packets, *)
(* the counters shown to administrators.                                   *)
(***************************************************************************)
EXTENDS Integers, Sequences, FiniteSets

CONSTANTS
  WorldSessions, Accounts, Characters,
  AccountOf,    \* WorldSession::GetAccountId
  BelongsTo,    \* the account stored with a character
  GameMasters,  \* sessions with GetSecurity() > SEC_PLAYER
  Configs,      \* the configurations considered
  NoSession, NoCharacter,
  MaxVersion,   \* bound: versions of a character
  MaxLoads      \* bound: operations of a character under way at a login

ASSUME SessionsAssumption ==
  /\ AccountOf \in [WorldSessions -> Accounts]
  /\ BelongsTo \in [Characters -> Accounts]
  /\ GameMasters \subseteq WorldSessions
  /\ NoSession \notin WorldSessions
  /\ NoCharacter \notin Characters
  /\ Configs \subseteq [hardLimit : Nat, playerLimit : Nat, perTick : Nat,
                        forceLogoutDelay : BOOLEAN, grace : BOOLEAN]
  /\ IsFiniteSet(Accounts)
  /\ MaxVersion \in Nat

VARIABLES
  config,                 \* PlayerHardLimit and the other settings
  phase,                  \* where the world thread is
  stopped,                \* World::m_stopEvent
  closing,                \* World::Shutdown has begun
  object,                 \* each WorldSession: "new", "live", "deleted"
  socket,                 \* its m_socket: "null", "open", "closed"
  addSessQueue, m_sessions, m_disconnectedSessions, m_QueuedSessions,
  m_inQueue,              \* the sessions with m_inQueue set
  m_playerLimit,
  loggedOut,              \* accounts with a logout time in m_accountsPlayHistory
  skipped,                \* history: sessions that may pass over the limit
  toVisit,                \* what is left of the loop over the sessions
  m_playerLoading, player,
  owner,                  \* Player::GetSession, NoSession: no Player object
  inWorld,                \* Player::IsInWorld
  memory,                 \* the version the Player object holds
  newest,                 \* history: the newest version there ever was
  saved,                  \* history: the last one SaveToDB handed over
  pending,                \* operations with the character's serial id
  stored,                 \* the version in the database
  results                 \* unsafe callbacks of finished login queries

admission == <<addSessQueue, m_sessions, m_disconnectedSessions,
               m_QueuedSessions, m_inQueue, m_playerLimit, loggedOut, skipped>>
objects   == <<object, socket>>
characters == <<player, owner, inWorld, memory, newest, saved>>
database  == <<pending, stored, results>>
control   == <<config, phase, stopped, closing, toVisit>>
vars == <<control, objects, admission, m_playerLoading, characters, database>>

-----------------------------------------------------------------------------
(* Helpers                                                                 *)

Least(m, n) == IF m <= n THEN m ELSE n

Elements(q) == {q[i] : i \in DOMAIN q}

Injective(q) == \A i, j \in DOMAIN q : q[i] = q[j] => i = j

(* q with what is at position i erased.                                    *)
EraseAt(q, i) ==
  [j \in 1 .. Len(q) - 1 |-> IF j < i THEN q[j] ELSE q[j + 1]]

Without(q, s) ==
  IF s \in Elements(q) THEN EraseAt(q, CHOOSE i \in DOMAIN q : q[i] = s) ELSE q

InMap == {m_sessions[a] : a \in Accounts} \ {NoSession}

(* m_sessions.size() for a value of the map.                               *)
Size(map) == Cardinality({a \in Accounts : map[a] # NoSession})

GetActiveSessionCount == Size(m_sessions) - Len(m_QueuedSessions)

SaveOperation(v) == [kind |-> "save", version |-> v]

LoginQueryHolder(a, v) == [kind |-> "load", account |-> a, version |-> v]

(* DelayQueryHolderUnsafe and Player::SaveToDB use the character's low     *)
(* guid as the serial id.                                                  *)
Delay(c, op) == pending' = [pending EXCEPT ![c] = Append(@, op)]

Init ==
  /\ config \in Configs
  /\ phase = "idle"
  /\ stopped = FALSE
  /\ closing = FALSE
  /\ object = [s \in WorldSessions |-> "new"]
  /\ socket = [s \in WorldSessions |-> "null"]
  /\ addSessQueue = <<>>
  /\ m_sessions = [a \in Accounts |-> NoSession]
  /\ m_disconnectedSessions = {}
  /\ m_QueuedSessions = <<>>
  /\ m_inQueue = {}
  /\ m_playerLimit = config.playerLimit
  /\ loggedOut = {}
  /\ skipped = {}
  /\ toVisit = {}
  /\ m_playerLoading = [s \in WorldSessions |-> FALSE]
  /\ player = [s \in WorldSessions |-> NoCharacter]
  /\ owner = [c \in Characters |-> NoSession]
  /\ inWorld = [c \in Characters |-> FALSE]
  /\ memory = [c \in Characters |-> 0]
  /\ newest = [c \in Characters |-> 0]
  /\ saved = [c \in Characters |-> 0]
  /\ pending = [c \in Characters |-> <<>>]
  /\ stored = [c \in Characters |-> 0]
  /\ results = <<>>

-----------------------------------------------------------------------------
(* WorldSession: saving, logging out, lingering, being deleted             *)

SaveToDB(c) ==
  /\ Delay(c, SaveOperation(memory[c]))
  /\ saved' = [saved EXCEPT ![c] = memory[c]]
  /\ UNCHANGED <<stored, results>>

(* A far teleport under way is finished first, so the character is in the  *)
(* world when it is saved.                                                 *)
LogoutPlayer(s) ==
  IF player[s] = NoCharacter
  THEN UNCHANGED <<characters, database>>
  ELSE /\ SaveToDB(player[s])
       /\ inWorld' = [inWorld EXCEPT ![player[s]] = FALSE]
       /\ owner' = [owner EXCEPT ![player[s]] = NoSession]
       /\ player' = [player EXCEPT ![s] = NoCharacter]
       /\ UNCHANGED <<memory, newest>>

(* delete s: the destructor logs the player out and closes the socket.     *)
Delete(s) ==
  /\ LogoutPlayer(s)
  /\ object' = [object EXCEPT ![s] = "deleted"]
  /\ socket' = [socket EXCEPT ![s] = "null"]

MayLinger(s) ==
  /\ ~stopped
  /\ player[s] # NoCharacter
  /\ inWorld[player[s]]
  /\ config.forceLogoutDelay

(* Mutation: the account's id goes into the set, as it would into the map.*)
DisconnectAccount(s) ==
  /\ m_disconnectedSessions' = m_disconnectedSessions \cup {AccountOf[s]}
  /\ loggedOut' = loggedOut \cup {AccountOf[s]}
  /\ SaveToDB(player[s])
  /\ UNCHANGED <<object, player, owner, inWorld, memory, newest>>

(* ForcePlayerLogoutDelay when it returns true; its callers take s out of  *)
(* m_sessions and say what becomes of its socket.                          *)
ForcePlayerLogoutDelay(s) ==
  /\ m_disconnectedSessions' = m_disconnectedSessions \cup {s}
  /\ loggedOut' = loggedOut \cup {AccountOf[s]}
  /\ SaveToDB(player[s])
  /\ UNCHANGED <<object, player, owner, inWorld, memory, newest>>

-----------------------------------------------------------------------------
(* The login queue                                                         *)

(* RemoveQueuedSession(s): the new queue, the sessions let in with it, and *)
(* whether s was queued.  The count of those logged in still includes s.   *)
RemoveQueuedSession(s) ==
  LET found    == s \in Elements(m_QueuedSessions)
      queue    == Without(m_QueuedSessions, s)
      sessions == IF ~found /\ GetActiveSessionCount > 0
                  THEN GetActiveSessionCount - 1 ELSE GetActiveSessionCount
      accept   == /\ Size(m_sessions) - Len(queue) <= config.hardLimit
                  /\ m_playerLimit = 0 \/ sessions <= m_playerLimit
                  /\ queue # <<>>
  IN [queue  |-> IF accept THEN Tail(queue) ELSE queue,
      leave  |-> {s} \cup (IF accept THEN {Head(queue)} ELSE {}),
      found  |-> found]

(* What UpdateSessions does first: a raised m_playerLimit lets the front   *)
(* of the queue in.                                                        *)
UpdateLimit ==
  LET hard     == config.hardLimit
      limit    == IF hard # 0 THEN Least(hard, m_playerLimit) ELSE m_playerLimit
      loggedIn == GetActiveSessionCount
      raised   == Least(limit, loggedIn) + config.perTick
      tooMany  == hard # 0 /\ raised > hard
      accept   == IF tooMany THEN 0
                  ELSE Least(config.perTick, Len(m_QueuedSessions))
  IN IF loggedIn < hard /\ config.perTick > 0
     THEN /\ m_playerLimit' = IF tooMany THEN hard ELSE raised
          /\ m_inQueue' = m_inQueue \ {m_QueuedSessions[i] : i \in 1 .. accept}
          /\ m_QueuedSessions' =
               SubSeq(m_QueuedSessions, accept + 1, Len(m_QueuedSessions))
     ELSE m_playerLimit' = limit /\ UNCHANGED <<m_QueuedSessions, m_inQueue>>

(* CanSkipQueue; whether the grace period has passed is up to the clock.   *)
CanSkipQueue(s) ==
  IF s \in GameMasters THEN {TRUE}
  ELSE IF config.grace /\ AccountOf[s] \in loggedOut' THEN BOOLEAN
  ELSE {FALSE}

-----------------------------------------------------------------------------
(* Network threads                                                         *)

AddSession(s) ==
  /\ object[s] = "new"
  /\ object' = [object EXCEPT ![s] = "live"]
  /\ socket' = [socket EXCEPT ![s] = "open"]
  /\ addSessQueue' = Append(addSessQueue, s)
  /\ UNCHANGED <<control, m_sessions, m_disconnectedSessions, m_QueuedSessions,
                 m_inQueue, m_playerLimit, loggedOut, skipped,
                 m_playerLoading, characters, database>>

CloseSocket(s) ==
  /\ socket[s] = "open"
  /\ socket' = [socket EXCEPT ![s] = "closed"]
  /\ UNCHANGED <<control, object, admission, m_playerLoading, characters,
                 database>>

-----------------------------------------------------------------------------
(* World::UpdateSessions on the world thread                               *)

BeginUpdate ==
  /\ phase = "kicked" \/ (phase = "idle" /\ ~stopped)
  /\ phase' = "inbox"
  /\ UpdateLimit
  /\ UNCHANGED <<config, stopped, closing, toVisit, objects, addSessQueue,
                 m_sessions, m_disconnectedSessions, loggedOut, skipped,
                 m_playerLoading, characters, database>>

(* Mutation: one more than the limit is let in.                            *)
AdmitOneMore(s, queue, leave, decrease) ==
  LET map    == [m_sessions EXCEPT ![AccountOf[s]] = s]
      count  == Size(map) - Len(queue)
      active == IF decrease /\ count > 0 THEN count - 1 ELSE count
      full   == m_playerLimit > 0 /\ active > m_playerLimit
  IN /\ m_sessions' = map
     /\ \E skips \in CanSkipQueue(s) :
          IF full /\ ~skips
          THEN /\ m_QueuedSessions' = Append(queue, s)
               /\ m_inQueue' = (m_inQueue \ leave) \cup {s}
               /\ UNCHANGED skipped
          ELSE /\ m_QueuedSessions' = queue
               /\ m_inQueue' = m_inQueue \ leave
               /\ skipped' = IF full THEN skipped \cup {s} ELSE skipped
     /\ UNCHANGED m_playerLimit

(* The end of AddSession_, with the map and the queue as they are once the *)
(* old session is dealt with.                                              *)
Admit(s, queue, leave, decrease) ==
  LET map    == [m_sessions EXCEPT ![AccountOf[s]] = s]
      count  == Size(map) - Len(queue)
      active == IF decrease /\ count > 0 THEN count - 1 ELSE count
      full   == m_playerLimit > 0 /\ active >= m_playerLimit
  IN /\ m_sessions' = map
     /\ \E skips \in CanSkipQueue(s) :
          IF full /\ ~skips
          THEN /\ m_QueuedSessions' = Append(queue, s)
               /\ m_inQueue' = (m_inQueue \ leave) \cup {s}
               /\ UNCHANGED skipped
          ELSE /\ m_QueuedSessions' = queue
               /\ m_inQueue' = m_inQueue \ leave
               /\ skipped' = IF full THEN skipped \cup {s} ELSE skipped
     /\ UNCHANGED m_playerLimit

(* Mutation: the refused session is forgotten without a delete.            *)
ForgetSession ==
  /\ phase = "inbox"
  /\ addSessQueue # <<>>
  /\ LET old == m_sessions[AccountOf[Head(addSessQueue)]]
     IN old # NoSession /\ m_playerLoading[old]
  /\ addSessQueue' = Tail(addSessQueue)
  /\ UNCHANGED <<control, objects, m_sessions, m_disconnectedSessions,
                 m_QueuedSessions, m_inQueue, m_playerLimit, loggedOut, skipped,
                 m_playerLoading, characters, database>>

(* RemoveSession fails: the account's session is loading a character.      *)
RefuseSession ==
  /\ phase = "inbox"
  /\ addSessQueue # <<>>
  /\ LET s   == Head(addSessQueue)
         old == m_sessions[AccountOf[s]]
     IN /\ old # NoSession
        /\ m_playerLoading[old]
        /\ Delete(s)
  /\ addSessQueue' = Tail(addSessQueue)
  /\ UNCHANGED <<control, m_sessions, m_disconnectedSessions, m_QueuedSessions,
                 m_inQueue, m_playerLimit, loggedOut, skipped, m_playerLoading>>

(* The account has no session.                                             *)
AddFirstSession ==
  /\ phase = "inbox"
  /\ addSessQueue # <<>>
  /\ m_sessions[AccountOf[Head(addSessQueue)]] = NoSession
  /\ addSessQueue' = Tail(addSessQueue)
  /\ UNCHANGED <<m_disconnectedSessions, loggedOut>>
  /\ Admit(Head(addSessQueue), m_QueuedSessions, {}, TRUE)
  /\ UNCHANGED <<control, objects, m_playerLoading, characters, database>>

(* The account's old session is kicked; it lingers or is deleted, and the  *)
(* new one takes its place in the map.                                     *)
ReplaceSession ==
  /\ phase = "inbox"
  /\ addSessQueue # <<>>
  /\ addSessQueue' = Tail(addSessQueue)
  /\ LET s   == Head(addSessQueue)
         old == m_sessions[AccountOf[s]]
         removed == RemoveQueuedSession(old)
     IN /\ old # NoSession
        /\ ~m_playerLoading[old]
        /\ IF MayLinger(old)
           THEN /\ ForcePlayerLogoutDelay(old)
                /\ socket' = [socket EXCEPT ![old] = "closed"]
           ELSE Delete(old) /\ UNCHANGED <<m_disconnectedSessions, loggedOut>>
        /\ Admit(s, removed.queue, removed.leave, ~removed.found)
  /\ UNCHANGED <<control, m_playerLoading>>

EndInbox ==
  /\ phase = "inbox"
  /\ addSessQueue = <<>>
  /\ phase' = "update"
  /\ toVisit' = InMap
  /\ UNCHANGED <<config, stopped, closing, objects, admission, m_playerLoading,
                 characters, database>>

Visiting(s) == phase = "update" /\ s \in toVisit

Visited(s) ==
  /\ toVisit' = toVisit \ {s}
  /\ UNCHANGED <<config, phase, stopped, closing>>

(* ProcessPackets: CMSG_PLAYER_LOGIN of a session that is not queued.      *)
HandlePlayerLoginOpcode(s, c) ==
  /\ Visiting(s)
  /\ socket[s] = "open"
  /\ s \notin m_inQueue
  /\ ~m_playerLoading[s]
  /\ player[s] = NoCharacter
  /\ Len(pending[c]) < MaxLoads
  /\ m_playerLoading' = [m_playerLoading EXCEPT ![s] = TRUE]
  /\ Delay(c, LoginQueryHolder(AccountOf[s], saved[c]))
  /\ UNCHANGED <<control, objects, admission, characters, stored, results>>

(* ProcessPackets: the client has loaded the map it is teleported to.      *)
HandleMoveWorldportAckOpcode(s) ==
  /\ Visiting(s)
  /\ socket[s] = "open"
  /\ player[s] # NoCharacter
  /\ ~inWorld[player[s]]
  /\ inWorld' = [inWorld EXCEPT ![player[s]] = TRUE]
  /\ UNCHANGED <<control, objects, admission, m_playerLoading, player, owner,
                 memory, newest, saved, database>>

(* Mutation: the session is deleted while the login queue points to it.    *)
RemoveStillQueued(s) ==
  /\ m_sessions' = [m_sessions EXCEPT ![AccountOf[s]] = NoSession]
  /\ loggedOut' = loggedOut \cup {AccountOf[s]}
  /\ Delete(s)
  /\ UNCHANGED <<addSessQueue, m_disconnectedSessions, m_QueuedSessions,
                 m_inQueue, m_playerLimit, skipped>>

(* WorldSession::Update returned false.                                    *)
RemoveFromMap(s) ==
  LET removed == RemoveQueuedSession(s)
  IN /\ m_sessions' = [m_sessions EXCEPT ![AccountOf[s]] = NoSession]
     /\ m_QueuedSessions' = removed.queue
     /\ m_inQueue' = m_inQueue \ removed.leave
     /\ loggedOut' = IF removed.found THEN loggedOut
                     ELSE loggedOut \cup {AccountOf[s]}
     /\ Delete(s)
     /\ UNCHANGED <<addSessQueue, m_disconnectedSessions, m_playerLimit, skipped>>

(* The client stayed too long on the character screen.                     *)
CharacterScreenIdleKick(s) ==
  /\ Visiting(s)
  /\ player[s] = NoCharacter
  /\ s \notin m_inQueue
  /\ ~m_playerLoading[s]
  /\ RemoveFromMap(s)
  /\ Visited(s)
  /\ UNCHANGED m_playerLoading

(* Update finds the socket closed.                                         *)
LoseClient(s) ==
  /\ Visiting(s)
  /\ socket[s] = "closed"
  /\ IF MayLinger(s)
     THEN /\ ForcePlayerLogoutDelay(s)
          /\ socket' = [socket EXCEPT ![s] = "null"]
          /\ m_sessions' = [m_sessions EXCEPT ![AccountOf[s]] = NoSession]
          /\ UNCHANGED <<addSessQueue, m_QueuedSessions, m_inQueue,
                         m_playerLimit, skipped>>
     ELSE RemoveFromMap(s)
  /\ Visited(s)
  /\ UNCHANGED m_playerLoading

(* Update with an open socket: log the player out when the client asked    *)
(* for it long enough ago.                                                 *)
UpdateConnected(s) ==
  /\ Visiting(s)
  /\ socket[s] = "open"
  /\ \/ UNCHANGED <<characters, database>>
     \/ /\ player[s] # NoCharacter
        /\ ~m_playerLoading[s]
        /\ LogoutPlayer(s)
  /\ Visited(s)
  /\ UNCHANGED <<objects, admission, m_playerLoading>>

EndSessions ==
  /\ phase = "update"
  /\ toVisit = {}
  /\ phase' = "disconnected"
  /\ toVisit' = m_disconnectedSessions
  /\ UNCHANGED <<config, stopped, closing, objects, admission, m_playerLoading,
                 characters, database>>

(* A session whose character is gone or not in the world, or whose two     *)
(* minutes are over, is deleted; the clock decides about the last.         *)
UpdateDisconnected(s) ==
  /\ phase = "disconnected"
  /\ s \in toVisit
  /\ \/ /\ player[s] # NoCharacter
        /\ inWorld[player[s]]
        /\ UNCHANGED <<objects, admission, characters, database>>
     \/ /\ Delete(s)
        /\ m_disconnectedSessions' = m_disconnectedSessions \ {s}
        /\ UNCHANGED <<addSessQueue, m_sessions, m_QueuedSessions, m_inQueue,
                       m_playerLimit, loggedOut, skipped>>
  /\ Visited(s)
  /\ UNCHANGED m_playerLoading

EndUpdate ==
  /\ phase = "disconnected"
  /\ toVisit = {}
  /\ phase' = IF closing THEN "stopped" ELSE "maps"
  /\ UNCHANGED <<config, stopped, closing, toVisit, objects, admission,
                 m_playerLoading, characters, database>>

-----------------------------------------------------------------------------
(* The rest of a world update: the maps, then the finished queries         *)

(* Something happens to a character in the world.                          *)
Play(c) ==
  /\ phase = "maps"
  /\ inWorld[c]
  /\ newest[c] < MaxVersion
  /\ newest' = [newest EXCEPT ![c] = @ + 1]
  /\ memory' = [memory EXCEPT ![c] = newest[c] + 1]
  /\ UNCHANGED <<control, objects, admission, m_playerLoading, player, owner,
                 inWorld, saved, database>>

(* Player::Update saves the character now and then.                        *)
AutoSave(c) ==
  /\ phase = "maps"
  /\ inWorld[c]
  /\ saved[c] # memory[c]
  /\ SaveToDB(c)
  /\ UNCHANGED <<control, objects, admission, m_playerLoading, player, owner,
                 inWorld, memory, newest>>

(* A far teleport takes the character out of the world.                    *)
TeleportTo(c) ==
  /\ phase = "maps"
  /\ inWorld[c]
  /\ inWorld' = [inWorld EXCEPT ![c] = FALSE]
  /\ UNCHANGED <<control, objects, admission, m_playerLoading, player, owner,
                 memory, newest, saved, database>>

EndMaps ==
  /\ phase = "maps"
  /\ phase' = "results"
  /\ UNCHANGED <<config, stopped, closing, toVisit, objects, admission,
                 m_playerLoading, characters, database>>

(* The session FindSession gives for the account is there and waits.       *)
AwaitsLogin(s) ==
  /\ s # NoSession
  /\ m_playerLoading[s]
  /\ player[s] = NoCharacter

DropHolder(s) ==
  /\ ~AwaitsLogin(s)
  /\ m_playerLoading' = IF s = NoSession THEN m_playerLoading
                        ELSE [m_playerLoading EXCEPT ![s] = FALSE]
  /\ UNCHANGED <<socket, characters>>

(* Mutation: the session is kicked and goes on waiting for its character.  *)
RefuseStillLoading(s, c) ==
  /\ \/ BelongsTo[c] # AccountOf[s]
     \/ owner[c] # NoSession /\ ~inWorld[c]
  /\ socket' = [socket EXCEPT ![s] = IF @ = "open" THEN "closed" ELSE @]
  /\ UNCHANGED <<m_playerLoading, characters>>

(* Another account's character, or one that is between two maps.           *)
RefuseLogin(s, c) ==
  /\ \/ BelongsTo[c] # AccountOf[s]
     \/ owner[c] # NoSession /\ ~inWorld[c]
  /\ socket' = [socket EXCEPT ![s] = IF @ = "open" THEN "closed" ELSE @]
  /\ m_playerLoading' = [m_playerLoading EXCEPT ![s] = FALSE]
  /\ UNCHANGED characters

(* Mutation: the lingering session keeps its pointer to the player.        *)
TakeOverShared(s, c) ==
  /\ BelongsTo[c] = AccountOf[s]
  /\ inWorld[c]
  /\ player' = [player EXCEPT ![s] = c]
  /\ owner' = [owner EXCEPT ![c] = s]
  /\ m_playerLoading' = [m_playerLoading EXCEPT ![s] = FALSE]
  /\ UNCHANGED <<socket, inWorld, memory, newest, saved>>

(* The character is still in the world: this session takes it over.        *)
TakeOver(s, c) ==
  /\ BelongsTo[c] = AccountOf[s]
  /\ inWorld[c]
  /\ player' = [player EXCEPT ![owner[c]] = NoCharacter, ![s] = c]
  /\ owner' = [owner EXCEPT ![c] = s]
  /\ m_playerLoading' = [m_playerLoading EXCEPT ![s] = FALSE]
  /\ UNCHANGED <<socket, inWorld, memory, newest, saved>>

LoadFromDB(s, c, version) ==
  /\ BelongsTo[c] = AccountOf[s]
  /\ owner[c] = NoSession
  /\ player' = [player EXCEPT ![s] = c]
  /\ owner' = [owner EXCEPT ![c] = s]
  /\ inWorld' = [inWorld EXCEPT ![c] = TRUE]
  /\ memory' = [memory EXCEPT ![c] = version]
  /\ m_playerLoading' = [m_playerLoading EXCEPT ![s] = FALSE]
  /\ UNCHANGED <<socket, newest, saved>>

HandlePlayerLoginCallback ==
  /\ phase = "results"
  /\ results # <<>>
  /\ results' = Tail(results)
  /\ LET r == Head(results)
         s == m_sessions[r.account]
     IN \/ DropHolder(s)
        \/ /\ AwaitsLogin(s)
           /\ \/ RefuseLogin(s, r.character)
              \/ TakeOver(s, r.character)
              \/ LoadFromDB(s, r.character, r.version)
  /\ UNCHANGED <<control, object, admission, pending, stored>>

(* The results that are left wait for the next update.                     *)
EndResults ==
  /\ phase = "results"
  /\ phase' = "idle"
  /\ UNCHANGED <<config, stopped, closing, toVisit, objects, admission,
                 m_playerLoading, characters, database>>

-----------------------------------------------------------------------------
(* The delay threads                                                       *)

(* Mutation: a load does not wait for the saves before it.                 *)
ExecuteLoadFirst(c) ==
  \E i \in DOMAIN pending[c] :
    /\ pending[c][i].kind = "load" \/ i = 1
    /\ pending' = [pending EXCEPT ![c] = EraseAt(@, i)]
    /\ LET op == pending[c][i]
       IN IF op.kind = "save"
          THEN stored' = [stored EXCEPT ![c] = op.version] /\ UNCHANGED results
          ELSE /\ results' = Append(results,
                    [account |-> op.account, character |-> c,
                     version |-> stored[c], asked |-> op.version])
               /\ UNCHANGED stored
    /\ UNCHANGED <<control, objects, admission, m_playerLoading, characters>>

(* The first operation of the character's serial id.                       *)
ExecuteOperation(c) ==
  /\ pending[c] # <<>>
  /\ pending' = [pending EXCEPT ![c] = Tail(@)]
  /\ LET op == Head(pending[c])
     IN IF op.kind = "save"
        THEN stored' = [stored EXCEPT ![c] = op.version] /\ UNCHANGED results
        ELSE /\ results' = Append(results,
                  [account |-> op.account, character |-> c,
                   version |-> stored[c], asked |-> op.version])
             /\ UNCHANGED stored
  /\ UNCHANGED <<control, objects, admission, m_playerLoading, characters>>

-----------------------------------------------------------------------------
(* Stopping                                                                *)

StopNow ==
  /\ ~stopped
  /\ stopped' = TRUE
  /\ UNCHANGED <<config, phase, closing, toVisit, objects, admission,
                 m_playerLoading, characters, database>>

(* Mutation: only the sessions that lost their client already are kicked.  *)
KickDisconnected ==
  /\ phase = "idle"
  /\ stopped
  /\ phase' = "kicked"
  /\ closing' = TRUE
  /\ m_QueuedSessions' = <<>>
  /\ UNCHANGED <<config, stopped, toVisit, objects, addSessQueue, m_sessions,
                 m_disconnectedSessions, m_inQueue, m_playerLimit, loggedOut,
                 skipped, m_playerLoading, characters, database>>

(* World::Shutdown, before it updates the sessions a last time.            *)
KickAll ==
  /\ phase = "idle"
  /\ stopped
  /\ phase' = "kicked"
  /\ closing' = TRUE
  /\ m_QueuedSessions' = <<>>
  /\ socket' = [s \in WorldSessions |->
                 IF s \in InMap \cup m_disconnectedSessions /\ socket[s] = "open"
                 THEN "closed" ELSE socket[s]]
  /\ UNCHANGED <<config, stopped, toVisit, object, addSessQueue, m_sessions,
                 m_disconnectedSessions, m_inQueue, m_playerLimit, loggedOut,
                 skipped, m_playerLoading, characters, database>>

-----------------------------------------------------------------------------

SessionNext(s) ==
  \/ AddSession(s) \/ CloseSocket(s)
  \/ HandleMoveWorldportAckOpcode(s)
  \/ \E c \in Characters : HandlePlayerLoginOpcode(s, c)
  \/ CharacterScreenIdleKick(s) \/ LoseClient(s) \/ UpdateConnected(s)
  \/ UpdateDisconnected(s)

CharacterNext(c) == Play(c) \/ AutoSave(c) \/ TeleportTo(c) \/ ExecuteOperation(c)

WorldNext ==
  \/ BeginUpdate
  \/ RefuseSession \/ AddFirstSession \/ ReplaceSession \/ EndInbox
  \/ EndSessions \/ EndUpdate
  \/ EndMaps \/ HandlePlayerLoginCallback \/ EndResults
  \/ StopNow \/ KickAll

Next ==
  \/ WorldNext
  \/ \E s \in WorldSessions : SessionNext(s)
  \/ \E c \in Characters : CharacterNext(c)

Spec == Init /\ [][Next]_vars

-----------------------------------------------------------------------------
(* Properties                                                              *)

Operations ==
  [kind : {"save"}, version : 0 .. MaxVersion]
  \cup [kind : {"load"}, account : Accounts, version : 0 .. MaxVersion]

LoadResults ==
  [account : Accounts, character : Characters, version : 0 .. MaxVersion,
   asked : 0 .. MaxVersion]

(* Every variable has its type.                                            *)
TypeOK ==
  /\ config \in Configs
  /\ phase \in {"idle", "kicked", "inbox", "update", "disconnected", "maps",
                "results", "stopped"}
  /\ stopped \in BOOLEAN /\ closing \in BOOLEAN
  /\ object \in [WorldSessions -> {"new", "live", "deleted"}]
  /\ socket \in [WorldSessions -> {"null", "open", "closed"}]
  /\ addSessQueue \in Seq(WorldSessions)
  /\ m_sessions \in [Accounts -> WorldSessions \cup {NoSession}]
  /\ m_disconnectedSessions \subseteq WorldSessions
  /\ m_QueuedSessions \in Seq(WorldSessions)
  /\ m_inQueue \subseteq WorldSessions
  /\ m_playerLimit \in Nat
  /\ loggedOut \subseteq Accounts /\ skipped \subseteq WorldSessions
  /\ toVisit \subseteq WorldSessions
  /\ m_playerLoading \in [WorldSessions -> BOOLEAN]
  /\ player \in [WorldSessions -> Characters \cup {NoCharacter}]
  /\ owner \in [Characters -> WorldSessions \cup {NoSession}]
  /\ inWorld \in [Characters -> BOOLEAN]
  /\ memory \in [Characters -> 0 .. MaxVersion]
  /\ newest \in [Characters -> 0 .. MaxVersion]
  /\ saved \in [Characters -> 0 .. MaxVersion]
  /\ stored \in [Characters -> 0 .. MaxVersion]
  /\ pending \in [Characters -> Seq(Operations)]
  /\ results \in Seq(LoadResults)

Waits(s)   == s \in Elements(addSessQueue)
Mapped(s)  == m_sessions[AccountOf[s]] = s
Lingers(s) == s \in m_disconnectedSessions

(* Every session that was created and not deleted is in exactly one of the *)
(* inbox, m_sessions under its own account, and the disconnected sessions, *)
(* and nothing that was deleted is in any of them: no session is leaked,   *)
(* and none is updated after its delete.                                   *)
EverySessionHeld ==
  /\ \A s \in WorldSessions :
       /\ object[s] = "live" <=> Waits(s) \/ Mapped(s) \/ Lingers(s)
       /\ ~(Waits(s) /\ Mapped(s))
       /\ ~(Waits(s) /\ Lingers(s))
       /\ ~(Mapped(s) /\ Lingers(s))
       /\ s \in toVisit => object[s] = "live"
  /\ Injective(addSessQueue)
  /\ \A a \in Accounts :
       m_sessions[a] # NoSession => AccountOf[m_sessions[a]] = a

(* The login queue holds sessions of the map, each once, and the flag that *)
(* keeps a session's packets back is set for exactly those, until KickAll  *)
(* clears the queue; so the number of active sessions never wraps below 0. *)
QueueIsSound ==
  /\ Elements(m_QueuedSessions) \subseteq InMap
  /\ Injective(m_QueuedSessions)
  /\ ~closing => m_inQueue = Elements(m_QueuedSessions)
  /\ GetActiveSessionCount >= 0

(* A session and its player agree about each other, and the session of a   *)
(* character is not a deleted one: a take-over leaves no two sessions with *)
(* one player, and logging out no player behind.                           *)
PlayerAndSessionAgree ==
  /\ \A s \in WorldSessions : player[s] # NoCharacter => owner[player[s]] = s
  /\ \A c \in Characters : owner[c] # NoSession =>
       player[owner[c]] = c /\ object[owner[c]] = "live"
  /\ \A c \in Characters : inWorld[c] => owner[c] # NoSession

(* A session waiting for its character has one on the way: an operation in *)
(* the database or a result to be delivered, of its account.               *)
LoadingIsUnderWay ==
  \A a \in Accounts :
    m_sessions[a] # NoSession /\ m_playerLoading[m_sessions[a]] =>
      \/ \E i \in DOMAIN results : results[i].account = a
      \/ \E c \in Characters : \E i \in DOMAIN pending[c] :
           pending[c][i].kind = "load" /\ pending[c][i].account = a

(* The sessions in the world that may not pass over the queue.             *)
Limited == (InMap \ Elements(m_QueuedSessions)) \ skipped

(* With a hard limit, and a player limit (there is one once a rise per     *)
(* tick is set), at most that many sessions are in the world, apart from   *)
(* those that may pass over the queue: "Maximum number of players in the   *)
(* world, after increasing PlayerLimit with LoginPerTick", the settings    *)
(* say.  One more fits in when the rise is of more than one:               *)
(* RemoveQueuedSession lets the queue in up to one above m_playerLimit, and*)
(* UpdateSessions bounds what it adds by the raised limit, not by the      *)
(* sessions there are.                                                     *)
HardLimitKept ==
  config.hardLimit > 0 /\ (config.playerLimit > 0 \/ config.perTick > 0) =>
    \/ Cardinality(Limited) <=
         config.hardLimit + (IF config.perTick > 1 THEN 1 ELSE 0)
    \/ closing

(* A login reads the version of the character that was handed to SaveToDB  *)
(* last when the login was asked for, however long the delay threads take. *)
LoadsWhatWasSaved ==
  \A i \in DOMAIN results : results[i].version = results[i].asked

(* When the world has shut down, the only characters with unsaved changes  *)
(* are those of sessions that were lingering.                              *)
ShutdownSavesConnected ==
  phase = "stopped" =>
    \A c \in Characters :
      owner[c] # NoSession /\ saved[c] # memory[c] =>
        owner[c] \in m_disconnectedSessions

(* Between two updates nobody waits in the login queue while there is room *)
(* under the player limit; PlayerHardLimit = 0 is documented to set no     *)
(* other limit, yet RemoveQueuedSession compares with it.                  *)
QueueAdvances ==
  phase = "idle" /\ m_playerLimit > 0 /\ m_QueuedSessions # <<>> =>
    GetActiveSessionCount >= m_playerLimit

(* A character comes back into the world as it last left it: nobody can    *)
(* log out and log back in with what was true before (the hit points of    *)
(* before a death, in the comment of WorldSession::LogoutPlayer).          *)
NothingForgotten ==
  \A c \in Characters : owner[c] # NoSession => memory[c] = newest[c]

=============================================================================
