-------------------------------- MODULE Lfg --------------------------------
(***************************************************************************)
(* The meeting stone group finder and the groups it fills.                 *)
(*                                                                         *)
(* Two threads share nothing but two message lists.  The world thread owns *)
(* players and groups: client requests (meeting stone, invitations,        *)
(* leaving) and the messages of the queue run on it, each to its end.  The *)
(* queue thread owns the maps of queued players and queued groups.  Each   *)
(* learns of the other only by messages (Multithreading/Messager.h), so    *)
(* what it knows may be out of date when it acts on it.                    *)
(*                                                                         *)
(* A Messager is modelled as one list whose head may be executed at any    *)
(* time: the batch Execute takes ends wherever the swap fell between two   *)
(* AddMessage calls.  One dungeon area and one team are modelled; which    *)
(* player fits which role, and who waited longest, is left open.           *)
(***************************************************************************)
EXTENDS Integers, Sequences, FiniteSets

CONSTANTS
    Players,    \* characters that log in once
    GroupSize,  \* MAX_GROUP_SIZE and m_groupSize, 5 in the code
    MaxGroups,  \* bound: groups made in one behaviour
    MaxOps,     \* bound: client requests in one behaviour
    NoPlayer    \* an empty guid

ASSUME LfgAssumption ==
    /\ IsFiniteSet(Players)
    /\ NoPlayer \notin Players
    /\ GroupSize \in Nat /\ GroupSize > 2
    /\ MaxGroups \in Nat
    /\ MaxOps \in Nat

Groups == 1..MaxGroups
NoGroup == 0

VARIABLES
    (* owned by the world thread *)
    online,         \* players with a Player object
    members,        \* m_memberSlots of each group; {}: not created, or deleted
    leader,         \* m_leaderGuid of each group
    groupInLfg,     \* m_LFGAreaId of each group is not 0
    group,          \* m_group of each player
    original,       \* m_originalGroup of each player
    invite,         \* m_groupInvite of each player
    playerInLfg,    \* m_LFGAreaId of each player is not 0
    made,           \* names of group objects taken so far
    (* owned by the queue thread *)
    queuedPlayers,  \* m_queuedPlayers
    queuedGroups,   \* m_queuedGroups
    (* the two message lists *)
    toQueue,        \* LFGQueue::m_messager
    toWorld,        \* World's messager
    (* the process *)
    up,             \* FALSE: a null Player or Group was dereferenced
    ops             \* client requests so far

worldVars == <<online, members, leader, groupInLfg, group, original, invite, playerInLfg, made>>
queueVars == <<queuedPlayers, queuedGroups>>
vars == <<online, members, leader, groupInLfg, group, original, invite, playerInLfg, made,
          queuedPlayers, queuedGroups, toQueue, toWorld, up, ops>>

(* What the queue knows of a group: how many it counts, and whether team  *)
(* and area are those of the group.  After LFGMgr::UpdateGroup these are 0 *)
(* and the group is not full.                                              *)
Entry == [playerCount : Nat, area : BOOLEAN]
Update == [playerCount : 0..(GroupSize - 1), area : {FALSE}]

QueueMessage ==
         [op : {"AddGroup"}, group : Groups, info : Entry]
    \cup [op : {"UpdateGroup"}, group : Groups, info : Update]
    \cup [op : {"RemoveGroup"}, group : Groups]
    \cup [op : {"AddPlayer"}, player : Players]
    \cup [op : {"RemovePlayer"}, player : Players, byClient : BOOLEAN]

WorldMessage ==
         [op : {"GroupJoined", "GroupTimer", "GroupLeft"}, group : Groups]
    \cup [op : {"PlayerJoined", "PlayerLeft"}, player : Players]
    \cup [op : {"Assign"}, player : Players, group : Groups]
    \cup [op : {"Form"}, player : Players, member : Players, group : Groups]

TypeOK ==
    /\ online \subseteq Players
    /\ members \in [Groups -> SUBSET Players]
    /\ leader \in [Groups -> Players \cup {NoPlayer}]
    /\ groupInLfg \in [Groups -> BOOLEAN]
    /\ group \in [Players -> Groups \cup {NoGroup}]
    /\ original \in [Players -> Groups \cup {NoGroup}]
    /\ invite \in [Players -> Groups \cup {NoGroup}]
    /\ playerInLfg \in [Players -> BOOLEAN]
    /\ made \in 0..MaxGroups
    /\ queuedPlayers \subseteq Players
    /\ DOMAIN queuedGroups \subseteq Groups
    /\ \A g \in DOMAIN queuedGroups : queuedGroups[g] \in Entry
    /\ toQueue \in Seq(QueueMessage)
    /\ toWorld \in Seq(WorldMessage)
    /\ up \in BOOLEAN
    /\ ops \in 0..MaxOps

Init ==
    /\ online = Players
    /\ members = [g \in Groups |-> {}]
    /\ leader = [g \in Groups |-> NoPlayer]
    /\ groupInLfg = [g \in Groups |-> FALSE]
    /\ group = [p \in Players |-> NoGroup]
    /\ original = [p \in Players |-> NoGroup]
    /\ invite = [p \in Players |-> NoGroup]
    /\ playerInLfg = [p \in Players |-> FALSE]
    /\ made = 0
    /\ queuedPlayers = {}
    /\ queuedGroups = [g \in {} |-> [playerCount |-> 0, area |-> FALSE]]
    /\ toQueue = <<>>
    /\ toWorld = <<>>
    /\ up = TRUE
    /\ ops = 0

----------------------------------------------------------------------------
(* Groups, as the world thread sees them.                                  *)

(* GetGroupById finds the group: it was created and is not disbanded. *)
Exists(g) == members[g] # {}

IsFull(g) == Cardinality(members[g]) >= GroupSize

(* CalculateLFGRoles and LFGMgr::AddToQueue fill in the count; AddToQueue  *)
(* alone knows team and area.                                              *)
Info(count, known) == [playerCount |-> count, area |-> known]

Send(message) == toQueue' = Append(toQueue, message)

(* Mutation: the roles and the count of a full group are calculated too.   *)
UpdateMessageOfFull(g, count) ==
    [op |-> "UpdateGroup", group |-> g, info |-> Info(count, FALSE)]

(* LFGMgr::UpdateGroup: a full group's information is left at its zeroes. *)
UpdateMessage(g, count) ==
    [op |-> "UpdateGroup", group |-> g,
     info |-> Info(IF count >= GroupSize THEN 0 ELSE count, FALSE)]

(* _addMember for each player of S, none of them a member: the slot is     *)
(* taken, the invitation is void, and one who is in a group already gets   *)
(* this one as his original group.                                         *)
Enter(g, S) ==
    /\ members' = [members EXCEPT ![g] = @ \cup S]
    /\ group' = [p \in Players |->
                    IF p \in S \cap online /\ group[p] = NoGroup THEN g ELSE group[p]]
    /\ original' = [p \in Players |->
                    IF p \in S \cap online /\ group[p] # NoGroup THEN g ELSE original[p]]
    /\ invite' = [p \in Players |-> IF p \in S \cap online THEN NoGroup ELSE invite[p]]

(* The pointer a player loses with his slot: the original group if that is *)
(* g, or else the group, whichever it is.                                  *)
Unpoint(g, S) ==
    /\ group' = [p \in Players |->
                    IF p \in S \cap online /\ original[p] # g THEN NoGroup ELSE group[p]]
    /\ original' = [p \in Players |->
                    IF p \in S \cap online /\ original[p] = g THEN NoGroup ELSE original[p]]

(* _chooseLeader: a member who is online and in this group, or, when there *)
(* is none, the first slot.  The order of the slots is left open.          *)
Suitable(g, S) == {q \in S : q \in online /\ group[q] = g}
NextLeader(g, S) == IF Suitable(g, S) # {} THEN Suitable(g, S) ELSE S

(* Group::Disband, and the deletion that follows in RemoveFromGroup. *)
Disband(g) ==
    /\ members' = [members EXCEPT ![g] = {}]
    /\ leader' = [leader EXCEPT ![g] = NoPlayer]
    /\ groupInLfg' = [groupInLfg EXCEPT ![g] = FALSE]
    /\ invite' = [p \in Players |-> IF invite[p] = g THEN NoGroup ELSE invite[p]]
    /\ Unpoint(g, members[g])
    /\ IF groupInLfg[g] THEN Send([op |-> "RemoveGroup", group |-> g]) ELSE UNCHANGED toQueue

(* Mutation: the count of a battleground group.                            *)
MembersMinCountOfBattleGround == 1

(* GetMembersMinCount of a group outside the battlegrounds. *)
MembersMinCount == 2

(* Group::RemoveMember with the method RemoveFromGroup passes (0): a new   *)
(* leader takes the group out of the queue, any other loss is reported.    *)
RemoveMember(g, p) ==
    \/ /\ Cardinality(members[g]) > MembersMinCount
       /\ members' = [members EXCEPT ![g] = @ \ {p}]
       /\ Unpoint(g, {p})
       /\ IF leader[g] = p
          THEN /\ \E q \in NextLeader(g, members[g] \ {p}) : leader' = [leader EXCEPT ![g] = q]
               /\ Send([op |-> "RemoveGroup", group |-> g])
          ELSE /\ UNCHANGED leader
               /\ IF groupInLfg[g]
                  THEN Send(UpdateMessage(g, Cardinality(members[g]) - 1))
                  ELSE UNCHANGED toQueue
       /\ UNCHANGED <<groupInLfg, invite>>
    \/ /\ Cardinality(members[g]) <= MembersMinCount
       /\ Disband(g)

(* Player::UninviteFromGroup: with the last chance of a group that was     *)
(* never created gone, all its invitations are.                            *)
Uninvited(p) ==
    [q \in Players |->
        IF q = p \/ (invite[q] = invite[p] /\ invite[p] # NoGroup /\ ~Exists(invite[p]))
        THEN NoGroup ELSE invite[q]]

----------------------------------------------------------------------------
(* Client requests, handled on the world thread.                           *)

Request(p) ==
    /\ up /\ p \in online
    /\ ops < MaxOps
    /\ ops' = ops + 1
    /\ UNCHANGED <<queuedPlayers, queuedGroups, toWorld, up>>

(* What LFGMgr::AddToQueue does for a player whose group is g: the leader  *)
(* queues the group, one without a group queues himself, a mere member     *)
(* queues nothing.                                                         *)
AddToQueue(p, g, lead, count) ==
    IF g = NoGroup
    THEN /\ playerInLfg' = [playerInLfg EXCEPT ![p] = TRUE]
         /\ Send([op |-> "AddPlayer", player |-> p])
         /\ UNCHANGED groupInLfg
    ELSE IF lead = p
    THEN /\ groupInLfg' = [groupInLfg EXCEPT ![g] = TRUE]
         /\ Send([op |-> "AddGroup", group |-> g, info |-> Info(count, TRUE)])
         /\ UNCHANGED playerInLfg
    ELSE UNCHANGED <<groupInLfg, playerInLfg, toQueue>>

(* HandleMeetingStoneJoinOpcode *)
Join(p) ==
    /\ Request(p)
    /\ group[p] # NoGroup => leader[group[p]] = p /\ ~IsFull(group[p])
    /\ IF group[p] = NoGroup
       THEN AddToQueue(p, NoGroup, p, 0)
       ELSE AddToQueue(p, group[p], leader[group[p]], Cardinality(members[group[p]]))
    /\ UNCHANGED <<online, members, leader, group, original, invite, made>>

(* HandleMeetingStoneLeaveOpcode *)
Leave(p) ==
    /\ Request(p)
    /\ \/ /\ group[p] = NoGroup
          /\ Send([op |-> "RemovePlayer", player |-> p, byClient |-> TRUE])
       \/ /\ group[p] # NoGroup
          /\ leader[group[p]] = p /\ groupInLfg[group[p]]
          /\ Send([op |-> "RemoveGroup", group |-> group[p]])
    /\ UNCHANGED worldVars

(* HandleGroupInviteOpcode: the first invitation makes a group that exists *)
(* for its invited players only, the leader among them.                    *)
Invite(p, q) ==
    /\ Request(p)
    /\ q \in online \ {p}
    /\ group[q] = NoGroup /\ invite[q] = NoGroup
    /\ \/ /\ group[p] # NoGroup
          /\ leader[group[p]] = p /\ ~IsFull(group[p])
          /\ invite' = [invite EXCEPT ![q] = group[p]]
          /\ UNCHANGED <<leader, made>>
       \/ /\ group[p] = NoGroup /\ invite[p] = NoGroup
          /\ made < MaxGroups
          /\ made' = made + 1
          /\ leader' = [leader EXCEPT ![made + 1] = p]
          /\ invite' = [invite EXCEPT ![p] = made + 1, ![q] = made + 1]
    /\ UNCHANGED <<online, members, groupInLfg, group, original, playerInLfg, toQueue>>

(* HandleGroupAcceptOpcode: the first to accept creates the group, with    *)
(* the leader as its first member, wherever the leader is by now.          *)
Accept(q) ==
    LET g == invite[q] IN
    /\ Request(q)
    /\ g # NoGroup
    /\ leader[g] # q
    /\ \/ /\ IsFull(g) \/ q \in members[g]
          /\ invite' = [invite EXCEPT ![q] = NoGroup]
          /\ UNCHANGED <<members, group, original, toQueue>>
       \/ /\ ~IsFull(g) /\ Exists(g) /\ q \notin members[g]
          /\ Enter(g, {q})
          /\ IF groupInLfg[g]
             THEN Send(UpdateMessage(g, Cardinality(members[g]) + 1))
             ELSE UNCHANGED toQueue
       \/ /\ ~Exists(g)
          /\ Enter(g, {leader[g], q})
          /\ UNCHANGED toQueue
    /\ UNCHANGED <<online, leader, groupInLfg, playerInLfg, made>>

(* HandleGroupDeclineOpcode *)
Decline(p) ==
    /\ Request(p)
    /\ invite[p] # NoGroup
    /\ invite' = Uninvited(p)
    /\ UNCHANGED <<online, members, leader, groupInLfg, group, original, playerInLfg, made, toQueue>>

(* HandleGroupDisbandOpcode: a player leaves his group. *)
LeaveGroup(p) ==
    /\ Request(p)
    /\ group[p] # NoGroup
    /\ RemoveMember(group[p], p)
    /\ UNCHANGED <<online, playerInLfg, made>>

(* HandleGroupUninviteOpcode and HandleGroupUninviteGuidOpcode: the leader *)
(* removes another member, or takes an invitation back.                    *)
Uninvite(p, q) ==
    /\ Request(p)
    /\ q # p
    /\ group[p] # NoGroup /\ leader[group[p]] = p
    /\ \/ /\ q \in members[group[p]]
          /\ RemoveMember(group[p], q)
          /\ UNCHANGED <<online, playerInLfg, made>>
       \/ /\ q \notin members[group[p]]
          /\ invite[q] = group[p]
          /\ invite' = Uninvited(q)
          /\ UNCHANGED <<online, members, leader, groupInLfg, group, original,
                         playerInLfg, made, toQueue>>

(* HandleGroupSetLeaderOpcode: the queue is not told. *)
SetLeader(p, q) ==
    /\ Request(p)
    /\ group[p] # NoGroup /\ leader[group[p]] = p
    /\ q \in online \ {p} /\ group[q] = group[p]
    /\ leader' = [leader EXCEPT ![group[p]] = q]
    /\ UNCHANGED <<online, members, groupInLfg, group, original, invite, playerInLfg, made, toQueue>>

(* WorldSession::LogoutPlayer: the queue is told only if the player's own  *)
(* area is still set.  His slots in groups stay.                           *)
Logout(p) ==
    /\ Request(p)
    /\ IF playerInLfg[p]
       THEN Send([op |-> "RemovePlayer", player |-> p, byClient |-> FALSE])
       ELSE UNCHANGED toQueue
    /\ online' = online \ {p}
    /\ invite' = Uninvited(p)
    /\ group' = [group EXCEPT ![p] = NoGroup]
    /\ original' = [original EXCEPT ![p] = NoGroup]
    /\ playerInLfg' = [playerInLfg EXCEPT ![p] = FALSE]
    /\ UNCHANGED <<members, leader, groupInLfg, made>>

(* Group::UpdateOfflineLeader, from the world's group timer. *)
UpdateOfflineLeader(g) ==
    /\ up
    /\ Exists(g) /\ leader[g] \notin online
    /\ \E q \in Suitable(g, members[g]) : leader' = [leader EXCEPT ![g] = q]
    /\ UNCHANGED <<online, members, groupInLfg, group, original, invite, playerInLfg, made,
                   queuedPlayers, queuedGroups, toQueue, toWorld, up, ops>>

ClientRequest ==
    \/ \E p \in Players : Join(p) \/ Leave(p) \/ Accept(p) \/ Decline(p) \/ LeaveGroup(p) \/ Logout(p)
    \/ \E p, q \in Players : Invite(p, q) \/ Uninvite(p, q) \/ SetLeader(p, q)

----------------------------------------------------------------------------
(* LFGQueue::Update: the queue thread executes its messages ...            *)

QueueStep ==
    /\ up
    /\ UNCHANGED worldVars
    /\ UNCHANGED <<up, ops>>

Received(op) ==
    /\ toQueue # <<>>
    /\ Head(toQueue).op = op
    /\ toQueue' = Tail(toQueue)

Tell(message) == toWorld' = Append(toWorld, message)

Without(f, x) == [y \in DOMAIN f \ {x} |-> f[y]]
With(f, x, v) == [y \in DOMAIN f \cup {x} |-> IF y = x THEN v ELSE f[y]]

AddGroup ==
    LET m == Head(toQueue) IN
    /\ QueueStep
    /\ Received("AddGroup")
    /\ queuedGroups' = With(queuedGroups, m.group, m.info)
    /\ Tell([op |-> "GroupJoined", group |-> m.group])
    /\ UNCHANGED queuedPlayers

AddPlayer ==
    LET m == Head(toQueue) IN
    /\ QueueStep
    /\ Received("AddPlayer")
    /\ queuedPlayers' = queuedPlayers \cup {m.player}
    /\ Tell([op |-> "PlayerJoined", player |-> m.player])
    /\ UNCHANGED queuedGroups

(* An update with the count already known is dropped; any other replaces   *)
(* the whole entry.  No update counts GroupSize, see UpdateMessage.        *)
UpdateGroup ==
    LET m == Head(toQueue)
        known == m.group \in DOMAIN queuedGroups
    IN
    /\ QueueStep
    /\ Received("UpdateGroup")
    /\ queuedGroups' =
          IF known /\ queuedGroups[m.group].playerCount # m.info.playerCount
          THEN [queuedGroups EXCEPT ![m.group] = m.info]
          ELSE queuedGroups
    /\ UNCHANGED <<queuedPlayers, toWorld>>

(* Mutation: the group is not told.                                        *)
DropGroupSilently(g) ==
    /\ queuedGroups' = Without(queuedGroups, g)
    /\ UNCHANGED toWorld

(* RemoveGroupFromQueue: the group is told, if it was queued.              *)
DropGroup(g) ==
    IF g \in DOMAIN queuedGroups
    THEN /\ queuedGroups' = Without(queuedGroups, g)
         /\ Tell([op |-> "GroupLeft", group |-> g])
    ELSE UNCHANGED <<queuedGroups, toWorld>>

RemoveGroup ==
    /\ QueueStep
    /\ Received("RemoveGroup")
    /\ DropGroup(Head(toQueue).group)
    /\ UNCHANGED queuedPlayers

(* RemovePlayerFromQueue: only who left by himself is told. *)
RemovePlayer ==
    LET m == Head(toQueue) IN
    /\ QueueStep
    /\ Received("RemovePlayer")
    /\ queuedPlayers' = queuedPlayers \ {m.player}
    /\ IF m.player \in queuedPlayers /\ m.byClient
       THEN Tell([op |-> "PlayerLeft", player |-> m.player])
       ELSE UNCHANGED toWorld
    /\ UNCHANGED queuedGroups

(* ... then fills queued groups with queued players of the same area,      *)
(* until a group is complete and leaves the queue ...                      *)
FindRoleToGroup(p, g) ==
    LET count == queuedGroups[g].playerCount + 1
        assign == [op |-> "Assign", player |-> p, group |-> g]
    IN
    /\ QueueStep
    /\ g \in DOMAIN queuedGroups /\ queuedGroups[g].area
    /\ p \in queuedPlayers
    /\ queuedPlayers' = queuedPlayers \ {p}
    /\ IF count = GroupSize
       THEN /\ queuedGroups' = Without(queuedGroups, g)
            /\ toWorld' = toWorld \o <<assign, [op |-> "GroupLeft", group |-> g]>>
       ELSE /\ queuedGroups' = [queuedGroups EXCEPT ![g].playerCount = count]
            /\ Tell(assign)
    /\ UNCHANGED toQueue

(* ... ends each group's turn: one that was full when it was queued is     *)
(* removed, one that waits is reminded now and then ...                    *)
EndTurn(g) ==
    LET reminder == [op |-> "GroupTimer", group |-> g] IN
    /\ QueueStep
    /\ g \in DOMAIN queuedGroups
    /\ IF queuedGroups[g].playerCount = GroupSize
       THEN DropGroup(g)
       ELSE /\ \A i \in DOMAIN toWorld : toWorld[i] # reminder
            /\ Tell(reminder)
            /\ UNCHANGED queuedGroups
    /\ UNCHANGED <<queuedPlayers, toQueue>>

(* ... and makes two of enough waiting players the start of a new group.   *)
FormGroup(p, q) ==
    /\ up
    /\ p \in queuedPlayers /\ q \in queuedPlayers /\ p # q
    /\ Cardinality(queuedPlayers) >= GroupSize
    /\ made < MaxGroups
    /\ made' = made + 1
    /\ queuedPlayers' = queuedPlayers \ {p, q}
    /\ Tell([op |-> "Form", player |-> p, member |-> q, group |-> made + 1])
    /\ UNCHANGED <<online, members, leader, groupInLfg, group, original, invite, playerInLfg,
                   queuedGroups, toQueue, up, ops>>

ExecuteQueueMessage == AddGroup \/ AddPlayer \/ UpdateGroup \/ RemoveGroup \/ RemovePlayer

QueueThread ==
    \/ ExecuteQueueMessage
    \/ \E p \in Players, g \in Groups : FindRoleToGroup(p, g)
    \/ \E g \in Groups : EndTurn(g)
    \/ \E p, q \in Players : FormGroup(p, q)

----------------------------------------------------------------------------
(* World::Update executes the messages of the queue.                       *)

Executed(op) ==
    /\ up
    /\ toWorld # <<>>
    /\ Head(toWorld).op = op
    /\ toWorld' = Tail(toWorld)
    /\ UNCHANGED <<queuedPlayers, queuedGroups, ops>>

(* The message dereferences a player or a group that is not there. *)
NullDereference ==
    /\ up' = FALSE
    /\ UNCHANGED worldVars
    /\ UNCHANGED toQueue

(* AddMember with GROUP_LFG: refused when the group is full or he is in it. *)
Assign ==
    LET m == Head(toWorld)
        g == m.group
    IN
    /\ Executed("Assign")
    /\ \/ /\ ~Exists(g) \/ m.player \notin online
          /\ NullDereference
       \/ /\ Exists(g) /\ m.player \in online
          /\ IF IsFull(g) \/ m.player \in members[g]
             THEN UNCHANGED <<members, group, original, invite>>
             ELSE Enter(g, {m.player})
          /\ UNCHANGED <<online, leader, groupInLfg, playerInLfg, made, toQueue, up>>

(* The new group is created, and then queued: for the group its leader is  *)
(* in by now, which is another one if he joined it while he was queued.    *)
Form ==
    LET m == Head(toWorld)
        p == m.player
        g == m.group
    IN
    /\ Executed("Form")
    /\ \/ /\ p \notin online \/ m.member \notin online
          /\ NullDereference
       \/ /\ p \in online /\ m.member \in online
          /\ Enter(g, {p, m.member})
          /\ leader' = [leader EXCEPT ![g] = p]
          /\ IF group[p] = NoGroup
             THEN AddToQueue(p, g, p, 2)
             ELSE AddToQueue(p, group[p], leader[group[p]], Cardinality(members[group[p]]))
          /\ UNCHANGED <<online, made, up>>

(* AddGroup's and the timer's broadcasts take the group for granted, and   *)
(* AddPlayer's packet the player.                                          *)
NotifyGroup ==
    /\ Executed("GroupJoined") \/ Executed("GroupTimer")
    /\ IF Exists(Head(toWorld).group)
       THEN UNCHANGED worldVars /\ UNCHANGED <<toQueue, up>>
       ELSE NullDereference

NotifyPlayer ==
    /\ Executed("PlayerJoined")
    /\ IF Head(toWorld).player \in online
       THEN UNCHANGED worldVars /\ UNCHANGED <<toQueue, up>>
       ELSE NullDereference

(* Mutation: the notice is sent on to the client, the area is kept.        *)
GroupLeftUnmarked ==
    /\ Executed("GroupLeft")
    /\ UNCHANGED worldVars
    /\ UNCHANGED <<toQueue, up>>

(* Only the notices of a removal look whether there is someone to tell. *)
GroupLeft ==
    LET g == Head(toWorld).group IN
    /\ Executed("GroupLeft")
    /\ groupInLfg' = IF Exists(g) THEN [groupInLfg EXCEPT ![g] = FALSE] ELSE groupInLfg
    /\ UNCHANGED <<online, members, leader, group, original, invite, playerInLfg, made, toQueue, up>>

PlayerLeft ==
    LET p == Head(toWorld).player IN
    /\ Executed("PlayerLeft")
    /\ playerInLfg' = IF p \in online THEN [playerInLfg EXCEPT ![p] = FALSE] ELSE playerInLfg
    /\ UNCHANGED <<online, members, leader, groupInLfg, group, original, invite, made, toQueue, up>>

WorldMessages == Assign \/ Form \/ NotifyGroup \/ NotifyPlayer \/ GroupLeft \/ PlayerLeft

----------------------------------------------------------------------------
Next ==
    \/ ClientRequest
    \/ \E g \in Groups : UpdateOfflineLeader(g)
    \/ QueueThread
    \/ WorldMessages

(* Both threads go through their messages until the server stops.  Nothing *)
(* obliges a client to do anything, or two players to fit together.        *)
Spec ==
    /\ Init /\ [][Next]_vars
    /\ WF_vars(ExecuteQueueMessage)
    /\ WF_vars(WorldMessages)

----------------------------------------------------------------------------
(* What must hold.                                                         *)

Pending(g) == \E i \in DOMAIN toQueue : toQueue[i].op = "AddGroup" /\ toQueue[i].group = g
Dismissed(g) == \E i \in DOMAIN toWorld : toWorld[i].op = "GroupLeft" /\ toWorld[i].group = g

(* A group that believes itself queued is in the queue, on its way into    *)
(* it, or about to be told that it was removed: no interleaving of the two *)
(* threads leaves a group with the look of waiting and nobody to fill it.  *)
GroupStatusBacked ==
    \A g \in Groups :
        groupInLfg[g] => Pending(g) \/ g \in DOMAIN queuedGroups \/ Dismissed(g)

(* A group that exists has two members at least and its leader is one of   *)
(* them, and a player's group and original group are two groups that count *)
(* him as a member, whoever invited, assigned, removed or left meanwhile.  *)
GroupsWellFormed ==
    /\ \A g \in Groups :
          Exists(g) => Cardinality(members[g]) >= 2 /\ leader[g] \in members[g]
    /\ \A p \in Players :
          /\ group[p] # NoGroup => p \in members[group[p]]
          /\ original[p] # NoGroup => p \in members[original[p]]
          /\ group[p] # NoGroup => group[p] # original[p]

(* What a group believes of itself comes true: it is queued, or it is told *)
(* that it is not.                                                         *)
StatusSettles ==
    \A g \in Groups :
        groupInLfg[g] ~> (g \in DOMAIN queuedGroups \/ ~groupInLfg[g] \/ ~up)
=============================================================================
