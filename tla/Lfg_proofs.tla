----------------------------- MODULE Lfg_proofs -----------------------------
EXTENDS Lfg, FiniteSetTheorems, TLAPS

-----------------------------------------------------------------------------
(* Sets of players, and lists of messages                                  *)

LEMMA Counted ==
  ASSUME NEW S \in SUBSET Players
  PROVE  IsFiniteSet(S) /\ Cardinality(S) \in Nat
BY FS_Subset, FS_CardinalityType, LfgAssumption

LEMMA CountedMore ==
  ASSUME NEW S \in SUBSET Players, NEW T \in SUBSET S
  PROVE  Cardinality(T) <= Cardinality(S)
BY Counted, FS_Subset

(* Two different players count two.                                        *)
LEMMA Two ==
  ASSUME NEW S \in SUBSET Players, NEW a \in S, NEW b \in S, a # b
  PROVE  Cardinality(S) >= 2
<1>1. IsFiniteSet({a}) /\ Cardinality({a}) = 1
  BY FS_Singleton
<1>2. Cardinality({a} \cup {b}) = 2
  BY <1>1, FS_AddElement
<1>3. {a} \cup {b} \in SUBSET S
  OBVIOUS
<1> QED
  BY <1>2, <1>3, CountedMore, Counted

(* One of three or more leaves two.                                        *)
LEMMA OneLess ==
  ASSUME NEW S \in SUBSET Players, Cardinality(S) > 2, NEW p
  PROVE  Cardinality(S \ {p}) >= 2
<1>1. CASE p \in S
  <2>1. Cardinality(S \ {p}) = Cardinality(S) - 1
    BY <1>1, Counted, FS_RemoveElement
  <2> QED
    BY <2>1, Counted
<1>2. CASE p \notin S
  <2>1. S \ {p} = S
    BY <1>2
  <2> QED
    BY <2>1, Counted
<1> QED
  BY <1>1, <1>2

LEMMA TwoAreSome ==
  ASSUME NEW S \in SUBSET Players, Cardinality(S) >= 2
  PROVE  S # {}
BY FS_EmptySet, Counted

LEMMA Added ==
  ASSUME NEW S, NEW s \in Seq(S), NEW x \in S
  PROVE  LET t == Append(s, x) IN
         /\ t \in Seq(S) /\ DOMAIN t = 1 .. Len(s) + 1
         /\ \A i \in DOMAIN s : i \in DOMAIN t /\ t[i] = s[i]
         /\ t[Len(s) + 1] = x
         /\ \A i \in DOMAIN t : i \in DOMAIN s \/ i = Len(s) + 1
OBVIOUS

LEMMA Taken ==
  ASSUME NEW S, NEW s \in Seq(S), s # <<>>
  PROVE  LET t == Tail(s) IN
         /\ t \in Seq(S) /\ Head(s) = s[1] /\ Head(s) \in S
         /\ \A i \in DOMAIN t : i + 1 \in DOMAIN s /\ i + 1 # 1 /\ t[i] = s[i + 1]
         /\ \A i \in DOMAIN s : i = 1 \/ (i - 1 \in DOMAIN t /\ t[i - 1] = s[i])
OBVIOUS

(* What a message says.                                                    *)
LEMMA Messages ==
  /\ \A m \in QueueMessage :
       /\ m.op = "AddGroup" => m.group \in Groups /\ m.info \in Entry
       /\ m.op = "UpdateGroup" => m.group \in Groups /\ m.info \in Update
       /\ m.op = "RemoveGroup" => m.group \in Groups
       /\ m.op \in {"AddPlayer", "RemovePlayer"} => m.player \in Players
  /\ \A m \in WorldMessage :
       /\ m.op \in {"GroupJoined", "GroupTimer", "GroupLeft", "Assign", "Form"} => m.group \in Groups
       /\ m.op \in {"PlayerJoined", "PlayerLeft", "Assign", "Form"} => m.player \in Players
       /\ m.op = "Form" => m.member \in Players
BY DEF QueueMessage, WorldMessage

LEMMA QueueMessages ==
  /\ \A g \in Groups, e \in Entry : [op |-> "AddGroup", group |-> g, info |-> e] \in QueueMessage
  /\ \A g \in Groups, e \in Update : [op |-> "UpdateGroup", group |-> g, info |-> e] \in QueueMessage
  /\ \A g \in Groups : [op |-> "RemoveGroup", group |-> g] \in QueueMessage
  /\ \A p \in Players : [op |-> "AddPlayer", player |-> p] \in QueueMessage
  /\ \A p \in Players, b \in BOOLEAN :
       [op |-> "RemovePlayer", player |-> p, byClient |-> b] \in QueueMessage
BY DEF QueueMessage

LEMMA WorldMessagesType ==
  /\ \A g \in Groups, o \in {"GroupJoined", "GroupTimer", "GroupLeft"} :
       [op |-> o, group |-> g] \in WorldMessage
  /\ \A p \in Players, o \in {"PlayerJoined", "PlayerLeft"} :
       [op |-> o, player |-> p] \in WorldMessage
  /\ \A p \in Players, g \in Groups :
       [op |-> "Assign", player |-> p, group |-> g] \in WorldMessage
  /\ \A p, q \in Players, g \in Groups :
       [op |-> "Form", player |-> p, member |-> q, group |-> g] \in WorldMessage
BY DEF WorldMessage

LEMMA UpdateType ==
  ASSUME NEW g \in Groups, NEW count \in Nat
  PROVE  UpdateMessage(g, count) \in QueueMessage
<1>1. Info(IF count >= GroupSize THEN 0 ELSE count, FALSE) \in Update
  BY LfgAssumption DEF Info, Update
<1> QED
  BY <1>1, QueueMessages DEF UpdateMessage

LEMMA UpdateIsEntry == \A e \in Update : e \in Entry
<1> SUFFICES ASSUME NEW e \in Update PROVE e \in Entry
  OBVIOUS
<1>1. e.playerCount \in 0 .. (GroupSize - 1) /\ e.area \in BOOLEAN
  BY DEF Update
<1>2. e.playerCount \in Nat
  BY <1>1, LfgAssumption
<1>3. e = [playerCount |-> e.playerCount, area |-> e.area]
  BY DEF Update
<1> QED
  BY <1>1, <1>2, <1>3 DEF Entry

LEMMA InfoType == \A count \in Nat, known \in BOOLEAN : Info(count, known) \in Entry
BY DEF Info, Entry

-----------------------------------------------------------------------------
(* The invariant                                                           *)

(* Who is offline has lost his pointers, though not his slots.             *)
Away == \A p \in Players \ online : group[p] = NoGroup /\ original[p] = NoGroup

(* Nobody is in the group, and nobody on his way into it.                  *)
Unused(g) == members[g] = {} /\ \A p \in Players : invite[p] # g

(* A name that was not taken yet stands for an unused group.               *)
UnmadeUnused == \A g \in Groups : g > made => Unused(g)

(* Who invites is a player: an invitation does not outlive its group.      *)
InvitedBySomebody ==
  \A p \in Players : invite[p] # NoGroup => leader[invite[p]] \in Players

(* Only a group that exists believes itself queued.                        *)
OnlyRealQueued == \A g \in Groups : groupInLfg[g] => Exists(g)

(* The group a message is going to make is taken, its own, and unused.     *)
FormInv ==
  \A i \in DOMAIN toWorld : toWorld[i].op = "Form" =>
    /\ toWorld[i].player # toWorld[i].member
    /\ toWorld[i].group <= made /\ Unused(toWorld[i].group)
    /\ \A j \in DOMAIN toWorld :
         toWorld[j].op = "Form" /\ toWorld[j].group = toWorld[i].group => i = j

GroupInv ==
  /\ Away
  /\ UnmadeUnused
  /\ InvitedBySomebody
  /\ OnlyRealQueued
  /\ GroupsWellFormed

IInv == TypeOK /\ GroupInv /\ FormInv /\ GroupStatusBacked

-----------------------------------------------------------------------------
(* What happens to groups                                                  *)

GroupTypes ==
  /\ members \in [Groups -> SUBSET Players]
  /\ leader \in [Groups -> Players \cup {NoPlayer}]
  /\ groupInLfg \in [Groups -> BOOLEAN]
  /\ group \in [Players -> Groups \cup {NoGroup}]
  /\ original \in [Players -> Groups \cup {NoGroup}]
  /\ invite \in [Players -> Groups \cup {NoGroup}]

LEMMA NamesOfGroups == NoGroup \notin Groups
BY LfgAssumption DEF Groups, NoGroup

(* Players S who are no members enter a group that has a leader among them *)
(* or among its members.                                                   *)
LEMMA EnterStep ==
  ASSUME TypeOK, GroupInv, NEW g \in Groups, NEW S \in SUBSET Players,
         members[g] \cap S = {}, g <= made, made' = made, online' = online,
         NEW a \in members[g] \cup S, NEW b \in members[g] \cup S, a # b,
         Enter(g, S),
         leader' \in [Groups -> Players \cup {NoPlayer}],
         leader'[g] \in members[g] \cup S,
         \A h \in Groups \ {g} : leader'[h] = leader[h],
         groupInLfg' \in [Groups -> BOOLEAN],
         \A h \in Groups : groupInLfg'[h] => groupInLfg[h] \/ h = g \/ Exists(h)
  PROVE  /\ GroupTypes' /\ GroupInv'
         /\ \A h \in Groups \ {g} : Unused(h) => Unused(h)'
<1>1. GroupTypes'
  BY DEF TypeOK, GroupTypes, Enter
<1>2. /\ members'[g] = members[g] \cup S
      /\ \A h \in Groups \ {g} : members'[h] = members[h]
  BY DEF TypeOK, Enter
<1>3. \A h \in Groups : Exists(h) => Exists(h)'
  BY <1>2 DEF Exists
<1>4. Exists(g)'
  BY <1>2 DEF Exists
<1>5. \A p \in Players : invite'[p] \in {invite[p], NoGroup}
  BY DEF TypeOK, Enter
<1>6. \A h \in Groups \ {g} : Unused(h) => Unused(h)'
  BY <1>2, <1>5, NamesOfGroups DEF Unused
<1>7. Away'
  BY DEF TypeOK, GroupInv, Away, Enter
<1>8. UnmadeUnused'
  <2> SUFFICES ASSUME NEW h \in Groups, h > made PROVE Unused(h)'
    BY DEF UnmadeUnused
  <2>1. h # g
    BY DEF Groups, TypeOK
  <2> QED
    BY <1>6, <2>1 DEF GroupInv, UnmadeUnused
<1>9. InvitedBySomebody'
  BY <1>5, NamesOfGroups DEF GroupInv, InvitedBySomebody, TypeOK
<1>10. OnlyRealQueued'
  BY <1>3, <1>4 DEF GroupInv, OnlyRealQueued
<1>11. GroupsWellFormed'
  <2>1. ASSUME NEW h \in Groups, Exists(h)'
        PROVE  Cardinality(members'[h]) >= 2 /\ leader'[h] \in members'[h]
    <3>1. CASE h = g
      <4>1. members'[g] \in SUBSET Players /\ a \in members'[g] /\ b \in members'[g]
        BY <1>2 DEF TypeOK
      <4> QED
        BY <1>2, <3>1, <4>1, Two
    <3>2. CASE h # g
      BY <1>2, <2>1, <3>2 DEF GroupInv, GroupsWellFormed, Exists
    <3> QED
      BY <3>1, <3>2
  <2>2. ASSUME NEW p \in Players
        PROVE  /\ group'[p] # NoGroup => p \in members'[group'[p]]
               /\ original'[p] # NoGroup => p \in members'[original'[p]]
               /\ group'[p] # NoGroup => group'[p] # original'[p]
    <3>1. /\ group[p] # NoGroup => p \in members[group[p]] /\ group[p] \in Groups
          /\ original[p] # NoGroup => p \in members[original[p]] /\ original[p] \in Groups
          /\ group[p] # NoGroup => group[p] # original[p]
      BY DEF GroupInv, GroupsWellFormed, TypeOK
    <3>2. \A h \in Groups : p \in members[h] => p \in members'[h]
      BY <1>2
    <3>3. CASE p \notin S \cap online
      <4>1. group'[p] = group[p] /\ original'[p] = original[p]
        BY <3>3 DEF Enter
      <4> QED
        BY <3>1, <3>2, <4>1
    <3>4. CASE p \in S \cap online /\ group[p] = NoGroup
      <4>1. group'[p] = g /\ original'[p] = original[p] /\ p \in members'[g]
        BY <1>2, <3>4 DEF Enter
      <4>2. original[p] # g
        BY <3>1, <3>4, NamesOfGroups
      <4> QED
        BY <3>1, <3>2, <4>1, <4>2
    <3>5. CASE p \in S \cap online /\ group[p] # NoGroup
      <4>1. group'[p] = group[p] /\ original'[p] = g /\ p \in members'[g]
        BY <1>2, <3>5 DEF Enter
      <4>2. group[p] # g
        BY <3>1, <3>5
      <4> QED
        BY <3>1, <3>2, <4>1, <4>2
    <3> QED
      BY <3>3, <3>4, <3>5
  <2> QED
    BY <2>1, <2>2 DEF GroupsWellFormed
<1> QED
  BY <1>1, <1>6, <1>7, <1>8, <1>9, <1>10, <1>11 DEF GroupInv

(* Members of S lose their slots in g, and the pointers that go with them. *)
LEMMA UnpointStep ==
  ASSUME TypeOK, GroupInv, NEW g \in Groups, NEW S \in SUBSET Players,
         online' = online, members' = [members EXCEPT ![g] = @ \ S], Unpoint(g, S)
  PROVE  /\ group' \in [Players -> Groups \cup {NoGroup}]
         /\ original' \in [Players -> Groups \cup {NoGroup}]
         /\ Away'
         /\ \A p \in Players :
              /\ group'[p] # NoGroup => p \in members'[group'[p]]
              /\ original'[p] # NoGroup => p \in members'[original'[p]]
              /\ group'[p] # NoGroup => group'[p] # original'[p]
<1>1. /\ group' \in [Players -> Groups \cup {NoGroup}]
      /\ original' \in [Players -> Groups \cup {NoGroup}]
  BY DEF TypeOK, Unpoint
<1>2. Away'
  BY DEF TypeOK, GroupInv, Away, Unpoint
<1>3. ASSUME NEW p \in Players
      PROVE  /\ group'[p] # NoGroup => p \in members'[group'[p]]
             /\ original'[p] # NoGroup => p \in members'[original'[p]]
             /\ group'[p] # NoGroup => group'[p] # original'[p]
  <2>1. /\ group[p] # NoGroup => p \in members[group[p]] /\ group[p] \in Groups
        /\ original[p] # NoGroup => p \in members[original[p]] /\ original[p] \in Groups
        /\ group[p] # NoGroup => group[p] # original[p]
        /\ p \notin online => group[p] = NoGroup /\ original[p] = NoGroup
    BY DEF GroupInv, GroupsWellFormed, TypeOK, Away
  <2>2. /\ members'[g] = members[g] \ S
        /\ \A h \in Groups \ {g} : members'[h] = members[h]
    BY DEF TypeOK
  <2>3. CASE p \notin S \cap online
    <3>1. group'[p] = group[p] /\ original'[p] = original[p]
      BY <2>3 DEF Unpoint
    <3>2. group[p] # NoGroup \/ original[p] # NoGroup => p \notin S
      BY <2>1, <2>3
    <3> QED
      BY <2>1, <2>2, <3>1, <3>2
  <2>4. CASE p \in S \cap online /\ original[p] = g
    <3>1. group'[p] = group[p] /\ original'[p] = NoGroup
      BY <2>4 DEF Unpoint
    <3> QED
      BY <2>1, <2>2, <2>4, <3>1
  <2>5. CASE p \in S \cap online /\ original[p] # g
    <3>1. group'[p] = NoGroup /\ original'[p] = original[p]
      BY <2>5 DEF Unpoint
    <3> QED
      BY <2>1, <2>2, <2>5, <3>1
  <2> QED
    BY <2>3, <2>4, <2>5
<1> QED
  BY <1>1, <1>2, <1>3

LEMMA DisbandStep ==
  ASSUME TypeOK, GroupInv, NEW g \in Groups, Exists(g), made' = made, online' = online,
         Disband(g)
  PROVE  /\ GroupTypes' /\ GroupInv'
         /\ \A h \in Groups : Unused(h) => Unused(h)'
         /\ \A h \in Groups : groupInLfg'[h] => groupInLfg[h]
         /\ toQueue' = toQueue \/ \E m \in QueueMessage : Send(m)
<1>1. members[g] \in SUBSET Players
  BY DEF TypeOK
<1>2. members' = [members EXCEPT ![g] = @ \ members[g]]
  BY DEF Disband, TypeOK
<1>3. /\ group' \in [Players -> Groups \cup {NoGroup}]
      /\ original' \in [Players -> Groups \cup {NoGroup}]
      /\ Away'
      /\ \A p \in Players :
           /\ group'[p] # NoGroup => p \in members'[group'[p]]
           /\ original'[p] # NoGroup => p \in members'[original'[p]]
           /\ group'[p] # NoGroup => group'[p] # original'[p]
  BY <1>1, <1>2, UnpointStep DEF Disband
<1>4. GroupTypes'
  BY <1>3 DEF GroupTypes, Disband, TypeOK
<1>5. /\ members'[g] = {} /\ leader'[g] = NoPlayer
      /\ \A h \in Groups \ {g} : members'[h] = members[h] /\ leader'[h] = leader[h]
  BY DEF Disband, TypeOK
<1>6. \A p \in Players : invite'[p] = IF invite[p] = g THEN NoGroup ELSE invite[p]
  BY DEF Disband
<1>7. \A h \in Groups : Unused(h) => Unused(h)'
  BY <1>5, <1>6, NamesOfGroups DEF Unused
<1>8. UnmadeUnused'
  BY <1>7 DEF GroupInv, UnmadeUnused
<1>9. InvitedBySomebody'
  BY <1>5, <1>6 DEF GroupInv, InvitedBySomebody, TypeOK
<1>10. groupInLfg'[g] = FALSE /\ \A h \in Groups \ {g} : groupInLfg'[h] = groupInLfg[h]
  BY DEF Disband, TypeOK
<1>11. OnlyRealQueued'
  BY <1>5, <1>10 DEF GroupInv, OnlyRealQueued, Exists
<1>12. GroupsWellFormed'
  BY <1>3, <1>5 DEF GroupInv, GroupsWellFormed, Exists
<1>13. toQueue' = toQueue \/ \E m \in QueueMessage : Send(m)
  BY QueueMessages DEF Disband
<1> QED
  BY <1>3, <1>4, <1>7, <1>8, <1>9, <1>10, <1>11, <1>12, <1>13 DEF GroupInv

LEMMA RemoveMemberStep ==
  ASSUME TypeOK, GroupInv, NEW g \in Groups, NEW p \in members[g],
         made' = made, online' = online, RemoveMember(g, p)
  PROVE  /\ GroupTypes' /\ GroupInv'
         /\ \A h \in Groups : Unused(h) => Unused(h)'
         /\ \A h \in Groups : groupInLfg'[h] => groupInLfg[h]
         /\ toQueue' = toQueue \/ \E m \in QueueMessage : Send(m)
<1>1. Exists(g) /\ members[g] \in SUBSET Players /\ p \in Players
  BY DEF Exists, TypeOK
<1>2. CASE Cardinality(members[g]) <= MembersMinCount
  <2>1. Disband(g)
    BY <1>1, <1>2, Counted DEF RemoveMember, MembersMinCount
  <2> QED
    BY <1>1, <2>1, DisbandStep
<1>3. CASE Cardinality(members[g]) > MembersMinCount
  <2>1. /\ members' = [members EXCEPT ![g] = @ \ {p}]
        /\ Unpoint(g, {p})
        /\ groupInLfg' = groupInLfg /\ invite' = invite
        /\ IF leader[g] = p
           THEN /\ \E q \in NextLeader(g, members[g] \ {p}) : leader' = [leader EXCEPT ![g] = q]
                /\ Send([op |-> "RemoveGroup", group |-> g])
           ELSE /\ leader' = leader
                /\ IF groupInLfg[g]
                   THEN Send(UpdateMessage(g, Cardinality(members[g]) - 1))
                   ELSE toQueue' = toQueue
    BY <1>1, <1>3, Counted DEF RemoveMember, MembersMinCount
  <2>2. /\ group' \in [Players -> Groups \cup {NoGroup}]
        /\ original' \in [Players -> Groups \cup {NoGroup}]
        /\ Away'
        /\ \A q \in Players :
             /\ group'[q] # NoGroup => q \in members'[group'[q]]
             /\ original'[q] # NoGroup => q \in members'[original'[q]]
             /\ group'[q] # NoGroup => group'[q] # original'[q]
    BY <1>1, <2>1, UnpointStep
  <2>3. /\ Cardinality(members[g] \ {p}) >= 2 /\ members[g] \ {p} # {}
        /\ Cardinality(members[g]) - 1 \in Nat
    <3>1. Cardinality(members[g]) > 2 /\ Cardinality(members[g]) \in Nat
      BY <1>1, <1>3, Counted DEF MembersMinCount
    <3>2. Cardinality(members[g] \ {p}) >= 2
      BY <1>1, <3>1, OneLess
    <3> QED
      BY <1>1, <3>1, <3>2, TwoAreSome
  <2>4. /\ members'[g] = members[g] \ {p}
        /\ \A h \in Groups \ {g} : members'[h] = members[h]
    BY <2>1 DEF TypeOK
  <2>5. \A q \in NextLeader(g, members[g] \ {p}) : q \in members[g] \ {p}
    BY DEF NextLeader, Suitable
  <2>6. /\ leader' \in [Groups -> Players \cup {NoPlayer}]
        /\ \A h \in Groups \ {g} : leader'[h] = leader[h]
        /\ leader'[g] \in members[g] \ {p}
    <3>1. leader[g] \in members[g]
      BY <1>1 DEF GroupInv, GroupsWellFormed
    <3> QED
      BY <1>1, <2>1, <2>5, <3>1 DEF TypeOK
  <2>7. GroupTypes'
    BY <1>1, <2>1, <2>2, <2>6 DEF GroupTypes, TypeOK
  <2>8. \A h \in Groups : Unused(h) => Unused(h)'
    BY <2>1, <2>4 DEF Unused
  <2>9. UnmadeUnused'
    BY <2>8 DEF GroupInv, UnmadeUnused
  <2>10. InvitedBySomebody'
    BY <1>1, <2>1, <2>6 DEF GroupInv, InvitedBySomebody, TypeOK
  <2>11. OnlyRealQueued'
    BY <2>1, <2>3, <2>4 DEF GroupInv, OnlyRealQueued, Exists
  <2>12. GroupsWellFormed'
    BY <2>2, <2>3, <2>4, <2>6 DEF GroupInv, GroupsWellFormed, Exists
  <2>13. toQueue' = toQueue \/ \E m \in QueueMessage : Send(m)
    BY <2>1, <2>3, QueueMessages, UpdateType
  <2> QED
    BY <2>1, <2>2, <2>7, <2>8, <2>9, <2>10, <2>11, <2>12, <2>13 DEF GroupInv
<1> QED
  BY <1>1, <1>2, <1>3, Counted DEF MembersMinCount

-----------------------------------------------------------------------------
(* Client requests                                                         *)

(* An unused group stays so, unless its name is taken now.                 *)
Kept ==
  /\ made <= made' /\ made' \in 0 .. MaxGroups
  /\ \A g \in Groups : g <= made /\ Unused(g) => Unused(g)'

(* One message at most, and the one that queues it for a group that comes  *)
(* to believe itself queued.                                               *)
Posted ==
  /\ toQueue' = toQueue \/ \E m \in QueueMessage : Send(m)
  /\ \A g \in Groups : groupInLfg'[g] /\ ~groupInLfg[g] =>
       \E e \in Entry : Send([op |-> "AddGroup", group |-> g, info |-> e])

LEMMA PostedType ==
  ASSUME TypeOK, Posted
  PROVE  toQueue' \in Seq(QueueMessage)
<1>1. toQueue \in Seq(QueueMessage)
  BY DEF TypeOK
<1>2. ASSUME NEW m \in QueueMessage, Send(m) PROVE toQueue' \in Seq(QueueMessage)
  BY <1>1, <1>2, Added DEF Send
<1> QED
  BY <1>1, <1>2 DEF Posted

(* What was on its way to the queue is, and so is what was posted.         *)
LEMMA PostedPending ==
  ASSUME TypeOK, Posted, NEW g \in Groups, groupInLfg'[g],
         groupInLfg[g] => Pending(g) \/ g \in DOMAIN queuedGroups \/ Dismissed(g)
  PROVE  Pending(g)' \/ g \in DOMAIN queuedGroups \/ Dismissed(g)
<1>1. toQueue \in Seq(QueueMessage)
  BY DEF TypeOK
<1>2. ASSUME Pending(g) PROVE Pending(g)'
  <2>1. PICK i \in DOMAIN toQueue : toQueue[i].op = "AddGroup" /\ toQueue[i].group = g
    BY <1>2 DEF Pending
  <2>2. i \in DOMAIN toQueue' /\ toQueue'[i] = toQueue[i]
    <3>1. CASE toQueue' = toQueue
      BY <3>1
    <3>2. ASSUME NEW m \in QueueMessage, Send(m)
          PROVE  i \in DOMAIN toQueue' /\ toQueue'[i] = toQueue[i]
      BY <1>1, <3>2, Added DEF Send
    <3> QED
      BY <3>1, <3>2 DEF Posted
  <2> QED
    BY <2>1, <2>2 DEF Pending
<1>3. ASSUME ~groupInLfg[g] PROVE Pending(g)'
  <2>1. PICK e \in Entry : Send([op |-> "AddGroup", group |-> g, info |-> e])
    BY <1>3 DEF Posted
  <2> DEFINE m == [op |-> "AddGroup", group |-> g, info |-> e]
  <2>2. m \in QueueMessage /\ m.op = "AddGroup" /\ m.group = g
    BY QueueMessages
  <2>3. toQueue' = Append(toQueue, m)
    BY <2>1 DEF Send
  <2> HIDE DEF m
  <2>4. Len(toQueue) + 1 \in DOMAIN toQueue' /\ toQueue'[Len(toQueue) + 1] = m
    BY <1>1, <2>2, <2>3, Added
  <2> QED
    BY <2>2, <2>4 DEF Pending
<1> QED
  BY <1>2, <1>3

(* The rest of the invariant follows where the queue's part is unchanged.  *)
LEMMA PostedStep ==
  ASSUME IInv, Kept, Posted, UNCHANGED <<queuedGroups, toWorld>>
  PROVE  FormInv' /\ GroupStatusBacked'
<1>1. FormInv'
  <2> SUFFICES ASSUME NEW i \in DOMAIN toWorld, toWorld[i].op = "Form"
               PROVE  /\ toWorld[i].player # toWorld[i].member
                      /\ toWorld[i].group <= made' /\ Unused(toWorld[i].group)'
                      /\ \A j \in DOMAIN toWorld :
                           toWorld[j].op = "Form" /\ toWorld[j].group = toWorld[i].group => i = j
    BY DEF FormInv
  <2>1. toWorld[i] \in WorldMessage /\ made \in Nat /\ made' \in Nat
    <3>1. made \in 0 .. MaxGroups /\ toWorld \in Seq(WorldMessage)
      BY DEF IInv, TypeOK
    <3> QED
      BY <3>1, LfgAssumption DEF Kept
  <2>2. toWorld[i].group \in Groups
    BY <2>1, Messages
  <2> QED
    BY <2>1, <2>2 DEF IInv, FormInv, Kept, Groups
<1>2. GroupStatusBacked'
  <2> SUFFICES ASSUME NEW g \in Groups, groupInLfg'[g]
               PROVE  Pending(g)' \/ g \in DOMAIN queuedGroups \/ Dismissed(g)
    BY DEF GroupStatusBacked, Dismissed
  <2> QED
    BY PostedPending DEF IInv, GroupStatusBacked
<1> QED
  BY <1>1, <1>2

LEMMA RequestStep ==
  ASSUME IInv, NEW p \in Players, Request(p), GroupTypes', GroupInv',
         online' \in SUBSET online, playerInLfg' \in [Players -> BOOLEAN],
         Kept, Posted
  PROVE  IInv'
<1>1. TypeOK'
  BY PostedType, LfgAssumption DEF IInv, TypeOK, Request, GroupTypes, Kept
<1>2. FormInv' /\ GroupStatusBacked'
  BY PostedStep DEF Request
<1> QED
  BY <1>1, <1>2 DEF IInv

(* Who is not in the queue's books and unchanged in the world's.           *)
LEMMA SameGroups ==
  ASSUME IInv,
         UNCHANGED <<members, leader, groupInLfg, group, original, invite, online, made>>
  PROVE  GroupTypes' /\ GroupInv' /\ Kept
<1>1. GroupTypes'
  BY DEF IInv, TypeOK, GroupTypes
<1>2. GroupInv'
  BY DEF IInv, GroupInv, Away, UnmadeUnused, Unused, InvitedBySomebody, OnlyRealQueued,
         Exists, GroupsWellFormed
<1>3. Kept
  BY LfgAssumption DEF Kept, IInv, TypeOK, Unused
<1> QED
  BY <1>1, <1>2, <1>3

(* A player in a group has one that exists, with its name taken.           *)
LEMMA Grouped ==
  ASSUME IInv, NEW p \in Players, group[p] # NoGroup
  PROVE  /\ group[p] \in Groups /\ p \in members[group[p]] /\ Exists(group[p])
         /\ group[p] <= made
<1>1. group[p] \in Groups /\ p \in members[group[p]]
  BY DEF IInv, TypeOK, GroupInv, GroupsWellFormed
<1>2. ~(group[p] > made)
  BY <1>1 DEF IInv, GroupInv, UnmadeUnused, Unused
<1> QED
  BY <1>1, <1>2 DEF Exists, IInv, TypeOK, Groups

LEMMA AddToQueueStep ==
  ASSUME IInv, NEW p \in Players, NEW g \in Groups \cup {NoGroup}, NEW lead, NEW count \in Nat,
         AddToQueue(p, g, lead, count)
  PROVE  /\ Posted
         /\ groupInLfg' \in [Groups -> BOOLEAN]
         /\ playerInLfg' \in [Players -> BOOLEAN]
         /\ \A h \in Groups : groupInLfg'[h] => groupInLfg[h] \/ h = g
<1>1. CASE g = NoGroup
  BY <1>1, QueueMessages DEF AddToQueue, Posted, IInv, TypeOK
<1>2. CASE g # NoGroup /\ lead = p
  <2>1. Info(count, TRUE) \in Entry
    BY InfoType
  <2>2. /\ groupInLfg' = [groupInLfg EXCEPT ![g] = TRUE]
        /\ Send([op |-> "AddGroup", group |-> g, info |-> Info(count, TRUE)])
        /\ playerInLfg' = playerInLfg
    BY <1>2 DEF AddToQueue
  <2>3. g \in Groups
    BY <1>2
  <2> QED
    BY <2>1, <2>2, <2>3, QueueMessages DEF Posted, IInv, TypeOK
<1>3. CASE g # NoGroup /\ lead # p
  BY <1>3 DEF AddToQueue, Posted, IInv, TypeOK
<1> QED
  BY <1>1, <1>2, <1>3

LEMMA JoinStep ==
  ASSUME IInv, NEW p \in Players, Join(p)
  PROVE  IInv'
<1>1. /\ Request(p)
      /\ UNCHANGED <<online, members, leader, group, original, invite, made>>
  BY DEF Join
<1>2. group[p] \in Groups \cup {NoGroup} /\ (group[p] # NoGroup => Exists(group[p]))
  BY Grouped DEF IInv, TypeOK
<1>3. /\ Posted
      /\ groupInLfg' \in [Groups -> BOOLEAN]
      /\ playerInLfg' \in [Players -> BOOLEAN]
      /\ \A h \in Groups : groupInLfg'[h] => groupInLfg[h] \/ h = group[p]
  <2>1. CASE group[p] = NoGroup
    <3>1. AddToQueue(p, NoGroup, p, 0) /\ 0 \in Nat
      BY <2>1 DEF Join
    <3> QED
      BY <2>1, <3>1, AddToQueueStep
  <2>2. CASE group[p] # NoGroup
    <3>1. Cardinality(members[group[p]]) \in Nat
      BY <1>2, <2>2, Counted DEF IInv, TypeOK
    <3>2. AddToQueue(p, group[p], leader[group[p]], Cardinality(members[group[p]]))
      BY <2>2 DEF Join
    <3> QED
      BY <1>2, <3>1, <3>2, AddToQueueStep
  <2> QED
    BY <2>1, <2>2
<1>4. GroupTypes'
  BY <1>1, <1>3 DEF IInv, TypeOK, GroupTypes
<1>5. GroupInv'
  BY <1>1, <1>2, <1>3, NamesOfGroups DEF IInv, GroupInv, Away, UnmadeUnused, Unused,
         InvitedBySomebody, OnlyRealQueued, Exists, GroupsWellFormed
<1>6. Kept
  BY <1>1, LfgAssumption DEF Kept, IInv, TypeOK, Unused
<1> QED
  BY <1>1, <1>3, <1>4, <1>5, <1>6, RequestStep DEF IInv, TypeOK

LEMMA LeaveStep ==
  ASSUME IInv, NEW p \in Players, Leave(p)
  PROVE  IInv'
<1>1. Request(p) /\ UNCHANGED worldVars
  BY DEF Leave
<1>2. GroupTypes' /\ GroupInv' /\ Kept
  BY <1>1, SameGroups DEF worldVars
<1>3. Posted
  BY <1>1, QueueMessages DEF Leave, Posted, worldVars, IInv, TypeOK
<1> QED
  BY <1>1, <1>2, <1>3, RequestStep DEF IInv, TypeOK, worldVars

LEMMA InviteStep ==
  ASSUME IInv, NEW p \in Players, NEW q \in Players, Invite(p, q)
  PROVE  IInv'
<1>1. /\ Request(p) /\ p \in online /\ q \in online \ {p}
      /\ group[q] = NoGroup /\ invite[q] = NoGroup
      /\ UNCHANGED <<online, members, groupInLfg, group, original, playerInLfg, toQueue>>
  BY DEF Invite, Request
<1>2. PICK g \in Groups :
        /\ leader'[g] = p /\ leader' \in [Groups -> Players \cup {NoPlayer}]
        /\ \A h \in Groups \ {g} : leader'[h] = leader[h]
        /\ invite' \in [Players -> Groups \cup {NoGroup}]
        /\ \A r \in Players : invite'[r] = invite[r] \/ invite'[r] = g
        /\ g <= made' /\ made' \in 0 .. MaxGroups /\ made <= made'
        /\ members[g] = {} => g > made
        /\ members[g] # {} => leader[g] = p
  <2>1. CASE group[p] # NoGroup
    <3>1. group[p] \in Groups /\ group[p] <= made /\ Exists(group[p])
      BY <2>1, Grouped
    <3>2. /\ leader[group[p]] = p
          /\ invite' = [invite EXCEPT ![q] = group[p]] /\ leader' = leader /\ made' = made
      BY <2>1 DEF Invite
    <3>3. made \in 0 .. MaxGroups /\ made <= made /\ members[group[p]] # {}
      BY <3>1, LfgAssumption DEF IInv, TypeOK, Exists, Unused
    <3>4. /\ invite' \in [Players -> Groups \cup {NoGroup}]
          /\ \A r \in Players : invite'[r] = invite[r] \/ invite'[r] = group[p]
      BY <3>1, <3>2 DEF IInv, TypeOK
    <3>5. leader \in [Groups -> Players \cup {NoPlayer}]
      BY DEF IInv, TypeOK
    <3> DEFINE g == group[p]
    <3>6. /\ g \in Groups /\ leader'[g] = p /\ leader' \in [Groups -> Players \cup {NoPlayer}]
          /\ \A h \in Groups \ {g} : leader'[h] = leader[h]
          /\ g <= made' /\ made' \in 0 .. MaxGroups /\ made <= made'
          /\ members[g] # {} /\ leader[g] = p
      BY <3>1, <3>2, <3>3, <3>5
    <3> QED
      BY <3>4, <3>6
  <2>2. CASE group[p] = NoGroup
    <3>1. /\ made < MaxGroups /\ made' = made + 1
          /\ leader' = [leader EXCEPT ![made + 1] = p]
          /\ invite' = [invite EXCEPT ![p] = made + 1, ![q] = made + 1]
      BY <2>2 DEF Invite
    <3>2. made \in Nat /\ made + 1 \in Groups /\ made + 1 > made /\ made + 1 \in 0 .. MaxGroups
      BY <3>1, LfgAssumption DEF IInv, TypeOK, Groups
    <3>3. members[made + 1] = {}
      BY <3>2 DEF IInv, GroupInv, UnmadeUnused, Unused
    <3> QED
      BY <3>1, <3>2, <3>3 DEF IInv, TypeOK
  <2> QED
    BY <2>1, <2>2
<1>3. GroupTypes'
  BY <1>1, <1>2 DEF IInv, TypeOK, GroupTypes
<1>4. \A h \in Groups : h <= made /\ Unused(h) => Unused(h)'
  BY <1>1, <1>2 DEF Unused, IInv, TypeOK, Groups
<1>5. Kept
  BY <1>2, <1>4 DEF Kept
<1>6. UnmadeUnused'
  <2> SUFFICES ASSUME NEW h \in Groups, h > made' PROVE Unused(h)'
    BY DEF UnmadeUnused
  <2>1. h # g /\ h > made
    BY <1>2 DEF Groups, IInv, TypeOK
  <2> QED
    BY <1>1, <1>2, <2>1 DEF IInv, GroupInv, UnmadeUnused, Unused
<1>7. Away' /\ OnlyRealQueued'
  BY <1>1 DEF IInv, GroupInv, Away, OnlyRealQueued, Exists
<1>8. InvitedBySomebody'
  BY <1>2, NamesOfGroups DEF IInv, TypeOK, GroupInv, InvitedBySomebody
<1>9. GroupsWellFormed'
  BY <1>1, <1>2 DEF IInv, GroupInv, GroupsWellFormed, Exists
<1>10. GroupInv' /\ Posted
  BY <1>1, <1>6, <1>7, <1>8, <1>9 DEF GroupInv, Posted, IInv, TypeOK
<1> QED
  BY <1>1, <1>3, <1>5, <1>10, RequestStep DEF IInv, TypeOK

LEMMA AcceptStep ==
  ASSUME IInv, NEW q \in Players, Accept(q)
  PROVE  IInv'
<1> DEFINE g == invite[q]
<1>1. /\ Request(q) /\ q \in online /\ g # NoGroup /\ leader[g] # q
      /\ UNCHANGED <<online, leader, groupInLfg, playerInLfg, made>>
  BY DEF Accept, Request
<1>2. g \in Groups /\ ~Unused(g) /\ g <= made
  <2>1. g \in Groups /\ ~Unused(g)
    BY <1>1 DEF IInv, TypeOK, Unused
  <2> QED
    BY <2>1 DEF IInv, TypeOK, GroupInv, UnmadeUnused, Groups
<1>3. leader[g] \in Players
  BY <1>1 DEF IInv, GroupInv, InvitedBySomebody
<1>4. GroupTypes' /\ GroupInv' /\ \A h \in Groups \ {g} : Unused(h) => Unused(h)'
  <2>1. ASSUME NEW S \in SUBSET Players, Enter(g, S), members[g] \cap S = {},
               q \in S, leader[g] \in members[g] \cup S
        PROVE  GroupTypes' /\ GroupInv' /\ \A h \in Groups \ {g} : Unused(h) => Unused(h)'
    BY <1>1, <1>2, <2>1, EnterStep DEF IInv, TypeOK
  <2>2. CASE invite' = [invite EXCEPT ![q] = NoGroup] /\ UNCHANGED <<members, group, original>>
    <3>1. \A r \in Players : invite'[r] \in {invite[r], NoGroup}
      BY <2>2 DEF IInv, TypeOK
    <3>2. \A h \in Groups : Unused(h) => Unused(h)'
      BY <2>2, <3>1, NamesOfGroups DEF Unused
    <3>3. GroupTypes'
      BY <1>1, <2>2 DEF IInv, TypeOK, GroupTypes
    <3>4. UnmadeUnused' /\ InvitedBySomebody'
      BY <1>1, <3>1, <3>2 DEF IInv, GroupInv, UnmadeUnused, InvitedBySomebody
    <3>5. Away' /\ OnlyRealQueued' /\ GroupsWellFormed'
      BY <1>1, <2>2 DEF IInv, GroupInv, Away, OnlyRealQueued, Exists, GroupsWellFormed
    <3> QED
      BY <3>2, <3>3, <3>4, <3>5 DEF GroupInv
  <2>3. CASE Exists(g) /\ q \notin members[g] /\ Enter(g, {q})
    <3>1. leader[g] \in members[g] /\ members[g] \cap {q} = {} /\ {q} \in SUBSET Players
      BY <1>2, <2>3 DEF IInv, GroupInv, GroupsWellFormed
    <3> QED
      BY <2>1, <2>3, <3>1
  <2>4. CASE ~Exists(g) /\ Enter(g, {leader[g], q})
    BY <1>3, <2>1, <2>4 DEF Exists
  <2> QED
    BY <2>2, <2>3, <2>4 DEF Accept
<1>5. Kept
  BY <1>1, <1>2, <1>4 DEF Kept, IInv, TypeOK
<1>6. Posted
  <2>1. Cardinality(members[g]) + 1 \in Nat
    <3>1. members[g] \in SUBSET Players
      BY <1>2 DEF IInv, TypeOK
    <3> HIDE DEF g
    <3> QED
      BY <3>1, Counted
  <2>2. toQueue' = toQueue \/ Send(UpdateMessage(g, Cardinality(members[g]) + 1))
    BY DEF Accept
  <2> QED
    BY <1>1, <1>2, <2>1, <2>2, UpdateType DEF Posted
<1> QED
  BY <1>1, <1>4, <1>5, <1>6, RequestStep DEF IInv, TypeOK

(* Taking invitations back: of one player, or of all when the group was    *)
(* never created.                                                          *)
LEMMA UninvitedStep ==
  ASSUME IInv, NEW p \in Players, invite' = Uninvited(p),
         UNCHANGED <<online, members, leader, groupInLfg, group, original, made>>
  PROVE  GroupTypes' /\ GroupInv' /\ Kept
<1>1. /\ invite' \in [Players -> Groups \cup {NoGroup}]
      /\ \A r \in Players : invite'[r] \in {invite[r], NoGroup}
  BY DEF Uninvited, IInv, TypeOK
<1>2. \A h \in Groups : Unused(h) => Unused(h)'
  BY <1>1, NamesOfGroups DEF Unused
<1>3. GroupTypes'
  BY <1>1 DEF IInv, TypeOK, GroupTypes
<1>4. UnmadeUnused' /\ InvitedBySomebody'
  BY <1>1, <1>2 DEF IInv, GroupInv, UnmadeUnused, InvitedBySomebody
<1>5. Away' /\ OnlyRealQueued' /\ GroupsWellFormed'
  BY DEF IInv, GroupInv, Away, OnlyRealQueued, Exists, GroupsWellFormed
<1>6. Kept
  BY <1>2, LfgAssumption DEF Kept, IInv, TypeOK
<1> QED
  BY <1>3, <1>4, <1>5, <1>6 DEF GroupInv

LEMMA DeclineStep ==
  ASSUME IInv, NEW p \in Players, Decline(p)
  PROVE  IInv'
<1>1. GroupTypes' /\ GroupInv' /\ Kept
  BY UninvitedStep DEF Decline
<1>2. Posted
  BY DEF Decline, Posted
<1> QED
  BY <1>1, <1>2, RequestStep DEF Decline, IInv, TypeOK

LEMMA RemovalStep ==
  ASSUME IInv, NEW p \in Players, Request(p), NEW g \in Groups, NEW q \in members[g],
         RemoveMember(g, q), UNCHANGED <<online, playerInLfg, made>>
  PROVE  IInv'
<1>1. /\ GroupTypes' /\ GroupInv'
      /\ \A h \in Groups : Unused(h) => Unused(h)'
      /\ \A h \in Groups : groupInLfg'[h] => groupInLfg[h]
      /\ toQueue' = toQueue \/ \E m \in QueueMessage : Send(m)
  BY RemoveMemberStep DEF IInv
<1>2. Kept /\ Posted
  BY <1>1, LfgAssumption DEF Kept, Posted, IInv, TypeOK
<1> QED
  BY <1>1, <1>2, RequestStep DEF IInv, TypeOK

LEMMA LeaveGroupStep ==
  ASSUME IInv, NEW p \in Players, LeaveGroup(p)
  PROVE  IInv'
BY Grouped, RemovalStep DEF LeaveGroup

LEMMA UninviteStep ==
  ASSUME IInv, NEW p \in Players, NEW q \in Players, Uninvite(p, q)
  PROVE  IInv'
<1>1. Request(p) /\ group[p] \in Groups
  BY Grouped DEF Uninvite
<1>2. CASE q \in members[group[p]]
  BY <1>1, <1>2, RemovalStep DEF Uninvite
<1>3. CASE q \notin members[group[p]]
  <2>1. /\ invite' = Uninvited(q)
        /\ UNCHANGED <<online, members, leader, groupInLfg, group, original,
                       playerInLfg, made, toQueue>>
    BY <1>3 DEF Uninvite
  <2>2. GroupTypes' /\ GroupInv' /\ Kept
    BY <2>1, UninvitedStep
  <2> QED
    BY <1>1, <2>1, <2>2, RequestStep DEF Posted, IInv, TypeOK
<1> QED
  BY <1>2, <1>3

(* A member becomes the leader.                                            *)
LEMMA LeaderStep ==
  ASSUME IInv, NEW g \in Groups, NEW q \in members[g], leader' = [leader EXCEPT ![g] = q],
         UNCHANGED <<online, members, groupInLfg, group, original, invite, made>>
  PROVE  GroupTypes' /\ GroupInv' /\ Kept
<1>1. q \in Players
  BY DEF IInv, TypeOK
<1>2. /\ leader' \in [Groups -> Players \cup {NoPlayer}]
      /\ \A h \in Groups : leader'[h] = IF h = g THEN q ELSE leader[h]
  BY <1>1 DEF IInv, TypeOK
<1>3. GroupTypes'
  BY <1>2 DEF IInv, TypeOK, GroupTypes
<1>4. Away' /\ UnmadeUnused' /\ OnlyRealQueued'
  BY DEF IInv, GroupInv, Away, UnmadeUnused, Unused, OnlyRealQueued, Exists
<1>5. InvitedBySomebody'
  BY <1>1, <1>2 DEF IInv, TypeOK, GroupInv, InvitedBySomebody
<1>6. GroupsWellFormed'
  BY <1>2 DEF IInv, GroupInv, GroupsWellFormed, Exists
<1>7. Kept
  BY LfgAssumption DEF Kept, IInv, TypeOK, Unused
<1> QED
  BY <1>3, <1>4, <1>5, <1>6, <1>7 DEF GroupInv

LEMMA SetLeaderStep ==
  ASSUME IInv, NEW p \in Players, NEW q \in Players, SetLeader(p, q)
  PROVE  IInv'
<1>1. group[p] \in Groups /\ q \in members[group[p]]
  BY Grouped DEF SetLeader
<1>2. GroupTypes' /\ GroupInv' /\ Kept
  BY <1>1, LeaderStep DEF SetLeader
<1> QED
  BY <1>2, RequestStep DEF SetLeader, Posted, IInv, TypeOK

LEMMA LogoutStep ==
  ASSUME IInv, NEW p \in Players, Logout(p)
  PROVE  IInv'
<1>1. /\ Request(p)
      /\ toQueue' = toQueue \/ Send([op |-> "RemovePlayer", player |-> p, byClient |-> FALSE])
      /\ online' = online \ {p}
      /\ invite' = Uninvited(p)
      /\ group' = [group EXCEPT ![p] = NoGroup]
      /\ original' = [original EXCEPT ![p] = NoGroup]
      /\ playerInLfg' = [playerInLfg EXCEPT ![p] = FALSE]
      /\ UNCHANGED <<members, leader, groupInLfg, made>>
  BY DEF Logout
<1>2. /\ invite' \in [Players -> Groups \cup {NoGroup}]
      /\ \A r \in Players : invite'[r] \in {invite[r], NoGroup}
  BY <1>1 DEF Uninvited, IInv, TypeOK
<1>3. /\ group'[p] = NoGroup /\ original'[p] = NoGroup
      /\ \A r \in Players \ {p} : group'[r] = group[r] /\ original'[r] = original[r]
  BY <1>1 DEF IInv, TypeOK
<1>4. \A h \in Groups : Unused(h) => Unused(h)'
  BY <1>1, <1>2, NamesOfGroups DEF Unused
<1>5. GroupTypes'
  BY <1>1, <1>2 DEF IInv, TypeOK, GroupTypes
<1>6. UnmadeUnused' /\ InvitedBySomebody'
  BY <1>1, <1>2, <1>4 DEF IInv, GroupInv, UnmadeUnused, InvitedBySomebody
<1>7. Away' /\ OnlyRealQueued'
  BY <1>1, <1>3 DEF IInv, GroupInv, Away, OnlyRealQueued, Exists
<1>8. GroupsWellFormed'
  BY <1>1, <1>3 DEF IInv, GroupInv, GroupsWellFormed, Exists
<1>9. Kept /\ Posted
  <2>1. Kept
    BY <1>1, <1>4, LfgAssumption DEF Kept, IInv, TypeOK
  <2>2. [op |-> "RemovePlayer", player |-> p, byClient |-> FALSE] \in QueueMessage
    BY QueueMessages
  <2> QED
    BY <1>1, <2>1, <2>2 DEF Posted
<1>10. GroupInv'
  BY <1>6, <1>7, <1>8 DEF GroupInv
<1> QED
  BY <1>1, <1>5, <1>9, <1>10, RequestStep DEF IInv, TypeOK

LEMMA UpdateOfflineLeaderStep ==
  ASSUME IInv, NEW g \in Groups, UpdateOfflineLeader(g)
  PROVE  IInv'
<1>1. PICK q \in Suitable(g, members[g]) : leader' = [leader EXCEPT ![g] = q]
  BY DEF UpdateOfflineLeader
<1>2. GroupTypes' /\ GroupInv' /\ Kept
  BY <1>1, LeaderStep DEF UpdateOfflineLeader, Suitable
<1>3. FormInv' /\ GroupStatusBacked'
  BY <1>2, PostedStep DEF UpdateOfflineLeader, Posted
<1>4. TypeOK'
  BY <1>2 DEF UpdateOfflineLeader, IInv, TypeOK, GroupTypes
<1> QED
  BY <1>2, <1>3, <1>4 DEF IInv

-----------------------------------------------------------------------------
(* The queue thread                                                        *)

(* The world is told something, if anything, but not to make a group.      *)
Extended ==
  /\ toWorld' \in Seq(WorldMessage)
  /\ \A i \in DOMAIN toWorld : i \in DOMAIN toWorld' /\ toWorld'[i] = toWorld[i]
  /\ \A i \in DOMAIN toWorld' : i \in DOMAIN toWorld \/ toWorld'[i].op # "Form"

LEMMA Unsaid ==
  ASSUME TypeOK, toWorld' = toWorld
  PROVE  Extended
BY DEF TypeOK, Extended

LEMMA Told ==
  ASSUME TypeOK, NEW m \in WorldMessage, m.op # "Form", Tell(m)
  PROVE  Extended /\ \E i \in DOMAIN toWorld' : toWorld'[i] = m
<1>1. toWorld \in Seq(WorldMessage) /\ toWorld' = Append(toWorld, m)
  BY DEF TypeOK, Tell
<1>2. /\ toWorld' \in Seq(WorldMessage) /\ DOMAIN toWorld' = 1 .. Len(toWorld) + 1
      /\ \A i \in DOMAIN toWorld : i \in DOMAIN toWorld' /\ toWorld'[i] = toWorld[i]
      /\ toWorld'[Len(toWorld) + 1] = m
      /\ \A i \in DOMAIN toWorld' : i \in DOMAIN toWorld \/ i = Len(toWorld) + 1
  BY <1>1, Added
<1>3. Len(toWorld) + 1 \in DOMAIN toWorld'
  BY <1>1, <1>2
<1> QED
  BY <1>2, <1>3 DEF Extended

LEMMA DismissedKept ==
  ASSUME Extended, NEW g, Dismissed(g)
  PROVE  Dismissed(g)'
BY DEF Extended, Dismissed

(* A queued group that is dropped is told.                                 *)
LEMMA DropStep ==
  ASSUME TypeOK, NEW g \in Groups, DropGroup(g)
  PROVE  /\ Extended
         /\ DOMAIN queuedGroups' \in SUBSET Groups
         /\ \A h \in DOMAIN queuedGroups' : queuedGroups'[h] \in Entry
         /\ \A h \in DOMAIN queuedGroups : h \in DOMAIN queuedGroups' \/ Dismissed(h)'
<1>1. CASE g \notin DOMAIN queuedGroups
  BY <1>1, Unsaid DEF DropGroup, TypeOK
<1>2. CASE g \in DOMAIN queuedGroups
  <2> DEFINE m == [op |-> "GroupLeft", group |-> g]
  <2>1. m \in WorldMessage /\ m.op = "GroupLeft" /\ m.group = g
    BY WorldMessagesType
  <2>2. Tell(m) /\ queuedGroups' = [y \in DOMAIN queuedGroups \ {g} |-> queuedGroups[y]]
    BY <1>2 DEF DropGroup, Without
  <2> HIDE DEF m
  <2>3. Extended /\ \E i \in DOMAIN toWorld' : toWorld'[i] = m
    BY <2>1, <2>2, Told
  <2>4. Dismissed(g)'
    BY <2>1, <2>3 DEF Dismissed
  <2> QED
    BY <2>2, <2>3, <2>4 DEF TypeOK
<1> QED
  BY <1>1, <1>2

LEMMA QueueRest ==
  ASSUME IInv, QueueStep, queuedPlayers' \in SUBSET Players,
         DOMAIN queuedGroups' \in SUBSET Groups,
         \A h \in DOMAIN queuedGroups' : queuedGroups'[h] \in Entry,
         toQueue' \in Seq(QueueMessage), Extended,
         \A g \in Groups : Pending(g) => Pending(g)' \/ g \in DOMAIN queuedGroups',
         \A g \in DOMAIN queuedGroups : g \in DOMAIN queuedGroups' \/ Dismissed(g)'
  PROVE  IInv'
<1>1. UNCHANGED worldVars /\ UNCHANGED <<up, ops>>
  BY DEF QueueStep
<1>2. GroupTypes' /\ GroupInv' /\ Kept
  BY <1>1, SameGroups DEF worldVars
<1>3. TypeOK'
  BY <1>1 DEF worldVars, IInv, TypeOK, Extended
<1>4. FormInv'
  <2>1. ASSUME NEW i \in DOMAIN toWorld', toWorld'[i].op = "Form"
        PROVE  i \in DOMAIN toWorld /\ toWorld'[i] = toWorld[i]
    BY <2>1 DEF Extended
  <2>2. \A g : Unused(g) => Unused(g)'
    BY <1>1 DEF worldVars, Unused
  <2> QED
    BY <1>1, <2>1, <2>2 DEF worldVars, IInv, FormInv
<1>5. GroupStatusBacked'
  <2> SUFFICES ASSUME NEW g \in Groups, groupInLfg'[g]
               PROVE  Pending(g)' \/ g \in DOMAIN queuedGroups' \/ Dismissed(g)'
    BY DEF GroupStatusBacked
  <2>1. Pending(g) \/ g \in DOMAIN queuedGroups \/ Dismissed(g)
    BY <1>1 DEF worldVars, IInv, GroupStatusBacked
  <2> QED
    BY <2>1, DismissedKept
<1> QED
  BY <1>2, <1>3, <1>4, <1>5 DEF IInv

LEMMA ReceivedStep ==
  ASSUME TypeOK, NEW op, Received(op)
  PROVE  /\ toQueue' \in Seq(QueueMessage)
         /\ Head(toQueue) \in QueueMessage /\ Head(toQueue).op = op
         /\ \A g \in Groups : Pending(g) =>
              Pending(g)' \/ (op = "AddGroup" /\ Head(toQueue).group = g)
<1>1. /\ toQueue \in Seq(QueueMessage) /\ toQueue # <<>> /\ toQueue' = Tail(toQueue)
      /\ Head(toQueue).op = op
  BY DEF TypeOK, Received
<1>2. /\ toQueue' \in Seq(QueueMessage)
      /\ Head(toQueue) = toQueue[1] /\ Head(toQueue) \in QueueMessage
      /\ \A i \in DOMAIN toQueue :
           i = 1 \/ (i - 1 \in DOMAIN toQueue' /\ toQueue'[i - 1] = toQueue[i])
  BY <1>1, Taken
<1>3. ASSUME NEW g \in Groups, Pending(g)
      PROVE  Pending(g)' \/ (op = "AddGroup" /\ Head(toQueue).group = g)
  <2>1. PICK i \in DOMAIN toQueue : toQueue[i].op = "AddGroup" /\ toQueue[i].group = g
    BY <1>3 DEF Pending
  <2>2. CASE i = 1
    BY <1>1, <1>2, <2>1, <2>2
  <2>3. CASE i # 1
    BY <1>2, <2>1, <2>3 DEF Pending
  <2> QED
    BY <2>2, <2>3
<1> QED
  BY <1>1, <1>2, <1>3

(* Most messages neither queue a group nor take one out.                   *)
LEMMA ReceivedOther ==
  ASSUME IInv, QueueStep, NEW op, Received(op), op # "AddGroup",
         queuedPlayers' \in SUBSET Players, DOMAIN queuedGroups' = DOMAIN queuedGroups,
         \A h \in DOMAIN queuedGroups' : queuedGroups'[h] \in Entry, Extended
  PROVE  IInv'
<1>1. /\ toQueue' \in Seq(QueueMessage)
      /\ \A g \in Groups : Pending(g) => Pending(g)'
  BY ReceivedStep DEF IInv
<1>2. DOMAIN queuedGroups' \in SUBSET Groups
  BY DEF IInv, TypeOK
<1> QED
  BY <1>1, <1>2, QueueRest

LEMMA AddGroupStep ==
  ASSUME IInv, AddGroup
  PROVE  IInv'
<1> DEFINE m == Head(toQueue)
<1>1. /\ QueueStep /\ Received("AddGroup") /\ queuedPlayers' = queuedPlayers
      /\ queuedGroups' = [y \in DOMAIN queuedGroups \cup {m.group} |->
                            IF y = m.group THEN m.info ELSE queuedGroups[y]]
      /\ Tell([op |-> "GroupJoined", group |-> m.group])
  BY DEF AddGroup, With
<1>2. /\ toQueue' \in Seq(QueueMessage) /\ m \in QueueMessage /\ m.op = "AddGroup"
      /\ \A g \in Groups : Pending(g) => Pending(g)' \/ m.group = g
  BY <1>1, ReceivedStep DEF IInv
<1>3. m.group \in Groups /\ m.info \in Entry
  BY <1>2, Messages
<1> HIDE DEF m
<1>4. Extended
  BY <1>1, <1>3, Told, WorldMessagesType DEF IInv
<1>5. /\ DOMAIN queuedGroups' = DOMAIN queuedGroups \cup {m.group}
      /\ DOMAIN queuedGroups' \in SUBSET Groups
      /\ \A h \in DOMAIN queuedGroups' : queuedGroups'[h] \in Entry
  BY <1>1, <1>3 DEF IInv, TypeOK
<1> QED
  BY <1>1, <1>2, <1>4, <1>5, QueueRest DEF IInv, TypeOK

LEMMA AddPlayerStep ==
  ASSUME IInv, AddPlayer
  PROVE  IInv'
<1>1. /\ QueueStep /\ Received("AddPlayer") /\ queuedGroups' = queuedGroups
      /\ queuedPlayers' = queuedPlayers \cup {Head(toQueue).player}
      /\ Tell([op |-> "PlayerJoined", player |-> Head(toQueue).player])
  BY DEF AddPlayer
<1>2. Head(toQueue).player \in Players
  BY <1>1, ReceivedStep, Messages DEF IInv
<1>3. Extended
  BY <1>1, <1>2, Told, WorldMessagesType DEF IInv
<1> QED
  BY <1>1, <1>2, <1>3, ReceivedOther DEF IInv, TypeOK

LEMMA UpdateGroupStep ==
  ASSUME IInv, UpdateGroup
  PROVE  IInv'
<1> DEFINE m == Head(toQueue)
<1>1. /\ QueueStep /\ Received("UpdateGroup") /\ queuedPlayers' = queuedPlayers
      /\ toWorld' = toWorld
      /\ queuedGroups' = queuedGroups \/ queuedGroups' = [queuedGroups EXCEPT ![m.group] = m.info]
  BY DEF UpdateGroup
<1>2. m \in QueueMessage /\ m.op = "UpdateGroup"
  BY <1>1, ReceivedStep DEF IInv
<1> HIDE DEF m
<1>3. m.info \in Entry
  <2>1. m.info \in Update
    BY <1>2, Messages
  <2> QED
    BY <2>1, UpdateIsEntry
<1>4. Extended
  BY <1>1, Unsaid DEF IInv
<1>5. /\ DOMAIN queuedGroups' = DOMAIN queuedGroups
      /\ \A h \in DOMAIN queuedGroups' : queuedGroups'[h] \in Entry
  BY <1>1, <1>3 DEF IInv, TypeOK
<1> QED
  BY <1>1, <1>4, <1>5, ReceivedOther DEF IInv, TypeOK

LEMMA RemoveGroupStep ==
  ASSUME IInv, RemoveGroup
  PROVE  IInv'
<1>1. /\ QueueStep /\ Received("RemoveGroup") /\ queuedPlayers' = queuedPlayers
      /\ DropGroup(Head(toQueue).group)
  BY DEF RemoveGroup
<1>2. /\ toQueue' \in Seq(QueueMessage)
      /\ Head(toQueue) \in QueueMessage /\ Head(toQueue).op = "RemoveGroup"
      /\ \A g \in Groups : Pending(g) => Pending(g)'
  BY <1>1, ReceivedStep DEF IInv
<1>3. Head(toQueue).group \in Groups
  BY <1>2, Messages
<1>4. /\ Extended
      /\ DOMAIN queuedGroups' \in SUBSET Groups
      /\ \A h \in DOMAIN queuedGroups' : queuedGroups'[h] \in Entry
      /\ \A h \in DOMAIN queuedGroups : h \in DOMAIN queuedGroups' \/ Dismissed(h)'
  BY <1>1, <1>3, DropStep DEF IInv
<1> QED
  BY <1>1, <1>2, <1>4, QueueRest DEF IInv, TypeOK

LEMMA RemovePlayerStep ==
  ASSUME IInv, RemovePlayer
  PROVE  IInv'
<1>1. /\ QueueStep /\ Received("RemovePlayer") /\ queuedGroups' = queuedGroups
      /\ queuedPlayers' = queuedPlayers \ {Head(toQueue).player}
      /\ \/ toWorld' = toWorld
         \/ Tell([op |-> "PlayerLeft", player |-> Head(toQueue).player])
  BY DEF RemovePlayer
<1>2. Head(toQueue).player \in Players
  BY <1>1, ReceivedStep, Messages DEF IInv
<1>3. Extended
  <2>1. CASE Tell([op |-> "PlayerLeft", player |-> Head(toQueue).player])
    BY <1>2, <2>1, Told, WorldMessagesType DEF IInv
  <2> QED
    BY <1>1, <2>1, Unsaid DEF IInv
<1> QED
  BY <1>1, <1>3, ReceivedOther DEF IInv, TypeOK

LEMMA FindRoleToGroupStep ==
  ASSUME IInv, NEW p \in Players, NEW g \in Groups, FindRoleToGroup(p, g)
  PROVE  IInv'
<1> DEFINE assign == [op |-> "Assign", player |-> p, group |-> g]
           left == [op |-> "GroupLeft", group |-> g]
           count == queuedGroups[g].playerCount + 1
<1>1. /\ QueueStep /\ queuedPlayers' = queuedPlayers \ {p} /\ toQueue' = toQueue
      /\ g \in DOMAIN queuedGroups
      /\ \/ /\ queuedGroups' = [y \in DOMAIN queuedGroups \ {g} |-> queuedGroups[y]]
            /\ toWorld' = toWorld \o <<assign, left>>
         \/ /\ queuedGroups' = [queuedGroups EXCEPT ![g].playerCount = count]
            /\ Tell(assign)
  BY DEF FindRoleToGroup, Without
<1>2. /\ assign \in WorldMessage /\ assign.op # "Form"
      /\ left \in WorldMessage /\ left.op = "GroupLeft" /\ left.group = g
  BY WorldMessagesType
<1>3. queuedGroups[g] \in Entry /\ count \in Nat
  BY <1>1 DEF IInv, TypeOK, Entry
<1> HIDE DEF assign, left, count
<1>4. \A h \in Groups : Pending(h) => Pending(h)'
  BY <1>1 DEF Pending
<1>5. CASE Tell(assign) /\ queuedGroups' = [queuedGroups EXCEPT ![g].playerCount = count]
  <2>1. Extended
    BY <1>2, <1>5, Told DEF IInv
  <2>2. /\ DOMAIN queuedGroups' = DOMAIN queuedGroups
        /\ queuedGroups'[g] = [queuedGroups[g] EXCEPT !.playerCount = count]
        /\ \A h \in DOMAIN queuedGroups \ {g} : queuedGroups'[h] = queuedGroups[h]
    BY <1>1, <1>5 DEF IInv, TypeOK
  <2>3. queuedGroups'[g] \in Entry
    BY <1>3, <2>2 DEF Entry
  <2> QED
    BY <1>1, <1>4, <2>1, <2>2, <2>3, QueueRest DEF IInv, TypeOK
<1>6. CASE /\ queuedGroups' = [y \in DOMAIN queuedGroups \ {g} |-> queuedGroups[y]]
           /\ toWorld' = toWorld \o <<assign, left>>
  <2>1. toWorld \in Seq(WorldMessage)
    BY DEF IInv, TypeOK
  <2>2. /\ toWorld' \in Seq(WorldMessage) /\ DOMAIN toWorld' = 1 .. Len(toWorld) + 2
        /\ \A i \in DOMAIN toWorld : i \in DOMAIN toWorld' /\ toWorld'[i] = toWorld[i]
        /\ toWorld'[Len(toWorld) + 1] = assign /\ toWorld'[Len(toWorld) + 2] = left
    BY <1>2, <1>6, <2>1
  <2>3. \A i \in DOMAIN toWorld' :
          i \in DOMAIN toWorld \/ i = Len(toWorld) + 1 \/ i = Len(toWorld) + 2
    BY <2>1, <2>2
  <2>4. Extended
    BY <1>2, <2>2, <2>3 DEF Extended
  <2>5. Dismissed(g)'
    <3>1. Len(toWorld) + 2 \in DOMAIN toWorld'
      BY <2>1, <2>2
    <3> QED
      BY <1>2, <2>2, <3>1 DEF Dismissed
  <2>6. \A h \in DOMAIN queuedGroups : h \in DOMAIN queuedGroups' \/ Dismissed(h)'
    BY <1>6, <2>5
  <2> QED
    BY <1>1, <1>4, <1>6, <2>4, <2>6, QueueRest DEF IInv, TypeOK
<1> QED
  BY <1>1, <1>5, <1>6

LEMMA EndTurnStep ==
  ASSUME IInv, NEW g \in Groups, EndTurn(g)
  PROVE  IInv'
<1>1. /\ QueueStep /\ queuedPlayers' = queuedPlayers /\ toQueue' = toQueue
      /\ \/ DropGroup(g)
         \/ Tell([op |-> "GroupTimer", group |-> g]) /\ queuedGroups' = queuedGroups
  BY DEF EndTurn
<1>2. \A h \in Groups : Pending(h) => Pending(h)'
  BY <1>1 DEF Pending
<1>3. /\ Extended
      /\ DOMAIN queuedGroups' \in SUBSET Groups
      /\ \A h \in DOMAIN queuedGroups' : queuedGroups'[h] \in Entry
      /\ \A h \in DOMAIN queuedGroups : h \in DOMAIN queuedGroups' \/ Dismissed(h)'
  <2>1. CASE DropGroup(g)
    BY <2>1, DropStep DEF IInv
  <2>2. CASE Tell([op |-> "GroupTimer", group |-> g]) /\ queuedGroups' = queuedGroups
    BY <2>2, Told, WorldMessagesType DEF IInv, TypeOK
  <2> QED
    BY <1>1, <2>1, <2>2
<1> QED
  BY <1>1, <1>2, <1>3, QueueRest DEF IInv, TypeOK

LEMMA FormGroupStep ==
  ASSUME IInv, NEW p \in Players, NEW q \in Players, FormGroup(p, q)
  PROVE  IInv'
<1> DEFINE m == [op |-> "Form", player |-> p, member |-> q, group |-> made + 1]
<1>1. /\ p # q /\ made < MaxGroups /\ made' = made + 1 /\ queuedPlayers' = queuedPlayers \ {p, q}
      /\ toWorld' = Append(toWorld, m)
      /\ UNCHANGED <<online, members, leader, groupInLfg, group, original, invite, playerInLfg,
                     queuedGroups, toQueue, up, ops>>
  BY DEF FormGroup, Tell
<1>2. made \in Nat /\ made + 1 \in Groups /\ made + 1 \in 0 .. MaxGroups
  BY <1>1, LfgAssumption DEF IInv, TypeOK, Groups
<1>3. /\ m \in WorldMessage
      /\ m.op = "Form" /\ m.player = p /\ m.member = q /\ m.group = made + 1
  BY <1>2, WorldMessagesType
<1> HIDE DEF m
<1>4. toWorld \in Seq(WorldMessage)
  BY DEF IInv, TypeOK
<1>5. /\ toWorld' \in Seq(WorldMessage) /\ DOMAIN toWorld' = 1 .. Len(toWorld) + 1
      /\ \A i \in DOMAIN toWorld : i \in DOMAIN toWorld' /\ toWorld'[i] = toWorld[i]
      /\ toWorld'[Len(toWorld) + 1] = m
      /\ \A i \in DOMAIN toWorld' : i \in DOMAIN toWorld \/ i = Len(toWorld) + 1
  BY <1>1, <1>3, <1>4, Added
<1>6. TypeOK'
  BY <1>1, <1>2, <1>5 DEF IInv, TypeOK
<1>7. \A g : Unused(g)' <=> Unused(g)
  BY <1>1 DEF Unused
<1>8. GroupInv'
  <2>1. UnmadeUnused'
    BY <1>1, <1>2, <1>7 DEF IInv, GroupInv, UnmadeUnused, Groups
  <2> QED
    BY <1>1, <2>1 DEF IInv, GroupInv, Away, InvitedBySomebody, OnlyRealQueued, Exists,
           GroupsWellFormed
<1>9. FormInv'
  <2>1. Unused(made + 1)
    BY <1>2 DEF IInv, GroupInv, UnmadeUnused
  <2>2. ASSUME NEW i \in DOMAIN toWorld, toWorld[i].op = "Form"
        PROVE  /\ toWorld[i].player # toWorld[i].member
               /\ toWorld[i].group <= made /\ toWorld[i].group \in Nat
               /\ Unused(toWorld[i].group)
               /\ \A j \in DOMAIN toWorld :
                    toWorld[j].op = "Form" /\ toWorld[j].group = toWorld[i].group => i = j
    <3>1. toWorld[i].group \in Groups
      BY <1>4, <2>2, Messages
    <3> QED
      BY <2>2, <3>1 DEF IInv, FormInv, Groups
  <2> SUFFICES ASSUME NEW i \in DOMAIN toWorld', toWorld'[i].op = "Form"
               PROVE  /\ toWorld'[i].player # toWorld'[i].member
                      /\ toWorld'[i].group <= made' /\ Unused(toWorld'[i].group)
                      /\ \A j \in DOMAIN toWorld' :
                           toWorld'[j].op = "Form" /\ toWorld'[j].group = toWorld'[i].group
                             => i = j
    BY <1>7 DEF FormInv
  <2>3. CASE i \in DOMAIN toWorld
    <3>1. toWorld'[i] = toWorld[i]
      BY <1>5, <2>3
    <3> QED
      BY <1>1, <1>2, <1>3, <1>5, <2>2, <2>3, <3>1
  <2>4. CASE i = Len(toWorld) + 1
    <3>1. toWorld'[i] = m
      BY <1>5, <2>4
    <3> QED
      BY <1>1, <1>2, <1>3, <1>5, <2>1, <2>2, <2>4, <3>1
  <2> QED
    BY <1>5, <2>3, <2>4
<1>10. GroupStatusBacked'
  <2>1. \A g : Dismissed(g) => Dismissed(g)'
    BY <1>5 DEF Dismissed
  <2>2. \A g : Pending(g) => Pending(g)'
    BY <1>1 DEF Pending
  <2> QED
    BY <1>1, <2>1, <2>2 DEF IInv, GroupStatusBacked
<1> QED
  BY <1>6, <1>8, <1>9, <1>10 DEF IInv

-----------------------------------------------------------------------------
(* The messages of the queue, on the world thread                          *)

LEMMA ExecutedStep ==
  ASSUME IInv, NEW op, Executed(op)
  PROVE  /\ toWorld' \in Seq(WorldMessage)
         /\ Head(toWorld) \in WorldMessage /\ Head(toWorld).op = op
         /\ 1 \in DOMAIN toWorld /\ Head(toWorld) = toWorld[1]
         /\ \A i \in DOMAIN toWorld' :
              i + 1 \in DOMAIN toWorld /\ i + 1 # 1 /\ toWorld'[i] = toWorld[i + 1]
         /\ \A g \in Groups : Dismissed(g) =>
              Dismissed(g)' \/ (op = "GroupLeft" /\ Head(toWorld).group = g)
<1>1. /\ toWorld \in Seq(WorldMessage) /\ toWorld # <<>> /\ toWorld' = Tail(toWorld)
      /\ Head(toWorld).op = op
  BY DEF IInv, TypeOK, Executed
<1>2. /\ toWorld' \in Seq(WorldMessage)
      /\ Head(toWorld) = toWorld[1] /\ Head(toWorld) \in WorldMessage
      /\ \A i \in DOMAIN toWorld' :
           i + 1 \in DOMAIN toWorld /\ i + 1 # 1 /\ toWorld'[i] = toWorld[i + 1]
      /\ \A i \in DOMAIN toWorld :
           i = 1 \/ (i - 1 \in DOMAIN toWorld' /\ toWorld'[i - 1] = toWorld[i])
  BY <1>1, Taken
<1>3. 1 \in DOMAIN toWorld
  BY <1>1
<1>4. ASSUME NEW g \in Groups, Dismissed(g)
      PROVE  Dismissed(g)' \/ (op = "GroupLeft" /\ Head(toWorld).group = g)
  <2>1. PICK i \in DOMAIN toWorld : toWorld[i].op = "GroupLeft" /\ toWorld[i].group = g
    BY <1>4 DEF Dismissed
  <2>2. CASE i = 1
    BY <1>1, <1>2, <2>1, <2>2
  <2>3. CASE i # 1
    BY <1>2, <2>1, <2>3 DEF Dismissed
  <2> QED
    BY <2>2, <2>3
<1> QED
  BY <1>1, <1>2, <1>3, <1>4

LEMMA ExecutedRest ==
  ASSUME IInv, NEW op, Executed(op), GroupTypes', GroupInv', Posted,
         online' = online, made' = made, playerInLfg' \in [Players -> BOOLEAN], up' \in BOOLEAN,
         \A g \in Groups : Unused(g) => Unused(g)' \/ (op = "Form" /\ Head(toWorld).group = g),
         op = "GroupLeft" => ~groupInLfg'[Head(toWorld).group]
  PROVE  IInv'
<1>1. /\ toWorld' \in Seq(WorldMessage)
      /\ Head(toWorld) \in WorldMessage /\ Head(toWorld).op = op
      /\ 1 \in DOMAIN toWorld /\ Head(toWorld) = toWorld[1]
      /\ \A i \in DOMAIN toWorld' :
           i + 1 \in DOMAIN toWorld /\ i + 1 # 1 /\ toWorld'[i] = toWorld[i + 1]
      /\ \A g \in Groups : Dismissed(g) =>
           Dismissed(g)' \/ (op = "GroupLeft" /\ Head(toWorld).group = g)
  BY ExecutedStep
<1>2. TypeOK'
  BY <1>1, PostedType DEF IInv, TypeOK, GroupTypes, Executed
<1>3. FormInv'
  <2> SUFFICES ASSUME NEW i \in DOMAIN toWorld', toWorld'[i].op = "Form",
                      NEW k, k = toWorld'[i].group
               PROVE  /\ toWorld'[i].player # toWorld'[i].member
                      /\ k <= made' /\ Unused(k)'
                      /\ \A j \in DOMAIN toWorld' :
                           toWorld'[j].op = "Form" /\ toWorld'[j].group = k => i = j
    BY DEF FormInv
  <2>1. /\ i + 1 \in DOMAIN toWorld /\ i + 1 # 1 /\ toWorld'[i] = toWorld[i + 1]
        /\ i \in Nat
    BY <1>1
  <2>2. /\ toWorld[i + 1].player # toWorld[i + 1].member
        /\ toWorld[i + 1].group <= made /\ Unused(toWorld[i + 1].group)
        /\ \A j \in DOMAIN toWorld :
             toWorld[j].op = "Form" /\ toWorld[j].group = toWorld[i + 1].group => i + 1 = j
    BY <2>1 DEF IInv, FormInv
  <2>3. k \in Groups
    <3>1. toWorld'[i] \in WorldMessage
      BY <1>1
    <3> QED
      BY <3>1, Messages
  <2>4. ~(op = "Form" /\ Head(toWorld).group = k)
    BY <1>1, <2>1, <2>2
  <2>5. Unused(k)'
    BY <2>1, <2>2, <2>3, <2>4
  <2>6. ASSUME NEW j \in DOMAIN toWorld', toWorld'[j].op = "Form",
               toWorld'[j].group = k
        PROVE  i = j
    <3>1. j + 1 \in DOMAIN toWorld /\ toWorld'[j] = toWorld[j + 1] /\ j \in Nat
      BY <1>1
    <3>2. i + 1 = j + 1
      BY <2>1, <2>2, <2>6, <3>1
    <3> QED
      BY <2>1, <3>1, <3>2
  <2> QED
    BY <2>1, <2>2, <2>5, <2>6
<1>4. GroupStatusBacked'
  <2> SUFFICES ASSUME NEW g \in Groups, groupInLfg'[g]
               PROVE  Pending(g)' \/ g \in DOMAIN queuedGroups' \/ Dismissed(g)'
    BY DEF GroupStatusBacked
  <2>1. queuedGroups' = queuedGroups
    BY DEF Executed
  <2>2. Pending(g)' \/ g \in DOMAIN queuedGroups \/ Dismissed(g)
    BY PostedPending DEF IInv, GroupStatusBacked
  <2>3. Dismissed(g) => Dismissed(g)'
    BY <1>1
  <2> QED
    BY <2>1, <2>2, <2>3
<1> QED
  BY <1>2, <1>3, <1>4 DEF IInv

(* A message that changes nothing but, perhaps, ends the process.          *)
LEMMA HarmlessStep ==
  ASSUME IInv, NEW op, Executed(op), op # "GroupLeft", UNCHANGED worldVars, UNCHANGED toQueue,
         up' \in BOOLEAN
  PROVE  IInv'
<1>1. GroupTypes' /\ GroupInv'
  BY SameGroups DEF worldVars
<1>2. Posted /\ \A g : Unused(g) => Unused(g)'
  BY DEF worldVars, Posted, Unused, IInv, TypeOK
<1> QED
  BY <1>1, <1>2, ExecutedRest DEF worldVars, IInv, TypeOK

LEMMA AssignStep ==
  ASSUME IInv, Assign
  PROVE  IInv'
<1> DEFINE p == Head(toWorld).player
           g == Head(toWorld).group
<1>1. Executed("Assign")
  BY DEF Assign
<1>2. p \in Players /\ g \in Groups
  BY <1>1, ExecutedStep, Messages
<1>3. CASE NullDereference
  BY <1>1, <1>3, HarmlessStep DEF NullDereference
<1>4. CASE /\ Exists(g) /\ (IsFull(g) \/ p \in members[g])
           /\ UNCHANGED worldVars /\ UNCHANGED <<toQueue, up>>
  BY <1>1, <1>4, HarmlessStep DEF IInv, TypeOK
<1>5. CASE /\ Exists(g) /\ p \notin members[g] /\ Enter(g, {p})
           /\ UNCHANGED <<online, leader, groupInLfg, playerInLfg, made, toQueue, up>>
  <2>1. ~Unused(g) /\ g <= made
    BY <1>2, <1>5 DEF IInv, TypeOK, GroupInv, UnmadeUnused, Unused, Exists, Groups
  <2>2. leader[g] \in members[g]
    BY <1>2, <1>5 DEF IInv, GroupInv, GroupsWellFormed
  <2>3. leader[g] # p /\ members[g] \cap {p} = {} /\ {p} \in SUBSET Players
    BY <1>2, <1>5, <2>2
  <2>4. GroupTypes' /\ GroupInv' /\ \A h \in Groups \ {g} : Unused(h) => Unused(h)'
    BY <1>2, <1>5, <2>1, <2>2, <2>3, EnterStep DEF IInv, TypeOK
  <2>5. Posted
    BY <1>5 DEF Posted, IInv, TypeOK
  <2> QED
    BY <1>1, <1>5, <2>1, <2>4, <2>5, ExecutedRest DEF IInv, TypeOK
<1> QED
  BY <1>3, <1>4, <1>5 DEF Assign, worldVars

LEMMA FormStep ==
  ASSUME IInv, Form
  PROVE  IInv'
<1> DEFINE p == Head(toWorld).player
           q == Head(toWorld).member
           g == Head(toWorld).group
<1>1. Executed("Form")
  BY DEF Form
<1>2. /\ p \in Players /\ q \in Players /\ g \in Groups
      /\ p # q /\ g <= made /\ Unused(g)
  <2>1. /\ Head(toWorld) \in WorldMessage /\ Head(toWorld).op = "Form"
        /\ 1 \in DOMAIN toWorld /\ Head(toWorld) = toWorld[1]
    BY <1>1, ExecutedStep
  <2>2. p # q /\ g <= made /\ Unused(g)
    BY <2>1 DEF IInv, FormInv
  <2> QED
    BY <2>1, <2>2, Messages
<1>3. CASE NullDereference
  BY <1>1, <1>3, HarmlessStep DEF NullDereference
<1>4. ASSUME Enter(g, {p, q}), leader' = [leader EXCEPT ![g] = p],
             UNCHANGED <<online, made, up>>, Posted,
             groupInLfg' \in [Groups -> BOOLEAN], playerInLfg' \in [Players -> BOOLEAN],
             NEW h \in Groups, h = g \/ Exists(h),
             \A x \in Groups : groupInLfg'[x] => groupInLfg[x] \/ x = h
      PROVE  IInv'
  <2>1. members[g] \cap {p, q} = {} /\ {p, q} \in SUBSET Players
    BY <1>2 DEF Unused
  <2>2. /\ leader' \in [Groups -> Players \cup {NoPlayer}]
        /\ leader'[g] \in members[g] \cup {p, q}
        /\ \A x \in Groups \ {g} : leader'[x] = leader[x]
    BY <1>2, <1>4 DEF IInv, TypeOK
  <2>3. \A x \in Groups : groupInLfg'[x] => groupInLfg[x] \/ x = g \/ Exists(x)
    BY <1>4
  <2>4. GroupTypes' /\ GroupInv' /\ \A x \in Groups \ {g} : Unused(x) => Unused(x)'
    BY <1>2, <1>4, <2>1, <2>2, <2>3, EnterStep DEF IInv
  <2> QED
    BY <1>1, <1>4, <2>4, ExecutedRest DEF IInv, TypeOK
<1>5. CASE p \in online /\ q \in online /\ group[p] = NoGroup
  <2>1. /\ Enter(g, {p, q}) /\ leader' = [leader EXCEPT ![g] = p]
        /\ UNCHANGED <<online, made, up>>
        /\ AddToQueue(p, g, p, 2) /\ 2 \in Nat
    BY <1>5 DEF Form, NullDereference
  <2>2. /\ Posted
        /\ groupInLfg' \in [Groups -> BOOLEAN]
        /\ playerInLfg' \in [Players -> BOOLEAN]
        /\ \A x \in Groups : groupInLfg'[x] => groupInLfg[x] \/ x = g
    BY <1>2, <2>1, AddToQueueStep
  <2> QED
    BY <1>2, <1>4, <2>1, <2>2
<1>6. CASE p \in online /\ q \in online /\ group[p] # NoGroup
  <2>1. /\ Enter(g, {p, q}) /\ leader' = [leader EXCEPT ![g] = p]
        /\ UNCHANGED <<online, made, up>>
        /\ AddToQueue(p, group[p], leader[group[p]], Cardinality(members[group[p]]))
    BY <1>6 DEF Form, NullDereference
  <2>2. group[p] \in Groups /\ Exists(group[p])
    BY <1>2, <1>6, Grouped
  <2>3. Cardinality(members[group[p]]) \in Nat
    BY <2>2, Counted DEF IInv, TypeOK
  <2>4. /\ Posted
        /\ groupInLfg' \in [Groups -> BOOLEAN]
        /\ playerInLfg' \in [Players -> BOOLEAN]
        /\ \A x \in Groups : groupInLfg'[x] => groupInLfg[x] \/ x = group[p]
    BY <1>2, <2>1, <2>2, <2>3, AddToQueueStep
  <2> QED
    BY <1>4, <2>1, <2>2, <2>4
<1> QED
  BY <1>3, <1>5, <1>6 DEF Form

LEMMA NotifyGroupStep ==
  ASSUME IInv, NotifyGroup
  PROVE  IInv'
<1>1. PICK op \in {"GroupJoined", "GroupTimer"} : Executed(op)
  BY DEF NotifyGroup
<1>2. UNCHANGED worldVars /\ UNCHANGED toQueue /\ up' \in BOOLEAN
  BY DEF NotifyGroup, NullDereference, IInv, TypeOK
<1> QED
  BY <1>1, <1>2, HarmlessStep

LEMMA NotifyPlayerStep ==
  ASSUME IInv, NotifyPlayer
  PROVE  IInv'
<1>1. Executed("PlayerJoined")
  BY DEF NotifyPlayer
<1>2. UNCHANGED worldVars /\ UNCHANGED toQueue /\ up' \in BOOLEAN
  BY DEF NotifyPlayer, NullDereference, IInv, TypeOK
<1> QED
  BY <1>1, <1>2, HarmlessStep

LEMMA GroupLeftStep ==
  ASSUME IInv, GroupLeft
  PROVE  IInv'
<1> DEFINE g == Head(toWorld).group
<1>1. /\ Executed("GroupLeft")
      /\ groupInLfg' = IF Exists(g) THEN [groupInLfg EXCEPT ![g] = FALSE] ELSE groupInLfg
      /\ UNCHANGED <<online, members, leader, group, original, invite, playerInLfg, made,
                     toQueue, up>>
  BY DEF GroupLeft
<1>2. g \in Groups
  BY <1>1, ExecutedStep, Messages
<1> HIDE DEF g
<1>3. /\ groupInLfg' \in [Groups -> BOOLEAN] /\ ~groupInLfg'[g]
      /\ \A h \in Groups : groupInLfg'[h] => groupInLfg[h]
  BY <1>1, <1>2 DEF IInv, TypeOK, GroupInv, OnlyRealQueued
<1>4. GroupTypes'
  BY <1>1, <1>3 DEF IInv, TypeOK, GroupTypes
<1>5. GroupInv'
  BY <1>1, <1>3 DEF IInv, GroupInv, Away, UnmadeUnused, Unused, InvitedBySomebody,
         OnlyRealQueued, Exists, GroupsWellFormed
<1>6. Posted /\ \A h : Unused(h) => Unused(h)'
  BY <1>1, <1>3 DEF Posted, Unused
<1> QED
  BY <1>1, <1>3, <1>4, <1>5, <1>6, ExecutedRest DEF g, IInv, TypeOK

LEMMA PlayerLeftStep ==
  ASSUME IInv, PlayerLeft
  PROVE  IInv'
<1>1. /\ Executed("PlayerLeft")
      /\ playerInLfg' \in [Players -> BOOLEAN]
      /\ UNCHANGED <<online, members, leader, groupInLfg, group, original, invite, made,
                     toQueue, up>>
  BY DEF PlayerLeft, IInv, TypeOK
<1>2. GroupTypes' /\ GroupInv'
  BY <1>1, SameGroups
<1>3. Posted /\ \A h : Unused(h) => Unused(h)'
  BY <1>1 DEF Posted, Unused
<1> QED
  BY <1>1, <1>2, <1>3, ExecutedRest DEF IInv, TypeOK

-----------------------------------------------------------------------------
(* The theorems                                                            *)

LEMMA Initially == Init => IInv
<1> SUFFICES ASSUME Init PROVE IInv
  OBVIOUS
<1>1. TypeOK
  BY LfgAssumption DEF Init, TypeOK
<1>2. GroupInv
  BY NamesOfGroups DEF Init, GroupInv, Away, UnmadeUnused, Unused, InvitedBySomebody,
     OnlyRealQueued, Exists, GroupsWellFormed
<1>3. FormInv /\ GroupStatusBacked
  BY DEF Init, FormInv, GroupStatusBacked
<1> QED
  BY <1>1, <1>2, <1>3 DEF IInv

LEMMA Stuttering ==
  ASSUME IInv, UNCHANGED vars
  PROVE  IInv'
BY DEF vars, IInv, TypeOK, GroupInv, Away, UnmadeUnused, Unused, InvitedBySomebody,
       OnlyRealQueued, Exists, GroupsWellFormed, FormInv, GroupStatusBacked, Pending, Dismissed

LEMMA Inductive == IInv /\ [Next]_vars => IInv'
<1> SUFFICES ASSUME IInv, [Next]_vars PROVE IInv'
  OBVIOUS
<1>1. ASSUME ClientRequest PROVE IInv'
  <2>1. ASSUME NEW p \in Players, NEW q \in Players, Invite(p, q) \/ Uninvite(p, q) \/ SetLeader(p, q)
        PROVE  IInv'
    BY <2>1, InviteStep, UninviteStep, SetLeaderStep
  <2>2. ASSUME NEW p \in Players,
               Join(p) \/ Leave(p) \/ Accept(p) \/ Decline(p) \/ LeaveGroup(p) \/ Logout(p)
        PROVE  IInv'
    BY <2>2, JoinStep, LeaveStep, AcceptStep, DeclineStep, LeaveGroupStep, LogoutStep
  <2> QED
    BY <1>1, <2>1, <2>2 DEF ClientRequest
<1>2. ASSUME NEW g \in Groups, UpdateOfflineLeader(g) PROVE IInv'
  BY <1>2, UpdateOfflineLeaderStep
<1>3. ASSUME QueueThread PROVE IInv'
  <2>1. ASSUME ExecuteQueueMessage PROVE IInv'
    BY <2>1, AddGroupStep, AddPlayerStep, UpdateGroupStep, RemoveGroupStep, RemovePlayerStep
       DEF ExecuteQueueMessage
  <2>2. ASSUME NEW p \in Players, NEW g \in Groups, FindRoleToGroup(p, g) PROVE IInv'
    BY <2>2, FindRoleToGroupStep
  <2>3. ASSUME NEW g \in Groups, EndTurn(g) PROVE IInv'
    BY <2>3, EndTurnStep
  <2>4. ASSUME NEW p \in Players, NEW q \in Players, FormGroup(p, q) PROVE IInv'
    BY <2>4, FormGroupStep
  <2> QED
    BY <1>3, <2>1, <2>2, <2>3, <2>4 DEF QueueThread
<1>4. ASSUME WorldMessages PROVE IInv'
  BY <1>4, AssignStep, FormStep, NotifyGroupStep, NotifyPlayerStep, GroupLeftStep, PlayerLeftStep
     DEF WorldMessages
<1> QED
  BY <1>1, <1>2, <1>3, <1>4, Stuttering DEF Next

(* The invariant holds throughout, for any number of players and groups,   *)
(* any size of a group and any interleaving of the two threads.            *)
THEOREM Invariance == Spec => []IInv
<1>1. Init => IInv
  BY Initially
<1>2. IInv /\ [Next]_vars => IInv'
  BY Inductive
<1> QED
  BY <1>1, <1>2, PTL DEF Spec

(* Every variable keeps its type: an update never counts a full group.     *)
THEOREM TypeCorrect == Spec => []TypeOK
<1>1. IInv => TypeOK
  BY DEF IInv
<1> QED
  BY <1>1, Invariance, PTL

(* A group that believes itself queued has the queue, a message to it or a *)
(* notice from it to show for it, whichever thread is ahead.               *)
THEOREM StatusIsBacked == Spec => []GroupStatusBacked
<1>1. IInv => GroupStatusBacked
  BY DEF IInv
<1> QED
  BY <1>1, Invariance, PTL

(* Groups keep two members and a leader among them, and players point only *)
(* to groups that count them, through invitations, assignments, removals   *)
(* and logouts in any order.                                               *)
THEOREM GroupsStayWellFormed == Spec => []GroupsWellFormed
<1>1. IInv => GroupsWellFormed
  BY DEF IInv, GroupInv
<1> QED
  BY <1>1, Invariance, PTL
=============================================================================
