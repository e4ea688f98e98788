--------------------------- MODULE Sessions_proofs ---------------------------
EXTENDS Sessions, SequenceTheorems, FiniteSetTheorems, TLAPS

-----------------------------------------------------------------------------
(* Queues.                                                                 *)

(* What is left when the first element is taken.                           *)
LEMMA TailOf ==
  ASSUME NEW S, NEW q \in Seq(S), q # <<>>
  PROVE  /\ Tail(q) \in Seq(S) /\ Head(q) \in S
         /\ Len(q) \in Nat \ {0} /\ DOMAIN q = 1 .. Len(q)
         /\ DOMAIN Tail(q) = 1 .. Len(q) - 1 /\ Len(Tail(q)) = Len(q) - 1
         /\ Head(q) = q[1]
         /\ \A i \in DOMAIN Tail(q) : Tail(q)[i] = q[i + 1]
  OBVIOUS

(* What an append adds.                                                    *)
LEMMA AppendTo ==
  ASSUME NEW S, NEW q \in Seq(S), NEW e \in S
  PROVE  /\ Append(q, e) \in Seq(S)
         /\ Len(q) \in Nat /\ Len(Append(q, e)) = Len(q) + 1
         /\ DOMAIN q = 1 .. Len(q)
         /\ DOMAIN Append(q, e) = 1 .. Len(q) + 1
         /\ Append(q, e)[Len(q) + 1] = e
         /\ \A i \in DOMAIN q : Append(q, e)[i] = q[i]
  OBVIOUS

LEMMA AppendElements ==
  ASSUME NEW S, NEW q \in Seq(S), NEW e \in S
  PROVE  /\ Append(q, e) \in Seq(S)
         /\ Elements(Append(q, e)) = Elements(q) \cup {e}
         /\ Injective(q) /\ e \notin Elements(q) => Injective(Append(q, e))
<1> DEFINE r == Append(q, e)
<1>1. /\ r \in Seq(S) /\ Len(q) \in Nat
      /\ DOMAIN q = 1 .. Len(q) /\ DOMAIN r = 1 .. Len(q) + 1
      /\ r[Len(q) + 1] = e
      /\ \A i \in DOMAIN q : r[i] = q[i]
  BY AppendTo
<1> HIDE DEF r
<1>2. DOMAIN r = DOMAIN q \cup {Len(q) + 1} /\ Len(q) + 1 \notin DOMAIN q
  BY <1>1
<1>3. Elements(r) = Elements(q) \cup {e}
  <2>1. Elements(r) \subseteq Elements(q) \cup {e}
    BY <1>1, <1>2 DEF Elements
  <2>2. Elements(q) \subseteq Elements(r) /\ e \in Elements(r)
    BY <1>1, <1>2 DEF Elements
  <2> QED
    BY <2>1, <2>2
<1>4. ASSUME Injective(q), e \notin Elements(q) PROVE Injective(r)
  BY <1>1, <1>2, <1>4 DEF Injective, Elements
<1> QED
  BY <1>1, <1>3, <1>4 DEF r

LEMMA TailElements ==
  ASSUME NEW S, NEW q \in Seq(S), q # <<>>
  PROVE  /\ Tail(q) \in Seq(S) /\ Head(q) \in S
         /\ Elements(q) = Elements(Tail(q)) \cup {Head(q)}
         /\ Injective(q) => /\ Injective(Tail(q))
                            /\ Head(q) \notin Elements(Tail(q))
<1> DEFINE r == Tail(q)
<1> DEFINE h == Head(q)
<1>1. /\ r \in Seq(S) /\ h \in S
      /\ Len(q) \in Nat \ {0} /\ DOMAIN q = 1 .. Len(q)
      /\ DOMAIN r = 1 .. Len(q) - 1
      /\ h = q[1]
      /\ \A i \in DOMAIN r : r[i] = q[i + 1]
  BY TailOf
<1> HIDE DEF r, h
<1>2. \A i \in DOMAIN r : i \in Int /\ i + 1 \in DOMAIN q /\ i + 1 # 1
  BY <1>1
<1>3. \A i \in DOMAIN q : i = 1 \/ (i - 1 \in DOMAIN r /\ (i - 1) + 1 = i)
  BY <1>1
<1>4. 1 \in DOMAIN q
  BY <1>1
<1>5. Elements(q) = Elements(r) \cup {h}
  <2>1. Elements(r) \subseteq Elements(q) /\ h \in Elements(q)
    BY <1>1, <1>2, <1>4 DEF Elements
  <2>2. ASSUME NEW x \in Elements(q) PROVE x \in Elements(r) \cup {h}
    <3>1. PICK i \in DOMAIN q : q[i] = x
      BY <2>2 DEF Elements
    <3> QED
      BY <1>1, <1>3, <3>1 DEF Elements
  <2> QED
    BY <2>1, <2>2
<1>6. ASSUME Injective(q) PROVE Injective(r) /\ h \notin Elements(r)
  <2>1. ASSUME NEW i \in DOMAIN r, NEW j \in DOMAIN r, r[i] = r[j] PROVE i = j
    <3>1. q[i + 1] = q[j + 1]
      BY <1>1, <2>1
    <3>2. i + 1 = j + 1
      BY <1>2, <1>6, <3>1 DEF Injective
    <3> QED
      BY <1>2, <3>2
  <2>2. ASSUME NEW i \in DOMAIN r PROVE r[i] # h
    BY <1>1, <1>2, <1>4, <1>6 DEF Injective
  <2> QED
    BY <2>1, <2>2 DEF Injective, Elements
<1> QED
  BY <1>1, <1>5, <1>6 DEF r, h

LEMMA WithoutElements ==
  ASSUME NEW S, NEW q \in Seq(S), NEW s
  PROVE  /\ Without(q, s) \in Seq(S)
         /\ Elements(Without(q, s)) \subseteq Elements(q)
         /\ Injective(q) => /\ Injective(Without(q, s))
                            /\ Elements(Without(q, s)) = Elements(q) \ {s}
<1>1. CASE s \notin Elements(q)
  BY <1>1 DEF Without
<1>2. CASE s \in Elements(q)
  <2> DEFINE p == CHOOSE i \in DOMAIN q : q[i] = s
  <2> DEFINE r == Without(q, s)
  <2>1. p \in DOMAIN q /\ q[p] = s
    BY <1>2 DEF Elements
  <2>2. r = EraseAt(q, p)
    BY <1>2 DEF Without
  <2> HIDE DEF p, r
  <2>3. Len(q) \in Nat /\ DOMAIN q = 1 .. Len(q) /\ \A i \in DOMAIN q : q[i] \in S
    OBVIOUS
  <2>4. /\ DOMAIN r = 1 .. Len(q) - 1
        /\ \A j \in DOMAIN r : r[j] = IF j < p THEN q[j] ELSE q[j + 1]
    BY <2>2 DEF EraseAt
  <2>5. \A j \in DOMAIN r : j \in DOMAIN q /\ j + 1 \in DOMAIN q /\ j \in Int
    BY <2>3, <2>4
  <2>6. r \in Seq(S)
    <3>1. Len(q) - 1 \in Nat
      BY <2>1, <2>3
    <3>2. r \in [1 .. Len(q) - 1 -> S]
      BY <2>2, <2>3, <2>4, <2>5 DEF EraseAt
    <3> QED
      BY <3>1, <3>2, SeqDef
  <2>7. Elements(r) \subseteq Elements(q)
    BY <2>4, <2>5 DEF Elements
  <2>8. ASSUME Injective(q)
        PROVE  Injective(r) /\ Elements(r) = Elements(q) \ {s}
    <3> DEFINE from(j) == IF j < p THEN j ELSE j + 1
    <3>1. \A j \in DOMAIN r : from(j) \in DOMAIN q /\ r[j] = q[from(j)] /\ from(j) # p
      BY <2>1, <2>3, <2>4, <2>5
    <3>2. \A i, j \in DOMAIN r : from(i) = from(j) => i = j
      BY <2>1, <2>3, <2>5
    <3>3. \A i \in DOMAIN q : i # p => \E j \in DOMAIN r : from(j) = i
      <4> TAKE i \in DOMAIN q
      <4> HAVE i # p
      <4>1. i < p => i \in DOMAIN r /\ from(i) = i
        BY <2>1, <2>3, <2>4
      <4>2. ~(i < p) => i - 1 \in DOMAIN r /\ from(i - 1) = i
        BY <2>1, <2>3, <2>4
      <4> QED
        BY <4>1, <4>2
    <3> HIDE DEF from
    <3>4. Injective(r)
      BY <2>8, <3>1, <3>2 DEF Injective
    <3>5. s \notin Elements(r)
      BY <2>1, <2>8, <3>1 DEF Injective, Elements
    <3>6. ASSUME NEW x \in Elements(q), x # s PROVE x \in Elements(r)
      <4>1. PICK i \in DOMAIN q : q[i] = x
        BY <3>6 DEF Elements
      <4>2. PICK j \in DOMAIN r : from(j) = i
        BY <2>1, <3>3, <3>6, <4>1
      <4> QED
        BY <3>1, <4>1, <4>2 DEF Elements
    <3> QED
      BY <2>7, <3>4, <3>5, <3>6
  <2> QED
    BY <2>6, <2>7, <2>8 DEF r
<1> QED
  BY <1>1, <1>2

(* What is left when the first n elements are let go.                      *)
LEMMA SubSeqElements ==
  ASSUME NEW S, NEW q \in Seq(S), NEW n \in 0 .. Len(q)
  PROVE  LET r == SubSeq(q, n + 1, Len(q))
             f == {q[i] : i \in 1 .. n}
         IN /\ r \in Seq(S)
            /\ Elements(r) \subseteq Elements(q)
            /\ Injective(q) => Injective(r) /\ Elements(r) = Elements(q) \ f
<1> DEFINE r == SubSeq(q, n + 1, Len(q))
<1> DEFINE f == {q[i] : i \in 1 .. n}
<1>1. Len(q) \in Nat /\ DOMAIN q = 1 .. Len(q) /\ \A i \in DOMAIN q : q[i] \in S
  OBVIOUS
<1>2. /\ r \in Seq(S)
      /\ DOMAIN r = 1 .. Len(q) - n
      /\ \A i \in DOMAIN r : r[i] = q[n + i]
  BY <1>1
<1> HIDE DEF r
<1>3. \A i \in DOMAIN r : n + i \in DOMAIN q /\ i \in Int /\ n + i \notin 1 .. n
  BY <1>1, <1>2
<1>4. Elements(r) \subseteq Elements(q)
  BY <1>2, <1>3 DEF Elements
<1>5. ASSUME Injective(q) PROVE Injective(r) /\ Elements(r) = Elements(q) \ f
  <2>1. Injective(r)
    <3> SUFFICES ASSUME NEW i \in DOMAIN r, NEW j \in DOMAIN r, r[i] = r[j]
                 PROVE  i = j
      BY DEF Injective
    <3>1. q[n + i] = q[n + j]
      BY <1>2
    <3>2. n + i = n + j
      BY <1>3, <1>5, <3>1 DEF Injective
    <3> QED
      BY <1>3, <3>2
  <2>2. ASSUME NEW i \in DOMAIN r PROVE r[i] \notin f
    <3> SUFFICES ASSUME NEW k \in 1 .. n, q[k] = r[i] PROVE FALSE
      OBVIOUS
    <3>1. k \in DOMAIN q
      BY <1>1
    <3>2. k = n + i
      BY <1>2, <1>3, <1>5, <3>1 DEF Injective
    <3> QED
      BY <1>3, <3>2
  <2>3. ASSUME NEW x \in Elements(q), x \notin f PROVE x \in Elements(r)
    <3>1. PICK k \in DOMAIN q : q[k] = x
      BY <2>3 DEF Elements
    <3>2. k \notin 1 .. n
      BY <2>3, <3>1
    <3>3. k - n \in DOMAIN r /\ n + (k - n) = k
      BY <1>1, <1>2, <3>2
    <3> QED
      BY <1>2, <3>1, <3>3 DEF Elements
  <2> QED
    BY <1>4, <2>1, <2>2, <2>3 DEF Elements
<1> QED
  BY <1>2, <1>4, <1>5 DEF r

-----------------------------------------------------------------------------
(* The parts of the inductive invariant                                    *)

ControlTypes ==
  /\ config \in Configs
  /\ phase \in {"idle", "kicked", "inbox", "update", "disconnected", "maps",
                "results", "stopped"}
  /\ stopped \in BOOLEAN /\ closing \in BOOLEAN
  /\ toVisit \subseteq WorldSessions

ObjectTypes ==
  /\ object \in [WorldSessions -> {"new", "live", "deleted"}]
  /\ socket \in [WorldSessions -> {"null", "open", "closed"}]

AdmissionTypes ==
  /\ addSessQueue \in Seq(WorldSessions)
  /\ m_sessions \in [Accounts -> WorldSessions \cup {NoSession}]
  /\ m_disconnectedSessions \subseteq WorldSessions
  /\ m_QueuedSessions \in Seq(WorldSessions)
  /\ m_inQueue \subseteq WorldSessions
  /\ m_playerLimit \in Nat
  /\ loggedOut \subseteq Accounts /\ skipped \subseteq WorldSessions

CharacterTypes ==
  /\ player \in [WorldSessions -> Characters \cup {NoCharacter}]
  /\ owner \in [Characters -> WorldSessions \cup {NoSession}]
  /\ inWorld \in [Characters -> BOOLEAN]
  /\ memory \in [Characters -> 0 .. MaxVersion]
  /\ newest \in [Characters -> 0 .. MaxVersion]
  /\ saved \in [Characters -> 0 .. MaxVersion]

DatabaseTypes ==
  /\ stored \in [Characters -> 0 .. MaxVersion]
  /\ pending \in [Characters -> Seq(Operations)]
  /\ results \in Seq(LoadResults)

LoadingType == m_playerLoading \in [WorldSessions -> BOOLEAN]

LEMMA TypeParts ==
  TypeOK <=> /\ ControlTypes /\ ObjectTypes /\ AdmissionTypes
             /\ CharacterTypes /\ DatabaseTypes /\ LoadingType
  BY DEF TypeOK, ControlTypes, ObjectTypes, AdmissionTypes, CharacterTypes,
         DatabaseTypes, LoadingType

(* Neither loading a character nor having one.                             *)
Idle(s) == ~m_playerLoading[s] /\ player[s] = NoCharacter

(* A session that was not admitted to the world has no character.          *)
FreshInv ==
  \A s \in WorldSessions :
    object[s] = "new" \/ Waits(s) \/ s \in m_inQueue => Idle(s)

(* The loops visit what is still in the map they go over.                  *)
VisitInv ==
  /\ phase = "update" => toVisit \subseteq InMap
  /\ phase = "disconnected" => toVisit \subseteq m_disconnectedSessions
  /\ phase \notin {"update", "disconnected"} => toVisit = {}

(* The sessions in the queue have their flag set, even while closing.      *)
QueueFlagged == Elements(m_QueuedSessions) \subseteq m_inQueue

-----------------------------------------------------------------------------
(* Types                                                                   *)

LEMMA ConfigTypes ==
  ASSUME config \in Configs
  PROVE  /\ config.hardLimit \in Nat /\ config.playerLimit \in Nat
         /\ config.perTick \in Nat
         /\ config.forceLogoutDelay \in BOOLEAN /\ config.grace \in BOOLEAN
  BY SessionsAssumption

LEMMA SizeType ==
  ASSUME NEW map
  PROVE  Size(map) \in Nat
<1>1. IsFiniteSet({a \in Accounts : map[a] # NoSession})
  BY SessionsAssumption, FS_Subset
<1> QED
  BY <1>1, FS_CardinalityType DEF Size

LEMMA SaveTypes ==
  ASSUME CharacterTypes, DatabaseTypes, NEW c \in Characters, SaveToDB(c)
  PROVE  DatabaseTypes' /\ saved' \in [Characters -> 0 .. MaxVersion]
<1>1. SaveOperation(memory[c]) \in Operations
  BY DEF CharacterTypes, SaveOperation, Operations
<1>2. Append(pending[c], SaveOperation(memory[c])) \in Seq(Operations)
  BY <1>1 DEF DatabaseTypes
<1> QED
  BY <1>2 DEF SaveToDB, Delay, CharacterTypes, DatabaseTypes

LEMMA LogoutTypes ==
  ASSUME CharacterTypes, DatabaseTypes, NEW s \in WorldSessions,
         LogoutPlayer(s)
  PROVE  CharacterTypes' /\ DatabaseTypes'
<1>1. CASE player[s] = NoCharacter
  BY <1>1 DEF LogoutPlayer, characters, database, CharacterTypes, DatabaseTypes
<1>2. CASE player[s] # NoCharacter
  <2>1. player[s] \in Characters /\ SaveToDB(player[s])
    BY <1>2 DEF LogoutPlayer, CharacterTypes
  <2>2. DatabaseTypes' /\ saved' \in [Characters -> 0 .. MaxVersion]
    BY <2>1, SaveTypes
  <2> QED
    BY <1>2, <2>1, <2>2 DEF LogoutPlayer, CharacterTypes
<1> QED
  BY <1>1, <1>2

LEMMA DeleteTypes ==
  ASSUME ObjectTypes, CharacterTypes, DatabaseTypes, NEW s \in WorldSessions,
         Delete(s)
  PROVE  ObjectTypes' /\ CharacterTypes' /\ DatabaseTypes'
<1>1. LogoutPlayer(s)
  BY DEF Delete
<1>2. CharacterTypes' /\ DatabaseTypes'
  BY <1>1, LogoutTypes
<1>3. ObjectTypes'
  BY DEF Delete, ObjectTypes
<1> QED
  BY <1>2, <1>3

LEMMA LingerTypes ==
  ASSUME CharacterTypes, DatabaseTypes, NEW s \in WorldSessions,
         MayLinger(s), ForcePlayerLogoutDelay(s)
  PROVE  CharacterTypes' /\ DatabaseTypes'
<1>1. player[s] \in Characters /\ SaveToDB(player[s])
  BY DEF MayLinger, ForcePlayerLogoutDelay, CharacterTypes
<1>2. DatabaseTypes' /\ saved' \in [Characters -> 0 .. MaxVersion]
  BY <1>1, SaveTypes
<1> QED
  BY <1>2 DEF ForcePlayerLogoutDelay, CharacterTypes

-----------------------------------------------------------------------------
(* The login queue                                                         *)

(* What RemoveQueuedSession leaves in the queue, and whose flag it resets. *)
LEMMA RemoveQueued ==
  ASSUME m_QueuedSessions \in Seq(WorldSessions), Injective(m_QueuedSessions),
         NEW s \in WorldSessions
  PROVE  LET r == RemoveQueuedSession(s)
         IN /\ r.queue \in Seq(WorldSessions)
            /\ Injective(r.queue)
            /\ s \in r.leave
            /\ r.leave \subseteq {s} \cup Elements(m_QueuedSessions)
            /\ Elements(r.queue) = Elements(m_QueuedSessions) \ r.leave
<1> DEFINE q == Without(m_QueuedSessions, s)
<1> DEFINE r == RemoveQueuedSession(s)
<1>1. /\ q \in Seq(WorldSessions) /\ Injective(q)
      /\ Elements(q) = Elements(m_QueuedSessions) \ {s}
  BY WithoutElements
<1>2. q # <<>> =>
        /\ Tail(q) \in Seq(WorldSessions) /\ Injective(Tail(q))
        /\ Elements(q) = Elements(Tail(q)) \cup {Head(q)}
        /\ Head(q) \notin Elements(Tail(q))
  BY <1>1, TailElements
<1>3. \/ r.queue = q /\ r.leave = {s}
      \/ q # <<>> /\ r.queue = Tail(q) /\ r.leave = {s} \cup {Head(q)}
  BY DEF RemoveQueuedSession
<1> HIDE DEF q, r
<1>4. CASE r.queue = q /\ r.leave = {s}
  BY <1>1, <1>4 DEF r
<1>5. CASE q # <<>> /\ r.queue = Tail(q) /\ r.leave = {s} \cup {Head(q)}
  BY <1>1, <1>2, <1>5 DEF r
<1> QED
  BY <1>3, <1>4, <1>5

(* The front of the queue that UpdateSessions lets in.                     *)
LEMMA LimitUpdated ==
  ASSUME config \in Configs, m_playerLimit \in Nat,
         m_QueuedSessions \in Seq(WorldSessions), Injective(m_QueuedSessions),
         GetActiveSessionCount >= 0, UpdateLimit
  PROVE  /\ m_playerLimit' \in Nat
         /\ m_QueuedSessions' \in Seq(WorldSessions)
         /\ Injective(m_QueuedSessions')
         /\ Elements(m_QueuedSessions') \subseteq Elements(m_QueuedSessions)
         /\ \E f : /\ m_inQueue' = m_inQueue \ f
                   /\ f \subseteq Elements(m_QueuedSessions)
                   /\ Elements(m_QueuedSessions')
                        = Elements(m_QueuedSessions) \ f
<1> DEFINE hard == config.hardLimit
<1> DEFINE limit == IF hard # 0 THEN Least(hard, m_playerLimit) ELSE m_playerLimit
<1> DEFINE loggedIn == GetActiveSessionCount
<1> DEFINE raised == Least(limit, loggedIn) + config.perTick
<1> DEFINE tooMany == hard # 0 /\ raised > hard
<1> DEFINE accept == IF tooMany THEN 0
                     ELSE Least(config.perTick, Len(m_QueuedSessions))
<1>1. hard \in Nat /\ config.perTick \in Nat
  BY ConfigTypes
<1>2. Len(m_QueuedSessions) \in Nat
      /\ DOMAIN m_QueuedSessions = 1 .. Len(m_QueuedSessions)
  OBVIOUS
<1>3. loggedIn \in Nat
  BY <1>2, SizeType DEF GetActiveSessionCount
<1> HIDE DEF hard, loggedIn
<1>4. limit \in Nat
  BY <1>1 DEF Least
<1> HIDE DEF limit
<1>5. raised \in Nat
  BY <1>1, <1>3, <1>4 DEF Least
<1> HIDE DEF raised
<1>6. accept \in 0 .. Len(m_QueuedSessions)
  BY <1>1, <1>2 DEF Least
<1> HIDE DEF tooMany, accept
<1>7. CASE /\ m_playerLimit' = limit
           /\ UNCHANGED <<m_QueuedSessions, m_inQueue>>
  BY <1>4, <1>7
<1>8. CASE /\ m_playerLimit' = (IF tooMany THEN hard ELSE raised)
           /\ m_inQueue' = m_inQueue \ {m_QueuedSessions[i] : i \in 1 .. accept}
           /\ m_QueuedSessions' =
                SubSeq(m_QueuedSessions, accept + 1, Len(m_QueuedSessions))
  <2> DEFINE f == {m_QueuedSessions[i] : i \in 1 .. accept}
  <2>1. m_playerLimit' \in Nat
    BY <1>1, <1>5, <1>8
  <2>2. f \subseteq Elements(m_QueuedSessions)
    BY <1>2, <1>6 DEF Elements
  <2>3. /\ m_QueuedSessions' \in Seq(WorldSessions)
        /\ Injective(m_QueuedSessions')
        /\ Elements(m_QueuedSessions') = Elements(m_QueuedSessions) \ f
    <3> DEFINE r == SubSeq(m_QueuedSessions, accept + 1, Len(m_QueuedSessions))
    <3>1. /\ r \in Seq(WorldSessions)
          /\ Injective(m_QueuedSessions) =>
               Injective(r) /\ Elements(r) = Elements(m_QueuedSessions) \ f
      BY <1>6, SubSeqElements
    <3>2. m_QueuedSessions' = r
      BY <1>8
    <3> HIDE DEF r, f
    <3> QED
      BY <3>1, <3>2
  <2>4. m_inQueue' = m_inQueue \ f
    BY <1>8
  <2> HIDE DEF f
  <2> QED
    BY <2>1, <2>2, <2>3, <2>4
<1> QED
  BY <1>7, <1>8 DEF UpdateLimit, hard, limit, loggedIn, raised, tooMany, accept

(* The end of AddSession_: either the session is queued or it is not.      *)
LEMMA Admitted ==
  ASSUME AdmissionTypes, NEW s \in WorldSessions,
         NEW queue \in Seq(WorldSessions), Injective(queue),
         s \notin Elements(queue), NEW leave, NEW decrease,
         Admit(s, queue, leave, decrease)
  PROVE  /\ m_sessions' = [m_sessions EXCEPT ![AccountOf[s]] = s]
         /\ m_playerLimit' = m_playerLimit
         /\ m_QueuedSessions' \in Seq(WorldSessions)
         /\ Injective(m_QueuedSessions')
         /\ skipped' \subseteq WorldSessions
         /\ \/ /\ Elements(m_QueuedSessions') = Elements(queue)
               /\ m_inQueue' = m_inQueue \ leave
            \/ /\ Elements(m_QueuedSessions') = Elements(queue) \cup {s}
               /\ m_inQueue' = (m_inQueue \ leave) \cup {s}
<1>1. /\ m_sessions' = [m_sessions EXCEPT ![AccountOf[s]] = s]
      /\ m_playerLimit' = m_playerLimit
      /\ \/ /\ m_QueuedSessions' = Append(queue, s)
            /\ m_inQueue' = (m_inQueue \ leave) \cup {s}
            /\ UNCHANGED skipped
         \/ /\ m_QueuedSessions' = queue
            /\ m_inQueue' = m_inQueue \ leave
            /\ skipped' \in {skipped, skipped \cup {s}}
  BY DEF Admit
<1>2. /\ Append(queue, s) \in Seq(WorldSessions)
      /\ Elements(Append(queue, s)) = Elements(queue) \cup {s}
      /\ Injective(Append(queue, s))
  BY AppendElements
<1>3. CASE m_QueuedSessions' = Append(queue, s)
           /\ m_inQueue' = (m_inQueue \ leave) \cup {s} /\ UNCHANGED skipped
  BY <1>1, <1>2, <1>3 DEF AdmissionTypes
<1>4. CASE /\ m_QueuedSessions' = queue
           /\ m_inQueue' = m_inQueue \ leave
           /\ skipped' \in {skipped, skipped \cup {s}}
  BY <1>1, <1>4 DEF AdmissionTypes
<1> QED
  BY <1>1, <1>3, <1>4

(* Every step keeps the types; the count of the sessions logged in must    *)
(* not be negative for m_playerLimit to keep its.                          *)
LEMMA TypeStep ==
  ASSUME TypeOK, QueueIsSound, [Next]_vars
  PROVE  TypeOK'
<1> USE SessionsAssumption
<1>0. /\ ControlTypes /\ ObjectTypes /\ AdmissionTypes
      /\ CharacterTypes /\ DatabaseTypes /\ LoadingType
  BY TypeParts
<1> DEFINE Typed == /\ ControlTypes' /\ ObjectTypes' /\ AdmissionTypes'
                    /\ CharacterTypes' /\ DatabaseTypes' /\ LoadingType'
<1> SUFFICES Typed
  BY DEF TypeOK, ControlTypes, ObjectTypes, AdmissionTypes, CharacterTypes,
         DatabaseTypes, LoadingType
<1>1. ASSUME NEW s \in WorldSessions, AddSession(s) PROVE Typed
  <2>1. Append(addSessQueue, s) \in Seq(WorldSessions)
    BY <1>0 DEF AdmissionTypes
  <2> QED
    BY <1>0, <1>1, <2>1 DEF AddSession, control, objects, admission,
       characters, database, ControlTypes, ObjectTypes, AdmissionTypes,
       CharacterTypes, DatabaseTypes, LoadingType
<1>2. ASSUME NEW s \in WorldSessions, CloseSocket(s) PROVE Typed
  BY <1>0, <1>2 DEF CloseSocket, control, objects, admission, characters,
     database, ControlTypes, ObjectTypes, AdmissionTypes, CharacterTypes,
     DatabaseTypes, LoadingType
<1>3. ASSUME NEW s \in WorldSessions, HandleMoveWorldportAckOpcode(s) PROVE Typed
  BY <1>0, <1>3 DEF HandleMoveWorldportAckOpcode, control, objects, admission,
     characters, database, ControlTypes, ObjectTypes, AdmissionTypes,
     CharacterTypes, DatabaseTypes, LoadingType
<1>4. ASSUME NEW s \in WorldSessions, NEW c \in Characters,
             HandlePlayerLoginOpcode(s, c)
      PROVE  Typed
  <2>1. LoginQueryHolder(AccountOf[s], saved[c]) \in Operations
    BY <1>0 DEF LoginQueryHolder, Operations, CharacterTypes
  <2>2. Append(pending[c], LoginQueryHolder(AccountOf[s], saved[c]))
          \in Seq(Operations)
    BY <1>0, <2>1 DEF DatabaseTypes
  <2> QED
    BY <1>0, <1>4, <2>2 DEF HandlePlayerLoginOpcode, Delay, control, objects,
       admission, characters, database, ControlTypes, ObjectTypes,
       AdmissionTypes, CharacterTypes, DatabaseTypes, LoadingType
<1>5. ASSUME NEW s \in WorldSessions, RemoveFromMap(s), Visited(s),
             UNCHANGED m_playerLoading
      PROVE  Typed
  <2>1. RemoveQueuedSession(s).queue \in Seq(WorldSessions)
    BY <1>0, RemoveQueued DEF QueueIsSound, AdmissionTypes
  <2>2. ObjectTypes' /\ CharacterTypes' /\ DatabaseTypes'
    BY <1>0, <1>5, DeleteTypes DEF RemoveFromMap
  <2>3. AdmissionTypes'
    BY <1>0, <1>5, <2>1 DEF RemoveFromMap, AdmissionTypes
  <2>4. ControlTypes' /\ LoadingType'
    BY <1>0, <1>5 DEF Visited, ControlTypes, LoadingType
  <2> QED
    BY <2>2, <2>3, <2>4
<1>6. ASSUME NEW s \in WorldSessions, CharacterScreenIdleKick(s) PROVE Typed
  BY <1>5, <1>6 DEF CharacterScreenIdleKick
<1>7. ASSUME NEW s \in WorldSessions, LoseClient(s) PROVE Typed
  <2>1. CASE MayLinger(s)
    <3>1. CharacterTypes' /\ DatabaseTypes'
      BY <1>0, <1>7, <2>1, LingerTypes DEF LoseClient
    <3>2. ObjectTypes'
      BY <1>0, <1>7, <2>1 DEF LoseClient, ForcePlayerLogoutDelay, ObjectTypes
    <3>4. AdmissionTypes'
      BY <1>0, <1>7, <2>1 DEF LoseClient, ForcePlayerLogoutDelay, AdmissionTypes
    <3>3. ControlTypes' /\ LoadingType'
      BY <1>0, <1>7 DEF LoseClient, Visited, ControlTypes, LoadingType
    <3> QED
      BY <3>1, <3>2, <3>3, <3>4
  <2>2. CASE ~MayLinger(s)
    BY <1>5, <1>7, <2>2 DEF LoseClient
  <2> QED
    BY <2>1, <2>2
<1>8. ASSUME NEW s \in WorldSessions, UpdateConnected(s) PROVE Typed
  <2>1. CASE LogoutPlayer(s)
    <3>1. CharacterTypes' /\ DatabaseTypes'
      BY <1>0, <2>1, LogoutTypes
    <3> QED
      BY <1>0, <1>8, <3>1 DEF UpdateConnected, Visited, objects, admission,
         ControlTypes, ObjectTypes, AdmissionTypes, LoadingType
  <2>2. CASE UNCHANGED <<characters, database>>
    BY <1>0, <1>8, <2>2 DEF UpdateConnected, Visited, control, objects,
       admission, characters, database, ControlTypes, ObjectTypes,
       AdmissionTypes, CharacterTypes, DatabaseTypes, LoadingType
  <2> QED
    BY <1>8, <2>1, <2>2 DEF UpdateConnected
<1>9. ASSUME NEW s \in WorldSessions, UpdateDisconnected(s) PROVE Typed
  <2>1. ControlTypes' /\ LoadingType'
    BY <1>0, <1>9 DEF UpdateDisconnected, Visited, ControlTypes, LoadingType
  <2>2. CASE UNCHANGED <<objects, admission, characters, database>>
    BY <1>0, <2>1, <2>2 DEF control, objects, admission, characters, database,
       ControlTypes, ObjectTypes, AdmissionTypes, CharacterTypes,
       DatabaseTypes, LoadingType
  <2>3. CASE /\ Delete(s)
             /\ m_disconnectedSessions' = m_disconnectedSessions \ {s}
             /\ UNCHANGED <<addSessQueue, m_sessions, m_QueuedSessions,
                            m_inQueue, m_playerLimit, loggedOut, skipped>>
    <3>1. ObjectTypes' /\ CharacterTypes' /\ DatabaseTypes'
      BY <1>0, <2>3, DeleteTypes
    <3>2. AdmissionTypes'
      BY <1>0, <2>3 DEF AdmissionTypes
    <3> QED
      BY <2>1, <3>1, <3>2
  <2> QED
    BY <1>9, <2>2, <2>3 DEF UpdateDisconnected
<1>10. ASSUME NEW c \in Characters, Play(c) PROVE Typed
  <2>1. newest[c] + 1 \in 0 .. MaxVersion
    BY <1>0, <1>10 DEF Play, CharacterTypes
  <2> QED
    BY <1>0, <1>10, <2>1 DEF Play, control, objects, admission, characters,
       database, ControlTypes, ObjectTypes, AdmissionTypes, CharacterTypes,
       DatabaseTypes, LoadingType
<1>11. ASSUME NEW c \in Characters, AutoSave(c) PROVE Typed
  <2>1. DatabaseTypes' /\ saved' \in [Characters -> 0 .. MaxVersion]
    BY <1>0, <1>11, SaveTypes DEF AutoSave
  <2> QED
    BY <1>0, <1>11, <2>1 DEF AutoSave, control, objects, admission,
       ControlTypes, ObjectTypes, AdmissionTypes, CharacterTypes, LoadingType
<1>12. ASSUME NEW c \in Characters, TeleportTo(c) PROVE Typed
  BY <1>0, <1>12 DEF TeleportTo, control, objects, admission, characters,
     database, ControlTypes, ObjectTypes, AdmissionTypes, CharacterTypes,
     DatabaseTypes, LoadingType
<1>13. ASSUME NEW c \in Characters, ExecuteOperation(c) PROVE Typed
  <2>1. Tail(pending[c]) \in Seq(Operations) /\ Head(pending[c]) \in Operations
    BY <1>0, <1>13, TailOf DEF ExecuteOperation, DatabaseTypes
  <2> DEFINE op == Head(pending[c])
  <2>2. pending' \in [Characters -> Seq(Operations)]
    BY <1>0, <1>13, <2>1 DEF ExecuteOperation, DatabaseTypes
  <2>3. CASE op.kind = "save"
    <3>1. op.version \in 0 .. MaxVersion
      BY <2>1, <2>3 DEF Operations
    <3>2. DatabaseTypes'
      BY <1>0, <1>13, <2>2, <2>3, <3>1 DEF ExecuteOperation, DatabaseTypes
    <3> QED
      BY <1>0, <1>13, <3>2 DEF ExecuteOperation, control, objects, admission,
         characters, ControlTypes, ObjectTypes, AdmissionTypes, CharacterTypes,
            DatabaseTypes, LoadingType
  <2>4. CASE op.kind # "save"
    <3> DEFINE r == [account |-> op.account, character |-> c,
                     version |-> stored[c], asked |-> op.version]
    <3>1. r \in LoadResults
      BY <1>0, <2>1, <2>4 DEF Operations, LoadResults, DatabaseTypes
    <3>2. results' = Append(results, r) /\ UNCHANGED stored
      BY <1>13, <2>4 DEF ExecuteOperation
    <3>3. results' \in Seq(LoadResults)
      BY <1>0, <3>1, <3>2, AppendTo DEF DatabaseTypes
    <3>4. DatabaseTypes'
      BY <1>0, <2>2, <3>2, <3>3 DEF DatabaseTypes
    <3> QED
      BY <1>0, <1>13, <3>4 DEF ExecuteOperation, control, objects, admission,
         characters, ControlTypes, ObjectTypes, AdmissionTypes, CharacterTypes,
            DatabaseTypes, LoadingType
  <2> QED
    BY <2>3, <2>4
<1>14. CASE BeginUpdate
  <2>1. m_playerLimit' \in Nat /\ m_QueuedSessions' \in Seq(WorldSessions)
        /\ m_inQueue' \subseteq WorldSessions
    BY <1>0, <1>14, LimitUpdated DEF BeginUpdate, QueueIsSound, ControlTypes,
       AdmissionTypes
  <2> QED
    BY <1>0, <1>14, <2>1 DEF BeginUpdate, objects, characters, database,
       ControlTypes, ObjectTypes, AdmissionTypes, CharacterTypes,
       DatabaseTypes, LoadingType
<1>15. ASSUME phase = "inbox", addSessQueue # <<>>
       PROVE  Tail(addSessQueue) \in Seq(WorldSessions)
              /\ Head(addSessQueue) \in WorldSessions
  BY <1>0, <1>15, TailOf DEF AdmissionTypes
<1>16. CASE RefuseSession
  <2>1. ObjectTypes' /\ CharacterTypes' /\ DatabaseTypes'
    BY <1>0, <1>15, <1>16, DeleteTypes DEF RefuseSession
  <2>2. AdmissionTypes'
    BY <1>0, <1>15, <1>16 DEF RefuseSession, AdmissionTypes
  <2> QED
    BY <1>0, <1>16, <2>1, <2>2 DEF RefuseSession, control, ControlTypes,
       LoadingType
<1>17. ASSUME NEW s \in WorldSessions, NEW queue, NEW leave, NEW decrease,
              Admit(s, queue, leave, decrease), queue \in Seq(WorldSessions)
       PROVE  /\ m_sessions' \in [Accounts -> WorldSessions \cup {NoSession}]
              /\ m_QueuedSessions' \in Seq(WorldSessions)
              /\ m_inQueue' \subseteq WorldSessions
              /\ m_playerLimit' \in Nat
              /\ skipped' \subseteq WorldSessions
  <2>1. Append(queue, s) \in Seq(WorldSessions)
    BY <1>17, AppendTo
  <2>2. m_sessions' = [m_sessions EXCEPT ![AccountOf[s]] = s]
        /\ m_playerLimit' = m_playerLimit
    BY <1>17 DEF Admit
  <2>3. m_QueuedSessions' \in {queue, Append(queue, s)}
        /\ m_inQueue' \subseteq m_inQueue \cup {s}
        /\ skipped' \subseteq skipped \cup {s}
    BY <1>17 DEF Admit
  <2> QED
    BY <1>0, <1>17, <2>1, <2>2, <2>3 DEF AdmissionTypes
<1>18. CASE AddFirstSession
  BY <1>0, <1>15, <1>17, <1>18 DEF AddFirstSession, control, objects,
     characters, database, ControlTypes, ObjectTypes, AdmissionTypes,
        CharacterTypes, DatabaseTypes, LoadingType
<1>19. CASE ReplaceSession
  <2> DEFINE s == Head(addSessQueue)
  <2> DEFINE old == m_sessions[AccountOf[s]]
  <2> DEFINE removed == RemoveQueuedSession(old)
  <2>1. s \in WorldSessions /\ Tail(addSessQueue) \in Seq(WorldSessions)
        /\ old \in WorldSessions
    BY <1>0, <1>15, <1>19 DEF ReplaceSession, AdmissionTypes
  <2>2. removed.queue \in Seq(WorldSessions)
    BY <1>0, <2>1, RemoveQueued DEF QueueIsSound, AdmissionTypes
  <2>3. /\ m_sessions' \in [Accounts -> WorldSessions \cup {NoSession}]
        /\ m_QueuedSessions' \in Seq(WorldSessions)
        /\ m_inQueue' \subseteq WorldSessions
        /\ m_playerLimit' \in Nat
        /\ skipped' \subseteq WorldSessions
    BY <1>17, <1>19, <2>1, <2>2 DEF ReplaceSession
  <2>4. ControlTypes' /\ LoadingType' /\ addSessQueue' = Tail(addSessQueue)
    BY <1>0, <1>19 DEF ReplaceSession, control, ControlTypes, LoadingType
  <2>5. CASE /\ MayLinger(old) /\ ForcePlayerLogoutDelay(old)
             /\ socket' = [socket EXCEPT ![old] = "closed"]
    <3>1. CharacterTypes' /\ DatabaseTypes'
      BY <1>0, <2>1, <2>5, LingerTypes
    <3>2. ObjectTypes'
      BY <1>0, <2>1, <2>5 DEF ForcePlayerLogoutDelay, ObjectTypes
    <3>3. AdmissionTypes'
      BY <1>0, <2>1, <2>3, <2>4, <2>5 DEF ForcePlayerLogoutDelay, AdmissionTypes
    <3> QED
      BY <2>4, <3>1, <3>2, <3>3
  <2>6. CASE Delete(old) /\ UNCHANGED <<m_disconnectedSessions, loggedOut>>
    <3>1. ObjectTypes' /\ CharacterTypes' /\ DatabaseTypes'
      BY <1>0, <2>1, <2>6, DeleteTypes
    <3>2. AdmissionTypes'
      BY <1>0, <2>1, <2>3, <2>4, <2>6 DEF AdmissionTypes
    <3> QED
      BY <2>4, <3>1, <3>2
  <2> QED
    BY <1>19, <2>5, <2>6 DEF ReplaceSession
<1>20. CASE EndInbox
  BY <1>0, <1>20 DEF EndInbox, InMap, control, objects, admission, characters,
     database, ControlTypes, ObjectTypes, AdmissionTypes, CharacterTypes,
     DatabaseTypes, LoadingType
<1>21. CASE EndSessions
  BY <1>0, <1>21 DEF EndSessions, control, objects, admission, characters,
     database, ControlTypes, ObjectTypes, AdmissionTypes, CharacterTypes,
     DatabaseTypes, LoadingType
<1>22. CASE EndUpdate
  BY <1>0, <1>22 DEF EndUpdate, control, objects, admission, characters,
     database, ControlTypes, ObjectTypes, AdmissionTypes, CharacterTypes,
     DatabaseTypes, LoadingType
<1>23. CASE EndMaps
  BY <1>0, <1>23 DEF EndMaps, control, objects, admission, characters,
     database, ControlTypes, ObjectTypes, AdmissionTypes, CharacterTypes,
     DatabaseTypes, LoadingType
<1>24. CASE HandlePlayerLoginCallback
  <2> DEFINE r == Head(results)
  <2> DEFINE s == m_sessions[r.account]
  <2>1. Tail(results) \in Seq(LoadResults) /\ r \in LoadResults
    BY <1>0, <1>24, TailOf DEF HandlePlayerLoginCallback, DatabaseTypes
  <2>2. /\ r.account \in Accounts /\ r.character \in Characters
        /\ r.version \in 0 .. MaxVersion
        /\ s \in WorldSessions \cup {NoSession}
    BY <1>0, <2>1 DEF LoadResults, AdmissionTypes
  <2>3. ControlTypes' /\ AdmissionTypes' /\ DatabaseTypes'
    BY <1>0, <1>24, <2>1 DEF HandlePlayerLoginCallback, control, admission,
       ControlTypes, AdmissionTypes, DatabaseTypes
  <2>4. UNCHANGED object
    BY <1>24 DEF HandlePlayerLoginCallback
  <2> HIDE DEF r, s
  <2>5. CASE DropHolder(s)
    BY <1>0, <2>2, <2>3, <2>4, <2>5 DEF DropHolder, characters, ObjectTypes,
       CharacterTypes, LoadingType
  <2>6. CASE RefuseLogin(s, r.character)
    BY <1>0, <2>2, <2>3, <2>4, <2>6 DEF RefuseLogin, characters, ObjectTypes,
       CharacterTypes, LoadingType
  <2>7. CASE TakeOver(s, r.character) /\ AwaitsLogin(s)
    BY <1>0, <2>2, <2>3, <2>4, <2>7 DEF TakeOver, AwaitsLogin, ObjectTypes,
       CharacterTypes, LoadingType
  <2>8. CASE LoadFromDB(s, r.character, r.version) /\ AwaitsLogin(s)
    BY <1>0, <2>2, <2>3, <2>4, <2>8 DEF LoadFromDB, AwaitsLogin, ObjectTypes,
       CharacterTypes, LoadingType
  <2> QED
    BY <1>24, <2>5, <2>6, <2>7, <2>8 DEF HandlePlayerLoginCallback, r, s
<1>25. CASE EndResults
  BY <1>0, <1>25 DEF EndResults, control, objects, admission, characters,
     database, ControlTypes, ObjectTypes, AdmissionTypes, CharacterTypes,
     DatabaseTypes, LoadingType
<1>26. CASE StopNow
  BY <1>0, <1>26 DEF StopNow, control, objects, admission, characters,
     database, ControlTypes, ObjectTypes, AdmissionTypes, CharacterTypes,
     DatabaseTypes, LoadingType
<1>27. CASE KickAll
  BY <1>0, <1>27 DEF KickAll, control, objects, admission, characters,
     database, ControlTypes, ObjectTypes, AdmissionTypes, CharacterTypes,
     DatabaseTypes, LoadingType
<1>28. CASE UNCHANGED vars
  BY <1>0, <1>28 DEF vars, control, objects, admission, characters, database,
     ControlTypes, ObjectTypes, AdmissionTypes, CharacterTypes, DatabaseTypes,
     LoadingType
<1> QED
  BY <1>1, <1>2, <1>3, <1>4, <1>6, <1>7, <1>8, <1>9, <1>10, <1>11, <1>12,
     <1>13, <1>14, <1>16, <1>18, <1>19, <1>20, <1>21, <1>22, <1>23, <1>24,
     <1>25, <1>26, <1>27, <1>28
  DEF Next, WorldNext, SessionNext, CharacterNext

-----------------------------------------------------------------------------
(* Every session is held                                                   *)

Held == EverySessionHeld /\ VisitInv

LEMMA InMapIsMapped ==
  ASSUME AdmissionTypes, EverySessionHeld
  PROVE  /\ InMap \subseteq WorldSessions
         /\ \A s \in WorldSessions : s \in InMap <=> Mapped(s)
  BY SessionsAssumption DEF AdmissionTypes, EverySessionHeld, InMap, Mapped

(* Steps that leave where the sessions are alone.                          *)
LEMMA HeldKept ==
  ASSUME AdmissionTypes, EverySessionHeld,
         UNCHANGED <<object, addSessQueue, m_sessions, m_disconnectedSessions>>,
         \A s \in toVisit' : s \in toVisit \/ s \in InMap
                             \/ s \in m_disconnectedSessions
  PROVE  EverySessionHeld' /\ InMap' = InMap
<1>1. \A s \in toVisit' : s \in WorldSessions => object[s] = "live"
  BY InMapIsMapped DEF EverySessionHeld, Lingers
<1>2. InMap' = InMap
  BY DEF InMap
<1> QED
  BY <1>1, <1>2
  DEF EverySessionHeld, Waits, Mapped, Lingers, Elements, Injective

(* The step takes a session of the map out of it; it lingers or it is      *)
(* deleted.                                                                *)
LEMMA HeldLeave ==
  ASSUME TypeOK, Held, NEW s \in WorldSessions, Visiting(s), Visited(s),
         m_sessions' = [m_sessions EXCEPT ![AccountOf[s]] = NoSession],
         UNCHANGED addSessQueue,
         \/ /\ object' = [object EXCEPT ![s] = "deleted"]
            /\ UNCHANGED m_disconnectedSessions
         \/ /\ m_disconnectedSessions' = m_disconnectedSessions \cup {s}
            /\ UNCHANGED object
  PROVE  Held'
<1> USE SessionsAssumption
<1>1. AdmissionTypes /\ ObjectTypes /\ ControlTypes
  BY TypeParts
<1>2. Mapped(s) /\ ~Waits(s) /\ ~Lingers(s) /\ toVisit \subseteq InMap
  BY <1>1, InMapIsMapped DEF Held, VisitInv, Visiting, EverySessionHeld
<1>3. \A t \in WorldSessions :
        /\ Waits(t)' <=> Waits(t)
        /\ Mapped(t)' <=> Mapped(t) /\ t # s
  BY <1>1, <1>2 DEF AdmissionTypes, Waits, Mapped, Elements
<1>4. \A t \in WorldSessions :
        \/ object[t]' = object[t] /\ (Lingers(t)' <=> Lingers(t)) /\ t # s
        \/ t = s /\ object[s]' = "deleted" /\ ~Lingers(s)'
        \/ t = s /\ object[s]' = object[s] /\ Lingers(s)'
  BY <1>1, <1>2 DEF ObjectTypes, Lingers
<1>5. toVisit' = toVisit \ {s} /\ phase' = phase /\ phase = "update"
  BY DEF Visiting, Visited
<1>6. \A a \in Accounts :
        m_sessions[a]' # NoSession => AccountOf[m_sessions[a]'] = a
  BY <1>1 DEF Held, EverySessionHeld, AdmissionTypes
<1>7. EverySessionHeld'
  BY <1>2, <1>3, <1>4, <1>5, <1>6 DEF Held, EverySessionHeld, Injective
<1>8. \A t \in toVisit' : t \in InMap'
  <2> SUFFICES ASSUME NEW t \in toVisit, t # s PROVE t \in InMap'
    BY <1>5
  <2>1. t \in WorldSessions /\ Mapped(t)
    BY <1>1, <1>2, InMapIsMapped DEF Held, ControlTypes
  <2>2. Mapped(t)'
    BY <1>3, <2>1
  <2> QED
    BY <2>1, <2>2 DEF Mapped, InMap
<1> QED
  BY <1>5, <1>7, <1>8 DEF Held, VisitInv

(* The step admits the head of the inbox; an old session of its account    *)
(* lingers or is deleted.                                                  *)
LEMMA HeldAdmit ==
  ASSUME TypeOK, Held, phase = "inbox", addSessQueue # <<>>,
         UNCHANGED <<phase, toVisit>>,
         addSessQueue' = Tail(addSessQueue),
         m_sessions' = [m_sessions EXCEPT ![AccountOf[Head(addSessQueue)]]
                                      = Head(addSessQueue)],
         LET old == m_sessions[AccountOf[Head(addSessQueue)]]
         IN \/ /\ old = NoSession
               /\ UNCHANGED <<object, m_disconnectedSessions>>
            \/ /\ old # NoSession
               /\ object' = [object EXCEPT ![old] = "deleted"]
               /\ UNCHANGED m_disconnectedSessions
            \/ /\ old # NoSession
               /\ m_disconnectedSessions' = m_disconnectedSessions \cup {old}
               /\ UNCHANGED object
  PROVE  Held'
<1> USE SessionsAssumption
<1> DEFINE s == Head(addSessQueue)
<1> DEFINE old == m_sessions[AccountOf[s]]
<1>1. AdmissionTypes /\ ObjectTypes /\ ControlTypes
  BY TypeParts
<1>2. /\ s \in WorldSessions
      /\ Elements(addSessQueue) = Elements(addSessQueue') \cup {s}
      /\ Injective(addSessQueue') /\ s \notin Elements(addSessQueue')
  BY <1>1, TailElements DEF AdmissionTypes, Held, EverySessionHeld
<1>3. old \in WorldSessions \cup {NoSession} /\ AccountOf[s] \in Accounts
  BY <1>1, <1>2 DEF AdmissionTypes
<1>4. m_sessions' = [m_sessions EXCEPT ![AccountOf[s]] = s]
  OBVIOUS
<1>5. \/ old = NoSession /\ UNCHANGED <<object, m_disconnectedSessions>>
      \/ /\ old # NoSession
         /\ object' = [object EXCEPT ![old] = "deleted"]
         /\ UNCHANGED m_disconnectedSessions
      \/ /\ old # NoSession
         /\ m_disconnectedSessions' = m_disconnectedSessions \cup {old}
         /\ UNCHANGED object
  OBVIOUS
<1>6. old # NoSession =>
        Mapped(old) /\ old # s /\ AccountOf[old] = AccountOf[s]
  BY <1>1, <1>2, <1>3 DEF Held, EverySessionHeld, Mapped, Waits, AdmissionTypes
<1> HIDE DEF s
<1>7. \A t \in WorldSessions :
        /\ Waits(t)' <=> Waits(t) /\ t # s
        /\ Mapped(t)' <=> (Mapped(t) /\ t # old) \/ t = s
  <2> TAKE t \in WorldSessions
  <2>1. Waits(t)' <=> Waits(t) /\ t # s
    BY <1>2 DEF Waits
  <2>2. m_sessions'[AccountOf[t]] =
          IF AccountOf[t] = AccountOf[s] THEN s ELSE m_sessions[AccountOf[t]]
    BY <1>1, <1>3, <1>4 DEF AdmissionTypes
  <2>3. Mapped(t)' <=> (Mapped(t) /\ t # old) \/ t = s
    BY <1>6, <2>2 DEF Mapped
  <2> QED
    BY <2>1, <2>3
<1>8. Waits(s)
  BY <1>2 DEF Waits
<1> HIDE DEF old
<1>9. \A t \in WorldSessions :
        \/ object[t]' = object[t] /\ (Lingers(t)' <=> Lingers(t)) /\ t # old
        \/ t = old /\ object[t]' = "deleted" /\ (Lingers(t)' <=> Lingers(t))
        \/ t = old /\ object[t]' = object[t] /\ Lingers(t)'
  BY <1>1, <1>3, <1>5 DEF ObjectTypes, Lingers
<1>10. toVisit' = {} /\ phase' = "inbox"
  BY DEF Held, VisitInv
<1>11. \A a \in Accounts :
         m_sessions[a]' # NoSession => AccountOf[m_sessions[a]'] = a
  BY <1>1, <1>2, <1>4 DEF Held, EverySessionHeld, AdmissionTypes
<1>12. \A t \in WorldSessions :
         /\ object[t]' = "live" <=> Waits(t)' \/ Mapped(t)' \/ Lingers(t)'
         /\ ~(Waits(t)' /\ Mapped(t)')
         /\ ~(Waits(t)' /\ Lingers(t)')
         /\ ~(Mapped(t)' /\ Lingers(t)')
  <2> SUFFICES ASSUME NEW t \in WorldSessions
               PROVE  /\ object[t]' = "live"
                           <=> Waits(t)' \/ Mapped(t)' \/ Lingers(t)'
                      /\ ~(Waits(t)' /\ Mapped(t)')
                      /\ ~(Waits(t)' /\ Lingers(t)')
                      /\ ~(Mapped(t)' /\ Lingers(t)')
    OBVIOUS
  <2>1. /\ object[t] = "live" <=> Waits(t) \/ Mapped(t) \/ Lingers(t)
        /\ ~(Waits(t) /\ Mapped(t))
        /\ ~(Waits(t) /\ Lingers(t))
        /\ ~(Mapped(t) /\ Lingers(t))
    BY DEF Held, EverySessionHeld
  <2>2. t = old => old # NoSession
    BY SessionsAssumption
  <2> QED
    BY <1>6, <1>7, <1>8, <1>9, <2>1, <2>2
<1>13. EverySessionHeld'
  BY <1>2, <1>10, <1>11, <1>12 DEF EverySessionHeld
<1> QED
  BY <1>10, <1>13 DEF Held, VisitInv

LEMMA HeldStep ==
  ASSUME TypeOK, Held, [Next]_vars
  PROVE  Held'
<1> DEFINE places ==
      <<object, addSessQueue, m_sessions, m_disconnectedSessions>>
<1>0. AdmissionTypes /\ ObjectTypes /\ ControlTypes
  BY TypeParts
(* A step that moves no session and visits nothing new.                    *)
<1>1. ASSUME UNCHANGED places, toVisit' \subseteq toVisit,
             \/ phase' = phase
             \/ toVisit' = {} /\ phase' \notin {"update", "disconnected"}
      PROVE  Held'
  <2>1. EverySessionHeld' /\ InMap' = InMap
    BY <1>0, <1>1, HeldKept DEF Held
  <2>2. UNCHANGED m_disconnectedSessions
    BY <1>1
  <2> QED
    BY <1>1, <2>1, <2>2 DEF Held, VisitInv
<1>2. ASSUME NEW s \in WorldSessions, AddSession(s) PROVE Held'
  <2>1. /\ object[s] = "new" /\ object' = [object EXCEPT ![s] = "live"]
        /\ addSessQueue' = Append(addSessQueue, s)
        /\ UNCHANGED <<phase, toVisit, m_sessions, m_disconnectedSessions>>
    BY <1>2 DEF AddSession, control
  <2>2. ~Waits(s) /\ ~Mapped(s) /\ ~Lingers(s)
    BY <2>1 DEF Held, EverySessionHeld
  <2>3. /\ Elements(addSessQueue') = Elements(addSessQueue) \cup {s}
        /\ Injective(addSessQueue')
    BY <1>0, <2>1, <2>2, AppendElements
    DEF AdmissionTypes, Held, EverySessionHeld, Waits
  <2>4. \A t \in WorldSessions :
          /\ Waits(t)' <=> Waits(t) \/ t = s
          /\ Mapped(t)' <=> Mapped(t)
          /\ Lingers(t)' <=> Lingers(t)
          /\ object[t]' = IF t = s THEN "live" ELSE object[t]
    BY <1>0, <2>1, <2>3 DEF Waits, Mapped, Lingers, ObjectTypes
  <2>5. EverySessionHeld'
    BY <2>1, <2>2, <2>3, <2>4 DEF Held, EverySessionHeld
  <2>6. InMap' = InMap
    BY <2>1 DEF InMap
  <2> QED
    BY <2>1, <2>5, <2>6 DEF Held, VisitInv
<1>3. ASSUME NEW s \in WorldSessions, RemoveFromMap(s), Visited(s), Visiting(s)
      PROVE  Held'
  BY <1>3, HeldLeave DEF RemoveFromMap, Delete
<1>4. ASSUME NEW s \in WorldSessions, LoseClient(s) PROVE Held'
  BY <1>3, <1>4, HeldLeave DEF LoseClient, ForcePlayerLogoutDelay
<1>5. ASSUME NEW s \in WorldSessions, UpdateConnected(s) PROVE Held'
  BY <1>1, <1>5 DEF UpdateConnected, Visited, objects, admission
<1>6. ASSUME NEW s \in WorldSessions, UpdateDisconnected(s) PROVE Held'
  <2>1. /\ phase = "disconnected" /\ phase' = phase
        /\ s \in toVisit /\ toVisit' = toVisit \ {s}
    BY <1>6 DEF UpdateDisconnected, Visited
  <2>2. CASE UNCHANGED <<objects, admission>>
    BY <1>1, <2>1, <2>2 DEF objects, admission
  <2>3. CASE /\ object' = [object EXCEPT ![s] = "deleted"]
             /\ m_disconnectedSessions' = m_disconnectedSessions \ {s}
             /\ UNCHANGED <<addSessQueue, m_sessions>>
    <3>1. Lingers(s) /\ ~Waits(s) /\ ~Mapped(s)
      BY <2>1 DEF Held, VisitInv, EverySessionHeld, Lingers
    <3>2. \A t \in WorldSessions :
            /\ Waits(t)' <=> Waits(t)
            /\ Mapped(t)' <=> Mapped(t)
            /\ Lingers(t)' <=> Lingers(t) /\ t # s
            /\ object[t]' = IF t = s THEN "deleted" ELSE object[t]
      BY <1>0, <2>3 DEF Waits, Mapped, Lingers, Elements, ObjectTypes
    <3>3. EverySessionHeld'
      BY <2>1, <2>3, <3>1, <3>2 DEF Held, EverySessionHeld, Injective
    <3> QED
      BY <2>1, <2>3, <3>3 DEF Held, VisitInv
  <2> QED
    BY <1>6, <2>2, <2>3 DEF UpdateDisconnected, Delete
<1>7. CASE RefuseSession
  <2> DEFINE s == Head(addSessQueue)
  <2>1. /\ phase = "inbox" /\ UNCHANGED <<phase, toVisit>>
        /\ addSessQueue # <<>> /\ addSessQueue' = Tail(addSessQueue)
        /\ object' = [object EXCEPT ![s] = "deleted"]
        /\ UNCHANGED <<m_sessions, m_disconnectedSessions>>
    BY <1>7 DEF RefuseSession, Delete, control
  <2>2. /\ s \in WorldSessions
        /\ Elements(addSessQueue) = Elements(addSessQueue') \cup {s}
        /\ Injective(addSessQueue') /\ s \notin Elements(addSessQueue')
    BY <1>0, <2>1, TailElements DEF AdmissionTypes, Held, EverySessionHeld
  <2>3. Waits(s) /\ ~Mapped(s) /\ ~Lingers(s)
    BY <2>2 DEF Waits, Held, EverySessionHeld
  <2>4. \A t \in WorldSessions :
          /\ Waits(t)' <=> Waits(t) /\ t # s
          /\ Mapped(t)' <=> Mapped(t)
          /\ Lingers(t)' <=> Lingers(t)
          /\ object[t]' = IF t = s THEN "deleted" ELSE object[t]
    BY <1>0, <2>1, <2>2 DEF Waits, Mapped, Lingers, ObjectTypes
  <2>5. toVisit' = {} /\ phase' = "inbox"
    BY <2>1 DEF Held, VisitInv
  <2> HIDE DEF s
  <2>6. EverySessionHeld'
    BY <2>1, <2>2, <2>3, <2>4, <2>5 DEF Held, EverySessionHeld
  <2> QED
    BY <2>5, <2>6 DEF Held, VisitInv
<1>8. CASE AddFirstSession
  BY <1>8, HeldAdmit DEF AddFirstSession, Admit, control, objects
<1>9. CASE ReplaceSession
  BY <1>9, HeldAdmit
  DEF ReplaceSession, Admit, ForcePlayerLogoutDelay, Delete, control
<1>10. CASE EndInbox
  <2>1. EverySessionHeld' /\ InMap' = InMap
    BY <1>0, <1>10, HeldKept DEF EndInbox, objects, admission, Held
  <2> QED
    BY <1>10, <2>1 DEF EndInbox, Held, VisitInv
<1>11. CASE EndSessions
  <2>1. EverySessionHeld' /\ InMap' = InMap
    BY <1>0, <1>11, HeldKept DEF EndSessions, objects, admission, Held
  <2> QED
    BY <1>11, <2>1 DEF EndSessions, admission, Held, VisitInv
<1>12. CASE BeginUpdate
  BY <1>1, <1>12 DEF BeginUpdate, objects, Held, VisitInv
<1>13. CASE EndUpdate
  BY <1>1, <1>13 DEF EndUpdate, objects, admission
<1>14. CASE EndMaps
  BY <1>1, <1>14 DEF EndMaps, objects, admission, Held, VisitInv
<1>15. CASE EndResults
  BY <1>1, <1>15 DEF EndResults, objects, admission, Held, VisitInv
<1>16. CASE HandlePlayerLoginCallback
  BY <1>1, <1>16 DEF HandlePlayerLoginCallback, control, admission
<1>17. CASE StopNow
  BY <1>1, <1>17 DEF StopNow, objects, admission
<1>18. CASE KickAll
  BY <1>1, <1>18 DEF KickAll, Held, VisitInv
<1>19. ASSUME NEW s \in WorldSessions,
              CloseSocket(s) \/ HandleMoveWorldportAckOpcode(s)
       PROVE  Held'
  BY <1>1, <1>19 DEF CloseSocket, HandleMoveWorldportAckOpcode, control,
     objects, admission
<1>20. ASSUME NEW s \in WorldSessions, NEW c \in Characters,
              HandlePlayerLoginOpcode(s, c)
       PROVE  Held'
  BY <1>1, <1>20 DEF HandlePlayerLoginOpcode, control, objects, admission
<1>21. ASSUME NEW c \in Characters, CharacterNext(c) PROVE Held'
  BY <1>1, <1>21 DEF CharacterNext, Play, AutoSave, TeleportTo,
     ExecuteOperation, control, objects, admission
<1>22. CASE UNCHANGED vars
  BY <1>1, <1>22 DEF vars, control, objects, admission
<1>23. ASSUME NEW s \in WorldSessions, CharacterScreenIdleKick(s) PROVE Held'
  BY <1>3, <1>23 DEF CharacterScreenIdleKick
<1> QED
  BY <1>2, <1>4, <1>5, <1>6, <1>7, <1>8, <1>9, <1>10, <1>11, <1>12, <1>13,
     <1>14, <1>15, <1>16, <1>17, <1>18, <1>19, <1>20, <1>21, <1>22, <1>23
  DEF Next, WorldNext, SessionNext

-----------------------------------------------------------------------------
(* The login queue holds sessions of the map                               *)

(* Distinct sessions of the map have distinct accounts, so a queue of them *)
(* is no longer than the map.                                              *)
LEMMA QueueFitsMap ==
  ASSUME NEW map \in [Accounts -> WorldSessions \cup {NoSession}],
         \A a \in Accounts : map[a] # NoSession => AccountOf[map[a]] = a,
         NEW q \in Seq(WorldSessions), Injective(q),
         Elements(q) \subseteq {map[a] : a \in Accounts} \ {NoSession}
  PROVE  Size(map) - Len(q) >= 0
<1> DEFINE T == {a \in Accounts : map[a] # NoSession}
<1> DEFINE f == [i \in 1 .. Len(q) |-> AccountOf[q[i]]]
<1>1. IsFiniteSet(T)
  BY SessionsAssumption, FS_Subset
<1>2. Len(q) \in Nat /\ DOMAIN q = 1 .. Len(q)
  OBVIOUS
<1>3. \A i \in 1 .. Len(q) : AccountOf[q[i]] \in T /\ map[AccountOf[q[i]]] = q[i]
  <2> TAKE i \in 1 .. Len(q)
  <2>1. q[i] \in Elements(q)
    BY <1>2 DEF Elements
  <2>2. PICK a \in Accounts : map[a] = q[i] /\ q[i] # NoSession
    BY <2>1
  <2> QED
    BY <2>2
<1>4. f \in Injection(1 .. Len(q), T)
  <2>1. f \in [1 .. Len(q) -> T]
    BY <1>3
  <2>2. \A i, j \in 1 .. Len(q) : f[i] = f[j] => i = j
    BY <1>2, <1>3 DEF Injective
  <2> QED
    BY <2>1, <2>2 DEF Injection, IsInjective
<1>5. Cardinality(1 .. Len(q)) <= Cardinality(T)
  BY <1>1, <1>4, FS_Injection
<1>6. Cardinality(1 .. Len(q)) = Len(q)
  <2> DEFINE n == Len(q)
  <2>1. n \in Nat
    BY <1>2
  <2> HIDE DEF n
  <2>2. Cardinality(1 .. n) = IF 1 > n THEN 0 ELSE n - 1 + 1
    BY <2>1, FS_Interval
  <2>3. Cardinality(1 .. n) = n
    BY <2>1, <2>2
  <2> QED
    BY <2>3 DEF n
<1>7. Cardinality(T) \in Nat
  BY <1>1, FS_CardinalityType
<1> QED
  BY <1>2, <1>5, <1>6, <1>7 DEF Size

QueueInv == QueueIsSound /\ QueueFlagged

LEMMA QueueStep ==
  ASSUME TypeOK, TypeOK', Held, Held', FreshInv, QueueInv, [Next]_vars
  PROVE  QueueInv'
<1> USE SessionsAssumption
<1> DEFINE Q == Elements(m_QueuedSessions)
<1> DEFINE Sound == /\ Injective(m_QueuedSessions')
                    /\ Q' \subseteq InMap' /\ Q' \subseteq m_inQueue'
                    /\ ~closing' => m_inQueue' = Q'
<1>1. AdmissionTypes /\ ControlTypes /\ CharacterTypes /\ AdmissionTypes'
  BY TypeParts DEF TypeOK, AdmissionTypes
<1>2. /\ Injective(m_QueuedSessions) /\ Q \subseteq InMap
      /\ Q \subseteq m_inQueue
      /\ ~closing => m_inQueue = Q
      /\ GetActiveSessionCount >= 0
  BY DEF QueueInv, QueueIsSound, QueueFlagged
<1> SUFFICES Sound
  <2>1. \A a \in Accounts :
          m_sessions'[a] # NoSession => AccountOf[m_sessions'[a]] = a
    BY DEF Held, EverySessionHeld
  <2>2. Size(m_sessions') - Len(m_QueuedSessions') >= 0
    BY <1>1, <2>1, QueueFitsMap DEF AdmissionTypes, InMap
  <2> QED
    BY <2>2 DEF QueueInv, QueueIsSound, QueueFlagged, GetActiveSessionCount, Size
<1> HIDE DEF Q
<1>3. ASSUME UNCHANGED <<m_QueuedSessions, m_inQueue, m_sessions, closing>>
      PROVE  Sound
  BY <1>2, <1>3 DEF Q, InMap, Elements, Injective
(* s leaves the map, and the queue if it is in it.                         *)
<1>4. ASSUME NEW s \in WorldSessions, Visiting(s), NEW leave,
             m_sessions' = [m_sessions EXCEPT ![AccountOf[s]] = NoSession],
             Injective(m_QueuedSessions'), Q' = Q \ leave,
             m_inQueue' = m_inQueue \ leave, s \notin Q',
             UNCHANGED closing
      PROVE  Sound
  <2>1. Mapped(s)
    BY <1>1, <1>4, InMapIsMapped
    DEF Held, VisitInv, Visiting, EverySessionHeld
  <2>2. ASSUME NEW t \in InMap, t # s PROVE t \in InMap'
    <3>1. PICK a \in Accounts : t = m_sessions[a] /\ t # NoSession
      BY DEF InMap
    <3>2. a # AccountOf[s]
      BY <2>1, <2>2, <3>1 DEF Mapped
    <3>3. m_sessions'[a] = t
      BY <1>1, <1>4, <3>1, <3>2 DEF AdmissionTypes
    <3> QED
      BY <3>1, <3>3 DEF InMap
  <2>3. Q' \subseteq InMap'
    BY <1>2, <1>4, <2>2
  <2> QED
    BY <1>2, <1>4, <2>3
<1>5. ASSUME NEW s \in WorldSessions, Visiting(s), RemoveFromMap(s), Visited(s)
      PROVE  Sound
  <2> DEFINE r == RemoveQueuedSession(s)
  <2>1. Injective(r.queue) /\ s \in r.leave /\ Elements(r.queue) = Q \ r.leave
    BY <1>1, <1>2, RemoveQueued DEF AdmissionTypes, Q
  <2>2. /\ m_QueuedSessions' = r.queue /\ m_inQueue' = m_inQueue \ r.leave
        /\ m_sessions' = [m_sessions EXCEPT ![AccountOf[s]] = NoSession]
        /\ UNCHANGED closing
    BY <1>5 DEF RemoveFromMap, Visited
  <2> HIDE DEF r
  <2>3. Q' = Q \ r.leave
    BY <2>1, <2>2 DEF Q
  <2> QED
    BY <1>4, <1>5, <2>1, <2>2, <2>3
<1>6. ASSUME NEW s \in WorldSessions, LoseClient(s) PROVE Sound
  <2>1. CASE MayLinger(s)
    <3>1. player[s] # NoCharacter
      BY <2>1 DEF MayLinger
    <3>2. s \notin Q
      BY <1>2, <3>1 DEF FreshInv, Idle
    <3>3. /\ m_sessions' = [m_sessions EXCEPT ![AccountOf[s]] = NoSession]
          /\ UNCHANGED <<m_QueuedSessions, m_inQueue, closing>>
          /\ Visiting(s)
      BY <1>6, <2>1 DEF LoseClient, Visited
    <3>4. Q' = Q \ {} /\ m_inQueue' = m_inQueue \ {}
      BY <3>3 DEF Q
    <3> QED
      BY <1>2, <1>4, <3>2, <3>3, <3>4
  <2>2. CASE ~MayLinger(s)
    BY <1>5, <1>6, <2>2 DEF LoseClient
  <2> QED
    BY <2>1, <2>2
<1>7. ASSUME NEW s \in WorldSessions, CharacterScreenIdleKick(s) PROVE Sound
  BY <1>5, <1>7 DEF CharacterScreenIdleKick
(* The head of the inbox is admitted.                                      *)
<1>8. ASSUME NEW s \in WorldSessions, s = Head(addSessQueue),
             phase = "inbox", addSessQueue # <<>>,
             NEW queue \in Seq(WorldSessions), NEW leave, NEW decrease,
             Admit(s, queue, leave, decrease), UNCHANGED closing,
             Injective(queue), Elements(queue) = Q \ leave,
             m_sessions[AccountOf[s]] \in leave \cup {NoSession}
      PROVE  Sound
  <2>1. Waits(s)
    BY <1>1, <1>8, TailElements DEF AdmissionTypes, Waits
  <2>2. s \notin InMap
    BY <1>1, <2>1, InMapIsMapped DEF Held, EverySessionHeld
  <2>3. s \notin Elements(queue)
    BY <1>2, <1>8, <2>2
  <2>4. /\ m_sessions' = [m_sessions EXCEPT ![AccountOf[s]] = s]
        /\ Injective(m_QueuedSessions')
        /\ \/ /\ Elements(m_QueuedSessions') = Elements(queue)
              /\ m_inQueue' = m_inQueue \ leave
           \/ /\ Elements(m_QueuedSessions') = Elements(queue) \cup {s}
              /\ m_inQueue' = (m_inQueue \ leave) \cup {s}
    BY <1>1, <1>8, <2>3, Admitted
  <2>5. PICK q \in SUBSET {s} : /\ Q' = (Q \ leave) \cup q
                                /\ m_inQueue' = (m_inQueue \ leave) \cup q
    <3>1. \/ Q' = (Q \ leave) \cup {} /\ m_inQueue' = (m_inQueue \ leave) \cup {}
          \/ Q' = (Q \ leave) \cup {s} /\ m_inQueue' = (m_inQueue \ leave) \cup {s}
      BY <1>8, <2>4 DEF Q
    <3> QED
      BY <3>1
  <2>6. m_sessions'[AccountOf[s]] = s /\ s # NoSession
    BY <1>1, <2>4 DEF AdmissionTypes
  <2>7. s \in InMap'
    BY <2>6 DEF InMap
  <2>8. ASSUME NEW t \in InMap, t # m_sessions[AccountOf[s]] PROVE t \in InMap'
    <3>1. PICK a \in Accounts : t = m_sessions[a] /\ t # NoSession
      BY DEF InMap
    <3>2. m_sessions'[a] = t
      BY <1>1, <2>4, <2>8, <3>1 DEF AdmissionTypes
    <3> QED
      BY <3>1, <3>2 DEF InMap
  <2>9. NoSession \notin InMap
    BY DEF InMap
  <2>10. Q' \subseteq InMap'
    BY <1>2, <1>8, <2>5, <2>7, <2>8, <2>9
  <2> QED
    BY <1>2, <1>8, <2>4, <2>5, <2>10
<1>9. CASE AddFirstSession
  <2> DEFINE s == Head(addSessQueue)
  <2>1. s \in WorldSessions
    BY <1>1, <1>9, TailOf DEF AddFirstSession, AdmissionTypes
  <2>2. /\ m_QueuedSessions \in Seq(WorldSessions)
        /\ Elements(m_QueuedSessions) = Q \ {}
    BY <1>1 DEF AdmissionTypes, Q
  <2>3. /\ phase = "inbox" /\ addSessQueue # <<>> /\ UNCHANGED closing
        /\ m_sessions[AccountOf[s]] \in {} \cup {NoSession}
        /\ Admit(s, m_QueuedSessions, {}, TRUE)
    BY <1>9 DEF AddFirstSession, control
  <2> QED
    BY <1>2, <1>8, <2>1, <2>2, <2>3
<1>10. CASE ReplaceSession
  <2> DEFINE s == Head(addSessQueue)
  <2> DEFINE old == m_sessions[AccountOf[s]]
  <2> DEFINE r == RemoveQueuedSession(old)
  <2>1. s \in WorldSessions /\ old \in WorldSessions
    BY <1>1, <1>10, TailOf DEF ReplaceSession, AdmissionTypes
  <2>2. /\ r.queue \in Seq(WorldSessions) /\ Injective(r.queue)
        /\ old \in r.leave /\ Elements(r.queue) = Q \ r.leave
    BY <1>1, <1>2, <2>1, RemoveQueued DEF AdmissionTypes, Q
  <2>3. /\ phase = "inbox" /\ addSessQueue # <<>> /\ UNCHANGED closing
        /\ Admit(s, r.queue, r.leave, ~r.found)
    BY <1>10 DEF ReplaceSession, control
  <2> HIDE DEF r
  <2> QED
    BY <1>8, <2>1, <2>2, <2>3
<1>11. CASE BeginUpdate
  <2>1. /\ UpdateLimit /\ UNCHANGED <<m_sessions, closing>>
    BY <1>11 DEF BeginUpdate
  <2>2. /\ Injective(m_QueuedSessions') /\ Q' \subseteq Q
        /\ \E f : m_inQueue' = m_inQueue \ f /\ f \subseteq Q /\ Q' = Q \ f
    BY <1>1, <1>2, <2>1, LimitUpdated DEF AdmissionTypes, ControlTypes, Q
  <2>3. InMap' = InMap
    BY <2>1 DEF InMap
  <2> QED
    BY <1>2, <2>1, <2>2, <2>3
<1>12. CASE KickAll
  <2>1. Q' = {} /\ Injective(m_QueuedSessions')
    BY <1>12 DEF KickAll, Q, Elements, Injective
  <2> QED
    BY <1>12, <2>1 DEF KickAll
<1>13. ASSUME NEW s \in WorldSessions,
              \/ AddSession(s) \/ CloseSocket(s)
              \/ HandleMoveWorldportAckOpcode(s) \/ UpdateConnected(s)
              \/ UpdateDisconnected(s)
       PROVE  Sound
  BY <1>3, <1>13 DEF AddSession, CloseSocket, HandleMoveWorldportAckOpcode,
     UpdateConnected, UpdateDisconnected, Visited, control, admission
<1>14. ASSUME NEW s \in WorldSessions, NEW c \in Characters,
              HandlePlayerLoginOpcode(s, c)
       PROVE  Sound
  BY <1>3, <1>14 DEF HandlePlayerLoginOpcode, control, admission
<1>15. ASSUME NEW c \in Characters, CharacterNext(c) PROVE Sound
  BY <1>3, <1>15 DEF CharacterNext, Play, AutoSave, TeleportTo,
     ExecuteOperation, control, admission
<1>16. CASE RefuseSession
  BY <1>3, <1>16 DEF RefuseSession, control
<1>17. CASE \/ EndInbox \/ EndSessions \/ EndUpdate \/ EndMaps
            \/ HandlePlayerLoginCallback \/ EndResults \/ StopNow
  BY <1>3, <1>17 DEF EndInbox, EndSessions, EndUpdate, EndMaps,
     HandlePlayerLoginCallback, EndResults, StopNow, control, admission
<1>18. CASE UNCHANGED vars
  BY <1>3, <1>18 DEF vars, control, admission
<1> QED
  BY <1>6, <1>7, <1>9, <1>10, <1>11, <1>12, <1>13, <1>14, <1>15, <1>16, <1>17,
     <1>18
  DEF Next, WorldNext, SessionNext

-----------------------------------------------------------------------------
(* A session and its player                                                *)

LEMMA LogoutEffect ==
  ASSUME CharacterTypes, NEW s \in WorldSessions, LogoutPlayer(s)
  PROVE  /\ \A t \in WorldSessions :
              player'[t] = IF t = s THEN NoCharacter ELSE player[t]
         /\ \A c \in Characters :
              /\ owner'[c] = IF c = player[s] THEN NoSession ELSE owner[c]
              /\ inWorld'[c] = IF c = player[s] THEN FALSE ELSE inWorld[c]
<1>1. CASE player[s] = NoCharacter
  BY <1>1, SessionsAssumption DEF LogoutPlayer, characters
<1>2. CASE player[s] # NoCharacter
  BY <1>2 DEF LogoutPlayer, CharacterTypes
<1> QED
  BY <1>1, <1>2

PlayerInv == FreshInv /\ PlayerAndSessionAgree

(* Deleting s, or logging its player out, leaves nobody with the player.   *)
LEMMA AgreeAfterLogout ==
  ASSUME CharacterTypes, ObjectTypes, PlayerAndSessionAgree,
         NEW s \in WorldSessions, LogoutPlayer(s),
         object' \in {object, [object EXCEPT ![s] = "deleted"]}
  PROVE  PlayerAndSessionAgree'
<1> USE SessionsAssumption
<1>1. /\ \A t \in WorldSessions :
           player'[t] = IF t = s THEN NoCharacter ELSE player[t]
      /\ \A c \in Characters :
           /\ owner'[c] = IF c = player[s] THEN NoSession ELSE owner[c]
           /\ inWorld'[c] = IF c = player[s] THEN FALSE ELSE inWorld[c]
  BY LogoutEffect
<1>2. \A t \in WorldSessions : t # s => object'[t] = object[t]
  BY DEF ObjectTypes
<1>3. \A t \in WorldSessions :
        player'[t] # NoCharacter => owner'[player'[t]] = t
  <2> SUFFICES ASSUME NEW t \in WorldSessions, player'[t] # NoCharacter
               PROVE  owner'[player'[t]] = t
    OBVIOUS
  <2>1. t # s /\ player'[t] = player[t] /\ player[t] \in Characters
    BY <1>1 DEF CharacterTypes
  <2>2. owner[player[t]] = t /\ player[t] # player[s]
    BY <2>1 DEF PlayerAndSessionAgree
  <2> QED
    BY <1>1, <2>1, <2>2
<1>4. ASSUME NEW c \in Characters, owner'[c] # NoSession
      PROVE  player'[owner'[c]] = c /\ object'[owner'[c]] = "live"
  <2>1. c # player[s] /\ owner'[c] = owner[c] /\ owner[c] \in WorldSessions
    BY <1>1, <1>4 DEF CharacterTypes
  <2>2. player[owner[c]] = c /\ object[owner[c]] = "live" /\ owner[c] # s
    BY <2>1 DEF PlayerAndSessionAgree
  <2> QED
    BY <1>1, <1>2, <2>1, <2>2
<1>5. \A c \in Characters : inWorld'[c] => owner'[c] # NoSession
  BY <1>1 DEF PlayerAndSessionAgree
<1> QED
  BY <1>3, <1>4, <1>5 DEF PlayerAndSessionAgree

LEMMA PlayerStep ==
  ASSUME TypeOK, TypeOK', Held, QueueInv, PlayerInv, [Next]_vars
  PROVE  PlayerInv'
<1> USE SessionsAssumption
<1> DEFINE fresh(s) == object[s] = "new" \/ Waits(s) \/ s \in m_inQueue
<1>1. /\ AdmissionTypes /\ ObjectTypes /\ CharacterTypes /\ LoadingType
      /\ ControlTypes /\ DatabaseTypes
  BY TypeParts
<1>2. PlayerAndSessionAgree /\ \A t \in WorldSessions : fresh(t) => Idle(t)
  BY DEF PlayerInv, FreshInv
<1> HIDE DEF fresh
<1>3. ASSUME PlayerAndSessionAgree',
             \A t \in WorldSessions : fresh(t)' => Idle(t)'
      PROVE  PlayerInv'
  BY <1>3 DEF PlayerInv, FreshInv, fresh
<1>4. ASSUME UNCHANGED <<player, owner, inWorld>>,
             \A t \in WorldSessions :
               object[t] = "live" => object'[t] = "live"
      PROVE  PlayerAndSessionAgree'
  <2>1. \A c \in Characters : owner[c] # NoSession =>
          owner[c] \in WorldSessions
    BY <1>1 DEF CharacterTypes
  <2> QED
    BY <1>2, <1>4, <2>1 DEF PlayerAndSessionAgree
<1>5. ASSUME UNCHANGED <<object, player, inWorld, owner, m_playerLoading,
                         addSessQueue, m_inQueue>>
      PROVE  PlayerInv'
  <2>1. \A t \in WorldSessions : (fresh(t)' <=> fresh(t)) /\ (Idle(t)' <=> Idle(t))
    BY <1>5 DEF fresh, Waits, Elements, Idle
  <2> QED
    BY <1>2, <1>3, <1>4, <1>5, <2>1
(* A step that makes nothing fresh and logs s out.                         *)
<1>6. ASSUME NEW s \in WorldSessions, LogoutPlayer(s),
             object' \in {object, [object EXCEPT ![s] = "deleted"]},
             UNCHANGED m_playerLoading,
             \A t \in WorldSessions : fresh(t)' => fresh(t)
      PROVE  PlayerInv'
  <2>1. PlayerAndSessionAgree'
    BY <1>1, <1>2, <1>6, AgreeAfterLogout
  <2>2. \A t \in WorldSessions : Idle(t) => Idle(t)'
    BY <1>1, <1>6, LogoutEffect DEF Idle
  <2> QED
    BY <1>2, <1>3, <1>6, <2>1, <2>2
<1>7. ASSUME NEW s \in WorldSessions, AddSession(s) PROVE PlayerInv'
  <2>1. /\ object[s] = "new" /\ object' = [object EXCEPT ![s] = "live"]
        /\ addSessQueue' = Append(addSessQueue, s)
        /\ UNCHANGED <<player, owner, inWorld, m_playerLoading, m_inQueue>>
    BY <1>7 DEF AddSession, characters
  <2>2. Elements(addSessQueue') = Elements(addSessQueue) \cup {s}
    BY <1>1, <2>1, AppendElements DEF AdmissionTypes
  <2>3. \A t \in WorldSessions : object'[t] = IF t = s THEN "live" ELSE object[t]
    BY <1>1, <2>1 DEF ObjectTypes
  <2>4. \A t \in WorldSessions : fresh(t)' => fresh(t)
    BY <2>1, <2>2, <2>3 DEF fresh, Waits
  <2>5. \A t \in WorldSessions : Idle(t)' <=> Idle(t)
    BY <2>1 DEF Idle
  <2> QED
    BY <1>2, <1>3, <1>4, <2>1, <2>3, <2>4, <2>5
<1>8. ASSUME NEW s \in WorldSessions, HandleMoveWorldportAckOpcode(s)
      PROVE  PlayerInv'
  <2>1. /\ player[s] \in Characters
        /\ inWorld' = [inWorld EXCEPT ![player[s]] = TRUE]
        /\ UNCHANGED <<object, player, owner, m_playerLoading, addSessQueue,
                       m_inQueue>>
    BY <1>1, <1>8 DEF HandleMoveWorldportAckOpcode, objects, admission,
       CharacterTypes
  <2>2. owner[player[s]] # NoSession
    BY <1>2, <2>1 DEF PlayerAndSessionAgree
  <2>3. PlayerAndSessionAgree'
    BY <1>1, <1>2, <2>1, <2>2 DEF PlayerAndSessionAgree, CharacterTypes
  <2>4. \A t \in WorldSessions : (fresh(t)' <=> fresh(t)) /\ (Idle(t)' <=> Idle(t))
    BY <2>1 DEF fresh, Waits, Elements, Idle
  <2> QED
    BY <1>2, <1>3, <2>3, <2>4
<1>9. ASSUME NEW s \in WorldSessions, NEW c \in Characters,
             HandlePlayerLoginOpcode(s, c)
      PROVE  PlayerInv'
  <2>1. /\ Visiting(s) /\ s \notin m_inQueue
        /\ m_playerLoading' = [m_playerLoading EXCEPT ![s] = TRUE]
        /\ UNCHANGED <<object, player, owner, inWorld, addSessQueue, m_inQueue>>
    BY <1>9 DEF HandlePlayerLoginOpcode, objects, admission, characters
  <2>2. Mapped(s)
    BY <1>1, <2>1, InMapIsMapped DEF Held, VisitInv, Visiting
  <2>3. ~fresh(s)
    BY <2>1, <2>2 DEF fresh, Held, EverySessionHeld
  <2>4. \A t \in WorldSessions :
          (fresh(t)' <=> fresh(t)) /\ (t # s => (Idle(t)' <=> Idle(t)))
    BY <1>1, <2>1 DEF fresh, Waits, Elements, Idle, LoadingType
  <2> QED
    BY <1>2, <1>3, <1>4, <2>1, <2>3, <2>4
<1>10. ASSUME NEW s \in WorldSessions, RemoveFromMap(s),
              UNCHANGED m_playerLoading
       PROVE  PlayerInv'
  <2>1. /\ LogoutPlayer(s) /\ object' = [object EXCEPT ![s] = "deleted"]
        /\ UNCHANGED addSessQueue /\ m_inQueue' \subseteq m_inQueue
    BY <1>10 DEF RemoveFromMap, Delete
  <2>2. \A t \in WorldSessions : fresh(t)' => fresh(t)
    BY <1>1, <2>1 DEF fresh, Waits, Elements, ObjectTypes
  <2> QED
    BY <1>6, <1>10, <2>1, <2>2
<1>11. ASSUME NEW s \in WorldSessions, LoseClient(s) PROVE PlayerInv'
  <2>1. CASE MayLinger(s)
    BY <1>5, <1>11, <2>1 DEF LoseClient, ForcePlayerLogoutDelay
  <2>2. CASE ~MayLinger(s)
    BY <1>10, <1>11, <2>2 DEF LoseClient
  <2> QED
    BY <2>1, <2>2
<1>12. ASSUME NEW s \in WorldSessions, CharacterScreenIdleKick(s)
       PROVE  PlayerInv'
  BY <1>10, <1>12 DEF CharacterScreenIdleKick
<1>13. ASSUME NEW s \in WorldSessions, UpdateConnected(s) PROVE PlayerInv'
  <2>1. UNCHANGED <<object, addSessQueue, m_inQueue, m_playerLoading>>
    BY <1>13 DEF UpdateConnected, objects, admission
  <2>2. CASE LogoutPlayer(s)
    <3>1. \A t \in WorldSessions : fresh(t)' => fresh(t)
      BY <2>1 DEF fresh, Waits, Elements
    <3> QED
      BY <1>6, <2>1, <2>2, <3>1
  <2>3. CASE UNCHANGED characters
    BY <1>5, <2>1, <2>3 DEF characters
  <2> QED
    BY <1>13, <2>2, <2>3 DEF UpdateConnected
<1>14. ASSUME NEW s \in WorldSessions, UpdateDisconnected(s) PROVE PlayerInv'
  <2>1. CASE UNCHANGED <<objects, admission, characters>>
    BY <1>5, <1>14, <2>1 DEF UpdateDisconnected, objects, admission, characters
  <2>2. CASE Delete(s) /\ UNCHANGED <<addSessQueue, m_inQueue>>
    <3>1. \A t \in WorldSessions : fresh(t)' => fresh(t)
      BY <1>1, <2>2 DEF Delete, fresh, Waits, Elements, ObjectTypes
    <3> QED
      BY <1>6, <1>14, <2>2, <3>1 DEF UpdateDisconnected, Delete
  <2> QED
    BY <1>14, <2>1, <2>2 DEF UpdateDisconnected
<1>15. CASE RefuseSession
  <2> DEFINE s == Head(addSessQueue)
  <2>1. /\ s \in WorldSessions
        /\ Elements(addSessQueue') \subseteq Elements(addSessQueue)
    BY <1>1, <1>15, TailElements DEF RefuseSession, AdmissionTypes
  <2>2. /\ Delete(s) /\ UNCHANGED <<m_inQueue, m_playerLoading>>
    BY <1>15 DEF RefuseSession
  <2> HIDE DEF s
  <2>3. \A t \in WorldSessions : fresh(t)' => fresh(t)
    BY <1>1, <2>1, <2>2 DEF Delete, fresh, Waits, ObjectTypes
  <2> QED
    BY <1>6, <2>1, <2>2, <2>3 DEF Delete
<1>16. CASE AddFirstSession \/ ReplaceSession
  <2> DEFINE s == Head(addSessQueue)
  <2> DEFINE old == m_sessions[AccountOf[s]]
  <2>1. /\ s \in WorldSessions /\ s \in Elements(addSessQueue)
        /\ Elements(addSessQueue') \subseteq Elements(addSessQueue)
    <3>1. addSessQueue # <<>> /\ addSessQueue' = Tail(addSessQueue)
      BY <1>16 DEF AddFirstSession, ReplaceSession
    <3>2. addSessQueue \in Seq(WorldSessions)
      BY <1>1 DEF AdmissionTypes
    <3> QED
      BY <3>1, <3>2, TailElements
  <2>2. m_inQueue' \subseteq m_inQueue \cup {s} /\ UNCHANGED m_playerLoading
    BY <1>16 DEF AddFirstSession, ReplaceSession, Admit
  <2>3. \/ UNCHANGED <<object, characters>>
        \/ /\ old \in WorldSessions
           /\ \/ Delete(old)
              \/ UNCHANGED <<object, player, owner, inWorld>>
    BY <1>1, <1>16, <2>1 DEF AddFirstSession, ReplaceSession, objects,
       ForcePlayerLogoutDelay, AdmissionTypes
  <2> HIDE DEF s, old
  <2>4. \A t \in WorldSessions : object'[t] = "new" => object[t] = "new"
    BY <1>1, <2>3 DEF Delete, ObjectTypes
  <2>5. \A t \in WorldSessions : fresh(t)' => fresh(t)
    BY <2>1, <2>2, <2>4 DEF fresh, Waits
  <2>6. CASE UNCHANGED <<object, player, owner, inWorld>>
    <3>1. PlayerAndSessionAgree'
      BY <1>4, <2>6
    <3>2. \A t \in WorldSessions : Idle(t)' <=> Idle(t)
      BY <2>2, <2>6 DEF Idle
    <3> QED
      BY <1>2, <1>3, <2>5, <3>1, <3>2
  <2>7. CASE old \in WorldSessions /\ Delete(old)
    BY <1>6, <2>2, <2>5, <2>7 DEF Delete
  <2> QED
    BY <2>3, <2>6, <2>7 DEF characters
<1>17. CASE BeginUpdate
  <2>1. /\ m_inQueue' \subseteq m_inQueue
        /\ UNCHANGED <<object, player, owner, inWorld, m_playerLoading,
                       addSessQueue>>
    BY <1>17 DEF BeginUpdate, UpdateLimit, objects, characters
  <2>2. \A t \in WorldSessions : (fresh(t)' => fresh(t)) /\ (Idle(t)' <=> Idle(t))
    BY <2>1 DEF fresh, Waits, Elements, Idle
  <2> QED
    BY <1>2, <1>3, <1>4, <2>1, <2>2
<1>18. CASE HandlePlayerLoginCallback
  <2> DEFINE r == Head(results)
  <2> DEFINE s == m_sessions[r.account]
  <2>1. r \in LoadResults
    BY <1>1, <1>18, TailOf DEF HandlePlayerLoginCallback, DatabaseTypes
  <2>2. /\ r.account \in Accounts /\ r.character \in Characters
        /\ s \in WorldSessions \cup {NoSession}
    BY <1>1, <2>1 DEF LoadResults, AdmissionTypes
  <2>3. UNCHANGED <<object, addSessQueue, m_inQueue>>
    BY <1>18 DEF HandlePlayerLoginCallback, admission
  <2>4. AwaitsLogin(s) => s \in WorldSessions /\ object[s] = "live" /\ ~fresh(s)
    <3> SUFFICES ASSUME AwaitsLogin(s)
                 PROVE  s \in WorldSessions /\ object[s] = "live" /\ ~fresh(s)
      OBVIOUS
    <3>1. s \in WorldSessions /\ m_playerLoading[s]
      BY <2>2 DEF AwaitsLogin
    <3>2. Mapped(s)
      BY <2>2, <3>1 DEF Held, EverySessionHeld, Mapped
    <3>3. object[s] = "live"
      BY <3>1, <3>2 DEF Held, EverySessionHeld
    <3>4. ~fresh(s)
      BY <1>2, <3>1 DEF Idle
    <3> QED
      BY <3>1, <3>3, <3>4
  <2>5. \A t \in WorldSessions : fresh(t)' <=> fresh(t)
    BY <2>3 DEF fresh, Waits, Elements
  <2>6. \/ DropHolder(s)
        \/ AwaitsLogin(s) /\ RefuseLogin(s, r.character)
        \/ AwaitsLogin(s) /\ TakeOver(s, r.character)
        \/ AwaitsLogin(s) /\ LoadFromDB(s, r.character, r.version)
    BY <1>18 DEF HandlePlayerLoginCallback
  <2>7. PICK c \in Characters : c = r.character
    BY <2>2
  <2> HIDE DEF r, s
  <2>8. CASE DropHolder(s) \/ (AwaitsLogin(s) /\ RefuseLogin(s, c))
    <3>1. UNCHANGED <<player, owner, inWorld>>
      BY <2>8 DEF DropHolder, RefuseLogin, characters
    <3>2. \A t \in WorldSessions : Idle(t) => Idle(t)'
      BY <1>1, <2>2, <2>8, <3>1 DEF DropHolder, RefuseLogin, Idle, LoadingType
    <3> QED
      BY <1>2, <1>3, <1>4, <2>3, <2>5, <3>1, <3>2
  <2>9. CASE AwaitsLogin(s) /\ TakeOver(s, c)
    <3> DEFINE old == owner[c]
    <3>1. /\ old \in WorldSessions /\ player[old] = c /\ old # s
          /\ player[s] = NoCharacter /\ s \in WorldSessions
      BY <1>1, <1>2, <2>2, <2>9 DEF TakeOver, AwaitsLogin, CharacterTypes,
         PlayerAndSessionAgree
    <3>2. /\ \A t \in WorldSessions :
               player'[t] = IF t = s THEN c
                            ELSE IF t = old THEN NoCharacter ELSE player[t]
          /\ \A d \in Characters :
               owner'[d] = IF d = c THEN s ELSE owner[d]
          /\ UNCHANGED inWorld
          /\ \A t \in WorldSessions : t # s =>
               m_playerLoading'[t] = m_playerLoading[t]
      BY <1>1, <2>9, <3>1 DEF TakeOver, CharacterTypes, LoadingType
    <3> HIDE DEF old
    <3>3. \A t \in WorldSessions : player[t] # NoCharacter =>
            player[t] \in Characters /\ owner[player[t]] = t
      BY <1>1, <1>2 DEF CharacterTypes, PlayerAndSessionAgree
    <3>4. \A t \in WorldSessions : player'[t] # NoCharacter =>
            owner'[player'[t]] = t
      BY <3>1, <3>2, <3>3 DEF old
    <3>5. \A d \in Characters : owner[d] # NoSession =>
            /\ owner[d] \in WorldSessions
            /\ player[owner[d]] = d /\ object[owner[d]] = "live"
      BY <1>1, <1>2 DEF CharacterTypes, PlayerAndSessionAgree
    <3>6. \A d \in Characters : owner'[d] # NoSession =>
            player'[owner'[d]] = d /\ object'[owner'[d]] = "live"
      BY <2>3, <2>4, <2>9, <3>1, <3>2, <3>5
    <3>7. PlayerAndSessionAgree'
      BY <1>2, <3>1, <3>2, <3>4, <3>6 DEF PlayerAndSessionAgree
    <3>8. \A t \in WorldSessions : t # s => (Idle(t) => Idle(t)')
      BY <3>2 DEF Idle
    <3> QED
      BY <1>2, <1>3, <2>4, <2>5, <2>9, <3>7, <3>8
  <2>10. CASE AwaitsLogin(s) /\ LoadFromDB(s, c, r.version)
    <3>1. /\ s \in WorldSessions /\ player[s] = NoCharacter
          /\ owner[c] = NoSession
      BY <2>2, <2>10 DEF LoadFromDB, AwaitsLogin
    <3>2. /\ \A t \in WorldSessions :
               player'[t] = IF t = s THEN c ELSE player[t]
          /\ \A d \in Characters :
               owner'[d] = IF d = c THEN s ELSE owner[d]
          /\ \A t \in WorldSessions : t # s =>
               m_playerLoading'[t] = m_playerLoading[t]
      BY <1>1, <2>10, <3>1 DEF LoadFromDB, CharacterTypes, LoadingType
    <3>3. \A t \in WorldSessions : player[t] # NoCharacter =>
            player[t] \in Characters /\ owner[player[t]] = t
      BY <1>1, <1>2 DEF CharacterTypes, PlayerAndSessionAgree
    <3>4. \A t \in WorldSessions : player'[t] # NoCharacter =>
            owner'[player'[t]] = t
      BY <3>1, <3>2, <3>3
    <3>5. \A d \in Characters : owner[d] # NoSession =>
            /\ owner[d] \in WorldSessions
            /\ player[owner[d]] = d /\ object[owner[d]] = "live"
      BY <1>1, <1>2 DEF CharacterTypes, PlayerAndSessionAgree
    <3>6. \A d \in Characters : owner'[d] # NoSession =>
            player'[owner'[d]] = d /\ object'[owner'[d]] = "live"
      BY <2>3, <2>4, <2>10, <3>1, <3>2, <3>5
    <3>9. \A d \in Characters : inWorld'[d] => d = c \/ inWorld[d]
      BY <1>1, <2>10 DEF LoadFromDB, CharacterTypes
    <3>7. PlayerAndSessionAgree'
      BY <1>2, <3>1, <3>2, <3>4, <3>6, <3>9 DEF PlayerAndSessionAgree
    <3>8. \A t \in WorldSessions : t # s => (Idle(t) => Idle(t)')
      BY <3>2 DEF Idle
    <3> QED
      BY <1>2, <1>3, <2>4, <2>5, <2>10, <3>7, <3>8
  <2> QED
    BY <2>6, <2>7, <2>8, <2>9, <2>10
<1>19. CASE EndInbox \/ EndSessions \/ EndUpdate \/ EndMaps \/ EndResults
            \/ StopNow
  BY <1>5, <1>19 DEF EndInbox, EndSessions, EndUpdate, EndMaps, EndResults,
     StopNow, objects, admission, characters
<1>20. CASE KickAll
  BY <1>5, <1>20 DEF KickAll, characters
<1>21. ASSUME NEW s \in WorldSessions, CloseSocket(s) PROVE PlayerInv'
  BY <1>5, <1>21 DEF CloseSocket, admission, characters
<1>22. ASSUME NEW c \in Characters, Play(c) \/ AutoSave(c) \/ ExecuteOperation(c)
       PROVE  PlayerInv'
  BY <1>5, <1>22 DEF Play, AutoSave, ExecuteOperation, objects, admission,
     characters
<1>23. ASSUME NEW c \in Characters, TeleportTo(c) PROVE PlayerInv'
  <2>1. /\ \A d \in Characters : inWorld'[d] => inWorld[d]
        /\ UNCHANGED <<object, player, owner, m_playerLoading, addSessQueue,
                       m_inQueue>>
    BY <1>1, <1>23 DEF TeleportTo, objects, admission, CharacterTypes
  <2>2. PlayerAndSessionAgree'
    BY <1>2, <2>1 DEF PlayerAndSessionAgree
  <2>3. \A t \in WorldSessions : (fresh(t)' <=> fresh(t)) /\ (Idle(t)' <=> Idle(t))
    BY <2>1 DEF fresh, Waits, Elements, Idle
  <2> QED
    BY <1>2, <1>3, <2>2, <2>3
<1>24. CASE UNCHANGED vars
  BY <1>5, <1>24 DEF vars, objects, admission, characters
<1> QED
  BY <1>7, <1>8, <1>9, <1>11, <1>12, <1>13, <1>14, <1>15, <1>16, <1>17, <1>18,
     <1>19, <1>20, <1>21, <1>22, <1>23, <1>24
  DEF Next, WorldNext, SessionNext, CharacterNext

-----------------------------------------------------------------------------
(* What a login will read                                                  *)

IsSave(op) == op.kind = "save"

(* With v0 in the database, a load at position i of the queue q reads v:   *)
(* the last save before it is of v or, with none, v0 is v.                 *)
ReadsAt(q, v0, i, v) ==
  /\ (\A j \in 1 .. i - 1 : ~IsSave(q[j])) => v0 = v
  /\ \A j \in 1 .. i - 1 :
       IsSave(q[j]) /\ (\A k \in j + 1 .. i - 1 : ~IsSave(q[k]))
         => q[j].version = v

(* Every load of the queue will read what it was asked for with, and one   *)
(* that is added would read v.                                             *)
QueueReads(q, v0, v) ==
  /\ ReadsAt(q, v0, Len(q) + 1, v)
  /\ \A i \in DOMAIN q : ~IsSave(q[i]) => ReadsAt(q, v0, i, q[i].version)

SavesInv ==
  /\ \A c \in Characters : QueueReads(pending[c], stored[c], saved[c])
  /\ LoadsWhatWasSaved

(* A save is added: what is there reads what it did, and a load after it   *)
(* would read the version saved.                                           *)
LEMMA AppendSave ==
  ASSUME NEW S, NEW q \in Seq(S), NEW e \in S, IsSave(e), NEW v0, NEW v,
         QueueReads(q, v0, v)
  PROVE  QueueReads(Append(q, e), v0, e.version)
<1> DEFINE r == Append(q, e)
<1> DEFINE n == Len(q)
<1>1. /\ n \in Nat /\ Len(r) = n + 1 /\ DOMAIN q = 1 .. n
      /\ DOMAIN r = 1 .. n + 1 /\ r[n + 1] = e
      /\ \A i \in 1 .. n : r[i] = q[i]
  BY AppendTo
<1> HIDE DEF r
<1>2. \A i \in 1 .. n : ~IsSave(q[i]) => ReadsAt(q, v0, i, q[i].version)
  BY <1>1 DEF QueueReads
<1> HIDE DEF n
<1>3. ReadsAt(r, v0, n + 2, e.version)
  <2>1. n + 1 \in 1 .. (n + 2) - 1 /\ IsSave(r[n + 1])
    BY <1>1
  <2>2. ASSUME NEW j \in 1 .. (n + 2) - 1, IsSave(r[j]),
               \A k \in j + 1 .. (n + 2) - 1 : ~IsSave(r[k])
        PROVE  r[j].version = e.version
    <3>1. j = n + 1
      BY <1>1, <2>1, <2>2
    <3> QED
      BY <1>1, <3>1
  <2> QED
    BY <2>1, <2>2 DEF ReadsAt
<1>4. ASSUME NEW i \in 1 .. n, ~IsSave(q[i])
      PROVE  ReadsAt(r, v0, i, q[i].version)
  <2>1. \A j \in 1 .. i - 1 : r[j] = q[j] /\ j \in Int
    BY <1>1
  <2>2. \A j \in 1 .. i - 1 : \A k \in j + 1 .. i - 1 : k \in 1 .. i - 1
    BY <1>1
  <2>3. ReadsAt(q, v0, i, q[i].version)
    BY <1>2, <1>4
  <2> QED
    BY <2>1, <2>2, <2>3 DEF ReadsAt
<1>5. ASSUME NEW i \in DOMAIN r, ~IsSave(r[i])
      PROVE  ReadsAt(r, v0, i, r[i].version)
  <2>1. i \in 1 .. n /\ r[i] = q[i]
    BY <1>1, <1>5
  <2> QED
    BY <1>4, <1>5, <2>1
<1>6. Len(r) + 1 = n + 2
  BY <1>1
<1> QED
  BY <1>3, <1>5, <1>6 DEF QueueReads, r

(* A load is added that was asked for with v.                              *)
LEMMA AppendLoad ==
  ASSUME NEW S, NEW q \in Seq(S), NEW e \in S, ~IsSave(e), NEW v0,
         QueueReads(q, v0, e.version)
  PROVE  QueueReads(Append(q, e), v0, e.version)
<1> DEFINE r == Append(q, e)
<1> DEFINE n == Len(q)
<1>1. /\ n \in Nat /\ Len(r) = n + 1 /\ DOMAIN q = 1 .. n
      /\ DOMAIN r = 1 .. n + 1 /\ r[n + 1] = e
      /\ \A i \in 1 .. n : r[i] = q[i]
  BY AppendTo
<1> HIDE DEF r
<1>2. /\ ReadsAt(q, v0, n + 1, e.version)
      /\ \A i \in 1 .. n : ~IsSave(q[i]) => ReadsAt(q, v0, i, q[i].version)
  BY <1>1 DEF QueueReads
<1> HIDE DEF n
<1>3. ASSUME NEW i \in 1 .. n + 1, NEW v, ReadsAt(q, v0, i, v)
      PROVE  ReadsAt(r, v0, i, v)
  <2>1. \A j \in 1 .. i - 1 : r[j] = q[j] /\ j \in Int
    BY <1>1
  <2>2. \A j \in 1 .. i - 1 : \A k \in j + 1 .. i - 1 : k \in 1 .. i - 1
    BY <1>1
  <2> QED
    BY <1>3, <2>1, <2>2 DEF ReadsAt
<1>4. ReadsAt(r, v0, n + 1, e.version)
  BY <1>1, <1>2, <1>3
<1>5. ReadsAt(r, v0, n + 2, e.version)
  <2>1. ASSUME \A j \in 1 .. (n + 2) - 1 : ~IsSave(r[j])
        PROVE  v0 = e.version
    <3>1. \A j \in 1 .. (n + 1) - 1 : ~IsSave(r[j])
      BY <1>1, <2>1
    <3> QED
      BY <1>4, <3>1 DEF ReadsAt
  <2>2. ASSUME NEW j \in 1 .. (n + 2) - 1, IsSave(r[j]),
               \A k \in j + 1 .. (n + 2) - 1 : ~IsSave(r[k])
        PROVE  r[j].version = e.version
    <3>1. j \in 1 .. (n + 1) - 1
      BY <1>1, <2>2
    <3>2. \A k \in j + 1 .. (n + 1) - 1 : ~IsSave(r[k])
      BY <1>1, <2>2
    <3> QED
      BY <1>4, <2>2, <3>1, <3>2 DEF ReadsAt
  <2> QED
    BY <2>1, <2>2 DEF ReadsAt
<1>6. ASSUME NEW i \in DOMAIN r, ~IsSave(r[i])
      PROVE  ReadsAt(r, v0, i, r[i].version)
  <2>1. CASE i = n + 1
    BY <1>1, <1>4, <2>1
  <2>2. CASE i # n + 1
    <3>1. i \in 1 .. n /\ i \in 1 .. n + 1 /\ r[i] = q[i]
      BY <1>1, <2>2
    <3> QED
      BY <1>2, <1>3, <1>6, <3>1
  <2> QED
    BY <2>1, <2>2
<1>7. Len(r) + 1 = n + 2
  BY <1>1
<1> QED
  BY <1>5, <1>6, <1>7 DEF QueueReads, r

(* The first operation is executed.                                        *)
LEMMA ExecuteFirst ==
  ASSUME NEW S, NEW q \in Seq(S), q # <<>>, NEW v0, NEW v,
         QueueReads(q, v0, v)
  PROVE  /\ IsSave(Head(q)) => QueueReads(Tail(q), Head(q).version, v)
         /\ ~IsSave(Head(q)) => /\ QueueReads(Tail(q), v0, v)
                                /\ v0 = Head(q).version
<1> DEFINE r == Tail(q)
<1> DEFINE n == Len(q)
<1> DEFINE h == Head(q)
<1> DEFINE w == IF IsSave(h) THEN h.version ELSE v0
<1>1. /\ n \in Nat \ {0} /\ DOMAIN q = 1 .. n /\ h = q[1]
      /\ DOMAIN r = 1 .. n - 1 /\ Len(r) = n - 1
      /\ \A i \in 1 .. n - 1 : r[i] = q[i + 1]
  BY TailOf
<1> HIDE DEF r, h
<1>2. /\ ReadsAt(q, v0, n + 1, v)
      /\ \A i \in 1 .. n : ~IsSave(q[i]) => ReadsAt(q, v0, i, q[i].version)
  BY <1>1 DEF QueueReads
<1> HIDE DEF n
<1>3. ASSUME NEW i \in 1 .. n, NEW x, ReadsAt(q, v0, i + 1, x)
      PROVE  ReadsAt(r, w, i, x)
  <2>1. \A j \in 1 .. i - 1 : r[j] = q[j + 1] /\ j + 1 \in 1 .. (i + 1) - 1
    BY <1>1
  <2>2. \A j \in 1 .. (i + 1) - 1 : j = 1 \/ (j - 1 \in 1 .. i - 1 /\ r[j - 1] = q[j])
    BY <1>1
  <2>3. 1 \in 1 .. (i + 1) - 1
    BY <1>1
  <2>4. ASSUME \A j \in 1 .. i - 1 : ~IsSave(r[j])
        PROVE  w = x
    <3>1. \A j \in 1 .. (i + 1) - 1 : j = 1 \/ ~IsSave(q[j])
      BY <2>2, <2>4
    <3>2. CASE IsSave(h)
      <4>1. \A k \in 1 + 1 .. (i + 1) - 1 : ~IsSave(q[k])
        BY <1>1, <3>1
      <4> QED
        BY <1>1, <1>3, <2>3, <3>2, <4>1 DEF ReadsAt
    <3>3. CASE ~IsSave(h)
      BY <1>1, <1>3, <3>1, <3>3 DEF ReadsAt
    <3> QED
      BY <3>2, <3>3
  <2>5. ASSUME NEW j \in 1 .. i - 1, IsSave(r[j]),
               \A k \in j + 1 .. i - 1 : ~IsSave(r[k])
        PROVE  r[j].version = x
    <3>1. \A k \in (j + 1) + 1 .. (i + 1) - 1 : ~IsSave(q[k])
      <4> TAKE k \in (j + 1) + 1 .. (i + 1) - 1
      <4>1. k - 1 \in j + 1 .. i - 1 /\ k \in 1 .. (i + 1) - 1 /\ k # 1
        BY <1>1
      <4> QED
        BY <2>2, <2>5, <4>1
    <3> QED
      BY <1>3, <2>1, <2>5, <3>1 DEF ReadsAt
  <2> QED
    BY <2>4, <2>5 DEF ReadsAt
<1>4. ~IsSave(h) => v0 = h.version
  <2>1. 1 \in 1 .. n /\ 1 .. 1 - 1 = {}
    BY <1>1
  <2> QED
    BY <1>1, <1>2, <2>1 DEF ReadsAt
<1>5. QueueReads(r, w, v)
  <2>1. n \in 1 .. n /\ Len(r) + 1 = n
    BY <1>1
  <2>2. ReadsAt(r, w, Len(r) + 1, v)
    BY <1>2, <1>3, <2>1
  <2>3. ASSUME NEW i \in DOMAIN r, ~IsSave(r[i])
        PROVE  ReadsAt(r, w, i, r[i].version)
    <3>1. i \in 1 .. n /\ i + 1 \in 1 .. n /\ r[i] = q[i + 1]
      BY <1>1
    <3> QED
      BY <1>2, <1>3, <2>3, <3>1
  <2> QED
    BY <2>2, <2>3 DEF QueueReads
<1> QED
  BY <1>4, <1>5 DEF r, h

LEMMA SaveKeeps ==
  ASSUME TypeOK, SavesInv, NEW c \in Characters, SaveToDB(c)
  PROVE  SavesInv'
<1>1. CharacterTypes /\ DatabaseTypes
  BY TypeParts
<1> DEFINE op == SaveOperation(memory[c])
<1>2. op \in Operations /\ IsSave(op) /\ op.version = memory[c]
  BY <1>1 DEF CharacterTypes, SaveOperation, Operations, IsSave
<1>3. /\ pending' = [pending EXCEPT ![c] = Append(pending[c], op)]
      /\ saved' = [saved EXCEPT ![c] = memory[c]]
      /\ UNCHANGED <<stored, results>>
  BY DEF SaveToDB, Delay
<1> HIDE DEF op
<1>4. pending[c] \in Seq(Operations)
  BY <1>1 DEF DatabaseTypes
<1>5. QueueReads(pending[c], stored[c], saved[c])
  BY DEF SavesInv
<1>6. QueueReads(Append(pending[c], op), stored[c], memory[c])
  BY <1>2, <1>4, <1>5, AppendSave
<1>7. ASSUME NEW d \in Characters
      PROVE  QueueReads(pending'[d], stored'[d], saved'[d])
  <2>1. CASE d = c
    <3>1. /\ pending'[d] = Append(pending[c], op)
          /\ stored'[d] = stored[c] /\ saved'[d] = memory[c]
      BY <1>1, <1>3, <2>1 DEF DatabaseTypes, CharacterTypes
    <3> QED
      BY <1>6, <3>1
  <2>2. CASE d # c
    <3>1. /\ pending'[d] = pending[d]
          /\ stored'[d] = stored[d] /\ saved'[d] = saved[d]
      BY <1>1, <1>3, <2>2 DEF DatabaseTypes, CharacterTypes
    <3> QED
      BY <3>1 DEF SavesInv
  <2> QED
    BY <2>1, <2>2
<1> QED
  BY <1>3, <1>7 DEF SavesInv, LoadsWhatWasSaved

LEMMA LogoutKeepsSaves ==
  ASSUME TypeOK, SavesInv, NEW s \in WorldSessions, LogoutPlayer(s)
  PROVE  SavesInv'
<1>1. CASE player[s] = NoCharacter
  BY <1>1 DEF LogoutPlayer, characters, database, SavesInv, LoadsWhatWasSaved
<1>2. CASE player[s] # NoCharacter
  <2>1. player[s] \in Characters /\ SaveToDB(player[s])
    BY <1>2 DEF LogoutPlayer, TypeOK
  <2> QED
    BY <2>1, SaveKeeps
<1> QED
  BY <1>1, <1>2

LEMMA SavesStep ==
  ASSUME TypeOK, SavesInv, [Next]_vars
  PROVE  SavesInv'
<1>1. CharacterTypes /\ DatabaseTypes /\ AdmissionTypes
  BY TypeParts
<1>2. ASSUME UNCHANGED <<pending, stored, saved, results>> PROVE SavesInv'
  BY <1>2 DEF SavesInv, LoadsWhatWasSaved
<1>3. ASSUME NEW s \in WorldSessions, Delete(s) PROVE SavesInv'
  BY <1>3, LogoutKeepsSaves DEF Delete
<1>4. ASSUME NEW s \in WorldSessions, MayLinger(s), ForcePlayerLogoutDelay(s)
      PROVE  SavesInv'
  <2>1. player[s] \in Characters
    BY <1>1, <1>4 DEF MayLinger, CharacterTypes
  <2> QED
    BY <1>4, <2>1, SaveKeeps DEF ForcePlayerLogoutDelay
<1>5. ASSUME NEW s \in WorldSessions, NEW c \in Characters,
             HandlePlayerLoginOpcode(s, c)
      PROVE  SavesInv'
  <2> DEFINE op == LoginQueryHolder(AccountOf[s], saved[c])
  <2>1. op \in Operations /\ ~IsSave(op) /\ op.version = saved[c]
    BY <1>1, SessionsAssumption
    DEF CharacterTypes, LoginQueryHolder, Operations, IsSave
  <2>2. /\ pending' = [pending EXCEPT ![c] = Append(pending[c], op)]
        /\ UNCHANGED <<saved, stored, results>>
    BY <1>5 DEF HandlePlayerLoginOpcode, Delay, characters
  <2> HIDE DEF op
  <2>3. pending[c] \in Seq(Operations)
    BY <1>1 DEF DatabaseTypes
  <2>4. QueueReads(pending[c], stored[c], op.version)
    BY <2>1 DEF SavesInv
  <2>5. QueueReads(Append(pending[c], op), stored[c], op.version)
    BY <2>1, <2>3, <2>4, AppendLoad
  <2>6. ASSUME NEW d \in Characters
        PROVE  QueueReads(pending'[d], stored'[d], saved'[d])
    <3>1. CASE d = c
      <4>1. pending'[d] = Append(pending[c], op) /\ stored'[d] = stored[c]
            /\ saved'[d] = op.version
        BY <1>1, <2>1, <2>2, <3>1 DEF DatabaseTypes
      <4> QED
        BY <2>5, <4>1
    <3>2. CASE d # c
      <4>1. pending'[d] = pending[d] /\ stored'[d] = stored[d]
            /\ saved'[d] = saved[d]
        BY <1>1, <2>2, <3>2 DEF DatabaseTypes
      <4> QED
        BY <4>1 DEF SavesInv
    <3> QED
      BY <3>1, <3>2
  <2> QED
    BY <2>2, <2>6 DEF SavesInv, LoadsWhatWasSaved
<1>6. ASSUME NEW c \in Characters, ExecuteOperation(c) PROVE SavesInv'
  <2> DEFINE op == Head(pending[c])
  <2> DEFINE r == [account |-> op.account, character |-> c,
                   version |-> stored[c], asked |-> op.version]
  <2>1. pending[c] \in Seq(Operations) /\ pending[c] # <<>>
    BY <1>1, <1>6 DEF ExecuteOperation, DatabaseTypes
  <2>2. QueueReads(pending[c], stored[c], saved[c])
    BY DEF SavesInv
  <2>3. /\ IsSave(op) => QueueReads(Tail(pending[c]), op.version, saved[c])
        /\ ~IsSave(op) => /\ QueueReads(Tail(pending[c]), stored[c], saved[c])
                          /\ stored[c] = op.version
    BY <2>1, <2>2, ExecuteFirst
  <2>4. /\ pending' = [pending EXCEPT ![c] = Tail(pending[c])]
        /\ UNCHANGED saved
        /\ IsSave(op) => /\ stored' = [stored EXCEPT ![c] = op.version]
                         /\ UNCHANGED results
        /\ ~IsSave(op) => results' = Append(results, r) /\ UNCHANGED stored
    BY <1>6 DEF ExecuteOperation, characters, IsSave
  <2>5. r.version = stored[c] /\ r.asked = op.version
    OBVIOUS
  <2>6. ~IsSave(op) => r \in LoadResults
    <3>1. op \in Operations
      BY <2>1, TailOf
    <3> QED
      BY <1>1, <3>1 DEF Operations, IsSave, LoadResults, DatabaseTypes
  <2> HIDE DEF op, r
  <2>7. QueueReads(pending'[c], stored'[c], saved'[c])
    <3>1. pending'[c] = Tail(pending[c]) /\ saved'[c] = saved[c]
          /\ stored'[c] = IF IsSave(op) THEN op.version ELSE stored[c]
      BY <1>1, <2>4 DEF DatabaseTypes
    <3> QED
      BY <2>3, <3>1
  <2>8. ASSUME NEW d \in Characters, d # c
        PROVE  QueueReads(pending'[d], stored'[d], saved'[d])
    <3>1. pending'[d] = pending[d] /\ stored'[d] = stored[d]
          /\ saved'[d] = saved[d]
      BY <1>1, <2>4, <2>8 DEF DatabaseTypes
    <3> QED
      BY <3>1 DEF SavesInv
  <2>9. LoadsWhatWasSaved'
    <3>1. CASE IsSave(op)
      BY <2>4, <3>1 DEF SavesInv, LoadsWhatWasSaved
    <3>2. CASE ~IsSave(op)
      <4>1. /\ Len(results) \in Nat /\ DOMAIN results = 1 .. Len(results)
            /\ DOMAIN results' = 1 .. Len(results) + 1
            /\ results'[Len(results) + 1] = r
            /\ \A i \in DOMAIN results : results'[i] = results[i]
        <5>1. results \in Seq(LoadResults) /\ r \in LoadResults
              /\ results' = Append(results, r)
          BY <1>1, <2>4, <2>6, <3>2 DEF DatabaseTypes
        <5> QED
          BY <5>1, AppendTo
      <4>2. r.version = r.asked
        BY <2>3, <2>5, <3>2
      <4> QED
        BY <4>1, <4>2 DEF SavesInv, LoadsWhatWasSaved
    <3> QED
      BY <3>1, <3>2
  <2> QED
    BY <2>7, <2>8, <2>9 DEF SavesInv
<1>7. CASE HandlePlayerLoginCallback
  <2>1. /\ results # <<>> /\ results' = Tail(results)
        /\ UNCHANGED <<pending, stored, saved>>
    BY <1>7 DEF HandlePlayerLoginCallback, DropHolder, RefuseLogin, TakeOver,
       LoadFromDB, characters
  <2>2. \A i \in DOMAIN results' :
          i + 1 \in DOMAIN results /\ results'[i] = results[i + 1]
    BY <1>1, <2>1, TailOf DEF DatabaseTypes
  <2>3. LoadsWhatWasSaved'
    BY <2>2 DEF SavesInv, LoadsWhatWasSaved
  <2> QED
    BY <2>1, <2>3 DEF SavesInv
<1>8. CASE RefuseSession
  <2>1. Head(addSessQueue) \in WorldSessions
    BY <1>1, <1>8, TailOf DEF RefuseSession, AdmissionTypes
  <2> QED
    BY <1>3, <1>8, <2>1 DEF RefuseSession
<1>9. CASE AddFirstSession
  BY <1>2, <1>9 DEF AddFirstSession, characters, database
<1>10. CASE ReplaceSession
  <2> DEFINE old == m_sessions[AccountOf[Head(addSessQueue)]]
  <2>1. Head(addSessQueue) \in WorldSessions
    BY <1>1, <1>10, TailOf DEF ReplaceSession, AdmissionTypes
  <2>2. old \in WorldSessions
    BY <1>1, <1>10, <2>1, SessionsAssumption DEF ReplaceSession, AdmissionTypes
  <2>3. (MayLinger(old) /\ ForcePlayerLogoutDelay(old)) \/ Delete(old)
    BY <1>10 DEF ReplaceSession
  <2> HIDE DEF old
  <2> QED
    BY <1>3, <1>4, <2>2, <2>3
<1>11. ASSUME NEW s \in WorldSessions, LoseClient(s) PROVE SavesInv'
  BY <1>3, <1>4, <1>11 DEF LoseClient, RemoveFromMap
<1>12. ASSUME NEW s \in WorldSessions,
              CharacterScreenIdleKick(s) \/ UpdateDisconnected(s)
       PROVE  SavesInv'
  BY <1>2, <1>3, <1>12 DEF CharacterScreenIdleKick, RemoveFromMap,
     UpdateDisconnected, characters, database
<1>13. ASSUME NEW s \in WorldSessions, UpdateConnected(s) PROVE SavesInv'
  BY <1>2, <1>13, LogoutKeepsSaves DEF UpdateConnected, characters, database
<1>14. ASSUME NEW c \in Characters, AutoSave(c) PROVE SavesInv'
  BY <1>14, SaveKeeps DEF AutoSave
<1>15. ASSUME NEW c \in Characters, Play(c) \/ TeleportTo(c) PROVE SavesInv'
  BY <1>2, <1>15 DEF Play, TeleportTo, database
<1>16. ASSUME NEW s \in WorldSessions,
              \/ AddSession(s) \/ CloseSocket(s)
              \/ HandleMoveWorldportAckOpcode(s)
       PROVE  SavesInv'
  BY <1>2, <1>16 DEF AddSession, CloseSocket, HandleMoveWorldportAckOpcode,
     characters, database
<1>17. CASE \/ BeginUpdate \/ EndInbox \/ EndSessions \/ EndUpdate \/ EndMaps
            \/ EndResults \/ StopNow \/ KickAll
  BY <1>2, <1>17 DEF BeginUpdate, EndInbox, EndSessions, EndUpdate, EndMaps,
     EndResults, StopNow, KickAll, characters, database
<1>18. CASE UNCHANGED vars
  BY <1>2, <1>18 DEF vars, characters, database
<1> QED
  BY <1>5, <1>6, <1>7, <1>8, <1>9, <1>10, <1>11, <1>12, <1>13, <1>14, <1>15,
     <1>16, <1>17, <1>18
  DEF Next, WorldNext, SessionNext, CharacterNext

-----------------------------------------------------------------------------
(* What a session waits for is under way                                   *)

Coming(a) ==
  \/ \E i \in DOMAIN results : results[i].account = a
  \/ \E c \in Characters : \E i \in DOMAIN pending[c] :
       pending[c][i].kind = "load" /\ pending[c][i].account = a

LoadingIn(a) ==
  m_sessions[a] # NoSession /\ m_playerLoading[m_sessions[a]]

(* Nothing leaves the queues of the database.                              *)
DatabaseGrows ==
  /\ UNCHANGED results
  /\ \A c \in Characters : \A i \in DOMAIN pending[c] :
       i \in DOMAIN pending'[c] /\ pending'[c][i] = pending[c][i]

LEMMA ComingStays ==
  ASSUME DatabaseGrows, NEW a, Coming(a)
  PROVE  Coming(a)'
  BY DEF DatabaseGrows, Coming

LEMMA DelayGrows ==
  ASSUME DatabaseTypes, NEW c \in Characters, NEW op \in Operations,
         Delay(c, op), UNCHANGED results
  PROVE  DatabaseGrows /\ pending'[c] = Append(pending[c], op)
<1>1. /\ pending' = [pending EXCEPT ![c] = Append(pending[c], op)]
      /\ pending[c] \in Seq(Operations)
  BY DEF Delay, DatabaseTypes
<1>2. /\ pending'[c] = Append(pending[c], op)
      /\ \A d \in Characters : d # c => pending'[d] = pending[d]
  BY <1>1 DEF DatabaseTypes
<1>3. \A i \in DOMAIN pending[c] :
        /\ i \in DOMAIN Append(pending[c], op)
        /\ Append(pending[c], op)[i] = pending[c][i]
  BY <1>1, AppendTo
<1> QED
  BY <1>2, <1>3 DEF DatabaseGrows

LEMMA SaveGrows ==
  ASSUME CharacterTypes, DatabaseTypes, NEW c \in Characters, SaveToDB(c)
  PROVE  DatabaseGrows
<1>1. SaveOperation(memory[c]) \in Operations
  BY DEF CharacterTypes, SaveOperation, Operations
<1> QED
  BY <1>1, DelayGrows DEF SaveToDB

LEMMA LogoutGrows ==
  ASSUME CharacterTypes, DatabaseTypes, NEW s \in WorldSessions,
         LogoutPlayer(s)
  PROVE  DatabaseGrows
<1>1. CASE player[s] = NoCharacter
  BY <1>1 DEF LogoutPlayer, database, DatabaseGrows
<1>2. CASE player[s] # NoCharacter
  BY <1>2, SaveGrows DEF LogoutPlayer, CharacterTypes
<1> QED
  BY <1>1, <1>2

LEMMA LoadingStep ==
  ASSUME TypeOK, Held, PlayerInv, LoadingIsUnderWay, [Next]_vars
  PROVE  LoadingIsUnderWay'
<1> USE SessionsAssumption
<1>1. /\ AdmissionTypes /\ CharacterTypes /\ DatabaseTypes /\ LoadingType
      /\ EverySessionHeld
  BY TypeParts DEF Held
<1>2. \A a \in Accounts : LoadingIn(a) => Coming(a)
  BY DEF LoadingIsUnderWay, LoadingIn, Coming
<1>3. ASSUME \A a \in Accounts : LoadingIn(a)' => Coming(a)'
      PROVE  LoadingIsUnderWay'
  BY <1>3 DEF LoadingIsUnderWay, LoadingIn, Coming
<1>4. ASSUME DatabaseGrows,
             \A a \in Accounts : LoadingIn(a)' => LoadingIn(a)
      PROVE  LoadingIsUnderWay'
  BY <1>2, <1>3, <1>4, ComingStays
(* Nobody begins to load: sessions leave the map or are admitted fresh.    *)
<1>5. ASSUME DatabaseGrows, UNCHANGED m_playerLoading,
             \A a \in Accounts :
               \/ m_sessions'[a] \in {m_sessions[a], NoSession}
               \/ ~m_playerLoading[m_sessions'[a]]
      PROVE  LoadingIsUnderWay'
  BY <1>4, <1>5 DEF LoadingIn
<1>6. ASSUME UNCHANGED database PROVE DatabaseGrows
  BY <1>6 DEF database, DatabaseGrows
<1>7. ASSUME NEW s \in WorldSessions, Delete(s) PROVE DatabaseGrows
  BY <1>1, <1>7, LogoutGrows DEF Delete
<1>8. ASSUME NEW s \in WorldSessions, MayLinger(s), ForcePlayerLogoutDelay(s)
      PROVE  DatabaseGrows
  BY <1>1, <1>8, SaveGrows DEF MayLinger, ForcePlayerLogoutDelay, CharacterTypes
<1>9. ASSUME addSessQueue # <<>>
      PROVE  /\ Head(addSessQueue) \in WorldSessions
             /\ ~m_playerLoading[Head(addSessQueue)]
  <2>1. /\ Head(addSessQueue) \in WorldSessions
        /\ Head(addSessQueue) \in Elements(addSessQueue)
    BY <1>1, <1>9, TailElements DEF AdmissionTypes
  <2> QED
    BY <2>1 DEF PlayerInv, FreshInv, Waits, Idle
<1>10. ASSUME NEW s \in WorldSessions, ~m_playerLoading[s],
              m_sessions' = [m_sessions EXCEPT ![AccountOf[s]] = s]
       PROVE  \A a \in Accounts : \/ m_sessions'[a] = m_sessions[a]
                                  \/ ~m_playerLoading[m_sessions'[a]]
  BY <1>1, <1>10 DEF AdmissionTypes
<1>11. ASSUME NEW s \in WorldSessions,
              m_sessions' = [m_sessions EXCEPT ![AccountOf[s]] = NoSession]
       PROVE  \A a \in Accounts : m_sessions'[a] \in {m_sessions[a], NoSession}
  BY <1>1, <1>11 DEF AdmissionTypes
<1>12. ASSUME NEW s \in WorldSessions, NEW c \in Characters,
              HandlePlayerLoginOpcode(s, c)
       PROVE  LoadingIsUnderWay'
  <2> DEFINE op == LoginQueryHolder(AccountOf[s], saved[c])
  <2>1. /\ op \in Operations /\ op.kind = "load" /\ op.account = AccountOf[s]
    BY <1>1 DEF CharacterTypes, LoginQueryHolder, Operations
  <2>2. DatabaseGrows /\ pending'[c] = Append(pending[c], op)
    BY <1>1, <1>12, <2>1, DelayGrows DEF HandlePlayerLoginOpcode
  <2>3. /\ m_playerLoading' = [m_playerLoading EXCEPT ![s] = TRUE]
        /\ UNCHANGED m_sessions
    BY <1>12 DEF HandlePlayerLoginOpcode, admission
  <2> HIDE DEF op
  <2>4. Coming(AccountOf[s])'
    <3>1. pending[c] \in Seq(Operations)
      BY <1>1 DEF DatabaseTypes
    <3>2. /\ Len(pending[c]) + 1 \in DOMAIN pending'[c]
          /\ pending'[c][Len(pending[c]) + 1] = op
      BY <2>1, <2>2, <3>1, AppendTo
    <3>3. \E i \in DOMAIN pending'[c] :
            pending'[c][i].kind = "load" /\ pending'[c][i].account = AccountOf[s]
      BY <2>1, <3>2
    <3> QED
      BY <3>3 DEF Coming
  <2>5. ASSUME NEW a \in Accounts, LoadingIn(a)', a # AccountOf[s]
        PROVE  LoadingIn(a)
    <3>1. m_sessions[a] # NoSession => m_sessions[a] # s
      BY <1>1, <2>5 DEF EverySessionHeld
    <3>2. m_sessions[a] \in WorldSessions \cup {NoSession}
      BY <1>1 DEF AdmissionTypes
    <3> QED
      BY <1>1, <2>3, <2>5, <3>1, <3>2 DEF LoadingIn, LoadingType
  <2>6. ASSUME NEW a \in Accounts, LoadingIn(a)' PROVE Coming(a)'
    <3>1. CASE a = AccountOf[s]
      BY <2>4, <3>1 DEF Coming
    <3>2. CASE a # AccountOf[s]
      BY <1>2, <2>2, <2>5, <2>6, <3>2, ComingStays
    <3> QED
      BY <3>1, <3>2
  <2> QED
    BY <1>3, <2>6
<1>13. ASSUME NEW c \in Characters, ExecuteOperation(c)
       PROVE  LoadingIsUnderWay'
  <2> DEFINE op == Head(pending[c])
  <2> DEFINE r == [account |-> op.account, character |-> c,
                   version |-> stored[c], asked |-> op.version]
  <2>1. pending[c] \in Seq(Operations) /\ pending[c] # <<>>
    BY <1>1, <1>13 DEF ExecuteOperation, DatabaseTypes
  <2>2. /\ op \in Operations /\ op = pending[c][1]
        /\ \A i \in DOMAIN pending[c] :
             i = 1 \/ /\ i - 1 \in DOMAIN Tail(pending[c])
                      /\ Tail(pending[c])[i - 1] = pending[c][i]
    BY <2>1, TailOf
  <2>3. /\ pending' = [pending EXCEPT ![c] = Tail(pending[c])]
        /\ op.kind = "save" => UNCHANGED results
        /\ op.kind # "save" => results' = Append(results, r)
        /\ UNCHANGED <<m_sessions, m_playerLoading>>
    BY <1>13 DEF ExecuteOperation, admission
  <2>4. op.kind # "save" => r \in LoadResults
    BY <1>1, <2>2 DEF Operations, LoadResults, DatabaseTypes
  <2>5. r.account = op.account
    OBVIOUS
  <2> HIDE DEF op, r
  <2>6. /\ pending'[c] = Tail(pending[c])
        /\ \A d \in Characters : d # c => pending'[d] = pending[d]
    BY <1>1, <2>3 DEF DatabaseTypes
  <2>7. op.kind # "save" =>
          /\ Len(results) + 1 \in DOMAIN results'
          /\ results'[Len(results) + 1] = r
          /\ \A i \in DOMAIN results :
               i \in DOMAIN results' /\ results'[i] = results[i]
    <3>1. results \in Seq(LoadResults)
      BY <1>1 DEF DatabaseTypes
    <3> SUFFICES ASSUME op.kind # "save"
                 PROVE  /\ Len(results) + 1 \in DOMAIN Append(results, r)
                        /\ Append(results, r)[Len(results) + 1] = r
                        /\ \A i \in DOMAIN results :
                             /\ i \in DOMAIN Append(results, r)
                             /\ Append(results, r)[i] = results[i]
      BY <2>3
    <3> QED
      BY <2>4, <3>1, AppendTo
  <2>8. ASSUME NEW a \in Accounts, NEW i \in DOMAIN results,
               results[i].account = a
        PROVE  Coming(a)'
    BY <2>3, <2>7, <2>8 DEF Coming
  <2>9. ASSUME NEW a \in Accounts, NEW d \in Characters,
               NEW i \in DOMAIN pending[d],
               pending[d][i].kind = "load", pending[d][i].account = a
        PROVE  Coming(a)'
    <3>1. CASE d # c
      BY <2>6, <2>9, <3>1 DEF Coming
    <3>2. CASE d = c /\ i = 1
      BY <2>2, <2>5, <2>7, <2>9, <3>2 DEF Coming
    <3>3. CASE d = c /\ i # 1
      <4>1. i - 1 \in DOMAIN pending'[c] /\ pending'[c][i - 1] = pending[c][i]
        BY <2>2, <2>6, <3>3
      <4>2. \E j \in DOMAIN pending'[c] :
              pending'[c][j].kind = "load" /\ pending'[c][j].account = a
        BY <2>9, <3>3, <4>1
      <4> QED
        BY <4>2 DEF Coming
    <3> QED
      BY <3>1, <3>2, <3>3
  <2>10. ASSUME NEW a \in Accounts, LoadingIn(a)' PROVE Coming(a)'
    <3>1. Coming(a)
      BY <1>2, <2>3, <2>10 DEF LoadingIn
    <3> QED
      BY <2>8, <2>9, <3>1 DEF Coming
  <2> QED
    BY <1>3, <2>10
<1>14. CASE HandlePlayerLoginCallback
  <2> DEFINE b == Head(results).account
  <2> DEFINE s == m_sessions[b]
  <2>1. /\ results # <<>> /\ results' = Tail(results)
        /\ UNCHANGED <<pending, m_sessions>>
    BY <1>14 DEF HandlePlayerLoginCallback, admission
  <2>2. /\ b \in Accounts
        /\ \A i \in DOMAIN results :
             \/ results[i].account = b
             \/ i - 1 \in DOMAIN Tail(results) /\ Tail(results)[i - 1] = results[i]
    <3>1. Head(results) = results[1] /\ Head(results) \in LoadResults
      BY <1>1, <2>1, TailOf DEF DatabaseTypes
    <3>2. \A i \in DOMAIN results :
            i = 1 \/ /\ i - 1 \in DOMAIN Tail(results)
                     /\ Tail(results)[i - 1] = results[i]
      BY <1>1, <2>1, TailOf DEF DatabaseTypes
    <3> QED
      BY <3>1, <3>2 DEF LoadResults
  <2>3. \/ s = NoSession /\ UNCHANGED m_playerLoading
        \/ m_playerLoading' = [m_playerLoading EXCEPT ![s] = FALSE]
    BY <1>14 DEF HandlePlayerLoginCallback, DropHolder, RefuseLogin, TakeOver,
       LoadFromDB
  <2> HIDE DEF b, s
  <2>4. s \in WorldSessions \cup {NoSession}
    BY <1>1, <2>2 DEF AdmissionTypes, s
  <2>5. ASSUME NEW a \in Accounts, LoadingIn(a)' PROVE LoadingIn(a) /\ a # b
    <3>1. m_sessions[a] \in WorldSessions /\ m_sessions'[a] = m_sessions[a]
      BY <1>1, <2>1, <2>5 DEF LoadingIn, AdmissionTypes
    <3>2. m_playerLoading'[m_sessions[a]]
      BY <2>5, <3>1 DEF LoadingIn
    <3>3. m_sessions[a] # s
      BY <1>1, <2>3, <3>1, <3>2 DEF LoadingType
    <3> QED
      BY <1>1, <2>3, <3>1, <3>2, <3>3 DEF LoadingType, LoadingIn, s
  <2>6. ASSUME NEW a \in Accounts, LoadingIn(a)' PROVE Coming(a)'
    <3>1. Coming(a) /\ a # b
      BY <1>2, <2>5, <2>6
    <3>2. CASE \E c \in Characters : \E i \in DOMAIN pending[c] :
                 pending[c][i].kind = "load" /\ pending[c][i].account = a
      BY <2>1, <3>2 DEF Coming
    <3>3. ASSUME NEW i \in DOMAIN results, results[i].account = a
          PROVE  Coming(a)'
      <4>1. i - 1 \in DOMAIN results' /\ results'[i - 1] = results[i]
        BY <2>1, <2>2, <3>1, <3>3
      <4>2. \E j \in DOMAIN results' : results'[j].account = a
        BY <3>3, <4>1
      <4> QED
        BY <4>2 DEF Coming
    <3> QED
      BY <3>1, <3>2, <3>3 DEF Coming
  <2> QED
    BY <1>3, <2>6
<1>15. CASE RefuseSession
  <2>1. DatabaseGrows
    BY <1>7, <1>9, <1>15 DEF RefuseSession
  <2> QED
    BY <1>5, <1>15, <2>1 DEF RefuseSession
<1>16. CASE AddFirstSession
  <2>1. DatabaseGrows
    BY <1>6, <1>16 DEF AddFirstSession
  <2> QED
    BY <1>5, <1>9, <1>10, <1>16, <2>1 DEF AddFirstSession, Admit
<1>17. CASE ReplaceSession
  <2> DEFINE old == m_sessions[AccountOf[Head(addSessQueue)]]
  <2>1. old \in WorldSessions
    BY <1>1, <1>9, <1>17 DEF ReplaceSession, AdmissionTypes
  <2>2. (MayLinger(old) /\ ForcePlayerLogoutDelay(old)) \/ Delete(old)
    BY <1>17 DEF ReplaceSession
  <2> HIDE DEF old
  <2>3. DatabaseGrows
    BY <1>7, <1>8, <2>1, <2>2
  <2>4. /\ addSessQueue # <<>> /\ UNCHANGED m_playerLoading
        /\ m_sessions' =
             [m_sessions EXCEPT ![AccountOf[Head(addSessQueue)]] =
                Head(addSessQueue)]
    BY <1>17 DEF ReplaceSession, Admit
  <2> QED
    BY <1>5, <1>9, <1>10, <2>3, <2>4
<1>18. ASSUME NEW s \in WorldSessions, LoseClient(s) PROVE LoadingIsUnderWay'
  <2>1. DatabaseGrows
    BY <1>7, <1>8, <1>18 DEF LoseClient, RemoveFromMap
  <2>2. /\ UNCHANGED m_playerLoading
        /\ m_sessions' = [m_sessions EXCEPT ![AccountOf[s]] = NoSession]
    BY <1>18 DEF LoseClient, RemoveFromMap
  <2> QED
    BY <1>5, <1>11, <2>1, <2>2
<1>19. ASSUME NEW s \in WorldSessions, CharacterScreenIdleKick(s)
       PROVE  LoadingIsUnderWay'
  <2>1. DatabaseGrows
    BY <1>7, <1>19 DEF CharacterScreenIdleKick, RemoveFromMap
  <2>2. /\ UNCHANGED m_playerLoading
        /\ m_sessions' = [m_sessions EXCEPT ![AccountOf[s]] = NoSession]
    BY <1>19 DEF CharacterScreenIdleKick, RemoveFromMap
  <2> QED
    BY <1>5, <1>11, <2>1, <2>2
<1>20. ASSUME NEW s \in WorldSessions,
              UpdateDisconnected(s) \/ UpdateConnected(s)
       PROVE  LoadingIsUnderWay'
  <2>1. DatabaseGrows
    BY <1>1, <1>6, <1>7, <1>20, LogoutGrows
    DEF UpdateDisconnected, UpdateConnected
  <2>2. UNCHANGED <<m_playerLoading, m_sessions>>
    BY <1>20 DEF UpdateDisconnected, UpdateConnected, admission
  <2> QED
    BY <1>5, <2>1, <2>2
<1>21. ASSUME NEW c \in Characters, AutoSave(c) PROVE LoadingIsUnderWay'
  <2>1. DatabaseGrows
    BY <1>1, <1>21, SaveGrows DEF AutoSave
  <2> QED
    BY <1>5, <1>21, <2>1 DEF AutoSave, admission
<1>22. ASSUME NEW c \in Characters, Play(c) \/ TeleportTo(c)
       PROVE  LoadingIsUnderWay'
  BY <1>5, <1>6, <1>22 DEF Play, TeleportTo, admission
<1>23. ASSUME NEW s \in WorldSessions,
              \/ AddSession(s) \/ CloseSocket(s)
              \/ HandleMoveWorldportAckOpcode(s)
       PROVE  LoadingIsUnderWay'
  BY <1>5, <1>6, <1>23 DEF AddSession, CloseSocket,
     HandleMoveWorldportAckOpcode, admission
<1>24. CASE \/ BeginUpdate \/ EndInbox \/ EndSessions \/ EndUpdate \/ EndMaps
            \/ EndResults \/ StopNow \/ KickAll
  BY <1>5, <1>6, <1>24 DEF BeginUpdate, EndInbox, EndSessions, EndUpdate,
     EndMaps, EndResults, StopNow, KickAll, admission
<1>25. CASE UNCHANGED vars
  BY <1>5, <1>6, <1>25 DEF vars, admission
<1> QED
  BY <1>12, <1>13, <1>14, <1>15, <1>16, <1>17, <1>18, <1>19, <1>20, <1>21,
     <1>22, <1>23, <1>24, <1>25
  DEF Next, WorldNext, SessionNext, CharacterNext

-----------------------------------------------------------------------------
(* Shutting down                                                           *)

Playing(s) == Mapped(s) /\ player[s] # NoCharacter

(* Once KickAll has closed the sockets, whoever still plays is one the     *)
(* last update has yet to visit.                                           *)
ShutdownInv ==
  /\ phase = "stopped" => closing
  /\ closing =>
       /\ stopped
       /\ phase \in {"kicked", "inbox", "update", "disconnected", "stopped"}
       /\ \A s \in WorldSessions : Playing(s) =>
            /\ phase \in {"kicked", "inbox", "update"}
            /\ socket[s] # "open"
            /\ phase = "update" => s \in toVisit

LEMMA ShutdownStep ==
  ASSUME TypeOK, Held, PlayerInv, ShutdownInv, [Next]_vars
  PROVE  ShutdownInv'
<1> USE SessionsAssumption
<1>1. /\ AdmissionTypes /\ CharacterTypes /\ ObjectTypes /\ ControlTypes
      /\ EverySessionHeld
  BY TypeParts DEF Held
(* Nobody begins to play or is passed over.                                *)
<1>2. ASSUME UNCHANGED <<closing, phase>>, closing => stopped',
             closing => \A t \in WorldSessions : Playing(t)' =>
               /\ Playing(t)
               /\ socket'[t] = "open" => socket[t] = "open"
               /\ phase = "update" /\ t \in toVisit => t \in toVisit'
      PROVE  ShutdownInv'
  BY <1>2 DEF ShutdownInv
<1>3. ASSUME ~closing', phase' # "stopped" PROVE ShutdownInv'
  BY <1>3 DEF ShutdownInv
(* A session is admitted or leaves the map.                                *)
<1>4. ASSUME NEW s \in WorldSessions, NEW t \in WorldSessions,
             m_sessions' = [m_sessions EXCEPT ![AccountOf[s]] = NoSession],
             Mapped(t)'
      PROVE  t # s /\ Mapped(t)
  BY <1>1, <1>4 DEF AdmissionTypes, Mapped
<1>5. ASSUME NEW s \in WorldSessions, NEW t \in WorldSessions,
             m_sessions' = [m_sessions EXCEPT ![AccountOf[s]] = s],
             Mapped(t)', t # s
      PROVE  Mapped(t)
  BY <1>1, <1>5 DEF AdmissionTypes, Mapped
<1>6. ASSUME NEW s \in WorldSessions, Delete(s), NEW t \in WorldSessions
      PROVE  /\ player'[t] # NoCharacter => player'[t] = player[t]
             /\ socket'[t] = "open" => socket[t] = "open"
  <2>1. player'[t] = IF t = s THEN NoCharacter ELSE player[t]
    BY <1>1, <1>6, LogoutEffect DEF Delete
  <2> QED
    BY <1>1, <1>6, <2>1 DEF Delete, ObjectTypes
<1>7. ASSUME addSessQueue # <<>>
      PROVE  /\ Head(addSessQueue) \in WorldSessions
             /\ player[Head(addSessQueue)] = NoCharacter
             /\ ~Mapped(Head(addSessQueue))
  <2>1. /\ Head(addSessQueue) \in WorldSessions
        /\ Head(addSessQueue) \in Elements(addSessQueue)
    BY <1>1, <1>7, TailElements DEF AdmissionTypes
  <2> QED
    BY <1>1, <2>1 DEF PlayerInv, FreshInv, Waits, Idle, EverySessionHeld
<1>8. ASSUME UNCHANGED <<control, m_sessions, player, socket>> PROVE ShutdownInv'
  BY <1>8 DEF control, ShutdownInv, Playing, Mapped
<1>9. CASE RefuseSession
  BY <1>2, <1>6, <1>7, <1>9 DEF RefuseSession, control, ShutdownInv, Playing,
     Mapped
<1>10. CASE AddFirstSession
  <2> DEFINE s == Head(addSessQueue)
  <2>1. /\ UNCHANGED <<control, player, socket>> /\ addSessQueue # <<>>
        /\ m_sessions' = [m_sessions EXCEPT ![AccountOf[s]] = s]
    BY <1>10 DEF AddFirstSession, Admit, objects, characters
  <2>2. s \in WorldSessions /\ player[s] = NoCharacter
    BY <1>7, <2>1
  <2> HIDE DEF s
  <2>3. \A t \in WorldSessions : Playing(t)' => Playing(t)
    BY <1>5, <2>1, <2>2 DEF Playing
  <2> QED
    BY <1>2, <2>1, <2>3 DEF control, ShutdownInv
<1>11. CASE ReplaceSession
  <2> DEFINE s == Head(addSessQueue)
  <2> DEFINE old == m_sessions[AccountOf[s]]
  <2>1. /\ UNCHANGED control /\ addSessQueue # <<>> /\ phase = "inbox"
        /\ m_sessions' = [m_sessions EXCEPT ![AccountOf[s]] = s]
        /\ old # NoSession
        /\ (MayLinger(old) \/ Delete(old))
    BY <1>11 DEF ReplaceSession, Admit
  <2>2. s \in WorldSessions /\ player[s] = NoCharacter
    BY <1>7, <2>1
  <2>3. old \in WorldSessions /\ old # s
    BY <1>1, <1>7, <2>1, <2>2 DEF AdmissionTypes, Mapped
  <2> HIDE DEF s, old
  <2>4. closing => Delete(old)
    BY <2>1 DEF MayLinger, ShutdownInv
  <2>5. ASSUME closing, NEW t \in WorldSessions, Playing(t)'
        PROVE  Playing(t) /\ (socket'[t] = "open" => socket[t] = "open")
    <3>1. /\ player'[t] # NoCharacter => player'[t] = player[t]
          /\ socket'[t] = "open" => socket[t] = "open"
      BY <1>6, <2>3, <2>4, <2>5
    <3> QED
      BY <1>5, <2>1, <2>2, <2>5, <3>1 DEF Playing
  <2> QED
    BY <1>2, <2>1, <2>5 DEF control, ShutdownInv
<1>12. ASSUME NEW s \in WorldSessions,
              LoseClient(s) \/ CharacterScreenIdleKick(s)
       PROVE  ShutdownInv'
  <2>1. /\ UNCHANGED <<phase, stopped, closing>>
        /\ toVisit' = toVisit \ {s}
        /\ m_sessions' = [m_sessions EXCEPT ![AccountOf[s]] = NoSession]
        /\ MayLinger(s) \/ Delete(s)
    BY <1>12 DEF LoseClient, CharacterScreenIdleKick, RemoveFromMap, Visited
  <2>2. closing => Delete(s)
    BY <2>1 DEF MayLinger, ShutdownInv
  <2>3. ASSUME closing, NEW t \in WorldSessions, Playing(t)'
        PROVE  /\ t # s /\ Playing(t)
               /\ socket'[t] = "open" => socket[t] = "open"
    BY <1>4, <1>6, <2>1, <2>2, <2>3 DEF Playing
  <2> QED
    BY <1>2, <2>1, <2>3 DEF ShutdownInv
<1>13. ASSUME NEW s \in WorldSessions, UpdateConnected(s) PROVE ShutdownInv'
  <2>1. /\ UNCHANGED <<phase, stopped, closing, m_sessions, socket>>
        /\ toVisit' = toVisit \ {s} /\ socket[s] = "open"
        /\ UNCHANGED player \/ LogoutPlayer(s)
    BY <1>13 DEF UpdateConnected, Visited, objects, admission, characters
  <2>2. \A t \in WorldSessions :
          player'[t] # NoCharacter => player'[t] = player[t]
    BY <1>1, <2>1, LogoutEffect
  <2>3. \A t \in WorldSessions : Playing(t)' => Playing(t)
    BY <2>1, <2>2 DEF Playing, Mapped
  <2>4. closing => ~Playing(s)
    BY <2>1 DEF ShutdownInv
  <2> QED
    BY <1>2, <2>1, <2>3, <2>4 DEF ShutdownInv
<1>14. ASSUME NEW s \in WorldSessions, UpdateDisconnected(s)
       PROVE  ShutdownInv'
  <2>1. /\ UNCHANGED <<phase, stopped, closing, m_sessions>>
        /\ phase = "disconnected"
        /\ UNCHANGED <<player, socket>> \/ Delete(s)
    BY <1>14 DEF UpdateDisconnected, Visited, objects, admission, characters
  <2>2. \A t \in WorldSessions :
          /\ player'[t] # NoCharacter => player'[t] = player[t]
          /\ socket'[t] = "open" => socket[t] = "open"
    BY <1>6, <2>1
  <2>3. \A t \in WorldSessions : Playing(t)' => Playing(t)
    BY <2>1, <2>2 DEF Playing, Mapped
  <2> QED
    BY <1>2, <2>1, <2>2, <2>3 DEF ShutdownInv
<1>15. ASSUME NEW s \in WorldSessions, AddSession(s) PROVE ShutdownInv'
  <2>1. /\ UNCHANGED <<control, m_sessions, player>>
        /\ object[s] = "new"
        /\ socket' = [socket EXCEPT ![s] = "open"]
    BY <1>15 DEF AddSession, characters
  <2>2. ~Mapped(s)
    BY <1>1, <2>1 DEF EverySessionHeld
  <2>3. \A t \in WorldSessions : Playing(t)' =>
          Playing(t) /\ (socket'[t] = "open" => socket[t] = "open")
    BY <1>1, <2>1, <2>2 DEF Playing, Mapped, ObjectTypes
  <2> QED
    BY <1>2, <2>1, <2>3 DEF control, ShutdownInv
<1>16. ASSUME NEW s \in WorldSessions, CloseSocket(s) PROVE ShutdownInv'
  BY <1>1, <1>2, <1>16 DEF CloseSocket, control, admission, characters,
     ObjectTypes, ShutdownInv, Playing, Mapped
<1>17. CASE KickAll
  <2>1. /\ phase' = "kicked" /\ closing' /\ stopped'
        /\ UNCHANGED <<m_sessions, player>>
        /\ socket' = [s \in WorldSessions |->
             IF s \in InMap \cup m_disconnectedSessions /\ socket[s] = "open"
             THEN "closed" ELSE socket[s]]
    BY <1>17 DEF KickAll, characters
  <2>2. \A s \in WorldSessions : Mapped(s) => s \in InMap
    BY <1>1, InMapIsMapped
  <2>3. \A s \in WorldSessions : Mapped(s)' => socket'[s] # "open"
    BY <2>1, <2>2 DEF Mapped
  <2> QED
    BY <2>1, <2>3 DEF ShutdownInv, Playing
<1>18. CASE StopNow
  BY <1>2, <1>18 DEF StopNow, objects, admission, characters, Playing, Mapped
<1>19. CASE BeginUpdate
  BY <1>19 DEF BeginUpdate, objects, characters, ShutdownInv, Playing, Mapped
<1>20. CASE EndInbox
  <2>1. \A s \in WorldSessions : Mapped(s) => s \in InMap
    BY <1>1, InMapIsMapped
  <2> QED
    BY <1>20, <2>1 DEF EndInbox, objects, admission, characters, ShutdownInv,
       Playing, Mapped
<1>21. CASE EndSessions \/ EndUpdate
  BY <1>21 DEF EndSessions, EndUpdate, objects, admission, characters,
     ShutdownInv, Playing, Mapped
<1>22. CASE EndMaps \/ EndResults \/ HandlePlayerLoginCallback
  <2>1. ~closing /\ UNCHANGED closing /\ phase' # "stopped"
    BY <1>22 DEF EndMaps, EndResults, HandlePlayerLoginCallback, control,
       ShutdownInv
  <2> QED
    BY <1>3, <2>1
<1>23. ASSUME NEW s \in WorldSessions,
              \/ HandleMoveWorldportAckOpcode(s)
              \/ \E c \in Characters : HandlePlayerLoginOpcode(s, c)
       PROVE  ShutdownInv'
  BY <1>8, <1>23 DEF HandleMoveWorldportAckOpcode, HandlePlayerLoginOpcode,
     objects, admission, characters
<1>24. ASSUME NEW c \in Characters, CharacterNext(c) PROVE ShutdownInv'
  BY <1>8, <1>24 DEF CharacterNext, Play, AutoSave, TeleportTo,
     ExecuteOperation, objects, admission, characters
<1>25. CASE UNCHANGED vars
  BY <1>8, <1>25 DEF vars, objects, admission, characters
<1> QED
  BY <1>9, <1>10, <1>11, <1>12, <1>13, <1>14, <1>15, <1>16, <1>17, <1>18,
     <1>19, <1>20, <1>21, <1>22, <1>23, <1>24, <1>25
  DEF Next, WorldNext, SessionNext

LEMMA ShutdownSaves ==
  ASSUME TypeOK, Held, PlayerInv, ShutdownInv
  PROVE  ShutdownSavesConnected
<1> SUFFICES ASSUME phase = "stopped", NEW c \in Characters,
                    owner[c] # NoSession, saved[c] # memory[c]
             PROVE  owner[c] \in m_disconnectedSessions
  BY DEF ShutdownSavesConnected
<1>1. owner[c] \in WorldSessions
  BY DEF TypeOK
<1>2. player[owner[c]] = c /\ object[owner[c]] = "live" /\ c # NoCharacter
  BY SessionsAssumption DEF PlayerInv, PlayerAndSessionAgree
<1>3. ~Waits(owner[c])
  BY <1>1, <1>2 DEF PlayerInv, FreshInv, Idle
<1>4. ~Mapped(owner[c])
  BY <1>1, <1>2 DEF ShutdownInv, Playing
<1> QED
  BY <1>1, <1>2, <1>3, <1>4 DEF Held, EverySessionHeld, Lingers

-----------------------------------------------------------------------------
(* The hard limit                                                          *)

Values(map) == {map[a] : a \in Accounts} \ {NoSession}

(* A map of sessions under their own accounts, and a queue of some.        *)
QueueOfMap(map, q) ==
  /\ map \in [Accounts -> WorldSessions \cup {NoSession}]
  /\ \A a \in Accounts : map[a] # NoSession => AccountOf[map[a]] = a
  /\ q \in Seq(WorldSessions) /\ Injective(q)
  /\ Elements(q) \subseteq Values(map)

LEMMA InjectiveCount ==
  ASSUME NEW S, NEW q \in Seq(S), Injective(q)
  PROVE  IsFiniteSet(Elements(q)) /\ Cardinality(Elements(q)) = Len(q)
<1> DEFINE n == Len(q)
<1> DEFINE f == [i \in 1 .. n |-> q[i]]
<1>1. n \in Nat /\ DOMAIN q = 1 .. n
  OBVIOUS
<1> HIDE DEF n
<1>2. f \in Bijection(1 .. n, Elements(q))
  <2>1. f \in [1 .. n -> Elements(q)]
    BY <1>1 DEF Elements
  <2>2. \A i, j \in 1 .. n : f[i] = f[j] => i = j
    BY <1>1 DEF Injective
  <2>3. \A x \in Elements(q) : \E i \in 1 .. n : f[i] = x
    BY <1>1 DEF Elements
  <2> QED
    BY <2>1, <2>2, <2>3 DEF Bijection, Injection, IsInjective, Surjection
<1>3. IsFiniteSet(1 .. n) /\ Cardinality(1 .. n) = n
  <2>1. /\ IsFiniteSet(1 .. n)
        /\ Cardinality(1 .. n) = IF 1 > n THEN 0 ELSE n - 1 + 1
    BY <1>1, FS_Interval
  <2> QED
    BY <1>1, <2>1
<1>4. ExistsBijection(1 .. n, Elements(q))
  BY <1>2 DEF ExistsBijection
<1> QED
  BY <1>3, <1>4, FS_Bijection DEF n

LEMMA MapCount ==
  ASSUME NEW map, NEW q, QueueOfMap(map, q)
  PROVE  IsFiniteSet(Values(map)) /\ Cardinality(Values(map)) = Size(map)
<1> DEFINE T == {a \in Accounts : map[a] # NoSession}
<1> DEFINE f == [a \in T |-> map[a]]
<1>1. IsFiniteSet(T)
  BY SessionsAssumption, FS_Subset
<1>2. f \in Bijection(T, Values(map))
  <2>1. f \in [T -> Values(map)]
    BY DEF Values
  <2>2. \A a, b \in T : f[a] = f[b] => a = b
    BY DEF QueueOfMap
  <2>3. \A x \in Values(map) : \E a \in T : f[a] = x
    BY DEF Values
  <2> QED
    BY <2>1, <2>2, <2>3 DEF Bijection, Injection, IsInjective, Surjection
<1>3. ExistsBijection(T, Values(map))
  BY <1>2 DEF ExistsBijection
<1> HIDE DEF f
<1>4. IsFiniteSet(Values(map)) /\ Cardinality(Values(map)) = Cardinality(T)
  BY <1>1, <1>3, FS_Bijection
<1> QED
  BY <1>4 DEF Size

(* GetActiveSessionCount counts the sessions that are not queued.          *)
LEMMA ActiveCount ==
  ASSUME NEW map, NEW q, QueueOfMap(map, q)
  PROVE  /\ IsFiniteSet(Values(map) \ Elements(q))
         /\ Cardinality(Values(map) \ Elements(q)) = Size(map) - Len(q)
         /\ Size(map) - Len(q) \in Nat
<1> DEFINE V == Values(map)
<1> DEFINE E == Elements(q)
<1>1. IsFiniteSet(V) /\ Cardinality(V) = Size(map)
  BY MapCount
<1>2. Cardinality(E) = Len(q)
  BY InjectiveCount DEF QueueOfMap
<1>3. V \cap E = E
  BY DEF QueueOfMap
<1> HIDE DEF V, E
<1>4. IsFiniteSet(V \ E) /\ Cardinality(V \ E) = Cardinality(V) - Cardinality(E)
  BY <1>1, <1>3, FS_Difference
<1>5. Cardinality(V \ E) \in Nat
  BY <1>4, FS_CardinalityType
<1> QED
  BY <1>1, <1>2, <1>4, <1>5 DEF V, E

(* The first n of a queue are at most n.                                   *)
LEMMA FrontCount ==
  ASSUME NEW S, NEW q \in Seq(S), NEW n \in Nat, n <= Len(q)
  PROVE  LET f == {q[i] : i \in 1 .. n}
         IN  IsFiniteSet(f) /\ Cardinality(f) \in Nat /\ Cardinality(f) <= n
<1> DEFINE f == {q[i] : i \in 1 .. n}
<1> DEFINE g == [i \in 1 .. n |-> q[i]]
<1>1. g \in Surjection(1 .. n, f)
  BY DEF Surjection
<1>2. IsFiniteSet(1 .. n) /\ Cardinality(1 .. n) = n
  <2>1. /\ IsFiniteSet(1 .. n)
        /\ Cardinality(1 .. n) = IF 1 > n THEN 0 ELSE n - 1 + 1
    BY FS_Interval
  <2> QED
    BY <2>1
<1> HIDE DEF f, g
<1>3. IsFiniteSet(f) /\ Cardinality(f) <= n
  BY <1>1, <1>2, FS_Surjection
<1> QED
  BY <1>3, FS_CardinalityType DEF f

LEMMA WithoutCount ==
  ASSUME NEW S, NEW q \in Seq(S), Injective(q), NEW s
  PROVE  Len(Without(q, s)) = IF s \in Elements(q) THEN Len(q) - 1 ELSE Len(q)
<1>1. /\ Without(q, s) \in Seq(S) /\ Injective(Without(q, s))
      /\ Elements(Without(q, s)) = Elements(q) \ {s}
  BY WithoutElements
<1>2. /\ IsFiniteSet(Elements(q)) /\ Cardinality(Elements(q)) = Len(q)
      /\ Cardinality(Elements(q) \ {s}) = Len(Without(q, s))
  BY <1>1, InjectiveCount
<1> QED
  BY <1>2, FS_RemoveElement

(* Letting s go: nobody is let in, or at most one above the player limit.  *)
LEMMA RemovedLimited ==
  ASSUME QueueOfMap(m_sessions, m_QueuedSessions), NEW s \in InMap,
         config.hardLimit \in Nat, m_playerLimit \in Nat \ {0}
  PROVE  LET W == (InMap \ {s}) \ Elements(RemoveQueuedSession(s).queue)
         IN  \/ W \subseteq InMap \ Elements(m_QueuedSessions)
             \/ /\ IsFiniteSet(W)
                /\ Cardinality(W) <= config.hardLimit
                /\ Cardinality(W) <= m_playerLimit + 1
<1> DEFINE q == m_QueuedSessions
<1> DEFINE rest == Without(m_QueuedSessions, s)
<1> DEFINE r == RemoveQueuedSession(s)
<1> DEFINE W == (InMap \ {s}) \ Elements(r.queue)
<1> DEFINE sessions == IF s \notin Elements(q) /\ GetActiveSessionCount > 0
                       THEN GetActiveSessionCount - 1 ELSE GetActiveSessionCount
<1>1. q \in Seq(WorldSessions) /\ Injective(q) /\ InMap = Values(m_sessions)
  BY DEF QueueOfMap, InMap, Values
<1>2. /\ rest \in Seq(WorldSessions) /\ Injective(rest)
      /\ Elements(rest) = Elements(q) \ {s}
      /\ Len(rest) = IF s \in Elements(q) THEN Len(q) - 1 ELSE Len(q)
  BY <1>1, WithoutElements, WithoutCount
<1>3. \/ r.queue = rest
      \/ /\ r.queue = Tail(rest) /\ rest # <<>>
         /\ Size(m_sessions) - Len(rest) <= config.hardLimit
         /\ sessions <= m_playerLimit
  BY DEF RemoveQueuedSession
<1>4. GetActiveSessionCount = Size(m_sessions) - Len(q)
      /\ GetActiveSessionCount \in Nat
  BY ActiveCount DEF GetActiveSessionCount
<1>5. Len(q) \in Nat /\ Size(m_sessions) \in Nat
  BY <1>1, SizeType
<1> HIDE DEF q, rest, r
<1>6. CASE r.queue = rest
  BY <1>2, <1>6 DEF q, r
<1>7. CASE /\ r.queue = Tail(rest) /\ rest # <<>>
           /\ Size(m_sessions) - Len(rest) <= config.hardLimit
           /\ sessions <= m_playerLimit
  <2> DEFINE B == InMap \ {s}
  <2> DEFINE E == Elements(r.queue)
  <2>1. /\ IsFiniteSet(B) /\ Cardinality(B) = Size(m_sessions) - 1
    <3>1. IsFiniteSet(InMap) /\ Cardinality(InMap) = Size(m_sessions)
      BY <1>1, MapCount
    <3> QED
      BY <3>1, FS_RemoveElement
  <2>2. /\ Cardinality(E) = Len(rest) - 1 /\ E \subseteq B
    <3>1. /\ Tail(rest) \in Seq(WorldSessions) /\ Injective(Tail(rest))
          /\ Elements(rest) = Elements(Tail(rest)) \cup {Head(rest)}
      BY <1>2, <1>7, TailElements
    <3>2. Len(Tail(rest)) = Len(rest) - 1
      BY <1>2, <1>7, TailOf
    <3>3. Cardinality(E) = Len(Tail(rest))
      BY <1>7, <3>1, InjectiveCount
    <3>4. Elements(q) \subseteq InMap
      BY <1>1 DEF QueueOfMap, q
    <3> QED
      BY <1>2, <1>7, <3>1, <3>2, <3>3, <3>4
  <2>3. B \cap E = E
    BY <2>2
  <2>4. IsFiniteSet(W) /\ Cardinality(W) = Cardinality(B) - Cardinality(E)
    BY <2>1, <2>3, FS_Difference, ZenonT(40)
  <2> DEFINE w == Cardinality(W)
  <2> HIDE DEF W, B, E, w, sessions
  <2>5. w = Size(m_sessions) - Len(rest)
    <3>1. Len(rest) \in Nat
      BY <1>2
    <3> QED
      BY <1>5, <2>1, <2>2, <2>4, <3>1 DEF w
  <2>6. w <= sessions + 1
    <3>1. CASE s \in Elements(q)
      BY <1>2, <1>4, <1>5, <2>5, <3>1 DEF sessions
    <3>2. CASE s \notin Elements(q)
      BY <1>2, <1>4, <1>5, <2>5, <3>2 DEF sessions
    <3> QED
      BY <3>1, <3>2
  <2>7. sessions \in Int
    BY <1>4 DEF sessions
  <2>8. w <= config.hardLimit
    BY <1>7, <2>5
  <2>9. w <= m_playerLimit + 1
    <3>1. sessions <= m_playerLimit
      BY <1>7
    <3>2. w \in Int
      BY <1>2, <1>5, <2>5
    <3> QED
      BY <2>6, <2>7, <3>1, <3>2
  <2> QED
    BY <2>4, <2>8, <2>9 DEF w, W, r
<1> QED
  BY <1>3, <1>6, <1>7

(* Admitting s: it counts only if there is room under the player limit.    *)
LEMMA AdmitLimited ==
  ASSUME NEW s \in WorldSessions, NEW queue, NEW leave, NEW decrease \in BOOLEAN,
         QueueOfMap(m_sessions, queue), s \notin InMap,
         m_sessions[AccountOf[s]] \notin Elements(queue),
         Admit(s, queue, leave, decrease), m_playerLimit \in Nat \ {0}
  PROVE  LET old == m_sessions[AccountOf[s]]
         IN  \/ Limited' \subseteq ((InMap \ {old}) \ Elements(queue)) \ skipped
             \/ /\ IsFiniteSet(Limited')
                /\ Cardinality(Limited') <= m_playerLimit
<1> USE SessionsAssumption
<1> DEFINE old == m_sessions[AccountOf[s]]
<1> DEFINE map == [m_sessions EXCEPT ![AccountOf[s]] = s]
<1> DEFINE count == Size(map) - Len(queue)
<1> DEFINE active == IF decrease /\ count > 0 THEN count - 1 ELSE count
<1> DEFINE full == m_playerLimit > 0 /\ active >= m_playerLimit
<1>1. /\ m_sessions' = map
      /\ \/ m_QueuedSessions' = Append(queue, s) /\ skipped' = skipped
         \/ m_QueuedSessions' = queue /\ full /\ skipped' = skipped \cup {s}
         \/ m_QueuedSessions' = queue /\ ~full /\ skipped' = skipped
  BY DEF Admit
<1>2. /\ m_sessions \in [Accounts -> WorldSessions \cup {NoSession}]
      /\ AccountOf[s] \in Accounts /\ s # NoSession
      /\ \A a \in Accounts : m_sessions[a] # NoSession => AccountOf[m_sessions[a]] = a
      /\ queue \in Seq(WorldSessions) /\ Injective(queue)
      /\ Elements(queue) \subseteq Values(m_sessions)
  BY DEF QueueOfMap
<1>3. InMap = Values(m_sessions) /\ InMap' = Values(map)
  BY <1>1 DEF InMap, Values
<1>4. /\ map \in [Accounts -> WorldSessions \cup {NoSession}]
      /\ \A a \in Accounts : map[a] = IF a = AccountOf[s] THEN s ELSE m_sessions[a]
  BY <1>2
<1> HIDE DEF map
<1>5. Values(map) = (Values(m_sessions) \ {old}) \cup {s}
  <2>1. ASSUME NEW x \in Values(map) PROVE x \in (Values(m_sessions) \ {old}) \cup {s}
    <3>1. PICK a \in Accounts : x = map[a] /\ x # NoSession
      BY DEF Values
    <3>2. CASE a = AccountOf[s]
      BY <1>4, <3>1, <3>2
    <3>3. CASE a # AccountOf[s]
      <4>1. x = m_sessions[a]
        BY <1>4, <3>1, <3>3
      <4>2. x # old
        BY <1>2, <3>1, <3>3, <4>1
      <4> QED
        BY <3>1, <4>1, <4>2 DEF Values
    <3> QED
      BY <3>2, <3>3
  <2>2. s \in Values(map)
    BY <1>2, <1>4 DEF Values
  <2>3. ASSUME NEW x \in Values(m_sessions), x # old PROVE x \in Values(map)
    <3>1. PICK a \in Accounts : x = m_sessions[a] /\ x # NoSession
      BY DEF Values
    <3>2. a # AccountOf[s]
      BY <2>3, <3>1
    <3> QED
      BY <1>4, <3>1, <3>2 DEF Values
  <2> QED
    BY <2>1, <2>2, <2>3
<1>6. Limited' = (Values(map) \ Elements(m_QueuedSessions')) \ skipped'
  BY <1>3 DEF Limited, Elements
<1>7. CASE m_QueuedSessions' = Append(queue, s) /\ skipped' = skipped
  <2>1. Elements(m_QueuedSessions') = Elements(queue) \cup {s}
    BY <1>2, <1>7, AppendElements
  <2> QED
    BY <1>3, <1>5, <1>6, <1>7, <2>1
<1>8. CASE m_QueuedSessions' = queue /\ full /\ skipped' = skipped \cup {s}
  BY <1>3, <1>5, <1>6, <1>8
<1>9. CASE m_QueuedSessions' = queue /\ ~full /\ skipped' = skipped
  <2> DEFINE A == Values(map) \ Elements(queue)
  <2>1. QueueOfMap(map, queue)
    <3>1. \A a \in Accounts : map[a] # NoSession => AccountOf[map[a]] = a
      BY <1>2, <1>4
    <3>2. Elements(queue) \subseteq Values(map)
      BY <1>2, <1>5
    <3> QED
      BY <1>2, <1>4, <3>1, <3>2 DEF QueueOfMap
  <2>2. IsFiniteSet(A) /\ Cardinality(A) = count /\ count \in Nat
    BY <2>1, ActiveCount
  <2>3. Limited' \subseteq A
    BY <1>6, <1>9
  <2> HIDE DEF A
  <2>4. /\ IsFiniteSet(Limited') /\ Cardinality(Limited') <= Cardinality(A)
        /\ Cardinality(Limited') \in Nat
    BY <2>2, <2>3, FS_Subset, FS_CardinalityType
  <2> HIDE DEF count
  <2>5. count <= m_playerLimit
    BY <1>9, <2>2
  <2> QED
    BY <2>2, <2>4, <2>5
<1> QED
  BY <1>1, <1>7, <1>8, <1>9

(* There is a limit to keep: the world is not closing, and there is a hard *)
(* limit and a player limit.                                               *)
Regulated ==
  /\ config.hardLimit > 0 /\ ~closing
  /\ config.playerLimit > 0 \/ config.perTick > 0

Above == IF config.perTick > 1 THEN 1 ELSE 0

(* A session that leaves can take the world one above m_playerLimit, which *)
(* is within the hard limit whenever sessions are let in.                  *)
LimitInv ==
  Regulated =>
    /\ IF phase \in {"idle", "kicked"}
       THEN m_playerLimit > 0 \/ (config.perTick > 0 /\ InMap = {})
       ELSE m_playerLimit \in 1 .. config.hardLimit
    /\ Cardinality(Limited) <= m_playerLimit + 1
    /\ Cardinality(Limited) <= config.hardLimit + Above

LEMMA LimitedFinite ==
  ASSUME QueueOfMap(m_sessions, m_QueuedSessions)
  PROVE  /\ InMap = Values(m_sessions)
         /\ IsFiniteSet(Limited) /\ Cardinality(Limited) \in Nat
         /\ GetActiveSessionCount \in Nat
         /\ Cardinality(Limited) <= GetActiveSessionCount
<1> DEFINE A == Values(m_sessions) \ Elements(m_QueuedSessions)
<1>1. InMap = Values(m_sessions)
  BY DEF InMap, Values
<1>2. /\ IsFiniteSet(A) /\ Cardinality(A) = GetActiveSessionCount
      /\ GetActiveSessionCount \in Nat
  BY ActiveCount DEF GetActiveSessionCount
<1>3. Limited \subseteq A
  BY <1>1 DEF Limited
<1> HIDE DEF A
<1>4. IsFiniteSet(Limited) /\ Cardinality(Limited) <= Cardinality(A)
  BY <1>2, <1>3, FS_Subset
<1> QED
  BY <1>1, <1>2, <1>4, FS_CardinalityType

(* The front of the queue enters: so many more, at most, are in the world. *)
LEMMA FrontLimited ==
  ASSUME QueueOfMap(m_sessions, m_QueuedSessions), NEW n \in Nat,
         n <= Len(m_QueuedSessions), UNCHANGED <<m_sessions, skipped>>,
         m_QueuedSessions' = SubSeq(m_QueuedSessions, n + 1, Len(m_QueuedSessions))
  PROVE  /\ Cardinality(Limited') \in Nat
         /\ Cardinality(Limited') <= Cardinality(Limited) + n
         /\ Cardinality(Limited') <= GetActiveSessionCount + n
<1> DEFINE q == m_QueuedSessions
<1> DEFINE f == {m_QueuedSessions[i] : i \in 1 .. n}
<1> DEFINE A == Values(m_sessions) \ Elements(q)
<1>1. q \in Seq(WorldSessions) /\ Injective(q) /\ n \in 0 .. Len(q)
  BY DEF QueueOfMap
<1>2. Elements(m_QueuedSessions') = Elements(q) \ f
  BY <1>1, SubSeqElements, SMTT(30)
<1>3. IsFiniteSet(f) /\ Cardinality(f) \in Nat /\ Cardinality(f) <= n
  BY <1>1, FrontCount
<1>4. InMap = Values(m_sessions) /\ InMap' = InMap
  BY DEF InMap, Values
<1> HIDE DEF f
<1>5. Limited' = (InMap \ (Elements(q) \ f)) \ skipped
  BY <1>2, <1>4 DEF Limited, Elements
<1>6. /\ IsFiniteSet(A) /\ Cardinality(A) = GetActiveSessionCount
      /\ IsFiniteSet(Limited) /\ Cardinality(Limited) \in Nat
      /\ Cardinality(A) \in Nat
  BY ActiveCount, LimitedFinite DEF GetActiveSessionCount
<1>7. Limited' \subseteq Limited \cup f /\ Limited' \subseteq A \cup f
  BY <1>4, <1>5 DEF Limited
<1> HIDE DEF A
<1>8. ASSUME NEW S, IsFiniteSet(S), Cardinality(S) \in Nat, Limited' \subseteq S \cup f
      PROVE  /\ Cardinality(Limited') \in Nat
             /\ Cardinality(Limited') <= Cardinality(S) + n
  <2>1. /\ IsFiniteSet(S \cup f)
        /\ Cardinality(S \cup f) = Cardinality(S) + Cardinality(f) - Cardinality(S \cap f)
    BY <1>3, <1>8, FS_Union
  <2>2. Cardinality(S \cap f) \in Nat
    BY <1>8, FS_Subset, FS_CardinalityType
  <2>3. /\ IsFiniteSet(Limited') /\ Cardinality(Limited') \in Nat
        /\ Cardinality(Limited') <= Cardinality(S \cup f)
    BY <1>8, <2>1, FS_Subset, FS_CardinalityType
  <2> QED
    BY <1>3, <1>8, <2>1, <2>2, <2>3
<1> QED
  BY <1>6, <1>7, <1>8

(* UpdateSessions raises the limit and lets the front of the queue in.     *)
LEMMA RaiseLimited ==
  ASSUME config \in Configs, QueueOfMap(m_sessions, m_QueuedSessions),
         m_playerLimit \in Nat, UpdateLimit, UNCHANGED <<m_sessions, skipped>>,
         config.hardLimit > 0,
         m_playerLimit > 0 \/ (config.perTick > 0 /\ InMap = {}),
         Cardinality(Limited) <= m_playerLimit + 1,
         Cardinality(Limited) <= config.hardLimit + Above
  PROVE  /\ m_playerLimit' \in 1 .. config.hardLimit
         /\ Cardinality(Limited') <= m_playerLimit' + 1
         /\ Cardinality(Limited') <= config.hardLimit + Above
<1> DEFINE h == config.hardLimit
<1> DEFINE p == config.perTick
<1> DEFINE N == GetActiveSessionCount
<1> DEFINE u == Cardinality(Limited)
<1> DEFINE u1 == Cardinality(Limited')
<1> DEFINE limit == IF h # 0 THEN Least(h, m_playerLimit) ELSE m_playerLimit
<1> DEFINE raised == Least(limit, N) + p
<1> DEFINE tooMany == h # 0 /\ raised > h
<1> DEFINE accept == IF tooMany THEN 0 ELSE Least(p, Len(m_QueuedSessions))
<1>1. h \in Nat \ {0} /\ p \in Nat
  BY ConfigTypes
<1>2. N \in Nat /\ u \in Nat /\ u <= N /\ InMap = Values(m_sessions)
  BY LimitedFinite
<1>3. Len(m_QueuedSessions) \in Nat
  BY DEF QueueOfMap
<1>4. limit = Least(h, m_playerLimit)
  BY <1>1
<1>5. Above = IF p > 1 THEN 1 ELSE 0
  BY DEF Above
<1>6. \/ /\ N < h /\ p > 0
         /\ m_playerLimit' = IF tooMany THEN h ELSE raised
         /\ m_QueuedSessions' =
              SubSeq(m_QueuedSessions, accept + 1, Len(m_QueuedSessions))
      \/ /\ ~ (N < h /\ p > 0)
         /\ m_playerLimit' = limit /\ UNCHANGED m_QueuedSessions
  BY DEF UpdateLimit
<1>7. ASSUME NEW n \in Nat, n <= Len(m_QueuedSessions),
             m_QueuedSessions' = SubSeq(m_QueuedSessions, n + 1, Len(m_QueuedSessions))
      PROVE  u1 \in Nat /\ u1 <= u + n /\ u1 <= N + n
  BY <1>7, FrontLimited
<1>8. ASSUME UNCHANGED m_QueuedSessions PROVE u1 = u
  BY <1>8 DEF Limited, InMap, Elements
<1>9. ASSUME m_playerLimit = 0 PROVE N = 0
  <2>1. Values(m_sessions) = {}
    BY <1>2, <1>9
  <2>2. Cardinality(Values(m_sessions)) = 0
    BY <2>1, FS_EmptySet
  <2>3. Size(m_sessions) = 0
    BY <2>2, MapCount
  <2> QED
    BY <1>2, <1>3, <2>3 DEF GetActiveSessionCount
<1> DEFINE L == m_playerLimit
<1>10. L \in Nat /\ u <= L + 1 /\ u <= h + Above /\ (L > 0 \/ p > 0)
  OBVIOUS
<1> HIDE DEF h, p, N, u, u1, L
<1>11. limit \in Nat /\ limit <= h /\ limit <= L /\ (limit = h \/ limit = L)
  BY <1>1, <1>4, <1>10 DEF Least, L
<1> HIDE DEF limit
<1>12. CASE ~ (N < h /\ p > 0) /\ m_playerLimit' = limit /\ UNCHANGED m_QueuedSessions
  <2>1. L # 0
    BY <1>1, <1>9, <1>10, <1>12 DEF L
  <2>2. limit \in 1 .. h
    BY <1>1, <1>10, <1>11, <2>1
  <2>3. u1 = u
    BY <1>8, <1>12
  <2>4. u <= limit + 1
    BY <1>1, <1>2, <1>5, <1>10, <1>11
  <2> QED
    BY <1>10, <1>12, <2>2, <2>3, <2>4 DEF h, u1
<1>13. CASE /\ N < h /\ p > 0
            /\ m_playerLimit' = IF tooMany THEN h ELSE raised
            /\ m_QueuedSessions' =
                 SubSeq(m_QueuedSessions, accept + 1, Len(m_QueuedSessions))
  <2>1. /\ raised \in Nat /\ raised > 0
        /\ raised = (IF limit <= N THEN limit ELSE N) + p
    BY <1>1, <1>2, <1>11, <1>13 DEF Least
  <2> HIDE DEF raised
  <2>2. CASE raised > h
    <3>1. tooMany /\ accept = 0
      BY <1>1, <2>2
    <3> HIDE DEF accept
    <3>2. u1 \in Nat /\ u1 <= u
      BY <1>2, <1>3, <1>7, <1>13, <3>1
    <3>3. m_playerLimit' = h
      BY <1>13, <3>1
    <3>4. u1 <= h /\ u1 <= h + Above
      BY <1>1, <1>2, <1>5, <1>13, <3>2
    <3> QED
      BY <1>1, <3>2, <3>3, <3>4 DEF h, u1
  <2>3. CASE ~ (raised > h)
    <3>1. ~tooMany
      BY <2>3
    <3>2. accept \in Nat /\ accept <= p /\ accept <= Len(m_QueuedSessions)
      BY <1>1, <1>3, <3>1 DEF Least
    <3> HIDE DEF accept
    <3>3. u1 \in Nat /\ u1 <= u + p /\ u1 <= N + p
      <4>1. u1 \in Nat /\ u1 <= u + accept /\ u1 <= N + accept
        BY <1>7, <1>13, <3>2
      <4> QED
        BY <1>1, <1>2, <3>2, <4>1
    <3>4. m_playerLimit' = raised /\ raised \in 1 .. h
      BY <1>1, <1>13, <2>1, <2>3, <3>1
    <3>5. u1 <= raised + 1
      <4>1. CASE limit <= N
        <5>1. limit = L
          BY <1>1, <1>2, <1>11, <1>13, <4>1
        <5> QED
          BY <1>1, <1>2, <1>10, <2>1, <3>3, <4>1, <5>1
      <4>2. CASE ~ (limit <= N)
        BY <1>1, <1>2, <2>1, <3>3, <4>2
      <4> QED
        BY <4>1, <4>2
    <3>6. u1 <= h + Above
      <4>1. CASE p > 1
        BY <1>1, <1>5, <3>3, <3>4, <3>5, <4>1
      <4>2. CASE ~ (p > 1)
        <5>1. p = 1
          BY <1>1, <1>13, <4>2
        <5> QED
          BY <1>1, <1>2, <1>5, <1>13, <3>3, <5>1
      <4> QED
        BY <4>1, <4>2
    <3> QED
      BY <3>4, <3>5, <3>6 DEF h, u1
  <2> QED
    BY <2>2, <2>3
<1> QED
  BY <1>6, <1>12, <1>13

LEMMA LimitStep ==
  ASSUME TypeOK, TypeOK', Held, QueueInv, LimitInv, [Next]_vars
  PROVE  LimitInv'
<1> USE SessionsAssumption
<1>1. AdmissionTypes /\ ControlTypes
  BY TypeParts
<1>2. QueueOfMap(m_sessions, m_QueuedSessions)
  BY <1>1 DEF QueueOfMap, Values, InMap, AdmissionTypes, Held,
     EverySessionHeld, QueueInv, QueueIsSound
<1>3. /\ InMap = Values(m_sessions) /\ IsFiniteSet(Limited)
      /\ Cardinality(Limited) \in Nat
  BY <1>2, LimitedFinite
<1>4. /\ config \in Configs /\ config.hardLimit \in Nat
      /\ m_playerLimit \in Nat /\ Above \in {0, 1}
  BY <1>1, ConfigTypes DEF ControlTypes, AdmissionTypes, Above
<1>5. ASSUME UNCHANGED config, Regulated', closing = closing' \/ ~closing
      PROVE  /\ Regulated /\ Above' = Above
             /\ IF phase \in {"idle", "kicked"}
                THEN m_playerLimit > 0 \/ (config.perTick > 0 /\ InMap = {})
                ELSE m_playerLimit \in 1 .. config.hardLimit
             /\ Cardinality(Limited) <= m_playerLimit + 1
             /\ Cardinality(Limited) <= config.hardLimit + Above
  BY <1>5 DEF Regulated, Above, LimitInv
(* Who is in the world, and the limit, stay.                               *)
<1>6. ASSUME UNCHANGED <<config, m_sessions, m_QueuedSessions, skipped, m_playerLimit>>,
             closing = closing' \/ ~closing,
             phase' = phase \/ phase \notin {"idle", "kicked"}
      PROVE  LimitInv'
  <2>1. Limited' = Limited /\ InMap' = InMap
    BY <1>6 DEF Limited, InMap, Elements
  <2>2. SUFFICES ASSUME Regulated'
                 PROVE  /\ IF phase' \in {"idle", "kicked"}
                           THEN \/ m_playerLimit' > 0
                                \/ config.perTick' > 0 /\ InMap' = {}
                           ELSE m_playerLimit' \in 1 .. config.hardLimit'
                        /\ Cardinality(Limited') <= m_playerLimit' + 1
                        /\ Cardinality(Limited') <= config.hardLimit' + Above'
    BY DEF LimitInv
  <2>3. /\ Above' = Above
        /\ IF phase \in {"idle", "kicked"}
           THEN m_playerLimit > 0 \/ (config.perTick > 0 /\ InMap = {})
           ELSE m_playerLimit \in 1 .. config.hardLimit
        /\ Cardinality(Limited) <= m_playerLimit + 1
        /\ Cardinality(Limited) <= config.hardLimit + Above
    BY <1>5, <1>6, <2>2
  <2>4. m_playerLimit \in 1 .. config.hardLimit => m_playerLimit > 0
    BY <1>4
  <2> QED
    BY <1>6, <2>1, <2>3, <2>4
(* Fewer or few enough are in the world while sessions come and go.        *)
<1>7. ASSUME UNCHANGED <<config, phase, closing, m_playerLimit>>,
             phase \in {"inbox", "update"},
             m_playerLimit \in Nat \ {0} =>
               \/ Limited' \subseteq Limited
               \/ /\ IsFiniteSet(Limited')
                  /\ Cardinality(Limited') <= m_playerLimit
               \/ /\ IsFiniteSet(Limited')
                  /\ Cardinality(Limited') <= config.hardLimit
                  /\ Cardinality(Limited') <= m_playerLimit + 1
      PROVE  LimitInv'
  <2>1. SUFFICES ASSUME Regulated'
                 PROVE  /\ m_playerLimit' \in 1 .. config.hardLimit'
                        /\ Cardinality(Limited') <= m_playerLimit' + 1
                        /\ Cardinality(Limited') <= config.hardLimit' + Above'
    BY <1>7 DEF LimitInv
  <2>2. /\ Above' = Above /\ m_playerLimit \in 1 .. config.hardLimit
        /\ Cardinality(Limited) <= m_playerLimit + 1
        /\ Cardinality(Limited) <= config.hardLimit + Above
    BY <1>5, <1>7, <2>1
  <2>3. m_playerLimit \in Nat \ {0} /\ m_playerLimit <= config.hardLimit
    BY <1>4, <2>2
  <2>4. IsFiniteSet(Limited') => Cardinality(Limited') \in Nat
    BY FS_CardinalityType
  <2> DEFINE u1 == Cardinality(Limited')
  <2>5. /\ u1 <= m_playerLimit + 1
        /\ u1 <= config.hardLimit + Above
    <3>1. CASE Limited' \subseteq Limited
      <4>1. IsFiniteSet(Limited') /\ u1 <= Cardinality(Limited)
        BY <1>3, <3>1, FS_Subset
      <4>2. u1 \in Nat
        BY <2>4, <4>1
      <4> HIDE DEF u1
      <4> QED
        BY <1>3, <1>4, <2>2, <2>3, <4>1, <4>2
    <3>2. CASE IsFiniteSet(Limited') /\ u1 <= m_playerLimit
      <4>1. u1 \in Nat
        BY <2>4, <3>2
      <4> HIDE DEF u1
      <4> QED
        BY <1>4, <2>3, <3>2, <4>1
    <3>3. CASE /\ IsFiniteSet(Limited') /\ u1 <= config.hardLimit
               /\ u1 <= m_playerLimit + 1
      <4>1. u1 \in Nat
        BY <2>4, <3>3
      <4> HIDE DEF u1
      <4> QED
        BY <1>4, <3>3, <4>1
    <3> QED
      BY <1>7, <2>3, <3>1, <3>2, <3>3
  <2> QED
    BY <1>7, <2>2, <2>5
(* s leaves the map.                                                       *)
<1>8. ASSUME NEW s \in WorldSessions, Visiting(s), Visited(s),
             m_sessions' = [m_sessions EXCEPT ![AccountOf[s]] = NoSession]
      PROVE  /\ s \in InMap /\ InMap' = InMap \ {s}
             /\ UNCHANGED <<config, phase, closing>> /\ phase = "update"
  <2>1. Mapped(s) /\ s \in InMap
    BY <1>1, <1>8, InMapIsMapped DEF Held, VisitInv, Visiting, EverySessionHeld
  <2>2. InMap' = InMap \ {s}
    <3>1. m_sessions \in [Accounts -> WorldSessions \cup {NoSession}]
      BY <1>1 DEF AdmissionTypes
    <3>2. \A a \in Accounts :
            m_sessions'[a] = IF a = AccountOf[s] THEN NoSession ELSE m_sessions[a]
      BY <1>8, <3>1
    <3>3. \A a \in Accounts :
            m_sessions[a] = s => a = AccountOf[s]
      BY DEF Held, EverySessionHeld
    <3>4. ASSUME NEW x \in InMap' PROVE x \in InMap \ {s}
      <4>1. PICK a \in Accounts : x = m_sessions'[a] /\ x # NoSession
        BY DEF InMap
      <4> QED
        BY <3>2, <3>3, <4>1, <2>1 DEF InMap, Mapped
    <3>5. ASSUME NEW x \in InMap, x # s PROVE x \in InMap'
      <4>1. PICK a \in Accounts : x = m_sessions[a] /\ x # NoSession
        BY DEF InMap
      <4>2. m_sessions'[a] = x
        BY <2>1, <3>2, <3>5, <4>1 DEF Mapped
      <4> QED
        BY <4>1, <4>2 DEF InMap
    <3> QED
      BY <3>4, <3>5
  <2> QED
    BY <1>8, <2>1, <2>2 DEF Visiting, Visited
<1>9. ASSUME NEW s \in WorldSessions, Visiting(s), RemoveFromMap(s), Visited(s)
      PROVE  LimitInv'
  <2> DEFINE W == (InMap \ {s}) \ Elements(RemoveQueuedSession(s).queue)
  <2>1. /\ s \in InMap /\ InMap' = InMap \ {s}
        /\ UNCHANGED <<config, phase, closing>> /\ phase = "update"
    BY <1>8, <1>9 DEF RemoveFromMap
  <2>2. /\ m_QueuedSessions' = RemoveQueuedSession(s).queue
        /\ UNCHANGED <<m_playerLimit, skipped>>
    BY <1>9 DEF RemoveFromMap
  <2>3. Limited' = W \ skipped
    BY <2>1, <2>2 DEF Limited, Elements
  <2>4. ASSUME m_playerLimit \in Nat \ {0}
        PROVE  \/ W \subseteq InMap \ Elements(m_QueuedSessions)
               \/ /\ IsFiniteSet(W)
                  /\ Cardinality(W) <= config.hardLimit
                  /\ Cardinality(W) <= m_playerLimit + 1
    BY <1>2, <1>4, <2>1, <2>4, RemovedLimited
  <2> HIDE DEF W
  <2>5. ASSUME IsFiniteSet(W), NEW n \in Nat, Cardinality(W) <= n
        PROVE  IsFiniteSet(Limited') /\ Cardinality(Limited') <= n
    <3>1. Limited' \subseteq W
      BY <2>3
    <3>2. /\ IsFiniteSet(Limited') /\ Cardinality(Limited') <= Cardinality(W)
      BY <2>5, <3>1, FS_Subset
    <3>3. Cardinality(W) \in Nat /\ Cardinality(Limited') \in Nat
      BY <2>5, <3>2, FS_CardinalityType
    <3> QED
      BY <2>5, <3>2, <3>3
  <2>6. m_playerLimit \in Nat \ {0} =>
          \/ Limited' \subseteq Limited
          \/ /\ IsFiniteSet(Limited')
             /\ Cardinality(Limited') <= config.hardLimit
             /\ Cardinality(Limited') <= m_playerLimit + 1
    <3> SUFFICES ASSUME m_playerLimit \in Nat \ {0}
                 PROVE  \/ Limited' \subseteq Limited
                        \/ /\ IsFiniteSet(Limited')
                           /\ Cardinality(Limited') <= config.hardLimit
                           /\ Cardinality(Limited') <= m_playerLimit + 1
      OBVIOUS
    <3>1. CASE W \subseteq InMap \ Elements(m_QueuedSessions)
      BY <2>3, <3>1 DEF Limited
    <3>2. CASE /\ IsFiniteSet(W)
               /\ Cardinality(W) <= config.hardLimit
               /\ Cardinality(W) <= m_playerLimit + 1
      <4>1. config.hardLimit \in Nat /\ m_playerLimit + 1 \in Nat
        BY <1>4
      <4> QED
        BY <2>5, <3>2, <4>1
    <3> QED
      BY <2>4, <3>1, <3>2
  <2> QED
    BY <1>7, <2>1, <2>2, <2>6
<1>10. ASSUME NEW s \in WorldSessions, CharacterScreenIdleKick(s) PROVE LimitInv'
  BY <1>9, <1>10 DEF CharacterScreenIdleKick
<1>11. ASSUME NEW s \in WorldSessions, LoseClient(s) PROVE LimitInv'
  <2>1. CASE MayLinger(s)
    <3>1. /\ m_sessions' = [m_sessions EXCEPT ![AccountOf[s]] = NoSession]
          /\ UNCHANGED <<m_QueuedSessions, m_playerLimit, skipped>>
          /\ Visiting(s) /\ Visited(s)
      BY <1>11, <2>1 DEF LoseClient
    <3>2. /\ InMap' = InMap \ {s}
          /\ UNCHANGED <<config, phase, closing>> /\ phase = "update"
      BY <1>8, <3>1
    <3>3. Limited' \subseteq Limited
      BY <3>1, <3>2 DEF Limited, Elements
    <3> QED
      BY <1>7, <3>1, <3>2, <3>3
  <2>2. CASE ~MayLinger(s)
    BY <1>9, <1>11, <2>2 DEF LoseClient
  <2> QED
    BY <2>1, <2>2
<1>12. CASE AddFirstSession
  <2> DEFINE s == Head(addSessQueue)
  <2>1. /\ s \in WorldSessions /\ Waits(s)
    BY <1>1, <1>12, TailElements DEF AddFirstSession, AdmissionTypes, Waits
  <2>2. s \notin InMap
    BY <1>1, <2>1, InMapIsMapped DEF Held, EverySessionHeld
  <2>3. /\ phase = "inbox" /\ m_sessions[AccountOf[s]] = NoSession
        /\ Admit(s, m_QueuedSessions, {}, TRUE)
        /\ UNCHANGED <<config, phase, closing>>
    BY <1>12 DEF AddFirstSession, control
  <2>4. NoSession \notin InMap /\ NoSession \notin Elements(m_QueuedSessions)
    BY <1>2, <1>3 DEF QueueOfMap, InMap
  <2>5. UNCHANGED m_playerLimit
    BY <2>3 DEF Admit
  <2> HIDE DEF s
  <2>6. ASSUME m_playerLimit \in Nat \ {0}
        PROVE  \/ Limited' \subseteq ((InMap \ {NoSession}) \ Elements(m_QueuedSessions)) \ skipped
               \/ IsFiniteSet(Limited') /\ Cardinality(Limited') <= m_playerLimit
    BY <1>2, <2>1, <2>2, <2>3, <2>4, <2>6, AdmitLimited
  <2>7. m_playerLimit \in Nat \ {0} =>
          \/ Limited' \subseteq Limited
          \/ IsFiniteSet(Limited') /\ Cardinality(Limited') <= m_playerLimit
    BY <2>4, <2>6 DEF Limited
  <2> QED
    BY <1>7, <2>3, <2>5, <2>7
<1>13. CASE ReplaceSession
  <2> DEFINE s == Head(addSessQueue)
  <2> DEFINE old == m_sessions[AccountOf[s]]
  <2> DEFINE r == RemoveQueuedSession(old)
  <2> DEFINE W == (InMap \ {old}) \ Elements(r.queue)
  <2>1. /\ s \in WorldSessions /\ Waits(s)
        /\ old \in WorldSessions /\ old # NoSession
    BY <1>1, <1>13, TailElements DEF ReplaceSession, AdmissionTypes, Waits
  <2>2. s \notin InMap
    BY <1>1, <2>1, InMapIsMapped DEF Held, EverySessionHeld
  <2>3. old \in InMap
    BY <2>1 DEF InMap
  <2>4. /\ phase = "inbox" /\ Admit(s, r.queue, r.leave, ~r.found)
        /\ UNCHANGED <<config, phase, closing>>
    BY <1>13 DEF ReplaceSession, control
  <2>5. /\ r.queue \in Seq(WorldSessions) /\ Injective(r.queue)
        /\ old \in r.leave /\ Elements(r.queue) = Elements(m_QueuedSessions) \ r.leave
    BY <1>2, <2>1, RemoveQueued DEF QueueOfMap
  <2>6. r.found \in BOOLEAN
    BY DEF RemoveQueuedSession
  <2>7. UNCHANGED m_playerLimit
    BY <2>4 DEF Admit
  <2>8. m_playerLimit \in Nat \ {0} =>
               \/ W \subseteq InMap \ Elements(m_QueuedSessions)
               \/ /\ IsFiniteSet(W)
                  /\ Cardinality(W) <= config.hardLimit
                  /\ Cardinality(W) <= m_playerLimit + 1
    BY <1>2, <1>4, <2>3, RemovedLimited
  <2> HIDE DEF s, r, old
  <2>9. QueueOfMap(m_sessions, r.queue) /\ old \notin Elements(r.queue)
    BY <1>2, <2>5 DEF QueueOfMap
  <2>10. ASSUME m_playerLimit \in Nat \ {0}
         PROVE  \/ Limited' \subseteq ((InMap \ {old}) \ Elements(r.queue)) \ skipped
                \/ IsFiniteSet(Limited') /\ Cardinality(Limited') <= m_playerLimit
    <3>1. (~r.found) \in BOOLEAN
      OBVIOUS
    <3> QED
      BY <2>1, <2>2, <2>4, <2>9, <2>10, <3>1, AdmitLimited DEF old
  <2> HIDE DEF W
  <2>11. ASSUME Limited' \subseteq W \ skipped, IsFiniteSet(W), NEW n \in Nat,
                Cardinality(W) <= n
         PROVE  IsFiniteSet(Limited') /\ Cardinality(Limited') <= n
    <3>1. Limited' \subseteq W
      BY <2>11
    <3>2. IsFiniteSet(Limited') /\ Cardinality(Limited') <= Cardinality(W)
      BY <2>11, <3>1, FS_Subset
    <3>3. Cardinality(W) \in Nat /\ Cardinality(Limited') \in Nat
      BY <2>11, <3>2, FS_CardinalityType
    <3> QED
      BY <2>11, <3>2, <3>3
  <2>12. m_playerLimit \in Nat \ {0} =>
           \/ Limited' \subseteq Limited
           \/ IsFiniteSet(Limited') /\ Cardinality(Limited') <= m_playerLimit
           \/ /\ IsFiniteSet(Limited')
              /\ Cardinality(Limited') <= config.hardLimit
              /\ Cardinality(Limited') <= m_playerLimit + 1
    <3> SUFFICES ASSUME m_playerLimit \in Nat \ {0},
                        ~ (/\ IsFiniteSet(Limited')
                           /\ Cardinality(Limited') <= m_playerLimit)
                 PROVE  \/ Limited' \subseteq Limited
                        \/ /\ IsFiniteSet(Limited')
                           /\ Cardinality(Limited') <= config.hardLimit
                           /\ Cardinality(Limited') <= m_playerLimit + 1
      OBVIOUS
    <3>1. Limited' \subseteq W \ skipped
      BY <2>10 DEF W
    <3>2. CASE W \subseteq InMap \ Elements(m_QueuedSessions)
      BY <3>1, <3>2 DEF Limited
    <3>3. CASE /\ IsFiniteSet(W)
               /\ Cardinality(W) <= config.hardLimit
               /\ Cardinality(W) <= m_playerLimit + 1
      <4>1. config.hardLimit \in Nat /\ m_playerLimit + 1 \in Nat
        BY <1>4
      <4> QED
        BY <2>11, <3>1, <3>3, <4>1
    <3> QED
      BY <2>8, <3>2, <3>3
  <2> QED
    BY <1>7, <2>4, <2>7, <2>12
<1>14. CASE BeginUpdate
  <2>1. /\ UpdateLimit /\ UNCHANGED <<config, closing, m_sessions, skipped>>
        /\ phase \in {"idle", "kicked"} /\ phase' = "inbox"
    BY <1>14 DEF BeginUpdate
  <2>2. SUFFICES ASSUME Regulated'
                 PROVE  /\ m_playerLimit' \in 1 .. config.hardLimit
                        /\ Cardinality(Limited') <= m_playerLimit' + 1
                        /\ Cardinality(Limited') <= config.hardLimit + Above
    BY <2>1 DEF LimitInv, Above
  <2>3. /\ Regulated
        /\ m_playerLimit > 0 \/ (config.perTick > 0 /\ InMap = {})
        /\ Cardinality(Limited) <= m_playerLimit + 1
        /\ Cardinality(Limited) <= config.hardLimit + Above
    BY <1>5, <2>1, <2>2
  <2>4. config.hardLimit > 0
    BY <2>3 DEF Regulated
  <2> QED
    BY <1>2, <1>4, <2>1, <2>3, <2>4, RaiseLimited
<1>15. CASE KickAll
  BY <1>15 DEF KickAll, LimitInv, Regulated
<1>16. ASSUME NEW s \in WorldSessions,
              \/ AddSession(s) \/ CloseSocket(s)
              \/ HandleMoveWorldportAckOpcode(s) \/ UpdateConnected(s)
              \/ UpdateDisconnected(s)
       PROVE  LimitInv'
  BY <1>6, <1>16 DEF AddSession, CloseSocket, HandleMoveWorldportAckOpcode,
     UpdateConnected, UpdateDisconnected, Visited, control, admission
<1>17. ASSUME NEW s \in WorldSessions, NEW c \in Characters,
              HandlePlayerLoginOpcode(s, c)
       PROVE  LimitInv'
  BY <1>6, <1>17 DEF HandlePlayerLoginOpcode, control, admission
<1>18. ASSUME NEW c \in Characters, CharacterNext(c) PROVE LimitInv'
  BY <1>6, <1>18 DEF CharacterNext, Play, AutoSave, TeleportTo,
     ExecuteOperation, control, admission
<1>19. CASE RefuseSession
  BY <1>6, <1>19 DEF RefuseSession, control
<1>20. CASE \/ EndInbox \/ EndSessions \/ EndUpdate \/ EndMaps
            \/ HandlePlayerLoginCallback \/ EndResults \/ StopNow
  BY <1>6, <1>20 DEF EndInbox, EndSessions, EndUpdate, EndMaps,
     HandlePlayerLoginCallback, EndResults, StopNow, control, admission
<1>21. CASE UNCHANGED vars
  BY <1>6, <1>21 DEF vars, control, admission
<1> QED
  BY <1>10, <1>11, <1>12, <1>13, <1>14, <1>15, <1>16, <1>17, <1>18, <1>19,
     <1>20, <1>21
  DEF Next, WorldNext, SessionNext

-----------------------------------------------------------------------------
(* The order of the login queue                                            *)

Ahead(q, x, y) == \E i, j \in DOMAIN q : i < j /\ q[i] = x /\ q[j] = y

(* r holds nothing but what q holds, and in the order of q; y is of no     *)
(* interest any more if it is in gone.                                     *)
OrderKept(q, r, gone) ==
  \A x, y : Ahead(q, x, y) /\ x \in Elements(r) => Ahead(r, x, y) \/ y \in gone

LEMMA FrontKeepsOrder ==
  ASSUME NEW S, NEW q \in Seq(S), Injective(q), NEW n \in 0 .. Len(q)
  PROVE  OrderKept(q, SubSeq(q, n + 1, Len(q)), {})
<1> DEFINE r == SubSeq(q, n + 1, Len(q))
<1> SUFFICES ASSUME NEW x, NEW y, Ahead(q, x, y), x \in Elements(r)
             PROVE  Ahead(r, x, y)
  BY DEF OrderKept
<1>1. Len(q) \in Nat /\ DOMAIN q = 1 .. Len(q)
  OBVIOUS
<1>2. /\ DOMAIN r = 1 .. Len(q) - n
      /\ \A i \in DOMAIN r : r[i] = q[n + i]
  BY <1>1
<1> HIDE DEF r
<1>3. PICK i \in DOMAIN q, j \in DOMAIN q : i < j /\ q[i] = x /\ q[j] = y
  BY DEF Ahead
<1>4. PICK k \in DOMAIN r : r[k] = x
  BY DEF Elements
<1>5. n + k \in DOMAIN q /\ q[n + k] = x
  BY <1>1, <1>2, <1>4
<1>6. i = n + k
  BY <1>3, <1>5 DEF Injective
<1>7. /\ j - n \in DOMAIN r /\ n + (j - n) = j /\ k < j - n
  BY <1>1, <1>2, <1>3, <1>4, <1>6
<1>8. r[j - n] = y
  BY <1>2, <1>3, <1>7
<1> QED
  BY <1>4, <1>7, <1>8 DEF Ahead

LEMMA TailKeepsOrder ==
  ASSUME NEW S, NEW q \in Seq(S), Injective(q), q # <<>>
  PROVE  OrderKept(q, Tail(q), {})
<1>1. Len(q) \in Nat \ {0}
  BY EmptySeq
<1>2. 1 \in 0 .. Len(q) /\ Tail(q) = SubSeq(q, 1 + 1, Len(q))
  BY <1>1
<1> QED
  BY <1>2, FrontKeepsOrder

LEMMA AppendKeepsOrder ==
  ASSUME NEW S, NEW q \in Seq(S), NEW s \in S, NEW x, NEW y, Ahead(q, x, y)
  PROVE  Ahead(Append(q, s), x, y)
<1> DEFINE r == Append(q, s)
<1>1. /\ DOMAIN q \subseteq DOMAIN r
      /\ \A i \in DOMAIN q : r[i] = q[i]
  OBVIOUS
<1> HIDE DEF r
<1>2. PICK i \in DOMAIN q, j \in DOMAIN q : i < j /\ q[i] = x /\ q[j] = y
  BY DEF Ahead
<1>3. i \in DOMAIN r /\ j \in DOMAIN r /\ r[i] = x /\ r[j] = y
  BY <1>1, <1>2
<1>4. Ahead(r, x, y)
  BY <1>2, <1>3 DEF Ahead
<1> QED
  BY <1>4 DEF r

(* Whoever enters the queue enters it at the end.                          *)
LEMMA ArrivalKeepsOrder ==
  ASSUME NEW S, NEW q, NEW r \in Seq(S), NEW s \in S, NEW gone,
         OrderKept(q, r, gone), s \notin Elements(q)
  PROVE  OrderKept(q, Append(r, s), gone)
<1> SUFFICES ASSUME NEW x, NEW y, Ahead(q, x, y), x \in Elements(Append(r, s))
             PROVE  Ahead(Append(r, s), x, y) \/ y \in gone
  BY DEF OrderKept
<1>1. x # s
  BY DEF Ahead, Elements
<1>2. Elements(Append(r, s)) = Elements(r) \cup {s}
  BY AppendElements
<1>3. Ahead(r, x, y) \/ y \in gone
  BY <1>1, <1>2 DEF OrderKept
<1> QED
  BY <1>3, AppendKeepsOrder

LEMMA WithoutKeepsOrder ==
  ASSUME NEW S, NEW q \in Seq(S), Injective(q), NEW s
  PROVE  OrderKept(q, Without(q, s), {s})
<1> DEFINE r == Without(q, s)
<1> SUFFICES ASSUME NEW x, NEW y, Ahead(q, x, y), x \in Elements(r), y # s
             PROVE  Ahead(r, x, y)
  BY DEF OrderKept
<1>1. CASE s \notin Elements(q)
  BY <1>1 DEF Without
<1>2. CASE s \in Elements(q)
  <2> DEFINE p == CHOOSE i \in DOMAIN q : q[i] = s
  <2>1. p \in DOMAIN q /\ q[p] = s
    BY <1>2 DEF Elements
  <2>2. r = EraseAt(q, p)
    BY <1>2 DEF Without
  <2>3. x # s
    BY WithoutElements
  <2> HIDE DEF p, r
  <2>4. Len(q) \in Nat /\ DOMAIN q = 1 .. Len(q)
    OBVIOUS
  <2>5. /\ DOMAIN r = 1 .. Len(q) - 1
        /\ \A k \in DOMAIN r : r[k] = IF k < p THEN q[k] ELSE q[k + 1]
    BY <2>2 DEF EraseAt
  <2>6. ASSUME NEW i \in DOMAIN q, i # p
        PROVE  LET k == IF i < p THEN i ELSE i - 1
               IN k \in DOMAIN r /\ r[k] = q[i]
    <3>1. CASE i < p
      BY <2>1, <2>4, <2>5, <3>1
    <3>2. CASE ~ (i < p)
      <4>1. i - 1 \in DOMAIN r /\ ~ (i - 1 < p) /\ (i - 1) + 1 = i
        BY <2>1, <2>4, <2>5, <2>6, <3>2
      <4>2. r[i - 1] = q[i]
        BY <2>5, <4>1
      <4> QED
        BY <3>2, <4>1, <4>2
    <3> QED
      BY <3>1, <3>2
  <2>7. PICK i \in DOMAIN q, j \in DOMAIN q : i < j /\ q[i] = x /\ q[j] = y
    BY DEF Ahead
  <2>8. i # p /\ j # p
    BY <2>1, <2>3, <2>7
  <2> DEFINE k == IF i < p THEN i ELSE i - 1
  <2> DEFINE l == IF j < p THEN j ELSE j - 1
  <2>9. k \in DOMAIN r /\ r[k] = x /\ l \in DOMAIN r /\ r[l] = y
    BY <2>6, <2>7, <2>8
  <2>10. k < l
    BY <2>1, <2>4, <2>7, <2>8
  <2> QED
    BY <2>9, <2>10 DEF Ahead
<1> QED
  BY <1>1, <1>2

(* RemoveQueuedSession(s) takes s and perhaps the first out.               *)
LEMMA RemovalKeepsOrder ==
  ASSUME m_QueuedSessions \in Seq(WorldSessions), Injective(m_QueuedSessions),
         NEW s \in WorldSessions
  PROVE  OrderKept(m_QueuedSessions, RemoveQueuedSession(s).queue, {s})
<1> DEFINE q == Without(m_QueuedSessions, s)
<1> DEFINE r == RemoveQueuedSession(s).queue
<1>1. /\ q \in Seq(WorldSessions) /\ Injective(q)
      /\ OrderKept(m_QueuedSessions, q, {s})
  BY WithoutElements, WithoutKeepsOrder
<1>2. r = q \/ (q # <<>> /\ r = Tail(q))
  BY DEF RemoveQueuedSession
<1> HIDE DEF q, r
<1>3. CASE r = q
  BY <1>1, <1>3 DEF r
<1>4. CASE q # <<>> /\ r = Tail(q)
  <2>1. OrderKept(q, r, {}) /\ Elements(r) \subseteq Elements(q)
    BY <1>1, <1>4, TailElements, TailKeepsOrder
  <2>2. OrderKept(m_QueuedSessions, r, {s})
    BY <1>1, <2>1 DEF OrderKept
  <2> QED
    BY <2>2 DEF r
<1> QED
  BY <1>2, <1>3, <1>4

(* Of two sessions in the login queue the one behind does not come before  *)
(* the other: as long as the first waits, the second waits behind it or    *)
(* has left.                                                               *)
NobodyPasses ==
  \A x, y \in WorldSessions :
    Ahead(m_QueuedSessions, x, y) /\ x \in Elements(m_QueuedSessions') =>
      Ahead(m_QueuedSessions', x, y) \/ y \notin InMap'

LEMMA QueueOrderStep ==
  ASSUME TypeOK, Held, FreshInv, QueueInv, [Next]_vars
  PROVE  NobodyPasses
<1> USE SessionsAssumption
<1> DEFINE q == m_QueuedSessions
<1>1. AdmissionTypes /\ ControlTypes
  BY TypeParts
<1>2. q \in Seq(WorldSessions) /\ Injective(q) /\ Elements(q) \subseteq InMap
  BY <1>1 DEF AdmissionTypes, QueueInv, QueueIsSound
<1>3. ASSUME UNCHANGED q PROVE NobodyPasses
  BY <1>3 DEF NobodyPasses
<1>4. ASSUME NEW gone, OrderKept(q, m_QueuedSessions', gone),
             \A y \in gone : y \notin InMap'
      PROVE  NobodyPasses
  BY <1>4 DEF NobodyPasses, OrderKept
(* s leaves the map.                                                       *)
<1>5. ASSUME NEW s \in WorldSessions, Mapped(s), NEW t, t # s,
             m_sessions' = [m_sessions EXCEPT ![AccountOf[s]] = t]
      PROVE  s \notin InMap'
  <2>1. /\ m_sessions \in [Accounts -> WorldSessions \cup {NoSession}]
        /\ \A a \in Accounts : m_sessions[a] = s => a = AccountOf[s]
    BY <1>1 DEF AdmissionTypes, Held, EverySessionHeld
  <2>2. \A a \in Accounts :
          m_sessions'[a] = IF a = AccountOf[s] THEN t ELSE m_sessions[a]
    BY <1>5, <2>1
  <2> QED
    BY <1>5, <2>1, <2>2 DEF InMap
<1>6. ASSUME NEW s \in WorldSessions, Visiting(s), RemoveFromMap(s)
      PROVE  NobodyPasses
  <2>1. Mapped(s)
    BY <1>1, <1>6, InMapIsMapped DEF Held, VisitInv, Visiting, EverySessionHeld
  <2>2. /\ m_sessions' = [m_sessions EXCEPT ![AccountOf[s]] = NoSession]
        /\ m_QueuedSessions' = RemoveQueuedSession(s).queue
    BY <1>6 DEF RemoveFromMap
  <2>3. s \notin InMap'
    BY <1>5, <2>1, <2>2
  <2>4. OrderKept(q, m_QueuedSessions', {s})
    BY <1>2, <2>2, RemovalKeepsOrder
  <2> QED
    BY <1>4, <2>3, <2>4
<1>7. ASSUME NEW s \in WorldSessions, CharacterScreenIdleKick(s) PROVE NobodyPasses
  BY <1>6, <1>7 DEF CharacterScreenIdleKick
<1>8. ASSUME NEW s \in WorldSessions, LoseClient(s) PROVE NobodyPasses
  BY <1>3, <1>6, <1>8 DEF LoseClient
<1>9. ASSUME addSessQueue # <<>>
       PROVE  LET s == Head(addSessQueue)
              IN s \in WorldSessions /\ Waits(s) /\ s \notin InMap
  <2>1. Head(addSessQueue) \in WorldSessions /\ Waits(Head(addSessQueue))
    BY <1>1, <1>9, TailElements DEF AdmissionTypes, Waits
  <2> QED
    BY <1>1, <2>1, InMapIsMapped DEF Held, EverySessionHeld
<1>10. CASE AddFirstSession
  <2> DEFINE s == Head(addSessQueue)
  <2>1. s \in WorldSessions /\ s \notin Elements(q)
    BY <1>2, <1>9, <1>10 DEF AddFirstSession
  <2>2. m_QueuedSessions' = q \/ m_QueuedSessions' = Append(q, s)
    BY <1>10 DEF AddFirstSession, Admit
  <2>3. OrderKept(q, q, {})
    BY DEF OrderKept
  <2> HIDE DEF s
  <2>4. OrderKept(q, Append(q, s), {})
    BY <1>2, <2>1, <2>3, ArrivalKeepsOrder
  <2>5. OrderKept(q, m_QueuedSessions', {})
    BY <2>2, <2>3, <2>4
  <2> QED
    BY <1>4, <2>5
<1>11. CASE ReplaceSession
  <2> DEFINE s == Head(addSessQueue)
  <2> DEFINE old == m_sessions[AccountOf[s]]
  <2> DEFINE r == RemoveQueuedSession(old)
  <2>1. s \in WorldSessions /\ s \notin InMap /\ s \notin Elements(q)
    BY <1>2, <1>9, <1>11 DEF ReplaceSession
  <2>2. /\ old \in WorldSessions
        /\ \/ m_QueuedSessions' = r.queue
           \/ m_QueuedSessions' = Append(r.queue, s)
        /\ m_sessions' = [m_sessions EXCEPT ![AccountOf[s]] = s]
    BY <1>1, <1>11, <2>1 DEF ReplaceSession, AdmissionTypes, Admit
  <2>3. old \in InMap
    BY <2>1, <2>2 DEF InMap
  <2>4. Mapped(old) /\ AccountOf[old] = AccountOf[s]
    BY <1>1, <2>1, <2>2, <2>3, InMapIsMapped DEF Held, EverySessionHeld
  <2>5. m_sessions' = [m_sessions EXCEPT ![AccountOf[old]] = s]
    BY <2>2, <2>4
  <2>6. old \notin InMap'
    BY <1>5, <2>1, <2>2, <2>3, <2>4, <2>5
  <2>7. r.queue \in Seq(WorldSessions) /\ OrderKept(q, r.queue, {old})
    BY <1>2, <2>2, RemoveQueued, RemovalKeepsOrder
  <2> HIDE DEF s, old, r
  <2>8. OrderKept(q, Append(r.queue, s), {old})
    BY <2>1, <2>7, ArrivalKeepsOrder
  <2>9. OrderKept(q, m_QueuedSessions', {old})
    BY <2>2, <2>7, <2>8
  <2> QED
    BY <1>4, <2>6, <2>9
<1>12. CASE BeginUpdate
  <2> DEFINE n == IF config.hardLimit # 0
                     /\ Least(IF config.hardLimit # 0
                              THEN Least(config.hardLimit, m_playerLimit)
                              ELSE m_playerLimit, GetActiveSessionCount)
                        + config.perTick > config.hardLimit
                  THEN 0 ELSE Least(config.perTick, Len(q))
  <2>1. \/ UNCHANGED q
        \/ m_QueuedSessions' = SubSeq(q, n + 1, Len(q))
    BY <1>12 DEF BeginUpdate, UpdateLimit
  <2>2. config.perTick \in Nat /\ Len(q) \in Nat
    BY <1>1, <1>2, ConfigTypes DEF ControlTypes
  <2>3. n \in 0 .. Len(q)
    BY <2>2 DEF Least
  <2> HIDE DEF n
  <2>4. CASE m_QueuedSessions' = SubSeq(q, n + 1, Len(q))
    <3>1. OrderKept(q, m_QueuedSessions', {})
      BY <1>2, <2>3, <2>4, FrontKeepsOrder
    <3> QED
      BY <1>4, <3>1
  <2> QED
    BY <1>3, <2>1, <2>4
<1>13. CASE KickAll
  BY <1>13 DEF KickAll, NobodyPasses, Elements
<1>14. ASSUME NEW s \in WorldSessions,
              \/ AddSession(s) \/ CloseSocket(s)
              \/ HandleMoveWorldportAckOpcode(s) \/ UpdateConnected(s)
              \/ UpdateDisconnected(s)
       PROVE  NobodyPasses
  BY <1>3, <1>14 DEF AddSession, CloseSocket, HandleMoveWorldportAckOpcode,
     UpdateConnected, UpdateDisconnected, Visited, control, admission
<1>15. ASSUME NEW s \in WorldSessions, NEW c \in Characters,
              HandlePlayerLoginOpcode(s, c)
       PROVE  NobodyPasses
  BY <1>3, <1>15 DEF HandlePlayerLoginOpcode, control, admission
<1>16. ASSUME NEW c \in Characters, CharacterNext(c) PROVE NobodyPasses
  BY <1>3, <1>16 DEF CharacterNext, Play, AutoSave, TeleportTo,
     ExecuteOperation, control, admission
<1>17. CASE RefuseSession
  BY <1>3, <1>17 DEF RefuseSession, control
<1>18. CASE \/ EndInbox \/ EndSessions \/ EndUpdate \/ EndMaps
            \/ HandlePlayerLoginCallback \/ EndResults \/ StopNow
  BY <1>3, <1>18 DEF EndInbox, EndSessions, EndUpdate, EndMaps,
     HandlePlayerLoginCallback, EndResults, StopNow, control, admission
<1>19. CASE UNCHANGED vars
  BY <1>3, <1>19 DEF vars, control, admission
<1> QED
  BY <1>7, <1>8, <1>10, <1>11, <1>12, <1>13, <1>14, <1>15, <1>16, <1>17, <1>18,
     <1>19
  DEF Next, WorldNext, SessionNext

-----------------------------------------------------------------------------
(* The theorems                                                            *)

IInv ==
  /\ TypeOK /\ Held /\ QueueInv /\ PlayerInv /\ SavesInv
  /\ LoadingIsUnderWay /\ ShutdownInv /\ LimitInv

LEMMA InitIInv == Init => IInv
<1> SUFFICES ASSUME Init PROVE IInv
  OBVIOUS
<1> USE SessionsAssumption
<1>1. config \in Configs /\ m_playerLimit \in Nat
  BY ConfigTypes DEF Init
<1>2. TypeOK
  <2>1. ControlTypes /\ ObjectTypes /\ LoadingType
    BY <1>1 DEF Init, ControlTypes, ObjectTypes, LoadingType
  <2>2. AdmissionTypes
    BY <1>1 DEF Init, AdmissionTypes
  <2>3. CharacterTypes
    BY DEF Init, CharacterTypes
  <2>4. DatabaseTypes
    BY DEF Init, DatabaseTypes
  <2> QED
    BY <2>1, <2>2, <2>3, <2>4, TypeParts
<1>3. Elements(addSessQueue) = {} /\ Elements(m_QueuedSessions) = {}
  BY DEF Init, Elements
<1>4. Held
  <2>1. Injective(addSessQueue)
    BY DEF Init, Injective
  <2> QED
    BY <1>3, <2>1 DEF Init, Held, EverySessionHeld, VisitInv, Waits, Mapped,
       Lingers
<1>5. QueueInv
  <2>1. Injective(m_QueuedSessions) /\ m_QueuedSessions \in Seq(WorldSessions)
    BY DEF Init, Injective
  <2>2. /\ m_sessions \in [Accounts -> WorldSessions \cup {NoSession}]
        /\ \A a \in Accounts :
             m_sessions[a] # NoSession => AccountOf[m_sessions[a]] = a
    BY DEF Init
  <2>3. Size(m_sessions) - Len(m_QueuedSessions) >= 0
    BY <1>3, <2>1, <2>2, QueueFitsMap
  <2> QED
    BY <1>3, <2>1, <2>3 DEF Init, QueueInv, QueueIsSound, QueueFlagged,
       GetActiveSessionCount
<1>6. PlayerInv
  BY <1>3 DEF Init, PlayerInv, FreshInv, PlayerAndSessionAgree, Idle, Waits
<1>7. SavesInv
  <2>1. QueueReads(<<>>, 0, 0)
    BY DEF QueueReads, ReadsAt
  <2> QED
    BY <2>1 DEF Init, SavesInv, LoadsWhatWasSaved
<1>8. LoadingIsUnderWay /\ ShutdownInv
  BY DEF Init, LoadingIsUnderWay, ShutdownInv
<1>9. LimitInv
  <2>1. InMap = {} /\ Limited = {}
    BY DEF Init, InMap, Limited
  <2>2. Cardinality(Limited) = 0
    BY <2>1, FS_EmptySet
  <2>3. /\ m_playerLimit = config.playerLimit /\ phase = "idle"
        /\ config.playerLimit \in Nat /\ config.perTick \in Nat
        /\ config.hardLimit \in Nat /\ Above \in {0, 1}
    BY <1>1, ConfigTypes DEF Init, Above
  <2>4. 0 <= m_playerLimit + 1 /\ 0 <= config.hardLimit + Above
    BY <2>3
  <2>5. Regulated => m_playerLimit > 0 \/ config.perTick > 0
    BY <2>3 DEF Regulated
  <2> QED
    BY <2>1, <2>2, <2>3, <2>4, <2>5 DEF LimitInv
<1> QED
  BY <1>2, <1>4, <1>5, <1>6, <1>7, <1>8, <1>9 DEF IInv

LEMMA NextIInv == IInv /\ [Next]_vars => IInv'
<1> SUFFICES ASSUME IInv, [Next]_vars PROVE IInv'
  OBVIOUS
<1>1. /\ TypeOK /\ Held /\ QueueInv /\ PlayerInv /\ SavesInv
      /\ LoadingIsUnderWay /\ ShutdownInv /\ LimitInv
  BY DEF IInv
<1>2. TypeOK'
  BY <1>1, TypeStep DEF QueueInv
<1>3. Held'
  BY <1>1, HeldStep
<1>4. QueueInv'
  BY <1>1, <1>2, <1>3, QueueStep DEF PlayerInv
<1>5. PlayerInv'
  BY <1>1, <1>2, PlayerStep
<1>6. SavesInv'
  BY <1>1, SavesStep
<1>7. LoadingIsUnderWay' /\ ShutdownInv'
  BY <1>1, LoadingStep, ShutdownStep
<1>8. LimitInv'
  BY <1>1, <1>2, LimitStep
<1> QED
  BY <1>2, <1>3, <1>4, <1>5, <1>6, <1>7, <1>8 DEF IInv

LEMMA IInvHolds == Spec => []IInv
<1>1. Init => IInv
  BY InitIInv
<1>2. IInv /\ [Next]_vars => IInv'
  BY NextIInv
<1> QED
  BY <1>1, <1>2, PTL DEF Spec

(* Every variable keeps its type; in particular the player limit stays a   *)
(* natural number under UpdateSessions' arithmetic.                        *)
THEOREM TypeCorrect == Spec => []TypeOK
<1>1. IInv => TypeOK
  BY DEF IInv
<1> QED
  BY <1>1, IInvHolds, PTL

(* However many sessions connect, whatever their accounts: none is leaked, *)
(* held twice, or updated after its delete.                                *)
THEOREM SessionsAreHeld == Spec => []EverySessionHeld
<1>1. IInv => EverySessionHeld
  BY DEF IInv, Held
<1> QED
  BY <1>1, IInvHolds, PTL

(* The login queue holds only sessions of the map, each once, and the      *)
(* number of active sessions never wraps, for every configuration.         *)
THEOREM QueueStaysSound == Spec => []QueueIsSound
<1>1. IInv => QueueIsSound
  BY DEF IInv, QueueInv
<1> QED
  BY <1>1, IInvHolds, PTL

(* Sessions and players agree about each other, through logins, take-overs *)
(* and log-outs.                                                           *)
THEOREM PlayersAgree == Spec => []PlayerAndSessionAgree
<1>1. IInv => PlayerAndSessionAgree
  BY DEF IInv, PlayerInv
<1> QED
  BY <1>1, IInvHolds, PTL

(* A login reads the version handed to SaveToDB last when it was asked     *)
(* for, whatever saves and loads of the character are under way.           *)
THEOREM LoadsAreCurrent == Spec => []LoadsWhatWasSaved
<1>1. IInv => LoadsWhatWasSaved
  BY DEF IInv, SavesInv
<1> QED
  BY <1>1, IInvHolds, PTL

(* Whoever waits for a character has it coming, so no session stays loading*)
(* for ever and keeps its account from connecting again.                   *)
THEOREM LoadsAreUnderWay == Spec => []LoadingIsUnderWay
<1>1. IInv => LoadingIsUnderWay
  BY DEF IInv
<1> QED
  BY <1>1, IInvHolds, PTL

(* A shutdown saves every character but those of lingering sessions.       *)
THEOREM ShutdownIsSafe == Spec => []ShutdownSavesConnected
<1>1. IInv => ShutdownSavesConnected
  BY ShutdownSaves DEF IInv
<1> QED
  BY <1>1, IInvHolds, PTL

(* The world never holds more players than PlayerHardLimit and, when       *)
(* LoginPerTick is above one, the one more that RemoveQueuedSession lets in*)
(* from the queue: for every configuration, however the clients connect.   *)
THEOREM HardLimitHolds == Spec => []HardLimitKept
<1>1. IInv => HardLimitKept
  BY DEF IInv, LimitInv, Regulated, Above, HardLimitKept
<1> QED
  BY <1>1, IInvHolds, PTL

(* In the login queue nobody passes another, however sessions leave it     *)
(* (RemoveQueuedSession, from wherever it is called) and whatever lets its *)
(* front in (UpdateSessions, RemoveQueuedSession).                         *)
THEOREM QueueKeepsOrder == Spec => [][NobodyPasses]_vars
<1>1. IInv /\ [Next]_vars => [NobodyPasses]_vars
  BY QueueOrderStep DEF IInv, PlayerInv
<1> QED
  BY <1>1, IInvHolds, PTL DEF Spec

=============================================================================
